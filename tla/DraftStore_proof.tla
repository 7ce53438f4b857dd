-------------------------- MODULE DraftStore_proof --------------------------
(***************************************************************************)
(* What is kept of a client's sites: the rows and bytes of a draft, for   *)
(* any number of requests, pages, assets and site keys, and the material   *)
(* the drafts are made from, its place on a site and its indexes, for any  *)
(* number of requests, tickets, members and captures.                      *)
(*                                                                         *)
(* Neither side locks: a draft rests on the order of its writes, bytes     *)
(* before rows, and so does material.  A reference attaches before it      *)
(* detaches, and what an adoption holds it has yet to look at or did not   *)
(* list.                                                                   *)
(***************************************************************************)
EXTENDS DraftStore, Material, FiniteSetTheorems, WellFoundedInduction, NaturalsInduction, TLAPS

-----------------------------------------------------------------------------
(* Type correctness.                                                       *)

\* Every request leaves the rows, the bucket and the requests well formed.
THEOREM TypeCorrect == Spec => []TypeOK
<1>. USE NoneIsApart, BoundIsNat, ModeIsBoolean
<1>1. Init => TypeOK
  BY DEF Init, TypeOK, Edits, Change, NoChange, WriterState, ReaderState, ForgetterState, Key
<1>2. TypeOK /\ [Next]_vars => TypeOK'
  <2>. SUFFICES ASSUME TypeOK, [Next]_vars PROVE TypeOK'
    OBVIOUS
  <2>1. CASE CreateDraft
    <3>1. /\ minted + 1 \in Key
          /\ {} \in Edits
      BY <2>1 DEF CreateDraft, TypeOK, Key, Edits
    <3>2. site' \in Site
      BY <2>1, <3>1 DEF CreateDraft, Site
    <3> QED
      BY <2>1, <3>2 DEF CreateDraft, TypeOK
  <2>2. ASSUME NEW w \in Writer, ReadVersion(w) PROVE TypeOK'
    <3>1. PICK c \in SensibleChange :
             writer' = [writer EXCEPT ![w] = [@ EXCEPT
                           !.pc = "versioned",
                           !.change = c,
                           !.expect = IF Conditional THEN site.version ELSE None]]
      BY <2>2 DEF ReadVersion
    <3>2. c \in Change
      BY DEF SensibleChange
    <3>3. (IF Conditional THEN site.version ELSE None) \in Nat \cup {None}
      BY <2>2 DEF ReadVersion, TypeOK, Site
    <3>4. \A e \in Nat \cup {None} :
             [writer[w] EXCEPT !.pc = "versioned", !.change = c, !.expect = e] \in WriterState
      BY <3>2 DEF TypeOK, WriterState
    <3>5. writer' \in [Writer -> WriterState]
      BY <3>1, <3>3, <3>4 DEF TypeOK
    <3> QED
      BY <2>2, <3>5 DEF ReadVersion, TypeOK
  <2>3. ASSUME NEW w \in Writer, ReadPages(w) PROVE TypeOK'
    <3>1. (IF site = None THEN {} ELSE site.body) \in Edits
      <4>1. {} \in Edits
        BY DEF Edits
      <4>2. site # None => site.body \in Edits
        BY DEF TypeOK, Site
      <4> QED
        BY <4>1, <4>2
    <3>2. [writer[w] EXCEPT !.pc = "computed",
                            !.read = IF site = None THEN {} ELSE site.body]
             \in WriterState
      BY <3>1 DEF TypeOK, WriterState
    <3> QED
      BY <2>3, <3>2 DEF ReadPages, TypeOK
  <2>4. ASSUME NEW w \in Writer, ResolveSite(w) PROVE TypeOK'
    <3>1. site # None => site.key \in Key
      BY DEF TypeOK, Site
    <3>2. writer[w] \in WriterState /\ writer[w].change.putAsset \in SUBSET Asset
      BY DEF TypeOK, WriterState, Change
    <3>3. CASE site = None
      BY <2>4, <3>3 DEF ResolveSite, TypeOK, WriterState
    <3>4. CASE site # None
      <4>1. [writer[w] EXCEPT !.pc = "putting",
                              !.key = site.key,
                              !.left = writer[w].change.putAsset] \in WriterState
        BY <3>1, <3>2, <3>4 DEF WriterState
      <4> QED
        BY <2>4, <3>4, <4>1 DEF ResolveSite, TypeOK
    <3> QED
      BY <3>3, <3>4
  <2>5. ASSUME NEW w \in Writer, NEW a \in Asset, PutBytes(w, a) PROVE TypeOK'
    BY <2>5 DEF PutBytes, TypeOK, WriterState
  <2>6. ASSUME NEW w \in Writer, Commit(w) PROVE TypeOK'
    <3>1. site \in Site
      BY <2>6 DEF Commit, Holds, TypeOK
    <3>2. writer[w] \in WriterState
      BY DEF TypeOK
    <3>c. /\ writer[w].change.put \in SUBSET Page
          /\ writer[w].change.putAsset \in SUBSET Asset
      BY <3>2 DEF WriterState, Change
    <3>b. /\ (site.body \ ((writer[w].change.put \cup writer[w].change.drop) \X Writer))
             \cup ((writer[w].read \cap (writer[w].change.put \X Writer))
                   \cup (writer[w].change.put \X {w})) \in Edits
      <4>1. site.body \in Edits /\ writer[w].read \in Edits
        BY <3>1, <3>2 DEF Site, WriterState
      <4>2. writer[w].change.put \X {w} \in Edits
        BY <3>c DEF Edits
      <4> QED
        BY <4>1, <4>2 DEF Edits
    <3>3. Applied(site, w) \in Site
      BY <3>1, <3>b, <3>c DEF Applied, Site
    <3>4. landed' \in SUBSET (Key \X Page \X Writer)
      BY <2>6, <3>1, <3>2 DEF Commit, TypeOK, Site, WriterState, Change
    <3> QED
      BY <2>6, <3>3, <3>4 DEF Commit, TypeOK, WriterState
  <2>7. ASSUME NEW w \in Writer, Refuse(w) PROVE TypeOK'
    BY <2>7 DEF Refuse, TypeOK, WriterState
  <2>8. ASSUME NEW w \in Writer, CommitToForgottenSite(w) PROVE TypeOK'
    <3>1. PICK q \in {"done", "failed", "refused"} : writer' = [writer EXCEPT ![w].pc = q]
      BY <2>8, Zenon DEF CommitToForgottenSite
    <3>2. writer' \in [Writer -> WriterState]
      BY <3>1 DEF TypeOK, WriterState
    <3> QED
      BY <2>8, <3>2 DEF CommitToForgottenSite, TypeOK
  <2>9. ASSUME NEW r \in Reader, ReadKey(r) PROVE TypeOK'
    BY <2>9 DEF ReadKey, TypeOK, ReaderState, Site
  <2>10. ASSUME NEW r \in Reader, ReadRow(r) PROVE TypeOK'
    BY <2>10 DEF ReadRow, TypeOK, ReaderState
  <2>11. ASSUME NEW r \in Reader, ReadObject(r) PROVE TypeOK'
    BY <2>11 DEF ReadObject, TypeOK, ReaderState
  <2>12. ASSUME NEW f \in Forgetter, ForgetKey(f) PROVE TypeOK'
    BY <2>12 DEF ForgetKey, TypeOK, ForgetterState, Site
  <2>13. ASSUME NEW f \in Forgetter, ForgetList(f) PROVE TypeOK'
    BY <2>13 DEF ForgetList, TypeOK, ForgetterState
  <2>14. ASSUME NEW f \in Forgetter, ForgetRows(f) PROVE TypeOK'
    BY <2>14 DEF ForgetRows, TypeOK, ForgetterState
  <2>15. ASSUME NEW f \in Forgetter, NEW a \in Asset, ForgetObject(f, a) PROVE TypeOK'
    <3>1. bucket' \in [Key -> [Asset -> Writer \cup {None}]]
      BY <2>15 DEF ForgetObject, TypeOK
    <3>2. forgetter' \in [Forgetter -> ForgetterState]
      BY <2>15 DEF ForgetObject, TypeOK, ForgetterState
    <3> QED
      BY <2>15, <3>1, <3>2 DEF ForgetObject, TypeOK
  <2>16. CASE UNCHANGED vars
    BY <2>16 DEF vars, TypeOK
  <2> QED
    BY <2>1, <2>2, <2>3, <2>4, <2>5, <2>6, <2>7, <2>8, <2>9, <2>10, <2>11,
       <2>12, <2>13, <2>14, <2>15, <2>16 DEF Next
<1> QED
  BY <1>1, <1>2, PTL DEF Spec

-----------------------------------------------------------------------------
(* An asset that lists can be read.                                        *)

\* Bytes a writer has put stay put until a forget of the site begins.
PutBytesStay ==
    \A w \in Writer :
        writer[w].pc = "putting" =>
            /\ writer[w].key \in Key
            /\ \A a \in writer[w].change.putAsset \ writer[w].left :
                   bucket[writer[w].key][a] # None \/ Doomed(writer[w].key)

\* A reader holding an asset row holds it on a site whose bytes are there.
HeldRowHasBytes ==
    \A r \in Reader :
        /\ reader[r].pc # "idle" => reader[r].asset \in Asset
        /\ reader[r].pc \in {"keyed", "row"} => reader[r].key \in Key
        /\ reader[r].pc = "row" =>
              bucket[reader[r].key][reader[r].asset] # None \/ Doomed(reader[r].key)

\* A forget under way knows the key it is deleting.
ForgetHasKey ==
    \A f \in Forgetter :
        forgetter[f].pc \in {"keyed", "deleting"} => forgetter[f].key \in Key

BytesInv ==
    /\ TypeOK
    /\ RowHasBytes
    /\ ReadFindsBytes
    /\ PutBytesStay
    /\ HeldRowHasBytes
    /\ ForgetHasKey


\* Once begun, a forget stays begun, and of the same key.
LEMMA DoomedIsForever ==
    ASSUME TypeOK, Next, NEW k \in Key, Doomed(k)
    PROVE  Doomed(k)'
<1>1. PICK f \in Forgetter : forgetter[f].pc # "idle" /\ forgetter[f].key = k
  BY DEF Doomed
<1>2. forgetter'[f].pc # "idle" /\ forgetter'[f].key = k
  <2>1. CASE UNCHANGED forgetter
    BY <1>1, <2>1
  <2>2. ASSUME NEW g \in Forgetter, ForgetKey(g)
        PROVE  forgetter'[f].pc # "idle" /\ forgetter'[f].key = k
    BY <1>1, <2>2 DEF ForgetKey, TypeOK
  <2>3. ASSUME NEW g \in Forgetter, ForgetList(g)
        PROVE  forgetter'[f].pc # "idle" /\ forgetter'[f].key = k
    BY <1>1, <2>3 DEF ForgetList, TypeOK, ForgetterState
  <2>4. ASSUME NEW g \in Forgetter, ForgetRows(g)
        PROVE  forgetter'[f].pc # "idle" /\ forgetter'[f].key = k
    BY <1>1, <2>4 DEF ForgetRows, TypeOK, ForgetterState
  <2>5. ASSUME NEW g \in Forgetter, NEW a \in Asset, ForgetObject(g, a)
        PROVE  forgetter'[f].pc # "idle" /\ forgetter'[f].key = k
    BY <1>1, <2>5 DEF ForgetObject, TypeOK, ForgetterState
  <2> QED
    BY <2>1, <2>2, <2>3, <2>4, <2>5 DEF Next, CreateDraft, ReadVersion, ReadPages, ResolveSite,
                                        PutBytes,
       Commit, Refuse, CommitToForgottenSite, ReadKey, ReadRow, ReadObject
<1> QED
  BY <1>1, <1>2 DEF Doomed

\* Bytes once in the bucket are lost only to a forget of their site.
LEMMA BytesOutliveAllButForget ==
    ASSUME TypeOK, ForgetHasKey, Next, NEW k \in Key, NEW a \in Asset,
           bucket[k][a] # None \/ Doomed(k)
    PROVE  (bucket[k][a] # None \/ Doomed(k))'
<1>. USE NoneIsApart
<1>1. CASE Doomed(k)
  BY <1>1, DoomedIsForever
<1>2. CASE bucket[k][a] # None /\ UNCHANGED bucket
  BY <1>2
<1>3. ASSUME NEW w \in Writer, NEW b \in Asset, PutBytes(w, b), bucket[k][a] # None
      PROVE  bucket'[k][a] # None
  BY <1>3 DEF PutBytes, TypeOK
<1>4. ASSUME NEW f \in Forgetter, NEW b \in Asset, ForgetObject(f, b), bucket[k][a] # None
      PROVE  bucket'[k][a] # None \/ Doomed(k)'
  <2>1. CASE forgetter[f].key = k
    <3>1. Doomed(k)
      BY <1>4, <2>1 DEF ForgetObject, Doomed
    <3> QED
      BY <3>1, DoomedIsForever
  <2>2. CASE forgetter[f].key # k
    BY <1>4, <2>2 DEF ForgetObject, TypeOK
  <2> QED
    BY <2>1, <2>2
<1> QED
  BY <1>1, <1>2, <1>3, <1>4 DEF Next, CreateDraft, ReadVersion, ReadPages, ResolveSite,
     Commit, Refuse, CommitToForgottenSite, ReadKey, ReadRow, ReadObject,
     ForgetKey, ForgetList, ForgetRows

\* Nothing is listed at first.
LEMMA BytesInvInit == Init => BytesInv
BY NoneIsApart, BoundIsNat, ModeIsBoolean
   DEF Init, BytesInv, TypeOK, Site, Edits, Change, NoChange, WriterState, ReaderState,
       ForgetterState, Key, RowHasBytes, ReadFindsBytes, PutBytesStay, HeldRowHasBytes,
       ForgetHasKey

\* Every step keeps the bytes of what is listed.
LEMMA BytesInvStep ==
    ASSUME BytesInv, TypeOK', [Next]_vars
    PROVE  BytesInv'
<1>. USE NoneIsApart, BoundIsNat
<1>1. CASE UNCHANGED vars
  BY <1>1 DEF vars, BytesInv, RowHasBytes, ReadFindsBytes, PutBytesStay, HeldRowHasBytes,
              ForgetHasKey, Doomed
<1>2. CASE Next
  <2>1. /\ TypeOK /\ RowHasBytes /\ ReadFindsBytes /\ PutBytesStay
        /\ HeldRowHasBytes /\ ForgetHasKey
    BY DEF BytesInv
  \* Whatever has bytes or a forget now has them after the step.
  <2>2. ASSUME NEW k \in Key, NEW a \in Asset, bucket[k][a] # None \/ Doomed(k)
        PROVE  (bucket[k][a] # None \/ Doomed(k))'
    BY <1>2, <2>1, <2>2, BytesOutliveAllButForget
  <2>3. RowHasBytes'
    <3>1. SUFFICES ASSUME NEW k \in Key, NEW a \in Asset,
                          site' # None, k = site'.key, a \in site'.assets
                   PROVE  (bucket[k][a] # None \/ Doomed(k))'
      BY DEF RowHasBytes, TypeOK, Site, Doomed
    <3>2. CASE site # None /\ site.key = k /\ a \in site.assets
      BY <2>1, <2>2, <3>2 DEF RowHasBytes, Doomed
    <3>3. CASE CreateDraft
      BY <3>1, <3>3 DEF CreateDraft
    <3>4. ASSUME NEW w \in Writer, Commit(w)
          PROVE  (bucket[k][a] # None \/ Doomed(k))'
      <4>1. /\ site # None /\ site.key = k /\ writer[w].key = k
            /\ a \in site.assets \/ a \in writer[w].change.putAsset
        BY <3>1, <3>4 DEF Commit, Holds, Applied
      <4>2. CASE a \in site.assets
        BY <3>2, <4>1, <4>2
      <4>3. CASE a \in writer[w].change.putAsset
        <5>1. bucket[k][a] # None \/ Doomed(k)
          BY <2>1, <3>4, <4>1, <4>3 DEF Commit, AtCommit, PutBytesStay, Doomed
        <5> QED
          BY <2>2, <5>1
      <4> QED
        BY <4>1, <4>2, <4>3
    <3>5. CASE UNCHANGED site
      BY <3>1, <3>2, <3>5
    <3>6. ASSUME NEW f \in Forgetter, ForgetRows(f)
          PROVE  (bucket[k][a] # None \/ Doomed(k))'
      BY <3>1, <3>2, <3>6 DEF ForgetRows
    <3> QED
      BY <1>2, <3>3, <3>4, <3>5, <3>6
         DEF Next, ReadVersion, ReadPages, ResolveSite, PutBytes, Refuse,
             CommitToForgottenSite, ReadKey, ReadRow, ReadObject, ForgetKey, ForgetList,
             ForgetObject
  <2>4. PutBytesStay'
    <3>1. SUFFICES ASSUME NEW w \in Writer, writer'[w].pc = "putting"
                   PROVE  /\ writer'[w].key \in Key
                          /\ \A k \in Key, a \in writer'[w].change.putAsset \ writer'[w].left :
                                k = writer'[w].key => (bucket[k][a] # None \/ Doomed(k))'
      BY DEF PutBytesStay, Doomed
    <3>2. writer'[w].change.putAsset \in SUBSET Asset
      BY DEF TypeOK, WriterState, Change
    <3>3. CASE writer'[w] = writer[w]
      BY <2>1, <2>2, <3>1, <3>2, <3>3 DEF PutBytesStay, Doomed
    <3>4. CASE ResolveSite(w)
      <4>1. site # None => site.key \in Key
        BY DEF BytesInv, TypeOK, Site
      <4> QED
        BY <2>1, <3>1, <3>4, <4>1 DEF ResolveSite, TypeOK, WriterState
    <3>5. ASSUME NEW b \in Asset, PutBytes(w, b)
          PROVE  /\ writer'[w].key \in Key
                 /\ \A k \in Key, a \in writer'[w].change.putAsset \ writer'[w].left :
                       k = writer'[w].key => (bucket[k][a] # None \/ Doomed(k))'
      <4>1. /\ writer[w].pc = "putting"
            /\ writer'[w].key = writer[w].key
            /\ writer'[w].change = writer[w].change
            /\ writer'[w].left = writer[w].left \ {b}
            /\ writer[w].key \in Key
        BY <2>1, <3>5 DEF PutBytes, TypeOK, WriterState, PutBytesStay
      <4>2. bucket'[writer[w].key][b] = w
        BY <2>1, <3>5, <4>1 DEF PutBytes, TypeOK
      <4>3. ASSUME NEW k \in Key, NEW a \in writer'[w].change.putAsset \ writer'[w].left,
                   k = writer'[w].key
            PROVE  (bucket[k][a] # None \/ Doomed(k))'
        <5>1. CASE a = b
          BY <4>1, <4>2, <4>3, <5>1
        <5>2. CASE a # b
          <6>1. a \in Asset /\ (bucket[k][a] # None \/ Doomed(k))
            BY <2>1, <3>2, <4>1, <4>3, <5>2 DEF PutBytesStay, Doomed
          <6> QED
            BY <2>2, <6>1
        <5> QED
          BY <5>1, <5>2
      <4> QED
        BY <4>1, <4>3
    <3>6. CASE writer'[w].pc # "putting"
      BY <3>1, <3>6
    <3>7. ASSUME NEW v \in Writer,
                 \/ ReadVersion(v) \/ ReadPages(v) \/ ResolveSite(v)
                 \/ \E b \in Asset : PutBytes(v, b)
                 \/ Commit(v) \/ Refuse(v) \/ CommitToForgottenSite(v)
          PROVE  \/ writer'[w] = writer[w]
                 \/ writer'[w].pc # "putting"
                 \/ ResolveSite(w)
                 \/ \E b \in Asset : PutBytes(w, b)
      <4>1. CASE v # w
        <5>1. \E x : writer' = [writer EXCEPT ![v] = x]
          BY <3>7 DEF ReadVersion, ReadPages, ResolveSite, PutBytes, Commit, Refuse,
                      CommitToForgottenSite
        <5> QED
          BY <2>1, <4>1, <5>1 DEF TypeOK
      <4>2. CASE v = w /\ ReadVersion(w)
        <5>1. PICK c \in SensibleChange :
                 writer'[w] = [writer[w] EXCEPT
                                  !.pc = "versioned",
                                  !.change = c,
                                  !.expect = IF Conditional THEN site.version ELSE None]
          BY <2>1, <4>2, Zenon DEF ReadVersion, TypeOK
        <5> QED
          BY <2>1, <5>1 DEF TypeOK, WriterState
      <4>3. CASE v = w /\ ReadPages(w)
        BY <2>1, <4>3 DEF ReadPages, TypeOK, WriterState
      <4>4. CASE v = w /\ (Commit(w) \/ Refuse(w) \/ CommitToForgottenSite(w))
        BY <2>1, <4>4 DEF Commit, Refuse, CommitToForgottenSite, TypeOK, WriterState
      <4> QED
        BY <3>7, <4>1, <4>2, <4>3, <4>4
    <3> QED
      BY <1>2, <3>3, <3>4, <3>5, <3>6, <3>7
         DEF Next, CreateDraft, ReadKey, ReadRow, ReadObject, ForgetKey, ForgetList,
             ForgetRows, ForgetObject
  <2>5. ReadFindsBytes' /\ HeldRowHasBytes'
    <3>1. ASSUME NEW r \in Reader
          PROVE  /\ reader'[r].pc # "idle" => reader'[r].asset \in Asset
                 /\ reader'[r].pc \in {"keyed", "row"} => reader'[r].key \in Key
                 /\ reader'[r].pc = "row" =>
                       (bucket[reader[r].key][reader[r].asset] # None \/ Doomed(reader[r].key))'
                 /\ reader'[r].pc = "null" /\ reader'[r].key # None => Doomed(reader[r].key)'
      <4>1. reader[r] \in ReaderState /\ reader'[r] \in ReaderState
        BY <2>1 DEF TypeOK
      <4>2. CASE reader'[r] = reader[r]
        <5>1. ASSUME NEW k \in Key, NEW a \in Asset, k = reader[r].key, a = reader[r].asset,
                     reader[r].pc = "row"
              PROVE  (bucket[k][a] # None \/ Doomed(k))'
          BY <2>1, <2>2, <5>1 DEF HeldRowHasBytes, Doomed
        <5>2. ASSUME NEW k \in Key, k = reader[r].key, reader[r].pc = "null"
              PROVE  Doomed(k)'
          <6>1. k # None
            BY DEF Key
          <6>2. Doomed(k)
            BY <2>1, <5>2, <6>1 DEF ReadFindsBytes, Doomed
          <6> QED
            BY <1>2, <2>1, <6>2, DoomedIsForever
        <5> QED
          BY <2>1, <4>1, <4>2, <5>1, <5>2 DEF HeldRowHasBytes, Doomed, ReaderState
      <4>3. CASE ReadKey(r)
        <5>1. site # None => site.key \in Key
          BY <2>1 DEF TypeOK, Site
        <5> QED
          BY <2>1, <4>3, <5>1 DEF ReadKey, TypeOK
      <4>4. CASE ReadRow(r)
        <5>1. CASE RowOf(reader[r].key, reader[r].asset)
          <6>1. /\ reader'[r] = [reader[r] EXCEPT !.pc = "row"]
                /\ UNCHANGED <<bucket, forgetter>>
            BY <2>1, <4>4, <5>1 DEF ReadRow, TypeOK
          <6>2. /\ reader[r].pc = "keyed"
                /\ reader[r].key \in Key
                /\ reader[r].asset \in Asset
                /\ bucket[reader[r].key][reader[r].asset] # None \/ Doomed(reader[r].key)
            BY <2>1, <4>4, <5>1 DEF ReadRow, HeldRowHasBytes, RowOf, Holds, RowHasBytes, Doomed
          <6> QED
            BY <4>1, <6>1, <6>2 DEF Doomed, ReaderState
        <5>2. CASE ~RowOf(reader[r].key, reader[r].asset)
          <6>1. reader'[r] = [[reader[r] EXCEPT !.pc = "null"] EXCEPT !.key = None]
            BY <2>1, <4>4, <5>2 DEF ReadRow, TypeOK
          <6>2. reader[r].asset \in Asset
            BY <2>1, <4>4 DEF ReadRow, HeldRowHasBytes
          <6> QED
            BY <4>1, <6>1, <6>2 DEF ReaderState
        <5> QED
          BY <5>1, <5>2
      <4>5. CASE ReadObject(r)
        BY <2>1, <4>1, <4>5 DEF ReadObject, HeldRowHasBytes, Doomed, TypeOK, ReaderState
      <4>6. ASSUME NEW q \in Reader, q # r, ReadKey(q) \/ ReadRow(q) \/ ReadObject(q)
            PROVE  reader'[r] = reader[r]
        BY <2>1, <4>6 DEF ReadKey, ReadRow, ReadObject, TypeOK
      <4> QED
        BY <1>2, <4>2, <4>3, <4>4, <4>5, <4>6
           DEF Next, CreateDraft, ReadVersion, ReadPages, ResolveSite, PutBytes, Commit, Refuse,
               CommitToForgottenSite, ForgetKey, ForgetList, ForgetRows, ForgetObject
    <3> QED
      BY <3>1 DEF ReadFindsBytes, HeldRowHasBytes, Doomed
  <2>6. ForgetHasKey'
    <3>1. site # None => site.key \in Key
      BY <2>1 DEF TypeOK, Site
    <3>2. CASE UNCHANGED forgetter
      BY <2>1, <3>2 DEF ForgetHasKey
    <3>3. ASSUME NEW f \in Forgetter, ForgetKey(f) PROVE ForgetHasKey'
      BY <2>1, <3>1, <3>3 DEF ForgetKey, ForgetHasKey, TypeOK
    <3>4. ASSUME NEW f \in Forgetter, ForgetList(f) PROVE ForgetHasKey'
      BY <2>1, <3>4 DEF ForgetList, ForgetHasKey, TypeOK, ForgetterState
    <3>5. ASSUME NEW f \in Forgetter, ForgetRows(f) PROVE ForgetHasKey'
      BY <2>1, <3>5 DEF ForgetRows, ForgetHasKey, TypeOK, ForgetterState
    <3>6. ASSUME NEW f \in Forgetter, NEW a \in Asset, ForgetObject(f, a) PROVE ForgetHasKey'
      BY <2>1, <3>6 DEF ForgetObject, ForgetHasKey, TypeOK, ForgetterState
    <3> QED
      BY <1>2, <3>2, <3>3, <3>4, <3>5, <3>6
         DEF Next, CreateDraft, ReadVersion, ReadPages, ResolveSite, PutBytes, Commit, Refuse,
             CommitToForgottenSite, ReadKey, ReadRow, ReadObject
  <2> QED
    BY <2>3, <2>4, <2>5, <2>6 DEF BytesInv
<1> QED
  BY <1>1, <1>2

\* d1r2-store.ts, `write` and `forget`: whatever the interleaving of writers,
\* readers and forgets, an asset that lists has its bytes, and a reader who
\* found the row finds the object, unless a forget of the site has begun.
THEOREM ListedAssetsAreReadable == Spec => []AssetsAreReadable
<1>1. Init => BytesInv
  BY BytesInvInit
<1>2. BytesInv /\ TypeOK' /\ [Next]_vars => BytesInv'
  BY BytesInvStep
<1>3. BytesInv => AssetsAreReadable
  BY DEF BytesInv, AssetsAreReadable
<1> QED
  BY <1>1, <1>2, <1>3, TypeCorrect, PTL DEF Spec


-----------------------------------------------------------------------------
(* No lost update.                                                         *)

Reading == {"versioned", "computed", "putting"}

\* A version that has not moved since a writer read it still names the pages
\* the writer then read: the fact the compare-and-set rests on.
CasInv ==
    /\ TypeOK
    /\ NoLostEdit
    /\ site # None => minted # 0
    /\ minted = 0 => landed = {} /\ \A w \in Writer : writer[w].pc \notin Reading
    /\ \A w \in Writer :
          /\ writer[w].pc \in Reading => writer[w].expect \in Nat
          /\ writer[w].pc \in Reading /\ site # None => writer[w].expect <= site.version
          /\ /\ writer[w].pc \in {"computed", "putting"}
             /\ site # None
             /\ writer[w].expect = site.version
             => writer[w].read = site.body

\* Every step keeps what a writer read true at the version it read.
LEMMA CasInvStep ==
    ASSUME Conditional = TRUE, MaxKeys = 1, CasInv, TypeOK', [Next]_vars
    PROVE  CasInv'
<1>. USE NoneIsApart
<1>0. TypeOK
  BY DEF CasInv
<1>1. CASE UNCHANGED <<minted, site, writer, landed>>
  BY <1>1 DEF CasInv, NoLostEdit
<1>2. CASE CreateDraft
  <2>1. /\ minted = 0 /\ landed = {} /\ landed' = {} /\ minted' = 1
        /\ \A w \in Writer : writer[w].pc \notin Reading
        /\ UNCHANGED writer
    BY <1>0, <1>2 DEF CreateDraft, CasInv, TypeOK
  <2> QED
    BY <2>1 DEF CasInv, NoLostEdit, Reading
<1>3. ASSUME NEW w \in Writer, ReadVersion(w) PROVE CasInv'
  <2>1. PICK c \in SensibleChange :
           writer' = [writer EXCEPT ![w] = [@ EXCEPT
                         !.pc = "versioned",
                         !.change = c,
                         !.expect = IF Conditional THEN site.version ELSE None]]
    BY <1>3 DEF ReadVersion
  <2>2. /\ writer'[w].pc = "versioned"
        /\ writer'[w].expect = site.version
        /\ \A v \in Writer \ {w} : writer'[v] = writer[v]
    BY <1>0, <2>1 DEF TypeOK, WriterState
  <2>3. site # None /\ site.version \in Nat /\ UNCHANGED <<minted, site, landed>>
    BY <1>0, <1>3 DEF ReadVersion, TypeOK, Site
  <2> QED
    BY <2>2, <2>3 DEF CasInv, NoLostEdit, Reading
<1>4. ASSUME NEW w \in Writer, ReadPages(w) PROVE CasInv'
  <2>1. /\ writer[w].pc = "versioned"
        /\ writer'[w].pc = "computed"
        /\ writer'[w].expect = writer[w].expect
        /\ site # None => writer'[w].read = site.body
        /\ \A v \in Writer \ {w} : writer'[v] = writer[v]
        /\ UNCHANGED <<minted, site, landed>>
    BY <1>0, <1>4 DEF ReadPages, TypeOK, WriterState
  <2> QED
    BY <2>1 DEF CasInv, NoLostEdit, Reading
<1>5. ASSUME NEW w \in Writer, ResolveSite(w) PROVE CasInv'
  <2>1. /\ writer[w].pc = "computed"
        /\ writer'[w].pc \in {"putting", "failed"}
        /\ writer'[w].expect = writer[w].expect
        /\ writer'[w].read = writer[w].read
        /\ \A v \in Writer \ {w} : writer'[v] = writer[v]
        /\ UNCHANGED <<minted, site, landed>>
    BY <1>0, <1>5 DEF ResolveSite, TypeOK, WriterState
  <2> QED
    BY <2>1 DEF CasInv, NoLostEdit, Reading
<1>6. ASSUME NEW w \in Writer, NEW a \in Asset, PutBytes(w, a) PROVE CasInv'
  <2>1. /\ \A v \in Writer : /\ writer'[v].pc = writer[v].pc
                              /\ writer'[v].expect = writer[v].expect
                              /\ writer'[v].read = writer[v].read
        /\ UNCHANGED <<minted, site, landed>>
    BY <1>0, <1>6 DEF PutBytes, TypeOK, WriterState
  <2> QED
    BY <2>1 DEF CasInv, NoLostEdit
<1>7. ASSUME NEW w \in Writer, Refuse(w) \/ CommitToForgottenSite(w) PROVE CasInv'
  <2>1. /\ writer'[w].pc \notin Reading
        /\ \A v \in Writer \ {w} : writer'[v] = writer[v]
        /\ UNCHANGED <<minted, site, landed>>
    BY <1>0, <1>7 DEF Refuse, CommitToForgottenSite, TypeOK, WriterState, Reading
  <2> QED
    BY <2>1 DEF CasInv, NoLostEdit, Reading
<1>8. ASSUME NEW w \in Writer, Commit(w) PROVE CasInv'
  <2>1. /\ writer[w].pc = "putting"
        /\ site # None
        /\ site' = Applied(site, w)
        /\ writer[w].expect = site.version
        /\ writer[w].read = site.body
        /\ minted' = minted
    BY <1>8 DEF Commit, AtCommit, Holds, GuardHolds, CasInv, Reading
  <2>2. /\ writer'[w].pc = "done"
        /\ \A v \in Writer \ {w} : writer'[v] = writer[v]
    BY <1>0, <1>8 DEF Commit, TypeOK, WriterState
  <2>3. /\ site'.version = site.version + 1
        /\ site.version \in Nat
        /\ site'.key = site.key
    BY <1>0, <2>1 DEF Applied, TypeOK, Site
  <2>4. NoLostEdit'
    <3>1. SUFFICES ASSUME NEW p \in Page, NEW v \in Writer, <<site.key, p, v>> \in landed'
                   PROVE  <<p, v>> \in site'.body
      BY <2>3 DEF NoLostEdit
    <3>2. \/ <<site.key, p, v>> \in landed /\ p \notin writer[w].change.drop
          \/ p \in writer[w].change.put /\ v = w
      BY <1>8, <3>1 DEF Commit
    <3>3. <<site.key, p, v>> \in landed => <<p, v>> \in site.body
      BY <2>1 DEF CasInv, NoLostEdit
    <3> QED
      BY <2>1, <3>2, <3>3 DEF Applied
  <2>5. \A v \in Writer \ {w} :
           writer[v].pc \in Reading => writer[v].expect \in Nat /\ writer[v].expect <= site.version
    BY <2>1 DEF CasInv
  <2>6. \A v \in Writer :
          /\ writer'[v].pc \in Reading => writer'[v].expect \in Nat
          /\ writer'[v].pc \in Reading => writer'[v].expect < site'.version
    BY <2>2, <2>3, <2>5 DEF Reading
  <2>7. minted' # 0
    BY <2>1 DEF CasInv
  <2> QED
    BY <2>3, <2>4, <2>6, <2>7 DEF CasInv, Reading
<1>9. ASSUME NEW f \in Forgetter, ForgetRows(f) PROVE CasInv'
  BY <1>9 DEF ForgetRows, CasInv, NoLostEdit
<1> QED
  BY <1>1, <1>2, <1>3, <1>4, <1>5, <1>6, <1>7, <1>8, <1>9
     DEF Next, vars, ReadKey, ReadRow, ReadObject, ForgetKey, ForgetList, ForgetObject

\* SiteWrite.expect, site-store.ts: when every writer passes the version it
\* read before the pages it read, no edit that landed on a site is lost,
\* however many writers race, however their asset puts and batches interleave
\* and whenever the site is forgotten.  MaxKeys = 1 says the slug is not
\* recreated: a recreated site starts its versions again at 0, which the
\* comparison cannot see (MCDraftRecreated.cfg).
THEOREM CasLosesNoEdit ==
    ASSUME Conditional = TRUE, MaxKeys = 1
    PROVE  Spec => []NoLostEdit
<1>1. Init => CasInv
  BY NoneIsApart, TypeCorrect
     DEF Init, CasInv, NoLostEdit, Reading, TypeOK, Site, Edits, Change, NoChange, WriterState,
         ReaderState, ForgetterState, Key
<1>2. CasInv /\ TypeOK' /\ [Next]_vars => CasInv'
  BY CasInvStep
<1>3. CasInv => NoLostEdit
  BY DEF CasInv
<1> QED
  BY <1>1, <1>2, <1>3, TypeCorrect, PTL DEF Spec

-----------------------------------------------------------------------------
(* Conditional writes are serial.                                          *)

\* What the mapping rests on besides: a writer's change is one transition, and a
\* writer that puts has the key of a site.
SerialInv ==
    /\ CasInv
    /\ \A w \in Writer :
          /\ writer[w].pc \in Reading => writer[w].change \in SensibleChange
          /\ writer[w].pc = "putting" => writer[w].key \in Key

\* A writer settles its change as it begins and its key as it resolves the site; every
\* other step keeps both.
LEMMA SerialInvStep ==
    ASSUME Conditional = TRUE, MaxKeys = 1, SerialInv, TypeOK', [Next]_vars
    PROVE  SerialInv'
<1>1. CasInv' /\ TypeOK
  BY CasInvStep DEF SerialInv, CasInv
<1> SUFFICES ASSUME NEW w \in Writer
             PROVE  /\ writer'[w].pc \in Reading => writer'[w].change \in SensibleChange
                    /\ writer'[w].pc = "putting" => writer'[w].key \in Key
  BY <1>1 DEF SerialInv
<1>2. CASE writer'[w] = writer[w]
  BY <1>2 DEF SerialInv
<1>3. CASE ReadVersion(w)
  <2>1. PICK c \in SensibleChange :
           writer' = [writer EXCEPT ![w] = [@ EXCEPT
                         !.pc = "versioned",
                         !.change = c,
                         !.expect = IF Conditional THEN site.version ELSE None]]
    BY <1>3 DEF ReadVersion
  <2>2. writer'[w].pc = "versioned" /\ writer'[w].change = c
    BY <1>1, <2>1 DEF TypeOK, WriterState
  <2> QED
    BY <2>2
<1>4. CASE ReadPages(w)
  BY <1>1, <1>4 DEF ReadPages, TypeOK, WriterState, SerialInv, Reading
<1>5. CASE ResolveSite(w)
  <2>1. site # None => site.key \in Key
    BY <1>1 DEF TypeOK, Site
  <2> QED
    BY <1>1, <1>5, <2>1 DEF ResolveSite, TypeOK, WriterState, SerialInv, Reading
<1>6. ASSUME NEW a \in Asset, PutBytes(w, a)
      PROVE  /\ writer'[w].pc \in Reading => writer'[w].change \in SensibleChange
             /\ writer'[w].pc = "putting" => writer'[w].key \in Key
  BY <1>1, <1>6 DEF PutBytes, TypeOK, WriterState, SerialInv, Reading
<1>7. CASE Commit(w) \/ Refuse(w) \/ CommitToForgottenSite(w)
  BY <1>1, <1>7 DEF Commit, Refuse, CommitToForgottenSite, TypeOK, WriterState, Reading
<1>8. \/ writer'[w] = writer[w] \/ ReadVersion(w) \/ ReadPages(w) \/ ResolveSite(w)
      \/ \E a \in Asset : PutBytes(w, a)
      \/ Commit(w) \/ Refuse(w) \/ CommitToForgottenSite(w)
  <2>1. CASE UNCHANGED writer
    BY <2>1
  <2>2. ASSUME NEW v \in Writer, v # w,
               \/ ReadVersion(v) \/ ReadPages(v) \/ ResolveSite(v)
               \/ \E a \in Asset : PutBytes(v, a)
               \/ Commit(v) \/ Refuse(v) \/ CommitToForgottenSite(v)
        PROVE  writer'[w] = writer[w]
    BY <1>1, <2>2 DEF ReadVersion, ReadPages, ResolveSite, PutBytes, Commit, Refuse, CommitToForgottenSite,
                      TypeOK
  <2> QED
    BY <2>1, <2>2 DEF Next, vars, CreateDraft, ReadKey, ReadRow, ReadObject, ForgetKey, ForgetList,
                      ForgetObject, ForgetRows
<1> QED
  BY <1>2, <1>3, <1>4, <1>5, <1>6, <1>7, <1>8

\* No draft and nobody under way: the serial draft begins so.
LEMMA SerialInit == Init => Serial!Init
  BY DEF Init, Serial!Init, Content, Phase, Behind, UnderWay

\* A caller that moves while the draft stays: what the serial draft sees of it is its
\* phase, and nothing at all as long as it is under way.
LEMMA CallerMoves ==
    ASSUME TypeOK, TypeOK', NEW w \in Writer, NEW pc, UNCHANGED site,
           writer'[w].pc = pc, \A v \in Writer \ {w} : writer'[v] = writer[v]
    PROVE  /\ Content' = Content
           /\ Phase' = [Phase EXCEPT ![w] = IF pc \in Reading THEN "open" ELSE pc]
           /\ pc \notin Reading => Behind' = Behind \ {w}
           /\ UnderWay(w) /\ pc \in Reading /\ writer'[w].expect = writer[w].expect =>
                 Phase' = Phase /\ Behind' = Behind
<1>1. Content' = Content
  BY DEF Content
<1>2. Phase' = [Phase EXCEPT ![w] = IF pc \in Reading THEN "open" ELSE pc]
  BY DEF Phase, UnderWay, Reading
<1>3. pc \notin Reading => Behind' = Behind \ {w}
  BY DEF Behind, UnderWay, Reading
<1>4. ASSUME UnderWay(w), pc \in Reading, writer'[w].expect = writer[w].expect
      PROVE  Phase' = Phase /\ Behind' = Behind
  BY <1>4 DEF Phase, Behind, UnderWay, Reading
<1> QED
  BY <1>1, <1>2, <1>3, <1>4

\* Every step of the store is a step of the serial draft, or none.  A commit is a
\* Write: its version is the site's, so the writer is not behind and the pages it
\* read are those that are there.
LEMMA SerialStep ==
    ASSUME Conditional = TRUE, MaxKeys = 1, SerialInv, SerialInv', [Next]_vars
    PROVE  [Serial!Next]_<<Content, Phase, Behind>>
<1> USE NoneIsApart
<1>0. TypeOK /\ TypeOK' /\ CasInv /\ CasInv'
  BY DEF SerialInv, CasInv
<1> DEFINE Still == UNCHANGED <<Content, Phase, Behind>>
<1>1. CASE UNCHANGED <<site, writer>>
  <2>1. Still
    BY <1>1 DEF Content, Phase, Behind, UnderWay
  <2> QED
    BY <2>1
<1>2. site # None => Content # None /\ site.version \in Nat
  <2>1. ASSUME site # None PROVE site \in Site
    BY <1>0, <2>1 DEF TypeOK
  <2>2. ASSUME site # None PROVE Content \in [pages: SUBSET Page, body: Edits, assets: SUBSET Asset]
    BY <2>1, <2>2 DEF Content, Site
  <2> QED
    BY <2>1, <2>2, NoneIsNoDraft DEF Site
<1>3. Serial!Open = {w \in Writer : UnderWay(w)}
  <2>1. \A w \in Writer : writer[w].pc # "open"
    BY <1>0 DEF TypeOK, WriterState
  <2> QED
    BY <2>1 DEF Serial!Open, Phase
<1>4. Serial!Open' = {w \in Writer : UnderWay(w)'}
  <2>1. \A w \in Writer : writer'[w].pc # "open"
    BY <1>0 DEF TypeOK, WriterState
  <2> QED
    BY <2>1 DEF Serial!Open, Phase
<1>5. CASE CreateDraft
  <2>1. minted = 0 /\ site = None /\ site' # None /\ UNCHANGED writer
    <3>1. site' \in Site
      BY <1>0, <1>5 DEF CreateDraft, TypeOK, Site, Key, Edits
    <3>2. site' # None
      BY <3>1, NoneIsNoDraft
    <3>3. minted = 0
      BY <1>0, <1>5 DEF CreateDraft, TypeOK
    <3> QED
      BY <1>5, <3>2, <3>3 DEF CreateDraft
  <2>2. Content = None /\ Content' = [pages |-> {}, body |-> {}, assets |-> {}]
    BY <1>5, <2>1 DEF CreateDraft, Content
  <2>3. \A w \in Writer : ~UnderWay(w) /\ ~UnderWay(w)'
    BY <2>1 DEF SerialInv, CasInv, UnderWay, Reading
  <2>4. Behind' = Serial!Open' /\ Phase' = Phase
    BY <1>4, <2>1, <2>3 DEF Behind, Phase, UnderWay
  <2>5. Serial!Create
    BY <2>2, <2>4 DEF Serial!Create, Serial!Change
  <2> QED
    BY <2>5 DEF Serial!Next
<1>6. ASSUME NEW w \in Writer, ReadVersion(w) PROVE Serial!Begin(w)
  <2>1. PICK c \in SensibleChange :
           writer' = [writer EXCEPT ![w] = [@ EXCEPT
                         !.pc = "versioned",
                         !.change = c,
                         !.expect = IF Conditional THEN site.version ELSE None]]
    BY <1>6 DEF ReadVersion
  <2>2. /\ writer'[w].pc = "versioned" /\ writer'[w].expect = site.version
        /\ \A v \in Writer \ {w} : writer'[v] = writer[v]
    BY <1>0, <2>1 DEF TypeOK, WriterState
  <2>3. site # None /\ UNCHANGED site /\ writer[w].pc = "idle"
    BY <1>6 DEF ReadVersion
  <2>4. Content' = Content /\ Phase' = [Phase EXCEPT ![w] = "open"]
    BY <1>0, <2>2, <2>3, CallerMoves DEF Reading
  <2>5. Behind' = Behind
    BY <2>2, <2>3 DEF Behind, UnderWay
  <2>6. Phase[w] = "idle"
    BY <2>3 DEF Phase, UnderWay
  <2> QED
    BY <1>2, <2>3, <2>4, <2>5, <2>6 DEF Serial!Begin
<1>7. ASSUME NEW w \in Writer, ReadPages(w) \/ \E a \in Asset : PutBytes(w, a) PROVE Still
  <2>1. /\ UnderWay(w) /\ writer'[w].pc \in Reading /\ writer'[w].expect = writer[w].expect
        /\ UNCHANGED site /\ \A v \in Writer \ {w} : writer'[v] = writer[v]
    <3>1. CASE ReadPages(w)
      BY <1>0, <3>1 DEF ReadPages, UnderWay, Reading, TypeOK, WriterState
    <3>2. ASSUME NEW a \in Asset, PutBytes(w, a)
          PROVE  /\ UnderWay(w) /\ writer'[w].pc \in Reading /\ writer'[w].expect = writer[w].expect
                 /\ UNCHANGED site /\ \A v \in Writer \ {w} : writer'[v] = writer[v]
      BY <1>0, <3>2 DEF PutBytes, UnderWay, Reading, TypeOK, WriterState
    <3> QED
      BY <1>7, <3>1, <3>2
  <2> QED
    BY <1>0, <2>1, CallerMoves
<1>8. ASSUME NEW w \in Writer, writer[w].pc \in Reading, UNCHANGED site,
             \A v \in Writer \ {w} : writer'[v] = writer[v],
             writer'[w].pc \in {"done", "refused", "failed"},
             site # None => writer'[w].pc = "refused"
      PROVE  Serial!Next
  <2>1. /\ Content' = Content /\ Behind' = Behind \ {w}
        /\ Phase' = [Phase EXCEPT ![w] = writer'[w].pc]
    BY <1>0, <1>8, CallerMoves DEF Reading
  <2>2. Phase[w] = "open"
    BY <1>8 DEF Phase, UnderWay, Reading
  <2>3. CASE site # None
    <3>1. Serial!Refuse(w)
      BY <1>2, <1>8, <2>1, <2>2, <2>3 DEF Serial!Refuse, Serial!Answer
    <3> QED
      BY <3>1 DEF Serial!Next
  <2>4. CASE site = None
    <3>1. Serial!Miss(w)
      BY <1>8, <2>1, <2>2, <2>4 DEF Serial!Miss, Serial!Answer, Content
    <3> QED
      BY <3>1 DEF Serial!Next
  <2> QED
    BY <2>3, <2>4
<1>9. ASSUME NEW w \in Writer, ResolveSite(w) PROVE Serial!Next \/ Still
  <2>1. /\ writer[w].pc = "computed" /\ UNCHANGED site
        /\ \A v \in Writer \ {w} : writer'[v] = writer[v]
    BY <1>0, <1>9 DEF ResolveSite, TypeOK
  <2>2. CASE site = None
    <3>1. writer'[w].pc = "failed"
      BY <1>0, <1>9, <2>2 DEF ResolveSite, TypeOK, WriterState
    <3> QED
      BY <1>8, <2>1, <2>2, <3>1 DEF Reading
  <2>3. CASE site # None
    <3>1. writer'[w].pc = "putting" /\ writer'[w].expect = writer[w].expect
      BY <1>0, <1>9, <2>3 DEF ResolveSite, TypeOK, WriterState
    <3> QED
      BY <1>0, <2>1, <3>1, CallerMoves DEF UnderWay, Reading
  <2> QED
    BY <2>2, <2>3
<1>10. ASSUME NEW w \in Writer, Commit(w) PROVE Serial!Write(w)
  <2> DEFINE c == writer[w].change
  <2>1. /\ writer[w].pc = "putting" /\ site # None
        /\ site' = Applied(site, w)
        /\ writer[w].expect = site.version /\ writer[w].read = site.body
    BY <1>10 DEF Commit, AtCommit, Holds, GuardHolds, SerialInv, CasInv, Reading
  <2>2. writer'[w].pc = "done" /\ \A v \in Writer \ {w} : writer'[v] = writer[v]
    BY <1>0, <1>10 DEF Commit, TypeOK, WriterState
  <2>3. c \in SensibleChange /\ c \in Change /\ c.put \cap c.drop = {} /\ c.putAsset \cap c.dropAsset = {}
    BY <2>1 DEF SerialInv, Reading, SensibleChange
  <2>4. c.put \in SUBSET Page /\ c.drop \in SUBSET Page /\ c.putAsset \in SUBSET Asset /\ c.dropAsset \in SUBSET Asset
    BY <2>3 DEF Change
  <2>5. site \in Site
    BY <1>0, <2>1 DEF TypeOK
  <2> HIDE DEF c
  <2>6. Content' = Serial!Written(w, c.put, c.drop, c.putAsset, c.dropAsset)
    <3>1. site' # None
      <4>1. site' \in Site
        BY <2>1, <2>3, <2>4, <2>5 DEF Applied, Site, Edits, c
      <4> QED
        BY <4>1, NoneIsNoDraft
    <3>2. /\ site'.pages = (site.pages \cup c.put) \ c.drop
          /\ site'.assets = (site.assets \cup c.putAsset) \ c.dropAsset
          /\ site'.body = (site.body \ ((c.put \cup c.drop) \X Writer))
                             \cup ((site.body \cap (c.put \X Writer)) \cup (c.put \X {w}))
      BY <2>1 DEF Applied, c
    <3>3. site'.body = (site.body \ (c.drop \X Writer)) \cup (c.put \X {w})
      BY <2>3, <2>4, <2>5, <3>2 DEF Site, Edits
    <3>4. Content = [pages |-> site.pages, body |-> site.body, assets |-> site.assets]
      BY <2>1 DEF Content
    <3>5. Content' = [pages |-> site'.pages, body |-> site'.body, assets |-> site'.assets]
      BY <3>1 DEF Content
    <3> QED
      BY <3>2, <3>3, <3>4, <3>5 DEF Serial!Written
  <2>7. Phase' = [Phase EXCEPT ![w] = "done"] /\ Phase[w] = "open"
    BY <2>1, <2>2 DEF Phase, UnderWay
  <2>8. w \notin Behind
    BY <2>1 DEF Behind
  <2>9. site'.version = site.version + 1 /\ site.version \in Nat
    BY <2>1, <2>5 DEF Applied, Site
  <2>10. \A v \in Writer \ {w} : UnderWay(v) => writer[v].expect \in Nat /\ writer[v].expect <= site.version
    BY <2>1 DEF SerialInv, CasInv, UnderWay, Reading
  <2>11. Behind' = Serial!Open'
    BY <1>4, <2>2, <2>9, <2>10 DEF Behind, UnderWay
  <2> QED
    BY <1>2, <2>1, <2>3, <2>4, <2>6, <2>7, <2>8, <2>11 DEF Serial!Write, Serial!Answer, Serial!Change
<1>11. ASSUME NEW w \in Writer, Refuse(w) PROVE Serial!Next
  <2>1. writer[w].pc = "putting" /\ writer[w].expect # None
    BY <1>11 DEF Refuse, AtCommit, SerialInv, CasInv, Reading
  <2>2. writer'[w].pc = "refused" /\ UNCHANGED site /\ \A v \in Writer \ {w} : writer'[v] = writer[v]
    BY <1>0, <1>11, <2>1 DEF Refuse, TypeOK, WriterState
  <2> QED
    BY <1>8, <2>1, <2>2 DEF Reading
<1>12. ASSUME NEW w \in Writer, CommitToForgottenSite(w) PROVE Serial!Next
  <2>1. writer[w].pc = "putting" /\ ~Holds(writer[w].key)
    BY <1>12 DEF CommitToForgottenSite, AtCommit
  <2>2. writer'[w].pc = "done" /\ UNCHANGED site /\ \A v \in Writer \ {w} : writer'[v] = writer[v]
    BY <1>0, <1>12 DEF CommitToForgottenSite, TypeOK, WriterState
  <2>3. site = None
    <3>1. writer[w].key = 1
      BY <2>1 DEF SerialInv, Key
    <3>2. site # None => site.key = 1
      BY <1>0 DEF TypeOK, Site, Key
    <3> QED
      BY <2>1, <3>1, <3>2 DEF Holds
  <2> QED
    BY <1>8, <2>1, <2>2, <2>3 DEF Reading
<1>13. ASSUME NEW f \in Forgetter, ForgetRows(f), site' # site PROVE Serial!Forget
  <2>1. site # None /\ site' = None /\ UNCHANGED writer
    BY <1>13 DEF ForgetRows, Holds
  <2>2. Content' = None /\ Phase' = Phase
    BY <2>1 DEF Content, Phase, UnderWay
  <2>3. Behind' = Serial!Open'
    BY <1>4, <2>1 DEF Behind
  <2> QED
    BY <1>2, <2>1, <2>2, <2>3 DEF Serial!Forget, Serial!Change
<1> HIDE DEF Still
<1>14. Serial!Next \/ Still
  <2>1. \/ UNCHANGED <<site, writer>>
        \/ CreateDraft
        \/ \E w \in Writer :
              \/ ReadVersion(w) \/ ReadPages(w) \/ ResolveSite(w)
              \/ \E a \in Asset : PutBytes(w, a)
              \/ Commit(w) \/ Refuse(w) \/ CommitToForgottenSite(w)
        \/ \E f \in Forgetter : ForgetRows(f) /\ site' # site
    BY DEF Next, vars, ReadKey, ReadRow, ReadObject, ForgetKey, ForgetList, ForgetObject, ForgetRows
  <2> QED
    BY <2>1, <1>1, <1>5, <1>6, <1>7, <1>9, <1>10, <1>11, <1>12, <1>13 DEF Serial!Next, Still
<1> QED
  BY <1>14 DEF Still

\* ImplementsSerialDraft: with `expect` passed and a slug that is not recreated, the
\* interleaved reads, puts and batches of `write` are serial writes of the draft's
\* rows ("if the site has moved on since, the write is refused", site-store.ts).
THEOREM WritesAreSerial ==
    ASSUME Conditional = TRUE, MaxKeys = 1
    PROVE  Spec => ImplementsSerialDraft
<1>1. Init => SerialInv
  BY NoneIsApart, TypeCorrect
     DEF Init, SerialInv, CasInv, NoLostEdit, Reading, TypeOK, Site, Edits, Change, NoChange, WriterState,
         ReaderState, ForgetterState, Key
<1>2. SerialInv /\ TypeOK' /\ [Next]_vars => SerialInv'
  BY SerialInvStep
<1>3. SerialInv /\ SerialInv' /\ [Next]_vars => [Serial!Next]_<<Content, Phase, Behind>>
  BY SerialStep
<1> QED
  BY <1>1, <1>2, <1>3, SerialInit, TypeCorrect, PTL DEF Spec, Serial!Spec, ImplementsSerialDraft

-----------------------------------------------------------------------------
(* Material.                                                               *)

UploadSteps == {"create", "attach", "comment", "name", "check", "write", "place"}
SyncSteps == {"member", "attachMember", "detachMember"}
AdoptSteps == {"find", "upsert", "listing"} \cup SyncSteps

Rows == SUBSET ((TicketUid \X Nat) \cup (TicketUid \X Nat \X BOOLEAN))

OpState ==
    [pc: Steps, job: {"none", "upload", "revise", "adopt"}, file: Uploads \cup {None},
     ticket: TicketUid \cup {None}, listed: SUBSET Member, todo: SUBSET Member,
     held: SUBSET File, got: 0..MaxCapture, fresh: BOOLEAN,
     rows: Rows, sure: SUBSET TicketUid, alone: BOOLEAN, texts: SUBSET TicketUid, name: Name \cup {None}]

\* What a request holds is what its step needs, and is there.
OpStands(o) ==
    /\ op[o].pc = "idle" <=> op[o].job = "none"
    /\ op[o].pc \in UploadSteps => op[o].job = "upload"
    /\ op[o].pc \in AdoptSteps => op[o].job = "adopt"
    /\ op[o].job = "adopt" => op[o].pc \notin UploadSteps
    /\ op[o].job = "upload" => op[o].file \in Uploads
    /\ op[o].pc = "comment" => op[o].file.text
    /\ op[o].job = "upload" /\ op[o].pc # "create" =>
           op[o].ticket \in Existing /\ tickets[op[o].ticket].type = "material"
    /\ op[o].pc = "update" => op[o].job = "revise" /\ op[o].ticket \in Existing
    /\ op[o].pc \in {"listing"} \cup SyncSteps \/ (op[o].pc = "upsert" /\ op[o].ticket # None) =>
           op[o].ticket \in References
    /\ op[o].pc \in {"check", "write"} => op[o].name \in Name
    /\ op[o].pc = "writeIndex" => op[o].rows \subseteq Existing \X Nat
    /\ op[o].pc = "writeChunks" => op[o].rows \subseteq Existing \X Nat \X BOOLEAN
    /\ op[o].todo \subseteq op[o].listed /\ op[o].listed \subseteq InBundle
    /\ op[o].pc \in {"find", "upsert", "listing"} => op[o].todo = op[o].listed
    /\ op[o].pc \in {"attachMember", "detachMember"} => op[o].todo # {} /\ op[o].got # 0
    /\ \A f \in op[o].held : f.uid <= made /\ f.member # 0

\* Uploads whose file is not on the site yet: with those that are there, they are
\* no more than were begun, so each finds a free name.
Coming == {o \in Op : op[o].job = "upload" /\ op[o].pc # "place"}
NamesLast == IsFiniteSet(Coming) /\ Cardinality(OnSite) + Cardinality(Coming) <= begun

FilesAreMade == \A t \in Existing : \A f \in tickets[t].files : f.uid <= made

MaterialTypes ==
    /\ MaterialTypeOK
    /\ op \in [Op -> OpState]
    /\ \A o \in Op : OpStands(o)
    /\ FilesAreMade
    /\ NamesLast

-----------------------------------------------------------------------------
(* What a step moves.                                                       *)

\* The attachments and what they are of.
TicketsHold ==
    /\ tickets \in [TicketUid -> Ticket \cup {None}]
    /\ made \in Nat
    /\ \A t \in Existing, u \in Existing : \A f \in tickets[t].files, g \in tickets[u].files :
          f.uid = g.uid => t = u /\ f = g
    /\ \A t \in References : \A f \in tickets[t].files : f.member # 0 /\ f.content # 0
    /\ FilesAreMade

\* What the rows, the assets and the history are of.
RowsHold ==
    /\ assets \in [Name -> Existing \cup {None}]
    /\ \A n \in Name : assets[n] # None => tickets[assets[n]].type = "material"
    /\ index \subseteq Existing \X Nat
    /\ chunks \subseteq Existing \X Nat \X BOOLEAN
    /\ unsure \subseteq Existing /\ early \subseteq Existing /\ gone \subseteq Existing

RestHolds ==
    /\ bundle \in [Member -> 0..MaxCapture]
    /\ begun \in 0..MaxBegun
    /\ mirror \in BOOLEAN /\ spoiled \in BOOLEAN /\ strayed \subseteq Member

OpsHold ==
    /\ op \in [Op -> OpState]
    /\ \A o \in Op : op[o].pc = "idle" => op[o] = Idle

\* The types, by what they are about.
LEMMA TypesAre ==
    MaterialTypes <=> /\ TicketsHold /\ RowsHold /\ RestHolds /\ OpsHold /\ NamesLast
                      /\ \A o \in Op : OpStands(o)
<1>1. op \in [Op -> OpState] => \A o \in Op : op[o].pc \in Steps
  BY DEF OpState
<1> QED
  BY <1>1 DEF MaterialTypes, MaterialTypeOK, TicketsHold, RowsHold, RestHolds, OpsHold

\* What a request's state is made of.
LEMMA StateIs ==
    ASSUME NEW q \in OpState
    PROVE  /\ q.pc \in Steps /\ q.job \in {"none", "upload", "revise", "adopt"}
           /\ q.file \in Uploads \cup {None} /\ q.ticket \in TicketUid \cup {None}
           /\ q.listed \in SUBSET Member /\ q.todo \in SUBSET Member /\ q.held \in SUBSET File
           /\ q.got \in 0..MaxCapture /\ q.fresh \in BOOLEAN /\ q.rows \in Rows
           /\ q.sure \in SUBSET TicketUid /\ q.alone \in BOOLEAN /\ q.texts \in SUBSET TicketUid
           /\ q.name \in Name \cup {None}
  BY DEF OpState

\* Tickets stay, and stay what they are.
TicketsStay ==
    \A t \in Existing : /\ t \in Existing' /\ tickets'[t].type = tickets[t].type

\* One ticket is made or written; at most one attachment is new.
LEMMA TicketWritten ==
    ASSUME TicketsHold, NEW t \in TicketUid, NEW x \in Ticket,
           tickets' = [tickets EXCEPT ![t] = x],
           t \in Existing => x.type = tickets[t].type,
           made' \in Nat, made <= made',
           \A f \in x.files :
               \/ t \in Existing /\ f \in tickets[t].files
               \/ /\ f.uid = made + 1 /\ made' = made + 1
                  /\ x.type = "reference" => f.member # 0 /\ f.content # 0,
           \A f, g \in x.files : f.uid = made + 1 /\ g.uid = made + 1 => f = g
    PROVE  /\ TicketsHold' /\ TicketsStay /\ Existing' = Existing \cup {t}
           /\ tickets'[t] = x /\ \A u \in TicketUid \ {t} : tickets'[u] = tickets[u]
<1>1. /\ tickets'[t] = x /\ \A u \in TicketUid \ {t} : tickets'[u] = tickets[u]
      /\ tickets' \in [TicketUid -> Ticket \cup {None}]
  BY DEF TicketsHold
<1>2. x # None
  BY NoneIsNoTicket
<1>3. Existing' = Existing \cup {t}
  BY <1>1, <1>2 DEF Existing
<1>4. TicketsStay
  BY <1>1, <1>3 DEF TicketsStay, Existing
<1>5. \A u \in Existing' : u # t => u \in Existing /\ tickets'[u] = tickets[u]
  BY <1>1, <1>3 DEF Existing
<1>6. \A u \in Existing : \A f \in tickets[u].files : f \in File /\ f.uid \in Nat /\ f.uid <= made
  BY DEF TicketsHold, FilesAreMade, Existing, Ticket, File
<1>7. ASSUME NEW f \in x.files
      PROVE  f.uid <= made' /\ (x.type = "reference" => f.member # 0 /\ f.content # 0)
  <2>1. CASE t \in Existing /\ f \in tickets[t].files
    <3>1. x.type = "reference" => t \in References
      BY <2>1 DEF References
    <3> QED
      BY <1>6, <2>1, <3>1 DEF TicketsHold
  <2>2. CASE f.uid = made + 1 /\ made' = made + 1 /\ (x.type = "reference" => f.member # 0 /\ f.content # 0)
    BY <2>2
  <2> QED
    BY <2>1, <2>2
<1>8. FilesAreMade'
  <2>1. ASSUME NEW u \in Existing', NEW f \in tickets'[u].files PROVE f.uid <= made'
    <3>1. CASE u = t
      BY <1>1, <1>7, <2>1, <3>1
    <3>2. CASE u # t
      <4>1. f.uid \in Nat /\ f.uid <= made /\ made \in Nat
        BY <1>5, <1>6, <2>1, <3>2 DEF TicketsHold
      <4> QED
        BY <4>1
    <3> QED
      BY <3>1, <3>2
  <2> QED
    BY <2>1 DEF FilesAreMade
<1>9. \A u \in References' : \A f \in tickets'[u].files : f.member # 0 /\ f.content # 0
  <2>1. ASSUME NEW u \in References', NEW f \in tickets'[u].files PROVE f.member # 0 /\ f.content # 0
    <3>1. CASE u = t
      BY <1>1, <1>7, <2>1, <3>1 DEF References
    <3>2. CASE u # t
      BY <1>5, <2>1, <3>2 DEF References, TicketsHold
    <3> QED
      BY <3>1, <3>2
  <2> QED
    BY <2>1
<1>10. ASSUME NEW u \in Existing', NEW v \in Existing', NEW f \in tickets'[u].files,
              NEW g \in tickets'[v].files, f.uid = g.uid
       PROVE  u = v /\ f = g
  <2>0. made \in Nat
    BY DEF TicketsHold
  <2>1. CASE u = t /\ v = t
    <3>1. f \in x.files /\ g \in x.files
      BY <1>1, <2>1
    <3>2. CASE t \in Existing /\ f \in tickets[t].files /\ g \in tickets[t].files
      BY <1>10, <2>1, <3>2 DEF TicketsHold
    <3>3. CASE ~(t \in Existing /\ f \in tickets[t].files /\ g \in tickets[t].files)
      <4>1. f.uid = made + 1 \/ g.uid = made + 1
        BY <3>1, <3>3
      <4> QED
        BY <1>10, <2>1, <3>1, <4>1
    <3> QED
      BY <3>2, <3>3
  <2>2. CASE u = t /\ v # t
    <3>1. f \in x.files /\ v \in Existing /\ g \in tickets[v].files /\ g.uid <= made /\ g.uid \in Nat
      BY <1>1, <1>5, <1>6, <2>2
    <3>2. t \in Existing /\ f \in tickets[t].files
      BY <1>10, <2>0, <3>1
    <3> QED
      BY <1>10, <2>2, <3>1, <3>2 DEF TicketsHold
  <2>3. CASE u # t /\ v = t
    <3>1. g \in x.files /\ u \in Existing /\ f \in tickets[u].files /\ f.uid <= made /\ f.uid \in Nat
      BY <1>1, <1>5, <1>6, <2>3
    <3>2. t \in Existing /\ g \in tickets[t].files
      BY <1>10, <2>0, <3>1
    <3> QED
      BY <1>10, <2>3, <3>1, <3>2 DEF TicketsHold
  <2>4. CASE u # t /\ v # t
    BY <1>5, <1>10, <2>4 DEF TicketsHold
  <2> QED
    BY <2>1, <2>2, <2>3, <2>4
<1>11. TicketsHold'
  BY <1>1, <1>8, <1>9, <1>10 DEF TicketsHold
<1> QED
  BY <1>1, <1>3, <1>4, <1>11

\* Else they stay.
LEMMA TicketsUnwritten ==
    ASSUME TicketsHold, UNCHANGED <<tickets, made>>
    PROVE  TicketsHold' /\ TicketsStay /\ Existing' = Existing /\ References' = References
  BY DEF TicketsHold, TicketsStay, FilesAreMade, Existing, References

\* Rows of tickets stay rows of tickets.
LEMMA RowsUnwritten ==
    ASSUME RowsHold, TicketsStay, UNCHANGED <<assets, index, chunks>>,
           unsure' \subseteq Existing', early' \subseteq Existing', gone' \subseteq Existing'
    PROVE  RowsHold'
  BY DEF RowsHold, TicketsStay

\* A request that does not move, or moves without changing what it is about.
Same(p) ==
    /\ op'[p].job = op[p].job /\ op'[p].file = op[p].file /\ op'[p].ticket = op[p].ticket
    /\ op'[p].listed = op[p].listed /\ op'[p].todo = op[p].todo /\ op'[p].held = op[p].held
    /\ op'[p].got = op[p].got
Alike(p) ==
    /\ op'[p].pc = op[p].pc /\ op'[p].rows = op[p].rows /\ op'[p].name = op[p].name
    /\ op'[p].texts = op[p].texts
    /\ op'[p].sure \subseteq op[p].sure /\ (op'[p].alone => op[p].alone) /\ (op'[p].fresh => op[p].fresh)
    /\ Same(p)
Only(o) == \A p \in Op \ {o} : op'[p] = op[p]
OthersAlike(o) == \A p \in Op \ {o} : Alike(p) /\ op'[p].fresh = op[p].fresh

\* Idle is a state, and holds nothing.
LEMMA IdleIs ==
    /\ Idle \in OpState /\ Idle.pc = "idle" /\ Idle.job = "none" /\ Idle.rows = {} /\ Idle.sure = {}
    /\ Idle.todo = {} /\ Idle.listed = {} /\ Idle.held = {} /\ Idle.ticket = None /\ Idle.fresh = TRUE
    /\ Idle.name = None /\ Idle.got = 0 /\ Idle.alone = TRUE /\ Idle.file = None
    /\ Idle.texts = {}
<1>1. {} \in Rows /\ 0 \in 0..MaxCapture
  BY BoundsAreNat DEF Rows
<1> QED
  BY <1>1 DEF Idle, OpState, Steps

\* One request moves, to a state of its own.
LEMMA OneMoves ==
    ASSUME OpsHold, NEW o \in Op, NEW q \in OpState, q.pc = "idle" => q = Idle,
           op' = [op EXCEPT ![o] = q]
    PROVE  OpsHold' /\ op'[o] = q /\ Only(o) /\ OthersAlike(o)
<1>1. op'[o] = q /\ Only(o) /\ op' \in [Op -> OpState]
  BY DEF OpsHold, Only
<1>2. OthersAlike(o)
  BY <1>1 DEF Only, OthersAlike, Alike, Same
<1> QED
  BY <1>1, <1>2 DEF OpsHold, Only

\* And when the store stamps a ticket, no refresh is sure of it.
LEMMA PutMoves ==
    ASSUME OpsHold, NEW o \in Op, NEW q \in OpState, q.pc # "idle", NEW t \in TicketUid, NEW x,
           Put(t, x, [op EXCEPT ![o] = q])
    PROVE  /\ OpsHold' /\ op'[o] = [q EXCEPT !.sure = @ \ {t}] /\ OthersAlike(o)
           /\ \A p \in Op : t \notin op'[p].sure
           /\ tickets' = [tickets EXCEPT ![t] = x] /\ unsure' = unsure \cup {t}
<1> DEFINE ops == [op EXCEPT ![o] = q]
<1>1. ops \in [Op -> OpState] /\ ops[o] = q /\ \A p \in Op \ {o} : ops[p] = op[p]
  BY DEF OpsHold
<1>2. /\ op' = [p \in Op |-> [ops[p] EXCEPT !.sure = ops[p].sure \ {t}]]
      /\ tickets' = [tickets EXCEPT ![t] = x] /\ unsure' = unsure \cup {t}
  BY DEF Put
<1> HIDE DEF ops
<1>3. ASSUME NEW s \in OpState
      PROVE  LET r == [s EXCEPT !.sure = s.sure \ {t}] IN
             /\ r \in OpState /\ r.pc = s.pc /\ r.rows = s.rows /\ r.name = s.name
             /\ r.sure = s.sure \ {t} /\ r.alone = s.alone /\ r.fresh = s.fresh
             /\ r.job = s.job /\ r.file = s.file /\ r.ticket = s.ticket /\ r.listed = s.listed
             /\ r.todo = s.todo /\ r.held = s.held /\ r.got = s.got /\ r.texts = s.texts
  BY DEF OpState
<1>4. [Idle EXCEPT !.sure = Idle.sure \ {t}] = Idle
  <2>1. Idle.sure \ {t} = {}
    BY IdleIs
  <2>2. [Idle EXCEPT !.sure = Idle.sure] = Idle
    BY DEF Idle
  <2> QED
    BY <2>1, <2>2, IdleIs
<1>5. op' \in [Op -> OpState] /\ \A p \in Op : op'[p] = [ops[p] EXCEPT !.sure = ops[p].sure \ {t}]
  BY <1>1, <1>2, <1>3
<1>6. \A p \in Op : op'[p].pc = "idle" => op'[p] = Idle
  <2>1. ASSUME NEW p \in Op, op'[p].pc = "idle" PROVE op'[p] = Idle
    <3>0. ops[p] \in OpState /\ op'[p] = [ops[p] EXCEPT !.sure = ops[p].sure \ {t}]
      BY <1>1, <1>5
    <3>1. ops[p].pc = "idle"
      BY <1>3, <2>1, <3>0
    <3>2. p # o /\ ops[p] = Idle
      BY <1>1, <3>1 DEF OpsHold
    <3> QED
      BY <1>4, <1>5, <2>1, <3>2
  <2> QED
    BY <2>1
<1>7. OthersAlike(o)
  <2>1. ASSUME NEW p \in Op \ {o} PROVE Alike(p) /\ op'[p].fresh = op[p].fresh
    <3>1. ops[p] \in OpState /\ ops[p] = op[p]
      BY <1>1
    <3> QED
      BY <1>3, <1>5, <3>1 DEF Alike, Same
  <2> QED
    BY <2>1 DEF OthersAlike
<1>8. ASSUME NEW p \in Op PROVE t \notin op'[p].sure
  <2>1. ops[p] \in OpState /\ op'[p] = [ops[p] EXCEPT !.sure = ops[p].sure \ {t}]
    BY <1>1, <1>5
  <2>2. op'[p].sure = ops[p].sure \ {t}
    BY <1>3, <2>1
  <2> QED
    BY <2>2
<1> QED
  BY <1>1, <1>2, <1>5, <1>6, <1>7, <1>8 DEF OpsHold

\* Whoever does not move still has what it needs.
LEMMA StandsStay ==
    ASSUME NEW p \in Op, op[p] \in OpState, OpStands(p), Alike(p), TicketsStay,
           InBundle \subseteq InBundle', made \in Nat, made' \in Nat, made <= made'
    PROVE  OpStands(p)'
<1>1. \A f \in op[p].held : f.uid \in Nat
  BY DEF OpState, File
<1>2. \A f \in op'[p].held : f.uid <= made' /\ f.member # 0
  BY <1>1 DEF OpStands, Alike, Same
<1>3. /\ Existing \subseteq Existing' /\ References \subseteq References'
      /\ \A t \in Existing : tickets'[t].type = tickets[t].type
  BY DEF TicketsStay, References
<1> QED
  BY <1>2, <1>3 DEF OpStands, Alike, Same

\* One that has ended needs nothing.
LEMMA IdleStands ==
    ASSUME NEW o \in Op, op'[o] = Idle PROVE OpStands(o)'
  BY IdleIs DEF OpStands, UploadSteps, SyncSteps, AdoptSteps

\* Names enough stay while no file comes to be placed.
LEMMA OnSiteIsFinite ==
    /\ IsFiniteSet(OnSite) /\ Cardinality(OnSite) \in Nat
    /\ IsFiniteSet(Name) /\ Cardinality(Name) = MaxBegun
<1>1. IsFiniteSet(Name) /\ Cardinality(Name) = MaxBegun
  BY FS_Interval, BoundsAreNat DEF Name
<1>2. IsFiniteSet(OnSite)
  BY <1>1, FS_Subset DEF OnSite
<1> QED
  BY <1>1, <1>2, FS_CardinalityType

\* Names enough stay, where no more come than were awaited.
LEMMA NamesStay ==
    ASSUME NamesLast, OnSite' \subseteq OnSite, Coming' \subseteq Coming,
           begun \in Nat, begun' \in Nat, begun <= begun'
    PROVE  NamesLast'
<1>1. IsFiniteSet(Coming') /\ Cardinality(Coming') <= Cardinality(Coming)
  BY FS_Subset DEF NamesLast
<1>2. Cardinality(OnSite') <= Cardinality(OnSite) /\ Cardinality(OnSite') \in Nat
  BY OnSiteIsFinite, FS_Subset, FS_CardinalityType
<1>3. Cardinality(Coming) \in Nat /\ Cardinality(Coming') \in Nat /\ Cardinality(OnSite) \in Nat
  BY <1>1, OnSiteIsFinite, FS_CardinalityType DEF NamesLast
<1> QED
  BY <1>1, <1>2, <1>3 DEF NamesLast

\* The whole of it, when one request moves.
LEMMA TypesMove ==
    ASSUME MaterialTypes, TicketsHold', TicketsStay, RowsHold', RestHolds', OpsHold', NamesLast',
           InBundle \subseteq InBundle', made <= made', NEW o \in Op, OthersAlike(o), OpStands(o)'
    PROVE  MaterialTypes'
<1>1. /\ op \in [Op -> OpState] /\ \A p \in Op : OpStands(p) /\ made \in Nat /\ made' \in Nat
  BY TypesAre DEF OpsHold, TicketsHold
<1>2. \A p \in Op \ {o} : OpStands(p)'
  BY <1>1, StandsStay DEF OthersAlike
<1>3. \A p \in Op : OpStands(p)'
  BY <1>2
<1>4. TicketsHold' /\ RowsHold' /\ RestHolds' /\ OpsHold' /\ NamesLast' /\ \A p \in Op : OpStands(p)'
  BY <1>3
<1>5. \A p \in Op : op'[p].pc \in Steps
  BY <1>4 DEF OpsHold, OpState
<1> QED
  BY <1>4, <1>5 DEF MaterialTypes, MaterialTypeOK, TicketsHold, RowsHold, RestHolds, OpsHold

-----------------------------------------------------------------------------
(* What each step leaves.                                                   *)

\* What a request has, where nothing but where it is, its rows and its name move.
LEMMA NowIs ==
    ASSUME MaterialTypes, NEW o \in Op
    PROVE  /\ op[o] \in OpState /\ OpStands(o) /\ OpsHold /\ TicketsHold /\ RowsHold /\ RestHolds /\ NamesLast
           /\ made \in Nat /\ begun \in Nat /\ begun <= MaxBegun
           /\ (op[o].pc = "idle" => op[o] = Idle)
  BY TypesAre, BoundsAreNat DEF OpsHold, TicketsHold, RestHolds

\* No files are placed, and none come.
LEMMA ComingStays ==
    ASSUME MaterialTypes, NEW o \in Op, OthersAlike(o), UNCHANGED <<assets, begun>>,
           op'[o].job = "upload" => (op[o].job = "upload" /\ op[o].pc # "place") \/ op'[o].pc = "place"
    PROVE  NamesLast'
<1>1. NamesLast /\ begun \in Nat
  BY NowIs
<1>2. OnSite' = OnSite
  BY DEF OnSite
<1>3. \A p \in Op \ {o} : op'[p].job = op[p].job /\ op'[p].pc = op[p].pc
  BY DEF OthersAlike, Alike, Same
<1>4. Coming' \subseteq Coming
  BY <1>3 DEF Coming
<1> QED
  BY <1>1, <1>2, <1>4, NamesStay

\* A request stops, or is done.
LEMMA IdleMoves ==
    ASSUME MaterialTypes, NEW o \in Op, op' = [op EXCEPT ![o] = Idle]
    PROVE  OpsHold' /\ op'[o] = Idle /\ Only(o) /\ OthersAlike(o) /\ OpStands(o)'
  BY NowIs, OneMoves, IdleIs, IdleStands

\* A step of an ingest goes on to the next, or ends it.
LEMMA ProceedIs ==
    ASSUME MaterialTypes, NEW o \in Op, op' = Proceed(o),
           op[o].pc \in {"attach", "comment", "writeChunks", "check", "write", "place"}
    PROVE  /\ OpsHold' /\ Only(o) /\ OthersAlike(o)
           /\ IF After(o) = "idle" THEN op'[o] = Idle
              ELSE /\ op'[o].pc = After(o) /\ Same(o) /\ op'[o].rows = {} /\ op'[o].name = op[o].name
                   /\ op'[o].sure = op[o].sure /\ op'[o].alone = op[o].alone /\ op'[o].fresh = op[o].fresh
<1> DEFINE q == [op[o] EXCEPT !.pc = After(o), !.rows = {}]
<1>1. op[o] \in OpState /\ OpsHold
  BY NowIs
<1>2. After(o) \in Steps
  BY DEF After, Steps
<1>3. {} \in Rows
  BY DEF Rows
<1>4. /\ q \in OpState /\ q.pc = After(o) /\ q.rows = {} /\ q.name = op[o].name
      /\ q.sure = op[o].sure /\ q.alone = op[o].alone /\ q.fresh = op[o].fresh
      /\ q.job = op[o].job /\ q.file = op[o].file /\ q.ticket = op[o].ticket /\ q.listed = op[o].listed
      /\ q.todo = op[o].todo /\ q.held = op[o].held /\ q.got = op[o].got
  BY <1>1, <1>2, <1>3 DEF OpState
<1>5. op' = [op EXCEPT ![o] = IF After(o) = "idle" THEN Idle ELSE q]
  BY DEF Proceed
<1> HIDE DEF q
<1>6. CASE After(o) = "idle"
  BY <1>1, <1>5, <1>6, IdleIs, OneMoves
<1>7. CASE After(o) # "idle"
  <2>1. OpsHold' /\ op'[o] = q /\ Only(o) /\ OthersAlike(o)
    BY <1>1, <1>4, <1>5, <1>7, OneMoves
  <2> QED
    BY <1>4, <1>7, <2>1 DEF Same
<1> QED
  BY <1>6, <1>7

\* Going on changes the step alone.
LEMMA GotoIs ==
    ASSUME MaterialTypes, NEW o \in Op, NEW pc \in Steps \ {"idle"}, op' = Goto(o, pc)
    PROVE  /\ OpsHold' /\ Only(o) /\ OthersAlike(o)
           /\ op'[o].pc = pc /\ Same(o) /\ op'[o].rows = op[o].rows /\ op'[o].name = op[o].name
           /\ op'[o].sure = op[o].sure /\ op'[o].alone = op[o].alone /\ op'[o].fresh = op[o].fresh
<1> DEFINE q == [op[o] EXCEPT !.pc = pc]
<1>1. op[o] \in OpState /\ OpsHold
  BY NowIs
<1>2. /\ q \in OpState /\ q.pc = pc /\ q.rows = op[o].rows /\ q.name = op[o].name
      /\ q.sure = op[o].sure /\ q.alone = op[o].alone /\ q.fresh = op[o].fresh
      /\ q.job = op[o].job /\ q.file = op[o].file /\ q.ticket = op[o].ticket /\ q.listed = op[o].listed
      /\ q.todo = op[o].todo /\ q.held = op[o].held /\ q.got = op[o].got
  BY <1>1 DEF OpState
<1>3. op' = [op EXCEPT ![o] = q]
  BY DEF Goto
<1> HIDE DEF q
<1>4. OpsHold' /\ op'[o] = q /\ Only(o) /\ OthersAlike(o)
  BY <1>1, <1>2, <1>3, OneMoves
<1> QED
  BY <1>2, <1>4 DEF Same

\* A step that writes no ticket, no row and no asset.
LEMMA QuietMove ==
    ASSUME MaterialTypes, NEW o \in Op, UNCHANGED <<tickets, assets, index, chunks, made>>,
           unsure' \subseteq Existing, early' \subseteq Existing, gone' \subseteq Existing,
           RestHolds', OpsHold', NamesLast', InBundle \subseteq InBundle', OthersAlike(o), OpStands(o)'
    PROVE  MaterialTypes' /\ TicketsStay /\ Existing' = Existing /\ References' = References
<1>1. TicketsHold /\ RowsHold /\ made \in Nat
  BY NowIs
<1>2. TicketsHold' /\ TicketsStay /\ Existing' = Existing /\ References' = References
  BY <1>1, TicketsUnwritten
<1>3. RowsHold'
  BY <1>1, <1>2, RowsUnwritten
<1> QED
  BY <1>1, <1>2, <1>3, TypesMove

\* A request begins: idle before, and one more is begun.
LEMMA StartIs ==
    ASSUME MaterialTypes, NEW o \in Op, NEW q \in OpState, q.pc # "idle", Start(o, q),
           UNCHANGED <<assets, bundle>>
    PROVE  /\ OpsHold' /\ Only(o) /\ OthersAlike(o) /\ op'[o] = q /\ op[o] = Idle
           /\ begun' \in 0..MaxBegun /\ NamesLast'
<1>1. OpsHold /\ NamesLast /\ begun \in Nat /\ op[o] = Idle /\ begun' = begun + 1 /\ begun < MaxBegun
  BY NowIs DEF Start
<1>2. OpsHold' /\ op'[o] = q /\ Only(o) /\ OthersAlike(o)
  BY <1>1, OneMoves DEF Start
<1>3. begun' \in 0..MaxBegun
  BY <1>1, BoundsAreNat
<1>4. OnSite' = OnSite
  BY DEF OnSite
<1>5. Coming' \subseteq Coming \cup {o}
  BY <1>2 DEF Coming, Only
<1>6. IsFiniteSet(Coming') /\ Cardinality(Coming') <= Cardinality(Coming) + 1
  <2>1. IsFiniteSet(Coming \cup {o}) /\ Cardinality(Coming \cup {o}) <= Cardinality(Coming) + 1
    <3>1. IsFiniteSet(Coming) /\ Cardinality(Coming) \in Nat
      BY <1>1, FS_CardinalityType DEF NamesLast
    <3>2. /\ IsFiniteSet(Coming \cup {o})
          /\ Cardinality(Coming \cup {o}) = IF o \in Coming THEN Cardinality(Coming) ELSE Cardinality(Coming) + 1
      BY <3>1, FS_AddElement
    <3> QED
      BY <3>1, <3>2
  <2>2. IsFiniteSet(Coming') /\ Cardinality(Coming') <= Cardinality(Coming \cup {o})
    BY <1>5, <2>1, FS_Subset
  <2>3. IsFiniteSet(Coming) /\ IsFiniteSet(Coming') /\ IsFiniteSet(Coming \cup {o})
    BY <1>1, <2>1, <2>2 DEF NamesLast
  <2>4. /\ Cardinality(Coming) \in Nat /\ Cardinality(Coming') \in Nat
        /\ Cardinality(Coming \cup {o}) \in Nat
    BY <2>3, FS_CardinalityType
  <2> QED
    BY <2>1, <2>2, <2>4
<1>7. NamesLast'
  BY <1>1, <1>4, <1>6, OnSiteIsFinite, FS_CardinalityType DEF NamesLast
<1> QED
  BY <1>1, <1>2, <1>3, <1>7

\* Numbers that are some have a least.
LEMMA LeastExists ==
    ASSUME NEW S, S \subseteq Nat, S # {}
    PROVE  \E x \in S : \A y \in S : x <= y
<1>1. IsWellFoundedOn(OpToRel(<, Nat), Nat)
  BY NatLessThanWellFounded
<1>2. PICK x \in S : \A y \in S : ~(<<y, x>> \in OpToRel(<, Nat))
  BY <1>1, WFMin
<1>3. \A y \in S : <<y, x>> \in OpToRel(<, Nat) <=> y < x
  BY DEF OpToRel
<1>4. \A y \in S : ~(y < x)
  BY <1>2, <1>3, Zenon
<1> QED
  BY <1>4

\* While there is room for a ticket, its uid is a free one.
LEMMA NewUidIs ==
    ASSUME Existing # TicketUid PROVE NewUid \in TicketUid \ Existing
<1>1. TicketUid \ Existing # {} /\ TicketUid \ Existing \subseteq Nat
  BY DEF Existing, TicketUid
<1> QED
  BY <1>1, LeastExists DEF NewUid

\* The next member is one of those left.
LEMMA NextMemberIs ==
    ASSUME NEW o \in Op, op[o] \in OpState, op[o].todo # {} PROVE NextMember(o) \in op[o].todo /\ NextMember(o) \in Member
<1>1. op[o].todo \subseteq Member /\ op[o].todo \subseteq Nat
  BY StateIs DEF Member
<1> QED
  BY <1>1, LeastExists DEF NextMember

\* An upload whose file is not on the site leaves a name to be found.
LEMMA FreeNameIs ==
    ASSUME MaterialTypes, NEW o \in Op, o \in Coming PROVE FreeName \in Name \ OnSite
<1>1. /\ IsFiniteSet(Coming) /\ Cardinality(OnSite) + Cardinality(Coming) <= begun
      /\ begun \in Nat /\ begun <= MaxBegun /\ MaxBegun \in Nat
  BY NowIs, BoundsAreNat DEF NamesLast
<1>2. Cardinality(Coming) \in Nat /\ Cardinality(Coming) # 0
  BY <1>1, FS_CardinalityType, FS_EmptySet
<1>3. OnSite # Name
  BY <1>1, <1>2, OnSiteIsFinite
<1>4. Name \ OnSite # {} /\ Name \ OnSite \subseteq Nat
  BY <1>3 DEF OnSite, Name
<1> QED
  BY <1>4, LeastExists DEF FreeName

\* The store makes or changes a ticket, its attachments as they were.
LEMMA PutIs ==
    ASSUME MaterialTypes, NEW o \in Op, NEW q \in OpState, q.pc # "idle",
           NEW t \in TicketUid, NEW x \in Ticket,
           t \in Existing => x.type = tickets[t].type /\ x.files = tickets[t].files,
           t \notin Existing => x.files = {},
           Put(t, x, [op EXCEPT ![o] = q]),
           UNCHANGED <<assets, index, chunks, made, early, gone>>
    PROVE  /\ TicketsHold' /\ TicketsStay /\ RowsHold' /\ OpsHold' /\ OthersAlike(o)
           /\ Existing' = Existing \cup {t} /\ tickets'[t] = x
           /\ \A u \in TicketUid \ {t} : tickets'[u] = tickets[u]
           /\ unsure' = unsure \cup {t} /\ \A p \in Op : t \notin op'[p].sure
           /\ op'[o].pc = q.pc /\ op'[o].job = q.job /\ op'[o].file = q.file /\ op'[o].ticket = q.ticket
           /\ op'[o].listed = q.listed /\ op'[o].todo = q.todo /\ op'[o].held = q.held
           /\ op'[o].got = q.got /\ op'[o].fresh = q.fresh /\ op'[o].rows = q.rows /\ op'[o].name = q.name
<1>1. OpsHold /\ TicketsHold /\ RowsHold /\ made \in Nat
  BY NowIs
<1>2. /\ OpsHold' /\ op'[o] = [q EXCEPT !.sure = q.sure \ {t}] /\ OthersAlike(o)
      /\ \A p \in Op : t \notin op'[p].sure
      /\ tickets' = [tickets EXCEPT ![t] = x] /\ unsure' = unsure \cup {t}
  BY <1>1, PutMoves
<1>3. t \notin Existing \/ t \in Existing
  OBVIOUS
<1>4. /\ made' \in Nat /\ made <= made'
      /\ \A f \in x.files : t \in Existing /\ f \in tickets[t].files
      /\ t \in Existing => \A f \in tickets[t].files : f.uid <= made /\ f.uid \in Nat
  BY <1>1 DEF TicketsHold, FilesAreMade, Existing, Ticket, File
<1>5. \A f, g \in x.files : f.uid = made + 1 /\ g.uid = made + 1 => f = g
  BY <1>1, <1>4
<1>6. /\ TicketsHold' /\ TicketsStay /\ Existing' = Existing \cup {t}
      /\ tickets'[t] = x /\ \A u \in TicketUid \ {t} : tickets'[u] = tickets[u]
  <2>1. t \in Existing => x.type = tickets[t].type
    OBVIOUS
  <2> QED
    BY <1>1, <1>2, <1>4, <1>5, <2>1, TicketWritten
<1>7. RowsHold'
  <2>1. unsure' \subseteq Existing' /\ early' \subseteq Existing' /\ gone' \subseteq Existing'
    BY <1>1, <1>2, <1>6 DEF RowsHold
  <2> QED
    BY <1>1, <1>6, <2>1, RowsUnwritten
<1>8. LET r == [q EXCEPT !.sure = q.sure \ {t}] IN
      /\ r.pc = q.pc /\ r.job = q.job /\ r.file = q.file /\ r.ticket = q.ticket
      /\ r.listed = q.listed /\ r.todo = q.todo /\ r.held = q.held
      /\ r.got = q.got /\ r.fresh = q.fresh /\ r.rows = q.rows /\ r.name = q.name
  BY DEF OpState
<1> QED
  BY <1>2, <1>6, <1>7, <1>8

\* A file arrives; nothing else moves.
LEMMA UploadIs ==
    ASSUME MaterialTypes, NEW o \in Op, Upload(o)
    PROVE  MaterialTypes' /\ TicketsStay /\ Only(o) /\ op[o] = Idle /\ op'[o].pc = "create"
<1>1. PICK file \in Uploads : Start(o, [Idle EXCEPT !.pc = "create", !.job = "upload", !.file = file])
  BY DEF Upload
<1> DEFINE q == [Idle EXCEPT !.pc = "create", !.job = "upload", !.file = file]
<1>2. /\ q \in OpState /\ q.pc = "create" /\ q.job = "upload" /\ q.file = file
      /\ q.listed = {} /\ q.todo = {} /\ q.held = {}
  BY IdleIs DEF OpState, Steps
<1> HIDE DEF q
<1>3. UNCHANGED <<tickets, assets, bundle, index, chunks, made, mirror, spoiled, strayed, unsure, early, gone>>
  BY DEF Upload, history
<1>4. /\ OpsHold' /\ Only(o) /\ OthersAlike(o) /\ op'[o] = q /\ op[o] = Idle
      /\ begun' \in 0..MaxBegun /\ NamesLast'
  BY <1>1, <1>2, <1>3, StartIs DEF q
<1>5. RestHolds' /\ InBundle' = InBundle /\ unsure' \subseteq Existing /\ early' \subseteq Existing /\ gone' \subseteq Existing
  BY <1>3, <1>4, NowIs DEF RestHolds, RowsHold, InBundle
<1>6. OpStands(o)'
  BY <1>2, <1>4 DEF OpStands, UploadSteps, SyncSteps, AdoptSteps
<1> QED
  BY <1>2, <1>3, <1>4, <1>5, <1>6, QuietMove

\* A description is edited; nothing else moves yet.
LEMMA ReviseIs ==
    ASSUME MaterialTypes, NEW o \in Op, Revise(o)
    PROVE  MaterialTypes' /\ TicketsStay /\ Only(o) /\ op[o] = Idle /\ op'[o].pc = "update"
<1>1. PICK t \in Existing : Start(o, [Idle EXCEPT !.pc = "update", !.job = "revise", !.ticket = t])
  BY DEF Revise
<1> DEFINE q == [Idle EXCEPT !.pc = "update", !.job = "revise", !.ticket = t]
<1>2. /\ q \in OpState /\ q.pc = "update" /\ q.job = "revise" /\ q.ticket = t
      /\ q.listed = {} /\ q.todo = {} /\ q.held = {}
  BY IdleIs DEF OpState, Steps, Existing
<1> HIDE DEF q
<1>3. UNCHANGED <<tickets, assets, bundle, index, chunks, made, mirror, spoiled, strayed, unsure, early, gone>>
  BY DEF Revise, history
<1>4. /\ OpsHold' /\ Only(o) /\ OthersAlike(o) /\ op'[o] = q /\ op[o] = Idle
      /\ begun' \in 0..MaxBegun /\ NamesLast'
  BY <1>1, <1>2, <1>3, StartIs DEF q
<1>5. RestHolds' /\ InBundle' = InBundle /\ unsure' \subseteq Existing /\ early' \subseteq Existing /\ gone' \subseteq Existing
  BY <1>3, <1>4, NowIs DEF RestHolds, RowsHold, InBundle
<1>6. OpStands(o)'
  BY <1>2, <1>3, <1>4 DEF OpStands, UploadSteps, SyncSteps, AdoptSteps, Existing
<1> QED
  BY <1>2, <1>3, <1>4, <1>5, <1>6, QuietMove

\* An adoption begins with the bundle as it is listed.
LEMMA AdoptIs ==
    ASSUME MaterialTypes, NEW o \in Op, Adopt(o)
    PROVE  /\ MaterialTypes' /\ TicketsStay /\ References' = References /\ Only(o) /\ op[o] = Idle
           /\ op'[o].pc = "find" /\ op'[o].job = "adopt"
           /\ op'[o].listed = InBundle /\ op'[o].todo = InBundle /\ op'[o].fresh /\ op'[o].held = {}
<1> DEFINE q == [Idle EXCEPT !.pc = "find", !.job = "adopt", !.listed = InBundle, !.todo = InBundle]
<1>2. /\ q \in OpState /\ q.pc = "find" /\ q.job = "adopt" /\ q.fresh
      /\ q.listed = InBundle /\ q.todo = InBundle /\ q.held = {}
  BY IdleIs DEF OpState, Steps, InBundle
<1>1. Start(o, q)
  BY DEF Adopt
<1> HIDE DEF q
<1>3. /\ UNCHANGED <<tickets, assets, bundle, index, chunks, made, mirror, strayed, unsure, early, gone>>
      /\ spoiled' \in BOOLEAN
  BY DEF Adopt
<1>4. /\ OpsHold' /\ Only(o) /\ OthersAlike(o) /\ op'[o] = q /\ op[o] = Idle
      /\ begun' \in 0..MaxBegun /\ NamesLast'
  BY <1>1, <1>2, <1>3, StartIs
<1>5. RestHolds' /\ InBundle' = InBundle /\ unsure' \subseteq Existing /\ early' \subseteq Existing /\ gone' \subseteq Existing
  BY <1>3, <1>4, NowIs DEF RestHolds, RowsHold, InBundle
<1>6. OpStands(o)'
  BY <1>2, <1>3, <1>4, <1>5 DEF OpStands, UploadSteps, SyncSteps, AdoptSteps
<1> QED
  BY <1>2, <1>3, <1>4, <1>5, <1>6, QuietMove

\* A material is made, new, of which no index is sure.
LEMMA CreateIs ==
    ASSUME MaterialTypes, NEW o \in Op, Create(o)
    PROVE  /\ MaterialTypes' /\ TicketsStay /\ OthersAlike(o) /\ References' = References
           /\ op[o].pc = "create" /\ op'[o].pc = "attach"
           /\ \E t \in TicketUid \ Existing :
                 /\ Existing' = Existing \cup {t} /\ unsure' = unsure \cup {t}
                 /\ \A u \in TicketUid \ {t} : tickets'[u] = tickets[u]
                 /\ ~tickets'[t].placed /\ op'[o].ticket = t /\ \A p \in Op : t \notin op'[p].sure
<1> DEFINE t == NewUid
           q == [op[o] EXCEPT !.pc = "attach", !.ticket = t]
           x == [type |-> "material", site |-> op[o].file.site, text |-> FALSE, body |-> 1,
                 stamp |-> 1, placed |-> FALSE, files |-> {}]
<1>0. /\ op[o] \in OpState /\ OpStands(o) /\ OpsHold /\ RestHolds
      /\ op[o].pc = "create" /\ Existing # TicketUid
  BY NowIs DEF Create
<1>1. t \in TicketUid /\ t \notin Existing
  BY <1>0, NewUidIs
<1>2. op[o].file \in Uploads /\ op[o].job = "upload"
  BY <1>0 DEF OpStands, UploadSteps
<1>3. x \in Ticket /\ x.files = {} /\ x.type = "material" /\ ~x.placed
  BY <1>2, UploadsAreFiles DEF Ticket
<1> HIDE DEF t
<1>4. /\ q \in OpState /\ q.pc = "attach" /\ q.ticket = t /\ q.job = "upload" /\ q.file = op[o].file
      /\ q.listed = op[o].listed /\ q.todo = op[o].todo /\ q.held = op[o].held
  BY <1>0, <1>1, <1>2 DEF OpState, Steps
<1>5. [op EXCEPT ![o].pc = "attach", ![o].ticket = t] = [op EXCEPT ![o] = q]
  BY <1>0 DEF OpsHold, OpState
<1> HIDE DEF q, x
<1>6. Put(t, x, [op EXCEPT ![o] = q])
  BY <1>5 DEF Create, t, x
<1>7. UNCHANGED <<assets, bundle, index, chunks, begun, made, mirror, spoiled, strayed, early, gone>>
  BY DEF Create
<1>8. /\ TicketsHold' /\ TicketsStay /\ RowsHold' /\ OpsHold' /\ OthersAlike(o)
      /\ Existing' = Existing \cup {t} /\ tickets'[t] = x
      /\ \A u \in TicketUid \ {t} : tickets'[u] = tickets[u]
      /\ unsure' = unsure \cup {t} /\ \A p \in Op : t \notin op'[p].sure
      /\ op'[o].pc = q.pc /\ op'[o].job = q.job /\ op'[o].file = q.file /\ op'[o].ticket = q.ticket
      /\ op'[o].listed = q.listed /\ op'[o].todo = q.todo /\ op'[o].held = q.held
  BY <1>1, <1>3, <1>4, <1>6, <1>7, PutIs
<1>9. RestHolds' /\ InBundle' = InBundle /\ made <= made'
  BY <1>0, <1>7, NowIs DEF RestHolds, InBundle
<1>10. NamesLast'
  BY <1>0, <1>2, <1>7, <1>8, ComingStays
<1>11. OpStands(o)'
  BY <1>0, <1>1, <1>2, <1>3, <1>4, <1>7, <1>8, <1>9 DEF OpStands, UploadSteps, SyncSteps, AdoptSteps
<1>12. References' = References
  BY <1>1, <1>3, <1>8 DEF References, Existing
<1> QED
  BY <1>0, <1>1, <1>3, <1>4, <1>8, <1>9, <1>10, <1>11, <1>12, TypesMove

\* A ticket is written, and only what it says or holds changes.
LEMMA Rewritten ==
    ASSUME MaterialTypes, NEW t \in Existing, NEW x \in Ticket, tickets' = [tickets EXCEPT ![t] = x],
           x.type = tickets[t].type, x.files \subseteq tickets[t].files,
           UNCHANGED <<assets, index, chunks, made, unsure, early, gone>>
    PROVE  /\ TicketsHold' /\ TicketsStay /\ RowsHold' /\ Existing' = Existing /\ References' = References
           /\ tickets'[t] = x /\ \A u \in TicketUid \ {t} : tickets'[u] = tickets[u]
<1>0. TicketsHold /\ RowsHold /\ made \in Nat /\ t \in TicketUid
  BY TypesAre DEF TicketsHold, Existing
<1>1. \A f \in tickets[t].files : f.uid <= made /\ f.uid \in Nat
  BY <1>0 DEF TicketsHold, FilesAreMade, Existing, Ticket, File
<1>2. /\ made' \in Nat /\ made <= made'
      /\ \A f \in x.files : t \in Existing /\ f \in tickets[t].files
      /\ \A f, g \in x.files : f.uid = made + 1 /\ g.uid = made + 1 => f = g
  BY <1>0, <1>1
<1>3. /\ TicketsHold' /\ TicketsStay /\ Existing' = Existing \cup {t}
      /\ tickets'[t] = x /\ \A u \in TicketUid \ {t} : tickets'[u] = tickets[u]
  BY <1>0, <1>2, TicketWritten
<1>4. Existing' = Existing
  BY <1>3
<1>5. References' = References
  BY <1>3, <1>4 DEF References, TicketsStay
<1>6. RowsHold'
  BY <1>0, <1>3, <1>4, RowsUnwritten DEF RowsHold
<1> QED
  BY <1>3, <1>4, <1>5, <1>6

\* An attachment with the next uid is told from all others.
LEMMA FileAdded ==
    ASSUME MaterialTypes, NEW t \in Existing, NEW f \in File, f.uid = made + 1, made' = made + 1,
           t \in References => f.member # 0 /\ f.content # 0,
           tickets' = WithFile(t, f),
           UNCHANGED <<assets, index, chunks, unsure, early, gone>>
    PROVE  /\ TicketsHold' /\ TicketsStay /\ RowsHold' /\ Existing' = Existing /\ References' = References
           /\ tickets'[t] = [tickets[t] EXCEPT !.files = @ \cup {f}]
           /\ \A u \in TicketUid \ {t} : tickets'[u] = tickets[u]
<1> DEFINE x == [tickets[t] EXCEPT !.files = tickets[t].files \cup {f}]
<1>0. TicketsHold /\ RowsHold /\ made \in Nat /\ t \in TicketUid
  BY TypesAre DEF TicketsHold, Existing
<1>1. tickets[t] \in Ticket /\ \A g \in tickets[t].files : g.uid <= made /\ g.uid \in Nat
  BY <1>0 DEF TicketsHold, FilesAreMade, Existing, Ticket, File
<1>2. x \in Ticket /\ x.type = tickets[t].type /\ x.files = tickets[t].files \cup {f}
  BY <1>1 DEF Ticket
<1>3. tickets' = [tickets EXCEPT ![t] = x]
  BY DEF WithFile
<1> HIDE DEF x
<1>4. x.type = "reference" => f.member # 0 /\ f.content # 0
  BY <1>2 DEF References
<1>5. \A g, h \in x.files : g.uid = made + 1 /\ h.uid = made + 1 => g = h
  BY <1>0, <1>1, <1>2
<1>6. \A g \in x.files :
         \/ t \in Existing /\ g \in tickets[t].files
         \/ /\ g.uid = made + 1 /\ made' = made + 1
            /\ x.type = "reference" => g.member # 0 /\ g.content # 0
  BY <1>2, <1>4
<1>7. /\ TicketsHold' /\ TicketsStay /\ Existing' = Existing \cup {t}
      /\ tickets'[t] = x /\ \A u \in TicketUid \ {t} : tickets'[u] = tickets[u]
  <2>1. made' \in Nat /\ made <= made' /\ (t \in Existing => x.type = tickets[t].type)
    BY <1>0, <1>2
  <2> QED
    BY <1>0, <1>2, <1>3, <1>5, <1>6, <2>1, TicketWritten
<1>8. Existing' = Existing
  BY <1>7
<1>9. References' = References
  BY <1>7, <1>8 DEF References, TicketsStay
<1>10. RowsHold'
  BY <1>0, <1>7, <1>8, RowsUnwritten DEF RowsHold
<1> QED
  BY <1>7, <1>8, <1>9, <1>10 DEF x

\* The upload's file is attached to its material.
LEMMA AttachIs ==
    ASSUME MaterialTypes, NEW o \in Op, Attach(o)
    PROVE  /\ MaterialTypes' /\ TicketsStay /\ Only(o) /\ Existing' = Existing /\ References' = References
           /\ op[o].pc = "attach" /\ Same(o) /\ op[o].ticket \in Existing \ References
           /\ op'[o].pc = IF op[o].file.text THEN "comment" ELSE "readIndex"
           /\ tickets'[op[o].ticket] = [tickets[op[o].ticket] EXCEPT !.files = @ \cup {NewFile(0, 0)}]
           /\ \A u \in TicketUid \ {op[o].ticket} : tickets'[u] = tickets[u]
<1> DEFINE t == op[o].ticket
           f == NewFile(0, 0)
<1>0. op[o] \in OpState /\ OpStands(o) /\ RestHolds /\ TicketsHold /\ made \in Nat /\ op[o].pc = "attach"
  BY NowIs DEF Attach
<1>1. op[o].job = "upload" /\ op[o].file \in Uploads /\ t \in Existing /\ tickets[t].type = "material"
  BY <1>0 DEF OpStands, UploadSteps
<1>2. f \in File /\ f.uid = made + 1
  BY <1>0, BoundsAreNat DEF NewFile, File
<1>3. t \notin References
  BY <1>1 DEF References
<1>4. UNCHANGED <<assets, bundle, index, chunks, begun, mirror, spoiled, strayed, unsure, early, gone>>
  BY DEF Attach, history
<1>5. tickets' = WithFile(t, f) /\ made' = made + 1 /\ op' = Proceed(o)
  BY DEF Attach
<1> HIDE DEF t, f
<1>6. /\ TicketsHold' /\ TicketsStay /\ RowsHold' /\ Existing' = Existing /\ References' = References
      /\ tickets'[t] = [tickets[t] EXCEPT !.files = @ \cup {f}]
      /\ \A u \in TicketUid \ {t} : tickets'[u] = tickets[u]
  BY <1>1, <1>2, <1>3, <1>4, <1>5, FileAdded
<1>7. After(o) = IF op[o].file.text THEN "comment" ELSE "readIndex"
  BY <1>0 DEF After
<1>8. OpsHold' /\ Only(o) /\ OthersAlike(o) /\ op'[o].pc = After(o) /\ Same(o)
  BY <1>0, <1>5, <1>7, ProceedIs
<1>9. RestHolds' /\ InBundle' = InBundle /\ made <= made'
  BY <1>0, <1>4, <1>5 DEF RestHolds, InBundle
<1>10. NamesLast'
  BY <1>0, <1>1, <1>4, <1>8, ComingStays DEF Same
<1>11. \A g \in op[o].held : g.uid <= made' /\ g.member # 0
  BY <1>0, <1>5 DEF OpStands, OpState, File
<1>12. OpStands(o)'
  BY <1>0, <1>1, <1>4, <1>5, <1>6, <1>7, <1>8, <1>9, <1>11 DEF OpStands, UploadSteps, SyncSteps, AdoptSteps, Same, t, TicketsStay
<1> QED
  BY <1>0, <1>1, <1>3, <1>6, <1>7, <1>8, <1>9, <1>10, <1>12, TypesMove DEF t, f

\* The text is written beside the material.
LEMMA CommentIs ==
    ASSUME MaterialTypes, NEW o \in Op, Comment(o)
    PROVE  /\ MaterialTypes' /\ TicketsStay /\ Only(o) /\ Existing' = Existing /\ References' = References
           /\ op[o].pc = "comment" /\ Same(o) /\ op[o].ticket \in Existing \ References /\ op'[o].pc = "readIndex"
           /\ tickets'[op[o].ticket] = [tickets[op[o].ticket] EXCEPT !.text = TRUE]
           /\ \A u \in TicketUid \ {op[o].ticket} : tickets'[u] = tickets[u]
<1> DEFINE t == op[o].ticket
           x == [tickets[t] EXCEPT !.text = TRUE]
<1>0. op[o] \in OpState /\ OpStands(o) /\ RestHolds /\ TicketsHold /\ op[o].pc = "comment"
  BY NowIs DEF Comment
<1>1. op[o].job = "upload" /\ op[o].file \in Uploads /\ t \in Existing /\ tickets[t].type = "material"
  BY <1>0 DEF OpStands, UploadSteps
<1>2. x \in Ticket /\ x.type = tickets[t].type /\ x.files = tickets[t].files
  BY <1>0, <1>1 DEF TicketsHold, Existing, Ticket
<1>3. t \notin References
  BY <1>1 DEF References
<1>4. UNCHANGED <<assets, bundle, index, chunks, begun, made, mirror, spoiled, strayed, unsure, early, gone>>
  BY DEF Comment, history
<1>5. tickets' = [tickets EXCEPT ![t] = x] /\ op' = Proceed(o)
  BY DEF Comment
<1> HIDE DEF t, x
<1>6. /\ TicketsHold' /\ TicketsStay /\ RowsHold' /\ Existing' = Existing /\ References' = References
      /\ tickets'[t] = x /\ \A u \in TicketUid \ {t} : tickets'[u] = tickets[u]
  BY <1>1, <1>2, <1>4, <1>5, Rewritten
<1>7. After(o) = "readIndex"
  BY <1>0 DEF After
<1>8. OpsHold' /\ Only(o) /\ OthersAlike(o) /\ op'[o].pc = "readIndex" /\ Same(o)
  BY <1>0, <1>5, <1>7, ProceedIs
<1>9. RestHolds' /\ InBundle' = InBundle /\ made <= made'
  BY <1>0, <1>4 DEF RestHolds, InBundle, TicketsHold
<1>10. NamesLast'
  BY <1>0, <1>1, <1>4, <1>8, ComingStays DEF Same
<1>12. OpStands(o)'
  BY <1>0, <1>1, <1>4, <1>6, <1>8, <1>9 DEF OpStands, UploadSteps, SyncSteps, AdoptSteps, Same, t, TicketsStay
<1> QED
  BY <1>0, <1>1, <1>3, <1>6, <1>8, <1>9, <1>10, <1>12, TypesMove DEF t, x

\* The placement is recorded, and the upload is done.
LEMMA RecordPlacementIs ==
    ASSUME MaterialTypes, NEW o \in Op, RecordPlacement(o)
    PROVE  /\ MaterialTypes' /\ TicketsStay /\ Only(o) /\ Existing' = Existing /\ References' = References
           /\ op[o].pc = "place" /\ op[o].ticket \in Existing \ References /\ op'[o] = Idle
           /\ tickets'[op[o].ticket] = [tickets[op[o].ticket] EXCEPT !.placed = TRUE, !.stamp = @ + 1]
           /\ \A u \in TicketUid \ {op[o].ticket} : tickets'[u] = tickets[u]
<1> DEFINE t == op[o].ticket
           x == [tickets[t] EXCEPT !.placed = TRUE, !.stamp = @ + 1]
<1>0. op[o] \in OpState /\ OpStands(o) /\ RestHolds /\ TicketsHold /\ op[o].pc = "place"
  BY NowIs DEF RecordPlacement
<1>1. op[o].job = "upload" /\ t \in Existing /\ tickets[t].type = "material"
  BY <1>0 DEF OpStands, UploadSteps
<1>2. x \in Ticket /\ x.type = tickets[t].type /\ x.files = tickets[t].files
  <2>1. tickets[t] \in Ticket
    BY <1>0, <1>1 DEF TicketsHold, Existing
  <2>2. tickets[t].stamp \in Nat /\ tickets[t].body \in Nat
    BY <2>1 DEF Ticket
  <2>3. tickets[t].stamp + 1 \in Nat /\ tickets[t].body + 1 \in Nat
    BY <2>2
  <2> QED
    BY <2>1, <2>3 DEF Ticket
<1>3. t \notin References
  BY <1>1 DEF References
<1>4. UNCHANGED <<assets, bundle, index, chunks, begun, made, mirror, spoiled, strayed, unsure, early, gone>>
  BY DEF RecordPlacement, history
<1>5. tickets' = [tickets EXCEPT ![t] = x] /\ op' = Proceed(o)
  <2>1. tickets[t] \in Ticket /\ t \in TicketUid
    BY <1>0, <1>1 DEF TicketsHold, Existing
  <2>2. tickets' = [tickets EXCEPT ![t].placed = TRUE, ![t].stamp = @ + 1]
    BY DEF RecordPlacement
  <2> QED
    BY <1>0, <2>1, <2>2 DEF RecordPlacement, TicketsHold, Ticket
<1> HIDE DEF t, x
<1>6. /\ TicketsHold' /\ TicketsStay /\ RowsHold' /\ Existing' = Existing /\ References' = References
      /\ tickets'[t] = x /\ \A u \in TicketUid \ {t} : tickets'[u] = tickets[u]
  BY <1>1, <1>2, <1>4, <1>5, Rewritten
<1>7. After(o) = "idle"
  BY <1>0 DEF After
<1>8. OpsHold' /\ Only(o) /\ OthersAlike(o) /\ op'[o] = Idle
  BY <1>0, <1>5, <1>7, ProceedIs
<1>9. RestHolds' /\ InBundle' = InBundle /\ made <= made'
  BY <1>0, <1>4 DEF RestHolds, InBundle, TicketsHold
<1>10. NamesLast'
  BY <1>4, <1>8, ComingStays, IdleIs
<1>12. OpStands(o)'
  BY <1>8, IdleStands
<1> QED
  BY <1>0, <1>1, <1>3, <1>6, <1>8, <1>9, <1>10, <1>12, TypesMove DEF t, x

\* The description is written, and no index is sure of it.
LEMMA UpdateIs ==
    ASSUME MaterialTypes, NEW o \in Op, Update(o)
    PROVE  /\ MaterialTypes' /\ TicketsStay /\ OthersAlike(o) /\ Existing' = Existing /\ References' = References
           /\ op[o].pc = "update" /\ op'[o].pc = "readIndex" /\ op'[o].job = "revise"
           /\ \E t \in Existing :
                 /\ unsure' = unsure \cup {t} /\ \A p \in Op : t \notin op'[p].sure
                 /\ tickets'[t] = [tickets[t] EXCEPT !.body = @ + 1, !.stamp = @ + 1]
                 /\ \A u \in TicketUid \ {t} : tickets'[u] = tickets[u]
<1> DEFINE t == op[o].ticket
           q == [op[o] EXCEPT !.pc = "readIndex"]
           x == [tickets[t] EXCEPT !.body = @ + 1, !.stamp = @ + 1]
<1>0. op[o] \in OpState /\ OpStands(o) /\ OpsHold /\ RestHolds /\ TicketsHold /\ op[o].pc = "update"
  BY NowIs DEF Update
<1>1. op[o].job = "revise" /\ t \in Existing /\ t \in TicketUid
  BY <1>0 DEF OpStands, Existing
<1>2. x \in Ticket /\ x.type = tickets[t].type /\ x.files = tickets[t].files
  <2>1. tickets[t] \in Ticket
    BY <1>0, <1>1 DEF TicketsHold, Existing
  <2>2. tickets[t].stamp \in Nat /\ tickets[t].body \in Nat
    BY <2>1 DEF Ticket
  <2>3. tickets[t].stamp + 1 \in Nat /\ tickets[t].body + 1 \in Nat
    BY <2>2
  <2> QED
    BY <2>1, <2>3 DEF Ticket
<1>4. /\ q \in OpState /\ q.pc = "readIndex" /\ q.ticket = t /\ q.job = "revise"
      /\ q.listed = op[o].listed /\ q.todo = op[o].todo /\ q.held = op[o].held
  BY <1>0, <1>1 DEF OpState, Steps
<1>5. Put(t, x, [op EXCEPT ![o] = q])
  BY DEF Update, Goto
<1> HIDE DEF q, x, t
<1>7. UNCHANGED <<assets, bundle, index, chunks, begun, made, mirror, spoiled, strayed, early, gone>>
  BY DEF Update
<1>8. /\ TicketsHold' /\ TicketsStay /\ RowsHold' /\ OpsHold' /\ OthersAlike(o)
      /\ Existing' = Existing \cup {t} /\ tickets'[t] = x
      /\ \A u \in TicketUid \ {t} : tickets'[u] = tickets[u]
      /\ unsure' = unsure \cup {t} /\ \A p \in Op : t \notin op'[p].sure
      /\ op'[o].pc = q.pc /\ op'[o].job = q.job /\ op'[o].file = q.file /\ op'[o].ticket = q.ticket
      /\ op'[o].listed = q.listed /\ op'[o].todo = q.todo /\ op'[o].held = q.held
  BY <1>1, <1>2, <1>4, <1>5, <1>7, PutIs
<1>9. RestHolds' /\ InBundle' = InBundle /\ made <= made' /\ Existing' = Existing
  BY <1>0, <1>1, <1>7, <1>8, NowIs DEF RestHolds, InBundle
<1>10. NamesLast'
  BY <1>4, <1>7, <1>8, ComingStays
<1>11. OpStands(o)'
  BY <1>0, <1>1, <1>4, <1>7, <1>8, <1>9 DEF OpStands, UploadSteps, SyncSteps, AdoptSteps
<1>12. References' = References
  BY <1>8, <1>9 DEF References, TicketsStay
<1> QED
  BY <1>0, <1>1, <1>4, <1>8, <1>9, <1>10, <1>11, <1>12, TypesMove DEF x

\* A refresh reads the corpus, and no other is alone any more.
LEMMA ReadIndexIs ==
    ASSUME MaterialTypes, NEW o \in Op, ReadIndex(o)
    PROVE  /\ MaterialTypes' /\ TicketsStay /\ OthersAlike(o) /\ Existing' = Existing /\ References' = References
           /\ op[o].pc = "readIndex" /\ op'[o].pc = "writeIndex" /\ Same(o) /\ op'[o].fresh = op[o].fresh
           /\ op'[o].rows = Documents(o) /\ op'[o].sure = Existing /\ (op'[o].alone => Refreshing = {})
           /\ \A p \in Refreshing : p # o => ~op'[p].alone
<1> DEFINE q == [op[o] EXCEPT !.pc = "writeIndex", !.rows = Documents(o),
                              !.sure = Existing, !.alone = (Refreshing = {})]
<1>0. op[o] \in OpState /\ OpStands(o) /\ OpsHold /\ RestHolds /\ TicketsHold /\ RowsHold /\ op[o].pc = "readIndex"
  BY NowIs DEF ReadIndex
<1>1. Documents(o) \subseteq Existing \X Nat
  BY <1>0 DEF Documents, Corpus, TicketsHold, Existing, Ticket
<1>2. Documents(o) \in Rows /\ Existing \subseteq TicketUid /\ (Refreshing = {}) \in BOOLEAN
  BY <1>1 DEF Rows, Existing
<1>3. /\ q \in OpState /\ q.pc = "writeIndex" /\ q.rows = Documents(o) /\ q.sure = Existing
      /\ q.alone = (Refreshing = {}) /\ q.job = op[o].job /\ q.file = op[o].file
      /\ q.ticket = op[o].ticket /\ q.listed = op[o].listed /\ q.todo = op[o].todo
      /\ q.held = op[o].held /\ q.got = op[o].got /\ q.fresh = op[o].fresh
  BY <1>0, <1>2 DEF OpState, Steps
<1>4. op' = [p \in Op |-> IF p = o THEN q
                          ELSE IF p \in Refreshing THEN [op[p] EXCEPT !.alone = FALSE] ELSE op[p]]
  BY DEF ReadIndex
<1>5. UNCHANGED <<tickets, assets, bundle, index, chunks, begun, made, mirror, spoiled, strayed, unsure, early, gone>>
  BY DEF ReadIndex, history
<1> HIDE DEF q
<1>6. ASSUME NEW s \in OpState
      PROVE  LET r == [s EXCEPT !.alone = FALSE] IN
             /\ r \in OpState /\ r.pc = s.pc /\ r.rows = s.rows /\ r.name = s.name
             /\ r.sure = s.sure /\ r.alone = FALSE /\ r.fresh = s.fresh
             /\ r.job = s.job /\ r.file = s.file /\ r.ticket = s.ticket /\ r.listed = s.listed
             /\ r.todo = s.todo /\ r.held = s.held /\ r.got = s.got /\ r.texts = s.texts
  BY DEF OpState
<1>7. ASSUME NEW p \in Op \ {o}
      PROVE  /\ op'[p] \in OpState /\ Alike(p) /\ op'[p].fresh = op[p].fresh /\ (op'[p].pc = "idle" => op'[p] = Idle)
             /\ p \in Refreshing => op'[p].alone = FALSE
  <2>1. op[p] \in OpState
    BY <1>0 DEF OpsHold
  <2>2. CASE p \in Refreshing
    <3>1. op'[p] = [op[p] EXCEPT !.alone = FALSE] /\ op[p].pc = "writeIndex"
      BY <1>4, <2>2 DEF Refreshing
    <3> QED
      BY <1>6, <2>1, <3>1 DEF Alike, Same
  <2>3. CASE p \notin Refreshing
    <3>1. op'[p] = op[p]
      BY <1>4, <2>3
    <3> QED
      BY <1>0, <2>1, <2>3, <3>1 DEF Alike, Same, OpsHold
  <2> QED
    BY <2>2, <2>3
<1>8. op'[o] = q
  BY <1>4
<1>9. OpsHold' /\ OthersAlike(o)
  <2>1. \A p \in Op : op'[p] \in OpState /\ (op'[p].pc = "idle" => op'[p] = Idle)
    BY <1>3, <1>7, <1>8
  <2>2. op' \in [Op -> OpState]
    BY <1>4, <2>1
  <2> QED
    BY <1>7, <2>1, <2>2 DEF OpsHold, OthersAlike
<1>10. /\ RestHolds' /\ InBundle' = InBundle
       /\ unsure' \subseteq Existing /\ early' \subseteq Existing /\ gone' \subseteq Existing
  BY <1>0, <1>5 DEF RestHolds, InBundle, RowsHold
<1>11. NamesLast'
  BY <1>0, <1>3, <1>5, <1>8, <1>9, ComingStays
<1>12. OpStands(o)'
  BY <1>0, <1>1, <1>3, <1>5, <1>8, <1>10 DEF OpStands, UploadSteps, SyncSteps, AdoptSteps, Existing
<1>13. MaterialTypes' /\ TicketsStay /\ Existing' = Existing /\ References' = References
  BY <1>5, <1>9, <1>10, <1>11, <1>12, QuietMove
<1> QED
  <2>1. \A p \in Refreshing : p \in Op
    BY DEF Refreshing
  <2> QED
    BY <1>0, <1>3, <1>7, <1>8, <1>9, <1>13, <2>1 DEF Same

\* The document index is what was read.
LEMMA WriteIndexIs ==
    ASSUME MaterialTypes, NEW o \in Op, WriteIndex(o)
    PROVE  /\ MaterialTypes' /\ TicketsStay /\ Only(o) /\ Existing' = Existing /\ References' = References
           /\ op[o].pc = "writeIndex" /\ op'[o].pc = "readTexts" /\ Same(o) /\ op'[o].fresh = op[o].fresh
<1> DEFINE q == [op[o] EXCEPT !.pc = "readTexts", !.rows = {}, !.sure = {}, !.alone = TRUE]
<1>0. op[o] \in OpState /\ OpStands(o) /\ OpsHold /\ RestHolds /\ TicketsHold /\ RowsHold /\ op[o].pc = "writeIndex"
  BY NowIs DEF WriteIndex
<1>1. {} \in Rows
  BY DEF Rows
<1>2. /\ q \in OpState /\ q.pc = "readTexts" /\ q.job = op[o].job /\ q.file = op[o].file
      /\ q.ticket = op[o].ticket /\ q.listed = op[o].listed /\ q.todo = op[o].todo
      /\ q.held = op[o].held /\ q.got = op[o].got /\ q.fresh = op[o].fresh
  BY <1>0, <1>1 DEF OpState, Steps
<1>3. op' = [op EXCEPT ![o] = q]
  <2>1. op' = [op EXCEPT ![o].pc = "readTexts", ![o].rows = {}, ![o].sure = {}, ![o].alone = TRUE]
    BY DEF WriteIndex
  <2> QED
    BY <1>0, <2>1 DEF OpsHold, OpState
<1>4. UNCHANGED <<tickets, assets, bundle, chunks, begun, made, mirror, spoiled, strayed, early, gone>>
  BY DEF WriteIndex
<1> HIDE DEF q
<1>5. OpsHold' /\ op'[o] = q /\ Only(o) /\ OthersAlike(o)
  BY <1>0, <1>2, <1>3, OneMoves
<1>6. TicketsHold' /\ TicketsStay /\ Existing' = Existing /\ References' = References
  BY <1>0, <1>4, TicketsUnwritten
<1>7. RestHolds' /\ InBundle' = InBundle /\ made <= made'
  BY <1>0, <1>4 DEF RestHolds, InBundle, TicketsHold
<1>8. RowsHold'
  <2>1. index' = op[o].rows /\ unsure' \subseteq unsure
    BY DEF WriteIndex
  <2>2. index' \subseteq Existing \X Nat
    BY <1>0, <2>1 DEF OpStands
  <2> QED
    BY <1>0, <1>4, <1>6, <2>1, <2>2 DEF RowsHold, TicketsStay
<1>9. NamesLast'
  BY <1>0, <1>2, <1>4, <1>5, ComingStays
<1>10. OpStands(o)'
  BY <1>0, <1>2, <1>4, <1>5, <1>6, <1>7 DEF OpStands, UploadSteps, SyncSteps, AdoptSteps
<1> QED
  BY <1>0, <1>2, <1>5, <1>6, <1>7, <1>8, <1>9, <1>10, TypesMove DEF Same

\* The comments are read before the corpus is.
LEMMA ReadTextsIs ==
    ASSUME MaterialTypes, NEW o \in Op, ReadTexts(o)
    PROVE  /\ MaterialTypes' /\ TicketsStay /\ Only(o) /\ Existing' = Existing /\ References' = References
           /\ op[o].pc = "readTexts" /\ op'[o].pc = "readChunks" /\ Same(o) /\ op'[o].fresh = op[o].fresh
           /\ op'[o].texts = {t \in Existing : tickets[t].text}
<1> DEFINE texts == {t \in Existing : tickets[t].text}
           q == [op[o] EXCEPT !.pc = "readChunks", !.texts = texts]
<1>0. op[o] \in OpState /\ OpStands(o) /\ OpsHold /\ RestHolds /\ TicketsHold /\ RowsHold /\ op[o].pc = "readTexts"
  BY NowIs DEF ReadTexts
<1>1. texts \in SUBSET TicketUid
  BY DEF Existing
<1> HIDE DEF texts
<1>2. /\ q \in OpState /\ q.pc = "readChunks" /\ q.texts = texts /\ q.job = op[o].job /\ q.file = op[o].file
      /\ q.ticket = op[o].ticket /\ q.listed = op[o].listed /\ q.todo = op[o].todo
      /\ q.held = op[o].held /\ q.got = op[o].got /\ q.fresh = op[o].fresh
  BY <1>0, <1>1 DEF OpState, Steps
<1>3. op' = [op EXCEPT ![o] = q]
  <2>1. op' = [op EXCEPT ![o].pc = "readChunks", ![o].texts = texts]
    BY DEF ReadTexts, texts
  <2> QED
    BY <1>0, <2>1 DEF OpsHold, OpState
<1>4. UNCHANGED <<tickets, assets, bundle, index, chunks, begun, made, mirror, spoiled, strayed, unsure, early, gone>>
  BY DEF ReadTexts, history
<1> HIDE DEF q
<1>5. OpsHold' /\ op'[o] = q /\ Only(o) /\ OthersAlike(o)
  BY <1>0, <1>2, <1>3, OneMoves
<1>6. /\ RestHolds' /\ InBundle' = InBundle
      /\ unsure' \subseteq Existing /\ early' \subseteq Existing /\ gone' \subseteq Existing
  BY <1>0, <1>4 DEF RestHolds, InBundle, RowsHold
<1>7. NamesLast'
  BY <1>0, <1>2, <1>4, <1>5, ComingStays
<1>8. OpStands(o)'
  BY <1>0, <1>2, <1>4, <1>5, <1>6 DEF OpStands, UploadSteps, SyncSteps, AdoptSteps, Existing
<1>9. MaterialTypes' /\ TicketsStay /\ Existing' = Existing /\ References' = References
  BY <1>4, <1>5, <1>6, <1>7, <1>8, QuietMove
<1> QED
  BY <1>0, <1>2, <1>5, <1>9 DEF Same, texts

\* A row is kept, or made with the text that was read before.
LEMMA ReadChunksIs ==
    ASSUME MaterialTypes, NEW o \in Op, ReadChunks(o)
    PROVE  /\ MaterialTypes' /\ TicketsStay /\ Only(o) /\ Existing' = Existing /\ References' = References
           /\ op[o].pc = "readChunks" /\ op'[o].pc = "writeChunks" /\ Same(o) /\ op'[o].fresh = op[o].fresh
           /\ op'[o].rows = UNION {Chunk(o, t) : t \in Existing}
<1> DEFINE rows == UNION {Chunk(o, t) : t \in Existing}
           q == [op[o] EXCEPT !.pc = "writeChunks", !.rows = rows, !.texts = {}]
<1>0. op[o] \in OpState /\ OpStands(o) /\ OpsHold /\ RestHolds /\ TicketsHold /\ RowsHold /\ op[o].pc = "readChunks"
  BY NowIs DEF ReadChunks
<1>1. rows \subseteq Existing \X Nat \X BOOLEAN
  <2>1. \A t \in Existing : tickets[t].stamp \in Nat
    BY <1>0 DEF TicketsHold, Existing, Ticket
  <2>2. ASSUME NEW t \in Existing PROVE Chunk(o, t) \subseteq Existing \X Nat \X BOOLEAN
    <3> DEFINE read == t \in op[o].texts
    <3>1. read \in BOOLEAN
      OBVIOUS
    <3>2. Kept(t) \subseteq Existing \X Nat \X BOOLEAN
      BY <1>0 DEF Kept, RowsHold
    <3>3. Chunk(o, t) = IF Kept(t) # {} THEN Kept(t) ELSE {<<t, tickets[t].stamp, read>>}
      BY DEF Chunk
    <3> HIDE DEF read
    <3>4. <<t, tickets[t].stamp, read>> \in Existing \X Nat \X BOOLEAN
      BY <2>1, <3>1
    <3> QED
      BY <3>2, <3>3, <3>4
  <2> QED
    BY <2>2
<1>2. rows \in Rows
  BY <1>1 DEF Rows, Existing
<1> HIDE DEF rows
<1>3. /\ q \in OpState /\ q.pc = "writeChunks" /\ q.rows = rows /\ q.job = op[o].job /\ q.file = op[o].file
      /\ q.ticket = op[o].ticket /\ q.listed = op[o].listed /\ q.todo = op[o].todo
      /\ q.held = op[o].held /\ q.got = op[o].got /\ q.fresh = op[o].fresh
  BY <1>0, <1>2 DEF OpState, Steps
<1>4. op' = [op EXCEPT ![o] = q]
  <2>1. op' = [op EXCEPT ![o].pc = "writeChunks", ![o].rows = rows, ![o].texts = {}]
    BY DEF ReadChunks, rows, Corpus
  <2> QED
    BY <1>0, <2>1 DEF OpsHold, OpState
<1>5. UNCHANGED <<tickets, assets, bundle, index, chunks, begun, made, mirror, spoiled, strayed, unsure, gone>>
  BY DEF ReadChunks
<1> HIDE DEF q
<1>6. OpsHold' /\ op'[o] = q /\ Only(o) /\ OthersAlike(o)
  BY <1>0, <1>3, <1>4, OneMoves
<1>7. Unread(o) \subseteq Existing
  BY DEF Unread
<1>8. /\ RestHolds' /\ InBundle' = InBundle
      /\ unsure' \subseteq Existing /\ early' \subseteq Existing /\ gone' \subseteq Existing
  BY <1>0, <1>5, <1>7 DEF RestHolds, InBundle, RowsHold, ReadChunks
<1>9. NamesLast'
  BY <1>0, <1>3, <1>5, <1>6, ComingStays
<1>10. OpStands(o)'
  BY <1>0, <1>1, <1>3, <1>5, <1>6, <1>8 DEF OpStands, UploadSteps, SyncSteps, AdoptSteps, Existing
<1>11. MaterialTypes' /\ TicketsStay /\ Existing' = Existing /\ References' = References
  BY <1>5, <1>6, <1>8, <1>9, <1>10, QuietMove
<1> QED
  BY <1>0, <1>3, <1>6, <1>11 DEF Same, rows

\* The chunk index is what was read; only an upload goes on.
LEMMA WriteChunksIs ==
    ASSUME MaterialTypes, NEW o \in Op, WriteChunks(o)
    PROVE  /\ MaterialTypes' /\ TicketsStay /\ Only(o) /\ Existing' = Existing /\ References' = References
           /\ op[o].pc = "writeChunks" /\ op'[o].pc \in {"idle", "name"}
<1>0. op[o] \in OpState /\ OpStands(o) /\ OpsHold /\ RestHolds /\ TicketsHold /\ RowsHold /\ op[o].pc = "writeChunks"
  BY NowIs DEF WriteChunks
<1>1. op' = Proceed(o) /\ UNCHANGED <<tickets, assets, bundle, index, begun, made, mirror, spoiled, strayed, unsure, early, gone>>
  BY DEF WriteChunks, history
<1>2. After(o) = IF Placing(o) THEN "name" ELSE "idle"
  BY <1>0 DEF After
<1>3. /\ OpsHold' /\ Only(o) /\ OthersAlike(o)
      /\ IF After(o) = "idle" THEN op'[o] = Idle ELSE op'[o].pc = "name" /\ Same(o)
  BY <1>0, <1>1, <1>2, ProceedIs
<1>4. TicketsHold' /\ TicketsStay /\ Existing' = Existing /\ References' = References
  BY <1>0, <1>1, TicketsUnwritten
<1>5. RestHolds' /\ InBundle' = InBundle /\ made <= made'
  BY <1>0, <1>1 DEF RestHolds, InBundle, TicketsHold
<1>6. RowsHold'
  <2>1. chunks' = op[o].rows /\ chunks' \subseteq Existing \X Nat \X BOOLEAN
    BY <1>0 DEF WriteChunks, OpStands
  <2> QED
    BY <1>0, <1>1, <1>4, <2>1 DEF RowsHold, TicketsStay
<1>7. NamesLast'
  BY <1>0, <1>1, <1>3, ComingStays, IdleIs DEF Same
<1>8. OpStands(o)'
  <2>1. CASE After(o) = "idle"
    BY <1>3, <2>1, IdleStands
  <2>2. CASE After(o) # "idle"
    <3>1. op[o].job = "upload"
      BY <1>2, <2>2 DEF Placing
    <3> QED
      BY <1>0, <1>1, <1>3, <1>4, <1>5, <2>2, <3>1 DEF OpStands, UploadSteps, SyncSteps, AdoptSteps, Same
  <2> QED
    BY <2>1, <2>2
<1>9. MaterialTypes'
  BY <1>3, <1>4, <1>5, <1>6, <1>7, <1>8, TypesMove
<1> QED
  BY <1>0, <1>2, <1>3, <1>4, <1>9, IdleIs

\* A free name is found.
LEMMA FindNameIs ==
    ASSUME MaterialTypes, NEW o \in Op, FindName(o)
    PROVE  /\ MaterialTypes' /\ TicketsStay /\ Only(o) /\ Existing' = Existing /\ References' = References
           /\ op[o].pc = "name" /\ op'[o].pc = "check"
<1> DEFINE q == [op[o] EXCEPT !.pc = "check", !.name = FreeName]
<1>0. op[o] \in OpState /\ OpStands(o) /\ OpsHold /\ RestHolds /\ TicketsHold /\ RowsHold /\ op[o].pc = "name"
  BY NowIs DEF FindName
<1>1. op[o].job = "upload" /\ o \in Coming
  BY <1>0 DEF OpStands, UploadSteps, Coming
<1>2. FreeName \in Name
  BY <1>1, FreeNameIs
<1>3. /\ q \in OpState /\ q.pc = "check" /\ q.name = FreeName /\ q.job = op[o].job /\ q.file = op[o].file
      /\ q.ticket = op[o].ticket /\ q.listed = op[o].listed /\ q.todo = op[o].todo
      /\ q.held = op[o].held /\ q.got = op[o].got
  BY <1>0, <1>2 DEF OpState, Steps
<1>4. op' = [op EXCEPT ![o] = q]
  <2>1. op' = [op EXCEPT ![o].pc = "check", ![o].name = FreeName]
    BY DEF FindName
  <2> QED
    BY <1>0, <2>1 DEF OpsHold, OpState
<1>5. UNCHANGED <<tickets, assets, bundle, index, chunks, begun, made, mirror, spoiled, strayed, unsure, early, gone>>
  BY DEF FindName, history
<1> HIDE DEF q
<1>6. OpsHold' /\ op'[o] = q /\ Only(o) /\ OthersAlike(o)
  BY <1>0, <1>3, <1>4, OneMoves
<1>8. /\ RestHolds' /\ InBundle' = InBundle
      /\ unsure' \subseteq Existing /\ early' \subseteq Existing /\ gone' \subseteq Existing
  BY <1>0, <1>5 DEF RestHolds, InBundle, RowsHold
<1>9. NamesLast'
  BY <1>0, <1>3, <1>5, <1>6, ComingStays
<1>10. OpStands(o)'
  BY <1>0, <1>1, <1>2, <1>3, <1>5, <1>6, <1>8 DEF OpStands, UploadSteps, SyncSteps, AdoptSteps, Existing
<1>11. MaterialTypes' /\ TicketsStay /\ Existing' = Existing /\ References' = References
  BY <1>5, <1>6, <1>8, <1>9, <1>10, QuietMove
<1> QED
  BY <1>0, <1>3, <1>6, <1>11

\* The name is looked at again, and taken or given up.
LEMMA CheckNameIs ==
    ASSUME MaterialTypes, NEW o \in Op, CheckName(o)
    PROVE  /\ MaterialTypes' /\ TicketsStay /\ Only(o) /\ Existing' = Existing /\ References' = References
           /\ op[o].pc = "check" /\ op'[o].pc \in {"idle", "write"}
<1>0. op[o] \in OpState /\ OpStands(o) /\ OpsHold /\ RestHolds /\ TicketsHold /\ RowsHold /\ op[o].pc = "check"
  BY NowIs DEF CheckName
<1>1. /\ op' = [op EXCEPT ![o] = Idle] \/ op' = Proceed(o)
      /\ UNCHANGED <<tickets, assets, bundle, index, chunks, begun, made, mirror, spoiled, strayed, unsure, early, gone>>
  BY DEF CheckName, history
<1>2. After(o) = "write"
  BY <1>0 DEF After
<1>3. /\ OpsHold' /\ Only(o) /\ OthersAlike(o)
      /\ op'[o] = Idle \/ (op'[o].pc = "write" /\ Same(o) /\ op'[o].name = op[o].name)
  BY <1>0, <1>1, <1>2, ProceedIs, IdleMoves
<1>5. /\ RestHolds' /\ InBundle' = InBundle
      /\ unsure' \subseteq Existing /\ early' \subseteq Existing /\ gone' \subseteq Existing
  BY <1>0, <1>1 DEF RestHolds, InBundle, RowsHold
<1>7. NamesLast'
  BY <1>0, <1>1, <1>3, ComingStays, IdleIs DEF Same
<1>8. OpStands(o)'
  <2>1. CASE op'[o] = Idle
    BY <2>1, IdleStands
  <2>2. CASE op'[o].pc = "write" /\ Same(o) /\ op'[o].name = op[o].name
    BY <1>0, <1>1, <1>5, <2>2 DEF OpStands, UploadSteps, SyncSteps, AdoptSteps, Same, Existing
  <2> QED
    BY <1>3, <2>1, <2>2
<1>9. MaterialTypes' /\ TicketsStay /\ Existing' = Existing /\ References' = References
  BY <1>1, <1>3, <1>5, <1>7, <1>8, QuietMove
<1> QED
  BY <1>0, <1>3, <1>9, IdleIs

\* The bytes are written under the name.
LEMMA WriteAssetIs ==
    ASSUME MaterialTypes, NEW o \in Op, WriteAsset(o)
    PROVE  /\ MaterialTypes' /\ TicketsStay /\ Only(o) /\ Existing' = Existing /\ References' = References
           /\ op[o].pc = "write" /\ op'[o].pc = "place" /\ Same(o)
           /\ op[o].name \in Name /\ op[o].ticket \in Existing
           /\ assets \in [Name -> Existing \cup {None}]
<1> DEFINE n == op[o].name
           t == op[o].ticket
<1>0. /\ op[o] \in OpState /\ OpStands(o) /\ OpsHold /\ RestHolds /\ TicketsHold /\ RowsHold /\ NamesLast
      /\ op[o].pc = "write" /\ begun \in Nat
  BY NowIs DEF WriteAsset
<1>1. n \in Name /\ op[o].job = "upload" /\ t \in Existing /\ tickets[t].type = "material" /\ t \in TicketUid
  BY <1>0 DEF OpStands, UploadSteps, Existing
<1>2. /\ assets' = [assets EXCEPT ![n] = t] /\ gone' = gone \cup ({assets[n]} \ {None}) /\ op' = Proceed(o)
      /\ UNCHANGED <<tickets, bundle, index, chunks, begun, made, mirror, spoiled, strayed, unsure, early>>
  BY DEF WriteAsset
<1>3. After(o) = "place"
  BY <1>0 DEF After
<1> HIDE DEF n, t
<1>4. OpsHold' /\ Only(o) /\ OthersAlike(o) /\ op'[o].pc = "place" /\ Same(o)
  BY <1>0, <1>2, <1>3, ProceedIs
<1>5. TicketsHold' /\ TicketsStay /\ Existing' = Existing /\ References' = References
  BY <1>0, <1>2, TicketsUnwritten
<1>6. RestHolds' /\ InBundle' = InBundle /\ made <= made'
  BY <1>0, <1>2 DEF RestHolds, InBundle, TicketsHold
<1>7. assets \in [Name -> Existing \cup {None}]
  BY <1>0 DEF RowsHold
<1>8. assets' \in [Name -> Existing \cup {None}] /\ gone' \subseteq Existing
  BY <1>0, <1>1, <1>2, <1>7 DEF RowsHold
<1>9. RowsHold'
  <2>1. \A m \in Name : assets'[m] # None => tickets'[assets'[m]].type = "material"
    BY <1>0, <1>1, <1>2, <1>7 DEF RowsHold
  <2> QED
    BY <1>0, <1>2, <1>5, <1>8, <2>1 DEF RowsHold
<1>10. NamesLast'
  <2>1. OnSite' \subseteq OnSite \cup {n}
    BY <1>1, <1>2, <1>7 DEF OnSite
  <2>2. Coming' \subseteq Coming \ {o} /\ o \in Coming
    BY <1>0, <1>1, <1>4 DEF Coming, Only
  <2>3. /\ IsFiniteSet(Coming) /\ IsFiniteSet(Coming \ {o}) /\ Cardinality(Coming) \in Nat
        /\ Cardinality(Coming \ {o}) = Cardinality(Coming) - 1
    BY <1>0, <2>2, FS_RemoveElement, FS_CardinalityType DEF NamesLast
  <2>4. IsFiniteSet(Coming') /\ Cardinality(Coming') <= Cardinality(Coming \ {o})
    BY <2>2, <2>3, FS_Subset
  <2>5. /\ IsFiniteSet(OnSite \cup {n})
        /\ Cardinality(OnSite \cup {n}) <= Cardinality(OnSite) + 1
    <3>1. IsFiniteSet(OnSite) /\ Cardinality(OnSite) \in Nat
      BY OnSiteIsFinite
    <3>2. /\ IsFiniteSet(OnSite \cup {n})
          /\ Cardinality(OnSite \cup {n}) = IF n \in OnSite THEN Cardinality(OnSite) ELSE Cardinality(OnSite) + 1
      BY <3>1, FS_AddElement
    <3> QED
      BY <3>1, <3>2
  <2>6. IsFiniteSet(OnSite') /\ Cardinality(OnSite') <= Cardinality(OnSite \cup {n})
    BY <2>1, <2>5, FS_Subset
  <2>7. /\ Cardinality(OnSite') \in Nat /\ Cardinality(OnSite \cup {n}) \in Nat
        /\ Cardinality(Coming') \in Nat /\ Cardinality(Coming \ {o}) \in Nat
    BY <2>3, <2>4, <2>5, <2>6, FS_CardinalityType
  <2>8. Cardinality(OnSite) \in Nat
    BY OnSiteIsFinite
  <2>9. Cardinality(OnSite) + Cardinality(Coming) <= begun /\ begun' = begun
    BY <1>0, <1>2 DEF NamesLast
  <2> QED
    BY <1>0, <2>3, <2>4, <2>5, <2>6, <2>7, <2>8, <2>9 DEF NamesLast
<1>11. OpStands(o)'
  BY <1>0, <1>1, <1>2, <1>4, <1>5, <1>6 DEF OpStands, UploadSteps, SyncSteps, AdoptSteps, Same, TicketsStay, t
<1>12. MaterialTypes'
  BY <1>4, <1>5, <1>6, <1>9, <1>10, <1>11, TypesMove
<1> QED
  BY <1>0, <1>1, <1>4, <1>5, <1>7, <1>12 DEF n, t

\* The whole of it, when no request moves.
LEMMA TypesStay ==
    ASSUME MaterialTypes, TicketsHold', TicketsStay, RowsHold', RestHolds', OpsHold', NamesLast',
           InBundle \subseteq InBundle', made <= made', \A p \in Op : Alike(p)
    PROVE  MaterialTypes'
<1>1. /\ op \in [Op -> OpState] /\ \A p \in Op : OpStands(p) /\ made \in Nat /\ made' \in Nat
  BY TypesAre DEF OpsHold, TicketsHold
<1>3. \A p \in Op : OpStands(p)'
  BY <1>1, StandsStay
<1>5. \A p \in Op : op'[p].pc \in Steps
  BY DEF OpsHold, OpState
<1> QED
  BY <1>3, <1>5 DEF MaterialTypes, MaterialTypeOK, TicketsHold, RowsHold, RestHolds, OpsHold

\* A file of the site is removed; no request and no ticket moves.
LEMMA RemoveAssetIs ==
    ASSUME MaterialTypes, RemoveAsset
    PROVE  /\ MaterialTypes' /\ TicketsStay /\ Existing' = Existing /\ References' = References
           /\ \A p \in Op : op'[p] = op[p]
           /\ \E n \in OnSite : assets' = [assets EXCEPT ![n] = None] /\ gone' = gone \cup {assets[n]}
           /\ assets \in [Name -> Existing \cup {None}]
<1>0. /\ OpsHold /\ RestHolds /\ TicketsHold /\ RowsHold /\ NamesLast /\ begun \in Nat
  BY TypesAre DEF RestHolds
<1>1. PICK n \in OnSite :
        /\ assets' = [assets EXCEPT ![n] = None]
        /\ gone' = gone \cup {assets[n]}
        /\ UNCHANGED <<tickets, bundle, index, chunks, op, begun, made, mirror, spoiled, strayed, unsure, early>>
  BY DEF RemoveAsset
<1>2. TicketsHold' /\ TicketsStay /\ Existing' = Existing /\ References' = References
  BY <1>0, <1>1, TicketsUnwritten
<1>3. RestHolds' /\ InBundle' = InBundle /\ made <= made' /\ OpsHold'
  BY <1>0, <1>1 DEF RestHolds, InBundle, TicketsHold, OpsHold
<1>4. assets \in [Name -> Existing \cup {None}] /\ n \in Name /\ assets[n] \in Existing
  BY <1>0 DEF RowsHold, OnSite
<1>5. RowsHold'
  BY <1>0, <1>1, <1>2, <1>4 DEF RowsHold
<1>6. NamesLast'
  <2>1. OnSite' \subseteq OnSite /\ Coming' = Coming
    BY <1>1, <1>4 DEF OnSite, Coming
  <2> QED
    BY <1>0, <1>1, <2>1, NamesStay
<1>7. \A p \in Op : Alike(p)
  BY <1>1 DEF Alike, Same
<1>8. MaterialTypes'
  BY <1>2, <1>3, <1>5, <1>6, <1>7, TypesStay
<1> QED
  BY <1>1, <1>2, <1>4, <1>8

\* A capture writes the bundle, and whoever adopts has listed an older one.
LEMMA CaptureIs ==
    ASSUME MaterialTypes, Capture
    PROVE  /\ MaterialTypes' /\ TicketsStay /\ Existing' = Existing /\ References' = References
           /\ InBundle \subseteq InBundle'
           /\ \A p \in Op : Alike(p) /\ (op[p].job = "adopt" => ~op'[p].fresh)
<1>0. /\ OpsHold /\ RestHolds /\ TicketsHold /\ RowsHold /\ NamesLast /\ begun \in Nat
  BY TypesAre DEF RestHolds
<1>1. PICK n \in 1..MaxCapture, changed \in (SUBSET Member) \ {{}} :
        /\ bundle' = [m \in Member |-> IF m \in changed THEN n ELSE bundle[m]]
        /\ op' = [p \in Op |-> IF p \in Adopting THEN [op[p] EXCEPT !.fresh = FALSE] ELSE op[p]]
        /\ mirror' = FALSE
        /\ UNCHANGED <<tickets, assets, index, chunks, begun, made, spoiled, strayed, unsure, early, gone>>
  BY DEF Capture
<1>2. TicketsHold' /\ TicketsStay /\ Existing' = Existing /\ References' = References
  BY <1>0, <1>1, TicketsUnwritten
<1>3. RestHolds' /\ InBundle \subseteq InBundle' /\ made <= made'
  <2>1. n \in 0..MaxCapture /\ n # 0
    BY BoundsAreNat
  <2>2. bundle' \in [Member -> 0..MaxCapture]
    BY <1>0, <1>1, <2>1 DEF RestHolds
  <2>3. InBundle \subseteq InBundle'
    BY <1>1, <2>1 DEF InBundle
  <2>4. mirror' = FALSE /\ UNCHANGED <<begun, made, spoiled, strayed>>
    BY <1>1
  <2>5. RestHolds'
    BY <1>0, <2>2, <2>4, Zenon DEF RestHolds
  <2> QED
    BY <1>0, <2>3, <2>4, <2>5 DEF TicketsHold
<1>4. ASSUME NEW s \in OpState
      PROVE  LET r == [s EXCEPT !.fresh = FALSE] IN
             /\ r \in OpState /\ r.pc = s.pc /\ r.rows = s.rows /\ r.name = s.name
             /\ r.sure = s.sure /\ r.alone = s.alone /\ r.fresh = FALSE
             /\ r.job = s.job /\ r.file = s.file /\ r.ticket = s.ticket /\ r.listed = s.listed
             /\ r.todo = s.todo /\ r.held = s.held /\ r.got = s.got /\ r.texts = s.texts
  BY DEF OpState
<1>5. ASSUME NEW p \in Op
      PROVE  /\ op'[p] \in OpState /\ Alike(p) /\ (op'[p].pc = "idle" => op'[p] = Idle)
             /\ (op[p].job = "adopt" => ~op'[p].fresh)
  <2>1. op[p] \in OpState /\ OpStands(p)
    BY <1>0, TypesAre DEF OpsHold
  <2>2. CASE op[p].job = "adopt"
    <3>1. op'[p] = [op[p] EXCEPT !.fresh = FALSE]
      BY <1>1, <2>2 DEF Adopting
    <3>2. op[p].pc # "idle"
      BY <2>1, <2>2 DEF OpStands
    <3> QED
      BY <1>4, <2>1, <3>1, <3>2 DEF Alike, Same
  <2>3. CASE op[p].job # "adopt"
    <3>1. op'[p] = op[p]
      BY <1>1, <2>3 DEF Adopting
    <3> QED
      BY <1>0, <2>1, <2>3, <3>1 DEF Alike, Same, OpsHold
  <2> QED
    BY <2>2, <2>3
<1>6. OpsHold'
  BY <1>1, <1>5 DEF OpsHold
<1>7. RowsHold'
  BY <1>0, <1>1, <1>2, RowsUnwritten DEF RowsHold
<1>8. NamesLast'
  <2>1. OnSite' = OnSite /\ Coming' = Coming
    BY <1>1, <1>5 DEF OnSite, Coming, Alike, Same
  <2> QED
    BY <1>0, <1>1, <2>1, NamesStay
<1>9. MaterialTypes'
  BY <1>2, <1>3, <1>5, <1>6, <1>7, <1>8, TypesStay
<1> QED
  BY <1>2, <1>3, <1>5, <1>9

\* An adoption finds a reference, if there is one.
LEMMA FindByBundleIs ==
    ASSUME MaterialTypes, NEW o \in Op, FindByBundle(o)
    PROVE  /\ MaterialTypes' /\ TicketsStay /\ Only(o) /\ Existing' = Existing /\ References' = References
           /\ op[o].pc = "find" /\ op'[o].pc = "upsert" /\ op'[o].job = "adopt" /\ op[o].job = "adopt"
           /\ op'[o].ticket \in Found
           /\ op'[o].listed = op[o].listed /\ op'[o].fresh = op[o].fresh
<1>0. op[o] \in OpState /\ OpStands(o) /\ OpsHold /\ RestHolds /\ TicketsHold /\ RowsHold /\ op[o].pc = "find"
  BY NowIs DEF FindByBundle
<1>1. PICK t \in Found : op' = [op EXCEPT ![o].pc = "upsert", ![o].ticket = t]
  BY DEF FindByBundle
<1> DEFINE q == [op[o] EXCEPT !.pc = "upsert", !.ticket = t]
<1>2. t \in TicketUid \cup {None} /\ (t # None => t \in References)
  BY DEF Found, References, Existing
<1>3. /\ q \in OpState /\ q.pc = "upsert" /\ q.ticket = t /\ q.job = op[o].job /\ q.file = op[o].file
      /\ q.listed = op[o].listed /\ q.todo = op[o].todo
      /\ q.held = op[o].held /\ q.got = op[o].got /\ q.fresh = op[o].fresh
  BY <1>0, <1>2 DEF OpState, Steps
<1>4. op' = [op EXCEPT ![o] = q]
  BY <1>0, <1>1 DEF OpsHold, OpState
<1>5. UNCHANGED <<tickets, assets, bundle, index, chunks, begun, made, mirror, spoiled, strayed, unsure, early, gone>>
  BY DEF FindByBundle, history
<1> HIDE DEF q
<1>6. OpsHold' /\ op'[o] = q /\ Only(o) /\ OthersAlike(o)
  BY <1>0, <1>3, <1>4, OneMoves
<1>7. op[o].job = "adopt"
  BY <1>0 DEF OpStands, AdoptSteps
<1>8. /\ RestHolds' /\ InBundle' = InBundle
      /\ unsure' \subseteq Existing /\ early' \subseteq Existing /\ gone' \subseteq Existing
  BY <1>0, <1>5 DEF RestHolds, InBundle, RowsHold
<1>9. NamesLast'
  BY <1>0, <1>3, <1>5, <1>6, <1>7, ComingStays
<1>10. OpStands(o)'
  BY <1>0, <1>2, <1>3, <1>5, <1>6, <1>7, <1>8 DEF OpStands, UploadSteps, SyncSteps, AdoptSteps, Existing, References
<1>11. MaterialTypes' /\ TicketsStay /\ Existing' = Existing /\ References' = References
  BY <1>5, <1>6, <1>8, <1>9, <1>10, QuietMove
<1> QED
  BY <1>0, <1>1, <1>3, <1>6, <1>7, <1>11

\* It makes or overwrites the one ticket.
LEMMA UpsertIs ==
    ASSUME MaterialTypes, NEW o \in Op, Upsert(o)
    PROVE  /\ MaterialTypes' /\ TicketsStay /\ OthersAlike(o)
           /\ op[o].pc = "upsert" /\ op'[o].pc = "listing" /\ op[o].job = "adopt" /\ op'[o].job = "adopt"
           /\ op'[o].listed = op[o].listed /\ op'[o].fresh = op[o].fresh
           /\ \E t \in TicketUid :
                 /\ op'[o].ticket = t /\ Existing' = Existing \cup {t} /\ References' = References \cup {t}
                 /\ unsure' = unsure \cup {t} /\ \A p \in Op : t \notin op'[p].sure
                 /\ \A u \in TicketUid \ {t} : tickets'[u] = tickets[u]
                 /\ IF op[o].ticket = None
                    THEN t \notin Existing /\ tickets'[t].files = {} /\ ~tickets'[t].placed
                    ELSE /\ op[o].ticket = t /\ t \in References
                         /\ tickets'[t] = [tickets[t] EXCEPT !.body = @ + 1, !.stamp = @ + 1]
<1> DEFINE t == IF op[o].ticket = None THEN NewUid ELSE op[o].ticket
           q == IF op[o].ticket = None THEN [op[o] EXCEPT !.pc = "listing", !.ticket = NewUid]
                ELSE [op[o] EXCEPT !.pc = "listing"]
           new == [type |-> "reference", site |-> FALSE, text |-> FALSE, body |-> 1,
                   stamp |-> 1, placed |-> FALSE, files |-> {}]
           x == IF op[o].ticket = None THEN new
                ELSE [tickets[t] EXCEPT !.body = @ + 1, !.stamp = @ + 1]
<1>0. op[o] \in OpState /\ OpStands(o) /\ OpsHold /\ RestHolds /\ TicketsHold /\ RowsHold /\ op[o].pc = "upsert"
  BY NowIs DEF Upsert
<1>1. op[o].job = "adopt" /\ (op[o].ticket # None => op[o].ticket \in References)
  BY <1>0 DEF OpStands, AdoptSteps
<1>2. /\ t \in TicketUid
      /\ op[o].ticket = None => t \notin Existing
      /\ op[o].ticket # None => t \in References /\ t \in Existing
  <2>1. op[o].ticket = None => Existing # TicketUid
    BY DEF Upsert
  <2> QED
    BY <1>1, <2>1, NewUidIs DEF References, Existing
<1>3. /\ x \in Ticket /\ x.type = "reference"
      /\ t \in Existing => x.type = tickets[t].type /\ x.files = tickets[t].files
      /\ t \notin Existing => x.files = {} /\ ~x.placed
  <2>1. CASE op[o].ticket = None
    <3>1. new \in Ticket
      BY DEF Ticket
    <3> QED
      BY <1>2, <2>1, <3>1
  <2>2. CASE op[o].ticket # None
    <3>1. tickets[t] \in Ticket /\ tickets[t].type = "reference"
      BY <1>0, <1>2, <2>2 DEF TicketsHold, References, Existing
    <3>2. tickets[t].stamp + 1 \in Nat /\ tickets[t].body + 1 \in Nat
      BY <3>1 DEF Ticket
    <3>3. x = [tickets[t] EXCEPT !.body = @ + 1, !.stamp = @ + 1]
      BY <2>2
    <3> QED
      BY <1>2, <2>2, <3>1, <3>2, <3>3 DEF Ticket
  <2> QED
    BY <2>1, <2>2
<1>4. /\ q \in OpState /\ q.pc = "listing" /\ q.ticket = t /\ q.job = "adopt" /\ q.file = op[o].file
      /\ q.listed = op[o].listed /\ q.todo = op[o].todo /\ q.held = op[o].held /\ q.fresh = op[o].fresh
  BY <1>0, <1>1, <1>2 DEF OpState, Steps
<1>5. Put(t, x, [op EXCEPT ![o] = q])
  <2>1. CASE op[o].ticket = None
    <3>1. Put(NewUid, new, [op EXCEPT ![o].pc = "listing", ![o].ticket = NewUid])
      BY <2>1 DEF Upsert
    <3>2. [op EXCEPT ![o].pc = "listing", ![o].ticket = NewUid] = [op EXCEPT ![o] = q]
      BY <1>0, <2>1 DEF OpsHold, OpState
    <3> QED
      BY <2>1, <3>1, <3>2
  <2>2. CASE op[o].ticket # None
    <3>1. Put(t, x, Goto(o, "listing"))
      BY <2>2 DEF Upsert
    <3>2. Goto(o, "listing") = [op EXCEPT ![o] = q]
      BY <2>2 DEF Goto
    <3> QED
      BY <3>1, <3>2
  <2> QED
    BY <2>1, <2>2
<1>6. op[o].ticket # None => x = [tickets[t] EXCEPT !.body = @ + 1, !.stamp = @ + 1]
  OBVIOUS
<1>7. op[o].ticket # None => t = op[o].ticket
  OBVIOUS
<1> HIDE DEF q, x, t, new
<1>8. UNCHANGED <<assets, bundle, index, chunks, begun, made, mirror, spoiled, strayed, early, gone>>
  BY DEF Upsert
<1>9. /\ TicketsHold' /\ TicketsStay /\ RowsHold' /\ OpsHold' /\ OthersAlike(o)
      /\ Existing' = Existing \cup {t} /\ tickets'[t] = x
      /\ \A u \in TicketUid \ {t} : tickets'[u] = tickets[u]
      /\ unsure' = unsure \cup {t} /\ \A p \in Op : t \notin op'[p].sure
      /\ op'[o].pc = q.pc /\ op'[o].job = q.job /\ op'[o].file = q.file /\ op'[o].ticket = q.ticket
      /\ op'[o].listed = q.listed /\ op'[o].todo = q.todo /\ op'[o].held = q.held /\ op'[o].fresh = q.fresh
  BY <1>2, <1>3, <1>4, <1>5, <1>8, PutIs
<1>10. RestHolds' /\ InBundle' = InBundle /\ made <= made'
  BY <1>0, <1>8, NowIs DEF RestHolds, InBundle
<1>11. NamesLast'
  BY <1>4, <1>8, <1>9, ComingStays
<1>12. References' = References \cup {t}
  <2>1. \A u \in Existing : u # t => tickets'[u] = tickets[u]
    BY <1>9 DEF Existing
  <2>2. t \in References'
    BY <1>3, <1>9 DEF References
  <2> QED
    BY <1>2, <1>9, <2>1, <2>2 DEF References, TicketsStay
<1>13. OpStands(o)'
  BY <1>0, <1>1, <1>2, <1>4, <1>8, <1>9, <1>10, <1>12 DEF OpStands, UploadSteps, SyncSteps, AdoptSteps
<1>14. MaterialTypes'
  BY <1>9, <1>10, <1>11, <1>13, TypesMove
<1> QED
  BY <1>0, <1>1, <1>2, <1>3, <1>4, <1>6, <1>7, <1>9, <1>12, <1>14

\* Who synchronises has a reference, and members that are in the bundle.
LEMMA SyncIs ==
    ASSUME MaterialTypes, NEW o \in Op, op[o].pc \in {"listing"} \cup SyncSteps
    PROVE  /\ op[o] \in OpState /\ OpStands(o) /\ OpsHold /\ RestHolds /\ TicketsHold /\ RowsHold /\ made \in Nat
           /\ op[o].job = "adopt" /\ op[o].ticket \in References /\ op[o].ticket \in Existing
           /\ op[o].ticket \in TicketUid /\ tickets[op[o].ticket] \in Ticket
           /\ tickets[op[o].ticket].files \subseteq File
           /\ \A f \in op[o].held : f.uid <= made
<1>1. op[o] \in OpState /\ OpStands(o) /\ OpsHold /\ RestHolds /\ TicketsHold /\ RowsHold /\ made \in Nat
  BY NowIs
<1>2. op[o].job = "adopt" /\ op[o].ticket \in References /\ \A f \in op[o].held : f.uid <= made
  BY <1>1 DEF OpStands, AdoptSteps, SyncSteps, UploadSteps
<1>3. op[o].ticket \in Existing /\ op[o].ticket \in TicketUid
  BY <1>2 DEF References, Existing
<1>4. tickets[op[o].ticket] \in Ticket
  BY <1>1, <1>3 DEF TicketsHold, Existing
<1> QED
  BY <1>1, <1>2, <1>3, <1>4 DEF Ticket

\* It holds one record of each member the reference has.
LEMMA ListAttachmentsIs ==
    ASSUME MaterialTypes, NEW o \in Op, ListAttachments(o)
    PROVE  /\ MaterialTypes' /\ TicketsStay /\ Only(o) /\ Existing' = Existing /\ References' = References
           /\ op[o].pc = "listing" /\ op'[o].pc = "member"
           /\ op'[o].held \in Held(op[o].ticket) /\ op[o].ticket \in References
           /\ op'[o].job = op[o].job /\ op'[o].ticket = op[o].ticket /\ op'[o].listed = op[o].listed
           /\ op'[o].todo = op[o].todo /\ op[o].todo = op[o].listed /\ op'[o].fresh = op[o].fresh
<1>0. op[o].pc = "listing"
  BY DEF ListAttachments
<1>1. /\ op[o] \in OpState /\ OpStands(o) /\ OpsHold /\ RestHolds /\ TicketsHold /\ RowsHold /\ made \in Nat
      /\ op[o].job = "adopt" /\ op[o].ticket \in References /\ op[o].ticket \in Existing
      /\ op[o].ticket \in TicketUid /\ tickets[op[o].ticket].files \subseteq File
  BY <1>0, SyncIs
<1>2. PICK S \in Held(op[o].ticket) : op' = [op EXCEPT ![o].pc = "member", ![o].held = S]
  BY DEF ListAttachments
<1>3. S \subseteq tickets[op[o].ticket].files
  BY DEF Held
<1> DEFINE q == [op[o] EXCEPT !.pc = "member", !.held = S]
<1>4. /\ q \in OpState /\ q.pc = "member" /\ q.ticket = op[o].ticket /\ q.job = op[o].job /\ q.file = op[o].file
      /\ q.listed = op[o].listed /\ q.todo = op[o].todo
      /\ q.held = S /\ q.got = op[o].got /\ q.fresh = op[o].fresh
  <2>1. S \in SUBSET File
    BY <1>1, <1>3
  <2> QED
    BY <1>1, <2>1 DEF OpState, Steps
<1>5. op' = [op EXCEPT ![o] = q]
  BY <1>1, <1>2 DEF OpsHold, OpState
<1>6. UNCHANGED <<tickets, assets, bundle, index, chunks, begun, made, mirror, spoiled, strayed, unsure, early, gone>>
  BY DEF ListAttachments, history
<1> HIDE DEF q
<1>7. OpsHold' /\ op'[o] = q /\ Only(o) /\ OthersAlike(o)
  BY <1>1, <1>4, <1>5, OneMoves
<1>8. /\ RestHolds' /\ InBundle' = InBundle
      /\ unsure' \subseteq Existing /\ early' \subseteq Existing /\ gone' \subseteq Existing
  BY <1>1, <1>6 DEF RestHolds, InBundle, RowsHold
<1>9. NamesLast'
  BY <1>1, <1>4, <1>6, <1>7, ComingStays
<1>10. \A f \in S : f.uid <= made' /\ f.member # 0
  BY <1>1, <1>3, <1>6 DEF TicketsHold, FilesAreMade
<1>11. op[o].todo = op[o].listed
  BY <1>0, <1>1 DEF OpStands
<1>12. OpStands(o)'
  BY <1>0, <1>1, <1>4, <1>6, <1>7, <1>8, <1>10 DEF OpStands, UploadSteps, SyncSteps, AdoptSteps, Existing, References
<1>13. MaterialTypes' /\ TicketsStay /\ Existing' = Existing /\ References' = References
  BY <1>6, <1>7, <1>8, <1>9, <1>12, QuietMove
<1> QED
  BY <1>0, <1>1, <1>2, <1>4, <1>7, <1>11, <1>13

\* What an adoption holds of what it has done with a member.
LEMMA ReadMemberIs ==
    ASSUME MaterialTypes, NEW o \in Op, ReadMember(o)
    PROVE  LET m == NextMember(o) IN
           /\ MaterialTypes' /\ TicketsStay /\ Only(o) /\ Existing' = Existing /\ References' = References
           /\ op[o].pc = "member" /\ op[o].ticket \in References
           /\ m \in op[o].todo /\ m \in InBundle
           /\ op'[o].job = op[o].job /\ op'[o].ticket = op[o].ticket /\ op'[o].listed = op[o].listed
           /\ op'[o].fresh = op[o].fresh
           /\ \/ /\ \E f \in Previous(o, m) : f.content = bundle[m]
                 /\ op'[o].pc = "member" /\ op'[o].todo = op[o].todo \ {m}
                 /\ op'[o].held = op[o].held \ Previous(o, m)
              \/ /\ \A f \in Previous(o, m) : f.content # bundle[m]
                 /\ op'[o].pc = "attachMember" /\ op'[o].got = bundle[m]
                 /\ op'[o].todo = op[o].todo /\ op'[o].held = op[o].held
<1> DEFINE m == NextMember(o)
           u == \E f \in Previous(o, m) : f.content = bundle[m]
           q == IF u THEN [op[o] EXCEPT !.todo = op[o].todo \ {m}, !.held = op[o].held \ Previous(o, m)]
                ELSE [op[o] EXCEPT !.pc = "attachMember", !.got = bundle[m]]
<1>0. op[o].pc = "member" /\ op[o].todo # {}
  BY DEF ReadMember
<1>1. /\ op[o] \in OpState /\ OpStands(o) /\ OpsHold /\ RestHolds /\ TicketsHold /\ RowsHold /\ made \in Nat
      /\ op[o].job = "adopt" /\ op[o].ticket \in References /\ op[o].ticket \in Existing
      /\ op[o].ticket \in TicketUid /\ tickets[op[o].ticket].files \subseteq File
  BY <1>0, SyncIs DEF SyncSteps
<1>2. m \in op[o].todo /\ m \in Member
  BY <1>0, <1>1, NextMemberIs
<1>3. m \in InBundle /\ bundle[m] \in 0..MaxCapture /\ bundle[m] # 0
  BY <1>1, <1>2 DEF OpStands, RestHolds, InBundle
<1> HIDE DEF m
<1>4. /\ q \in OpState /\ q.pc \in {"member", "attachMember"} /\ q.ticket = op[o].ticket /\ q.job = op[o].job
      /\ q.file = op[o].file /\ q.listed = op[o].listed /\ q.fresh = op[o].fresh
      /\ \/ /\ u /\ q.pc = "member" /\ q.todo = op[o].todo \ {m} /\ q.held = op[o].held \ Previous(o, m)
         \/ ~u /\ q.pc = "attachMember" /\ q.got = bundle[m] /\ q.todo = op[o].todo /\ q.held = op[o].held
  <2>1. op[o].todo \ {m} \in SUBSET Member /\ op[o].held \ Previous(o, m) \in SUBSET File
    BY <1>1, StateIs
  <2>2. CASE u
    BY <1>0, <1>1, <2>1, <2>2 DEF OpState
  <2>3. CASE ~u
    BY <1>1, <1>3, <2>3 DEF OpState, Steps
  <2> QED
    BY <2>2, <2>3
<1>5. op' = [op EXCEPT ![o] = q]
  <2>1. op' = IF u THEN [op EXCEPT ![o].todo = @ \ {m}, ![o].held = @ \ Previous(o, m)]
              ELSE [op EXCEPT ![o].pc = "attachMember", ![o].got = bundle[m]]
    BY DEF ReadMember, m
  <2>2. CASE u
    BY <1>1, <2>1, <2>2 DEF OpsHold, OpState
  <2>3. CASE ~u
    BY <1>1, <2>1, <2>3 DEF OpsHold, OpState
  <2> QED
    BY <2>2, <2>3
<1>6. UNCHANGED <<tickets, assets, bundle, index, chunks, begun, made, mirror, spoiled, strayed, unsure, early, gone>>
  BY DEF ReadMember, history
<1> HIDE DEF q
<1>7. OpsHold' /\ op'[o] = q /\ Only(o) /\ OthersAlike(o)
  BY <1>1, <1>4, <1>5, OneMoves
<1>8. /\ RestHolds' /\ InBundle' = InBundle
      /\ unsure' \subseteq Existing /\ early' \subseteq Existing /\ gone' \subseteq Existing
  BY <1>1, <1>6 DEF RestHolds, InBundle, RowsHold
<1>9. NamesLast'
  BY <1>1, <1>4, <1>6, <1>7, ComingStays
<1>10. q.held \subseteq op[o].held /\ q.todo \subseteq op[o].todo /\ (q.pc = "attachMember" => q.todo # {} /\ q.got # 0)
  BY <1>2, <1>3, <1>4
<1>12. OpStands(o)'
  BY <1>0, <1>1, <1>4, <1>6, <1>7, <1>8, <1>10 DEF OpStands, UploadSteps, SyncSteps, AdoptSteps, Existing, References
<1>13. MaterialTypes' /\ TicketsStay /\ Existing' = Existing /\ References' = References
  BY <1>6, <1>7, <1>8, <1>9, <1>12, QuietMove
<1> QED
  BY <1>0, <1>1, <1>2, <1>3, <1>4, <1>7, <1>13 DEF m

\* The new bytes are attached beside what they replace.
LEMMA AttachMemberIs ==
    ASSUME MaterialTypes, NEW o \in Op, AttachMember(o)
    PROVE  LET m == NextMember(o)
               t == op[o].ticket
               f == NewFile(m, op[o].got)
           IN
           /\ MaterialTypes' /\ TicketsStay /\ Only(o) /\ Existing' = Existing /\ References' = References
           /\ op[o].pc = "attachMember" /\ t \in References /\ m \in op[o].todo /\ m \in InBundle
           /\ f \in File /\ f.uid = made + 1 /\ f.member = m /\ f.content = op[o].got
           /\ tickets'[t] = [tickets[t] EXCEPT !.files = @ \cup {f}]
           /\ \A u \in TicketUid \ {t} : tickets'[u] = tickets[u]
           /\ op'[o].job = op[o].job /\ op'[o].ticket = t /\ op'[o].listed = op[o].listed
           /\ op'[o].fresh = op[o].fresh /\ op'[o].held = op[o].held
           /\ \/ /\ Previous(o, m) # {} /\ op'[o].pc = "detachMember"
                 /\ op'[o].todo = op[o].todo /\ op'[o].got = op[o].got
              \/ Previous(o, m) = {} /\ op'[o].pc = "member" /\ op'[o].todo = op[o].todo \ {m}
<1> DEFINE m == NextMember(o)
           t == op[o].ticket
           f == NewFile(m, op[o].got)
           u == Previous(o, m) # {}
           q == IF u THEN [op[o] EXCEPT !.pc = "detachMember"]
                ELSE [op[o] EXCEPT !.pc = "member", !.todo = op[o].todo \ {m}, !.got = 0]
<1>0. op[o].pc = "attachMember"
  BY DEF AttachMember
<1>1. /\ op[o] \in OpState /\ OpStands(o) /\ OpsHold /\ RestHolds /\ TicketsHold /\ RowsHold /\ made \in Nat
      /\ op[o].job = "adopt" /\ t \in References /\ t \in Existing
      /\ t \in TicketUid /\ tickets[t].files \subseteq File /\ \A g \in op[o].held : g.uid <= made
  BY <1>0, SyncIs DEF SyncSteps
<1>2. op[o].todo # {} /\ op[o].got # 0 /\ op[o].got \in 0..MaxCapture
  BY <1>0, <1>1, StateIs DEF OpStands
<1>3. m \in op[o].todo /\ m \in Member /\ m \in InBundle
  BY <1>1, <1>2, NextMemberIs DEF OpStands
<1>4. f \in File /\ f.uid = made + 1 /\ f.member = m /\ f.content = op[o].got /\ f.member # 0 /\ f.content # 0
  BY <1>1, <1>2, <1>3 DEF NewFile, File, Member
<1>5. /\ tickets' = WithFile(t, f) /\ made' = made + 1
      /\ UNCHANGED <<assets, bundle, index, chunks, begun, mirror, spoiled, strayed, unsure, early, gone>>
  BY DEF AttachMember, history
<1>6. op' = IF u THEN Goto(o, "detachMember")
            ELSE [op EXCEPT ![o].pc = "member", ![o].todo = @ \ {m}, ![o].got = 0]
  BY DEF AttachMember
<1> HIDE DEF m, t, f
<1>7. /\ TicketsHold' /\ TicketsStay /\ RowsHold' /\ Existing' = Existing /\ References' = References
      /\ tickets'[t] = [tickets[t] EXCEPT !.files = @ \cup {f}]
      /\ \A v \in TicketUid \ {t} : tickets'[v] = tickets[v]
  BY <1>1, <1>4, <1>5, FileAdded
<1>8. op' = [op EXCEPT ![o] = q]
  <2>1. CASE u
    BY <1>6, <2>1 DEF Goto
  <2>2. CASE ~u
    BY <1>1, <1>6, <2>2 DEF OpsHold, OpState
  <2> QED
    BY <2>1, <2>2
<1>9. /\ q \in OpState /\ q.pc \in {"member", "detachMember"} /\ q.ticket = t /\ q.job = op[o].job
      /\ q.file = op[o].file /\ q.listed = op[o].listed /\ q.fresh = op[o].fresh /\ q.held = op[o].held
      /\ \/ /\ u /\ q.pc = "detachMember" /\ q.todo = op[o].todo /\ q.got = op[o].got
         \/ ~u /\ q.pc = "member" /\ q.todo = op[o].todo \ {m}
  <2>1. op[o].todo \ {m} \in SUBSET Member /\ 0 \in 0..MaxCapture
    BY <1>1, StateIs, BoundsAreNat
  <2>2. CASE u
    BY <1>0, <1>1, <2>1, <2>2 DEF OpState, Steps, t
  <2>3. CASE ~u
    BY <1>1, <1>3, <2>1, <2>3 DEF OpState, Steps, t
  <2> QED
    BY <2>2, <2>3
<1> HIDE DEF q, u
<1>10. OpsHold' /\ op'[o] = q /\ Only(o) /\ OthersAlike(o)
  BY <1>1, <1>8, <1>9, OneMoves
<1>11. RestHolds' /\ InBundle' = InBundle /\ made <= made'
  BY <1>1, <1>5 DEF RestHolds, InBundle
<1>12. NamesLast'
  BY <1>1, <1>5, <1>9, <1>10, ComingStays
<1>13. \A g \in op[o].held : g.uid <= made' /\ g.member # 0
  BY <1>1, <1>5, StateIs DEF File, OpStands
<1>14. q.todo \subseteq op[o].todo /\ (q.pc = "detachMember" => q.todo # {} /\ q.got # 0)
  BY <1>2, <1>9
<1>15. OpStands(o)'
  BY <1>0, <1>1, <1>5, <1>7, <1>9, <1>10, <1>11, <1>13, <1>14 DEF OpStands, UploadSteps, SyncSteps, AdoptSteps
<1>16. MaterialTypes'
  BY <1>7, <1>10, <1>11, <1>12, <1>15, TypesMove
<1> QED
  BY <1>0, <1>1, <1>3, <1>4, <1>7, <1>9, <1>10, <1>16 DEF m, t, f, u

\* What was replaced is detached.
LEMMA DetachMemberIs ==
    ASSUME MaterialTypes, NEW o \in Op, DetachMember(o)
    PROVE  LET m == NextMember(o)
               t == op[o].ticket
           IN
           /\ MaterialTypes' /\ TicketsStay /\ Only(o) /\ Existing' = Existing /\ References' = References
           /\ op[o].pc = "detachMember" /\ t \in References /\ m \in op[o].todo /\ m \in InBundle
           /\ tickets'[t] = [tickets[t] EXCEPT !.files = @ \ Previous(o, m)]
           /\ \A u \in TicketUid \ {t} : tickets'[u] = tickets[u]
           /\ op'[o].job = op[o].job /\ op'[o].ticket = t /\ op'[o].listed = op[o].listed
           /\ op'[o].fresh = op[o].fresh /\ op'[o].held = op[o].held \ Previous(o, m)
           /\ op'[o].pc = "member" /\ op'[o].todo = op[o].todo \ {m}
<1> DEFINE m == NextMember(o)
           t == op[o].ticket
           x == [tickets[t] EXCEPT !.files = tickets[t].files \ Previous(o, m)]
           q == [op[o] EXCEPT !.pc = "member", !.todo = op[o].todo \ {m}, !.got = 0,
                              !.held = op[o].held \ Previous(o, m)]
<1>0. op[o].pc = "detachMember"
  BY DEF DetachMember
<1>1. /\ op[o] \in OpState /\ OpStands(o) /\ OpsHold /\ RestHolds /\ TicketsHold /\ RowsHold /\ made \in Nat
      /\ op[o].job = "adopt" /\ t \in References /\ t \in Existing
      /\ t \in TicketUid /\ tickets[t] \in Ticket /\ tickets[t].files \subseteq File
      /\ \A g \in op[o].held : g.uid <= made
  BY <1>0, SyncIs DEF SyncSteps
<1>2. op[o].todo # {}
  BY <1>0, <1>1 DEF OpStands
<1>3. m \in op[o].todo /\ m \in Member /\ m \in InBundle
  BY <1>1, <1>2, NextMemberIs DEF OpStands
<1>4. x \in Ticket /\ x.type = tickets[t].type /\ x.files \subseteq tickets[t].files
  <2>1. tickets[t].files \ Previous(o, m) \in SUBSET File
    BY <1>1
  <2> QED
    BY <1>1, <2>1 DEF Ticket
<1>5. /\ tickets' = [tickets EXCEPT ![t] = x]
      /\ UNCHANGED <<assets, bundle, index, chunks, begun, made, mirror, spoiled, strayed, unsure, early, gone>>
  BY DEF DetachMember, history
<1>6. op' = [op EXCEPT ![o].pc = "member", ![o].todo = @ \ {m}, ![o].got = 0,
                       ![o].held = @ \ Previous(o, m)]
  BY DEF DetachMember
<1>7. x = [tickets[t] EXCEPT !.files = @ \ Previous(o, m)]
  OBVIOUS
<1> HIDE DEF m, t, x
<1>8. op' = [op EXCEPT ![o] = q]
  BY <1>1, <1>6 DEF OpsHold, OpState
<1>9. /\ q \in OpState /\ q.pc = "member" /\ q.ticket = t /\ q.job = op[o].job
      /\ q.file = op[o].file /\ q.listed = op[o].listed /\ q.fresh = op[o].fresh
      /\ q.held = op[o].held \ Previous(o, m) /\ q.todo = op[o].todo \ {m}
  <2>1. /\ op[o].todo \ {m} \in SUBSET Member /\ op[o].held \ Previous(o, m) \in SUBSET File
        /\ 0 \in 0..MaxCapture
    BY <1>1, StateIs, BoundsAreNat
  <2> QED
    BY <1>1, <2>1 DEF OpState, Steps, t
<1> HIDE DEF q
<1>10. OpsHold' /\ op'[o] = q /\ Only(o) /\ OthersAlike(o)
  BY <1>1, <1>8, <1>9, OneMoves
<1>11. RestHolds' /\ InBundle' = InBundle /\ made <= made'
  BY <1>1, <1>5 DEF RestHolds, InBundle
<1>12. NamesLast'
  BY <1>1, <1>5, <1>9, <1>10, ComingStays
<1>13. /\ TicketsHold' /\ TicketsStay /\ RowsHold' /\ Existing' = Existing /\ References' = References
       /\ tickets'[t] = x /\ \A u \in TicketUid \ {t} : tickets'[u] = tickets[u]
  BY <1>1, <1>4, <1>5, Rewritten
<1>15. OpStands(o)'
  BY <1>0, <1>1, <1>5, <1>9, <1>10, <1>11, <1>13 DEF OpStands, UploadSteps, SyncSteps, AdoptSteps
<1>16. MaterialTypes'
  BY <1>10, <1>11, <1>12, <1>13, <1>15, TypesMove
<1> QED
  BY <1>0, <1>1, <1>3, <1>7, <1>9, <1>10, <1>13, <1>16 DEF m, t

\* What is left is swept, one record after another, and then the indexes' turn comes.
LEMMA SweepIs ==
    ASSUME MaterialTypes, NEW o \in Op, Sweep(o)
    PROVE  LET t == op[o].ticket IN
           /\ MaterialTypes' /\ TicketsStay /\ Only(o) /\ Existing' = Existing /\ References' = References
           /\ op[o].pc = "member" /\ op[o].todo = {} /\ t \in References
           /\ \A u \in TicketUid \ {t} : tickets'[u] = tickets[u]
           /\ \/ /\ op[o].held = {} /\ op'[o].pc = "readIndex" /\ Same(o) /\ op'[o].fresh = op[o].fresh
                 /\ mirror' = (mirror \/ op[o].fresh) /\ UNCHANGED <<tickets, strayed>>
              \/ /\ op'[o].pc = "member" /\ mirror' = mirror
                 /\ op'[o].job = op[o].job /\ op'[o].ticket = t /\ op'[o].listed = op[o].listed
                 /\ op'[o].fresh = op[o].fresh /\ op'[o].todo = op[o].todo
                 /\ \E f \in op[o].held :
                       /\ tickets'[t] = [tickets[t] EXCEPT !.files = @ \ {f}]
                       /\ op'[o].held = op[o].held \ {f}
                       /\ strayed' = strayed \cup ({f.member} \ op[o].listed)
<1> DEFINE t == op[o].ticket
<1>0. op[o].pc = "member" /\ op[o].todo = {}
  BY DEF Sweep
<1>1. /\ op[o] \in OpState /\ OpStands(o) /\ OpsHold /\ RestHolds /\ TicketsHold /\ RowsHold /\ made \in Nat
      /\ op[o].job = "adopt" /\ t \in References /\ t \in Existing
      /\ t \in TicketUid /\ tickets[t] \in Ticket /\ tickets[t].files \subseteq File
      /\ \A g \in op[o].held : g.uid <= made
  BY <1>0, SyncIs DEF SyncSteps
<1>2. UNCHANGED <<assets, bundle, index, chunks, begun, made, spoiled, unsure, early, gone>>
  BY DEF Sweep
<1>3. made <= made' /\ InBundle' = InBundle
  BY <1>1, <1>2 DEF InBundle
<1> HIDE DEF t
<1>4. CASE op[o].held = {}
  <2>1. op' = Goto(o, "readIndex") /\ mirror' = (mirror \/ op[o].fresh) /\ UNCHANGED <<tickets, strayed>>
    BY <1>4 DEF Sweep
  <2>2. OpsHold' /\ Only(o) /\ OthersAlike(o) /\ op'[o].pc = "readIndex" /\ Same(o) /\ op'[o].fresh = op[o].fresh
    BY <2>1, GotoIs DEF Steps
  <2>3. op[o].fresh \in BOOLEAN
    BY <1>1, StateIs
  <2>4. RestHolds' /\ unsure' \subseteq Existing /\ early' \subseteq Existing /\ gone' \subseteq Existing
    BY <1>1, <1>2, <2>1, <2>3 DEF RestHolds, RowsHold
  <2>5. NamesLast'
    BY <1>1, <1>2, <2>2, ComingStays DEF Same
  <2>6. OpStands(o)'
    BY <1>0, <1>1, <1>2, <1>3, <2>1, <2>2 DEF OpStands, UploadSteps, SyncSteps, AdoptSteps, Same
  <2>7. MaterialTypes' /\ TicketsStay /\ Existing' = Existing /\ References' = References
    BY <1>2, <1>3, <2>1, <2>2, <2>4, <2>5, <2>6, QuietMove
  <2> QED
    BY <1>0, <1>1, <1>4, <2>1, <2>2, <2>7 DEF t
<1>5. CASE op[o].held # {}
  <2>1. PICK f \in op[o].held :
          /\ tickets' = [tickets EXCEPT ![op[o].ticket].files = @ \ {f}]
          /\ op' = [op EXCEPT ![o].held = @ \ {f}]
          /\ strayed' = strayed \cup ({f.member} \ op[o].listed)
          /\ UNCHANGED mirror
    BY <1>5 DEF Sweep
  <2> DEFINE x == [tickets[t] EXCEPT !.files = tickets[t].files \ {f}]
             q == [op[o] EXCEPT !.held = op[o].held \ {f}]
  <2>2. x \in Ticket /\ x.type = tickets[t].type /\ x.files \subseteq tickets[t].files
    BY <1>1 DEF Ticket
  <2>3. tickets' = [tickets EXCEPT ![t] = x]
    BY <2>1 DEF t
  <2>4. /\ q \in OpState /\ q.pc = "member" /\ q.ticket = t /\ q.job = op[o].job
        /\ q.file = op[o].file /\ q.listed = op[o].listed /\ q.fresh = op[o].fresh
        /\ q.held = op[o].held \ {f} /\ q.todo = op[o].todo
    BY <1>0, <1>1 DEF OpState, t
  <2>5. op' = [op EXCEPT ![o] = q]
    BY <2>1
  <2>6. x = [tickets[t] EXCEPT !.files = @ \ {f}]
    OBVIOUS
  <2> HIDE DEF x, q
  <2>7. OpsHold' /\ op'[o] = q /\ Only(o) /\ OthersAlike(o)
    BY <1>1, <2>4, <2>5, OneMoves
  <2>8. RestHolds'
    <3>1. f.member \in Member
      <4>1. f \in File /\ f \in op[o].held
        BY <1>1, StateIs
      <4>2. f.member \in Member \cup {0}
        BY <4>1 DEF File
      <4>3. f.member # 0
        BY <1>1, <4>1 DEF OpStands
      <4> QED
        BY <4>2, <4>3
    <3> QED
      BY <1>1, <1>2, <2>1, <3>1 DEF RestHolds
  <2>9. NamesLast'
    BY <1>1, <1>2, <2>4, <2>7, ComingStays
  <2>10. /\ TicketsHold' /\ TicketsStay /\ RowsHold' /\ Existing' = Existing /\ References' = References
         /\ tickets'[t] = x /\ \A u \in TicketUid \ {t} : tickets'[u] = tickets[u]
    BY <1>1, <1>2, <2>2, <2>3, Rewritten
  <2>11. OpStands(o)'
    BY <1>0, <1>1, <1>2, <1>3, <2>4, <2>7, <2>10 DEF OpStands, UploadSteps, SyncSteps, AdoptSteps
  <2>12. MaterialTypes'
    BY <1>3, <2>7, <2>8, <2>9, <2>10, <2>11, TypesMove
  <2> QED
    BY <1>0, <1>1, <2>1, <2>4, <2>6, <2>7, <2>10, <2>12 DEF t
<1> QED
  BY <1>4, <1>5 DEF t

\* A request that stops leaves what it wrote.
LEMMA StopIs ==
    ASSUME MaterialTypes, NEW o \in Op, Stop(o)
    PROVE  /\ MaterialTypes' /\ TicketsStay /\ Only(o) /\ Existing' = Existing /\ References' = References
           /\ op'[o] = Idle
<1>1. /\ op' = [op EXCEPT ![o] = Idle]
      /\ UNCHANGED <<tickets, assets, bundle, index, chunks, begun, made, mirror, strayed, unsure, early, gone>>
      /\ spoiled' \in BOOLEAN
  BY DEF Stop
<1>2. OpsHold' /\ op'[o] = Idle /\ Only(o) /\ OthersAlike(o) /\ OpStands(o)'
  BY <1>1, IdleMoves
<1>3. /\ RestHolds' /\ InBundle' = InBundle
      /\ unsure' \subseteq Existing /\ early' \subseteq Existing /\ gone' \subseteq Existing
  BY <1>1, NowIs DEF RestHolds, InBundle, RowsHold
<1>4. NamesLast'
  BY <1>1, <1>2, ComingStays, IdleIs
<1> QED
  BY <1>1, <1>2, <1>3, <1>4, QuietMove

\* At the start nothing is there.
LEMMA TypesStart == MaterialInit => MaterialTypes
<1> SUFFICES ASSUME MaterialInit PROVE MaterialTypes
  OBVIOUS
<1>1. \A t \in TicketUid : tickets[t] = None
  BY DEF MaterialInit
<1>2. Existing = {} /\ References = {} /\ OnSite = {}
  BY <1>1 DEF MaterialInit, Existing, References, OnSite
<1>3. TicketsHold
  BY <1>2 DEF MaterialInit, TicketsHold, FilesAreMade
<1>4. RowsHold
  BY <1>2 DEF MaterialInit, RowsHold
<1>5. RestHolds
  <2>1. 1 \in 0..MaxCapture /\ 0 \in 0..MaxCapture /\ 0 \in 0..MaxBegun
    BY BoundsAreNat
  <2>2. bundle \in [Member -> 0..MaxCapture]
    BY <2>1 DEF MaterialInit
  <2> QED
    BY <2>1, <2>2 DEF MaterialInit, RestHolds
<1>6. OpsHold /\ \A o \in Op : op[o] = Idle
  BY IdleIs DEF MaterialInit, OpsHold
<1>7. \A o \in Op : OpStands(o)
  BY <1>6, IdleIs DEF OpStands, UploadSteps, SyncSteps, AdoptSteps
<1>8. Coming = {}
  BY <1>6, IdleIs DEF Coming
<1>9. NamesLast
  <2>1. IsFiniteSet({}) /\ Cardinality({}) = 0
    BY FS_EmptySet
  <2> QED
    BY <1>2, <1>8, <2>1 DEF NamesLast, MaterialInit
<1> QED
  BY <1>3, <1>4, <1>5, <1>6, <1>7, <1>9, TypesAre

\* What a step is.
LEMMA StepIs ==
    ASSUME [MaterialNext]_materialVars
    PROVE  Capture \/ RemoveAsset \/ UNCHANGED materialVars \/ \E o \in Op : Step(o)
  BY DEF MaterialNext, Finished

\* With nothing moved, everything stays.
LEMMA TypesStutter == MaterialTypes /\ UNCHANGED materialVars => MaterialTypes'
<1> SUFFICES ASSUME MaterialTypes, UNCHANGED materialVars PROVE MaterialTypes'
  OBVIOUS
<1>1. UNCHANGED <<tickets, assets, bundle, index, chunks, op, begun, made, mirror, spoiled, strayed, unsure, early, gone>>
  BY DEF materialVars
<1>2. /\ OpsHold /\ RestHolds /\ TicketsHold /\ RowsHold /\ NamesLast /\ begun \in Nat
  BY TypesAre DEF RestHolds
<1>3. TicketsHold' /\ TicketsStay /\ Existing' = Existing /\ References' = References
  BY <1>1, <1>2, TicketsUnwritten
<1>4. RowsHold' /\ RestHolds' /\ OpsHold' /\ InBundle' = InBundle /\ made <= made'
  BY <1>1, <1>2, <1>3, RowsUnwritten DEF RowsHold, RestHolds, OpsHold, InBundle, TicketsHold
<1>5. NamesLast'
  <2>1. OnSite' = OnSite /\ Coming' = Coming
    BY <1>1 DEF OnSite, Coming
  <2> QED
    BY <1>1, <1>2, <2>1, NamesStay
<1>6. \A p \in Op : Alike(p)
  BY <1>1 DEF Alike, Same
<1> QED
  BY <1>3, <1>4, <1>5, <1>6, TypesStay

\* Every step keeps the types.
LEMMA StepTypes == MaterialTypes /\ [MaterialNext]_materialVars => MaterialTypes'
<1> SUFFICES ASSUME MaterialTypes, [MaterialNext]_materialVars PROVE MaterialTypes'
  OBVIOUS
<1>1. CASE Capture \/ RemoveAsset \/ UNCHANGED materialVars
  BY <1>1, CaptureIs, RemoveAssetIs, TypesStutter
<1>2. ASSUME NEW o \in Op, Step(o) PROVE MaterialTypes'
  <2>1. CASE Upload(o) \/ Create(o) \/ Attach(o) \/ Comment(o)
    BY <2>1, UploadIs, CreateIs, AttachIs, CommentIs
  <2>2. CASE ReadIndex(o) \/ WriteIndex(o) \/ ReadTexts(o) \/ ReadChunks(o) \/ WriteChunks(o)
    BY <2>2, ReadIndexIs, WriteIndexIs, ReadTextsIs, ReadChunksIs, WriteChunksIs
  <2>3. CASE FindName(o) \/ CheckName(o) \/ WriteAsset(o) \/ RecordPlacement(o)
    BY <2>3, FindNameIs, CheckNameIs, WriteAssetIs, RecordPlacementIs
  <2>4. CASE Revise(o) \/ Update(o) \/ Stop(o)
    BY <2>4, ReviseIs, UpdateIs, StopIs
  <2>5. CASE Adopt(o) \/ FindByBundle(o) \/ Upsert(o) \/ ListAttachments(o)
    BY <2>5, AdoptIs, FindByBundleIs, UpsertIs, ListAttachmentsIs
  <2>6. CASE ReadMember(o) \/ AttachMember(o) \/ DetachMember(o) \/ Sweep(o)
    BY <2>6, ReadMemberIs, AttachMemberIs, DetachMemberIs, SweepIs
  <2> QED
    BY <1>2, <2>1, <2>2, <2>3, <2>4, <2>5, <2>6 DEF Step
<1> QED
  BY <1>1, <1>2, StepIs

\* Tickets, attachments, rows and requests keep their shapes, an attachment has one
\* record, and an ingest always finds a free name (material.ts, capture-material.ts).
THEOREM MaterialTypeCorrect == MaterialSpec => []MaterialTypeOK
<1>1. MaterialTypes => MaterialTypeOK
  BY DEF MaterialTypes
<1> QED
  BY <1>1, TypesStart, StepTypes, PTL DEF MaterialSpec

-----------------------------------------------------------------------------
(* What a ticket says, and what the indexes say of it.                       *)

Awaits(p, t) == op[p].pc \in {"attach", "comment"} /\ op[p].ticket = t /\ op[p].file.text

\* What a request's step may change of that.
Moves(o) ==
    /\ op'[o].pc = "place" => WriteAsset(o)
    /\ op'[o].pc = "writeIndex" => ReadIndex(o)
    /\ op'[o].pc = "readTexts" => WriteIndex(o)
    /\ op'[o].pc = "readChunks" => ReadTexts(o)
    /\ op'[o].pc = "writeChunks" => ReadChunks(o)
    /\ op'[o].pc = "readIndex" /\ op'[o].job = "upload" /\ op'[o].file.text => Comment(o)
    /\ UNCHANGED <<assets, gone>> \/ WriteAsset(o)
    /\ (index' = index /\ unsure \subseteq unsure') \/ WriteIndex(o)
    /\ chunks' = chunks \/ WriteChunks(o)
    /\ early \subseteq early'
    /\ op'[o].pc \in {"attach", "comment"} =>
           \/ op'[o].ticket \in Existing' \ Existing
           \/ op[o].pc = "attach" /\ Same(o)

Says(o) ==
    /\ \A u \in Existing' \ Existing : u \in unsure' /\ ~tickets'[u].placed
    /\ \A u \in Existing :
          /\ tickets'[u].placed => tickets[u].placed \/ (op[o].pc = "place" /\ u = op[o].ticket)
          /\ tickets'[u].text => tickets[u].text \/ (op[o].pc = "comment" /\ Awaits(o, u))
          /\ tickets[u].text => tickets'[u].text
          /\ tickets'[u].body = tickets[u].body \/ (u \in unsure' /\ \A p \in Op : u \notin op'[p].sure)

\* Where no ticket is written nothing new is said.
LEMMA NothingSaid == ASSUME NEW o \in Op, UNCHANGED tickets PROVE Says(o)
  BY DEF Says, Existing

\* Attachments alone change nothing of what a ticket says.
LEMMA FilesSaid ==
    ASSUME MaterialTypes, NEW o \in Op, NEW t \in Existing, NEW S, Existing' = Existing,
           tickets'[t] = [tickets[t] EXCEPT !.files = S], \A u \in TicketUid \ {t} : tickets'[u] = tickets[u]
    PROVE  Says(o)
<1>1. \A u \in Existing : u \in TicketUid /\ tickets[u] \in Ticket
  BY TypesAre DEF TicketsHold, Existing
<1>2. /\ tickets'[t].placed = tickets[t].placed /\ tickets'[t].text = tickets[t].text
      /\ tickets'[t].body = tickets[t].body
  BY <1>1 DEF Ticket
<1>3. \A u \in Existing : u # t => tickets'[u] = tickets[u]
  BY <1>1
<1> QED
  BY <1>2, <1>3 DEF Says

\* What the steps of an upload say,
LEMMA UploadsSay ==
    ASSUME MaterialTypes, NEW o \in Op, Upload(o) \/ Create(o) \/ Attach(o) \/ Comment(o)
    PROVE  Moves(o) /\ Says(o)
<1>1. CASE Upload(o)
  <2>1. UNCHANGED <<tickets, assets, index, chunks, unsure, early, gone>> /\ op'[o].pc = "create"
    BY <1>1, UploadIs DEF Upload, history
  <2> QED
    BY <2>1, NothingSaid DEF Moves
<1>2. CASE Create(o)
  <2>1. UNCHANGED <<assets, index, chunks, early, gone>> /\ op'[o].pc = "attach"
    BY <1>2, CreateIs DEF Create
  <2>2. PICK t \in TicketUid \ Existing :
           /\ Existing' = Existing \cup {t} /\ unsure' = unsure \cup {t}
           /\ \A u \in TicketUid \ {t} : tickets'[u] = tickets[u]
           /\ ~tickets'[t].placed /\ op'[o].ticket = t
    BY <1>2, CreateIs
  <2>3. \A u \in Existing : u \in TicketUid \ {t}
    BY DEF Existing
  <2> QED
    BY <2>1, <2>2, <2>3 DEF Moves, Says
<1>3. CASE Attach(o)
  <2>1. UNCHANGED <<assets, index, chunks, unsure, early, gone>> /\ op[o].pc = "attach"
    BY <1>3 DEF Attach, history
  <2>2. /\ op'[o].pc = (IF op[o].file.text THEN "comment" ELSE "readIndex") /\ Same(o)
        /\ op[o].ticket \in Existing /\ Existing' = Existing
        /\ tickets'[op[o].ticket] = [tickets[op[o].ticket] EXCEPT !.files = @ \cup {NewFile(0, 0)}]
        /\ \A u \in TicketUid \ {op[o].ticket} : tickets'[u] = tickets[u]
    BY <1>3, AttachIs
  <2>3. Says(o)
    BY <2>2, FilesSaid
  <2> QED
    BY <2>1, <2>2, <2>3 DEF Moves, Same
<1>4. CASE Comment(o)
  <2>1. UNCHANGED <<assets, index, chunks, unsure, early, gone>> /\ op[o].pc = "comment"
    BY <1>4 DEF Comment, history
  <2>2. /\ op'[o].pc = "readIndex" /\ Same(o)
        /\ op[o].ticket \in Existing /\ Existing' = Existing
        /\ tickets'[op[o].ticket] = [tickets[op[o].ticket] EXCEPT !.text = TRUE]
        /\ \A u \in TicketUid \ {op[o].ticket} : tickets'[u] = tickets[u]
    BY <1>4, CommentIs
  <2>3. Awaits(o, op[o].ticket)
    BY <2>1, NowIs DEF Awaits, OpStands
  <2>4. \A u \in Existing : u \in TicketUid /\ tickets[u] \in Ticket
    BY TypesAre DEF TicketsHold, Existing
  <2>5. /\ tickets'[op[o].ticket].placed = tickets[op[o].ticket].placed
        /\ tickets'[op[o].ticket].body = tickets[op[o].ticket].body
        /\ tickets'[op[o].ticket].text
    BY <2>2, <2>4 DEF Ticket
  <2>6. Says(o)
    BY <2>1, <2>2, <2>3, <2>4, <2>5 DEF Says
  <2> QED
    BY <1>4, <2>1, <2>2, <2>6 DEF Moves
<1> QED
  BY <1>1, <1>2, <1>3, <1>4

\* of a refresh,
LEMMA IndexesSay ==
    ASSUME MaterialTypes, NEW o \in Op,
           ReadIndex(o) \/ WriteIndex(o) \/ ReadTexts(o) \/ ReadChunks(o) \/ WriteChunks(o)
    PROVE  Moves(o) /\ Says(o)
<1>1. UNCHANGED <<tickets, assets, gone>> /\ Says(o)
  BY NothingSaid DEF ReadIndex, WriteIndex, ReadTexts, ReadChunks, WriteChunks, history
<1>2. CASE ReadIndex(o)
  BY <1>1, <1>2, ReadIndexIs DEF ReadIndex, history, Moves
<1>3. CASE WriteIndex(o)
  BY <1>1, <1>3, WriteIndexIs DEF WriteIndex, Moves
<1>4. CASE ReadChunks(o)
  BY <1>1, <1>4, ReadChunksIs DEF ReadChunks, Moves
<1>5. CASE WriteChunks(o)
  BY <1>1, <1>5, WriteChunksIs DEF WriteChunks, history, Moves
<1>6. CASE ReadTexts(o)
  BY <1>1, <1>6, ReadTextsIs DEF ReadTexts, history, Moves
<1> QED
  BY <1>1, <1>2, <1>3, <1>4, <1>5, <1>6

\* of placing a file,
LEMMA PlacingSays ==
    ASSUME MaterialTypes, NEW o \in Op,
           FindName(o) \/ CheckName(o) \/ WriteAsset(o) \/ RecordPlacement(o)
    PROVE  Moves(o) /\ Says(o)
<1>1. CASE FindName(o)
  BY <1>1, NothingSaid, FindNameIs DEF FindName, history, Moves
<1>2. CASE CheckName(o)
  BY <1>2, NothingSaid, CheckNameIs DEF CheckName, history, Moves
<1>3. CASE WriteAsset(o)
  BY <1>3, NothingSaid, WriteAssetIs DEF WriteAsset, Moves
<1>4. CASE RecordPlacement(o)
  <2>1. /\ Existing' = Existing /\ op[o].pc = "place" /\ op'[o] = Idle
        /\ op[o].ticket \in Existing
        /\ tickets'[op[o].ticket] = [tickets[op[o].ticket] EXCEPT !.placed = TRUE, !.stamp = @ + 1]
        /\ \A u \in TicketUid \ {op[o].ticket} : tickets'[u] = tickets[u]
    BY <1>4, RecordPlacementIs
  <2>2. \A u \in Existing : u \in TicketUid /\ tickets[u] \in Ticket
    BY TypesAre DEF TicketsHold, Existing
  <2>3. /\ tickets'[op[o].ticket].text = tickets[op[o].ticket].text
        /\ tickets'[op[o].ticket].body = tickets[op[o].ticket].body
    BY <2>1, <2>2 DEF Ticket
  <2>4. Says(o)
    BY <2>1, <2>2, <2>3 DEF Says
  <2> QED
    BY <1>4, <2>1, <2>4, IdleIs DEF RecordPlacement, history, Moves
<1> QED
  BY <1>1, <1>2, <1>3, <1>4

\* of an edit and of what stops,
LEMMA OthersSay ==
    ASSUME MaterialTypes, NEW o \in Op, Revise(o) \/ Update(o) \/ Stop(o)
    PROVE  Moves(o) /\ Says(o)
<1>1. CASE Revise(o)
  BY <1>1, NothingSaid, ReviseIs DEF Revise, history, Moves
<1>2. CASE Update(o)
  <2>1. /\ UNCHANGED <<assets, index, chunks, early, gone>> /\ Existing' = Existing
        /\ op'[o].pc = "readIndex" /\ op'[o].job = "revise"
    BY <1>2, UpdateIs DEF Update
  <2>2. PICK t \in Existing :
           /\ unsure' = unsure \cup {t} /\ \A p \in Op : t \notin op'[p].sure
           /\ tickets'[t] = [tickets[t] EXCEPT !.body = @ + 1, !.stamp = @ + 1]
           /\ \A u \in TicketUid \ {t} : tickets'[u] = tickets[u]
    BY <1>2, UpdateIs
  <2>3. \A u \in Existing : u \in TicketUid /\ tickets[u] \in Ticket
    BY TypesAre DEF TicketsHold, Existing
  <2>4. tickets'[t].placed = tickets[t].placed /\ tickets'[t].text = tickets[t].text
    BY <2>2, <2>3 DEF Ticket
  <2>5. Says(o)
    BY <2>1, <2>2, <2>3, <2>4 DEF Says
  <2> QED
    BY <2>1, <2>2, <2>5 DEF Moves
<1>3. CASE Stop(o)
  BY <1>3, NothingSaid, StopIs, IdleIs DEF Stop, Moves
<1> QED
  BY <1>1, <1>2, <1>3

\* of an adoption's beginning,
LEMMA AdoptingSays ==
    ASSUME MaterialTypes, NEW o \in Op,
           Adopt(o) \/ FindByBundle(o) \/ Upsert(o) \/ ListAttachments(o)
    PROVE  Moves(o) /\ Says(o)
<1>1. CASE Adopt(o)
  BY <1>1, NothingSaid, AdoptIs DEF Adopt, Moves
<1>2. CASE FindByBundle(o)
  BY <1>2, NothingSaid, FindByBundleIs DEF FindByBundle, history, Moves
<1>3. CASE Upsert(o)
  <2>1. UNCHANGED <<assets, index, chunks, early, gone>> /\ op'[o].pc = "listing"
    BY <1>3, UpsertIs DEF Upsert
  <2>2. PICK t \in TicketUid :
           /\ Existing' = Existing \cup {t}
           /\ unsure' = unsure \cup {t} /\ \A p \in Op : t \notin op'[p].sure
           /\ \A u \in TicketUid \ {t} : tickets'[u] = tickets[u]
           /\ \/ t \notin Existing /\ ~tickets'[t].placed
              \/ t \in Existing /\ tickets'[t] = [tickets[t] EXCEPT !.body = @ + 1, !.stamp = @ + 1]
    <3>1. PICK t \in TicketUid :
                 /\ op'[o].ticket = t /\ Existing' = Existing \cup {t} /\ References' = References \cup {t}
                 /\ unsure' = unsure \cup {t} /\ \A p \in Op : t \notin op'[p].sure
                 /\ \A u \in TicketUid \ {t} : tickets'[u] = tickets[u]
                 /\ IF op[o].ticket = None
                    THEN t \notin Existing /\ tickets'[t].files = {} /\ ~tickets'[t].placed
                    ELSE /\ op[o].ticket = t /\ t \in References
                         /\ tickets'[t] = [tickets[t] EXCEPT !.body = @ + 1, !.stamp = @ + 1]
      BY <1>3, UpsertIs
    <3> QED
      BY <3>1 DEF References
  <2>3. \A u \in Existing : u \in TicketUid /\ tickets[u] \in Ticket
    BY TypesAre DEF TicketsHold, Existing
  <2>4. t \in Existing => tickets'[t].placed = tickets[t].placed /\ tickets'[t].text = tickets[t].text
    BY <2>2, <2>3 DEF Ticket
  <2>5. Says(o)
    BY <2>2, <2>3, <2>4 DEF Says
  <2> QED
    BY <2>1, <2>2, <2>5 DEF Moves
<1>4. CASE ListAttachments(o)
  BY <1>4, NothingSaid, ListAttachmentsIs DEF ListAttachments, history, Moves
<1> QED
  BY <1>1, <1>2, <1>3, <1>4

\* and of its members.
LEMMA SyncSays ==
    ASSUME MaterialTypes, NEW o \in Op,
           ReadMember(o) \/ AttachMember(o) \/ DetachMember(o) \/ Sweep(o)
    PROVE  Moves(o) /\ Says(o)
<1>1. UNCHANGED <<assets, index, chunks, unsure, early, gone>>
  BY DEF ReadMember, AttachMember, DetachMember, Sweep, history
<1>2. CASE ReadMember(o)
  <2>1. UNCHANGED tickets /\ op'[o].pc \in {"member", "attachMember"}
    BY <1>2, ReadMemberIs DEF ReadMember
  <2> QED
    BY <1>1, <2>1, NothingSaid DEF Moves
<1>3. CASE AttachMember(o)
  <2>1. /\ op[o].ticket \in References /\ Existing' = Existing
        /\ tickets'[op[o].ticket] = [tickets[op[o].ticket] EXCEPT
              !.files = @ \cup {NewFile(NextMember(o), op[o].got)}]
        /\ \A u \in TicketUid \ {op[o].ticket} : tickets'[u] = tickets[u]
        /\ op'[o].pc \in {"member", "detachMember"}
    BY <1>3, AttachMemberIs
  <2>2. Says(o)
    BY <2>1, FilesSaid DEF References
  <2> QED
    BY <1>1, <2>1, <2>2 DEF Moves
<1>4. CASE DetachMember(o)
  <2>1. /\ op[o].ticket \in References /\ Existing' = Existing
        /\ tickets'[op[o].ticket] = [tickets[op[o].ticket] EXCEPT
              !.files = @ \ Previous(o, NextMember(o))]
        /\ \A u \in TicketUid \ {op[o].ticket} : tickets'[u] = tickets[u]
        /\ op'[o].pc = "member"
    BY <1>4, DetachMemberIs
  <2>2. Says(o)
    BY <2>1, FilesSaid DEF References
  <2> QED
    BY <1>1, <2>1, <2>2 DEF Moves
<1>5. CASE Sweep(o)
  <2>1. op'[o].pc \in {"readIndex", "member"} /\ op[o].ticket \in References /\ Existing' = Existing
        /\ \A u \in TicketUid \ {op[o].ticket} : tickets'[u] = tickets[u]
    BY <1>5, SweepIs
  <2>2. UNCHANGED tickets \/ \E f :
           tickets'[op[o].ticket] = [tickets[op[o].ticket] EXCEPT !.files = @ \ {f}]
    BY <1>5, SweepIs
  <2>3. Says(o)
    BY <2>1, <2>2, FilesSaid, NothingSaid DEF References
  <2>4. op[o].job = "adopt"
    BY <1>5, SweepIs, NowIs DEF OpStands, AdoptSteps, SyncSteps
  <2>5. op'[o].job = "adopt"
    BY <1>5, <2>4, SweepIs DEF Same
  <2> QED
    BY <1>1, <2>1, <2>3, <2>5 DEF Moves
<1> QED
  BY <1>2, <1>3, <1>4, <1>5

\* What any step says, and that nobody else moves.
LEMMA StepSays ==
    ASSUME MaterialTypes, NEW o \in Op, Step(o)
    PROVE  Moves(o) /\ Says(o) /\ TicketsStay /\ OthersAlike(o)
<1>1. Moves(o) /\ Says(o)
  BY UploadsSay, IndexesSay, PlacingSays, OthersSay, AdoptingSays, SyncSays DEF Step
<1>2. Only(o) => OthersAlike(o)
  BY DEF Only, OthersAlike, Alike, Same
<1>3. TicketsStay /\ OthersAlike(o)
  <2>1. CASE Upload(o) \/ Create(o) \/ Attach(o) \/ Comment(o)
    BY <1>2, <2>1, UploadIs, CreateIs, AttachIs, CommentIs
  <2>2. CASE ReadIndex(o) \/ WriteIndex(o) \/ ReadTexts(o) \/ ReadChunks(o) \/ WriteChunks(o)
    BY <1>2, <2>2, ReadIndexIs, WriteIndexIs, ReadTextsIs, ReadChunksIs, WriteChunksIs
  <2>3. CASE FindName(o) \/ CheckName(o) \/ WriteAsset(o) \/ RecordPlacement(o)
    BY <1>2, <2>3, FindNameIs, CheckNameIs, WriteAssetIs, RecordPlacementIs
  <2>4. CASE Revise(o) \/ Update(o) \/ Stop(o)
    BY <1>2, <2>4, ReviseIs, UpdateIs, StopIs
  <2>5. CASE Adopt(o) \/ FindByBundle(o) \/ Upsert(o) \/ ListAttachments(o)
    BY <1>2, <2>5, AdoptIs, FindByBundleIs, UpsertIs, ListAttachmentsIs
  <2>6. CASE ReadMember(o) \/ AttachMember(o) \/ DetachMember(o) \/ Sweep(o)
    BY <1>2, <2>6, ReadMemberIs, AttachMemberIs, DetachMemberIs, SweepIs
  <2> QED
    BY <2>1, <2>2, <2>3, <2>4, <2>5, <2>6 DEF Step
<1> QED
  BY <1>1, <1>3

\* A capture writes the bundle alone; a removal a name of the site.
LEMMA OutsideSays ==
    ASSUME MaterialTypes, Capture \/ RemoveAsset \/ UNCHANGED materialVars
    PROVE  /\ UNCHANGED <<tickets, index, chunks, unsure, early>> /\ Existing' = Existing
           /\ \A p \in Op : Alike(p)
           /\ UNCHANGED <<assets, gone>> \/ RemoveAsset
<1>1. UNCHANGED <<tickets, index, chunks, unsure, early>>
  BY DEF Capture, RemoveAsset, materialVars
<1>2. Existing' = Existing
  BY <1>1 DEF Existing
<1>3. \A p \in Op : Alike(p)
  <2>1. CASE Capture
    BY <2>1, CaptureIs
  <2>2. CASE RemoveAsset \/ UNCHANGED materialVars
    BY <2>2 DEF RemoveAsset, materialVars, Alike, Same
  <2> QED
    BY <2>1, <2>2
<1>4. UNCHANGED <<assets, gone>> \/ RemoveAsset
  BY DEF Capture, materialVars
<1> QED
  BY <1>1, <1>2, <1>3, <1>4

\* A file that is being recorded as placed is there already.
FilesArePlaced ==
    \A t \in Existing \ gone :
        tickets[t].placed \/ (\E o \in Op : op[o].pc = "place" /\ op[o].ticket = t)
        => \E n \in Name : assets[n] = t

\* Only the write of an asset comes before the record of it.
LEMMA StepPlaced ==
    ASSUME MaterialTypes, FilesArePlaced, [MaterialNext]_materialVars PROVE FilesArePlaced'
<1>1. ASSUME NEW t \in Existing' \ gone',
             tickets'[t].placed \/ (\E o \in Op : op'[o].pc = "place" /\ op'[o].ticket = t)
      PROVE  \E n \in Name : assets'[n] = t
  <2>0. assets \in [Name -> Existing \cup {None}] /\ \A p \in Op : op[p].pc = "place" => op[p].ticket \in Existing
    BY TypesAre DEF RowsHold, OpStands, UploadSteps
  <2>1. CASE Capture \/ UNCHANGED materialVars
    <3>1. /\ UNCHANGED <<tickets, assets, gone>> /\ Existing' = Existing
          /\ \A p \in Op : op'[p].pc = op[p].pc /\ op'[p].ticket = op[p].ticket
      BY <2>1, OutsideSays DEF Capture, materialVars, Alike, Same
    <3> QED
      BY <1>1, <3>1 DEF FilesArePlaced
  <2>2. CASE RemoveAsset
    <3>1. /\ UNCHANGED tickets /\ Existing' = Existing /\ \A p \in Op : op'[p] = op[p]
          /\ \E n \in OnSite : assets' = [assets EXCEPT ![n] = None] /\ gone' = gone \cup {assets[n]}
      BY <2>2, RemoveAssetIs DEF RemoveAsset
    <3>2. t \in Existing \ gone /\ \E n \in Name : assets[n] = t
      BY <1>1, <3>1 DEF FilesArePlaced
    <3> QED
      BY <1>1, <2>0, <3>1, <3>2 DEF OnSite
  <2>3. ASSUME NEW o \in Op, Step(o) PROVE \E n \in Name : assets'[n] = t
    <3>0. Moves(o) /\ Says(o) /\ OthersAlike(o)
      BY <2>3, StepSays
    <3>1. CASE WriteAsset(o)
      <4>1. /\ op[o].name \in Name /\ assets' = [assets EXCEPT ![op[o].name] = op[o].ticket]
            /\ gone' = gone \cup ({assets[op[o].name]} \ {None}) /\ UNCHANGED tickets
            /\ Existing' = Existing /\ Same(o) /\ Only(o)
        BY <3>1, WriteAssetIs DEF WriteAsset
      <4>2. CASE t = op[o].ticket
        BY <2>0, <4>1, <4>2
      <4>3. CASE t # op[o].ticket
        <5>1. t \in Existing \ gone /\ (tickets[t].placed \/ \E p \in Op : op[p].pc = "place" /\ op[p].ticket = t)
          BY <1>1, <4>1, <4>3 DEF Only, Same
        <5>2. PICK n \in Name : assets[n] = t
          BY <5>1 DEF FilesArePlaced
        <5>3. t # None
          BY <5>1, NoneIsNoTicket DEF Existing
        <5>4. n # op[o].name
          BY <1>1, <4>1, <5>2, <5>3
        <5> QED
          BY <2>0, <4>1, <5>2, <5>4
      <4> QED
        BY <4>2, <4>3
    <3>2. CASE ~WriteAsset(o)
      <4>1. UNCHANGED <<assets, gone>> /\ op'[o].pc # "place"
        BY <3>0, <3>2 DEF Moves
      <4>2. \A p \in Op : op'[p].pc = "place" => op[p].pc = "place" /\ op'[p].ticket = op[p].ticket
        BY <3>0, <4>1 DEF OthersAlike, Alike, Same
      <4>3. t \in Existing /\ (tickets[t].placed \/ \E p \in Op : op[p].pc = "place" /\ op[p].ticket = t)
        BY <1>1, <2>0, <3>0, <4>2 DEF Says
      <4> QED
        BY <1>1, <4>1, <4>3 DEF FilesArePlaced
    <3> QED
      BY <3>1, <3>2
  <2> QED
    BY <2>1, <2>2, <2>3, StepIs
<1> QED
  BY <1>1 DEF FilesArePlaced

\* A file the Library says is on the site was put there, and is there until it is
\* removed or written over (promoteToSiteAsset writes before it records).
THEOREM PlacedFilesAreThere == MaterialSpec => []PlacedIsThere
<1>1. MaterialInit => FilesArePlaced
  BY DEF MaterialInit, FilesArePlaced, Existing
<1>2. MaterialTypes /\ FilesArePlaced /\ [MaterialNext]_materialVars => FilesArePlaced'
  BY StepPlaced
<1>3. FilesArePlaced => PlacedIsThere
  BY DEF FilesArePlaced, PlacedIsThere
<1> QED
  BY <1>1, <1>2, <1>3, TypesStart, StepTypes, PTL DEF MaterialSpec

-----------------------------------------------------------------------------
\* A refresh that is alone is the only one, and has the rows it is sure of; those
\* that no one is unsure of every refresh has.
IndexRow(t) == <<t, tickets[t].body>>
RowsAreKnown ==
    /\ \A o \in Refreshing : /\ op[o].alone => \A p \in Refreshing : p = o
                             /\ \A t \in op[o].sure : t \in Existing /\ IndexRow(t) \in op[o].rows
    /\ \A t \in Existing \ unsure : IndexRow(t) \in index /\ \A o \in Refreshing : IndexRow(t) \in op[o].rows

\* A refresh that is alone writes what it is sure of; another's writes what it has.
LEMMA StepKnown ==
    ASSUME MaterialTypes, RowsAreKnown, [MaterialNext]_materialVars PROVE RowsAreKnown'
<1>1. CASE Capture \/ RemoveAsset \/ UNCHANGED materialVars
  <2>1. /\ UNCHANGED <<tickets, index, unsure>> /\ Existing' = Existing
        /\ \A p \in Op : Alike(p)
    BY <1>1, OutsideSays
  <2>2. Refreshing' = Refreshing /\ Refreshing \subseteq Op
    BY <2>1 DEF Alike, Refreshing
  <2> QED
    BY <2>1, <2>2 DEF RowsAreKnown, IndexRow, Alike
<1>2. ASSUME NEW o \in Op, Step(o) PROVE RowsAreKnown'
  <2>0. Moves(o) /\ Says(o) /\ OthersAlike(o)
    BY <1>2, StepSays
  <2>1. CASE ReadIndex(o)
    <3>1. /\ OthersAlike(o) /\ Existing' = Existing /\ UNCHANGED <<tickets, index, unsure>>
          /\ op[o].pc = "readIndex" /\ op'[o].pc = "writeIndex"
          /\ op'[o].rows = Documents(o) /\ op'[o].sure = Existing /\ (op'[o].alone => Refreshing = {})
          /\ \A p \in Refreshing : p # o => ~op'[p].alone
      BY <2>1, ReadIndexIs DEF ReadIndex, history
    <3>2. Refreshing' = Refreshing \cup {o} /\ o \notin Refreshing /\ Refreshing \subseteq Op \ {o}
      BY <3>1 DEF OthersAlike, Alike, Refreshing
    <3>3. \A t \in Existing : IndexRow(t) \in Documents(o) /\ IndexRow(t)' = IndexRow(t)
      BY <3>1 DEF Documents, Corpus, IndexRow
    <3>4. \A p \in Refreshing : op'[p].rows = op[p].rows /\ op'[p].sure \subseteq op[p].sure
      BY <3>1, <3>2 DEF OthersAlike, Alike
    <3>5. \A p \in Refreshing' : /\ op'[p].alone => \A r \in Refreshing' : r = p
                                 /\ \A t \in op'[p].sure : t \in Existing' /\ IndexRow(t)' \in op'[p].rows
      BY <3>1, <3>2, <3>3, <3>4 DEF RowsAreKnown, IndexRow
    <3>6. \A t \in Existing' \ unsure' :
             IndexRow(t)' \in index' /\ \A p \in Refreshing' : IndexRow(t)' \in op'[p].rows
      BY <3>1, <3>2, <3>3, <3>4 DEF RowsAreKnown
    <3> QED
      BY <3>5, <3>6 DEF RowsAreKnown
  <2>2. CASE ~ReadIndex(o)
    <3>1. op'[o].pc # "writeIndex"
      BY <2>0, <2>2 DEF Moves
    <3>2. Refreshing' = Refreshing \ {o} /\ Refreshing \subseteq Op
      BY <2>0, <3>1 DEF OthersAlike, Alike, Refreshing
    <3>3. \A p \in Refreshing' : /\ p \in Refreshing /\ op'[p].rows = op[p].rows
                                 /\ op'[p].sure \subseteq op[p].sure /\ (op'[p].alone => op[p].alone)
      BY <2>0, <3>2 DEF OthersAlike, Alike
    <3>4. \A t \in Existing : t \in Existing' /\ (IndexRow(t)' = IndexRow(t) \/ (t \in unsure' /\ \A p \in Op : t \notin op'[p].sure))
      BY <1>2, StepSays DEF Says, IndexRow, TicketsStay
    <3>5. \A p \in Refreshing' : \A t \in op'[p].sure : t \in Existing /\ t \in Existing' /\ IndexRow(t)' = IndexRow(t)
      BY <3>2, <3>3, <3>4 DEF RowsAreKnown
    <3>6. \A p \in Refreshing' : /\ op'[p].alone => \A r \in Refreshing' : r = p
                                 /\ \A t \in op'[p].sure : t \in Existing' /\ IndexRow(t)' \in op'[p].rows
      BY <3>2, <3>3, <3>5 DEF RowsAreKnown
    <3>7. ASSUME NEW t \in Existing' \ unsure'
          PROVE  IndexRow(t)' \in index' /\ \A p \in Refreshing' : IndexRow(t)' \in op'[p].rows
      <4>1. t \in Existing /\ IndexRow(t)' = IndexRow(t)
        BY <2>0, <3>4 DEF Says
      <4>2. CASE WriteIndex(o)
        <5>1. o \in Refreshing /\ index' = op[o].rows
          BY <4>2 DEF WriteIndex, Refreshing
        <5>2. CASE op[o].alone
          <6>1. unsure' = unsure \ op[o].sure /\ Refreshing' = {}
            BY <3>2, <4>2, <5>1, <5>2 DEF WriteIndex, RowsAreKnown
          <6>2. t \in op[o].sure \/ t \in Existing \ unsure
            BY <4>1, <6>1
          <6> QED
            BY <4>1, <5>1, <6>1, <6>2 DEF RowsAreKnown
        <5>3. CASE ~op[o].alone
          <6>1. unsure' = unsure
            BY <4>2, <5>3 DEF WriteIndex
          <6> QED
            BY <3>3, <4>1, <5>1, <6>1 DEF RowsAreKnown
        <5> QED
          BY <5>2, <5>3
      <4>3. CASE ~WriteIndex(o)
        <5>1. index' = index /\ t \in Existing \ unsure
          BY <2>0, <4>1, <4>3 DEF Moves
        <5> QED
          BY <3>3, <4>1, <5>1 DEF RowsAreKnown
      <4> QED
        BY <4>2, <4>3
    <3> QED
      BY <3>6, <3>7 DEF RowsAreKnown
  <2> QED
    BY <2>1, <2>2
<1> QED
  BY <1>1, <1>2, StepIs

\* What a refresh that ran alone has read is found until it is changed again, however
\* refreshes overlap after it (knowledge.ts).
THEOREM WhatWasReadIsFound == MaterialSpec => []SearchFinds
<1>1. MaterialInit => RowsAreKnown
  <2> SUFFICES ASSUME MaterialInit PROVE RowsAreKnown
    OBVIOUS
  <2>1. Existing = {} /\ Refreshing = {}
    BY IdleIs DEF MaterialInit, Existing, Refreshing
  <2> QED
    BY <2>1 DEF RowsAreKnown
<1>2. MaterialTypes /\ RowsAreKnown /\ [MaterialNext]_materialVars => RowsAreKnown'
  BY StepKnown
<1>3. RowsAreKnown => SearchFinds
  BY DEF RowsAreKnown, IndexRow, SearchFinds
<1> QED
  BY <1>1, <1>2, <1>3, TypesStart, StepTypes, PTL DEF MaterialSpec

-----------------------------------------------------------------------------
\* A row without text is of a ticket that has none and is given none.
Texted(rows) ==
    \A t \in Existing \ early : \A row \in rows :
        row[1] = t /\ ~row[3] => ~tickets[t].text /\ \A p \in Op : ~Awaits(p, t)
RowsAreTexted == Texted(chunks) /\ \A o \in Op : op[o].pc = "writeChunks" => Texted(op[o].rows)

\* An upload's own refresh finds the text it was called for.
OwnIsRead(o) ==
    op[o].job = "upload" /\ op[o].file.text =>
        /\ op[o].pc \in {"readIndex", "writeIndex", "readTexts"} => tickets[op[o].ticket].text
        /\ op[o].pc = "readChunks" => op[o].ticket \in op[o].texts

\* The comment is there before the refresh begins, and stays (afterIngest).
LEMMA StepOwnRead ==
    ASSUME MaterialTypes, \A o \in Op : OwnIsRead(o), [MaterialNext]_materialVars
    PROVE  \A o \in Op : OwnIsRead(o)'
<1>0. \A p \in Op : op[p].job = "upload" /\ op[p].pc # "create" => op[p].ticket \in Existing
  BY TypesAre DEF OpStands
<1>1. CASE Capture \/ RemoveAsset \/ UNCHANGED materialVars
  BY <1>1, OutsideSays DEF OwnIsRead, Alike, Same
<1>2. ASSUME NEW o \in Op, Step(o) PROVE \A p \in Op : OwnIsRead(p)'
  <2>0. Moves(o) /\ Says(o) /\ OthersAlike(o)
    BY <1>2, StepSays
  <2>1. ASSUME NEW p \in Op \ {o} PROVE OwnIsRead(p)'
    BY <1>0, <2>0, <2>1 DEF OwnIsRead, OthersAlike, Alike, Same, Says
  <2>2. OwnIsRead(o)'
    <3> SUFFICES ASSUME op'[o].job = "upload", op'[o].file.text
                 PROVE  /\ op'[o].pc \in {"readIndex", "writeIndex", "readTexts"} => tickets'[op'[o].ticket].text
                        /\ op'[o].pc = "readChunks" => op'[o].ticket \in op'[o].texts
      BY DEF OwnIsRead
    <3>1. CASE op'[o].pc = "readIndex"
      <4>1. Comment(o)
        BY <2>0, <3>1 DEF Moves
      <4>2. Same(o) /\ op[o].ticket \in Existing /\ tickets[op[o].ticket] \in Ticket
            /\ tickets'[op[o].ticket] = [tickets[op[o].ticket] EXCEPT !.text = TRUE]
        BY <4>1, CommentIs, TypesAre DEF TicketsHold, Existing
      <4>3. tickets'[op[o].ticket].text
        BY <4>2 DEF Ticket
      <4> QED
        BY <3>1, <4>2, <4>3 DEF Same
    <3>2. CASE op'[o].pc = "writeIndex"
      <4>1. ReadIndex(o)
        BY <2>0, <3>2 DEF Moves
      <4>2. Same(o) /\ op[o].pc = "readIndex" /\ UNCHANGED tickets
        BY <4>1, ReadIndexIs DEF ReadIndex
      <4> QED
        BY <3>2, <4>2 DEF Same, OwnIsRead
    <3>3. CASE op'[o].pc = "readTexts"
      <4>1. WriteIndex(o)
        BY <2>0, <3>3 DEF Moves
      <4>2. Same(o) /\ op[o].pc = "writeIndex" /\ UNCHANGED tickets
        BY <4>1, WriteIndexIs DEF WriteIndex
      <4> QED
        BY <3>3, <4>2 DEF Same, OwnIsRead
    <3>4. CASE op'[o].pc = "readChunks"
      <4>1. ReadTexts(o)
        BY <2>0, <3>4 DEF Moves
      <4>2. Same(o) /\ op[o].pc = "readTexts" /\ op'[o].texts = {t \in Existing : tickets[t].text}
        BY <4>1, ReadTextsIs
      <4>3. op[o].ticket \in Existing /\ tickets[op[o].ticket].text
        BY <1>0, <4>2 DEF Same, OwnIsRead
      <4> QED
        BY <3>4, <4>2, <4>3 DEF Same
    <3> QED
      BY <3>1, <3>2, <3>3, <3>4
  <2> QED
    BY <2>1, <2>2
<1> QED
  BY <1>1, <1>2, StepIs

\* A ticket gets its text from a request that awaited to give it, and none comes to.
LEMMA TextedStays ==
    ASSUME MaterialTypes, NEW o \in Op, Step(o), NEW rows, Texted(rows),
           \A row \in rows : row[1] \in Existing
    PROVE  \A t \in Existing' \ early' : \A row \in rows :
               row[1] = t /\ ~row[3] => ~tickets'[t].text /\ \A p \in Op : ~Awaits(p, t)'
<1>1. Moves(o) /\ Says(o) /\ OthersAlike(o)
  BY StepSays
<1>2. SUFFICES ASSUME NEW t \in Existing' \ early', NEW row \in rows, row[1] = t, ~row[3]
               PROVE  ~tickets'[t].text /\ \A p \in Op : ~Awaits(p, t)'
  OBVIOUS
<1>3. t \in Existing \ early
  BY <1>1, <1>2 DEF Moves
<1>4. ~tickets[t].text /\ \A p \in Op : ~Awaits(p, t)
  BY <1>2, <1>3 DEF Texted
<1>5. ~tickets'[t].text
  BY <1>1, <1>3, <1>4 DEF Says
<1>6. \A p \in Op \ {o} : ~Awaits(p, t)'
  BY <1>1, <1>4 DEF OthersAlike, Alike, Same, Awaits
<1>7. ~Awaits(o, t)'
  <2>1. CASE op'[o].pc \in {"attach", "comment"} /\ op'[o].ticket = t
    BY <1>1, <1>3, <1>4, <2>1 DEF Moves, Same, Awaits
  <2> QED
    BY <2>1 DEF Awaits
<1> QED
  BY <1>5, <1>6, <1>7

\* A row is written without text only where the ticket had none to come, or was read early.
LEMMA StepTexted ==
    ASSUME MaterialTypes, RowsAreTexted, \A o \in Op : OwnIsRead(o), [MaterialNext]_materialVars PROVE RowsAreTexted'
<1>0. /\ \A row \in chunks : row[1] \in Existing
      /\ \A p \in Op : op[p].pc = "writeChunks" => \A row \in op[p].rows : row[1] \in Existing
  <2>1. /\ chunks \subseteq Existing \X Nat \X BOOLEAN
        /\ \A p \in Op : op[p].pc = "writeChunks" => op[p].rows \subseteq Existing \X Nat \X BOOLEAN
    BY TypesAre DEF RowsHold, OpStands
  <2> QED
    BY <2>1
<1>1. CASE Capture \/ RemoveAsset \/ UNCHANGED materialVars
  <2>1. /\ UNCHANGED <<tickets, chunks, early>> /\ Existing' = Existing
        /\ \A p \in Op : Alike(p)
    BY <1>1, OutsideSays
  <2>2. \A p \in Op : \A t : Awaits(p, t)' = Awaits(p, t)
    BY <2>1 DEF Alike, Same, Awaits
  <2> QED
    BY <2>1, <2>2 DEF RowsAreTexted, Texted, Alike
<1>2. ASSUME NEW o \in Op, Step(o) PROVE RowsAreTexted'
  <2>0. Moves(o) /\ Says(o) /\ OthersAlike(o)
    BY <1>2, StepSays
  <2>1. Texted(chunks)'
    <3>1. PICK rows : chunks' = rows /\ Texted(rows) /\ \A row \in rows : row[1] \in Existing
      BY <1>0, <2>0 DEF Moves, RowsAreTexted, WriteChunks
    <3> QED
      BY <1>2, <3>1, TextedStays DEF Texted
  <2>2. ASSUME NEW p \in Op, op'[p].pc = "writeChunks", p # o PROVE Texted(op[p].rows)'
    <3>1. op[p].pc = "writeChunks" /\ op'[p].rows = op[p].rows
      BY <2>0, <2>2 DEF OthersAlike, Alike
    <3>2. PICK rows : rows = op[p].rows /\ Texted(rows) /\ \A row \in rows : row[1] \in Existing
      BY <1>0, <3>1 DEF RowsAreTexted
    <3> QED
      BY <1>2, <3>1, <3>2, TextedStays DEF Texted
  <2>3. ASSUME op'[o].pc = "writeChunks" PROVE Texted(op[o].rows)'
    <3>1. ReadChunks(o)
      BY <2>0, <2>3 DEF Moves
    <3>2. /\ op[o].pc = "readChunks" /\ op'[o].rows = UNION {Chunk(o, t) : t \in Existing}
          /\ Existing' = Existing /\ Only(o) /\ UNCHANGED tickets /\ early' = early \cup Unread(o)
      BY <3>1, ReadChunksIs DEF ReadChunks
    <3>3. ASSUME NEW t \in Existing' \ early', NEW row \in op'[o].rows, row[1] = t, ~row[3]
          PROVE  ~tickets'[t].text /\ \A p \in Op : ~Awaits(p, t)'
      <4>1. row \in Chunk(o, t)
        BY <3>2, <3>3 DEF Chunk, Kept
      <4>2. CASE Kept(t) # {}
        <5>1. row \in chunks
          BY <4>1, <4>2 DEF Chunk, Kept
        <5> QED
          BY <1>2, <3>3, <5>1, <1>0, TextedStays DEF RowsAreTexted
      <4>3. CASE Kept(t) = {}
        <5>0. t \in Existing \ op[o].texts /\ t \notin Unread(o)
          <6> DEFINE read == t \in op[o].texts
          <6>1. row = <<t, tickets[t].stamp, read>>
            BY <4>1, <4>3 DEF Chunk
          <6> HIDE DEF read
          <6>2. row[3] = read
            BY <6>1
          <6>3. ~read
            BY <3>3, <6>2, Zenon
          <6> QED
            BY <3>2, <3>3, <6>3 DEF read
        <5>1. ~(op[o].job = "upload" /\ op[o].file.text /\ op[o].ticket = t)
          BY <3>2, <5>0 DEF OwnIsRead
        <5>2. ~tickets[t].text /\ t \notin Textless(o)
          BY <4>3, <5>0, <5>1 DEF Unread
        <5>3. \A p \in Op : ~Awaits(p, t)
          BY <3>2, <5>2 DEF Textless, Awaits
        <5> QED
          BY <2>3, <3>2, <5>2, <5>3 DEF Only, Awaits
      <4> QED
        BY <4>2, <4>3
    <3> QED
      BY <3>3 DEF Texted
  <2> QED
    BY <2>1, <2>2, <2>3 DEF RowsAreTexted
<1> QED
  BY <1>1, <1>2, StepIs

\* A document is searched by its own text unless another request's refresh made a row
\* for it having queried the comments before the text was there: the refresh of its own
\* upload queries them after it, however requests overlap (material.ts, knowledge.ts).
THEOREM OwnTextIsSearched == MaterialSpec => []TextIsSearched
<1> DEFINE OwnAreRead == \A o \in Op : OwnIsRead(o)
<1>1. MaterialInit => RowsAreTexted /\ OwnAreRead
  <2> SUFFICES ASSUME MaterialInit PROVE RowsAreTexted /\ OwnAreRead
    OBVIOUS
  <2>1. Existing = {} /\ \A o \in Op : op[o].pc = "idle" /\ op[o].job = "none"
    BY IdleIs DEF MaterialInit, Existing
  <2> QED
    BY <2>1 DEF RowsAreTexted, Texted, OwnIsRead
<1>2. MaterialTypes /\ OwnAreRead /\ [MaterialNext]_materialVars => OwnAreRead'
  BY StepOwnRead
<1>3. MaterialTypes /\ RowsAreTexted /\ OwnAreRead /\ [MaterialNext]_materialVars => RowsAreTexted'
  BY StepTexted
<1>4. RowsAreTexted => TextIsSearched
  BY DEF RowsAreTexted, Texted, TextIsSearched
<1> HIDE DEF OwnAreRead
<1> QED
  BY <1>1, <1>2, <1>3, <1>4, TypesStart, StepTypes, PTL DEF MaterialSpec

-----------------------------------------------------------------------------
(* What a reference holds.                                                  *)

Syncing(o) == ReadMember(o) \/ AttachMember(o) \/ DetachMember(o) \/ Sweep(o)

\* Only an adoption that is at its members changes what a reference holds.
LEMMA FilesStay ==
    ASSUME MaterialTypes, NEW o \in Op, Step(o), ~Syncing(o)
    PROVE  /\ \A t \in References : tickets'[t].files = tickets[t].files
           /\ strayed' = strayed
           /\ op'[o].pc \notin SyncSteps \/ ListAttachments(o)
<1>0. \A t \in References : t \in Existing /\ t \in TicketUid /\ tickets[t] \in Ticket
  BY NowIs DEF TicketsHold, References, Existing
<1>1. CASE Upload(o) \/ Attach(o) \/ Create(o)
  <2>1. strayed' = strayed
    BY <1>1 DEF Upload, Attach, Create, history
  <2>2. op'[o].pc \in {"create", "attach", "comment", "readIndex"}
    BY <1>1, UploadIs, AttachIs, CreateIs
  <2>3. \A t \in References : tickets'[t] = tickets[t]
    <3>1. CASE Upload(o)
      BY <3>1 DEF Upload
    <3>2. CASE Attach(o)
      BY <1>0, <3>2, AttachIs
    <3>3. CASE Create(o)
      BY <1>0, <3>3, CreateIs
    <3> QED
      BY <1>1, <3>1, <3>2, <3>3
  <2> QED
    BY <2>1, <2>2, <2>3 DEF SyncSteps
<1>2. CASE Comment(o) \/ RecordPlacement(o)
  <2>1. strayed' = strayed
    BY <1>2 DEF Comment, RecordPlacement, history
  <2>2. op'[o].pc \in {"readIndex", "idle"}
    BY <1>2, CommentIs, RecordPlacementIs, IdleIs
  <2>3. \A t \in References : tickets'[t] = tickets[t]
    BY <1>0, <1>2, CommentIs, RecordPlacementIs
  <2> QED
    BY <2>1, <2>2, <2>3 DEF SyncSteps
<1>3. CASE Update(o)
  <2>1. strayed' = strayed /\ op'[o].pc = "readIndex"
    BY <1>3, UpdateIs DEF Update
  <2>2. PICK t \in Existing :
           /\ tickets'[t] = [tickets[t] EXCEPT !.body = @ + 1, !.stamp = @ + 1]
           /\ \A u \in TicketUid \ {t} : tickets'[u] = tickets[u]
    BY <1>3, UpdateIs
  <2>3. \A u \in References : tickets'[u].files = tickets[u].files
    BY <1>0, <2>2 DEF Ticket
  <2> QED
    BY <2>1, <2>3 DEF SyncSteps
<1>4. CASE Upsert(o)
  <2>1. strayed' = strayed /\ op'[o].pc = "listing"
    BY <1>4, UpsertIs DEF Upsert
  <2>2. PICK t \in TicketUid :
           /\ \A u \in TicketUid \ {t} : tickets'[u] = tickets[u]
           /\ IF op[o].ticket = None THEN t \notin Existing
              ELSE tickets'[t] = [tickets[t] EXCEPT !.body = @ + 1, !.stamp = @ + 1]
    BY <1>4, UpsertIs
  <2>3. \A u \in References : tickets'[u].files = tickets[u].files
    BY <1>0, <2>2 DEF Ticket
  <2> QED
    BY <2>1, <2>3 DEF SyncSteps
<1>5. CASE ReadIndex(o) \/ WriteIndex(o) \/ ReadTexts(o) \/ ReadChunks(o) \/ WriteChunks(o)
  <2>1. UNCHANGED <<tickets, strayed>>
    BY <1>5 DEF ReadIndex, WriteIndex, ReadTexts, ReadChunks, WriteChunks, history
  <2>2. op'[o].pc \in {"writeIndex", "readTexts", "readChunks", "writeChunks", "idle", "name"}
    BY <1>5, ReadIndexIs, WriteIndexIs, ReadTextsIs, ReadChunksIs, WriteChunksIs
  <2> QED
    BY <2>1, <2>2 DEF SyncSteps
<1>6. CASE FindName(o) \/ CheckName(o) \/ WriteAsset(o) \/ Revise(o)
  <2>1. UNCHANGED <<tickets, strayed>>
    BY <1>6 DEF FindName, CheckName, WriteAsset, Revise, history
  <2>2. op'[o].pc \in {"check", "idle", "write", "place", "update"}
    BY <1>6, FindNameIs, CheckNameIs, WriteAssetIs, ReviseIs
  <2> QED
    BY <2>1, <2>2 DEF SyncSteps
<1>7. CASE Adopt(o) \/ FindByBundle(o) \/ Stop(o)
  <2>1. UNCHANGED <<tickets, strayed>>
    BY <1>7 DEF Adopt, FindByBundle, Stop, history
  <2>2. op'[o].pc \in {"find", "upsert", "idle"}
    BY <1>7, AdoptIs, FindByBundleIs, StopIs, IdleIs
  <2> QED
    BY <2>1, <2>2 DEF SyncSteps
<1>8. CASE ListAttachments(o)
  BY <1>8 DEF ListAttachments, history
<1> QED
  BY <1>1, <1>2, <1>3, <1>4, <1>5, <1>6, <1>7, <1>8 DEF Step, Syncing

\* What an adoption holds it has yet to look at, or did not list; and what it is
\* about to detach has been replaced by something newer.
HeldIsLeft(o) == \A f \in op[o].held : f.member \in op[o].todo \/ f.member \notin op[o].listed
Replaced(o) ==
    \E f \in tickets[op[o].ticket].files :
        f.member = NextMember(o) /\ \A g \in Previous(o, NextMember(o)) : g.uid < f.uid
MembersAreKept ==
    \A o \in Op :
        /\ op[o].pc \in SyncSteps => HeldIsLeft(o)
        /\ op[o].pc = "detachMember" /\ NextMember(o) \notin strayed => Replaced(o)

\* An adoption at its members goes on, member by member.
LEMMA HeldStaysLeft ==
    ASSUME MaterialTypes, MembersAreKept, NEW o \in Op, ListAttachments(o) \/ Syncing(o)
    PROVE  op'[o].pc \in SyncSteps => HeldIsLeft(o)'
<1>1. CASE ListAttachments(o)
  <2>1. op'[o].todo = op'[o].listed
    BY <1>1, ListAttachmentsIs
  <2> QED
    BY <2>1 DEF HeldIsLeft
<1> DEFINE m == NextMember(o)
<1>2. op[o].pc \in SyncSteps => HeldIsLeft(o)
  BY DEF MembersAreKept
<1>3. CASE ReadMember(o)
  <2>1. /\ op[o].pc = "member" /\ op'[o].listed = op[o].listed
        /\ \/ op'[o].todo = op[o].todo \ {m} /\ op'[o].held = op[o].held \ Previous(o, m)
           \/ op'[o].todo = op[o].todo /\ op'[o].held = op[o].held
    BY <1>3, ReadMemberIs
  <2> QED
    BY <1>2, <2>1 DEF HeldIsLeft, SyncSteps, Previous
<1>4. CASE AttachMember(o)
  <2>1. /\ op[o].pc = "attachMember" /\ op'[o].listed = op[o].listed /\ op'[o].held = op[o].held
        /\ op'[o].todo = op[o].todo \/ (Previous(o, m) = {} /\ op'[o].todo = op[o].todo \ {m})
    BY <1>4, AttachMemberIs
  <2> QED
    BY <1>2, <2>1 DEF HeldIsLeft, SyncSteps, Previous
<1>5. CASE DetachMember(o)
  <2>1. /\ op[o].pc = "detachMember" /\ op'[o].listed = op[o].listed
        /\ op'[o].todo = op[o].todo \ {m} /\ op'[o].held = op[o].held \ Previous(o, m)
    BY <1>5, DetachMemberIs
  <2> QED
    BY <1>2, <2>1 DEF HeldIsLeft, SyncSteps, Previous
<1>6. CASE Sweep(o)
  <2>1. /\ op[o].pc = "member" /\ op'[o].listed = op[o].listed /\ op'[o].todo = op[o].todo
        /\ op'[o].held \subseteq op[o].held
    BY <1>6, SweepIs DEF Same
  <2> QED
    BY <1>2, <2>1 DEF HeldIsLeft, SyncSteps
<1> QED
  BY <1>1, <1>3, <1>4, <1>5, <1>6 DEF Syncing

\* A record that goes away was replaced, or is swept.
LEMMA FilesMove ==
    ASSUME MaterialTypes, MembersAreKept, NEW o \in Op, Step(o)
    PROVE  /\ strayed \subseteq strayed'
           /\ \A t \in References : \A f \in tickets[t].files :
                 \/ f \in tickets'[t].files
                 \/ f.member \in strayed'
                 \/ \E g \in tickets'[t].files : g.member = f.member /\ g.uid > f.uid
<1>0. \A t \in References : /\ t \in TicketUid /\ tickets[t] \in Ticket
                            /\ \A f \in tickets[t].files : f.uid \in Nat
  <2>1. \A t \in References : t \in TicketUid /\ tickets[t] \in Ticket
    BY NowIs DEF TicketsHold, References, Existing
  <2> QED
    BY <2>1 DEF Ticket, File
<1>1. CASE ~Syncing(o)
  BY <1>1, FilesStay
<1>2. CASE ReadMember(o)
  BY <1>2 DEF ReadMember, history
<1>3. CASE AttachMember(o)
  <2>1. /\ op[o].ticket \in References
        /\ \A u \in TicketUid \ {op[o].ticket} : tickets'[u] = tickets[u]
        /\ tickets'[op[o].ticket] = [tickets[op[o].ticket] EXCEPT
              !.files = @ \cup {NewFile(NextMember(o), op[o].got)}]
    BY <1>3, AttachMemberIs
  <2>2. tickets[op[o].ticket].files \subseteq tickets'[op[o].ticket].files
    BY <1>0, <2>1 DEF Ticket
  <2>3. strayed' = strayed
    BY <1>3 DEF AttachMember, history
  <2> QED
    BY <1>0, <2>1, <2>2, <2>3
<1>4. CASE DetachMember(o)
  <2> DEFINE m == NextMember(o)
             t == op[o].ticket
  <2>1. /\ t \in References /\ op[o].pc = "detachMember"
        /\ \A u \in TicketUid \ {t} : tickets'[u] = tickets[u]
        /\ tickets'[t] = [tickets[t] EXCEPT !.files = @ \ Previous(o, m)]
    BY <1>4, DetachMemberIs
  <2>2. strayed' = strayed
    BY <1>4 DEF DetachMember, history
  <2>3. tickets'[t].files = tickets[t].files \ Previous(o, m)
    BY <1>0, <2>1 DEF Ticket
  <2>4. ASSUME NEW f \in tickets[t].files, f \in Previous(o, m), f.member \notin strayed
        PROVE  \E g \in tickets'[t].files : g.member = f.member /\ g.uid > f.uid
    <3>1. f.member = m
      BY <2>4 DEF Previous
    <3>2. Replaced(o)
      BY <2>1, <2>4, <3>1 DEF MembersAreKept
    <3>3. PICK g \in tickets[t].files : g.member = m /\ \A h \in Previous(o, m) : h.uid < g.uid
      BY <3>2 DEF Replaced
    <3>4. g \notin Previous(o, m)
      <4>1. g.uid \in Nat
        BY <1>0, <2>1
      <4>2. ~(g.uid < g.uid)
        BY <4>1
      <4> QED
        BY <3>3, <4>2
    <3>5. f.uid < g.uid
      BY <2>4, <3>3
    <3>6. g.uid > f.uid
      BY <1>0, <2>1, <3>5
    <3> QED
      BY <2>3, <3>1, <3>3, <3>4, <3>6
  <2> HIDE DEF t, m
  <2> QED
    BY <1>0, <2>1, <2>2, <2>3, <2>4
<1>5. CASE Sweep(o)
  <2> DEFINE t == op[o].ticket
  <2>1. /\ t \in References /\ op[o].pc = "member" /\ op[o].todo = {}
        /\ \A u \in TicketUid \ {t} : tickets'[u] = tickets[u]
        /\ \/ UNCHANGED <<tickets, strayed>>
           \/ \E f \in op[o].held :
                 /\ tickets'[t] = [tickets[t] EXCEPT !.files = @ \ {f}]
                 /\ strayed' = strayed \cup ({f.member} \ op[o].listed)
    BY <1>5, SweepIs
  <2>2. HeldIsLeft(o)
    BY <2>1 DEF MembersAreKept, SyncSteps
  <2>3. CASE UNCHANGED <<tickets, strayed>>
    BY <2>3
  <2>4. ASSUME NEW f \in op[o].held,
               tickets'[t] = [tickets[t] EXCEPT !.files = @ \ {f}],
               strayed' = strayed \cup ({f.member} \ op[o].listed)
        PROVE  /\ strayed \subseteq strayed' /\ f.member \in strayed'
               /\ tickets'[t].files = tickets[t].files \ {f}
    <3>1. f.member \notin op[o].listed
      BY <2>1, <2>2, <2>4 DEF HeldIsLeft
    <3> QED
      BY <1>0, <2>1, <2>4, <3>1 DEF Ticket
  <2> HIDE DEF t
  <2> QED
    BY <1>0, <2>1, <2>3, <2>4
<1> QED
  BY <1>1, <1>2, <1>3, <1>4, <1>5 DEF Syncing

\* What was replaced by something newer stays so, or is swept.
LEMMA StaysReplaced ==
    ASSUME MaterialTypes, MembersAreKept, NEW o \in Op, Step(o), NEW p \in Op \ {o}, Alike(p),
           op[p].pc = "detachMember", NextMember(p) \notin strayed'
    PROVE  Replaced(p)'
<1>1. /\ op[p].ticket \in References /\ op'[p].ticket = op[p].ticket
      /\ NextMember(p)' = NextMember(p) /\ Previous(p, NextMember(p))' = Previous(p, NextMember(p))
      /\ op[p] \in OpState /\ TicketsHold
  BY NowIs DEF OpStands, SyncSteps, Alike, Same, NextMember, Previous
<1>2. Replaced(p)
  BY FilesMove DEF MembersAreKept
<1>3. PICK f \in tickets[op[p].ticket].files :
         f.member = NextMember(p) /\ \A g \in Previous(p, NextMember(p)) : g.uid < f.uid
  BY <1>2 DEF Replaced
<1>4. PICK g \in tickets'[op[p].ticket].files : g.member = NextMember(p) /\ (g = f \/ g.uid > f.uid)
  BY <1>1, <1>3, FilesMove
<1>5. /\ tickets[op[p].ticket].files \subseteq File /\ op[p].held \subseteq File
      /\ tickets'[op[p].ticket].files \subseteq File
  <2>1. MaterialTypes'
    BY StepTypes DEF MaterialNext
  <2>2. TicketsHold' /\ TicketsStay
    BY <2>1, StepSays DEF MaterialTypes, MaterialTypeOK, TicketsHold
  <2>3. op[p].ticket \in TicketUid /\ tickets[op[p].ticket] \in Ticket /\ tickets'[op[p].ticket] \in Ticket
    BY <1>1, <2>2 DEF TicketsHold, TicketsStay, References, Existing
  <2> QED
    BY <1>1, <2>3 DEF Ticket, OpState
<1>6. \A h \in Previous(p, NextMember(p)) : h.uid < g.uid
  <2>1. f.uid \in Nat /\ g.uid \in Nat /\ \A h \in Previous(p, NextMember(p)) : h.uid \in Nat
    BY <1>5 DEF File, Previous
  <2> QED
    BY <1>3, <1>4, <2>1
<1> QED
  BY <1>1, <1>4, <1>6 DEF Replaced

\* Every step keeps what members rest on.
LEMMA StepKept ==
    ASSUME MaterialTypes, MembersAreKept, [MaterialNext]_materialVars PROVE MembersAreKept'
<1>1. CASE Capture \/ RemoveAsset \/ UNCHANGED materialVars
  <2>1. UNCHANGED <<tickets, strayed>> /\ \A p \in Op : Alike(p)
    BY <1>1, OutsideSays DEF Capture, RemoveAsset, materialVars
  <2>2. ASSUME NEW p \in Op
        PROVE  /\ op'[p].pc = op[p].pc /\ NextMember(p)' = NextMember(p)
               /\ HeldIsLeft(p)' <=> HeldIsLeft(p)
               /\ Replaced(p)' <=> Replaced(p)
    <3>1. /\ op'[p].todo = op[p].todo /\ op'[p].held = op[p].held /\ op'[p].listed = op[p].listed
          /\ op'[p].ticket = op[p].ticket /\ op'[p].pc = op[p].pc
      BY <2>1 DEF Alike, Same
    <3>2. NextMember(p)' = NextMember(p) /\ Previous(p, NextMember(p))' = Previous(p, NextMember(p))
      BY <3>1 DEF NextMember, Previous
    <3> QED
      BY <2>1, <3>1, <3>2 DEF HeldIsLeft, Replaced
  <2> QED
    BY <2>1, <2>2 DEF MembersAreKept
<1>2. ASSUME NEW o \in Op, Step(o) PROVE MembersAreKept'
  <2>0. OthersAlike(o) /\ strayed \subseteq strayed'
    BY <1>2, StepSays, FilesMove
  <2>1. ASSUME NEW p \in Op \ {o}
        PROVE  /\ op'[p].pc \in SyncSteps => HeldIsLeft(p)'
               /\ op'[p].pc = "detachMember" /\ NextMember(p)' \notin strayed' => Replaced(p)'
    <3>1. Alike(p)
      BY <2>0 DEF OthersAlike
    <3>2. op'[p].pc \in SyncSteps => HeldIsLeft(p)'
      BY <3>1 DEF MembersAreKept, HeldIsLeft, Alike, Same
    <3>3. NextMember(p)' = NextMember(p) /\ op'[p].pc = op[p].pc
      BY <3>1 DEF Alike, Same, NextMember
    <3> QED
      BY <1>2, <3>1, <3>2, <3>3, StaysReplaced
  <2>2. op'[o].pc \in SyncSteps => HeldIsLeft(o)'
    BY <1>2, FilesStay, HeldStaysLeft
  <2>3. ASSUME op'[o].pc = "detachMember" PROVE Replaced(o)'
    <3>1. AttachMember(o)
      BY <1>2, <2>3, FilesStay, ListAttachmentsIs, ReadMemberIs, DetachMemberIs, SweepIs DEF Syncing, SyncSteps
    <3> DEFINE m == NextMember(o)
               t == op[o].ticket
               f == NewFile(m, op[o].got)
    <3>2. /\ t \in References /\ f.uid = made + 1 /\ f.member = m
          /\ tickets'[t] = [tickets[t] EXCEPT !.files = @ \cup {f}]
          /\ op'[o].ticket = t /\ op'[o].held = op[o].held /\ op[o].pc = "attachMember"
          /\ op'[o].todo = op[o].todo
      BY <2>3, <3>1, AttachMemberIs
    <3>3. tickets[t] \in Ticket /\ op[o] \in OpState /\ made \in Nat /\ \A g \in op[o].held : g.uid <= made
      BY <3>2, SyncIs DEF SyncSteps
    <3>4. f \in tickets'[t].files
      <4> HIDE DEF f
      <4> QED
        BY <3>2, <3>3 DEF Ticket
    <3>5. NextMember(o)' = m /\ Previous(o, m)' = Previous(o, m)
      BY <3>2 DEF NextMember, Previous
    <3>6. \A g \in Previous(o, m) : g.uid < f.uid
      <4>1. \A g \in op[o].held : g.uid \in Nat
        BY <3>3 DEF OpState, File
      <4> QED
        BY <3>2, <3>3, <4>1 DEF Previous
    <3>7. Previous(o, NextMember(o))' = Previous(o, m)
      BY <3>5
    <3>8. \E g \in tickets'[op'[o].ticket].files :
             g.member = NextMember(o)' /\ \A h \in Previous(o, NextMember(o))' : h.uid < g.uid
      <4> HIDE DEF m, f
      <4> QED
        BY <3>2, <3>4, <3>5, <3>6, <3>7
    <3> QED
      BY <3>8 DEF Replaced
  <2> QED
    BY <2>1, <2>2, <2>3 DEF MembersAreKept
<1> QED
  BY <1>1, <1>2, StepIs

\* Whatever requests do at once and wherever they stop, a reference has a record
\* of each member it had, unless one that did not list the member swept it
\* (syncMembers attaches before it detaches).
THEOREM MembersAreServed == MaterialSpec => MembersStay
<1>1. MaterialInit => MembersAreKept
  BY IdleIs DEF MaterialInit, MembersAreKept, SyncSteps
<1>2. ASSUME MaterialTypes, MembersAreKept, [MaterialNext]_materialVars
      PROVE  [\A t \in References :
                 MembersOf(t) \ strayed' \subseteq {f.member : f \in tickets'[t].files}]_materialVars
  <2>1. CASE Capture \/ RemoveAsset \/ UNCHANGED materialVars
    BY <2>1 DEF Capture, RemoveAsset, MembersOf
  <2>2. ASSUME NEW o \in Op, Step(o)
        PROVE  \A t \in References : MembersOf(t) \ strayed' \subseteq {f.member : f \in tickets'[t].files}
    BY <1>2, <2>2, FilesMove DEF MembersOf
  <2> QED
    BY <1>2, <2>1, <2>2, StepIs
<1>3. MaterialTypes /\ MembersAreKept /\ [MaterialNext]_materialVars => MembersAreKept'
  BY StepKept
<1> QED
  BY <1>1, <1>2, <1>3, TypesStart, StepTypes, PTL DEF MaterialSpec, MembersStay

-----------------------------------------------------------------------------
(* The bundle, mirrored.                                                    *)

Single(files) == \A f, g \in files : f.member = g.member => f = g

\* How far an adoption is that has the reference to itself: what it has not looked
\* at it holds; what it has is there once, as it read it; and what it is replacing
\* is there beside what replaces it.
Newer(o, f) == op[o].pc = "detachMember" /\ f.member = NextMember(o) /\ f.content = op[o].got
SyncStands(o) ==
    LET files == tickets[op[o].ticket].files IN
    /\ op[o].held \subseteq files
    /\ \A f \in files : f.member \in op[o].todo \/ f.member \notin op[o].listed =>
           f \in op[o].held \/ Newer(o, f)
    /\ \A m \in op[o].listed \ op[o].todo :
           \E f \in files : f.member = m /\ (op[o].fresh => f.content = bundle[m])
    /\ op[o].pc \in {"attachMember", "detachMember"} /\ op[o].fresh => op[o].got = bundle[NextMember(o)]
    /\ op[o].pc = "detachMember" => \E f \in files : Newer(o, f) /\ f \notin op[o].held
    /\ \A f, g \in files : f.member = g.member =>
           f = g \/ (f \in op[o].held /\ Newer(o, g)) \/ (g \in op[o].held /\ Newer(o, f))
AdoptStands(o) ==
    /\ op[o].pc = "upsert" /\ op[o].ticket = None => References = {}
    /\ op[o].pc \in SyncSteps => SyncStands(o)

Mirrored(t) ==
    /\ \A f \in tickets[t].files : f.member \in InBundle /\ f.content = bundle[f.member]
    /\ \A m \in InBundle : \E f \in tickets[t].files : f.member = m
    /\ Single(tickets[t].files)

\* One that has seen no capture since it began has listed the whole bundle.
ListsAll == \A o \in Adopting : op[o].fresh => op[o].listed = InBundle
OneAdopts == (\A o, p \in Adopting : o = p) /\ (\A t, u \in References : t = u)
OneOfEach ==
    \A t \in References : (\A o \in Op : op[o].pc # "detachMember") => Single(tickets[t].files)
IsMirror ==
    mirror => /\ References # {} /\ \A t \in References : Mirrored(t)
              /\ \A o \in Adopting : op[o].fresh /\ op[o].pc \notin {"attachMember", "detachMember"}
BundleIsMirrored ==
    ListsAll /\ (~spoiled => OneAdopts /\ OneOfEach /\ IsMirror /\ \A o \in Op : AdoptStands(o))

\* Once it is mirrored it is what the property asks for.
LEMMA MirrorIs == MaterialTypes /\ BundleIsMirrored => MirrorsBundle
<1> SUFFICES ASSUME MaterialTypes, BundleIsMirrored, mirror, ~spoiled
             PROVE  \E t \in Existing :
                       /\ References = {t}
                       /\ \A m \in Member :
                             {f.content : f \in {g \in tickets[t].files : g.member = m}}
                                 = (IF bundle[m] = 0 THEN {} ELSE {bundle[m]})
                       /\ Cardinality(tickets[t].files) = Cardinality(InBundle)
  BY DEF MirrorsBundle
<1>1. PICK t \in References : References = {t} /\ Mirrored(t)
  BY DEF BundleIsMirrored, IsMirror, OneAdopts
<1>2. ASSUME NEW m \in Member
      PROVE  {f.content : f \in {g \in tickets[t].files : g.member = m}}
                 = (IF bundle[m] = 0 THEN {} ELSE {bundle[m]})
  <2>1. CASE bundle[m] = 0
    <3>1. {g \in tickets[t].files : g.member = m} = {}
      BY <1>1, <2>1 DEF Mirrored, InBundle
    <3> QED
      BY <2>1, <3>1
  <2>2. CASE bundle[m] # 0
    <3>1. PICK f \in tickets[t].files : f.member = m
      BY <1>1, <2>2 DEF Mirrored, InBundle
    <3>2. \A g \in tickets[t].files : g.member = m => g.content = bundle[m]
      BY <1>1 DEF Mirrored
    <3> QED
      BY <2>2, <3>1, <3>2
  <2> QED
    BY <2>1, <2>2
<1>3. Cardinality(tickets[t].files) = Cardinality(InBundle)
  <2> DEFINE files == tickets[t].files
             of == [m \in InBundle |-> CHOOSE f \in files : f.member = m]
  <2>1. \A m \in InBundle : of[m] \in files /\ of[m].member = m
    BY <1>1 DEF Mirrored
  <2>2. of \in [InBundle -> files]
    BY <2>1
  <2>3. \A f \in files : f.member \in InBundle /\ of[f.member] = f
    BY <1>1, <2>1 DEF Mirrored, Single
  <2> HIDE DEF of, files
  <2>4. of \in Bijection(InBundle, files)
    <3>1. \A a, b \in InBundle : of[a] = of[b] => a = b
      BY <2>1
    <3>2. \A f \in files : \E m \in InBundle : of[m] = f
      BY <2>3
    <3> QED
      BY <2>2, <3>1, <3>2 DEF Bijection, Injection, Surjection, IsInjective
  <2>5. ExistsBijection(InBundle, files)
    BY <2>4 DEF ExistsBijection
  <2>6. IsFiniteSet(InBundle)
    <3>1. IsFiniteSet(Member)
      BY FS_Interval, BoundsAreNat DEF Member
    <3>2. InBundle \subseteq Member
      BY DEF InBundle
    <3> QED
      BY <3>1, <3>2, FS_Subset
  <2> QED
    BY <2>5, <2>6, FS_Bijection DEF files
<1> QED
  BY <1>1, <1>2, <1>3 DEF References

\* At the start there is nothing to mirror.
LEMMA StartMirrored == MaterialInit => BundleIsMirrored
<1> SUFFICES ASSUME MaterialInit PROVE BundleIsMirrored
  OBVIOUS
<1>1. /\ \A o \in Op : op[o] = Idle
      /\ tickets = [t \in TicketUid |-> None] /\ ~mirror
  BY DEF MaterialInit
<1>2. References = {} /\ Adopting = {}
  BY <1>1, IdleIs DEF References, Existing, Adopting
<1>3. \A o \in Op : AdoptStands(o)
  BY <1>1, <1>2, IdleIs DEF AdoptStands, SyncSteps
<1> QED
  BY <1>1, <1>2, <1>3 DEF BundleIsMirrored, ListsAll, OneAdopts, OneOfEach, IsMirror

\* A request that stays where it is, and all that it looks at.
LEMMA StandsStill ==
    ASSUME NEW p \in Op, op'[p].pc = op[p].pc, Same(p), op'[p].fresh = op[p].fresh,
           bundle' = bundle, tickets'[op[p].ticket].files = tickets[op[p].ticket].files
    PROVE  SyncStands(p)' <=> SyncStands(p)
<1>1. /\ op'[p].ticket = op[p].ticket /\ op'[p].held = op[p].held /\ op'[p].todo = op[p].todo
      /\ op'[p].listed = op[p].listed /\ op'[p].got = op[p].got
  BY DEF Same
<1>2. NextMember(p)' = NextMember(p)
  BY <1>1 DEF NextMember
<1>3. \A f : Newer(p, f)' <=> Newer(p, f)
  BY <1>1, <1>2 DEF Newer
<1> QED
  BY <1>1, <1>2, <1>3 DEF SyncStands

\* What is no adoption's step leaves the mirror, and every adoption, as they are.
LEMMA MirrorStays ==
    ASSUME MaterialTypes, MaterialTypes', BundleIsMirrored,
           UNCHANGED <<bundle, mirror>>, spoiled => spoiled', References' = References,
           \A t \in References : tickets'[t].files = tickets[t].files,
           \A p \in Op : op'[p].job = "adopt" =>
               /\ op[p].job = "adopt" /\ Same(p) /\ op'[p].fresh = op[p].fresh
               /\ op'[p].pc = op[p].pc \/ op'[p].pc \notin {"upsert"} \cup SyncSteps,
           \A p \in Op : op[p].pc = "detachMember" => op'[p].pc = "detachMember" \/ spoiled'
    PROVE  BundleIsMirrored'
<1>1. InBundle' = InBundle /\ Adopting' \subseteq Adopting
  BY DEF InBundle, Adopting
<1>2. \A p \in Adopting' : op'[p].fresh = op[p].fresh /\ op'[p].listed = op[p].listed
  BY DEF Adopting, Same
<1>3. ListsAll'
  BY <1>1, <1>2 DEF BundleIsMirrored, ListsAll
<1>4. ASSUME ~spoiled' PROVE OneAdopts' /\ OneOfEach' /\ IsMirror' /\ \A o \in Op : AdoptStands(o)'
  <2>0. OneAdopts /\ OneOfEach /\ IsMirror /\ \A o \in Op : AdoptStands(o)
    BY <1>4 DEF BundleIsMirrored
  <2>1. OneAdopts'
    BY <1>1, <2>0 DEF OneAdopts
  <2>2. OneOfEach'
    BY <1>4, <2>0 DEF OneOfEach
  <2>3. IsMirror'
    <3>1. ASSUME NEW t \in References PROVE Mirrored(t)' <=> Mirrored(t)
      BY <1>1 DEF Mirrored
    <3>2. \A p \in Adopting' : op'[p].pc = op[p].pc \/ op'[p].pc \notin {"attachMember", "detachMember"}
      BY DEF Adopting, SyncSteps
    <3> QED
      BY <1>1, <1>2, <2>0, <3>1, <3>2 DEF IsMirror
  <2>4. ASSUME NEW p \in Op PROVE AdoptStands(p)'
    <3>1. CASE op'[p].pc \notin {"upsert"} \cup SyncSteps
      BY <3>1 DEF AdoptStands
    <3>2. CASE op'[p].pc \in {"upsert"} \cup SyncSteps
      <4>1. op'[p].job = "adopt"
        BY <3>2 DEF MaterialTypes, OpStands, AdoptSteps
      <4>2. op'[p].pc = op[p].pc /\ Same(p) /\ op'[p].fresh = op[p].fresh /\ AdoptStands(p)
        BY <2>0, <3>2, <4>1
      <4>3. CASE op[p].pc = "upsert"
        BY <4>2, <4>3 DEF AdoptStands, Same, SyncSteps
      <4>4. CASE op[p].pc \in SyncSteps
        <5>1. op[p].ticket \in References
          BY <4>4 DEF MaterialTypes, OpStands
        <5>2. SyncStands(p)'
          BY <4>2, <4>4, <5>1, StandsStill DEF AdoptStands
        <5> QED
          BY <4>2, <4>4, <5>2 DEF AdoptStands, SyncSteps
      <4> QED
        BY <3>2, <4>2, <4>3, <4>4
    <3> QED
      BY <3>1, <3>2
  <2> QED
    BY <2>1, <2>2, <2>3, <2>4
<1> QED
  BY <1>3, <1>4 DEF BundleIsMirrored

\* An adoption's step, where nobody else adopts, is what it makes of its own.
LEMMA MirrorMoves ==
    ASSUME MaterialTypes, MaterialTypes', BundleIsMirrored, NEW o \in Op, OthersAlike(o),
           op[o].job = "adopt", bundle' = bundle, spoiled' = spoiled,
           op'[o].listed = op[o].listed, op'[o].fresh = op[o].fresh,
           ~spoiled => /\ \A t, u \in References' : t = u
                       /\ OneOfEach' /\ AdoptStands(o)'
                       /\ mirror' => /\ References' # {} /\ \A t \in References' : Mirrored(t)'
                                     /\ op'[o].fresh /\ op'[o].pc \notin {"attachMember", "detachMember"}
    PROVE  BundleIsMirrored'
<1>1. InBundle' = InBundle /\ Adopting' \subseteq Adopting /\ o \in Adopting
  BY DEF InBundle, Adopting, OthersAlike, Alike, Same
<1>2. \A p \in Op : op'[p].fresh = op[p].fresh /\ op'[p].listed = op[p].listed
  BY DEF OthersAlike, Alike, Same
<1>3. ListsAll'
  BY <1>1, <1>2 DEF BundleIsMirrored, ListsAll, Adopting
<1>4. ASSUME ~spoiled' PROVE OneAdopts' /\ OneOfEach' /\ IsMirror' /\ \A p \in Op : AdoptStands(p)'
  <2>1. Adopting' \subseteq {o} /\ Adopting = {o}
    BY <1>1, <1>4 DEF BundleIsMirrored, OneAdopts
  <2>2. OneAdopts'
    BY <1>4, <2>1 DEF OneAdopts
  <2>3. IsMirror'
    BY <1>4, <2>1 DEF IsMirror
  <2>4. ASSUME NEW p \in Op \ {o} PROVE AdoptStands(p)'
    <3>1. p \notin Adopting'
      BY <2>1
    <3>2. op'[p].pc \notin AdoptSteps
      BY <3>1 DEF MaterialTypes, OpStands, Adopting
    <3> QED
      BY <3>2 DEF AdoptStands, AdoptSteps
  <2> QED
    BY <1>4, <2>2, <2>3, <2>4
<1> QED
  BY <1>3, <1>4 DEF BundleIsMirrored

\* Requests that do not adopt, refreshes, and whatever stops.
LEMMA OthersMirrored ==
    ASSUME MaterialTypes, BundleIsMirrored, NEW o \in Op, Step(o), ~Syncing(o),
           ~(Adopt(o) \/ FindByBundle(o) \/ Upsert(o) \/ ListAttachments(o))
    PROVE  BundleIsMirrored'
<1>0. /\ MaterialTypes' /\ OthersAlike(o) /\ \A t \in References : tickets'[t].files = tickets[t].files
      /\ OpStands(o) /\ OpStands(o)'
  <2>1. MaterialTypes' /\ OthersAlike(o)
    BY StepTypes, StepSays DEF MaterialNext
  <2> QED
    BY <2>1, FilesStay DEF MaterialTypes
<1> DEFINE Left == /\ UNCHANGED <<bundle, mirror>> /\ (spoiled => spoiled') /\ References' = References
                   /\ op'[o].job = "adopt" =>
                         Same(o) /\ op'[o].fresh = op[o].fresh /\ op'[o].pc \notin {"upsert"} \cup SyncSteps
                   /\ op[o].pc = "detachMember" => spoiled'
<1>1. ASSUME Upload(o) \/ Create(o) \/ Revise(o) PROVE Left
  <2>1. UNCHANGED <<bundle, mirror, spoiled>> /\ op[o].pc \in {"idle", "create"}
    BY <1>1 DEF Upload, Revise, Create, Start, history
  <2>2. op'[o].pc \in {"create", "update", "attach"}
    BY <1>1, UploadIs, ReviseIs, CreateIs
  <2>3. op'[o].job # "adopt"
    BY <1>0, <2>2 DEF OpStands, UploadSteps
  <2>4. References' = References
    <3>1. CASE Upload(o) \/ Revise(o)
      BY <3>1 DEF Upload, Revise, References, Existing
    <3> QED
      BY <1>1, <3>1, CreateIs
  <2> QED
    BY <2>1, <2>3, <2>4
<1>2. ASSUME Attach(o) \/ Comment(o) PROVE Left
  <2>1. UNCHANGED <<bundle, mirror, spoiled>> /\ References' = References
    BY <1>2, AttachIs, CommentIs DEF Attach, Comment, history
  <2>2. op[o].pc \in {"attach", "comment"} /\ Same(o)
    BY <1>2, AttachIs, CommentIs
  <2>3. op'[o].job # "adopt"
    BY <1>0, <2>2 DEF OpStands, UploadSteps, Same
  <2> QED
    BY <2>1, <2>2, <2>3
<1>3. ASSUME ReadIndex(o) \/ WriteIndex(o) \/ ReadTexts(o) \/ ReadChunks(o) PROVE Left
  <2>1. UNCHANGED <<bundle, mirror, spoiled>>
    BY <1>3 DEF ReadIndex, WriteIndex, ReadTexts, ReadChunks, history
  <2>2. /\ References' = References /\ Same(o) /\ op'[o].fresh = op[o].fresh
        /\ op'[o].pc \in {"writeIndex", "readTexts", "readChunks", "writeChunks"}
        /\ op[o].pc \in {"readIndex", "writeIndex", "readTexts", "readChunks"}
    BY <1>3, ReadIndexIs, WriteIndexIs, ReadTextsIs, ReadChunksIs
  <2> QED
    BY <2>1, <2>2 DEF SyncSteps
<1>4. ASSUME WriteChunks(o) \/ FindName(o) \/ CheckName(o) \/ WriteAsset(o) PROVE Left
  <2>1. UNCHANGED <<bundle, mirror, spoiled>>
    BY <1>4 DEF WriteChunks, FindName, CheckName, WriteAsset, history
  <2>2. /\ References' = References
        /\ op'[o].pc \in {"idle", "name", "check", "write", "place"}
        /\ op[o].pc \in {"writeChunks", "name", "check", "write"}
    BY <1>4, WriteChunksIs, FindNameIs, CheckNameIs, WriteAssetIs
  <2>3. op'[o].job # "adopt"
    BY <1>0, <2>2 DEF OpStands, UploadSteps
  <2> QED
    BY <2>1, <2>2, <2>3
<1>5. ASSUME RecordPlacement(o) \/ Update(o) PROVE Left
  <2>1. UNCHANGED <<bundle, mirror, spoiled>>
    BY <1>5 DEF RecordPlacement, Update, history
  <2>2. /\ References' = References /\ op[o].pc \in {"place", "update"} /\ op'[o].job # "adopt"
    BY <1>5, RecordPlacementIs, UpdateIs, IdleIs
  <2> QED
    BY <2>1, <2>2
<1>6. ASSUME Stop(o) PROVE Left
  <2>1. UNCHANGED <<bundle, mirror>> /\ (spoiled => spoiled') /\ (op[o].pc = "detachMember" => spoiled')
    BY <1>6 DEF Stop
  <2>2. References' = References /\ op'[o].job # "adopt"
    BY <1>6, StopIs, IdleIs
  <2> QED
    BY <2>1, <2>2
<1>7. Left
  BY <1>1, <1>2, <1>3, <1>4, <1>5, <1>6 DEF Step, Syncing
<1>8. ASSUME NEW p \in Op
      PROVE  /\ op'[p].job = "adopt" =>
                   /\ op[p].job = "adopt" /\ Same(p) /\ op'[p].fresh = op[p].fresh
                   /\ op'[p].pc = op[p].pc \/ op'[p].pc \notin {"upsert"} \cup SyncSteps
             /\ op[p].pc = "detachMember" => op'[p].pc = "detachMember" \/ spoiled'
  <2>1. CASE p = o
    BY <1>7, <2>1 DEF Same
  <2>2. CASE p # o
    <3>1. op'[p].pc = op[p].pc /\ Same(p) /\ op'[p].fresh = op[p].fresh
      BY <1>0, <2>2 DEF OthersAlike, Alike
    <3> QED
      BY <3>1 DEF Same
  <2> QED
    BY <2>1, <2>2
<1> QED
  BY <1>0, <1>7, <1>8, MirrorStays

\* A capture: nothing is a mirror any more, and no adoption has seen it all.
LEMMA CaptureMirrored ==
    ASSUME MaterialTypes, BundleIsMirrored, Capture PROVE BundleIsMirrored'
<1>1. /\ MaterialTypes' /\ References' = References /\ UNCHANGED <<tickets, spoiled>> /\ mirror' = FALSE
      /\ \A p \in Op : Alike(p) /\ (op[p].job = "adopt" => ~op'[p].fresh)
  BY CaptureIs DEF Capture
<1>2. Adopting' = Adopting
  BY <1>1 DEF Adopting, Alike, Same
<1>3. ListsAll'
  BY <1>1, <1>2 DEF ListsAll, Adopting
<1>4. ASSUME ~spoiled', NEW p \in Op PROVE AdoptStands(p)'
  <2>1. /\ AdoptStands(p) /\ op'[p].pc = op[p].pc /\ op'[p].ticket = op[p].ticket /\ op'[p].held = op[p].held
        /\ op'[p].todo = op[p].todo /\ op'[p].listed = op[p].listed /\ op'[p].got = op[p].got
    BY <1>1, <1>4 DEF BundleIsMirrored, Alike, Same
  <2>2. ASSUME op[p].pc \in SyncSteps PROVE SyncStands(p)'
    <3>1. SyncStands(p) /\ ~op'[p].fresh
      BY <1>1, <2>1, <2>2 DEF AdoptStands, MaterialTypes, OpStands, AdoptSteps
    <3>2. NextMember(p)' = NextMember(p)
      BY <2>1 DEF NextMember
    <3>3. \A f : Newer(p, f)' <=> Newer(p, f)
      BY <2>1, <3>2 DEF Newer
    <3> QED
      BY <1>1, <2>1, <3>1, <3>2, <3>3 DEF SyncStands
  <2> QED
    BY <1>1, <2>1, <2>2 DEF AdoptStands
<1>5. ASSUME ~spoiled' PROVE OneAdopts' /\ OneOfEach' /\ IsMirror'
  <2>1. OneAdopts /\ OneOfEach
    BY <1>1, <1>5 DEF BundleIsMirrored
  <2>2. OneAdopts'
    BY <1>1, <1>2, <2>1 DEF OneAdopts
  <2>3. OneOfEach'
    BY <1>1, <2>1 DEF OneOfEach, Alike
  <2> QED
    BY <1>1, <2>2, <2>3 DEF IsMirror
<1> QED
  BY <1>3, <1>4, <1>5 DEF BundleIsMirrored

\* What no request does leaves the mirror, or ends it.
LEMMA OutsideMirrored ==
    ASSUME MaterialTypes, BundleIsMirrored, Capture \/ RemoveAsset \/ UNCHANGED materialVars
    PROVE  BundleIsMirrored'
<1>1. CASE RemoveAsset \/ UNCHANGED materialVars
  <2>1. UNCHANGED <<tickets, bundle, mirror, spoiled, op>>
    BY <1>1 DEF RemoveAsset, materialVars
  <2>2. MaterialTypes'
    BY <1>1, RemoveAssetIs, TypesStutter
  <2>3. References' = References /\ \A p \in Op : Same(p)
    BY <2>1 DEF References, Existing, Same
  <2> QED
    BY <2>1, <2>2, <2>3, MirrorStays
<1> QED
  BY <1>1, CaptureMirrored

\* An adoption begins: where another is under way the mirror is not spoken of.
LEMMA AdoptMirrored ==
    ASSUME MaterialTypes, BundleIsMirrored, NEW o \in Op, Adopt(o) PROVE BundleIsMirrored'
<1>1. /\ MaterialTypes' /\ References' = References /\ Only(o) /\ op[o] = Idle
      /\ op'[o].pc = "find" /\ op'[o].job = "adopt" /\ op'[o].listed = InBundle /\ op'[o].fresh
  BY AdoptIs
<1>2. UNCHANGED <<tickets, bundle, mirror>> /\ spoiled' = (spoiled \/ Adopting # {})
  BY DEF Adopt
<1>3. InBundle' = InBundle /\ Adopting' = Adopting \cup {o}
  BY <1>1, <1>2, IdleIs DEF InBundle, Adopting, Only
<1>4. ListsAll'
  BY <1>1, <1>3, IdleIs DEF BundleIsMirrored, ListsAll, Adopting, Only
<1>5. ASSUME ~spoiled' PROVE OneAdopts' /\ OneOfEach' /\ IsMirror' /\ \A p \in Op : AdoptStands(p)'
  <2>1. Adopting = {} /\ ~spoiled
    BY <1>2, <1>5
  <2>2. OneAdopts /\ OneOfEach /\ IsMirror
    BY <2>1 DEF BundleIsMirrored
  <2>3. \A p \in Op : op'[p].pc \notin {"upsert"} \cup SyncSteps /\ op[p].pc # "detachMember"
    <3>1. \A p \in Op \ {o} : op'[p].pc = op[p].pc /\ op[p].job # "adopt"
      BY <1>1, <2>1 DEF Only, Adopting
    <3>2. \A p \in Op \ {o} : op[p].pc \notin {"upsert"} \cup SyncSteps
      BY <3>1 DEF MaterialTypes, OpStands, AdoptSteps
    <3> QED
      BY <1>1, <3>1, <3>2, IdleIs DEF SyncSteps
  <2>4. OneAdopts'
    BY <1>1, <1>3, <2>1, <2>2 DEF OneAdopts
  <2>5. OneOfEach'
    BY <1>1, <1>2, <2>2, <2>3 DEF OneOfEach
  <2>6. IsMirror'
    <3>1. ASSUME NEW t \in References PROVE Mirrored(t)' <=> Mirrored(t)
      BY <1>2, <1>3 DEF Mirrored
    <3> QED
      BY <1>1, <1>2, <1>3, <2>1, <2>2, <3>1 DEF IsMirror
  <2> QED
    BY <2>3, <2>4, <2>5, <2>6 DEF AdoptStands
<1> QED
  BY <1>4, <1>5 DEF BundleIsMirrored

\* The one that adopts knows all of that of itself.
LEMMA AloneIs ==
    ASSUME MaterialTypes, BundleIsMirrored, ~spoiled, NEW o \in Op, op[o].job = "adopt"
    PROVE  /\ \A t, u \in References : t = u
           /\ AdoptStands(o) /\ OneOfEach
           /\ op[o].fresh => op[o].listed = InBundle
           /\ \A p \in Op \ {o} : op[p].pc \notin AdoptSteps
           /\ op[o].pc # "detachMember" => \A t \in References : Single(tickets[t].files)
           /\ mirror => /\ References # {} /\ \A t \in References : Mirrored(t)
                        /\ op[o].fresh /\ op[o].pc \notin {"attachMember", "detachMember"}
<1>1. ListsAll /\ OneAdopts /\ OneOfEach /\ IsMirror /\ AdoptStands(o)
  BY DEF BundleIsMirrored
<1>2. o \in Adopting
  BY DEF Adopting
<1>3. \A p \in Op \ {o} : op[p].pc \notin AdoptSteps
  BY <1>1, <1>2 DEF OneAdopts, Adopting, MaterialTypes, OpStands
<1>4. op[o].pc # "detachMember" => \A p \in Op : op[p].pc # "detachMember"
  BY <1>3 DEF AdoptSteps, SyncSteps
<1> QED
  BY <1>1, <1>2, <1>3, <1>4 DEF ListsAll, OneAdopts, OneOfEach, IsMirror

\* A reference that is untouched is as much a mirror as it was.
LEMMA FindMirrored ==
    ASSUME MaterialTypes, BundleIsMirrored, NEW o \in Op, FindByBundle(o) PROVE BundleIsMirrored'
<1>1. /\ MaterialTypes' /\ Only(o) /\ References' = References /\ op[o].job = "adopt"
      /\ op[o].pc = "find" /\ op'[o].pc = "upsert" /\ op'[o].ticket \in Found
      /\ op'[o].listed = op[o].listed /\ op'[o].fresh = op[o].fresh
  BY FindByBundleIs
<1>2. UNCHANGED <<tickets, bundle, mirror, spoiled>>
  BY DEF FindByBundle, history
<1>3. OthersAlike(o)
  BY <1>1 DEF Only, OthersAlike, Alike, Same
<1>4. ASSUME ~spoiled
      PROVE  /\ \A t, u \in References' : t = u
             /\ OneOfEach' /\ AdoptStands(o)'
             /\ mirror' => /\ References' # {} /\ \A t \in References' : Mirrored(t)'
                           /\ op'[o].fresh /\ op'[o].pc \notin {"attachMember", "detachMember"}
  <2>1. /\ \A t, u \in References : t = u
        /\ \A t \in References : Single(tickets[t].files)
        /\ mirror => References # {} /\ (\A t \in References : Mirrored(t)) /\ op[o].fresh
    BY <1>1, <1>4, AloneIs
  <2>2. AdoptStands(o)'
    <3>1. op'[o].ticket = None => References = {}
      BY <1>1, NoneIsNoTicket DEF Found, References, Existing
    <3> QED
      BY <1>1, <3>1 DEF AdoptStands, SyncSteps
  <2>3. ASSUME NEW t \in References PROVE Mirrored(t)' <=> Mirrored(t)
    BY <1>2 DEF Mirrored, InBundle
  <2> QED
    BY <1>1, <1>2, <2>1, <2>2, <2>3 DEF OneOfEach
<1> QED
  BY <1>1, <1>2, <1>3, <1>4, MirrorMoves

\* A new reference is the first, and holds nothing; an old one keeps its attachments.
LEMMA UpsertMirrored ==
    ASSUME MaterialTypes, BundleIsMirrored, NEW o \in Op, Upsert(o) PROVE BundleIsMirrored'
<1>1. /\ MaterialTypes' /\ OthersAlike(o) /\ op[o].job = "adopt"
      /\ op[o].pc = "upsert" /\ op'[o].pc = "listing"
      /\ op'[o].listed = op[o].listed /\ op'[o].fresh = op[o].fresh
  BY UpsertIs
<1>2. UNCHANGED <<bundle, mirror, spoiled>>
  BY DEF Upsert
<1>3. PICK t \in TicketUid :
         /\ References' = References \cup {t}
         /\ \A u \in TicketUid \ {t} : tickets'[u] = tickets[u]
         /\ IF op[o].ticket = None
            THEN t \notin Existing /\ tickets'[t].files = {}
            ELSE t \in References /\ tickets'[t] = [tickets[t] EXCEPT !.body = @ + 1, !.stamp = @ + 1]
  BY UpsertIs
<1>4. ASSUME ~spoiled
      PROVE  /\ \A u, v \in References' : u = v
             /\ OneOfEach' /\ AdoptStands(o)'
             /\ mirror' => /\ References' # {} /\ \A u \in References' : Mirrored(u)'
                           /\ op'[o].fresh /\ op'[o].pc \notin {"attachMember", "detachMember"}
  <2>1. /\ \A u, v \in References : u = v
        /\ AdoptStands(o)
        /\ \A u \in References : Single(tickets[u].files)
        /\ mirror => References # {} /\ (\A u \in References : Mirrored(u)) /\ op[o].fresh
    BY <1>1, <1>4, AloneIs
  <2>2. AdoptStands(o)'
    BY <1>1 DEF AdoptStands, SyncSteps
  <2>3. CASE op[o].ticket = None
    <3>1. References = {} /\ References' = {t} /\ tickets'[t].files = {}
      BY <1>1, <1>3, <2>1, <2>3 DEF AdoptStands
    <3>2. OneOfEach'
      BY <3>1 DEF OneOfEach, Single
    <3> QED
      BY <1>2, <2>1, <2>2, <3>1, <3>2
  <2>4. CASE op[o].ticket # None
    <3>1. References' = References /\ t \in References
      BY <1>3, <2>4
    <3>2. \A u \in References : u \in TicketUid /\ tickets[u] \in Ticket
      BY NowIs DEF TicketsHold, References, Existing
    <3>3. \A u \in References : tickets'[u].files = tickets[u].files
      BY <1>3, <2>4, <3>2 DEF Ticket
    <3>4. ASSUME NEW u \in References PROVE Mirrored(u)' <=> Mirrored(u)
      BY <1>2, <3>3 DEF Mirrored, InBundle
    <3>5. OneOfEach'
      BY <2>1, <3>1, <3>3 DEF OneOfEach
    <3> QED
      BY <1>1, <1>2, <2>1, <2>2, <3>1, <3>4, <3>5
  <2> QED
    BY <2>3, <2>4
<1> QED
  BY <1>1, <1>2, <1>4, MirrorMoves

\* A step at the members, of the one reference there is.
LEMMA SyncMoves ==
    ASSUME MaterialTypes, MaterialTypes', BundleIsMirrored, NEW o \in Op, Only(o),
           op[o].job = "adopt", op[o].ticket \in References, References' = References,
           op'[o].ticket = op[o].ticket, op'[o].listed = op[o].listed, op'[o].fresh = op[o].fresh,
           UNCHANGED <<bundle, spoiled>>, op'[o].pc \in {"readIndex"} \cup SyncSteps,
           ~spoiled => /\ op'[o].pc \in SyncSteps => SyncStands(o)'
                       /\ op'[o].pc = "readIndex" => Single(tickets'[op[o].ticket].files)
                       /\ mirror' => /\ \A t \in References : Mirrored(t)'
                                     /\ op'[o].fresh /\ op'[o].pc \notin {"attachMember", "detachMember"}
    PROVE  BundleIsMirrored'
<1>1. OthersAlike(o)
  BY DEF Only, OthersAlike, Alike, Same
<1>2. ASSUME ~spoiled
      PROVE  /\ \A t, u \in References' : t = u
             /\ OneOfEach' /\ AdoptStands(o)'
             /\ mirror' => /\ References' # {} /\ \A t \in References' : Mirrored(t)'
                           /\ op'[o].fresh /\ op'[o].pc \notin {"attachMember", "detachMember"}
  <2>1. \A t, u \in References : t = u
    BY <1>2, AloneIs
  <2>2. AdoptStands(o)'
    BY <1>2 DEF AdoptStands, SyncSteps
  <2>3. OneOfEach'
    <3>1. ASSUME op'[o].pc # "detachMember" PROVE Single(tickets'[op[o].ticket].files)
      <4>1. CASE op'[o].pc = "readIndex"
        BY <1>2, <4>1
      <4>2. CASE op'[o].pc \in SyncSteps
        <5>1. SyncStands(o)' /\ \A f : ~Newer(o, f)'
          BY <1>2, <3>1, <4>2 DEF Newer
        <5> QED
          BY <5>1 DEF SyncStands, Single
      <4> QED
        BY <4>1, <4>2
    <3> QED
      BY <2>1, <3>1 DEF OneOfEach
  <2> QED
    BY <1>2, <2>1, <2>2, <2>3
<1> QED
  BY <1>1, <1>2, MirrorMoves

\* With one record of each member, the listing holds them all.
LEMMA AllAreHeld ==
    ASSUME NEW t, Single(tickets[t].files), NEW S \in Held(t) PROVE S = tickets[t].files
<1>1. /\ S \subseteq tickets[t].files
      /\ \A m \in MembersOf(t) : Cardinality({f \in S : f.member = m}) = 1
  BY DEF Held
<1>2. ASSUME NEW f \in tickets[t].files PROVE f \in S
  <2>1. Cardinality({g \in S : g.member = f.member}) = 1
    BY <1>1 DEF MembersOf
  <2>2. {g \in S : g.member = f.member} # {}
    BY <2>1, FS_EmptySet
  <2>3. PICK g \in S : g.member = f.member
    BY <2>2
  <2> QED
    BY <1>1, <2>3 DEF Single
<1> QED
  BY <1>1, <1>2

\* What the adoption knows when it is at its members, the parts of it named.
LEMMA SyncKnows ==
    ASSUME MaterialTypes, MembersAreKept, BundleIsMirrored, ~spoiled, NEW o \in Op, op[o].pc \in SyncSteps
    PROVE  LET files == tickets[op[o].ticket].files
               m == NextMember(o)
           IN
           /\ op[o].job = "adopt" /\ op[o].ticket \in References /\ \A t \in References : t = op[o].ticket
           /\ op[o].ticket \in TicketUid /\ tickets[op[o].ticket] \in Ticket
           /\ op[o].todo \subseteq op[o].listed /\ op[o].held \subseteq files
           /\ \A f \in op[o].held : f.member \in op[o].todo \/ f.member \notin op[o].listed
           /\ \A f \in files : f.member \in op[o].todo \/ f.member \notin op[o].listed =>
                  f \in op[o].held \/ Newer(o, f)
           /\ \A k \in op[o].listed \ op[o].todo :
                  \E f \in files : f.member = k /\ (op[o].fresh => f.content = bundle[k])
           /\ op[o].pc \in {"attachMember", "detachMember"} /\ op[o].fresh => op[o].got = bundle[m]
           /\ op[o].pc = "detachMember" => \E f \in files : Newer(o, f) /\ f \notin op[o].held
           /\ \A f, g \in files : f.member = g.member =>
                  f = g \/ (f \in op[o].held /\ Newer(o, g)) \/ (g \in op[o].held /\ Newer(o, f))
           /\ op[o].pc # "detachMember" => \A f : ~Newer(o, f)
           /\ op[o].fresh => op[o].listed = InBundle
           /\ mirror => /\ Mirrored(op[o].ticket) /\ op[o].fresh
                        /\ op[o].pc \notin {"attachMember", "detachMember"}
<1>1. /\ op[o].job = "adopt" /\ op[o].ticket \in References
      /\ op[o].ticket \in TicketUid /\ tickets[op[o].ticket] \in Ticket /\ op[o].todo \subseteq op[o].listed
  BY SyncIs DEF OpStands
<1>2. SyncStands(o)
  BY <1>1, AloneIs DEF AdoptStands
<1>3. HeldIsLeft(o)
  BY DEF MembersAreKept
<1>4. /\ \A t \in References : t = op[o].ticket
      /\ op[o].fresh => op[o].listed = InBundle
      /\ mirror => /\ Mirrored(op[o].ticket) /\ op[o].fresh
                   /\ op[o].pc \notin {"attachMember", "detachMember"}
  BY <1>1, AloneIs
<1>5. op[o].pc # "detachMember" => \A f : ~Newer(o, f)
  BY DEF Newer
<1> QED
  BY <1>1, <1>2, <1>3, <1>4, <1>5 DEF SyncStands, HeldIsLeft

\* The listing has one of each, so it holds them all.
LEMMA ListMirrored ==
    ASSUME MaterialTypes, BundleIsMirrored, NEW o \in Op, ListAttachments(o) PROVE BundleIsMirrored'
<1> DEFINE t == op[o].ticket
           files == tickets[t].files
<1>1. /\ MaterialTypes' /\ Only(o) /\ References' = References
      /\ op[o].pc = "listing" /\ op'[o].pc = "member" /\ op'[o].held \in Held(t) /\ t \in References
      /\ op'[o].ticket = t /\ op'[o].listed = op[o].listed
      /\ op'[o].todo = op'[o].listed /\ op'[o].fresh = op[o].fresh
  BY ListAttachmentsIs
<1>2. UNCHANGED <<tickets, bundle, mirror, spoiled>> /\ op[o].job = "adopt"
  BY <1>1, SyncIs DEF ListAttachments, history
<1>3. ASSUME ~spoiled
      PROVE  /\ SyncStands(o)'
             /\ mirror' => (\A u \in References : Mirrored(u)') /\ op'[o].fresh
  <2>1. Single(files) /\ (mirror => (\A u \in References : Mirrored(u)) /\ op[o].fresh)
    BY <1>1, <1>2, <1>3, AloneIs
  <2>2. op'[o].held = files
    BY <1>1, <2>1, AllAreHeld
  <2>3. SyncStands(o)'
    <3>1. tickets'[op'[o].ticket].files = files
      BY <1>1, <1>2
    <3> HIDE DEF files
    <3> QED
      BY <1>1, <2>1, <2>2, <3>1 DEF SyncStands, Single
  <2>4. ASSUME NEW u \in References PROVE Mirrored(u)' <=> Mirrored(u)
    BY <1>2 DEF Mirrored, InBundle
  <2> QED
    BY <1>1, <1>2, <2>1, <2>3, <2>4
<1> QED
  BY <1>1, <1>2, <1>3, SyncMoves DEF SyncSteps

\* Bytes that have not changed are passed by, and in a mirror none has.
LEMMA ReadMirrored ==
    ASSUME MaterialTypes, MembersAreKept, BundleIsMirrored, NEW o \in Op, ReadMember(o)
    PROVE  BundleIsMirrored'
<1> DEFINE t == op[o].ticket
           files == tickets[t].files
           m == NextMember(o)
<1>1. /\ MaterialTypes' /\ Only(o) /\ References' = References
      /\ op[o].pc = "member" /\ t \in References /\ m \in op[o].todo /\ m \in InBundle
      /\ op'[o].ticket = t /\ op'[o].listed = op[o].listed /\ op'[o].fresh = op[o].fresh
      /\ \/ /\ \E f \in Previous(o, m) : f.content = bundle[m]
            /\ op'[o].pc = "member" /\ op'[o].todo = op[o].todo \ {m}
            /\ op'[o].held = op[o].held \ Previous(o, m)
         \/ /\ \A f \in Previous(o, m) : f.content # bundle[m]
            /\ op'[o].pc = "attachMember" /\ op'[o].got = bundle[m]
            /\ op'[o].todo = op[o].todo /\ op'[o].held = op[o].held
  BY ReadMemberIs
<1>2. UNCHANGED <<tickets, bundle, mirror, spoiled>> /\ op[o].job = "adopt"
  BY <1>1, SyncIs DEF ReadMember, history, SyncSteps
<1>3. ASSUME ~spoiled
      PROVE  /\ SyncStands(o)'
             /\ mirror' => (\A u \in References : Mirrored(u)') /\ op'[o].fresh /\ op'[o].pc = "member"
  <2>1. /\ \A u \in References : u = t
        /\ op[o].todo \subseteq op[o].listed /\ op[o].held \subseteq files
        /\ \A f \in files : f.member \in op[o].todo \/ f.member \notin op[o].listed => f \in op[o].held
        /\ \A k \in op[o].listed \ op[o].todo :
               \E f \in files : f.member = k /\ (op[o].fresh => f.content = bundle[k])
        /\ \A f, g \in files : f.member = g.member => f = g
        /\ mirror => Mirrored(t) /\ op[o].fresh
    BY <1>1, <1>3, SyncKnows DEF SyncSteps
  <2>2. tickets'[op'[o].ticket].files = files /\ bundle' = bundle
    BY <1>1, <1>2
  <2>3. Previous(o, m) = {f \in op[o].held : f.member = m}
    BY DEF Previous
  <2>4. CASE op'[o].pc = "member"
    <3>1. /\ \E f \in Previous(o, m) : f.content = bundle[m]
          /\ op'[o].todo = op[o].todo \ {m} /\ op'[o].held = op[o].held \ Previous(o, m)
      BY <1>1, <2>4
    <3>2. SyncStands(o)'
      <4> HIDE DEF files, m
      <4>1. op'[o].held \subseteq files
        BY <2>1, <3>1
      <4>2. \A f \in files : f.member \in op'[o].todo \/ f.member \notin op[o].listed => f \in op'[o].held
        BY <1>1, <2>1, <2>3, <3>1
      <4>3. \A k \in op[o].listed \ op'[o].todo :
               \E f \in files : f.member = k /\ (op[o].fresh => f.content = bundle[k])
        BY <2>1, <2>3, <3>1
      <4> QED
        BY <1>1, <2>1, <2>2, <2>4, <4>1, <4>2, <4>3 DEF SyncStands
    <3>3. ASSUME NEW u \in References PROVE Mirrored(u)' <=> Mirrored(u)
      BY <1>2 DEF Mirrored, InBundle
    <3> QED
      BY <1>1, <1>2, <2>1, <2>4, <3>2, <3>3
  <2>5. CASE op'[o].pc = "attachMember"
    <3>1. /\ \A f \in Previous(o, m) : f.content # bundle[m]
          /\ op'[o].todo = op[o].todo /\ op'[o].held = op[o].held /\ op'[o].got = bundle[m]
      BY <1>1, <2>5
    <3>2. ~mirror
      <4>1. ASSUME mirror PROVE FALSE
        <5>1. PICK f \in files : f.member = m /\ f.content = bundle[m]
          BY <1>1, <2>1, <4>1 DEF Mirrored
        <5>2. f \in Previous(o, m)
          BY <1>1, <2>1, <2>3, <5>1
        <5> QED
          BY <3>1, <5>1, <5>2
      <4> QED
        BY <4>1
    <3>3. NextMember(o)' = m
      BY <3>1 DEF NextMember
    <3>4. SyncStands(o)'
      <4> HIDE DEF files, m
      <4> QED
        BY <1>1, <2>1, <2>2, <2>5, <3>1, <3>3 DEF SyncStands
    <3> QED
      BY <1>2, <3>2, <3>4
  <2> QED
    BY <1>1, <2>4, <2>5
<1>4. op'[o].pc \in {"member", "attachMember"}
  BY <1>1
<1> QED
  BY <1>1, <1>2, <1>3, <1>4, SyncMoves DEF SyncSteps

\* Until it is detached, what is replaced is the only other record of its member.
LEMMA AttachMirrored ==
    ASSUME MaterialTypes, MembersAreKept, BundleIsMirrored, NEW o \in Op, AttachMember(o)
    PROVE  BundleIsMirrored'
<1> DEFINE t == op[o].ticket
           files == tickets[t].files
           m == NextMember(o)
<1>1. PICK f \in File :
      /\ MaterialTypes' /\ Only(o) /\ References' = References
      /\ op[o].pc = "attachMember" /\ t \in References /\ m \in op[o].todo
      /\ f.uid = made + 1 /\ f.member = m /\ f.content = op[o].got
      /\ tickets'[t] = [tickets[t] EXCEPT !.files = @ \cup {f}]
      /\ op'[o].ticket = t /\ op'[o].listed = op[o].listed
      /\ op'[o].fresh = op[o].fresh /\ op'[o].held = op[o].held
      /\ \/ /\ op'[o].pc = "detachMember" /\ op'[o].todo = op[o].todo /\ op'[o].got = op[o].got
         \/ Previous(o, m) = {} /\ op'[o].pc = "member" /\ op'[o].todo = op[o].todo \ {m}
  BY AttachMemberIs
<1>2. UNCHANGED <<bundle, mirror, spoiled>> /\ op[o].job = "adopt"
  BY <1>1, SyncIs DEF AttachMember, history, SyncSteps
<1>3. ASSUME ~spoiled PROVE SyncStands(o)' /\ ~mirror
  <2>1. /\ tickets[t] \in Ticket /\ ~mirror
        /\ op[o].todo \subseteq op[o].listed /\ op[o].held \subseteq files
        /\ \A g \in files : g.member \in op[o].todo \/ g.member \notin op[o].listed => g \in op[o].held
        /\ \A k \in op[o].listed \ op[o].todo :
               \E g \in files : g.member = k /\ (op[o].fresh => g.content = bundle[k])
        /\ op[o].fresh => op[o].got = bundle[m]
        /\ \A g, h \in files : g.member = h.member => g = h
    BY <1>1, <1>3, SyncKnows DEF SyncSteps
  <2>2. f \notin files
    <3>1. \A g \in files : g.uid <= made
      BY <1>1 DEF MaterialTypes, FilesAreMade, References
    <3>2. made \in Nat
      BY NowIs
    <3> QED
      BY <1>1, <3>1, <3>2
  <2>3. Previous(o, m) = {g \in op[o].held : g.member = m}
    BY DEF Previous
  <2> HIDE DEF m
  <2>4. tickets'[op'[o].ticket].files = files \cup {f} /\ bundle' = bundle
    BY <1>1, <1>2, <2>1 DEF Ticket
  <2> HIDE DEF files
  <2>5. op'[o].held \subseteq files \cup {f}
    BY <1>1, <2>1
  <2>6. CASE op'[o].pc = "detachMember"
    <3>1. op'[o].todo = op[o].todo /\ op'[o].got = op[o].got /\ NextMember(o)' = m
      BY <1>1, <2>6 DEF NextMember, m
    <3>2. Newer(o, f)'
      <4>1. op'[o].pc = "detachMember" /\ f.member = NextMember(o)' /\ f.content = op'[o].got
        BY <1>1, <2>6, <3>1
      <4>2. \A g : g.member = NextMember(o)' /\ g.content = op'[o].got => Newer(o, g)'
        BY <2>6 DEF Newer
      <4> QED
        BY <4>1, <4>2
    <3>3. \A g \in files \cup {f} :
             g.member \in op'[o].todo \/ g.member \notin op'[o].listed => g \in op'[o].held \/ Newer(o, g)'
      BY <1>1, <2>1, <3>1, <3>2
    <3>4. \A k \in op'[o].listed \ op'[o].todo :
             \E g \in files \cup {f} : g.member = k /\ (op'[o].fresh => g.content = bundle[k])
      BY <1>1, <2>1, <3>1
    <3>5. f \notin op'[o].held
      BY <1>1, <2>1, <2>2
    <3>6. \A g, h \in files \cup {f} : g.member = h.member =>
             g = h \/ (g \in op'[o].held /\ Newer(o, h)') \/ (h \in op'[o].held /\ Newer(o, g)')
      BY <1>1, <2>1, <3>2
    <3> QED
      BY <1>1, <2>1, <2>4, <2>5, <3>1, <3>2, <3>3, <3>4, <3>5, <3>6 DEF SyncStands
  <2>7. CASE op'[o].pc = "member"
    <3>1. Previous(o, m) = {} /\ op'[o].todo = op[o].todo \ {m}
      BY <1>1, <2>7
    <3>2. \A g \in files : g.member # m
      BY <1>1, <2>1, <2>3, <3>1
    <3>3. \A g \in files \cup {f} :
             g.member \in op'[o].todo \/ g.member \notin op'[o].listed => g \in op'[o].held
      BY <1>1, <2>1, <3>1
    <3>4. \A k \in op'[o].listed \ op'[o].todo :
             \E g \in files \cup {f} : g.member = k /\ (op'[o].fresh => g.content = bundle[k])
      BY <1>1, <2>1, <3>1
    <3>5. \A g, h \in files \cup {f} : g.member = h.member => g = h
      BY <1>1, <2>1, <3>2
    <3> QED
      BY <2>1, <2>4, <2>5, <2>7, <3>3, <3>4, <3>5 DEF SyncStands
  <2> QED
    BY <1>1, <2>1, <2>6, <2>7
<1>4. op'[o].pc \in {"member", "detachMember"}
  BY <1>1
<1> QED
  BY <1>1, <1>2, <1>3, <1>4, SyncMoves DEF SyncSteps

\* Then there is one, with what was read.
LEMMA DetachMirrored ==
    ASSUME MaterialTypes, MembersAreKept, BundleIsMirrored, NEW o \in Op, DetachMember(o)
    PROVE  BundleIsMirrored'
<1> DEFINE t == op[o].ticket
           files == tickets[t].files
           m == NextMember(o)
           P == Previous(o, m)
<1>1. /\ MaterialTypes' /\ Only(o) /\ References' = References
      /\ op[o].pc = "detachMember" /\ t \in References /\ m \in op[o].todo
      /\ tickets'[t] = [tickets[t] EXCEPT !.files = @ \ P]
      /\ op'[o].ticket = t /\ op'[o].listed = op[o].listed
      /\ op'[o].fresh = op[o].fresh /\ op'[o].held = op[o].held \ P
      /\ op'[o].pc = "member" /\ op'[o].todo = op[o].todo \ {m}
  BY DetachMemberIs
<1>2. UNCHANGED <<bundle, mirror, spoiled>> /\ op[o].job = "adopt"
  BY <1>1, SyncIs DEF DetachMember, history, SyncSteps
<1>3. ASSUME ~spoiled PROVE SyncStands(o)' /\ ~mirror
  <2>1. /\ tickets[t] \in Ticket /\ ~mirror
        /\ op[o].todo \subseteq op[o].listed /\ op[o].held \subseteq files
        /\ \A g \in files : g.member \in op[o].todo \/ g.member \notin op[o].listed =>
               g \in op[o].held \/ Newer(o, g)
        /\ \A k \in op[o].listed \ op[o].todo :
               \E g \in files : g.member = k /\ (op[o].fresh => g.content = bundle[k])
        /\ op[o].fresh => op[o].got = bundle[m]
        /\ \E g \in files : Newer(o, g) /\ g \notin op[o].held
        /\ \A g, h \in files : g.member = h.member =>
               g = h \/ (g \in op[o].held /\ Newer(o, h)) \/ (h \in op[o].held /\ Newer(o, g))
    BY <1>1, <1>3, SyncKnows DEF SyncSteps
  <2>2. \A g : Newer(o, g) => g.member = m /\ g.content = op[o].got
    BY DEF Newer
  <2>3. P = {g \in op[o].held : g.member = m}
    BY DEF Previous
  <2> HIDE DEF m, P
  <2>4. tickets'[op'[o].ticket].files = files \ P /\ bundle' = bundle
    BY <1>1, <1>2, <2>1 DEF Ticket
  <2> HIDE DEF files
  <2>5. op'[o].held \subseteq files \ P
    BY <1>1, <2>1
  <2>6. \A g \in files \ P : g.member \in op'[o].todo \/ g.member \notin op'[o].listed => g \in op'[o].held
    BY <1>1, <2>1, <2>2
  <2>7. \A k \in op'[o].listed \ op'[o].todo :
           \E g \in files \ P : g.member = k /\ (op'[o].fresh => g.content = bundle[k])
    BY <1>1, <2>1, <2>2, <2>3
  <2>8. \A g, h \in files \ P : g.member = h.member => g = h
    BY <2>1, <2>2, <2>3
  <2> QED
    BY <1>1, <2>1, <2>4, <2>5, <2>6, <2>7, <2>8 DEF SyncStands
<1> QED
  BY <1>1, <1>2, <1>3, SyncMoves DEF SyncSteps

\* What is swept no capture has, so what is a mirror already has nothing to sweep.
LEMMA SweepMirrored ==
    ASSUME MaterialTypes, MembersAreKept, BundleIsMirrored, NEW o \in Op, Sweep(o)
    PROVE  BundleIsMirrored'
<1> DEFINE t == op[o].ticket
           files == tickets[t].files
<1>1. /\ MaterialTypes' /\ Only(o) /\ References' = References
      /\ op[o].pc = "member" /\ op[o].todo = {} /\ t \in References
      /\ op'[o].ticket = t /\ op'[o].listed = op[o].listed /\ op'[o].fresh = op[o].fresh
      /\ \/ /\ op[o].held = {} /\ op'[o].pc = "readIndex"
            /\ mirror' = (mirror \/ op[o].fresh) /\ UNCHANGED tickets
         \/ /\ op'[o].pc = "member" /\ mirror' = mirror /\ op'[o].todo = op[o].todo
            /\ \E f \in op[o].held :
                  /\ tickets'[t] = [tickets[t] EXCEPT !.files = @ \ {f}]
                  /\ op'[o].held = op[o].held \ {f}
  BY SweepIs DEF Same
<1>2. UNCHANGED <<bundle, spoiled>> /\ op[o].job = "adopt"
  BY <1>1, SyncIs DEF Sweep, SyncSteps
<1>3. ASSUME ~spoiled
      PROVE  /\ op'[o].pc = "member" => SyncStands(o)'
             /\ op'[o].pc = "readIndex" => Single(tickets'[t].files)
             /\ mirror' => (\A u \in References : Mirrored(u)') /\ op'[o].fresh
  <2>1. /\ tickets[t] \in Ticket /\ \A u \in References : u = t
        /\ op[o].held \subseteq files
        /\ \A g \in op[o].held : g.member \notin op[o].listed
        /\ \A g \in files : g.member \notin op[o].listed => g \in op[o].held
        /\ \A k \in op[o].listed :
               \E g \in files : g.member = k /\ (op[o].fresh => g.content = bundle[k])
        /\ \A g, h \in files : g.member = h.member => g = h
        /\ op[o].fresh => op[o].listed = InBundle
        /\ mirror => Mirrored(t) /\ op[o].fresh
    BY <1>1, <1>3, SyncKnows DEF SyncSteps
  <2>2. CASE op'[o].pc = "readIndex"
    <3>1. op[o].held = {} /\ mirror' = (mirror \/ op[o].fresh) /\ UNCHANGED tickets
      BY <1>1, <2>2
    <3>2. ASSUME op[o].fresh PROVE Mirrored(t)
      <4>1. \A g \in files : g.member \in InBundle
        BY <2>1, <3>1, <3>2
      <4>2. \A g \in files : g.content = bundle[g.member]
        BY <2>1, <3>2, <4>1
      <4> QED
        BY <2>1, <3>2, <4>1, <4>2 DEF Mirrored, Single
    <3>3. ASSUME NEW u \in References PROVE Mirrored(u)' <=> Mirrored(u)
      BY <1>2, <3>1 DEF Mirrored, InBundle
    <3>4. \A u \in References : Mirrored(t) => Mirrored(u)
      BY <2>1
    <3> QED
      BY <1>1, <2>1, <2>2, <3>1, <3>2, <3>3, <3>4 DEF Single
  <2>3. CASE op'[o].pc = "member"
    <3>1. mirror' = mirror /\ op'[o].todo = {}
      BY <1>1, <2>3
    <3>2. PICK f \in op[o].held : /\ tickets'[t] = [tickets[t] EXCEPT !.files = @ \ {f}]
                                  /\ op'[o].held = op[o].held \ {f}
      BY <1>1, <2>3
    <3>3. tickets'[op'[o].ticket].files = files \ {f} /\ bundle' = bundle
      BY <1>1, <1>2, <2>1, <3>2 DEF Ticket
    <3>4. ~mirror
      BY <2>1, <3>2 DEF Mirrored
    <3>5. SyncStands(o)'
      <4> HIDE DEF files
      <4>1. op'[o].held \subseteq files \ {f}
        BY <2>1, <3>2
      <4>2. \A g \in files \ {f} : g.member \notin op[o].listed => g \in op'[o].held
        BY <2>1, <3>2
      <4>3. \A k \in op[o].listed :
               \E g \in files \ {f} : g.member = k /\ (op[o].fresh => g.content = bundle[k])
        BY <2>1, <3>2
      <4> QED
        BY <1>1, <2>1, <2>3, <3>1, <3>3, <4>1, <4>2, <4>3 DEF SyncStands
    <3> QED
      BY <2>3, <3>1, <3>4, <3>5
  <2> QED
    BY <1>1, <2>2, <2>3
<1>4. op'[o].pc \in {"readIndex", "member"}
  BY <1>1
<1> QED
  BY <1>1, <1>2, <1>3, <1>4, SyncMoves DEF SyncSteps

\* Every step keeps the mirror, or speaks of none.
LEMMA StepMirrored ==
    ASSUME MaterialTypes, MembersAreKept, BundleIsMirrored, [MaterialNext]_materialVars
    PROVE  BundleIsMirrored'
<1>1. CASE Capture \/ RemoveAsset \/ UNCHANGED materialVars
  BY <1>1, OutsideMirrored
<1>2. ASSUME NEW o \in Op, Step(o) PROVE BundleIsMirrored'
  <2>1. CASE Adopt(o) \/ FindByBundle(o) \/ Upsert(o) \/ ListAttachments(o)
    BY <2>1, AdoptMirrored, FindMirrored, UpsertMirrored, ListMirrored
  <2>2. CASE Syncing(o)
    BY <2>2, ReadMirrored, AttachMirrored, DetachMirrored, SweepMirrored DEF Syncing
  <2> QED
    BY <1>2, <2>1, <2>2, OthersMirrored
<1> QED
  BY <1>1, <1>2, StepIs

\* After an adoption that finished, and until the site is captured again, the one
\* reference holds each member of the bundle once, as the bundle has it, wherever
\* earlier adoptions stopped but between attaching and detaching (syncMembers).
THEOREM AdoptionMirrors == MaterialSpec => []MirrorsBundle
<1>1. MaterialInit => MembersAreKept
  BY IdleIs DEF MaterialInit, MembersAreKept, SyncSteps
<1>2. MaterialTypes /\ MembersAreKept /\ [MaterialNext]_materialVars => MembersAreKept'
  BY StepKept
<1>3. MaterialTypes /\ MembersAreKept /\ BundleIsMirrored /\ [MaterialNext]_materialVars => BundleIsMirrored'
  BY StepMirrored
<1> QED
  BY <1>1, <1>2, <1>3, MirrorIs, StartMirrored, TypesStart, StepTypes, PTL DEF MaterialSpec
=============================================================================
