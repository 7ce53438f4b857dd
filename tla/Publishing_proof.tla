--------------------------- MODULE Publishing_proof ---------------------------
(***************************************************************************)
(* Theorems about what is published: for any number of publishes,          *)
(* checkouts and visits of one site, a listed revision can be served, and  *)
(* the log of the database implements RevisionLog; and for any layout, any *)
(* visibility and any capture, the rules a page is rendered with put each  *)
(* element where it was meant to be at every width of the window.          *)
(***************************************************************************)
EXTENDS Publishing, Cascade, WellFoundedInduction, TLAPS

-----------------------------------------------------------------------------
(* Types.                                                                  *)

\* A request that is over is well formed.
LEMMA EndedIsTyped ==
    \A how \in {"done", "unchanged", "failed"} : Ended(how) \in ProcState
  BY DEF Ended, Idle, ProcState, Empty, Snapshot, Stage

\* So are all, when one becomes another that is.
LEMMA ProcMoves ==
    ASSUME TypeOK, NEW q \in Proc, NEW r \in ProcState, proc' = [proc EXCEPT ![q] = r]
    PROVE  proc' \in [Proc -> ProcState]
  BY DEF TypeOK

\* An object that is put leaves the bucket well formed.
LEMMA BucketMoves ==
    ASSUME TypeOK, NEW i, NEW s \in Side, NEW p \in Part, NEW c \in Content \cup {None},
           bucket' = [bucket EXCEPT ![i][s][p] = c]
    PROVE  bucket' \in [Rev -> [Side -> Snapshot]]
<1>1. CASE i \notin Rev
  BY <1>1 DEF TypeOK
<1>2. CASE i \in Rev
  <2>1. bucket[i] \in [Side -> Snapshot] /\ bucket[i][s] \in Snapshot
    BY <1>2 DEF TypeOK
  <2>2. [bucket[i][s] EXCEPT ![p] = c] \in Snapshot
    BY <2>1 DEF Snapshot
  <2>3. [bucket[i] EXCEPT ![s] = [bucket[i][s] EXCEPT ![p] = c]] \in [Side -> Snapshot]
    BY <2>1, <2>2
  <2>4. bucket' = [bucket EXCEPT ![i] = [bucket[i] EXCEPT ![s] = [bucket[i][s] EXCEPT ![p] = c]]]
    OBVIOUS
  <2> QED
    BY <2>3, <2>4, <1>2 DEF TypeOK
<1> QED
  BY <1>1, <1>2

\* What a publish freezes is a snapshot.
LEMMA OutputIsTyped ==
    ASSUME TypeOK, NEW q \in Proc
    PROVE  Output(q) \in Snapshot
<1>1. proc[q].loaded \in Snapshot /\ proc[q].frozen \in Snapshot
  BY DEF TypeOK, ProcState
<1> QED
  BY <1>1 DEF Output, Snapshot

\* What a revision or the draft is checked out from is a snapshot.
LEMMA SourceIsTyped ==
    ASSUME TypeOK, NEW i \in {0} \cup Rev
    PROVE  SourceOf(i) \in Snapshot
  BY DEF TypeOK, SourceOf, Listed, Snapshot, Empty, Side

\* What a step puts unseen is content, and so is what lies under a prefix.
LEMMA UnseenIsTyped ==
    ASSUME draft' \in Snapshot, NEW C PROVE Unseen(C) \subseteq Content
  BY DEF Unseen, Snapshot

\* What lies under a prefix is content.
LEMMA ForeignIsTyped ==
    ASSUME TypeOK, NEW i \in {0} \cup Rev PROVE Foreign(i) \subseteq Content
  BY SourceIsTyped DEF Foreign, Present, Snapshot

\* Rows, objects and requests have their shapes at first.
LEMMA TypeInit == Init => TypeOK
<1>. SUFFICES ASSUME Init PROVE TypeOK
  OBVIOUS
<1>1. Empty \in Snapshot /\ Idle \in ProcState
  BY DEF Empty, Snapshot, Idle, ProcState, Stage
<1>2. draft \in Snapshot
  <2>1. 0 \in Content
    BY BoundsAreNat DEF Content
  <2> QED
    BY <2>1 DEF Init, Snapshot
<1>3. visitor \in [Visitor -> VisitorState]
  BY DEF Init, VisitorState
<1>4. edits \in 0..MaxEdits
  BY BoundsAreNat DEF Init
<1> QED
  BY <1>1, <1>2, <1>3, <1>4 DEF Init, TypeOK

\* Every step keeps them.
LEMMA TypeStep == TypeOK /\ [Next]_vars => TypeOK'
<1>. SUFFICES ASSUME TypeOK, [Next]_vars PROVE TypeOK'
  OBVIOUS
<1>0. \A q \in Proc : proc[q] \in ProcState
  BY DEF TypeOK
<1>1. CASE UNCHANGED vars
  BY <1>1 DEF vars, TypeOK
<1>2. ASSUME NEW p \in Part, Edit(p) PROVE TypeOK'
  <2>1. edits' \in 0..MaxEdits /\ edits + 1 \in Content
    BY <1>2, BoundsAreNat DEF Edit, TypeOK, Content
  <2>2. draft' \in Snapshot
    BY <1>2, <2>1 DEF Edit, TypeOK, Snapshot
  <2>3. late' \in SUBSET Content
    BY <1>2, <2>2, UnseenIsTyped DEF Edit, TypeOK
  <2> QED
    BY <1>2, <2>1, <2>2, <2>3 DEF Edit, TypeOK
<1>3. ASSUME NEW q \in Proc, LoadDraft(q) PROVE TypeOK'
  <2>1. [proc[q] EXCEPT !.pc = "loaded", !.loaded = draft] \in ProcState
    BY <1>0 DEF TypeOK, ProcState, Stage
  <2>2. proc' \in [Proc -> ProcState]
    BY <1>3, <2>1, ProcMoves, EndedIsTyped DEF LoadDraft
  <2> QED
    BY <1>3, <2>2 DEF LoadDraft, TypeOK
<1>4. ASSUME NEW q \in Proc, ReadHistory(q) PROVE TypeOK'
  <2>1. \A l \in {0} \cup Rev : [proc[q] EXCEPT !.pc = "history", !.live = l] \in ProcState
    BY <1>0 DEF ProcState, Stage
  <2>2. proc' \in [Proc -> ProcState]
    BY <1>4, <2>1, ProcMoves DEF ReadHistory
  <2> QED
    BY <1>4, <2>2 DEF ReadHistory, TypeOK
<1>5. ASSUME NEW q \in Proc, ReadPrevious(q) PROVE TypeOK'
  <2>1. SourceOf(proc[q].live) \in Snapshot
    BY <1>0, SourceIsTyped DEF ProcState
  <2>2. [proc[q] EXCEPT !.pc = "freezing", !.left = Part, !.prev = SourceOf(proc[q].live)]
            \in ProcState
    BY <1>0, <2>1 DEF ProcState, Stage
  <2>3. proc' \in [Proc -> ProcState]
    BY <1>5, <2>2, ProcMoves DEF ReadPrevious
  <2>4. mixed' \in SUBSET Content
    <3>1. proc[q].live \in {0} \cup Rev
      BY <1>0 DEF ProcState
    <3> QED
      BY <1>5, <3>1, ForeignIsTyped DEF ReadPrevious, TypeOK
  <2> QED
    BY <1>5, <2>3, <2>4 DEF ReadPrevious, TypeOK
<1>6. ASSUME NEW q \in Proc, NEW p \in Part, ReadPart(q, p) PROVE TypeOK'
  <2>. DEFINE f == [proc[q].frozen EXCEPT ![p] = draft[p]]
              pc == IF proc[q].left = {p} THEN "frozen" ELSE "freezing"
  <2>1. f \in Snapshot
    BY <1>0 DEF TypeOK, ProcState, Snapshot
  <2>2. pc \in Stage
    BY DEF Stage
  <2>3. proc' = [proc EXCEPT ![q] = [proc[q] EXCEPT
                    !.left = proc[q].left \ {p}, !.frozen = f, !.pc = pc]]
    BY <1>6 DEF ReadPart
  <2>. HIDE DEF f, pc
  <2>4. [proc[q] EXCEPT !.left = proc[q].left \ {p}, !.frozen = f, !.pc = pc] \in ProcState
    BY <1>0, <2>1, <2>2 DEF ProcState
  <2>5. proc' \in [Proc -> ProcState]
    BY <2>3, <2>4, ProcMoves
  <2> QED
    BY <1>6, <2>5 DEF ReadPart, TypeOK
<1>7. ASSUME NEW q \in Proc, Decide(q) PROVE TypeOK'
  <2>. DEFINE r == [proc[q] EXCEPT !.pc = "source", !.id = NextRevision(q), !.basedOn = base,
                                   !.left = Present(proc[q].frozen), !.prev = Empty]
  <2>1. Empty \in Snapshot
    BY DEF Empty, Snapshot
  <2>2. Present(proc[q].frozen) \in SUBSET Part
    BY DEF Present
  <2>3. NextRevision(q) \in Rev => r \in ProcState
    BY <1>0, <2>1, <2>2 DEF TypeOK, ProcState, Stage
  <2>4. \/ proc' = [proc EXCEPT ![q] = Ended("unchanged")]
        \/ NextRevision(q) \in Rev /\ proc' = [proc EXCEPT ![q] = r]
    BY <1>7 DEF Decide
  <2>5. proc' \in [Proc -> ProcState]
    BY <2>3, <2>4, ProcMoves, EndedIsTyped
  <2> QED
    BY <1>7, <2>5 DEF Decide, TypeOK
<1>8. ASSUME NEW q \in Proc, NEW p \in Part, PutSource(q, p) \/ PutOut(q, p) PROVE TypeOK'
  <2>1. proc[q].frozen[p] \in Content \cup {None} /\ Output(q)[p] \in Content \cup {None}
    BY <1>0, OutputIsTyped DEF ProcState, Snapshot
  <2>2. "source" \in Side /\ "out" \in Side
    BY DEF Side
  <2>3. bucket' \in [Rev -> [Side -> Snapshot]]
    <3>1. CASE PutSource(q, p)
      BY <3>1, <2>1, <2>2, BucketMoves DEF PutSource
    <3>2. CASE PutOut(q, p)
      BY <3>2, <2>1, <2>2, BucketMoves DEF PutOut
    <3> QED
      BY <1>8, <3>1, <3>2
  <2>4. [proc[q] EXCEPT !.left = @ \ {p}] \in ProcState
    BY <1>0 DEF ProcState
  <2>5. proc' = [proc EXCEPT ![q] = [proc[q] EXCEPT !.left = @ \ {p}]]
    BY <1>8 DEF PutSource, PutOut
  <2>6. proc' \in [Proc -> ProcState]
    BY <2>4, <2>5, ProcMoves
  <2> QED
    BY <1>8, <2>3, <2>6 DEF PutSource, PutOut, TypeOK
<1>9. ASSUME NEW q \in Proc, StartOutput(q) PROVE TypeOK'
  <2>1. Present(Output(q)) \in SUBSET Part
    BY DEF Present
  <2>2. [proc[q] EXCEPT !.pc = "out", !.left = Present(Output(q))] \in ProcState
    BY <1>0, <2>1 DEF ProcState, Stage
  <2>3. proc' \in [Proc -> ProcState]
    BY <1>9, <2>2, ProcMoves DEF StartOutput
  <2> QED
    BY <1>9, <2>3 DEF StartOutput, TypeOK
<1>10. ASSUME NEW q \in Proc, Record(q) PROVE TypeOK'
  <2>1. [basedOn |-> proc[q].basedOn, source |-> proc[q].frozen, out |-> Output(q)] \in Row
    BY <1>0, OutputIsTyped DEF ProcState, Row
  <2>2. log' \in [Rev -> Row \cup {None}]
    BY <1>10, <2>1 DEF Record, TypeOK
  <2>3. [proc[q] EXCEPT !.pc = "recorded"] \in ProcState
    BY <1>0 DEF ProcState, Stage
  <2>4. \/ proc' = [proc EXCEPT ![q] = [proc[q] EXCEPT !.pc = "recorded"]]
        \/ proc' = [proc EXCEPT ![q] = Ended("failed")]
    BY <1>10 DEF Record
  <2>5. proc' \in [Proc -> ProcState]
    BY <2>3, <2>4, ProcMoves, EndedIsTyped
  <2> QED
    BY <1>10, <2>2, <2>5 DEF Record, TypeOK
<1>11. ASSUME NEW q \in Proc, SetDraftBase(q) PROVE TypeOK'
  <2>1. proc' \in [Proc -> ProcState] /\ proc[q].id \in {0} \cup Rev
    BY <1>0, <1>11, ProcMoves, EndedIsTyped DEF SetDraftBase, ProcState
  <2> QED
    BY <1>11, <2>1 DEF SetDraftBase, TypeOK
<1>12. ASSUME NEW q \in Proc, PickRevision(q) PROVE TypeOK'
  <2>1. \A i \in Rev, f \in BOOLEAN :
            [proc[q] EXCEPT !.pc = "wanted", !.id = i, !.force = f] \in ProcState
    BY <1>0 DEF ProcState, Stage
  <2>2. proc' \in [Proc -> ProcState]
    BY <1>12, <2>1, ProcMoves DEF PickRevision, Listed
  <2> QED
    BY <1>12, <2>2 DEF PickRevision, TypeOK
<1>13. ASSUME NEW q \in Proc, ReadWanted(q) PROVE TypeOK'
  <2>1. SourceOf(proc[q].id) \in Snapshot
    BY <1>0, SourceIsTyped DEF ProcState
  <2>2. \A pc \in Stage : [proc[q] EXCEPT !.wanted = SourceOf(proc[q].id), !.pc = pc] \in ProcState
    BY <1>0, <2>1 DEF ProcState
  <2>3. (IF proc[q].force THEN "clean" ELSE "checking") \in Stage
    BY DEF Stage
  <2>4. proc' \in [Proc -> ProcState]
    BY <1>13, <2>2, <2>3, ProcMoves DEF ReadWanted
  <2> QED
    BY <1>13, <2>4 DEF ReadWanted, TypeOK
<1>14. ASSUME NEW q \in Proc, CheckDirty(q) PROVE TypeOK'
  <2>1. [proc[q] EXCEPT !.pc = "clean"] \in ProcState
    BY <1>0 DEF ProcState, Stage
  <2>2. proc' \in [Proc -> ProcState]
    BY <1>14, <2>1, ProcMoves, EndedIsTyped DEF CheckDirty
  <2> QED
    BY <1>14, <2>2 DEF CheckDirty, TypeOK
<1>15. ASSUME NEW q \in Proc, NameDraft(q) PROVE TypeOK'
  <2>1. Present(draft) \in SUBSET Part
    BY DEF Present
  <2>2. [proc[q] EXCEPT !.pc = "named", !.names = Present(draft)] \in ProcState
    BY <1>0, <2>1 DEF ProcState, Stage
  <2>3. proc' \in [Proc -> ProcState]
    BY <1>15, <2>2, ProcMoves DEF NameDraft
  <2> QED
    BY <1>15, <2>3 DEF NameDraft, TypeOK
<1>16. ASSUME NEW q \in Proc, WriteDraft(q) PROVE TypeOK'
  <2>1. proc[q].wanted \in Snapshot
    BY <1>0 DEF ProcState
  <2>2. draft' \in Snapshot
    BY <1>16, <2>1 DEF WriteDraft, TypeOK, Snapshot
  <2>3. \A p \in Present(draft) : draft[p] \in Content
    BY DEF TypeOK, Snapshot, Present
  <2>4. lost' \in SUBSET Content
    BY <1>16, <2>3 DEF WriteDraft, TypeOK
  <2>5. [proc[q] EXCEPT !.pc = "written"] \in ProcState
    BY <1>0 DEF ProcState, Stage
  <2>6. proc' \in [Proc -> ProcState]
    BY <1>16, <2>5, ProcMoves DEF WriteDraft
  <2>7. late' \in SUBSET Content
    BY <1>16, <2>2, UnseenIsTyped DEF WriteDraft, TypeOK
  <2> QED
    BY <1>16, <2>2, <2>4, <2>6, <2>7 DEF WriteDraft, TypeOK
<1>17. ASSUME NEW v \in Visitor, Resolve(v) \/ Serve(v) PROVE TypeOK'
  <2>1. \A l \in Rev, p \in Part : [pc |-> "resolved", id |-> l, part |-> p] \in VisitorState
    BY DEF VisitorState
  <2>2. visitor[v] \in VisitorState
    BY DEF TypeOK
  <2>3. \A pc \in {"served", "missing"} : [visitor[v] EXCEPT !.pc = pc] \in VisitorState
    BY <2>2 DEF VisitorState
  <2>4. visitor' \in [Visitor -> VisitorState]
    <3>1. CASE Resolve(v)
      BY <3>1, <2>1 DEF Resolve, TypeOK, Present, Listed
    <3>2. CASE Serve(v)
      <4>1. PICK pc \in {"served", "missing"} : visitor' = [visitor EXCEPT ![v].pc = pc]
        BY <3>2 DEF Serve
      <4>2. visitor' = [visitor EXCEPT ![v] = [visitor[v] EXCEPT !.pc = pc]]
        BY <4>1
      <4> QED
        BY <4>2, <2>3 DEF TypeOK
    <3> QED
      BY <1>17, <3>1, <3>2
  <2> QED
    BY <1>17, <2>4 DEF Resolve, Serve, TypeOK
<1> QED
  BY <1>1, <1>2, <1>3, <1>4, <1>5, <1>6, <1>7, <1>8, <1>9, <1>10, <1>11, <1>12, <1>13,
     <1>14, <1>15, <1>16, <1>17 DEF Next, Publishes, ChecksOut, Proc

\* Every reachable state of publishing is well typed.
THEOREM TypeCorrect == Spec => []TypeOK
  BY TypeInit, TypeStep, PTL DEF Spec

-----------------------------------------------------------------------------
(* A listed revision can be served.  Neither RevisionServable nor           *)
(* VisitorIsServed is inductive: the row is inserted by a request that put   *)
(* its objects long before, possibly into a prefix another request was       *)
(* putting to.  The strengthening says what each request has put so far, and *)
(* rests on objects under a revision's prefix never being removed.           *)

\* Everything frozen but what is left to put is in the bucket; once the output
\* is being put, everything frozen is.
PutSoFar(q) ==
    /\ proc[q].pc \in {"source", "out"} => proc[q].id \in Rev
    /\ proc[q].pc = "source" =>
           /\ proc[q].left \subseteq Present(proc[q].frozen)
           /\ \A p \in Present(proc[q].frozen) \ proc[q].left :
                  bucket[proc[q].id]["source"][p] # None
    /\ proc[q].pc = "out" =>
           /\ proc[q].left \subseteq Present(Output(q))
           /\ \A p \in Present(proc[q].frozen) : bucket[proc[q].id]["source"][p] # None
           /\ \A p \in Present(Output(q)) \ proc[q].left :
                  bucket[proc[q].id]["out"][p] # None

\* A visitor asks for a part that its revision's output has.
AsksForListed(v) ==
    /\ visitor[v].pc = "resolved" =>
           /\ visitor[v].id \in Listed
           /\ visitor[v].part \in Present(log[visitor[v].id].out)
    /\ visitor[v].pc # "missing"

ServableInv ==
    /\ TypeOK
    /\ \A q \in Proc : PutSoFar(q)
    /\ \A v \in Visitor : AsksForListed(v)
    /\ RevisionServable

\* No object under a revision's prefix is ever removed.
BucketGrows ==
    \A i \in Rev, s \in Side, p \in Part : bucket[i][s][p] # None => bucket'[i][s][p] # None

\* Only q moves.
OnlyMoves(q) == \A x \in Proc : x # q => proc'[x] = proc[x]

\* Nothing is listed at first.
LEMMA ServableInit == Init => ServableInv
<1>. SUFFICES ASSUME Init PROVE ServableInv
  OBVIOUS
<1>1. Listed = {}
  BY DEF Init, Listed
<1>2. \A q \in Proc : PutSoFar(q)
  BY DEF Init, Idle, PutSoFar
<1>3. \A v \in Visitor : AsksForListed(v)
  BY DEF Init, AsksForListed
<1> QED
  BY <1>1, <1>2, <1>3, TypeInit DEF ServableInv, RevisionServable

\* A request that becomes another leaves the rest alone.
LEMMA Moves ==
    ASSUME TypeOK, NEW q \in Proc, NEW r, proc' = [proc EXCEPT ![q] = r]
    PROVE  OnlyMoves(q) /\ proc'[q] = r
  BY DEF TypeOK, OnlyMoves

\* So does one that has put a part.
LEMMA PutMoves ==
    ASSUME TypeOK, NEW q \in Proc, NEW p, proc' = [proc EXCEPT ![q].left = @ \ {p}]
    PROVE  /\ OnlyMoves(q)
           /\ proc'[q].pc = proc[q].pc /\ proc'[q].id = proc[q].id
           /\ proc'[q].frozen = proc[q].frozen /\ proc'[q].loaded = proc[q].loaded
           /\ proc'[q].left = proc[q].left \ {p} /\ proc'[q].basedOn = proc[q].basedOn
<1>1. proc[q] \in ProcState
  BY DEF TypeOK
<1>2. proc' = [proc EXCEPT ![q] = [proc[q] EXCEPT !.left = proc[q].left \ {p}]]
  OBVIOUS
<1>3. OnlyMoves(q) /\ proc'[q] = [proc[q] EXCEPT !.left = proc[q].left \ {p}]
  BY <1>2, Moves
<1> QED
  BY <1>1, <1>3 DEF ProcState

\* A request that is over says how it ended.
LEMMA EndedHow ==
    \A how \in {"done", "unchanged", "failed"} : Ended(how).pc = how
  BY DEF Ended, Idle

\* A request that did not move has still put what it had put.
LEMMA OthersKeep ==
    ASSUME TypeOK, NEW x \in Proc, PutSoFar(x), BucketGrows, proc'[x] = proc[x]
    PROVE  PutSoFar(x)'
<1>. DEFINE r == proc[x]
<1>1. proc'[x] = r
  OBVIOUS
<1>2. Present(r.frozen) \subseteq Part /\ Present(Output(x)) \subseteq Part
  BY DEF Present
<1>3. Output(x)' = Output(x)
  BY DEF Output
<1>4. "source" \in Side /\ "out" \in Side
  BY DEF Side
<1>5. \A s : Present(s)' = Present(s)
  BY DEF Present
<1> QED
  BY <1>1, <1>2, <1>3, <1>4 DEF PutSoFar, BucketGrows, Present

\* Visitors and rows keep what they have while the log stays.
LEMMA ReadersKeep ==
    ASSUME ServableInv, BucketGrows, log' = log, visitor' = visitor
    PROVE  RevisionServable' /\ \A v \in Visitor : AsksForListed(v)'
<1>1. Listed' = Listed
  BY DEF Listed
<1>2. "source" \in Side /\ "out" \in Side
  BY DEF Side
<1>3. RevisionServable'
  BY <1>1, <1>2 DEF ServableInv, RevisionServable, BucketGrows, Present, Listed
<1>4. \A v \in Visitor : AsksForListed(v)'
  BY <1>1 DEF ServableInv, AsksForListed, Present
<1> QED
  BY <1>3, <1>4

\* A step of a request that ends outside the two putting stages and touches
\* neither the bucket, the log nor a visitor.
LEMMA QuietStep ==
    ASSUME ServableInv, TypeOK', NEW q \in Proc, NEW r, r.pc \notin {"source", "out"},
           proc' = [proc EXCEPT ![q] = r],
           bucket' = bucket, log' = log, visitor' = visitor
    PROVE  ServableInv'
<1>0. OnlyMoves(q) /\ proc'[q] = r
  BY Moves DEF ServableInv
<1>1. BucketGrows
  BY DEF BucketGrows
<1>2. \A x \in Proc : PutSoFar(x)'
  <2>1. PutSoFar(q)'
    BY <1>0 DEF PutSoFar
  <2>2. ASSUME NEW x \in Proc, x # q PROVE PutSoFar(x)'
    BY <1>0, <1>1, <2>2, OthersKeep DEF OnlyMoves, ServableInv
  <2> QED
    BY <2>1, <2>2
<1> QED
  BY <1>1, <1>2, ReadersKeep DEF ServableInv

\* An object is put, none is removed.
LEMMA PutGrows ==
    ASSUME TypeOK, NEW i \in Rev, NEW s \in Side, NEW p \in Part, NEW c, c # None,
           bucket' = [bucket EXCEPT ![i][s][p] = c]
    PROVE  BucketGrows /\ bucket'[i][s][p] # None
<1>1. bucket \in [Rev -> [Side -> [Part -> Content \cup {None}]]]
  BY DEF TypeOK, Snapshot
<1>2. bucket' = [bucket EXCEPT ![i] = [bucket[i] EXCEPT ![s] = [bucket[i][s] EXCEPT ![p] = c]]]
  OBVIOUS
<1>3. \A j \in Rev, t \in Side, x \in Part :
          bucket'[j][t][x] = IF j = i /\ t = s /\ x = p THEN c ELSE bucket[j][t][x]
  BY <1>1, <1>2
<1> QED
  BY <1>3 DEF BucketGrows

\* Every step keeps what is listed in the bucket.
LEMMA ServableStep == ServableInv /\ [Next]_vars => ServableInv'
<1>. SUFFICES ASSUME ServableInv, [Next]_vars PROVE ServableInv'
  OBVIOUS
<1>0. TypeOK /\ TypeOK' /\ \A q \in Proc : PutSoFar(q) /\ proc[q] \in ProcState
  BY TypeStep DEF ServableInv, TypeOK
<1>1. CASE UNCHANGED vars
  <2>1. BucketGrows /\ \A x \in Proc : proc'[x] = proc[x]
    BY <1>1 DEF vars, BucketGrows
  <2>2. \A x \in Proc : PutSoFar(x)'
    BY <1>0, <2>1, OthersKeep
  <2>3. log' = log /\ visitor' = visitor
    BY <1>1 DEF vars
  <2> QED
    BY <1>0, <2>1, <2>2, <2>3, ReadersKeep DEF ServableInv
<1>2. ASSUME NEW p \in Part, Edit(p) PROVE ServableInv'
  <2>1. BucketGrows /\ \A x \in Proc : proc'[x] = proc[x]
    BY <1>2 DEF Edit, BucketGrows
  <2>2. \A x \in Proc : PutSoFar(x)'
    BY <1>0, <2>1, OthersKeep
  <2>3. log' = log /\ visitor' = visitor
    BY <1>2 DEF Edit
  <2> QED
    BY <1>0, <2>1, <2>2, <2>3, ReadersKeep DEF ServableInv
<1>3. ASSUME NEW q \in Proc,
             \/ LoadDraft(q) \/ ReadHistory(q) \/ ReadPrevious(q)
             \/ \E p \in Part : ReadPart(q, p)
             \/ SetDraftBase(q) \/ PickRevision(q) \/ ReadWanted(q) \/ CheckDirty(q)
             \/ NameDraft(q) \/ WriteDraft(q)
      PROVE  ServableInv'
  <2>. DEFINE Quiet == \E r : proc' = [proc EXCEPT ![q] = r] /\ r.pc \notin {"source", "out"}
  <2>0. proc[q] \in ProcState
    BY <1>0
  <2>1. CASE LoadDraft(q)
    <3>1. [proc[q] EXCEPT !.pc = "loaded", !.loaded = draft].pc = "loaded"
      BY <2>0 DEF ProcState
    <3>2. Quiet
      BY <2>1, <3>1, EndedHow DEF LoadDraft
    <3> QED
      BY <1>0, <2>1, <3>2, QuietStep DEF LoadDraft
  <2>2. CASE ReadHistory(q)
    <3>1. \A l : [proc[q] EXCEPT !.pc = "history", !.live = l].pc = "history"
      BY <2>0 DEF ProcState
    <3>2. Quiet
      BY <2>2, <3>1 DEF ReadHistory
    <3> QED
      BY <1>0, <2>2, <3>2, QuietStep DEF ReadHistory
  <2>3. CASE ReadPrevious(q)
    <3>1. [proc[q] EXCEPT !.pc = "freezing", !.left = Part, !.prev = SourceOf(proc[q].live)].pc = "freezing"
      BY <2>0 DEF ProcState
    <3>2. Quiet
      BY <2>3, <3>1 DEF ReadPrevious
    <3> QED
      BY <1>0, <2>3, <3>2, QuietStep DEF ReadPrevious
  <2>4. CASE SetDraftBase(q)
    <3>2. Quiet
      BY <2>4, EndedHow DEF SetDraftBase
    <3> QED
      BY <1>0, <2>4, <3>2, QuietStep DEF SetDraftBase
  <2>5. CASE PickRevision(q)
    <3>0. PICK i \in Listed, f \in BOOLEAN :
              proc' = [proc EXCEPT ![q] = [proc[q] EXCEPT !.pc = "wanted", !.id = i, !.force = f]]
      BY <2>5 DEF PickRevision
    <3>1. [proc[q] EXCEPT !.pc = "wanted", !.id = i, !.force = f].pc = "wanted"
      BY <2>0 DEF ProcState
    <3>2. Quiet
      BY <3>0, <3>1
    <3> QED
      BY <1>0, <2>5, <3>2, QuietStep DEF PickRevision
  <2>6. ASSUME NEW p \in Part, ReadPart(q, p) PROVE ServableInv'
    <3>. DEFINE f == [proc[q].frozen EXCEPT ![p] = draft[p]]
                pc == IF proc[q].left = {p} THEN "frozen" ELSE "freezing"
                r == [proc[q] EXCEPT !.left = proc[q].left \ {p}, !.frozen = f, !.pc = pc]
    <3>1. proc' = [proc EXCEPT ![q] = r]
      BY <2>6 DEF ReadPart
    <3>2. pc \notin {"source", "out"}
      OBVIOUS
    <3>3. r.pc = pc
      <4>. HIDE DEF f, pc
      <4> QED
        BY <2>0 DEF ProcState
    <3> QED
      BY <1>0, <2>6, <3>1, <3>2, <3>3, QuietStep DEF ReadPart
  <2>7. CASE ReadWanted(q)
    <3>. DEFINE pc == IF proc[q].force THEN "clean" ELSE "checking"
                r == [proc[q] EXCEPT !.wanted = SourceOf(proc[q].id), !.pc = pc]
    <3>1. proc' = [proc EXCEPT ![q] = r] /\ pc \notin {"source", "out"}
      BY <2>7 DEF ReadWanted
    <3>2. r.pc = pc
      <4>. HIDE DEF pc
      <4> QED
        BY <2>0 DEF ProcState
    <3>3. Quiet
      BY <3>1, <3>2
    <3> QED
      BY <1>0, <2>7, <3>3, QuietStep DEF ReadWanted
  <2>8. CASE CheckDirty(q)
    <3>1. [proc[q] EXCEPT !.pc = "clean"].pc = "clean"
      BY <2>0 DEF ProcState
    <3>2. Quiet
      BY <2>8, <3>1, EndedHow DEF CheckDirty
    <3> QED
      BY <1>0, <2>8, <3>2, QuietStep DEF CheckDirty
  <2>9. CASE NameDraft(q)
    <3>1. [proc[q] EXCEPT !.pc = "named", !.names = Present(draft)].pc = "named"
      BY <2>0 DEF ProcState
    <3>2. Quiet
      BY <2>9, <3>1 DEF NameDraft
    <3> QED
      BY <1>0, <2>9, <3>2, QuietStep DEF NameDraft
  <2>10. CASE WriteDraft(q)
    <3>1. proc' = [proc EXCEPT ![q] = [proc[q] EXCEPT !.pc = "written"]]
      BY <2>10 DEF WriteDraft
    <3>2. [proc[q] EXCEPT !.pc = "written"].pc = "written"
      BY <2>0 DEF ProcState
    <3> QED
      BY <1>0, <2>10, <3>1, <3>2, QuietStep DEF WriteDraft
  <2> QED
    BY <1>3, <2>1, <2>2, <2>3, <2>4, <2>5, <2>6, <2>7, <2>8, <2>9, <2>10
<1>4. ASSUME NEW q \in Proc, Decide(q) PROVE ServableInv'
  <2>. DEFINE r == [proc[q] EXCEPT !.pc = "source", !.id = NextRevision(q), !.basedOn = base,
                                   !.left = Present(proc[q].frozen), !.prev = Empty]
  <2>1. bucket' = bucket /\ log' = log /\ visitor' = visitor
    BY <1>4 DEF Decide
  <2>2. CASE proc' = [proc EXCEPT ![q] = Ended("unchanged")]
    BY <1>0, <2>1, <2>2, EndedHow, QuietStep
  <2>3. CASE NextRevision(q) \in Rev /\ proc' = [proc EXCEPT ![q] = r]
    <3>1. OnlyMoves(q) /\ proc'[q] = r /\ BucketGrows
      BY <1>0, <2>1, <2>3, Moves DEF BucketGrows
    <3>2. /\ r.pc = "source" /\ r.id = NextRevision(q) /\ r.frozen = proc[q].frozen
          /\ r.left = Present(proc[q].frozen)
      BY <1>0 DEF ProcState
    <3>3. PutSoFar(q)'
      BY <2>3, <3>1, <3>2 DEF PutSoFar, Present
    <3>4. \A x \in Proc : PutSoFar(x)'
      BY <1>0, <3>1, <3>3, OthersKeep DEF OnlyMoves
    <3> QED
      BY <1>0, <2>1, <3>1, <3>4, ReadersKeep DEF ServableInv
  <2> QED
    BY <1>4, <2>2, <2>3 DEF Decide
<1>5. ASSUME NEW q \in Proc, StartOutput(q) PROVE ServableInv'
  <2>1. OnlyMoves(q) /\ bucket' = bucket /\ log' = log /\ visitor' = visitor
    BY <1>0, <1>5, Moves DEF StartOutput
  <2>2. BucketGrows
    BY <2>1 DEF BucketGrows
  <2>3. /\ proc'[q] = [proc[q] EXCEPT !.pc = "out", !.left = Present(Output(q))]
        /\ proc[q].pc = "source" /\ proc[q].left = {}
    BY <1>0, <1>5, Moves DEF StartOutput, TypeOK, ServableInv
  <2>4. /\ proc'[q].pc = "out" /\ proc'[q].id = proc[q].id
        /\ proc'[q].frozen = proc[q].frozen /\ proc'[q].loaded = proc[q].loaded
        /\ proc'[q].left = Present(Output(q))
    BY <1>0, <2>3 DEF ProcState
  <2>5. Output(q)' = Output(q)
    BY <2>4 DEF Output
  <2>6. PutSoFar(q)'
    BY <1>0, <2>1, <2>3, <2>4, <2>5 DEF PutSoFar, Present
  <2>7. \A x \in Proc : PutSoFar(x)'
    BY <1>0, <2>1, <2>2, <2>6, OthersKeep DEF OnlyMoves
  <2> QED
    BY <1>0, <2>1, <2>2, <2>7, ReadersKeep DEF ServableInv
<1>6. ASSUME NEW q \in Proc, NEW p \in Part, PutSource(q, p) PROVE ServableInv'
  <2>1. OnlyMoves(q) /\ log' = log /\ visitor' = visitor
    BY <1>0, <1>6, PutMoves DEF PutSource
  <2>2. proc[q].id \in Rev /\ "source" \in Side /\ proc[q].frozen[p] # None
    BY <1>0, <1>6 DEF PutSource, PutSoFar, Present, Side
  <2>3. /\ BucketGrows
        /\ bucket'[proc[q].id]["source"][p] # None
    BY <1>0, <1>6, <2>2, PutGrows DEF PutSource
  <2>4. /\ proc'[q].pc = "source" /\ proc'[q].id = proc[q].id
        /\ proc'[q].frozen = proc[q].frozen
        /\ proc'[q].left = proc[q].left \ {p} /\ proc[q].pc = "source"
    BY <1>0, <1>6, PutMoves DEF PutSource
  <2>5. PutSoFar(q)'
    BY <1>0, <2>2, <2>3, <2>4 DEF PutSoFar, BucketGrows, Present
  <2>6. \A x \in Proc : PutSoFar(x)'
    BY <1>0, <2>1, <2>3, <2>5, OthersKeep DEF OnlyMoves
  <2> QED
    BY <1>0, <2>1, <2>3, <2>6, ReadersKeep DEF ServableInv
<1>7. ASSUME NEW q \in Proc, NEW p \in Part, PutOut(q, p) PROVE ServableInv'
  <2>1. OnlyMoves(q) /\ log' = log /\ visitor' = visitor
    BY <1>0, <1>7, PutMoves DEF PutOut
  <2>2. proc[q].id \in Rev /\ "source" \in Side /\ "out" \in Side /\ Output(q)[p] # None
    BY <1>0, <1>7 DEF PutOut, PutSoFar, Present, Side
  <2>4. /\ BucketGrows
        /\ bucket'[proc[q].id]["out"][p] # None
    BY <1>0, <1>7, <2>2, PutGrows DEF PutOut
  <2>5. /\ proc'[q].pc = "out" /\ proc'[q].id = proc[q].id
        /\ proc'[q].frozen = proc[q].frozen /\ proc'[q].loaded = proc[q].loaded
        /\ proc'[q].left = proc[q].left \ {p} /\ proc[q].pc = "out"
    BY <1>0, <1>7, PutMoves DEF PutOut
  <2>6. Output(q)' = Output(q)
    BY <2>5 DEF Output
  <2>7. PutSoFar(q)'
    BY <1>0, <2>2, <2>4, <2>5, <2>6 DEF PutSoFar, BucketGrows, Present
  <2>8. \A x \in Proc : PutSoFar(x)'
    BY <1>0, <2>1, <2>4, <2>7, OthersKeep DEF OnlyMoves
  <2> QED
    BY <1>0, <2>1, <2>4, <2>8, ReadersKeep DEF ServableInv
<1>8. ASSUME NEW q \in Proc, Record(q) PROVE ServableInv'
  <2>. DEFINE i == proc[q].id
              row == [basedOn |-> proc[q].basedOn, source |-> proc[q].frozen, out |-> Output(q)]
  <2>1. bucket' = bucket /\ visitor' = visitor /\ BucketGrows
    BY <1>8 DEF Record, BucketGrows
  <2>2. PICK r : proc' = [proc EXCEPT ![q] = r] /\ r.pc \notin {"source", "out"}
    <3>1. [proc[q] EXCEPT !.pc = "recorded"].pc = "recorded"
      BY <1>0 DEF ProcState
    <3>2. \/ proc' = [proc EXCEPT ![q] = [proc[q] EXCEPT !.pc = "recorded"]]
          \/ proc' = [proc EXCEPT ![q] = Ended("failed")]
      BY <1>8 DEF Record
    <3> QED
      BY <3>1, <3>2, EndedHow
  <2>3. OnlyMoves(q) /\ proc'[q] = r
    BY <1>0, <2>2, Moves
  <2>4. CASE log' = log
    BY <1>0, <2>1, <2>2, <2>4, QuietStep
  <2>5. CASE log[i] = None /\ log' = [log EXCEPT ![i] = row]
    <3>1. i \in Rev /\ proc[q].pc = "out" /\ proc[q].left = {}
      BY <1>0, <1>8 DEF Record, AllPut, PutSoFar
    <3>2. log'[i] = row /\ \A j \in Rev : j # i => log'[j] = log[j]
      BY <1>0, <2>5, <3>1 DEF TypeOK
    <3>3. Listed' \subseteq Listed \cup {i} /\ i \notin Listed
      BY <2>5, <3>2 DEF Listed
    <3>4. /\ Present(row.source) \subseteq Present(bucket[i]["source"])
          /\ Present(row.out) \subseteq Present(bucket[i]["out"])
      BY <1>0, <3>1 DEF PutSoFar, Present
    <3>5. RevisionServable'
      BY <2>1, <3>2, <3>3, <3>4 DEF RevisionServable, ServableInv, Listed, Present
    <3>6. \A v \in Visitor : AsksForListed(v)'
      <4>1. \A j \in Listed : j \in Listed' /\ log'[j] = log[j]
        BY <3>2, <3>3 DEF Listed
      <4> QED
        BY <2>1, <4>1 DEF ServableInv, AsksForListed, Present
    <3>7. \A x \in Proc : PutSoFar(x)'
      <4>1. PutSoFar(q)'
        BY <2>2, <2>3 DEF PutSoFar
      <4> QED
        BY <1>0, <2>1, <2>3, <4>1, OthersKeep DEF OnlyMoves
    <3> QED
      BY <1>0, <3>5, <3>6, <3>7 DEF ServableInv
  <2> QED
    BY <1>8, <2>4, <2>5 DEF Record
<1>9. ASSUME NEW v \in Visitor, Resolve(v) \/ Serve(v) PROVE ServableInv'
  <2>1. /\ BucketGrows /\ \A x \in Proc : proc'[x] = proc[x]
        /\ bucket' = bucket /\ log' = log
    BY <1>9 DEF Resolve, Serve, BucketGrows
  <2>2. \A x \in Proc : PutSoFar(x)'
    BY <1>0, <2>1, OthersKeep
  <2>3. Listed' = Listed /\ RevisionServable'
    BY <2>1 DEF Listed, ServableInv, RevisionServable, Present
  <2>4. visitor \in [Visitor -> VisitorState]
    BY <1>0 DEF TypeOK
  <2>5. AsksForListed(v)'
    <3>1. CASE Resolve(v)
      BY <3>1, <2>1, <2>3, <2>4 DEF Resolve, AsksForListed, Present
    <3>2. CASE Serve(v)
      <4>1. visitor[v].id \in Listed /\ visitor[v].part \in Present(log[visitor[v].id].out)
        BY <3>2 DEF ServableInv, AsksForListed, Serve
      <4>2. bucket[visitor[v].id]["out"][visitor[v].part] # None
        BY <4>1 DEF ServableInv, RevisionServable, Present
      <4>3. visitor' = [visitor EXCEPT ![v].pc = "served"]
        BY <3>2, <4>2 DEF Serve
      <4>4. visitor'[v].pc = "served"
        BY <2>4, <4>3 DEF VisitorState
      <4> QED
        BY <4>4 DEF AsksForListed
    <3> QED
      BY <1>9, <3>1, <3>2
  <2>6. ASSUME NEW w \in Visitor, w # v PROVE AsksForListed(w)'
    <3>1. visitor'[w] = visitor[w]
      BY <1>9, <2>4, <2>6 DEF Resolve, Serve
    <3> QED
      BY <2>1, <2>3, <3>1 DEF ServableInv, AsksForListed, Present
  <2> QED
    BY <1>0, <2>2, <2>3, <2>5, <2>6 DEF ServableInv
<1> QED
  BY <1>1, <1>2, <1>3, <1>4, <1>5, <1>6, <1>7, <1>8, <1>9 DEF Next, Publishes, ChecksOut, Proc

\* Whoever publishes under whatever number and stops wherever, a revision the
\* log lists can be served whole.
THEOREM ListedRevisionsAreServable == Spec => []RevisionServable
<1>1. ServableInv => RevisionServable
  BY DEF ServableInv
<1> QED
  BY <1>1, ServableInit, ServableStep, PTL DEF Spec

\* A visitor that resolved the live revision gets the file it asks for.
THEOREM VisitorsAreServed == Spec => []VisitorIsServed
<1>1. ServableInv => VisitorIsServed
  BY DEF ServableInv, VisitorIsServed, AsksForListed
<1> QED
  BY <1>1, ServableInit, ServableStep, PTL DEF Spec

-----------------------------------------------------------------------------
(* What a checkout overwrites.  OnlyUnseenIsLost is about an instant, the    *)
(* write, long after the reads it rests on: the strengthening follows an     *)
(* unforced checkout from part to part.                                      *)

\* What a checkout may take for published in a part.
Spared(p) == {None} \cup Kept(p) \cup mixed

\* What it compares with is spared; what it has read of the draft is there still, or
\* something came unseen; and with no difference between the two, what is there to
\* be overwritten is spared, or came unseen.
HasChecked(q) ==
    /\ proc[q].pc \in {"checking", "history", "freezing", "frozen"} => ~proc[q].force
    /\ proc[q].pc \in {"freezing", "frozen"} =>
           /\ \A p \in Part : proc[q].prev[p] \in Spared(p)
           /\ \A p \in Part \ proc[q].left : draft[p] \in {None, proc[q].frozen[p]} \cup late
    /\ proc[q].pc \in {"frozen", "clean", "named"} /\ ~proc[q].force => proc[q].left = {}
    /\ proc[q].pc \in {"clean", "named"} /\ ~proc[q].force =>
           \A p \in Part : draft[p] \in Spared(p) \cup late

LossInv ==
    /\ TypeOK
    /\ \A q \in Checkout : HasChecked(q) /\ proc[q].pc # "loaded"
    /\ OnlyUnseenIsLost

\* Nobody has checked anything at first.
LEMMA LossInit == Init => LossInv
<1>. SUFFICES ASSUME Init PROVE LossInv
  OBVIOUS
<1>1. \A q \in Checkout : proc[q].pc = "idle"
  BY DEF Init, Idle, Proc
<1> QED
  BY <1>1, TypeInit DEF Init, LossInv, HasChecked, OnlyUnseenIsLost

\* Rows stay, and so do the exceptions.
LEMMA SparedGrows ==
    ASSUME TypeOK, [Next]_vars
    PROVE  /\ \A p \in Part : Spared(p) \subseteq Spared(p)'
           /\ late \subseteq late'
<1>1. \A i \in Listed : i \in Listed' /\ log'[i] = log[i]
  <2>1. CASE UNCHANGED log
    BY <2>1 DEF Listed
  <2>2. ASSUME NEW q \in Proc, Record(q) PROVE \A i \in Listed : i \in Listed' /\ log'[i] = log[i]
    BY <2>2 DEF Record, Listed, TypeOK
  <2> QED
    BY <2>1, <2>2 DEF Next, vars, Publishes, ChecksOut, Proc, Edit, LoadDraft, ReadHistory, ReadPrevious,
       ReadPart, PutSource, PutOut, Decide, StartOutput, SetDraftBase, PickRevision, ReadWanted, CheckDirty,
       NameDraft, WriteDraft, Resolve, Serve
<1>2. mixed \subseteq mixed' /\ late \subseteq late'
  BY DEF Next, vars, Publishes, ChecksOut, Edit, LoadDraft, ReadHistory, ReadPrevious, Record,
     ReadPart, PutSource, PutOut, Decide, StartOutput, SetDraftBase, PickRevision, ReadWanted, CheckDirty,
     NameDraft, WriteDraft, Resolve, Serve
<1> QED
  BY <1>1, <1>2 DEF Spared, Kept

\* What replaces what an unforced checkout has read comes unseen, unless the checkout
\* writes it.
LEMMA DraftMoves ==
    ASSUME TypeOK, [Next]_vars, NEW q \in Checkout, NEW p \in Part, HasRead(q, p), ~WriteDraft(q)
    PROVE  draft'[p] \in {None, draft[p]} \cup late'
<1>1. CASE draft' = draft
  BY <1>1
<1>2. ASSUME NEW C, q \in C, late' = late \cup Unseen(C)
      PROVE  draft'[p] \in {None, draft[p]} \cup late'
  BY <1>2 DEF Unseen
<1>3. CASE \E x \in Part : Edit(x)
  BY <1>2, <1>3 DEF Edit
<1>4. ASSUME NEW x \in Checkout, WriteDraft(x) PROVE draft'[p] \in {None, draft[p]} \cup late'
  <2>1. x # q
    BY <1>4
  <2>2. q \in Checkout \ {x}
    BY <2>1
  <2> QED
    BY <1>2, <1>4, <2>2 DEF WriteDraft
<1> QED
  BY <1>1, <1>3, <1>4 DEF Next, vars, Publishes, ChecksOut, LoadDraft, ReadHistory, ReadPrevious, Record,
     ReadPart, PutSource, PutOut, Decide, StartOutput, SetDraftBase, PickRevision, ReadWanted, CheckDirty,
     NameDraft, Resolve, Serve

\* A checkout that does not move has checked what it had.
LEMMA StillChecked ==
    ASSUME TypeOK, [Next]_vars, NEW q \in Checkout, HasChecked(q), proc'[q] = proc[q]
    PROVE  HasChecked(q)'
<1>1. q \in Proc /\ proc[q] \in ProcState
  BY DEF Proc, TypeOK
<1>2. ~WriteDraft(q)
  <2>1. SUFFICES ASSUME WriteDraft(q) PROVE FALSE
    OBVIOUS
  <2>2. proc[q].pc = "named" /\ proc' = [proc EXCEPT ![q] = [proc[q] EXCEPT !.pc = "written"]]
    BY <2>1 DEF WriteDraft
  <2>3. proc'[q].pc = "written"
    BY <1>1, <2>2 DEF TypeOK, ProcState
  <2> QED
    BY <2>2, <2>3
<1>3. \A p \in Part : HasRead(q, p) => draft'[p] \in {None, draft[p]} \cup late'
  BY <1>2, DraftMoves
<1>4. \A p \in Part : None \in Spared(p)'
  BY DEF Spared
<1>5. ASSUME proc[q].pc \in {"freezing", "frozen"}, NEW p \in Part \ proc[q].left
      PROVE  draft'[p] \in {None, proc[q].frozen[p]} \cup late'
  <2>1. HasRead(q, p)
    BY <1>5 DEF HasRead, HasChecked
  <2> QED
    BY <1>3, <1>5, <2>1, SparedGrows DEF HasChecked
<1>6. ASSUME proc[q].pc \in {"clean", "named"}, ~proc[q].force, NEW p \in Part
      PROVE  draft'[p] \in Spared(p)' \cup late'
  <2>1. HasRead(q, p)
    BY <1>6 DEF HasRead, HasChecked
  <2> QED
    BY <1>3, <1>4, <1>6, <2>1, SparedGrows DEF HasChecked
<1>7. \A p \in Part : Spared(p) \subseteq Spared(p)'
  BY SparedGrows
<1> QED
  BY <1>5, <1>6, <1>7 DEF HasChecked

\* Every step of a checkout keeps what it has checked.
LEMMA StepChecks ==
    ASSUME LossInv, [Next]_vars, NEW q \in Checkout, proc'[q] # proc[q], ChecksOut(q)
    PROVE  HasChecked(q)' /\ proc'[q].pc # "loaded"
<1>0. TypeOK /\ q \in Proc /\ proc[q] \in ProcState /\ HasChecked(q)
  BY DEF Proc, TypeOK, LossInv
<1>1. (\A p \in Part : Spared(p) \subseteq Spared(p)') /\ late \subseteq late'
  BY <1>0, SparedGrows
<1>2. CASE PickRevision(q) \/ ReadWanted(q) \/ ReadHistory(q) \/ WriteDraft(q) \/ SetDraftBase(q)
  <2>1. /\ proc'[q].pc \in {"wanted", "clean", "checking", "history", "written", "done"}
        /\ proc'[q].pc = "clean" => proc'[q].force
        /\ proc'[q].pc \in {"checking", "history"} => ~proc'[q].force
    <3>1. CASE PickRevision(q)
      BY <1>0, <3>1 DEF PickRevision, TypeOK, ProcState
    <3>2. CASE ReadWanted(q)
      BY <1>0, <3>2 DEF ReadWanted, TypeOK, ProcState
    <3>3. CASE ReadHistory(q)
      BY <1>0, <3>3 DEF ReadHistory, TypeOK, ProcState, HasChecked, LossInv
    <3>4. CASE WriteDraft(q)
      BY <1>0, <3>4 DEF WriteDraft, TypeOK, ProcState
    <3>5. CASE SetDraftBase(q)
      BY <1>0, <3>5, EndedHow DEF SetDraftBase, TypeOK
    <3> QED
      BY <1>2, <3>1, <3>2, <3>3, <3>4, <3>5
  <2> QED
    BY <2>1 DEF HasChecked
<1>3. CASE ReadPrevious(q)
  <2>1. /\ proc'[q].pc = "freezing" /\ proc'[q].left = Part /\ proc'[q].prev = SourceOf(proc[q].live)
        /\ proc'[q].force = proc[q].force /\ ~proc[q].force
    BY <1>0, <1>3 DEF ReadPrevious, TypeOK, ProcState, HasChecked
  <2>2. ASSUME NEW p \in Part PROVE SourceOf(proc[q].live)[p] \in Spared(p)'
    <3>1. CASE proc[q].live \notin Listed
      BY <3>1 DEF SourceOf, Empty, Spared
    <3>2. CASE proc[q].live \in Listed
      <4>1. CASE SourceOf(proc[q].live)[p] = log[proc[q].live].source[p]
        <5>1. SourceOf(proc[q].live)[p] \in Spared(p)
          BY <3>2, <4>1 DEF Spared, Kept
        <5> QED
          BY <1>1, <5>1
      <4>2. CASE SourceOf(proc[q].live)[p] # log[proc[q].live].source[p]
        <5>1. SourceOf(proc[q].live)[p] # None => SourceOf(proc[q].live)[p] \in Foreign(proc[q].live)
          BY <4>2 DEF Foreign, Present
        <5> QED
          BY <1>3, <5>1 DEF ReadPrevious, Spared
      <4> QED
        BY <4>1, <4>2
    <3> QED
      BY <3>1, <3>2
  <2> QED
    BY <2>1, <2>2 DEF HasChecked
<1>4. ASSUME NEW p \in Part, ReadPart(q, p) PROVE HasChecked(q)' /\ proc'[q].pc # "loaded"
  <2>1. /\ proc[q].pc = "freezing" /\ proc'[q].pc \in {"freezing", "frozen"}
        /\ proc'[q].pc = "frozen" => proc'[q].left = {}
        /\ proc'[q].left = proc[q].left \ {p} /\ proc'[q].prev = proc[q].prev
        /\ proc'[q].force = proc[q].force
        /\ proc'[q].frozen = [proc[q].frozen EXCEPT ![p] = draft[p]]
        /\ draft' = draft
    BY <1>0, <1>4 DEF ReadPart, TypeOK, ProcState
  <2>2. \A x \in Part : proc'[q].frozen[x] = IF x = p THEN draft[p] ELSE proc[q].frozen[x]
    BY <1>0, <2>1 DEF ProcState, Snapshot
  <2> QED
    BY <1>0, <1>1, <2>1, <2>2 DEF HasChecked
<1>5. CASE CheckDirty(q)
  <2>1. CASE NoChanges(q)
    <3>1. /\ proc[q].pc = "frozen" /\ proc[q].frozen = proc[q].prev
          /\ proc'[q] = [proc[q] EXCEPT !.pc = "clean"] /\ draft' = draft
      BY <1>0, <1>5, <2>1 DEF CheckDirty, NoChanges, TypeOK
    <3>2. \A p \in Part : draft[p] \in Spared(p) \cup late
      BY <1>0, <3>1 DEF HasChecked, Spared
    <3> QED
      BY <1>0, <1>1, <3>1, <3>2 DEF HasChecked, ProcState
  <2>2. CASE ~NoChanges(q)
    <3>1. proc'[q].pc = "failed"
      BY <1>0, <1>5, <2>2, EndedHow DEF CheckDirty, TypeOK
    <3> QED
      BY <3>1 DEF HasChecked
  <2> QED
    BY <2>1, <2>2
<1>6. CASE NameDraft(q)
  <2>1. /\ proc[q].pc = "clean" /\ proc'[q].pc = "named" /\ draft' = draft
        /\ proc'[q].left = proc[q].left /\ proc'[q].force = proc[q].force
    BY <1>0, <1>6 DEF NameDraft, TypeOK, ProcState
  <2> QED
    BY <1>0, <1>1, <2>1 DEF HasChecked
<1> QED
  BY <1>2, <1>3, <1>4, <1>5, <1>6 DEF ChecksOut

\* Every step keeps it: what is lost was spared by nothing, hence came unseen or was
\* taken for published.
LEMMA LossStep == LossInv /\ [Next]_vars => LossInv'
<1>. SUFFICES ASSUME LossInv, [Next]_vars PROVE LossInv'
  OBVIOUS
<1>0. TypeOK /\ TypeOK'
  BY TypeStep DEF LossInv
<1>1. ASSUME NEW q \in Checkout PROVE HasChecked(q)' /\ proc'[q].pc # "loaded"
  <2>1. CASE proc'[q] = proc[q]
    BY <1>0, <2>1, StillChecked DEF LossInv
  <2>2. CASE proc'[q] # proc[q]
    <3>1. ASSUME NEW x \in Proc, x # q, Publishes(x) \/ ChecksOut(x) PROVE proc'[q] = proc[q]
      <4>1. \/ \E r : proc' = [proc EXCEPT ![x] = r]
            \/ \E p \in Part : PutSource(x, p) \/ PutOut(x, p)
            \/ WriteDraft(x)
        BY <3>1 DEF Publishes, ChecksOut, LoadDraft, ReadHistory, ReadPrevious, Record, ReadPart, Decide,
           StartOutput, SetDraftBase, PickRevision, ReadWanted, CheckDirty, NameDraft
      <4> QED
        BY <1>0, <3>1, <4>1 DEF TypeOK, PutSource, PutOut, WriteDraft, Proc
    <3>2. ChecksOut(q)
      BY <2>2, <3>1, RolesAreApart DEF Next, vars, Proc, Edit, Resolve, Serve
    <3> QED
      BY <2>2, <3>2, StepChecks
  <2> QED
    BY <2>1, <2>2
<1>2. OnlyUnseenIsLost'
  <2>1. late \subseteq late' /\ mixed \subseteq mixed'
    BY DEF Next, vars, Publishes, ChecksOut, Edit, LoadDraft, ReadHistory, ReadPrevious, Record,
       ReadPart, PutSource, PutOut, Decide, StartOutput, SetDraftBase, PickRevision, ReadWanted, CheckDirty,
       NameDraft, WriteDraft, Resolve, Serve
  <2>2. CASE lost' = lost
    BY <2>1, <2>2 DEF LossInv, OnlyUnseenIsLost
  <2>3. ASSUME NEW q \in Checkout, WriteDraft(q), lost' # lost PROVE OnlyUnseenIsLost'
    <3>1. /\ proc[q].pc = "named" /\ ~proc[q].force
          /\ \A c \in lost' \ lost : \E p \in Present(draft) : c = draft[p] /\ c \notin Kept(p)
      BY <2>3 DEF WriteDraft
    <3>2. \A p \in Present(draft) : draft[p] \in Kept(p) \cup mixed \cup late
      BY <3>1 DEF LossInv, HasChecked, Spared, Present
    <3> QED
      BY <2>1, <3>1, <3>2 DEF LossInv, OnlyUnseenIsLost
  <2> QED
    BY <2>2, <2>3 DEF Next, vars, Publishes, ChecksOut, Edit, LoadDraft, ReadHistory, ReadPrevious, Record,
       ReadPart, PutSource, PutOut, Decide, StartOutput, SetDraftBase, PickRevision, ReadWanted, CheckDirty,
       NameDraft, Resolve, Serve
<1> QED
  BY <1>0, <1>1, <1>2 DEF LossInv

\* OnlyUnseenIsLost: an unforced checkout overwrites what a revision has, what was
\* put after it had read that part, or what it was shown as published, however many
\* edits, publishes and checkouts run between its look at the draft and its write.
THEOREM CheckoutsKeepWork == Spec => []OnlyUnseenIsLost
<1>1. LossInv => OnlyUnseenIsLost
  BY DEF LossInv
<1> QED
  BY <1>1, LossInit, LossStep, PTL DEF Spec

-----------------------------------------------------------------------------
(* Lineage, and the refinement.  That a parent is older is not inductive:   *)
(* what a request recorded was read at different times, from a log that grew *)
(* meanwhile.  The strengthening says that whatever number a request holds   *)
(* names a revision that was listed when it was read, hence still is, and    *)
(* that the log has no gap: a number that is free is above every listed one. *)

\* The numbers that may be held: none, or a listed revision's.
Known == {0} \cup Listed

\* What a request q in state r knows of the log.
Knows(q, r) ==
    /\ r.pc \in {"history", "freezing", "frozen"} => r.live \in Known
    /\ r.pc \in {"source", "out"} => /\ r.id \in Rev /\ r.id - 1 \in Known
                                    /\ r.basedOn \in Known
    /\ r.pc \in {"recorded", "wanted", "checking", "clean", "named", "written"} =>
           r.id \in Listed
    /\ q \in Checkout => /\ r.pc # "loaded"
                         /\ r.pc \in {"history", "freezing", "frozen"} => r.id \in Listed

Contiguous == \A i \in Listed : \A j \in 1..i : j \in Listed

LineageInv ==
    /\ TypeOK
    /\ \A q \in Proc : Knows(q, proc[q])
    /\ base \in Known
    /\ Contiguous
    /\ LineageDescends

\* There is no revision at first.
LEMMA LineageInit == Init => LineageInv
<1>. SUFFICES ASSUME Init PROVE LineageInv
  OBVIOUS
<1>1. Listed = {} /\ base = 0
  BY DEF Init, Listed
<1>2. \A q \in Proc : Knows(q, proc[q])
  BY DEF Init, Idle, Knows
<1> QED
  BY <1>1, <1>2, TypeInit DEF LineageInv, Known, Contiguous, LineageDescends

\* What is known stays known while the log grows.
LEMMA KnownGrows ==
    ASSUME NEW q, NEW r, Knows(q, r), Listed \subseteq Listed'
    PROVE  Knows(q, r)'
  BY DEF Knows, Known

\* A step of q that leaves the log.
LEMMA LogStays ==
    ASSUME LineageInv, TypeOK', NEW q \in Proc, NEW r, Knows(q, r),
           proc' = [proc EXCEPT ![q] = r], log' = log, base' \in Known
    PROVE  LineageInv'
<1>1. Listed' = Listed /\ Known' = Known
  BY DEF Listed, Known
<1>2. OnlyMoves(q) /\ proc'[q] = r
  BY Moves DEF LineageInv
<1>3. \A x \in Proc : Knows(x, proc[x])'
  BY <1>1, <1>2 DEF OnlyMoves, LineageInv, Knows
<1>4. Contiguous' /\ LineageDescends'
  BY <1>1 DEF LineageInv, Contiguous, LineageDescends
<1> QED
  BY <1>1, <1>3, <1>4 DEF LineageInv

\* A request that is over knows nothing.
LEMMA EndedKnows ==
    ASSUME NEW q, NEW how \in {"done", "unchanged", "failed"}
    PROVE  Knows(q, Ended(how))
<1>1. Ended(how).pc = how
  BY EndedHow
<1> QED
  BY <1>1 DEF Knows

\* A free number is one past the listed ones when the one before it is listed.
LEMMA FreeIsNext ==
    ASSUME LineageInv, NEW i \in Rev, i \notin Listed, i - 1 \in Known
    PROVE  /\ \A j \in 1..(i - 1) : j \in Listed
           /\ \A b \in Known : b \in 0..(i - 1)
<1>0. Rev \subseteq Nat \ {0} /\ Listed \subseteq Rev
  BY BoundsAreNat DEF Rev, Listed
<1>1. \A j \in 1..(i - 1) : j \in Listed
  BY <1>0 DEF LineageInv, Contiguous, Known
<1>2. ASSUME NEW b \in Listed PROVE b \in 0..(i - 1)
  <2>1. CASE b > i
    <3>1. i \in 1..b
      BY <1>0, <2>1
    <3> QED
      BY <3>1, <1>2 DEF LineageInv, Contiguous
  <2>2. b # i
    BY <1>2
  <2> QED
    BY <1>0, <2>1, <2>2
<1>3. 0 \in 0..(i - 1)
  BY <1>0
<1> QED
  BY <1>1, <1>2, <1>3 DEF Known

\* What recording a row does to the log.
LEMMA RecordLists ==
    ASSUME LineageInv, NEW q \in Proc, Record(q), log' # log
    PROVE  /\ proc[q].id \in Rev \ Listed
           /\ Listed' = Listed \cup {proc[q].id}
           /\ \A i \in Listed : log'[i] = log[i]
           /\ log'[proc[q].id].basedOn = proc[q].basedOn
           /\ proc[q].basedOn \in Known /\ proc[q].id - 1 \in Known
           /\ proc' = [proc EXCEPT ![q] = [proc[q] EXCEPT !.pc = "recorded"]]
<1>. DEFINE i == proc[q].id
            row == [basedOn |-> proc[q].basedOn, source |-> proc[q].frozen, out |-> Output(q)]
<1>1. proc[q] \in ProcState /\ TypeOK
  BY DEF LineageInv, TypeOK
<1>2. /\ log[i] = None /\ log' = [log EXCEPT ![i] = row]
      /\ proc' = [proc EXCEPT ![q] = [proc[q] EXCEPT !.pc = "recorded"]]
  BY DEF Record
<1>3. i \in Rev /\ i - 1 \in Known /\ proc[q].basedOn \in Known
  BY DEF Record, AllPut, LineageInv, Knows
<1>4. row \in Row
  BY <1>1, OutputIsTyped DEF Row, ProcState
<1>5. row # None
  BY <1>4, NoneIsNoRow
<1>6. log'[i] = row /\ \A j \in Rev : j # i => log'[j] = log[j]
  BY <1>1, <1>2, <1>3 DEF TypeOK
<1>7. i \notin Listed
  BY <1>2 DEF Listed
<1>8. Listed' = Listed \cup {i}
  BY <1>3, <1>5, <1>6 DEF Listed
<1>9. \A j \in Listed : log'[j] = log[j]
  BY <1>6, <1>7 DEF Listed
<1>10. log'[i].basedOn = proc[q].basedOn
  BY <1>6
<1> QED
  BY <1>2, <1>3, <1>7, <1>8, <1>9, <1>10

\* Every step keeps numbers known and the log without a gap.
LEMMA LineageStep == LineageInv /\ [Next]_vars => LineageInv'
<1>. SUFFICES ASSUME LineageInv, [Next]_vars PROVE LineageInv'
  OBVIOUS
<1>0. /\ TypeOK /\ TypeOK' /\ base \in Known
      /\ \A q \in Proc : proc[q] \in ProcState /\ Knows(q, proc[q])
  BY TypeStep DEF LineageInv, TypeOK
<1>1. CASE \/ UNCHANGED vars
           \/ \E p \in Part : Edit(p)
           \/ \E v \in Visitor : Resolve(v) \/ Serve(v)
  <2>1. proc' = proc /\ log' = log /\ base' = base
    BY <1>1 DEF vars, Edit, Resolve, Serve
  <2>2. Listed' = Listed /\ Known' = Known
    BY <2>1 DEF Listed, Known
  <2> QED
    BY <1>0, <2>1, <2>2 DEF LineageInv, Contiguous, LineageDescends, Knows
<1>2. ASSUME NEW q \in Publisher, LoadDraft(q) PROVE LineageInv'
  <2>. DEFINE r == [proc[q] EXCEPT !.pc = "loaded", !.loaded = draft]
  <2>0. q \in Proc /\ q \notin Checkout
    BY RolesAreApart DEF Proc
  <2>1. r.pc = "loaded"
    BY <1>0, <2>0 DEF ProcState
  <2>2. Knows(q, r)
    BY <2>0, <2>1 DEF Knows
  <2>3. PICK s : proc' = [proc EXCEPT ![q] = s] /\ Knows(q, s)
    BY <1>2, <2>2, EndedKnows DEF LoadDraft
  <2> QED
    BY <1>0, <1>2, <2>0, <2>3, LogStays DEF LoadDraft
<1>3. ASSUME NEW q \in Proc, ReadHistory(q) PROVE LineageInv'
  <2>1. PICK l \in {0} \cup Rev :
            Highest(l) /\ proc' = [proc EXCEPT ![q] = [proc[q] EXCEPT !.pc = "history", !.live = l]]
    BY <1>3 DEF ReadHistory
  <2>. DEFINE r == [proc[q] EXCEPT !.pc = "history", !.live = l]
  <2>2. r.pc = "history" /\ r.live = l /\ r.id = proc[q].id
    BY <1>0 DEF ProcState
  <2>3. l \in Known
    BY <2>1 DEF Highest, Known
  <2>4. Knows(q, r)
    BY <1>0, <1>3, <2>2, <2>3 DEF Knows, ReadHistory
  <2> QED
    BY <1>0, <1>3, <2>1, <2>4, LogStays DEF ReadHistory
<1>4. ASSUME NEW q \in Proc, ReadPrevious(q) PROVE LineageInv'
  <2>. DEFINE r == [proc[q] EXCEPT !.pc = "freezing", !.left = Part,
                                   !.prev = SourceOf(proc[q].live)]
  <2>1. r.pc = "freezing" /\ r.live = proc[q].live /\ r.id = proc[q].id
    BY <1>0 DEF ProcState
  <2>2. Knows(q, r)
    BY <1>0, <1>4, <2>1 DEF Knows, ReadPrevious
  <2> QED
    BY <1>0, <1>4, <2>2, LogStays DEF ReadPrevious
<1>5. ASSUME NEW q \in Proc, NEW p \in Part, ReadPart(q, p) PROVE LineageInv'
  <2>. DEFINE f == [proc[q].frozen EXCEPT ![p] = draft[p]]
              pc == IF proc[q].left = {p} THEN "frozen" ELSE "freezing"
              r == [proc[q] EXCEPT !.left = proc[q].left \ {p}, !.frozen = f, !.pc = pc]
  <2>1. proc' = [proc EXCEPT ![q] = r]
    BY <1>5 DEF ReadPart
  <2>2. pc \in {"freezing", "frozen"}
    OBVIOUS
  <2>. HIDE DEF f, pc
  <2>3. r.pc = pc /\ r.live = proc[q].live /\ r.id = proc[q].id
    BY <1>0 DEF ProcState
  <2>4. proc[q].live \in Known /\ (q \in Checkout => proc[q].id \in Listed)
    BY <1>0, <1>5 DEF Knows, ReadPart
  <2>. HIDE DEF r
  <2>5. Knows(q, r)
    BY <2>2, <2>3, <2>4 DEF Knows
  <2> QED
    BY <1>0, <1>5, <2>1, <2>5, LogStays DEF ReadPart
<1>6. ASSUME NEW q \in Publisher, Decide(q) PROVE LineageInv'
  <2>. DEFINE r == [proc[q] EXCEPT !.pc = "source", !.id = NextRevision(q), !.basedOn = base,
                                   !.left = Present(proc[q].frozen), !.prev = Empty]
  <2>0. q \in Proc /\ q \notin Checkout
    BY RolesAreApart DEF Proc
  <2>1. r.pc = "source" /\ r.id = NextRevision(q) /\ r.basedOn = base
    BY <1>0, <2>0 DEF ProcState
  <2>2. proc[q].live \in Known
    BY <1>0, <1>6, <2>0 DEF Knows, Decide
  <2>3. NextRevision(q) - 1 = proc[q].live
    BY <2>2, BoundsAreNat DEF NextRevision, Known, Listed, Rev
  <2>4. NextRevision(q) \in Rev => Knows(q, r)
    BY <1>0, <2>0, <2>1, <2>2, <2>3 DEF Knows
  <2>5. PICK s : proc' = [proc EXCEPT ![q] = s] /\ Knows(q, s)
    BY <1>6, <2>4, EndedKnows DEF Decide
  <2> QED
    BY <1>0, <1>6, <2>0, <2>5, LogStays DEF Decide
<1>7. ASSUME NEW q \in Proc, StartOutput(q) PROVE LineageInv'
  <2>. DEFINE r == [proc[q] EXCEPT !.pc = "out", !.left = Present(Output(q))]
  <2>1. r.pc = "out" /\ r.id = proc[q].id /\ r.basedOn = proc[q].basedOn
    BY <1>0 DEF ProcState
  <2>2. Knows(q, r)
    BY <1>0, <1>7, <2>1 DEF Knows, StartOutput
  <2> QED
    BY <1>0, <1>7, <2>2, LogStays DEF StartOutput
<1>8. ASSUME NEW q \in Proc, NEW p \in Part, PutSource(q, p) \/ PutOut(q, p)
      PROVE  LineageInv'
  <2>. DEFINE r == [proc[q] EXCEPT !.left = proc[q].left \ {p}]
  <2>1. proc' = [proc EXCEPT ![q] = r] /\ log' = log /\ base' = base
    BY <1>8 DEF PutSource, PutOut
  <2>2. r.pc = proc[q].pc /\ r.id = proc[q].id /\ r.basedOn = proc[q].basedOn
    BY <1>0 DEF ProcState
  <2>3. proc[q].pc \in {"source", "out"}
    BY <1>8 DEF PutSource, PutOut
  <2>. HIDE DEF r
  <2>4. Knows(q, r)
    BY <1>0, <2>2, <2>3 DEF Knows
  <2> QED
    BY <1>0, <2>1, <2>4, LogStays
<1>9. ASSUME NEW q \in Proc, Record(q) PROVE LineageInv'
  <2>. DEFINE r == [proc[q] EXCEPT !.pc = "recorded"]
              i == proc[q].id
  <2>1. CASE log' = log
    <3>1. i \in Rev /\ proc[q].pc = "out"
      BY <1>0, <1>9 DEF Record, AllPut, Knows
    <3>2. \A y \in Row : [log EXCEPT ![i] = y][i] = y
      BY <1>0, <3>1 DEF TypeOK
    <3>3. [basedOn |-> proc[q].basedOn, source |-> proc[q].frozen, out |-> Output(q)] \in Row
      BY <1>0, OutputIsTyped DEF Row, ProcState
    <3>4. proc' = [proc EXCEPT ![q] = Ended("failed")]
      BY <1>9, <2>1, <3>2, <3>3, NoneIsNoRow DEF Record
    <3> QED
      BY <1>0, <1>9, <2>1, <3>4, EndedKnows, LogStays DEF Record
  <2>2. CASE log' # log
    <3>1. /\ i \in Rev \ Listed /\ Listed' = Listed \cup {i}
          /\ \A j \in Listed : log'[j] = log[j]
          /\ log'[i].basedOn = proc[q].basedOn
          /\ proc[q].basedOn \in Known /\ i - 1 \in Known
          /\ proc' = [proc EXCEPT ![q] = r]
      BY <1>9, <2>2, RecordLists
    <3>2. /\ \A j \in 1..(i - 1) : j \in Listed
          /\ proc[q].basedOn \in 0..(i - 1)
      BY <3>1, FreeIsNext
    <3>3. Contiguous'
      <4>1. \A j \in 1..i : j = i \/ j \in 1..(i - 1)
        BY <3>1, BoundsAreNat DEF Rev
      <4> QED
        BY <3>1, <3>2, <4>1 DEF LineageInv, Contiguous
    <3>4. LineageDescends'
      <4>1. proc[q].basedOn < i
        BY <3>1, <3>2, BoundsAreNat DEF Rev
      <4> QED
        BY <3>1, <4>1 DEF LineageInv, LineageDescends
    <3>5. base' \in Known'
      BY <1>0, <1>9, <3>1 DEF Record, Known
    <3>6. OnlyMoves(q) /\ proc'[q] = r
      BY <1>0, <3>1, Moves
    <3>7. r.pc = "recorded" /\ r.id = i
      BY <1>0 DEF ProcState
    <3>. HIDE DEF r, i
    <3>8. Knows(q, proc[q])'
      <4>1. proc'[q].pc = "recorded" /\ proc'[q].id \in Listed'
        BY <3>1, <3>6, <3>7
      <4> QED
        BY <4>1 DEF Knows
    <3>9. ASSUME NEW x \in Proc, x # q PROVE Knows(x, proc[x])'
      <4>1. proc'[x] = proc[x] /\ Knows(x, proc[x])
        BY <1>0, <3>6, <3>9 DEF OnlyMoves
      <4> QED
        BY <3>1, <4>1 DEF Knows, Known
    <3> QED
      BY <1>0, <3>3, <3>4, <3>5, <3>8, <3>9 DEF LineageInv
  <2> QED
    BY <2>1, <2>2
<1>10. ASSUME NEW q \in Proc, SetDraftBase(q) PROVE LineageInv'
  <2>1. proc[q].id \in Listed
    BY <1>0, <1>10 DEF SetDraftBase, Knows
  <2>2. base' \in Known /\ log' = log /\ proc' = [proc EXCEPT ![q] = Ended("done")]
    BY <1>10, <2>1 DEF SetDraftBase, Known
  <2> QED
    BY <1>0, <2>2, EndedKnows, LogStays
<1>11. ASSUME NEW q \in Proc, PickRevision(q) PROVE LineageInv'
  <2>1. PICK i \in Listed, f \in BOOLEAN :
            proc' = [proc EXCEPT ![q] = [proc[q] EXCEPT !.pc = "wanted", !.id = i, !.force = f]]
    BY <1>11 DEF PickRevision
  <2>. DEFINE r == [proc[q] EXCEPT !.pc = "wanted", !.id = i, !.force = f]
  <2>2. r.pc = "wanted" /\ r.id = i
    BY <1>0 DEF ProcState
  <2>3. Knows(q, r)
    BY <2>2 DEF Knows
  <2> QED
    BY <1>0, <1>11, <2>1, <2>3, LogStays DEF PickRevision
<1>12. ASSUME NEW q \in Proc, ReadWanted(q) PROVE LineageInv'
  <2>. DEFINE pc == IF proc[q].force THEN "clean" ELSE "checking"
              r == [proc[q] EXCEPT !.wanted = SourceOf(proc[q].id), !.pc = pc]
  <2>1. proc' = [proc EXCEPT ![q] = r] /\ pc \in {"clean", "checking"}
    BY <1>12 DEF ReadWanted
  <2>2. proc[q].id \in Listed
    BY <1>0, <1>12 DEF ReadWanted, Knows
  <2>. HIDE DEF pc
  <2>3. r.pc = pc /\ r.id = proc[q].id
    BY <1>0 DEF ProcState
  <2>. HIDE DEF r
  <2>4. Knows(q, r)
    BY <2>1, <2>2, <2>3 DEF Knows
  <2> QED
    BY <1>0, <1>12, <2>1, <2>4, LogStays DEF ReadWanted
<1>13. ASSUME NEW q \in Checkout, CheckDirty(q) PROVE LineageInv'
  <2>. DEFINE r == [proc[q] EXCEPT !.pc = "clean"]
  <2>0. q \in Proc
    BY DEF Proc
  <2>1. r.pc = "clean" /\ r.id = proc[q].id
    BY <1>0, <2>0 DEF ProcState
  <2>2. Knows(q, r)
    BY <1>0, <1>13, <2>0, <2>1 DEF Knows, CheckDirty
  <2>3. PICK s : proc' = [proc EXCEPT ![q] = s] /\ Knows(q, s)
    BY <1>13, <2>2, EndedKnows DEF CheckDirty
  <2> QED
    BY <1>0, <1>13, <2>0, <2>3, LogStays DEF CheckDirty
<1>14. ASSUME NEW q \in Proc, NameDraft(q) PROVE LineageInv'
  <2>. DEFINE r == [proc[q] EXCEPT !.pc = "named", !.names = Present(draft)]
  <2>1. r.pc = "named" /\ r.id = proc[q].id
    BY <1>0 DEF ProcState
  <2>2. Knows(q, r)
    BY <1>0, <1>14, <2>1 DEF Knows, NameDraft
  <2>3. proc' = [proc EXCEPT ![q] = r] /\ log' = log /\ base' = base
    BY <1>14 DEF NameDraft
  <2> QED
    BY <1>0, <2>2, <2>3, LogStays
<1>15. ASSUME NEW q \in Proc, WriteDraft(q) PROVE LineageInv'
  <2>. DEFINE r == [proc[q] EXCEPT !.pc = "written"]
  <2>1. r.pc = "written" /\ r.id = proc[q].id
    BY <1>0 DEF ProcState
  <2>2. Knows(q, r)
    BY <1>0, <1>15, <2>1 DEF Knows, WriteDraft
  <2>3. proc' = [proc EXCEPT ![q] = r] /\ log' = log /\ base' = base
    BY <1>15 DEF WriteDraft
  <2> QED
    BY <1>0, <2>2, <2>3, LogStays
<1> QED
  BY <1>1, <1>2, <1>3, <1>4, <1>5, <1>6, <1>7, <1>8, <1>9, <1>10, <1>11, <1>12, <1>13, <1>14, <1>15
     DEF Next, Publishes, ChecksOut, Proc

\* A revision descends from an older one, whatever was published, checked out
\* or abandoned between a publish's reads and its insert.
THEOREM LineageIsForward == Spec => []LineageDescends
<1>1. LineageInv => LineageDescends
  BY DEF LineageInv
<1> QED
  BY <1>1, LineageInit, LineageStep, PTL DEF Spec

\* "Live is the highest number" (revision-model.ts): a listed row stays as it is, and
\* live stays or becomes the next number.
LiveMovesOn ==
    /\ \A i \in Listed : i \in Listed' /\ log'[i] = log[i]
    /\ \A l, m \in {0} \cup Rev : Highest(l) /\ Highest(m)' => m \in {l, l + 1}

\* No publish, checkout or stop changes a listed row, takes live back or makes it skip
\* a number, though a publish inserts under a number it computed from an older log.
THEOREM LiveOnlyMovesOn == Spec => [][LiveMovesOn]_vars
<1>0. Rev \subseteq Nat \ {0} /\ Listed \subseteq Rev /\ Listed' \subseteq Rev
  BY BoundsAreNat DEF Rev, Listed
<1>1. ASSUME log' = log PROVE LiveMovesOn
  <2>1. Listed' = Listed
    BY <1>1 DEF Listed
  <2>2. ASSUME NEW l \in {0} \cup Rev, NEW m \in {0} \cup Rev, Highest(l), Highest(m)' PROVE m = l
    BY <1>0, <2>1, <2>2 DEF Highest
  <2> QED
    BY <1>1, <2>1, <2>2 DEF LiveMovesOn
<1>2. ASSUME LineageInv, NEW q \in Proc, Record(q), log' # log PROVE LiveMovesOn
  <2>. DEFINE i == proc[q].id
  <2>1. /\ i \in Rev \ Listed /\ Listed' = Listed \cup {i} /\ i - 1 \in Known
        /\ \A j \in Listed : log'[j] = log[j]
    BY <1>2, RecordLists
  <2> HIDE DEF i
  <2>2. ASSUME NEW l \in {0} \cup Rev, NEW m \in {0} \cup Rev, Highest(l), Highest(m)'
        PROVE  m = l + 1
    <3>1. /\ i \in Nat /\ l \in Nat /\ m \in Nat /\ i > 0
          /\ \A j \in Listed : j \in Nat /\ j > 0 /\ j <= l
      BY <1>0, <2>1, <2>2 DEF Highest
    <3>2. l >= i - 1
      BY <2>1, <3>1 DEF Known
    <3>3. l < i
      <4>1. SUFFICES ASSUME l >= i PROVE FALSE
        BY <3>1
      <4>2. l \in Listed /\ i \in 1..l
        BY <2>2, <3>1, <4>1 DEF Highest
      <4> QED
        BY <1>2, <2>1, <4>2 DEF LineageInv, Contiguous
    <3>4. m \in {0} \cup Listed \cup {i} /\ i <= m
      BY <2>1, <2>2 DEF Highest
    <3>5. m = i
      BY <3>1, <3>3, <3>4
    <3> QED
      BY <3>1, <3>2, <3>3, <3>5
  <2> QED
    BY <2>1, <2>2 DEF LiveMovesOn
<1>3. LineageInv /\ [Next]_vars => [LiveMovesOn]_vars
  BY <1>1, <1>2 DEF Next, vars, Publishes, ChecksOut, Proc, Edit, LoadDraft, ReadHistory, ReadPrevious,
     ReadPart, PutSource, PutOut, Decide, StartOutput, Record, SetDraftBase, PickRevision, ReadWanted,
     CheckDirty, NameDraft, WriteDraft, Resolve, Serve
<1> QED
  BY <1>3, LineageInit, LineageStep, PTL DEF Spec

-----------------------------------------------------------------------------
(* Under the mapping, recording a row is RevisionLog's Publish, re-parenting *)
(* the draft is its Reparent, and every other step stutters.                 *)

Parent == [i \in Rev |-> IF log[i] = None THEN None ELSE log[i].basedOn]

\* What the abstract log has published is what has a row.
LEMMA PublishedIsListed == TypeOK => Log!Published = Listed
<1>. SUFFICES ASSUME TypeOK PROVE Log!Published = Listed
  OBVIOUS
<1>1. \A i \in Listed : log[i].basedOn \in {0} \cup Rev
  BY DEF TypeOK, Listed, Row
<1>2. \A i \in Listed : log[i].basedOn # None
  BY <1>1, BoundsAreNat, NoneIsNoNumber DEF Rev
<1> QED
  BY <1>2 DEF Log!Published, Listed, Rev

\* The abstract log is empty at first.
LEMMA LogInit == Init => Log!Init
  BY DEF Init, Log!Init, Rev

\* Every step is one of the abstract log's, or leaves it as it is.
LEMMA LogStep ==
    LineageInv /\ LineageInv' /\ [Next]_vars =>
        [Log!Publish \/ Log!Reparent]_<<Parent, base>>
<1>. SUFFICES ASSUME LineageInv, LineageInv', [Next]_vars
              PROVE  [Log!Publish \/ Log!Reparent]_<<Parent, base>>
  OBVIOUS
<1>1. ASSUME log' = log, base' = base PROVE UNCHANGED <<Parent, base>>
  BY <1>1 DEF Parent
<1>2. ASSUME NEW q \in Proc, Record(q), log' # log PROVE Log!Publish
  <2>. DEFINE i == proc[q].id
              b == proc[q].basedOn
  <2>1. /\ i \in Rev \ Listed /\ Listed' = Listed \cup {i}
        /\ \A j \in Listed : log'[j] = log[j]
        /\ log'[i].basedOn = b /\ b \in Known /\ i - 1 \in Known
    BY <1>2, RecordLists
  <2>2. (\A j \in 1..(i - 1) : j \in Listed) /\ b \in 0..(i - 1)
    BY <2>1, FreeIsNext
  <2>3. Log!Published = Listed
    BY PublishedIsListed DEF LineageInv
  <2>4. Parent' = [Parent EXCEPT ![i] = b]
    <3>1. log'[i] # None /\ log[i] = None
      BY <2>1 DEF Listed
    <3>2. \A j \in Rev : j # i => (log'[j] = None <=> log[j] = None)
      BY <2>1 DEF Listed
    <3>3. \A j \in Rev : Parent'[j] = IF j = i THEN b ELSE Parent[j]
      BY <2>1, <3>1, <3>2 DEF Parent, Listed
    <3> QED
      BY <2>1, <3>3 DEF Parent
  <2>5. base' = base
    BY <1>2 DEF Record
  <2> QED
    BY <2>1, <2>2, <2>3, <2>4, <2>5 DEF Log!Publish, Parent, Rev
<1>3. ASSUME NEW q \in Proc, SetDraftBase(q) PROVE Log!Reparent
  <2>1. base' \in Listed /\ log' = log
    BY <1>3 DEF SetDraftBase, LineageInv, Knows
  <2>2. Log!Published = Listed
    BY PublishedIsListed DEF LineageInv
  <2> QED
    BY <2>1, <2>2 DEF Log!Reparent
<1>4. CASE UNCHANGED vars
  BY <1>1, <1>4 DEF vars
<1>5. ASSUME NEW q \in Proc,
             \/ LoadDraft(q) \/ ReadHistory(q) \/ ReadPrevious(q)
             \/ \E p \in Part : ReadPart(q, p) \/ PutSource(q, p) \/ PutOut(q, p)
             \/ Decide(q) \/ StartOutput(q)
             \/ PickRevision(q) \/ ReadWanted(q) \/ CheckDirty(q)
             \/ NameDraft(q) \/ WriteDraft(q)
      PROVE  log' = log /\ base' = base
  BY <1>5 DEF LoadDraft, ReadHistory, ReadPrevious, ReadPart, PutSource, PutOut, Decide,
              StartOutput, PickRevision, ReadWanted, CheckDirty, NameDraft, WriteDraft
<1>6. CASE \/ \E p \in Part : Edit(p)
           \/ \E v \in Visitor : Resolve(v) \/ Serve(v)
  BY <1>1, <1>6 DEF Edit, Resolve, Serve
<1>7. ASSUME NEW q \in Proc, Publishes(q) \/ ChecksOut(q)
      PROVE  \/ log' = log /\ base' = base
             \/ Log!Publish \/ Log!Reparent
  <2>1. CASE Record(q)
    BY <1>2, <2>1 DEF Record
  <2>2. CASE SetDraftBase(q)
    BY <1>3, <2>2
  <2> QED
    BY <1>5, <1>7, <2>1, <2>2 DEF Publishes, ChecksOut
<1> QED
  BY <1>1, <1>4, <1>6, <1>7 DEF Next, Proc

\* The log in D1, written by any number of racing and abandoned publishes and
\* checkouts, implements the append-only, contiguous log of RevisionLog.
THEOREM LogIsImplemented == Spec => ImplementsRevisionLog
<1>1. Init /\ [][Next]_vars => []LineageInv
  BY LineageInit, LineageStep, PTL
<1>2. Spec => Log!Spec
  BY <1>1, LogInit, LogStep, PTL DEF Spec, Log!Spec, Parent
<1> QED
  BY <1>2 DEF ImplementsRevisionLog

-----------------------------------------------------------------------------
(* The rules that win.                                                      *)

\* A sheet of one bare rule and one rule for each keyframe.
Rungs(rules, at) ==
    /\ DOMAIN rules = 1..(Len(at) + 1)
    /\ rules[1].media = Everywhere
    /\ \A i \in 1..Len(at) : rules[i + 1].media = From(at[i])

\* The rule in force is the only one that is.
LEMMA OneInForce ==
    ASSUME NEW rules, NEW p, NEW w, NEW i, InForce(rules, p, w, i),
           \A j \in DOMAIN rules : Speaks(rules, p, w, j) /\ j # i => ~Overrides(rules, j, i)
    PROVE  Declared(rules, p, w) = {rules[i].decls[p]}
  BY DEF Declared, InForce, Speaks

\* If no rule speaks of p, nothing is declared for it.
LEMMA NoneInForce ==
    ASSUME NEW rules, NEW p, NEW w, \A i \in DOMAIN rules : ~Speaks(rules, p, w, i)
    PROVE  Declared(rules, p, w) = {}
  BY DEF Declared, InForce

\* At a width that reaches keyframe i, no wider keyframe's rung applies.
LEMMA WiderDoNotApply ==
    ASSUME NEW at \in Seq(Nat), Ascending(at), NEW i \in DOMAIN at, NEW w \in Nat,
           Reached(at, i, w), NEW j \in DOMAIN at, at[j] <= w
    PROVE  j <= i /\ (j # i => at[j] < at[i])
<1>1. i \in Nat /\ j \in Nat /\ at[i] \in Nat /\ at[j] \in Nat
  OBVIOUS
<1>2. ASSUME j > i PROVE FALSE
  <2>1. i + 1 \in DOMAIN at /\ w < at[i + 1] /\ at[i + 1] \in Nat
    BY <1>1, <1>2 DEF Reached
  <2>2. i + 1 = j \/ at[i + 1] < at[j]
    BY <1>1, <1>2, <2>1 DEF Ascending
  <2> QED
    BY <1>1, <2>1, <2>2
<1> QED
  BY <1>1, <1>2 DEF Ascending

\* Of the rungs that apply the widest wins what it declares.
LEMMA RungWins ==
    ASSUME NEW rules, NEW at \in Seq(Nat), Ascending(at), Rungs(rules, at), NEW w \in Nat,
           NEW i \in DOMAIN at, Reached(at, i, w), NEW p, p \in DOMAIN rules[i + 1].decls
    PROVE  Declared(rules, p, w) = {rules[i + 1].decls[p]}
<1>1. i \in 1..Len(at) /\ i + 1 \in DOMAIN rules /\ rules[i + 1].media = From(at[i]) /\ at[i] \in Nat /\ at[i] <= w
  BY DEF Rungs, Reached
<1>2. Speaks(rules, p, w, i + 1)
  BY <1>1 DEF Speaks, Applies, From
<1>3. ASSUME NEW j \in DOMAIN rules, Speaks(rules, p, w, j), j # i + 1
      PROVE  Overrides(rules, i + 1, j) /\ ~Overrides(rules, j, i + 1)
  <2>1. CASE j = 1
    <3>1. rules[j].media = Everywhere
      BY <2>1 DEF Rungs
    <3> QED
      BY <1>1, <3>1 DEF Overrides, SortsBefore, Everywhere, From
  <2>2. CASE j # 1
    <3>0. j - 1 \in DOMAIN at /\ j = (j - 1) + 1
      BY <2>2 DEF Rungs
    <3>1. PICK k \in DOMAIN at : j = k + 1
      BY <3>0
    <3>2. rules[j].media = From(at[k]) /\ at[k] \in Nat
      BY <3>1 DEF Rungs
    <3>3. at[k] <= w
      BY <1>3, <3>2 DEF Speaks, Applies, From
    <3>4. at[k] < at[i]
      BY <1>3, <3>1, <3>3, WiderDoNotApply
    <3> QED
      BY <1>1, <3>2, <3>4 DEF Overrides, SortsBefore, From
  <2> QED
    BY <2>1, <2>2
<1>4. InForce(rules, p, w, i + 1)
  BY <1>2, <1>3 DEF InForce
<1> QED
  BY <1>3, <1>4, OneInForce

\* The bare rule keeps what no rung that applies declares.
LEMMA BaseWins ==
    ASSUME NEW rules, NEW p, NEW w, 1 \in DOMAIN rules, rules[1].media = Everywhere,
           p \in DOMAIN rules[1].decls,
           \A j \in DOMAIN rules \ {1} : ~Speaks(rules, p, w, j)
    PROVE  Declared(rules, p, w) = {rules[1].decls[p]}
<1>1. InForce(rules, p, w, 1)
  BY DEF InForce, Speaks, Applies, Everywhere
<1> QED
  BY <1>1, OneInForce

-----------------------------------------------------------------------------
(* Geometry.                                                                *)

\* What geometryRules emits: alone, the base; else the base and every rung.
LEMMA GeometrySheet ==
    ASSUME NEW g, Geometry(g)
    PROVE  LET R == GeometryRules(g)
           IN  /\ 1 \in DOMAIN R /\ R[1] = Base(g)
               /\ Len(g.at) = 1 => DOMAIN R = {1}
               /\ Len(g.at) # 1 => /\ Rungs(R, g.at)
                                   /\ \A i \in DOMAIN g.at : R[i + 1] = Rung(g, i)
<1>1. g.at \in Seq(Nat) /\ Len(g.at) \in Nat /\ Len(g.at) > 0
  BY DEF Geometry
<1>2. Base(g).media = Everywhere /\ \A i \in DOMAIN g.at : Rung(g, i).media = From(g.at[i])
  BY DEF Base, Rung, Rule
<1>3. CASE Len(g.at) = 1
  BY <1>3 DEF GeometryRules
<1>4. CASE Len(g.at) # 1
  <2>1. \A i \in 1..Len(g.at) : GeometryRules(g)[i + 1] = Rung(g, i)
    BY <1>1, <1>4 DEF GeometryRules
  <2>2. DOMAIN GeometryRules(g) = 1..(Len(g.at) + 1) /\ GeometryRules(g)[1] = Base(g)
    BY <1>1, <1>4 DEF GeometryRules
  <2> QED
    BY <1>1, <1>2, <1>4, <2>1, <2>2 DEF Rungs
<1> QED
  BY <1>3, <1>4

\* Which parts of an element's place a rung declares.
LEMMA PinnedParts ==
    ASSUME NEW g, NEW i, NEW frames
    PROVE  /\ "top" \in Pinned(g, i, frames)
           /\ "left" \in Pinned(g, i, frames) <=> "left" \notin g.anchored
           /\ "width" \in Pinned(g, i, frames) <=> "width" \notin g.anchored
           /\ "min-width" \in Pinned(g, i, frames) <=> "width" \notin g.anchored /\ Relaxed(g, g.at[i])
           /\ "height" \in Pinned(g, i, frames) <=> frames \subseteq g.tall
  BY DEF Pinned, WidthProps

\* What it declares for them.
LEMMA DeclsOf ==
    ASSUME NEW g, NEW i, NEW frames, NEW v
    PROVE  LET d == Decls(g, i, frames, v)
           IN  /\ DOMAIN d = Pinned(g, i, frames)
               /\ \A p \in DOMAIN d : p # "width" => d[p] = v
               /\ "width" \in DOMAIN d => d["width"] = IF Relaxed(g, g.at[i]) THEN AutoWidth ELSE v
  BY DEF Decls

\* What a rung declares.
LEMMA RungDecls ==
    ASSUME NEW g, Geometry(g), NEW i \in DOMAIN g.at
    PROVE  LET d == Rung(g, i).decls
           IN  /\ "top" \in DOMAIN d /\ d["top"] = Segment(g, i)
               /\ "left" \in DOMAIN d <=> "left" \notin g.anchored
               /\ "left" \in DOMAIN d => d["left"] = Segment(g, i)
               /\ "width" \in DOMAIN d <=> "width" \notin g.anchored
               /\ "width" \in DOMAIN d => d["width"] = IF Relaxed(g, g.at[i]) THEN AutoWidth ELSE Segment(g, i)
               /\ "min-width" \in DOMAIN d <=> "width" \notin g.anchored /\ Relaxed(g, g.at[i])
               /\ "min-width" \in DOMAIN d => d["min-width"] = Segment(g, i)
               /\ g.tall = DOMAIN g.at => "height" \in DOMAIN d /\ d["height"] = Segment(g, i)
<1> DEFINE d == Rung(g, i).decls
<1>1. g.tall = DOMAIN g.at => Ends(g, i) \subseteq g.tall
  BY DEF Geometry, Ends
<1>2. d = Decls(g, i, Ends(g, i), Segment(g, i))
  BY DEF Rung, Rule
<1> HIDE DEF d
<1>3. /\ DOMAIN d = Pinned(g, i, Ends(g, i))
      /\ \A p \in DOMAIN d : p # "width" => d[p] = Segment(g, i)
      /\ "width" \in DOMAIN d => d["width"] = IF Relaxed(g, g.at[i]) THEN AutoWidth ELSE Segment(g, i)
  BY <1>2, DeclsOf
<1>4. /\ "top" \in DOMAIN d
      /\ "left" \in DOMAIN d <=> "left" \notin g.anchored
      /\ "width" \in DOMAIN d <=> "width" \notin g.anchored
      /\ "min-width" \in DOMAIN d <=> "width" \notin g.anchored /\ Relaxed(g, g.at[i])
      /\ "height" \in DOMAIN d <=> Ends(g, i) \subseteq g.tall
  BY <1>3, PinnedParts
<1> QED
  BY <1>1, <1>3, <1>4 DEF d

\* What the base declares.
LEMMA BaseDecls ==
    ASSUME NEW g, Geometry(g)
    PROVE  LET d == Base(g).decls
           IN  /\ "top" \in DOMAIN d /\ d["top"] = Held(1)
               /\ "left" \in DOMAIN d
               /\ d["left"] = IF "left" \in g.anchored THEN Column ELSE Held(1)
               /\ "width" \notin g.anchored =>
                    /\ "width" \in DOMAIN d
                    /\ d["width"] = IF Relaxed(g, g.at[1]) THEN AutoWidth ELSE Held(1)
                    /\ "min-width" \in DOMAIN d <=> Relaxed(g, g.at[1])
                    /\ "min-width" \in DOMAIN d => d["min-width"] = Held(1)
               /\ 1 \in g.tall => "height" \in DOMAIN d /\ d["height"] = Held(1)
<1> DEFINE held == Decls(g, 1, {1}, Held(1))
           d == Base(g).decls
<1>1. d = [p \in DOMAIN held \cup Anchors(g) |-> IF p \in Anchors(g) THEN Column ELSE held[p]]
  BY DEF Base, Rule
<1>2. /\ DOMAIN held = Pinned(g, 1, {1})
      /\ \A p \in DOMAIN held : p # "width" => held[p] = Held(1)
      /\ "width" \in DOMAIN held => held["width"] = IF Relaxed(g, g.at[1]) THEN AutoWidth ELSE Held(1)
  BY DeclsOf
<1>3. /\ "top" \notin Anchors(g) /\ "height" \notin Anchors(g)
      /\ "left" \in Anchors(g) <=> "left" \in g.anchored
      /\ "width" \notin g.anchored => "width" \notin Anchors(g) /\ "min-width" \notin Anchors(g)
  BY DEF Anchors
<1>4. /\ "top" \in DOMAIN held
      /\ "left" \in DOMAIN held <=> "left" \notin g.anchored
      /\ "width" \in DOMAIN held <=> "width" \notin g.anchored
      /\ "min-width" \in DOMAIN held <=> "width" \notin g.anchored /\ Relaxed(g, g.at[1])
      /\ "height" \in DOMAIN held <=> {1} \subseteq g.tall
  BY <1>2, PinnedParts
<1> HIDE DEF held, d
<1>5. /\ \A p \in DOMAIN held \ Anchors(g) : p \in DOMAIN d /\ d[p] = held[p]
      /\ \A p \in Anchors(g) : p \in DOMAIN d /\ d[p] = Column
      /\ \A p \in DOMAIN d : p \in DOMAIN held \cup Anchors(g)
  BY <1>1
<1> QED
  BY <1>2, <1>3, <1>4, <1>5 DEF d

\* Of two keyframes that are reached, the wider has every floor of the other.
LEMMA RelaxedUpwards ==
    ASSUME NEW g, Geometry(g), NEW px \in Nat, NEW qx \in Nat, px <= qx, Relaxed(g, px)
    PROVE  Relaxed(g, qx)
<1>1. \A k \in DOMAIN g.nowrap : g.nowrap[k] \in Nat
  BY DEF Geometry, OptionalWidth
<1> QED
  BY <1>1 DEF Relaxed

\* At every width, whatever the ladder, an element stands where the segment of
\* that width puts it: no rule of a lower rung lasts past its segment, though
\* all of them still apply (geometryRules, serializeRules; widthDecls of REQ-117).
THEOREM PlacedAtEveryWidth ==
    ASSUME NEW g, Geometry(g), NEW w \in Nat
    PROVE  PlacedBySegment(g, w)
<1> DEFINE R == GeometryRules(g)
<1>1. /\ 1 \in DOMAIN R /\ R[1] = Base(g)
      /\ Len(g.at) = 1 => DOMAIN R = {1}
      /\ Len(g.at) # 1 => Rungs(R, g.at) /\ \A i \in DOMAIN g.at : R[i + 1] = Rung(g, i)
  BY GeometrySheet
<1>2. R[1].media = Everywhere
  BY <1>1 DEF Base, Rule
<1> HIDE DEF R
<1>3. SUFFICES ASSUME NEW i \in DOMAIN g.at, Reached(g.at, i, w)
               PROVE  /\ Declared(R, "top", w) = {Segment(g, i)}
                      /\ Declared(R, "left", w) = IF "left" \in g.anchored THEN {Column} ELSE {Segment(g, i)}
                      /\ "width" \notin g.anchored =>
                           /\ Declared(R, "width", w) = IF Relaxed(g, g.at[i]) THEN {AutoWidth} ELSE {Segment(g, i)}
                           /\ Declared(R, "min-width", w) = IF Relaxed(g, g.at[i]) THEN {Segment(g, i)} ELSE {}
                      /\ g.tall = DOMAIN g.at => Declared(R, "height", w) = {Segment(g, i)}
  BY DEF PlacedBySegment, R
<1>4. g.at \in Seq(Nat) /\ Ascending(g.at) /\ i \in 1..Len(g.at) /\ Len(g.at) \in Nat
  BY DEF Geometry
<1>5. CASE Len(g.at) = 1
  <2>1. i = 1 /\ Segment(g, i) = Held(1)
    BY <1>4, <1>5 DEF Segment
  <2>2. \A p \in DOMAIN R[1].decls : Declared(R, p, w) = {R[1].decls[p]}
    BY <1>1, <1>2, <1>5, BaseWins
  <2>3. \A p : p \notin DOMAIN R[1].decls => Declared(R, p, w) = {}
    BY <1>1, <1>5, NoneInForce DEF Speaks
  <2>4. g.tall = DOMAIN g.at => 1 \in g.tall
    BY <2>1
  <2> QED
    BY <1>1, <2>1, <2>2, <2>3, <2>4, BaseDecls
<1>6. CASE Len(g.at) # 1
  <2>1. R[i + 1] = Rung(g, i) /\ Rungs(R, g.at)
    BY <1>1, <1>6
  <2>2. \A p \in DOMAIN Rung(g, i).decls : Declared(R, p, w) = {Rung(g, i).decls[p]}
    BY <1>3, <1>4, <2>1, RungWins
  <2>3. ASSUME NEW j \in DOMAIN R \ {1}
        PROVE  \E k \in DOMAIN g.at : j = k + 1 /\ R[j] = Rung(g, k) /\ R[j].media = From(g.at[k])
    <3>1. j \in 1..(Len(g.at) + 1) /\ j # 1
      BY <2>1 DEF Rungs
    <3>2. PICK k \in 1..Len(g.at) : j = k + 1
      <4>1. j - 1 \in 1..Len(g.at) /\ j = (j - 1) + 1
        BY <1>4, <3>1
      <4> QED
        BY <4>1
    <3>3. k \in DOMAIN g.at
      BY <1>4, <3>2
    <3>4. R[j] = Rung(g, k)
      BY <1>1, <1>6, <3>2, <3>3
    <3>5. R[j].media = From(g.at[k])
      BY <2>1, <3>2 DEF Rungs
    <3> QED
      BY <3>2, <3>3, <3>4, <3>5
  <2>4. ASSUME "left" \in g.anchored PROVE Declared(R, "left", w) = {Column}
    <3>1. "left" \in DOMAIN R[1].decls /\ R[1].decls["left"] = Column
      BY <1>1, <2>4, BaseDecls
    <3>2. \A j \in DOMAIN R \ {1} : ~Speaks(R, "left", w, j)
      BY <2>3, <2>4, RungDecls DEF Speaks
    <3> QED
      BY <1>1, <1>2, <3>1, <3>2, BaseWins
  <2>5. ASSUME "width" \notin g.anchored, ~Relaxed(g, g.at[i]) PROVE Declared(R, "min-width", w) = {}
    <3>1. ~Speaks(R, "min-width", w, 1)
      <4>1. g.at[1] \in Nat /\ g.at[i] \in Nat /\ g.at[1] <= g.at[i]
        BY <1>4 DEF Ascending
      <4>2. ~Relaxed(g, g.at[1])
        BY <2>5, <4>1, RelaxedUpwards
      <4> QED
        BY <1>1, <2>5, <4>2, BaseDecls DEF Speaks
    <3>2. ASSUME NEW j \in DOMAIN R \ {1}, Speaks(R, "min-width", w, j) PROVE FALSE
      <4>1. PICK k \in DOMAIN g.at : R[j] = Rung(g, k) /\ R[j].media = From(g.at[k])
        BY <2>3
      <4>2. g.at[k] \in Nat /\ g.at[i] \in Nat /\ g.at[k] <= w
        BY <1>4, <3>2, <4>1 DEF Speaks, Applies, From
      <4>3. g.at[k] <= g.at[i]
        BY <1>3, <1>4, <4>2, WiderDoNotApply
      <4>4. ~Relaxed(g, g.at[k])
        BY <2>5, <4>2, <4>3, RelaxedUpwards
      <4> QED
        BY <3>2, <4>1, <4>4, RungDecls DEF Speaks
    <3> QED
      BY <3>1, <3>2, NoneInForce
  <2> QED
    BY <2>2, <2>4, <2>5, RungDecls
<1> QED
  BY <1>5, <1>6

\* The same of a track of one scalar over its own keyframes (scalarAxisRules).
THEOREM TrackedAtEveryWidth ==
    ASSUME NEW g, Geometry(g), NEW p, NEW w \in Nat
    PROVE  TrackedBySegment(p, g, w)
<1> DEFINE R == TrackRules(p, g)
<1>1. g.at \in Seq(Nat) /\ Ascending(g.at) /\ Len(g.at) \in Nat /\ DOMAIN g.at = 1..Len(g.at)
  BY DEF Geometry
<1>2. SUFFICES ASSUME NEW i \in DOMAIN g.at, Reached(g.at, i, w)
               PROVE  Declared(R, p, w) = {Segment(g, i)}
  BY DEF TrackedBySegment
<1>3. CASE Len(g.at) = 1
  <2>1. DOMAIN R = {1} /\ R[1] = Rule(Everywhere, Only(p, Held(1)))
    BY <1>3 DEF TrackRules
  <2>2. Segment(g, i) = Held(1)
    BY <1>1, <1>3 DEF Segment
  <2> HIDE DEF R
  <2>3. Declared(R, p, w) = {R[1].decls[p]}
    BY <2>1, BaseWins DEF Rule, Only
  <2> QED
    BY <2>1, <2>2, <2>3 DEF Rule, Only
<1>4. CASE Len(g.at) # 1
  <2>1. Rungs(R, g.at)
    BY <1>1, <1>4 DEF TrackRules, Rungs, Rule
  <2>2. R[i + 1].decls = Only(p, Segment(g, i))
    BY <1>1, <1>4 DEF TrackRules, Rule
  <2> HIDE DEF R
  <2>3. Declared(R, p, w) = {R[i + 1].decls[p]}
    BY <1>1, <1>2, <2>1, <2>2, RungWins DEF Only
  <2> QED
    BY <2>2, <2>3 DEF Only
<1> QED
  BY <1>3, <1>4

-----------------------------------------------------------------------------
(* Least and greatest.                                                      *)

\* Numbers that are some have a least: < is well founded.
LEMMA LeastExists ==
    ASSUME NEW S, S \subseteq Nat, S # {}
    PROVE  \E x \in S : \A y \in S : x <= y
<1>1. IsWellFoundedOn(OpToRel(<, Nat), Nat)
  BY NatLessThanWellFounded
<1>2. PICK x \in S : \A y \in S : ~(<<y, x>> \in OpToRel(<, Nat))
  BY <1>1, WFMin
<1>3. \A y \in S : <<y, x>> \in OpToRel(<, Nat) <=> y < x
  BY DEF OpToRel
<1>4. \A y \in S : ~(y < x)
  BY <1>2, <1>3, Zenon
<1> QED
  BY <1>4

\* So what Least and Greatest choose is what they are named for.
LEMMA LeastIs ==
    ASSUME NEW S, S \subseteq Nat, S # {}
    PROVE  Least(S) \in S /\ \A y \in S : Least(S) <= y
  BY LeastExists DEF Least

\* A bounded set of naturals that is not empty has its greatest.
LEMMA GreatestIs ==
    ASSUME NEW n \in Nat, NEW S, S \subseteq 0..n, S # {}
    PROVE  Greatest(S) \in S /\ \A y \in S : Greatest(S) >= y
<1> DEFINE T == {m \in 0..n : n - m \in S}
<1>1. PICK y \in S : TRUE
  OBVIOUS
<1>2. n - y \in T
  <2>1. n - y \in 0..n /\ n - (n - y) = y
    OBVIOUS
  <2> QED
    BY <2>1
<1>3. PICK m \in T : \A k \in T : m <= k
  <2>1. T \subseteq Nat
    OBVIOUS
  <2>2. T # {}
    BY <1>2
  <2> HIDE DEF T
  <2> QED
    BY <2>1, <2>2, LeastExists
<1>4. \A z \in S : n - m >= z
  <2>1. SUFFICES ASSUME NEW z \in S PROVE n - m >= z
    OBVIOUS
  <2>2. n - z \in 0..n /\ n - (n - z) = z
    OBVIOUS
  <2>3. m <= n - z
    BY <1>3, <2>2
  <2> QED
    BY <2>2, <2>3
<1>5. \E x \in S : \A z \in S : x >= z
  BY <1>3, <1>4
<1> QED
  BY <1>5 DEF Greatest

-----------------------------------------------------------------------------
(* Display.                                                                 *)

\* A function of 1..n is a sequence.
LEMMA AsSequence ==
    ASSUME NEW n \in Nat, NEW S, NEW f \in [1..n -> S]
    PROVE  f \in Seq(S) /\ Len(f) = n
  OBVIOUS

\* Where the elements of a concatenation are.
LEMMA Concatenated ==
    ASSUME NEW S, NEW f \in Seq(S), NEW h \in Seq(S)
    PROVE  /\ f \o h \in Seq(S)
           /\ Len(f \o h) = Len(f) + Len(h)
           /\ DOMAIN (f \o h) = 1..(Len(f) + Len(h))
           /\ \A i \in 1..Len(f) : (f \o h)[i] = f[i]
           /\ \A k \in 1..Len(h) : (f \o h)[Len(f) + k] = h[k]
  OBVIOUS

\* The rules of a node's display by what they are: those of the layout come first, then the one
\* that hides below a width (f), then the one that hides from a width (u).
DisplayParts(R, t, v, f, u) ==
    /\ \A i \in DOMAIN t : /\ i \in DOMAIN R /\ i < f /\ i < u
                           /\ R[i].decls = Only("display", t[i].mode)
                           /\ i = 1 => R[i].media = Everywhere
                           /\ i # 1 => R[i].media = From(t[i].at)
    /\ v.from # <<>> => /\ f \in DOMAIN R
                        /\ R[f].decls = Only("display", "none")
                        /\ R[f].media = Below(v.from[1])
    /\ v.until # <<>> => /\ u \in DOMAIN R
                         /\ R[u].decls = Only("display", "none")
                         /\ R[u].media = From(v.until[1])
    /\ \A j \in DOMAIN R : j \in DOMAIN t \/ (v.from # <<>> /\ j = f) \/ (v.until # <<>> /\ j = u)

\* What an optional width is.
LEMMA OptionalIs ==
    ASSUME NEW o, OptionalWidth(o)
    PROVE  \/ o = <<>> /\ Len(o) = 0 /\ DOMAIN o = {}
           \/ o # <<>> /\ Len(o) = 1 /\ DOMAIN o = {1} /\ o[1] \in Nat
  BY DEF OptionalWidth

\* The rules that say `display` are the layout's, then the visibility's.
LEMMA DisplaySheet ==
    ASSUME NEW t, Layout(t), NEW v, Visibility(v)
    PROVE  \E f, u \in Nat : DisplayParts(DisplayRules(t, v), t, v, f, u)
<1> DEFINE F == [k \in DOMAIN v.from |-> Rule(Below(v.from[k]), Only("display", "none"))]
           U == [k \in DOMAIN v.until |-> Rule(From(v.until[k]), Only("display", "none"))]
           L == LayoutRules(t)
           Rules == {L[i] : i \in DOMAIN L} \cup {F[i] : i \in DOMAIN F} \cup {U[i] : i \in DOMAIN U}
<1>1. /\ Len(t) \in Nat /\ DOMAIN t = 1..Len(t)
      /\ Len(v.from) \in Nat /\ DOMAIN v.from = 1..Len(v.from)
      /\ Len(v.until) \in Nat /\ DOMAIN v.until = 1..Len(v.until)
  BY DEF Layout, Visibility, OptionalWidth
<1>2. /\ L \in Seq(Rules) /\ Len(L) = Len(t)
      /\ F \in Seq(Rules) /\ Len(F) = Len(v.from)
      /\ U \in Seq(Rules) /\ Len(U) = Len(v.until)
  <2>1. DOMAIN L = 1..Len(t) /\ L = [i \in 1..Len(t) |-> L[i]]
    BY <1>1 DEF LayoutRules
  <2>2. DOMAIN F = 1..Len(v.from) /\ F = [i \in 1..Len(v.from) |-> F[i]]
    BY <1>1
  <2>3. DOMAIN U = 1..Len(v.until) /\ U = [i \in 1..Len(v.until) |-> U[i]]
    BY <1>1
  <2> HIDE DEF L, F, U
  <2>4. L \in [1..Len(t) -> Rules] /\ F \in [1..Len(v.from) -> Rules] /\ U \in [1..Len(v.until) -> Rules]
    <3>1. /\ \A i \in 1..Len(t) : L[i] \in Rules
          /\ \A i \in 1..Len(v.from) : F[i] \in Rules
          /\ \A i \in 1..Len(v.until) : U[i] \in Rules
      BY <2>1, <2>2, <2>3
    <3> HIDE DEF Rules
    <3> QED
      BY <2>1, <2>2, <2>3, <3>1
  <2> HIDE DEF Rules
  <2> QED
    BY <1>1, <2>4, AsSequence
<1>3. /\ \A i \in 1..Len(t) : L[i] = Rule(IF i = 1 THEN Everywhere ELSE From(t[i].at), Only("display", t[i].mode))
      /\ \A k \in 1..Len(v.from) : F[k] = Rule(Below(v.from[k]), Only("display", "none"))
      /\ \A k \in 1..Len(v.until) : U[k] = Rule(From(v.until[k]), Only("display", "none"))
  BY <1>1 DEF LayoutRules
<1>4. DisplayRules(t, v) = L \o (F \o U)
  BY DEF DisplayRules, VisibilityRules
<1> HIDE DEF L, F, U, Rules
<1>5. L \in Seq(Rules) /\ F \in Seq(Rules) /\ U \in Seq(Rules)
  BY <1>2
<1> DEFINE V == F \o U
<1>6. /\ V \in Seq(Rules)
      /\ Len(V) = Len(F) + Len(U)
      /\ \A k \in 1..Len(F) : V[k] = F[k]
      /\ \A k \in 1..Len(U) : V[Len(F) + k] = U[k]
  BY <1>5, Concatenated
<1> HIDE DEF V
<1> DEFINE R == L \o V
<1>7. /\ DOMAIN R = 1..(Len(L) + Len(V))
      /\ \A i \in 1..Len(L) : R[i] = L[i]
      /\ \A k \in 1..Len(V) : R[Len(L) + k] = V[k]
  <2>1. V \in Seq(Rules)
    BY <1>6
  <2> QED
    BY <1>5, <2>1, Concatenated
<1>8. DisplayRules(t, v) = R
  BY <1>4 DEF V
<1> HIDE DEF R
<1> DEFINE n == Len(t)
           a == Len(v.from)
           b == Len(v.until)
<1>9. n \in Nat /\ a \in Nat /\ b \in Nat /\ Len(L) = n /\ Len(F) = a /\ Len(U) = b /\ Len(V) = a + b
  BY <1>1, <1>2, <1>6
<1> HIDE DEF n, a, b
<1>10. DOMAIN R = 1..(n + a + b) /\ \A i \in 1..n : R[i] = L[i]
  BY <1>7, <1>9
<1>11. \A k \in 1..a : R[n + k] = F[k]
  <2>1. \A k \in 1..a : k \in 1..(a + b)
    BY <1>9
  <2> QED
    BY <1>6, <1>7, <1>9, <2>1
<1>12. \A k \in 1..b : R[n + a + k] = U[k]
  <2>1. SUFFICES ASSUME NEW k \in 1..b PROVE R[n + a + k] = U[k]
    OBVIOUS
  <2>2. a + k \in 1..(a + b) /\ n + (a + k) = n + a + k
    BY <1>9
  <2>3. R[n + (a + k)] = V[a + k]
    BY <1>7, <1>9, <2>2
  <2>4. V[a + k] = U[k]
    BY <1>6, <1>9
  <2> QED
    BY <2>2, <2>3, <2>4
<1>13. \A i \in 1..n : R[i] = Rule(IF i = 1 THEN Everywhere ELSE From(t[i].at), Only("display", t[i].mode))
  BY <1>3, <1>10 DEF n
<1>14. \A k \in 1..a : R[n + k] = Rule(Below(v.from[k]), Only("display", "none"))
  BY <1>3, <1>11 DEF a
<1>15. \A k \in 1..b : R[n + a + k] = Rule(From(v.until[k]), Only("display", "none"))
  BY <1>3, <1>12 DEF b
<1>16. n \in Nat /\ a \in Nat /\ b \in Nat /\ DOMAIN t = 1..n /\ DOMAIN R = 1..(n + a + b)
  BY <1>1, <1>9, <1>10 DEF n
<1>17. (a = 0 /\ v.from = <<>>) \/ (a = 1 /\ v.from # <<>>)
  BY OptionalIs DEF Visibility, a
<1>18. (b = 0 /\ v.until = <<>>) \/ (b = 1 /\ v.until # <<>>)
  BY OptionalIs DEF Visibility, b
<1>19. ASSUME NEW i \in DOMAIN t
      PROVE  /\ i \in DOMAIN R /\ i < n + 1 /\ i < n + a + 1
             /\ R[i].decls = Only("display", t[i].mode)
             /\ i = 1 => R[i].media = Everywhere
             /\ i # 1 => R[i].media = From(t[i].at)
  <2>1. i \in DOMAIN R /\ i < n + 1 /\ i < n + a + 1
    BY <1>16
  <2>2. R[i] = Rule(IF i = 1 THEN Everywhere ELSE From(t[i].at), Only("display", t[i].mode))
    BY <1>16, <1>13
  <2> QED
    BY <2>1, <2>2 DEF Rule
<1>20. v.from # <<>> => /\ n + 1 \in DOMAIN R
                       /\ R[n + 1].decls = Only("display", "none")
                       /\ R[n + 1].media = Below(v.from[1])
  <2>1. SUFFICES ASSUME a = 1 PROVE n + 1 \in DOMAIN R /\ R[n + 1] = Rule(Below(v.from[1]), Only("display", "none"))
    BY <1>17 DEF Rule
  <2>2. 1 \in 1..a /\ n + 1 \in 1..(n + a + b)
    BY <1>16, <2>1
  <2> QED
    BY <1>16, <1>14, <2>2
<1>21. v.until # <<>> => /\ n + a + 1 \in DOMAIN R
                        /\ R[n + a + 1].decls = Only("display", "none")
                        /\ R[n + a + 1].media = From(v.until[1])
  <2>1. SUFFICES ASSUME b = 1 PROVE n + a + 1 \in DOMAIN R /\ R[n + a + 1] = Rule(From(v.until[1]), Only("display", "none"))
    BY <1>18 DEF Rule
  <2>2. 1 \in 1..b /\ n + a + 1 \in 1..(n + a + b)
    BY <1>16, <2>1
  <2> QED
    BY <1>16, <1>15, <2>2
<1>22. ASSUME NEW j \in DOMAIN R
       PROVE  j \in DOMAIN t \/ (v.from # <<>> /\ j = n + 1) \/ (v.until # <<>> /\ j = n + a + 1)
  BY <1>16, <1>17, <1>18
<1>23. n + 1 \in Nat /\ n + a + 1 \in Nat
  BY <1>16
<1>24. DisplayParts(R, t, v, n + 1, n + a + 1)
  BY <1>19, <1>20, <1>21, <1>22 DEF DisplayParts
<1> QED
  BY <1>8, <1>23, <1>24

\* A layout's keyframes.
LEMMA LayoutIs ==
    ASSUME NEW t, Layout(t)
    PROVE  /\ Len(t) \in Nat /\ DOMAIN t = 1..Len(t)
           /\ \A i \in DOMAIN t : i \in Nat /\ t[i].at \in Nat /\ t[i].mode \in Mode
           /\ \A i, j \in DOMAIN t : i < j => t[i].at < t[j].at
<1> DEFINE Keyframe == [at: Nat, mode: Mode]
<1>1. \A k \in Keyframe : k.at \in Nat /\ k.mode \in Mode
  OBVIOUS
<1>2. t \in Seq(Keyframe) /\ \A i, j \in DOMAIN t : i < j => t[i].at < t[j].at
  BY DEF Layout
<1> HIDE DEF Keyframe
<1>3. Len(t) \in Nat /\ DOMAIN t = 1..Len(t) /\ \A i \in DOMAIN t : i \in Nat /\ t[i] \in Keyframe
  BY <1>2
<1> QED
  BY <1>1, <1>2, <1>3

\* Of a sheet's rules for display, what speaks at w.
LEMMA DisplaySpeaks ==
    ASSUME NEW t, NEW v, NEW R, NEW f, NEW u, DisplayParts(R, t, v, f, u), NEW w
    PROVE  /\ \A i \in DOMAIN t : Speaks(R, "display", w, i) <=> i = 1 \/ t[i].at <= w
           /\ v.from # <<>> => (Speaks(R, "display", w, f) <=> w < v.from[1])
           /\ v.until # <<>> => (Speaks(R, "display", w, u) <=> v.until[1] <= w)
<1>1. ASSUME NEW i \in DOMAIN t PROVE Speaks(R, "display", w, i) <=> i = 1 \/ t[i].at <= w
  <2>1. i \in DOMAIN R /\ "display" \in DOMAIN R[i].decls
    BY DEF DisplayParts, Only
  <2>2. CASE i = 1
    <3>1. R[i].media = Everywhere
      BY <2>2 DEF DisplayParts
    <3> QED
      BY <2>1, <2>2, <3>1 DEF Speaks, Applies, Everywhere
  <2>3. CASE i # 1
    <3>1. R[i].media = From(t[i].at)
      BY <2>3 DEF DisplayParts
    <3> QED
      BY <2>1, <2>3, <3>1 DEF Speaks, Applies, From
  <2> QED
    BY <2>2, <2>3
<1>2. v.from # <<>> => (Speaks(R, "display", w, f) <=> w < v.from[1])
  BY DEF DisplayParts, Speaks, Applies, Only, Below
<1>3. v.until # <<>> => (Speaks(R, "display", w, u) <=> v.until[1] <= w)
  BY DEF DisplayParts, Speaks, Applies, Only, From
<1> QED
  BY <1>1, <1>2, <1>3

\* The gate's reading of an optional visibility.
LEMMA HiddenIs ==
    ASSUME NEW v, Visibility(v), NEW w
    PROVE  Hidden(v, w) <=> (v.from # <<>> /\ w < v.from[1]) \/ (v.until # <<>> /\ v.until[1] <= w)
  BY OptionalIs DEF Hidden, Visibility

\* Below its first width, a node is hidden, whatever else is said.
LEMMA HiddenBelow ==
    ASSUME NEW t, Layout(t), NEW v, Visibility(v), NEW R, NEW f \in Nat, NEW u \in Nat,
           DisplayParts(R, t, v, f, u), NEW w, v.from # <<>>, w < v.from[1]
    PROVE  Declared(R, "display", w) = {"none"}
<1>1. f \in DOMAIN R /\ R[f].decls = Only("display", "none") /\ R[f].media = Below(v.from[1])
  BY DEF DisplayParts
<1>2. Speaks(R, "display", w, f)
  BY DisplaySpeaks
<1>3. ASSUME NEW j \in DOMAIN R, j # f PROVE R[j].media.kind \in {"all", "min"}
  <2>1. j \in DOMAIN t \/ (v.until # <<>> /\ j = u)
    BY <1>3 DEF DisplayParts
  <2>2. CASE j \in DOMAIN t
    <3>1. R[j].media = Everywhere \/ R[j].media = From(t[j].at)
      BY <2>2 DEF DisplayParts
    <3> QED
      BY <3>1 DEF Everywhere, From
  <2>3. CASE v.until # <<>> /\ j = u
    <3>1. R[j].media = From(v.until[1])
      BY <2>3 DEF DisplayParts
    <3> QED
      BY <3>1 DEF From
  <2> QED
    BY <2>1, <2>2, <2>3
<1>4. ASSUME NEW j \in DOMAIN R, j # f PROVE Overrides(R, f, j) /\ ~Overrides(R, j, f)
  <2>1. SortsBefore(R[j].media, R[f].media) /\ ~SortsBefore(R[f].media, R[j].media)
    BY <1>1, <1>3, <1>4 DEF SortsBefore, Below
  <2> QED
    BY <2>1 DEF Overrides
<1>5. InForce(R, "display", w, f)
  BY <1>2, <1>4 DEF InForce
<1>6. Declared(R, "display", w) = {R[f].decls["display"]}
  BY <1>4, <1>5, OneInForce
<1> QED
  BY <1>1, <1>6 DEF Only

\* From its end on, a node is hidden, if no layout is declared past the end.
LEMMA HiddenFrom ==
    ASSUME NEW t, Layout(t), NEW v, Visibility(v), NEW R, NEW f \in Nat, NEW u \in Nat,
           DisplayParts(R, t, v, f, u), LaidOutWhileVisible(t, v), NEW w \in Nat,
           ~(v.from # <<>> /\ w < v.from[1]), v.until # <<>>, v.until[1] <= w
    PROVE  Declared(R, "display", w) = {"none"}
<1>1. u \in DOMAIN R /\ R[u].decls = Only("display", "none") /\ R[u].media = From(v.until[1])
  BY DEF DisplayParts
<1>2. Speaks(R, "display", w, u)
  BY DisplaySpeaks
<1>3. v.until[1] \in Nat /\ 1 \in DOMAIN v.until
  BY OptionalIs DEF Visibility
<1>4. ASSUME NEW j \in DOMAIN R, Speaks(R, "display", w, j), j # u
      PROVE  Overrides(R, u, j) /\ ~Overrides(R, j, u)
  <2>1. j \in DOMAIN t /\ j < u
    <3>1. ~(v.from # <<>> /\ j = f)
      BY <1>4, DisplaySpeaks
    <3> QED
      BY <1>4, <3>1 DEF DisplayParts
  <2>2. j \in Nat /\ t[j].at \in Nat
    BY <2>1, LayoutIs
  <2>3. CASE j = 1
    <3>1. R[j].media = Everywhere
      BY <2>1, <2>3 DEF DisplayParts
    <3> QED
      BY <1>1, <3>1 DEF Overrides, SortsBefore, Everywhere, From
  <2>4. CASE j # 1
    <3>1. R[j].media = From(t[j].at)
      BY <2>1, <2>4 DEF DisplayParts
    <3>2. t[j].at <= v.until[1]
      BY <1>3, <2>1, <2>2, <2>4 DEF LaidOutWhileVisible, Layout
    <3> QED
      BY <1>1, <1>3, <2>1, <2>2, <3>1, <3>2 DEF Overrides, SortsBefore, From
  <2> QED
    BY <2>3, <2>4
<1>5. InForce(R, "display", w, u)
  BY <1>2, <1>4 DEF InForce
<1>6. Declared(R, "display", w) = {R[u].decls["display"]}
  BY <1>4, <1>5, OneInForce
<1> QED
  BY <1>1, <1>6 DEF Only

\* The last keyframe of a layout that is reached at w, or the base.
IsLastReached(t, w, i) ==
    /\ i \in DOMAIN t
    /\ i = 1 \/ t[i].at <= w
    /\ \A j \in DOMAIN t : i < j => ~(t[j].at <= w)

\* Where it is not hidden, the layout that is reached last is in force.
LEMMA LastReached ==
    ASSUME NEW t, Layout(t), NEW v, Visibility(v), NEW R, NEW f \in Nat, NEW u \in Nat,
           DisplayParts(R, t, v, f, u), NEW w \in Nat, ~Hidden(v, w),
           NEW i, IsLastReached(t, w, i)
    PROVE  Declared(R, "display", w) = {t[i].mode}
<1>1. /\ i \in DOMAIN t /\ (i = 1 \/ t[i].at <= w)
      /\ \A j \in DOMAIN t : i < j => ~(t[j].at <= w)
  BY DEF IsLastReached
<1>2. /\ \A j \in DOMAIN t : Speaks(R, "display", w, j) <=> j = 1 \/ t[j].at <= w
      /\ v.from # <<>> => (Speaks(R, "display", w, f) <=> w < v.from[1])
      /\ v.until # <<>> => (Speaks(R, "display", w, u) <=> v.until[1] <= w)
  BY DisplaySpeaks
<1>3. ~(v.from # <<>> /\ w < v.from[1]) /\ ~(v.until # <<>> /\ v.until[1] <= w)
  BY HiddenIs
<1>4. i \in DOMAIN R /\ R[i].decls = Only("display", t[i].mode) /\ Speaks(R, "display", w, i)
  BY <1>2, <1>1 DEF DisplayParts
<1>5. ASSUME NEW j \in DOMAIN R, Speaks(R, "display", w, j), j # i
      PROVE  Overrides(R, i, j) /\ ~Overrides(R, j, i)
  <2>1. j \in DOMAIN t /\ (j = 1 \/ t[j].at <= w)
    <3>1. j \in DOMAIN t \/ (v.from # <<>> /\ j = f) \/ (v.until # <<>> /\ j = u)
      BY DEF DisplayParts
    <3> QED
      BY <1>5, <1>2, <1>3, <3>1, Zenon
  <2>2. i \in Nat /\ j \in Nat /\ t[i].at \in Nat /\ t[j].at \in Nat /\ i >= 1 /\ j >= 1
    BY <1>1, <2>1, LayoutIs
  <2>3. j < i
    BY <1>5, <1>1, <2>1, <2>2
  <2>4. R[i].media = From(t[i].at) /\ t[j].at < t[i].at
    BY <1>1, <2>1, <2>2, <2>3, LayoutIs DEF DisplayParts
  <2>5. R[j].media = Everywhere \/ R[j].media = From(t[j].at)
    BY <2>1 DEF DisplayParts
  <2> QED
    BY <2>2, <2>4, <2>5 DEF Overrides, SortsBefore, Everywhere, From
<1>6. InForce(R, "display", w, i)
  BY <1>4, <1>5 DEF InForce
<1>7. Declared(R, "display", w) = {R[i].decls["display"]}
  BY <1>5, <1>6, OneInForce
<1> QED
  BY <1>4, <1>7 DEF Only

\* Of the keyframes that are reached there is a last, and it is the gate's.
LEMMA LastIsResolved ==
    ASSUME NEW t, Layout(t), t # <<>>, NEW w \in Nat
    PROVE  \E i : IsLastReached(t, w, i) /\ ResolveLayoutMode(t, w) = t[i].mode
<1> DEFINE n == Len(t)
           S == {i \in DOMAIN t : t[i].at <= w}
           Last(i) == t[i].at <= w /\ \A j \in (i + 1)..Len(t) : t[j].at > w
<1>1. n \in Nat /\ DOMAIN t = 1..n /\ 1 \in DOMAIN t
  <2>1. t \in Seq([at: Nat, mode: Mode])
    BY DEF Layout
  <2>2. Len(t) \in Nat /\ DOMAIN t = 1..Len(t) /\ Len(t) # 0
    BY <2>1
  <2> QED
    BY <2>2
<1>2. \A i \in DOMAIN t : i \in Nat /\ t[i].at \in Nat
  BY LayoutIs
<1>3. CASE S = {}
  <2>1. ResolveLayoutMode(t, w) = t[1].mode
    BY <1>3 DEF ResolveLayoutMode
  <2> QED
    BY <1>1, <1>3, <2>1 DEF IsLastReached
<1>4. CASE S # {}
  <2>1. S \subseteq 0..n
    BY <1>1
  <2> DEFINE m == Greatest(S)
  <2>2. m \in S /\ \A y \in S : m >= y
    <3> HIDE DEF S, n
    <3> QED
      BY <1>1, <1>4, <2>1, GreatestIs
  <2> HIDE DEF m
  <2>3. m \in DOMAIN t /\ t[m].at <= w
    BY <2>2
  <2>4. \A j \in (m + 1)..n : j \in DOMAIN t /\ j > m
    BY <1>1, <1>2, <2>3
  <2>5. \A j \in (m + 1)..n : t[j].at > w
    BY <1>2, <2>2, <2>3, <2>4
  <2>6. \E i \in DOMAIN t : Last(i)
    BY <2>3, <2>5
  <2> DEFINE last == CHOOSE i \in DOMAIN t : Last(i)
  <2>7. last \in DOMAIN t /\ Last(last)
    BY <2>6
  <2>8. ResolveLayoutMode(t, w) = t[last].mode
    BY <1>4 DEF ResolveLayoutMode
  <2> HIDE DEF last
  <2>9. \A j \in DOMAIN t : last < j => ~(t[j].at <= w)
    BY <1>1, <1>2, <2>7
  <2> QED
    BY <2>7, <2>8, <2>9 DEF IsLastReached
<1> QED
  BY <1>3, <1>4

\* The page hides a node where the analytic gate takes it to be hidden and lays
\* it out as the gate does elsewhere, at every width, provided that no breakpoint
\* of its layout lies past the width its visibility ends at (render.ts, REQ-104;
\* mirrored by hidden and resolveLayoutMode).
THEOREM PageMirrorsGate ==
    ASSUME NEW t, Layout(t), NEW v, Visibility(v), LaidOutWhileVisible(t, v), NEW w \in Nat
    PROVE  MirrorsGate(t, v, w)
<1> DEFINE R == DisplayRules(t, v)
<1>1. PICK f \in Nat, u \in Nat : DisplayParts(R, t, v, f, u)
  BY DisplaySheet
<1> HIDE DEF R
<1>2. CASE Hidden(v, w)
  <2>1. Declared(R, "display", w) = {"none"}
    BY <1>1, <1>2, HiddenIs, HiddenBelow, HiddenFrom
  <2> QED
    BY <1>2, <2>1 DEF MirrorsGate, R
<1>3. CASE ~Hidden(v, w) /\ t = <<>>
  <2>1. \A j \in DOMAIN R : ~Speaks(R, "display", w, j)
    <3>1. DOMAIN t = {}
      BY <1>3
    <3>2. \A j \in DOMAIN R : (v.from # <<>> /\ j = f) \/ (v.until # <<>> /\ j = u)
      BY <1>1, <3>1 DEF DisplayParts
    <3> QED
      BY <1>1, <1>3, <3>2, DisplaySpeaks, HiddenIs
  <2>2. Declared(R, "display", w) = {}
    BY <2>1, NoneInForce
  <2> QED
    BY <1>3, <2>2 DEF MirrorsGate, R
<1>4. CASE ~Hidden(v, w) /\ t # <<>>
  <2>1. PICK i : IsLastReached(t, w, i) /\ ResolveLayoutMode(t, w) = t[i].mode
    BY <1>4, LastIsResolved
  <2>2. Declared(R, "display", w) = {t[i].mode}
    BY <1>1, <1>4, <2>1, LastReached
  <2> QED
    BY <1>4, <2>1, <2>2 DEF MirrorsGate, R
<1> QED
  BY <1>2, <1>3, <1>4

\* The limit of the theorem: past the end of its visibility a node is displayed
\* again wherever its layout has a breakpoint beyond that end, though it is
\* hidden there, for the block of the later breakpoint is later in the sheet.
THEOREM LaidOutPastItsEnd ==
    ASSUME NEW t, Layout(t), NEW v, Visibility(v), v.until # <<>>,
           NEW i \in DOMAIN t, i > 1, v.until[1] < t[i].at,
           NEW w \in Nat, t[i].at <= w, v.from = <<>> \/ v.from[1] <= w
    PROVE  Hidden(v, w) /\ Displayed(t, v, w)
<1> DEFINE R == DisplayRules(t, v)
<1>1. PICK f \in Nat, u \in Nat : DisplayParts(R, t, v, f, u)
  BY DisplaySheet
<1> HIDE DEF R
<1>2. v.until[1] \in Nat /\ t[i].at \in Nat /\ (v.from # <<>> => v.from[1] \in Nat) /\ i \in Nat
  BY OptionalIs, LayoutIs DEF Visibility
<1>3. Hidden(v, w)
  BY <1>2, HiddenIs
<1>4. i \in DOMAIN R /\ R[i].media = From(t[i].at) /\ i < u
  BY <1>1, <1>2 DEF DisplayParts
<1>5. Speaks(R, "display", w, i)
  BY <1>1, DisplaySpeaks
<1>6. R[u].media = From(v.until[1])
  BY <1>1 DEF DisplayParts
<1>7. ~InForce(R, "display", w, u)
  <2>1. ~Overrides(R, u, i)
    BY <1>2, <1>4, <1>6 DEF Overrides, SortsBefore, From
  <2> QED
    BY <1>4, <1>5, <2>1 DEF InForce
<1>8. ASSUME NEW j \in DOMAIN R, InForce(R, "display", w, j) PROVE R[j].decls["display"] # "none"
  <2>1. Speaks(R, "display", w, j) /\ j # u
    BY <1>7, <1>8 DEF InForce
  <2>2. v.from # <<>> => ~Speaks(R, "display", w, f)
    BY <1>1, <1>2, DisplaySpeaks
  <2>3. j \in DOMAIN t
    BY <1>1, <2>1, <2>2 DEF DisplayParts
  <2>4. R[j].decls["display"] = t[j].mode /\ t[j].mode \in Mode
    BY <1>1, <2>3, LayoutIs DEF DisplayParts, Only
  <2> QED
    BY <2>4 DEF Mode
<1>9. "none" \notin Declared(R, "display", w)
  BY <1>8 DEF Declared
<1> QED
  BY <1>3, <1>9 DEF Displayed, R

-----------------------------------------------------------------------------
(* The fold.                                                                *)

\* The visibility a fold gives: the width of the first sample, unless it is the
\* ladder's, and the width after the last, unless there is none.
LEMMA VisibilityIs ==
    ASSUME NEW ladder \in Seq(Nat), Ascending(ladder),
           NEW present, present \subseteq DOMAIN ladder, present # {},
           NEW s \in DOMAIN ladder
    PROVE  Hidden(VisibilityFor(present, ladder), ladder[s])
             <=> s \notin Least(present)..Greatest(present)
<1> DEFINE n == Len(ladder)
           a == Least(present)
           b == Greatest(present)
           above == {k \in DOMAIN ladder : ladder[k] > ladder[b]}
           v == VisibilityFor(present, ladder)
<1>1. /\ n \in Nat /\ DOMAIN ladder = 1..n
      /\ \A k \in DOMAIN ladder : k \in Nat /\ ladder[k] \in Nat
      /\ \A j, k \in DOMAIN ladder : j < k => ladder[j] < ladder[k]
  BY DEF Ascending
<1>2. a \in present /\ \A y \in present : a <= y
  BY <1>1, LeastIs
<1>3. b \in present /\ \A y \in present : b >= y
  <2>1. present \subseteq 0..n
    BY <1>1
  <2> QED
    BY <1>1, <2>1, GreatestIs
<1> HIDE DEF a, b, n
<1>4. a \in DOMAIN ladder /\ b \in DOMAIN ladder /\ s \in Nat /\ a \in Nat /\ b \in Nat
  BY <1>1, <1>2, <1>3
<1>5. \A j, k \in DOMAIN ladder : ladder[j] < ladder[k] <=> j < k
  BY <1>1
<1>6. CASE present = DOMAIN ladder
  <2>1. ~Hidden(v, ladder[s])
    BY <1>6 DEF Hidden, VisibilityFor
  <2>2. a <= s /\ s <= b
    BY <1>2, <1>3, <1>6
  <2> QED
    BY <1>4, <2>1, <2>2 DEF a, b
<1>7. CASE present # DOMAIN ladder
  <2>1. /\ v.from = IF ladder[a] > ladder[1] THEN <<ladder[a]>> ELSE <<>>
        /\ v.until = IF above = {} THEN <<>> ELSE <<ladder[Least(above)]>>
    BY <1>7 DEF VisibilityFor, a, b
  <2>2. (\E k \in DOMAIN v.from : ladder[s] < v.from[k]) <=> s < a
    <3>1. 1 \in DOMAIN ladder
      BY <1>1, <1>4
    <3>2. CASE ladder[a] > ladder[1]
      <4>1. v.from = <<ladder[a]>>
        BY <2>1, <3>2
      <4>2. DOMAIN v.from = {1} /\ v.from[1] = ladder[a]
        BY <4>1
      <4> QED
        BY <1>4, <1>5, <4>2
    <3>3. CASE ~(ladder[a] > ladder[1])
      <4>1. v.from = <<>>
        BY <2>1, <3>3
      <4>2. DOMAIN v.from = {}
        BY <4>1
      <4>3. ~(s < a)
        BY <1>1, <1>4, <1>5, <3>1, <3>3
      <4> QED
        BY <4>2, <4>3
    <3> QED
      BY <3>2, <3>3
  <2>3. (\E k \in DOMAIN v.until : v.until[k] <= ladder[s]) <=> s > b
    <3> HIDE DEF v
    <3>1. CASE above = {}
      <4>1. v.until = <<>>
        BY <2>1, <3>1
      <4>2. DOMAIN v.until = {}
        BY <4>1
      <4>3. ~(ladder[s] > ladder[b])
        BY <3>1
      <4>4. ~(s > b)
        BY <1>4, <1>5, <1>1, <4>3
      <4> QED
        BY <4>2, <4>4
    <3>2. CASE above # {}
      <4>1. above \subseteq Nat
        BY <1>1
      <4>2. \A y \in above : y \in DOMAIN ladder /\ ladder[y] > ladder[b]
        OBVIOUS
      <4>3. s \in above <=> ladder[s] > ladder[b]
        OBVIOUS
      <4> DEFINE c == Least(above)
      <4>4. v.until = <<ladder[c]>>
        BY <2>1, <3>2
      <4> HIDE DEF above
      <4>5. c \in above /\ \A y \in above : c <= y
        BY <3>2, <4>1, LeastIs
      <4> HIDE DEF c
      <4>6. DOMAIN v.until = {1} /\ v.until[1] = ladder[c]
        BY <4>4
      <4>7. c \in DOMAIN ladder /\ c > b /\ c \in Nat
        BY <1>1, <1>4, <1>5, <4>2, <4>5
      <4>8. s > b <=> s \in above
        BY <1>1, <1>4, <1>5, <4>3
      <4>9. s > b <=> c <= s
        BY <1>4, <4>5, <4>7, <4>8
      <4>10. c <= s <=> ladder[c] <= ladder[s]
        BY <1>1, <1>4, <1>5, <4>7
      <4> QED
        BY <4>6, <4>9, <4>10
    <3> QED
      BY <3>1, <3>2
  <2>4. Hidden(v, ladder[s]) <=> s < a \/ s > b
    BY <2>2, <2>3 DEF Hidden
  <2> QED
    BY <1>4, <2>4 DEF a, b
<1> QED
  BY <1>6, <1>7

\* A row that was captured without a gap is seen, at each captured width, exactly
\* if it was captured there; one with a gap is also seen in the gap.
THEOREM FoldedRowsAreSeen ==
    ASSUME NEW ladder \in Seq(Nat), Ascending(ladder),
           NEW present, present \subseteq DOMAIN ladder, present # {}
    PROVE  SeenFromFirstToLast(present, ladder)
  BY VisibilityIs DEF SeenFromFirstToLast

\* Which of a captured run's widths are floors: the suffix of single lines, made a
\* threshold by the fold and a min-width by the rules, comes out as that suffix.
THEOREM FloorsAreTheSuffix ==
    ASSUME NEW g, Geometry(g), "width" \notin g.anchored,
           NEW single, single \subseteq DOMAIN g.at, g.nowrap = NowrapThreshold(g.at, single)
    PROVE  FloorWhereSettled(g, single)
<1> DEFINE S == Settled(g.at, single)
<1>1. /\ g.at \in Seq(Nat) /\ Len(g.at) \in Nat /\ DOMAIN g.at = 1..Len(g.at) /\ Ascending(g.at)
      /\ \A j \in DOMAIN g.at : g.at[j] \in Nat
  BY DEF Geometry
<1>2. SUFFICES ASSUME NEW i \in DOMAIN g.at
               PROVE  Declared(GeometryRules(g), "min-width", g.at[i]) # {} <=> i..Len(g.at) \subseteq single
  BY DEF FloorWhereSettled
<1>3. Reached(g.at, i, g.at[i])
  BY <1>1 DEF Reached, Ascending
<1>4. Declared(GeometryRules(g), "min-width", g.at[i]) # {} <=> Relaxed(g, g.at[i])
  <2>1. PlacedBySegment(g, g.at[i])
    BY <1>1, PlacedAtEveryWidth
  <2>2. Declared(GeometryRules(g), "min-width", g.at[i])
          = IF Relaxed(g, g.at[i]) THEN {Segment(g, i)} ELSE {}
    BY <1>3, <2>1 DEF PlacedBySegment
  <2> QED
    BY <2>2
<1>5. i \in S <=> i..Len(g.at) \subseteq single
  BY DEF Settled
<1>6. CASE S = {}
  <2>1. g.nowrap = <<>>
    BY <1>6 DEF NowrapThreshold
  <2>2. ~Relaxed(g, g.at[i])
    BY <2>1 DEF Relaxed
  <2> QED
    BY <1>4, <1>5, <1>6, <2>2
<1>7. CASE S # {}
  <2>1. S \subseteq Nat /\ S \subseteq DOMAIN g.at
    BY <1>1 DEF Settled
  <2> DEFINE m == Least(S)
  <2>2. g.nowrap = <<g.at[m]>>
    BY <1>7 DEF NowrapThreshold
  <2>3. m \in S /\ \A y \in S : m <= y
    <3> HIDE DEF S
    <3> QED
      BY <1>7, <2>1, LeastIs
  <2> HIDE DEF m
  <2>4. m \in DOMAIN g.at /\ m..Len(g.at) \subseteq single
    BY <2>3 DEF Settled
  <2>5. Relaxed(g, g.at[i]) <=> g.at[m] <= g.at[i]
    BY <2>2 DEF Relaxed
  <2>6. g.at[m] <= g.at[i] <=> m <= i
    <3>1. m \in Nat /\ i \in Nat /\ g.at[m] \in Nat /\ g.at[i] \in Nat
      BY <1>1, <2>4
    <3>2. m < i => g.at[m] < g.at[i]
      BY <1>1, <2>4 DEF Ascending
    <3>3. i < m => g.at[i] < g.at[m]
      BY <1>1, <2>4 DEF Ascending
    <3> QED
      BY <3>1, <3>2, <3>3
  <2>7. m <= i => i..Len(g.at) \subseteq single
    BY <1>1, <2>4
  <2>8. i \in S => m <= i
    BY <2>3
  <2> QED
    BY <1>4, <1>5, <2>5, <2>6, <2>7, <2>8
<1> QED
  BY <1>6, <1>7

\* A floor comes from a rung that is reached, or from the base.
LEMMA FloorIsRelaxed ==
    ASSUME NEW g, Geometry(g), NEW w \in Nat, Declared(GeometryRules(g), "min-width", w) # {}
    PROVE  \E k \in DOMAIN g.at : Relaxed(g, g.at[k]) /\ (k = 1 \/ g.at[k] <= w)
<1> DEFINE R == GeometryRules(g)
<1>1. /\ R[1] = Base(g)
      /\ Len(g.at) = 1 => DOMAIN R = {1}
      /\ Len(g.at) # 1 => Rungs(R, g.at) /\ \A i \in DOMAIN g.at : R[i + 1] = Rung(g, i)
  BY GeometrySheet
<1>2. PICK j \in DOMAIN R : Speaks(R, "min-width", w, j)
  BY DEF Declared, InForce
<1> HIDE DEF R
<1>3. Len(g.at) \in Nat /\ DOMAIN g.at = 1..Len(g.at) /\ 1 \in DOMAIN g.at
  BY DEF Geometry
<1>4. CASE j = 1
  <2>1. "min-width" \in DOMAIN Base(g).decls
    BY <1>1, <1>2, <1>4 DEF Speaks
  <2>2. "min-width" \in Pinned(g, 1, {1}) \/ "min-width" \in Anchors(g)
    BY <2>1 DEF Base, Rule, Decls
  <2>3. Relaxed(g, g.at[1])
    BY <2>2, PinnedParts DEF Anchors
  <2> QED
    BY <1>3, <2>3
<1>5. CASE j # 1
  <2>1. Len(g.at) # 1 /\ Rungs(R, g.at)
    BY <1>1, <1>2, <1>5
  <2>2. j - 1 \in 1..Len(g.at) /\ j = (j - 1) + 1
    BY <1>2, <1>3, <1>5, <2>1 DEF Rungs
  <2>3. PICK k \in 1..Len(g.at) : j = k + 1
    BY <2>2
  <2>4. R[j] = Rung(g, k) /\ R[j].media = From(g.at[k])
    BY <1>1, <1>3, <2>1, <2>3 DEF Rungs
  <2>5. g.at[k] <= w
    BY <1>2, <2>4 DEF Speaks, Applies, From
  <2>6. Relaxed(g, g.at[k])
    BY <1>2, <1>3, <2>3, <2>4, RungDecls DEF Speaks
  <2> QED
    BY <1>3, <2>3, <2>5, <2>6
<1> QED
  BY <1>4, <1>5

\* What a floor needs: the element's text does not wrap at a width at which the
\* rules let its box grow, or no visitor of that width sees it. The keyframes of a
\* folded run begin at the first width it was captured at; below it the base rule
\* still applies, and the pin of white-space may not (render.ts, REQ-88, REQ-117).
THEOREM FloorsAreUnbreakable ==
    ASSUME NEW ladder \in Seq(Nat), Ascending(ladder),
           NEW present, present \subseteq DOMAIN ladder, present # {},
           NEW g, Geometry(g), g.at[1] = ladder[Least(present)], NEW w \in Nat
    PROVE  FloorIsUnbreakable(g, VisibilityFor(present, ladder), ladder[1], w)
<1> DEFINE a == Least(present)
           v == VisibilityFor(present, ladder)
           W == WhiteSpaceRules(g.nowrap, ladder[1])
<1>1. /\ DOMAIN ladder = 1..Len(ladder) /\ Len(ladder) \in Nat
      /\ \A k \in DOMAIN ladder : ladder[k] \in Nat
  OBVIOUS
<1>2. a \in present /\ \A y \in present : a <= y
  BY <1>1, LeastIs
<1>3. SUFFICES ASSUME Declared(GeometryRules(g), "min-width", w) # {}, ~Hidden(v, w)
               PROVE  Declared(W, "white-space", w) # {}
  BY DEF FloorIsUnbreakable
<1>4. PICK k \in DOMAIN g.at : Relaxed(g, g.at[k]) /\ (k = 1 \/ g.at[k] <= w)
  BY <1>3, FloorIsRelaxed
<1>5. PICK px \in Nat : g.nowrap = <<px>>
  BY <1>4 DEF Geometry, OptionalWidth, Relaxed
<1>6. px <= g.at[k] /\ g.at[k] \in Nat
  BY <1>4, <1>5 DEF Relaxed, Geometry
<1> HIDE DEF a, v
<1>7. px <= w \/ px <= ladder[1]
  <2>1. SUFFICES ASSUME k = 1, w < g.at[1] PROVE px <= ladder[1]
    BY <1>4, <1>5, <1>6
  <2>2. g.at[1] = ladder[a] /\ a \in DOMAIN ladder /\ 1 \in DOMAIN ladder /\ ladder[1] \in Nat
    BY <1>1, <1>2 DEF a
  <2>3. SUFFICES ASSUME ladder[a] > ladder[1] PROVE FALSE
    BY <1>1, <1>6, <2>1, <2>2
  <2>4. present # DOMAIN ladder
    <3>1. a # 1
      BY <2>2, <2>3
    <3>2. ~(a <= 1)
      BY <1>1, <2>2, <3>1
    <3> QED
      BY <1>2, <2>2, <3>2
  <2>5. v.from = <<ladder[a]>>
    BY <2>3, <2>4 DEF VisibilityFor, v, a
  <2>6. Hidden(v, w)
    <3>1. DOMAIN v.from = {1} /\ v.from[1] = ladder[a]
      BY <2>5
    <3> QED
      BY <2>1, <2>2, <3>1 DEF Hidden
  <2> QED
    BY <1>3, <2>6
<1>8. /\ DOMAIN W = {1}
      /\ W[1].media = IF px <= ladder[1] THEN Everywhere ELSE From(px)
      /\ W[1].decls = Only("white-space", "nowrap")
  <2>1. DOMAIN g.nowrap = {1} /\ g.nowrap[1] = px
    BY <1>5
  <2> QED
    BY <2>1 DEF WhiteSpaceRules, Rule
<1> HIDE DEF W
<1>9. Speaks(W, "white-space", w, 1)
  BY <1>7, <1>8 DEF Speaks, Applies, Everywhere, From, Only
<1>10. InForce(W, "white-space", w, 1)
  BY <1>8, <1>9 DEF InForce
<1> QED
  BY <1>10, <1>8 DEF Declared
==============================================================================
