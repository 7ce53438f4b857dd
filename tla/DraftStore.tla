------------------------------ MODULE DraftStore ------------------------------
(***************************************************************************)
(* The draft half of the Cloudflare site store                             *)
(* (tools/generate/src/store/d1r2-store.ts), for ONE slug of ONE tenant.   *)
(*                                                                         *)
(* A draft lives in two services that share no transaction: D1 holds the   *)
(* `sites` row, the page rows and the asset rows; R2 holds the asset       *)
(* bytes.  Every request runs its awaits one at a time, so requests        *)
(* interleave between any two of them, and a request that simply takes no  *)
(* further step is one whose isolate was evicted.                          *)
(*                                                                         *)
(* Page bodies are abstracted to the set of edits they contain: a writer   *)
(* reads the pages, adds its own edit and writes the whole pages back, as  *)
(* every read-modify-write command of cli/edit.ts does.  `site.json` is    *)
(* one more such page.  The bytes of an asset are the writer who put them. *)
(***************************************************************************)
EXTENDS Absence, Naturals, FiniteSets

CONSTANTS
    Writer,       \* requests that call `write`, each once
    Reader,       \* requests that call `readAsset`, each once
    Forgetter,    \* requests that call `forget`, each once
    Page,         \* page names (and `site.json`)
    Asset,        \* asset names that stay inside the namespace
    Conditional,  \* does a writer pass `expect`?  (SiteWrite.expect)
    MaxKeys       \* bound: site keys newId may mint

ASSUME NoneIsApart == None \notin Nat /\ None \notin Writer
ASSUME BoundIsNat == MaxKeys \in Nat
ASSUME ModeIsBoolean == Conditional \in BOOLEAN

VARIABLES
    minted,   \* how many site keys exist so far; the n-th key is n
    site,     \* the row of `sites` with its page and asset rows, or None
    bucket,   \* R2: site key -> asset name -> who put the bytes, or None
    writer,   \* the local state of each `write` request
    reader,   \* the local state of each `readAsset` request
    forgetter,\* the local state of each `forget` request
    landed    \* history: <<site key, page, writer>> committed to D1

vars == <<minted, site, bucket, writer, reader, forgetter, landed>>

-----------------------------------------------------------------------------
(* The shapes rows and requests have.                                      *)

Key == 1..MaxKeys

\* What page rows hold: the edits in each.  A page with no row has none.
Edits == SUBSET (Page \X Writer)

Site == [key: Key, version: Nat, pages: SUBSET Page, body: Edits, assets: SUBSET Asset]

ASSUME NoneIsNoDraft ==
    None \notin Site \cup [pages: SUBSET Page, body: Edits, assets: SUBSET Asset]

\* One SiteWrite: pages put and dropped, assets put and dropped.
Change == [put: SUBSET Page, drop: SUBSET Page,
           putAsset: SUBSET Asset, dropAsset: SUBSET Asset]

\* What a command writes is one transition: nothing is both put and dropped,
\* and a command with nothing to say does not call the store.
SensibleChange ==
    {c \in Change : /\ c.put \cap c.drop = {}
                    /\ c.putAsset \cap c.dropAsset = {}
                    /\ c.put \cup c.drop \cup c.putAsset \cup c.dropAsset # {}}

NoChange == [put |-> {}, drop |-> {}, putAsset |-> {}, dropAsset |-> {}]

WriterState ==
    [pc: {"idle", "versioned", "computed", "putting", "done", "refused", "failed"},
     change: Change, expect: Nat \cup {None}, read: Edits,
     key: Key \cup {None}, left: SUBSET Asset]

ReaderState ==
    [pc: {"idle", "keyed", "row", "got", "null"},
     asset: Asset \cup {None}, key: Key \cup {None}]

ForgetterState ==
    [pc: {"idle", "keyed", "deleting", "done"},
     key: Key \cup {None}, left: SUBSET Asset]

\* The type of every variable: the D1 rows, the bucket and the three kinds of
\* request stay inside the shapes the adapter gives them.
TypeOK ==
    /\ minted \in 0..MaxKeys
    /\ site \in Site \cup {None}
    /\ bucket \in [Key -> [Asset -> Writer \cup {None}]]
    /\ writer \in [Writer -> WriterState]
    /\ reader \in [Reader -> ReaderState]
    /\ forgetter \in [Forgetter -> ForgetterState]
    /\ landed \in SUBSET (Key \X Page \X Writer)

Init ==
    /\ minted = 0
    /\ site = None
    /\ bucket = [k \in Key |-> [a \in Asset |-> None]]
    /\ writer = [w \in Writer |->
                    [pc |-> "idle", change |-> NoChange, expect |-> None,
                     read |-> {}, key |-> None, left |-> {}]]
    /\ reader = [r \in Reader |-> [pc |-> "idle", asset |-> None, key |-> None]]
    /\ forgetter = [f \in Forgetter |-> [pc |-> "idle", key |-> None, left |-> {}]]
    /\ landed = {}

-----------------------------------------------------------------------------
(* createDraft: INSERT OR IGNORE under a freshly minted key.                *)

CreateDraft ==
    /\ minted < MaxKeys
    /\ site = None
    /\ minted' = minted + 1
    /\ site' = [key |-> minted + 1, version |-> 0, pages |-> {}, body |-> {}, assets |-> {}]
    /\ UNCHANGED <<bucket, writer, reader, forgetter, landed>>

-----------------------------------------------------------------------------
(* write, and the read half of the command that calls it.                   *)

\* The caller reads `version` (when it means to pass `expect`) ...
ReadVersion(w) ==
    /\ writer[w].pc = "idle"
    /\ site # None
    /\ \E c \in SensibleChange :
          writer' = [writer EXCEPT ![w] = [@ EXCEPT
              !.pc = "versioned",
              !.change = c,
              !.expect = IF Conditional THEN site.version ELSE None]]
    /\ UNCHANGED <<minted, site, bucket, reader, forgetter, landed>>

\* ... then reads the pages it will change.
ReadPages(w) ==
    /\ writer[w].pc = "versioned"
    /\ writer' = [writer EXCEPT ![w] = [@ EXCEPT
           !.pc = "computed",
           !.read = IF site = None THEN {} ELSE site.body]]
    /\ UNCHANGED <<minted, site, bucket, reader, forgetter, landed>>

\* `write` resolves the slug to the site's key; no row is an error.
ResolveSite(w) ==
    /\ writer[w].pc = "computed"
    /\ writer' =
          IF site = None
          THEN [writer EXCEPT ![w].pc = "failed"]
          ELSE [writer EXCEPT ![w] = [@ EXCEPT !.pc = "putting",
                                               !.key = site.key,
                                               !.left = writer[w].change.putAsset]]
    /\ UNCHANGED <<minted, site, bucket, reader, forgetter, landed>>

\* Bytes first: one R2 put per asset, outside any transaction.
PutBytes(w, a) ==
    /\ writer[w].pc = "putting"
    /\ a \in writer[w].left
    /\ bucket' = [bucket EXCEPT ![writer[w].key][a] = w]
    /\ writer' = [writer EXCEPT ![w].left = @ \ {a}]
    /\ UNCHANGED <<minted, site, reader, forgetter, landed>>

\* Mutant: a write of assets alone is no new version.
AppliedQuietly(s, w) ==
    LET c == writer[w].change
        edits == (writer[w].read \cap (c.put \X Writer)) \cup (c.put \X {w})
    IN  [key |-> s.key,
         version |-> IF c.put \cup c.drop = {} THEN s.version ELSE s.version + 1,
         pages |-> (s.pages \cup c.put) \ c.drop,
         body |-> (s.body \ ((c.put \cup c.drop) \X Writer)) \cup edits,
         assets |-> (s.assets \cup c.putAsset) \ c.dropAsset]

\* The rows as the batch leaves them: upserts, deletions and the version bump.
Applied(s, w) ==
    LET c == writer[w].change
        edits == (writer[w].read \cap (c.put \X Writer)) \cup (c.put \X {w})
    IN  [key |-> s.key,
         version |-> s.version + 1,
         pages |-> (s.pages \cup c.put) \ c.drop,
         body |-> (s.body \ ((c.put \cup c.drop) \X Writer)) \cup edits,
         assets |-> (s.assets \cup c.putAsset) \ c.dropAsset]

\* Mutant: the statement that compares is never pushed.
NoGuard(w) == TRUE

\* The compare-and-set inside the batch: a version that moved aborts it all.
GuardHolds(w) == writer[w].expect = None \/ writer[w].expect = site.version

Holds(k) == site # None /\ site.key = k

\* Mutant: the batch is sent before the last object is put.
RowsBeforeBytes(w) == writer[w].pc = "putting"

AtCommit(w) == writer[w].pc = "putting" /\ writer[w].left = {}

\* The batch commits: every statement of it, in one transaction.
Commit(w) ==
    /\ AtCommit(w)
    /\ Holds(writer[w].key)
    /\ GuardHolds(w)
    /\ site' = Applied(site, w)
    /\ landed' = (landed \ ({site.key} \X writer[w].change.drop \X Writer))
                    \cup ({site.key} \X writer[w].change.put \X {w})
    /\ writer' = [writer EXCEPT ![w].pc = "done"]
    /\ UNCHANGED <<minted, bucket, reader, forgetter>>

\* The batch throws, as the guard fired or for any other reason: it rolls back, and
\* whoever passed `expect` is told of a conflict (StoreConflictError).
Refuse(w) ==
    /\ AtCommit(w)
    /\ writer' = [writer EXCEPT
           ![w].pc = IF writer[w].expect = None THEN "failed" ELSE "refused"]
    /\ UNCHANGED <<minted, site, bucket, reader, forgetter, landed>>

\* The site was forgotten under the writer.  Its updates and deletions touch no row;
\* an insert of a page or asset row meets a foreign key that D1 may or may not
\* enforce, and what it leaves behind no slug can reach.
CommitToForgottenSite(w) ==
    /\ AtCommit(w)
    /\ ~Holds(writer[w].key)
    /\ writer' = [writer EXCEPT ![w].pc = "done"]
    /\ UNCHANGED <<minted, site, bucket, reader, forgetter, landed>>

-----------------------------------------------------------------------------
(* readAsset: the slug's key, then the asset row, then the object.          *)

ReadKey(r) ==
    /\ reader[r].pc = "idle"
    /\ \E a \in Asset :
          reader' = [reader EXCEPT
              ![r] = IF site = None
                     THEN [pc |-> "null", asset |-> a, key |-> None]
                     ELSE [pc |-> "keyed", asset |-> a, key |-> site.key]]
    /\ UNCHANGED <<minted, site, bucket, writer, forgetter, landed>>

RowOf(k, a) == Holds(k) /\ a \in site.assets

ReadRow(r) ==
    /\ reader[r].pc = "keyed"
    /\ reader' =
          IF RowOf(reader[r].key, reader[r].asset)
          THEN [reader EXCEPT ![r].pc = "row"]
          ELSE [reader EXCEPT ![r] = [@ EXCEPT !.pc = "null", !.key = None]]
    /\ UNCHANGED <<minted, site, bucket, writer, forgetter, landed>>

ReadObject(r) ==
    /\ reader[r].pc = "row"
    /\ reader' = [reader EXCEPT
           ![r].pc = IF bucket[reader[r].key][reader[r].asset] = None THEN "null" ELSE "got"]
    /\ UNCHANGED <<minted, site, bucket, writer, forgetter, landed>>

-----------------------------------------------------------------------------
(* forget: the key, the listing of the draft prefix, each object, the rows. *)

ForgetKey(f) ==
    /\ forgetter[f].pc = "idle"
    /\ forgetter' = [forgetter EXCEPT
           ![f] = IF site = None
                  THEN [pc |-> "done", key |-> None, left |-> {}]
                  ELSE [pc |-> "keyed", key |-> site.key, left |-> {}]]
    /\ UNCHANGED <<minted, site, bucket, writer, reader, landed>>

ForgetList(f) ==
    /\ forgetter[f].pc = "keyed"
    /\ forgetter' = [forgetter EXCEPT ![f] = [@ EXCEPT
           !.pc = "deleting",
           !.left = {a \in Asset : bucket[forgetter[f].key][a] # None}]]
    /\ UNCHANGED <<minted, site, bucket, writer, reader, landed>>

ForgetObject(f, a) ==
    /\ forgetter[f].pc = "deleting"
    /\ a \in forgetter[f].left
    /\ bucket' = [bucket EXCEPT ![forgetter[f].key][a] = None]
    /\ forgetter' = [forgetter EXCEPT ![f].left = @ \ {a}]
    /\ UNCHANGED <<minted, site, writer, reader, landed>>

ForgetRows(f) ==
    /\ forgetter[f].pc = "deleting"
    /\ forgetter[f].left = {}
    /\ site' = IF Holds(forgetter[f].key) THEN None ELSE site
    /\ forgetter' = [forgetter EXCEPT ![f].pc = "done"]
    /\ UNCHANGED <<minted, bucket, writer, reader, landed>>

-----------------------------------------------------------------------------

Next ==
    \/ CreateDraft
    \/ \E w \in Writer :
          \/ ReadVersion(w) \/ ReadPages(w) \/ ResolveSite(w)
          \/ \E a \in Asset : PutBytes(w, a)
          \/ Commit(w) \/ Refuse(w) \/ CommitToForgottenSite(w)
    \/ \E r \in Reader : ReadKey(r) \/ ReadRow(r) \/ ReadObject(r)
    \/ \E f \in Forgetter :
          \/ ForgetKey(f) \/ ForgetList(f) \/ ForgetRows(f)
          \/ \E a \in Asset : ForgetObject(f, a)

\* No fairness: a request may be abandoned after any await.
Spec == Init /\ [][Next]_vars

-----------------------------------------------------------------------------
(* What the adapter promises.                                              *)

\* What is left when versions, keys, objects and batches are not looked at: the rows;
\* who is under way, from the first read to the answer; and whose version is no
\* longer the site's.
Content ==
    IF site = None THEN None
    ELSE [pages |-> site.pages, body |-> site.body, assets |-> site.assets]
UnderWay(w) == writer[w].pc \in {"versioned", "computed", "putting"}
Phase == [w \in Writer |-> IF UnderWay(w) THEN "open" ELSE writer[w].pc]
Behind == {w \in Writer : UnderWay(w) /\ (site = None \/ writer[w].expect # site.version)}

Serial == INSTANCE SerialDraft WITH draft <- Content, phase <- Phase, behind <- Behind

\* "If the site has moved on since, the write is refused" (site-store.ts,
\* SiteWrite.expect): of writers that pass the version they read, the reads, the
\* puts and the guarded batch are one serial write, made over what the draft was
\* when they began, or they change nothing of it.
ImplementsSerialDraft == Serial!Spec

\* A key whose `forget` has begun: its objects may be gone before its rows.
Doomed(k) == \E f \in Forgetter : forgetter[f].pc # "idle" /\ forgetter[f].key = k

\* An asset that lists can be read (d1r2-store.ts, `write`: "an object with no
\* row is invisible and costs storage, whereas a row with no object is an asset
\* that lists and then 404s").  Only a `forget` in progress may open the gap.
RowHasBytes ==
    site # None =>
        \A a \in site.assets : bucket[site.key][a] # None \/ Doomed(site.key)

\* A reader that found the asset row finds the object as well, whatever was
\* dropped or replaced between its two reads, unless the site is being
\* forgotten: `removeAssets` must leave the object where a reader may be
\* about to fetch it.
ReadFindsBytes ==
    \A r \in Reader :
        reader[r].pc = "null" /\ reader[r].key # None => Doomed(reader[r].key)

\* What lists can be read: the row names an object, and goes on naming one for
\* whoever holds the row already.
AssetsAreReadable == RowHasBytes /\ ReadFindsBytes

\* No lost update (SiteWrite.expect, site-store.ts): while every writer passes
\* the version it read, an edit that landed on a page of this site stays in
\* the page until a write drops the page.
NoLostEdit ==
    site # None =>
        \A p \in Page, w \in Writer :
            <<site.key, p, w>> \in landed => <<p, w>> \in site.body

\* "the write is refused with a StoreConflictError and nothing lands"
\* (site-store.ts, SiteWrite.expect): nothing a refused write sent is what a
\* reader of a listed asset receives.
NothingLands ==
    site # None =>
        \A a \in site.assets :
            \A w \in Writer :
                writer[w].pc = "refused" => bucket[site.key][a] # w

\* "R2 first: an orphaned object is invisible and costs storage, whereas an
\* asset row pointing at bytes that are already gone would read back as a
\* present asset with no content" (d1r2-store.ts, forget): RowHasBytes without
\* the exemption for a site being forgotten.
ForgetLeavesNoHole ==
    site # None => \A a \in site.assets : bucket[site.key][a] # None

=============================================================================
