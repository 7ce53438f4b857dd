------------------------------ MODULE Publishing ------------------------------
(***************************************************************************)
(* Publishing and checking out ONE site (tools/generate/src/publish/       *)
(* publish.ts) over the D1/R2 adapter (store/d1r2-store.ts), and serving   *)
(* its live revision (apps/public-site/src).                               *)
(*                                                                         *)
(* A publish reads the draft twice, in many statements; computes the next  *)
(* number from a log it read earlier; puts objects into R2 one at a time   *)
(* under that number; inserts the log row; and re-parents the draft.       *)
(* Requests interleave between any two of these, and may stop after any.   *)
(*                                                                         *)
(* A part of a definition is what one statement reads: the documents       *)
(* (site.json and the pages), or one asset.  Content is the number of the  *)
(* edit that produced it.  A listed revision's source is read in one step, *)
(* and so is the row-and-objects effect of the store's own `write`, which  *)
(* module DraftStore takes apart.                                          *)
(***************************************************************************)
EXTENDS Absence, Naturals

CONSTANTS
    Publisher,  \* requests that call `publishSite`
    Checkout,   \* requests that call `checkoutRevision`
    Visitor,    \* requests to public-site
    Doc,        \* parts that are rendered
    Asset,      \* parts that are copied through
    Broken,     \* edits that leave a document invalid
    MaxEdits,   \* bound: edits of the draft
    MaxRev      \* bound: revision numbers

ASSUME PartsAreApart == Doc \cap Asset = {}
ASSUME RolesAreApart == Publisher \cap Checkout = {}
ASSUME NoneIsNoNumber == None \notin Nat
ASSUME BoundsAreNat == MaxEdits \in Nat /\ MaxRev \in Nat

VARIABLES
    draft,     \* the draft: part -> content, or None
    edits,     \* how many edits were made
    base,      \* sites.base_revision, 0 is null
    log,       \* site_revisions: id -> row, or None
    bucket,    \* R2: id -> "source" or "out" -> part -> content, or None
    proc,      \* the local state of each publish and checkout
    visitor,   \* the local state of each visit
    lost,      \* history: unpublished contents an unforced checkout overwrote
    late,      \* history: contents put in a part that an unforced checkout had read
    mixed      \* history: contents a checkout took for a revision's and were not

vars == <<draft, edits, base, log, bucket, proc, visitor, lost, late, mixed>>

Part == Doc \cup Asset
Proc == Publisher \cup Checkout
Rev == 1..MaxRev
Content == 0..MaxEdits
Snapshot == [Part -> Content \cup {None}]
Empty == [p \in Part |-> None]
Side == {"source", "out"}

\* A row: its parent, and what was frozen (the row keeps its digest, `sha`)
\* and rendered.
Row == [basedOn: {0} \cup Rev, source: Snapshot, out: Snapshot]

ASSUME NoneIsNoRow == None \notin Row

\* How far a publish or a checkout has come.
Stage == {"idle", "loaded", "checking", "history", "freezing", "frozen", "source", "out",
          "recorded", "wanted", "clean", "named", "written", "done", "unchanged", "failed"}

ProcState ==
    [pc: Stage,
     loaded: Snapshot,      \* what loadDraft returned: what will be rendered
     live: {0} \cup Rev,    \* liveRevisionOf the log it read
     prev: Snapshot,        \* that revision's source
     frozen: Snapshot,      \* readDraftSnapshot so far
     left: SUBSET Part,     \* parts still to read, or to put
     id: {0} \cup Rev,      \* the number being published, or checked out
     basedOn: {0} \cup Rev,
     wanted: Snapshot,      \* checkout: the revision's source
     names: SUBSET Part,    \* checkout: what the draft held when it listed it
     force: BOOLEAN]        \* checkout: --force

VisitorState == [pc: {"idle", "resolved", "served", "missing"},
                 id: {0} \cup Rev, part: Part \cup {None}]

\* The rows, the objects and the requests keep their shapes.
TypeOK ==
    /\ draft \in Snapshot
    /\ edits \in 0..MaxEdits
    /\ base \in {0} \cup Rev
    /\ log \in [Rev -> Row \cup {None}]
    /\ bucket \in [Rev -> [Side -> Snapshot]]
    /\ proc \in [Proc -> ProcState]
    /\ visitor \in [Visitor -> VisitorState]
    /\ lost \in SUBSET Content
    /\ late \in SUBSET Content
    /\ mixed \in SUBSET Content

Idle == [pc |-> "idle", loaded |-> Empty, live |-> 0, prev |-> Empty, frozen |-> Empty,
         left |-> {}, id |-> 0, basedOn |-> 0, wanted |-> Empty, names |-> {},
         force |-> FALSE]

\* A request that is over keeps nothing but how it ended.
Ended(how) == [Idle EXCEPT !.pc = how]

\* A scaffolded site: every document there, no asset, nothing published.
Init ==
    /\ draft = [p \in Part |-> IF p \in Doc THEN 0 ELSE None]
    /\ edits = 0
    /\ base = 0
    /\ log = [i \in Rev |-> None]
    /\ bucket = [i \in Rev |-> [s \in Side |-> Empty]]
    /\ proc = [p \in Proc |-> Idle]
    /\ visitor = [v \in Visitor |-> [pc |-> "idle", id |-> 0, part |-> None]]
    /\ lost = {}
    /\ late = {}
    /\ mixed = {}

Listed == {i \in Rev : log[i] # None}
Highest(l) == l \in {0} \cup Listed /\ \A i \in Listed : i <= l
SourceOf(i) == IF i \in Listed THEN bucket[i]["source"] ELSE Empty
Present(s) == {p \in Part : s[p] # None}
Valid(s) == \A p \in Doc : s[p] \notin Broken \cup {None}

\* An unforced checkout has read the part and not written yet.
HasRead(q, p) ==
    /\ proc[q].pc \in {"freezing", "frozen", "clean", "named"}
    /\ ~proc[q].force
    /\ p \notin proc[q].left

\* What a step puts where one of them will not look again.
Unseen(checkouts) ==
    {draft'[p] : p \in {x \in Part : /\ draft'[x] \notin {None, draft[x]}
                                    /\ \E c \in checkouts : HasRead(c, x)}}

-----------------------------------------------------------------------------
(* The draft is edited meanwhile, one write at a time.                      *)

Edit(p) ==
    /\ edits < MaxEdits
    /\ edits' = edits + 1
    /\ \/ draft' = [draft EXCEPT ![p] = edits + 1]
       \/ p \in Asset /\ draft' = [draft EXCEPT ![p] = None]
    /\ late' = late \cup Unseen(Checkout)
    /\ UNCHANGED <<base, log, bucket, proc, visitor, lost, mixed>>

-----------------------------------------------------------------------------
(* publishSite.                                                             *)

\* loadDraft: what will be rendered; an invalid draft publishes nothing.
LoadDraft(q) ==
    /\ proc[q].pc = "idle"
    /\ proc' = IF Valid(draft)
               THEN [proc EXCEPT ![q] = [@ EXCEPT !.pc = "loaded", !.loaded = draft]]
               ELSE [proc EXCEPT ![q] = Ended("failed")]
    /\ UNCHANGED <<draft, edits, base, log, bucket, visitor, lost, late, mixed>>

\* revisions(): also how pendingChanges begins.
ReadHistory(q) ==
    /\ proc[q].pc \in {"loaded", "checking"}
    /\ \E l \in {0} \cup Rev :
          /\ Highest(l)
          /\ proc' = [proc EXCEPT ![q] = [@ EXCEPT !.pc = "history", !.live = l]]
    /\ UNCHANGED <<draft, edits, base, log, bucket, visitor, lost, late, mixed>>

\* What lies under a revision's prefix and is not what it froze.
Foreign(i) ==
    {SourceOf(i)[p] : p \in {x \in Present(SourceOf(i)) : SourceOf(i)[x] # log[i].source[x]}}

\* readRevision(live).
ReadPrevious(q) ==
    /\ proc[q].pc = "history"
    /\ proc' = [proc EXCEPT ![q] = [@ EXCEPT !.pc = "freezing", !.left = Part,
                                             !.prev = SourceOf(proc[q].live)]]
    /\ mixed' = IF q \in Checkout THEN mixed \cup Foreign(proc[q].live) ELSE mixed
    /\ UNCHANGED <<draft, edits, base, log, bucket, visitor, lost, late>>

\* readDraftSnapshot: one statement, or one object, at a time.
ReadPart(q, p) ==
    /\ proc[q].pc = "freezing"
    /\ p \in proc[q].left
    /\ proc' = [proc EXCEPT ![q] = [@ EXCEPT
           !.left = proc[q].left \ {p},
           !.frozen = [proc[q].frozen EXCEPT ![p] = draft[p]],
           !.pc = IF proc[q].left = {p} THEN "frozen" ELSE "freezing"]]
    /\ UNCHANGED <<draft, edits, base, log, bucket, visitor, lost, late, mixed>>

\* The diff.  An unchanged draft is a no-op; otherwise draftBase is read and
\* the next number taken, one past the highest READ.
NoChanges(q) == proc[q].frozen = proc[q].prev

\* Mutant: one past the number that is already the next.
SkippingRevision(q) == proc[q].live + 2

NextRevision(q) == proc[q].live + 1

Decide(q) ==
    /\ proc[q].pc = "frozen"
    /\ IF proc[q].live # 0 /\ NoChanges(q)
       THEN proc' = [proc EXCEPT ![q] = Ended("unchanged")]
       ELSE /\ NextRevision(q) \in Rev
            /\ proc' = [proc EXCEPT ![q] = [@ EXCEPT
                   !.pc = "source", !.id = NextRevision(q), !.basedOn = base,
                   !.left = Present(proc[q].frozen), !.prev = Empty]]
    /\ UNCHANGED <<draft, edits, base, log, bucket, visitor, lost, late, mixed>>

\* writeRevision puts the frozen source, then the rendered output.
PutSource(q, p) ==
    /\ proc[q].pc = "source"
    /\ p \in proc[q].left
    /\ bucket' = [bucket EXCEPT ![proc[q].id]["source"][p] = proc[q].frozen[p]]
    /\ proc' = [proc EXCEPT ![q].left = @ \ {p}]
    /\ UNCHANGED <<draft, edits, base, log, visitor, lost, late, mixed>>

\* What `out` holds: the documents as loaded, the assets as frozen.
Output(q) == [p \in Part |-> IF p \in Doc THEN proc[q].loaded[p] ELSE proc[q].frozen[p]]

\* Mutant: the output is started without waiting for the source.
StartOutputEarly(q) ==
    /\ proc[q].pc = "source"
    /\ proc' = [proc EXCEPT ![q] = [@ EXCEPT !.pc = "out", !.left = Present(Output(q))]]
    /\ UNCHANGED <<draft, edits, base, log, bucket, visitor, lost, late, mixed>>

StartOutput(q) ==
    /\ proc[q].pc = "source"
    /\ proc[q].left = {}
    /\ proc' = [proc EXCEPT ![q] = [@ EXCEPT !.pc = "out", !.left = Present(Output(q))]]
    /\ UNCHANGED <<draft, edits, base, log, bucket, visitor, lost, late, mixed>>

PutOut(q, p) ==
    /\ proc[q].pc = "out"
    /\ p \in proc[q].left
    /\ bucket' = [bucket EXCEPT ![proc[q].id]["out"][p] = Output(q)[p]]
    /\ proc' = [proc EXCEPT ![q].left = @ \ {p}]
    /\ UNCHANGED <<draft, edits, base, log, visitor, lost, late, mixed>>

\* Mutant: the row is inserted while objects are still to be put.
RowFirst(q) == proc[q].pc = "out"

AllPut(q) == proc[q].pc = "out" /\ proc[q].left = {}

\* The row, last; its primary key refuses a number already taken.
Record(q) ==
    /\ AllPut(q)
    /\ IF log[proc[q].id] = None
       THEN /\ log' = [log EXCEPT ![proc[q].id] =
                  [basedOn |-> proc[q].basedOn, source |-> proc[q].frozen, out |-> Output(q)]]
            /\ proc' = [proc EXCEPT ![q].pc = "recorded"]
       ELSE /\ proc' = [proc EXCEPT ![q] = Ended("failed")]
            /\ UNCHANGED log
    /\ UNCHANGED <<draft, edits, base, bucket, visitor, lost, late, mixed>>

\* setDraftBase: the end of a publish and of a checkout.
SetDraftBase(q) ==
    /\ proc[q].pc \in {"recorded", "written"}
    /\ base' = proc[q].id
    /\ proc' = [proc EXCEPT ![q] = Ended("done")]
    /\ UNCHANGED <<draft, edits, log, bucket, visitor, lost, late, mixed>>

-----------------------------------------------------------------------------
(* checkoutRevision.  Its dirty check is pendingChanges: ReadHistory,       *)
(* ReadPrevious and ReadPart again, with the diff in CheckDirty.            *)

\* revisions(): an explicit target, or live.
PickRevision(q) ==
    /\ proc[q].pc = "idle"
    /\ \E i \in Listed, f \in BOOLEAN :
          proc' = [proc EXCEPT ![q] = [@ EXCEPT !.pc = "wanted", !.id = i, !.force = f]]
    /\ UNCHANGED <<draft, edits, base, log, bucket, visitor, lost, late, mixed>>

\* readRevision(target).
ReadWanted(q) ==
    /\ proc[q].pc = "wanted"
    /\ proc' = [proc EXCEPT ![q] = [@ EXCEPT
           !.wanted = SourceOf(proc[q].id),
           !.pc = IF proc[q].force THEN "clean" ELSE "checking"]]
    /\ UNCHANGED <<draft, edits, base, log, bucket, visitor, lost, late, mixed>>

\* Mutant: the changes are listed, and the checkout goes on.
ListChanges(q) ==
    /\ proc[q].pc = "frozen"
    /\ proc' = [proc EXCEPT ![q] = [@ EXCEPT !.pc = "clean"]]
    /\ UNCHANGED <<draft, edits, base, log, bucket, visitor, lost, late, mixed>>

CheckDirty(q) ==
    /\ proc[q].pc = "frozen"
    /\ proc' = [proc EXCEPT ![q] = IF NoChanges(q) THEN [@ EXCEPT !.pc = "clean"]
                                   ELSE Ended("failed")]
    /\ UNCHANGED <<draft, edits, base, log, bucket, visitor, lost, late, mixed>>

\* readPages and listAssets, to name what the write must remove.
NameDraft(q) ==
    /\ proc[q].pc = "clean"
    /\ proc' = [proc EXCEPT ![q] = [@ EXCEPT !.pc = "named", !.names = Present(draft)]]
    /\ UNCHANGED <<draft, edits, base, log, bucket, visitor, lost, late, mixed>>

\* What some listed revision froze for this part.
Kept(p) == {log[i].source[p] : i \in Listed}

\* write: the revision's parts, minus the named ones it does not have.
\* Unforced, what it overwrites should be in some revision.
WriteDraft(q) ==
    /\ proc[q].pc = "named"
    /\ draft' = [p \in Part |->
           IF proc[q].wanted[p] # None THEN proc[q].wanted[p]
           ELSE IF p \in proc[q].names THEN None ELSE draft[p]]
    /\ proc' = [proc EXCEPT ![q].pc = "written"]
    /\ lost' = IF proc[q].force THEN lost
               ELSE lost \cup {draft[p] : p \in {x \in Present(draft) :
                                   draft'[x] # draft[x] /\ draft[x] \notin Kept(x)}}
    /\ late' = late \cup Unseen(Checkout \ {q})
    /\ UNCHANGED <<edits, base, log, bucket, visitor, mixed>>

-----------------------------------------------------------------------------
(* public-site: live is MAX(id); then one object of that revision's output. *)

Resolve(v) ==
    /\ visitor[v].pc = "idle"
    /\ \E l \in Listed : Highest(l) /\ \E p \in Present(log[l].out) :
          visitor' = [visitor EXCEPT ![v] = [pc |-> "resolved", id |-> l, part |-> p]]
    /\ UNCHANGED <<draft, edits, base, log, bucket, proc, lost, late, mixed>>

Serve(v) ==
    /\ visitor[v].pc = "resolved"
    /\ visitor' = [visitor EXCEPT ![v].pc =
           IF bucket[visitor[v].id]["out"][visitor[v].part] = None THEN "missing" ELSE "served"]
    /\ UNCHANGED <<draft, edits, base, log, bucket, proc, lost, late, mixed>>

-----------------------------------------------------------------------------

Publishes(q) ==
    \/ LoadDraft(q) \/ ReadHistory(q) \/ ReadPrevious(q)
    \/ \E p \in Part : ReadPart(q, p) \/ PutSource(q, p) \/ PutOut(q, p)
    \/ Decide(q) \/ StartOutput(q) \/ Record(q) \/ SetDraftBase(q)

ChecksOut(q) ==
    \/ PickRevision(q) \/ ReadWanted(q)
    \/ ReadHistory(q) \/ ReadPrevious(q) \/ \E p \in Part : ReadPart(q, p)
    \/ CheckDirty(q) \/ NameDraft(q) \/ WriteDraft(q) \/ SetDraftBase(q)

Next ==
    \/ \E p \in Part : Edit(p)
    \/ \E q \in Publisher : Publishes(q)
    \/ \E q \in Checkout : ChecksOut(q)
    \/ \E v \in Visitor : Resolve(v) \/ Serve(v)

\* No fairness: a request may be abandoned after any await.
Spec == Init /\ [][Next]_vars

-----------------------------------------------------------------------------
(* What a publish promises.                                                *)

\* "The log can never name a revision that serves a 404" (d1r2-store.ts,
\* writeRevision): of a listed revision, every part that was frozen and every
\* part that was rendered is in the bucket, whoever else published under the
\* same number and whoever stopped halfway.
RevisionServable ==
    \A i \in Listed :
        /\ Present(log[i].source) \subseteq Present(bucket[i]["source"])
        /\ Present(log[i].out) \subseteq Present(bucket[i]["out"])

\* The same, as public-site meets it: a visit that resolved the live revision
\* and then asks R2 for one of its files gets it, however much is published,
\* checked out or abandoned between its two reads.
VisitorIsServed == \A v \in Visitor : visitor[v].pc # "missing"

\* A checkout "REFUSES A DIRTY DRAFT unless forced, because the operation
\* overwrites the draft wholesale and unpublished work has nowhere else to be"
\* (publish.ts, checkoutRevision), as far as it is true: what an unforced checkout
\* overwrites is in a revision, or was put after the check had read that part, or
\* the check took it for published, as a publish that did not record it had put it
\* under a listed revision's prefix.
OnlyUnseenIsLost == lost \subseteq late \cup mixed

\* History is forward-only (publish.ts, checkoutRevision): a revision descends
\* from an older one.  The parent is read after the number was computed, and
\* both may be stale when the row is inserted.
LineageDescends == \A i \in Listed : log[i].basedOn < i

\* Refinement: the log as RevisionLog promises it.
Log == INSTANCE RevisionLog WITH
           parent <- [i \in Rev |-> IF log[i] = None THEN None ELSE log[i].basedOn]

\* The log is append-only and contiguous, a row's parent never changes, live
\* only goes up, and the draft descends from a revision that is listed.
ImplementsRevisionLog == Log!Spec

-----------------------------------------------------------------------------
(* What comments say of a publish and the code does not keep.              *)

\* "A snapshot that pointed at the draft's `logo.svg` would silently change"
\* (publish.ts, readDraftSnapshot, on what makes a revision immutable): a part
\* a revision froze keeps the frozen content.
RevisionIsImmutable ==
    \A i \in Listed : \A p \in Present(log[i].source) :
        bucket[i]["source"][p] = log[i].source[p]

\* "An interrupted publish can leave objects behind; without a row they are
\* unreachable" (d1r2-store.ts, readRevision): what a revision's prefix lists
\* is what the revision froze.
LeftoversUnreachable ==
    \A i \in Listed : Present(bucket[i]["source"]) \subseteq Present(log[i].source)

\* "Everything a publish freezes: the definition, and the bytes it rendered
\* to" (revision-model.ts, RevisionContent): the documents that were rendered
\* are the documents that were frozen.
OutRendersSource ==
    \A i \in Listed : \A d \in Doc : log[i].out[d] = log[i].source[d]

\* OnlyUnseenIsLost as the comment has it: unforced, a checkout overwrites nothing
\* that is in no revision.
NoWorkLost == lost = {}

\* "A checkout of an older revision re-parents the draft onto THAT one, and the
\* difference is precisely what `basedOn` records" (site-store.ts, draftBase):
\* where nothing is checked out, each revision descends from the one before.
LineageSkipsNothing ==
    Checkout = {} => \A i \in Listed : log[i].basedOn = i - 1

=============================================================================
