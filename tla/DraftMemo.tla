------------------------------ MODULE DraftMemo ------------------------------
(***************************************************************************)
(* loadDraft of the D1/R2 store (tools/generate/src/store/d1r2-store.ts)   *)
(* and ASSEMBLED, the memo it keeps in each isolate, for one slug.         *)
(*                                                                         *)
(* A load reads the `sites` row (the version and site.json), consults the  *)
(* memo of its isolate, and on a miss reads the pages and the asset names  *)
(* in two more statements before it fills the memo.  Writes and other      *)
(* loads come between.  The site may be forgotten and created again, under *)
(* a new key and with its versions starting over.                          *)
(*                                                                         *)
(* A part's content is the number of the write that produced it: a larger  *)
(* number is a newer content.                                              *)
(***************************************************************************)
EXTENDS Absence, Naturals

CONSTANTS
    Isolate,    \* worker isolates, each with its own memory
    Loader,     \* requests that call loadDraft, each once
    MaxWrites   \* bound: writes, recreations included

ASSUME WritesAreNat == MaxWrites \in Nat
ASSUME NoneIsNoMemo == None \notin [version: Nat, parts: [{"site", "pages", "assets"} -> Nat]]

VARIABLES
    site,      \* the row: its key, its version and the content of its parts
    writes,    \* how many writes there have been
    memo,      \* ASSEMBLED: isolate -> site key -> entry, or None
    loader     \* the local state of each load

memoVars == <<site, writes, memo, loader>>

Part == {"site", "pages", "assets"}
SiteKey == 0..MaxWrites
Content == 0..(MaxWrites + 1)
Gone == MaxWrites + 1          \* what a forgotten site's rows read as
MemoEntry == [version: Nat, parts: [Part -> Content]]
Blank == [p \in Part |-> 0]

LoaderState ==
    [pc: {"idle", "row", "pages", "done"},
     at: Isolate,                 \* where it runs
     key: SiteKey, version: Nat,
     read: [Part -> Content],     \* what it read, then what it returns
     start: [Part -> Content]]    \* history: the draft when the load began

\* The row, the memos and the loads keep their shapes.
MemoTypeOK ==
    /\ site \in [key: SiteKey, version: Nat, parts: [Part -> Content]]
    /\ writes \in 0..MaxWrites
    /\ memo \in [Isolate -> [SiteKey -> MemoEntry \cup {None}]]
    /\ loader \in [Loader -> LoaderState]

MemoInit ==
    /\ site = [key |-> 0, version |-> 0, parts |-> Blank]
    /\ writes = 0
    /\ memo = [i \in Isolate |-> [k \in SiteKey |-> None]]
    /\ loader \in [Loader -> [pc: {"idle"}, at: Isolate, key: {0}, version: {0},
                              read: {Blank}, start: {Blank}]]

-----------------------------------------------------------------------------
(* The draft changes.                                                      *)

\* Mutant: a write of assets alone leaves the version.
BumpForPages(version, changed) ==
    IF changed = {"assets"} THEN version ELSE version + 1

\* Every batch ends with `version = version + 1`, whatever it changed.
Bump(version, changed) == version + 1

\* One batch of `write`: any parts change, the version always.
Write ==
    /\ writes < MaxWrites
    /\ writes' = writes + 1
    /\ \E changed \in SUBSET Part :
          /\ changed # {}
          /\ site' = [key |-> site.key,
                       version |-> Bump(site.version, changed),
                       parts |-> [p \in Part |-> IF p \in changed THEN writes + 1
                                                ELSE site.parts[p]]]
    /\ UNCHANGED <<memo, loader>>

\* forget and createDraft: a new key, and versions from 0.  The memo entry is
\* dropped by the isolate that forgets, and by no other.
Recreate ==
    /\ writes < MaxWrites
    /\ writes' = writes + 1
    /\ site' = [key |-> writes + 1, version |-> 0, parts |-> [p \in Part |-> writes + 1]]
    /\ \E i \in Isolate : memo' = [memo EXCEPT ![i][site.key] = None]
    /\ UNCHANGED loader

-----------------------------------------------------------------------------
(* loadDraft.                                                               *)

\* Mutant: the memo is believed without comparing versions.
HitAnyVersion(i, row) == memo[i][row.key] # None

\* An entry is used when its version is the one this request just read.
Hit(i, row) == memo[i][row.key] # None /\ memo[i][row.key].version = row.version

\* siteRow, then the memo, in one isolate without an await in between.
ReadRow(l) ==
    /\ loader[l].pc = "idle"
    /\ loader' = [loader EXCEPT ![l] =
           LET i == loader[l].at IN
           [pc |-> IF Hit(i, site) THEN "done" ELSE "row",
            at |-> i, key |-> site.key, version |-> site.version,
            read |-> IF Hit(i, site) THEN memo[i][site.key].parts
                     ELSE [Blank EXCEPT !["site"] = site.parts["site"]],
            start |-> site.parts]]
    /\ UNCHANGED <<site, writes, memo>>

\* What the rows of one key hold now.
Current(key, p) == IF key = site.key THEN site.parts[p] ELSE Gone

\* A load that has read one more part.
Went(l, p, pc) ==
    [pc |-> pc, at |-> loader[l].at, key |-> loader[l].key, version |-> loader[l].version,
     read |-> [loader[l].read EXCEPT ![p] = Current(loader[l].key, p)],
     start |-> loader[l].start]

\* readPagesOf.
ReadPages(l) ==
    /\ loader[l].pc = "row"
    /\ loader' = [loader EXCEPT ![l] = Went(l, "pages", "pages")]
    /\ UNCHANGED <<site, writes, memo>>

\* assetNames; then the memo is filled, under the version of the first read.
ReadAssets(l) ==
    /\ loader[l].pc = "pages"
    /\ loader' = [loader EXCEPT ![l] = Went(l, "assets", "done")]
    /\ memo' = [memo EXCEPT ![loader[l].at][loader[l].key] =
                   [version |-> loader[l].version, parts |-> Went(l, "assets", "done").read]]
    /\ UNCHANGED <<site, writes>>

\* An isolate is evicted and starts again with an empty memo.
Evict(i) ==
    /\ memo[i] # [k \in SiteKey |-> None]
    /\ memo' = [memo EXCEPT ![i] = [k \in SiteKey |-> None]]
    /\ UNCHANGED <<site, writes, loader>>

MemoNext ==
    \/ Write \/ Recreate
    \/ \E l \in Loader : ReadRow(l) \/ ReadPages(l) \/ ReadAssets(l)
    \/ \E i \in Isolate : Evict(i)

MemoSpec == MemoInit /\ [][MemoNext]_memoVars

-----------------------------------------------------------------------------

\* "Currency is proven by a live read rather than assumed from a timer"
\* (d1r2-store.ts, ASSEMBLED): a load never returns a part that is older than
\* the draft was when the load began, whichever isolate wrote, whichever slower
\* load filled the memo last and whether or not the slug was recreated.
NoStaleDraft ==
    \A l \in Loader : loader[l].pc = "done" =>
        \A p \in Part : loader[l].read[p] >= loader[l].start[p]

\* "Opaque; equal iff the definition is unchanged" (site-store.ts,
\* DraftSnapshot.stamp): two loads that return one stamp for one site return
\* one definition.
StampNamesDefinition ==
    \A l, m \in Loader :
        /\ loader[l].pc = "done" /\ loader[m].pc = "done"
        /\ loader[l].key = loader[m].key
        /\ loader[l].version = loader[m].version
        => loader[l].read = loader[m].read

=============================================================================
