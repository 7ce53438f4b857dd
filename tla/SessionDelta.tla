----------------------------- MODULE SessionDelta -----------------------------
(***************************************************************************)
(* What a conversation is told of the client's new documents: turnDelta    *)
(* (control-app src/session-delta.ts) over the cursor on the               *)
(* conversation's chat ticket, and the landscape a first turn starts from  *)
(* (knowledge.ts), of one tenant and one conversation.                     *)
(*                                                                         *)
(* Turns may overlap: nothing serialises two tabs.  Each await of a turn   *)
(* is a step.  The ticket store is external: it stamps a document when it  *)
(* commits it, a query sees what is committed, and tickets come back in    *)
(* the order of their uids, which says nothing of their age.               *)
(***************************************************************************)
EXTENDS Absence, Naturals, FiniteSets

CONSTANTS
    Doc,         \* documents of the corpus
    Turn,        \* turns that may be under way at once, each slot used over and over
    Build,       \* rebuilds of the landscape that may be under way at once
    Begun,       \* what the conversation may look like at first
    MaxTime,     \* bound: the last instant
    MaxChats     \* bound: the chat tickets that may be created

Time == 1..MaxTime
Chat == 1..MaxChats              \* uids of chat tickets, in the order they sort

ASSUME BoundsAreNat == MaxTime \in Nat \ {0} /\ MaxChats \in Nat \ {0}
ASSUME BegunIsKnown == Begun \subseteq {"new", "uncursored", "resumed"}

Version == Doc \X Time           \* a document as it was stamped
Cursor == [at: Time, seen: SUBSET Doc]
Bare == [at |-> 0, seen |-> {}]   \* a ticket that carries no cursor
Landscape == [at: Time, covers: SUBSET Version]

ASSUME NoneIsNoCursor == None # Bare /\ None \notin Cursor /\ None \notin Chat
ASSUME DocIsFinite == IsFiniteSet(Doc)

VARIABLES
    clock,      \* the instant
    stamp,      \* document -> its updated_at, or 0
    landscape,  \* the published map, or None
    build,      \* rebuild -> the corpus it read, or None
    chats,      \* uid -> the chat ticket: None, or the cursor it carries
    turn,       \* the local state of each turn
    swept,      \* the versions some turn found new, kept unless first turns overlap
    told,       \* version -> how many turns told of it, counted to 2 until turns overlap
    began,      \* where the first cursor that was stored began, or 0
    overlap     \* the worst overlap there was: of no turns, of turns that found
                \* a cursor, or of turns before there was one

deltaVars == <<clock, stamp, landscape, build, chats, turn, swept, told, began, overlap>>
corpus == <<clock, stamp, landscape, build>>
history == <<swept, told, began, overlap>>

NoTurn == [pc |-> "idle", chat |-> None, start |-> 1, stored |-> None, cursor |-> None,
           entries |-> {}]

TurnState == [pc: {"idle", "cover", "sweep", "persist", "tell"}, chat: Chat \cup {None},
              start: Time,                  \* `now`, then where the coverage ends
              stored: Cursor \cup {None}, cursor: Cursor \cup {None},
              entries: SUBSET Version]

Committed == {<<d, stamp[d]>> : d \in {e \in Doc : stamp[e] # 0}}

\* Tickets, turns and maps keep their shapes; at a turn's cursor stand only
\* documents of the corpus, and a turn that is past its sweep has a cursor.
DeltaTypeOK ==
    /\ clock \in Time
    /\ stamp \in [Doc -> 0..clock]
    /\ landscape \in Landscape \cup {None}
    /\ build \in [Build -> (SUBSET Version) \cup {None}]
    /\ chats \in [Chat -> Cursor \cup {None, Bare}]
    /\ turn \in [Turn -> TurnState]
    /\ swept \subseteq Version
    /\ told \in [Version -> 0..2]
    /\ began \in 0..MaxTime
    /\ overlap \in {"none", "later", "first"}
    /\ \A t \in Turn : turn[t].pc \in {"sweep", "persist", "tell"} =>
          /\ turn[t].cursor # None
          /\ turn[t].cursor.at <= clock
          /\ \A d \in turn[t].cursor.seen : stamp[d] >= turn[t].cursor.at

\* A conversation that has not begun, one from before the corpus was wired and
\* one that was told everything there was.
DeltaInit ==
    /\ clock = 1
    /\ stamp = [d \in Doc |-> 0]
    /\ landscape = None
    /\ build = [b \in Build |-> None]
    /\ \E how \in Begun :
          /\ chats = [c \in Chat |-> IF c # 1 \/ how = "new" THEN None
                                     ELSE IF how = "uncursored" THEN Bare
                                     ELSE [at |-> 1, seen |-> {}]]
          /\ began = IF how = "resumed" THEN 1 ELSE 0
    /\ turn = [t \in Turn |-> NoTurn]
    /\ swept = {}
    /\ told = [v \in Version |-> 0]
    /\ overlap = "none"

-----------------------------------------------------------------------------
(* The corpus and its landscape.                                            *)

Tick ==
    /\ clock < MaxTime
    /\ clock' = clock + 1
    /\ UNCHANGED <<stamp, landscape, build, chats, turn, history>>

\* A document is added, or changed at a later instant.
Upload(d) ==
    /\ stamp[d] < clock
    /\ stamp' = [stamp EXCEPT ![d] = clock]
    /\ UNCHANGED <<clock, landscape, build, chats, turn, history>>

\* Every upload defers a rebuild: it reads the corpus ...
ReadCorpus(b) ==
    /\ build[b] = None
    /\ build' = [build EXCEPT ![b] = Committed]
    /\ UNCHANGED <<clock, stamp, landscape, chats, turn, history>>

\* ... and after a call to a model per territory replaces the report.
PublishMap(b) ==
    /\ build[b] # None
    /\ landscape' = [at |-> clock, covers |-> build[b]]
    /\ build' = [build EXCEPT ![b] = None]
    /\ UNCHANGED <<clock, stamp, chats, turn, history>>

-----------------------------------------------------------------------------
(* turnDelta.                                                               *)

\* The first of the conversation's tickets that the query returns.
FindChat ==
    IF \A c \in Chat : chats[c] = None THEN None
    ELSE CHOOSE c \in Chat : chats[c] # None /\ \A e \in 1..(c - 1) : chats[e] = None

\* The clock is read and the chat ticket looked for.
Begin(t) ==
    /\ turn[t].pc = "idle"
    /\ LET chat == FindChat
           stored == IF chat = None \/ chats[chat] = Bare THEN None ELSE chats[chat]
       IN  turn' = [turn EXCEPT ![t] =
               [NoTurn EXCEPT !.pc = IF stored = None THEN "cover" ELSE "sweep",
                              !.chat = chat, !.start = clock,
                              !.stored = stored, !.cursor = stored]]
    /\ overlap' = IF \A u \in Turn : turn[u].pc = "idle" THEN overlap
                  ELSE IF began = 0 THEN "first"
                  ELSE IF overlap = "none" THEN "later" ELSE overlap
    /\ told' = IF overlap' = "none" THEN told ELSE [v \in Version |-> 0]
    /\ swept' = IF overlap' = "first" THEN {} ELSE swept
    /\ UNCHANGED <<corpus, chats, began>>

CoverageStart(now) == IF landscape = None THEN now ELSE landscape.at

\* coverageCursor: a conversation with no cursor starts where the map ends.
Cover(t) ==
    /\ turn[t].pc = "cover"
    /\ turn' = [turn EXCEPT ![t] =
           [turn[t] EXCEPT !.pc = "sweep", !.start = CoverageStart(turn[t].start),
                           !.cursor = [at |-> CoverageStart(turn[t].start), seen |-> {}]]]
    /\ UNCHANGED <<corpus, chats, history>>

\* Mutant: the boundary instant is excluded instead of deduplicated.
SinceExclusive(cursor) == {d \in Doc : stamp[d] > cursor.at}

\* changedSince: at or after the cursor, and not reported at it.
ChangedSince(cursor) == {d \in Doc : stamp[d] >= cursor.at /\ d \notin cursor.seen}

\* Mutant: the boundary's list is of the last sweep alone.
AdvanceForgetting(cursor, entries) ==
    LET at == IF entries = {} THEN cursor.at
              ELSE CHOOSE s \in {stamp[d] : d \in entries} : \A d \in entries : stamp[d] <= s
    IN  [at |-> at, seen |-> {d \in entries : stamp[d] = at}]

\* advance: the newest instant reported, and who was reported at it.
Advance(cursor, entries) ==
    LET times == {cursor.at} \cup {stamp[d] : d \in entries}
        at == CHOOSE s \in times : \A u \in times : u <= s
    IN  [at |-> at, seen |-> {d \in entries : stamp[d] = at} \cup
                             (IF at = cursor.at THEN cursor.seen ELSE {})]

Moved(was, cursor) ==
    was = None \/ cursor.at # was.at \/ Cardinality(cursor.seen) # Cardinality(was.seen)

Versions(entries) == {<<d, stamp[d]>> : d \in entries}

\* The sweep.  The cursor is written when it moved or was not stored yet.
Sweep(t) ==
    /\ turn[t].pc = "sweep"
    /\ LET entries == ChangedSince(turn[t].cursor)
           cursor == Advance(turn[t].cursor, entries)
       IN  /\ turn' = [turn EXCEPT ![t] =
                  [turn[t] EXCEPT !.pc = IF Moved(turn[t].stored, cursor)
                                         THEN "persist" ELSE "tell",
                                  !.cursor = cursor, !.entries = Versions(entries)]]
           /\ swept' = IF overlap = "first" THEN {} ELSE swept \cup Versions(entries)
    /\ UNCHANGED <<corpus, chats, told, began, overlap>>

\* writeCursor: an update of the ticket that was found, or a new one.
Persist(t) ==
    /\ turn[t].pc = "persist"
    /\ \E c \in Chat :
          /\ IF turn[t].chat = None THEN chats[c] = None ELSE c = turn[t].chat
          /\ chats' = [chats EXCEPT ![c] = turn[t].cursor]
    /\ turn' = [turn EXCEPT ![t].pc = "tell"]
    /\ began' = IF began = 0 THEN turn[t].start ELSE began
    /\ UNCHANGED <<corpus, swept, told, overlap>>

\* The line reaches the reminder.
Tell(t) ==
    /\ turn[t].pc = "tell"
    /\ told' = [v \in Version |->
           IF overlap = "none" /\ v \in turn[t].entries /\ told[v] < 2
           THEN told[v] + 1 ELSE told[v]]
    /\ turn' = [turn EXCEPT ![t] = NoTurn]
    /\ UNCHANGED <<corpus, chats, swept, began, overlap>>

\* A turn is abandoned, or an await of it throws.
Abandon(t) ==
    /\ turn[t].pc # "idle"
    /\ turn' = [turn EXCEPT ![t] = NoTurn]
    /\ UNCHANGED <<corpus, chats, history>>

-----------------------------------------------------------------------------

DeltaNext ==
    \/ Tick
    \/ \E d \in Doc : Upload(d)
    \/ \E b \in Build : ReadCorpus(b) \/ PublishMap(b)
    \/ \E t \in Turn : Begin(t) \/ Cover(t) \/ Sweep(t) \/ Persist(t) \/ Tell(t) \/ Abandon(t)

DeltaSpec == DeltaInit /\ [][DeltaNext]_deltaVars

-----------------------------------------------------------------------------
(* What a conversation may rely on.                                        *)

HasCursor(c) == chats[c] \notin {None, Bare}

\* The cursor is at a later instant, or the document was reported at this one.
Passed(cursor, v) == v[2] < cursor.at \/ (v[2] = cursor.at /\ v[1] \in cursor.seen)

\* Documents and changes the conversation's cursor has passed, since the
\* conversation's first cursor.
Behind == IF FindChat = None \/ chats[FindChat] \in {None, Bare} THEN {}
          ELSE {v \in Committed : Passed(chats[FindChat], v) /\ v[2] >= began}

\* "What makes the feed continuous across turns" (session-delta.ts): a document
\* behind the cursor was found new by one of the conversation's turns, however
\* turns overlap once there is a cursor.  Two first turns at once are another
\* matter: each makes a ticket with a cursor of its own.
NoDocumentSkipped ==
    overlap # "first" => \A v \in Behind : \E s \in Time : <<v[1], s>> \in swept

\* "Inclusivity means a cursor set to the newest timestamp re-reports the newest
\* document on the next turn, forever" (session-delta.ts): unless turns overlap,
\* no upload is told of twice.
ToldOnce == overlap = "none" => \A v \in Version : told[v] <= 1

-----------------------------------------------------------------------------
(* What comments say and the code does not keep.                           *)

\* What is dropped is "the uids already reported AT that timestamp", and the feed
\* is "automatically complete over every corpus member" (session-delta.ts): a
\* change behind the cursor was found new too.
NoChangeSkipped == Behind \subseteq swept

\* "Two turns racing to move it forward both move it forward"
\* (session-delta.ts, writeCursor).
CursorMovesForward ==
    [][\A c \in Chat : HasCursor(c) => chats'[c].at >= chats[c].at]_deltaVars

\* "Anchoring on the map's build time makes the two exactly complementary"
\* (session-delta.ts, coverageCursor): a document is in the map or is at or
\* after the instant where a conversation's first cursor starts.
MapComplementsCursor ==
    landscape # None => \A v \in Committed : v \in landscape.covers \/ v[2] >= landscape.at

=============================================================================
