------------------------------ MODULE ChangeFeed ------------------------------
(***************************************************************************)
(* The draft change journal of one site in the D1 store (store/            *)
(* d1r2-store.ts, journal-model.ts), the edit commands that append to it    *)
(* (cli/edit.ts, `note`), a caller that polls it (`editChanges`), and the   *)
(* consultant's host, which compares the counter between the turns of the   *)
(* site's one conversation (cli/ai/host-core.ts).                           *)
(*                                                                         *)
(* A command writes the draft, then reads the counter, then appends its     *)
(* record under the next number: three awaits, with other commands between  *)
(* any two.  The host keeps its baseline in the memory of one isolate, and  *)
(* the next turn may run in another, or one already does (BUG-38).          *)
(*                                                                         *)
(* A record is its number.  In one isolate one turn runs at a time: the     *)
(* conversation's session manager, which is a library and is kept in that   *)
(* isolate's memory, is taken to see to that.                               *)
(***************************************************************************)
EXTENDS Absence, Integers

CONSTANTS
    Client,     \* edit commands of the operator, each once
    Tool,       \* edit commands the assistant calls, each once
    Poller,     \* callers of editChanges, each holding the count it got last
    Isolate,    \* worker isolates
    Window,     \* JOURNAL_WINDOW
    MaxAppends, \* bound: records
    MaxTurns    \* bound: turns of the conversation

ASSUME WindowIsPositive == Window \in Nat \ {0}
ASSUME AppendsAreNat == MaxAppends \in Nat /\ MaxTurns \in Nat
ASSUME NoneIsApart == None \notin Nat \cup {"client"} \cup Isolate
ASSUME NoIsolateIsTheClient == "client" \notin Isolate
ASSUME CommandsAreApart == Client \cap Tool = {} /\ None \notin Tool

VARIABLES
    counter,   \* sites.counter
    rows,      \* site_changes: the numbers retained
    by,        \* history: number -> who made the edit, the client or the turn of an isolate
    during,    \* history: number -> the isolates that had a turn under way when it was taken
    command,   \* the local state of each edit command
    poller,    \* the local state of each caller of editChanges
    baseline,  \* host-core's `baselines`: isolate -> count, or None
    turn,      \* isolate -> the turn it runs, if any
    told,      \* history: <<i, a>>, where a reminder in isolate i counted number a
    excused,   \* history: isolate -> the count when a turn there last had no baseline
    turns      \* how many turns began

vars == <<counter, rows, by, during, command, poller, baseline, turn, told, excused, turns>>
journal == <<counter, rows, by, during>>
host == <<baseline, turn, told, excused, turns>>

Command == Client \cup Tool
Count == 0..MaxAppends
At == 1..MaxAppends

CommandState == [pc: {"idle", "landed", "read", "done", "failed"}, at: Count \cup {MaxAppends + 1}]

PollerState ==
    [pc: {"idle", "row"},
     since: Count,        \* what it holds, and will ask about
     now: Count,          \* the counter this slice answers with
     got: SUBSET At,      \* history: every record delivered to it
     gap: BOOLEAN]        \* history: some slice said `truncated`

TurnState ==
    [pc: {"none", "begun", "open", "tool"},
     seen: Count,              \* the count last announced as SITE_CHANGED
     tool: Tool \cup {None},
     silent: BOOLEAN]          \* no baseline: the reminder carries no signal

NoTurn == [pc |-> "none", seen |-> 0, tool |-> None, silent |-> FALSE]

\* The journal, the requests and the host keep their shapes.
TypeOK ==
    /\ counter \in Count
    /\ rows \in SUBSET At
    /\ by \in [At -> {"client", None} \cup Isolate]
    /\ during \in [At -> SUBSET Isolate]
    /\ command \in [Command -> CommandState]
    /\ poller \in [Poller -> PollerState]
    /\ baseline \in [Isolate -> Count \cup {None}]
    /\ turn \in [Isolate -> TurnState]
    /\ told \in SUBSET (Isolate \X At)
    /\ excused \in [Isolate -> Count]
    /\ turns \in 0..MaxTurns

Init ==
    /\ counter = 0
    /\ rows = {}
    /\ by = [a \in At |-> None]
    /\ during = [a \in At |-> {}]
    /\ command = [c \in Command |-> [pc |-> "idle", at |-> 0]]
    /\ poller = [r \in Poller |->
           [pc |-> "idle", since |-> 0, now |-> 0, got |-> {}, gap |-> FALSE]]
    /\ baseline = [i \in Isolate |-> None]
    /\ turn = [i \in Isolate |-> NoTurn]
    /\ told = {}
    /\ excused = [i \in Isolate |-> 0]
    /\ turns = 0

-----------------------------------------------------------------------------
(* An edit command: its write has landed, then appendChange.                *)

LandWrite(c) ==
    /\ c \in Client
    /\ command[c].pc = "idle"
    /\ command' = [command EXCEPT ![c].pc = "landed"]
    /\ UNCHANGED <<journal, poller, host>>

NextNumber == counter + 1

\* siteRow, and the next number.
ReadCounter(c) ==
    /\ command[c].pc = "landed"
    /\ command' = [command EXCEPT ![c] = [pc |-> "read", at |-> NextNumber]]
    /\ UNCHANGED <<journal, poller, host>>

\* Mutant: the window drops one record too many.
AgedTooSoon(at) == {a \in At : a <= at - Window + 1}

\* Records that are not retained once `at` is the newest.
Aged(at) == {a \in At : a <= at - Window}

\* Who makes c's edit, and the isolates where a turn has been reminded and not ended.
Maker(c) == IF c \in Client THEN "client" ELSE CHOOSE i \in Isolate : turn[i].tool = c
UnderWay == {i \in Isolate : turn[i].pc \in {"open", "tool"}}

\* The batch: insert, set the counter, drop what aged out.  The primary key
\* refuses a number that another command took meanwhile.  Taken as given: a
\* command does not sleep through a whole window of appends, which would take
\* the row it conflicts with away.
Append(c) ==
    LET at == command[c].at IN
    /\ command[c].pc = "read"
    /\ counter < at + Window
    /\ at \in At
    /\ IF at \in rows
       THEN /\ command' = [command EXCEPT ![c].pc = "failed"]
            /\ UNCHANGED journal
       ELSE /\ rows' = (rows \cup {at}) \ Aged(at)
            /\ counter' = at
            /\ by' = [by EXCEPT ![at] = Maker(c)]
            /\ during' = [during EXCEPT ![at] = UnderWay]
            /\ command' = [command EXCEPT ![c].pc = "done"]
    /\ UNCHANGED <<poller, host>>

-----------------------------------------------------------------------------
(* changesSince: the counter, then the rows, in two statements.             *)

PollRow(r) ==
    /\ poller[r].pc = "idle"
    /\ poller' = [poller EXCEPT ![r].pc = "row", ![r].now = counter]
    /\ UNCHANGED <<journal, command, host>>

\* Mutant: off by one, as if the record asked about had to be retained.
TruncatedLate(since) == \A a \in rows : a > since + 2

\* The oldest row does not reach back to `since`.
Truncated(since) == rows # {} /\ \A a \in rows : a > since + 1

\* The rows; the caller now holds the count the slice answered with.
PollRows(r) ==
    /\ poller[r].pc = "row"
    /\ poller' = [poller EXCEPT ![r] =
           [pc |-> "idle", since |-> poller[r].now, now |-> poller[r].now,
            got |-> poller[r].got \cup {a \in rows : a > poller[r].since},
            gap |-> poller[r].gap \/ Truncated(poller[r].since)]]
    /\ UNCHANGED <<journal, command, host>>

-----------------------------------------------------------------------------
(* streamPrompt.                                                            *)

\* The opening read of the counter.
BeginTurn(i) ==
    /\ turn[i].pc = "none"
    /\ turns < MaxTurns
    /\ turns' = turns + 1
    /\ turn' = [turn EXCEPT ![i] = [NoTurn EXCEPT !.pc = "begun", !.seen = counter]]
    /\ UNCHANGED <<journal, command, poller, baseline, told, excused>>

\* Mutant: the record the baseline names is counted again.
SinceInclusive(before) == {a \in At : before <= a /\ a <= counter}

\* What `changes: at - before` counts.
Since(before) == {a \in At : before < a /\ a <= counter}

\* reminderFor: what the counter moved by since this isolate's baseline.
Remind(i) ==
    /\ turn[i].pc = "begun"
    /\ LET before == baseline[i] IN
       /\ turn' = [turn EXCEPT ![i].pc = "open", ![i].silent = (before = None)]
       /\ told' = IF before = None THEN told ELSE told \cup ({i} \X Since(before))
       /\ excused' = IF before = None THEN [excused EXCEPT ![i] = counter] ELSE excused
    /\ UNCHANGED <<journal, command, poller, baseline, turns>>

\* The assistant calls a tool, whose write lands.
CallTool(i, t) ==
    /\ turn[i].pc = "open"
    /\ t \in Tool
    /\ command[t].pc = "idle"
    /\ command' = [command EXCEPT ![t].pc = "landed"]
    /\ turn' = [turn EXCEPT ![i].pc = "tool", ![i].tool = t]
    /\ UNCHANGED <<journal, poller, baseline, told, excused, turns>>

SeenNow(i) == IF counter <= turn[i].seen THEN turn[i].seen ELSE counter

\* The tool answered: SITE_CHANGED when the counter has moved.
Announce(i) ==
    /\ turn[i].pc = "tool"
    /\ command[turn[i].tool].pc \in {"done", "failed"}
    /\ turn' = [turn EXCEPT ![i].pc = "open", ![i].tool = None, ![i].seen = SeenNow(i)]
    /\ UNCHANGED <<journal, command, poller, baseline, told, excused, turns>>

\* The turn ends, or the client abandons it: the `finally`.
EndTurn(i) ==
    /\ turn[i].pc = "open"
    /\ baseline' = [baseline EXCEPT ![i] = counter]
    /\ turn' = [turn EXCEPT ![i] = NoTurn]
    /\ UNCHANGED <<journal, command, poller, told, excused, turns>>

\* An isolate goes away: its baseline, the turn it ran and that turn's tool.
Evict(i) ==
    /\ baseline[i] # None \/ turn[i].pc # "none"
    /\ baseline' = [baseline EXCEPT ![i] = None]
    /\ turn' = [turn EXCEPT ![i] = NoTurn]
    /\ command' = [c \in Command |->
           IF c = turn[i].tool /\ command[c].pc \in {"landed", "read"}
           THEN [command[c] EXCEPT !.pc = "failed"] ELSE command[c]]
    /\ UNCHANGED <<journal, poller, told, excused, turns>>

-----------------------------------------------------------------------------

Next ==
    \/ \E c \in Command : LandWrite(c) \/ ReadCounter(c) \/ Append(c)
    \/ \E r \in Poller : PollRow(r) \/ PollRows(r)
    \/ \E i \in Isolate : \/ BeginTurn(i) \/ Remind(i) \/ Announce(i) \/ EndTurn(i) \/ Evict(i)
                          \/ \E t \in Tool : CallTool(i, t)

\* No fairness: requests may be abandoned, and isolates go away.
Spec == Init /\ [][Next]_vars

-----------------------------------------------------------------------------
(* What the journal promises.                                              *)

\* "The arithmetic is nextJournal's slice(-JOURNAL_WINDOW)" (d1r2-store.ts,
\* appendChange): whatever commands raced for a number, the rows are the last
\* Window numbers up to the counter, with no hole and nothing above.
WindowIsTail == rows = {a \in At : a <= counter /\ a > counter - Window}

\* "A baseline older than the window says so rather than answering half"
\* (journal-model.ts, ChangeSlice.truncated): a caller that polls with the
\* count of the last slice was given every record up to what it holds, unless
\* some slice said it was truncated.  The count and the rows are read in two
\* statements, and records are appended and aged out in between.
PollMissesNothing == \A r \in Poller : ~poller[r].gap => 1..poller[r].since \subseteq poller[r].got

\* "The assistant's own edits are absorbed into the baseline and never reported
\* back to it as somebody else's work" (host-core.ts, baselines): to a turn in the
\* isolate it made them in, whatever turns others run and wherever they go away.
OwnEditsNotReported == \A i \in Isolate, a \in At : <<i, a>> \in told => by[a] # i

\* "Staleness here is DETECTABLE rather than silent" (host-core.ts, baselines): what
\* an isolate's baseline covers landed during a turn of that isolate or was told
\* there, unless there was no baseline to compare with.
OthersAreTold ==
    \A i \in Isolate : baseline[i] # None =>
        \A a \in 1..baseline[i] : i \in during[a] \/ a <= excused[i] \/ <<i, a>> \in told

\* Which edits a reminder tells, in any number of isolates: none that a turn there
\* made itself, and all that landed while no turn was under way there.  What landed
\* while one was is told nobody there, and what the assistant made elsewhere is told
\* as the client's: the baseline is one isolate's.
RemindersTellTheRest == OwnEditsNotReported /\ OthersAreTold

-----------------------------------------------------------------------------
(* What comments say and the code does not keep.                           *)

\* "Journalling never fails a write" (d1r2-store.ts, appendChange; journal.ts):
\* an edit command whose write landed does not fail.
AppendNeverFails == \A c \in Client : command[c].pc # "failed"

\* "No baseline yet means the session has not taken a turn, so there is nothing
\* it could have missed" (host-core.ts, reminderFor): where one has no baseline, no
\* other isolate has ended one.
NoBaselineMeansFirstTurn ==
    \A i \in Isolate : turn[i].pc = "open" /\ turn[i].silent => \A j \in Isolate : baseline[j] = None

\* "Never reported back to it as somebody else's work" (host-core.ts, baselines): no
\* reminder counts what the assistant made, wherever it made it.
NoneIsReportedBack == \A i \in Isolate, a \in At : <<i, a>> \in told => by[a] = "client"

\* "Detecting a concurrent edit needs no actor filtering, the arithmetic does
\* it" (edit.ts, EditOutput.at): what the client did and a baseline covers was told
\* to the assistant, unless there was no baseline to compare with.
ClientEditsAreTold ==
    \A i \in Isolate : baseline[i] # None =>
        \A a \in 1..baseline[i] : by[a] = "client" => a <= excused[i] \/ <<i, a>> \in told

=============================================================================
