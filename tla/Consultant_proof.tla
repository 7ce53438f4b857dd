--------------------------- MODULE Consultant_proof ---------------------------
(***************************************************************************)
(* What the consultant is told of a site, and what it records of a         *)
(* conversation: the journal of changes, for any number of commands,       *)
(* pollers, appends and turns, and the ledger of decisions, for any number *)
(* of decisions, names and tickets.                                        *)
(*                                                                         *)
(* A command's number is at most the counter's successor, and whatever is  *)
(* at most the counter is retained, or is too old for a command to hold:   *)
(* so the number that is free is the next one.  The ledger's own numbers   *)
(* are safe for another reason: its body is compared and set.              *)
(***************************************************************************)
EXTENDS ChangeFeed, TLAPS

-----------------------------------------------------------------------------
(* The journal.                                                             *)

Pending(c) == command[c].pc \in {"landed", "read"}

\* A number is one that was to be had when it was read.
NumbersAreNext == \A c \in Command : command[c].pc = "read" => command[c].at \in 1..(counter + 1)

\* No tool's command outlives the turn that called it.
ToolsAreOfATurn ==
    /\ \A i \in Isolate : turn[i].tool # None => turn[i].pc = "tool"
    /\ \A t \in Tool : Pending(t) => \E i \in Isolate : turn[i].tool = t

TypeInv == TypeOK /\ NumbersAreNext /\ ToolsAreOfATurn

JournalInv == TypeInv /\ WindowIsTail

\* An empty journal and nobody under way.
LEMMA InitTypes == Init => JournalInv
<1> SUFFICES ASSUME Init PROVE JournalInv
  OBVIOUS
<1>1. Count \subseteq Int /\ 0 \in Count /\ At \subseteq Count
  BY AppendsAreNat DEF Count, At
<1>2. command \in [Command -> CommandState]
  BY <1>1 DEF Init, CommandState
<1>3. poller \in [Poller -> PollerState]
  BY <1>1 DEF Init, PollerState
<1>4. turn \in [Isolate -> TurnState] /\ turns \in 0..MaxTurns
  BY <1>1, AppendsAreNat DEF Init, NoTurn, TurnState
<1>5. TypeOK
  BY <1>1, <1>2, <1>3, <1>4 DEF Init, TypeOK
<1>6. NumbersAreNext /\ ToolsAreOfATurn
  BY DEF Init, NumbersAreNext, ToolsAreOfATurn, Pending, Command, NoTurn
<1>7. WindowIsTail
  BY <1>1 DEF Init, WindowIsTail, At
<1> QED
  BY <1>5, <1>6, <1>7 DEF JournalInv, TypeInv

\* The maker of a tool's edit is an isolate whose turn is under way.
LEMMA MakerIs ==
    ASSUME TypeInv, NEW c \in Command, command[c].pc = "read"
    PROVE  \/ Maker(c) = "client"
           \/ Maker(c) \in Isolate /\ Maker(c) \in UnderWay
<1>1. CASE c \in Client
  BY <1>1 DEF Maker
<1>2. CASE c \notin Client
  <2>1. c \in Tool /\ c # None
    BY <1>2, CommandsAreApart DEF Command
  <2>2. \E i \in Isolate : turn[i].tool = c
    BY <2>1 DEF TypeInv, ToolsAreOfATurn, Pending
  <2>3. Maker(c) \in Isolate /\ turn[Maker(c)].tool = c
    BY <1>2, <2>2 DEF Maker
  <2> QED
    BY <2>1, <2>3 DEF TypeInv, ToolsAreOfATurn, UnderWay
<1> QED
  BY <1>1, <1>2

\* An append that takes effect takes the counter's successor, and the rows stay
\* the last ones.
Taken(c) ==
    /\ counter + 1 \in At /\ counter' = counter + 1
    /\ command[c].pc = "read" /\ command' = [command EXCEPT ![c].pc = "done"]
    /\ by' = [by EXCEPT ![counter + 1] = Maker(c)]
    /\ during' = [during EXCEPT ![counter + 1] = UnderWay]
    /\ rows' = {a \in At : a <= counter + 1 /\ a > counter + 1 - Window}

\* A number that is refused leaves the journal alone.
Refused(c) == command' = [command EXCEPT ![c].pc = "failed"] /\ UNCHANGED journal

\* What an append does: it is refused, or takes the next number.
LEMMA AppendIs ==
    ASSUME JournalInv, NEW c \in Command, Append(c)
    PROVE  UNCHANGED <<poller, host>> /\ (Refused(c) \/ Taken(c))
<1> DEFINE at == command[c].at
<1>1. /\ counter \in Nat /\ Window \in Nat /\ Window > 0 /\ MaxAppends \in Nat
      /\ at \in At /\ At = 1..MaxAppends /\ at <= counter + 1 /\ counter < at + Window
      /\ command[c].pc = "read"
  BY WindowIsPositive, AppendsAreNat
     DEF JournalInv, TypeInv, TypeOK, Append, At, Count, NumbersAreNext
<1>2. rows = {a \in At : a <= counter /\ a > counter - Window}
  BY DEF JournalInv, WindowIsTail
<1>3. CASE at \in rows
  BY <1>3 DEF Append, Refused
<1>4. CASE at \notin rows
  <2>1. at = counter + 1
    BY <1>1, <1>2, <1>4
  <2>2. (rows \cup {at}) \ Aged(at) = {a \in At : a <= counter + 1 /\ a > counter + 1 - Window}
    BY <1>1, <1>2, <2>1 DEF Aged
  <2> QED
    BY <1>1, <1>4, <2>1, <2>2 DEF Append, Taken
<1> QED
  BY <1>3, <1>4

\* The journal moves by such an append only.
LEMMA JournalMoves ==
    ASSUME JournalInv, [Next]_vars
    PROVE  \/ UNCHANGED journal
           \/ \E c \in Command : Append(c) /\ counter + 1 \in At /\ counter' = counter + 1
<1>1. ASSUME NEW c \in Command, Append(c)
      PROVE  UNCHANGED journal \/ (counter + 1 \in At /\ counter' = counter + 1)
  BY <1>1, AppendIs DEF Refused, Taken
<1> QED
  BY <1>1 DEF Next, vars, journal, LandWrite, ReadCounter, PollRow, PollRows, BeginTurn, Evict,
              Remind,
              Announce, EndTurn, CallTool

\* Every step keeps the rows the last ones, and what commands hold the next number.
LEMMA StepTypes == JournalInv /\ [Next]_vars => JournalInv'
<1> SUFFICES ASSUME JournalInv, [Next]_vars PROVE JournalInv'
  OBVIOUS
<1>1. /\ TypeOK /\ NumbersAreNext /\ ToolsAreOfATurn /\ WindowIsTail /\ TypeInv
      /\ counter \in Nat /\ counter <= MaxAppends /\ MaxAppends \in Nat /\ MaxTurns \in Nat
      /\ Count = 0..MaxAppends /\ At = 1..MaxAppends
  BY AppendsAreNat DEF JournalInv, TypeInv, TypeOK, Count, At
<1>2. CASE UNCHANGED vars
  BY <1>1, <1>2 DEF vars, JournalInv, TypeInv, TypeOK, NumbersAreNext, ToolsAreOfATurn, Pending, WindowIsTail
<1>3. ASSUME UNCHANGED journal, TypeOK', NumbersAreNext', ToolsAreOfATurn' PROVE JournalInv'
  BY <1>1, <1>3 DEF JournalInv, TypeInv, WindowIsTail, journal
\* No other tool's command is pending, and the turns are as they were.
<1>4. ASSUME \A t \in Tool : Pending(t)' => Pending(t), turn' = turn PROVE ToolsAreOfATurn'
  BY <1>1, <1>4 DEF ToolsAreOfATurn
<1>5. ASSUME NEW c \in Command, LandWrite(c) PROVE JournalInv'
  <2>1. TypeOK' /\ NumbersAreNext'
    BY <1>1, <1>5 DEF LandWrite, journal, host, TypeOK, CommandState, NumbersAreNext
  <2>2. c \notin Tool
    BY <1>5, CommandsAreApart DEF LandWrite
  <2>3. \A t \in Tool : Pending(t)' => Pending(t)
    BY <1>1, <1>5, <2>2 DEF LandWrite, Pending, TypeOK
  <2> QED
    BY <1>3, <1>4, <1>5, <2>1, <2>3 DEF LandWrite, host
<1>6. ASSUME NEW c \in Command, ReadCounter(c) PROVE JournalInv'
  <2>1. [pc |-> "read", at |-> NextNumber] \in CommandState /\ NextNumber \in 1..(counter + 1)
    BY <1>1 DEF NextNumber, CommandState
  <2>2. TypeOK' /\ NumbersAreNext'
    BY <1>1, <1>6, <2>1 DEF ReadCounter, journal, host, TypeOK, NumbersAreNext
  <2>3. \A t \in Tool : Pending(t)' => Pending(t)
    BY <1>1, <1>6 DEF ReadCounter, Pending, TypeOK, Command
  <2> QED
    BY <1>3, <1>4, <1>6, <2>2, <2>3 DEF ReadCounter, host
<1>7. ASSUME NEW c \in Command, Append(c) PROVE JournalInv'
  <2>1. UNCHANGED <<poller, host>>
    BY <1>7, AppendIs
  <2>2. CASE Refused(c)
    <3>1. TypeOK' /\ NumbersAreNext'
      BY <1>1, <2>1, <2>2 DEF Refused, journal, host, TypeOK, CommandState, NumbersAreNext
    <3>2. \A t \in Tool : Pending(t)' => Pending(t)
      BY <1>1, <2>2 DEF Refused, Pending, TypeOK, Command
    <3> QED
      BY <1>3, <1>4, <2>1, <2>2, <3>1, <3>2 DEF Refused, host
  <2>3. CASE Taken(c)
    <3>1. counter' \in Count /\ rows' \subseteq At
      BY <1>1, <2>3 DEF Taken
    <3>2. command' \in [Command -> CommandState] /\ during' \in [At -> SUBSET Isolate]
      BY <1>1, <2>3 DEF Taken, TypeOK, CommandState, UnderWay
    <3>3. by' \in [At -> {"client", None} \cup Isolate]
      <4>1. Maker(c) \in {"client", None} \cup Isolate
        BY <1>1, <2>3, MakerIs DEF Taken
      <4> QED
        BY <1>1, <2>3, <4>1 DEF Taken, TypeOK
    <3>4. TypeOK'
      BY <1>1, <2>1, <3>1, <3>2, <3>3 DEF host, TypeOK
    <3>5. NumbersAreNext'
      <4> SUFFICES ASSUME NEW d \in Command, command'[d].pc = "read"
                   PROVE  command'[d].at \in 1..(counter' + 1)
        BY DEF NumbersAreNext
      <4>1. d # c /\ command'[d] = command[d]
        BY <1>1, <2>3 DEF Taken, TypeOK
      <4>2. command[d].at \in 1..(counter + 1)
        BY <4>1 DEF JournalInv, TypeInv, NumbersAreNext
      <4> QED
        BY <1>1, <2>3, <4>1, <4>2 DEF Taken
    <3>6. WindowIsTail'
      <4>1. counter' = counter + 1 /\ rows' = {a \in At : a <= counter + 1 /\ a > counter + 1 - Window}
        BY <2>3 DEF Taken
      <4>2. \A a \in At : a \in rows' <=> a <= counter' /\ a > counter' - Window
        BY <1>1, <4>1, WindowIsPositive
      <4>3. rows' \subseteq At
        BY <4>1
      <4> QED
        BY <4>2, <4>3 DEF WindowIsTail
    <3>7. \A t \in Tool : Pending(t)' => Pending(t)
      BY <1>1, <2>3 DEF Taken, Pending, TypeOK, Command
    <3> QED
      BY <1>4, <2>1, <3>4, <3>5, <3>6, <3>7 DEF host, JournalInv, TypeInv
  <2> QED
    BY <1>7, <2>2, <2>3, AppendIs
<1>8. ASSUME NEW r \in Poller, PollRow(r) \/ PollRows(r) PROVE JournalInv'
  <2>1. rows \subseteq At /\ poller[r] \in PollerState /\ counter \in Count
    BY <1>1 DEF TypeOK
  <2>2. poller' \in [Poller -> PollerState]
    <3>1. CASE PollRow(r)
      BY <1>1, <2>1, <3>1 DEF PollRow, TypeOK, PollerState
    <3>2. CASE PollRows(r)
      <4>1. [pc |-> "idle", since |-> poller[r].now, now |-> poller[r].now,
             got |-> poller[r].got \cup {a \in rows : a > poller[r].since},
             gap |-> poller[r].gap \/ Truncated(poller[r].since)] \in PollerState
        BY <2>1 DEF PollerState, Truncated
      <4> QED
        BY <1>1, <3>2, <4>1 DEF PollRows, TypeOK
    <3> QED
      BY <1>8, <3>1, <3>2
  <2>3. UNCHANGED <<journal, command, host>>
    BY <1>8 DEF PollRow, PollRows
  <2>4. TypeOK' /\ NumbersAreNext'
    BY <1>1, <2>2, <2>3 DEF journal, host, TypeOK, NumbersAreNext
  <2>5. \A t \in Tool : Pending(t)' => Pending(t)
    BY <2>3 DEF Pending
  <2> QED
    BY <1>3, <1>4, <2>3, <2>4, <2>5 DEF host
<1>9. ASSUME UNCHANGED <<journal, poller>>, turn' \in [Isolate -> TurnState],
             baseline' \in [Isolate -> Count \cup {None}], told' \subseteq Isolate \X At,
             excused' \in [Isolate -> Count], turns' \in 0..MaxTurns,
             command' \in [Command -> CommandState],
             \A c \in Command : command'[c].pc = "read" => command'[c] = command[c],
             ToolsAreOfATurn'
      PROVE  JournalInv'
  <2>1. TypeOK' /\ NumbersAreNext'
    BY <1>1, <1>9 DEF TypeOK, journal, NumbersAreNext
  <2> QED
    BY <1>3, <1>9, <2>1
<1>10. /\ turn \in [Isolate -> TurnState] /\ turns \in 0..MaxTurns /\ counter \in Count
       /\ baseline \in [Isolate -> Count \cup {None}] /\ told \subseteq Isolate \X At
       /\ excused \in [Isolate -> Count] /\ command \in [Command -> CommandState]
       /\ NoTurn \in TurnState
  BY <1>1 DEF TypeOK, NoTurn, TurnState
<1>11. ASSUME NEW i \in Isolate, BeginTurn(i) PROVE JournalInv'
  <2>1. [NoTurn EXCEPT !.pc = "begun", !.seen = counter] \in TurnState
    BY <1>10 DEF NoTurn, TurnState
  <2>2. /\ turn' = [turn EXCEPT ![i] = [NoTurn EXCEPT !.pc = "begun", !.seen = counter]]
        /\ turn' \in [Isolate -> TurnState] /\ turn[i].pc = "none" /\ turns' \in 0..MaxTurns
        /\ UNCHANGED <<journal, command, poller, baseline, told, excused>>
    BY <1>1, <1>10, <1>11, <2>1 DEF BeginTurn
  <2>3. ToolsAreOfATurn'
    <3>1. turn'[i].tool = None /\ turn[i].tool = None /\ \A j \in Isolate \ {i} : turn'[j] = turn[j]
      BY <1>1, <1>10, <2>2 DEF NoTurn, ToolsAreOfATurn
    <3> QED
      BY <1>1, <2>2, <3>1 DEF ToolsAreOfATurn, Pending
  <2> QED
    BY <1>9, <1>10, <2>2, <2>3
<1>12. ASSUME NEW i \in Isolate, Evict(i) PROVE JournalInv'
  <2>1. /\ turn' = [turn EXCEPT ![i] = NoTurn] /\ UNCHANGED <<journal, poller, told, excused, turns>>
        /\ baseline' \in [Isolate -> Count \cup {None}]
        /\ command' = [c \in Command |->
               IF c = turn[i].tool /\ command[c].pc \in {"landed", "read"}
               THEN [command[c] EXCEPT !.pc = "failed"] ELSE command[c]]
    BY <1>10, <1>12 DEF Evict
  <2>2. turn' \in [Isolate -> TurnState]
    BY <1>10, <2>1
  <2>3. command' \in [Command -> CommandState] /\ \A c \in Command : command'[c].pc = "read" => command'[c] = command[c]
    BY <1>10, <2>1 DEF CommandState
  <2>4. ToolsAreOfATurn'
    <3>1. turn'[i].tool = None /\ \A j \in Isolate \ {i} : turn'[j] = turn[j]
      BY <1>10, <2>1 DEF NoTurn
    <3>2. \A t \in Tool : Pending(t)' => Pending(t) /\ t # turn[i].tool
      BY <1>10, <2>1 DEF Pending, CommandState, Command
    <3>3. \A j \in Isolate : turn'[j].tool # None => turn'[j].pc = "tool"
      BY <1>1, <3>1 DEF ToolsAreOfATurn
    <3>4. ASSUME NEW t \in Tool, Pending(t)' PROVE \E j \in Isolate : turn'[j].tool = t
      <4>1. PICK j \in Isolate : turn[j].tool = t
        BY <1>1, <3>2, <3>4 DEF ToolsAreOfATurn
      <4>2. j # i
        BY <3>2, <3>4, <4>1
      <4> QED
        BY <3>1, <4>1, <4>2
    <3> QED
      BY <3>3, <3>4 DEF ToolsAreOfATurn
  <2> QED
    BY <1>9, <1>10, <2>1, <2>2, <2>3, <2>4
<1>13. ASSUME NEW i \in Isolate, Remind(i) PROVE JournalInv'
  <2> DEFINE before == baseline[i]
  <2>1. /\ turn' = [turn EXCEPT ![i].pc = "open", ![i].silent = (before = None)] /\ turn[i].pc = "begun"
        /\ UNCHANGED <<journal, command, poller, baseline, turns>>
    BY <1>13 DEF Remind
  <2>2. /\ turn' \in [Isolate -> TurnState] /\ turn'[i].tool = turn[i].tool
        /\ \A j \in Isolate \ {i} : turn'[j] = turn[j]
    BY <1>10, <2>1 DEF TurnState
  <2>3. Since(before) \subseteq At
    BY DEF Since
  <2>4. excused' \in [Isolate -> Count] /\ told' \subseteq Isolate \X At
    BY <1>10, <1>13, <2>3 DEF Remind
  <2>5. turn[i].tool = None
    BY <1>1, <2>1 DEF ToolsAreOfATurn
  <2>6. ToolsAreOfATurn'
    BY <1>1, <2>1, <2>2, <2>5 DEF ToolsAreOfATurn, Pending
  <2> QED
    BY <1>9, <1>10, <2>1, <2>2, <2>4, <2>6
<1>14. ASSUME NEW i \in Isolate, Announce(i) PROVE JournalInv'
  <2>1. /\ turn' = [turn EXCEPT ![i].pc = "open", ![i].tool = None, ![i].seen = SeenNow(i)]
        /\ turn[i].pc = "tool" /\ command[turn[i].tool].pc \in {"done", "failed"}
        /\ UNCHANGED <<journal, command, poller, baseline, told, excused, turns>>
    BY <1>14 DEF Announce
  <2>2. /\ turn' \in [Isolate -> TurnState] /\ turn'[i].tool = None
        /\ \A j \in Isolate \ {i} : turn'[j] = turn[j]
    BY <1>10, <2>1 DEF TurnState, SeenNow
  <2>3. \A t \in Tool : Pending(t) => t # turn[i].tool
    BY <2>1 DEF Pending
  <2>4. ToolsAreOfATurn'
    <3>1. \A j \in Isolate : turn'[j].tool # None => turn'[j].pc = "tool"
      BY <1>1, <2>2 DEF ToolsAreOfATurn
    <3>2. ASSUME NEW t \in Tool, Pending(t)' PROVE \E j \in Isolate : turn'[j].tool = t
      <4>1. PICK j \in Isolate : turn[j].tool = t
        BY <1>1, <2>1, <3>2 DEF ToolsAreOfATurn, Pending
      <4>2. j # i
        BY <2>1, <2>3, <3>2, <4>1 DEF Pending
      <4> QED
        BY <2>2, <4>1, <4>2
    <3> QED
      BY <3>1, <3>2 DEF ToolsAreOfATurn
  <2> QED
    BY <1>9, <1>10, <2>1, <2>2, <2>4
<1>15. ASSUME NEW i \in Isolate, EndTurn(i) PROVE JournalInv'
  <2>1. /\ turn' = [turn EXCEPT ![i] = NoTurn] /\ turn[i].pc = "open"
        /\ baseline' \in [Isolate -> Count \cup {None}]
        /\ UNCHANGED <<journal, command, poller, told, excused, turns>>
    BY <1>10, <1>15 DEF EndTurn
  <2>2. /\ turn' \in [Isolate -> TurnState] /\ turn'[i].tool = None /\ turn[i].tool = None
        /\ \A j \in Isolate \ {i} : turn'[j] = turn[j]
    BY <1>1, <1>10, <2>1 DEF NoTurn, ToolsAreOfATurn
  <2>3. ToolsAreOfATurn'
    BY <1>1, <2>1, <2>2 DEF ToolsAreOfATurn, Pending
  <2> QED
    BY <1>9, <1>10, <2>1, <2>2, <2>3
<1>16. ASSUME NEW i \in Isolate, NEW t \in Tool, CallTool(i, t) PROVE JournalInv'
  <2>1. /\ turn' = [turn EXCEPT ![i].pc = "tool", ![i].tool = t] /\ turn[i].pc = "open"
        /\ command' = [command EXCEPT ![t].pc = "landed"] /\ t \in Command
        /\ UNCHANGED <<journal, poller, baseline, told, excused, turns>>
    BY <1>16 DEF CallTool, Command
  <2>2. /\ turn' \in [Isolate -> TurnState] /\ turn'[i].tool = t /\ turn'[i].pc = "tool"
        /\ turn[i].tool = None /\ \A j \in Isolate \ {i} : turn'[j] = turn[j]
    BY <1>1, <1>10, <2>1 DEF TurnState, ToolsAreOfATurn
  <2>3. /\ command' \in [Command -> CommandState]
        /\ \A c \in Command : command'[c].pc = "read" => command'[c] = command[c]
    BY <1>10, <2>1 DEF CommandState
  <2>4. \A u \in Tool \ {t} : Pending(u)' => Pending(u)
    BY <1>10, <2>1 DEF Pending, Command
  <2>5. ToolsAreOfATurn'
    <3>1. \A j \in Isolate : turn'[j].tool # None => turn'[j].pc = "tool"
      BY <1>1, <2>2 DEF ToolsAreOfATurn
    <3>2. ASSUME NEW u \in Tool, Pending(u)' PROVE \E j \in Isolate : turn'[j].tool = u
      <4>1. CASE u = t
        BY <2>2, <4>1
      <4>2. CASE u # t
        <5>1. PICK j \in Isolate : turn[j].tool = u
          BY <1>1, <2>4, <3>2, <4>2 DEF ToolsAreOfATurn
        <5>2. j # i
          BY <2>2, <5>1, CommandsAreApart
        <5> QED
          BY <2>2, <5>1, <5>2
      <4> QED
        BY <4>1, <4>2
    <3> QED
      BY <3>1, <3>2 DEF ToolsAreOfATurn
  <2> QED
    BY <1>9, <1>10, <2>1, <2>2, <2>3, <2>5
<1> QED
  BY <1>2, <1>5, <1>6, <1>7, <1>8, <1>11, <1>12, <1>13, <1>14, <1>15, <1>16 DEF Next

\* The journal, the commands, the pollers and the host keep their shapes.
THEOREM TypeCorrect == Spec => []TypeOK
<1>1. JournalInv => TypeOK
  BY DEF JournalInv, TypeInv
<1> QED
  BY <1>1, InitTypes, StepTypes, PTL DEF Spec

\* However many commands race for a number, and whichever is refused or dies with
\* its isolate, the journal has the last numbers without a hole.
THEOREM RowsAreTheTail == Spec => []WindowIsTail
<1>1. JournalInv => WindowIsTail
  BY DEF JournalInv
<1> QED
  BY <1>1, InitTypes, StepTypes, PTL DEF Spec
-----------------------------------------------------------------------------
(* Pollers.                                                                 *)

\* The count a slice answers with has been reached.
CountsAreReached == \A r \in Poller : poller[r].pc = "row" => poller[r].now <= counter

\* A slice of a journal that is longer than the window, or that was truncated
\* between its two statements, says so.
LEMMA SliceIsWhole ==
    ASSUME JournalInv, NEW since \in Count, NEW now \in Count, now <= counter, ~Truncated(since)
    PROVE  \A a \in 1..now : a <= since \/ (a \in rows /\ a > since)
<1>1. /\ counter \in Nat /\ counter <= MaxAppends /\ Window \in Nat /\ Window > 0 /\ MaxAppends \in Nat
      /\ At = 1..MaxAppends /\ since \in Nat /\ now \in Nat
  BY WindowIsPositive, AppendsAreNat DEF JournalInv, TypeInv, TypeOK, At, Count
<1>2. rows = {a \in At : a <= counter /\ a > counter - Window}
  BY DEF JournalInv, WindowIsTail
<1>3. CASE rows = {}
  <2>1. counter = 0
    <3>1. counter \notin rows
      BY <1>3
    <3> QED
      BY <1>1, <1>2, <3>1
  <2> QED
    BY <1>1, <2>1
<1>4. CASE rows # {}
  <2>1. PICK b \in rows : ~(b > since + 1)
    BY <1>4 DEF Truncated
  <2>2. b \in Nat /\ b <= since + 1 /\ b > counter - Window
    BY <1>1, <1>2, <2>1
  <2> QED
    BY <1>1, <1>2, <2>2
<1> QED
  BY <1>3, <1>4

\* Every step keeps a poller's slice whole, however many records arrive and age out
\* between its two reads.
LEMMA StepPolls == JournalInv /\ CountsAreReached /\ PollMissesNothing /\ [Next]_vars =>
                       CountsAreReached' /\ PollMissesNothing'
<1> SUFFICES ASSUME JournalInv, CountsAreReached, PollMissesNothing, [Next]_vars
             PROVE  CountsAreReached' /\ PollMissesNothing'
  OBVIOUS
<1>1. poller \in [Poller -> PollerState] /\ counter \in Nat /\ Count \subseteq Nat
  BY AppendsAreNat DEF JournalInv, TypeInv, TypeOK, Count
<1>2. counter' \in Nat /\ counter' >= counter
  BY <1>1, JournalMoves DEF journal
<1>3. CASE UNCHANGED poller
  <2>1. \A r \in Poller : poller[r].now \in Nat
    BY <1>1 DEF PollerState
  <2> QED
    BY <1>1, <1>2, <1>3, <2>1 DEF CountsAreReached, PollMissesNothing
<1>4. ASSUME NEW r \in Poller, PollRow(r) PROVE CountsAreReached' /\ PollMissesNothing'
  <2>1. poller' = [poller EXCEPT ![r].pc = "row", ![r].now = counter] /\ counter' = counter
    BY <1>4 DEF PollRow, journal
  <2>2. \A q \in Poller : /\ poller'[q].since = poller[q].since /\ poller'[q].got = poller[q].got
                          /\ poller'[q].gap = poller[q].gap
                          /\ q # r => poller'[q] = poller[q]
    BY <1>1, <2>1 DEF PollerState
  <2>3. poller'[r].now = counter
    BY <1>1, <2>1 DEF PollerState
  <2> QED
    BY <1>1, <2>1, <2>2, <2>3 DEF CountsAreReached, PollMissesNothing
<1>5. ASSUME NEW r \in Poller, PollRows(r) PROVE CountsAreReached' /\ PollMissesNothing'
  <2> DEFINE q == poller[r]
  <2>1. /\ poller' = [poller EXCEPT ![r] =
              [pc |-> "idle", since |-> q.now, now |-> q.now,
               got |-> q.got \cup {a \in rows : a > q.since}, gap |-> q.gap \/ Truncated(q.since)]]
        /\ q.pc = "row" /\ counter' = counter
    BY <1>5 DEF PollRows, journal
  <2>2. /\ poller'[r].pc = "idle" /\ poller'[r].since = q.now
        /\ poller'[r].got = q.got \cup {a \in rows : a > q.since}
        /\ poller'[r].gap = (q.gap \/ Truncated(q.since))
        /\ \A p \in Poller \ {r} : poller'[p] = poller[p]
    BY <1>1, <2>1
  <2>3. q.now \in Count /\ q.since \in Count /\ q.now <= counter
    BY <1>1, <2>1 DEF PollerState, CountsAreReached
  <2>4. ASSUME ~poller'[r].gap PROVE 1..poller'[r].since \subseteq poller'[r].got
    <3>1. ~q.gap /\ ~Truncated(q.since)
      BY <2>2, <2>4
    <3>2. 1..q.since \subseteq q.got
      BY <3>1 DEF PollMissesNothing
    <3>3. \A a \in 1..q.now : a <= q.since \/ (a \in rows /\ a > q.since)
      BY <2>3, <3>1, SliceIsWhole
    <3>4. \A a \in 1..q.now : a \in 1..q.since \/ (a \in rows /\ a > q.since)
      BY <1>1, <2>3, <3>3
    <3> QED
      BY <2>2, <3>2, <3>4
  <2> QED
    BY <2>1, <2>2, <2>4 DEF CountsAreReached, PollMissesNothing
<1> QED
  BY <1>3, <1>4, <1>5 DEF Next, vars, host, LandWrite, ReadCounter, Append, BeginTurn, Evict,
                          Remind,
                          Announce, EndTurn, CallTool

\* A poller whose slices never said `truncated` has been given every record up to
\* the count it holds, although the count and the rows are read one after the other.
THEOREM PollersMissNothing == Spec => []PollMissesNothing
<1>1. Init => CountsAreReached /\ PollMissesNothing
  BY DEF Init, CountsAreReached, PollMissesNothing
<1> QED
  BY <1>1, InitTypes, StepTypes, StepPolls, PTL DEF Spec
-----------------------------------------------------------------------------
(* The host.                                                                *)

\* Nothing is written, told or covered ahead of the counter.
NothingAhead ==
    /\ \A a \in At : a > counter => by[a] = None /\ during[a] = {}
    /\ \A i \in Isolate, a \in At : <<i, a>> \in told => a <= counter
    /\ \A i \in Isolate : baseline[i] # None => baseline[i] <= counter

\* What a turn made landed during that turn.
OwnLandDuring == \A a \in At, i \in Isolate : by[a] = i => i \in during[a]

\* Where no turn is under way, the baseline covers all that landed during one.
BaselinesCoverOwn ==
    \A i \in Isolate \ UnderWay : baseline[i] # None =>
        \A a \in At : baseline[i] < a => i \notin during[a]

\* A turn under way was told all that landed before it, unless it had no baseline.
OpenTurnsWereTold ==
    \A i \in UnderWay : \A a \in 1..counter : i \in during[a] \/ a <= excused[i] \/ <<i, a>> \in told

HostInv ==
    NothingAhead /\ OwnLandDuring /\ BaselinesCoverOwn /\ OpenTurnsWereTold
        /\ OwnEditsNotReported /\ OthersAreTold

\* No turn, no baseline.
LEMMA InitHost == Init => HostInv
<1> SUFFICES ASSUME Init PROVE HostInv
  OBVIOUS
<1>1. UnderWay = {}
  BY DEF Init, UnderWay, NoTurn
<1>2. OwnLandDuring
  BY NoneIsApart DEF Init, OwnLandDuring
<1>3. NothingAhead /\ BaselinesCoverOwn /\ OpenTurnsWereTold
  BY <1>1 DEF Init, NothingAhead, BaselinesCoverOwn, OpenTurnsWereTold
<1> QED
  BY <1>2, <1>3 DEF Init, HostInv, OwnEditsNotReported, OthersAreTold

\* Every step keeps each isolate's baseline at or above what its own turns made, and
\* what it covers told.
LEMMA StepHost == JournalInv /\ HostInv /\ [Next]_vars => HostInv'
<1> SUFFICES ASSUME JournalInv, HostInv, [Next]_vars PROVE HostInv'
  OBVIOUS
<1>1. /\ TypeInv /\ counter \in Nat /\ At \subseteq Nat /\ Count \subseteq Nat /\ None \notin Nat
      /\ Count = 0..MaxAppends /\ At = 1..MaxAppends /\ MaxAppends \in Nat
      /\ turn \in [Isolate -> TurnState] /\ baseline \in [Isolate -> Count \cup {None}]
      /\ told \subseteq Isolate \X At /\ counter \in Count /\ excused \in [Isolate -> Count]
      /\ by \in [At -> {"client", None} \cup Isolate] /\ during \in [At -> SUBSET Isolate]
  BY AppendsAreNat, NoneIsApart DEF JournalInv, TypeInv, TypeOK, Count, At
<1>2. /\ NothingAhead /\ OwnLandDuring /\ BaselinesCoverOwn /\ OpenTurnsWereTold
      /\ OwnEditsNotReported /\ OthersAreTold
  BY DEF HostInv
<1>3. \A i \in Isolate : baseline[i] # None => baseline[i] \in Nat /\ baseline[i] <= counter
  BY <1>1, <1>2 DEF NothingAhead
\* What leaves the journal, the baselines and what was told alone, and begins or
\* ends no turn that was reminded.
<1>4. ASSUME UNCHANGED <<journal, baseline, told, excused>>, UnderWay' = UnderWay PROVE HostInv'
  BY <1>2, <1>4 DEF HostInv, NothingAhead, OwnLandDuring, BaselinesCoverOwn, OpenTurnsWereTold,
                    OwnEditsNotReported, OthersAreTold, journal
<1>5. ASSUME UNCHANGED <<journal, host>> PROVE HostInv'
  BY <1>4, <1>5 DEF host, UnderWay
<1>6. ASSUME NEW c \in Command, Append(c) PROVE HostInv'
  <2>1. UNCHANGED <<poller, host>>
    BY <1>6, AppendIs
  <2>2. CASE Refused(c)
    BY <1>5, <2>1, <2>2 DEF Refused
  <2>3. CASE Taken(c)
    <3> DEFINE n == counter + 1
    <3>1. /\ n \in At /\ counter' = n
          /\ \A a \in At : a # n => by'[a] = by[a] /\ during'[a] = during[a]
          /\ by'[n] = Maker(c) /\ during'[n] = UnderWay
      BY <1>1, <2>3 DEF Taken
    <3>2. /\ UnderWay' = UnderWay /\ told' = told /\ baseline' = baseline /\ excused' = excused
      BY <2>1 DEF host, UnderWay
    <3>3. \A i \in Isolate, a \in At : <<i, a>> \in told => a <= counter /\ a # n
      BY <1>1, <1>2 DEF NothingAhead
    <3>4. NothingAhead'
      BY <1>1, <1>2, <1>3, <3>1, <3>2 DEF NothingAhead
    <3>5. OwnLandDuring'
      <4>1. \A i \in Isolate : Maker(c) = i => i \in UnderWay
        BY <1>1, <2>3, MakerIs, NoIsolateIsTheClient DEF Taken
      <4> QED
        BY <1>2, <3>1, <4>1 DEF OwnLandDuring
    <3>6. BaselinesCoverOwn'
      BY <1>2, <3>1, <3>2 DEF BaselinesCoverOwn
    <3>7. OpenTurnsWereTold'
      <4> SUFFICES ASSUME NEW i \in UnderWay, NEW a \in 1..n
                   PROVE  i \in during'[a] \/ a <= excused[i] \/ <<i, a>> \in told
        BY <3>1, <3>2 DEF OpenTurnsWereTold
      <4>1. CASE a = n
        BY <3>1, <4>1
      <4>2. CASE a # n
        <5>1. a \in 1..counter /\ a \in At
          BY <1>1, <3>1, <4>2
        <5> QED
          BY <1>2, <3>1, <4>2, <5>1 DEF OpenTurnsWereTold
      <4> QED
        BY <4>1, <4>2
    <3>8. OwnEditsNotReported'
      BY <1>2, <3>1, <3>2, <3>3 DEF OwnEditsNotReported
    <3>9. OthersAreTold'
      <4> SUFFICES ASSUME NEW i \in Isolate, baseline[i] # None, NEW a \in 1..baseline[i]
                   PROVE  i \in during'[a] \/ a <= excused[i] \/ <<i, a>> \in told
        BY <3>2 DEF OthersAreTold
      <4>1. a \in At /\ a # n
        BY <1>1, <1>3, <3>1
      <4> QED
        BY <1>2, <3>1, <4>1 DEF OthersAreTold
    <3> QED
      BY <3>4, <3>5, <3>6, <3>7, <3>8, <3>9 DEF HostInv
  <2> QED
    BY <1>6, <2>2, <2>3, AppendIs
<1>7. ASSUME NEW i \in Isolate, BeginTurn(i) \/ Announce(i) PROVE HostInv'
  <2>1. UNCHANGED <<journal, baseline, told, excused>>
    BY <1>7 DEF BeginTurn, Announce
  <2>2. UnderWay' = UnderWay
    <3>1. \A j \in Isolate \ {i} : turn'[j] = turn[j]
      BY <1>1, <1>7 DEF BeginTurn, Announce
    <3>2. turn'[i].pc \in {"open", "tool"} <=> turn[i].pc \in {"open", "tool"}
      <4>1. CASE BeginTurn(i)
        BY <1>1, <4>1 DEF BeginTurn, NoTurn, TurnState
      <4>2. CASE Announce(i)
        BY <1>1, <4>2 DEF Announce, TurnState
      <4> QED
        BY <1>7, <4>1, <4>2
    <3> QED
      BY <3>1, <3>2 DEF UnderWay
  <2> QED
    BY <1>4, <2>1, <2>2
<1>8. ASSUME NEW i \in Isolate, NEW t \in Tool, CallTool(i, t) PROVE HostInv'
  <2>1. /\ UNCHANGED <<journal, baseline, told, excused>> /\ turn[i].pc = "open" /\ turn'[i].pc = "tool"
        /\ \A j \in Isolate \ {i} : turn'[j] = turn[j]
    BY <1>1, <1>8 DEF CallTool, TurnState
  <2>2. UnderWay' = UnderWay
    BY <2>1 DEF UnderWay
  <2> QED
    BY <1>4, <2>1, <2>2
<1>9. ASSUME NEW i \in Isolate, Remind(i) PROVE HostInv'
  <2> DEFINE before == baseline[i]
  <2>1. /\ turn[i].pc = "begun" /\ turn'[i].pc = "open" /\ UNCHANGED <<journal, baseline>>
        /\ \A j \in Isolate \ {i} : turn'[j] = turn[j]
    BY <1>1, <1>9 DEF Remind, TurnState
  <2>2. i \notin UnderWay /\ UnderWay' = UnderWay \cup {i}
    BY <2>1 DEF UnderWay
  <2>3. BaselinesCoverOwn'
    BY <1>2, <2>1, <2>2 DEF BaselinesCoverOwn, journal
  <2>4. CASE before = None
    <3>1. told' = told /\ excused' = [excused EXCEPT ![i] = counter]
      BY <1>9, <2>4 DEF Remind
    <3>2. excused'[i] = counter /\ \A j \in Isolate \ {i} : excused'[j] = excused[j]
      BY <1>1, <3>1
    <3>3. OpenTurnsWereTold'
      <4> SUFFICES ASSUME NEW j \in UnderWay', NEW a \in 1..counter
                   PROVE  j \in during[a] \/ a <= excused'[j] \/ <<j, a>> \in told
        BY <2>1, <3>1 DEF OpenTurnsWereTold, journal
      <4>1. CASE j = i
        BY <3>2, <4>1
      <4>2. CASE j # i
        <5>1. j \in UnderWay /\ j \in Isolate
          BY <2>2, <4>2 DEF UnderWay
        <5> QED
          BY <1>2, <3>2, <4>2, <5>1 DEF OpenTurnsWereTold
      <4> QED
        BY <4>1, <4>2
    <3>4. OthersAreTold'
      BY <1>2, <2>1, <2>4, <3>1, <3>2 DEF OthersAreTold, journal
    <3> QED
      BY <1>2, <2>1, <2>3, <3>1, <3>3, <3>4
         DEF HostInv, NothingAhead, OwnLandDuring, OwnEditsNotReported, journal
  <2>5. CASE before # None
    <3>1. told' = told \cup ({i} \X Since(before)) /\ excused' = excused
      BY <1>9, <2>5 DEF Remind
    <3>2. \A j \in Isolate, a \in At : <<j, a>> \in told' <=>
              <<j, a>> \in told \/ (j = i /\ before < a /\ a <= counter)
      BY <3>1 DEF Since
    <3>3. before \in Nat /\ before <= counter
      BY <1>3, <2>5
    <3>4. \A a \in At : before < a => by[a] # i
      BY <1>2, <2>2, <2>5 DEF BaselinesCoverOwn, OwnLandDuring
    <3>5. OwnEditsNotReported'
      BY <1>2, <2>1, <3>2, <3>4 DEF OwnEditsNotReported, journal
    <3>6. OpenTurnsWereTold'
      <4> SUFFICES ASSUME NEW j \in UnderWay', NEW a \in 1..counter
                   PROVE  j \in during[a] \/ a <= excused[j] \/ <<j, a>> \in told'
        BY <2>1, <3>1 DEF OpenTurnsWereTold, journal
      <4>1. a \in At
        BY <1>1
      <4>2. CASE j \in UnderWay
        BY <1>2, <3>1, <4>2 DEF OpenTurnsWereTold
      <4>3. CASE j = i /\ a <= before
        <5>1. a \in 1..before
          BY <3>3, <4>3
        <5> QED
          BY <1>2, <2>5, <3>1, <4>3, <5>1 DEF OthersAreTold
      <4>4. CASE j = i /\ ~(a <= before)
        BY <3>2, <3>3, <4>1, <4>4
      <4> QED
        BY <2>2, <4>2, <4>3, <4>4
    <3>7. OthersAreTold'
      BY <1>2, <2>1, <3>1 DEF OthersAreTold, journal
    <3>8. NothingAhead'
      BY <1>2, <2>1, <3>2 DEF NothingAhead, journal
    <3> QED
      BY <1>2, <2>1, <2>3, <3>5, <3>6, <3>7, <3>8 DEF HostInv, OwnLandDuring, journal
  <2> QED
    BY <2>4, <2>5
<1>10. ASSUME NEW i \in Isolate, EndTurn(i) \/ Evict(i) PROVE HostInv'
  <2>1. /\ turn' = [turn EXCEPT ![i] = NoTurn] /\ UNCHANGED <<journal, told, excused>>
        /\ \/ baseline' = [baseline EXCEPT ![i] = counter] /\ turn[i].pc = "open"
           \/ baseline' = [baseline EXCEPT ![i] = None]
    BY <1>10 DEF EndTurn, Evict
  <2>2. UnderWay' = UnderWay \ {i}
    BY <1>1, <2>1 DEF UnderWay, NoTurn
  <2>3. /\ \A j \in Isolate \ {i} : baseline'[j] = baseline[j]
        /\ baseline'[i] = None \/ (baseline'[i] = counter /\ i \in UnderWay)
    BY <1>1, <2>1 DEF UnderWay
  <2>4. NothingAhead'
    <3>1. \A j \in Isolate : baseline'[j] # None => baseline'[j] <= counter
      <4>1. ASSUME NEW j \in Isolate, baseline'[j] # None, j # i PROVE baseline'[j] <= counter
        BY <1>3, <2>3, <4>1
      <4>2. baseline'[i] # None => baseline'[i] <= counter
        BY <1>1, <2>3
      <4> QED
        BY <4>1, <4>2
    <3> QED
      BY <1>2, <2>1, <3>1 DEF NothingAhead, journal
  <2>5. BaselinesCoverOwn'
    <3> SUFFICES ASSUME NEW j \in Isolate, j \notin UnderWay', baseline'[j] # None,
                        NEW a \in At, baseline'[j] < a
                 PROVE  j \notin during[a]
      BY <2>1 DEF BaselinesCoverOwn, journal
    <3>1. CASE j = i
      BY <1>1, <1>2, <2>3, <3>1 DEF NothingAhead
    <3>2. CASE j # i
      BY <1>2, <2>2, <2>3, <3>2 DEF BaselinesCoverOwn
    <3> QED
      BY <3>1, <3>2
  <2>6. OpenTurnsWereTold'
    BY <1>2, <2>1, <2>2 DEF OpenTurnsWereTold, journal
  <2>7. OthersAreTold'
    <3> SUFFICES ASSUME NEW j \in Isolate, baseline'[j] # None, NEW a \in 1..baseline'[j]
                 PROVE  j \in during[a] \/ a <= excused[j] \/ <<j, a>> \in told
      BY <2>1 DEF OthersAreTold, journal
    <3>1. CASE j = i
      BY <1>2, <2>3, <3>1 DEF OpenTurnsWereTold
    <3>2. CASE j # i
      BY <1>2, <2>3, <3>2 DEF OthersAreTold
    <3> QED
      BY <3>1, <3>2
  <2> QED
    BY <1>2, <2>1, <2>4, <2>5, <2>6, <2>7 DEF HostInv, OwnLandDuring, OwnEditsNotReported, journal
<1> QED
  BY <1>5, <1>6, <1>7, <1>8, <1>9, <1>10
     DEF Next, vars, journal, host, LandWrite, ReadCounter, PollRow, PollRows

\* In however many isolates turns run, one beside another, and whichever go away in
\* the middle of one: a reminder never tells a turn what that isolate's turns wrote,
\* and it tells everything else that landed while no turn was under way there.
THEOREM RemindersAreExact == Spec => []RemindersTellTheRest
<1>1. HostInv => RemindersTellTheRest
  BY DEF HostInv, RemindersTellTheRest
<1> QED
  BY <1>1, InitTypes, StepTypes, InitHost, StepHost, PTL DEF Spec
-----------------------------------------------------------------------------
(* The ledger.  A call that read a body at the version the ticket still has *)
(* writes back that body and one entry, whose number is above every other.  *)

CONSTANTS Decision, Name, MaxChats, MaxVersion
VARIABLES chats, append, naming, recorded

Ledger == INSTANCE Ledger

\* A step that leaves every body and every call's reading alone, and lowers no
\* version, keeps the invariant: names, cursors, new tickets.
LEMMA BodiesAlone ==
    ASSUME Ledger!LedgerInv, Ledger!TypeOK', UNCHANGED recorded,
           \A d \in Decision : append'[d].pc = "read" => append'[d] = append[d],
           \A c \in Ledger!Chat : chats'[c].body = chats[c].body,
           \A c \in Ledger!Chat : chats'[c].version >= chats[c].version,
           \A n \in Name : (naming[n].pc = "found" => Ledger!Exists(naming[n].chat))'
    PROVE  Ledger!LedgerInv'
<1>1. Ledger!DecisionsAreKept' /\ Ledger!NumbersDiffer'
  BY DEF Ledger!LedgerInv, Ledger!TypeOK, Ledger!DecisionsAreKept, Ledger!NumbersDiffer,
         Ledger!Entries
<1>2. \A c \in Ledger!Chat : Ledger!Numbered(chats'[c].body)
  BY DEF Ledger!LedgerInv
<1>3. ASSUME NEW d \in Decision, append'[d].pc = "read" PROVE Ledger!Fresh(d)'
  <2>1. append'[d] = append[d] /\ append[d].chat \in Ledger!Chat /\ append[d].version \in Nat /\ Ledger!Fresh(d)
    BY <1>3 DEF Ledger!LedgerInv, Ledger!TypeOK, Ledger!AppendState
  <2>2. chats[append[d].chat].version \in Nat /\ chats'[append[d].chat].version \in Nat
    BY <2>1 DEF Ledger!LedgerInv, Ledger!TypeOK, Ledger!Ticket
  <2> QED
    BY <2>1, <2>2 DEF Ledger!Fresh, Ledger!Exists, Ledger!Unmoved
<1> QED
  BY <1>1, <1>2, <1>3 DEF Ledger!LedgerInv, Ledger!Numbered

\* Writing an entry into the body a call read, at the version it read, keeps the
\* invariant: the body was the ticket's, and the number is a new one.
LEMMA EntryAdded ==
    ASSUME Ledger!LedgerInv, Ledger!TypeOK', NEW d \in Decision, append[d].pc = "read", Ledger!Unmoved(d), Ledger!Rewrite(d),
           NEW pc \in {"done", "refused"},
           append' = [append EXCEPT ![d] = Ledger!Resting(pc)],
           recorded' \in {recorded, recorded \cup {<<append[d].chat, Ledger!NewEntry(d)>>}},
           UNCHANGED naming
    PROVE  Ledger!LedgerInv'
<1> DEFINE chat == append[d].chat
<1>1. chat \in Ledger!Chat /\ append[d].body = chats[chat].body /\ chats[chat] \in Ledger!Ticket
  BY DEF Ledger!LedgerInv, Ledger!TypeOK, Ledger!Fresh
<1>2. PICK h \in Ledger!Headings :
          chats' = [chats EXCEPT ![chat].body = Ledger!Appended(d, h), ![chat].version = @ + 1]
  BY DEF Ledger!Rewrite
<1>3. /\ chats'[chat].body = Ledger!Appended(d, h)
      /\ chats'[chat].version = chats[chat].version + 1
      /\ \A c \in Ledger!Chat : c # chat => chats'[c] = chats[c]
  BY <1>1, <1>2 DEF Ledger!LedgerInv, Ledger!TypeOK, Ledger!Ticket
<1>4. /\ chats[chat].body.count \in Nat /\ chats[chat].version \in Nat
      /\ chats[chat].body.entries \in SUBSET Ledger!Entry
  BY <1>1 DEF Ledger!Ticket, Ledger!Body
<1>5. /\ chats'[chat].body.entries = chats[chat].body.entries \cup {Ledger!NewEntry(d)}
      /\ chats'[chat].body.count = chats[chat].body.count + h
      /\ Ledger!NewEntry(d).number = chats[chat].body.count + 1
      /\ h \in 1..2
  BY <1>1, <1>3 DEF Ledger!Appended, Ledger!NewEntry, Ledger!NextNumber, Ledger!Headings
<1>6. Ledger!Numbered(chats[chat].body)
  BY <1>1 DEF Ledger!LedgerInv
<1>7. Ledger!DecisionsAreKept'
  BY <1>1, <1>3, <1>5 DEF Ledger!LedgerInv, Ledger!TypeOK, Ledger!DecisionsAreKept, Ledger!Entries
<1>8. Ledger!NumbersDiffer'
  <2>1. \A e \in chats[chat].body.entries : e.number # Ledger!NewEntry(d).number
    BY <1>4, <1>5, <1>6 DEF Ledger!Numbered
  <2>2. \A e \in chats'[chat].body.entries, f \in chats'[chat].body.entries :
            e.number = f.number => e = f
    BY <1>1, <1>5, <2>1 DEF Ledger!LedgerInv, Ledger!NumbersDiffer, Ledger!Entries
  <2> QED
    BY <1>1, <1>3, <2>2 DEF Ledger!LedgerInv, Ledger!NumbersDiffer, Ledger!Entries
<1>9. \A c \in Ledger!Chat : Ledger!Numbered(chats'[c].body)
  <2>1. Ledger!Numbered(chats'[chat].body)
    BY <1>4, <1>5, <1>6 DEF Ledger!Numbered
  <2> QED
    BY <1>3, <2>1 DEF Ledger!LedgerInv
<1>10. ASSUME NEW e \in Decision, append'[e].pc = "read" PROVE Ledger!Fresh(e)'
  <2>1. e # d /\ append'[e] = append[e] /\ append[e].pc = "read"
    BY <1>10 DEF Ledger!LedgerInv, Ledger!TypeOK, Ledger!Resting
  <2>2. append[e].chat \in Ledger!Chat /\ append[e].version \in Nat /\ Ledger!Fresh(e)
    BY <2>1 DEF Ledger!LedgerInv, Ledger!TypeOK, Ledger!AppendState
  <2>3. CASE append[e].chat = chat
    BY <1>3, <1>4, <2>1, <2>2, <2>3 DEF Ledger!Fresh, Ledger!Exists, Ledger!Unmoved
  <2>4. CASE append[e].chat # chat
    BY <1>3, <2>1, <2>2, <2>4 DEF Ledger!Fresh, Ledger!Exists, Ledger!Unmoved
  <2> QED
    BY <2>3, <2>4
<1>11. ASSUME NEW n \in Name PROVE (naming[n].pc = "found" => Ledger!Exists(naming[n].chat))'
  <2>1. naming[n].pc = "found" => naming[n].chat \in Ledger!Chat /\ Ledger!Exists(naming[n].chat)
    BY DEF Ledger!LedgerInv, Ledger!TypeOK
  <2> QED
    BY <1>3, <1>4, <2>1 DEF Ledger!Exists
<1> QED
  BY <1>7, <1>8, <1>9, <1>10, <1>11 DEF Ledger!LedgerInv, Ledger!Numbered

\* Tickets and calls keep their shapes in every reachable state.
THEOREM LedgerTypeCorrect == Ledger!Spec => []Ledger!TypeOK
<1>1. Ledger!Init => Ledger!TypeOK
  BY DEF Ledger!Init, Ledger!TypeOK, Ledger!Ticket, Ledger!Body, Ledger!Empty, Ledger!Resting,
         Ledger!AppendState
<1>2. Ledger!TypeOK /\ [Ledger!Next]_Ledger!vars => Ledger!TypeOK'
  <2>. SUFFICES ASSUME Ledger!TypeOK, [Ledger!Next]_Ledger!vars PROVE Ledger!TypeOK'
    OBVIOUS
  <2>1. CASE UNCHANGED Ledger!vars
    BY <2>1 DEF Ledger!TypeOK, Ledger!vars
  <2>2. ASSUME NEW c \in Ledger!Chat, Ledger!CreateChat(c) PROVE Ledger!TypeOK'
    BY <2>2 DEF Ledger!CreateChat, Ledger!TypeOK, Ledger!Ticket
  <2>3. ASSUME NEW c \in Ledger!Chat, Ledger!Touch(c) PROVE Ledger!TypeOK'
    BY <2>3 DEF Ledger!Touch, Ledger!TypeOK, Ledger!Ticket
  <2>4. ASSUME NEW c \in Ledger!Chat, NEW d \in Decision, Ledger!ReadBody(d, c) PROVE Ledger!TypeOK'
    BY <2>4 DEF Ledger!ReadBody, Ledger!TypeOK, Ledger!Ticket, Ledger!AppendState
  <2>5. ASSUME NEW c \in Ledger!Chat, NEW n \in Name, Ledger!FindToName(n, c) PROVE Ledger!TypeOK'
    BY <2>5 DEF Ledger!FindToName, Ledger!TypeOK
  <2>6. ASSUME NEW d \in Decision, NEW pc \in {"done", "refused"}
        PROVE  Ledger!Resting(pc) \in Ledger!AppendState
    BY DEF Ledger!Resting, Ledger!Empty, Ledger!Body, Ledger!AppendState
  <2>7. ASSUME NEW d \in Decision, append[d].pc = "read"
        PROVE  append[d].chat \in Ledger!Chat /\ Ledger!NewEntry(d) \in Ledger!Entry
    BY <2>7 DEF Ledger!TypeOK, Ledger!AppendState, Ledger!Body, Ledger!NewEntry, Ledger!NextNumber,
                Ledger!Entry
  <2>8. ASSUME NEW d \in Decision, append[d].pc = "read", Ledger!Rewrite(d) PROVE chats' \in [Ledger!Chat -> Ledger!Ticket]
    <3>1. PICK h \in Ledger!Headings :
             chats' = [chats EXCEPT ![append[d].chat].body = Ledger!Appended(d, h),
                                    ![append[d].chat].version = @ + 1]
      BY <2>8 DEF Ledger!Rewrite
    <3>2. Ledger!Appended(d, h) \in Ledger!Body
      BY <2>7, <2>8 DEF Ledger!TypeOK, Ledger!AppendState, Ledger!Body, Ledger!Appended,
                        Ledger!Headings
    <3> QED
      BY <2>7, <2>8, <3>1, <3>2 DEF Ledger!TypeOK, Ledger!Ticket
  <2>9. ASSUME NEW d \in Decision, Ledger!Write(d) PROVE Ledger!TypeOK'
    BY <2>6, <2>7, <2>8, <2>9 DEF Ledger!Write, Ledger!TypeOK, Ledger!Resting
  <2>10. ASSUME NEW d \in Decision, Ledger!Refuse(d) PROVE Ledger!TypeOK'
    BY <2>6, <2>10 DEF Ledger!Refuse, Ledger!TypeOK, Ledger!Resting
  <2>11. ASSUME NEW d \in Decision, Ledger!WriteThrows(d) PROVE Ledger!TypeOK'
    <3>1. chats' \in [Ledger!Chat -> Ledger!Ticket]
      BY <2>8, <2>11 DEF Ledger!WriteThrows, Ledger!TypeOK
    <3> QED
      BY <2>6, <2>11, <3>1 DEF Ledger!WriteThrows, Ledger!TypeOK, Ledger!Resting
  <2>12. ASSUME NEW n \in Name, Ledger!Rename(n) PROVE Ledger!TypeOK'
    <3>1. naming[n].chat \in Ledger!Chat
      BY <2>12 DEF Ledger!Rename, Ledger!TypeOK
    <3> QED
      BY <2>12, <3>1 DEF Ledger!Rename, Ledger!TypeOK, Ledger!Ticket
  <2> QED
    BY <2>1, <2>2, <2>3, <2>4, <2>5, <2>9, <2>10, <2>11, <2>12 DEF Ledger!Next
<1> QED
  BY <1>1, <1>2, PTL DEF Ledger!Spec

\* The strengthening holds of every reachable state.
LEMMA LedgerInvariant == Ledger!Spec => []Ledger!LedgerInv
<1>1. Ledger!Init => Ledger!LedgerInv
  <2>. SUFFICES ASSUME Ledger!Init PROVE Ledger!LedgerInv
    OBVIOUS
  <2>1. Ledger!TypeOK
    BY DEF Ledger!Init, Ledger!TypeOK, Ledger!Ticket, Ledger!Body, Ledger!Empty, Ledger!Resting,
           Ledger!AppendState
  <2> QED
    BY <2>1 DEF Ledger!Init, Ledger!LedgerInv, Ledger!DecisionsAreKept, Ledger!NumbersDiffer,
                Ledger!Entries, Ledger!Empty, Ledger!Resting, Ledger!Numbered
<1>2. Ledger!LedgerInv /\ Ledger!TypeOK' /\ [Ledger!Next]_Ledger!vars => Ledger!LedgerInv'
  <2>. SUFFICES ASSUME Ledger!LedgerInv, Ledger!TypeOK', [Ledger!Next]_Ledger!vars PROVE Ledger!LedgerInv'
    OBVIOUS
  <2>. Ledger!TypeOK
    BY DEF Ledger!LedgerInv
  <2>1. CASE UNCHANGED Ledger!vars
    BY <2>1 DEF Ledger!vars, Ledger!LedgerInv, Ledger!TypeOK, Ledger!DecisionsAreKept,
                Ledger!NumbersDiffer, Ledger!Entries, Ledger!Numbered, Ledger!Fresh, Ledger!Exists,
                Ledger!Unmoved
  <2>2. ASSUME NEW c \in Ledger!Chat, Ledger!CreateChat(c) PROVE Ledger!LedgerInv'
    <3>1. \A e \in Ledger!Chat : chats'[e].body = chats[e].body /\ chats'[e].version >= chats[e].version
      BY <2>2 DEF Ledger!CreateChat, Ledger!TypeOK, Ledger!Ticket, Ledger!Exists
    <3>2. \A n \in Name : (naming[n].pc = "found" => Ledger!Exists(naming[n].chat))'
      BY <2>2 DEF Ledger!CreateChat, Ledger!LedgerInv, Ledger!TypeOK, Ledger!Ticket, Ledger!Exists
    <3> QED
      BY <2>2, <3>1, <3>2, BodiesAlone DEF Ledger!CreateChat
  <2>3. ASSUME NEW c \in Ledger!Chat, Ledger!Touch(c) PROVE Ledger!LedgerInv'
    <3>1. \A e \in Ledger!Chat : chats'[e].body = chats[e].body /\ chats'[e].version >= chats[e].version
      BY <2>3 DEF Ledger!Touch, Ledger!TypeOK, Ledger!Ticket
    <3>2. \A n \in Name : (naming[n].pc = "found" => Ledger!Exists(naming[n].chat))'
      BY <2>3, <3>1 DEF Ledger!Touch, Ledger!LedgerInv, Ledger!TypeOK, Ledger!Ticket, Ledger!Exists
    <3> QED
      BY <2>3, <3>1, <3>2, BodiesAlone DEF Ledger!Touch
  <2>4. ASSUME NEW c \in Ledger!Chat, NEW d \in Decision, Ledger!ReadBody(d, c) PROVE Ledger!LedgerInv'
    <3>1. ASSUME NEW e \in Decision, append'[e].pc = "read" PROVE Ledger!Fresh(e)'
      <4>1. CASE e = d
        BY <2>4, <4>1 DEF Ledger!ReadBody, Ledger!TypeOK, Ledger!Ticket, Ledger!Finds,
                          Ledger!Fresh, Ledger!Exists, Ledger!Unmoved
      <4>2. CASE e # d
        BY <2>4, <3>1, <4>2 DEF Ledger!ReadBody, Ledger!LedgerInv, Ledger!TypeOK, Ledger!Fresh,
                                Ledger!Exists, Ledger!Unmoved
      <4> QED
        BY <4>1, <4>2
    <3> QED
      BY <2>4, <3>1 DEF Ledger!ReadBody, Ledger!LedgerInv, Ledger!DecisionsAreKept,
                        Ledger!NumbersDiffer, Ledger!Entries, Ledger!Numbered, Ledger!Exists
  <2>5. ASSUME NEW c \in Ledger!Chat, NEW n \in Name, Ledger!FindToName(n, c) PROVE Ledger!LedgerInv'
    <3>1. \A m \in Name : (naming[m].pc = "found" => Ledger!Exists(naming[m].chat))'
      BY <2>5 DEF Ledger!FindToName, Ledger!LedgerInv, Ledger!TypeOK, Ledger!Finds, Ledger!Exists
    <3> QED
      BY <2>5, <3>1, BodiesAlone DEF Ledger!FindToName, Ledger!TypeOK, Ledger!Ticket
  <2>6. ASSUME NEW d \in Decision, Ledger!Write(d) PROVE Ledger!LedgerInv'
    BY <2>6, EntryAdded DEF Ledger!Write
  <2>7. ASSUME NEW d \in Decision, UNCHANGED <<chats, naming, recorded>>,
               append' = [append EXCEPT ![d] = Ledger!Resting("refused")]
        PROVE  Ledger!LedgerInv'
    <3>1. \A e \in Decision : append'[e].pc = "read" => append'[e] = append[e]
      BY <2>7 DEF Ledger!TypeOK, Ledger!Resting
    <3>2. \A n \in Name : (naming[n].pc = "found" => Ledger!Exists(naming[n].chat))'
      BY <2>7 DEF Ledger!LedgerInv, Ledger!Exists
    <3> QED
      BY <2>7, <3>1, <3>2, BodiesAlone DEF Ledger!TypeOK, Ledger!Ticket
  <2>8. ASSUME NEW d \in Decision, Ledger!Refuse(d) PROVE Ledger!LedgerInv'
    BY <2>7, <2>8 DEF Ledger!Refuse
  <2>9. ASSUME NEW d \in Decision, Ledger!WriteThrows(d) PROVE Ledger!LedgerInv'
    <3>1. CASE UNCHANGED chats
      BY <2>7, <2>9, <3>1 DEF Ledger!WriteThrows
    <3>2. CASE Ledger!Unmoved(d) /\ Ledger!Rewrite(d)
      BY <2>9, <3>2, EntryAdded DEF Ledger!WriteThrows
    <3> QED
      BY <2>9, <3>1, <3>2 DEF Ledger!WriteThrows
  <2>10. ASSUME NEW n \in Name, Ledger!Rename(n) PROVE Ledger!LedgerInv'
    <3>1. naming[n].chat \in Ledger!Chat
      BY <2>10 DEF Ledger!Rename, Ledger!TypeOK
    <3>2. \A e \in Ledger!Chat : chats'[e].body = chats[e].body /\ chats'[e].version >= chats[e].version
      BY <2>10, <3>1 DEF Ledger!Rename, Ledger!TypeOK, Ledger!Ticket
    <3>3. \A m \in Name : (naming[m].pc = "found" => Ledger!Exists(naming[m].chat))'
      <4>1. \A m \in Name : naming'[m].pc = "found" => naming'[m] = naming[m]
        BY <2>10 DEF Ledger!Rename, Ledger!TypeOK
      <4> QED
        BY <4>1, <3>2 DEF Ledger!LedgerInv, Ledger!TypeOK, Ledger!Ticket, Ledger!Exists
    <3> QED
      BY <2>10, <3>2, <3>3, BodiesAlone DEF Ledger!Rename
  <2> QED
    BY <2>1, <2>2, <2>3, <2>4, <2>5, <2>6, <2>8, <2>9, <2>10 DEF Ledger!Next
<1> QED
  BY <1>1, <1>2, LedgerTypeCorrect, PTL DEF Ledger!Spec

\* "A lost one is gone with no trace that it was ever written": none is lost.
THEOREM NoDecisionIsLost == Ledger!Spec => []Ledger!DecisionsAreKept
<1>1. Ledger!LedgerInv => Ledger!DecisionsAreKept
  BY DEF Ledger!LedgerInv
<1> QED
  BY <1>1, LedgerInvariant, PTL

\* Numbers name entries.
THEOREM NumbersNameEntries == Ledger!Spec => []Ledger!NumbersDiffer
<1>1. Ledger!LedgerInv => Ledger!NumbersDiffer
  BY DEF Ledger!LedgerInv
<1> QED
  BY <1>1, LedgerInvariant, PTL


=============================================================================
