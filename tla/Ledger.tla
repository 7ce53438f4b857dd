-------------------------------- MODULE Ledger --------------------------------
(***************************************************************************)
(* The engagement's ledger: the decisions of one conversation, appended to *)
(* the body of its chat ticket (control-app src/ledger.ts) by the tools of *)
(* the assistant (tools/generate src/cli/ai/ledger-core.ts).               *)
(*                                                                         *)
(* An entry is numbered from the body that was read, and the whole body is *)
(* written back with the version that was read.  Others write the same     *)
(* ticket without one: the engagement's name here, the cursor of           *)
(* session-delta.ts, the archive.  A body is the entries it holds and the  *)
(* number of lines that read as the heading of one.                        *)
(***************************************************************************)
EXTENDS Absence, Naturals

CONSTANTS
    Decision,    \* decisions to be recorded, each retried until it is
    Name,        \* names to be given, each once
    MaxChats,    \* bound: the tickets that may home the conversation
    MaxVersion   \* bound: writes of one ticket

Chat == 1..MaxChats             \* uids of chat tickets, in the order they sort
Headings == 1..2                \* its own, and one that the prose holds

VARIABLES
    chats,     \* uid -> the chat ticket; there is none while its version is 0
    append,    \* the local state of each record_decision
    naming,    \* the local state of each name_engagement
    recorded   \* history: what was acknowledged: the ticket and the entry

vars == <<chats, append, naming, recorded>>

Entry == [of: Decision, number: Nat]
Body == [entries: SUBSET Entry, count: Nat]
Ticket == [body: Body, version: Nat, title: Name \cup {None}]
Empty == [entries |-> {}, count |-> 0]
Resting(pc) == [pc |-> pc, chat |-> None, body |-> Empty, version |-> 0]

AppendState == [pc: {"idle", "read", "done", "refused"},
                chat: Chat \cup {None}, body: Body, version: Nat]

\* Tickets and calls keep their shapes; a call that is about to write has found
\* a ticket.
TypeOK ==
    /\ chats \in [Chat -> Ticket]
    /\ append \in [Decision -> AppendState]
    /\ \A d \in Decision : append[d].pc = "read" => append[d].chat \in Chat
    /\ naming \in [Name -> [pc: {"idle", "found", "done"}, chat: Chat \cup {None}]]
    /\ \A n \in Name : naming[n].pc = "found" => naming[n].chat \in Chat
    /\ recorded \in SUBSET (Chat \X Entry)

Init ==
    /\ chats = [c \in Chat |-> [body |-> Empty, version |-> 0, title |-> None]]
    /\ append = [d \in Decision |-> Resting("idle")]
    /\ naming = [n \in Name |-> [pc |-> "idle", chat |-> None]]
    /\ recorded = {}

-----------------------------------------------------------------------------
(* The ticket.                                                              *)

Exists(c) == chats[c].version > 0

\* The archive, or the conversation's delta, creates it; two of them may.
CreateChat(c) ==
    /\ ~Exists(c)
    /\ chats' = [chats EXCEPT ![c].version = 1]
    /\ UNCHANGED <<append, naming, recorded>>

\* A cursor is written, or a transcript filed: the version moves.
Touch(c) ==
    /\ Exists(c)
    /\ chats[c].version < MaxVersion
    /\ chats' = [chats EXCEPT ![c].version = @ + 1]
    /\ UNCHANGED <<append, naming, recorded>>

\* findChat: the first of the conversation's tickets that the query returns.
Finds(c) == Exists(c) /\ \A e \in 1..(c - 1) : ~Exists(e)

-----------------------------------------------------------------------------
(* append.  Without a ticket it says NO_LEDGER, and may be called again.    *)

ReadBody(d, c) ==
    /\ append[d].pc \in {"idle", "refused"}
    /\ Finds(c)
    /\ append' = [append EXCEPT ![d] =
           [pc |-> "read", chat |-> c, body |-> chats[c].body, version |-> chats[c].version]]
    /\ UNCHANGED <<chats, naming, recorded>>

Unmoved(d) == chats[append[d].chat].version = append[d].version

NextNumber(d) == append[d].body.count + 1

NewEntry(d) == [of |-> d, number |-> NextNumber(d)]

\* The body that was read, and the entry under it.
Appended(d, headings) == [entries |-> append[d].body.entries \cup {NewEntry(d)},
                          count |-> append[d].body.count + headings]

Rewrite(d) ==
    /\ chats[append[d].chat].version < MaxVersion
    /\ \E h \in Headings :
          chats' = [chats EXCEPT ![append[d].chat].body = Appended(d, h),
                                 ![append[d].chat].version = @ + 1]

\* The update answers.
Write(d) ==
    /\ append[d].pc = "read"
    /\ Unmoved(d)
    /\ Rewrite(d)
    /\ append' = [append EXCEPT ![d] = Resting("done")]
    /\ recorded' = recorded \cup {<<append[d].chat, NewEntry(d)>>}
    /\ UNCHANGED naming

\* CONFLICT.
Refuse(d) ==
    /\ append[d].pc = "read"
    /\ ~Unmoved(d)
    /\ append' = [append EXCEPT ![d] = Resting("refused")]
    /\ UNCHANGED <<chats, naming, recorded>>

\* The update throws, with or without its effect; or the turn has ended.
WriteThrows(d) ==
    /\ append[d].pc = "read"
    /\ UNCHANGED chats \/ (Unmoved(d) /\ Rewrite(d))
    /\ append' = [append EXCEPT ![d] = Resting("refused")]
    /\ UNCHANGED <<naming, recorded>>

-----------------------------------------------------------------------------
(* rename: no version is expected.                                          *)

FindToName(n, c) ==
    /\ naming[n].pc = "idle"
    /\ Finds(c)
    /\ naming' = [naming EXCEPT ![n] = [pc |-> "found", chat |-> c]]
    /\ UNCHANGED <<chats, append, recorded>>

\* The title alone is patched, on the ticket as it stands.
Rename(n) ==
    /\ naming[n].pc = "found"
    /\ chats[naming[n].chat].version < MaxVersion
    /\ chats' = [chats EXCEPT ![naming[n].chat].title = n, ![naming[n].chat].version = @ + 1]
    /\ naming' = [naming EXCEPT ![n] = [pc |-> "done", chat |-> None]]
    /\ UNCHANGED <<append, recorded>>

-----------------------------------------------------------------------------
Next ==
    \/ \E c \in Chat :
          \/ CreateChat(c) \/ Touch(c)
          \/ \E d \in Decision : ReadBody(d, c)
          \/ \E n \in Name : FindToName(n, c)
    \/ \E d \in Decision : Write(d) \/ Refuse(d) \/ WriteThrows(d)
    \/ \E n \in Name : Rename(n)

Spec == Init /\ [][Next]_vars

-----------------------------------------------------------------------------
(* Properties.                                                              *)

Entries(c) == chats[c].body.entries

\* "A lost one is gone with no trace that it was ever written" (ledger.ts): a
\* decision that was acknowledged stays in its ticket under its number, however
\* appends, names and cursors overlap.
DecisionsAreKept == \A r \in recorded : r[2] \in Entries(r[1])

\* No two entries of a ticket have one number, whatever a decision's prose looks
\* like and however often it is written again.
NumbersDiffer ==
    \A c \in Chat : \A e \in Entries(c) : \A f \in Entries(c) :
        e.number = f.number => e = f

\* What makes them inductive.  A body's numbers are counted in it; what a call
\* read at the version the ticket still has is what the ticket holds.
Numbered(body) == \A e \in body.entries : e.number \in 1..body.count
Fresh(d) ==
    LET c == append[d].chat IN
    /\ Exists(c) /\ append[d].version <= chats[c].version
    /\ Unmoved(d) => append[d].body = chats[c].body
LedgerInv ==
    /\ TypeOK /\ DecisionsAreKept /\ NumbersDiffer
    /\ \A c \in Chat : Numbered(chats[c].body)
    /\ \A d \in Decision : append[d].pc = "read" => Fresh(d)
    /\ \A n \in Name : naming[n].pc = "found" => Exists(naming[n].chat)

-----------------------------------------------------------------------------
(* What the comments promise and the code does not keep; checked by hand.   *)

\* A decision is in the ticket the conversation finds: it is not when a second
\* ticket, made by a first turn that overlapped, sorts before it.
DecisionsAreFound == \A r \in recorded : Finds(r[1])

\* "A decision whose prose happens to contain the phrase cannot inflate the
\* count" (ledger.ts): it can, where a line of it is the phrase.
NumbersAreCounted ==
    \A c \in Chat : \A e \in Entries(c) : \A k \in 1..e.number :
        \E f \in Entries(c) : f.number = k

\* A decision is written once: it is twice when an update took effect and threw.
WrittenOnce ==
    \A c \in Chat : \A e \in Entries(c) : \A f \in Entries(c) : e.of = f.of => e = f
=============================================================================
