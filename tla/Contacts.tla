------------------------------- MODULE Contacts -------------------------------
(***************************************************************************)
(* The people of one business: invitePerson and setPersonRecord            *)
(* (control-app src/people.ts), their addresses and the history of their   *)
(* names (names.ts), over D1.                                              *)
(*                                                                         *)
(* A request is a string of awaits: it looks, it writes one batch or one   *)
(* statement, it looks again.  Other requests run in between, and it may   *)
(* stop anywhere.  What D1 decides is decided at the statement: one person *)
(* per address, one current name per person.                               *)
(*                                                                         *)
(* Of a name's seven parts two are told apart: the displayed one, without  *)
(* which there is no name, and one other.                                  *)
(***************************************************************************)
EXTENDS Absence, Naturals, Sequences, FiniteSets

CONSTANTS
    Request,    \* invites and edits, each of one kind
    Address,    \* email addresses, normalised
    Text        \* what a part of a name may say

ASSUME NoneIsNoValue == None \notin Request \cup Address \cup Text \cup {"corrected", "changed"}

Person == Request           \* a person's id is minted by the request that creates them

VARIABLES
    people,     \* the persons of the business
    address,    \* person -> their primary address, or None
    names,      \* person -> the rows of their name, oldest first
    request,    \* the local state of each request
    raced,      \* persons two of whose name writes overlapped
    cleared     \* persons who were asked to have no name, or one write of whose
                \* name stopped between its two statements

vars == <<people, address, names, request, raced, cleared>>
history == <<raced, cleared>>

Maybe(S) == S \cup {None}
Parts == [display: Maybe(Text), known: Maybe(Text)]
Row == [parts: Parts, live: BOOLEAN, reason: {None, "corrected", "changed"}]

\* A patch: for each part, whether it is in the patch, and what it says.
Patch == [has: SUBSET {"display", "known"}, says: Parts]

NoParts == [display |-> None, known |-> None]

RequestState ==
    [pc: {"idle", "lookup", "invite", "create", "edit", "address", "current", "supersede",
          "insert", "done", "refused", "failed", "gone"},
     kind: {"invite", "edit"}, person: Maybe(Person), address: Maybe(Address),
     patch: Patch, reason: {"corrected", "changed"},
     named: BOOLEAN,          \* the invite's lookup saw a name
     current: Parts,          \* the current name as it was read, or no parts
     next: Parts]             \* the name to be

NoPatch == [has |-> {}, says |-> NoParts]

Idle == [pc |-> "idle", kind |-> "invite", person |-> None, address |-> None, patch |-> NoPatch,
         reason |-> "corrected", named |-> FALSE, current |-> NoParts, next |-> NoParts]

\* A request that is over: what it was about no longer matters.
Over(outcome) == [Idle EXCEPT !.pc = outcome]

\* Goes on with the next step, or is over.
Goes(state, pc) == IF pc \in {"done", "refused"} THEN Over(pc) ELSE [state EXCEPT !.pc = pc]

Live(p) == {i \in 1..Len(names[p]) : names[p][i].live}

\* People, rows and requests keep their shapes: who is not there has neither
\* address nor name, a person has one address, a row shows something, and a
\* row that is current was not superseded for a reason.
TypeOK ==
    /\ people \in SUBSET Person
    /\ address \in [Person -> Maybe(Address)]
    /\ \A p \in Person : (address[p] # None) = (p \in people)
    /\ names \in [Person -> Seq(Row)]
    /\ \A p \in Person \ people : names[p] = <<>>
    /\ \A p \in people : \A i \in 1..Len(names[p]) :
          /\ names[p][i].parts.display # None
          /\ names[p][i].live = (names[p][i].reason = None)
    /\ request \in [Request -> RequestState]
    /\ raced \in SUBSET Person /\ cleared \in SUBSET Person

Init ==
    /\ people = {}
    /\ address = [p \in Person |-> None]
    /\ names = [p \in Person |-> <<>>]
    /\ request = [r \in Request |-> Idle]
    /\ raced = {}
    /\ cleared = {}

Name(p) == IF Live(p) = {} THEN NoParts
           ELSE names[p][CHOOSE i \in Live(p) : TRUE].parts

Holders(a) == {p \in people : address[p] = a}

-----------------------------------------------------------------------------
(* writeName, as either request comes to it.                                *)

Writing(q, p) == request[q].person = p /\ request[q].pc \in {"supersede", "insert"}

\* An absent part is carried forward, one in the patch is taken from it.
Patched(current, patch) ==
    [display |-> IF "display" \in patch.has THEN patch.says.display ELSE current.display,
     known |-> IF "known" \in patch.has THEN patch.says.known ELSE current.known]

\* Mutant: a field committed to the value it held is a new name.
NeverUnchanged(current, next) == FALSE

\* Every part says what it said.
Unchanged(current, next) == current = next

\* What a write does once it has read the current name.
AfterRead(current, next) ==
    IF next.display = None
    THEN IF next.known # None THEN "refused"
         ELSE IF current = NoParts THEN "done" ELSE "supersede"
    ELSE IF current # NoParts /\ Unchanged(current, next) THEN "done"
    ELSE IF current # NoParts THEN "supersede" ELSE "insert"

ReadCurrent(r) ==
    /\ request[r].pc = "current"
    /\ LET p == request[r].person
           next == Patched(Name(p), request[r].patch)
           pc == AfterRead(Name(p), next)
           others == {q \in Request \ {r} : Writing(q, p)}
       IN  /\ request' = [request EXCEPT ![r] =
                  Goes([request[r] EXCEPT !.current = Name(p), !.next = next], pc)]
           /\ raced' = IF others # {} THEN raced \cup {p} ELSE raced
           /\ cleared' = IF pc = "supersede" /\ next.display = None
                         THEN cleared \cup {p} ELSE cleared
    /\ UNCHANGED <<people, address, names>>

\* Mutant: rows that are history already are stamped again.
RetiredAll(rows, reason) ==
    [i \in 1..Len(rows) |-> [rows[i] EXCEPT !.live = FALSE, !.reason = reason]]

\* Whichever row is current, the one that was read or another.
Retired(rows, reason) ==
    [i \in 1..Len(rows) |->
        IF rows[i].live THEN [rows[i] EXCEPT !.live = FALSE, !.reason = reason] ELSE rows[i]]

Supersede(r) ==
    /\ request[r].pc = "supersede"
    /\ names' = [names EXCEPT ![request[r].person] = Retired(@, request[r].reason)]
    /\ request' = [request EXCEPT ![r] =
           Goes(@, IF request[r].next.display = None THEN "done" ELSE "insert")]
    /\ UNCHANGED <<people, address, history>>

\* Mutant: the index is over every row of a person, not over the current ones.
AnyRow(p) == names[p] # <<>>

\* idx_user_names_current.
NameConflict(p) == Live(p) # {}

\* The read back that follows changes nothing.
Insert(r) ==
    /\ request[r].pc = "insert"
    /\ ~NameConflict(request[r].person)
    /\ names' = [names EXCEPT ![request[r].person] =
           Append(@, [parts |-> request[r].next, live |-> TRUE, reason |-> None])]
    /\ request' = [request EXCEPT ![r] = Over("done")]
    /\ UNCHANGED <<people, address, history>>

InsertConflicts(r) ==
    /\ request[r].pc = "insert"
    /\ NameConflict(request[r].person)
    /\ request' = [request EXCEPT ![r] = Over("failed")]
    /\ UNCHANGED <<people, address, names, history>>

-----------------------------------------------------------------------------
(* invitePerson.                                                            *)

AfterInvite(r, named) == IF request[r].patch.has # {} /\ ~named THEN "current" ELSE "done"

AskInvite(r, a, display) ==
    /\ request[r].pc = "idle"
    /\ request' = [request EXCEPT ![r] =
           [Idle EXCEPT !.pc = "lookup", !.address = a,
                        !.patch = IF display = None THEN NoPatch
                                  ELSE [has |-> {"display"},
                                        says |-> [display |-> display, known |-> None]]]]
    /\ UNCHANGED <<people, address, names, history>>

\* Who holds the address, and whether they have a name.
Lookup(r) ==
    /\ request[r].pc = "lookup"
    /\ \/ /\ Holders(request[r].address) = {}
          /\ request' = [request EXCEPT ![r].pc = "create"]
       \/ \E p \in Holders(request[r].address) :
             request' = [request EXCEPT ![r] =
                 [request[r] EXCEPT !.pc = "invite", !.person = p, !.named = Name(p) # NoParts]]
    /\ UNCHANGED <<people, address, names, history>>

\* Somebody known: the stage, the stamp and the event of the press, in a batch.
InviteKnown(r) ==
    /\ request[r].pc = "invite"
    /\ request' = [request EXCEPT ![r] = Goes(@, AfterInvite(r, request[r].named))]
    /\ UNCHANGED <<people, address, names, history>>

\* Mutant: the index is of the address and the person, and any batch lands.
NeverTaken(a) == FALSE

\* idx_user_emails_tenant_email.
AddressTaken(a) == Holders(a) # {}

\* Somebody new: account, person, address and events, in a batch.
Create(r) ==
    /\ request[r].pc = "create"
    /\ ~AddressTaken(request[r].address)
    /\ people' = people \cup {r}
    /\ address' = [address EXCEPT ![r] = request[r].address]
    /\ request' = [request EXCEPT ![r] =
           Goes([request[r] EXCEPT !.person = r], AfterInvite(r, FALSE))]
    /\ UNCHANGED <<names, history>>

\* Another request made the person first: the batch throws.
CreateConflicts(r) ==
    /\ request[r].pc = "create"
    /\ AddressTaken(request[r].address)
    /\ request' = [request EXCEPT ![r] = Over("failed")]
    /\ UNCHANGED <<people, address, names, history>>

-----------------------------------------------------------------------------
(* setPersonRecord.                                                         *)

AskEdit(r, p, a, patch, reason) ==
    /\ request[r].pc = "idle"
    /\ p \in people
    /\ a # None \/ patch.has # {}
    /\ request' = [request EXCEPT ![r] =
           [Idle EXCEPT !.pc = "edit", !.kind = "edit", !.person = p, !.address = a,
                        !.patch = patch, !.reason = reason]]
    /\ UNCHANGED <<people, address, names, history>>

\* The person is resolved in the caller's business.
Resolve(r) ==
    /\ request[r].pc = "edit"
    /\ request' = [request EXCEPT ![r].pc =
           IF request[r].address # None THEN "address" ELSE "current"]
    /\ UNCHANGED <<people, address, names, history>>

\* The primary address is rewritten.
SetAddress(r) ==
    /\ request[r].pc = "address"
    /\ Holders(request[r].address) \subseteq {request[r].person}
    /\ address' = [address EXCEPT ![request[r].person] = request[r].address]
    /\ request' = [request EXCEPT ![r] =
           Goes(@, IF request[r].patch.has # {} THEN "current" ELSE "done")]
    /\ UNCHANGED <<people, names, history>>

\* "Somebody in this business already has that address."
AddressConflicts(r) ==
    /\ request[r].pc = "address"
    /\ AddressTaken(request[r].address)
    /\ ~ Holders(request[r].address) \subseteq {request[r].person}
    /\ request' = [request EXCEPT ![r] = Over("refused")]
    /\ UNCHANGED <<people, address, names, history>>

\* A request stops at an await: the Worker is gone, or a statement throws.
Stop(r) ==
    /\ request[r].pc \notin {"idle", "done", "refused", "failed", "gone"}
    /\ request' = [request EXCEPT ![r] = Over("gone")]
    /\ cleared' = IF request[r].pc = "insert" THEN cleared \cup {request[r].person} ELSE cleared
    /\ UNCHANGED <<people, address, names, raced>>

-----------------------------------------------------------------------------

Reasons == {"corrected", "changed"}

Patches == {q \in Patch : \A part \in {"display", "known"} :
                             part \notin q.has => q.says[part] = None}

Invite(r) == Lookup(r) \/ InviteKnown(r) \/ Create(r) \/ CreateConflicts(r)

Edit(r) == Resolve(r) \/ SetAddress(r) \/ AddressConflicts(r)

WriteName(r) == ReadCurrent(r) \/ Supersede(r) \/ Insert(r) \/ InsertConflicts(r)

Next ==
    \E r \in Request :
        \/ \E a \in Address, display \in Maybe(Text) : AskInvite(r, a, display)
        \/ \E p \in people, a \in Maybe(Address), q \in Patches, reason \in Reasons :
              AskEdit(r, p, a, q, reason)
        \/ Invite(r) \/ Edit(r) \/ WriteName(r) \/ Stop(r)

Spec == Init /\ [][Next]_vars

-----------------------------------------------------------------------------
(* What a contact's record may rely on.                                    *)

\* "Two people in one business holding one address is exactly what the index
\* exists to prevent" (people.ts): however invites and edits of addresses
\* overlap, an address is one person's.
OnePersonPerAddress == \A a \in Address : Cardinality(Holders(a)) <= 1

\* "Exactly one current, and a history" (0001_baseline.sql): however the writes
\* of a name overlap, and whichever of them fail, the person comes out with one
\* name, unless they were asked to have none or a write stopped half way.
NameSurvives ==
    \A p \in people : names[p] # <<>> /\ p \notin cleared =>
        \/ Cardinality(Live(p)) = 1
        \/ \E r \in Request : Writing(r, p) /\ request[r].pc = "insert"

\* "IT SUPERSEDES; IT NEVER UPDATES" (names.ts): no write takes a row from the
\* history, changes what it says, or gives another reason for its end.
HistoryIsKept ==
    [][\A p \in Person : \A i \in 1..Len(names[p]) :
          /\ i <= Len(names'[p])
          /\ names'[p][i].parts = names[p][i].parts
          /\ ~names[p][i].live => names'[p][i] = names[p][i]]_vars

\* "A PATCH OVER THE CURRENT ROW" and "A NO-OP WRITES NO HISTORY" (names.ts): a
\* name about to be inserted over an earlier one is a patch of the last row of
\* the history and says something else, unless writes of the name overlapped.
PatchesTheLastName ==
    \A r \in Request : request[r].pc = "insert" /\ request[r].person \notin raced =>
        LET rows == names[request[r].person]
            last == IF rows = <<>> THEN NoParts ELSE rows[Len(rows)].parts
        IN  request[r].current # NoParts =>
                /\ last = request[r].current
                /\ request[r].next # last

-----------------------------------------------------------------------------
(* What comments say and the code does not keep.                           *)

\* "A NAME TYPED HERE IS FILLED IN AND NEVER OVERWRITTEN", and the supersession
\* an invite would write is "an act that was not a rename at all" (people.ts,
\* invitePerson): an invite retires no name.
InviteNeverRenames ==
    \A r \in Request : request[r].kind = "invite" => request[r].pc # "supersede"

=============================================================================
