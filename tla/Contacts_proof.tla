----------------------------- MODULE Contacts_proof -----------------------------
(***************************************************************************)
(* What the record of a contact keeps, for any number of requests,         *)
(* addresses and names, however requests overlap and wherever they stop.   *)
(*                                                                         *)
(* The two indexes decide at the statement, so an address is taken once    *)
(* and a current row is always the last of its history (LastIsLive).  What *)
(* a write of a name still owes between its two statements is in its       *)
(* request: it holds the row it read, which is the last one as long as no  *)
(* other write of the name came between.                                   *)
(***************************************************************************)
EXTENDS Contacts, FiniteSetTheorems, TLAPS

OfPerson == {"invite", "edit", "address", "current", "supersede", "insert"}

\* A request knows whom it is about, and what it writes shows something.
Standing(q, who) ==
    /\ q.pc \in {"lookup", "create", "address"} => q.address \in Address
    /\ q.pc \in OfPerson => q.person \in who
    /\ q.pc = "insert" => q.next.display # None

Requests == \A r \in Request : Standing(request[r], people)

TypeInv == TypeOK /\ Requests

\* An address is one person's.
AddressesDiffer == \A p, q \in people : address[p] = address[q] => p = q

\* The current row of a name is the last one.
LastIsLive == \A p \in Person : \A i \in Live(p) : i = Len(names[p])

\* Who is about to lose a name for none was asked to.
RemovalsAreAsked ==
    \A r \in Request : request[r].pc = "supersede" /\ request[r].next.display = None =>
        request[r].person \in cleared

\* A name with a history has a current row or a write that owes one, or was to have none.
NamesAreOwed ==
    \A p \in people : names[p] # <<>> /\ p \notin cleared =>
        Live(p) # {} \/ \E r \in Request : Writing(r, p) /\ request[r].pc = "insert"

Last(rows) == IF rows = <<>> THEN NoParts ELSE rows[Len(rows)].parts

\* Writes of one name that did not overlap are one ...
WritersAreAlone ==
    \A r, q \in Request : \A p \in Person :
        Writing(r, p) /\ Writing(q, p) /\ p \notin raced => r = q

\* ... and it changes the last row of the history, the one it read.
WritesTheLast ==
    \A r \in Request : \A p \in Person :
        Writing(r, p) /\ p \notin raced =>
            /\ request[r].pc = "supersede" => request[r].current # NoParts
            /\ request[r].current # NoParts =>
                  request[r].current = Last(names[p]) /\ request[r].next # request[r].current

PatchInv == TypeInv /\ LastIsLive /\ WritersAreAlone /\ WritesTheLast
-----------------------------------------------------------------------------
(* The helpers.                                                             *)

\* The kinds of what a request holds.
LEMMA StateIs ==
    ASSUME NEW q \in RequestState
    PROVE  /\ q.person \in Maybe(Person) /\ q.address \in Maybe(Address) /\ q.patch \in Patch
           /\ q.reason \in {"corrected", "changed"} /\ q.current \in Parts /\ q.next \in Parts
  BY DEF RequestState

\* What is over is of nobody.
LEMMA OverIs ==
    ASSUME NEW outcome \in {"done", "refused", "failed", "gone"}
    PROVE  /\ Over(outcome) \in RequestState /\ Over(outcome).pc = outcome
           /\ \A who : Standing(Over(outcome), who)
<1>1. Idle \in RequestState
  BY DEF Idle, RequestState, NoParts, NoPatch, Parts, Patch, Maybe
<1>2. Over(outcome) \in RequestState /\ Over(outcome).pc = outcome
  BY <1>1 DEF Over, RequestState
<1> QED
  BY <1>2 DEF Standing, OfPerson

\* Whoever goes on does so with what they hold.
LEMMA GoesIs ==
    ASSUME NEW q \in RequestState,
           NEW pc \in {"idle", "lookup", "invite", "create", "edit", "address", "current", "supersede",
                       "insert", "done", "refused", "failed", "gone"}
    PROVE  /\ Goes(q, pc) \in RequestState /\ Goes(q, pc).pc = pc
           /\ pc \notin {"done", "refused"} =>
                 /\ Goes(q, pc).person = q.person /\ Goes(q, pc).address = q.address
                 /\ Goes(q, pc).current = q.current /\ Goes(q, pc).next = q.next
<1>1. CASE pc \in {"done", "refused"}
  BY <1>1, OverIs DEF Goes
<1>2. CASE pc \notin {"done", "refused"}
  BY <1>2 DEF Goes, RequestState
<1> QED
  BY <1>1, <1>2

\* Rows that are retired keep what they say, and history stays as it is.
LEMMA RetiredIs ==
    ASSUME NEW rows \in Seq(Row), NEW reason \in {"corrected", "changed"}
    PROVE  /\ Retired(rows, reason) \in Seq(Row) /\ Len(Retired(rows, reason)) = Len(rows)
           /\ \A i \in 1..Len(rows) :
                 /\ Retired(rows, reason)[i].parts = rows[i].parts
                 /\ ~Retired(rows, reason)[i].live
                 /\ ~rows[i].live => Retired(rows, reason)[i] = rows[i]
                 /\ rows[i].live => Retired(rows, reason)[i].reason = reason
<1> DEFINE new == Retired(rows, reason)
<1>1. Len(rows) \in Nat /\ \A i \in 1..Len(rows) : rows[i] \in Row
  OBVIOUS
<1>2. \A i \in 1..Len(rows) :
          new[i] = IF rows[i].live THEN [rows[i] EXCEPT !.live = FALSE, !.reason = reason] ELSE rows[i]
  BY DEF Retired
<1>3. ASSUME NEW i \in 1..Len(rows)
      PROVE  /\ new[i] \in Row /\ new[i].parts = rows[i].parts /\ new[i].live = FALSE
             /\ ~rows[i].live => new[i] = rows[i]
             /\ rows[i].live => new[i].reason = reason
  <2>1. rows[i] \in Row
    BY <1>1
  <2>2. CASE rows[i].live
    <3>1. new[i] = [rows[i] EXCEPT !.live = FALSE, !.reason = reason]
      BY <1>2, <2>2
    <3> QED
      BY <2>1, <2>2, <3>1 DEF Row
  <2>3. CASE ~rows[i].live
    BY <1>2, <2>1, <2>3 DEF Row
  <2> QED
    BY <2>2, <2>3
<1>4. new = [i \in 1..Len(rows) |->
                 IF rows[i].live THEN [rows[i] EXCEPT !.live = FALSE, !.reason = reason] ELSE rows[i]]
  BY DEF Retired
<1> HIDE DEF new
<1>5. new \in Seq(Row) /\ Len(new) = Len(rows)
  <2>1. new \in [1..Len(rows) -> Row]
    BY <1>3, <1>4
  <2> QED
    BY <1>1, <2>1
<1> QED
  BY <1>3, <1>5 DEF new

\* A name that is current is the last row's.
LEMMA NameIsLast ==
    ASSUME TypeOK, LastIsLive, NEW p \in people
    PROVE  /\ Name(p) \in Parts
           /\ Live(p) = {} => Name(p) = NoParts
           /\ Live(p) # {} => Name(p) = Last(names[p]) /\ Name(p) # NoParts /\ names[p] # <<>>
<1>1. p \in Person /\ names[p] \in Seq(Row) /\ Live(p) \subseteq 1..Len(names[p])
  BY DEF TypeOK, Live
<1>2. CASE Live(p) = {}
  BY <1>2 DEF Name, NoParts, Parts, Maybe
<1>3. CASE Live(p) # {}
  <2> DEFINE i == CHOOSE i \in Live(p) : TRUE
  <2>1. i \in Live(p) /\ Name(p) = names[p][i].parts
    BY <1>3 DEF Name
  <2>2. i = Len(names[p]) /\ i \in 1..Len(names[p]) /\ names[p][i] \in Row
    BY <1>1, <2>1 DEF LastIsLive
  <2>3. names[p] # <<>>
    BY <1>1, <2>2
  <2>4. names[p][i].parts.display # None
    BY <2>2 DEF TypeOK
  <2>5. names[p][i].parts \in Parts
    BY <2>2 DEF Row
  <2> HIDE DEF i
  <2> QED
    BY <1>3, <2>1, <2>2, <2>3, <2>4, <2>5 DEF Last, NoParts
<1> QED
  BY <1>2, <1>3

\* A patched name is a name.
LEMMA PatchedIs ==
    ASSUME NEW current \in Parts, NEW patch \in Patch
    PROVE  Patched(current, patch) \in Parts
  BY DEF Patched, Parts, Patch

\* Where a write goes from what it read.
LEMMA AfterReadIs ==
    ASSUME NEW current, NEW next \in Parts
    PROVE  /\ AfterRead(current, next) \in {"done", "refused", "supersede", "insert"}
           /\ AfterRead(current, next) = "supersede" => current # NoParts /\ next # current
           /\ AfterRead(current, next) = "insert" => next.display # None /\ current = NoParts
<1>1. next.display = None /\ next.known = None => next = NoParts
  BY DEF Parts, NoParts
<1> QED
  BY <1>1 DEF AfterRead, Unchanged, NoParts
-----------------------------------------------------------------------------
(* Type correctness.                                                        *)

\* The business as the store has it.
Store ==
    /\ people \in SUBSET Person
    /\ address \in [Person -> Maybe(Address)]
    /\ \A p \in Person : (address[p] # None) = (p \in people)
    /\ names \in [Person -> Seq(Row)]
    /\ \A p \in Person \ people : names[p] = <<>>
    /\ \A p \in people : \A i \in 1..Len(names[p]) :
          /\ names[p][i].parts.display # None
          /\ names[p][i].live = (names[p][i].reason = None)
    /\ raced \in SUBSET Person /\ cleared \in SUBSET Person

\* Its types are the store's and the requests'.
LEMMA TypesAre == TypeOK <=> Store /\ request \in [Request -> RequestState]
  BY DEF TypeOK, Store

\* At first nobody is there and nobody asks.
LEMMA InitTypes == Init => TypeInv
<1> SUFFICES ASSUME Init PROVE TypeInv
  OBVIOUS
<1>1. Idle \in RequestState /\ Idle.pc = "idle"
  BY DEF Idle, RequestState, NoParts, NoPatch, Parts, Patch, Maybe
<1>2. <<>> \in Seq(Row)
  OBVIOUS
<1> QED
  BY <1>1, <1>2 DEF Init, TypeInv, TypeOK, Requests, Standing, OfPerson, Maybe

\* What one request does to its own state leaves the others standing.
LEMMA OneMoves ==
    ASSUME TypeInv, NEW r \in Request, NEW q \in RequestState, request' = [request EXCEPT ![r] = q],
           people \subseteq people', Standing(q, people'), Store'
    PROVE  TypeInv'
<1>1. request' \in [Request -> RequestState] /\ request'[r] = q
  BY DEF TypeInv, TypeOK
<1>2. ASSUME NEW s \in Request PROVE Standing(request'[s], people')
  <2>1. CASE s = r
    BY <1>1, <2>1
  <2>2. CASE s # r
    <3>1. request'[s] = request[s] /\ Standing(request[s], people)
      BY <2>2 DEF TypeInv, TypeOK, Requests
    <3> QED
      BY <3>1 DEF Standing
  <2> QED
    BY <2>1, <2>2
<1>3. Requests'
  BY <1>2 DEF Requests
<1>4. TypeOK'
  BY <1>1 DEF TypeOK, Store
<1> QED
  BY <1>3, <1>4 DEF TypeInv

\* A store that is left alone is one still.
LEMMA StoreStays ==
    ASSUME TypeInv, UNCHANGED <<people, address, names>>,
           raced' \in SUBSET Person, cleared' \in SUBSET Person
    PROVE  Store'
  BY DEF TypeInv, TypeOK, Store

\* Asking and looking.
LEMMA InviteTypes ==
    ASSUME TypeInv, NEW r \in Request,
           (\E a \in Address, display \in Maybe(Text) : AskInvite(r, a, display)) \/ Invite(r)
    PROVE  TypeInv'
<1>1. /\ request \in [Request -> RequestState] /\ request[r] \in RequestState
      /\ Standing(request[r], people) /\ people \subseteq Person
      /\ raced \in SUBSET Person /\ cleared \in SUBSET Person
  BY DEF TypeInv, TypeOK, Requests
<1>2. CASE \E a \in Address, display \in Maybe(Text) : AskInvite(r, a, display)
  <2>1. PICK a \in Address, display \in Maybe(Text) : AskInvite(r, a, display)
    BY <1>2
  <2> DEFINE patch == IF display = None THEN NoPatch
                      ELSE [has |-> {"display"}, says |-> [display |-> display, known |-> None]]
             q == [Idle EXCEPT !.pc = "lookup", !.address = a, !.patch = patch]
  <2>2. patch \in Patch
    BY DEF Patch, NoPatch, NoParts, Parts, Maybe
  <2>3. request' = [request EXCEPT ![r] = q] /\ UNCHANGED <<people, address, names, history>>
    BY <2>1 DEF AskInvite
  <2> HIDE DEF patch
  <2>4. q \in RequestState /\ q.pc = "lookup" /\ q.address = a
    BY <2>2 DEF Idle, RequestState, NoParts, NoPatch, Parts, Patch, Maybe
  <2> HIDE DEF q
  <2>5. Standing(q, people)
    BY <2>4 DEF Standing, OfPerson
  <2> QED
    BY <1>1, <2>3, <2>4, <2>5, OneMoves, StoreStays DEF history
<1>3. CASE Lookup(r)
  <2>1. request[r].pc = "lookup" /\ UNCHANGED <<people, address, names, history>>
    BY <1>3 DEF Lookup
  <2>2. CASE request' = [request EXCEPT ![r].pc = "create"]
    <3> DEFINE q == [request[r] EXCEPT !.pc = "create"]
    <3>1. request' = [request EXCEPT ![r] = q]
      BY <1>1, <2>2
    <3>2. q \in RequestState /\ q.pc = "create" /\ q.address = request[r].address
      BY <1>1 DEF RequestState
    <3> HIDE DEF q
    <3>3. Standing(q, people)
      BY <1>1, <2>1, <3>2 DEF Standing, OfPerson
    <3> QED
      BY <1>1, <2>1, <3>1, <3>2, <3>3, OneMoves, StoreStays DEF history
  <2>3. CASE \E p \in Holders(request[r].address) :
                request' = [request EXCEPT ![r] =
                    [request[r] EXCEPT !.pc = "invite", !.person = p, !.named = Name(p) # NoParts]]
    <3>1. PICK p \in Holders(request[r].address) :
                request' = [request EXCEPT ![r] =
                    [request[r] EXCEPT !.pc = "invite", !.person = p, !.named = Name(p) # NoParts]]
      BY <2>3
    <3> DEFINE named == Name(p) # NoParts
               q == [request[r] EXCEPT !.pc = "invite", !.person = p, !.named = named]
    <3>2. p \in people /\ named \in BOOLEAN
      BY DEF Holders
    <3>3. request' = [request EXCEPT ![r] = q]
      BY <3>1
    <3> HIDE DEF named
    <3>4. q \in RequestState /\ q.pc = "invite" /\ q.person = p
      BY <1>1, <3>2 DEF RequestState, Maybe
    <3> HIDE DEF q
    <3>5. Standing(q, people)
      BY <3>2, <3>4 DEF Standing, OfPerson
    <3> QED
      BY <1>1, <2>1, <3>3, <3>4, <3>5, OneMoves, StoreStays DEF history
  <2> QED
    BY <1>3, <2>2, <2>3 DEF Lookup
<1>4. CASE InviteKnown(r)
  <2> DEFINE pc == AfterInvite(r, request[r].named)
             q == Goes(request[r], pc)
  <2>1. request[r].pc = "invite" /\ request' = [request EXCEPT ![r] = q]
        /\ UNCHANGED <<people, address, names, history>>
    BY <1>1, <1>4 DEF InviteKnown
  <2>2. pc \in {"current", "done"}
    BY DEF AfterInvite
  <2> HIDE DEF pc
  <2>3. q \in RequestState /\ Standing(q, people)
    BY <1>1, <2>1, <2>2, GoesIs DEF Standing, OfPerson
  <2> HIDE DEF q
  <2> QED
    BY <1>1, <2>1, <2>3, OneMoves, StoreStays DEF history
<1>5. CASE Create(r)
  <2> DEFINE pc == AfterInvite(r, FALSE)
             s == [request[r] EXCEPT !.person = r]
             q == Goes(s, pc)
  <2>1. /\ request[r].pc = "create" /\ people' = people \cup {r}
        /\ address' = [address EXCEPT ![r] = request[r].address]
        /\ request' = [request EXCEPT ![r] = q] /\ UNCHANGED <<names, history>>
    BY <1>5 DEF Create
  <2>2. pc \in {"current", "done"}
    BY DEF AfterInvite
  <2>3. s \in RequestState /\ s.person = r
    BY <1>1 DEF RequestState, Person, Maybe
  <2> HIDE DEF pc, s
  <2>4. q \in RequestState /\ Standing(q, people')
    BY <2>1, <2>2, <2>3, GoesIs DEF Standing, OfPerson
  <2> HIDE DEF q
  <2>5. request[r].address \in Address /\ request[r].address # None
    BY <1>1, <2>1, NoneIsNoValue DEF Standing
  <2>6. r \in Person
    BY DEF Person
  <2>7. Store'
    BY <1>1, <2>1, <2>5, <2>6 DEF TypeInv, TypeOK, Store, Maybe, history
  <2> QED
    BY <2>1, <2>4, <2>7, OneMoves
<1>6. CASE CreateConflicts(r)
  BY <1>1, <1>6, OverIs, OneMoves, StoreStays DEF CreateConflicts, history
<1> QED
  BY <1>2, <1>3, <1>4, <1>5, <1>6 DEF Invite

\* Editing a record.
LEMMA EditTypes ==
    ASSUME TypeInv, NEW r \in Request,
           \/ \E p \in people, a \in Maybe(Address), q \in Patches, reason \in Reasons :
                 AskEdit(r, p, a, q, reason)
           \/ Edit(r)
    PROVE  TypeInv'
<1>1. /\ request \in [Request -> RequestState] /\ request[r] \in RequestState
      /\ Standing(request[r], people) /\ people \subseteq Person
      /\ raced \in SUBSET Person /\ cleared \in SUBSET Person
  BY DEF TypeInv, TypeOK, Requests
<1>2. CASE \E p \in people, a \in Maybe(Address), q \in Patches, reason \in Reasons :
               AskEdit(r, p, a, q, reason)
  <2>1. PICK p \in people, a \in Maybe(Address), patch \in Patches, reason \in Reasons :
            AskEdit(r, p, a, patch, reason)
    BY <1>2
  <2> DEFINE q == [Idle EXCEPT !.pc = "edit", !.kind = "edit", !.person = p, !.address = a,
                               !.patch = patch, !.reason = reason]
  <2>2. request' = [request EXCEPT ![r] = q] /\ UNCHANGED <<people, address, names, history>>
    BY <2>1 DEF AskEdit
  <2>3. p \in Person /\ patch \in Patch /\ reason \in {"corrected", "changed"}
    BY <1>1 DEF Patches, Reasons
  <2>4. q \in RequestState /\ q.pc = "edit" /\ q.person = p
    BY <2>3 DEF Idle, RequestState, NoParts, NoPatch, Parts, Maybe
  <2> HIDE DEF q
  <2>5. Standing(q, people)
    BY <2>4 DEF Standing, OfPerson
  <2> QED
    BY <1>1, <2>2, <2>4, <2>5, OneMoves, StoreStays DEF history
<1>3. CASE Resolve(r)
  <2> DEFINE pc == IF request[r].address # None THEN "address" ELSE "current"
             q == [request[r] EXCEPT !.pc = pc]
  <2>1. /\ request[r].pc = "edit" /\ request' = [request EXCEPT ![r] = q]
        /\ UNCHANGED <<people, address, names, history>>
    BY <1>1, <1>3 DEF Resolve
  <2>2. pc \in {"address", "current"} /\ (pc = "address" => request[r].address \in Address)
    BY <1>1, StateIs DEF Maybe
  <2> HIDE DEF pc
  <2>3. q \in RequestState /\ q.pc = pc /\ q.address = request[r].address /\ q.person = request[r].person
    BY <1>1, <2>2 DEF RequestState
  <2> HIDE DEF q
  <2>4. Standing(q, people)
    BY <1>1, <2>1, <2>2, <2>3 DEF Standing, OfPerson
  <2> QED
    BY <1>1, <2>1, <2>3, <2>4, OneMoves, StoreStays DEF history
<1>4. CASE SetAddress(r)
  <2> DEFINE pc == IF request[r].patch.has # {} THEN "current" ELSE "done"
             q == Goes(request[r], pc)
  <2>1. /\ request[r].pc = "address" /\ request' = [request EXCEPT ![r] = q]
        /\ address' = [address EXCEPT ![request[r].person] = request[r].address]
        /\ UNCHANGED <<people, names, history>>
    BY <1>1, <1>4 DEF SetAddress
  <2>2. pc \in {"current", "done"}
    OBVIOUS
  <2> HIDE DEF pc
  <2>3. q \in RequestState /\ Standing(q, people)
    BY <1>1, <2>1, <2>2, GoesIs DEF Standing, OfPerson
  <2> HIDE DEF q
  <2>4. request[r].address \in Address /\ request[r].address # None /\ request[r].person \in people
    BY <1>1, <2>1, NoneIsNoValue DEF Standing, OfPerson
  <2>5. Store'
    BY <1>1, <2>1, <2>4 DEF TypeInv, TypeOK, Store, Maybe, history
  <2> QED
    BY <2>1, <2>3, <2>5, OneMoves
<1>5. CASE AddressConflicts(r)
  BY <1>1, <1>5, OverIs, OneMoves, StoreStays DEF AddressConflicts, history
<1> QED
  BY <1>2, <1>3, <1>4, <1>5 DEF Edit

\* What reading the current name comes to.
LEMMA ReadIs ==
    ASSUME TypeInv, LastIsLive, NEW r \in Request, ReadCurrent(r)
    PROVE  \E q \in RequestState, next \in Parts, pc \in {"done", "refused", "supersede", "insert"} :
              /\ request' = [request EXCEPT ![r] = q]
              /\ q.pc = pc
              /\ pc = AfterRead(Name(request[r].person), next)
              /\ pc \in {"supersede", "insert"} =>
                    /\ q.person = request[r].person /\ q.next = next
                    /\ q.current = Name(request[r].person)
              /\ cleared' = IF pc = "supersede" /\ next.display = None
                            THEN cleared \cup {request[r].person} ELSE cleared
              /\ raced' = IF \E s \in Request \ {r} : Writing(s, request[r].person)
                          THEN raced \cup {request[r].person} ELSE raced
<1> DEFINE p == request[r].person
           next == Patched(Name(p), request[r].patch)
           pc == AfterRead(Name(p), next)
           s == [request[r] EXCEPT !.current = Name(p), !.next = next]
           q == Goes(s, pc)
<1>1. request[r] \in RequestState /\ p \in people /\ TypeOK
  BY DEF TypeInv, TypeOK, Requests, Standing, OfPerson, ReadCurrent
<1>2. Name(p) \in Parts /\ next \in Parts
  BY <1>1, NameIsLast, StateIs, PatchedIs
<1>3. /\ request' = [request EXCEPT ![r] = q]
      /\ raced' = IF {s1 \in Request \ {r} : Writing(s1, p)} # {} THEN raced \cup {p} ELSE raced
      /\ cleared' = IF pc = "supersede" /\ next.display = None THEN cleared \cup {p} ELSE cleared
  BY DEF ReadCurrent
<1> HIDE DEF next
<1>4. pc \in {"done", "refused", "supersede", "insert"}
  BY <1>2, AfterReadIs
<1> HIDE DEF pc
<1>5. s \in RequestState /\ s.person = p /\ s.current = Name(p) /\ s.next = next
  BY <1>1, <1>2 DEF RequestState
<1> HIDE DEF s
<1>6. /\ q \in RequestState /\ q.pc = pc
      /\ pc \notin {"done", "refused"} => q.person = p /\ q.current = Name(p) /\ q.next = next
  BY <1>4, <1>5, GoesIs
<1> HIDE DEF q
<1>7. pc = AfterRead(Name(p), next)
  BY DEF pc
<1> QED
  BY <1>2, <1>3, <1>4, <1>6, <1>7

\* What retiring the current row comes to.
LEMMA SupersedeIs ==
    ASSUME TypeInv, NEW r \in Request, Supersede(r)
    PROVE  \E q \in RequestState :
              /\ request' = [request EXCEPT ![r] = q]
              /\ q.pc = IF request[r].next.display = None THEN "done" ELSE "insert"
              /\ q.pc = "insert" => /\ q.person = request[r].person /\ q.next = request[r].next
                                    /\ q.current = request[r].current
<1> DEFINE pc == IF request[r].next.display = None THEN "done" ELSE "insert"
           q == Goes(request[r], pc)
<1>1. request \in [Request -> RequestState]
  BY DEF TypeInv, TypeOK
<1>2. request' = [request EXCEPT ![r] = q]
  BY <1>1 DEF Supersede
<1>3. pc \in {"done", "insert"}
  OBVIOUS
<1>4. /\ q \in RequestState /\ q.pc = pc
      /\ pc = "insert" => /\ q.person = request[r].person /\ q.next = request[r].next
                          /\ q.current = request[r].current
  BY <1>1, <1>3, GoesIs
<1> QED
  BY <1>2, <1>4, Zenon

\* A row that is appended.
LEMMA AppendedIs ==
    ASSUME NEW rows \in Seq(Row), NEW parts \in Parts, parts.display # None
    PROVE  LET new == Append(rows, [parts |-> parts, live |-> TRUE, reason |-> None]) IN
           /\ new \in Seq(Row) /\ Len(new) = Len(rows) + 1 /\ Len(rows) \in Nat
           /\ \A i \in 1..Len(rows) : new[i] = rows[i]
           /\ new[Len(rows) + 1].parts = parts /\ new[Len(rows) + 1].live = TRUE
           /\ new[Len(rows) + 1].reason = None
<1> DEFINE row == [parts |-> parts, live |-> TRUE, reason |-> None]
<1>1. row \in Row /\ row.parts = parts /\ row.live = TRUE /\ row.reason = None
  BY DEF Row
<1> HIDE DEF row
<1>2. /\ Append(rows, row) \in Seq(Row) /\ Len(Append(rows, row)) = Len(rows) + 1 /\ Len(rows) \in Nat
      /\ \A i \in 1..Len(rows) : Append(rows, row)[i] = rows[i]
      /\ Append(rows, row)[Len(rows) + 1] = row
  BY <1>1
<1> QED
  BY <1>1, <1>2 DEF row

Base == TypeInv /\ LastIsLive

\* Writing a name, and stopping.
LEMMA NameTypes ==
    ASSUME Base, NEW r \in Request, WriteName(r) \/ Stop(r)
    PROVE  TypeInv'
<1>1. /\ request \in [Request -> RequestState] /\ request[r] \in RequestState
      /\ Standing(request[r], people) /\ people \subseteq Person
      /\ raced \in SUBSET Person /\ cleared \in SUBSET Person /\ names \in [Person -> Seq(Row)]
      /\ TypeInv /\ LastIsLive /\ Store
  BY TypesAre DEF Base, TypeInv, TypeOK, Requests
<1>2. CASE ReadCurrent(r)
  <2>1. PICK q \in RequestState, next \in Parts, pc \in {"done", "refused", "supersede", "insert"} :
              /\ request' = [request EXCEPT ![r] = q] /\ q.pc = pc
              /\ pc = AfterRead(Name(request[r].person), next)
              /\ pc \in {"supersede", "insert"} => q.person = request[r].person /\ q.next = next
              /\ cleared' = IF pc = "supersede" /\ next.display = None
                            THEN cleared \cup {request[r].person} ELSE cleared
              /\ raced' = IF \E s \in Request \ {r} : Writing(s, request[r].person)
                          THEN raced \cup {request[r].person} ELSE raced
    BY <1>1, <1>2, ReadIs
  <2>2. request[r].person \in people /\ UNCHANGED <<people, address, names>>
    BY <1>1, <1>2 DEF ReadCurrent, Standing, OfPerson
  <2>3. Standing(q, people)
    BY <2>1, <2>2, AfterReadIs DEF Standing, OfPerson
  <2>4. raced' \in SUBSET Person /\ cleared' \in SUBSET Person
    BY <1>1, <2>1, <2>2
  <2> QED
    BY <1>1, <2>1, <2>2, <2>3, <2>4, OneMoves, StoreStays
<1>3. CASE Supersede(r)
  <2>1. PICK q \in RequestState :
              /\ request' = [request EXCEPT ![r] = q]
              /\ q.pc = IF request[r].next.display = None THEN "done" ELSE "insert"
              /\ q.pc = "insert" => q.person = request[r].person /\ q.next = request[r].next
    BY <1>1, <1>3, SupersedeIs
  <2> DEFINE p == request[r].person
             new == Retired(names[p], request[r].reason)
  <2>2. p \in people /\ UNCHANGED <<people, address, history>> /\ names' = [names EXCEPT ![p] = new]
    BY <1>1, <1>3 DEF Supersede, Standing, OfPerson
  <2>3. Standing(q, people)
    BY <2>1, <2>2 DEF Standing, OfPerson
  <2>4. request[r].reason \in {"corrected", "changed"} /\ request[r].reason # None /\ names[p] \in Seq(Row)
    BY <1>1, <2>2, StateIs, NoneIsNoValue
  <2>5. /\ new \in Seq(Row) /\ Len(new) = Len(names[p])
        /\ \A i \in 1..Len(names[p]) :
              /\ new[i].parts = names[p][i].parts /\ ~new[i].live
              /\ ~names[p][i].live => new[i] = names[p][i]
              /\ names[p][i].live => new[i].reason = request[r].reason
    BY <2>4, RetiredIs
  <2> HIDE DEF new, p
  <2>6. \A i \in 1..Len(new) : new[i].parts.display # None /\ new[i].live = (new[i].reason = None)
    <3> SUFFICES ASSUME NEW i \in 1..Len(new)
                 PROVE  new[i].parts.display # None /\ new[i].live = (new[i].reason = None)
      OBVIOUS
    <3>1. new[i] \in Row /\ names[p][i] \in Row /\ i \in 1..Len(names[p])
      BY <2>4, <2>5
    <3>2. names[p][i].parts.display # None /\ names[p][i].live = (names[p][i].reason = None)
      BY <1>1, <2>2, <3>1 DEF Store
    <3>3. new[i].live \in BOOLEAN /\ names[p][i].live \in BOOLEAN
      BY <3>1 DEF Row
    <3> QED
      BY <2>4, <2>5, <3>1, <3>2, <3>3
  <2>7. Store'
    BY <1>1, <2>2, <2>5, <2>6 DEF Store, history
  <2> QED
    BY <1>1, <2>1, <2>2, <2>3, <2>7, OneMoves
<1>4. CASE Insert(r)
  <2> DEFINE p == request[r].person
             new == Append(names[p], [parts |-> request[r].next, live |-> TRUE, reason |-> None])
  <2>1. /\ p \in people /\ UNCHANGED <<people, address, history>> /\ names' = [names EXCEPT ![p] = new]
        /\ request' = [request EXCEPT ![r] = Over("done")] /\ request[r].next.display # None
    BY <1>1, <1>4 DEF Insert, Standing, OfPerson
  <2>2. names[p] \in Seq(Row) /\ request[r].next \in Parts
    BY <1>1, <2>1, StateIs
  <2>3. /\ new \in Seq(Row) /\ Len(new) = Len(names[p]) + 1 /\ Len(names[p]) \in Nat
        /\ \A i \in 1..Len(names[p]) : new[i] = names[p][i]
        /\ new[Len(names[p]) + 1].parts = request[r].next /\ new[Len(names[p]) + 1].live = TRUE
        /\ new[Len(names[p]) + 1].reason = None
    BY <2>1, <2>2, AppendedIs
  <2> HIDE DEF new, p
  <2>4. \A i \in 1..Len(new) : new[i].parts.display # None /\ new[i].live = (new[i].reason = None)
    <3> SUFFICES ASSUME NEW i \in 1..Len(new)
                 PROVE  new[i].parts.display # None /\ new[i].live = (new[i].reason = None)
      OBVIOUS
    <3>1. CASE i = Len(names[p]) + 1
      BY <2>1, <2>3, <3>1
    <3>2. CASE i # Len(names[p]) + 1
      <4>1. i \in 1..Len(names[p]) /\ new[i] = names[p][i]
        BY <2>3, <3>2
      <4> QED
        BY <1>1, <2>1, <4>1 DEF Store
    <3> QED
      BY <3>1, <3>2
  <2>5. Store'
    BY <1>1, <2>1, <2>3, <2>4 DEF Store, history
  <2> QED
    BY <1>1, <2>1, <2>5, OneMoves, OverIs
<1>5. CASE InsertConflicts(r)
  BY <1>1, <1>5, OverIs, OneMoves, StoreStays DEF InsertConflicts, history
<1>6. CASE Stop(r)
  <2>1. request[r].pc = "insert" => request[r].person \in Person
    BY <1>1 DEF Standing, OfPerson
  <2> QED
    BY <1>1, <1>6, <2>1, OverIs, OneMoves, StoreStays DEF Stop
<1> QED
  BY <1>2, <1>3, <1>4, <1>5, <1>6 DEF WriteName

\* The rows of a name are those there were, but for the two statements of a write.
LEMMA OnlyTwoWrite ==
    ASSUME NEW r \in Request,
           \/ \E a \in Address, display \in Maybe(Text) : AskInvite(r, a, display)
           \/ \E p \in people, a \in Maybe(Address), q \in Patches, reason \in Reasons :
                 AskEdit(r, p, a, q, reason)
           \/ Invite(r) \/ Edit(r) \/ WriteName(r) \/ Stop(r)
    PROVE  Supersede(r) \/ Insert(r) \/ names' = names
<1>1. CASE \E a \in Address, display \in Maybe(Text) : AskInvite(r, a, display)
  BY <1>1 DEF AskInvite
<1>2. CASE \E p \in people, a \in Maybe(Address), q \in Patches, reason \in Reasons :
                 AskEdit(r, p, a, q, reason)
  BY <1>2 DEF AskEdit
<1>3. CASE Invite(r)
  BY <1>3 DEF Invite, Lookup, InviteKnown, Create, CreateConflicts
<1>4. CASE Edit(r)
  BY <1>4 DEF Edit, Resolve, SetAddress, AddressConflicts
<1>5. CASE WriteName(r)
  BY <1>5 DEF WriteName, ReadCurrent, InsertConflicts
<1>6. CASE Stop(r)
  BY <1>6 DEF Stop
<1> QED
  BY <1>1, <1>2, <1>3, <1>4, <1>5, <1>6

\* The current row stays the last.
LEMMA LastStays ==
    ASSUME Base, NEW r \in Request, Supersede(r) \/ Insert(r) \/ names' = names
    PROVE  LastIsLive'
<1>1. names \in [Person -> Seq(Row)] /\ request[r] \in RequestState /\ people \subseteq Person
      /\ Standing(request[r], people)
  BY DEF Base, TypeInv, TypeOK, Requests
<1> DEFINE p == request[r].person
<1>2. CASE names' = names
  BY <1>2 DEF Base, LastIsLive, Live
<1>3. CASE Supersede(r)
  <2>1. p \in Person /\ names' = [names EXCEPT ![p] = Retired(names[p], request[r].reason)]
    BY <1>1, <1>3 DEF Supersede, Standing, OfPerson
  <2>2. names[p] \in Seq(Row) /\ request[r].reason \in {"corrected", "changed"}
    BY <1>1, <2>1, StateIs
  <2>3. \A i \in 1..Len(names'[p]) : ~names'[p][i].live
    BY <1>1, <2>1, <2>2, RetiredIs
  <2>4. \A q \in Person \ {p} : names'[q] = names[q]
    BY <1>1, <2>1
  <2> HIDE DEF p
  <2>5. ASSUME NEW q \in Person, NEW i \in Live(q)' PROVE i = Len(names'[q])
    <3>1. i \in 1..Len(names'[q]) /\ names'[q][i].live
      BY <2>5 DEF Live
    <3> QED
      BY <2>3, <2>4, <3>1 DEF Base, LastIsLive, Live
  <2> QED
    BY <2>5 DEF LastIsLive
<1>4. CASE Insert(r)
  <2> DEFINE new == Append(names[p], [parts |-> request[r].next, live |-> TRUE, reason |-> None])
  <2>1. /\ p \in Person /\ names' = [names EXCEPT ![p] = new] /\ Live(p) = {}
        /\ request[r].next.display # None
    BY <1>1, <1>4 DEF Insert, NameConflict, Standing, OfPerson
  <2>2. names[p] \in Seq(Row) /\ request[r].next \in Parts
    BY <1>1, <2>1, StateIs
  <2>3. /\ Len(new) = Len(names[p]) + 1 /\ Len(names[p]) \in Nat
        /\ \A i \in 1..Len(names[p]) : new[i] = names[p][i]
    BY <2>1, <2>2, AppendedIs
  <2>4. names'[p] = new /\ \A q \in Person \ {p} : names'[q] = names[q]
    BY <1>1, <2>1
  <2> HIDE DEF new, p
  <2>5. \A i \in 1..Len(names[p]) : ~names[p][i].live
    BY <2>1 DEF Live
  <2>6. ASSUME NEW q \in Person, NEW i \in Live(q)' PROVE i = Len(names'[q])
    <3>1. i \in 1..Len(names'[q]) /\ names'[q][i].live
      BY <2>6 DEF Live
    <3>2. CASE q = p
      BY <2>3, <2>4, <2>5, <3>1, <3>2
    <3>3. CASE q # p
      BY <2>4, <3>1, <3>3 DEF Base, LastIsLive, Live
    <3> QED
      BY <3>2, <3>3
  <2> QED
    BY <2>6 DEF LastIsLive
<1> QED
  BY <1>2, <1>3, <1>4

\* Both are kept by every step.
LEMMA StepBase == Base /\ [Next]_vars => Base'
<1> SUFFICES ASSUME Base, [Next]_vars PROVE Base'
  OBVIOUS
<1>1. CASE UNCHANGED vars
  BY <1>1 DEF vars, history, Base, TypeInv, TypeOK, Requests, LastIsLive, Live
<1>2. CASE Next
  <2>1. PICK r \in Request :
           \/ \E a \in Address, display \in Maybe(Text) : AskInvite(r, a, display)
           \/ \E p \in people, a \in Maybe(Address), q \in Patches, reason \in Reasons :
                 AskEdit(r, p, a, q, reason)
           \/ Invite(r) \/ Edit(r) \/ WriteName(r) \/ Stop(r)
    BY <1>2, Zenon DEF Next
  <2>2. TypeInv'
    BY <2>1, InviteTypes, EditTypes, NameTypes DEF Base
  <2>3. LastIsLive'
    BY <2>1, OnlyTwoWrite, LastStays
  <2> QED
    BY <2>2, <2>3 DEF Base
<1> QED
  BY <1>1, <1>2

\* At first there are no names.
LEMMA InitBase == Init => Base
<1> SUFFICES ASSUME Init PROVE Base
  OBVIOUS
<1>1. \A p \in Person : Live(p) = {}
  BY DEF Init, Live
<1> QED
  BY <1>1, InitTypes DEF Base, LastIsLive

\* Persons, addresses, rows and requests keep their shapes, for any number of
\* requests that overlap and stop anywhere: who is not there has neither address
\* nor name, and a row that is current was given no reason for its end.
THEOREM TypeCorrect == Spec => []TypeOK
<1>1. Base => TypeOK
  BY DEF Base, TypeInv
<1> QED
  BY <1>1, InitBase, StepBase, PTL DEF Spec
-----------------------------------------------------------------------------
(* Addresses.                                                               *)

\* The two indexes are of one statement: an address that is written is free.
LEMMA StepAddresses == Base /\ AddressesDiffer /\ [Next]_vars => AddressesDiffer'
<1> SUFFICES ASSUME Base, AddressesDiffer, [Next]_vars PROVE AddressesDiffer'
  OBVIOUS
<1>1. CASE UNCHANGED <<people, address>>
  BY <1>1 DEF AddressesDiffer
<1>2. ASSUME NEW r \in Request, Create(r) \/ SetAddress(r) PROVE AddressesDiffer'
  <2> DEFINE p == IF Create(r) THEN r ELSE request[r].person
             a == request[r].address
  <2>1. /\ people' = people \cup {p} /\ address' = [address EXCEPT ![p] = a]
        /\ Holders(a) \subseteq {p} /\ p \in Person
    <3>1. CASE Create(r)
      BY <3>1 DEF Create, AddressTaken, Person
    <3>2. CASE ~Create(r)
      <4>1. SetAddress(r)
        BY <1>2, <3>2
      <4>2. request[r].person \in people /\ people \subseteq Person
        BY <4>1 DEF SetAddress, Base, TypeInv, TypeOK, Requests, Standing, OfPerson
      <4> QED
        BY <3>2, <4>1, <4>2 DEF SetAddress
    <3> QED
      BY <3>1, <3>2
  <2>2. address'[p] = a /\ \A q \in Person \ {p} : address'[q] = address[q]
    BY <2>1 DEF Base, TypeInv, TypeOK
  <2> HIDE DEF p, a
  <2>3. \A q \in people \ {p} : address[q] # a
    BY <2>1 DEF Holders
  <2>4. people \subseteq Person
    BY DEF Base, TypeInv, TypeOK
  <2> QED
    BY <2>1, <2>2, <2>3, <2>4 DEF AddressesDiffer
<1>3. CASE Next
  <2>1. PICK r \in Request :
           \/ \E a \in Address, display \in Maybe(Text) : AskInvite(r, a, display)
           \/ \E p \in people, a \in Maybe(Address), q \in Patches, reason \in Reasons :
                 AskEdit(r, p, a, q, reason)
           \/ Invite(r) \/ Edit(r) \/ WriteName(r) \/ Stop(r)
    BY <1>3, Zenon DEF Next
  <2>2. CASE \E a \in Address, display \in Maybe(Text) : AskInvite(r, a, display)
    BY <1>1, <2>2 DEF AskInvite
  <2>3. CASE \E p \in people, a \in Maybe(Address), q \in Patches, reason \in Reasons :
                 AskEdit(r, p, a, q, reason)
    BY <1>1, <2>3 DEF AskEdit
  <2>4. CASE Invite(r)
    BY <1>1, <1>2, <2>4 DEF Invite, Lookup, InviteKnown, CreateConflicts
  <2>5. CASE Edit(r)
    BY <1>1, <1>2, <2>5 DEF Edit, Resolve, AddressConflicts
  <2>6. CASE WriteName(r) \/ Stop(r)
    BY <1>1, <2>6 DEF WriteName, ReadCurrent, Supersede, Insert, InsertConflicts, Stop
  <2> QED
    BY <2>1, <2>2, <2>3, <2>4, <2>5, <2>6
<1> QED
  BY <1>1, <1>3 DEF vars

\* However invites and edits of addresses overlap, an address is one person's.
THEOREM AddressesAreOnes == Spec => []OnePersonPerAddress
<1>1. Init => AddressesDiffer
  BY DEF Init, AddressesDiffer
<1>2. AddressesDiffer => OnePersonPerAddress
  <2> SUFFICES ASSUME AddressesDiffer, NEW a \in Address PROVE Cardinality(Holders(a)) <= 1
    BY DEF OnePersonPerAddress
  <2>1. CASE Holders(a) = {}
    BY <2>1, FS_EmptySet
  <2>2. CASE Holders(a) # {}
    <3>1. PICK p \in Holders(a) : TRUE
      BY <2>2
    <3>2. Holders(a) = {p}
      BY <3>1 DEF Holders, AddressesDiffer
    <3> QED
      BY <3>2, FS_Singleton
  <2> QED
    BY <2>1, <2>2
<1> QED
  BY <1>1, <1>2, InitBase, StepBase, StepAddresses, PTL DEF Spec

-----------------------------------------------------------------------------
(* Names.                                                                   *)

\* A step of a request that writes no name and is about to write none: a write
\* that it ends has been overtaken, or is remembered.
Quiet(r) ==
    /\ names' = names
    /\ \A q \in Request \ {r} : request'[q] = request[q]
    /\ request'[r].pc \notin {"supersede", "insert"}
    /\ raced \subseteq raced' /\ cleared \subseteq cleared'
    /\ request[r].pc = "insert" =>
          Live(request[r].person) # {} \/ request[r].person \in cleared'

\* Every other step is quiet.
LEMMA StepIs ==
    ASSUME Base, Next
    PROVE  \E r \in Request : ReadCurrent(r) \/ Supersede(r) \/ Insert(r) \/ Quiet(r)
<1>1. PICK r \in Request :
         \/ \E a \in Address, display \in Maybe(Text) : AskInvite(r, a, display)
         \/ \E p \in people, a \in Maybe(Address), q \in Patches, reason \in Reasons :
               AskEdit(r, p, a, q, reason)
         \/ Invite(r) \/ Edit(r) \/ WriteName(r) \/ Stop(r)
  BY Zenon DEF Next
<1>2. request \in [Request -> RequestState] /\ request[r] \in RequestState
  BY DEF Base, TypeInv, TypeOK
<1>3. ASSUME NEW q \in RequestState, request' = [request EXCEPT ![r] = q],
             q.pc \notin {"supersede", "insert"}, request[r].pc # "insert",
             UNCHANGED <<names, history>>
      PROVE  Quiet(r)
  BY <1>2, <1>3 DEF Quiet, history
<1>4. CASE \E a \in Address, display \in Maybe(Text) : AskInvite(r, a, display)
  BY <1>2, <1>4 DEF AskInvite, Quiet, history, Idle, RequestState
<1>5. CASE \E p \in people, a \in Maybe(Address), q \in Patches, reason \in Reasons :
               AskEdit(r, p, a, q, reason)
  BY <1>2, <1>5 DEF AskEdit, Quiet, history, Idle, RequestState
<1>6. CASE Lookup(r)
  <2>1. request[r].pc = "lookup" /\ UNCHANGED <<names, history>>
    BY <1>6 DEF Lookup
  <2>2. CASE request' = [request EXCEPT ![r].pc = "create"]
    <3> DEFINE q == [request[r] EXCEPT !.pc = "create"]
    <3>1. q \in RequestState /\ q.pc = "create" /\ request' = [request EXCEPT ![r] = q]
      BY <1>2, <2>2 DEF RequestState
    <3> HIDE DEF q
    <3> QED
      BY <1>3, <2>1, <3>1
  <2>3. CASE \E p \in Holders(request[r].address) :
                request' = [request EXCEPT ![r] =
                    [request[r] EXCEPT !.pc = "invite", !.person = p, !.named = Name(p) # NoParts]]
    <3>1. PICK p \in Holders(request[r].address) :
                request' = [request EXCEPT ![r] =
                    [request[r] EXCEPT !.pc = "invite", !.person = p, !.named = Name(p) # NoParts]]
      BY <2>3
    <3> DEFINE named == Name(p) # NoParts
               q == [request[r] EXCEPT !.pc = "invite", !.person = p, !.named = named]
    <3>2. p \in Person /\ named \in BOOLEAN
      BY DEF Holders, Base, TypeInv, TypeOK
    <3>3. request' = [request EXCEPT ![r] = q]
      BY <3>1
    <3> HIDE DEF named
    <3>4. q \in RequestState /\ q.pc = "invite"
      BY <1>2, <3>2 DEF RequestState, Maybe
    <3> HIDE DEF q
    <3> QED
      BY <1>3, <2>1, <3>3, <3>4
  <2> QED
    BY <1>6, <2>2, <2>3 DEF Lookup
<1>7. CASE InviteKnown(r)
  <2> DEFINE pc == AfterInvite(r, request[r].named)
             q == Goes(request[r], pc)
  <2>1. pc \in {"current", "done"}
    BY DEF AfterInvite
  <2>2. /\ request[r].pc = "invite" /\ request' = [request EXCEPT ![r] = q]
        /\ UNCHANGED <<names, history>>
    BY <1>2, <1>7 DEF InviteKnown
  <2> HIDE DEF pc
  <2>3. q \in RequestState /\ q.pc = pc
    BY <1>2, <2>1, GoesIs
  <2> QED
    BY <1>3, <2>1, <2>2, <2>3
<1>8. CASE Create(r)
  <2> DEFINE pc == AfterInvite(r, FALSE)
             s == [request[r] EXCEPT !.person = r]
             q == Goes(s, pc)
  <2>1. pc \in {"current", "done"} /\ s \in RequestState
    BY <1>2 DEF AfterInvite, RequestState, Person, Maybe
  <2>2. /\ request[r].pc = "create" /\ request' = [request EXCEPT ![r] = q]
        /\ UNCHANGED <<names, history>>
    BY <1>8 DEF Create
  <2> HIDE DEF pc, s
  <2>3. q \in RequestState /\ q.pc = pc
    BY <2>1, GoesIs
  <2> QED
    BY <1>3, <2>1, <2>2, <2>3
<1>9. CASE CreateConflicts(r)
  BY <1>2, <1>3, <1>9, OverIs DEF CreateConflicts
<1>10. CASE Resolve(r)
  <2> DEFINE pc == IF request[r].address # None THEN "address" ELSE "current"
             q == [request[r] EXCEPT !.pc = pc]
  <2>1. q \in RequestState /\ q.pc \in {"address", "current"}
    BY <1>2 DEF RequestState
  <2>2. /\ request[r].pc = "edit" /\ request' = [request EXCEPT ![r] = q]
        /\ UNCHANGED <<names, history>>
    BY <1>2, <1>10 DEF Resolve
  <2> HIDE DEF q
  <2> QED
    BY <1>3, <2>1, <2>2
<1>11. CASE SetAddress(r)
  <2> DEFINE pc == IF request[r].patch.has # {} THEN "current" ELSE "done"
             q == Goes(request[r], pc)
  <2>1. pc \in {"current", "done"}
    OBVIOUS
  <2>2. /\ request[r].pc = "address" /\ request' = [request EXCEPT ![r] = q]
        /\ UNCHANGED <<names, history>>
    BY <1>2, <1>11 DEF SetAddress
  <2> HIDE DEF pc
  <2>3. q \in RequestState /\ q.pc = pc
    BY <1>2, <2>1, GoesIs
  <2> QED
    BY <1>3, <2>1, <2>2, <2>3
<1>12. CASE AddressConflicts(r)
  BY <1>2, <1>3, <1>12, OverIs DEF AddressConflicts
<1>13. CASE InsertConflicts(r)
  <2>1. /\ request' = [request EXCEPT ![r] = Over("failed")] /\ UNCHANGED <<names, history>>
        /\ Live(request[r].person) # {}
    BY <1>13 DEF InsertConflicts, NameConflict
  <2>2. request'[r].pc = "failed"
    BY <1>2, <2>1, OverIs
  <2> QED
    BY <1>2, <2>1, <2>2 DEF Quiet, history
<1>14. CASE Stop(r)
  <2>1. /\ request' = [request EXCEPT ![r] = Over("gone")] /\ UNCHANGED <<names, raced>>
        /\ cleared' = IF request[r].pc = "insert" THEN cleared \cup {request[r].person} ELSE cleared
    BY <1>14 DEF Stop
  <2>2. request'[r].pc = "gone"
    BY <1>2, <2>1, OverIs
  <2> QED
    BY <1>2, <2>1, <2>2 DEF Quiet
<1> QED
  BY <1>1, <1>4, <1>5, <1>6, <1>7, <1>8, <1>9, <1>10, <1>11, <1>12, <1>13, <1>14
     DEF Invite, Edit, WriteName

\* What a name still owes is remembered by its write, until somebody writes it.
LEMMA StepNames == Base /\ Base' /\ RemovalsAreAsked /\ NamesAreOwed /\ [Next]_vars =>
                       RemovalsAreAsked' /\ NamesAreOwed'
<1> SUFFICES ASSUME Base, Base', RemovalsAreAsked, NamesAreOwed, [Next]_vars
             PROVE  RemovalsAreAsked' /\ NamesAreOwed'
  OBVIOUS
<1>1. CASE UNCHANGED vars
  BY <1>1 DEF vars, history, RemovalsAreAsked, NamesAreOwed, Live, Writing
<1>2. CASE Next
  <2>1. PICK r \in Request : ReadCurrent(r) \/ Supersede(r) \/ Insert(r) \/ Quiet(r)
    BY <1>2, StepIs
  <2> DEFINE p == request[r].person
  <2>2. /\ request \in [Request -> RequestState] /\ request[r] \in RequestState
        /\ Standing(request[r], people) /\ people \subseteq Person /\ people' \subseteq Person
        /\ names \in [Person -> Seq(Row)] /\ TypeInv /\ LastIsLive
        /\ \A q \in Person \ people : names[q] = <<>>
    BY DEF Base, TypeInv, TypeOK, Requests
  <2>3. ASSUME names' = names, cleared \subseteq cleared',
               \A q \in Request \ {r} : request'[q] = request[q],
               request[r].pc = "insert" => Live(p) # {} \/ p \in cleared'
        PROVE  NamesAreOwed'
    <3> SUFFICES ASSUME NEW n \in people', names'[n] # <<>>, n \notin cleared'
                 PROVE  \/ (Live(n) # {})'
                        \/ (\E q \in Request : Writing(q, n) /\ request[q].pc = "insert")'
      BY DEF NamesAreOwed
    <3>1. n \in people /\ names[n] # <<>> /\ n \notin cleared
      BY <2>2, <2>3
    <3>2. Live(n)' = Live(n)
      BY <2>3 DEF Live
    <3>3. CASE Live(n) # {}
      BY <3>2, <3>3
    <3>4. CASE Live(n) = {}
      <4>1. PICK q \in Request : Writing(q, n) /\ request[q].pc = "insert"
        BY <3>1, <3>4 DEF NamesAreOwed
      <4>2. q # r
        BY <2>3, <3>4, <4>1 DEF Writing
      <4> QED
        BY <2>3, <4>1, <4>2 DEF Writing
    <3> QED
      BY <3>3, <3>4
  <2>4. ASSUME cleared \subseteq cleared', \A q \in Request \ {r} : request'[q] = request[q],
               request'[r].pc = "supersede" /\ request'[r].next.display = None =>
                   request'[r].person \in cleared'
        PROVE  RemovalsAreAsked'
    BY <2>4 DEF RemovalsAreAsked
  <2>5. CASE Quiet(r)
    BY <2>3, <2>4, <2>5 DEF Quiet
  <2>6. CASE ReadCurrent(r)
    <3>1. PICK q \in RequestState, next \in Parts, pc \in {"done", "refused", "supersede", "insert"} :
              /\ request' = [request EXCEPT ![r] = q] /\ q.pc = pc
              /\ pc \in {"supersede", "insert"} => q.person = p /\ q.next = next
              /\ cleared' = IF pc = "supersede" /\ next.display = None THEN cleared \cup {p} ELSE cleared
      BY <2>2, <2>6, ReadIs
    <3>2. names' = names /\ request[r].pc = "current"
      BY <2>6 DEF ReadCurrent
    <3>3. request'[r] = q /\ \A s \in Request \ {r} : request'[s] = request[s]
      BY <2>2, <3>1
    <3> QED
      BY <2>3, <2>4, <3>1, <3>2, <3>3
  <2>7. CASE Supersede(r)
    <3>1. PICK q \in RequestState :
              /\ request' = [request EXCEPT ![r] = q]
              /\ q.pc = IF request[r].next.display = None THEN "done" ELSE "insert"
              /\ q.pc = "insert" => q.person = p
      BY <2>2, <2>7, SupersedeIs
    <3>2. /\ request'[r] = q /\ \A s \in Request \ {r} : request'[s] = request[s]
      BY <2>2, <3>1
    <3>3. /\ names' = [names EXCEPT ![p] = Retired(names[p], request[r].reason)]
          /\ UNCHANGED <<people, cleared>> /\ request[r].pc = "supersede"
      BY <2>7 DEF Supersede, history
    <3>4. RemovalsAreAsked'
      BY <2>4, <3>1, <3>2, <3>3
    <3>5. ASSUME NEW n \in people', names'[n] # <<>>, n \notin cleared'
          PROVE  \/ (Live(n) # {})'
                 \/ (\E s \in Request : Writing(s, n) /\ request[s].pc = "insert")'
      <4>1. CASE n = p
        <5>1. request[r].next.display # None
          BY <3>3, <3>5, <4>1 DEF RemovalsAreAsked
        <5> QED
          BY <3>1, <3>2, <4>1, <5>1 DEF Writing
      <4>2. CASE n # p
        <5>1. n \in people /\ names'[n] = names[n] /\ Live(n)' = Live(n)
          BY <2>2, <3>3, <4>2 DEF Live
        <5>2. CASE Live(n) # {}
          BY <5>1, <5>2
        <5>3. CASE Live(n) = {}
          <6>1. PICK s \in Request : Writing(s, n) /\ request[s].pc = "insert"
            BY <3>3, <3>5, <5>1, <5>3 DEF NamesAreOwed
          <6>2. s # r
            BY <4>2, <6>1 DEF Writing
          <6> QED
            BY <3>2, <6>1, <6>2 DEF Writing
        <5> QED
          BY <5>2, <5>3
      <4> QED
        BY <4>1, <4>2
    <3> QED
      BY <3>4, <3>5 DEF NamesAreOwed
  <2>8. CASE Insert(r)
    <3> DEFINE new == Append(names[p], [parts |-> request[r].next, live |-> TRUE, reason |-> None])
    <3>1. /\ request' = [request EXCEPT ![r] = Over("done")] /\ names' = [names EXCEPT ![p] = new]
          /\ UNCHANGED <<people, cleared>> /\ p \in people /\ request[r].next.display # None
      BY <2>2, <2>8 DEF Insert, history, Standing, OfPerson
    <3>2. request'[r].pc = "done" /\ \A s \in Request \ {r} : request'[s] = request[s]
      BY <2>2, <3>1, OverIs
    <3>3. RemovalsAreAsked'
      BY <2>4, <3>1, <3>2
    <3>4. names[p] \in Seq(Row) /\ request[r].next \in Parts
      BY <2>2, <3>1, StateIs
    <3>5. Len(new) = Len(names[p]) + 1 /\ Len(names[p]) \in Nat /\ new[Len(names[p]) + 1].live = TRUE
      BY <3>1, <3>4, AppendedIs
    <3>6. names'[p] = new
      BY <2>2, <3>1
    <3> HIDE DEF new
    <3>7. ASSUME NEW n \in people', names'[n] # <<>>, n \notin cleared'
          PROVE  \/ (Live(n) # {})'
                 \/ (\E s \in Request : Writing(s, n) /\ request[s].pc = "insert")'
      <4>1. CASE n = p
        <5>1. Len(names'[n]) = Len(names[p]) + 1 /\ names'[n][Len(names[p]) + 1].live = TRUE
          BY <3>5, <3>6, <4>1
        <5>2. Len(names'[n]) \in 1..Len(names'[n]) /\ names'[n][Len(names'[n])].live
          BY <3>5, <5>1
        <5> QED
          BY <5>2 DEF Live
      <4>2. CASE n # p
        <5>1. n \in people /\ names'[n] = names[n] /\ Live(n)' = Live(n)
          BY <2>2, <3>1, <4>2 DEF Live
        <5>2. CASE Live(n) # {}
          BY <5>1, <5>2
        <5>3. CASE Live(n) = {}
          <6>1. PICK s \in Request : Writing(s, n) /\ request[s].pc = "insert"
            BY <3>1, <3>7, <5>1, <5>3 DEF NamesAreOwed
          <6>2. s # r
            BY <4>2, <6>1 DEF Writing
          <6> QED
            BY <3>2, <6>1, <6>2 DEF Writing
        <5> QED
          BY <5>2, <5>3
      <4> QED
        BY <4>1, <4>2
    <3> QED
      BY <3>3, <3>7 DEF NamesAreOwed
  <2> QED
    BY <2>1, <2>5, <2>6, <2>7, <2>8
<1> QED
  BY <1>1, <1>2 DEF vars

\* However the writes of a name overlap, and whichever of them fail, a person who
\* had a name has one, or a write under way that owes it, unless they were asked to
\* have none or a write stopped between its two statements.
THEOREM NamesSurvive == Spec => []NameSurvives
<1>1. Init => RemovalsAreAsked /\ NamesAreOwed
  BY DEF Init, RemovalsAreAsked, NamesAreOwed, Idle
<1>2. Base /\ NamesAreOwed => NameSurvives
  <2> SUFFICES ASSUME Base, NamesAreOwed, NEW p \in people, names[p] # <<>>, p \notin cleared
               PROVE  \/ Cardinality(Live(p)) = 1
                      \/ \E r \in Request : Writing(r, p) /\ request[r].pc = "insert"
    BY DEF NameSurvives
  <2>1. CASE Live(p) # {}
    <3>1. p \in Person /\ Live(p) = {Len(names[p])}
      BY <2>1 DEF Base, LastIsLive, TypeInv, TypeOK
    <3> QED
      BY <3>1, FS_Singleton
  <2>2. CASE Live(p) = {}
    BY <2>2 DEF NamesAreOwed
  <2> QED
    BY <2>1, <2>2
<1> QED
  BY <1>1, <1>2, InitBase, StepBase, StepNames, PTL DEF Spec

\* No write of a name takes a row from its history, changes what it says or gives
\* another reason for its end.
THEOREM HistoryStays == Spec => HistoryIsKept
<1>1. ASSUME Base, Next, NEW p \in Person, NEW i \in 1..Len(names[p])
      PROVE  /\ i <= Len(names'[p])
             /\ names'[p][i].parts = names[p][i].parts
             /\ ~names[p][i].live => names'[p][i] = names[p][i]
  <2>1. PICK r \in Request : ReadCurrent(r) \/ Supersede(r) \/ Insert(r) \/ Quiet(r)
    BY <1>1, StepIs
  <2>2. /\ request[r] \in RequestState /\ names \in [Person -> Seq(Row)]
        /\ Standing(request[r], people) /\ people \subseteq Person
    BY <1>1 DEF Base, TypeInv, TypeOK, Requests
  <2>3. CASE names'[p] = names[p]
    BY <2>2, <2>3
  <2>4. CASE Supersede(r) /\ p = request[r].person
    <3>1. names'[p] = Retired(names[p], request[r].reason) /\ names[p] \in Seq(Row)
          /\ request[r].reason \in {"corrected", "changed"}
      BY <2>2, <2>4, StateIs DEF Supersede
    <3> QED
      BY <3>1, RetiredIs
  <2>5. CASE Insert(r) /\ p = request[r].person
    <3>1. /\ names'[p] = Append(names[p], [parts |-> request[r].next, live |-> TRUE, reason |-> None])
          /\ names[p] \in Seq(Row) /\ request[r].next \in Parts /\ request[r].next.display # None
      BY <2>2, <2>5, StateIs DEF Insert, Standing
    <3>2. i <= Len(names'[p]) /\ names'[p][i] = names[p][i]
      BY <3>1, AppendedIs
    <3> QED
      BY <3>2
  <2> QED
    BY <2>1, <2>2, <2>3, <2>4, <2>5 DEF ReadCurrent, Supersede, Insert, Quiet
<1>2. Base /\ [Next]_vars =>
          [\A p \in Person : \A i \in 1..Len(names[p]) :
              /\ i <= Len(names'[p])
              /\ names'[p][i].parts = names[p][i].parts
              /\ ~names[p][i].live => names'[p][i] = names[p][i]]_vars
  BY <1>1
<1> QED
  BY <1>2, InitBase, StepBase, PTL DEF Spec, HistoryIsKept

\* A write that no other overlapped is over the row it read.
LEMMA StepPatches == Base /\ Base' /\ WritersAreAlone /\ WritesTheLast /\ [Next]_vars =>
                         WritersAreAlone' /\ WritesTheLast'
<1> SUFFICES ASSUME Base, Base', WritersAreAlone, WritesTheLast, [Next]_vars
             PROVE  WritersAreAlone' /\ WritesTheLast'
  OBVIOUS
<1>1. CASE UNCHANGED vars
  BY <1>1 DEF vars, history, WritersAreAlone, WritesTheLast, Writing
<1>2. CASE Next
  <2>1. PICK r \in Request : ReadCurrent(r) \/ Supersede(r) \/ Insert(r) \/ Quiet(r)
    BY <1>2, StepIs
  <2> DEFINE Holds(q, rows) ==
               /\ q.pc = "supersede" => q.current # NoParts
               /\ q.current # NoParts => q.current = Last(rows) /\ q.next # q.current
  <2>2. /\ request \in [Request -> RequestState] /\ request[r] \in RequestState
        /\ Standing(request[r], people) /\ people \subseteq Person
        /\ names \in [Person -> Seq(Row)] /\ TypeInv /\ LastIsLive /\ TypeOK
    BY DEF Base, TypeInv, TypeOK, Requests
  \* What a step of r has to show: alone if it writes, over the last row, and
  \* changing no row another writes.
  <2>3. ASSUME raced \subseteq raced', \A q \in Request \ {r} : request'[q] = request[q],
               request'[r].pc \in {"supersede", "insert"} /\ request'[r].person \notin raced' =>
                  /\ \A q \in Request \ {r} : ~Writing(q, request'[r].person)
                  /\ Holds(request'[r], names'[request'[r].person]),
               \A p \in Person : names'[p] = names[p] \/ Writing(r, p)
        PROVE  WritersAreAlone' /\ WritesTheLast'
    <3>1. ASSUME NEW q \in Request, NEW s \in Request, NEW p \in Person,
                 Writing(q, p)', Writing(s, p)', p \notin raced'
          PROVE  q = s
      BY <2>3, <3>1 DEF Writing, WritersAreAlone
    <3>2. ASSUME NEW q \in Request, NEW p \in Person, Writing(q, p)', p \notin raced'
          PROVE  Holds(request'[q], names'[p])
      <4>1. CASE q = r
        BY <2>3, <3>2, <4>1 DEF Writing
      <4>2. CASE q # r
        <5>1. request'[q] = request[q] /\ Writing(q, p) /\ p \notin raced
          BY <2>3, <3>2, <4>2 DEF Writing
        <5>2. names'[p] = names[p]
          BY <2>3, <4>2, <5>1 DEF WritersAreAlone
        <5> QED
          BY <5>1, <5>2 DEF WritesTheLast
      <4> QED
        BY <4>1, <4>2
    <3> QED
      BY <3>1, <3>2 DEF WritersAreAlone, WritesTheLast
  <2>4. CASE Quiet(r)
    BY <2>3, <2>4 DEF Quiet
  <2>5. CASE ReadCurrent(r)
    <3> DEFINE p == request[r].person
    <3>1. PICK q \in RequestState, next \in Parts, pc \in {"done", "refused", "supersede", "insert"} :
              /\ request' = [request EXCEPT ![r] = q] /\ q.pc = pc
              /\ pc = AfterRead(Name(p), next)
              /\ pc \in {"supersede", "insert"} => q.person = p /\ q.next = next /\ q.current = Name(p)
              /\ raced' = IF \E s \in Request \ {r} : Writing(s, p) THEN raced \cup {p} ELSE raced
      BY <2>2, <2>5, ReadIs
    <3>2. names' = names /\ p \in people
      BY <2>2, <2>5 DEF ReadCurrent, Standing, OfPerson
    <3>3. request'[r] = q /\ \A s \in Request \ {r} : request'[s] = request[s]
      BY <2>2, <3>1
    <3>4. Name(p) # NoParts => Name(p) = Last(names[p])
      BY <2>2, <3>2, NameIsLast
    <3>5. pc \in {"supersede", "insert"} => Holds(q, names[p])
      BY <3>1, <3>4, AfterReadIs
    <3>6. pc \in {"supersede", "insert"} /\ p \notin raced' => \A s \in Request \ {r} : ~Writing(s, p)
      BY <3>1
    <3> HIDE DEF p
    <3> QED
      BY <2>3, <3>1, <3>2, <3>3, <3>5, <3>6
  <2>6. CASE Supersede(r)
    <3> DEFINE p == request[r].person
    <3>1. PICK q \in RequestState :
              /\ request' = [request EXCEPT ![r] = q]
              /\ q.pc \in {"done", "insert"}
              /\ q.pc = "insert" => q.person = p /\ q.next = request[r].next /\ q.current = request[r].current
      BY <2>2, <2>6, SupersedeIs
    <3>2. /\ request'[r] = q /\ \A s \in Request \ {r} : request'[s] = request[s]
      BY <2>2, <3>1
    <3>3. /\ names' = [names EXCEPT ![p] = Retired(names[p], request[r].reason)]
          /\ raced' = raced /\ Writing(r, p) /\ p \in Person
      BY <2>2, <2>6 DEF Supersede, history, Writing, Standing, OfPerson
    <3>4. Last(names'[p]) = Last(names[p])
      <4>1. names[p] \in Seq(Row) /\ request[r].reason \in {"corrected", "changed"}
        BY <2>2, <3>3, StateIs
      <4>2. names'[p] = Retired(names[p], request[r].reason)
        BY <2>2, <3>3
      <4>3. /\ Retired(names[p], request[r].reason) \in Seq(Row)
            /\ Len(Retired(names[p], request[r].reason)) = Len(names[p])
            /\ \A i \in 1..Len(names[p]) :
                  Retired(names[p], request[r].reason)[i].parts = names[p][i].parts
        BY <4>1, RetiredIs
      <4> HIDE DEF p
      <4>4. CASE names[p] = <<>>
        BY <4>1, <4>2, <4>3, <4>4 DEF Last
      <4>5. CASE names[p] # <<>>
        <5>1. Len(names[p]) \in 1..Len(names[p])
          BY <4>1, <4>5
        <5>2. names'[p] # <<>> /\ Len(names'[p]) = Len(names[p])
          BY <4>2, <4>3, <5>1
        <5> QED
          BY <4>2, <4>3, <4>5, <5>1, <5>2 DEF Last
      <4> QED
        BY <4>4, <4>5
    <3>5. p \notin raced => /\ \A s \in Request \ {r} : ~Writing(s, p)
                            /\ Holds(request[r], names[p])
      BY <3>3 DEF WritersAreAlone, WritesTheLast
    <3>6. \A n \in Person : names'[n] = names[n] \/ Writing(r, n)
      BY <2>2, <3>3
    <3> HIDE DEF p
    <3> QED
      BY <2>3, <3>1, <3>2, <3>3, <3>4, <3>5, <3>6
  <2>7. CASE Insert(r)
    <3>1. request' = [request EXCEPT ![r] = Over("done")] /\ raced' = raced /\ request[r].pc = "insert"
      BY <2>7 DEF Insert, history
    <3>2. request'[r].pc = "done" /\ \A s \in Request \ {r} : request'[s] = request[s]
      BY <2>2, <3>1, OverIs
    <3>3. \A n \in Person : names'[n] = names[n] \/ Writing(r, n)
      BY <2>2, <2>7 DEF Insert, Writing
    <3> QED
      BY <2>3, <3>1, <3>2, <3>3
  <2> QED
    BY <2>1, <2>4, <2>5, <2>6, <2>7
<1> QED
  BY <1>1, <1>2 DEF vars

\* A name about to be inserted over an earlier one is a patch of the last row of
\* the history, the one its write read, and says something else, unless writes of
\* the name overlapped.
THEOREM PatchesAreOfTheLast == Spec => []PatchesTheLastName
<1>1. Init => WritersAreAlone /\ WritesTheLast
  BY DEF Init, WritersAreAlone, WritesTheLast, Writing, Idle
<1>2. Base /\ WritesTheLast => PatchesTheLastName
  <2> SUFFICES ASSUME Base, WritesTheLast, NEW r \in Request, request[r].pc = "insert",
                      request[r].person \notin raced, request[r].current # NoParts
               PROVE  /\ Last(names[request[r].person]) = request[r].current
                      /\ request[r].next # Last(names[request[r].person])
    BY DEF PatchesTheLastName, Last
  <2>1. request[r].person \in Person /\ Writing(r, request[r].person)
    BY DEF Base, TypeInv, TypeOK, Requests, Standing, OfPerson, Writing
  <2> QED
    BY <2>1 DEF WritesTheLast
<1> QED
  BY <1>1, <1>2, InitBase, StepBase, StepPatches, PTL DEF Spec

=============================================================================
