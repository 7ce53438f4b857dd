----------------------------- MODULE Reports_proof -----------------------------
(***************************************************************************)
(* What is reported keeps up with what happened: what the record of a      *)
(* message says of its delivery, for any number of messages, events and    *)
(* handlers of the webhook, and what a conversation is told of the         *)
(* client's documents, for any number of documents, turns and instants.    *)
(***************************************************************************)
EXTENDS Delivery, SessionDelta, FiniteSetTheorems, TLAPS

-----------------------------------------------------------------------------
(* The mail to contacts.  The send path writes the record twice and the      *)
(* provider's id comes onto it with the second; an event joins a record by   *)
(* that id.  So where an event is, the send path is behind, unless its       *)
(* second write took effect and threw.                                       *)

\* What a handler of the webhook is about, and that an open is never looked for.
PostStands(r) ==
    request[r].pc # "idle" =>
        /\ request[r].message \in Message /\ request[r].event \in EventType
        /\ request[r].pc # "applied" => request[r].event \in Event

\* How far a send has come shows in its record: the provider's id comes onto it
\* with the send path's last write, unless that was torn.
SendStands(m) ==
    /\ sender[m] = "idle" <=> record[m] = None
    /\ sender[m] = "idle" => m \notin accepted
    /\ sender[m] = "accepted" => m \in answered
    /\ record[m] # None /\ record[m].id => m \in torn \/ sender[m] = "done"

\* An event is only ever on a record that has the id, so behind the send path.
EventsCarryIds == \A m \in Message : Stands(m, Event) => record[m].id

\* What a handler found stays, and what it has applied is recorded.
FoundStays ==
    \A r \in Request :
        /\ request[r].pc = "found" => record[request[r].message] # None /\ record[request[r].message].id
        /\ request[r].pc = "applied" /\ request[r].event \in Event =>
               request[r].message \in torn \/ Stands(request[r].message, Event)

MailTypes ==
    /\ TypeOK
    /\ due \in [Message -> SUBSET EventType]
    /\ \A r \in Request : PostStands(r)
    /\ \A m \in Message : SendStands(m)

MailInv == MailTypes /\ EventsCarryIds /\ FoundStays /\ AcknowledgedIsRecorded

-----------------------------------------------------------------------------
(* A step moves one message's record, or one handler.                       *)

\* A new status leaves the provider's id as it was.
LEMMA StatusIs ==
    ASSUME NEW x \in Record, NEW s \in Status
    PROVE  LET y == [x EXCEPT !.status = s] IN y \in Record /\ y.status = s /\ y.id = x.id
  BY DEF Record

\* A record that is sent has the provider's id.
LEMMA SentIs ==
    ASSUME NEW x \in Record
    PROVE  Sent(x) \in Record /\ Sent(x).status = "sent" /\ Sent(x).id = TRUE
  BY DEF Record, Sent, Status

\* A handler that has applied its event.
LEMMA AppliedIs ==
    ASSUME NEW q \in RequestState
    PROVE  LET y == [q EXCEPT !.pc = "applied"]
           IN  y \in RequestState /\ y.pc = "applied" /\ y.message = q.message /\ y.event = q.event
  BY DEF RequestState

\* What the send path writes of a message that is not torn carries no event, nor did
\* what it wrote over.
LEMMA SendWrites ==
    ASSUME MailTypes, EventsCarryIds, NEW m \in Message,
           sender[m] \in {"idle", "accepted", "refused"}, m \notin torn
    PROVE  ~Stands(m, Event)
  BY DEF MailTypes, EventsCarryIds, SendStands, Stands

\* No message has a record.
LEMMA MailStarts == Init => MailInv
<1> SUFFICES ASSUME Init PROVE MailInv
  OBVIOUS
<1>1. MailTypes
  BY DEF Init, MailTypes, TypeOK, PostStands, SendStands, NoRequest, RequestState
<1> QED
  BY <1>1 DEF Init, MailInv, EventsCarryIds, FoundStays, AcknowledgedIsRecorded, Stands, NoRequest

\* The send path.
LEMMA SendTypes ==
    ASSUME MailTypes, NEW m \in Message,
           \/ Create(m) \/ SendAccepted(m) \/ SendThrows(m)
           \/ MarkSent(m) \/ MarkSentThrows(m) \/ MarkFailed(m) \/ Vanish(m)
    PROVE  MailTypes'
<1>1. /\ record \in [Message -> Record \cup {None}] /\ SendStands(m)
      /\ sender \in [Message -> {"idle", "recorded", "accepted", "refused", "done", "gone"}]
      /\ torn \subseteq accepted /\ accepted \subseteq Message /\ answered \subseteq accepted
      /\ UNCHANGED <<emitted, due, request>>
  BY DEF MailTypes, TypeOK, Create, SendAccepted, SendThrows, MarkSent, MarkSentThrows, MarkFailed,
         Vanish, provider
<1>2. sender[m] # "idle" => record[m] \in Record
  BY <1>1 DEF SendStands
<1>3. /\ record' \in [Message -> Record \cup {None}]
      /\ \A n \in Message \ {m} : record'[n] = record[n] /\ sender'[n] = sender[n]
      /\ sender' \in [Message -> {"idle", "recorded", "accepted", "refused", "done", "gone"}]
      /\ torn' \subseteq accepted' /\ accepted' \subseteq Message /\ answered' \subseteq accepted'
      /\ accepted \subseteq accepted' /\ accepted' \subseteq accepted \cup {m}
      /\ answered \subseteq answered' /\ torn \subseteq torn'
      /\ SendStands(m)'
  <2>1. CASE Create(m)
    <3>1. [status |-> "queued", id |-> FALSE] \in Record
      BY DEF Record, Status
    <3> QED
      BY <1>1, <2>1, <3>1, NoneIsNoRecord DEF Create, provider, SendStands
  <2>2. CASE SendAccepted(m) \/ SendThrows(m) \/ Vanish(m)
    BY <1>1, <2>2 DEF SendAccepted, SendThrows, ReadyToSend, Vanish, provider, SendStands
  <2>3. CASE MarkSent(m)
    <3>1. sender[m] = "accepted" /\ record[m] \in Record /\ m \in answered
      BY <1>1, <1>2, <2>3 DEF MarkSent, SendStands
    <3>2. Sent(record[m]) \in Record
      BY <3>1, SentIs
    <3>3. /\ record' = [record EXCEPT ![m] = Sent(record[m])]
          /\ sender' = [sender EXCEPT ![m] = "done"]
          /\ UNCHANGED <<torn, accepted, answered>>
      BY <2>3 DEF MarkSent, provider
    <3> QED
      BY <1>1, <3>1, <3>2, <3>3, NoneIsNoRecord DEF SendStands
  <2>4. CASE MarkSentThrows(m)
    <3>1. sender[m] = "accepted" /\ record[m] \in Record /\ m \in answered
      BY <1>1, <1>2, <2>4 DEF MarkSentThrows, SendStands
    <3>2. Sent(record[m]) \in Record
      BY <3>1, SentIs
    <3>3. /\ \/ record' = record /\ torn' = torn
             \/ record' = [record EXCEPT ![m] = Sent(record[m])] /\ torn' = torn \cup {m}
          /\ sender' = [sender EXCEPT ![m] = "refused"]
          /\ UNCHANGED <<accepted, answered>>
      BY <2>4 DEF MarkSentThrows, provider
    <3> QED
      BY <1>1, <3>1, <3>2, <3>3, NoneIsNoRecord DEF SendStands
  <2>5. CASE MarkFailed(m)
    <3>1. sender[m] = "refused" /\ record[m] \in Record
      BY <1>1, <1>2, <2>5 DEF MarkFailed, SendStands
    <3> DEFINE x == [record[m] EXCEPT !.status = "failed"]
    <3>2. x \in Record /\ x.id = record[m].id
      <4>1. "failed" \in Status
        BY DEF Status
      <4> QED
        BY <3>1, <4>1, StatusIs
    <3>3. /\ record' = [record EXCEPT ![m] = x]
          /\ sender' = [sender EXCEPT ![m] = "done"]
          /\ UNCHANGED <<torn, accepted, answered>>
      BY <2>5 DEF MarkFailed, provider
    <3> HIDE DEF x
    <3> QED
      BY <1>1, <3>1, <3>2, <3>3, NoneIsNoRecord DEF SendStands
  <2> QED
    BY <2>1, <2>2, <2>3, <2>4, <2>5
<1>4. TypeOK'
  BY <1>1, <1>3 DEF MailTypes, TypeOK
<1>5. \A n \in Message : SendStands(n)'
  BY <1>1, <1>3 DEF MailTypes, SendStands
<1> QED
  BY <1>1, <1>4, <1>5 DEF MailTypes, PostStands

\* An event that is applied is written on the record that was found.
LEMMA ApplyIs ==
    ASSUME MailTypes, FoundStays, NEW r \in Request, Apply(r)
    PROVE  /\ MailTypes'
           /\ UNCHANGED <<sender, torn, accepted, answered, emitted, due>>
           /\ \E m \in Message :
                 /\ m = request[r].message /\ record[m] # None /\ record[m].id
                 /\ record'[m] # None /\ record'[m].id /\ record'[m].status \in Event
                 /\ \A n \in Message \ {m} : record'[n] = record[n]
                 /\ request'[r].message = m
           /\ \A q \in Request \ {r} : request'[q] = request[q]
           /\ request'[r].pc = "applied"
<1> PICK m \in Message : m = request[r].message
  BY DEF MailTypes, PostStands, Apply
<1> PICK e \in Event : e = request[r].event
  BY DEF MailTypes, PostStands, Apply
<1> PICK x \in Record : x = record[m]
  BY DEF MailTypes, TypeOK, FoundStays, Apply
<1> DEFINE y == [x EXCEPT !.status = e]
           q == [request[r] EXCEPT !.pc = "applied"]
<1>1. /\ record' = [record EXCEPT ![m] = y]
      /\ request' = [request EXCEPT ![r] = q]
      /\ UNCHANGED <<sender, torn, accepted, answered, emitted, due>>
      /\ x.id /\ request[r] \in RequestState
  BY DEF Apply, sending, provider, FoundStays, MailTypes, TypeOK
<1>2. y \in Record /\ y.status = e /\ y.id = x.id
  <2>1. e \in Status
    BY DEF Status
  <2> QED
    BY <2>1, StatusIs
<1>3. q \in RequestState /\ q.pc = "applied" /\ q.message = m /\ q.event = e
  BY <1>1, AppliedIs
<1> HIDE DEF y, q
<1>4. /\ request' \in [Request -> RequestState] /\ request'[r] = q
      /\ \A p \in Request \ {r} : request'[p] = request[p]
  BY <1>1, <1>3 DEF MailTypes, TypeOK
<1>5. /\ record' \in [Message -> Record \cup {None}] /\ record'[m] = y
      /\ \A n \in Message \ {m} : record'[n] = record[n]
  BY <1>1, <1>2 DEF MailTypes, TypeOK
<1>6. \A n \in Message : SendStands(n)'
  BY <1>1, <1>2, <1>5, NoneIsNoRecord DEF MailTypes, SendStands
<1>7. \A p \in Request : PostStands(p)'
  BY <1>3, <1>4 DEF MailTypes, PostStands, EventType
<1>8. MailTypes'
  BY <1>1, <1>4, <1>5, <1>6, <1>7 DEF MailTypes, TypeOK
<1> QED
  BY <1>1, <1>2, <1>3, <1>4, <1>5, <1>8, NoneIsNoRecord

\* The provider and the webhook.
LEMMA PostTypes ==
    ASSUME MailInv,
           \/ \E m \in Message, e \in EventType : Emit(m, e) \/ \E r \in Request : Receive(r, m, e)
           \/ \E r \in Request : Search(r) \/ Apply(r) \/ Acknowledge(r) \/ Drop(r)
    PROVE  MailTypes'
<1>1. MailTypes /\ FoundStays
  BY DEF MailInv
<1>2. ASSUME NEW m \in Message, NEW e \in EventType, Emit(m, e) PROVE MailTypes'
  BY <1>1, <1>2 DEF MailTypes, TypeOK, Emit, sending, PostStands, SendStands
<1>3. ASSUME NEW m \in Message, NEW e \in EventType, NEW r \in Request, Receive(r, m, e) PROVE MailTypes'
  BY <1>1, <1>3 DEF MailTypes, TypeOK, Receive, sending, provider, PostStands, SendStands, HasStatus, RequestState
<1>4. ASSUME NEW r \in Request, Search(r) \/ Drop(r) PROVE MailTypes'
  BY <1>1, <1>4 DEF MailTypes, TypeOK, Search, Drop, sending, provider, PostStands, SendStands, NoRequest, RequestState
<1>5. ASSUME NEW r \in Request, Acknowledge(r) PROVE MailTypes'
  BY <1>1, <1>5 DEF MailTypes, TypeOK, Acknowledge, Answered, sending, PostStands, SendStands, NoRequest, RequestState
<1>6. ASSUME NEW r \in Request, Apply(r) PROVE MailTypes'
  BY <1>1, <1>6, ApplyIs
<1> QED
  BY <1>2, <1>3, <1>4, <1>5, <1>6

\* Events, what was found and what was acknowledged, over the send path.
LEMMA SendKeeps ==
    ASSUME MailInv, NEW m \in Message,
           \/ Create(m) \/ SendAccepted(m) \/ SendThrows(m)
           \/ MarkSent(m) \/ MarkSentThrows(m) \/ MarkFailed(m) \/ Vanish(m)
    PROVE  MailInv'
<1>1. /\ MailTypes /\ EventsCarryIds /\ FoundStays /\ AcknowledgedIsRecorded
      /\ record \in [Message -> Record \cup {None}] /\ SendStands(m)
      /\ UNCHANGED <<emitted, due, request>>
  BY DEF MailInv, MailTypes, TypeOK, Create, SendAccepted, SendThrows, MarkSent, MarkSentThrows, MarkFailed,
         Vanish, provider
<1>2. \A n \in Message \ {m} : record'[n] = record[n] /\ (n \in torn' <=> n \in torn)
  BY <1>1 DEF Create, SendAccepted, SendThrows, MarkSent, MarkSentThrows, MarkFailed, Vanish
<1>3. torn \subseteq torn'
  BY DEF Create, SendAccepted, SendThrows, MarkSent, MarkSentThrows, MarkFailed, Vanish
\* Where its record changes, it told of no event before, and tells of none now.
<1>4. \/ record'[m] = record[m]
      \/ (m \in torn \/ ~Stands(m, Event)) /\ ~Stands(m, Event)'
            /\ (record[m] # None /\ record[m].id => record'[m] # None /\ record'[m].id)
  <2>1. sender[m] # "idle" => record[m] \in Record
    BY <1>1 DEF SendStands
  <2>2. CASE SendAccepted(m) \/ SendThrows(m) \/ Vanish(m)
    BY <2>2 DEF SendAccepted, SendThrows, Vanish
  <2>3. CASE Create(m)
    <3>1. record[m] = None /\ record'[m] = [status |-> "queued", id |-> FALSE]
      BY <1>1, <2>3 DEF Create, SendStands
    <3> QED
      BY <3>1 DEF Stands, Event
  <2>4. CASE MarkSent(m) \/ MarkSentThrows(m)
    <3>1. sender[m] = "accepted" /\ record[m] \in Record /\ record'[m] \in {record[m], Sent(record[m])}
      BY <1>1, <2>1, <2>4 DEF MarkSent, MarkSentThrows
    <3>2. Sent(record[m]).status = "sent" /\ Sent(record[m]).id = TRUE /\ Sent(record[m]) \in Record
      BY <3>1, SentIs
    <3>3. m \in torn \/ ~Stands(m, Event)
      BY <1>1, <3>1, SendWrites
    <3> QED
      BY <3>1, <3>2, <3>3, NoneIsNoRecord DEF Stands, Event
  <2>5. CASE MarkFailed(m)
    <3>1. sender[m] = "refused" /\ record[m] \in Record
          /\ record'[m] = [record[m] EXCEPT !.status = "failed"]
      BY <1>1, <2>1, <2>5 DEF MarkFailed
    <3>2. record'[m].status = "failed" /\ record'[m].id = record[m].id /\ record'[m] \in Record
      <4>1. "failed" \in Status
        BY DEF Status
      <4> QED
        BY <3>1, <4>1, StatusIs
    <3>3. m \in torn \/ ~Stands(m, Event)
      BY <1>1, <3>1, SendWrites
    <3> QED
      BY <3>1, <3>2, <3>3, NoneIsNoRecord DEF Stands, Event
  <2> QED
    BY <2>2, <2>3, <2>4, <2>5
<1>5. MailTypes'
  BY <1>1, SendTypes
<1>6. EventsCarryIds'
  BY <1>1, <1>2, <1>4 DEF EventsCarryIds, Stands
<1>7. ASSUME NEW n \in Message, n \in torn \/ Stands(n, Event) PROVE n \in torn' \/ Stands(n, Event)'
  BY <1>2, <1>3, <1>4, <1>7 DEF Stands
<1>8. FoundStays'
  <2>1. \A r \in Request : request[r].pc # "idle" => request[r].message \in Message
    BY <1>1 DEF MailTypes, PostStands
  <2>2. \A n \in Message : record[n] # None /\ record[n].id => record'[n] # None /\ record'[n].id
    BY <1>2, <1>4
  <2> QED
    BY <1>1, <1>7, <2>1, <2>2 DEF FoundStays
<1>9. AcknowledgedIsRecorded'
  BY <1>1, <1>7 DEF AcknowledgedIsRecorded
<1> QED
  BY <1>5, <1>6, <1>8, <1>9 DEF MailInv

\* What the provider and the webhook do leaves the send path's word standing.
LEMMA PostKeeps ==
    ASSUME MailInv,
           \/ \E m \in Message, e \in EventType : Emit(m, e) \/ \E r \in Request : Receive(r, m, e)
           \/ \E r \in Request : Search(r) \/ Apply(r) \/ Acknowledge(r) \/ Drop(r)
    PROVE  MailInv'
<1>1. /\ MailTypes /\ EventsCarryIds /\ FoundStays /\ AcknowledgedIsRecorded /\ MailTypes'
      /\ request \in [Request -> RequestState] /\ record \in [Message -> Record \cup {None}]
      /\ emitted \in [Message -> SUBSET EventType] /\ due \in [Message -> SUBSET EventType]
  BY PostTypes DEF MailInv, MailTypes, TypeOK
<1>2. ASSUME NEW m \in Message, NEW e \in EventType, Emit(m, e) PROVE MailInv'
  BY <1>1, <1>2 DEF MailInv, Emit, sending, EventsCarryIds, FoundStays, AcknowledgedIsRecorded, Stands
<1>3. ASSUME NEW m \in Message, NEW e \in EventType, NEW r \in Request, Receive(r, m, e) PROVE MailInv'
  BY <1>1, <1>3 DEF MailInv, Receive, HasStatus, sending, provider, EventsCarryIds, FoundStays,
                    AcknowledgedIsRecorded, Stands
<1>4. ASSUME NEW r \in Request, Search(r) \/ Drop(r) PROVE MailInv'
  <2>1. UNCHANGED <<record, torn, emitted, due>>
    BY <1>4 DEF Search, Drop, sending, provider
  <2>2. FoundStays'
    BY <1>1, <1>4, <2>1 DEF FoundStays, Search, Drop, Joins, NoRequest, RequestState, Stands
  <2> QED
    BY <1>1, <2>1, <2>2 DEF MailInv, EventsCarryIds, AcknowledgedIsRecorded, Stands
<1>5. ASSUME NEW r \in Request, Apply(r) PROVE MailInv'
  <2>1. PICK m \in Message :
            /\ m = request[r].message
            /\ record'[m] # None /\ record'[m].id /\ record'[m].status \in Event
            /\ \A n \in Message \ {m} : record'[n] = record[n]
            /\ request'[r].message = m
    BY <1>1, <1>5, ApplyIs
  <2>2. /\ UNCHANGED <<torn, emitted, due>> /\ request'[r].pc = "applied"
        /\ \A q \in Request \ {r} : request'[q] = request[q]
    BY <1>1, <1>5, ApplyIs
  <2>3. \A n \in Message : n \in torn \/ Stands(n, Event) => n \in torn' \/ Stands(n, Event)'
    BY <2>1, <2>2 DEF Stands
  <2>4. EventsCarryIds'
    BY <1>1, <2>1 DEF EventsCarryIds, Stands
  <2>5. AcknowledgedIsRecorded'
    BY <1>1, <2>2, <2>3 DEF AcknowledgedIsRecorded
  <2>6. FoundStays'
    <3> SUFFICES ASSUME NEW q \in Request
                 PROVE  /\ request'[q].pc = "found" =>
                               record'[request'[q].message] # None /\ record'[request'[q].message].id
                        /\ request'[q].pc = "applied" /\ request'[q].event \in Event =>
                               \/ request'[q].message \in torn'
                               \/ /\ record'[request'[q].message] # None
                                  /\ record'[request'[q].message].status \in Event
      BY DEF FoundStays, Stands
    <3>1. CASE q = r
      BY <2>1, <2>2, <3>1
    <3>2. CASE q # r
      <4>1. request[q].pc # "idle" => request[q].message \in Message
        BY <1>1 DEF MailTypes, PostStands
      <4> QED
        BY <1>1, <2>1, <2>2, <3>2, <4>1 DEF FoundStays, Stands
    <3> QED
      BY <3>1, <3>2
  <2> QED
    BY <1>1, <2>4, <2>5, <2>6 DEF MailInv
<1>6. ASSUME NEW r \in Request, Acknowledge(r) PROVE MailInv'
  <2>1. /\ request[r].pc = "applied" /\ request[r].message \in Message /\ UNCHANGED <<record, torn, emitted>>
        /\ due' = [due EXCEPT ![request[r].message] = @ \ {request[r].event}]
        /\ request' = [request EXCEPT ![r] = NoRequest]
    BY <1>1, <1>6 DEF Acknowledge, Answered, sending, MailTypes, PostStands
  <2>2. FoundStays'
    BY <1>1, <2>1 DEF FoundStays, NoRequest, Stands
  <2>3. AcknowledgedIsRecorded'
    BY <1>1, <2>1 DEF AcknowledgedIsRecorded, FoundStays, Stands
  <2> QED
    BY <1>1, <2>1, <2>2, <2>3 DEF MailInv, EventsCarryIds, Stands
<1> QED
  BY <1>2, <1>3, <1>4, <1>5, <1>6

\* Every step keeps the invariant.
LEMMA MailStep == MailInv /\ [Next]_vars => MailInv'
<1> SUFFICES ASSUME MailInv, [Next]_vars PROVE MailInv'
  OBVIOUS
<1>1. CASE UNCHANGED vars
  BY <1>1 DEF vars, MailInv, MailTypes, TypeOK, PostStands, SendStands, EventsCarryIds, FoundStays,
              AcknowledgedIsRecorded, Stands
<1>2. CASE Next
  BY <1>2, SendKeeps, PostKeeps DEF Next
<1> QED
  BY <1>1, <1>2

\* It holds of every reachable state of the mail.
LEMMA MailInvariant == Spec => []MailInv
  BY MailStarts, MailStep, PTL DEF Spec, SafetySpec

-----------------------------------------------------------------------------
(* Theorems.                                                                *)

\* Records, handlers and the provider's books keep their shapes
\* (sendRecordedEmail, applyDeliveryEvent).
THEOREM MailTypeCorrect == Spec => []TypeOK
<1>1. MailInv => TypeOK
  BY DEF MailInv, MailTypes
<1> QED
  BY <1>1, MailInvariant, PTL

\* Whatever the provider took has a record, wherever the call that sent it
\* stopped: the record is written before the provider is called.
THEOREM EvidenceIsLeft == Spec => []SentLeavesEvidence
<1>1. MailInv => SentLeavesEvidence
  BY DEF MailInv, MailTypes, TypeOK, SendStands, SentLeavesEvidence
<1> QED
  BY <1>1, MailInvariant, PTL

\* An event with a status is acknowledged to the provider only once its
\* message's record tells of one, but for a send whose update was torn.
THEOREM AcknowledgedIsKept == Spec => []AcknowledgedIsRecorded
<1>1. MailInv => AcknowledgedIsRecorded
  BY DEF MailInv
<1> QED
  BY <1>1, MailInvariant, PTL

\* Once a delivery event is on a record, the send path does not write over it,
\* unless its update was torn.
THEOREM WebhookStands == Spec => WebhookIsNotUndone
<1> DEFINE Undone == \A m \in Message \ torn : Stands(m, Event) => record'[m].status \in Event
<1>1. ASSUME MailInv, [Next]_vars PROVE [Undone]_vars
  <2> SUFFICES ASSUME Next, NEW m \in Message, m \notin torn, Stands(m, Event)
               PROVE  record'[m].status \in Event
    BY <1>1
  <2>1. /\ MailTypes /\ EventsCarryIds /\ FoundStays /\ record[m].status \in Event
        /\ record \in [Message -> Record \cup {None}] /\ request \in [Request -> RequestState]
    BY <1>1 DEF MailInv, MailTypes, TypeOK, Stands
  <2>2. ASSUME NEW n \in Message,
               \/ Create(n) \/ SendAccepted(n) \/ SendThrows(n)
               \/ MarkSent(n) \/ MarkSentThrows(n) \/ MarkFailed(n) \/ Vanish(n)
        PROVE  record'[m].status \in Event
    <3>1. n = m => sender[m] \notin {"idle", "accepted", "refused"}
      BY <2>1, SendWrites
    <3> QED
      BY <2>1, <2>2, <3>1 DEF Create, SendAccepted, SendThrows, MarkSent, MarkSentThrows, MarkFailed, Vanish
  <2>3. ASSUME NEW n \in Message, NEW e \in EventType, Emit(n, e) \/ \E r \in Request : Receive(r, n, e)
        PROVE  record'[m].status \in Event
    BY <2>1, <2>3 DEF Emit, Receive
  <2>4. ASSUME NEW r \in Request, Search(r) \/ Acknowledge(r) \/ Drop(r) PROVE record'[m].status \in Event
    BY <2>1, <2>4 DEF Search, Acknowledge, Drop
  <2>5. ASSUME NEW r \in Request, Apply(r) PROVE record'[m].status \in Event
    <3>1. PICK n \in Message : record'[n].status \in Event /\ \A k \in Message \ {n} : record'[k] = record[k]
      BY <2>1, <2>5, ApplyIs
    <3> QED
      BY <2>1, <3>1
  <2> QED
    BY <2>2, <2>3, <2>4, <2>5 DEF Next
<1> QED
  BY <1>1, MailInvariant, PTL DEF Spec, SafetySpec, WebhookIsNotUndone

-----------------------------------------------------------------------------
(* The conversation's delta.  A turn takes a cursor, from the ticket or from  *)
(* where the map ends, finds what is in front of it and moves it past that.   *)
(* So every cursor there is, stored or held by a turn, has only found         *)
(* documents behind it: since the conversation's first cursor, which is one,  *)
(* unless two turns without a cursor crossed and made a ticket each.  As long *)
(* as turns do not overlap, what was told is behind the stored cursor, and so *)
(* not in front of it to be found again.                                      *)

\* A cursor is at an instant that has been, and was told of documents at it that
\* have been stamped since at the earliest.
Sane(cursor) == cursor.at <= clock /\ \A d \in cursor.seen : stamp[d] >= cursor.at

Open(t) == turn[t].pc \in {"cover", "sweep", "persist"}

\* A turn has a cursor from its sweep on: the stored one, or one where the map ends.
TurnStands(t) ==
    /\ turn[t].start <= clock
    /\ turn[t].pc = "cover" => turn[t].stored = None
    /\ turn[t].pc \in {"sweep", "persist", "tell"} => turn[t].cursor # None /\ Sane(turn[t].cursor)
    /\ turn[t].pc = "sweep" =>
           turn[t].cursor = IF turn[t].stored = None THEN [at |-> turn[t].start, seen |-> {}]
                            ELSE turn[t].stored
    /\ Open(t) /\ turn[t].chat # None => chats[turn[t].chat] # None
    /\ turn[t].chat = None => turn[t].stored = None

DeltaTypes ==
    /\ DeltaTypeOK
    /\ landscape # None => landscape.at <= clock
    /\ \A c \in Chat : HasCursor(c) => Sane(chats[c])
    /\ began # 0 <=> \E c \in Chat : HasCursor(c)
    /\ \A t \in Turn : TurnStands(t)

\* Unless first turns overlapped, the conversation has one ticket, turns overlap
\* only once it has a cursor, and a turn found a cursor if there is one.
OneTicket ==
    overlap # "first" =>
        /\ \A c, e \in Chat : chats[c] # None /\ chats[e] # None => c = e
        /\ began = 0 => \A t, u \in Turn : turn[t].pc # "idle" /\ turn[u].pc # "idle" => t = u
        /\ \A t \in Turn : Open(t) =>
              /\ turn[t].stored = None <=> began = 0
              /\ turn[t].chat = None => \A c \in Chat : chats[c] = None

\* What is behind a cursor, from an instant on, was found new by some turn.
Found(d) == \E s \in Time : <<d, s>> \in swept
Caught(cursor, from) ==
    \A d \in Doc : d \in cursor.seen \/ (from <= stamp[d] /\ stamp[d] < cursor.at) => Found(d)

\* Where the conversation began, or will have begun when the turn stores its cursor.
BeganOr(t) == IF began = 0 THEN turn[t].start ELSE began

CursorsAreCaught ==
    overlap # "first" =>
        /\ \A c \in Chat : HasCursor(c) => Caught(chats[c], began)
        /\ \A t \in Turn : turn[t].pc \in {"sweep", "persist"} => Caught(turn[t].cursor, BeganOr(t))

\* What was told is behind the conversation's cursor.
IsBehind(v) == began # 0 /\ \A c \in Chat : HasCursor(c) => Passed(chats[c], v)

\* Unless turns overlap, a turn moves the stored cursor on, and what it is about to
\* tell was not told yet.
ToldIsBehind ==
    overlap = "none" =>
        /\ \A t, u \in Turn : turn[t].pc # "idle" /\ turn[u].pc # "idle" => t = u
        /\ \A v \in Version : told[v] <= 1 /\ (told[v] # 0 => IsBehind(v))
        /\ \A t \in Turn :
              /\ turn[t].pc = "sweep" /\ turn[t].stored # None =>
                     turn[t].chat # None /\ turn[t].stored = chats[turn[t].chat]
              /\ turn[t].pc = "persist" => \A v \in Version :
                     /\ told[v] # 0 => Passed(turn[t].cursor, v)
                     /\ v \in turn[t].entries => told[v] = 0 /\ Passed(turn[t].cursor, v)
              /\ turn[t].pc = "tell" => \A v \in turn[t].entries : told[v] = 0 /\ IsBehind(v)

DeltaInv == DeltaTypes /\ OneTicket /\ CursorsAreCaught /\ ToldIsBehind

-----------------------------------------------------------------------------
(* Cursors.                                                                 *)

\* Numbers that are some, none beyond a bound, have a greatest.
LEMMA GreatestExists ==
    ASSUME NEW n \in Nat, NEW S, S \subseteq 0..n, S # {}
    PROVE  \E x \in S : \A y \in S : y <= x
<1> DEFINE T == {n - y : y \in S}
<1>1. IsWellFoundedOn(OpToRel(<, Nat), Nat)
  BY NatLessThanWellFounded
<1>2. T \subseteq Nat /\ T # {}
  <2>1. \A y \in S : n - y \in Nat
    OBVIOUS
  <2> QED
    BY <2>1
<1>3. PICK t \in T : \A u \in T : ~(<<u, t>> \in OpToRel(<, Nat))
  <2> HIDE DEF T
  <2> QED
    BY <1>1, <1>2, WFMin
<1>4. \A u \in T : <<u, t>> \in OpToRel(<, Nat) <=> u < t
  BY <1>2 DEF OpToRel
<1>5. \A u \in T : ~(u < t)
  BY <1>3, <1>4, Zenon
<1>6. PICK x \in S : t = n - x
  BY <1>3
<1>7. ASSUME NEW y \in S PROVE y <= x
  <2>1. n - y \in T /\ n - y \in Nat /\ t \in Nat
    BY <1>2
  <2>2. ~(n - y < n - x)
    BY <1>5, <1>6, <2>1
  <2>3. x \in Nat /\ y \in Nat
    OBVIOUS
  <2> QED
    BY <2>2, <2>3
<1> QED
  BY <1>7

\* A cursor is an instant and the documents seen at it.
LEMMA CursorIs ==
    /\ \A x \in Cursor : x.at \in Time /\ x.at \in Nat /\ x.at > 0 /\ x.seen \subseteq Doc /\ x # None /\ x # Bare
    /\ \A at \in Time, seen \in SUBSET Doc : [at |-> at, seen |-> seen] \in Cursor
    /\ Bare # None
BY NoneIsNoCursor DEF Cursor, Bare, Time

\* A ticket has a cursor if it carries one.
LEMMA StoredIs ==
    ASSUME chats \in [Chat -> Cursor \cup {None, Bare}], NEW c \in Chat
    PROVE  HasCursor(c) <=> chats[c] \in Cursor
BY CursorIs DEF HasCursor

\* What a sweep makes of a cursor: it is past all it had passed and all it found.
LEMMA AdvanceIs ==
    ASSUME clock \in Time, stamp \in [Doc -> 0..clock], NEW x \in Cursor, Sane(x)
    PROVE  LET entries == ChangedSince(x)
               new == Advance(x, entries)
           IN  /\ new \in Cursor /\ Sane(new) /\ x.at <= new.at
               /\ \A d \in entries : stamp[d] <= new.at /\ (stamp[d] = new.at => d \in new.seen)
               /\ new.seen \subseteq entries \cup x.seen
               /\ new.at = x.at => x.seen \subseteq new.seen
<1> DEFINE entries == ChangedSince(x)
           times == {x.at} \cup {stamp[d] : d \in entries}
           at == CHOOSE s \in times : \A u \in times : u <= s
           new == Advance(x, entries)
<1>1. clock \in Nat /\ x.at \in Time /\ x.at \in 1..clock /\ x.seen \subseteq Doc
  BY CursorIs DEF Sane, Time
<1>2. entries \subseteq Doc /\ \A d \in entries : x.at <= stamp[d] /\ stamp[d] \in 1..clock
  BY <1>1 DEF ChangedSince
<1>3. times \subseteq 0..clock /\ times # {}
  BY <1>1, <1>2
<1>4. at \in times /\ \A u \in times : u <= at
  <2> HIDE DEF times
  <2> QED
    BY <1>1, <1>3, GreatestExists
<1>5. at \in 1..clock /\ x.at <= at /\ \A d \in entries : stamp[d] <= at
  <2>1. x.at \in times /\ \A d \in entries : stamp[d] \in times
    OBVIOUS
  <2>2. \A u \in times : u \in 1..clock
    BY <1>1, <1>2
  <2> HIDE DEF times, at
  <2> QED
    BY <1>4, <2>1, <2>2
<1> HIDE DEF at
<1>6. at \in Time
  BY <1>5, BoundsAreNat DEF Time
<1>7. new = [at |-> at, seen |-> {d \in entries : stamp[d] = at} \cup (IF at = x.at THEN x.seen ELSE {})]
  BY DEF Advance, at
<1> HIDE DEF entries, new
<1>8. new.at = at /\ new.seen = {d \in entries : stamp[d] = at} \cup (IF at = x.at THEN x.seen ELSE {})
  BY <1>7
<1>9. new \in Cursor
  BY <1>1, <1>2, <1>6, <1>7, CursorIs
<1>10. Sane(new)
  <2>1. \A d \in x.seen : stamp[d] >= x.at
    BY DEF Sane
  <2>2. ASSUME NEW d \in new.seen PROVE stamp[d] >= at
    BY <1>2, <1>5, <1>8, <2>1, <2>2
  <2> QED
    BY <1>1, <1>5, <1>8, <2>2 DEF Sane
<1> QED
  BY <1>5, <1>8, <1>9, <1>10 DEF entries, new

\* The first ticket that is there is found.
LEMMA FindChatIs ==
    /\ (\A c \in Chat : chats[c] = None) => FindChat = None
    /\ (\E c \in Chat : chats[c] # None) => FindChat \in Chat /\ chats[FindChat] # None
<1> SUFFICES ASSUME NEW b \in Chat, chats[b] # None
             PROVE  FindChat \in Chat /\ chats[FindChat] # None
  BY DEF FindChat
<1> DEFINE S == {c \in Chat : chats[c] # None}
<1>1. S \subseteq Nat /\ S # {}
  BY DEF Chat
<1>2. PICK x \in S : \A y \in S : ~(<<y, x>> \in OpToRel(<, Nat))
  <2> HIDE DEF S
  <2> QED
    BY <1>1, NatLessThanWellFounded, WFMin
<1>3. x \in Chat /\ chats[x] # None /\ \A e \in 1..(x - 1) : chats[e] = None
  <2>1. x \in Chat /\ chats[x] # None
    OBVIOUS
  <2>2. ASSUME NEW e \in 1..(x - 1), chats[e] # None PROVE FALSE
    <3>1. e \in Chat /\ e \in Nat /\ x \in Nat /\ e < x
      BY <2>1, BoundsAreNat DEF Chat
    <3>2. <<e, x>> \in OpToRel(<, Nat)
      BY <3>1 DEF OpToRel
    <3> QED
      BY <1>2, <2>2, <3>1, <3>2
  <2> QED
    BY <2>1, <2>2
<1> QED
  BY <1>3 DEF FindChat

-----------------------------------------------------------------------------
(* Shapes.                                                                  *)

\* What a turn holds.
LEMMA TurnStateIs ==
    ASSUME NEW q \in TurnState
    PROVE  /\ q.pc \in {"idle", "cover", "sweep", "persist", "tell"} /\ q.chat \in Chat \cup {None}
           /\ q.start \in Time /\ q.stored \in Cursor \cup {None} /\ q.cursor \in Cursor \cup {None}
           /\ q.entries \subseteq Version
BY DEF TurnState

\* No turn is one that has not begun.
LEMMA NoTurnIs == NoTurn \in TurnState /\ NoTurn.pc = "idle" /\ NoTurn.chat = None /\ NoTurn.stored = None /\ NoTurn.start = 1
BY BoundsAreNat DEF NoTurn, TurnState, Time

\* Instants and tickets are numbers from one to their bounds.
LEMMA NumbersAre ==
    /\ MaxTime \in Nat /\ MaxTime > 0 /\ MaxChats \in Nat /\ MaxChats > 0
    /\ 1 \in Time /\ 1 \in Chat
    /\ \A i \in Time : i \in Nat /\ i > 0 /\ i <= MaxTime
BY BoundsAreNat DEF Time, Chat

\* A conversation may have begun, at the first instant, before any document was stamped.
LEMMA DeltaTypesStart == DeltaInit => DeltaTypes
<1> SUFFICES ASSUME DeltaInit PROVE DeltaTypes
  OBVIOUS
<1>1. PICK how \in Begun :
          /\ chats = [c \in Chat |-> IF c # 1 \/ how = "new" THEN None
                                     ELSE IF how = "uncursored" THEN Bare
                                     ELSE [at |-> 1, seen |-> {}]]
          /\ began = IF how = "resumed" THEN 1 ELSE 0
  BY DEF DeltaInit
<1>2. [at |-> 1, seen |-> {}] \in Cursor
  BY CursorIs, NumbersAre
<1>3. chats \in [Chat -> Cursor \cup {None, Bare}]
  BY <1>1, <1>2
<1>4. began # 0 <=> \E c \in Chat : HasCursor(c)
  <2>1. \A c \in Chat : HasCursor(c) => how \notin {"new", "uncursored"}
    BY <1>1 DEF HasCursor
  <2>2. how \in {"new", "uncursored", "resumed"}
    BY BegunIsKnown
  <2>3. how = "resumed" => HasCursor(1)
    BY <1>1, <1>2, CursorIs, NumbersAre DEF HasCursor
  <2> QED
    BY <1>1, <2>1, <2>2, <2>3, NumbersAre
<1>5. \A c \in Chat : HasCursor(c) => Sane(chats[c])
  <2>1. \A c \in Chat : chats[c] \in {None, Bare, [at |-> 1, seen |-> {}]}
    BY <1>1
  <2>2. \A c \in Chat : HasCursor(c) => chats[c] = [at |-> 1, seen |-> {}]
    BY <2>1 DEF HasCursor
  <2> QED
    BY <2>2 DEF DeltaInit, Sane
<1>6. \A t \in Turn : TurnStands(t)
  BY NoTurnIs DEF DeltaInit, TurnStands, Open
<1>7. DeltaTypeOK
  BY <1>1, <1>3, NoTurnIs, NumbersAre DEF DeltaInit, DeltaTypeOK
<1> QED
  BY <1>4, <1>5, <1>6, <1>7 DEF DeltaTypes, DeltaInit

\* What was sane stays so as time goes on.
LEMMA SaneLater ==
    ASSUME DeltaTypes, clock' \in Time, clock <= clock', stamp' \in [Doc -> 0..clock'],
           \A d \in Doc : stamp[d] <= stamp'[d], NEW x \in Cursor, Sane(x)
    PROVE  Sane(x)'
<1>1. x.at \in Nat /\ x.seen \subseteq Doc /\ clock \in Nat /\ clock' \in Nat
  BY CursorIs, NumbersAre DEF DeltaTypes, DeltaTypeOK
<1>2. \A d \in Doc : stamp[d] \in Nat /\ stamp'[d] \in Nat
  BY <1>1 DEF DeltaTypes, DeltaTypeOK
<1>3. ASSUME NEW d \in x.seen PROVE stamp'[d] >= x.at
  <2>1. stamp[d] >= x.at /\ stamp[d] <= stamp'[d]
    BY <1>1 DEF Sane
  <2> QED
    BY <1>1, <1>2, <2>1
<1>4. x.at <= clock'
  BY <1>1 DEF Sane
<1> QED
  BY <1>3, <1>4 DEF Sane

\* Time, uploads and rebuilds leave tickets and turns alone.
LEMMA CorpusMoves ==
    ASSUME DeltaTypes, UNCHANGED <<chats, turn, swept, told, began, overlap>>,
           clock' \in Time, clock <= clock', stamp' \in [Doc -> 0..clock'],
           \A d \in Doc : stamp[d] <= stamp'[d],
           landscape' \in Landscape \cup {None}, landscape' # None => landscape'.at <= clock',
           build' \in [Build -> (SUBSET Version) \cup {None}]
    PROVE  DeltaTypes'
<1>1. \A c \in Chat : HasCursor(c)' => Sane(chats[c])'
  <2> SUFFICES ASSUME NEW c \in Chat, HasCursor(c) PROVE Sane(chats[c])'
    BY DEF HasCursor
  <2>1. chats[c] \in Cursor /\ Sane(chats[c])
    BY StoredIs DEF DeltaTypes, DeltaTypeOK
  <2>2. \A x \in Cursor : Sane(x) => Sane(x)'
    BY SaneLater
  <2> QED
    BY <2>1, <2>2
<1>2. ASSUME NEW t \in Turn PROVE TurnStands(t)'
  <2>1. TurnStands(t) /\ turn[t] \in TurnState /\ turn'[t] = turn[t] /\ chats' = chats
    BY DEF DeltaTypes, DeltaTypeOK
  <2>2. turn[t].cursor # None => turn[t].cursor \in Cursor
    BY <2>1, TurnStateIs
  <2>3. \A x \in Cursor : Sane(x) => Sane(x)'
    BY SaneLater
  <2>4. turn[t].start <= clock'
    BY <2>1, TurnStateIs, NumbersAre DEF TurnStands, DeltaTypes, DeltaTypeOK
  <2> QED
    BY <2>1, <2>2, <2>3, <2>4 DEF TurnStands, Open
<1>3. DeltaTypeOK'
  <2>1. \A t \in Turn : turn'[t].pc \in {"sweep", "persist", "tell"} =>
            /\ turn'[t].cursor # None /\ turn'[t].cursor.at <= clock'
            /\ \A d \in turn'[t].cursor.seen : stamp'[d] >= turn'[t].cursor.at
    BY <1>2 DEF TurnStands, Sane
  <2> QED
    BY <2>1 DEF DeltaTypes, DeltaTypeOK
<1> QED
  BY <1>1, <1>2, <1>3 DEF DeltaTypes, HasCursor

\* What happens to the corpus keeps the types, touches no turn and moves stamps to the
\* instant or not at all.
LEMMA CorpusTypes ==
    ASSUME DeltaTypes,
           Tick \/ (\E d \in Doc : Upload(d)) \/ (\E b \in Build : ReadCorpus(b) \/ PublishMap(b))
    PROVE  /\ DeltaTypes' /\ clock' \in Time /\ clock <= clock'
           /\ \A d \in Doc : stamp'[d] \in {stamp[d], clock} /\ stamp[d] <= stamp'[d]
           /\ UNCHANGED <<chats, turn, swept, told, began, overlap>>
<1>1. /\ clock \in Time /\ clock \in Nat /\ MaxTime \in Nat /\ stamp \in [Doc -> 0..clock]
      /\ landscape \in Landscape \cup {None} /\ (landscape # None => landscape.at <= clock)
      /\ build \in [Build -> (SUBSET Version) \cup {None}]
  BY NumbersAre DEF DeltaTypes, DeltaTypeOK
<1>2. UNCHANGED <<chats, turn, swept, told, began, overlap>>
  BY DEF Tick, Upload, ReadCorpus, PublishMap, history
<1>3. CASE Tick
  <2>1. clock' \in Time /\ clock <= clock' /\ stamp' = stamp /\ stamp' \in [Doc -> 0..clock'] /\ clock' \in Nat
    BY <1>1, <1>3 DEF Tick, Time
  <2>2. landscape # None => landscape.at \in Nat
    BY <1>1, NumbersAre DEF Landscape
  <2>3. landscape' = landscape /\ build' = build /\ (landscape # None => landscape.at <= clock')
    BY <1>1, <1>3, <2>1, <2>2 DEF Tick
  <2>4. \A d \in Doc : stamp[d] <= stamp'[d] /\ stamp'[d] \in {stamp[d], clock}
    BY <1>1, <2>1
  <2>5. DeltaTypes'
    BY <1>1, <1>2, <2>1, <2>3, <2>4, CorpusMoves
  <2> QED
    BY <1>2, <2>1, <2>4, <2>5
<1>4. ASSUME NEW e \in Doc, Upload(e) PROVE DeltaTypes' /\ clock' = clock /\ \A d \in Doc : stamp'[d] \in {stamp[d], clock} /\ stamp[d] <= stamp'[d]
  <2>1. /\ clock' = clock /\ landscape' = landscape /\ build' = build
        /\ stamp' = [stamp EXCEPT ![e] = clock] /\ stamp[e] < clock
    BY <1>4 DEF Upload
  <2>2. stamp' \in [Doc -> 0..clock'] /\ \A d \in Doc : stamp'[d] \in {stamp[d], clock} /\ stamp[d] <= stamp'[d]
    BY <1>1, <2>1
  <2> QED
    BY <1>1, <1>2, <2>1, <2>2, CorpusMoves
<1>5. ASSUME NEW b \in Build, ReadCorpus(b) \/ PublishMap(b)
      PROVE  DeltaTypes' /\ clock' = clock /\ stamp' = stamp
  <2>1. clock' = clock /\ stamp' = stamp
    BY <1>5 DEF ReadCorpus, PublishMap
  <2>2. Committed \subseteq Version
    BY <1>1, BoundsAreNat DEF Committed, Version, Time
  <2>3. build' \in [Build -> (SUBSET Version) \cup {None}]
    BY <1>1, <1>5, <2>2 DEF ReadCorpus, PublishMap
  <2>4. landscape' \in Landscape \cup {None} /\ (landscape' # None => landscape'.at <= clock)
    <3>1. CASE ReadCorpus(b)
      BY <1>1, <3>1 DEF ReadCorpus
    <3>2. CASE PublishMap(b)
      <4>1. build[b] \in SUBSET Version /\ landscape' = [at |-> clock, covers |-> build[b]]
        BY <1>1, <3>2 DEF PublishMap
      <4> QED
        BY <1>1, <4>1 DEF Landscape
    <3> QED
      BY <1>5, <3>1, <3>2
  <2>5. \A d \in Doc : stamp[d] <= stamp'[d]
    BY <1>1, <2>1
  <2> QED
    BY <1>1, <1>2, <2>1, <2>3, <2>4, <2>5, CorpusMoves
<1> QED
  BY <1>1, <1>2, <1>3, <1>4, <1>5

\* A turn's step moves that turn, and a ticket that is there stays.
LEMMA TurnMoves ==
    ASSUME DeltaTypes, UNCHANGED corpus, NEW t \in Turn, NEW q \in TurnState,
           turn' = [turn EXCEPT ![t] = q],
           chats' \in [Chat -> Cursor \cup {None, Bare}],
           \A c \in Chat : chats'[c] # chats[c] => chats'[c] \in Cursor /\ Sane(chats'[c]),
           swept' \subseteq Version, told' \in [Version -> 0..2], began' \in 0..MaxTime,
           overlap' \in {"none", "later", "first"},
           began' # 0 <=> \E c \in Chat : HasCursor(c)',
           TurnStands(t)'
    PROVE  DeltaTypes' /\ turn'[t] = q /\ \A u \in Turn \ {t} : turn'[u] = turn[u]
<1>1. turn' \in [Turn -> TurnState] /\ turn'[t] = q /\ \A u \in Turn \ {t} : turn'[u] = turn[u]
  BY DEF DeltaTypes, DeltaTypeOK
<1>2. UNCHANGED <<clock, stamp, landscape, build>>
  BY DEF corpus
<1>3. \A x : Sane(x)' <=> Sane(x)
  BY <1>2 DEF Sane
<1>4. ASSUME NEW c \in Chat, HasCursor(c)' PROVE Sane(chats[c])'
  <2>1. CASE chats'[c] # chats[c]
    BY <2>1, <1>2 DEF Sane
  <2>2. CASE chats'[c] = chats[c]
    <3>1. HasCursor(c) /\ Sane(chats[c])
      BY <1>4, <2>2 DEF HasCursor, DeltaTypes
    <3> QED
      BY <1>2, <2>2, <3>1 DEF Sane
  <2> QED
    BY <2>1, <2>2
<1>5. \A c \in Chat : chats[c] # None => chats'[c] # None
  BY CursorIs
<1>6. ASSUME NEW u \in Turn PROVE TurnStands(u)'
  <2>1. CASE u = t
    BY <2>1
  <2>2. CASE u # t
    <3>1. turn'[u] = turn[u] /\ TurnStands(u) /\ turn[u] \in TurnState
      BY <1>1, <2>2 DEF DeltaTypes, DeltaTypeOK
    <3>2. turn[u].chat \in Chat \cup {None}
      BY <3>1, TurnStateIs
    <3>3. Sane(turn[u].cursor)' <=> Sane(turn[u].cursor)
      BY <1>2, <3>1 DEF Sane
    <3> QED
      BY <1>2, <1>5, <3>1, <3>2, <3>3 DEF TurnStands, Open
  <2> QED
    BY <2>1, <2>2
<1>7. DeltaTypeOK'
  <2>1. \A u \in Turn : turn'[u].pc \in {"sweep", "persist", "tell"} =>
            /\ turn'[u].cursor # None /\ turn'[u].cursor.at <= clock'
            /\ \A d \in turn'[u].cursor.seen : stamp'[d] >= turn'[u].cursor.at
    BY <1>6 DEF TurnStands, Sane
  <2> QED
    BY <1>1, <1>2, <2>1 DEF DeltaTypes, DeltaTypeOK
<1> QED
  BY <1>1, <1>2, <1>4, <1>6, <1>7 DEF DeltaTypes, HasCursor

\* A turn that begins has the stored cursor, if there is one.
LEMMA BeginIs ==
    ASSUME DeltaTypes, NEW t \in Turn, Begin(t)
    PROVE  /\ DeltaTypes' /\ UNCHANGED <<corpus, chats, began>>
           /\ turn[t].pc = "idle" /\ \A u \in Turn \ {t} : turn'[u] = turn[u]
           /\ turn'[t].chat = FindChat
           /\ turn'[t].stored = IF FindChat = None \/ chats[FindChat] = Bare THEN None ELSE chats[FindChat]
           /\ turn'[t].cursor = turn'[t].stored
           /\ turn'[t].pc = IF turn'[t].stored = None THEN "cover" ELSE "sweep"
<1> DEFINE stored == IF FindChat = None \/ chats[FindChat] = Bare THEN None ELSE chats[FindChat]
           pc == IF stored = None THEN "cover" ELSE "sweep"
           q == [NoTurn EXCEPT !.pc = pc, !.chat = FindChat, !.start = clock,
                               !.stored = stored, !.cursor = stored]
<1>1. /\ turn[t].pc = "idle" /\ turn' = [turn EXCEPT ![t] = q] /\ UNCHANGED <<corpus, chats, began>>
      /\ overlap' \in {overlap, "first", "later"}
      /\ told' \in {told, [v \in Version |-> 0]} /\ swept' \in {{}, swept}
  BY DEF Begin
<1>2. /\ clock \in Time /\ clock \in Nat /\ chats \in [Chat -> Cursor \cup {None, Bare}]
      /\ swept \subseteq Version /\ told \in [Version -> 0..2] /\ began \in 0..MaxTime
      /\ overlap \in {"none", "later", "first"}
  BY NumbersAre DEF DeltaTypes, DeltaTypeOK
<1>3. FindChat \in Chat \cup {None} /\ (FindChat # None => chats[FindChat] # None)
  BY FindChatIs
<1>4. stored \in Cursor \cup {None} /\ (stored # None => HasCursor(FindChat) /\ FindChat \in Chat)
  <2>1. CASE FindChat = None \/ chats[FindChat] = Bare
    BY <2>1
  <2>2. CASE FindChat # None /\ chats[FindChat] # Bare
    <3>1. FindChat \in Chat /\ HasCursor(FindChat)
      BY <1>3, <2>2 DEF HasCursor
    <3> QED
      BY <1>2, <2>2, <3>1, StoredIs
  <2> QED
    BY <2>1, <2>2
<1> HIDE DEF stored
<1>5. /\ q.pc = pc /\ q.chat = FindChat /\ q.start = clock /\ q.stored = stored /\ q.cursor = stored
      /\ q \in TurnState
  <2>1. pc \in {"cover", "sweep"}
    OBVIOUS
  <2> HIDE DEF pc
  <2> QED
    BY <1>2, <1>3, <1>4, <2>1 DEF NoTurn, TurnState
<1> HIDE DEF q
<1>6. q \in TurnState
  BY <1>5
<1>7. turn'[t] = q
  BY <1>1 DEF DeltaTypes, DeltaTypeOK
<1>8. TurnStands(t)'
  <2>1. stored # None => Sane(stored)
    BY <1>4 DEF DeltaTypes, stored
  <2>3. clock' = clock /\ chats' = chats
    BY <1>1 DEF corpus
  <2>4. stored # None => FindChat # None
    BY DEF stored
  <2>5. /\ turn'[t].pc = IF stored = None THEN "cover" ELSE "sweep"
        /\ turn'[t].chat = FindChat /\ turn'[t].start = clock /\ turn'[t].stored = stored
        /\ turn'[t].cursor = stored
    BY <1>5, <1>7
  <2>6. stored # None => turn'[t].cursor.at <= clock /\ \A d \in turn'[t].cursor.seen : stamp'[d] >= turn'[t].cursor.at
    BY <1>1, <2>1, <2>5 DEF Sane, corpus
  <2> QED
    BY <1>2, <1>3, <2>3, <2>4, <2>5, <2>6 DEF TurnStands, Open, Sane
<1>9. DeltaTypes' /\ \A u \in Turn \ {t} : turn'[u] = turn[u]
  <2>1. \A c \in Chat : HasCursor(c)' <=> HasCursor(c)
    BY <1>1 DEF HasCursor
  <2>2. began' # 0 <=> \E c \in Chat : HasCursor(c)'
    BY <1>1, <2>1 DEF DeltaTypes
  <2>3. told' \in [Version -> 0..2]
    BY <1>1, <1>2
  <2>4. overlap' \in {"none", "later", "first"} /\ swept' \subseteq Version /\ began' \in 0..MaxTime /\ UNCHANGED corpus
    BY <1>1, <1>2
  <2>5. chats' \in [Chat -> Cursor \cup {None, Bare}] /\ \A c \in Chat : chats'[c] = chats[c]
    BY <1>1, <1>2
  <2> QED
    BY <1>1, <1>6, <1>8, <2>2, <2>3, <2>4, <2>5, TurnMoves
<1> QED
  BY <1>1, <1>5, <1>7, <1>9 DEF stored

\* It starts where the map ends, if there is none stored.
LEMMA CoverIs ==
    ASSUME DeltaTypes, NEW t \in Turn, Cover(t)
    PROVE  /\ DeltaTypes' /\ UNCHANGED <<corpus, chats, swept, told, began, overlap>>
           /\ turn[t].pc = "cover" /\ \A u \in Turn \ {t} : turn'[u] = turn[u]
           /\ turn'[t].pc = "sweep" /\ turn'[t].chat = turn[t].chat
           /\ turn'[t].stored = None /\ turn[t].stored = None
           /\ turn'[t].cursor = [at |-> turn'[t].start, seen |-> {}]
<1> DEFINE start == CoverageStart(turn[t].start)
           x == [at |-> start, seen |-> {}]
           q == [turn[t] EXCEPT !.pc = "sweep", !.start = start, !.cursor = x]
<1>1. /\ turn[t].pc = "cover" /\ turn' = [turn EXCEPT ![t] = q]
      /\ UNCHANGED <<corpus, chats, swept, told, began, overlap>>
  BY DEF Cover, history
<1>2. /\ turn[t] \in TurnState /\ TurnStands(t) /\ clock \in Time /\ clock \in Nat
      /\ landscape \in Landscape \cup {None} /\ (landscape # None => landscape.at <= clock)
      /\ chats \in [Chat -> Cursor \cup {None, Bare}]
      /\ swept \subseteq Version /\ told \in [Version -> 0..2] /\ began \in 0..MaxTime
      /\ overlap \in {"none", "later", "first"} /\ turn \in [Turn -> TurnState]
      /\ (began # 0 <=> \E c \in Chat : HasCursor(c))
  BY NumbersAre DEF DeltaTypes, DeltaTypeOK
<1>3. start \in Time /\ start <= clock
  BY <1>2, TurnStateIs DEF CoverageStart, TurnStands, Landscape
<1> HIDE DEF start
<1>4. x \in Cursor
  BY <1>3, CursorIs
<1>5. Sane(x) /\ x.at = start /\ x.seen = {}
  BY <1>3 DEF Sane
<1> HIDE DEF x
<1>6. /\ q \in TurnState /\ q.pc = "sweep" /\ q.start = start /\ q.cursor = x
      /\ q.chat = turn[t].chat /\ q.stored = turn[t].stored
  BY <1>2, <1>3, <1>4 DEF TurnState
<1> HIDE DEF q
<1>7. turn'[t] = q
  BY <1>1, <1>2
<1>8. turn[t].stored = None
  BY <1>1, <1>2 DEF TurnStands
<1>9. TurnStands(t)'
  <2>1. turn[t].chat # None => chats[turn[t].chat] # None
    BY <1>1, <1>2 DEF TurnStands, Open
  <2>2. clock' = clock /\ chats' = chats /\ stamp' = stamp
    BY <1>1 DEF corpus
  <2>3. turn'[t].cursor.at <= clock' /\ \A d \in turn'[t].cursor.seen : stamp'[d] >= turn'[t].cursor.at
    BY <1>3, <1>5, <1>6, <1>7, <2>2
  <2>4. turn'[t].cursor # None
    BY <1>4, <1>6, <1>7, CursorIs
  <2> QED
    BY <1>3, <1>6, <1>7, <1>8, <2>1, <2>2, <2>3, <2>4 DEF TurnStands, Open, Sane, x
<1>10. DeltaTypes' /\ \A u \in Turn \ {t} : turn'[u] = turn[u]
  <2>1. began' # 0 <=> \E c \in Chat : HasCursor(c)'
    BY <1>1, <1>2 DEF HasCursor
  <2>2. chats' \in [Chat -> Cursor \cup {None, Bare}] /\ \A c \in Chat : chats'[c] = chats[c]
    BY <1>1, <1>2
  <2>3. /\ swept' \subseteq Version /\ told' \in [Version -> 0..2] /\ began' \in 0..MaxTime
        /\ overlap' \in {"none", "later", "first"} /\ UNCHANGED corpus
    BY <1>1, <1>2
  <2> QED
    BY <1>1, <1>6, <1>9, <2>1, <2>2, <2>3, TurnMoves
<1> QED
  BY <1>1, <1>6, <1>7, <1>8, <1>10 DEF x

Swept(t) == ChangedSince(turn[t].cursor)
Advanced(t) == Advance(turn[t].cursor, Swept(t))

\* A cursor that did not move has found nothing.
LEMMA UnmovedIs ==
    ASSUME DeltaTypes, NEW x \in Cursor, Sane(x), ~Moved(x, Advance(x, ChangedSince(x)))
    PROVE  ChangedSince(x) = {}
<1> DEFINE entries == ChangedSince(x)
           new == Advance(x, entries)
<1>1. clock \in Time /\ stamp \in [Doc -> 0..clock]
  BY DEF DeltaTypes, DeltaTypeOK
<1>2. /\ new \in Cursor
      /\ \A d \in entries : stamp[d] <= new.at /\ (stamp[d] = new.at => d \in new.seen)
      /\ new.at = x.at => x.seen \subseteq new.seen
  BY <1>1, AdvanceIs
<1>3. new.at = x.at /\ Cardinality(new.seen) = Cardinality(x.seen) /\ x.seen \subseteq new.seen
  BY <1>2 DEF Moved
<1>4. IsFiniteSet(new.seen)
  BY <1>2, CursorIs, DocIsFinite, FS_Subset
<1>5. new.seen = x.seen
  BY <1>3, <1>4, FS_Subset
<1>6. \A d \in entries : d \in Doc /\ stamp[d] >= x.at /\ d \notin x.seen
  BY DEF ChangedSince
<1>7. ASSUME NEW d \in entries PROVE FALSE
  <2>1. stamp[d] >= x.at /\ stamp[d] <= x.at /\ stamp[d] \in Nat /\ x.at \in Nat
    BY <1>1, <1>2, <1>3, <1>6, CursorIs, NumbersAre
  <2>2. stamp[d] = new.at
    BY <1>3, <2>1
  <2>3. d \in new.seen
    BY <1>2, <2>2
  <2> QED
    BY <1>5, <1>6, <2>3
<1> QED
  BY <1>7

\* It then has what it found and a cursor past it; without, there is nothing to tell.
LEMMA SweepIs ==
    ASSUME DeltaTypes, NEW t \in Turn, Sweep(t)
    PROVE  /\ DeltaTypes' /\ UNCHANGED <<corpus, chats, told, began, overlap>>
           /\ swept' = IF overlap = "first" THEN {} ELSE swept \cup Versions(Swept(t))
           /\ turn[t].pc = "sweep" /\ \A u \in Turn \ {t} : turn'[u] = turn[u]
           /\ turn'[t].pc \in {"persist", "tell"} /\ turn'[t].chat = turn[t].chat
           /\ turn'[t].start = turn[t].start /\ turn'[t].stored = turn[t].stored
           /\ turn[t].cursor \in Cursor /\ Sane(turn[t].cursor)
           /\ turn'[t].cursor = Advanced(t) /\ turn'[t].entries = Versions(Swept(t))
           /\ turn'[t].pc = "tell" => Swept(t) = {}
<1> DEFINE x == turn[t].cursor
           new == Advanced(t)
           pc == IF Moved(turn[t].stored, new) THEN "persist" ELSE "tell"
           q == [turn[t] EXCEPT !.pc = pc, !.cursor = new, !.entries = Versions(Swept(t))]
<1>1. /\ turn[t].pc = "sweep" /\ turn' = [turn EXCEPT ![t] = q]
      /\ UNCHANGED <<corpus, chats, told, began, overlap>>
      /\ swept' = IF overlap = "first" THEN {} ELSE swept \cup Versions(Swept(t))
  BY DEF Sweep, Swept, Advanced
<1>2. /\ turn[t] \in TurnState /\ TurnStands(t) /\ clock \in Time /\ clock \in Nat
      /\ stamp \in [Doc -> 0..clock]
      /\ chats \in [Chat -> Cursor \cup {None, Bare}]
      /\ swept \subseteq Version /\ told \in [Version -> 0..2] /\ began \in 0..MaxTime
      /\ overlap \in {"none", "later", "first"} /\ turn \in [Turn -> TurnState]
      /\ (began # 0 <=> \E c \in Chat : HasCursor(c))
  BY NumbersAre DEF DeltaTypes, DeltaTypeOK
<1>3. x \in Cursor /\ Sane(x)
  BY <1>1, <1>2, TurnStateIs DEF TurnStands
<1>4. new \in Cursor /\ Sane(new)
  BY <1>2, <1>3, AdvanceIs DEF Advanced, Swept
<1>5. Versions(Swept(t)) \subseteq Version
  <2>1. \A d \in Swept(t) : d \in Doc /\ stamp[d] >= x.at
    BY DEF Swept, ChangedSince
  <2>2. \A d \in Swept(t) : stamp[d] \in Time
    BY <1>2, <1>3, <2>1, CursorIs, NumbersAre DEF Time
  <2> QED
    BY <2>1, <2>2 DEF Versions, Version
<1>6. pc \in {"persist", "tell"}
  OBVIOUS
<1>7. pc = "tell" => ~Moved(turn[t].stored, new)
  OBVIOUS
<1> HIDE DEF pc, new
<1>8. /\ q \in TurnState /\ q.pc = pc /\ q.start = turn[t].start /\ q.cursor = new
      /\ q.chat = turn[t].chat /\ q.stored = turn[t].stored /\ q.entries = Versions(Swept(t))
  BY <1>2, <1>4, <1>5, <1>6 DEF TurnState
<1> HIDE DEF q
<1>9. turn'[t] = q
  BY <1>1, <1>2
<1>10. pc = "tell" => Swept(t) = {}
  <2>1. SUFFICES ASSUME pc = "tell" PROVE Swept(t) = {}
    OBVIOUS
  <2>2. turn[t].stored # None /\ turn[t].stored = x
    BY <1>1, <1>2, <1>7, <2>1 DEF TurnStands, Moved
  <2> QED
    BY <1>3, <1>7, <2>1, <2>2, UnmovedIs DEF new, Advanced, Swept
<1>11. TurnStands(t)'
  <2>1. turn[t].chat # None => chats[turn[t].chat] # None
    BY <1>1, <1>2 DEF TurnStands, Open
  <2>2. clock' = clock /\ chats' = chats /\ stamp' = stamp
    BY <1>1 DEF corpus
  <2>3. turn'[t].cursor.at <= clock' /\ \A d \in turn'[t].cursor.seen : stamp'[d] >= turn'[t].cursor.at
    BY <1>4, <1>8, <1>9, <2>2 DEF Sane
  <2>4. turn'[t].cursor # None
    BY <1>4, <1>8, <1>9, CursorIs
  <2> QED
    BY <1>2, <1>6, <1>8, <1>9, <2>1, <2>2, <2>3, <2>4 DEF TurnStands, Open, Sane
<1>12. DeltaTypes' /\ \A u \in Turn \ {t} : turn'[u] = turn[u]
  <2>1. began' # 0 <=> \E c \in Chat : HasCursor(c)'
    BY <1>1, <1>2 DEF HasCursor
  <2>2. chats' \in [Chat -> Cursor \cup {None, Bare}] /\ \A c \in Chat : chats'[c] = chats[c]
    BY <1>1, <1>2
  <2>3. /\ swept' \subseteq Version /\ told' \in [Version -> 0..2] /\ began' \in 0..MaxTime
        /\ overlap' \in {"none", "later", "first"} /\ UNCHANGED corpus
    BY <1>1, <1>2, <1>5
  <2> QED
    BY <1>1, <1>8, <1>11, <2>1, <2>2, <2>3, TurnMoves
<1> QED
  BY <1>1, <1>3, <1>6, <1>8, <1>9, <1>10, <1>12 DEF new

\* It stores the cursor in the ticket it found, or in a new one.
LEMMA PersistIs ==
    ASSUME DeltaTypes, NEW t \in Turn, Persist(t)
    PROVE  /\ DeltaTypes' /\ UNCHANGED <<corpus, swept, told, overlap>>
           /\ turn[t].pc = "persist" /\ \A u \in Turn \ {t} : turn'[u] = turn[u]
           /\ turn'[t].pc = "tell" /\ turn'[t].entries = turn[t].entries
           /\ turn[t].cursor \in Cursor /\ began' = BeganOr(t) /\ began' # 0
           /\ \E c \in Chat :
                 /\ IF turn[t].chat = None THEN chats[c] = None ELSE c = turn[t].chat /\ chats[c] # None
                 /\ chats'[c] = turn[t].cursor
                 /\ \A e \in Chat \ {c} : chats'[e] = chats[e]
<1> DEFINE q == [turn[t] EXCEPT !.pc = "tell"]
<1>1. /\ turn[t].pc = "persist" /\ turn' = [turn EXCEPT ![t].pc = "tell"]
      /\ UNCHANGED <<corpus, swept, told, overlap>> /\ began' = BeganOr(t)
  BY DEF Persist, BeganOr
<1>2. PICK c \in Chat : /\ IF turn[t].chat = None THEN chats[c] = None ELSE c = turn[t].chat
                        /\ chats' = [chats EXCEPT ![c] = turn[t].cursor]
  BY DEF Persist
<1>3. /\ turn[t] \in TurnState /\ TurnStands(t) /\ clock \in Time /\ clock \in Nat
      /\ stamp \in [Doc -> 0..clock]
      /\ chats \in [Chat -> Cursor \cup {None, Bare}]
      /\ swept \subseteq Version /\ told \in [Version -> 0..2] /\ began \in 0..MaxTime
      /\ overlap \in {"none", "later", "first"} /\ turn \in [Turn -> TurnState]
  BY NumbersAre DEF DeltaTypes, DeltaTypeOK
<1>4. turn[t].cursor \in Cursor /\ Sane(turn[t].cursor)
  BY <1>1, <1>3, TurnStateIs DEF TurnStands
<1>5. /\ q \in TurnState /\ q.pc = "tell" /\ q.start = turn[t].start /\ q.cursor = turn[t].cursor
      /\ q.chat = turn[t].chat /\ q.stored = turn[t].stored /\ q.entries = turn[t].entries
  BY <1>3 DEF TurnState
<1>6. turn' = [turn EXCEPT ![t] = q]
  BY <1>1, <1>3
<1> HIDE DEF q
<1>7. turn'[t] = q
  BY <1>3, <1>6
<1>8. chats'[c] = turn[t].cursor /\ \A e \in Chat \ {c} : chats'[e] = chats[e]
  BY <1>2, <1>3
<1>9. turn[t].chat # None => chats[c] # None
  BY <1>1, <1>2, <1>3 DEF TurnStands, Open
<1>10. began' # 0 /\ began' \in 0..MaxTime
  BY <1>1, <1>3, TurnStateIs, NumbersAre DEF BeganOr
<1>11. HasCursor(c)'
  BY <1>4, <1>8, CursorIs DEF HasCursor
<1>12. TurnStands(t)'
  <2>1. clock' = clock /\ stamp' = stamp
    BY <1>1 DEF corpus
  <2>2. turn'[t].cursor.at <= clock' /\ \A d \in turn'[t].cursor.seen : stamp'[d] >= turn'[t].cursor.at
    BY <1>4, <1>5, <1>7, <2>1 DEF Sane
  <2>3. turn'[t].cursor # None
    BY <1>4, <1>5, <1>7, CursorIs
  <2> QED
    BY <1>3, <1>5, <1>7, <2>1, <2>2, <2>3 DEF TurnStands, Open, Sane
<1>13. DeltaTypes' /\ \A u \in Turn \ {t} : turn'[u] = turn[u]
  <2>1. began' # 0 <=> \E e \in Chat : HasCursor(e)'
    BY <1>10, <1>11
  <2>2. chats' \in [Chat -> Cursor \cup {None, Bare}]
    BY <1>2, <1>3, <1>4
  <2>3. \A e \in Chat : chats'[e] # chats[e] => chats'[e] \in Cursor /\ Sane(chats'[e])
    BY <1>4, <1>8
  <2>4. /\ swept' \subseteq Version /\ told' \in [Version -> 0..2]
        /\ overlap' \in {"none", "later", "first"} /\ UNCHANGED corpus
    BY <1>1, <1>3
  <2> QED
    BY <1>5, <1>6, <1>10, <1>12, <2>1, <2>2, <2>3, <2>4, TurnMoves
<1> QED
  BY <1>1, <1>2, <1>4, <1>5, <1>7, <1>8, <1>9, <1>10, <1>13

\* A turn that is over leaves everything but what was told.
LEMMA OverIs ==
    ASSUME DeltaTypes, NEW t \in Turn, Tell(t) \/ Abandon(t)
    PROVE  /\ DeltaTypes' /\ UNCHANGED <<corpus, chats, swept, began, overlap>>
           /\ turn[t].pc # "idle" /\ \A u \in Turn \ {t} : turn'[u] = turn[u]
           /\ turn'[t].pc = "idle"
           /\ \A v \in Version : \/ told'[v] = told[v]
                                 \/ /\ turn[t].pc = "tell" /\ v \in turn[t].entries
                                    /\ told'[v] = told[v] + 1
<1>1. /\ turn[t].pc # "idle" /\ turn' = [turn EXCEPT ![t] = NoTurn]
      /\ UNCHANGED <<corpus, chats, swept, began, overlap>>
  BY DEF Tell, Abandon, history
<1>2. /\ clock \in Time /\ clock \in Nat /\ turn \in [Turn -> TurnState]
      /\ chats \in [Chat -> Cursor \cup {None, Bare}]
      /\ swept \subseteq Version /\ told \in [Version -> 0..2] /\ began \in 0..MaxTime
      /\ overlap \in {"none", "later", "first"}
      /\ (began # 0 <=> \E c \in Chat : HasCursor(c))
  BY NumbersAre DEF DeltaTypes, DeltaTypeOK
<1>3. /\ told' \in [Version -> 0..2]
      /\ \A v \in Version : told'[v] = told[v] \/ (turn[t].pc = "tell" /\ v \in turn[t].entries /\ told'[v] = told[v] + 1)
  <2>1. CASE Tell(t)
    BY <1>2, <2>1 DEF Tell
  <2>2. CASE Abandon(t)
    BY <1>2, <2>2 DEF Abandon, history
  <2> QED
    BY <2>1, <2>2
<1>4. turn'[t] = NoTurn
  BY <1>1, <1>2
<1>5. TurnStands(t)'
  BY <1>1, <1>2, <1>4, NoTurnIs, NumbersAre DEF TurnStands, Open, corpus
<1>6. DeltaTypes' /\ \A u \in Turn \ {t} : turn'[u] = turn[u]
  <2>1. began' # 0 <=> \E c \in Chat : HasCursor(c)'
    BY <1>1, <1>2 DEF HasCursor
  <2>2. chats' \in [Chat -> Cursor \cup {None, Bare}] /\ \A c \in Chat : chats'[c] = chats[c]
    BY <1>1, <1>2
  <2>3. /\ swept' \subseteq Version /\ began' \in 0..MaxTime
        /\ overlap' \in {"none", "later", "first"} /\ UNCHANGED corpus
    BY <1>1, <1>2
  <2> QED
    BY <1>1, <1>3, <1>5, <2>1, <2>2, <2>3, NoTurnIs, TurnMoves
<1> QED
  BY <1>1, <1>3, <1>4, <1>6, NoTurnIs

\* A step of the conversation's world, or of one of its turns.
InCorpus == Tick \/ (\E d \in Doc : Upload(d)) \/ (\E b \in Build : ReadCorpus(b) \/ PublishMap(b))
OfTurn(t) == Begin(t) \/ Cover(t) \/ Sweep(t) \/ Persist(t) \/ Tell(t) \/ Abandon(t)

\* A step is of the corpus or of one turn.
LEMMA StepIs == DeltaNext => InCorpus \/ \E t \in Turn : OfTurn(t)
BY DEF DeltaNext, InCorpus, OfTurn

\* Every step keeps the types.
LEMMA StepTypes == DeltaTypes /\ [DeltaNext]_deltaVars => DeltaTypes'
<1> SUFFICES ASSUME DeltaTypes, [DeltaNext]_deltaVars PROVE DeltaTypes'
  OBVIOUS
<1>1. CASE UNCHANGED deltaVars
  BY <1>1 DEF deltaVars, DeltaTypes, DeltaTypeOK, TurnStands, Open, HasCursor, Sane
<1>2. CASE InCorpus
  BY <1>2, CorpusTypes DEF InCorpus
<1>3. ASSUME NEW t \in Turn, OfTurn(t) PROVE DeltaTypes'
  BY <1>3, BeginIs, CoverIs, SweepIs, PersistIs, OverIs DEF OfTurn
<1> QED
  BY <1>1, <1>2, <1>3, StepIs

-----------------------------------------------------------------------------
(* One ticket.                                                              *)

\* At most one ticket is there, and no turn.
LEMMA OneTicketStarts == DeltaInit => OneTicket
BY NoTurnIs DEF DeltaInit, OneTicket, Open

\* When turns overlap.
LEMMA OverlapIs ==
    ASSUME NEW t \in Turn, Begin(t)
    PROVE  /\ overlap' # "first" =>
                 /\ overlap # "first" /\ swept' = swept
                 /\ began # 0 \/ \A u \in Turn : turn[u].pc = "idle"
           /\ overlap' = "none" => overlap = "none" /\ told' = told /\ \A u \in Turn : turn[u].pc = "idle"
BY DEF Begin

\* A turn begins with the ticket there is, and with its cursor if it has one.
LEMMA OneTicketBegins ==
    ASSUME DeltaTypes, OneTicket, NEW t \in Turn, Begin(t)
    PROVE  OneTicket'
<1> SUFFICES ASSUME overlap' # "first" PROVE OneTicket'
  BY DEF OneTicket
<1>1. /\ UNCHANGED <<chats, began>> /\ \A u \in Turn \ {t} : turn'[u] = turn[u]
      /\ turn'[t].chat = FindChat
      /\ turn'[t].stored = IF FindChat = None \/ chats[FindChat] = Bare THEN None ELSE chats[FindChat]
  BY BeginIs
<1>2. overlap # "first" /\ (began # 0 \/ \A u \in Turn : turn[u].pc = "idle")
  BY OverlapIs
<1>3. \A c, e \in Chat : chats[c] # None /\ chats[e] # None => c = e
  BY <1>2 DEF OneTicket
<1>4. began # 0 <=> \E c \in Chat : HasCursor(c)
  BY DEF DeltaTypes
<1>5. turn'[t].chat = None => \A c \in Chat : chats[c] = None
  <2>1. FindChat = None => FindChat \notin Chat
    BY NoneIsNoCursor
  <2> QED
    BY <1>1, <2>1, FindChatIs
<1>6. turn'[t].stored = None <=> began = 0
  <2>1. CASE began = 0
    <3>1. \A c \in Chat : chats[c] = None \/ chats[c] = Bare
      BY <1>4, <2>1 DEF HasCursor
    <3>2. FindChat \in Chat \/ FindChat = None
      BY FindChatIs
    <3> QED
      BY <1>1, <2>1, <3>1, <3>2
  <2>2. CASE began # 0
    <3>1. PICK c \in Chat : HasCursor(c)
      BY <1>4, <2>2
    <3>2. FindChat = c
      BY <1>3, <3>1, FindChatIs DEF HasCursor
    <3>3. FindChat # None
      BY <3>1, <3>2, NoneIsNoCursor
    <3> QED
      BY <1>1, <2>2, <3>1, <3>2, <3>3 DEF HasCursor
  <2> QED
    BY <2>1, <2>2
<1>7. ASSUME began' = 0, NEW u \in Turn, turn'[u].pc # "idle" PROVE u = t
  BY <1>1, <1>2, <1>7
<1>8. ASSUME NEW u \in Turn, Open(u)'
      PROVE  /\ turn'[u].stored = None <=> began' = 0
             /\ turn'[u].chat = None => \A c \in Chat : chats'[c] = None
  <2>1. CASE u = t
    BY <1>1, <1>5, <1>6, <2>1
  <2>2. CASE u # t
    <3>1. turn'[u] = turn[u] /\ Open(u)
      BY <1>1, <1>8, <2>2 DEF Open
    <3> QED
      BY <1>1, <1>2, <3>1 DEF OneTicket
  <2> QED
    BY <2>1, <2>2
<1> QED
  BY <1>1, <1>3, <1>7, <1>8 DEF OneTicket

\* Whoever makes a ticket is alone, as no cursor was there, so it is the only one.
LEMMA OneTicketStored ==
    ASSUME DeltaTypes, OneTicket, NEW t \in Turn, Persist(t)
    PROVE  OneTicket'
<1> SUFFICES ASSUME overlap' # "first" PROVE OneTicket'
  BY DEF OneTicket
<1>1. /\ UNCHANGED overlap /\ turn[t].pc = "persist" /\ \A u \in Turn \ {t} : turn'[u] = turn[u]
      /\ turn'[t].pc = "tell" /\ began' # 0
  BY PersistIs
<1>2. PICK c \in Chat :
          /\ IF turn[t].chat = None THEN chats[c] = None ELSE c = turn[t].chat /\ chats[c] # None
          /\ \A e \in Chat \ {c} : chats'[e] = chats[e]
  BY PersistIs
<1>3. turn[t].chat = None => \A e \in Chat : chats[e] = None
  BY <1>1 DEF OneTicket, Open
<1>4. \A e \in Chat : chats'[e] # None => e = c
  BY <1>1, <1>2, <1>3 DEF OneTicket
<1>5. ASSUME NEW u \in Turn, Open(u)'
      PROVE  /\ turn'[u].stored = None <=> began' = 0
             /\ turn'[u].chat = None => \A e \in Chat : chats'[e] = None
  <2>1. u # t
    BY <1>1, <1>5 DEF Open
  <2>2. turn'[u] = turn[u] /\ Open(u)
    BY <1>1, <1>5, <2>1 DEF Open
  <2>3. began # 0
    BY <1>1, <2>1, <2>2 DEF OneTicket, Open
  <2>4. \E e \in Chat : chats[e] # None
    BY <2>3 DEF DeltaTypes, HasCursor
  <2> QED
    BY <1>1, <2>2, <2>3, <2>4 DEF OneTicket
<1> QED
  BY <1>1, <1>4, <1>5 DEF OneTicket

\* Every step keeps the conversation on one ticket, unless first turns overlap.
LEMMA StepOneTicket == DeltaTypes /\ OneTicket /\ [DeltaNext]_deltaVars => OneTicket'
<1> SUFFICES ASSUME DeltaTypes, OneTicket, [DeltaNext]_deltaVars PROVE OneTicket'
  OBVIOUS
<1>1. CASE UNCHANGED deltaVars \/ InCorpus
  <2>1. UNCHANGED <<chats, turn, began, overlap>>
    BY <1>1, CorpusTypes DEF InCorpus, deltaVars
  <2> QED
    BY <2>1 DEF OneTicket, Open
<1>2. ASSUME NEW t \in Turn, Cover(t) \/ Sweep(t) \/ Tell(t) \/ Abandon(t) PROVE OneTicket'
  <2>1. /\ UNCHANGED <<chats, began, overlap>> /\ turn[t].pc # "idle"
        /\ \A u \in Turn \ {t} : turn'[u] = turn[u]
        /\ Open(t)' => Open(t) /\ turn'[t].chat = turn[t].chat /\ turn'[t].stored = turn[t].stored
    BY <1>2, CoverIs, SweepIs, OverIs DEF Open
  <2>2. \A u \in Turn : turn'[u].pc # "idle" => turn[u].pc # "idle"
    BY <2>1
  <2>3. ASSUME NEW u \in Turn, Open(u)'
        PROVE  Open(u) /\ turn'[u].chat = turn[u].chat /\ turn'[u].stored = turn[u].stored
    BY <2>1, <2>3 DEF Open
  <2> QED
    BY <2>1, <2>2, <2>3 DEF OneTicket
<1> QED
  BY <1>1, <1>2, OneTicketBegins, OneTicketStored, StepIs DEF OfTurn

-----------------------------------------------------------------------------
(* What is behind a cursor was found.                                       *)

\* Behind a first cursor there is nothing.
LEMMA CaughtStarts == DeltaInit => CursorsAreCaught
<1> SUFFICES ASSUME DeltaInit PROVE CursorsAreCaught
  OBVIOUS
<1>1. ASSUME NEW c \in Chat, HasCursor(c) PROVE Caught(chats[c], began)
  <2>1. began \in Nat /\ began # 0
    <3>1. DeltaTypes
      BY DeltaTypesStart
    <3> QED
      BY <1>1, <3>1, NumbersAre DEF DeltaTypes, DeltaTypeOK
  <2>2. \A d \in Doc : ~(began <= stamp[d])
    BY <2>1 DEF DeltaInit
  <2>3. chats[c].seen = {}
    BY <1>1 DEF DeltaInit, HasCursor
  <2> QED
    BY <2>2, <2>3 DEF Caught
<1>2. \A t \in Turn : turn[t].pc = "idle"
  BY NoTurnIs DEF DeltaInit
<1> QED
  BY <1>1, <1>2 DEF CursorsAreCaught

\* An upload is at the instant, and so in front of every cursor.
LEMMA CaughtOverCorpus ==
    ASSUME DeltaTypes, CursorsAreCaught, InCorpus
    PROVE  CursorsAreCaught'
<1>1. /\ UNCHANGED <<chats, turn, swept, began, overlap>>
      /\ \A d \in Doc : stamp'[d] \in {stamp[d], clock}
  BY CorpusTypes DEF InCorpus
<1>2. ASSUME NEW x \in Cursor, NEW from, Sane(x), Caught(x, from)
      PROVE  \A d \in Doc : d \in x.seen \/ (from <= stamp'[d] /\ stamp'[d] < x.at) => Found(d)
  <2> SUFFICES ASSUME NEW d \in Doc, d \notin x.seen, from <= stamp'[d], stamp'[d] < x.at PROVE Found(d)
    BY <1>2 DEF Caught
  <2>1. x.at \in Nat /\ clock \in Nat /\ x.at <= clock
    BY <1>2, CursorIs, NumbersAre DEF Sane, DeltaTypes, DeltaTypeOK
  <2>2. stamp'[d] = stamp[d]
    BY <1>1, <2>1
  <2> QED
    BY <1>2, <2>2 DEF Caught
<1>3. ASSUME overlap # "first", NEW c \in Chat, HasCursor(c) PROVE Caught(chats[c], began)'
  <2>1. chats[c] \in Cursor /\ Sane(chats[c]) /\ Caught(chats[c], began)
    BY <1>3, StoredIs DEF DeltaTypes, DeltaTypeOK, CursorsAreCaught
  <2> QED
    BY <1>1, <1>2, <2>1 DEF Caught, Found
<1>4. ASSUME overlap # "first", NEW t \in Turn, turn[t].pc \in {"sweep", "persist"}
      PROVE  Caught(turn[t].cursor, BeganOr(t))'
  <2>1. Sane(turn[t].cursor) /\ Caught(turn[t].cursor, BeganOr(t)) /\ turn[t].cursor # None
    BY <1>4 DEF DeltaTypes, TurnStands, CursorsAreCaught
  <2>2. turn[t].cursor \in Cursor
    BY <2>1, TurnStateIs DEF DeltaTypes, DeltaTypeOK
  <2>3. \A d \in Doc : d \in turn[t].cursor.seen \/ (BeganOr(t) <= stamp'[d] /\ stamp'[d] < turn[t].cursor.at) => Found(d)
    BY <1>2, <2>1, <2>2
  <2> QED
    BY <1>1, <2>3 DEF Caught, Found, BeganOr
<1> QED
  BY <1>1, <1>3, <1>4 DEF CursorsAreCaught, HasCursor

\* A turn's step leaves the corpus: what it does not touch stays caught.
LEMMA CaughtOverTurn ==
    ASSUME CursorsAreCaught, UNCHANGED corpus, NEW t \in Turn, overlap # "first",
           swept \subseteq swept', \A u \in Turn \ {t} : turn'[u] = turn[u],
           began' = began \/ \A u \in Turn \ {t} : turn[u].pc = "idle",
           \A c \in Chat : HasCursor(c)' => Caught(chats[c], began)' \/ (began' = began /\ chats'[c] = chats[c]),
           turn'[t].pc \in {"sweep", "persist"} => Caught(turn[t].cursor, BeganOr(t))'
    PROVE  CursorsAreCaught'
<1>1. stamp' = stamp
  BY DEF corpus
<1>2. ASSUME NEW c \in Chat, HasCursor(c)' PROVE Caught(chats[c], began)'
  <2>1. CASE began' = began /\ chats'[c] = chats[c]
    <3>1. Caught(chats[c], began)
      BY <1>2, <2>1 DEF CursorsAreCaught, HasCursor
    <3> QED
      BY <1>1, <2>1, <3>1 DEF Caught, Found
  <2> QED
    BY <1>2, <2>1
<1>3. ASSUME NEW u \in Turn, turn'[u].pc \in {"sweep", "persist"}, u # t
      PROVE  Caught(turn[u].cursor, BeganOr(u))'
  <2>1. turn'[u] = turn[u] /\ began' = began /\ Caught(turn[u].cursor, BeganOr(u))
    BY <1>3 DEF CursorsAreCaught
  <2> QED
    BY <1>1, <2>1 DEF Caught, Found, BeganOr
<1> QED
  BY <1>2, <1>3 DEF CursorsAreCaught

\* A turn starts from a stored cursor, behind which everything was found.
LEMMA CaughtBegins ==
    ASSUME DeltaTypes, CursorsAreCaught, NEW t \in Turn, Begin(t)
    PROVE  CursorsAreCaught'
<1> SUFFICES ASSUME overlap' # "first" PROVE CursorsAreCaught'
  BY DEF CursorsAreCaught
<1>1. /\ UNCHANGED <<corpus, chats, began>> /\ \A u \in Turn \ {t} : turn'[u] = turn[u]
      /\ turn'[t].stored = IF FindChat = None \/ chats[FindChat] = Bare THEN None ELSE chats[FindChat]
      /\ turn'[t].cursor = turn'[t].stored
      /\ turn'[t].pc = IF turn'[t].stored = None THEN "cover" ELSE "sweep"
  BY BeginIs
<1>2. overlap # "first" /\ swept' = swept
  BY OverlapIs
<1>3. ASSUME turn'[t].pc \in {"sweep", "persist"} PROVE Caught(turn[t].cursor, BeganOr(t))'
  <2>1. FindChat # None /\ chats[FindChat] # Bare /\ turn'[t].cursor = chats[FindChat]
    BY <1>1, <1>3
  <2>2. FindChat \in Chat /\ HasCursor(FindChat)
    BY <2>1, FindChatIs DEF HasCursor
  <2>3. began # 0 /\ Caught(chats[FindChat], began)
    BY <1>2, <2>2 DEF DeltaTypes, CursorsAreCaught
  <2> QED
    BY <1>1, <1>2, <2>1, <2>3 DEF Caught, Found, BeganOr, corpus
<1> QED
  BY <1>1, <1>2, <1>3, CaughtOverTurn

\* A turn that found no cursor makes one, behind which nothing counts.
LEMMA CaughtCovers ==
    ASSUME DeltaTypes, OneTicket, CursorsAreCaught, NEW t \in Turn, Cover(t)
    PROVE  CursorsAreCaught'
<1> SUFFICES ASSUME overlap' # "first" PROVE CursorsAreCaught'
  BY DEF CursorsAreCaught
<1>1. /\ UNCHANGED <<corpus, chats, swept, began, overlap>> /\ \A u \in Turn \ {t} : turn'[u] = turn[u]
      /\ turn[t].pc = "cover" /\ turn[t].stored = None
      /\ turn'[t].cursor = [at |-> turn'[t].start, seen |-> {}]
      /\ DeltaTypes'
  BY CoverIs
<1>2. began' = 0
  BY <1>1 DEF OneTicket, Open
<1>3. turn'[t].start \in Nat /\ \A d \in Doc : stamp'[d] \in Nat
  BY <1>1, TurnStateIs, NumbersAre DEF DeltaTypes, DeltaTypeOK
<1>4. Caught(turn[t].cursor, BeganOr(t))'
  BY <1>1, <1>2, <1>3 DEF Caught, BeganOr
<1> QED
  BY <1>1, <1>4, CaughtOverTurn

\* What a sweep found is behind the new cursor, and the rest of it was before.
LEMMA CaughtSweeps ==
    ASSUME DeltaTypes, CursorsAreCaught, NEW t \in Turn, Sweep(t)
    PROVE  CursorsAreCaught'
<1> SUFFICES ASSUME overlap' # "first" PROVE CursorsAreCaught'
  BY DEF CursorsAreCaught
<1> DEFINE x == turn[t].cursor
           new == Advanced(t)
<1>1. /\ UNCHANGED <<corpus, chats, began, overlap>> /\ \A u \in Turn \ {t} : turn'[u] = turn[u]
      /\ swept' = IF overlap = "first" THEN {} ELSE swept \cup Versions(Swept(t))
      /\ turn[t].pc = "sweep" /\ turn'[t].start = turn[t].start
      /\ x \in Cursor /\ Sane(x) /\ turn'[t].cursor = new
  BY SweepIs
<1>2. swept' = swept \cup Versions(Swept(t)) /\ overlap # "first" /\ stamp' = stamp
  BY <1>1 DEF corpus
<1>3. clock \in Time /\ stamp \in [Doc -> 0..clock] /\ x.at \in Nat /\ x.at > 0
  BY <1>1, CursorIs DEF DeltaTypes, DeltaTypeOK
<1>4. new.seen \subseteq Swept(t) \cup x.seen
  BY <1>1, <1>3, AdvanceIs DEF Advanced, Swept
<1>5. Caught(x, BeganOr(t))
  BY <1>1, <1>2 DEF CursorsAreCaught
<1>6. ASSUME NEW d \in Swept(t) PROVE \E s \in Time : <<d, s>> \in swept'
  <2>1. d \in Doc /\ stamp[d] >= x.at
    BY DEF Swept, ChangedSince
  <2>2. stamp[d] \in Time
    BY <1>3, <2>1, NumbersAre DEF Time
  <2> QED
    BY <1>2, <2>2 DEF Versions
<1>7. ASSUME NEW d \in Doc, d \in new.seen \/ (BeganOr(t) <= stamp[d] /\ stamp[d] < new.at)
      PROVE  \E s \in Time : <<d, s>> \in swept'
  <2>1. CASE d \in Swept(t)
    BY <1>6, <2>1
  <2>2. CASE d \in x.seen \/ (BeganOr(t) <= stamp[d] /\ stamp[d] < x.at)
    BY <1>2, <1>5, <2>2 DEF Caught, Found
  <2>3. stamp[d] \in Nat
    BY <1>3
  <2>4. d \in Swept(t) \/ d \in x.seen \/ (BeganOr(t) <= stamp[d] /\ stamp[d] < x.at)
    BY <1>3, <1>4, <1>7, <2>3 DEF Swept, ChangedSince
  <2> QED
    BY <2>1, <2>2, <2>4
<1>8. BeganOr(t)' = BeganOr(t)
  BY <1>1 DEF BeganOr
<1> HIDE DEF new
<1>9. Caught(turn[t].cursor, BeganOr(t))'
  BY <1>1, <1>2, <1>7, <1>8 DEF Caught, Found
<1> QED
  BY <1>1, <1>2, <1>9, CaughtOverTurn

\* Storing a cursor adds none that a turn did not hold.
LEMMA CaughtStored ==
    ASSUME DeltaTypes, OneTicket, CursorsAreCaught, NEW t \in Turn, Persist(t)
    PROVE  CursorsAreCaught'
<1> SUFFICES ASSUME overlap' # "first" PROVE CursorsAreCaught'
  BY DEF CursorsAreCaught
<1>1. /\ UNCHANGED <<corpus, swept, overlap>> /\ \A u \in Turn \ {t} : turn'[u] = turn[u]
      /\ turn[t].pc = "persist" /\ turn'[t].pc = "tell" /\ began' = BeganOr(t)
  BY PersistIs
<1>2. PICK c \in Chat : chats'[c] = turn[t].cursor /\ \A e \in Chat \ {c} : chats'[e] = chats[e]
  BY PersistIs
<1>3. Caught(turn[t].cursor, BeganOr(t)) /\ stamp' = stamp
  BY <1>1 DEF CursorsAreCaught, corpus
<1>4. Caught(chats[c], began)'
  BY <1>1, <1>2, <1>3 DEF Caught, Found
<1>5. began' = began \/ began = 0
  BY <1>1 DEF BeganOr
<1>6. began' = began \/ \A u \in Turn \ {t} : turn[u].pc = "idle"
  BY <1>1, <1>5 DEF OneTicket
<1>7. \A e \in Chat \ {c} : HasCursor(e)' => began' = began /\ chats'[e] = chats[e]
  BY <1>2, <1>5 DEF HasCursor, DeltaTypes
<1> QED
  BY <1>1, <1>4, <1>6, <1>7, CaughtOverTurn

\* Every step leaves everything behind every cursor found.
LEMMA StepCaught == DeltaTypes /\ OneTicket /\ CursorsAreCaught /\ [DeltaNext]_deltaVars => CursorsAreCaught'
<1> SUFFICES ASSUME DeltaTypes, OneTicket, CursorsAreCaught, [DeltaNext]_deltaVars PROVE CursorsAreCaught'
  OBVIOUS
<1>1. CASE UNCHANGED deltaVars
  BY <1>1 DEF CursorsAreCaught, Caught, Found, HasCursor, BeganOr, deltaVars
<1>2. ASSUME NEW t \in Turn, Tell(t) \/ Abandon(t) PROVE CursorsAreCaught'
  <2>1. /\ UNCHANGED <<corpus, chats, swept, began, overlap>> /\ \A u \in Turn \ {t} : turn'[u] = turn[u]
        /\ turn'[t].pc = "idle"
    BY <1>2, OverIs
  <2> QED
    BY <2>1, CaughtOverTurn DEF CursorsAreCaught
<1> QED
  BY <1>1, <1>2, CaughtOverCorpus, CaughtBegins, CaughtCovers, CaughtSweeps, CaughtStored, StepIs DEF OfTurn

-----------------------------------------------------------------------------
(* What was told is behind the cursor.                                      *)

\* Nothing was told.
LEMMA ToldStarts == DeltaInit => ToldIsBehind
<1> SUFFICES ASSUME DeltaInit PROVE ToldIsBehind
  OBVIOUS
<1>1. \A t \in Turn : turn[t].pc = "idle"
  BY NoTurnIs DEF DeltaInit
<1>2. \A v \in Version : told[v] = 0
  BY DEF DeltaInit
<1> QED
  BY <1>1, <1>2 DEF ToldIsBehind

\* A turn's step that tells nothing and stores nothing.
LEMMA ToldOverTurn ==
    ASSUME ToldIsBehind, overlap = "none", overlap' = "none", UNCHANGED <<chats, told, began>>,
           NEW t \in Turn, \A u \in Turn \ {t} : turn'[u] = turn[u],
           turn[t].pc # "idle" \/ \A u \in Turn : turn[u].pc = "idle",
           turn'[t].pc = "sweep" /\ turn'[t].stored # None =>
               turn'[t].chat # None /\ turn'[t].stored = chats[turn'[t].chat],
           turn'[t].pc = "persist" => \A v \in Version :
               /\ told[v] # 0 => Passed(turn'[t].cursor, v)
               /\ v \in turn'[t].entries => told[v] = 0 /\ Passed(turn'[t].cursor, v),
           turn'[t].pc = "tell" => turn'[t].entries = {}
    PROVE  ToldIsBehind'
<1>1. \A u \in Turn : turn'[u].pc # "idle" => u = t
  BY DEF ToldIsBehind
<1>2. \A v \in Version : told'[v] <= 1 /\ (told'[v] # 0 => IsBehind(v)')
  BY DEF ToldIsBehind, IsBehind, HasCursor
<1>3. turn'[t].pc = "sweep" /\ turn'[t].stored # None =>
          turn'[t].chat # None /\ turn'[t].stored = chats'[turn'[t].chat]
  OBVIOUS
<1>4. turn'[t].pc = "persist" => \A v \in Version :
          /\ told'[v] # 0 => Passed(turn[t].cursor, v)'
          /\ v \in turn'[t].entries => told'[v] = 0 /\ Passed(turn[t].cursor, v)'
  BY DEF Passed
<1>5. turn'[t].pc = "tell" => \A v \in turn'[t].entries : told'[v] = 0 /\ IsBehind(v)'
  OBVIOUS
<1> QED
  BY <1>1, <1>2, <1>3, <1>4, <1>5 DEF ToldIsBehind

\* A turn alone starts from the stored cursor, behind which is what was told.
LEMMA ToldBegins ==
    ASSUME DeltaTypes, ToldIsBehind, NEW t \in Turn, Begin(t)
    PROVE  ToldIsBehind'
<1> SUFFICES ASSUME overlap' = "none" PROVE ToldIsBehind'
  BY DEF ToldIsBehind
<1>1. /\ UNCHANGED <<corpus, chats, began>> /\ \A u \in Turn \ {t} : turn'[u] = turn[u]
      /\ turn'[t].chat = FindChat
      /\ turn'[t].stored = IF FindChat = None \/ chats[FindChat] = Bare THEN None ELSE chats[FindChat]
      /\ turn'[t].pc = IF turn'[t].stored = None THEN "cover" ELSE "sweep"
  BY BeginIs
<1>2. overlap = "none" /\ told' = told /\ \A u \in Turn : turn[u].pc = "idle"
  BY OverlapIs
<1> QED
  BY <1>1, <1>2, ToldOverTurn

\* What a sweep found was not told: it was not behind the stored cursor.
LEMMA ToldSweeps ==
    ASSUME DeltaTypes, OneTicket, ToldIsBehind, NEW t \in Turn, Sweep(t)
    PROVE  ToldIsBehind'
<1> SUFFICES ASSUME overlap' = "none" PROVE ToldIsBehind'
  BY DEF ToldIsBehind
<1> DEFINE x == turn[t].cursor
           new == Advanced(t)
<1>1. /\ UNCHANGED <<corpus, chats, told, began, overlap>> /\ \A u \in Turn \ {t} : turn'[u] = turn[u]
      /\ turn[t].pc = "sweep" /\ turn'[t].pc \in {"persist", "tell"}
      /\ x \in Cursor /\ Sane(x)
      /\ turn'[t].cursor = new /\ turn'[t].entries = Versions(Swept(t))
      /\ turn'[t].pc = "tell" => Swept(t) = {}
  BY SweepIs
<1>2. clock \in Time /\ stamp \in [Doc -> 0..clock] /\ x.at \in Nat /\ x.at > 0 /\ turn[t] \in TurnState
  BY <1>1, CursorIs DEF DeltaTypes, DeltaTypeOK
<1>3. /\ new \in Cursor /\ x.at <= new.at
      /\ \A d \in Swept(t) : stamp[d] <= new.at /\ (stamp[d] = new.at => d \in new.seen)
      /\ new.at = x.at => x.seen \subseteq new.seen
  BY <1>1, <1>2, AdvanceIs DEF Advanced, Swept
<1> HIDE DEF new
<1>4. new.at \in Nat
  BY <1>3, CursorIs
<1>5. \A v \in Version : v[2] \in Nat
  BY NumbersAre DEF Version
<1>6. \A d \in Swept(t) : d \in Doc /\ stamp[d] \in Nat /\ stamp[d] >= x.at /\ d \notin x.seen
  BY <1>2, NumbersAre DEF Swept, ChangedSince
<1>7. ASSUME NEW v \in Version, told[v] # 0 PROVE Passed(x, v)
  <2>1. IsBehind(v)
    BY <1>1, <1>7 DEF ToldIsBehind
  <2>2. turn[t].stored # None
    BY <1>1, <2>1 DEF OneTicket, Open, IsBehind
  <2>3. x = turn[t].stored /\ turn[t].chat # None /\ x = chats[turn[t].chat]
    BY <1>1, <2>2 DEF ToldIsBehind, DeltaTypes, TurnStands
  <2>4. turn[t].chat \in Chat /\ HasCursor(turn[t].chat)
    BY <1>1, <1>2, <2>3, CursorIs, TurnStateIs DEF HasCursor
  <2> QED
    BY <2>1, <2>3, <2>4 DEF IsBehind
<1>8. ASSUME NEW v \in Version, told[v] # 0 PROVE Passed(new, v)
  BY <1>2, <1>3, <1>4, <1>5, <1>7, <1>8 DEF Passed
<1>9. ASSUME NEW v \in Version, v \in Versions(Swept(t)) PROVE told[v] = 0 /\ Passed(new, v)
  <2>1. PICK d \in Swept(t) : v = <<d, stamp[d]>>
    BY <1>9 DEF Versions
  <2>2. v[1] = d /\ v[2] = stamp[d]
    BY <2>1
  <2>3. ~Passed(x, v)
    BY <1>2, <1>6, <2>2 DEF Passed
  <2>4. Passed(new, v)
    BY <1>3, <1>4, <1>6, <2>2 DEF Passed
  <2> QED
    BY <1>7, <2>3, <2>4
<1>10. turn'[t].pc = "tell" => turn'[t].entries = {}
  BY <1>1 DEF Versions
<1> QED
  BY <1>1, <1>8, <1>9, <1>10, ToldOverTurn

\* What a turn is about to tell is behind the cursor it stores before.
LEMMA ToldStored ==
    ASSUME DeltaTypes, OneTicket, ToldIsBehind, NEW t \in Turn, Persist(t)
    PROVE  ToldIsBehind'
<1> SUFFICES ASSUME overlap' = "none" PROVE ToldIsBehind'
  BY DEF ToldIsBehind
<1>1. /\ UNCHANGED <<corpus, told, overlap>> /\ \A u \in Turn \ {t} : turn'[u] = turn[u]
      /\ turn[t].pc = "persist" /\ turn'[t].pc = "tell" /\ turn'[t].entries = turn[t].entries
      /\ began' # 0 /\ DeltaTypes' /\ turn[t].cursor \in Cursor /\ turn[t] \in TurnState
  BY PersistIs DEF DeltaTypes, DeltaTypeOK
<1>2. PICK c \in Chat : chats'[c] = turn[t].cursor
  BY PersistIs
<1>3. HasCursor(c)' /\ \A e \in Chat : HasCursor(e)' => e = c
  <2>1. OneTicket'
    BY OneTicketStored
  <2>2. HasCursor(c)'
    BY <1>1, <1>2, CursorIs DEF HasCursor
  <2> QED
    BY <2>1, <2>2 DEF OneTicket, HasCursor
<1>4. ASSUME NEW v, Passed(turn[t].cursor, v) PROVE IsBehind(v)'
  BY <1>1, <1>2, <1>3, <1>4 DEF IsBehind, Passed
<1>5. \A u \in Turn : turn'[u].pc # "idle" => u = t
  BY <1>1 DEF ToldIsBehind
<1>6. \A v \in Version : told'[v] <= 1 /\ (told'[v] # 0 => IsBehind(v)')
  BY <1>1, <1>4 DEF ToldIsBehind
<1>7. \A v \in turn'[t].entries : told'[v] = 0 /\ IsBehind(v)'
  BY <1>1, <1>4, TurnStateIs DEF ToldIsBehind
<1> QED
  BY <1>1, <1>5, <1>6, <1>7 DEF ToldIsBehind

\* What is told is behind the cursor that was stored.
LEMMA ToldTells ==
    ASSUME DeltaTypes, ToldIsBehind, NEW t \in Turn, Tell(t) \/ Abandon(t)
    PROVE  ToldIsBehind'
<1> SUFFICES ASSUME overlap' = "none" PROVE ToldIsBehind'
  BY DEF ToldIsBehind
<1>1. /\ UNCHANGED <<corpus, chats, swept, began, overlap>>
      /\ turn[t].pc # "idle" /\ \A u \in Turn \ {t} : turn'[u] = turn[u]
      /\ turn'[t].pc = "idle"
      /\ \A v \in Version : \/ told'[v] = told[v]
                            \/ /\ turn[t].pc = "tell" /\ v \in turn[t].entries
                               /\ told'[v] = told[v] + 1
  BY OverIs
<1>2. \A u \in Turn : turn'[u].pc = "idle"
  BY <1>1 DEF ToldIsBehind
<1>3. \A v \in Version : IsBehind(v)' <=> IsBehind(v)
  BY <1>1 DEF IsBehind, HasCursor
<1>4. \A v \in Version : told'[v] <= 1 /\ (told'[v] # 0 => IsBehind(v))
  BY <1>1 DEF ToldIsBehind
<1> QED
  BY <1>2, <1>3, <1>4 DEF ToldIsBehind

\* Every step keeps what was told behind the stored cursor.
LEMMA StepTold == DeltaTypes /\ OneTicket /\ ToldIsBehind /\ [DeltaNext]_deltaVars => ToldIsBehind'
<1> SUFFICES ASSUME DeltaTypes, OneTicket, ToldIsBehind, [DeltaNext]_deltaVars PROVE ToldIsBehind'
  OBVIOUS
<1>1. CASE UNCHANGED deltaVars \/ InCorpus
  <2>1. UNCHANGED <<chats, turn, told, began, overlap>>
    BY <1>1, CorpusTypes DEF InCorpus, deltaVars
  <2> QED
    BY <2>1 DEF ToldIsBehind, IsBehind, HasCursor, Passed
<1>2. ASSUME NEW t \in Turn, Cover(t) PROVE ToldIsBehind'
  <2>1. /\ UNCHANGED <<corpus, chats, told, began, overlap>> /\ turn[t].pc = "cover"
        /\ \A u \in Turn \ {t} : turn'[u] = turn[u]
        /\ turn'[t].pc = "sweep" /\ turn'[t].stored = None
    BY <1>2, CoverIs
  <2>2. CASE overlap = "none"
    BY <2>1, <2>2, ToldOverTurn
  <2> QED
    BY <2>1, <2>2 DEF ToldIsBehind
<1> QED
  BY <1>1, <1>2, ToldBegins, ToldSweeps, ToldStored, ToldTells, StepIs DEF OfTurn

-----------------------------------------------------------------------------

\* The invariants of the delta hold of every reachable state.
LEMMA DeltaStays == DeltaSpec => []DeltaInv
<1>1. DeltaInit => DeltaInv
  BY DeltaTypesStart, OneTicketStarts, CaughtStarts, ToldStarts DEF DeltaInv
<1>2. DeltaInv /\ [DeltaNext]_deltaVars => DeltaInv'
  BY StepTypes, StepOneTicket, StepCaught, StepTold DEF DeltaInv
<1> QED
  BY <1>1, <1>2, PTL DEF DeltaSpec

\* Tickets, turns and maps keep their shapes whatever turns, uploads and rebuilds
\* cross, and what a cursor lists at its instant is in the corpus.
THEOREM DeltaTypeCorrect == DeltaSpec => []DeltaTypeOK
<1>1. DeltaInv => DeltaTypeOK
  BY DEF DeltaInv, DeltaTypes
<1> QED
  BY <1>1, DeltaStays, PTL

\* turnDelta: a document behind the conversation's cursor was found new by one of
\* its turns, for any number of turns at once, unless two first turns overlapped.
THEOREM NothingIsSkipped == DeltaSpec => []NoDocumentSkipped
<1>1. DeltaInv => NoDocumentSkipped
  <2> SUFFICES ASSUME DeltaInv, overlap # "first", NEW v \in Behind
               PROVE  Found(v[1])
    BY DEF NoDocumentSkipped, Found
  <2> DEFINE x == chats[FindChat]
  <2>1. FindChat # None /\ x \notin {None, Bare} /\ v \in Committed /\ Passed(x, v) /\ v[2] >= began
    BY DEF Behind
  <2>2. FindChat \in Chat /\ HasCursor(FindChat)
    BY <2>1, FindChatIs DEF HasCursor
  <2>3. Caught(x, began)
    BY <2>2 DEF DeltaInv, CursorsAreCaught
  <2>4. PICK d \in Doc : v = <<d, stamp[d]>>
    BY <2>1 DEF Committed
  <2>5. v[1] = d /\ v[2] = stamp[d]
    BY <2>4
  <2> QED
    BY <2>1, <2>3, <2>5 DEF Caught, Passed
<1> QED
  BY <1>1, DeltaStays, PTL

\* advance: as long as no two turns overlap, no turn tells a version that was told.
THEOREM NothingIsToldTwice == DeltaSpec => []ToldOnce
<1>1. DeltaInv => ToldOnce
  BY DEF DeltaInv, ToldIsBehind, ToldOnce
<1> QED
  BY <1>1, DeltaStays, PTL

=============================================================================
