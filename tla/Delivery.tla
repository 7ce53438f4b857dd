------------------------------- MODULE Delivery -------------------------------
(***************************************************************************)
(* Outgoing mail: sendRecordedEmail and applyDeliveryEvent (control-app    *)
(* src/messages.ts) around a mail provider, with the webhook's handler     *)
(* (email-webhook.ts) and the sending port (mail.ts).                      *)
(*                                                                         *)
(* A message's record is written `queued`, the provider is called, and the *)
(* record is updated: three awaits, any of which may be the last one.  The *)
(* provider reports `delivered` and `bounced` through the webhook, in any  *)
(* order, more than once, and again until it is acknowledged.              *)
(*                                                                         *)
(* The provider and the ticket store are external: the provider is         *)
(* modelled by what the code expects of it, and an update of a record as   *)
(* one step that merges the fields of its patch.                           *)
(***************************************************************************)
EXTENDS Absence

CONSTANTS
    Message,     \* messages, each sent by one call of sendRecordedEmail
    Request      \* webhook requests being handled, each slot used over and over

VARIABLES
    record,    \* message -> its ticket, or None
    sender,    \* message -> how far sendRecordedEmail has come
    torn,      \* the messages whose update to `sent` took effect and threw
    accepted,  \* the messages the provider took
    answered,  \* the messages whose provider id reached the sender
    emitted,   \* message -> the events the provider has produced
    due,       \* message -> those it has no acknowledgement of
    request    \* the local state of each webhook request

vars == <<record, sender, torn, accepted, answered, emitted, due, request>>
sending == <<sender, torn>>
provider == <<accepted, answered, emitted, due>>

Event == {"delivered", "bounced"}
EventType == Event \cup {"opened"}     \* opens and clicks are not recorded
Status == {"queued", "sent", "failed"} \cup Event

Record == [status: Status,
           id: BOOLEAN]           \* whether `provider_id` is on it

ASSUME NoneIsNoRecord == None \notin Record

RequestState == [pc: {"idle", "search", "found", "applied"},
                 message: Message \cup {None}, event: EventType \cup {None}]

\* Records, requests and the provider's books keep their shapes, and what the
\* provider is owed an acknowledgement of, it produced.
TypeOK ==
    /\ record \in [Message -> Record \cup {None}]
    /\ sender \in [Message -> {"idle", "recorded", "accepted", "refused", "done", "gone"}]
    /\ torn \in SUBSET accepted
    /\ accepted \in SUBSET Message
    /\ answered \in SUBSET accepted
    /\ emitted \in [Message -> SUBSET EventType]
    /\ \A m \in Message : due[m] \subseteq emitted[m] /\ (emitted[m] # {} => m \in accepted)
    /\ request \in [Request -> RequestState]

NoRequest == [pc |-> "idle", message |-> None, event |-> None]

Init ==
    /\ record = [m \in Message |-> None]
    /\ sender = [m \in Message |-> "idle"]
    /\ torn = {}
    /\ accepted = {}
    /\ answered = {}
    /\ emitted = [m \in Message |-> {}]
    /\ due = [m \in Message |-> {}]
    /\ request = [r \in Request |-> NoRequest]

-----------------------------------------------------------------------------
(* sendRecordedEmail.                                                       *)

\* Mutant: the message is sent first and recorded from what came back.
SendFirst(m) == sender[m] \in {"idle", "recorded"}

\* The record is `queued` before the provider is called.
ReadyToSend(m) == sender[m] = "recorded"

Create(m) ==
    /\ sender[m] = "idle"
    /\ record' = [record EXCEPT ![m] = [status |-> "queued", id |-> FALSE]]
    /\ sender' = [sender EXCEPT ![m] = "recorded"]
    /\ UNCHANGED <<torn, provider, request>>

\* The provider takes the message and its id comes back.
SendAccepted(m) ==
    /\ ReadyToSend(m)
    /\ accepted' = accepted \cup {m}
    /\ answered' = answered \cup {m}
    /\ sender' = [sender EXCEPT ![m] = "accepted"]
    /\ UNCHANGED <<record, torn, emitted, due, request>>

\* `send` throws: the message was refused, or taken by a provider whose answer
\* was lost or had no id in it.
SendThrows(m) ==
    /\ ReadyToSend(m)
    /\ accepted' \in {accepted, accepted \cup {m}}
    /\ sender' = [sender EXCEPT ![m] = "refused"]
    /\ UNCHANGED <<record, torn, answered, emitted, due, request>>

\* Mutant: the update of the status leaves the id out.
SentWithoutId(r) == [r EXCEPT !.status = "sent"]

Sent(r) == [r EXCEPT !.status = "sent", !.id = TRUE]

MarkSent(m) ==
    /\ sender[m] = "accepted"
    /\ record' = [record EXCEPT ![m] = Sent(record[m])]
    /\ sender' = [sender EXCEPT ![m] = "done"]
    /\ UNCHANGED <<torn, provider, request>>

\* The update throws, inside the same `try` as the send, and may have taken
\* effect for all that.
MarkSentThrows(m) ==
    /\ sender[m] = "accepted"
    /\ \/ UNCHANGED <<record, torn>>
       \/ /\ record' = [record EXCEPT ![m] = Sent(record[m])]
          /\ torn' = torn \cup {m}
    /\ sender' = [sender EXCEPT ![m] = "refused"]
    /\ UNCHANGED <<provider, request>>

\* The `catch`.
MarkFailed(m) ==
    /\ sender[m] = "refused"
    /\ record' = [record EXCEPT ![m].status = "failed"]
    /\ sender' = [sender EXCEPT ![m] = "done"]
    /\ UNCHANGED <<torn, provider, request>>

\* The caller goes away after any await; so it does when the catch throws.
Vanish(m) ==
    /\ sender[m] \in {"recorded", "accepted", "refused"}
    /\ sender' = [sender EXCEPT ![m] = "gone"]
    /\ UNCHANGED <<record, torn, provider, request>>

-----------------------------------------------------------------------------
(* The provider.  A message may be delivered, opened, bounce, or bounce      *)
(* after it was reported delivered.                                          *)

Emit(m, e) ==
    /\ m \in accepted
    /\ e \notin emitted[m]
    /\ "bounced" \notin emitted[m]
    /\ emitted' = [emitted EXCEPT ![m] = @ \cup {e}]
    /\ due' = [due EXCEPT ![m] = @ \cup {e}]
    /\ UNCHANGED <<record, sending, accepted, answered, request>>

-----------------------------------------------------------------------------
(* handleEmailWebhook, for an event that verified.                          *)

HasStatus(e) == e \in Event      \* eventStatus

\* The provider posts an event, for the first time or again.  One that has no
\* status is acknowledged and dropped.
Receive(r, m, e) ==
    /\ request[r].pc = "idle"
    /\ e \in due[m]
    /\ request' = [request EXCEPT ![r] =
           [pc |-> IF HasStatus(e) THEN "search" ELSE "applied", message |-> m, event |-> e]]
    /\ UNCHANGED <<record, sending, provider>>

\* Mutant: an event is taken by a record that carries no id yet.
JoinsAny(m) == record[m] # None

\* The record that carries the event's provider id.
Joins(m) == record[m] # None /\ record[m].id

\* The scan for it.  An event that matches nothing is answered 404.
Search(r) ==
    /\ request[r].pc = "search"
    /\ request' = [request EXCEPT ![r] =
           IF Joins(request[r].message) THEN [request[r] EXCEPT !.pc = "found"] ELSE NoRequest]
    /\ UNCHANGED <<record, sending, provider>>

\* The status becomes the event's, whatever it was.
Apply(r) ==
    /\ request[r].pc = "found"
    /\ record' = [record EXCEPT ![request[r].message].status = request[r].event]
    /\ request' = [request EXCEPT ![r].pc = "applied"]
    /\ UNCHANGED <<sending, provider>>

\* Mutant: what was answered 404 is not posted again.
ForgetEvent(r) == request[r].pc \in {"search", "applied"}

Answered(r) == request[r].pc = "applied"

\* 200: the provider does not post it again.
Acknowledge(r) ==
    /\ Answered(r)
    /\ due' = [due EXCEPT ![request[r].message] = @ \ {request[r].event}]
    /\ request' = [request EXCEPT ![r] = NoRequest]
    /\ UNCHANGED <<record, sending, accepted, answered, emitted>>

\* The request dies, or its answer is lost.
Drop(r) ==
    /\ request[r].pc # "idle"
    /\ request' = [request EXCEPT ![r] = NoRequest]
    /\ UNCHANGED <<record, sending, provider>>

-----------------------------------------------------------------------------

Next ==
    \/ \E m \in Message :
          \/ Create(m) \/ SendAccepted(m) \/ SendThrows(m)
          \/ MarkSent(m) \/ MarkSentThrows(m) \/ MarkFailed(m) \/ Vanish(m)
          \/ \E e \in EventType : Emit(m, e) \/ \E r \in Request : Receive(r, m, e)
    \/ \E r \in Request : Search(r) \/ Apply(r) \/ Acknowledge(r) \/ Drop(r)

Handles(r, m, e) == request[r].message = m /\ request[r].event = e

\* "Providers retry" (email-webhook.ts): a message that was taken is reported
\* on, and each event that stays due is posted again and again until a post
\* gets through.  Nothing is assumed of the sender, which may go away.
Fairness ==
    /\ \A m \in Message : WF_vars(\E e \in Event : Emit(m, e))
    /\ \A r \in Request : WF_vars(Drop(r))
    /\ \A m \in Message, e \in Event :
          /\ SF_vars(\E r \in Request : Receive(r, m, e))
          /\ SF_vars(\E r \in Request : Handles(r, m, e) /\ Search(r))
          /\ SF_vars(\E r \in Request : Handles(r, m, e) /\ Apply(r))

SafetySpec == Init /\ [][Next]_vars

Spec == SafetySpec /\ Fairness

-----------------------------------------------------------------------------
(* What the record promises.                                               *)

Stands(m, statuses) == record[m] # None /\ record[m].status \in statuses

\* "Queue first, then send" (messages.ts): whatever the provider took has a
\* record, wherever the call that sent it stopped.
SentLeavesEvidence == \A m \in accepted : record[m] # None

\* "A bounce arriving before the send path has finished updating cannot undo
\* the record of the attempt" (messages.ts), nor the other way round: once a
\* delivery event is on a record, the send path does not write over it.  It
\* does when the update to `sent` was torn: the catch then writes `failed`.
WebhookIsNotUndone ==
    [][\A m \in Message \ torn : Stands(m, Event) => record'[m].status \in Event]_vars

\* An event with a status is answered 200 only once its message's record tells
\* of one, so that what is not recorded is posted again ("so the honest answer
\* is that we do not know this message", email-webhook.ts).
AcknowledgedIsRecorded ==
    \A m \in Message \ torn : (emitted[m] \ due[m]) \cap Event # {} => Stands(m, Event)

\* A message that is recorded as sent does not stay there: what became of it
\* reaches its record, though the first posts of an event may come before the
\* record carries the id and be answered 404.
SentIsResolved ==
    \A m \in Message : Stands(m, {"sent"}) ~> Stands(m, Event)

-----------------------------------------------------------------------------
(* What comments say and the code does not keep.                           *)

\* "`queued` to `sent` or `failed` is the send path's; `sent` to `delivered` or
\* `bounced` is the webhook's.  Nothing moves backwards" (messages.ts).
Moves == {<<"queued", "sent">>, <<"queued", "failed">>,
          <<"sent", "delivered">>, <<"sent", "bounced">>}

NothingMovesBackwards ==
    [][\A m \in Message : record[m] # None /\ record'[m].status # record[m].status
           => <<record[m].status, record'[m].status>> \in Moves]_vars

\* "A failure to WRITE the record is a different matter and does throw"
\* (messages.ts, sendRecordedEmail): `failed` is recorded of a send that failed.
FailedMeansSendFailed ==
    \A m \in answered : record[m].status # "failed"

=============================================================================
