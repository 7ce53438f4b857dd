------------------------------ MODULE SigningKeys ------------------------------
(***************************************************************************)
(* The signing keys a Worker verifies Access tokens with: fetchJwks and    *)
(* verifyAccessJwt (control-app src/access.ts), one isolate, one team.     *)
(*                                                                         *)
(* The isolate holds one cached answer of the team's certificate endpoint. *)
(* Requests share it, and await: between a look at the cache and the store *)
(* of what was fetched others come and go, and the team rotates its keys.  *)
(*                                                                         *)
(* Tokens are told apart by the key they name.  What else verifyAccessJwt  *)
(* asks of one (algorithm, signature, audience, issuer, dates) it asks of  *)
(* the token alone; here every token passes it.                            *)
(***************************************************************************)
EXTENDS Absence, Naturals, FiniteSets

CONSTANTS
    Request,   \* verifications
    Key,       \* the keys tokens name
    First,     \* the keys that are published at first
    Ttl,       \* JWKS_TTL_MS
    Floor,     \* JWKS_REFRESH_FLOOR_MS
    Latency,   \* bound: what a fetch may take
    MaxTime    \* bound: the last instant

ASSUME FirstArePublished == First \subseteq Key /\ First # {}
ASSUME FloorIsShorter == {Floor, Ttl, Latency, MaxTime} \subseteq Nat /\ 0 < Floor /\ Floor < Ttl

\* Zero is the epoch: at no instant is it less than a floor ago.
Time == Floor..(Floor + MaxTime)

VARIABLES
    clock,     \* the instant
    life,      \* key -> from when it is published, and until when
    cache,     \* the isolate's entry of the endpoint, or None
    request,   \* the local state of each verification
    spent,     \* the instant at which a refresh was last stored
    undone     \* a read that began before that has been stored after it

vars == <<clock, life, cache, request, spent, undone>>

Life == [from: Time \cup {None}, to: Time \cup {None}]

Entry == [keys: SUBSET Key, fetchedAt: Time, refreshedAt: Time \cup {0}]

ASSUME NoneIsNoEntry == None \notin Entry

Outcome == {"admitted", "no_key", "no_fetch"}

RequestState ==
    [pc: Outcome \cup {"idle", "look", "fetch", "arrive"},
     kid: Key \cup {None},
     force: BOOLEAN,                  \* it is the refresh
     held: Time \cup {0},             \* refreshedAt of the entry it found before it fetched
     keys: SUBSET Key,                \* what it was given
     looked: Time,                    \* the instant of its last look at the cache
     ended: Time]

Idle == [pc |-> "idle", kid |-> None, force |-> FALSE, held |-> 0, keys |-> {},
         looked |-> Floor, ended |-> Floor]

Published == {k \in Key : life[k].from # None /\ life[k].to = None}

\* Keys, entry and requests keep their shapes: an entry was stored no earlier
\* than its last refresh, neither lies ahead, and only what was fetched is held.
TypeOK ==
    /\ clock \in Time
    /\ life \in [Key -> Life]
    /\ cache \in Entry \cup {None}
    /\ cache # None => cache.refreshedAt <= cache.fetchedAt /\ cache.fetchedAt <= clock
    /\ request \in [Request -> RequestState]
    /\ spent \in Time \cup {0}
    /\ undone \in BOOLEAN
    /\ \A r \in Request : request[r].pc = "fetch" => request[r].keys = {}

Init ==
    /\ clock = Floor
    /\ life = [k \in Key |-> [from |-> IF k \in First THEN Floor ELSE None, to |-> None]]
    /\ cache = None
    /\ request = [r \in Request |-> Idle]
    /\ spent = 0
    /\ undone = FALSE

-----------------------------------------------------------------------------
(* The team, and time.                                                      *)

\* A fetch takes no longer than Latency; what a request does without awaiting
\* the network takes no time.
Tick ==
    /\ clock < Floor + MaxTime
    /\ \A r \in Request :
          /\ request[r].pc # "look"
          /\ request[r].pc \in {"fetch", "arrive"} => clock < request[r].looked + Latency
    /\ clock' = clock + 1
    /\ UNCHANGED <<life, cache, request, spent, undone>>

Publish(k) ==
    /\ life[k].from = None
    /\ life' = [life EXCEPT ![k].from = clock]
    /\ UNCHANGED <<clock, cache, request, spent, undone>>

\* The endpoint never publishes no key.
Retire(k) ==
    /\ k \in Published
    /\ Published # {k}
    /\ life' = [life EXCEPT ![k].to = clock]
    /\ UNCHANGED <<clock, cache, request, spent, undone>>

-----------------------------------------------------------------------------
(* fetchJwks.                                                               *)

\* Mutant: an entry is good for its last instant too.
FreshInclusive == cache # None /\ clock - cache.fetchedAt <= Ttl

\* An ordinary read is answered from the cache ...
Fresh == cache # None /\ clock - cache.fetchedAt < Ttl

\* Mutant: the retry is one more ordinary read.
RefreshedOrFresh == Fresh

\* ... and a refresh is, within the floor of the last one.
Refreshed == cache # None /\ clock - cache.refreshedAt < Floor

Held == IF cache = None THEN 0 ELSE cache.refreshedAt

Fetching(r, kid, force) ==
    request' = [request EXCEPT ![r] =
        [Idle EXCEPT !.pc = "fetch", !.kid = kid, !.force = force, !.held = Held,
                     !.looked = clock]]

\* A request that is over: it matters when it looked, and when it was refused.
End(r, outcome, looked) ==
    request' = [request EXCEPT ![r] =
        IF outcome = "no_fetch" THEN [Idle EXCEPT !.pc = outcome]
        ELSE [Idle EXCEPT !.pc = outcome, !.kid = request[r].kid, !.looked = looked,
                          !.ended = IF outcome = "no_key" THEN clock ELSE Floor]]

\* The endpoint answers with what it publishes.
Answer(r) ==
    /\ request[r].pc = "fetch"
    /\ request' = [request EXCEPT ![r].pc = "arrive", ![r].keys = Published]
    /\ UNCHANGED <<clock, life, cache, spent, undone>>

\* Mutant: a refresh keeps the stamp of the entry it replaces, as a read does.
StampHeld(r) == request[r].held

\* A refresh spends the floor; a read keeps what it found before it fetched.
Stamp(r) == IF request[r].force THEN clock ELSE request[r].held

StoredAt(r) == clock

\* The answer is here, and is stored over whatever the entry is now.
Arrive(r) ==
    /\ request[r].pc = "arrive"
    /\ cache' = [keys |-> request[r].keys, fetchedAt |-> StoredAt(r), refreshedAt |-> Stamp(r)]
    /\ request' = [request EXCEPT ![r].pc = "look"]
    /\ spent' = IF request[r].force THEN clock ELSE spent
    /\ undone' = (~request[r].force /\ (undone \/ Held # request[r].held))
    /\ UNCHANGED <<clock, life>>

\* The endpoint is not reached, or answers nothing of use.
Fail(r) ==
    /\ request[r].pc \in {"fetch", "arrive"}
    /\ End(r, "no_fetch", request[r].looked)
    /\ UNCHANGED <<clock, life, cache, spent, undone>>

-----------------------------------------------------------------------------
(* verifyAccessJwt.                                                         *)

Ask(r, kid) ==
    /\ request[r].pc = "idle"
    /\ IF Fresh THEN request' = [request EXCEPT ![r] =
                         [Idle EXCEPT !.pc = "look", !.kid = kid, !.keys = cache.keys,
                                      !.looked = clock]]
                ELSE Fetching(r, kid, FALSE)
    /\ UNCHANGED <<clock, life, cache, spent, undone>>

\* A key that is not there may have been published since: one refresh, if the
\* floor allows, and else what is in the cache by now.
Look(r) ==
    /\ request[r].pc = "look"
    /\ LET kid == request[r].kid
       IN  IF kid \in request[r].keys THEN End(r, "admitted", request[r].looked)
           ELSE IF request[r].force THEN End(r, "no_key", request[r].looked)
           ELSE IF ~Refreshed THEN Fetching(r, kid, TRUE)
           ELSE End(r, IF kid \in cache.keys THEN "admitted" ELSE "no_key", clock)
    /\ UNCHANGED <<clock, life, cache, spent, undone>>

Next ==
    \/ Tick
    \/ \E k \in Key : Publish(k) \/ Retire(k)
    \/ \E r \in Request :
          \/ \E kid \in Key : Ask(r, kid)
          \/ Look(r) \/ Answer(r) \/ Arrive(r) \/ Fail(r)

Spec == Init /\ [][Next]_vars

-----------------------------------------------------------------------------
(* What may be relied upon.                                                *)

\* "How long a fetched JWKS is reused" (access.ts): however fetches overlap and
\* overwrite each other's answers, a token is admitted by a key that was still
\* published less than the time to live, and what a fetch takes, before the
\* request looked.
RetiredKeysAreForgotten ==
    \A r \in Request : request[r].pc = "admitted" =>
        LET key == life[request[r].kid]
        IN  /\ key.from # None
            /\ key.to # None => request[r].looked < key.to + Ttl + Latency

\* "Rotation is picked up within it" (access.ts): a token whose key was
\* published all the while is refused for its key only in the floor, and what a
\* fetch takes, after the key was published.
RotationIsPickedUp ==
    \A r \in Request : request[r].pc = "no_key" =>
        LET key == life[request[r].kid]
        IN  key.from # None /\ (key.to = None \/ key.to > request[r].ended) =>
                request[r].looked < key.from + Floor + Latency

\* "The refresh is rate-limited rather than granted per request" (access.ts):
\* no refresh begins within the floor of the last one that was stored, unless a
\* read that began before that one was stored after it.
FloorIsKept ==
    [][\A r \in Request :
          request'[r].pc = "fetch" /\ request'[r].force /\ request[r].pc = "look"
              => undone \/ spent = 0 \/ clock - spent >= Floor]_vars

-----------------------------------------------------------------------------
(* What comments say and the code does not keep.                           *)

Refreshing == {r \in Request : request[r].pc \in {"fetch", "arrive"} /\ request[r].force}

\* "A flood collapses to one fetch per isolate per minute" (access.ts).
OneRefreshAtATime == Cardinality(Refreshing) <= 1

=============================================================================
