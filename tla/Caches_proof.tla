----------------------------- MODULE Caches_proof -----------------------------
(***************************************************************************)
(* What an isolate remembers does not mislead it: the signing keys, which  *)
(* it believes for a time, for any number of verifications and keys and    *)
(* any times, and the assembled drafts, which it believes while a stamp is *)
(* the draft's, for any number of isolates, loads and writes.              *)
(*                                                                         *)
(* The keys first.  What was fetched is what was published at some instant *)
(* of the fetch.  The fetch takes no longer than the latency, so of a key  *)
(* that is in an entry, or missing from it, its life says something at an  *)
(* instant no longer than that before the entry was stored, whatever       *)
(* became of the key since.  Which entry replaced which does not matter.   *)
(***************************************************************************)
EXTENDS SigningKeys, DraftMemo, TLAPS

\* The key was published, and was not retired before `at`, give or take.
Given(k, at, take) ==
    life[k].from # None /\ (life[k].to # None => at <= life[k].to + take)

\* The key was not published all the while from `at`, give or take, to `till`.
Missed(k, at, take, till) ==
    \/ life[k].from = None
    \/ at <= life[k].from + take
    \/ life[k].to # None /\ life[k].to <= till

\* What an answer that was given in the fetch says of each key.
Answered(r) ==
    \A k \in Key : IF k \in request[r].keys THEN Given(k, request[r].looked, 0)
                   ELSE Missed(k, request[r].looked, 0, clock)

Within(k, looked) == Given(k, looked + 1, Ttl + Latency)
Since(k, looked, ended) == Missed(k, looked + 1, Floor + Latency, ended)

Sound(r) ==
    LET q == request[r] IN
    /\ q.looked <= clock /\ q.held <= clock
    /\ q.pc \notin {"idle", "no_fetch"} => q.kid \in Key
    /\ q.pc \in {"fetch", "arrive"} => clock <= q.looked + Latency
    /\ q.pc = "arrive" => Answered(r)
    /\ q.pc = "look" => /\ \A k \in q.keys : Within(k, q.looked)
                        /\ q.force => \A k \in Key \ q.keys : Missed(k, q.looked, 0, clock)
    /\ q.pc = "admitted" => Within(q.kid, q.looked)
    /\ q.pc = "no_key" => q.ended <= clock /\ Since(q.kid, q.looked, q.ended)

EntrySound ==
    cache # None => \A k \in Key :
        IF k \in cache.keys THEN Given(k, cache.fetchedAt, Latency)
        ELSE Missed(k, cache.fetchedAt, Latency, cache.fetchedAt)

\* Unless a read undid it, the entry's stamp is the last refresh's.
StampIsLast == undone \/ Held = spent

KeysInv ==
    /\ TypeOK
    /\ \A k \in Key : life[k].to # None => life[k].to <= clock
    /\ EntrySound
    /\ StampIsLast
    /\ \A r \in Request : Sound(r)

-----------------------------------------------------------------------------
(* Numbers.                                                                 *)

\* The bounds are numbers, and an instant is never before the floor.
LEMMA Bounds ==
    /\ Floor \in Nat /\ Ttl \in Nat /\ Latency \in Nat /\ MaxTime \in Nat /\ 0 < Floor /\ Floor < Ttl
    /\ Time \subseteq Nat /\ Floor \in Time /\ \A t \in Time : Floor <= t
  BY FloorIsShorter DEF Time

\* What the clock, a key's life, the entry and a request hold are instants and keys.
LEMMA Instants ==
    ASSUME TypeOK
    PROVE  /\ clock \in Time /\ spent \in Nat
           /\ \A k \in Key : life[k].from \in Time \cup {None} /\ life[k].to \in Time \cup {None}
           /\ cache # None => /\ cache.keys \subseteq Key /\ cache.fetchedAt \in Nat /\ cache.refreshedAt \in Nat
                              /\ cache.refreshedAt <= cache.fetchedAt /\ cache.fetchedAt <= clock
           /\ \A r \in Request : /\ request[r] \in RequestState
                                 /\ request[r].looked \in Nat /\ request[r].ended \in Nat
                                 /\ request[r].held \in Nat /\ request[r].keys \subseteq Key
<1>1. clock \in Time /\ spent \in Nat
  BY Bounds DEF TypeOK
<1>2. \A k \in Key : life[k].from \in Time \cup {None} /\ life[k].to \in Time \cup {None}
  BY DEF TypeOK, Life
<1>3. cache # None => /\ cache.keys \subseteq Key /\ cache.fetchedAt \in Nat /\ cache.refreshedAt \in Nat
                      /\ cache.refreshedAt <= cache.fetchedAt /\ cache.fetchedAt <= clock
  <2>1. cache # None => /\ cache \in Entry
                        /\ cache.refreshedAt <= cache.fetchedAt /\ cache.fetchedAt <= clock
    BY DEF TypeOK
  <2>2. \A e \in Entry : e.keys \subseteq Key /\ e.fetchedAt \in Nat /\ e.refreshedAt \in Nat
    <3>1. \A e \in Entry : e.keys \in SUBSET Key /\ e.fetchedAt \in Time /\ e.refreshedAt \in Time \cup {0}
      BY DEF Entry
    <3>2. Time \subseteq Nat /\ Time \cup {0} \subseteq Nat
      BY Bounds
    <3> QED
      BY <3>1, <3>2, Zenon
  <2> QED
    BY <2>1, <2>2
<1>4. \A r \in Request : /\ request[r] \in RequestState
                         /\ request[r].looked \in Nat /\ request[r].ended \in Nat
                         /\ request[r].held \in Nat /\ request[r].keys \subseteq Key
  <2>1. \A q \in RequestState : /\ q.looked \in Nat /\ q.ended \in Nat
                               /\ q.held \in Nat /\ q.keys \subseteq Key
    <3>1. \A q \in RequestState : /\ q.looked \in Time /\ q.ended \in Time
                                 /\ q.held \in Time \cup {0} /\ q.keys \in SUBSET Key
      BY DEF RequestState
    <3>2. Time \subseteq Nat /\ Time \cup {0} \subseteq Nat
      BY Bounds
    <3> QED
      BY <3>1, <3>2, Zenon
  <2> QED
    BY <2>1 DEF TypeOK
<1> QED
  BY <1>1, <1>2, <1>3, <1>4

-----------------------------------------------------------------------------
(* Steps of the team, and of time.                                          *)

\* What is said of a key at an instant that is not ahead stays so, when it is
\* published and when it is retired.
LEMMA LivesGoOn ==
    ASSUME KeysInv, NEW k \in Key, Publish(k) \/ Retire(k),
           NEW j \in Key, NEW at \in Nat, NEW take \in Nat, NEW till \in Nat, at <= clock + take
    PROVE  /\ Given(j, at, take) => Given(j, at, take)'
           /\ Missed(j, at, take, till) => Missed(j, at, take, till)'
<1>1. clock \in Nat /\ life \in [Key -> Life]
  BY Instants, Bounds DEF KeysInv, TypeOK
<1>2. CASE Publish(k)
  <2>1. /\ life[k].from = None
        /\ life'[j].from = IF j = k THEN clock ELSE life[j].from
        /\ life'[j].to = life[j].to
    BY <1>1, <1>2 DEF Publish, Life
  <2> QED
    BY <1>1, <2>1 DEF Given, Missed
<1>3. CASE Retire(k)
  <2>1. /\ life[k].to = None
        /\ life'[j].to = IF j = k THEN clock ELSE life[j].to
        /\ life'[j].from = life[j].from
    BY <1>1, <1>3 DEF Retire, Published, Life
  <2> QED
    BY <1>1, <2>1 DEF Given, Missed
<1> QED
  BY <1>2, <1>3

\* Who misses a key until an instant misses it until a later one.
LEMMA MissedLonger ==
    ASSUME TypeOK, NEW k \in Key, NEW at \in Nat, NEW take \in Nat, NEW till \in Nat, NEW then \in Nat,
           till <= then, Missed(k, at, take, till)
    PROVE  Missed(k, at, take, then)
<1>1. life[k].to # None => life[k].to \in Nat
  BY Instants, Bounds
<1> QED
  BY <1>1 DEF Missed

\* Time alone makes no entry and no answer false: each says when it was made.
LEMMA TickKeeps == KeysInv /\ Tick => KeysInv'
<1> SUFFICES ASSUME KeysInv, Tick PROVE KeysInv'
  OBVIOUS
<1>1. /\ TypeOK /\ clock \in Nat /\ clock' = clock + 1 /\ clock' \in Nat
      /\ UNCHANGED <<life, cache, request, spent, undone>>
  <2>1. TypeOK /\ clock \in Nat
    BY Instants, Bounds DEF KeysInv
  <2> QED
    BY <2>1 DEF Tick
<1>2. TypeOK'
  <2>1. clock' \in Time
    BY <1>1, FloorIsShorter DEF Tick, Time, TypeOK
  <2>2. cache # None => cache.fetchedAt <= clock'
    BY <1>1, Instants
  <2> QED
    BY <1>1, <2>1, <2>2 DEF TypeOK
<1>3. \A k \in Key : life'[k].to # None => life'[k].to <= clock'
  <2>1. \A k \in Key : life[k].to # None => life[k].to \in Nat /\ life[k].to <= clock
    BY <1>1, Instants, Bounds DEF KeysInv
  <2> QED
    BY <1>1, <2>1
<1>4. EntrySound' /\ StampIsLast'
  BY <1>1 DEF KeysInv, EntrySound, StampIsLast, Held, Given, Missed
<1>5. ASSUME NEW r \in Request PROVE Sound(r)'
  <2> DEFINE q == request[r]
  <2>1. /\ q.looked \in Nat /\ q.ended \in Nat /\ q.held \in Nat /\ q.keys \subseteq Key
        /\ Latency \in Nat /\ Sound(r)
    BY <1>1, Instants, Bounds DEF KeysInv
  <2>2. q.looked <= clock' /\ q.held <= clock'
    BY <1>1, <2>1 DEF Sound
  <2>3. q.pc \in {"fetch", "arrive"} => clock' <= q.looked + Latency
    BY <1>1, <2>1 DEF Tick
  <2>4. \A k \in Key : Missed(k, q.looked, 0, clock) => Missed(k, q.looked, 0, clock')
    BY <1>1, <2>1, MissedLonger
  <2>5. q.pc = "arrive" => Answered(r)'
    BY <1>1, <2>1, <2>4 DEF Sound, Answered, Given, Missed
  <2>6. q.pc = "look" => FALSE
    BY DEF Tick
  <2>7. q.pc = "admitted" => Within(q.kid, q.looked)'
    BY <1>1, <2>1 DEF Sound, Within, Given
  <2>8. q.pc = "no_key" => q.ended <= clock' /\ Since(q.kid, q.looked, q.ended)'
    BY <1>1, <2>1 DEF Sound, Since, Missed
  <2> QED
    BY <1>1, <2>1, <2>2, <2>3, <2>5, <2>6, <2>7, <2>8 DEF Sound
<1> QED
  BY <1>2, <1>3, <1>4, <1>5 DEF KeysInv

\* A key that appears or goes now leaves what was true of earlier instants.
LEMMA TeamKeeps ==
    ASSUME KeysInv, NEW k \in Key, Publish(k) \/ Retire(k)
    PROVE  KeysInv'
<1>1. /\ TypeOK /\ clock \in Time /\ clock \in Nat
      /\ UNCHANGED <<clock, cache, request, spent, undone>>
  BY Instants, Bounds DEF KeysInv, Publish, Retire
<1>2. TypeOK'
  <2>1. life' \in [Key -> Life]
    BY <1>1 DEF TypeOK, Publish, Retire, Life
  <2> QED
    BY <1>1, <2>1 DEF TypeOK
<1>3. \A j \in Key : life'[j].to # None => life'[j].to <= clock'
  <2>1. \A j \in Key : life'[j].to \in {clock, life[j].to}
    BY <1>1 DEF Publish, Retire, TypeOK, Life
  <2> QED
    BY <1>1, <2>1 DEF KeysInv
<1>4. EntrySound'
  <2> SUFFICES ASSUME cache # None, NEW j \in Key
               PROVE  IF j \in cache.keys THEN Given(j, cache.fetchedAt, Latency)'
                      ELSE Missed(j, cache.fetchedAt, Latency, cache.fetchedAt)'
    BY <1>1 DEF EntrySound, Given, Missed
  <2>1. /\ cache.fetchedAt \in Nat /\ Latency \in Nat /\ cache.fetchedAt <= clock + Latency
        /\ IF j \in cache.keys THEN Given(j, cache.fetchedAt, Latency)
           ELSE Missed(j, cache.fetchedAt, Latency, cache.fetchedAt)
    BY <1>1, Instants, Bounds DEF KeysInv, EntrySound
  <2> QED
    BY <1>1, <2>1, LivesGoOn
<1>5. StampIsLast'
  BY <1>1 DEF KeysInv, StampIsLast, Held
<1>6. ASSUME NEW r \in Request PROVE Sound(r)'
  <2> DEFINE q == request[r]
  <2>1. /\ q.looked \in Nat /\ q.ended \in Nat /\ q.keys \subseteq Key /\ Sound(r) /\ q.looked <= clock
        /\ Latency \in Nat /\ Ttl \in Nat /\ Floor \in Nat /\ Floor > 0 /\ Ttl > 0
    BY <1>1, Instants, Bounds DEF KeysInv, Sound
  <2>2. q.looked <= clock + 0 /\ q.looked + 1 <= clock + (Ttl + Latency) /\ q.looked + 1 <= clock + (Floor + Latency)
        /\ 0 \in Nat /\ q.looked + 1 \in Nat /\ Ttl + Latency \in Nat /\ Floor + Latency \in Nat
    BY <1>1, <2>1
  <2>3. \A j \in Key : /\ Given(j, q.looked, 0) => Given(j, q.looked, 0)'
                       /\ Missed(j, q.looked, 0, clock) => Missed(j, q.looked, 0, clock)'
    BY <1>1, <2>1, <2>2, LivesGoOn
  <2>4. \A j \in Key : /\ Within(j, q.looked) => Within(j, q.looked)'
                       /\ Since(j, q.looked, q.ended) => Since(j, q.looked, q.ended)'
    BY <1>1, <2>1, <2>2, LivesGoOn DEF Within, Since
  <2>5. q.pc = "arrive" => Answered(r)'
    BY <1>1, <2>1, <2>3 DEF Sound, Answered
  <2> QED
    BY <1>1, <2>1, <2>3, <2>4, <2>5 DEF Sound
<1> QED
  BY <1>2, <1>3, <1>4, <1>5, <1>6 DEF KeysInv

-----------------------------------------------------------------------------
(* Steps of a verification.                                                 *)

\* Where one request moves, it is the one to look at.
LEMMA OneMoves ==
    ASSUME KeysInv, NEW r \in Request, UNCHANGED <<clock, life>>,
           TypeOK', EntrySound', StampIsLast', Sound(r)',
           \A s \in Request \ {r} : request'[s] = request[s]
    PROVE  KeysInv'
<1>1. ASSUME NEW s \in Request, s # r PROVE Sound(s)'
  <2>1. Sound(s) /\ request'[s] = request[s]
    BY <1>1 DEF KeysInv
  <2> QED
    BY <2>1 DEF Sound, Answered, Within, Since, Given, Missed
<1> QED
  BY <1>1 DEF KeysInv

\* Its state is of its shape, and the entry is not touched.
LEMMA OneStands ==
    ASSUME KeysInv, NEW r \in Request, UNCHANGED <<clock, life, cache, spent, undone>>,
           NEW q \in RequestState, request' = [request EXCEPT ![r] = q],
           q.pc = "fetch" => q.keys = {}, Sound(r)'
    PROVE  KeysInv'
<1>1. request' \in [Request -> RequestState] /\ \A s \in Request \ {r} : request'[s] = request[s]
      /\ request'[r] = q
  BY DEF KeysInv, TypeOK
<1>2. TypeOK'
  BY <1>1 DEF KeysInv, TypeOK
<1>3. EntrySound' /\ StampIsLast'
  BY DEF KeysInv, EntrySound, StampIsLast, Held, Given, Missed
<1> QED
  BY <1>1, <1>2, <1>3, OneMoves

\* A request that begins to fetch holds the entry as it is and the instant it looked.
LEMMA FetchingKeeps ==
    ASSUME KeysInv, NEW r \in Request, UNCHANGED <<clock, life, cache, spent, undone>>,
           NEW kid \in Key, NEW force \in BOOLEAN, Fetching(r, kid, force)
    PROVE  KeysInv'
<1> DEFINE q == [Idle EXCEPT !.pc = "fetch", !.kid = kid, !.force = force, !.held = Held, !.looked = clock]
<1>1. /\ clock \in Time /\ clock \in Nat /\ Held \in Time \cup {0} /\ Held <= clock
      /\ Floor \in Time /\ Latency \in Nat
  <2>1. cache # None => cache.refreshedAt \in Time \cup {0}
    <3>1. \A e \in Entry : e.refreshedAt \in Time \cup {0}
      BY DEF Entry
    <3> QED
      BY <3>1 DEF KeysInv, TypeOK
  <2>2. TypeOK
    BY DEF KeysInv
  <2>3. /\ clock \in Time /\ clock \in Nat /\ Floor \in Time /\ Latency \in Nat
        /\ cache # None => cache.refreshedAt \in Nat /\ cache.fetchedAt \in Nat
                          /\ cache.refreshedAt <= cache.fetchedAt /\ cache.fetchedAt <= clock
    BY <2>2, Instants, Bounds
  <2>4. cache # None => cache.refreshedAt <= clock
    BY <2>3
  <2> QED
    BY <2>1, <2>3, <2>4 DEF Held
<1>2. q \in RequestState /\ q.pc = "fetch" /\ q.keys = {} /\ q.kid = kid /\ q.looked = clock
      /\ q.held = Held
  BY <1>1 DEF Idle, RequestState
<1>3. request' = [request EXCEPT ![r] = q] /\ request'[r] = q
  BY DEF Fetching, KeysInv, TypeOK
<1> HIDE DEF q
<1>4. Sound(r)'
  BY <1>1, <1>2, <1>3 DEF Sound
<1> QED
  BY <1>2, <1>3, <1>4, OneStands

\* A request may end with what it has seen to be so: the key within its instant, or no key
\* since it looked.
LEMMA EndKeeps ==
    ASSUME KeysInv, NEW r \in Request, UNCHANGED <<clock, life, cache, spent, undone>>,
           NEW outcome \in Outcome, NEW looked \in Time, looked <= clock, End(r, outcome, looked),
           outcome # "no_fetch" => request[r].kid \in Key,
           outcome = "admitted" => Within(request[r].kid, looked),
           outcome = "no_key" => Since(request[r].kid, looked, clock)
    PROVE  KeysInv'
<1> DEFINE q == IF outcome = "no_fetch" THEN [Idle EXCEPT !.pc = outcome]
                ELSE [Idle EXCEPT !.pc = outcome, !.kid = request[r].kid, !.looked = looked,
                                  !.ended = IF outcome = "no_key" THEN clock ELSE Floor]
<1>1. clock \in Time /\ clock \in Nat /\ Floor \in Time /\ Floor <= clock
  BY Instants, Bounds DEF KeysInv
<1>2. CASE outcome = "no_fetch"
  <2>1. q \in RequestState /\ q.pc = "no_fetch" /\ q.looked = Floor /\ q.held = 0
    BY <1>1, <1>2 DEF Idle, RequestState, Outcome
  <2>2. request' = [request EXCEPT ![r] = q] /\ request'[r] = q
    BY DEF End, KeysInv, TypeOK
  <2> HIDE DEF q
  <2>3. Sound(r)'
    BY <1>1, <2>1, <2>2 DEF Sound
  <2> QED
    BY <2>1, <2>2, <2>3, OneStands
<1>3. CASE outcome # "no_fetch"
  <2>1. /\ q \in RequestState /\ q.pc = outcome /\ q.looked = looked /\ q.kid = request[r].kid
        /\ q.held = 0
        /\ outcome = "no_key" => q.ended = clock
    BY <1>1, <1>3 DEF Idle, RequestState, Outcome
  <2>2. request' = [request EXCEPT ![r] = q] /\ request'[r] = q
    BY DEF End, KeysInv, TypeOK
  <2> HIDE DEF q
  <2>3. Sound(r)'
    BY <1>1, <1>3, <2>1, <2>2 DEF Sound, Outcome, Within, Since, Given, Missed
  <2> QED
    BY <1>3, <2>1, <2>2, <2>3, OneStands DEF Outcome
<1> QED
  BY <1>2, <1>3

\* A key of an entry that is good is one that lately was published.
LEMMA EntryIsGood ==
    ASSUME KeysInv, Fresh \/ Refreshed, NEW k \in cache.keys
    PROVE  Within(k, clock)
<1>1. /\ cache # None /\ clock \in Nat /\ cache.fetchedAt \in Nat /\ cache.refreshedAt \in Nat
      /\ cache.refreshedAt <= cache.fetchedAt /\ k \in Key
      /\ Ttl \in Nat /\ Floor \in Nat /\ Floor < Ttl /\ Latency \in Nat
  BY Instants, Bounds DEF KeysInv, Fresh, Refreshed
<1>2. clock + 1 <= cache.fetchedAt + Ttl
  BY <1>1 DEF Fresh, Refreshed
<1>3. Given(k, cache.fetchedAt, Latency)
  BY <1>1 DEF KeysInv, EntrySound
<1>4. life[k].to # None => life[k].to \in Nat
  BY <1>1, Instants, Bounds DEF KeysInv
<1> QED
  BY <1>1, <1>2, <1>3, <1>4 DEF Within, Given

\* One that a refreshed entry misses has only just been published, if it is.
LEMMA EntryMisses ==
    ASSUME KeysInv, Refreshed, NEW k \in Key, k \notin cache.keys
    PROVE  Since(k, clock, clock)
<1>1. /\ cache # None /\ clock \in Nat /\ cache.fetchedAt \in Nat /\ cache.refreshedAt \in Nat
      /\ cache.refreshedAt <= cache.fetchedAt /\ cache.fetchedAt <= clock
      /\ Floor \in Nat /\ Latency \in Nat
  BY Instants, Bounds DEF KeysInv, Refreshed
<1>2. clock + 1 <= cache.fetchedAt + Floor
  BY <1>1 DEF Refreshed
<1>3. Missed(k, cache.fetchedAt, Latency, cache.fetchedAt)
  BY <1>1 DEF KeysInv, EntrySound
<1>4. /\ life[k].to # None => life[k].to \in Nat
      /\ life[k].from # None => life[k].from \in Nat
  BY <1>1, Instants, Bounds DEF KeysInv
<1> QED
  BY <1>1, <1>2, <1>3, <1>4 DEF Since, Missed

\* A token is asked about: its key is looked for in an entry that is believed, or fetched.
LEMMA AskKeeps ==
    ASSUME KeysInv, NEW r \in Request, NEW kid \in Key, Ask(r, kid)
    PROVE  KeysInv'
<1>1. UNCHANGED <<clock, life, cache, spent, undone>>
  BY DEF Ask
<1>2. CASE Fresh
  <2> DEFINE q == [Idle EXCEPT !.pc = "look", !.kid = kid, !.keys = cache.keys, !.looked = clock]
  <2>1. clock \in Time /\ clock \in Nat /\ Floor \in Time /\ cache.keys \subseteq Key
    BY <1>2, Instants, Bounds DEF KeysInv, Fresh
  <2>2. /\ q \in RequestState /\ q.pc = "look" /\ q.kid = kid /\ q.keys = cache.keys /\ q.looked = clock
        /\ q.force = FALSE /\ q.held = 0
    BY <2>1 DEF Idle, RequestState
  <2>3. request' = [request EXCEPT ![r] = q] /\ request'[r] = q
    BY <1>2 DEF Ask, KeysInv, TypeOK
  <2> HIDE DEF q
  <2>4. \A k \in cache.keys : Within(k, clock)
    BY <1>2, EntryIsGood
  <2>5. Sound(r)'
    BY <1>1, <2>1, <2>2, <2>3, <2>4 DEF Sound, Within, Given
  <2> QED
    BY <1>1, <2>2, <2>3, <2>5, OneStands
<1>3. CASE ~Fresh
  BY <1>1, <1>3, FetchingKeeps DEF Ask
<1> QED
  BY <1>2, <1>3

\* A key is looked for in what a request got, and then refreshed for or asked of the entry
\* there is by now.
LEMMA LookKeeps ==
    ASSUME KeysInv, NEW r \in Request, Look(r)
    PROVE  KeysInv'
<1> DEFINE q == request[r]
           kid == q.kid
<1>1. UNCHANGED <<clock, life, cache, spent, undone>> /\ q.pc = "look"
  BY DEF Look
<1>2. /\ kid \in Key /\ q.looked \in Time /\ q.looked \in Nat /\ q.looked <= clock /\ clock \in Time
      /\ clock \in Nat /\ Floor \in Nat /\ Floor > 0 /\ Latency \in Nat
      /\ \A k \in q.keys : Within(k, q.looked)
      /\ q.force => \A k \in Key \ q.keys : Missed(k, q.looked, 0, clock)
  <2>1. q.looked \in Time
    <3>1. \A x \in RequestState : x.looked \in Time
      BY DEF RequestState
    <3> QED
      BY <3>1 DEF KeysInv, TypeOK
  <2> QED
    BY <1>1, <2>1, Instants, Bounds DEF KeysInv, Sound
<1>3. CASE kid \in q.keys
  <2>1. End(r, "admitted", q.looked) /\ Within(kid, q.looked)
    BY <1>2, <1>3 DEF Look
  <2> QED
    BY <1>1, <1>2, <2>1, EndKeeps DEF Outcome
<1>4. CASE kid \notin q.keys /\ q.force
  <2>1. End(r, "no_key", q.looked) /\ Missed(kid, q.looked, 0, clock)
    BY <1>2, <1>4 DEF Look
  <2>2. life[kid].from # None => life[kid].from \in Nat
    BY <1>2, Instants, Bounds DEF KeysInv
  <2>3. Since(kid, q.looked, clock)
    BY <1>2, <2>1, <2>2 DEF Missed, Since
  <2> QED
    BY <1>1, <1>2, <2>1, <2>3, EndKeeps DEF Outcome
<1>5. CASE kid \notin q.keys /\ ~q.force /\ ~Refreshed
  <2>1. Fetching(r, kid, TRUE)
    BY <1>5 DEF Look
  <2> QED
    BY <1>1, <1>2, <2>1, FetchingKeeps
<1>6. CASE kid \notin q.keys /\ ~q.force /\ Refreshed
  <2>1. End(r, IF kid \in cache.keys THEN "admitted" ELSE "no_key", clock)
    BY <1>6 DEF Look
  <2>2. CASE kid \in cache.keys
    <3>1. End(r, "admitted", clock) /\ Within(kid, clock)
      BY <1>6, <2>1, <2>2, EntryIsGood
    <3> QED
      BY <1>1, <1>2, <3>1, EndKeeps DEF Outcome
  <2>3. CASE kid \notin cache.keys
    <3>1. End(r, "no_key", clock) /\ Since(kid, clock, clock)
      BY <1>2, <1>6, <2>1, <2>3, EntryMisses
    <3> QED
      BY <1>1, <1>2, <3>1, EndKeeps DEF Outcome
  <2> QED
    BY <2>2, <2>3
<1> QED
  BY <1>3, <1>4, <1>5, <1>6

\* A fetch is answered with what is published at that instant.
LEMMA AnswerKeeps ==
    ASSUME KeysInv, NEW r \in Request, Answer(r)
    PROVE  KeysInv'
<1> DEFINE q == [request[r] EXCEPT !.pc = "arrive", !.keys = Published]
<1>1. UNCHANGED <<clock, life, cache, spent, undone>> /\ request[r].pc = "fetch"
  BY DEF Answer
<1>2. request[r] \in RequestState /\ Sound(r) /\ Published \subseteq Key /\ clock \in Nat
      /\ request[r].looked \in Nat /\ request[r].looked <= clock
  BY Instants, Bounds DEF KeysInv, Published, Sound
<1>3. /\ q \in RequestState /\ q.pc = "arrive" /\ q.keys = Published /\ q.kid = request[r].kid
      /\ q.looked = request[r].looked /\ q.held = request[r].held
  BY <1>2 DEF RequestState
<1>4. request' = [request EXCEPT ![r] = q] /\ request'[r] = q
  BY DEF Answer, KeysInv, TypeOK
<1> HIDE DEF q
<1>5. ASSUME NEW k \in Key
      PROVE  IF k \in Published THEN Given(k, request[r].looked, 0)
             ELSE Missed(k, request[r].looked, 0, clock)
  <2>1. life[k].to # None => life[k].to <= clock
    BY DEF KeysInv
  <2> QED
    BY <2>1 DEF Published, Given, Missed
<1>6. Answered(r)'
  BY <1>1, <1>3, <1>4, <1>5 DEF Answered, Given, Missed
<1>7. Sound(r)'
  BY <1>1, <1>2, <1>3, <1>4, <1>6 DEF Sound
<1> QED
  BY <1>1, <1>3, <1>4, <1>7, OneStands

\* What arrives is stored: it was published within the fetch.
LEMMA ArriveKeeps ==
    ASSUME KeysInv, NEW r \in Request, Arrive(r)
    PROVE  KeysInv'
<1> DEFINE q == request[r]
<1>1. UNCHANGED <<clock, life>> /\ q.pc = "arrive" /\ TypeOK
  BY DEF Arrive, KeysInv
<1>2. /\ q.looked \in Nat /\ q.held \in Nat /\ q.keys \subseteq Key /\ q \in RequestState
      /\ clock \in Nat /\ clock \in Time /\ Latency \in Nat /\ Ttl \in Nat /\ Ttl > 0
  <2>1. q.looked \in Nat /\ q.held \in Nat /\ q.keys \subseteq Key /\ q \in RequestState /\ clock \in Time
    BY <1>1, Instants
  <2>2. clock \in Nat
    BY <2>1, Bounds
  <2>3. Latency \in Nat /\ Ttl \in Nat /\ Ttl > 0
    BY Bounds
  <2> HIDE DEF q
  <2> QED
    BY <2>1, <2>2, <2>3
<1>3. /\ Sound(r) /\ q.kid \in Key /\ Answered(r)
      /\ q.looked <= clock /\ clock <= q.looked + Latency /\ q.held <= clock
  <2>1. Sound(r)
    BY DEF KeysInv
  <2> QED
    BY <1>1, <2>1 DEF Sound
<1>4. Stamp(r) \in Time \cup {0} /\ Stamp(r) <= clock /\ Stamp(r) = IF q.force THEN clock ELSE q.held
  <2>1. \A x \in RequestState : x.held \in Time \cup {0}
    BY DEF RequestState
  <2> QED
    BY <1>2, <1>3, <2>1 DEF Stamp
<1>5. /\ cache' \in Entry /\ cache' # None
      /\ cache'.keys = q.keys /\ cache'.fetchedAt = clock /\ cache'.refreshedAt = Stamp(r)
  BY <1>2, <1>4, NoneIsNoEntry DEF Arrive, StoredAt, Entry
<1>6. /\ request' \in [Request -> RequestState] /\ \A s \in Request \ {r} : request'[s] = request[s]
      /\ request'[r].pc = "look" /\ request'[r].kid = q.kid /\ request'[r].force = q.force
      /\ request'[r].held = q.held /\ request'[r].keys = q.keys /\ request'[r].looked = q.looked
  <2>1. request \in [Request -> RequestState] /\ request' = [request EXCEPT ![r].pc = "look"]
    BY <1>1 DEF Arrive, TypeOK
  <2>2. [q EXCEPT !.pc = "look"] \in RequestState
    BY <1>2 DEF RequestState
  <2>3. request' = [request EXCEPT ![r] = [q EXCEPT !.pc = "look"]]
    BY <2>1
  <2> HIDE DEF q
  <2>4. request' \in [Request -> RequestState] /\ request'[r] = [q EXCEPT !.pc = "look"]
        /\ \A s \in Request \ {r} : request'[s] = request[s]
    BY <2>1, <2>2, <2>3
  <2> QED
    BY <1>2, <2>4 DEF RequestState
<1>7. spent' = (IF q.force THEN clock ELSE spent) /\ undone' = (~q.force /\ (undone \/ Held # q.held))
  BY DEF Arrive
<1>8. TypeOK'
  <2>1. spent' \in Time \cup {0} /\ undone' \in BOOLEAN
    BY <1>1, <1>2, <1>7 DEF TypeOK
  <2>2. \A s \in Request : request'[s].pc = "fetch" => request'[s].keys = {}
    BY <1>1, <1>6 DEF TypeOK
  <2>3. cache' \in Entry \cup {None} /\ cache'.refreshedAt <= cache'.fetchedAt /\ cache'.fetchedAt <= clock
    BY <1>2, <1>4, <1>5
  <2>4. clock' \in Time /\ life' \in [Key -> Life] /\ clock' = clock
    BY <1>1 DEF TypeOK
  <2> QED
    BY <1>6, <2>1, <2>2, <2>3, <2>4 DEF TypeOK
<1>9. \A k \in Key : /\ life[k].to # None => life[k].to \in Nat
                     /\ life[k].from # None => life[k].from \in Nat
  BY <1>1, Instants, Bounds
<1>10. EntrySound'
  <2> SUFFICES ASSUME NEW k \in Key
               PROVE  IF k \in q.keys THEN Given(k, clock, Latency)'
                      ELSE Missed(k, clock, Latency, clock)'
    BY <1>1, <1>5 DEF EntrySound, Given, Missed
  <2>1. IF k \in q.keys THEN Given(k, q.looked, 0) ELSE Missed(k, q.looked, 0, clock)
    BY <1>3 DEF Answered
  <2> QED
    BY <1>1, <1>2, <1>3, <1>9, <2>1 DEF Given, Missed
<1>11. StampIsLast'
  <2>1. Held' = Stamp(r)
    BY <1>5 DEF Held
  <2>2. undone \/ Held = spent
    BY DEF KeysInv, StampIsLast
  <2> QED
    BY <1>4, <1>7, <2>1, <2>2 DEF StampIsLast
<1>12. Sound(r)'
  <2>1. \A k \in q.keys : Within(k, q.looked)
    <3> SUFFICES ASSUME NEW k \in q.keys PROVE Within(k, q.looked)
      OBVIOUS
    <3>1. k \in Key /\ Given(k, q.looked, 0)
      BY <1>2, <1>3 DEF Answered
    <3> QED
      BY <1>1, <1>2, <1>9, <3>1 DEF Given, Within
  <2>2. \A k \in Key \ q.keys : Missed(k, q.looked, 0, clock)
    BY <1>3 DEF Answered
  <2> QED
    BY <1>1, <1>3, <1>6, <2>1, <2>2 DEF Sound, Within, Given, Missed
<1> QED
  BY <1>1, <1>6, <1>8, <1>10, <1>11, <1>12, OneMoves

\* A fetch that fails stores nothing and admits nobody.
LEMMA FailKeeps ==
    ASSUME KeysInv, NEW r \in Request, Fail(r)
    PROVE  KeysInv'
<1>1. UNCHANGED <<clock, life, cache, spent, undone>> /\ End(r, "no_fetch", request[r].looked)
  BY DEF Fail
<1>2. request[r].looked \in Time /\ request[r].looked <= clock
  <2>1. \A x \in RequestState : x.looked \in Time
    BY DEF RequestState
  <2> QED
    BY <2>1 DEF KeysInv, TypeOK, Sound
<1> QED
  BY <1>1, <1>2, EndKeeps DEF Outcome

-----------------------------------------------------------------------------
(* All of it.                                                               *)

\* There is no entry at first and no request.
LEMMA InitKeeps == Init => KeysInv
<1> SUFFICES ASSUME Init PROVE KeysInv
  OBVIOUS
<1>1. /\ clock = Floor /\ Floor \in Time /\ Floor \in Nat /\ cache = None /\ spent = 0 /\ undone = FALSE
      /\ request = [r \in Request |-> Idle]
      /\ life = [k \in Key |-> [from |-> IF k \in First THEN Floor ELSE None, to |-> None]]
  BY Bounds DEF Init
<1>2. Idle \in RequestState
  BY <1>1 DEF Idle, RequestState
<1>3. life \in [Key -> Life] /\ \A k \in Key : life[k].to = None
  BY <1>1 DEF Life
<1>4. TypeOK
  BY <1>1, <1>2, <1>3 DEF TypeOK, Idle
<1>5. ASSUME NEW r \in Request PROVE Sound(r)
  BY <1>1 DEF Sound, Idle
<1> QED
  BY <1>1, <1>3, <1>4, <1>5 DEF KeysInv, EntrySound, StampIsLast, Held

\* Every step keeps it.
LEMMA StepKeeps == KeysInv /\ [Next]_vars => KeysInv'
<1> SUFFICES ASSUME KeysInv, [Next]_vars PROVE KeysInv'
  OBVIOUS
<1>1. CASE Tick
  BY <1>1, TickKeeps
<1>2. ASSUME NEW k \in Key, Publish(k) \/ Retire(k) PROVE KeysInv'
  BY <1>2, TeamKeeps
<1>3. ASSUME NEW r \in Request, NEW kid \in Key, Ask(r, kid) PROVE KeysInv'
  BY <1>3, AskKeeps
<1>4. ASSUME NEW r \in Request, Look(r) PROVE KeysInv'
  BY <1>4, LookKeeps
<1>5. ASSUME NEW r \in Request, Answer(r) PROVE KeysInv'
  BY <1>5, AnswerKeeps
<1>6. ASSUME NEW r \in Request, Arrive(r) PROVE KeysInv'
  BY <1>6, ArriveKeeps
<1>7. ASSUME NEW r \in Request, Fail(r) PROVE KeysInv'
  BY <1>7, FailKeeps
<1>8. CASE UNCHANGED vars
  BY <1>8 DEF vars, KeysInv, TypeOK, EntrySound, StampIsLast, Held, Sound, Answered, Within,
              Since, Given, Missed
<1> QED
  BY <1>1, <1>2, <1>3, <1>4, <1>5, <1>6, <1>7, <1>8 DEF Next

\* It holds of every reachable state.
LEMMA KeysInvariant == Spec => []KeysInv
  BY InitKeeps, StepKeeps, PTL DEF Spec

-----------------------------------------------------------------------------
(* Theorems.                                                                *)

\* The clock, the lives of the keys, the entry and the requests keep their
\* shapes (fetchJwks and verifyAccessJwt).
THEOREM TypeCorrect == Spec => []TypeOK
<1>1. KeysInv => TypeOK
  BY DEF KeysInv
<1> QED
  BY <1>1, KeysInvariant, PTL

\* However fetches overlap and overwrite each other's answers in the isolate, a
\* token is admitted only by a key that was still published less than the time
\* to live, and what a fetch takes, before the request looked.
THEOREM KeysAreForgotten == Spec => []RetiredKeysAreForgotten
<1>1. ASSUME KeysInv PROVE RetiredKeysAreForgotten
  <2> SUFFICES ASSUME NEW r \in Request, request[r].pc = "admitted"
               PROVE  /\ life[request[r].kid].from # None
                      /\ life[request[r].kid].to # None =>
                            request[r].looked < life[request[r].kid].to + Ttl + Latency
    BY DEF RetiredKeysAreForgotten
  <2> DEFINE k == request[r].kid
  <2>1. /\ k \in Key /\ Within(k, request[r].looked)
    BY <1>1 DEF KeysInv, Sound
  <2>2. /\ request[r].looked \in Nat /\ Ttl \in Nat /\ Latency \in Nat
        /\ life[k].to # None => life[k].to \in Nat
    BY <1>1, <2>1, Instants, Bounds DEF KeysInv
  <2> QED
    BY <2>1, <2>2 DEF Within, Given
<1> QED
  BY <1>1, KeysInvariant, PTL

\* A token whose key was published all the while is refused for its key only in
\* the floor, and what a fetch takes, after the key was published.
THEOREM RotationsArePickedUp == Spec => []RotationIsPickedUp
<1>1. ASSUME KeysInv PROVE RotationIsPickedUp
  <2> SUFFICES ASSUME NEW r \in Request, request[r].pc = "no_key", life[request[r].kid].from # None,
                      \/ life[request[r].kid].to = None
                      \/ life[request[r].kid].to > request[r].ended
               PROVE  request[r].looked < life[request[r].kid].from + Floor + Latency
    BY DEF RotationIsPickedUp
  <2> DEFINE k == request[r].kid
  <2>1. k \in Key /\ Since(k, request[r].looked, request[r].ended)
    BY <1>1 DEF KeysInv, Sound
  <2>2. /\ request[r].looked \in Nat /\ request[r].ended \in Nat /\ Floor \in Nat /\ Latency \in Nat
        /\ life[k].from \in Nat
        /\ life[k].to # None => life[k].to \in Nat
    BY <1>1, <2>1, Instants, Bounds DEF KeysInv
  <2> QED
    BY <2>1, <2>2 DEF Since, Missed
<1> QED
  BY <1>1, KeysInvariant, PTL

\* A refresh begins no sooner than a floor after the last one that was stored,
\* unless a read that began before that one was stored after it.
THEOREM FloorsAreKept == Spec => FloorIsKept
<1> DEFINE Spaced == \A r \in Request :
                 request'[r].pc = "fetch" /\ request'[r].force /\ request[r].pc = "look"
                     => undone \/ spent = 0 \/ clock - spent >= Floor
<1>1. ASSUME KeysInv, [Next]_vars PROVE [Spaced]_vars
  <2> SUFFICES ASSUME NEW r \in Request, request'[r].pc = "fetch", request'[r].force,
                      request[r].pc = "look", ~undone, spent # 0
               PROVE  clock - spent >= Floor
    OBVIOUS
  <2>1. TypeOK /\ clock \in Nat /\ spent \in Nat /\ Floor \in Nat /\ Held = spent
    BY <1>1, Instants, Bounds DEF KeysInv, StampIsLast
  <2>2. Look(r)
    <3>1. request'[r] # request[r]
      OBVIOUS
    <3>2. ASSUME NEW s \in Request, \E q : request' = [request EXCEPT ![s] = q] PROVE s = r
      BY <2>1, <3>1, <3>2 DEF TypeOK
    <3>3. ASSUME NEW s \in Request, NEW kid \in Key, Ask(s, kid) PROVE FALSE
      <4>1. s = r
        BY <3>2, <3>3 DEF Ask, Fetching
      <4> QED
        BY <3>3, <4>1 DEF Ask
    <3>4. ASSUME NEW s \in Request, Look(s) PROVE s = r
      BY <3>2, <3>4 DEF Look, Fetching, End
    <3>5. ASSUME NEW s \in Request, Answer(s) \/ Arrive(s) \/ Fail(s) PROVE FALSE
      <4>1. request[s].pc # "look"
        BY <3>5 DEF Answer, Arrive, Fail
      <4>2. s # r => request'[r] = request[r]
        BY <2>1, <3>5 DEF Answer, Arrive, Fail, End, TypeOK
      <4> QED
        BY <3>1, <4>1, <4>2
    <3>6. ASSUME Tick \/ (\E k \in Key : Publish(k) \/ Retire(k)) \/ UNCHANGED vars PROVE FALSE
      BY <3>1, <3>6 DEF Tick, Publish, Retire, vars
    <3> QED
      BY <1>1, <3>3, <3>4, <3>5, <3>6 DEF Next
  <2>3. ~Refreshed
    <3> DEFINE q == request[r]
    <3>1. ASSUME NEW outcome, NEW looked, End(r, outcome, looked) PROVE outcome = "fetch" \/ outcome = "no_fetch"
      <4>1. request'[r].pc = outcome
        BY <2>1, <3>1 DEF End, Idle, TypeOK
      <4> QED
        BY <4>1
    <3> QED
      BY <2>2, <3>1 DEF Look
  <2> QED
    BY <2>1, <2>3 DEF Refreshed, Held
<1> QED
  BY <1>1, KeysInvariant, PTL DEF Spec, FloorIsKept

-----------------------------------------------------------------------------
(* The memo of assembled drafts.  The invariant says what the version        *)
(* stands for: an entry, or a load in progress, whose version is still the   *)
(* site's has nothing but the site's current parts.                          *)


\* Every reachable state of the memo is well typed.
THEOREM MemoTypeCorrect == MemoSpec => []MemoTypeOK
<1>. USE WritesAreNat
<1>1. MemoInit => MemoTypeOK
  BY DEF MemoInit, MemoTypeOK, SiteKey, Content, Blank, LoaderState
<1>2. MemoTypeOK /\ [MemoNext]_memoVars => MemoTypeOK'
  <2>. SUFFICES ASSUME MemoTypeOK, [MemoNext]_memoVars PROVE MemoTypeOK'
    OBVIOUS
  <2>1. CASE UNCHANGED memoVars
    BY <2>1 DEF MemoTypeOK, memoVars
  <2>2. CASE Write
    <3>1. PICK changed \in SUBSET Part :
             site' = [key |-> site.key,
                      version |-> Bump(site.version, changed),
                      parts |-> [p \in Part |-> IF p \in changed THEN writes + 1
                                               ELSE site.parts[p]]]
      BY <2>2 DEF Write
    <3>2. writes' \in 0..MaxWrites /\ writes + 1 \in Content
      BY <2>2 DEF Write, MemoTypeOK, Content
    <3>3. [p \in Part |-> IF p \in changed THEN writes + 1 ELSE site.parts[p]] \in [Part -> Content]
      BY <3>2 DEF MemoTypeOK
    <3> QED
      BY <2>2, <3>1, <3>2, <3>3 DEF Write, MemoTypeOK, Bump
  <2>3. CASE Recreate
    <3>1. writes + 1 \in SiteKey /\ writes + 1 \in Content /\ writes' \in 0..MaxWrites
      BY <2>3 DEF Recreate, MemoTypeOK, SiteKey, Content
    <3>2. PICK i \in Isolate : memo' = [memo EXCEPT ![i][site.key] = None]
      BY <2>3 DEF Recreate
    <3>3. memo' \in [Isolate -> [SiteKey -> MemoEntry \cup {None}]]
      BY <3>2 DEF MemoTypeOK
    <3> QED
      BY <2>3, <3>1, <3>3 DEF Recreate, MemoTypeOK
  <2>4. ASSUME NEW l \in Loader, ReadRow(l) PROVE MemoTypeOK'
    <3>1. [Blank EXCEPT !["site"] = site.parts["site"]] \in [Part -> Content]
      BY DEF MemoTypeOK, Blank, Content, Part
    <3>2. Hit(loader[l].at, site) => memo[loader[l].at][site.key].parts \in [Part -> Content]
      BY DEF MemoTypeOK, Hit, MemoEntry, LoaderState
    <3> QED
      BY <2>4, <3>1, <3>2 DEF ReadRow, MemoTypeOK, LoaderState
  <2>5. \A key, p : p \in Part => Current(key, p) \in Content
    BY DEF MemoTypeOK, Current, Gone, Content
  <2>6. \A l \in Loader, p \in Part, pc \in {"pages", "done"} : Went(l, p, pc) \in LoaderState
    BY <2>5 DEF MemoTypeOK, LoaderState, Went
  <2>7. ASSUME NEW l \in Loader, ReadPages(l) PROVE MemoTypeOK'
    BY <2>6, <2>7 DEF ReadPages, MemoTypeOK, Part
  <2>9. ASSUME NEW l \in Loader, ReadAssets(l) PROVE MemoTypeOK'
    <3>1. Went(l, "assets", "done") \in LoaderState
      BY <2>6 DEF Part
    <3>2. [version |-> loader[l].version, parts |-> Went(l, "assets", "done").read] \in MemoEntry
      BY <3>1 DEF MemoTypeOK, LoaderState, MemoEntry
    <3>3. loader' \in [Loader -> LoaderState]
      BY <2>9, <3>1 DEF ReadAssets, MemoTypeOK
    <3>4. memo' \in [Isolate -> [SiteKey -> MemoEntry \cup {None}]]
      BY <2>9, <3>2 DEF ReadAssets, MemoTypeOK
    <3> QED
      BY <2>9, <3>3, <3>4 DEF ReadAssets, MemoTypeOK
  <2>8. ASSUME NEW i \in Isolate, Evict(i) PROVE MemoTypeOK'
    BY <2>8 DEF Evict, MemoTypeOK
  <2> QED
    BY <2>1, <2>2, <2>3, <2>4, <2>7, <2>8, <2>9 DEF MemoNext
<1> QED
  BY <1>1, <1>2, PTL DEF MemoSpec

-----------------------------------------------------------------------------
(* The inductive invariant.                                                *)

\* An entry under the site's key that has the site's version is the site.
EntryInv(e) ==
    /\ e.version <= site.version
    /\ e.version = site.version => e.parts = site.parts

\* A load in progress: what it read is no older than the draft it began with,
\* nor is what it has still to read; and if the version it read is still the
\* site's, what it read is still the site's.
LoadInv(l) ==
    /\ l.key <= writes
    /\ \A p \in Part : Current(l.key, p) >= l.start[p]
    /\ l.read["site"] >= l.start["site"]
    /\ l.pc = "pages" => l.read["pages"] >= l.start["pages"]
    /\ l.key = site.key => l.version <= site.version
    /\ l.key = site.key /\ l.version = site.version =>
          /\ l.read["site"] = site.parts["site"]
          /\ l.pc = "pages" => l.read["pages"] = site.parts["pages"]

MemoInv ==
    /\ MemoTypeOK
    /\ site.key <= writes
    /\ \A p \in Part : site.parts[p] <= writes
    /\ \A i \in Isolate, k \in SiteKey : k > writes => memo[i][k] = None
    /\ \A i \in Isolate : memo[i][site.key] # None => EntryInv(memo[i][site.key])
    /\ \A l \in Loader : loader[l].pc \in {"row", "pages"} => LoadInv(loader[l])
    /\ NoStaleDraft

\* Nothing is remembered at first.
LEMMA MemoInvInit == MemoInit => MemoInv
<1>. USE WritesAreNat
<1>. SUFFICES ASSUME MemoInit PROVE MemoInv
  OBVIOUS
<1>1. MemoTypeOK
  BY DEF MemoInit, MemoTypeOK, SiteKey, Content, Blank, LoaderState
<1>2. \A l \in Loader : loader[l].pc = "idle"
  BY DEF MemoInit
<1>3. /\ writes = 0 /\ site.key = 0 /\ site.key \in SiteKey
      /\ \A p \in Part : site.parts[p] = 0
  BY DEF MemoInit, Blank, SiteKey
<1>4. \A i \in Isolate, k \in SiteKey : memo[i][k] = None
  BY DEF MemoInit
<1>5. NoStaleDraft
  BY <1>2 DEF NoStaleDraft
<1> QED
  BY <1>1, <1>2, <1>3, <1>4, <1>5 DEF MemoInv

\* Every step keeps what is said of entries and of loads.
LEMMA MemoInvStep ==
    ASSUME MemoInv, MemoTypeOK', [MemoNext]_memoVars
    PROVE  MemoInv'
<1>. USE WritesAreNat
<1>0. MemoTypeOK
  BY DEF MemoInv
<1>. DEFINE Loading(l) == loader[l].pc \in {"row", "pages"}
<1>1. CASE UNCHANGED memoVars
  BY <1>1 DEF memoVars, MemoInv, EntryInv, LoadInv, Current, NoStaleDraft
<1>2. CASE Write
  <2>1. /\ writes' = writes + 1
        /\ site'.key = site.key
        /\ site'.version = site.version + 1
        /\ \A p \in Part : site'.parts[p] \in {site.parts[p], writes + 1}
        /\ UNCHANGED <<memo, loader>>
    BY <1>2 DEF Write, Bump
  <2>2. /\ site.version \in Nat /\ writes \in Nat /\ site.key \in Nat
        /\ \A p \in Part : site.parts[p] \in Nat
    BY <1>0 DEF MemoTypeOK, SiteKey, Content
  <2>3. \A p \in Part : site'.parts[p] >= site.parts[p] /\ site'.parts[p] <= writes'
    BY <2>1, <2>2 DEF MemoInv
  <2>4. ASSUME NEW i \in Isolate, memo[i][site.key] # None
        PROVE  memo[i][site.key].version < site'.version
    <3>1. memo[i][site.key] \in MemoEntry
      BY <1>0, <2>4 DEF MemoTypeOK
    <3> QED
      BY <2>1, <2>2, <2>4, <3>1 DEF MemoInv, EntryInv, MemoEntry
  <2>5. ASSUME NEW l \in Loader, Loading(l) PROVE LoadInv(loader[l])'
    <3>1. LoadInv(loader[l]) /\ loader[l] \in LoaderState
      BY <1>0, <2>5 DEF MemoInv, MemoTypeOK
    <3>2. \A p \in Part : Current(loader[l].key, p)' >= Current(loader[l].key, p)
      BY <2>1, <2>2, <2>3 DEF Current, Gone
    <3>3. \A p \in Part : /\ Current(loader[l].key, p)' \in Nat
                          /\ Current(loader[l].key, p) \in Nat
                          /\ loader[l].start[p] \in Nat
      BY <2>1, <2>2, <2>3, <3>1, <1>0 DEF Current, Gone, LoaderState, MemoTypeOK, Content
    <3>4. \A p \in Part : Current(loader[l].key, p)' >= loader[l].start[p]
      BY <3>1, <3>2, <3>3 DEF LoadInv
    <3>5. loader[l].key = site.key => loader[l].version < site'.version
      BY <2>1, <2>2, <3>1 DEF LoadInv, LoaderState
    <3>6. loader[l].key <= writes'
      BY <2>1, <2>2, <3>1 DEF LoadInv, LoaderState, SiteKey
    <3>7. loader[l].version \in Nat /\ site'.version \in Nat
      BY <2>1, <2>2, <3>1 DEF LoaderState
    <3> QED
      BY <2>1, <3>1, <3>4, <3>5, <3>6, <3>7 DEF LoadInv
  <2>6. site'.version \in Nat /\ \A i \in Isolate : memo[i][site.key] # None => memo[i][site.key].version \in Nat
    BY <1>0, <2>1, <2>2 DEF MemoTypeOK, MemoEntry
  <2>7. \A i \in Isolate : memo'[i][site'.key] # None => EntryInv(memo[i][site.key])'
    BY <2>1, <2>4, <2>6 DEF EntryInv
  <2>8. site'.key <= writes' /\ \A i \in Isolate, k \in SiteKey : k > writes' => memo'[i][k] = None
    BY <2>1, <2>2 DEF MemoInv, SiteKey
  <2>9. NoStaleDraft'
    BY <2>1 DEF MemoInv, NoStaleDraft
  <2> QED
    BY <2>1, <2>3, <2>5, <2>7, <2>8, <2>9 DEF MemoInv
<1>3. CASE Recreate
  <2>1. /\ writes' = writes + 1
        /\ site' = [key |-> writes + 1, version |-> 0, parts |-> [p \in Part |-> writes + 1]]
        /\ UNCHANGED loader
    BY <1>3 DEF Recreate
  <2>2. writes \in Nat /\ writes < MaxWrites /\ site.key \in Nat
    BY <1>0, <1>3 DEF MemoTypeOK, Recreate, SiteKey
  <2>3. PICK j \in Isolate : memo' = [memo EXCEPT ![j][site.key] = None]
    BY <1>3 DEF Recreate
  <2>4. \A i \in Isolate, k \in SiteKey : memo'[i][k] \in {memo[i][k], None}
    BY <1>0, <2>3 DEF MemoTypeOK
  <2>5. \A i \in Isolate, k \in SiteKey : k > writes => memo'[i][k] = None
    BY <2>4 DEF MemoInv
  <2>6. site'.key \in SiteKey /\ site'.key > writes
    BY <2>1, <2>2 DEF SiteKey
  <2>7. ASSUME NEW l \in Loader, Loading(l) PROVE LoadInv(loader[l])'
    <3>1. LoadInv(loader[l]) /\ loader[l] \in LoaderState
      BY <1>0, <2>7 DEF MemoInv, MemoTypeOK
    <3>2. loader[l].key <= writes /\ loader[l].key \in Nat
      BY <3>1 DEF LoadInv, LoaderState, SiteKey
    <3>3. loader[l].key # site'.key /\ loader[l].key <= writes'
      BY <2>1, <2>2, <3>2
    <3>4. \A p \in Part : Current(loader[l].key, p)' = MaxWrites + 1
      BY <3>3, <2>1 DEF Current, Gone
    <3>5. \A p \in Part : MaxWrites + 1 >= loader[l].start[p]
      BY <3>1 DEF LoaderState, Content
    <3> QED
      BY <2>1, <3>1, <3>3, <3>4, <3>5 DEF LoadInv
  <2>8. \A p \in Part : site'.parts[p] <= writes'
    BY <2>1, <2>2
  <2>9. \A i \in Isolate : memo'[i][site'.key] = None
    BY <2>5, <2>6
  <2>10. \A i \in Isolate, k \in SiteKey : k > writes' => memo'[i][k] = None
    BY <2>1, <2>2, <2>5 DEF SiteKey
  <2>11. site'.key <= writes' /\ NoStaleDraft'
    BY <2>1, <2>2 DEF MemoInv, NoStaleDraft
  <2> QED
    BY <2>1, <2>7, <2>8, <2>9, <2>10, <2>11 DEF MemoInv
<1>4. ASSUME NEW l \in Loader, ReadRow(l) PROVE MemoInv'
  <2>1. UNCHANGED <<site, writes, memo>> /\ loader[l] \in LoaderState /\ loader'[l] \in LoaderState
    BY <1>0, <1>4 DEF ReadRow, MemoTypeOK
  <2>2. /\ loader'[l].key = site.key
        /\ loader'[l].version = site.version
        /\ loader'[l].start = site.parts
        /\ \A m \in Loader \ {l} : loader'[m] = loader[m]
    BY <1>0, <1>4 DEF ReadRow, MemoTypeOK
  <2>3. site.version \in Nat /\ \A p \in Part : site.parts[p] \in Nat
    BY <1>0 DEF MemoTypeOK, Content
  <2>4. CASE Hit(loader[l].at, site)
    <3>1. loader'[l].pc = "done" /\ loader'[l].read = memo[loader[l].at][site.key].parts
      BY <1>0, <1>4, <2>4 DEF ReadRow, MemoTypeOK
    <3>2. memo[loader[l].at][site.key].parts = site.parts
      BY <2>1, <2>4 DEF Hit, MemoInv, EntryInv, LoaderState
    <3>3. \A p \in Part : loader'[l].read[p] >= loader'[l].start[p]
      BY <2>2, <2>3, <3>1, <3>2
    <3>4. NoStaleDraft'
      BY <2>2, <3>3 DEF MemoInv, NoStaleDraft
    <3> QED
      BY <2>1, <2>2, <3>1, <3>4 DEF MemoInv, EntryInv, LoadInv, Current
  <2>5. CASE ~Hit(loader[l].at, site)
    <3>1. loader'[l].pc = "row" /\ loader'[l].read["site"] = site.parts["site"]
      BY <1>0, <1>4, <2>5 DEF ReadRow, MemoTypeOK, Blank, Part
    <3>2. \A p \in Part : Current(loader'[l].key, p) >= loader'[l].start[p]
      BY <2>2, <2>3 DEF Current
    <3>3. "site" \in Part
      BY DEF Part
    <3>4. loader'[l].read["site"] >= loader'[l].start["site"]
      BY <2>2, <2>3, <3>1, <3>3
    <3>5. LoadInv(loader'[l])
      BY <2>2, <2>3, <3>1, <3>2, <3>4 DEF LoadInv, MemoInv
    <3>6. NoStaleDraft'
      BY <2>2, <3>1 DEF MemoInv, NoStaleDraft
    <3> QED
      BY <2>1, <2>2, <3>5, <3>6 DEF MemoInv, EntryInv, LoadInv, Current
  <2> QED
    BY <2>4, <2>5
<1>5. ASSUME NEW l \in Loader, ReadPages(l) PROVE MemoInv'
  <2>1. /\ loader[l].pc = "row" /\ loader[l] \in LoaderState /\ LoadInv(loader[l])
        /\ UNCHANGED <<site, writes, memo>>
        /\ loader'[l] = Went(l, "pages", "pages")
        /\ \A m \in Loader \ {l} : loader'[m] = loader[m]
    BY <1>0, <1>5 DEF ReadPages, MemoTypeOK, MemoInv
  <2>2. /\ loader'[l].pc = "pages"
        /\ loader'[l].key = loader[l].key
        /\ loader'[l].version = loader[l].version
        /\ loader'[l].start = loader[l].start
        /\ loader'[l].read["site"] = loader[l].read["site"]
        /\ loader'[l].read["pages"] = Current(loader[l].key, "pages")
    BY <2>1 DEF Went, LoaderState, Part
  <2>3. "pages" \in Part
    BY DEF Part
  <2>4. LoadInv(loader'[l])
    BY <2>1, <2>2, <2>3 DEF LoadInv, Current
  <2>5. NoStaleDraft'
    BY <2>1, <2>2 DEF MemoInv, NoStaleDraft
  <2> QED
    BY <2>1, <2>4, <2>5 DEF MemoInv, EntryInv, LoadInv, Current
<1>6. ASSUME NEW l \in Loader, ReadAssets(l) PROVE MemoInv'
  <2>. DEFINE i == loader[l].at
              k == loader[l].key
              got == Went(l, "assets", "done").read
              e == [version |-> loader[l].version, parts |-> got]
  <2>1. /\ loader[l].pc = "pages" /\ loader[l] \in LoaderState /\ LoadInv(loader[l])
        /\ UNCHANGED <<site, writes>>
        /\ loader'[l] = Went(l, "assets", "done")
        /\ \A m \in Loader \ {l} : loader'[m] = loader[m]
    BY <1>0, <1>6 DEF ReadAssets, MemoTypeOK, MemoInv
  <2>2. /\ got = loader'[l].read
        /\ loader'[l].pc = "done"
        /\ loader'[l].start = loader[l].start
        /\ got["site"] = loader[l].read["site"]
        /\ got["pages"] = loader[l].read["pages"]
        /\ got["assets"] = Current(k, "assets")
        /\ DOMAIN got = Part
    BY <2>1 DEF Went, LoaderState, Part
  <2>3. \A p \in Part : got[p] >= loader[l].start[p]
    BY <2>1, <2>2 DEF LoadInv, Part
  <2>4. i \in Isolate /\ k \in SiteKey
    BY <2>1 DEF LoaderState
  <2>5. k = site.key => EntryInv(e)
    <3>. SUFFICES ASSUME k = site.key PROVE EntryInv(e)
      OBVIOUS
    <3>1. e.version <= site.version
      BY <2>1 DEF LoadInv
    <3>2. ASSUME e.version = site.version PROVE e.parts = site.parts
      <4>1. \A p \in Part : got[p] = site.parts[p]
        BY <2>1, <2>2, <3>2 DEF LoadInv, Current, Part
      <4>2. got \in [Part -> Content] /\ site.parts \in [Part -> Content]
        BY <1>0, <2>1, <2>2 DEF MemoTypeOK, LoaderState, Went, Current, Gone, Content
      <4> QED
        BY <4>1, <4>2
    <3> QED
      BY <3>1, <3>2 DEF EntryInv
  <2>6. memo' = [memo EXCEPT ![i][k] = e]
    BY <1>6 DEF ReadAssets
  <2>. HIDE DEF i, k, e, got
  <2>7. \A j \in Isolate, x \in SiteKey : memo'[j][x] = IF j = i /\ x = k THEN e ELSE memo[j][x]
    BY <1>0, <2>4, <2>6 DEF MemoTypeOK
  <2>8. site.key \in SiteKey
    BY <1>0 DEF MemoTypeOK
  <2>9. \A j \in Isolate : memo'[j][site.key] # None => EntryInv(memo'[j][site.key])
    BY <2>5, <2>7, <2>8 DEF MemoInv
  <2>10. k <= writes
    BY <2>1 DEF LoadInv, k
  <2>11. \A j \in Isolate, x \in SiteKey : x > writes => memo'[j][x] = None
    <3>1. writes \in Nat /\ k \in Nat
      BY <1>0, <2>4 DEF MemoTypeOK, SiteKey
    <3> QED
      BY <2>7, <2>10, <3>1 DEF MemoInv, SiteKey
  <2>12. NoStaleDraft'
    BY <2>1, <2>2, <2>3 DEF MemoInv, NoStaleDraft, got
  <2>13. \A m \in Loader : loader'[m].pc \in {"row", "pages"} => LoadInv(loader'[m])
    BY <2>1, <2>2 DEF MemoInv
  <2> QED
    BY <2>1, <2>9, <2>11, <2>12, <2>13 DEF MemoInv, EntryInv, LoadInv, Current
<1>7. ASSUME NEW i \in Isolate, Evict(i) PROVE MemoInv'
  <2>1. /\ UNCHANGED <<site, writes, loader>>
        /\ \A j \in Isolate, k \in SiteKey : memo'[j][k] \in {memo[j][k], None}
    BY <1>0, <1>7 DEF Evict, MemoTypeOK
  <2>2. site.key \in SiteKey
    BY <1>0 DEF MemoTypeOK
  <2> QED
    BY <2>1, <2>2 DEF MemoInv, EntryInv, LoadInv, Current, NoStaleDraft
<1> QED
  BY <1>1, <1>2, <1>3, <1>4, <1>5, <1>6, <1>7 DEF MemoNext

\* d1r2-store.ts, ASSEMBLED: whatever the interleaving of loads, writes,
\* recreations and evictions over any number of isolates, no load returns a
\* part older than the draft was when the load began.
THEOREM MemoIsNeverStale == MemoSpec => []NoStaleDraft
<1>1. MemoInv => NoStaleDraft
  BY DEF MemoInv
<1>2. MemoInv /\ MemoTypeOK' /\ [MemoNext]_memoVars => MemoInv'
  BY MemoInvStep
<1> QED
  BY MemoInvInit, <1>1, <1>2, MemoTypeCorrect, PTL DEF MemoSpec

=============================================================================
