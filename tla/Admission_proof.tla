---------------------------- MODULE Admission_proof ----------------------------
(***************************************************************************)
(* That whoever is let in may be, for any number of people, grants,        *)
(* businesses and requests, wherever requests stop and whatever the        *)
(* operator does meanwhile.                                                *)
(*                                                                         *)
(* The invariant says of each request by itself how far it has come and    *)
(* what it may count on there.  What another request or the operator does  *)
(* cannot take that away: rows of people, memberships and businesses only  *)
(* grow, and a grant that changes is known to every request under way,     *)
(* which then promises no more of grants (`calm`).                         *)
(***************************************************************************)
EXTENDS Admission, WellFoundedInduction, TLAPS

Seeding == {"tenant", "find", "person", "operator", "member", "grant"}
AtDoor == {"user", "stamp", "businesses", "best", "lapse", "scope"}
Providing == {"register", "provision"}

\* How far the seeding of a holder has come, and what it has left behind.
Seeded(r) ==
    LET q == request[r] IN
    /\ q.pc \in Seeding => q.who \in Holder
    /\ q.pc \in Seeding \ {"tenant"} => Platform \in tenants
    /\ q.pc \in {"operator", "member", "grant"} => person[q.who].known
    /\ q.pc \in {"grant"} \cup AtDoor /\ q.who \in Holder =>
          person[q.who].known /\ <<q.who, Platform>> \in members
    /\ q.pc \in AtDoor /\ q.who \in Holder /\ q.calm => Covered(Platform, q.now)

\* How far a provisioning has come: its business has no member before its owner,
\* and the grant a request opens is opened once.
Provided(r) ==
    LET q == request[r] IN
    /\ q.pc \in Providing => person[q.who].known
    /\ q.pc = "provision" => r \in tenants
    /\ q.pc \in {"idle"} \cup Seeding \cup Providing => grants[r] = None
    /\ q.pc \in {"idle"} \cup Providing => \A m \in members : m[2] # r

\* What a look at businesses is about: the caller's, or one the host asked for.
Looks(r) ==
    LET q == request[r] IN
    /\ q.pc = "idle" => q = Idle
    /\ q.bypass => q.pc \in {"best", "lapse"} /\ q.row.operator
    /\ ~q.bypass /\ q.pc # "admitted" => q.looked = q.now
    /\ q.row.operator => q.who # None /\ person[q.who].operator
    /\ q.pc \in {"best", "lapse"} /\ ~q.bypass =>
          \A b \in q.todo \cup {q.at} : <<q.who, b>> \in members
    /\ q.pc = "lapse" /\ q.calm => ~Covered(q.at, q.looked)

\* What has been found is the caller's, and tells what the grants say.
Tells(r) ==
    \A e \in request[r].found :
        /\ request[r].pc \in {"best", "lapse", "scope", "admitted"}
        /\ <<request[r].who, e.business>> \in members
        /\ request[r].calm =>
              IF e.lapse = None THEN Covered(e.business, request[r].now)
              ELSE /\ ~Covered(e.business, request[r].now)
                   /\ e = LapsedEntry(e.business, request[r].now)

\* The businesses yet to be looked at.
Ahead(r) == IF request[r].pc \in {"best", "lapse"} /\ ~request[r].bypass
            THEN request[r].todo \cup {request[r].at} ELSE {}

\* A holder has found the platform's business open, or is yet to look at it.
Welcome(r) ==
    LET q == request[r] IN
    q.who \in Holder =>
        /\ q.pc \notin {"no_user", "no_membership"}
        /\ q.calm /\ q.pc \in {"best", "lapse", "scope", "admitted"} =>
              Platform \in Selectable(r) \cup Ahead(r)

\* A scope is open to the one it was given to.
Served(r) ==
    LET q == request[r] IN
    q.scope # None =>
        /\ q.pc = "admitted"
        /\ q.calm => Covered(q.scope, q.looked)
        /\ q.who # None
        /\ <<q.who, q.scope>> \in members \/ person[q.who].operator

Stands(r) == Seeded(r) /\ Provided(r) /\ Looks(r) /\ Tells(r) /\ Welcome(r) /\ Served(r)

AdmissionInv == TypeOK /\ MembershipIsUsable /\ \A r \in Request : Stands(r)

-----------------------------------------------------------------------------
(* Grants, as numbers.                                                      *)

\* Numbers that are some, none beyond a bound, have a greatest.
LEMMA GreatestExists ==
    ASSUME NEW n \in Nat, NEW S, S \subseteq 0..n, S # {}
    PROVE  \E x \in S : \A y \in S : y <= x
<1> DEFINE T == {n - y : y \in S}
<1>1. IsWellFoundedOn(OpToRel(<, Nat), Nat)
  BY NatLessThanWellFounded
<1>2. T \subseteq Nat /\ T # {}
  <2>1. \A y \in S : n - y \in Nat
    OBVIOUS
  <2> QED
    BY <2>1
<1>3. PICK t \in T : \A u \in T : ~(<<u, t>> \in OpToRel(<, Nat))
  <2> HIDE DEF T
  <2> QED
    BY <1>1, <1>2, WFMin
<1>4. \A u \in T : <<u, t>> \in OpToRel(<, Nat) <=> u < t
  BY <1>2 DEF OpToRel
<1>5. \A u \in T : ~(u < t)
  BY <1>3, <1>4, Zenon
<1>6. PICK x \in S : t = n - x
  BY <1>3
<1>7. ASSUME NEW y \in S PROVE y <= x
  <2>1. n - y \in T /\ n - y \in Nat /\ t \in Nat
    BY <1>2, <1>3
  <2>2. ~(n - y < t)
    BY <1>5, <2>1
  <2> QED
    BY <1>6, <2>1, <2>2
<1> QED
  BY <1>7

\* An account whose last grants have ended has an instant at which they did, and
\* none of its grants ended later.
LEMMA EndedAtIs ==
    ASSUME TypeOK, NEW b \in Business, NEW now \in Time, Lapse(b, now) = "expired"
    PROVE  /\ EndedAt(b, now) \in Time /\ EndedAt(b, now) <= now
           /\ \E g \in Capacity(b) : grants[g].active /\ grants[g].ends = EndedAt(b, now)
           /\ \A g \in Capacity(b) :
                 grants[g].active /\ grants[g].ends # None /\ grants[g].ends <= now
                     => grants[g].ends <= EndedAt(b, now)
<1> DEFINE ends == {grants[g].ends : g \in {h \in Capacity(b) : grants[h].active}}
           past == {e \in ends \ {None} : e <= now}
<1>1. ends \subseteq Time \cup {None}
  BY DEF TypeOK, Capacity, Grant
<1>2. past \subseteq 0..MaxTime /\ past \subseteq Time
  BY <1>1, BoundsAreNat DEF Time
<1>3. past # {}
  BY DEF Lapse
<1>4. \E x \in past : \A y \in past : y <= x
  <2> HIDE DEF past
  <2> QED
    BY <1>2, <1>3, GreatestExists, BoundsAreNat
<1>5. \E e \in ends \ {None} : e <= now /\ \A f \in ends \ {None} : f <= now => f <= e
  BY <1>4
<1>6. EndedAt(b, now) = CHOOSE e \in ends \ {None} : e <= now /\ \A f \in ends \ {None} : f <= now => f <= e
  BY DEF EndedAt
<1>7. /\ EndedAt(b, now) \in ends \ {None} /\ EndedAt(b, now) <= now
      /\ \A f \in ends \ {None} : f <= now => f <= EndedAt(b, now)
  <2> HIDE DEF ends
  <2> QED
    BY <1>5, <1>6
<1>8. EndedAt(b, now) \in past
  BY <1>7
<1> QED
  BY <1>2, <1>7, <1>8

\* What is told of a business that no grant covers is so before and after.
LEMMA LapseIsForetold ==
    ASSUME TypeOK, NEW b \in Business, NEW now \in Time, WellDated(b), ~Covered(b, now)
    PROVE  Foretold(LapsedEntry(b, now), now)
<1> DEFINE e == LapsedEntry(b, now)
<1>. SUFFICES Foretold(e, now)
  OBVIOUS
<1>1. /\ e.business = b /\ e.lapse = Lapse(b, now) /\ e.lapse \in Reason /\ e.lapse # None
      /\ e.lapse = "expired" => e.ended = EndedAt(b, now)
  BY NoneIsNoValue DEF LapsedEntry, Lapse, Reason
<1>2. \A g \in Capacity(b) : /\ grants[g] \in Grant /\ g \in GrantId
                             /\ grants[g].ends # None => grants[g].starts < grants[g].ends
  BY DEF TypeOK, Capacity, WellDated
<1>3. now \in Nat /\ Time \subseteq Nat /\ None \notin Time
  BY NoneIsNoValue, BoundsAreNat DEF Time
<1>4. \A g \in Capacity(b) : ~Covers(grants[g], now)
  BY DEF Covered
<1>5. CASE e.lapse = "not_yet"
  <2>1. PICK g \in Capacity(b) : grants[g].active /\ grants[g].starts > now
    BY <1>1, <1>5 DEF Lapse
  <2>2. grants[g].starts \in Time /\ Covers(grants[g], grants[g].starts)
    BY <1>2, <1>3, <2>1 DEF Covers, Grant
  <2>3. \E t \in Time : t > now /\ Covered(b, t)
    BY <2>1, <2>2 DEF Covered
  <2> HIDE DEF e
  <2> QED
    BY <1>1, <1>5, <2>3 DEF Foretold
<1>6. CASE e.lapse = "expired"
  <2>1. Lapse(b, now) = "expired" /\ e.ended = EndedAt(b, now)
    BY <1>1, <1>6
  <2>2. /\ e.ended \in Time /\ e.ended <= now
        /\ \E g \in Capacity(b) : grants[g].active /\ grants[g].ends = e.ended
        /\ \A g \in Capacity(b) :
              grants[g].active /\ grants[g].ends # None /\ grants[g].ends <= now
                  => grants[g].ends <= e.ended
    BY <2>1, EndedAtIs, Zenon
  <2>3. \A g \in Capacity(b) : grants[g].active => ~(grants[g].starts > now)
    BY <2>1 DEF Lapse
  <2> HIDE DEF e
  <2>4. Covered(b, e.ended - 1)
    <3>1. PICK g \in Capacity(b) : grants[g].active /\ grants[g].ends = e.ended
      BY <2>2
    <3>2. grants[g].starts \in Nat /\ e.ended \in Nat /\ grants[g].starts < e.ended
      BY <1>2, <1>3, <2>2, <3>1 DEF Grant
    <3>3. Covers(grants[g], e.ended - 1)
      BY <3>1, <3>2 DEF Covers
    <3> QED
      BY <3>3 DEF Covered
  <2>5. ASSUME NEW t \in Time, t >= e.ended, NEW g \in Capacity(b), Covers(grants[g], t)
        PROVE  FALSE
    <3>1. /\ grants[g].starts \in Nat /\ t \in Nat /\ e.ended \in Nat
          /\ grants[g].ends = None \/ grants[g].ends \in Nat
      BY <1>2, <1>3, <2>2 DEF Grant
    <3>2. /\ grants[g].active /\ grants[g].starts <= t
          /\ grants[g].ends # None => grants[g].ends > t
      BY <2>5 DEF Covers
    <3>3. grants[g].starts <= now
      BY <1>3, <2>3, <3>1, <3>2
    <3>4. grants[g].ends # None /\ grants[g].ends <= now
      BY <1>3, <1>4, <3>1, <3>2, <3>3 DEF Covers
    <3>5. grants[g].ends <= e.ended
      BY <2>2, <3>2, <3>4
    <3> QED
      BY <2>5, <3>1, <3>2, <3>4, <3>5
  <2>6. \A t \in Time : t >= e.ended => ~Covered(b, t)
    BY <2>5 DEF Covered
  <2> QED
    BY <1>1, <1>6, <2>2, <2>4, <2>6 DEF Foretold
<1>7. CASE e.lapse \in {"never_granted", "revoked"}
  <2>1. \A g \in Capacity(b) : grants[g].active =>
            /\ ~(grants[g].starts > now)
            /\ ~(grants[g].ends # None /\ grants[g].ends <= now)
    BY <1>1, <1>7 DEF Lapse
  <2>2. ASSUME NEW g \in Capacity(b), grants[g].active PROVE FALSE
    <3>1. /\ grants[g].starts \in Nat
          /\ grants[g].ends = None \/ grants[g].ends \in Nat
      BY <1>2, <1>3 DEF Grant
    <3>2. grants[g].starts <= now /\ (grants[g].ends = None \/ grants[g].ends > now)
      BY <1>3, <2>1, <2>2, <3>1
    <3> QED
      BY <1>4, <2>2, <3>2 DEF Covers
  <2>3. \A t \in Time : ~Covered(b, t)
    BY <2>2 DEF Covered, Covers
  <2> HIDE DEF e
  <2> QED
    BY <1>1, <1>7, <2>3 DEF Foretold
<1> HIDE DEF e
<1> QED
  BY <1>1, <1>5, <1>6, <1>7 DEF Reason

-----------------------------------------------------------------------------
(* Shapes.                                                                  *)

\* TypeOK is of the tables, and of each request by itself.
Tables ==
    /\ clock \in Time
    /\ acts \in 0..MaxActs
    /\ person \in [Person -> PersonRow]
    /\ tenants \in SUBSET Business
    /\ owned \in [Business -> Person \cup {None}]
    /\ members \in SUBSET (Person \X Business)
    /\ grants \in [GrantId -> Grant \cup {None}]
    /\ site \in [Business -> {"none", "empty", "starter"}]

Formed(q) ==
    /\ q \in RequestState
    /\ q.now <= q.looked /\ q.looked <= clock
    /\ q.pc \notin Outcome \cup {"idle"} => q.who # None
    /\ (q.at # None) = (q.pc \in {"best", "lapse"})
    /\ \A e \in q.found : (e.ended # None) = (e.lapse = "expired")

AllFormed == request \in [Request -> RequestState] /\ \A r \in Request : Formed(request[r])

\* The two together are TypeOK.
LEMMA TypeIs == TypeOK <=> Tables /\ AllFormed
  BY DEF TypeOK, Tables, AllFormed, Formed

\* The same of the next state.
LEMMA TypeIsThen == TypeOK' <=> Tables' /\ AllFormed'
  BY DEF TypeOK, Tables, AllFormed, Formed

Anywhere == Outcome \cup Seeding \cup AtDoor \cup Providing \cup {"idle", "draft", "write"}

\* A request that is replaced by a well-formed one.
LEMMA ReplacedIsFormed ==
    ASSUME TypeOK, NEW r \in Request, NEW q, Formed(q), UNCHANGED clock,
           request' = [request EXCEPT ![r] = q]
    PROVE  AllFormed'
<1>1. Formed(q)'
  BY DEF Formed
<1>2. request' \in [Request -> RequestState]
  BY TypeIs DEF AllFormed, Formed
<1>3. \A p \in Request : request'[p] = IF p = r THEN q ELSE request[p]
  BY TypeIs DEF AllFormed
<1>4. \A p \in Request : Formed(request[p])'
  BY <1>1, <1>3, TypeIs DEF AllFormed, Formed
<1> QED
  BY <1>2, <1>4 DEF AllFormed

\* One that only moves, and not in or out of a look at businesses.
LEMMA MovedIsFormed ==
    ASSUME TypeOK, NEW r \in Request, request[r].who # None, NEW pc \in Anywhere, Step(r, pc),
           UNCHANGED clock,
           (pc \in {"best", "lapse"}) = (request[r].pc \in {"best", "lapse"})
    PROVE  AllFormed'
<1> DEFINE q == [request[r] EXCEPT !.pc = pc]
<1>1. request[r] \in RequestState /\ Formed(request[r])
  BY TypeIs DEF AllFormed
<1>2. q \in RequestState
  BY <1>1 DEF RequestState, Anywhere, Seeding, AtDoor, Providing
<1>3. Formed(q)
  BY <1>1, <1>2 DEF Formed, RequestState
<1>4. request' = [request EXCEPT ![r] = q]
  BY <1>1, TypeIs DEF Step, AllFormed
<1> HIDE DEF q
<1> QED
  BY <1>3, <1>4, ReplacedIsFormed

\* One that is over.
LEMMA OverIsFormed ==
    ASSUME TypeOK, NEW r \in Request, NEW pc \in Outcome
    PROVE  Formed(Over(pc, r)) /\ Formed([Over(pc, r) EXCEPT !.calm = FALSE])
<1>1. request[r].who \in Person \cup {None} /\ clock \in Time
  BY TypeIs DEF AllFormed, Tables, RequestState
<1>2. 1 \in Time /\ 1 <= clock
  BY <1>1, BoundsAreNat DEF Time
<1>3. NoRow \in PersonRow
  BY DEF NoRow, PersonRow
<1>4. Idle \in RequestState
  BY <1>2, <1>3 DEF Idle, RequestState
<1>5. Over(pc, r) = [Idle EXCEPT !.pc = pc, !.who = request[r].who]
  BY DEF Over
<1>6. Over(pc, r) \in RequestState /\ [Over(pc, r) EXCEPT !.calm = FALSE] \in RequestState
  BY <1>1, <1>4, <1>5 DEF RequestState
<1>7. /\ Over(pc, r).pc = pc /\ Over(pc, r).now = 1 /\ Over(pc, r).looked = 1
      /\ Over(pc, r).at = None /\ Over(pc, r).found = {}
  BY <1>5 DEF Idle
<1>8. pc \notin {"best", "lapse"}
  BY DEF Outcome
<1>9. Formed(Over(pc, r))
  BY <1>2, <1>6, <1>7, <1>8 DEF Formed
<1>10. Formed([Over(pc, r) EXCEPT !.calm = FALSE])
  BY <1>2, <1>6, <1>7, <1>8 DEF Formed, RequestState
<1> QED
  BY <1>9, <1>10

\* One that ends.
LEMMA EndIsFormed ==
    ASSUME TypeOK, NEW r \in Request, NEW pc \in Outcome, End(r, pc), UNCHANGED clock
    PROVE  AllFormed'
<1>1. Formed(Over(pc, r))
  BY OverIsFormed
<1> QED
  BY <1>1, ReplacedIsFormed DEF End

\* Requests that see grants change.
LEMMA StirredAreFormed ==
    ASSUME TypeOK, NEW but
    PROVE  /\ Stirred(but) \in [Request -> RequestState]
           /\ \A q \in Request : Formed(Stirred(but)[q])
<1>1. ASSUME NEW q \in Request PROVE Formed(Stirred(but)[q])
  <2>1. Formed(request[q])
    BY TypeIs DEF AllFormed
  <2>2. Formed([Over("admitted", q) EXCEPT !.calm = FALSE])
    BY OverIsFormed DEF Outcome
  <2>3. Formed([request[q] EXCEPT !.calm = FALSE])
    BY <2>1 DEF Formed, RequestState
  <2> QED
    BY <2>1, <2>2, <2>3 DEF Stirred
<1>2. \A q \in Request : Stirred(but)[q] \in RequestState
  BY <1>1 DEF Formed
<1>3. Stirred(but) = [q \in Request |-> Stirred(but)[q]]
  BY DEF Stirred
<1> QED
  BY <1>1, <1>2, <1>3, Zenon

\* The one that changed them only moves.
LEMMA StirredAndMoved ==
    ASSUME TypeOK, NEW r \in Request, request[r].who # None, request[r].pc \in {"grant", "provision"},
           NEW pc \in AtDoor \cup {"draft"}, pc \notin {"best", "lapse"},
           request' = [Stirred({r}) EXCEPT ![r].pc = pc], UNCHANGED clock
    PROVE  AllFormed'
<1> DEFINE q == [request[r] EXCEPT !.pc = pc]
<1>1. /\ Stirred({r}) \in [Request -> RequestState]
      /\ \A p \in Request : Formed(Stirred({r})[p])
  BY StirredAreFormed
<1>2. Stirred({r})[r] = request[r] /\ request[r] \in RequestState /\ Formed(request[r])
  BY TypeIs DEF Stirred, AllFormed
<1>3. q \in RequestState
  BY <1>2 DEF RequestState, AtDoor
<1>4. Formed(q)
  BY <1>2, <1>3 DEF Formed, RequestState
<1>5. request' = [Stirred({r}) EXCEPT ![r] = q]
  BY <1>2
<1> HIDE DEF q
<1>6. \A p \in Request : request'[p] = IF p = r THEN q ELSE Stirred({r})[p]
  BY <1>1, <1>5
<1>7. \A p \in Request : Formed(request'[p]) /\ Formed(request[p])'
  BY <1>1, <1>4, <1>6 DEF Formed
<1>8. request' \in [Request -> RequestState]
  BY <1>1, <1>3, <1>5
<1> QED
  BY <1>7, <1>8 DEF AllFormed

\* A request that comes to a look at a business, having found so much.
LEMMA LookIsFormed ==
    ASSUME TypeOK, NEW r \in Request, request[r].who # None, NEW at \in Business, NEW todo \in SUBSET Business,
           NEW found \in SUBSET Entry,
           \A e \in found : (e.ended # None) = (e.lapse = "expired")
    PROVE  Formed([request[r] EXCEPT !.pc = "best", !.at = at, !.todo = todo, !.found = found])
<1>1. request[r] \in RequestState /\ Formed(request[r])
  BY TypeIs DEF AllFormed
<1>2. at # None
  BY NoneIsNoValue
<1> QED
  BY <1>1, <1>2 DEF Formed, RequestState

\* The entry of a business is made, whether it is selectable or lapsed.
LEMMA EntryIsFormed ==
    ASSUME TypeOK, NEW b \in Business, NEW now \in Time
    PROVE  /\ LapsedEntry(b, now) \in Entry
           /\ (LapsedEntry(b, now).ended # None) = (LapsedEntry(b, now).lapse = "expired")
<1>1. Lapse(b, now) \in Reason
  BY DEF Lapse, Reason
<1>2. Lapse(b, now) = "expired" => EndedAt(b, now) \in Time /\ EndedAt(b, now) # None
  BY EndedAtIs, NoneIsNoValue DEF Time
<1> QED
  BY <1>1, <1>2 DEF LapsedEntry, Entry

\* One that has found what there is to say of a business, and looks on.
LEMMA FoundIsFormed ==
    ASSUME TypeOK, NEW r \in Request, request[r].who # None, NEW e \in Entry, (e.ended # None) = (e.lapse = "expired"),
           Found(r, e), UNCHANGED clock
    PROVE  AllFormed'
<1> DEFINE state == [request[r] EXCEPT !.found = @ \cup {e}]
<1>1. request[r] \in RequestState /\ Formed(request[r])
  BY TypeIs DEF AllFormed
<1>2. state = [request[r] EXCEPT !.found = request[r].found \cup {e}]
  BY DEF RequestState
<1>3. state.found \in SUBSET Entry /\ \A f \in state.found : (f.ended # None) = (f.lapse = "expired")
  BY <1>1 DEF RequestState, Formed
<1>4. CASE state.todo = {}
  <2>1. request' = [request EXCEPT ![r] = [state EXCEPT !.pc = "scope", !.at = None]]
    BY <1>4 DEF Found
  <2>2. /\ state \in RequestState /\ state.now = request[r].now
        /\ state.looked = request[r].looked /\ state.who # None
    BY <1>1, <1>3 DEF RequestState
  <2>3. Formed([state EXCEPT !.pc = "scope", !.at = None])
    <3> HIDE DEF state
    <3>1. [state EXCEPT !.pc = "scope", !.at = None] \in RequestState
      BY <2>2 DEF RequestState
    <3> QED
      BY <1>1, <1>3, <2>2, <3>1 DEF Formed, RequestState
  <2> HIDE DEF state
  <2> QED
    BY <2>1, <2>3, ReplacedIsFormed
<1>5. CASE state.todo # {}
  <2>1. PICK b \in state.todo :
            request' = [request EXCEPT ![r] = [state EXCEPT !.pc = "best", !.at = b, !.todo = @ \ {b}]]
    BY <1>5 DEF Found
  <2>2. b \in Business /\ state.todo \ {b} \in SUBSET Business
    BY <1>1 DEF RequestState
  <2>3. [state EXCEPT !.pc = "best", !.at = b, !.todo = @ \ {b}]
        = [request[r] EXCEPT !.pc = "best", !.at = b, !.todo = state.todo \ {b}, !.found = state.found]
    BY <1>1 DEF RequestState
  <2>4. Formed([state EXCEPT !.pc = "best", !.at = b, !.todo = @ \ {b}])
    <3> HIDE DEF state
    <3>1. Formed([request[r] EXCEPT !.pc = "best", !.at = b, !.todo = state.todo \ {b},
                                    !.found = state.found])
      BY <1>3, <2>2, LookIsFormed
    <3> QED
      BY <2>3, <3>1
  <2> HIDE DEF state
  <2> QED
    BY <2>1, <2>4, ReplacedIsFormed
<1> QED
  BY <1>4, <1>5

\* Somebody is let in.
LEMMA AdmittedIsFormed ==
    ASSUME TypeOK, NEW r \in Request, NEW b \in Business \cup {None}, Admitted(r, b), UNCHANGED clock
    PROVE  AllFormed'
<1> DEFINE q == [Idle EXCEPT !.pc = "admitted", !.who = request[r].who, !.now = request[r].now,
                             !.looked = request[r].looked, !.found = request[r].found,
                             !.scope = b, !.calm = request[r].calm]
<1>1. request[r] \in RequestState /\ Formed(request[r])
  BY TypeIs DEF AllFormed
<1>2. NoRow \in PersonRow
  BY DEF NoRow, PersonRow
<1>3. q \in RequestState
  BY <1>1, <1>2 DEF Idle, RequestState, Outcome
<1>4. Formed(q)
  BY <1>1, <1>3 DEF Idle, Formed, Outcome
<1>5. request' = [request EXCEPT ![r] = q]
  BY DEF Admitted
<1> HIDE DEF q
<1> QED
  BY <1>4, <1>5, ReplacedIsFormed

\* What is asked for at first is well formed.
LEMMA AskedIsFormed ==
    ASSUME TypeOK, NEW p \in Person, NEW pc \in {"tenant", "user", "register"},
           NEW asked \in Business \cup {None}
    PROVE  /\ Formed([Idle EXCEPT !.pc = pc, !.who = p, !.now = clock, !.looked = clock])
           /\ Formed([Idle EXCEPT !.pc = pc, !.who = p, !.now = clock, !.looked = clock, !.asked = asked])
<1>1. clock \in Time /\ clock \in Nat /\ 1 \in Time
  BY TypeIs, BoundsAreNat DEF Tables, Time
<1>2. NoRow \in PersonRow
  BY DEF NoRow, PersonRow
<1>3. [Idle EXCEPT !.pc = pc, !.who = p, !.now = clock, !.looked = clock, !.asked = asked]
      \in RequestState
  BY <1>1, <1>2 DEF Idle, RequestState
<1>4. [Idle EXCEPT !.pc = pc, !.who = p, !.now = clock, !.looked = clock] \in RequestState
  BY <1>1, <1>2 DEF Idle, RequestState
<1>5. p # None
  BY NoneIsNoValue
<1>6. Formed([Idle EXCEPT !.pc = pc, !.who = p, !.now = clock, !.looked = clock])
  BY <1>1, <1>4, <1>5 DEF Idle, Formed
<1>7. Formed([Idle EXCEPT !.pc = pc, !.who = p, !.now = clock, !.looked = clock, !.asked = asked])
  BY <1>1, <1>3, <1>5 DEF Idle, Formed
<1> QED
  BY <1>6, <1>7

\* A step of an admission keeps the shapes.
LEMMA AdmitIsTyped ==
    ASSUME TypeOK, NEW r \in Request, Admit(r)
    PROVE  TypeOK'
<1>1. request[r] \in RequestState /\ Formed(request[r]) /\ Tables
  BY TypeIs DEF AllFormed
<1>2. ASSUME UNCHANGED <<time, person, registry, grants>>
      PROVE  Tables'
  BY <1>1, <1>2 DEF Tables, time, registry
<1>3. ASSUME NEW p \in Person, NEW asked \in Business \cup {None}, AskAdmit(r, p, asked)
      PROVE  TypeOK'
  <2> DEFINE pc == IF p \in Holder THEN "tenant" ELSE "user"
             q == [Idle EXCEPT !.pc = pc, !.who = p, !.now = clock, !.looked = clock, !.asked = asked]
  <2>1. Formed(q)
    <3>1. pc \in {"tenant", "user", "register"}
      OBVIOUS
    <3> HIDE DEF pc
    <3> QED
      BY <3>1, AskedIsFormed
  <2>2. request' = [request EXCEPT ![r] = q] /\ UNCHANGED <<time, person, registry, grants>>
    BY <1>3 DEF AskAdmit
  <2> HIDE DEF q
  <2> QED
    BY <1>2, <2>1, <2>2, ReplacedIsFormed, TypeIsThen DEF time
<1>4. ASSUME NEW pc \in Anywhere \ {"best", "lapse"}, Step(r, pc), UNCHANGED clock, Tables',
             request[r].pc \notin Outcome \cup {"idle", "best", "lapse"}
      PROVE  TypeOK'
  BY <1>1, <1>4, MovedIsFormed, TypeIsThen DEF Formed
<1>5. ASSUME NEW pc \in Outcome, End(r, pc), UNCHANGED clock, Tables'
      PROVE  TypeOK'
  BY <1>5, EndIsFormed, TypeIsThen
<1>6. CASE SeedTenant(r)
  <2>1. Tables'
    BY <1>1, <1>6 DEF SeedTenant, Tables, time, Business
  <2> QED
    BY <1>4, <1>6, <2>1 DEF SeedTenant, At, Anywhere, Outcome, Seeding, time
<1>7. CASE SeedFind(r)
  <2>1. PICK pc \in {"operator", "person"} : Step(r, pc) /\ request[r].pc = "find"
    BY <1>7 DEF SeedFind, AfterFind, At
  <2>2. pc \in Anywhere \ {"best", "lapse"}
    BY DEF Anywhere, Seeding
  <2> QED
    BY <1>2, <1>4, <1>7, <2>1, <2>2 DEF SeedFind, Outcome, time
<1>8. CASE SeedPerson(r)
  <2>1. Tables'
    BY <1>1, <1>8 DEF SeedPerson, Tables, PersonRow, RequestState, time, registry
  <2> QED
    BY <1>4, <1>8, <2>1 DEF SeedPerson, At, Anywhere, Outcome, Seeding, time
<1>9. CASE SeedPersonConflicts(r)
  <2>1. "failed" \in Outcome
    BY DEF Outcome
  <2> QED
    BY <1>2, <1>5, <1>9, <2>1 DEF SeedPersonConflicts, time
<1>10. CASE SeedOperator(r)
  <2>1. Tables'
    BY <1>1, <1>10 DEF SeedOperator, Tables, PersonRow, time, registry
  <2> QED
    BY <1>4, <1>10, <2>1 DEF SeedOperator, At, Anywhere, Outcome, Seeding, time
<1>11. CASE SeedMember(r)
  <2>1. request[r].who \in Person /\ Platform \in Business
    BY <1>1, <1>11 DEF SeedMember, At, Formed, RequestState, Outcome, Business
  <2>2. Tables'
    BY <1>1, <1>11, <2>1 DEF SeedMember, Tables, time
  <2> QED
    BY <1>4, <1>11, <2>2 DEF SeedMember, At, Anywhere, Outcome, Seeding, time
<1>12. CASE SeedGrant(r)
  <2>1. CASE Covered(Platform, request[r].now)
    <3>1. Step(r, "user") /\ request[r].pc = "grant" /\ UNCHANGED <<time, person, registry, grants>>
      BY <1>12, <2>1 DEF SeedGrant, At
    <3> QED
      BY <1>2, <1>4, <3>1 DEF Anywhere, Outcome, AtDoor, time
  <2>2. CASE ~Covered(Platform, request[r].now)
    <3> DEFINE g == [business |-> Platform, personal |-> FALSE, starts |-> request[r].now,
                     ends |-> None, active |-> TRUE]
    <3>1. /\ grants' = [grants EXCEPT ![r] = g] /\ UNCHANGED <<time, person, registry>>
          /\ request' = [Stirred({r}) EXCEPT ![r].pc = "user"] /\ request[r].pc = "grant"
      BY <1>12, <2>2 DEF SeedGrant, At
    <3>2. g \in Grant
      BY <1>1 DEF Grant, RequestState, Business
    <3> HIDE DEF g
    <3>3. Tables' /\ UNCHANGED clock
      BY <1>1, <3>1, <3>2 DEF Tables, GrantId, time, registry
    <3>4. request[r].who # None
      BY <1>1, <3>1 DEF Formed, Outcome
    <3>5. "user" \in AtDoor \cup {"draft"} /\ "user" \notin {"best", "lapse"}
          /\ request[r].pc \in {"grant", "provision"}
      BY <3>1 DEF AtDoor
    <3>6. AllFormed'
      BY <3>1, <3>3, <3>4, <3>5, StirredAndMoved, Zenon
    <3> QED
      BY <3>3, <3>6, TypeIsThen
  <2> QED
    BY <2>1, <2>2
<1>13. CASE FindUser(r)
  <2>1. Tables'
    BY <1>2, <1>13 DEF FindUser
  <2>2. CASE person[request[r].who].known
    <3> DEFINE row == person[request[r].who]
               q == [request[r] EXCEPT !.pc = "stamp", !.row = row]
    <3>1. request' = [request EXCEPT ![r] = q] /\ request[r].pc = "user"
      BY <1>13, <2>2 DEF FindUser, At
    <3>2. request[r].who \in Person /\ row \in PersonRow
      BY <1>1, <3>1 DEF Formed, RequestState, Outcome, Tables
    <3>3. q \in RequestState
      BY <1>1, <3>2 DEF RequestState
    <3>4. Formed(q)
      BY <1>1, <3>1, <3>2, <3>3, NoneIsNoValue DEF Formed, RequestState
    <3> HIDE DEF q, row
    <3> QED
      BY <1>13, <2>1, <3>1, <3>4, ReplacedIsFormed, TypeIsThen DEF FindUser, time
  <2>3. CASE ~person[request[r].who].known
    BY <1>5, <1>13, <2>1, <2>3 DEF FindUser, Outcome, time
  <2> QED
    BY <2>2, <2>3
<1>14. CASE Stamp(r)
  <2>1. Tables' /\ UNCHANGED clock /\ request[r].pc = "stamp"
    BY <1>2, <1>14 DEF Stamp, time, At
  <2>2. CASE request[r].row.active
    BY <1>4, <1>14, <2>1, <2>2 DEF Stamp, Anywhere, Outcome, AtDoor
  <2>3. CASE ~request[r].row.active
    BY <1>5, <1>14, <2>1, <2>3 DEF Stamp, Outcome
  <2> QED
    BY <2>2, <2>3
<1>15. CASE FindBusinesses(r)
  <2> DEFINE mine == {b \in tenants : <<request[r].who, b>> \in members}
  <2>1. Tables' /\ UNCHANGED clock /\ request[r].pc = "businesses"
    BY <1>2, <1>15 DEF FindBusinesses, time, At
  <2>2. CASE mine = {}
    BY <1>5, <1>15, <2>1, <2>2 DEF FindBusinesses, Outcome
  <2>3. CASE mine # {}
    <3>1. PICK b \in mine : request' = [request EXCEPT ![r] =
                                [@ EXCEPT !.pc = "best", !.at = b, !.todo = mine \ {b}]]
      BY <1>15, <2>3 DEF FindBusinesses
    <3>2. b \in Business /\ mine \ {b} \in SUBSET Business
      BY <1>1 DEF Tables
    <3>3. request[r].who # None /\ request[r].found \in SUBSET Entry
          /\ \A e \in request[r].found : (e.ended # None) = (e.lapse = "expired")
      BY <1>1, <2>1 DEF Formed, RequestState, Outcome
    <3> HIDE DEF mine
    <3>4. Formed([request[r] EXCEPT !.pc = "best", !.at = b, !.todo = mine \ {b},
                                    !.found = request[r].found])
      BY <3>2, <3>3, LookIsFormed
    <3>5. [request[r] EXCEPT !.pc = "best", !.at = b, !.todo = mine \ {b}]
          = [request[r] EXCEPT !.pc = "best", !.at = b, !.todo = mine \ {b},
                               !.found = request[r].found]
      BY <1>1 DEF RequestState
    <3>6. Formed([request[r] EXCEPT !.pc = "best", !.at = b, !.todo = mine \ {b}])
      BY <3>4, <3>5
    <3>7. request' = [request EXCEPT ![r] =
              [request[r] EXCEPT !.pc = "best", !.at = b, !.todo = mine \ {b}]]
      BY <3>1
    <3> QED
      BY <2>1, <3>6, <3>7, ReplacedIsFormed, TypeIsThen
  <2> QED
    BY <2>2, <2>3
<1>16. CASE BestGrant(r)
  <2> DEFINE b == request[r].at
  <2>1. Tables' /\ UNCHANGED clock /\ request[r].pc = "best"
    BY <1>2, <1>16 DEF BestGrant, time, At
  <2>2. b \in Business /\ request[r].who # None
    BY <1>1, <2>1 DEF Formed, RequestState, Outcome
  <2>3. CASE ~Covered(b, request[r].looked)
    <3>1. Step(r, "lapse")
      BY <1>16, <2>3 DEF BestGrant
    <3>2. AllFormed'
      BY <2>1, <2>2, <3>1, MovedIsFormed DEF Anywhere, AtDoor
    <3> QED
      BY <2>1, <3>2, TypeIsThen
  <2>4. CASE Covered(b, request[r].looked) /\ request[r].bypass
    <3>1. Admitted(r, b)
      BY <1>16, <2>4 DEF BestGrant
    <3> QED
      BY <2>1, <2>2, <3>1, AdmittedIsFormed, TypeIsThen
  <2>5. CASE Covered(b, request[r].looked) /\ ~request[r].bypass
    <3> DEFINE e == [business |-> b, lapse |-> None, ended |-> None]
    <3>1. Found(r, e)
      BY <1>16, <2>5 DEF BestGrant
    <3>2. e \in Entry /\ (e.ended # None) = (e.lapse = "expired")
      BY <2>2, NoneIsNoValue DEF Entry, Reason
    <3> HIDE DEF e
    <3> QED
      BY <2>1, <2>2, <3>1, <3>2, FoundIsFormed, TypeIsThen
  <2> QED
    BY <2>3, <2>4, <2>5
<1>17. CASE WhyLapsed(r)
  <2> DEFINE b == request[r].at
  <2>1. Tables' /\ UNCHANGED clock /\ request[r].pc = "lapse"
    BY <1>2, <1>17 DEF WhyLapsed, time, At
  <2>2. b \in Business /\ request[r].who # None /\ request[r].looked \in Time
    BY <1>1, <2>1 DEF Formed, RequestState, Outcome
  <2>3. CASE request[r].bypass
    BY <1>5, <1>17, <2>1, <2>3 DEF WhyLapsed, Outcome
  <2>4. CASE ~request[r].bypass
    <3>1. Found(r, LapsedEntry(b, request[r].looked))
      BY <1>17, <2>4 DEF WhyLapsed
    <3>2. /\ LapsedEntry(b, request[r].looked) \in Entry
          /\ (LapsedEntry(b, request[r].looked).ended # None)
             = (LapsedEntry(b, request[r].looked).lapse = "expired")
      BY <2>2, EntryIsFormed
    <3> QED
      BY <2>1, <2>2, <3>1, <3>2, FoundIsFormed, TypeIsThen
  <2> QED
    BY <2>3, <2>4
<1>18. CASE ResolveScope(r)
  <2> DEFINE asked == request[r].asked
  <2>1. Tables' /\ UNCHANGED clock /\ request[r].pc = "scope"
    BY <1>2, <1>18 DEF ResolveScope, time, At
  <2>2. request[r].who # None /\ request[r].found \subseteq Entry /\ asked \in Business \cup {None}
    BY <1>1, <2>1 DEF Formed, RequestState, Outcome
  <2>3. ASSUME NEW b, b \in FirstAdmissible(r), Admitted(r, b) PROVE TypeOK'
    <3>1. b \in Business \cup {None}
      BY <2>2, <2>3 DEF FirstAdmissible, Selectable, Entry
    <3> QED
      BY <2>1, <2>3, <3>1, AdmittedIsFormed, TypeIsThen
  <2>4. ASSUME Admitted(r, asked) PROVE TypeOK'
    BY <2>1, <2>2, <2>4, AdmittedIsFormed, TypeIsThen
  <2>5. ASSUME End(r, "scope_refused") PROVE TypeOK'
    BY <1>5, <2>1, <2>5 DEF Outcome
  <2>6. ASSUME asked \in tenants,
               request' = [request EXCEPT ![r] =
                    [@ EXCEPT !.pc = "best", !.at = asked, !.bypass = TRUE, !.looked = clock]]
        PROVE  TypeOK'
    <3> DEFINE q == [request[r] EXCEPT !.pc = "best", !.at = asked, !.bypass = TRUE, !.looked = clock]
    <3>1. asked \in Business /\ asked # None /\ clock \in Time /\ clock \in Nat
      BY <1>1, <2>6, NoneIsNoValue, BoundsAreNat DEF Tables, Time
    <3>2. request[r].now <= clock
      BY <1>1, <3>1, BoundsAreNat DEF Formed, RequestState, Time
    <3>3. q \in RequestState
      BY <1>1, <3>1 DEF RequestState
    <3>4. /\ q.now = request[r].now /\ q.looked = clock /\ q.who = request[r].who
          /\ q.at = asked /\ q.found = request[r].found /\ q.pc = "best"
      BY <1>1 DEF RequestState
    <3>5. request' = [request EXCEPT ![r] = q]
      BY <2>6
    <3> HIDE DEF q
    <3>6. Formed(q)
      BY <1>1, <2>2, <3>1, <3>2, <3>3, <3>4 DEF Formed
    <3> QED
      BY <2>1, <3>5, <3>6, ReplacedIsFormed, TypeIsThen
  <2> QED
    BY <1>18, <2>3, <2>4, <2>5, <2>6 DEF ResolveScope
<1> QED
  BY <1>3, <1>6, <1>7, <1>8, <1>9, <1>10, <1>11, <1>12, <1>13, <1>14, <1>15, <1>16, <1>17, <1>18
  DEF Admit, Seed

\* So does a step of a provisioning.
LEMMA ProvisionIsTyped ==
    ASSUME TypeOK, NEW r \in Request, ProvisionBusiness(r)
    PROVE  TypeOK'
<1>1. request[r] \in RequestState /\ Formed(request[r]) /\ Tables
  BY TypeIs DEF AllFormed
<1>2. ASSUME NEW p \in Person, AskProvision(r, p) PROVE TypeOK'
  <2> DEFINE q == [Idle EXCEPT !.pc = "register", !.who = p, !.now = clock, !.looked = clock]
  <2>1. Formed(q)
    BY AskedIsFormed
  <2>2. request' = [request EXCEPT ![r] = q] /\ UNCHANGED <<time, person, registry, grants>>
    BY <1>2 DEF AskProvision, FirstStep
  <2>3. Tables' /\ UNCHANGED clock
    BY <1>1, <2>2 DEF Tables, time, registry
  <2> HIDE DEF q
  <2> QED
    BY <2>1, <2>2, <2>3, ReplacedIsFormed, TypeIsThen
<1>3. CASE Register(r)
  <2>1. Tables' /\ Step(r, "provision") /\ request[r].pc = "register" /\ UNCHANGED clock
    BY <1>1, <1>3 DEF Register, Tables, time, Business, At
  <2> QED
    BY <1>1, <2>1, MovedIsFormed, TypeIsThen DEF Anywhere, Providing, Outcome, Formed
<1>4. CASE Provision(r)
  <2>1. request[r].pc = "provision" /\ request[r].who \in Person /\ request[r].who # None
    BY <1>1, <1>4 DEF Provision, At, Formed, RequestState, Outcome
  <2>2. PICK ends \in {dates[2] : dates \in Dates} :
            grants' = [grants EXCEPT ![r] =
                [business |-> r, personal |-> FALSE, starts |-> request[r].now, ends |-> ends,
                 active |-> TRUE]]
    BY <1>4 DEF Provision
  <2>3. ends \in Time \cup {None}
    BY DatesAreTimes
  <2>4. [business |-> r, personal |-> FALSE, starts |-> request[r].now, ends |-> ends,
         active |-> TRUE] \in Grant
    BY <1>1, <2>3 DEF Grant, RequestState, Business
  <2>5. grants' \in [GrantId -> Grant \cup {None}]
    BY <1>1, <2>2, <2>4 DEF Tables, GrantId
  <2>6. Tables' /\ UNCHANGED clock
    BY <1>1, <1>4, <2>1, <2>5 DEF Provision, Tables, Business, time
  <2>7. "draft" \in AtDoor \cup {"draft"} /\ "draft" \notin {"best", "lapse"}
        /\ request[r].pc \in {"grant", "provision"}
    BY <2>1
  <2>8. request' = [Stirred({r}) EXCEPT ![r].pc = "draft"]
    BY <1>4 DEF Provision
  <2>9. AllFormed'
    BY <2>1, <2>6, <2>7, <2>8, StirredAndMoved, Zenon
  <2> QED
    BY <2>6, <2>9, TypeIsThen
<1>5. CASE CreateDraft(r)
  <2>1. Tables' /\ Step(r, "write") /\ request[r].pc = "draft" /\ UNCHANGED clock
    BY <1>1, <1>5 DEF CreateDraft, Tables, time, At
  <2> QED
    BY <1>1, <2>1, MovedIsFormed, TypeIsThen DEF Anywhere, Outcome, Formed
<1>6. CASE WriteStarter(r)
  <2>1. Tables' /\ End(r, "provisioned") /\ UNCHANGED clock
    BY <1>1, <1>6 DEF WriteStarter, Tables, time
  <2> QED
    BY <2>1, EndIsFormed, TypeIsThen DEF Outcome
<1> QED
  BY <1>2, <1>3, <1>4, <1>5, <1>6 DEF ProvisionBusiness

\* And so do the operator and the clock.
LEMMA OperateIsTyped ==
    ASSUME TypeOK, Operate \/ Tick
    PROVE  TypeOK'
<1>1. Tables /\ AllFormed
  BY TypeIs
<1>2. ASSUME UNCHANGED <<clock, request>> PROVE AllFormed'
  BY <1>1, <1>2 DEF AllFormed, Formed
<1>3. ASSUME request' = Stirred({}), UNCHANGED clock PROVE AllFormed'
  <2>1. /\ request' \in [Request -> RequestState]
        /\ \A q \in Request : Formed(request'[q])
    BY <1>3, StirredAreFormed
  <2>2. \A q \in Request : Formed(request[q])'
    BY <1>3, <2>1 DEF Formed
  <2> QED
    BY <2>1, <2>2 DEF AllFormed
<1>4. ASSUME Acts PROVE acts' \in 0..MaxActs
  BY <1>1, <1>4, BoundsAreNat DEF Acts, Tables
<1>5. CASE Tick
  <2>1. clock' \in Time /\ clock' = clock + 1 /\ clock \in Nat
    BY <1>1, <1>5, BoundsAreNat DEF Tick, Tables, Time
  <2>2. Tables'
    BY <1>1, <1>5, <2>1 DEF Tick, Tables, registry
  <2>3. \A q \in Request : request[q].looked \in Nat
    BY <1>1, BoundsAreNat DEF AllFormed, RequestState, Time
  <2>4. AllFormed'
    BY <1>1, <1>5, <2>1, <2>3 DEF Tick, AllFormed, Formed
  <2> QED
    BY <2>2, <2>4, TypeIsThen
<1>6. ASSUME NEW p \in Person, Invited(p) \/ SetPersonStatus(p) PROVE TypeOK'
  <2>1. /\ person[p] \in PersonRow /\ acts' \in 0..MaxActs
        /\ UNCHANGED <<clock, registry, grants, request>>
    BY <1>1, <1>4, <1>6 DEF Invited, SetPersonStatus, Tables
  <2>2. person' \in [Person -> PersonRow]
    <3>1. \A row \in PersonRow : /\ [row EXCEPT !.known = TRUE] \in PersonRow
                                 /\ [row EXCEPT !.active = ~row.active] \in PersonRow
      BY DEF PersonRow
    <3>2. \/ person' = [person EXCEPT ![p] = [person[p] EXCEPT !.known = TRUE]]
          \/ person' = [person EXCEPT ![p] = [person[p] EXCEPT !.active = ~person[p].active]]
      BY <1>6 DEF Invited, SetPersonStatus
    <3> QED
      BY <1>1, <2>1, <3>1, <3>2 DEF Tables
  <2>3. Tables'
    BY <1>1, <2>1, <2>2 DEF Tables, registry
  <2>4. AllFormed'
    BY <1>2, <2>1
  <2> QED
    BY <2>3, <2>4, TypeIsThen
<1>7. ASSUME NEW g \in Slot, NEW b \in Business, NEW personal \in BOOLEAN, NEW dates \in Dates,
             OpenGrant(g, b, personal, dates)
      PROVE  TypeOK'
  <2>1. dates[1] \in Time /\ dates[2] \in Time \cup {None}
    BY DatesAreTimes
  <2>2. [business |-> b, personal |-> personal, starts |-> dates[1], ends |-> dates[2],
         active |-> TRUE] \in Grant
    BY <2>1 DEF Grant
  <2>3. Tables'
    BY <1>1, <1>4, <1>7, <2>2 DEF OpenGrant, Tables, GrantId, registry
  <2>4. AllFormed'
    BY <1>3, <1>7 DEF OpenGrant
  <2> QED
    BY <2>3, <2>4, TypeIsThen
<1>8. ASSUME NEW g \in GrantId, RevokeGrant(g) PROVE TypeOK'
  <2>1. grants[g] \in Grant
    BY <1>1, <1>8 DEF RevokeGrant, Tables
  <2>2. [grants[g] EXCEPT !.active = FALSE] \in Grant
    BY <2>1 DEF Grant
  <2>3. Tables'
    BY <1>1, <1>4, <1>8, <2>2 DEF RevokeGrant, Tables, registry
  <2>4. AllFormed'
    BY <1>3, <1>8 DEF RevokeGrant
  <2> QED
    BY <2>3, <2>4, TypeIsThen
<1> QED
  BY <1>5, <1>6, <1>7, <1>8 DEF Operate

\* Every step keeps the shapes.
LEMMA NextIsTyped == TypeOK /\ [Next]_vars => TypeOK'
<1>. SUFFICES ASSUME TypeOK, [Next]_vars PROVE TypeOK'
  OBVIOUS
<1>1. CASE UNCHANGED vars
  BY <1>1 DEF vars, TypeOK
<1>2. CASE Tick \/ Operate
  BY <1>2, OperateIsTyped
<1>3. ASSUME NEW r \in Request, Admit(r) PROVE TypeOK'
  BY <1>3, AdmitIsTyped
<1>4. ASSUME NEW r \in Request, ProvisionBusiness(r) PROVE TypeOK'
  BY <1>4, ProvisionIsTyped
<1>5. ASSUME NEW r \in Request, Stop(r) PROVE TypeOK'
  <2>1. Tables' /\ End(r, "gone") /\ UNCHANGED clock
    BY <1>5, TypeIs DEF Stop, Tables, time, registry
  <2> QED
    BY <2>1, EndIsFormed, TypeIsThen DEF Outcome
<1> QED
  BY <1>1, <1>2, <1>3, <1>4, <1>5 DEF Next

\* They are there at first.
LEMMA InitIsTyped == Init => TypeOK
<1>. SUFFICES ASSUME Init PROVE TypeOK
  OBVIOUS
<1>1. 1 \in Time
  BY BoundsAreNat DEF Time
<1>2. NoRow \in PersonRow /\ [NoRow EXCEPT !.known = TRUE] \in PersonRow
  BY DEF NoRow, PersonRow
<1>3. Tables
  <2>1. person \in [Person -> PersonRow]
    BY <1>2 DEF Init
  <2>2. /\ owned \in [Business -> Person \cup {None}]
        /\ grants \in [GrantId -> Grant \cup {None}]
        /\ site \in [Business -> {"none", "empty", "starter"}]
    BY DEF Init
  <2> QED
    BY <1>1, <2>1, <2>2, BoundsAreNat DEF Init, Tables, Business
<1>4. Idle \in RequestState
  BY <1>1, <1>2 DEF Idle, RequestState
<1>5. Formed(Idle)
  BY <1>4, BoundsAreNat DEF Idle, Formed, Init
<1>6. AllFormed
  BY <1>4, <1>5 DEF Init, AllFormed
<1> QED
  BY <1>3, <1>6, TypeIs

\* Rows and requests keep their shapes in every reachable state.
THEOREM TypeCorrect == Spec => []TypeOK
<1> QED
  BY InitIsTyped, NextIsTyped, PTL DEF Spec

-----------------------------------------------------------------------------
(* What a step leaves of what was there.                                    *)

\* Rows of people, businesses and memberships stay; a grant stays its
\* business's; a business that has a member keeps its owner.
Grows ==
    /\ tenants \subseteq tenants'
    /\ members \subseteq members'
    /\ \A p \in Person : /\ person[p].known => person'[p].known
                         /\ person[p].operator => person'[p].operator
    /\ \A g \in GrantId : grants[g] # None =>
          grants'[g] # None /\ grants'[g].business = grants[g].business
    /\ \A m \in members : m[2] # Platform => owned'[m[2]] = owned[m[2]]

\* What the step of another leaves of a request, and of what it counts on.
Left(q) ==
    /\ \/ request'[q] = request[q] /\ UNCHANGED grants
       \/ At(q, "idle") /\ request'[q] = request[q]
       \/ At(q, "admitted") /\ request'[q] = [Over("admitted", q) EXCEPT !.calm = FALSE]
       \/ ~At(q, "admitted") /\ ~At(q, "idle") /\ request'[q] = [request[q] EXCEPT !.calm = FALSE]
    /\ grants[q] = None => grants'[q] = None
    /\ \A m \in members' \ members : m[2] # q

\* What is said of grants is so as long as they are the same.
LEMMA CoverKept ==
    ASSUME UNCHANGED grants
    PROVE  \A b, now : /\ Covered(b, now)' <=> Covered(b, now)
                       /\ LapsedEntry(b, now)' = LapsedEntry(b, now)
<1>1. ASSUME NEW b PROVE Capacity(b)' = Capacity(b)
  BY DEF Capacity
<1>2. ASSUME NEW b, NEW now PROVE Covered(b, now)' <=> Covered(b, now)
  BY <1>1 DEF Covered
<1>3. ASSUME NEW b, NEW now PROVE Lapse(b, now)' = Lapse(b, now)
  BY <1>1 DEF Lapse
<1>4. ASSUME NEW b, NEW now PROVE EndedAt(b, now)' = EndedAt(b, now)
  BY <1>1 DEF EndedAt
<1> QED
  BY <1>2, <1>3, <1>4 DEF LapsedEntry

\* The fields of a request that is stirred.
LEMMA StirredFields ==
    ASSUME TypeOK, NEW q \in Request,
           \/ At(q, "admitted") /\ request'[q] = [Over("admitted", q) EXCEPT !.calm = FALSE]
           \/ ~At(q, "admitted") /\ request'[q] = [request[q] EXCEPT !.calm = FALSE]
    PROVE  /\ request'[q].pc = request[q].pc /\ request'[q].who = request[q].who
           /\ request'[q].calm = FALSE
           /\ \/ /\ At(q, "admitted")
                 /\ request'[q].found = {} /\ request'[q].scope = None
                 /\ ~request'[q].bypass /\ ~request'[q].row.operator
              \/ /\ request'[q].now = request[q].now /\ request'[q].looked = request[q].looked
                 /\ request'[q].row = request[q].row /\ request'[q].bypass = request[q].bypass
                 /\ request'[q].todo = request[q].todo /\ request'[q].at = request[q].at
                 /\ request'[q].found = request[q].found /\ request'[q].scope = request[q].scope
<1>1. request[q] \in RequestState
  BY TypeIs DEF AllFormed
<1>2. CASE At(q, "admitted") /\ request'[q] = [Over("admitted", q) EXCEPT !.calm = FALSE]
  <2> DEFINE over == Over("admitted", q)
  <2>1. over = [Idle EXCEPT !.pc = "admitted", !.who = request[q].who]
    BY DEF Over
  <2>2. /\ over.pc = "admitted" /\ over.who = request[q].who /\ over.found = {}
        /\ over.scope = None /\ over.bypass = FALSE /\ over.row = NoRow
    BY <2>1 DEF Idle
  <2>3. over = [over EXCEPT !.pc = over.pc] /\ "calm" \in DOMAIN over
    BY <2>1 DEF Idle
  <2>4. request'[q] = [over EXCEPT !.calm = FALSE]
    BY <1>2
  <2>5. ~NoRow.operator
    BY DEF NoRow
  <2>6. /\ request'[q].pc = over.pc /\ request'[q].who = over.who /\ request'[q].found = over.found
        /\ request'[q].scope = over.scope /\ request'[q].bypass = over.bypass
        /\ request'[q].row = over.row /\ request'[q].calm = FALSE
    BY <2>1, <2>4 DEF Idle
  <2> HIDE DEF over
  <2> QED
    BY <1>2, <2>2, <2>5, <2>6 DEF At
<1>3. CASE ~At(q, "admitted") /\ request'[q] = [request[q] EXCEPT !.calm = FALSE]
  BY <1>1, <1>3 DEF RequestState
<1> QED
  BY <1>2, <1>3

\* A request stands as long as others leave of it what they do.
LEMMA OthersStand ==
    ASSUME TypeOK, NEW q \in Request, Stands(q), Grows, Left(q)
    PROVE  Stands(q)'
<1>1. /\ request[q] \in RequestState
      /\ request[q].pc \notin Outcome \cup {"idle"} => request[q].who \in Person
      /\ request[q].who # None => request[q].who \in Person
  BY TypeIs DEF AllFormed, Formed, RequestState
<1>2. members \subseteq Person \X Business
  BY TypeIs DEF Tables
<1>3. request[q].who \in Person =>
         /\ person[request[q].who].known => person'[request[q].who].known
         /\ person[request[q].who].operator => person'[request[q].who].operator
  BY DEF Grows
<1>4. CASE request'[q] = request[q] /\ UNCHANGED grants
  <2>1. \A b, now : /\ Covered(b, now)' <=> Covered(b, now)
                    /\ LapsedEntry(b, now)' = LapsedEntry(b, now)
    BY <1>4, CoverKept
  <2>2. Seeded(q)'
    BY <1>1, <1>4, <1>3, <2>1, HoldersArePersons DEF Stands, Seeded, Grows, Outcome
  <2>3. Provided(q)'
    BY <1>1, <1>4, <1>3 DEF Stands, Provided, Grows, Left, Outcome, Providing
  <2>4. Looks(q)'
    BY <1>1, <1>4, <1>3, <2>1 DEF Stands, Looks, Grows
  <2>5. Tells(q)'
    BY <1>1, <1>4, <2>1 DEF Stands, Tells, Grows, Left
  <2>6. Welcome(q)'
    BY <1>1, <1>4 DEF Stands, Welcome, Grows, Left, Selectable, Ahead
  <2>7. Served(q)'
    BY <1>1, <1>4, <1>3, <2>1 DEF Stands, Served, Grows
  <2> QED
    BY <2>2, <2>3, <2>4, <2>5, <2>6, <2>7 DEF Stands
<1>5. CASE At(q, "idle") /\ request'[q] = request[q]
  <2>1. request[q] = Idle
    BY <1>5 DEF Stands, Looks, At
  <2>2. Seeded(q)' /\ Looks(q)' /\ Tells(q)' /\ Welcome(q)' /\ Served(q)'
    BY <1>5, <2>1, NoneIsNoValue, HoldersArePersons
    DEF Idle, NoRow, Seeded, Looks, Tells, Welcome, Served, Seeding, AtDoor
  <2>3. Provided(q)'
    BY <1>5, <2>1 DEF Stands, Provided, Left, Idle, Providing
  <2> QED
    BY <2>2, <2>3 DEF Stands
<1>6. CASE \/ At(q, "admitted") /\ request'[q] = [Over("admitted", q) EXCEPT !.calm = FALSE]
           \/ ~At(q, "admitted") /\ ~At(q, "idle") /\ request'[q] = [request[q] EXCEPT !.calm = FALSE]
  <2> DEFINE p == request[q]
             n == request'[q]
  <2>1. /\ n.pc = p.pc /\ n.who = p.who /\ n.calm = FALSE
        /\ \/ /\ p.pc = "admitted" /\ n.found = {} /\ n.scope = None
              /\ ~n.bypass /\ ~n.row.operator
           \/ /\ n.now = p.now /\ n.looked = p.looked /\ n.row = p.row /\ n.bypass = p.bypass
              /\ n.todo = p.todo /\ n.at = p.at /\ n.found = p.found /\ n.scope = p.scope
    BY <1>6, StirredFields DEF At
  <2>2. p.pc # "idle"
    BY <1>6 DEF At
  <2>3. Seeded(q)'
    BY <1>1, <1>3, <2>1, <2>2, HoldersArePersons DEF Stands, Seeded, Grows, Outcome
  <2>4. Provided(q)'
    BY <1>1, <1>3, <2>1, <2>2 DEF Stands, Provided, Grows, Left, Outcome, Providing
  <2>5. Looks(q)'
    BY <1>1, <1>3, <2>1, <2>2 DEF Stands, Looks, Grows
  <2>6. Tells(q)'
    BY <1>1, <2>1, <2>2 DEF Stands, Tells, Grows, Left
  <2>7. Welcome(q)'
    BY <1>1, <2>1, <2>2 DEF Stands, Welcome
  <2>8. Served(q)'
    BY <1>1, <1>3, <2>1, <2>2 DEF Stands, Served, Grows
  <2> QED
    BY <2>3, <2>4, <2>5, <2>6, <2>7, <2>8 DEF Stands
<1> QED
  BY <1>4, <1>5, <1>6 DEF Left

\* Memberships stay usable as long as the new ones are.
LEMMA MembersKept ==
    ASSUME TypeOK, MembershipIsUsable, Grows,
           \A m \in members' \ members :
               /\ person'[m[1]].known
               /\ m[2] \in tenants'
               /\ m[2] # Platform => /\ owned'[m[2]] = m[1]
                                     /\ \E g \in GrantId : grants'[g] # None /\ grants'[g].business = m[2]
    PROVE  MembershipIsUsable'
<1>1. ASSUME NEW m \in members'
      PROVE  /\ person'[m[1]].known
             /\ m[2] \in tenants'
             /\ m[2] # Platform => /\ owned'[m[2]] = m[1]
                                   /\ \E g \in GrantId : grants'[g] # None /\ grants'[g].business = m[2]
  <2>1. CASE m \in members
    <3>1. m[1] \in Person
      BY <2>1, TypeIs DEF Tables
    <3>2. m[2] # Platform => \E g \in GrantId : grants[g] # None /\ grants[g].business = m[2]
      BY <2>1 DEF MembershipIsUsable
    <3>3. person[m[1]].known /\ (person[m[1]].known => person'[m[1]].known)
      BY <2>1, <3>1, Zenon DEF MembershipIsUsable, Grows
    <3>4. m[2] # Platform => owned'[m[2]] = m[1]
      BY <2>1 DEF MembershipIsUsable, Grows
    <3>5. m[2] \in tenants'
      BY <2>1 DEF MembershipIsUsable, Grows
    <3> QED
      BY <3>2, <3>3, <3>4, <3>5 DEF Grows
  <2>2. CASE m \notin members
    BY <2>2
  <2> QED
    BY <2>1, <2>2
<1> QED
  BY <1>1 DEF MembershipIsUsable

-----------------------------------------------------------------------------
(* The request that steps.                                                  *)

\* What is known of a request that stands, unfolded once.
LEMMA StandsFor ==
    ASSUME TypeOK, NEW r \in Request
    PROVE  /\ request[r] \in RequestState
           /\ request[r].pc \notin Outcome \cup {"idle"} => request[r].who \in Person
           /\ request[r].who # None => request[r].who \in Person
           /\ request[r].at # None => request[r].pc \in {"best", "lapse"}
  BY TypeIs DEF AllFormed, Formed, RequestState

\* A request is elsewhere, and all else of it is the same.
MovedTo(r, pc) ==
    /\ request'[r].pc = pc /\ request'[r].who = request[r].who
    /\ request'[r].now = request[r].now /\ request'[r].looked = request[r].looked
    /\ request'[r].row = request[r].row /\ request'[r].bypass = request[r].bypass
    /\ request'[r].todo = request[r].todo /\ request'[r].at = request[r].at
    /\ request'[r].found = request[r].found /\ request'[r].scope = request[r].scope
    /\ request'[r].calm = request[r].calm

\* A step of a request alone moves it, and so does one that stirs the others.
LEMMA MovedFields ==
    ASSUME TypeOK, NEW r \in Request, NEW pc,
           Step(r, pc) \/ request' = [Stirred({r}) EXCEPT ![r].pc = pc]
    PROVE  MovedTo(r, pc)
<1>1. request[r] \in RequestState /\ request \in [Request -> RequestState]
  BY TypeIs DEF AllFormed
<1>2. Stirred({r})[r] = request[r]
  BY DEF Stirred
<1>3. request'[r] = [request[r] EXCEPT !.pc = pc]
  <2>1. CASE Step(r, pc)
    BY <1>1, <2>1 DEF Step
  <2>2. CASE request' = [Stirred({r}) EXCEPT ![r].pc = pc]
    <3>1. r \in DOMAIN Stirred({r})
      BY DEF Stirred
    <3> QED
      BY <1>2, <2>2, <3>1
  <2> QED
    BY <2>1, <2>2
<1> QED
  BY <1>1, <1>3 DEF MovedTo, RequestState

\* The rows that a request counts on are there still.
LEMMA RowsStay ==
    ASSUME TypeOK, Grows, NEW p \in Person
    PROVE  /\ person[p].known => person'[p].known
           /\ person[p].operator => person'[p].operator
           /\ \A b \in Business : <<p, b>> \in members => <<p, b>> \in members'
  BY DEF Grows

\* One that is over stands by its outcome.
LEMMA OverStands ==
    ASSUME TypeOK, NEW r \in Request, NEW pc \in Outcome \ {"admitted"}, End(r, pc),
           request[r].who \in Holder => pc \notin {"no_user", "no_membership"}
    PROVE  Stands(r)'
<1> DEFINE n == request'[r]
           over == Over(pc, r)
<1>1. over = [Idle EXCEPT !.pc = pc, !.who = request[r].who]
  BY DEF Over
<1>2. n = over
  BY TypeIs DEF End, AllFormed
<1>3. /\ n.pc = pc /\ n.who = request[r].who /\ n.found = {} /\ n.scope = None
      /\ n.bypass = FALSE /\ n.row = NoRow /\ n.looked = n.now
  BY <1>1, <1>2 DEF Idle
<1>4. NoRow.operator = FALSE
  BY DEF NoRow
<1> HIDE DEF n, over
<1>5. pc \notin Seeding \cup AtDoor \cup Providing \cup {"idle"}
  BY DEF Outcome, Seeding, AtDoor, Providing
<1>6. Seeded(r)'
  BY <1>3, <1>5 DEF Seeded, n, AtDoor, Seeding
<1>7. Provided(r)'
  BY <1>3, <1>5 DEF Provided, n, Providing
<1>8. Looks(r)'
  BY <1>3, <1>4, <1>5 DEF Looks, n, AtDoor
<1>9. Tells(r)' /\ Served(r)'
  BY <1>3 DEF Tells, Served, n
<1>10. Welcome(r)'
  BY <1>3, <1>5 DEF Welcome, n, AtDoor
<1> QED
  BY <1>6, <1>7, <1>8, <1>9, <1>10 DEF Stands

\* One that moves, though not to or from a look at businesses, keeps what it has
\* found and who it is for.
LEMMA MovedStands ==
    ASSUME TypeOK, NEW r \in Request, Stands(r), Grows,
           NEW pc \in Seeding \cup Providing \cup {"user", "stamp", "businesses", "draft", "write"},
           MovedTo(r, pc), request[r].pc \in Anywhere \ (Outcome \cup {"idle", "best", "lapse", "scope"})
    PROVE  Looks(r)' /\ Tells(r)' /\ Welcome(r)' /\ Served(r)'
<1> DEFINE q == request[r]
           n == request'[r]
<1>1. /\ n.pc = pc /\ n.who = q.who /\ n.now = q.now /\ n.looked = q.looked
      /\ n.row = q.row /\ n.bypass = q.bypass /\ n.found = q.found /\ n.scope = q.scope
  BY DEF MovedTo
<1>2. /\ q.pc \notin {"admitted", "best", "lapse", "scope", "idle"} /\ q.who \in Person
      /\ pc \notin {"idle", "best", "lapse", "scope", "admitted", "no_user", "no_membership"}
  BY StandsFor DEF Outcome, Anywhere, Seeding, AtDoor, Providing
<1>3. /\ q.found = {} /\ q.scope = None /\ ~q.bypass /\ q.looked = q.now
      /\ q.row.operator => q.who # None /\ person[q.who].operator
  BY <1>2 DEF Stands, Tells, Served, Looks
<1>4. person[q.who].operator => person'[q.who].operator
  BY <1>2, RowsStay
<1>5. Looks(r)'
  BY <1>1, <1>2, <1>3, <1>4 DEF Looks
<1>6. Tells(r)' /\ Served(r)' /\ Welcome(r)'
  BY <1>1, <1>2, <1>3 DEF Tells, Served, Welcome
<1> QED
  BY <1>5, <1>6

\* A step that leaves the tables but for rows of people that grow.
LEMMA QuietGrows ==
    ASSUME TypeOK, UNCHANGED <<registry, grants>>,
           \A p \in Person : /\ person[p].known => person'[p].known
                             /\ person[p].operator => person'[p].operator
    PROVE  Grows
  BY DEF Grows, registry

\* A step of one request that leaves the grants leaves the others.
LEMMA OneLeaves ==
    ASSUME TypeOK, NEW r \in Request, NEW s, request' = [request EXCEPT ![r] = s], UNCHANGED grants,
           \A m \in members' \ members : m[2] \in {Platform, r}
    PROVE  \A q \in Request \ {r} : Left(q)
  BY TypeIs, IdsAreMinted DEF AllFormed, Left

\* One of a request that writes its own grant stirs the others.
LEMMA GrantLeaves ==
    ASSUME TypeOK, NEW r \in Request, NEW pc, request' = [Stirred({r}) EXCEPT ![r].pc = pc],
           NEW g, grants' = [grants EXCEPT ![r] = g],
           \A m \in members' \ members : m[2] \in {Platform, r}
    PROVE  \A q \in Request \ {r} : Left(q)
<1> SUFFICES ASSUME NEW q \in Request \ {r} PROVE Left(q)
  OBVIOUS
<1>1. request'[q] = Stirred({r})[q]
  BY DEF Stirred
<1>2. \/ At(q, "idle") /\ request'[q] = request[q]
      \/ At(q, "admitted") /\ request'[q] = [Over("admitted", q) EXCEPT !.calm = FALSE]
      \/ ~At(q, "admitted") /\ ~At(q, "idle") /\ request'[q] = [request[q] EXCEPT !.calm = FALSE]
  BY <1>1 DEF Stirred, At
<1>3. grants'[q] = grants[q]
  BY TypeIs DEF Tables, GrantId
<1> QED
  BY <1>2, <1>3, IdsAreMinted DEF Left

\* A step of a seeding keeps what is said of memberships and of its request.
LEMMA SeedStands ==
    ASSUME TypeOK, MembershipIsUsable, NEW r \in Request, Stands(r), Seed(r)
    PROVE  Grows /\ MembershipIsUsable' /\ Stands(r)' /\ \A q \in Request \ {r} : Left(q)
<1> DEFINE w == request[r].who
           Goal == Grows /\ MembershipIsUsable' /\ Stands(r)' /\ \A q \in Request \ {r} : Left(q)
<1>0. Tables /\ request[r] \in RequestState /\ request[r].pc \in Seeding /\ w \in Holder /\ w \in Person
  <2>1. request[r].pc \in Seeding
    BY DEF Seed, SeedTenant, SeedFind, SeedPerson, SeedPersonConflicts, SeedOperator, SeedMember,
           SeedGrant, At, Seeding
  <2> QED
    BY <2>1, StandsFor, TypeIs, HoldersArePersons DEF Stands, Seeded
<1>1. ASSUME Grows, NEW pc \in Seeding \cup {"user"}, MovedTo(r, pc)
      PROVE  Looks(r)' /\ Tells(r)' /\ Welcome(r)' /\ Served(r)'
  <2>1. request[r].pc \in Anywhere \ (Outcome \cup {"idle", "best", "lapse", "scope"})
    BY <1>0 DEF Anywhere, Outcome, Seeding
  <2> QED
    BY <1>1, <2>1, MovedStands
<1>2. ASSUME NEW pc, Step(r, pc), UNCHANGED grants, \A m \in members' \ members : m[2] = Platform
      PROVE  \A q \in Request \ {r} : Left(q)
  BY <1>2, OneLeaves DEF Step
<1> HIDE DEF Goal
<1>3. CASE SeedTenant(r)
  <2>1. Step(r, "find") /\ tenants' = tenants \cup {Platform} /\ UNCHANGED <<person, owned, members, grants>>
        /\ request[r].pc = "tenant"
    BY <1>3 DEF SeedTenant, At
  <2>2. Grows
    BY <2>1 DEF Grows
  <2>3. MembershipIsUsable'
    BY <2>1, <2>2, MembersKept
  <2>4. MovedTo(r, "find") /\ "find" \in Seeding \cup {"user"}
    BY <2>1, MovedFields DEF Seeding
  <2>5. Seeded(r)' /\ Provided(r)'
    BY <1>0, <2>1, <2>4 DEF MovedTo, Stands, Seeded, Provided, Seeding, AtDoor, Providing
  <2> QED
    BY <1>1, <1>2, <2>1, <2>4, <2>2, <2>3, <2>5 DEF Stands, Goal
<1>4. CASE SeedFind(r)
  <2>1. PICK pc \in {"operator", "person"} :
            /\ Step(r, pc) /\ (pc = "operator" => person[w].known)
            /\ UNCHANGED <<person, registry, grants>> /\ request[r].pc = "find"
    BY <1>4 DEF SeedFind, AfterFind, At
  <2>2. Grows
    BY <2>1, QuietGrows
  <2>3. MembershipIsUsable'
    BY <2>1, <2>2, MembersKept DEF registry
  <2>4. MovedTo(r, pc) /\ pc \in Seeding \cup {"user"}
    BY <2>1, MovedFields DEF Seeding
  <2>5. Seeded(r)' /\ Provided(r)'
    BY <1>0, <2>1, <2>4 DEF MovedTo, Stands, Seeded, Provided, Seeding, AtDoor, Providing, registry
  <2>6. \A q \in Request \ {r} : Left(q)
    BY <1>2, <2>1 DEF registry
  <2> QED
    BY <1>1, <2>1, <2>4, <2>2, <2>3, <2>5, <2>6 DEF Stands, Goal
<1>5. CASE SeedPerson(r)
  <2> DEFINE row == [known |-> TRUE, active |-> TRUE, operator |-> TRUE]
  <2>1. /\ Step(r, "operator") /\ request[r].pc = "person" /\ UNCHANGED <<registry, grants>>
        /\ person' = [person EXCEPT ![w] = row]
    BY <1>5 DEF SeedPerson, At
  <2>2. /\ person'[w].known /\ person'[w].operator
        /\ \A p \in Person : p # w => person'[p] = person[p]
    BY <1>0, <2>1 DEF Tables
  <2>3. Grows
    BY <2>1, <2>2, QuietGrows
  <2>4. MembershipIsUsable'
    BY <2>1, <2>3, MembersKept DEF registry
  <2>5. MovedTo(r, "operator") /\ "operator" \in Seeding \cup {"user"}
    BY <2>1, MovedFields DEF Seeding
  <2>6. Seeded(r)' /\ Provided(r)'
    BY <1>0, <2>1, <2>2, <2>5 DEF MovedTo, Stands, Seeded, Provided, Seeding, AtDoor, Providing, registry
  <2>7. \A q \in Request \ {r} : Left(q)
    BY <1>2, <2>1 DEF registry
  <2> QED
    BY <1>1, <2>1, <2>5, <2>3, <2>4, <2>6, <2>7 DEF Stands, Goal
<1>6. CASE SeedPersonConflicts(r)
  <2>1. End(r, "failed") /\ UNCHANGED <<person, registry, grants>>
    BY <1>6 DEF SeedPersonConflicts
  <2>2. Grows
    BY <2>1, QuietGrows
  <2>3. MembershipIsUsable'
    BY <2>1, <2>2, MembersKept DEF registry
  <2>4. Stands(r)'
    BY <2>1, OverStands DEF Outcome
  <2>5. \A q \in Request \ {r} : Left(q)
    BY <2>1, OneLeaves DEF registry, End
  <2> QED
    BY <2>2, <2>3, <2>4, <2>5 DEF Goal
<1>7. CASE SeedOperator(r)
  <2>1. /\ Step(r, "member") /\ request[r].pc = "operator" /\ UNCHANGED <<registry, grants>>
        /\ person' = [person EXCEPT ![w].operator = TRUE]
    BY <1>7 DEF SeedOperator, At
  <2>2. person[w] \in PersonRow /\ person[w].known
    BY <1>0, <2>1 DEF Stands, Seeded, Tables
  <2>3. /\ person'[w].known /\ person'[w].operator
        /\ \A p \in Person : p # w => person'[p] = person[p]
    BY <1>0, <2>1, <2>2 DEF Tables, PersonRow
  <2>4. Grows
    BY <2>1, <2>3, QuietGrows
  <2>5. MembershipIsUsable'
    BY <2>1, <2>4, MembersKept DEF registry
  <2>6. MovedTo(r, "member") /\ "member" \in Seeding \cup {"user"}
    BY <2>1, MovedFields DEF Seeding
  <2>7. Seeded(r)' /\ Provided(r)'
    BY <1>0, <2>1, <2>3, <2>6 DEF MovedTo, Stands, Seeded, Provided, Seeding, AtDoor, Providing, registry
  <2>8. \A q \in Request \ {r} : Left(q)
    BY <1>2, <2>1 DEF registry
  <2> QED
    BY <1>1, <2>1, <2>6, <2>4, <2>5, <2>7, <2>8 DEF Stands, Goal
<1>8. CASE SeedMember(r)
  <2>1. /\ Step(r, "grant") /\ request[r].pc = "member" /\ UNCHANGED <<person, tenants, owned, grants>>
        /\ members' = members \cup {<<w, Platform>>}
    BY <1>8 DEF SeedMember, At
  <2>2. person[w].known /\ Platform \in tenants
    BY <1>0, <2>1 DEF Stands, Seeded, Seeding
  <2>3. Grows
    BY <2>1 DEF Grows
  <2>4. MembershipIsUsable'
    BY <2>1, <2>2, <2>3, MembersKept
  <2>5. MovedTo(r, "grant") /\ "grant" \in Seeding \cup {"user"}
    BY <2>1, MovedFields DEF Seeding
  <2>6. Seeded(r)' /\ Provided(r)'
    BY <1>0, <2>1, <2>2, <2>5 DEF MovedTo, Stands, Seeded, Provided, Seeding, AtDoor, Providing
  <2>7. \A q \in Request \ {r} : Left(q)
    BY <1>2, <2>1
  <2> QED
    BY <1>1, <2>1, <2>5, <2>3, <2>4, <2>6, <2>7 DEF Stands, Goal
<1>9. CASE SeedGrant(r) /\ Covered(Platform, request[r].now)
  <2>1. /\ Step(r, "user") /\ request[r].pc = "grant" /\ UNCHANGED <<person, registry, grants>>
    BY <1>9 DEF SeedGrant, At
  <2>2. Grows
    BY <2>1, QuietGrows
  <2>3. MembershipIsUsable'
    BY <2>1, <2>2, MembersKept DEF registry
  <2>4. MovedTo(r, "user") /\ "user" \in Seeding \cup {"user"}
    BY <2>1, MovedFields DEF Seeding
  <2>5. Covered(Platform, request[r].now)'
    BY <1>9, <2>1, <2>4, CoverKept DEF MovedTo
  <2>6. Seeded(r)' /\ Provided(r)'
    BY <1>0, <2>1, <2>4, <2>5 DEF MovedTo, Stands, Seeded, Provided, Seeding, AtDoor, Providing, registry
  <2>7. \A q \in Request \ {r} : Left(q)
    BY <1>2, <2>1 DEF registry
  <2> QED
    BY <1>1, <2>1, <2>4, <2>2, <2>3, <2>6, <2>7 DEF Stands, Goal
<1>10. CASE SeedGrant(r) /\ ~Covered(Platform, request[r].now)
  <2> DEFINE g == [business |-> Platform, personal |-> FALSE, starts |-> request[r].now,
                   ends |-> None, active |-> TRUE]
  <2>1. /\ request[r].pc = "grant" /\ UNCHANGED <<person, registry>>
        /\ grants' = [grants EXCEPT ![r] = g]
        /\ request' = [Stirred({r}) EXCEPT ![r].pc = "user"]
    BY <1>10 DEF SeedGrant, At
  <2>2. grants[r] = None /\ grants \in [GrantId -> Grant \cup {None}] /\ r \in GrantId
    BY <1>0, <2>1 DEF Stands, Provided, Tables, GrantId
  <2>3. /\ grants'[r] = g /\ g # None
        /\ \A h \in GrantId : h # r => grants'[h] = grants[h]
    <3>1. g \in Grant
      BY <1>0 DEF Grant, Business, RequestState
    <3> QED
      BY <2>1, <2>2, <3>1, NoneIsNoValue
  <2>4. Grows
    BY <2>1, <2>2, <2>3 DEF Grows, registry
  <2>5. MembershipIsUsable'
    BY <2>1, <2>4, MembersKept DEF registry
  <2>6. MovedTo(r, "user") /\ "user" \in Seeding \cup {"user"}
    BY <2>1, MovedFields
  <2>7. Covered(Platform, request[r].now)'
    BY <1>0, <2>2, <2>3, <2>6, BoundsAreNat
    DEF MovedTo, Covered, Covers, Capacity, RequestState, Time
  <2>8. Seeded(r)' /\ Provided(r)'
    BY <1>0, <2>1, <2>6, <2>7 DEF MovedTo, Stands, Seeded, Provided, Seeding, AtDoor, Providing, registry
  <2> HIDE DEF g
  <2>9. \A q \in Request \ {r} : Left(q)
    BY <2>1, GrantLeaves DEF registry
  <2> QED
    BY <1>1, <2>4, <2>5, <2>6, <2>8, <2>9 DEF Stands, Goal
<1> QED
  BY <1>3, <1>4, <1>5, <1>6, <1>7, <1>8, <1>9, <1>10 DEF Seed, Goal

\* A step of a request that only reads.
LEMMA ReadsOnly ==
    ASSUME TypeOK, MembershipIsUsable, NEW r \in Request, NEW s,
           UNCHANGED <<time, person, registry, grants>>, request' = [request EXCEPT ![r] = s]
    PROVE  /\ Grows /\ MembershipIsUsable' /\ \A q \in Request \ {r} : Left(q)
           /\ request'[r] = s
           /\ \A b, now : /\ Covered(b, now)' <=> Covered(b, now)
                          /\ LapsedEntry(b, now)' = LapsedEntry(b, now)
<1>1. Grows
  BY QuietGrows
<1>2. MembershipIsUsable'
  BY <1>1, MembersKept DEF registry
<1>3. \A q \in Request \ {r} : Left(q)
  BY OneLeaves DEF registry
<1>4. request'[r] = s
  BY TypeIs DEF AllFormed
<1> QED
  BY <1>1, <1>2, <1>3, <1>4, CoverKept

\* Who is let in to an open business of theirs, or as the host, or into none.
LEMMA AdmittedStands ==
    ASSUME TypeOK, MembershipIsUsable, NEW r \in Request, Stands(r), request[r].pc \in {"best", "scope"},
           UNCHANGED <<time, person, registry, grants>>, NEW b, Admitted(r, b),
           b # None => /\ request[r].calm => Covered(b, request[r].looked)
                       /\ <<request[r].who, b>> \in members \/ person[request[r].who].operator,
           request[r].who \in Holder /\ request[r].calm => Platform \in Selectable(r)
    PROVE  Stands(r)'
<1> DEFINE q == request[r]
           n == request'[r]
           s == [Idle EXCEPT !.pc = "admitted", !.who = q.who, !.now = q.now, !.looked = q.looked,
                             !.found = q.found, !.scope = b, !.calm = q.calm]
<1>1. request' = [request EXCEPT ![r] = s]
  BY DEF Admitted
<1>2. n = s /\ \A c, now : /\ Covered(c, now)' <=> Covered(c, now)
                          /\ LapsedEntry(c, now)' = LapsedEntry(c, now)
  <2> HIDE DEF s
  <2> QED
    BY <1>1, ReadsOnly
<1>3. /\ n.pc = "admitted" /\ n.who = q.who /\ n.now = q.now /\ n.looked = q.looked
      /\ n.found = q.found /\ n.scope = b /\ n.calm = q.calm /\ n.bypass = FALSE /\ n.row = NoRow
  BY <1>2 DEF Idle
<1>4. NoRow.operator = FALSE /\ q.who \in Person
  BY StandsFor DEF NoRow, Outcome
<1> HIDE DEF n, s
<1>5. Seeded(r)' /\ Provided(r)'
  BY <1>3 DEF n, Seeded, Provided, Seeding, AtDoor, Providing
<1>6. Looks(r)'
  BY <1>3, <1>4 DEF n, Looks
<1>7. Tells(r)'
  BY <1>2, <1>3 DEF n, Stands, Tells, registry
<1>8. Welcome(r)'
  BY <1>3 DEF n, Welcome, Selectable
<1>9. Served(r)'
  BY <1>2, <1>3, <1>4, NoneIsNoValue DEF n, Served, registry
<1> QED
  BY <1>5, <1>6, <1>7, <1>8, <1>9 DEF Stands

\* A business that has been looked at is one found, and the rest are ahead.
LEMMA FoundStands ==
    ASSUME TypeOK, MembershipIsUsable, NEW r \in Request, Stands(r), request[r].pc \in {"best", "lapse"},
           ~request[r].bypass, UNCHANGED <<time, person, registry, grants>>, NEW e, Found(r, e),
           e.business = request[r].at,
           request[r].calm =>
              IF e.lapse = None THEN Covered(e.business, request[r].now)
              ELSE ~Covered(e.business, request[r].now) /\ e = LapsedEntry(e.business, request[r].now)
    PROVE  Stands(r)'
<1> DEFINE q == request[r]
           n == request'[r]
           found == q.found \cup {e}
           state == [q EXCEPT !.found = @ \cup {e}]
<1>1. q \in RequestState /\ q.who \in Person /\ q.at # None
  BY StandsFor, TypeIs DEF Outcome, AllFormed, Formed
<1>2. /\ state.found = found /\ state.todo = q.todo
      /\ state.who = q.who /\ state.now = q.now /\ state.looked = q.looked /\ state.row = q.row
      /\ state.bypass = q.bypass /\ state.scope = q.scope /\ state.calm = q.calm
  BY <1>1 DEF RequestState
<1>3. PICK s : /\ request' = [request EXCEPT ![r] = s]
               /\ \/ q.todo = {} /\ s = [state EXCEPT !.pc = "scope", !.at = None]
                  \/ \E b \in q.todo : s = [state EXCEPT !.pc = "best", !.at = b, !.todo = @ \ {b}]
  BY <1>2 DEF Found
<1>4. n = s /\ \A c, now : /\ Covered(c, now)' <=> Covered(c, now)
                          /\ LapsedEntry(c, now)' = LapsedEntry(c, now)
  BY <1>3, ReadsOnly
<1>5. /\ n.who = q.who /\ n.now = q.now /\ n.looked = q.looked /\ n.row = q.row
      /\ n.bypass = q.bypass /\ n.found = found /\ n.scope = q.scope /\ n.calm = q.calm
      /\ \/ n.pc = "scope" /\ q.todo = {}
         \/ n.pc = "best" /\ n.at \in q.todo /\ n.todo = q.todo \ {n.at}
  <2>1. {"pc", "at", "todo"} \subseteq DOMAIN state
    BY <1>1 DEF RequestState
  <2> HIDE DEF state, n, found
  <2>2. CASE q.todo = {} /\ s = [state EXCEPT !.pc = "scope", !.at = None]
    BY <1>2, <1>4, <2>1, <2>2
  <2>3. ASSUME NEW b \in q.todo, s = [state EXCEPT !.pc = "best", !.at = b, !.todo = @ \ {b}]
        PROVE  /\ n.who = q.who /\ n.now = q.now /\ n.looked = q.looked /\ n.row = q.row
               /\ n.bypass = q.bypass /\ n.found = found /\ n.scope = q.scope /\ n.calm = q.calm
               /\ n.pc = "best" /\ n.at = b /\ n.todo = q.todo \ {b}
    BY <1>2, <1>4, <2>1, <2>3
  <2> QED
    BY <1>3, <2>2, <2>3
<1> HIDE DEF n, state
<1>6. /\ q.looked = q.now /\ q.scope = None
      /\ \A b \in q.todo \cup {q.at} : <<q.who, b>> \in members
      /\ q.row.operator => person[q.who].operator
  BY DEF Stands, Looks, Served
<1>7. Seeded(r)'
  BY <1>4, <1>5 DEF n, Stands, Seeded, Seeding, AtDoor, registry
<1>8. Provided(r)'
  BY <1>5 DEF n, Provided, Seeding, Providing
<1>9. Looks(r)'
  BY <1>1, <1>5, <1>6, NoneIsNoValue DEF n, Looks, registry
<1>10. Tells(r)'
  BY <1>4, <1>5, <1>6 DEF n, Stands, Tells, registry
<1>11. Welcome(r)'
  <2>1. ASSUME q.who \in Holder, q.calm PROVE Platform \in (Selectable(r) \cup Ahead(r))'
    <3>1. Platform \in Selectable(r) \cup q.todo \cup {q.at} /\ Covered(Platform, q.now)
      BY <2>1 DEF Stands, Welcome, Ahead, Seeded, AtDoor
    <3>2. Selectable(r)' = {f.business : f \in {g \in found : g.lapse = None}}
      BY <1>5 DEF n, Selectable
    <3>3. Ahead(r)' = q.todo
      BY <1>5 DEF n, Ahead
    <3>4. CASE Platform \in Selectable(r) \cup q.todo
      BY <3>2, <3>3, <3>4 DEF Selectable
    <3>5. CASE Platform = q.at
      <4>1. e.lapse = None /\ e \in found
        BY <2>1, <3>1, <3>5
      <4> QED
        BY <3>2, <3>5, <4>1
    <3> QED
      BY <3>1, <3>4, <3>5
  <2> QED
    BY <1>5, <2>1 DEF n, Welcome
<1>12. Served(r)'
  BY <1>5, <1>6 DEF n, Served
<1> QED
  BY <1>7, <1>8, <1>9, <1>10, <1>11, <1>12 DEF Stands

\* A step at the door keeps what is said of memberships and of its request.
LEMMA DoorStands ==
    ASSUME TypeOK, MembershipIsUsable, NEW r \in Request, Stands(r),
           \/ \E p \in Person, asked \in Business \cup {None} : AskAdmit(r, p, asked)
           \/ FindUser(r) \/ Stamp(r) \/ FindBusinesses(r) \/ BestGrant(r) \/ WhyLapsed(r)
           \/ ResolveScope(r)
    PROVE  Grows /\ MembershipIsUsable' /\ Stands(r)' /\ \A q \in Request \ {r} : Left(q)
<1> DEFINE q == request[r]
           n == request'[r]
           Quiet == UNCHANGED <<time, person, registry, grants>>
<1>1. q \in RequestState /\ Tables /\ clock \in Time
  BY StandsFor, TypeIs DEF Tables
<1>2. PICK s : request' = [request EXCEPT ![r] = s] /\ Quiet
  BY DEF AskAdmit, FindUser, Stamp, FindBusinesses, BestGrant, WhyLapsed, ResolveScope, Step, End,
         Found, Admitted
<1>3. /\ Grows /\ MembershipIsUsable' /\ \A p \in Request \ {r} : Left(p)
      /\ n = s
      /\ \A b, now : /\ Covered(b, now)' <=> Covered(b, now)
                     /\ LapsedEntry(b, now)' = LapsedEntry(b, now)
  BY <1>2, ReadsOnly
<1>. SUFFICES Stands(r)'
  BY <1>3
<1> HIDE DEF n, Quiet
<1>4. ASSUME NEW p \in Person, NEW asked \in Business \cup {None}, AskAdmit(r, p, asked)
      PROVE  Stands(r)'
  <2> DEFINE pc == IF p \in Holder THEN "tenant" ELSE "user"
             a == [Idle EXCEPT !.pc = pc, !.who = p, !.now = clock, !.looked = clock, !.asked = asked]
  <2>1. request' = [request EXCEPT ![r] = a] /\ q.pc = "idle"
    BY <1>4 DEF AskAdmit, At
  <2>2. n = a
    BY <2>1, TypeIs DEF AllFormed, n
  <2>3. /\ n.pc = pc /\ n.who = p /\ n.now = clock /\ n.looked = clock /\ n.found = {}
        /\ n.scope = None /\ n.bypass = FALSE /\ n.row = NoRow
    BY <2>2 DEF Idle
  <2>4. NoRow.operator = FALSE
    BY DEF NoRow
  <2> HIDE DEF a
  <2>5. grants[r] = None
    BY <2>1 DEF Stands, Provided
  <2>6. Seeded(r)'
    BY <2>3 DEF n, Seeded, Seeding, AtDoor
  <2>7. Provided(r)'
    BY <1>2, <2>3, <2>5 DEF n, Quiet, Provided, Providing
  <2>8. Looks(r)' /\ Tells(r)' /\ Welcome(r)' /\ Served(r)'
    BY <2>3, <2>4 DEF n, Looks, Tells, Welcome, Served
  <2> QED
    BY <2>6, <2>7, <2>8 DEF Stands
<1>5. CASE FindUser(r)
  <2>1. q.pc = "user" /\ q.who \in Person
    BY <1>5, StandsFor DEF FindUser, At, Outcome
  <2>2. CASE person[q.who].known
    <3>1. /\ n = [q EXCEPT !.pc = "stamp", !.row = person[q.who]]
      BY <1>5, <2>2, TypeIs DEF FindUser, AllFormed, n
    <3>2. /\ n.pc = "stamp" /\ n.row = person[q.who] /\ n.who = q.who /\ n.now = q.now
          /\ n.looked = q.looked /\ n.bypass = q.bypass /\ n.found = q.found /\ n.scope = q.scope
          /\ n.calm = q.calm
      BY <1>1, <3>1 DEF RequestState
    <3>3. q.found = {} /\ q.scope = None /\ ~q.bypass /\ q.looked = q.now
      BY <2>1 DEF Stands, Tells, Served, Looks
    <3>4. Seeded(r)'
      BY <1>2, <1>3, <2>1, <3>2 DEF n, Quiet, Stands, Seeded, Seeding, AtDoor, registry
    <3>5. Provided(r)' /\ Tells(r)' /\ Welcome(r)' /\ Served(r)'
      BY <3>2, <3>3 DEF n, Provided, Tells, Welcome, Served, Seeding, Providing
    <3>6. Looks(r)'
      BY <1>2, <2>1, <3>2, <3>3, NoneIsNoValue DEF n, Quiet, Looks
    <3> QED
      BY <3>4, <3>5, <3>6 DEF Stands
  <2>3. CASE ~person[q.who].known
    <3>1. End(r, "no_user") /\ q.who \notin Holder
      BY <1>5, <2>1, <2>3 DEF FindUser, Stands, Seeded, AtDoor
    <3> QED
      BY <3>1, OverStands DEF Outcome
  <2> QED
    BY <2>2, <2>3
<1>6. CASE Stamp(r)
  <2>1. q.pc = "stamp"
    BY <1>6 DEF Stamp, At
  <2>2. CASE q.row.active
    <3>1. MovedTo(r, "businesses")
      BY <1>6, <2>2, MovedFields DEF Stamp
    <3>2. Looks(r)' /\ Tells(r)' /\ Welcome(r)' /\ Served(r)'
      BY <1>3, <2>1, <3>1, MovedStands DEF Anywhere, AtDoor, Outcome
    <3>3. Seeded(r)'
      BY <1>2, <1>3, <2>1, <3>1 DEF MovedTo, Quiet, Stands, Seeded, Seeding, AtDoor, registry
    <3>4. Provided(r)'
      BY <3>1 DEF MovedTo, Provided, Seeding, Providing
    <3> QED
      BY <3>2, <3>3, <3>4 DEF Stands
  <2>3. CASE ~q.row.active
    BY <1>6, <2>3, OverStands DEF Stamp, Outcome
  <2> QED
    BY <2>2, <2>3
<1>7. CASE FindBusinesses(r)
  <2> DEFINE mine == {b \in tenants : <<q.who, b>> \in members}
  <2>1. q.pc = "businesses" /\ q.who \in Person
    BY <1>7, StandsFor DEF FindBusinesses, At, Outcome
  <2>2. q.who \in Holder => Platform \in mine
    BY <2>1 DEF Stands, Seeded, AtDoor, MembershipIsUsable
  <2>3. CASE mine = {}
    <3>1. End(r, "no_membership") /\ q.who \notin Holder
      BY <1>7, <2>2, <2>3 DEF FindBusinesses
    <3> QED
      BY <3>1, OverStands DEF Outcome
  <2>4. CASE mine # {}
    <3>1. PICK b \in mine : n = [q EXCEPT !.pc = "best", !.at = b, !.todo = mine \ {b}]
      BY <1>7, <2>4, TypeIs DEF FindBusinesses, AllFormed, n
    <3> HIDE DEF mine
    <3>2. /\ n.pc = "best" /\ n.at = b /\ n.todo = mine \ {b} /\ n.row = q.row /\ n.who = q.who
          /\ n.now = q.now /\ n.looked = q.looked /\ n.bypass = q.bypass /\ n.found = q.found
          /\ n.scope = q.scope /\ n.calm = q.calm
      BY <1>1, <3>1 DEF RequestState
    <3>3. /\ q.found = {} /\ q.scope = None /\ ~q.bypass /\ q.looked = q.now
          /\ q.row.operator => person[q.who].operator
      BY <2>1 DEF Stands, Tells, Served, Looks
    <3>4. Seeded(r)'
      BY <1>2, <1>3, <2>1, <3>2 DEF n, Quiet, Stands, Seeded, Seeding, AtDoor, registry
    <3>5. Provided(r)' /\ Tells(r)' /\ Served(r)'
      BY <3>2, <3>3 DEF n, Provided, Tells, Served, Seeding, Providing
    <3>6. \A c \in mine : <<q.who, c>> \in members
      BY DEF mine
    <3>7. Looks(r)'
      BY <1>2, <2>1, <3>2, <3>3, <3>6, NoneIsNoValue DEF n, Quiet, Looks, registry
    <3>8. Welcome(r)'
      BY <2>2, <3>2, <3>3 DEF n, Welcome, Ahead
    <3> QED
      BY <3>4, <3>5, <3>7, <3>8 DEF Stands
  <2> QED
    BY <2>3, <2>4
<1>8. CASE BestGrant(r)
  <2> DEFINE b == q.at
  <2>1. q.pc = "best" /\ q.who \in Person
    BY <1>8, StandsFor DEF BestGrant, At, Outcome
  <2>2. /\ ~q.bypass => q.looked = q.now /\ <<q.who, b>> \in members
        /\ q.bypass => person[q.who].operator
        /\ q.bypass /\ q.who \in Holder /\ q.calm => Platform \in Selectable(r)
    BY <2>1 DEF Stands, Looks, Welcome, Ahead
  <2>3. CASE ~Covered(b, q.looked)
    <3>1. MovedTo(r, "lapse")
      BY <1>8, <2>3, MovedFields DEF BestGrant
    <3>2. Seeded(r)' /\ Provided(r)'
      BY <1>2, <1>3, <2>1, <3>1
      DEF MovedTo, Quiet, Stands, Seeded, Provided, Seeding, AtDoor, Providing, registry
    <3>3. Looks(r)'
      BY <1>2, <1>3, <2>1, <2>3, <3>1 DEF MovedTo, Quiet, Stands, Looks, registry
    <3>4. Tells(r)'
      BY <1>2, <1>3, <2>1, <3>1 DEF MovedTo, Quiet, Stands, Tells, registry
    <3>5. Welcome(r)' /\ Served(r)'
      BY <2>1, <3>1 DEF MovedTo, Stands, Welcome, Served, Selectable, Ahead
    <3> QED
      BY <3>2, <3>3, <3>4, <3>5 DEF Stands
  <2>4. CASE Covered(b, q.looked) /\ q.bypass
    <3>1. Admitted(r, b)
      BY <1>8, <2>4 DEF BestGrant
    <3> QED
      BY <1>2, <2>1, <2>2, <2>4, <3>1, AdmittedStands DEF Quiet
  <2>5. CASE Covered(b, q.looked) /\ ~q.bypass
    <3> DEFINE e == [business |-> b, lapse |-> None, ended |-> None]
    <3>1. Found(r, e)
      BY <1>8, <2>5 DEF BestGrant
    <3>2. e.business = b /\ e.lapse = None
      OBVIOUS
    <3> HIDE DEF e
    <3> QED
      BY <1>2, <2>1, <2>2, <2>5, <3>1, <3>2, FoundStands DEF Quiet
  <2> QED
    BY <2>3, <2>4, <2>5
<1>9. CASE WhyLapsed(r)
  <2> DEFINE e == LapsedEntry(q.at, q.looked)
  <2>1. q.pc = "lapse"
    BY <1>9 DEF WhyLapsed, At
  <2>2. CASE q.bypass
    BY <1>9, <2>2, OverStands DEF WhyLapsed, Outcome
  <2>3. CASE ~q.bypass
    <3>1. Found(r, e)
      BY <1>9, <2>3 DEF WhyLapsed
    <3>2. q.looked = q.now /\ (q.calm => ~Covered(q.at, q.looked))
      BY <2>1, <2>3 DEF Stands, Looks
    <3>3. e.business = q.at /\ e.lapse # None
      BY NoneIsNoValue DEF LapsedEntry, Lapse, Reason
    <3>4. e = LapsedEntry(e.business, q.now)
      BY <3>2, <3>3
    <3> HIDE DEF e
    <3> QED
      BY <1>2, <2>1, <2>3, <3>1, <3>2, <3>3, <3>4, FoundStands DEF Quiet
  <2> QED
    BY <2>2, <2>3
<1>10. CASE ResolveScope(r)
  <2>1. q.pc = "scope" /\ q.who \in Person
    BY <1>10, StandsFor DEF ResolveScope, At, Outcome
  <2>2. /\ ~q.bypass /\ q.looked = q.now
        /\ q.who \in Holder /\ q.calm => Platform \in Selectable(r)
    BY <2>1 DEF Stands, Looks, Welcome, Ahead
  <2>3. \A b \in Selectable(r) : /\ q.calm => Covered(b, q.looked)
                                 /\ <<q.who, b>> \in members
    BY <2>2 DEF Stands, Tells, Selectable
  <2>4. ASSUME NEW b \in Selectable(r) \cup {None}, Admitted(r, b) PROVE Stands(r)'
    <3>1. b # None => /\ q.calm => Covered(b, q.looked)
                      /\ <<q.who, b>> \in members \/ person[q.who].operator
      BY <2>3, <2>4
    <3> QED
      BY <1>2, <2>1, <2>2, <2>4, <3>1, AdmittedStands DEF Quiet
  <2>5. ASSUME End(r, "scope_refused") PROVE Stands(r)'
    BY <2>5, OverStands DEF Outcome
  <2>6. ASSUME q.row.operator,
               request' = [request EXCEPT ![r] =
                    [@ EXCEPT !.pc = "best", !.at = q.asked, !.bypass = TRUE, !.looked = clock]]
        PROVE  Stands(r)'
    <3>1. n = [q EXCEPT !.pc = "best", !.at = q.asked, !.bypass = TRUE, !.looked = clock]
      BY <2>6, TypeIs DEF AllFormed, n
    <3>2. /\ n.pc = "best" /\ n.bypass = TRUE /\ n.who = q.who /\ n.now = q.now /\ n.row = q.row
          /\ n.found = q.found /\ n.scope = q.scope /\ n.calm = q.calm
      BY <1>1, <3>1 DEF RequestState
    <3>3. q.scope = None /\ q.row.operator /\ (q.row.operator => person[q.who].operator)
      BY <2>1, <2>6 DEF Stands, Served, Looks
    <3>4. Seeded(r)' /\ Provided(r)'
      BY <1>2, <1>3, <2>1, <3>2
      DEF n, Quiet, Stands, Seeded, Provided, Seeding, AtDoor, Providing, registry
    <3>5. Looks(r)'
      BY <1>2, <2>1, <3>2, <3>3, NoneIsNoValue DEF n, Quiet, Looks
    <3>6. Tells(r)'
      BY <1>2, <1>3, <2>1, <3>2 DEF n, Quiet, Stands, Tells, registry
    <3>7. Welcome(r)' /\ Served(r)'
      BY <2>2, <3>2, <3>3 DEF n, Welcome, Served, Selectable
    <3> QED
      BY <3>4, <3>5, <3>6, <3>7 DEF Stands
  <2>7. \/ \E b \in Selectable(r) \cup {None} : Admitted(r, b)
        \/ End(r, "scope_refused")
        \/ /\ q.row.operator
           /\ request' = [request EXCEPT ![r] =
                    [@ EXCEPT !.pc = "best", !.at = q.asked, !.bypass = TRUE, !.looked = clock]]
    BY <1>10 DEF ResolveScope, FirstAdmissible
  <2> QED
    BY <2>4, <2>5, <2>6, <2>7
<1> QED
  BY <1>4, <1>5, <1>6, <1>7, <1>8, <1>9, <1>10

\* A step of a provisioning does, and it makes its business one that is usable.
LEMMA ProvisionStands ==
    ASSUME TypeOK, MembershipIsUsable, NEW r \in Request, Stands(r), ProvisionBusiness(r)
    PROVE  Grows /\ MembershipIsUsable' /\ Stands(r)' /\ \A q \in Request \ {r} : Left(q)
<1> DEFINE w == request[r].who
           Goal == Grows /\ MembershipIsUsable' /\ Stands(r)' /\ \A q \in Request \ {r} : Left(q)
<1>1. Tables /\ request[r] \in RequestState /\ r # Platform
  BY StandsFor, TypeIs, IdsAreMinted
<1>2. ASSUME Grows, NEW pc \in {"provision", "draft", "write"}, MovedTo(r, pc),
             request[r].pc \in {"register", "provision", "draft"}
      PROVE  Looks(r)' /\ Tells(r)' /\ Welcome(r)' /\ Served(r)'
  BY <1>2, MovedStands DEF Anywhere, Outcome, Providing
<1> HIDE DEF Goal
<1>3. ASSUME NEW p \in Person, AskProvision(r, p) PROVE Goal
  <2> DEFINE a == [Idle EXCEPT !.pc = "register", !.who = p, !.now = clock, !.looked = clock]
             n == request'[r]
  <2>1. /\ request' = [request EXCEPT ![r] = a] /\ UNCHANGED <<time, person, registry, grants>>
        /\ request[r].pc = "idle" /\ person[p].known
    BY <1>3 DEF AskProvision, FirstStep, At
  <2>2. Grows /\ MembershipIsUsable' /\ (\A q \in Request \ {r} : Left(q)) /\ n = a
    <3> HIDE DEF a
    <3> QED
      BY <2>1, ReadsOnly
  <2>3. /\ n.pc = "register" /\ n.who = p /\ n.now = n.looked /\ n.found = {}
        /\ n.scope = None /\ n.bypass = FALSE /\ n.row = NoRow
    BY <2>2 DEF Idle
  <2>4. NoRow.operator = FALSE /\ grants[r] = None /\ \A m \in members : m[2] # r
    BY <2>1 DEF Stands, Provided, NoRow
  <2> HIDE DEF a, n
  <2>5. Seeded(r)'
    BY <2>3 DEF n, Seeded, Seeding, AtDoor
  <2>6. Provided(r)'
    BY <2>1, <2>3, <2>4 DEF n, Provided, Seeding, Providing, registry
  <2>7. Looks(r)' /\ Tells(r)' /\ Welcome(r)' /\ Served(r)'
    BY <2>3, <2>4 DEF n, Looks, Tells, Welcome, Served
  <2> QED
    BY <2>2, <2>5, <2>6, <2>7 DEF Goal, Stands
<1>4. CASE Register(r)
  <2>1. /\ Step(r, "provision") /\ request[r].pc = "register" /\ tenants' = tenants \cup {r}
        /\ UNCHANGED <<person, owned, members, grants>>
    BY <1>4 DEF Register, At
  <2>2. Grows
    BY <2>1 DEF Grows
  <2>3. MembershipIsUsable'
    BY <2>1, <2>2, MembersKept
  <2>4. MovedTo(r, "provision")
    BY <2>1, MovedFields
  <2>5. Seeded(r)' /\ Provided(r)'
    BY <2>1, <2>4 DEF MovedTo, Stands, Seeded, Provided, Seeding, AtDoor, Providing
  <2>6. \A q \in Request \ {r} : Left(q)
    BY <2>1, OneLeaves DEF Step
  <2> QED
    BY <1>2, <2>1, <2>2, <2>3, <2>4, <2>5, <2>6 DEF Goal, Stands
<1>5. CASE Provision(r)
  <2>1. PICK ends \in {dates[2] : dates \in Dates} :
            grants' = [grants EXCEPT ![r] =
                [business |-> r, personal |-> FALSE, starts |-> request[r].now, ends |-> ends,
                 active |-> TRUE]]
    BY <1>5 DEF Provision
  <2> DEFINE g == [business |-> r, personal |-> FALSE, starts |-> request[r].now, ends |-> ends,
                   active |-> TRUE]
  <2>2. /\ request[r].pc = "provision" /\ UNCHANGED <<person, tenants>>
        /\ owned' = [owned EXCEPT ![r] = w] /\ members' = members \cup {<<w, r>>}
        /\ request' = [Stirred({r}) EXCEPT ![r].pc = "draft"]
    BY <1>5 DEF Provision, At
  <2>3. /\ w \in Person /\ person[w].known /\ r \in tenants /\ grants[r] = None
        /\ \A m \in members : m[2] # r
    BY <2>2, StandsFor DEF Stands, Provided, Providing, Outcome
  <2>4. g \in Grant /\ g.business = r
    BY <1>1, DatesAreTimes DEF Grant, Business, RequestState
  <2> HIDE DEF g
  <2>5. /\ grants'[r] = g /\ g # None /\ r \in GrantId
        /\ \A h \in GrantId : h # r => grants'[h] = grants[h]
    BY <1>1, <2>1, <2>4, NoneIsNoValue DEF Tables, GrantId, g
  <2>6. /\ owned'[r] = w
        /\ \A b \in Business : b # r => owned'[b] = owned[b]
    BY <1>1, <2>2 DEF Tables, Business
  <2>7. \A m \in members : m[2] \in Business
    BY <1>1 DEF Tables
  <2>8. Grows
    BY <2>2, <2>3, <2>5, <2>6, <2>7 DEF Grows
  <2>9. \A m \in members' \ members : m = <<w, r>>
    BY <2>2
  <2>10. MembershipIsUsable'
    BY <2>2, <2>3, <2>4, <2>5, <2>6, <2>8, <2>9, MembersKept
  <2>11. MovedTo(r, "draft")
    BY <2>2, MovedFields
  <2>12. Seeded(r)' /\ Provided(r)'
    BY <2>11 DEF MovedTo, Seeded, Provided, Seeding, AtDoor, Providing
  <2>13. \A q \in Request \ {r} : Left(q)
    <3>1. grants' = [grants EXCEPT ![r] = g]
      BY <2>1 DEF g
    <3>2. \A m \in members' \ members : m[2] \in {Platform, r}
      BY <2>9
    <3> QED
      BY <2>2, <3>1, <3>2, GrantLeaves
  <2> QED
    BY <1>2, <2>2, <2>8, <2>10, <2>11, <2>12, <2>13 DEF Goal, Stands
<1>6. CASE CreateDraft(r)
  <2>1. Step(r, "write") /\ request[r].pc = "draft" /\ UNCHANGED <<person, tenants, owned, members, grants>>
    BY <1>6 DEF CreateDraft, At
  <2>2. Grows
    BY <2>1 DEF Grows
  <2>3. MembershipIsUsable'
    BY <2>1, <2>2, MembersKept
  <2>4. MovedTo(r, "write")
    BY <2>1, MovedFields
  <2>5. Seeded(r)' /\ Provided(r)'
    BY <2>4 DEF MovedTo, Seeded, Provided, Seeding, AtDoor, Providing
  <2>6. \A q \in Request \ {r} : Left(q)
    BY <2>1, OneLeaves DEF Step
  <2> QED
    BY <1>2, <2>1, <2>2, <2>3, <2>4, <2>5, <2>6 DEF Goal, Stands
<1>7. CASE WriteStarter(r)
  <2>1. End(r, "provisioned") /\ UNCHANGED <<person, tenants, owned, members, grants>>
    BY <1>7 DEF WriteStarter
  <2>2. Grows
    BY <2>1 DEF Grows
  <2>3. MembershipIsUsable'
    BY <2>1, <2>2, MembersKept
  <2>4. Stands(r)'
    BY <2>1, OverStands DEF Outcome
  <2>5. \A q \in Request \ {r} : Left(q)
    BY <2>1, OneLeaves DEF End
  <2> QED
    BY <2>2, <2>3, <2>4, <2>5 DEF Goal
<1> QED
  BY <1>3, <1>4, <1>5, <1>6, <1>7 DEF ProvisionBusiness, Goal

\* What the operator and the clock do leaves every request.
LEMMA OperateStands ==
    ASSUME TypeOK, MembershipIsUsable, Operate \/ Tick
    PROVE  Grows /\ MembershipIsUsable' /\ \A q \in Request : Left(q)
<1> DEFINE Goal == Grows /\ MembershipIsUsable' /\ \A q \in Request : Left(q)
<1>1. Tables
  BY TypeIs
<1>2. ASSUME Grows, UNCHANGED members PROVE MembershipIsUsable'
  BY <1>2, MembersKept
<1>3. ASSUME UNCHANGED <<registry, grants, request>> PROVE \A q \in Request : Left(q)
  BY <1>3 DEF Left, registry
<1>4. ASSUME request' = Stirred({}), UNCHANGED registry,
             \A q \in Request : grants[q] = None => grants'[q] = None
      PROVE  \A q \in Request : Left(q)
  <2>1. ASSUME NEW q \in Request
        PROVE  \/ At(q, "idle") /\ request'[q] = request[q]
               \/ At(q, "admitted") /\ request'[q] = [Over("admitted", q) EXCEPT !.calm = FALSE]
               \/ ~At(q, "admitted") /\ ~At(q, "idle") /\ request'[q] = [request[q] EXCEPT !.calm = FALSE]
    BY <1>4 DEF Stirred, At
  <2> QED
    BY <1>4, <2>1 DEF Left, registry
<1> HIDE DEF Goal
<1>5. CASE Tick
  <2>1. UNCHANGED <<person, registry, grants, request>>
    BY <1>5 DEF Tick
  <2>2. Grows
    BY <2>1, QuietGrows
  <2> QED
    BY <1>2, <1>3, <2>1, <2>2 DEF Goal, registry
<1>6. ASSUME NEW p \in Person, Invited(p) \/ SetPersonStatus(p) PROVE Goal
  <2>1. /\ UNCHANGED <<registry, grants, request>>
        /\ \/ person' = [person EXCEPT ![p] = [person[p] EXCEPT !.known = TRUE]]
           \/ person' = [person EXCEPT ![p] = [person[p] EXCEPT !.active = ~person[p].active]]
    BY <1>6 DEF Invited, SetPersonStatus
  <2>2. /\ person[p] \in PersonRow
        /\ person[p].known => person'[p].known
        /\ person[p].operator => person'[p].operator
        /\ \A o \in Person : o # p => person'[o] = person[o]
    BY <1>1, <2>1 DEF Tables, PersonRow
  <2>3. Grows
    BY <2>1, <2>2, QuietGrows
  <2> QED
    BY <1>2, <1>3, <2>1, <2>3 DEF Goal, registry
<1>7. ASSUME NEW g \in GrantId, NEW h \in Grant, grants' = [grants EXCEPT ![g] = h],
             grants[g] # None => h.business = grants[g].business,
             g \in Request => grants[g] # None,
             UNCHANGED <<person, registry>>, request' = Stirred({})
      PROVE  Goal
  <2>1. grants'[g] = h /\ h # None /\ \A k \in GrantId : k # g => grants'[k] = grants[k]
    BY <1>1, <1>7, NoneIsNoValue DEF Tables
  <2>2. Grows
    BY <1>7, <2>1 DEF Grows, registry
  <2>3. \A q \in Request : grants[q] = None => grants'[q] = None
    BY <1>7, <2>1 DEF GrantId
  <2> QED
    BY <1>2, <1>4, <1>7, <2>2, <2>3 DEF Goal, registry
<1>8. ASSUME NEW g \in Slot, NEW b \in Business, NEW personal \in BOOLEAN, NEW dates \in Dates,
             OpenGrant(g, b, personal, dates)
      PROVE  Goal
  <2> DEFINE h == [business |-> b, personal |-> personal, starts |-> dates[1], ends |-> dates[2],
                   active |-> TRUE]
  <2>1. h \in Grant
    BY DatesAreTimes DEF Grant
  <2>2. /\ grants' = [grants EXCEPT ![g] = h] /\ grants[g] = None
        /\ UNCHANGED <<person, registry>> /\ request' = Stirred({})
    BY <1>8 DEF OpenGrant
  <2>3. g \in GrantId /\ g \notin Request
    BY IdsAreMinted DEF GrantId
  <2> HIDE DEF h
  <2> QED
    BY <1>7, <2>1, <2>2, <2>3
<1>9. ASSUME NEW g \in GrantId, RevokeGrant(g) PROVE Goal
  <2> DEFINE h == [grants[g] EXCEPT !.active = FALSE]
  <2>1. /\ grants' = [grants EXCEPT ![g] = h] /\ grants[g] # None
        /\ UNCHANGED <<person, registry>> /\ request' = Stirred({})
    BY <1>9 DEF RevokeGrant
  <2>2. grants[g] \in Grant
    BY <1>1, <2>1 DEF Tables
  <2>3. h \in Grant /\ h.business = grants[g].business
    BY <2>2 DEF Grant
  <2> HIDE DEF h
  <2> QED
    BY <1>7, <2>1, <2>3
<1> QED
  BY <1>5, <1>6, <1>8, <1>9 DEF Operate, Goal

-----------------------------------------------------------------------------
(* Every state that is reached.                                             *)

\* At first nobody has come, and no grant or membership is there.
LEMMA InitStands == Init => AdmissionInv
<1> SUFFICES ASSUME Init PROVE AdmissionInv
  OBVIOUS
<1>1. TypeOK
  BY InitIsTyped
<1>2. MembershipIsUsable
  BY DEF Init, MembershipIsUsable
<1>3. ASSUME NEW r \in Request PROVE Stands(r)
  <2>1. request[r] = Idle /\ grants[r] = None /\ members = {}
    BY DEF Init, GrantId
  <2>2. Idle.pc = "idle" /\ Idle.found = {} /\ Idle.scope = None /\ Idle.bypass = FALSE
        /\ Idle.row.operator = FALSE /\ Idle.looked = Idle.now
    BY DEF Idle, NoRow
  <2>3. Seeded(r) /\ Provided(r) /\ Looks(r) /\ Tells(r) /\ Welcome(r) /\ Served(r)
    BY <2>1, <2>2 DEF Seeded, Provided, Looks, Tells, Welcome, Served, Seeding, AtDoor, Providing
  <2> QED
    BY <2>3 DEF Stands
<1> QED
  BY <1>1, <1>2, <1>3 DEF AdmissionInv

\* Whoever steps, every request stands.
LEMMA StepStands == AdmissionInv /\ [Next]_vars => AdmissionInv'
<1> SUFFICES ASSUME AdmissionInv, [Next]_vars PROVE AdmissionInv'
  OBVIOUS
<1>1. TypeOK /\ TypeOK' /\ MembershipIsUsable /\ \A r \in Request : Stands(r)
  BY NextIsTyped DEF AdmissionInv
<1>2. CASE UNCHANGED vars
  <2>1. Grows /\ \A q \in Request : Left(q)
    BY <1>2 DEF vars, Grows, Left
  <2>2. MembershipIsUsable'
    BY <1>1, <1>2, <2>1, MembersKept DEF vars
  <2> QED
    BY <1>1, <2>1, <2>2, OthersStand DEF AdmissionInv
<1>3. CASE Tick \/ Operate
  <2>1. Grows /\ MembershipIsUsable' /\ \A q \in Request : Left(q)
    BY <1>1, <1>3, OperateStands
  <2> QED
    BY <1>1, <2>1, OthersStand DEF AdmissionInv
<1>4. ASSUME NEW r \in Request, Admit(r) \/ ProvisionBusiness(r) \/ Stop(r)
      PROVE  AdmissionInv'
  <2>1. Grows /\ MembershipIsUsable' /\ Stands(r)' /\ \A q \in Request \ {r} : Left(q)
    <3>1. CASE Seed(r)
      BY <1>1, <3>1, SeedStands
    <3>2. CASE ProvisionBusiness(r)
      BY <1>1, <3>2, ProvisionStands
    <3>3. CASE Stop(r)
      <4>1. End(r, "gone") /\ UNCHANGED <<time, person, registry, grants>>
        BY <3>3 DEF Stop
      <4>2. Stands(r)'
        BY <1>1, <4>1, OverStands DEF Outcome
      <4> QED
        BY <1>1, <4>1, <4>2, ReadsOnly DEF End
    <3>4. CASE Admit(r) /\ ~Seed(r)
      BY <1>1, <3>4, DoorStands DEF Admit
    <3> QED
      BY <1>4, <3>1, <3>2, <3>3, <3>4
  <2>2. \A q \in Request \ {r} : Stands(q)'
    BY <1>1, <2>1, OthersStand
  <2> QED
    BY <1>1, <2>1, <2>2 DEF AdmissionInv
<1> QED
  BY <1>2, <1>3, <1>4 DEF Next

\* The invariant is one.
THEOREM AdmissionInvariant == Spec => []AdmissionInv
<1> QED
  BY InitStands, StepStands, PTL DEF Spec

\* Whoever is a member is a person with a row, of a registered business that has
\* an owner and a grant, wherever provisionings and seedings stop.
THEOREM MembersAreUsable == Spec => []MembershipIsUsable
<1>1. AdmissionInv => MembershipIsUsable
  BY DEF AdmissionInv
<1> QED
  BY <1>1, AdmissionInvariant, PTL

\* Who PLATFORM_ADMINS names is never refused for want of a row or a membership,
\* and finds the platform's business open unless a grant changed meanwhile.
THEOREM HoldersReachIt == Spec => []HolderReachesPlatform
<1>1. AdmissionInv => HolderReachesPlatform
  <2> SUFFICES ASSUME AdmissionInv, NEW r \in Request, request[r].who \in Holder
               PROVE  /\ request[r].pc \notin {"no_user", "no_membership"}
                      /\ At(r, "admitted") /\ request[r].calm =>
                            Platform \in {e.business : e \in {f \in request[r].found : f.lapse = None}}
    BY DEF HolderReachesPlatform
  <2>1. Welcome(r)
    BY DEF AdmissionInv, Stands
  <2> QED
    BY <2>1 DEF Welcome, Selectable, Ahead, At
<1> QED
  BY <1>1, AdmissionInvariant, PTL

\* A scope that a request is served is open, and its caller's or asked for by
\* the host.
THEOREM ScopesAreOpen == Spec => []ScopeIsOpen
<1>1. AdmissionInv => ScopeIsOpen
  BY DEF AdmissionInv, Stands, Served, ScopeIsOpen
<1> QED
  BY <1>1, AdmissionInvariant, PTL

\* What an admission tells of a business is so, before its instant and after.
THEOREM LapsesForetell == Spec => []LapseForetells
<1>1. AdmissionInv => LapseForetells
  <2> SUFFICES ASSUME AdmissionInv, NEW r \in Request, NEW e \in request[r].found,
                      request[r].calm, WellDated(e.business)
               PROVE  Foretold(e, request[r].now)
    BY DEF LapseForetells
  <2>1. TypeOK /\ Tells(r)
    BY DEF AdmissionInv, Stands
  <2>2. e.business \in Business /\ request[r].now \in Time
    BY <2>1, StandsFor DEF RequestState, Entry
  <2>3. CASE e.lapse = None
    BY <2>1, <2>3, NoneIsNoValue DEF Tells, Foretold, Reason
  <2>4. CASE e.lapse # None
    <3>1. ~Covered(e.business, request[r].now) /\ e = LapsedEntry(e.business, request[r].now)
      BY <2>1, <2>4 DEF Tells
    <3>2. Foretold(LapsedEntry(e.business, request[r].now), request[r].now)
      BY <2>1, <2>2, <3>1, LapseIsForetold
    <3> QED
      BY <3>1, <3>2, Zenon
  <2> QED
    BY <2>3, <2>4
<1> QED
  BY <1>1, AdmissionInvariant, PTL

=============================================================================
