------------------------------- MODULE Admission -------------------------------
(***************************************************************************)
(* Who is let in, and into what: admit, ensurePlatformOperator,            *)
(* businessesFor, lapseFor and provisionBusiness (control-app              *)
(* src/identity.ts), resolveScope (scope.ts), and the operator's openGrant,*)
(* revokeGrant and setPersonStatus (people.ts), over D1.                   *)
(*                                                                         *)
(* A request is a string of awaits, and other requests, the clock and the  *)
(* operator come in between.  What a request calls `now` is the instant it *)
(* began at: admit and ensurePlatformOperator each read a clock that does  *)
(* not move until the Worker awaits.                                       *)
(*                                                                         *)
(* No code deactivates a business or ends a membership, so the conditions  *)
(* on them always hold and are left out.  An account and its one person    *)
(* are the same value.                                                     *)
(***************************************************************************)
EXTENDS Absence, Naturals, FiniteSets

CONSTANTS
    Request,   \* admissions and provisionings
    Person,
    Holder,    \* the persons PLATFORM_ADMINS names
    Platform,  \* the platform's own business
    Slot,      \* the grants that an operator may open
    Dates,     \* the starts and ends an operator may give them
    MaxTime,   \* bound: the last instant
    MaxActs    \* bound: what the operator does

ASSUME HoldersArePersons == Holder \subseteq Person
ASSUME BoundsAreNat == MaxTime \in Nat \ {0} /\ MaxActs \in Nat

Time == 1..MaxTime

ASSUME DatesAreTimes == Dates \subseteq Time \X (Time \cup {None})

Business == Request \cup {Platform}   \* a business's id is minted by its provisioning
GrantId == Request \cup Slot

ASSUME IdsAreMinted == Platform \notin Request /\ Slot \cap Request = {}

VARIABLES
    clock,     \* the instant
    acts,      \* what the operator has done, counted
    person,    \* person -> whether there is a row, and what it allows
    tenants,   \* the registered businesses
    owned,     \* business -> the account it belongs to, or None
    members,   \* the memberships
    grants,    \* id -> a grant, or None
    site,      \* business -> its starter site
    request    \* the local state of each request

vars == <<clock, acts, person, tenants, owned, members, grants, site, request>>
time == <<clock, acts>>
registry == <<tenants, owned, members, site>>

PersonRow == [known: BOOLEAN, active: BOOLEAN, operator: BOOLEAN]

Grant == [business: Business, personal: BOOLEAN,   \* personal: it names an account
          starts: Time, ends: Time \cup {None}, active: BOOLEAN]

Reason == {"never_granted", "not_yet", "expired", "revoked"}

ASSUME NoneIsNoValue == None \notin Person \cup Business \cup Reason /\ None \notin Nat /\ None \notin Grant

\* A business of the admissible set: selectable, or lapsed for a reason.
Entry == [business: Business, lapse: Reason \cup {None}, ended: Time \cup {None}]

Outcome == {"admitted", "no_user", "user_inactive", "no_membership", "scope_refused",
            "provisioned", "failed", "gone"}

RequestState ==
    [pc: Outcome \cup
         {"idle", "tenant", "find", "person", "operator", "member", "grant", "user", "stamp",
          "businesses", "best", "lapse", "scope", "register", "provision", "draft", "write"},
     who: Person \cup {None}, now: Time,
     looked: Time,                      \* the instant of the look at its scope
     asked: Business \cup {None},       \* the business the request names
     row: PersonRow,                    \* the person as admit read them
     bypass: BOOLEAN,                   \* the look at a business is the host's
     todo: SUBSET Business, at: Business \cup {None}, found: SUBSET Entry,
     scope: Business \cup {None},
     calm: BOOLEAN]                     \* no other wrote a grant since it began

NoRow == [known |-> FALSE, active |-> TRUE, operator |-> FALSE]

Idle == [pc |-> "idle", who |-> None, now |-> 1, looked |-> 1, asked |-> None, row |-> NoRow,
         bypass |-> FALSE, todo |-> {}, at |-> None, found |-> {}, scope |-> None, calm |-> TRUE]

\* Rows and requests keep their shapes; a request under way is somebody's, a
\* business is looked at while one is to be, and an end is told of an expired
\* one alone.
TypeOK ==
    /\ clock \in Time
    /\ acts \in 0..MaxActs
    /\ person \in [Person -> PersonRow]
    /\ tenants \in SUBSET Business
    /\ owned \in [Business -> Person \cup {None}]
    /\ members \in SUBSET (Person \X Business)
    /\ grants \in [GrantId -> Grant \cup {None}]
    /\ site \in [Business -> {"none", "empty", "starter"}]
    /\ request \in [Request -> RequestState]
    /\ \A r \in Request :
          /\ request[r].now <= request[r].looked /\ request[r].looked <= clock
          /\ request[r].pc \notin Outcome \cup {"idle"} => request[r].who # None
          /\ (request[r].at # None) = (request[r].pc \in {"best", "lapse"})
          /\ \A e \in request[r].found : (e.ended # None) = (e.lapse = "expired")

\* An empty database, or one that was seeded; people who were invited or not.
Init ==
    /\ clock = 1
    /\ acts = 0
    /\ person \in [Person -> {NoRow, [NoRow EXCEPT !.known = TRUE]}]
    /\ tenants \in {{}, {Platform}}
    /\ owned = [b \in Business |-> None]
    /\ members = {}
    /\ grants = [g \in GrantId |-> None]
    /\ site = [b \in Business |-> "none"]
    /\ request = [r \in Request |-> Idle]

At(r, pc) == request[r].pc = pc

Step(r, pc) == request' = [request EXCEPT ![r].pc = pc]

Over(outcome, r) == [Idle EXCEPT !.pc = outcome, !.who = request[r].who]

End(r, outcome) == request' = [request EXCEPT ![r] = Over(outcome, r)]

-----------------------------------------------------------------------------
(* Grants.                                                                  *)

Capacity(b) == {g \in GrantId : grants[g] # None /\ grants[g].business = b /\ ~grants[g].personal}

Covers(g, now) == g.active /\ g.starts <= now /\ (g.ends = None \/ g.ends > now)

\* bestActiveGrant finds one.
Covered(b, now) == \E g \in Capacity(b) : Covers(grants[g], now)

\* Mutant: a grant that has not started is no news.
LapseUnstarted(b, now) ==
    IF Capacity(b) = {} THEN "never_granted"
    ELSE IF \E g \in Capacity(b) : grants[g].active /\ grants[g].ends # None
                                   /\ grants[g].ends <= now THEN "expired"
    ELSE IF \E g \in Capacity(b) : grants[g].active /\ grants[g].starts > now THEN "not_yet"
    ELSE "revoked"

\* lapseFor.
Lapse(b, now) ==
    LET active == {g \in Capacity(b) : grants[g].active}
    IN  IF Capacity(b) = {} THEN "never_granted"
        ELSE IF \E g \in active : grants[g].starts > now THEN "not_yet"
        ELSE IF \E g \in active : grants[g].ends # None /\ grants[g].ends <= now THEN "expired"
        ELSE "revoked"

\* The latest end of a grant that has ended.
EndedAt(b, now) ==
    LET ends == {grants[g].ends : g \in {h \in Capacity(b) : grants[h].active}}
    IN  CHOOSE e \in ends \ {None} : e <= now /\ \A f \in ends \ {None} : f <= now => f <= e

\* What is told of a business without a covering grant.
LapsedEntry(b, now) ==
    [business |-> b, lapse |-> Lapse(b, now),
     ended |-> IF Lapse(b, now) = "expired" THEN EndedAt(b, now) ELSE None]

-----------------------------------------------------------------------------
(* The operator's console, and time.                                        *)

Tick ==
    /\ clock < MaxTime
    /\ clock' = clock + 1
    /\ UNCHANGED <<acts, person, registry, grants, request>>

Acts == acts < MaxActs /\ acts' = acts + 1

\* An invite: the person has a row.
Invited(p) ==
    /\ Acts
    /\ ~person[p].known
    /\ person' = [person EXCEPT ![p].known = TRUE]
    /\ UNCHANGED <<clock, registry, grants, request>>

SetPersonStatus(p) ==
    /\ Acts
    /\ person[p].known
    /\ person' = [person EXCEPT ![p].active = ~@]
    /\ UNCHANGED <<clock, registry, grants, request>>

\* Every request under way but those of `but` sees the grants change.
Stirred(but) == [r \in Request |->
    IF request[r].pc = "idle" \/ r \in but THEN request[r]
    ELSE IF At(r, "admitted") THEN [Over("admitted", r) EXCEPT !.calm = FALSE]
    ELSE [request[r] EXCEPT !.calm = FALSE]]

\* The route looks for the business among those of the console; the dates are
\* what the operator typed.
OpenGrant(g, b, personal, dates) ==
    /\ Acts
    /\ grants[g] = None
    /\ b \in tenants
    /\ grants' = [grants EXCEPT ![g] =
           [business |-> b, personal |-> personal, starts |-> dates[1], ends |-> dates[2],
            active |-> TRUE]]
    /\ request' = Stirred({})
    /\ UNCHANGED <<clock, person, registry>>

RevokeGrant(g) ==
    /\ Acts
    /\ grants[g] # None
    /\ grants[g].active
    /\ grants' = [grants EXCEPT ![g].active = FALSE]
    /\ request' = Stirred({})
    /\ UNCHANGED <<clock, person, registry>>

-----------------------------------------------------------------------------
(* admit.                                                                   *)

\* Somebody comes to the door, asking for a business or for none.
AskAdmit(r, p, asked) ==
    /\ At(r, "idle")
    /\ request' = [request EXCEPT ![r] =
           [Idle EXCEPT !.pc = IF p \in Holder THEN "tenant" ELSE "user",
                        !.who = p, !.now = clock, !.looked = clock, !.asked = asked]]
    /\ UNCHANGED <<time, person, registry, grants>>

\* ensurePlatformOperator: the business ...
SeedTenant(r) ==
    /\ At(r, "tenant")
    /\ tenants' = tenants \cup {Platform}
    /\ Step(r, "find")
    /\ UNCHANGED <<time, person, owned, members, grants, site>>

\* Mutant: who has a row has the rest.
AfterFindAll(known) == IF known THEN "user" ELSE "person"

AfterFind(known) == IF known THEN "operator" ELSE "person"

\* ... the person, who may have a row ...
SeedFind(r) ==
    /\ At(r, "find")
    /\ Step(r, AfterFind(person[request[r].who].known))
    /\ UNCHANGED <<time, person, registry, grants>>

SeedPerson(r) ==
    /\ At(r, "person")
    /\ ~person[request[r].who].known
    /\ person' = [person EXCEPT ![request[r].who] =
           [known |-> TRUE, active |-> TRUE, operator |-> TRUE]]
    /\ Step(r, "operator")
    /\ UNCHANGED <<time, registry, grants>>

\* ... or was given one meanwhile: the batch throws ...
SeedPersonConflicts(r) ==
    /\ At(r, "person")
    /\ person[request[r].who].known
    /\ End(r, "failed")
    /\ UNCHANGED <<time, person, registry, grants>>

\* ... the hosting half, for whoever had a row without it ...
SeedOperator(r) ==
    /\ At(r, "operator")
    /\ person' = [person EXCEPT ![request[r].who].operator = TRUE]
    /\ Step(r, "member")
    /\ UNCHANGED <<time, registry, grants>>

\* ... the ownership half, unless it is there ...
SeedMember(r) ==
    /\ At(r, "member")
    /\ members' = members \cup {<<request[r].who, Platform>>}
    /\ Step(r, "grant")
    /\ UNCHANGED <<time, person, tenants, owned, grants, site>>

\* ... and the grant, unless one covers the business.
SeedGrant(r) ==
    /\ At(r, "grant")
    /\ IF Covered(Platform, request[r].now)
       THEN /\ Step(r, "user")
            /\ UNCHANGED grants
       ELSE /\ grants' = [grants EXCEPT ![r] =
                   [business |-> Platform, personal |-> FALSE, starts |-> request[r].now,
                    ends |-> None, active |-> TRUE]]
            /\ request' = [Stirred({r}) EXCEPT ![r].pc = "user"]
    /\ UNCHANGED <<time, person, registry>>

FindUser(r) ==
    /\ At(r, "user")
    /\ LET row == person[request[r].who]
       IN  IF row.known
           THEN request' = [request EXCEPT ![r] = [@ EXCEPT !.pc = "stamp", !.row = row]]
           ELSE End(r, "no_user")
    /\ UNCHANGED <<time, person, registry, grants>>

\* The visit is stamped, and then the status looked at that was read before.
Stamp(r) ==
    /\ At(r, "stamp")
    /\ IF request[r].row.active THEN Step(r, "businesses") ELSE End(r, "user_inactive")
    /\ UNCHANGED <<time, person, registry, grants>>

\* businessesFor: the memberships, joined with the registry.
FindBusinesses(r) ==
    /\ At(r, "businesses")
    /\ LET mine == {b \in tenants : <<request[r].who, b>> \in members}
       IN  IF mine = {} THEN End(r, "no_membership")
           ELSE \E b \in mine :
                   request' = [request EXCEPT ![r] =
                       [@ EXCEPT !.pc = "best", !.at = b, !.todo = mine \ {b}]]
    /\ UNCHANGED <<time, person, registry, grants>>

\* The entry of the business under look is made, and the next one looked at.
Found(r, entry) ==
    LET state == [request[r] EXCEPT !.found = @ \cup {entry}]
    IN  IF state.todo = {}
        THEN request' = [request EXCEPT ![r] = [state EXCEPT !.pc = "scope", !.at = None]]
        ELSE \E b \in state.todo :
                request' = [request EXCEPT ![r] =
                    [state EXCEPT !.pc = "best", !.at = b, !.todo = @ \ {b}]]

Admitted(r, scope) == request' = [request EXCEPT ![r] =
    [Idle EXCEPT !.pc = "admitted", !.who = request[r].who, !.now = request[r].now,
                 !.looked = request[r].looked, !.found = request[r].found, !.scope = scope,
                 !.calm = request[r].calm]]

\* admittedBusiness: its best grant ...
BestGrant(r) ==
    /\ At(r, "best")
    /\ LET b == request[r].at
       IN  IF ~Covered(b, request[r].looked) THEN Step(r, "lapse")
           ELSE IF request[r].bypass THEN Admitted(r, b)
           ELSE Found(r, [business |-> b, lapse |-> None, ended |-> None])
    /\ UNCHANGED <<time, person, registry, grants>>

\* ... and, of one that has none, why.
WhyLapsed(r) ==
    /\ At(r, "lapse")
    /\ IF request[r].bypass THEN End(r, "scope_refused")
       ELSE Found(r, LapsedEntry(request[r].at, request[r].looked))
    /\ UNCHANGED <<time, person, registry, grants>>

-----------------------------------------------------------------------------
(* resolveScope.                                                            *)

Selectable(r) == {e.business : e \in {f \in request[r].found : f.lapse = None}}

\* Mutant: the first membership wins.
FirstHeld(r) == IF request[r].found = {} THEN {None}
                ELSE {e.business : e \in request[r].found}

\* firstAdmissible, of a list whose order is presentation.
FirstAdmissible(r) == IF Selectable(r) = {} THEN {None} ELSE Selectable(r)

ResolveScope(r) ==
    /\ At(r, "scope")
    /\ LET asked == request[r].asked
       IN  IF asked = None THEN \E b \in FirstAdmissible(r) : Admitted(r, b)
           ELSE IF asked \in Selectable(r) THEN Admitted(r, asked)
           ELSE IF \E e \in request[r].found : e.business = asked THEN End(r, "scope_refused")
           ELSE IF request[r].row.operator /\ asked \in tenants
           THEN request' = [request EXCEPT ![r] =     \* admissibleBusiness, with its own now
                    [@ EXCEPT !.pc = "best", !.at = asked, !.bypass = TRUE, !.looked = clock]]
           ELSE End(r, "scope_refused")
    /\ UNCHANGED <<time, person, registry, grants>>

-----------------------------------------------------------------------------
(* provisionBusiness.                                                       *)

\* Mutant: the rows that belong to the business go first.
BatchFirst == "provision"

FirstStep == "register"

\* The account is there, and its person.
AskProvision(r, p) ==
    /\ At(r, "idle")
    /\ person[p].known
    /\ request' = [request EXCEPT ![r] =
           [Idle EXCEPT !.pc = FirstStep, !.who = p, !.now = clock, !.looked = clock]]
    /\ UNCHANGED <<time, person, registry, grants>>

Register(r) ==
    /\ At(r, "register")
    /\ tenants' = tenants \cup {r}
    /\ Step(r, "provision")
    /\ UNCHANGED <<time, person, owned, members, grants, site>>

\* Owner, membership and capacity grant, in a batch.
Provision(r) ==
    /\ At(r, "provision")
    /\ owned' = [owned EXCEPT ![r] = request[r].who]
    /\ members' = members \cup {<<request[r].who, r>>}
    /\ \E ends \in {dates[2] : dates \in Dates} :
          grants' = [grants EXCEPT ![r] =
              [business |-> r, personal |-> FALSE, starts |-> request[r].now, ends |-> ends,
               active |-> TRUE]]
    /\ request' = [Stirred({r}) EXCEPT ![r].pc = "draft"]
    /\ UNCHANGED <<time, person, tenants, site>>

\* createStarterSite.
CreateDraft(r) ==
    /\ At(r, "draft")
    /\ site' = [site EXCEPT ![r] = "empty"]
    /\ Step(r, "write")
    /\ UNCHANGED <<time, person, tenants, owned, members, grants>>

WriteStarter(r) ==
    /\ At(r, "write")
    /\ site' = [site EXCEPT ![r] = "starter"]
    /\ End(r, "provisioned")
    /\ UNCHANGED <<time, person, tenants, owned, members, grants>>

\* A request stops at an await.
Stop(r) ==
    /\ request[r].pc \notin Outcome \cup {"idle"}
    /\ End(r, "gone")
    /\ UNCHANGED <<time, person, registry, grants>>

-----------------------------------------------------------------------------

Operate ==
    \/ \E p \in Person : Invited(p) \/ SetPersonStatus(p)
    \/ \E g \in Slot, b \in Business, personal \in BOOLEAN, dates \in Dates :
          OpenGrant(g, b, personal, dates)
    \/ \E g \in GrantId : RevokeGrant(g)

Seed(r) == SeedTenant(r) \/ SeedFind(r) \/ SeedPerson(r) \/ SeedPersonConflicts(r)
           \/ SeedOperator(r) \/ SeedMember(r) \/ SeedGrant(r)

Admit(r) ==
    \/ \E p \in Person, asked \in Business \cup {None} : AskAdmit(r, p, asked)
    \/ Seed(r) \/ FindUser(r) \/ Stamp(r) \/ FindBusinesses(r) \/ BestGrant(r) \/ WhyLapsed(r)
    \/ ResolveScope(r)

ProvisionBusiness(r) ==
    \/ \E p \in Person : AskProvision(r, p)
    \/ Register(r) \/ Provision(r) \/ CreateDraft(r) \/ WriteStarter(r)

Next == Tick \/ Operate \/ \E r \in Request : Admit(r) \/ ProvisionBusiness(r) \/ Stop(r)

Spec == Init /\ [][Next]_vars

-----------------------------------------------------------------------------
(* What may be relied upon.                                                *)

\* "A membership pointing at a business the registry has never heard of would be
\* a row that can never be used" (identity.ts): wherever provisionings and
\* seedings stop, who is a member of a business is a person with a row, of a
\* registered business which, unless it is the platform's, has an owner and a
\* grant.
MembershipIsUsable ==
    \A m \in members :
        /\ person[m[1]].known
        /\ m[2] \in tenants
        /\ m[2] # Platform => owned[m[2]] = m[1] /\ m[2] \in {grants[g].business :
                                  g \in {h \in GrantId : grants[h] # None}}

\* PLATFORM_ADMINS "cannot lock its holder out of the system that grants it"
\* (identity.ts): however little an interrupted seeding left, a holder is never
\* refused for want of a row or of a membership, and may enter the platform's
\* business unless a grant changed in between.
HolderReachesPlatform ==
    \A r \in Request : request[r].who \in Holder =>
        /\ request[r].pc \notin {"no_user", "no_membership"}
        /\ At(r, "admitted") /\ request[r].calm =>
              Platform \in {e.business : e \in {f \in request[r].found : f.lapse = None}}

WellDated(b) == \A g \in Capacity(b) : grants[g].ends # None => grants[g].starts < grants[g].ends

Foretold(e, now) ==
    CASE e.lapse = None -> Covered(e.business, now)
      [] e.lapse = "not_yet" -> ~Covered(e.business, now)
                                /\ \E t \in Time : t > now /\ Covered(e.business, t)
      [] e.lapse = "expired" -> /\ e.ended <= now
                                /\ Covered(e.business, e.ended - 1)
                                /\ \A t \in Time : t >= e.ended => ~Covered(e.business, t)
      [] OTHER -> \A t \in Time : ~Covered(e.business, t)

\* "An account holding both is one whose access is COMING BACK", and an end is
\* told as "the date its access actually stopped" (identity.ts, lapseFor): what
\* an admission says of a business is so, at its instant, before and after, as
\* long as grants do not change and end after they start.
LapseForetells ==
    \A r \in Request : \A e \in request[r].found :
        request[r].calm /\ WellDated(e.business)
            => Foretold(e, request[r].now)

\* A request is never served a business whose grant has lapsed, and one it is
\* served is its caller's own or its caller is the host ("the target is
\* authorised against the set", scope.ts).
ScopeIsOpen ==
    \A r \in Request : request[r].scope # None =>
        /\ request[r].calm => Covered(request[r].scope, request[r].looked)
        /\ \/ <<request[r].who, request[r].scope>> \in members
           \/ person[request[r].who].operator

-----------------------------------------------------------------------------
(* What comments say and the code does not keep.                           *)

\* "Cannot lock its holder out of the system that grants it" (identity.ts).
HolderIsNotLockedOut ==
    \A r \in Request : request[r].who \in Holder => request[r].pc # "user_inactive"

\* "EVERYTHING A BUSINESS IS" (identity.ts, provisionBusiness): a registered
\* business that no provisioning is at work on has an owner.
BusinessHasAnOwner ==
    \A b \in tenants \ {Platform} : owned[b] # None \/ At(b, "provision")

=============================================================================
