------------------------------- MODULE Material -------------------------------
(***************************************************************************)
(* The client's material: files that are uploaded and placed on a site     *)
(* (control-app src/material.ts), captured sites that are adopted as       *)
(* references (src/capture-material.ts), and the two indexes that every    *)
(* write of either refreshes (src/knowledge.ts), of one tenant.            *)
(*                                                                         *)
(* Requests overlap at every await, and each may fail or be cut off at any *)
(* of them.  The ticket store, the bundle a capture writes and the index   *)
(* builders are external: a call of the store is one step, and tickets and *)
(* attachments come back in an order that says nothing of their age.       *)
(***************************************************************************)
EXTENDS Absence, Naturals, FiniteSets

CONSTANTS
    Op,          \* requests that may be under way at once, each slot used over and over
    Uploads,     \* the files that may be uploaded: [site: BOOLEAN, text: BOOLEAN]
    MaxBegun,    \* bound: requests begun
    MaxTickets,  \* bound: tickets
    MaxMember,   \* bound: members of a bundle; 1 is capture.json
    MaxCapture   \* bound: captures of the one bundle

ASSUME BoundsAreNat ==
    /\ MaxBegun \in Nat \ {0} /\ MaxTickets \in Nat \ {0}
    /\ MaxMember \in Nat \ {0} /\ MaxCapture \in Nat \ {0}
ASSUME UploadsAreFiles == Uploads \subseteq [site: BOOLEAN, text: BOOLEAN]

TicketUid == 1..MaxTickets       \* uids, in the order tickets are made
Member == 1..MaxMember
Name == 1..MaxBegun              \* hero.png, hero-2.png, ...: every file asks for the first

VARIABLES
    tickets,    \* uid -> the material or reference, or None
    assets,     \* name -> the ticket whose bytes the site has there, or None
    bundle,     \* member -> which capture wrote it last, or 0
    index,      \* the document index: <<uid, body>>
    chunks,     \* the chunk index: <<uid, stamp, text>>
    op,         \* the local state of each request
    begun,      \* requests begun so far
    made,       \* attachments made so far: the next one's uid
    \* What happened, kept for the properties only.
    mirror,     \* an adoption has finished since the last capture
    spoiled,    \* two adoptions overlapped, or one ended between attaching and detaching
    strayed,    \* members of which an adoption that did not list them swept a record
    unsure,     \* tickets whose body no refresh that ran alone has read
    early,      \* tickets another request's refresh made a row for without their text
    gone        \* tickets whose asset was removed again, or written over

materialVars == <<tickets, assets, bundle, index, chunks, op, begun, made, mirror, spoiled,
                  strayed, unsure, early, gone>>
history == <<mirror, spoiled, strayed, unsure, early, gone>>

\* An attachment record; an upload's file has no member.
File == [uid: Nat, member: Member \cup {0}, content: 0..MaxCapture]

Ticket == [type: {"material", "reference"}, site: BOOLEAN, text: BOOLEAN,
           body: Nat, stamp: Nat, placed: BOOLEAN, files: SUBSET File]

ASSUME NoneIsNoTicket == None \notin TicketUid /\ None \notin Ticket

Idle == [pc |-> "idle", job |-> "none", file |-> None, ticket |-> None, listed |-> {}, todo |-> {}, held |-> {}, got |-> 0,
         fresh |-> TRUE, rows |-> {}, sure |-> {}, alone |-> TRUE, texts |-> {}, name |-> None]

Steps == {"idle", "create", "attach", "comment", "find", "upsert", "listing", "member",
          "attachMember", "detachMember", "sweep", "update", "readIndex", "writeIndex",
          "readTexts", "readChunks", "writeChunks", "name", "check", "write", "place"}

Existing == {t \in TicketUid : tickets[t] # None}
References == {t \in Existing : tickets[t].type = "reference"}
Adopting == {o \in Op : op[o].job = "adopt"}
InBundle == {m \in Member : bundle[m] # 0}
MembersOf(t) == {f.member : f \in tickets[t].files}

\* Tickets, attachments, index rows and requests keep their shapes; an
\* attachment has one record, an asset comes from a material, and what a
\* reference holds some capture wrote.
MaterialTypeOK ==
    /\ tickets \in [TicketUid -> Ticket \cup {None}]
    /\ assets \in [Name -> Existing \cup {None}]
    /\ bundle \in [Member -> 0..MaxCapture]
    /\ index \subseteq Existing \X Nat
    /\ chunks \subseteq Existing \X Nat \X BOOLEAN
    /\ begun \in 0..MaxBegun /\ made \in Nat
    /\ mirror \in BOOLEAN /\ spoiled \in BOOLEAN /\ strayed \subseteq Member
    /\ unsure \subseteq Existing /\ early \subseteq Existing /\ gone \subseteq Existing
    /\ \A o \in Op : op[o].pc \in Steps /\ (op[o].pc = "idle" => op[o] = Idle)
    /\ \A t \in Existing, u \in Existing : \A f \in tickets[t].files, g \in tickets[u].files :
          f.uid = g.uid => t = u /\ f = g
    /\ \A n \in Name : assets[n] # None => tickets[assets[n]].type = "material"
    /\ \A t \in References : \A f \in tickets[t].files : f.member # 0 /\ f.content # 0

\* No material yet; a capture has been made, of some of the members.
MaterialInit ==
    /\ tickets = [t \in TicketUid |-> None]
    /\ assets = [n \in Name |-> None]
    /\ bundle \in {[m \in Member |-> IF m \in S THEN 1 ELSE 0] : S \in {T \in SUBSET Member : 1 \in T}}
    /\ index = {} /\ chunks = {}
    /\ op = [o \in Op |-> Idle]
    /\ begun = 0 /\ made = 0
    /\ mirror = FALSE /\ spoiled = FALSE /\ strayed = {}
    /\ unsure = {} /\ early = {} /\ gone = {}

-----------------------------------------------------------------------------
(* Writing a ticket.                                                        *)

\* The store writes t and stamps it; a refresh under way has not read this body.
Put(t, ticket, ops) ==
    /\ tickets' = [tickets EXCEPT ![t] = ticket]
    /\ op' = [p \in Op |-> [ops[p] EXCEPT !.sure = @ \ {t}]]
    /\ unsure' = unsure \cup {t}

NewUid == CHOOSE t \in TicketUid \ Existing : \A u \in TicketUid \ Existing : t <= u
Goto(o, pc) == [op EXCEPT ![o].pc = pc]
WithFile(t, f) == [tickets EXCEPT ![t].files = @ \cup {f}]
NewFile(m, c) == [uid |-> made + 1, member |-> m, content |-> c]

Placing(o) == op[o].job = "upload" /\ op[o].file.site

\* Mutant: the text is written when the indexes have been refreshed.
AfterIndexFirst(o) ==
    CASE op[o].pc = "attach" -> "readIndex"
      [] op[o].pc = "writeChunks" /\ op[o].job = "upload" /\ op[o].file.text -> "comment"
      [] op[o].pc \in {"writeChunks", "comment"} -> IF Placing(o) THEN "name" ELSE "idle"
      [] op[o].pc = "check" -> "write"
      [] op[o].pc = "write" -> "place"
      [] op[o].pc = "place" -> "idle"

\* Mutant: the placement is recorded on the way in.
AfterRecordFirst(o) ==
    CASE op[o].pc = "attach" -> IF op[o].file.text THEN "comment" ELSE "readIndex"
      [] op[o].pc = "comment" -> "readIndex"
      [] op[o].pc = "writeChunks" -> IF Placing(o) THEN "name" ELSE "idle"
      [] op[o].pc = "check" -> "place"
      [] op[o].pc = "place" -> "write"
      [] op[o].pc = "write" -> "idle"

\* What an ingest does after the step it is at: the text goes beside the ticket
\* before the indexes are refreshed, and only a file for the site is placed.
After(o) ==
    CASE op[o].pc = "attach" -> IF op[o].file.text THEN "comment" ELSE "readIndex"
      [] op[o].pc = "comment" -> "readIndex"
      [] op[o].pc = "writeChunks" -> IF Placing(o) THEN "name" ELSE "idle"
      [] op[o].pc = "check" -> "write"
      [] op[o].pc = "write" -> "place"
      [] op[o].pc = "place" -> "idle"

Proceed(o) ==
    [op EXCEPT ![o] = IF After(o) = "idle" THEN Idle
                      ELSE [op[o] EXCEPT !.pc = After(o), !.rows = {}]]

-----------------------------------------------------------------------------
(* An upload, or a fetch.                                                   *)

Start(o, state) ==
    /\ op[o].pc = "idle"
    /\ begun < MaxBegun
    /\ begun' = begun + 1
    /\ op' = [op EXCEPT ![o] = state]

\* A file arrives: too big and empty ones were refused, and it is described.
Upload(o) ==
    /\ \E file \in Uploads : Start(o, [Idle EXCEPT !.pc = "create", !.job = "upload", !.file = file])
    /\ UNCHANGED <<tickets, assets, bundle, index, chunks, made, history>>

\* The ticket, with the rights its provenance gives it.
Create(o) ==
    /\ op[o].pc = "create"
    /\ Existing # TicketUid
    /\ Put(NewUid, [type |-> "material", site |-> op[o].file.site, text |-> FALSE, body |-> 1,
                    stamp |-> 1, placed |-> FALSE, files |-> {}],
           [op EXCEPT ![o].pc = "attach", ![o].ticket = NewUid])
    /\ UNCHANGED <<assets, bundle, index, chunks, begun, made, mirror, spoiled, strayed, early, gone>>

Attach(o) ==
    /\ op[o].pc = "attach"
    /\ tickets' = WithFile(op[o].ticket, NewFile(0, 0))
    /\ made' = made + 1
    /\ op' = Proceed(o)
    /\ UNCHANGED <<assets, bundle, index, chunks, begun, history>>

\* The text is a comment beside the ticket, which it does not stamp.
Comment(o) ==
    /\ op[o].pc = "comment"
    /\ tickets' = [tickets EXCEPT ![op[o].ticket].text = TRUE]
    /\ op' = Proceed(o)
    /\ UNCHANGED <<assets, bundle, index, chunks, begun, made, history>>

-----------------------------------------------------------------------------
(* The indexes.  A builder keeps the row of a ticket whose stamp has not    *)
(* moved, and writes the whole index.                                       *)

\* What a refresh reads: the whole corpus, whichever ticket it was called for.
\* Mutant: the ticket it was called for.
CorpusOwn(o) == {op[o].ticket}
Corpus(o) == Existing

Documents(o) == {<<t, tickets[t].body>> : t \in Corpus(o)}

Refreshing == {p \in Op : op[p].pc = "writeIndex"}

ReadIndex(o) ==
    /\ op[o].pc = "readIndex"
    /\ op' = [p \in Op |->
                IF p = o THEN [op[o] EXCEPT !.pc = "writeIndex", !.rows = Documents(o),
                                            !.sure = Existing, !.alone = (Refreshing = {})]
                ELSE IF p \in Refreshing THEN [op[p] EXCEPT !.alone = FALSE]
                ELSE op[p]]
    /\ UNCHANGED <<tickets, assets, bundle, index, chunks, begun, made, history>>

WriteIndex(o) ==
    /\ op[o].pc = "writeIndex"
    /\ index' = op[o].rows
    /\ unsure' = IF op[o].alone THEN unsure \ op[o].sure ELSE unsure
    /\ op' = [op EXCEPT ![o].pc = "readTexts", ![o].rows = {}, ![o].sure = {}, ![o].alone = TRUE]
    /\ UNCHANGED <<tickets, assets, bundle, chunks, begun, made, mirror, spoiled, strayed, early, gone>>

\* materialTextView: the comments that hold a text, in one query of their own.
ReadTexts(o) ==
    /\ op[o].pc = "readTexts"
    /\ op' = [op EXCEPT ![o].pc = "readChunks", ![o].texts = {t \in Existing : tickets[t].text}]
    /\ UNCHANGED <<tickets, assets, bundle, index, chunks, begun, made, history>>

Kept(t) == {row \in chunks : row[1] = t /\ row[2] = tickets[t].stamp}
Chunk(o, t) == IF Kept(t) # {} THEN Kept(t) ELSE {<<t, tickets[t].stamp, t \in op[o].texts>>}

\* Uploads of others that are between their ticket and its text.
Textless(o) ==
    {op[p].ticket : p \in {q \in Op \ {o} : op[q].pc \in {"attach", "comment"} /\ op[q].file.text}}

\* Texts that came, or will come, after o queried the comments, but the one it was
\* called to make searchable.
Unread(o) ==
    {t \in Existing \ op[o].texts :
        /\ Kept(t) = {}
        /\ tickets[t].text \/ t \in Textless(o)
        /\ ~(op[o].job = "upload" /\ op[o].file.text /\ op[o].ticket = t)}

\* The corpus, in a later query: a new row has the text the first one found.
ReadChunks(o) ==
    /\ op[o].pc = "readChunks"
    /\ op' = [op EXCEPT ![o].pc = "writeChunks", ![o].rows = UNION {Chunk(o, t) : t \in Corpus(o)},
                        ![o].texts = {}]
    /\ early' = early \cup Unread(o)
    /\ UNCHANGED <<tickets, assets, bundle, index, chunks, begun, made, mirror, spoiled, strayed, unsure, gone>>

\* The upload's answer needs its place on the site; the others are done.
WriteChunks(o) ==
    /\ op[o].pc = "writeChunks"
    /\ chunks' = op[o].rows
    /\ op' = Proceed(o)
    /\ UNCHANGED <<tickets, assets, bundle, index, begun, made, history>>

-----------------------------------------------------------------------------
(* Placing a file on the site: promoteToSiteAsset.                          *)

OnSite == {n \in Name : assets[n] # None}
FreeName == CHOOSE n \in Name \ OnSite : \A k \in Name \ OnSite : n <= k

\* The ticket may be published and has a file: a free name is looked for.
FindName(o) ==
    /\ op[o].pc = "name"
    /\ tickets[op[o].ticket].site
    /\ tickets[op[o].ticket].files # {}
    /\ op' = [op EXCEPT ![o].pc = "check", ![o].name = FreeName]
    /\ UNCHANGED <<tickets, assets, bundle, index, chunks, begun, made, history>>

\* editAssetAdd looks again, and refuses a name that has been taken since.
CheckName(o) ==
    /\ op[o].pc = "check"
    /\ op' = IF op[o].name \in OnSite THEN [op EXCEPT ![o] = Idle] ELSE Proceed(o)
    /\ UNCHANGED <<tickets, assets, bundle, index, chunks, begun, made, history>>

WriteAsset(o) ==
    /\ op[o].pc = "write"
    /\ assets' = [assets EXCEPT ![op[o].name] = op[o].ticket]
    /\ gone' = gone \cup ({assets[op[o].name]} \ {None})
    /\ op' = Proceed(o)
    /\ UNCHANGED <<tickets, bundle, index, chunks, begun, made, mirror, spoiled, strayed, unsure, early>>

\* The placement is recorded: fields alone, but the ticket is stamped.
RecordPlacement(o) ==
    /\ op[o].pc = "place"
    /\ tickets' = [tickets EXCEPT ![op[o].ticket].placed = TRUE, ![op[o].ticket].stamp = @ + 1]
    /\ op' = Proceed(o)
    /\ UNCHANGED <<assets, bundle, index, chunks, begun, made, history>>

\* An edit of the site removes the file: the material is not told.
RemoveAsset ==
    \E n \in OnSite :
        /\ assets' = [assets EXCEPT ![n] = None]
        /\ gone' = gone \cup {assets[n]}
        /\ UNCHANGED <<tickets, bundle, index, chunks, op, begun, made, mirror, spoiled, strayed, unsure, early>>

-----------------------------------------------------------------------------
(* Describing a file in the client's own words: reviseDescription.          *)

Revise(o) ==
    /\ \E t \in Existing : Start(o, [Idle EXCEPT !.pc = "update", !.job = "revise", !.ticket = t])
    /\ UNCHANGED <<tickets, assets, bundle, index, chunks, made, history>>

Update(o) ==
    /\ op[o].pc = "update"
    /\ LET t == op[o].ticket IN
       Put(t, [tickets[t] EXCEPT !.body = @ + 1, !.stamp = @ + 1], Goto(o, "readIndex"))
    /\ UNCHANGED <<assets, bundle, index, chunks, begun, made, mirror, spoiled, strayed, early, gone>>

-----------------------------------------------------------------------------
(* Captures.                                                                *)

\* The site is captured again: members are added or replaced, never removed.
Capture ==
    \E n \in 1..MaxCapture, changed \in (SUBSET Member) \ {{}} :
        /\ \A m \in Member : bundle[m] < n
        /\ n = 1 + CHOOSE k \in {bundle[m] : m \in Member} : \A m \in Member : bundle[m] <= k
        /\ bundle' = [m \in Member |-> IF m \in changed THEN n ELSE bundle[m]]
        /\ op' = [p \in Op |-> IF p \in Adopting THEN [op[p] EXCEPT !.fresh = FALSE] ELSE op[p]]
        /\ mirror' = FALSE
        /\ UNCHANGED <<tickets, assets, index, chunks, begun, made, spoiled, strayed, unsure, early, gone>>

\* adoptCapture: the bundle has its capture.json and is described ...
Adopt(o) ==
    /\ Start(o, [Idle EXCEPT !.pc = "find", !.job = "adopt", !.listed = InBundle, !.todo = InBundle])
    /\ spoiled' = (spoiled \/ Adopting # {})
    /\ UNCHANGED <<tickets, assets, bundle, index, chunks, made, mirror, strayed, unsure, early, gone>>

\* ... the first reference that names it is looked for, whichever that is ...
Found == IF References = {} THEN {None} ELSE References

FindByBundle(o) ==
    /\ op[o].pc = "find"
    /\ \E t \in Found : op' = [op EXCEPT ![o].pc = "upsert", ![o].ticket = t]
    /\ UNCHANGED <<tickets, assets, bundle, index, chunks, begun, made, history>>

\* ... and is created, or overwritten with what the page is now.
Upsert(o) ==
    /\ op[o].pc = "upsert"
    /\ IF op[o].ticket = None
       THEN /\ Existing # TicketUid
            /\ Put(NewUid, [type |-> "reference", site |-> FALSE, text |-> FALSE, body |-> 1,
                            stamp |-> 1, placed |-> FALSE, files |-> {}],
                   [op EXCEPT ![o].pc = "listing", ![o].ticket = NewUid])
       ELSE LET t == op[o].ticket IN
            Put(t, [tickets[t] EXCEPT !.body = @ + 1, !.stamp = @ + 1], Goto(o, "listing"))
    /\ UNCHANGED <<assets, bundle, index, chunks, begun, made, mirror, spoiled, strayed, early, gone>>

-----------------------------------------------------------------------------
(* The attachments are made to mirror the bundle: syncMembers.              *)

\* Of two attachments of one member the listing's last is held, whichever that is.
Held(t) == {S \in SUBSET tickets[t].files :
              \A m \in MembersOf(t) : Cardinality({f \in S : f.member = m}) = 1}

ListAttachments(o) ==
    /\ op[o].pc = "listing"
    /\ \E S \in Held(op[o].ticket) : op' = [op EXCEPT ![o].pc = "member", ![o].held = S]
    /\ UNCHANGED <<tickets, assets, bundle, index, chunks, begun, made, history>>

NextMember(o) == CHOOSE m \in op[o].todo : \A k \in op[o].todo : m <= k
\* Mutant: what a member replaces is not looked for.
PreviousForgotten(o, m) == {}
Previous(o, m) == {f \in op[o].held : f.member = m}

\* Mutant: what held the member is detached before the new bytes are attached.
ReadMemberReplacing(o) ==
    /\ op[o].pc = "member"
    /\ op[o].todo # {}
    /\ LET m == NextMember(o)
           c == bundle[m]
           unchanged == \E f \in Previous(o, m) : f.content = c
       IN /\ op' = IF unchanged
                   THEN [op EXCEPT ![o].todo = @ \ {m}, ![o].held = @ \ Previous(o, m)]
                   ELSE [op EXCEPT ![o].pc = "attachMember", ![o].got = c]
          /\ tickets' = IF unchanged THEN tickets
                        ELSE [tickets EXCEPT ![op[o].ticket].files = @ \ Previous(o, m)]
    /\ UNCHANGED <<assets, bundle, index, chunks, begun, made, history>>

\* The next member is read (a capture removes none, so what was listed is there):
\* unchanged bytes are left alone.
ReadMember(o) ==
    /\ op[o].pc = "member"
    /\ op[o].todo # {}
    /\ LET m == NextMember(o)
           c == bundle[m]
           unchanged == \E f \in Previous(o, m) : f.content = c
       IN op' = IF unchanged
                THEN [op EXCEPT ![o].todo = @ \ {m}, ![o].held = @ \ Previous(o, m)]
                ELSE [op EXCEPT ![o].pc = "attachMember", ![o].got = c]
    /\ UNCHANGED <<tickets, assets, bundle, index, chunks, begun, made, history>>

\* The new bytes are attached, and then what held the member before is detached.
AttachMember(o) ==
    /\ op[o].pc = "attachMember"
    /\ LET m == NextMember(o) IN
       /\ tickets' = WithFile(op[o].ticket, NewFile(m, op[o].got))
       /\ made' = made + 1
       /\ op' = IF Previous(o, m) # {} THEN Goto(o, "detachMember")
                ELSE [op EXCEPT ![o].pc = "member", ![o].todo = @ \ {m}, ![o].got = 0]
    /\ UNCHANGED <<assets, bundle, index, chunks, begun, history>>

DetachMember(o) ==
    /\ op[o].pc = "detachMember"
    /\ LET m == NextMember(o) IN
       /\ tickets' = [tickets EXCEPT ![op[o].ticket].files = @ \ Previous(o, m)]
       /\ op' = [op EXCEPT ![o].pc = "member", ![o].todo = @ \ {m}, ![o].got = 0,
                           ![o].held = @ \ Previous(o, m)]
    /\ UNCHANGED <<assets, bundle, index, chunks, begun, made, history>>

\* What is still held is of no member: one detach after another, then the index.
Sweep(o) ==
    /\ op[o].pc = "member"
    /\ op[o].todo = {}
    /\ IF op[o].held = {}
       THEN /\ op' = Goto(o, "readIndex")
            /\ mirror' = (mirror \/ op[o].fresh)
            /\ UNCHANGED <<tickets, strayed>>
       ELSE \E f \in op[o].held :
            /\ tickets' = [tickets EXCEPT ![op[o].ticket].files = @ \ {f}]
            /\ op' = [op EXCEPT ![o].held = @ \ {f}]
            /\ strayed' = strayed \cup ({f.member} \ op[o].listed)
            /\ UNCHANGED mirror
    /\ UNCHANGED <<assets, bundle, index, chunks, begun, made, spoiled, unsure, early, gone>>

-----------------------------------------------------------------------------
\* A call fails, or the request is cut off, at any await.
Stop(o) ==
    /\ op[o].pc # "idle"
    /\ spoiled' = (spoiled \/ op[o].pc = "detachMember")
    /\ op' = [op EXCEPT ![o] = Idle]
    /\ UNCHANGED <<tickets, assets, bundle, index, chunks, begun, made, mirror, strayed, unsure, early, gone>>

Finished == begun = MaxBegun /\ (\A o \in Op : op[o].pc = "idle") /\ UNCHANGED materialVars

Step(o) ==
    \/ Upload(o) \/ Create(o) \/ Attach(o) \/ Comment(o)
    \/ ReadIndex(o) \/ WriteIndex(o) \/ ReadTexts(o) \/ ReadChunks(o) \/ WriteChunks(o)
    \/ FindName(o) \/ CheckName(o) \/ WriteAsset(o) \/ RecordPlacement(o)
    \/ Revise(o) \/ Update(o)
    \/ Adopt(o) \/ FindByBundle(o) \/ Upsert(o) \/ ListAttachments(o)
    \/ ReadMember(o) \/ AttachMember(o) \/ DetachMember(o) \/ Sweep(o)
    \/ Stop(o)

MaterialNext == Capture \/ RemoveAsset \/ Finished \/ \E o \in Op : Step(o)

MaterialSpec == MaterialInit /\ [][MaterialNext]_materialVars

-----------------------------------------------------------------------------
(* Properties.                                                              *)

\* A member a reference holds is dropped only where an adoption that did not find
\* it in the bundle has swept a record of it: while one is replaced by a newer one
\* there is always one to serve (syncMembers attaches before it detaches), wherever
\* requests stop and however many replace it at once.
MembersStay ==
    [][\A t \in References :
          MembersOf(t) \ strayed' \subseteq {f.member : f \in tickets'[t].files}]_materialVars

\* Once an adoption has finished, and the site was not captured since it
\* started, there is one reference for the bundle and it holds each member once,
\* as the bundle has it: also when adoptions before it stopped anywhere but
\* between attaching a member and detaching what it replaces.
MirrorsBundle ==
    mirror /\ ~spoiled =>
        \E t \in Existing :
            /\ References = {t}
            /\ \A m \in Member :
                  {f.content : f \in {g \in tickets[t].files : g.member = m}}
                      = (IF bundle[m] = 0 THEN {} ELSE {bundle[m]})
            /\ Cardinality(tickets[t].files) = Cardinality(InBundle)

\* What a refresh that ran alone has read is found until it is changed again,
\* also what a request wrote that stopped before its own refresh.
SearchFinds == \A t \in Existing \ unsure : <<t, tickets[t].body>> \in index

\* A document is searched by its own text, if no other request's refresh made a row
\* for it having queried the comments before the text was there: its own upload's
\* refresh queries them after it.
TextIsSearched ==
    \A t \in Existing \ early : \A row \in chunks :
        row[1] = t /\ tickets[t].text => row[3]

\* A file the Library says is on the site was put there, and is there until it
\* is removed or another is written over it.
PlacedIsThere ==
    \A t \in Existing \ gone : tickets[t].placed => \E n \in Name : assets[n] = t

-----------------------------------------------------------------------------
(* What the comments promise and the code does not keep; checked by hand.   *)

\* capture-material.ts: what a crash can leave is repaired by re-running.
RepairedByRerun ==
    mirror /\ Cardinality(References) = 1 =>
        \A t \in References : Cardinality(tickets[t].files) = Cardinality(InBundle)

\* capture-material.ts: whatever is left held a member this bundle no longer has.
OnlyVanishedAreSwept ==
    \A o \in Op : op[o].pc = "member" /\ op[o].todo = {} =>
        \A f \in op[o].held : f.member \notin InBundle

\* capture-material.ts: one ticket per bundle, forever.
OneTicketPerBundle == Cardinality(References) <= 1

\* knowledge.ts: the text is written before the first index pass sees the material.
TextBeforeIndex ==
    (\A o \in Op : op[o].pc = "idle") =>
        \A t \in Existing : \A row \in chunks : row[1] = t /\ tickets[t].text => row[3]

\* material.ts: the document is searchable the instant the upload returns.
SearchableOnReturn ==
    [][\A o \in Op : op[o].pc = "writeChunks" /\ op'[o].pc # "writeChunks" /\ chunks' # chunks
          => \E row \in index : row[1] = op[o].ticket]_materialVars

\* material.ts: a free name, never the requested one blind.
NothingReplaced == [][\A n \in OnSite : assets'[n] \in {assets[n], None}]_materialVars

\* material.ts: the sites this material's bytes are on.
PlacedIsOnSite == \A t \in Existing : tickets[t].placed => \E n \in Name : assets[n] = t
=============================================================================
