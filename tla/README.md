# 1stcontact: a TLA+ verification project

TLA+ modules for the parts of 1stcontact that keep state and run concurrently,
TLC configurations that explore them exhaustively on small instances, and
TLAPS proofs for the modules at the centre. Every definition is translated from
the source; `PROJECT.json` ("map") names the lines of each. What stands outside
the repository (D1, R2, the ticketing component, the mail provider, Cloudflare
Access) is modelled by what this code expects of it and marked external.

Contents: 1 the system, 2 what is hard in it, 3 the modules, 4 the runs, their
bounds and what they show, 5 fairness, 6 what is proved and how, 7 where the
code and its comments disagree, 8 what is not modelled, 9 the plan.

## 1. The system

1stcontact is a website builder. A definition of a site (JSON pages, assets) is
edited in drafts by an operator and by an AI consultant, published as numbered
revisions, and served to visitors. Two Cloudflare Workers and a library do it:

| Part | Source | State | Operations |
|---|---|---|---|
| Site store | `tools/generate/src/store/d1r2-store.ts`, `site-store.ts` | D1 rows `sites`, `site_pages`, `site_assets`; asset bytes in R2 | `createDraft`, `write` (with or without `expect`), `readAsset`, `loadDraft`, `forget` |
| Assembled-draft memo | `d1r2-store.ts` (`ASSEMBLED`) | one map per isolate | filled and believed by `loadDraft` |
| Publishing | `tools/generate/src/publish/publish.ts`, `store/revision-model.ts` | `site_revisions`, `sites.base_revision`, revision objects in R2 | `publishSite`, `checkoutRevision`, `writeRevision`, `readRevision` |
| public-site | `apps/public-site/src` | none of its own | resolve the live revision, serve one object |
| Journal | `store/journal-model.ts`, `d1r2-store.ts`, `cli/edit.ts` | `sites.counter`, `site_changes` (a window) | append per edit, poll since a count |
| Consultant's host | `cli/ai/host-core.ts` | baselines, per isolate | a turn of the conversation, its reminder |
| Session delta | `apps/control-app/src/session-delta.ts`, `knowledge.ts` | a cursor on the chat ticket, the published landscape | `turnDelta`, `rebuildMap` |
| Mail | `messages.ts`, `email-webhook.ts`, `mail.ts` | message records | `sendRecordedEmail`, `applyDeliveryEvent` |
| Contacts | `people.ts`, `names.ts` | persons, addresses, a history of names | `invitePerson`, `setPersonRecord`, `writeName` |
| Admission | `identity.ts`, `scope.ts` | persons, memberships, grants, businesses | `admit`, `ensurePlatformOperator`, `provisionBusiness`, `resolveScope` |
| Access gate | `access.ts` | a cache of signing keys, per isolate | `verifyAccessJwt`, `fetchJwks` |
| Edit commands | `cli/edit.ts` with `packages/site-schema` | none of their own: one draft, read whole and written in part | `editPage*`, `editCopySet`, `editL1Set`, `editModule*`, `editConfigSet`, `editPalette*`, `editAsset*` |
| Material | `material.ts`, `capture-material.ts`, `knowledge.ts` | tickets with attachments, the document and the chunk index, files on a site | `ingestMaterial`, `promoteMaterialToSite`, `adoptCapture`, `updateMaterial` |
| Ledger | `ledger.ts`, `cli/ai/ledger-core.ts` | entries in the body of the chat ticket | `appendDecision`, `nameEngagement` |
| Builder | `control-app/src/builder/*.js` | in the browser: scope, site, frame, conversation, lists | select a business, show a site, drop files, reload |
| Cascade | `packages/framework/src/l1/render.ts`, `tools/generate/src/l1/fold.ts`, `site-schema/src/l1/layout.ts` | none: a stylesheet is made of a definition, and a definition of captures | `geometryRules`, `serializeRules`, `visibilityFor`, `nowrapThreshold` |
| Everything else | see PROJECT.json | | section 8 |

How they meet. A request to the control app passes the Access gate, then
`admit`, then `resolveScope`, and reaches a route with the handle of one
business. Routes that edit read a draft through the store, compute, write it
back and append to the journal. The consultant's tools are the same commands,
called within a turn; the host compares the journal's counter between turns.
Publishing reads the draft, freezes it in R2 and appends a row to the log that
public-site reads. The builder, in the browser, decides by its scope which
business each request is about; an upload it sends becomes a ticket, an
attachment, rows of two indexes and, for a picture, a file of the draft. D1 and
R2 are the only shared state between isolates, and
they share no transaction; memory (the memo, the baselines, the keys) is one
isolate's.

## 2. What is hard

A request is a string of awaits. Others run between any two, and any of them
may be the last: an isolate is evicted, a Worker runs out of time. Hence

* read-modify-write over D1, where the check and the write are two statements;
* two stores and no transaction: rows that name bytes, bytes that no row names;
* memory that is one isolate's and believes itself the truth;
* retries, late answers and repeated reports from services outside;
* sequences of writes that stop half way and must be found and completed;
* a rule about several files (a name and its uses, a path and the other pages')
  kept by commands that read them one by one and write one of them;
* answers that arrive when the screen they were asked for is gone.

`PROJECT.json` ("hazards") lists each at the line where it bites, with the
properties that would catch it, or why none does.

What would make each component correct: an asset that lists is readable; an
edit under compare-and-set is never lost; a load is not older than its
beginning; a listed revision can be served whole and the log is append-only;
the journal window has no hole and a poll misses nothing silently; every
document is announced once; a message that was sent has a record that comes to
tell its fate; an address is one person's and a name survives its edits; a
membership can be used, a lapse is truthfully told and nobody enters what is not
theirs; a retired key stops admitting and a new one is picked up; an edit command
leaves a site that renders, and introduces no reference that leads nowhere; a
material that finished is found, a reference holds what its bundle holds, a
placed file is there; a decision that was acknowledged stays written, under a
number of its own; what the builder shows and acts on is the business's in
scope.

## 3. The modules

Each module is one component, parameterised by sets of requests. The local state
of a request is a record with a program counter `pc`: one value per await of the
handler, and one action per step from await to await. A request that takes no
further step is one whose isolate is gone; where the stop has a consequence of
its own (a slot that is used again, a ghost that must be told) there is a `Stop`
or `Abandon` action.

| Module | Code | Abstraction of data |
|---|---|---|
| `SerialDraft` | what a draft's rows promise to callers that pass `expect`, abstractly | as `DraftStore`, without versions, keys and objects |
| `DraftStore` | draft half of the D1/R2 store, one slug; implements `SerialDraft` | a page body is the set of edits in it; an asset's bytes are their writer |
| `DraftMemo` | `loadDraft` and `ASSEMBLED` | a part's content is the number of the write that made it |
| `RevisionLog` | what the log promises, abstractly | revision numbers and parents |
| `Publishing` | publish, checkout, visit; implements `RevisionLog` | content is the number of the edit that made it; a publish reads parts one by one and puts objects one by one |
| `ChangeFeed` | `appendChange`, `changesSince`, `note`, the host's turn | a record is its number |
| `SessionDelta` | `turnDelta`, the cursor, the landscape | a document is its stamp |
| `Delivery` | `sendRecordedEmail`, webhook, provider | a record is a status and whether it has the provider's id |
| `Contacts` | `invitePerson`, `setPersonRecord`, `writeName` | a name has two parts, the displayed one and another |
| `Admission` | `admit`, the seed, scope, grants, provisioning | a row is the flags that are asked of it; instants are numbers |
| `SigningKeys` | `fetchJwks`, `verifyAccessJwt` | a token is the key it names |
| `Editing` | the edit commands and what they validate | a page is its path, its seams and what it references; the rest of a document is left out |
| `Material` | upload, promotion, adoption, description, and the index refresh each ends with | a file is who captured or uploaded it; a text is there or not |
| `Ledger` | `record_decision`, `name_engagement` and the ticket they write | a body is its entries and the count of lines that read as a heading |
| `Builder` | the handlers that move the panes, and their requests | a page is its URL, a list is whose it is |
| `Cascade` | what a folded row's rules come to at each width | a value is the keyframe it is held at, or the pair it runs between |

`MC<module>` extends each with symmetry and the few sets a cfg cannot write.
A definition named by a comment "Mutant: ..." is a changed form of the definition
that follows it, of the kind a mistake in that code would make; substituting it
makes TLC refute one property, and is how each property is shown to speak of the
code. The history variables (`landed`, `lost`, `torn`, `overlap`, `calm`,
`raced`, `cleared`, `spent`, `undone`, `told`, `swept`, `strayed`, `unsure`, `early`,
`gone`, `late`, `mixed`, `during`, `excused`, ...) only remember: no guard of a modelled step reads one.

Where a property has an exception, the exception is in its formula and names
what the code does not protect: `torn`, `overlap`, `calm`, `raced`, `cleared`,
`undone`, `spoiled`, `strayed`, `early`, `late`, `mixed`, `excused`. Without it TLC finds the counterexample
(for `strayed` on a larger instance: section 6).

## 4. The runs

Passing runs explore every reachable state.

| Run | Instance | Properties and what they show |
|---|---|---|
| `draft` | 2 conditional writers, a reader, a forget, 2 pages, 1 asset | `AssetsAreReadable` (`RowHasBytes`, `ReadFindsBytes`): `write` puts an asset's bytes before its row and only a forget removes bytes, so while no forget of that key has begun, what lists can be read; `NoLostEdit`: of writers with `expect`, whatever is committed stays; `ImplementsSerialDraft`: to those writers the reads, puts and batches are one write at one instant, made over what they read, or no row changes |
| `publish` | 2 publishers, a checkout, a visitor, one document and one asset, 2 edits one of which is invalid, 2 numbers | `RevisionServable`, `VisitorIsServed`; `OnlyUnseenIsLost`: what an unforced checkout overwrites is in a revision, unless it was put after the check had read that part (`late`) or lay under a listed revision's prefix without being of it (`mixed`); and `ImplementsRevisionLog`: the log the three requests make is the abstract append-only one, whose every revision descends from an older one |
| `memo` | 3 loads in 2 isolates, 2 writes, any of which may be a recreation | `NoStaleDraft`: no load returns a part older than the draft was when it began |
| `feed` | 2 client commands and 2 tool calls over 3 turns in 2 isolates, which may overlap and be evicted; a poller; window 2 of 4 records | `WindowIsTail`: whoever races for a number, the rows are the last ones; `PollMissesNothing`; `RemindersTellTheRest`: a reminder counts none of the edits that turns of its isolate made (`OwnEditsNotReported`), and what a baseline covers was counted there or landed during a turn there, unless there was no baseline to compare with (`OthersAreTold`) |
| `delta` | 2 turns, 2 documents added and changed at 2 instants, a rebuild | `NoDocumentSkipped`, `ToldOnce` |
| `mail` | 1 message, 3 webhook requests, delivered/bounced/opened | `SentLeavesEvidence`, `AcknowledgedIsRecorded`, `WebhookIsNotUndone`, and the liveness property `SentIsResolved` |
| `contacts` | 3 requests, each an invite or an edit | `OnePersonPerAddress`, `NameSurvives`, `PatchesTheLastName`, `HistoryIsKept` |
| `admission` | 2 requests, a holder of PLATFORM_ADMINS and another, 3 instants, one act of the operator | `MembershipIsUsable`, `HolderReachesPlatform`, `LapseForetells`, `ScopeIsOpen` |
| `keys` | 3 verifications, 2 keys, a time to live of 3, a floor of 2, a fetch of at most 1 | `RetiredKeysAreForgotten`, `RotationIsPickedUp`, `FloorIsKept` |
| `edit` | 3 commands of 2 callers, from an authored site of 2 pages and from a reproduction whose page names what nobody mirrored | `PagesMounted`: a component and its seam are never apart, however commands overlap; `SiteHolds`: without overlaps every path is one page's and every color resolves; `OneOverlapIsRepaired`: what one overlap breaks, some command can still mend, though each validates the whole site; `NoNewDangling`, `RenameKeepsColors`: what a write that met no other does to references and to values |
| `material` | 3 requests in 2 slots, 2 tickets, an upload of a picture for the site or of a document to read, a bundle of 2 members captured twice, a file of the site removed at any time | `MirrorsBundle`, `MembersStay`: a reference comes to hold one record of each member, and none it serves is missing on the way but one an adoption swept that did not list it (`strayed`); `SearchFinds`, `TextIsSearched`: what a lone refresh read is found, and a document by its own text unless another request's refresh queried the comments too soon (`early`); `PlacedIsThere`: a material that says it was placed has its file, unless that was removed or written over |
| `builder` | 3 selections of 2 businesses that name a site alike, requests that fail or say the session has ended, a drop of 2 files | `ShownIsOfScope` (`PageIsOfScope`, `SiteIsOfScope`, `ListsAreOfScope`): once the answers are in, page, site and lists are of the business in scope; `ConversationIsOfSite`: a session that opened late for a site that was left is never shown |

The type invariants hold of the same instances (name a module's `TypeOK` under
INVARIANTS beside the rest), and all are proved. `Ledger` has no run of its
own, for its properties are proved; `MCLedger.cfg` explores two decisions, one name and two tickets (983 000 states)
and finds `LedgerInv` to hold, as it must. So it is with `Cascade`, a module of
functions: `MCCascade.cfg` evaluates its theorems' statements over ladders of up to
three widths, every layout and visibility of two breakpoints and every capture of
two elements that share a key, while a window grows from 0 to 7 (9 300 states).

The bounds and why they suffice. Each hazard of section 2 is between two requests,
so two of each kind meet it; a third (loads, verifications, contacts) is there where
one request is between two steps of another that is itself overtaken. Numbers are
bounded where the code counts without end: `MaxKeys`, `MaxEdits`, `MaxRev`,
`MaxWrites`, `MaxAppends`, `MaxTurns`, `MaxTime`, `MaxChats`, `MaxActs`,
`MaxCommands`, `MaxBegun`, `MaxTickets`, `MaxMember`, `MaxCapture`, `MaxSelects`,
`MaxFiles`; the window, the floor and the time to live are smaller than the counts
that run past them, so that records age out, entries go stale and the floor passes.
In `admission` the operator acts once (`MaxActs`): with two acts the states are
several times as many; a single one already comes between any two steps of any two
requests. In `edit` three commands are a command of one caller that two of the
other's overtake, or an overlap and the command that mends it; `MCEditingWedged.cfg`
goes to three callers, where nothing mends it. In `material` the second capture of
the bundle makes a member whose record is replaced, the second ticket is the other
one of two that race, and a third request comes after both. In `builder` two
selections cross each other and the third comes after them. `CHECK_DEADLOCK FALSE`
but for `SessionDelta`, `Material` and `Builder`: requests end, and nothing starts
new ones beyond the bounds. In those three a slot is used again, or there is always
something to click, so deadlock is checked. Symmetry permutes requests (and other
sets of interchangeable values) and is used by no run that checks liveness. `feed` has a
VIEW without what no later step and no property depends on: the count a turn announced
last (`seen`), the number of a command that is over, and where a poller is that was told
of a gap (its property is about the others, and it changes nothing but itself).
Two isolates and three turns are what it takes for a turn to follow one of its own isolate
with one of another isolate between or beside them.

## 5. Fairness

Only `Delivery` states a liveness property. `SentIsResolved` says that a record
that is `sent` comes to say `delivered` or `bounced`, and needs: that the
provider comes to report on a message it took (`Emit`, weakly fair); a request
that has been answered, or has died, leaves its slot (`Drop`, weakly fair: a Worker
does not hold a request for ever); and a report that is posted again and again is
one day received, looked up and applied (`Receive`, `Search`, `Apply`, strongly
fair, for each message and event: a request may die at each of these steps, but
not every time). The last is what the webhook's 404 counts on ("so the honest
answer is that we do not know this message", `email-webhook.ts`): the provider
retries what is not acknowledged, and a Worker that is up gets through a handler.
The sender has no fairness: it may stop anywhere, and a record that stays `queued`
is not covered. The other modules state safety only: the code promises no
progress there, every request may stop anywhere.

## 6. What is proved

TLAPS proves, for every value of the constants, every number of requests and no
bound but the named ones (a theorem `...TypeCorrect` says that a module's type invariant
holds):

* `DraftStore_proof`: `TypeCorrect`; `ListedAssetsAreReadable` (`RowHasBytes` and
  `ReadFindsBytes`, together `AssetsAreReadable`); `CasLosesNoEdit` (`NoLostEdit`,
  for conditional writers and a slug that is not recreated: `MaxKeys = 1`);
  `WritesAreSerial` (`ImplementsSerialDraft`, of the same). Of the
  material that drafts are made from: `MaterialTypeCorrect`; `PlacedFilesAreThere`
  (`PlacedIsThere`), `WhatWasReadIsFound` (`SearchFinds`), `OwnTextIsSearched`
  (`TextIsSearched`), `MembersAreServed` (`MembersStay`), `AdoptionMirrors`
  (`MirrorsBundle`).
* `Publishing_proof`, of publishing: `TypeCorrect`; `ListedRevisionsAreServable`,
  `VisitorsAreServed`, `CheckoutsKeepWork` (`OnlyUnseenIsLost`), `LineageIsForward`,
  `LiveOnlyMovesOn` (of every step: rows stay, live stays or becomes the next number);
  `LogIsImplemented`: `Publishing`
  implements `RevisionLog`. Of the cascade: `PlacedAtEveryWidth`,
  `TrackedAtEveryWidth`, `PageMirrorsGate`, `LaidOutPastItsEnd`, `FoldedRowsAreSeen`,
  `FloorsAreTheSuffix`, `FloorsAreUnbreakable`, for ladders of every length and every
  width.
* `Consultant_proof`, of the journal: `TypeCorrect`; `RowsAreTheTail` (`WindowIsTail`);
  `PollersMissNothing` (`PollMissesNothing`); `RemindersAreExact`
  (`RemindersTellTheRest`, of any number of isolates). Of the ledger: `LedgerTypeCorrect`;
  `NoDecisionIsLost` (`DecisionsAreKept`: what was acknowledged is in the ticket it was
  written to); `NumbersNameEntries` (`NumbersDiffer`: no two entries of a ticket have
  one number).
* `Admission_proof`: `TypeCorrect`; `AdmissionInvariant`; `MembersAreUsable`
  (`MembershipIsUsable`), `HoldersReachIt` (`HolderReachesPlatform`), `LapsesForetell`
  (`LapseForetells`), `ScopesAreOpen` (`ScopeIsOpen`).
* `Editing_proof`: `TypeCorrect`; `EditInvariant`; `ComponentsStayMounted`
  (`PagesMounted`) and `ValidDraftsStayValid` (`SiteHolds`), of sites that start valid;
  `EditsMakeValid`, of any site; `OneOverlapIsMended` (`OneOverlapIsRepaired`, of sites
  that start valid); `NothingIsLeftDangling` (`NoNewDangling`);
  `RenamesAreLossless` (`RenameKeepsColors`). Of the builder, the client that sends
  the edits: `PaneTypeCorrect`; `WhatIsShownIsOfScope` (`ShownIsOfScope`);
  `ConversationsAreOfSites` (`ConversationIsOfSite`).
* `Contacts_proof`: `TypeCorrect`; `AddressesAreOnes` (`OnePersonPerAddress`),
  `NamesSurvive` (`NameSurvives`), `HistoryStays` (`HistoryIsKept`),
  `PatchesAreOfTheLast` (`PatchesTheLastName`).
* `Caches_proof`, of the signing keys: `TypeCorrect`; `KeysAreForgotten`
  (`RetiredKeysAreForgotten`), `RotationsArePickedUp` (`RotationIsPickedUp`),
  `FloorsAreKept` (`FloorIsKept`). Of the memo: `MemoTypeCorrect`; `MemoIsNeverStale`
  (`NoStaleDraft`).
* `Reports_proof`, of the mail: `MailTypeCorrect`; `EvidenceIsLeft`
  (`SentLeavesEvidence`), `AcknowledgedIsKept` (`AcknowledgedIsRecorded`),
  `WebhookStands` (`WebhookIsNotUndone`). Of the conversation's delta:
  `DeltaTypeCorrect`; `NothingIsSkipped` (`NoDocumentSkipped`), `NothingIsToldTwice`
  (`ToldOnce`).

A proof module speaks of one component, or of two that one reader will look for
together. So that both can be extended at once, `None` is declared in a module of
its own (`Absence`), and of such a pair one has names of its own for what every
module has: `MemoInit`, `DeltaNext`, `PaneSpec`, `MaterialSpec`.

The arguments. None of the invariants is inductive alone. Before they were proved
the inductive ones were explored by TLC on the instance of the component's run.

*Assets.* `BytesInv` adds that what a writer has put is still there unless a
forget of that key has begun (`PutBytesStay`), that a reader that holds a row
holds it on such a site (`HeldRowHasBytes`), and that a forget under way knows its
key. Two lemmas carry the step: a forget once begun stays begun, and only a
forget removes bytes.

*Compare-and-set.* `CasInv`: a version that has not moved since a writer read it
still names the pages the writer then read. The version grows with each commit,
so equality at the commit is equality of what was read; a site that is forgotten
and created again starts its versions over, which is why the theorem supposes
that it is not (`MCDraftRecreated.cfg` shows the loss when it is). The refinement
rests on the same. `SerialDraft` sees of the store the rows (`Content`), of a writer
whether it is under way and what it was told (`Phase`), and who is under way with a
version that is no longer the site's (`Behind`). Reading the version is `Begin`, a
commit is `Write`, a batch that throws is `Refuse`, whatever is told of a site that is
gone is `Miss`; reading pages and putting bytes change nothing of it. A commit puts
the pages as read with the writer's edit in them, and `Write` the pages as they are:
`CasInv` says that these are the same. Everyone under way is behind after a write,
because every batch moves the version, which is what the mutant `AppliedQuietly`
drops. The bytes of a refused write are not undone (`NothingLands`, section 7), so the
promise is of rows.

*The memo.* An entry under the current key at the current version has the current
content of site.json, and its pages and asset names are no older; a load in
progress holds the same of what it read. A write bumps the version in its batch,
so no entry is believed after one.

*Publishing.* Rows are inserted after their objects and objects are never removed,
so what a publish has put is there when its row is (`ServableInv`). For the log:
whatever number a request holds was listed when it was read, hence still is
(`Known`), and the log has no gap (`Contiguous`), so a number that is free is above
every listed one: each insert is a `Publish` of `RevisionLog`, each re-parenting a
`Reparent`, and everything else a stutter.

*Checkout.* `OnlyUnseenIsLost` is about the instant of the write, many awaits after
the reads it rests on, so the invariant follows an unforced checkout from part to part
(`HasChecked`): what it compares with is of a revision or `mixed`; a part it has read
is as it was or `late`; and once it has found no difference, what is there to be
overwritten is one of the three. Rows stay and the exceptions only grow (`SparedGrows`),
so others disturb nothing but by putting something, which is late (`DraftMoves`). Without
`mixed` TLC refutes it, in 28 states: a publish that took a number another one recorded
puts its draft under that number; a checkout that had already read the revision, and
then compares the draft with what lies there, finds no difference and overwrites the
only copy of an edit.

*The journal.* What a command holds when it has read the counter is at most the
counter's successor (`NumbersAreNext`). Of the numbers at most the counter, those of
the last window have a row and are refused, and older ones are no command's (the model
takes as given that no command sleeps through a whole window of appends: `Append`). So
the insert that takes effect takes the successor, and the rows stay the last ones
without a hole. A poller reads the count and then the rows, and the journal may move
between the two: every number up to that count is then in the rows it got, or was
asked from already, or aged out meanwhile, of which `truncated` tells (`SliceIsWhole`).

The host keeps a baseline for each isolate, and workerd does not promise that the
turns of a conversation run in the same one (`host-core.ts:443`); turns of different
isolates may overlap. (In one isolate one runs at a time: the session manager, which
lives in that isolate's memory, is taken to see to that.) What
a turn makes lands during it, for its tools are over when it ends
(`ToolsAreOfATurn`, `OwnLandDuring`), and where no turn is under way the baseline is at
least every number that was taken during one (`BaselinesCoverOwn`). So the difference
that a reminder counts has none of that isolate's own edits, whatever other isolates do;
and since it counts everything above the baseline (`OpenTurnsWereTold`), what is above
`excused` and is not told landed during a turn of that isolate. Both halves need the
isolate: what the assistant made in another one is counted, as the client's, and what the
client did during a turn is counted by nobody. The comments promise both without
these limits (`NoneIsReportedBack` and `ClientEditsAreTold`, section 7).

*The ledger.* `LedgerInv` adds to the two properties that a call which read the
ticket at the version it still has holds the ticket's body (`Unmoved` is what the
compare-and-set asks), and that every number is at most the count of headings. An
append hence adds one entry to what is there, numbered above all of it; a rename,
a cursor and a transcript move the version and leave the body, so they lose
nothing and merely make an append read again. Prose that reads as a heading
raises the count by two: numbers may have gaps, but stay different.

*The cascade.* Every rule of an element whose condition a width meets applies, and
the last in the stylesheet wins what it declares. Of the rungs of one track that
apply the widest is last, since the blocks are sorted and the keyframes ascend
(`RungWins`); hence a part of an element's place is the segment's exactly if every
rung declares it, which is why a rung that makes the width a floor must also say
`width: auto`. A height is only declared by every rung if every keyframe has one:
the theorem speaks of such tracks, which are the ones the fold makes; of others a
lower rung's interpolation outlasts its segment. `display` is shared by the layout
and the visibility. Below `fromPx` the block without a `min-width` is last. From
`untilPx` on the block that hides is the last one only if no layout breakpoint is
beyond it, which `PageMirrorsGate` supposes and `LaidOutPastItsEnd` shows to be
needed. A floor comes from a rung that is reached or from the base
(`FloorIsRelaxed`); below the run's first captured width the base still applies,
and there the run is hidden or the pin of `white-space` is unconditional. Widths are
whole pixels here, so a window of 599.5 pixels, which is in neither
`(max-width: 599px)` nor `(min-width: 600px)`, is not covered.

*Admission.* `AdmissionInv` is what the rows say on their own (a member has a row,
its business is registered, owned and granted) and, of each request, what it counts
on (`Stands`): the seed of a holder has written what lies before its step
(`Seeded`); a provisioning has written the owner and the grant before it writes the
membership (`Provided`); what is looked at is the caller's, or what the host
asked for (`Looks`); what is told of a business is what the grants said at the request's
instant (`Tells`); a holder is not refused (`Welcome`); and a scope that is served
was selectable (`Served`). Another's step only adds rows (`Grows`), and if it
touches a grant it says so in the `calm` of every request under way (`Left`): two
lemmas carry `Stands` over the steps of others, so that each step is looked at for
its own request alone. That a lapse foretells (`LapseIsForetold`) is a lemma of the
dates: `endedAt` of a business is the greatest of the ends that are past; the grant
that ended then covered the instant before, and none that is active covers a later
one. It supposes grants that end after they start (`WellDated`), as the property
does.

*Editing.* What a command proposes is `Wanted`: applied to what it read it is the
definition it means, and it is `Gentle` to the references and the values it was not
asked to change. `EditInv` says that a command that nothing landed under
(`stale = 0`) proposes this of the draft as it is, so that its landing makes
exactly the definition that was validated (`Edits`), or touches files only
(`Files`); and that a command that was overtaken, and lands all the same, still
writes pages each of which was validated (`PlansMount`). Hence the two strengths:
a component and its seam, which are of one page, are never apart, whatever
overlaps; paths and colors, which are of several documents, hold as long as no
command overlapped. Both suppose that the site started valid (`StartsValid`, of
every draft of `Drafts`). Starter sites and reproductions are: the reproduction is
validated before it is written (`repro.ts:188`). The import route validates
nothing (`router.ts:1088`), and `EditsMakeValid` is what holds after it: the first
command on the definition that meets no other leaves a valid site or is refused,
since the whole is validated whatever the command touches.

For `OneOverlapIsRepaired`, a command that at most one other landed under began at a
definition that is one write away from the draft it lands on (`OneWriteAway`), and both
were valid. What the two writes make together has the pages of two valid definitions,
so it is wrong in one page at most, which lies on another's path, or in one color,
which a page names and the palette has lost (`PartIsValid`, `OneIsMissing`). Removing
that page, or adding that entry, is a command whose result is valid (`Mendable`,
`MendableIsRepaired`), and that the draft is mendable while it has met one overlap is
inductive (`MendInv`).

*Contacts.* All rests on `Base`: the types, what each request holds at its step
(`Standing`), and that a current row is the last of its history. Addresses are one
person's since the two indexes are of the statement that writes them. A name with
rows and no current one has a write between its two statements that owes it
(`NamesAreOwed`), and only a write that was asked for it owes nothing
(`RemovalsAreAsked`). For patches: writes of one name that did not overlap are one
(`WritersAreAlone`), and that one changes the last row (`WritesTheLast`). One lemma
(`StepIs`) shows that every step is a read of the current row, a retirement, an
insert, or leaves all names alone, and the proofs go over these four.

*The signing keys.* What a fetch was answered is what was published at some instant
of the fetch, which takes at most the latency. So every key of an entry was published
at an instant at most that long before the entry was stored (`Given`), and every key
that is not in it was unpublished at one (`Missed`), whatever the key's life came to
be since (`EntrySound`); an entry that is believed is younger than the time to live,
and one that is refreshed is older than the floor. Which of two overlapping fetches
was stored last does not matter for either bound. It does for the floor: the entry's
stamp is that of the last refresh (`StampIsLast`) unless a fetch that began earlier
was stored over it, which is what `undone` says and `FloorIsKept` excepts.

*The mail.* Of a message that is being sent, `SendStands` says how far its record is;
the provider's id comes onto the record with the send path's last write. A webhook
finds a record by that id, so an event is only ever on a record the send path is done
with (`EventsCarryIds`), and what was found stays (`FoundStays`). The exception is the
update that took effect and threw (`torn`): the send path then writes once more.

*The builder.* A selection that nothing overlapped is of one business from its first
request to its last (`AloneIsOfScope`). Where selections cross, lists and site may be
of different ones, but the frame is made again from the scope whenever that or the
site changes, so that what is on screen when nothing is in flight is of the site in
scope (`FrameFollows`). A conversation is opened under a generation, and only the last
one's answer is shown, which is the site's (`LastIsOfSite`).

*The delta.* A turn takes a cursor from the ticket, or from where the map ends,
finds what is in front of it and moves it past that (`AdvanceIs`). So of every cursor
there is, stored or held by a turn, whatever is behind it was found since the first
cursor of the conversation (`CursorsAreCaught`), however turns overlap and whichever of
them is stored last: a cursor that moves back finds again, it skips nothing. There is
one first cursor because there is one ticket, unless two turns without a cursor
crossed (`OneTicket`). What is stamped later is stamped at the instant, so in front of
every cursor or at it. For `ToldOnce`, what was told is behind the stored cursor, and
a turn alone starts from that one (`ToldIsBehind`); a turn whose cursor did not move
has found nothing, because a corpus is finite and the list of the boundary only grew
(`UnmovedIs`: the code compares its length).

*Material.* The write of an asset comes before the record that it was placed
(`FilesArePlaced`), so a file that is recorded was there, and whatever has taken it
since says so in `gone`. A refresh that is alone is the only one and writes the rows
it is sure of, and whoever changes a ticket makes every refresh unsure of it; so what
no one is unsure of is in the index and in the rows of each refresh under way, which
may write them back as they are (`RowsAreKnown`). A row without a text is of a ticket
that has none and that no request is about to give one (`RowsAreTexted`). A refresh
queries the comments that hold texts (`ReadTexts`), and in a later await the corpus
(`ReadChunks`), so a document may be made and given its text before, between or after the
two. The exception, `early`, is a new row of a document whose text the first query did not
find although it is there by the second one, or is still to come. A refresh puts there
what others upload and never the document it was called for: an upload's own refresh begins
when the comment is there, and nobody takes it away (`OwnIsRead`), so its first query finds it.

A reference's attachments are replaced one by one, and nothing locks them. What an
adoption holds it has yet to look at or did not list (`HeldIsLeft`), so what it sweeps
at the end is of a member it did not list; and what it is about to detach has a newer
record beside it (`Replaced`: newer, so the records it replaces are all older, and of
adoptions that replace one member at once none detaches the newest). The first attempt
was a finding. As stated before, without `strayed`, `MembersStay` was explored to the end on
the run's instance and yet is false: an adoption that listed the bundle before a
capture sweeps the record another adoption attached of a new member, and with
one more capture a third that is replacing that record detaches what it replaces and
leaves none. `OnlyVanishedAreSwept` is the comment that this contradicts (section 7).

For `MirrorsBundle` an adoption that has the reference to itself is followed through
its members (`SyncStands`): what it has not looked at it holds, what it has is there
once and as it read it, and what it is replacing is there beside what replaces it.
At the end nothing is left to look at, and what is left to hold is swept. That there
is one reference is `OneAdopts`, as long as no two adoptions overlap (`spoiled`). A
count of the records is a bijection from the members to them.

Assumptions: the named ASSUMEs of the modules (sets of roles are disjoint, bounds
are naturals, a corpus is finite, `None` is none of the values); TLC evaluates them on
every run. `StartsValid` is a hypothesis of the theorems that name it and of no other.

Only model-checked: of `Delivery` the liveness property `SentIsResolved`, as liveness
under fairness and ENABLED are out of the prover's reach. Every other property of the
runs, each safety property and both refinements, is a theorem. No module declares a
recursive operator.

## 7. Where the code and its comments disagree

Each module ends, where there are any, with properties that a comment states and
the code does not keep. To see a counterexample, put the property in the place
of the INVARIANTS and PROPERTIES of the module's configuration, as INVARIANT or,
where it is written `[][...]_vars`, as PROPERTY; a row that says "with" wants other
constants too. Three that matter most:

* `RevisionIsImmutable`, of `Publishing`. `writeRevision` puts its objects before
  the insert that checks the number, so a second publish with the same number writes
  over a listed revision's objects and only then fails.
* `AppendNeverFails`, of `ChangeFeed`. "Journalling never fails a write": two
  commands that read one counter insert under one number, and the second one's
  command throws after its write has landed.
* `NoChangeSkipped`, of `SessionDelta`. A document that was the last one reported
  and is changed later is on the cursor's list of names, so the change is never
  reported.

| Configuration | Property | What happens |
|---|---|---|
| `MCPublishing` | `LeftoversUnreachable` | objects of an interrupted publish lie under the number the next one takes, and are read as part of it |
| `MCPublishing` | `OutRendersSource` | the draft is read twice: what is rendered is not what is frozen |
| `MCPublishing` | `NoWorkLost` | an edit between the look at a draft and its replacement is overwritten unforced; `OnlyUnseenIsLost` says that only such an edit is, or one taken for published |
| `MCPublishing` with `Checkout = {}` | `LineageSkipsNothing` | two publishes that overlap record one parent |
| `MCDraftStore` | `NothingLands` | a write that is refused has put its asset bytes |
| `MCDraftStore` | `ForgetLeavesNoHole` | a forget removes bytes before rows: an asset lists and cannot be read |
| `MCDraftRecreated` (of `MCDraftStore`) | `NoLostEdit` | a site forgotten and created again meets an old `expect` |
| `MCDraftMemo` | `StampNamesDefinition` | two loads return one stamp and two definitions |
| `MCChangeFeed` | `NoneIsReportedBack` | "Never reported back to it as somebody else's work" (`host-core.ts:405`): after a turn in another isolate the assistant's edits are told as the client's |
| `MCChangeFeed` | `NoBaselineMeansFirstTurn` | a turn in an isolate that has run none, or was evicted, has no baseline and no signal though the conversation has turns behind it |
| `MCChangeFeed` | `ClientEditsAreTold` | an edit during a turn is below the baseline taken at its end |
| `MCDelivery` | `NothingMovesBackwards` | a late `delivered` overwrites a `bounced` |
| `MCDelivery` | `FailedMeansSendFailed` | the update after an accepted send throws: recorded `failed` |
| `MCSessionDelta` | `CursorMovesForward` | the slower of two turns writes the older cursor |
| `MCSessionDelta` | `MapComplementsCursor` | a document added during a rebuild is in neither |
| `MCContacts` | `InviteNeverRenames` | an invite that saw no name retires one that an edit gave meanwhile |
| `MCAdmission` | `HolderIsNotLockedOut` | a suspended holder of PLATFORM_ADMINS is refused: the seed repairs rows, not a status |
| `MCAdmission` | `BusinessHasAnOwner` | a provisioning that stops after `createTenant` leaves a business without owner, member or grant |
| `MCSigningKeys` | `OneRefreshAtATime` | the floor is spent when a refresh is stored, so those that began together all fetch |
| `MCEditing` | `NoPartialRename` | a page that is edited during a rename keeps the old name of the color |
| `MCEditing` | `RenameNeverMerges` | a palette entry that was made during a rename is the one renamed onto |
| `MCEditing` | `NoBrokenPicture` | an asset is removed while a page shows it |
| `MCEditingWedged` (of `MCEditing`) | `NeverWedged` | two overlaps leave two faults, and every command is refused for the one it does not mend |
| `MCMaterial` | `RepairedByRerun` | an adoption that stops between attaching and detaching leaves a second record of the member, which no later one removes |
| `MCMaterial` | `OnlyVanishedAreSwept` | "Whatever is left held a member this bundle no longer has" (`capture-material.ts:343`): an adoption that listed the bundle before a capture sweeps what another attached of a new member |
| `MCMaterial` | `OneTicketPerBundle` | two adoptions of a new bundle both find no ticket and both make one |
| `MCMaterial` | `TextBeforeIndex` | another request's refresh queries the comments before a document's text is there and the corpus when the document is: the row it makes has no text and is kept |
| `MCMaterial` | `SearchableOnReturn` | of two refreshes the one that read first writes last: the rows of the other are gone until the next |
| `MCMaterial` | `NothingReplaced` | two promotions find the same name free, and the second replaces the first one's file |
| `MCMaterial` | `PlacedIsOnSite` | a file is removed from a site, and its material still says where it was placed |
| `MCBuilder` | `ConversationIsOfScope` | the id of a conversation is made of the slug: at another business's site of that name the pane keeps the first one's |
| `MCBuilder` | `LibraryIsOfScope` | a list that was asked for a business is shown when another is in scope |
| `MCBuilder` | `SiteIsAlwaysOfScope` | of two selections that cross, the slower one's list of sites decides under the faster one's scope |
| `MCBuilder` | `EditReachesPage` | between the selection and the new page the old page is on screen, and what is pressed goes to the new scope |
| `MCBuilder` | `DropStaysTogether` | the files of a drop are sent one by one, each to the business then in scope |
| `MCBuilder` | `PaneIsKept` | "a failure to list is not a failure to run: the pane keeps what it had" (`app.js`): a failure reads as no sites, and the pane is emptied |
| `MCLedger` (of `Ledger`) | `DecisionsAreFound` | of two tickets that two first turns made, a decision may be in the one that is not found |
| `MCLedger` (of `Ledger`) | `NumbersAreCounted` | a line of the prose that reads as a heading makes the next number skip one |
| `MCLedger` (of `Ledger`) | `WrittenOnce` | an update that took effect and threw is retried by the assistant |
| `MCCascade` | `AlwaysMirrored` | "a node that is both hidden at a width and laid out at it must resolve to hidden" (`render.ts:2307`): a layout breakpoint past `untilPx` displays the node again, and the gate (`probes.ts`) takes it to be hidden |

Smaller matters met while reading, that the models contain and no property
forbids: the two statements of a name's replacement are not a batch, so a stop
between them leaves a history and no name; a part that a patch leaves alone is
carried from the row that was read, so of two overlapping patches one part may be
reverted; `openGrant` takes an end before its start, and `not_yet` then announces
access that never comes; a grant opened between the two queries of
`admittedBusiness` makes `lapseFor` say `revoked` of a business that is covered; a
provisioning that stops between `createDraft` and `write` leaves an empty starter
site that later calls take for a finished one. A row that was captured at 360 and
1280 pixels and was missing at 768 is shown at 768, as a visibility is one interval
(`FoldedRowsAreSeen` says so much and no more).

## 8. What is not modelled

* Pure functions: schema, markup, route grammar, content types, colours, prompts, and
  all of the renderer and the fold but the cascade. No state, nothing interleaves.
* Of the cascade: a column anchor whose constant is a track (`anchorTrackRules`), the
  response to the height of the window, the numbers of an interpolation and their
  rounding (`lerpCalc`, `num`), hover, motion and effects.
* The filesystem store (one process, synchronous), the memory store (a test double).
* Reference and blob stores: content-addressed puts.
* `createTenant`, `slugs`, `siteKeys`, listings of people and messages: single
  statements.
* Access tokens' own claims: a pure check of the token.
* Terms and events: one batch and one predicate.
* public-site's edge cache: a documented minute of staleness.
* `redactNames`: called by tests only.
* D1 itself: a batch that throws is taken to have rolled back, as `write` takes it
  (`d1r2-store.ts:664`); one that commits and whose answer is lost would be told as a
  conflict.
* The ticketing component and the session library live in other repositories; the
  modules take of them what the callers rely on.

* Of the edit commands: the values of schema, layout and copy (a command that would
  be refused for the shape of a value changes nothing), `editGapsApply`'s choice of
  gaps, and the note in the journal, which is `ChangeFeed`'s. A rename of a palette entry
  onto its own name, a write that changes nothing (`edit.ts:2002`), is refused in the model.
* Of the builder: the overlay's selection and popups, forms, the consultant's stream
  within a turn. They are of one pane and die with it.
* The import route (`router.ts:1074`), whose two loads and its write have
  `checkoutRevision`'s shape: `NoWorkLost` of `Publishing` is the property that
  fails there.
* Templates: `templates.ts` is called by nothing yet.

Hazards without a module, beside those PROJECT.json lists: two templates of one
key (`templates.ts:237`), a turn that dies between the stored cursor and the told
line (`session-delta.ts:282`), a ticket store that stamps before it commits
(`session-delta.ts:164`), two rebuilds of the landscape of which the older
publishes last (`knowledge.ts:465`), a business suspended after it sent mail
(`messages.ts:298`), an edit whose address is stored and whose name is refused
(`people.ts:957`), a refresh of keys that fails and spends no floor
(`access.ts:169`), and a host whose building failed once and is remembered as a
rejected promise until the isolate goes (`host-core.ts`).

## 9. The plan

Done, with proofs: `DraftStore`, `SerialDraft`, `DraftMemo`, `RevisionLog`, `Publishing`, `Cascade`,
`ChangeFeed`, `Ledger`, `SessionDelta`, `Delivery`, `Contacts`, `Admission`,
`SigningKeys`, `Editing`, `Builder`, `Material`.

Next, theorems, in this order:

1. A composition of `Editing` with `SerialDraft`: `SiteHolds` without its exception, of
   commands that pass `expect`. No route does so today.
2. A composition of `DraftStore` and `ChangeFeed`: an edit that is in the draft is in
   the journal, or its command failed.
3. `NoLostEdit` of a slug that is created again, for writers that read the site's key
   too: what the code would have to pass for it to hold.

And of models: seed-if-absent stores (`templates.ts`, `portal.ts`) when they have a
caller.

## Running

    tlc -workers 2 -config MCDraftStore.cfg MCDraftStore
    tlapm Publishing_proof.tla

Each passing run takes from seconds to about a minute and a half with two workers.
