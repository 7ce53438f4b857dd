-------------------------------- MODULE Builder --------------------------------
(***************************************************************************)
(* The builder in the browser (control-app src/builder): which business,   *)
(* which site of it, which page in the frame, which conversation and whose *)
(* material and contacts are on screen, while the operator moves between   *)
(* businesses (app.js, api.js, panel.js, chat.js, library.js, people.js).  *)
(*                                                                         *)
(* The browser runs one handler at a time, up to its next await.  What is  *)
(* in flight is answered in any order, or fails, or says that the session  *)
(* has ended.  A request is about the business that is in scope when it is *)
(* sent; the server is external and answers about that business.           *)
(***************************************************************************)
EXTENDS Absence, Naturals, FiniteSets

CONSTANTS
    Business,    \* the businesses the operator may select
    Slug,        \* site slugs: unique in a business, not between businesses
    Sites,       \* business -> its sites
    MaxSelects,  \* bound: businesses selected, the first one at start included
    MaxFiles     \* bound: files of one drop

ASSUME SitesAreOfBusinesses == Sites \in [Business -> SUBSET Slug]
ASSUME BoundsAreNat == MaxSelects \in Nat \ {0} /\ MaxFiles \in Nat \ {0}

Selection == 1..MaxSelects       \* calls of selectBusiness, in the order they are made
Opening == 1..MaxSelects         \* calls of showSite that open a session, one per selection at most

VARIABLES
    scope,      \* the business in scope: of the switcher and of every URL made
    site,       \* the slug the pane reports, or None
    frame,      \* the URL the frame was given
    doc,        \* the URL of the document that has loaded in it
    chat,       \* the conversation in the pane, or None
    library,    \* whose material is listed, or None
    people,     \* whose contacts are listed, or None
    select,     \* the state of each selection
    opening,    \* the session each selection's showSite is opening, or None
    generation, \* the last showSite
    upload,     \* the drop that is being sent, or None
    ended,      \* the session has ended: the notice is up
    made,       \* selections made
    crossed     \* a selection overlapped another one or a drop: never, before, or still

paneVars == <<scope, site, frame, doc, chat, library, people, select, opening, generation,
          upload, ended, made, crossed>>

\* The URL of a site's preview: the business is part of it; blank without a site.
Blank == [of |-> None, slug |-> None]
PreviewUrl(b, s) == IF s = None THEN Blank ELSE [of |-> b, slug |-> s]
Url == [of: Business \cup {None}, slug: Slug \cup {None}]

\* A conversation as chat.js knows it: an id made of the slug alone.  `of` is the
\* business whose conversation it is.
Conversation == [id: {"site", "unopened"} \X Slug, of: Business]

Idle == [pc |-> "idle", of |-> None]
SelectState == [pc: {"idle", "sites", "library", "people"}, of: Business \cup {None}]
Drop == [pc: {"send", "refresh"}, left: 0..MaxFiles, of: Business, slug: Slug \cup {None}]

ASSUME NoneIsNoAnswer ==
    None \notin Business \cup Conversation \cup Drop \cup [of: Business, slug: Slug]

Selecting == {i \in Selection : select[i].pc # "idle"}
Pending == Selecting # {} \/ upload # None
Settled == ~Pending /\ (\A g \in Opening : opening[g] = None) /\ doc = frame

\* Panes, requests and drops keep their shapes; a request is about a business,
\* the frame is on the site the pane reports, and only a showSite that was the
\* last may be waited for.
PaneTypeOK ==
    /\ scope \in Business /\ site \in Slug \cup {None}
    /\ frame \in Url /\ doc \in Url /\ frame.slug = site
    /\ chat \in Conversation \cup {None}
    /\ library \in Business \cup {None} /\ people \in Business \cup {None}
    /\ select \in [Selection -> SelectState]
    /\ \A i \in Selection : select[i].pc # "idle" => select[i].of # None /\ i <= made
    /\ opening \in [Opening -> [of: Business, slug: Slug] \cup {None}]
    /\ generation \in 0..MaxSelects /\ \A g \in Opening : opening[g] # None => g <= generation
    /\ upload \in Drop \cup {None}
    /\ ended \in BOOLEAN /\ made \in Selection
    /\ crossed \in {"never", "before", "still"}

\* The builder is mounted: the pane is on the site it remembers, under a URL
\* that is of no business yet, and the remembered business, or the first one,
\* is selected.
PaneInit ==
    /\ scope \in Business
    /\ site \in Slug \cup {None}
    /\ frame = PreviewUrl(None, site) /\ doc = Blank
    /\ chat = None /\ library = None /\ people = None
    /\ select = [i \in Selection |-> IF i = 1 THEN [pc |-> "sites", of |-> scope] ELSE Idle]
    /\ opening = [g \in Opening |-> None] /\ generation = 0
    /\ upload = None /\ ended = FALSE /\ made = 1 /\ crossed = "never"

-----------------------------------------------------------------------------
(* Selecting a business: selectBusiness, one step per answer.               *)

\* The scope moves at once; its sites are asked for.
SelectBusiness(b) ==
    /\ made < MaxSelects
    /\ made' = made + 1
    /\ scope' = b
    /\ select' = [select EXCEPT ![made + 1] = [pc |-> "sites", of |-> b]]
    /\ crossed' = IF Pending THEN "still" ELSE IF crossed = "never" THEN "never" ELSE "before"
    /\ UNCHANGED <<site, frame, doc, chat, library, people, opening, generation, upload, ended>>

\* The remembered site if the business has it, or else its first, or none.
Chosen(list) == IF site \in list THEN site
                ELSE IF list = {} THEN None ELSE CHOOSE s \in list : TRUE

\* Mutant: the frame follows the site, and an unchanged one is left alone.
RefreshedSite(s) == IF s = site THEN frame ELSE PreviewUrl(scope, s)
\* The frame's URL once the pane is on s: what is in scope now is part of it.
Refreshed(s) == PreviewUrl(scope, s)

\* showSite: an opening is started and overtakes those before it; without a site
\* the pane is emptied.
ShowSite(s) ==
    /\ generation' = generation + 1
    /\ IF s = None
       THEN chat' = None /\ UNCHANGED opening
       ELSE /\ opening' = [opening EXCEPT ![generation + 1] = [of |-> scope, slug |-> s]]
            /\ UNCHANGED chat

Cleared(rows) == None

\* The sites are listed, or could not be, which reads as none: the pane, the
\* conversation and the Library follow; the Library is asked for again.
SitesAnswered(i) ==
    /\ select[i].pc = "sites"
    /\ \E list \in {Sites[select[i].of], {}} :
          LET s == Chosen(list) IN
          /\ site' = s
          /\ frame' = Refreshed(s)
          /\ ShowSite(s)
    /\ library' = Cleared(library)
    /\ select' = [select EXCEPT ![i] = [pc |-> "library", of |-> scope]]
    /\ UNCHANGED <<scope, doc, people, upload, ended, made, crossed>>

\* The session has ended: nothing else is touched.
SessionEnded(i) ==
    /\ select[i].pc = "sites"
    /\ ended' = TRUE
    /\ select' = [select EXCEPT ![i] = Idle]
    /\ UNCHANGED <<scope, site, frame, doc, chat, library, people, opening, generation,
                   upload, made, crossed>>

\* The material is listed, or is not; the contacts are asked for again.
LibraryAnswered(i) ==
    /\ select[i].pc = "library"
    /\ library' \in {select[i].of, library}
    /\ people' = Cleared(people)
    /\ select' = [select EXCEPT ![i] = [pc |-> "people", of |-> scope]]
    /\ UNCHANGED <<scope, site, frame, doc, chat, opening, generation, upload, ended, made, crossed>>

PeopleAnswered(i) ==
    /\ select[i].pc = "people"
    /\ people' \in {select[i].of, people}
    /\ select' = [select EXCEPT ![i] = Idle]
    /\ UNCHANGED <<scope, site, frame, doc, chat, library, opening, generation, upload, ended,
                   made, crossed>>

-----------------------------------------------------------------------------
(* The conversation: the rest of showSite, and setSession.                  *)

\* A conversation of the id that is on screen changes nothing.
SetSession(session) == chat' = IF chat # None /\ chat.id = session.id THEN chat ELSE session

\* Mutant: a late answer is shown.
OvertakenNever(g) == FALSE
Overtaken(g) == g # generation

\* The session is open, or the pane says that it could not be.
SessionOpened(g) ==
    /\ opening[g] # None
    /\ opening' = [opening EXCEPT ![g] = None]
    /\ IF Overtaken(g) THEN UNCHANGED chat
       ELSE \E how \in {"site", "unopened"} :
               SetSession([id |-> <<how, opening[g].slug>>, of |-> opening[g].of])
    /\ UNCHANGED <<scope, site, frame, doc, library, people, select, generation, upload, ended,
                   made, crossed>>

-----------------------------------------------------------------------------
(* The pane.                                                                *)

\* The document has loaded, and the editor is bound to it and to the site.
Load ==
    /\ doc # frame
    /\ doc' = frame
    /\ UNCHANGED <<scope, site, frame, chat, library, people, select, opening, generation,
                   upload, ended, made, crossed>>

\* The mode is changed: the pane makes its URL again.
ChangeMode ==
    /\ frame # PreviewUrl(scope, site)
    /\ frame' = PreviewUrl(scope, site)
    /\ UNCHANGED <<scope, site, doc, chat, library, people, select, opening, generation,
                   upload, ended, made, crossed>>

-----------------------------------------------------------------------------
(* Files dropped on the conversation or the Library: receiveFiles.          *)

Send(n) == [pc |-> "send", left |-> n, of |-> scope, slug |-> site]

DropFiles ==
    /\ upload = None
    /\ \E n \in 0..(MaxFiles - 1) : upload' = Send(n)
    /\ crossed' = IF Selecting # {} THEN "still" ELSE crossed
    /\ UNCHANGED <<scope, site, frame, doc, chat, library, people, select, opening, generation,
                   ended, made>>

\* A file is answered for: the next is sent, into what is in scope by then, or
\* the Library is asked for again.
FileAnswered ==
    /\ upload # None /\ upload.pc = "send"
    /\ upload' = IF upload.left > 0 THEN Send(upload.left - 1)
                 ELSE [upload EXCEPT !.pc = "refresh", !.of = scope, !.slug = None]
    /\ UNCHANGED <<scope, site, frame, doc, chat, library, people, select, opening, generation,
                   ended, made, crossed>>

DropAnswered ==
    /\ upload # None /\ upload.pc = "refresh"
    /\ library' \in {upload.of, library}
    /\ upload' = None
    /\ UNCHANGED <<scope, site, frame, doc, chat, people, select, opening, generation, ended,
                   made, crossed>>

-----------------------------------------------------------------------------
PaneNext ==
    \/ \E b \in Business : SelectBusiness(b)
    \/ \E i \in Selection : SitesAnswered(i) \/ SessionEnded(i) \/ LibraryAnswered(i) \/ PeopleAnswered(i)
    \/ \E g \in Opening : SessionOpened(g)
    \/ Load \/ ChangeMode
    \/ DropFiles \/ FileAnswered \/ DropAnswered

PaneSpec == PaneInit /\ [][PaneNext]_paneVars

-----------------------------------------------------------------------------
(* Properties.                                                              *)

\* When nothing is in flight the page on screen, and with it what the editor,
\* the palette and the publish button act on, is the site's in the business
\* that is in scope, in whatever order the answers of overlapping selections
\* came; but for a session that has ended, which leaves everything as it was.
PageIsOfScope == Settled /\ ~ended => doc = PreviewUrl(scope, site)

\* The site is one of the business in scope, unless the last selection
\* overlapped another.
SiteIsOfScope == Settled /\ ~ended /\ crossed # "still" => site \in Sites[scope] \cup {None}

\* The conversation is the site's: a session that opened late for a site that was
\* left is never shown, nor is it missing when nothing is in flight.
ConversationIsOfSite ==
    (\A g \in Opening : opening[g] = None) /\ generation > 0 =>
        IF site = None THEN chat = None ELSE chat # None /\ chat.id[2] = site

\* Once a selection has asked for the contacts, the material and the contacts on
\* screen are of the business in scope or there are none, whatever failed, unless
\* selections and drops overlapped.
ListsAreOfScope ==
    (\A i \in Selecting : select[i].pc = "people") /\ ~ended /\ crossed # "still" =>
        library \in {scope, None} /\ people \in {scope, None}

\* What the operator sees and acts on belongs together: page, site and lists are
\* of the one business that is in scope.
ShownIsOfScope == PageIsOfScope /\ SiteIsOfScope /\ ListsAreOfScope

-----------------------------------------------------------------------------
(* What the comments promise and the code does not keep; checked by hand.   *)

\* app.js: a same-named site of another business is another conversation.
ConversationIsOfScope == Settled /\ ~ended /\ crossed = "never" /\ chat # None => chat.of = scope

\* library.js: never another business's material under a header naming this one.
LibraryIsOfScope == library \in {scope, None}

\* The site is one of the business in scope, however selections overlap.
SiteIsAlwaysOfScope == Settled /\ ~ended => site \in Sites[scope] \cup {None}

\* What is edited is what is on screen.
EditReachesPage == doc.of \in {scope, None}

\* Files dropped together go to one business.
DropStaysTogether ==
    [][FileAnswered /\ upload'.pc = "send" => upload'.of = upload.of]_paneVars

\* app.js: when the sites cannot be listed the pane keeps what it had.
PaneIsKept == [][\A i \in Selection : SitesAnswered(i) /\ site \in Sites[scope] => site' = site]_paneVars
=============================================================================
