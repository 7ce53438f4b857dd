-------------------------------- MODULE Editing --------------------------------
(***************************************************************************)
(* The structured edit commands over one site's draft (tools/generate      *)
(* src/cli/edit.ts) with what they validate (packages/site-schema          *)
(* src/schema.ts, validate.ts, l1/validate.ts, l1/palette.ts).             *)
(*                                                                         *)
(* The page editor, the assistant and the CLI call the same commands, and  *)
(* nothing serialises them.  A command reads site.json, then every page,   *)
(* makes the definition it wants, validates that definition whole, and     *)
(* writes the files it changed in one call of the store; the store applies *)
(* a write without asking what it was made from (DraftStore).  Each of     *)
(* those is a step here.  The note in the journal that follows a write is  *)
(* ChangeFeed's.                                                           *)
(***************************************************************************)
EXTENDS Absence, Naturals, FiniteSets

CONSTANTS
    Actor,         \* callers that may have a command under way
    PageId, Path,  \* pages are files named by their id; a path is a page's `slug`
    Name, Hex,     \* names and values of palette entries
    Asset,         \* names of files under assets/
    Family,        \* font families
    Slot, Module,  \* seams of a page's document, ids of component instances
    Drafts,        \* the drafts, with their assets, that editing may start from
    MaxCommands    \* bound: commands that may begin

ASSUME MaxCommandsIsNat == MaxCommands \in Nat

\* A component: the seam it mounts into, the palette names its slots use, and the
\* assets its content names (a field only reproductions carry).
Instance == [id: Module, slot: Slot \cup {None}, colors: SUBSET Name, content: SUBSET Asset]

\* slots = None stands for a page with no L1 document.  colors, pics and uses are
\* what the document references; serves are the faces it brings.
Page == [path: Path, slots: (SUBSET Slot) \cup {None}, colors: SUBSET Name,
         pics: SUBSET Asset, uses: SUBSET Family, serves: SUBSET Family,
         modules: SUBSET Instance]

\* site.json and the pages: `nav` are the pages its entries target.
Definition == [palette: [Name -> Hex \cup {None}], nav: SUBSET PageId,
               pages: [PageId -> Page \cup {None}]]

Op == {"page.add", "page.update", "page.rm", "copy.set", "l1.set", "document.set",
       "component.add", "component.configure", "component.rm", "config.set",
       "palette.set", "palette.add", "palette.rm", "palette.rename", "gaps.apply",
       "asset.add", "asset.write", "asset.rm"}

\* A write a command wants: the definition it made, whether site.json is written,
\* the pages written or removed, and the assets stored and removed.
Proposal == [op: Op, def: Definition, base: BOOLEAN, pages: SUBSET PageId,
             stores: SUBSET Asset, drops: SUBSET Asset]

ASSUME NoneIsNoValue == None \notin Page \cup Definition \cup Proposal /\ None \notin Hex
ASSUME DraftsAreDefinitions == \A d \in Drafts : d.def \in Definition /\ d.assets \subseteq Asset

VARIABLES
    draft,     \* the definition in the store
    assets,    \* the files under assets/
    pc,        \* actor -> where its command is
    seen,      \* actor -> the definition it has read, or None
    plan,      \* actor -> the write it wants, or None
    stale,     \* actor -> writes of others landed since its command began, counted to 2
    begun,     \* commands begun
    overlaps   \* how often a command landed over another's write, counted to 2

vars == <<draft, assets, pc, seen, plan, stale, begun, overlaps>>

\* Files and commands keep their shapes; a command that has yet to decide has read
\* a definition, and one that has decided has a write of its own.
TypeOK ==
    /\ draft \in Definition
    /\ assets \subseteq Asset
    /\ pc \in [Actor -> {"idle", "base", "pages", "planned", "valid"}]
    /\ seen \in [Actor -> Definition \cup {None}]
    /\ plan \in [Actor -> Proposal \cup {None}]
    /\ stale \in [Actor -> 0..2]
    /\ begun \in 0..MaxCommands
    /\ overlaps \in 0..2
    /\ \A a \in Actor : seen[a] # None <=> pc[a] \in {"base", "pages"}
    /\ \A a \in Actor : plan[a] # None <=> pc[a] \in {"planned", "valid"}

-----------------------------------------------------------------------------
(* What a definition has to satisfy.                                        *)

Pages(def) == {p \in PageId : def.pages[p] # None}

\* collectL1PaletteRefs over a page: its document and its components' slots.
ColorsOf(page) == page.colors \cup UNION {m.colors : m \in page.modules}

PathsUnique(def) ==
    \A p, q \in Pages(def) : p # q => def.pages[p].path # def.pages[q].path

ColorsResolve(def) ==
    \A p \in Pages(def) : \A n \in ColorsOf(def.pages[p]) : def.palette[n] # None

\* pageSchema: ids are unique; a component of a page with a document mounts into
\* a seam of it that no other takes, and one of a page without names none.
Mounted(page) ==
    \A m \in page.modules :
        /\ IF page.slots = None THEN m.slot = None ELSE m.slot \in page.slots
        /\ \A n \in page.modules \ {m} : n.id # m.id /\ (m.slot = None \/ n.slot # m.slot)

\* Mutant: only documents are searched for palette references, not slots.
ValidDocuments(def) ==
    /\ PathsUnique(def)
    /\ \A p \in Pages(def) : \A n \in def.pages[p].colors : def.palette[n] # None
    /\ \A p \in Pages(def) : Mounted(def.pages[p])

\* validateSite.  Entries of the navigation are not checked against the pages.
ValidSite(def) ==
    /\ PathsUnique(def)
    /\ ColorsResolve(def)
    /\ \A p \in Pages(def) : Mounted(def.pages[p])

\* Families that no face of the page serves, pictures the site does not hold.
DanglingFontFamilies(page) == page.uses \ page.serves
DanglingAssetReferences(page, held) == page.pics \ held

\* danglingRefs: keyed by what is named, wherever it is named.
DanglingRefs(page, held) ==
    IF page = None THEN {}
    ELSE DanglingFontFamilies(page) \cup DanglingAssetReferences(page, held)

\* Mutant: a reference is inherited when any page of the site has it.
InheritedAnywhere(was, held, p) == UNION {DanglingRefs(was.pages[q], held) : q \in PageId}

\* What the page, as it stands, already had dangling.
Inherited(was, held, p) == DanglingRefs(was.pages[p], held)

\* Mutant: the site as it stands has to be valid too.
AcceptsFromValid(def, was, held) ==
    /\ \A p \in Pages(def) : DanglingRefs(def.pages[p], held) \subseteq Inherited(was, held, p)
    /\ ValidSite(was) /\ ValidSite(def)

\* validateOrThrow: no page gains a dangling reference and the whole is valid.
Accepts(def, was, held) ==
    /\ \A p \in Pages(def) : DanglingRefs(def.pages[p], held) \subseteq Inherited(was, held, p)
    /\ ValidSite(def)

-----------------------------------------------------------------------------
(* The commands, each as the set of writes it may want of the definition `s`*)
(* it read: none when it refuses.                                           *)

Want(op, def, base, pages) ==
    [op |-> op, def |-> def, base |-> base, pages |-> pages, stores |-> {}, drops |-> {}]

WithPage(s, p, page) == [s EXCEPT !.pages = [s.pages EXCEPT ![p] = page]]

Toggle(S, x) == IF x \in S THEN S \ {x} ELSE S \cup {x}

NewPage(path) == [path |-> path, slots |-> None, colors |-> {}, pics |-> {},
                  uses |-> {}, serves |-> {}, modules |-> {}]

\* editPageAdd: the id and the path are unused.
PageAdd(s, p, path) ==
    IF p \notin Pages(s) /\ \A q \in Pages(s) : s.pages[q].path # path
    THEN {Want("page.add", WithPage(s, p, NewPage(path)), FALSE, {p})} ELSE {}

\* editPageUpdate.
PageUpdate(s, p, path) ==
    IF p \in Pages(s) /\ \A q \in Pages(s) \ {p} : s.pages[q].path # path
    THEN {Want("page.update", WithPage(s, p, [s.pages[p] EXCEPT !.path = path]), FALSE, {p})}
    ELSE {}

\* Mutant: the entries are stripped and site.json is not written.
PageRemoveAlone(s, p, force) ==
    IF p \in Pages(s) /\ (p \in s.nav => force)
    THEN {Want("page.rm", WithPage([s EXCEPT !.nav = s.nav \ {p}], p, None), FALSE, {p})}
    ELSE {}

\* editPageRm: refused while an entry of the navigation targets the page, or, when
\* forced, the entries go with it.
PageRemove(s, p, force) ==
    IF p \in Pages(s) /\ (p \in s.nav => force)
    THEN {Want("page.rm", WithPage([s EXCEPT !.nav = s.nav \ {p}], p, None), p \in s.nav, {p})}
    ELSE {}

\* What a set of references may become when one element's reference is written: one
\* may go, if no other element has it, and one may come.
Rewritten(S, all) ==
    {(S \ out) \cup come : out \in {{}} \cup {{x} : x \in S}, come \in {{}} \cup {{x} : x \in all}}

\* A document with one element's color or picture written.
Repainted(page) ==
    IF page.slots = None THEN {}
    ELSE {[page EXCEPT !.colors = c] : c \in Rewritten(page.colors, Name)} \cup
         {[page EXCEPT !.pics = c] : c \in Rewritten(page.pics, Asset)}

\* The same of an element of a component's slots.
Restyled(page) ==
    UNION {{[page EXCEPT !.modules = (page.modules \ {m}) \cup {[m EXCEPT !.colors = c]}] :
            c \in Rewritten(m.colors, Name)} : m \in page.modules}

Entries(s) == {n \in Name : s.palette[n] # None}

\* editCopySet: fields of one element; a color is picked from the palette.
CopySet(s, p) ==
    IF p \in Pages(s)
    THEN {Want("copy.set", WithPage(s, p, page), FALSE, {p}) :
          page \in {new \in Repainted(s.pages[p]) \cup Restyled(s.pages[p]) :
                       ColorsOf(new) \ ColorsOf(s.pages[p]) \subseteq Entries(s)}}
    ELSE {}

\* A document in which another element stands in the place of one: a family or a
\* seam more or less.
Replaced(page) ==
    IF page.slots = None THEN {}
    ELSE {[page EXCEPT !.uses = Toggle(page.uses, f)] : f \in Family} \cup
         {[page EXCEPT !.slots = Toggle(page.slots, x)] : x \in Slot}

\* editL1Set: one element and all below it.
L1Set(s, p) ==
    IF p \in Pages(s)
    THEN {Want("l1.set", WithPage(s, p, page), FALSE, {p}) :
          page \in Repainted(s.pages[p]) \cup Restyled(s.pages[p]) \cup Replaced(s.pages[p])}
    ELSE {}

\* editDocumentSet: the keys beside the tree, among them the faces.
DocumentSet(s, p) ==
    IF p \in Pages(s) /\ s.pages[p].slots # None
    THEN {Want("document.set", WithPage(s, p, [s.pages[p] EXCEPT !.serves = Toggle(@, f)]),
               FALSE, {p}) : f \in Family}
    ELSE {}

Holds(page, m) == \E i \in page.modules : i.id = m

\* editModuleAdd.
ModuleAdd(s, p, m, slot) ==
    IF p \in Pages(s) /\ ~Holds(s.pages[p], m)
    THEN {Want("component.add",
               WithPage(s, p, [s.pages[p] EXCEPT !.modules = s.pages[p].modules \cup
                   {[id |-> m, slot |-> slot, colors |-> {}, content |-> {}]}]),
               FALSE, {p})}
    ELSE {}

\* editModuleConfigure: the config is nothing a definition's references are in.
ModuleConfigure(s, p, m) ==
    IF p \in Pages(s) /\ Holds(s.pages[p], m)
    THEN {Want("component.configure", s, FALSE, {p})} ELSE {}

\* editModuleRm.
ModuleRemove(s, p, m) ==
    IF p \in Pages(s) /\ Holds(s.pages[p], m)
    THEN {Want("component.rm",
               WithPage(s, p, [s.pages[p] EXCEPT !.modules =
                                   {i \in s.pages[p].modules : i.id # m}]),
               FALSE, {p})}
    ELSE {}

WithEntry(s, n, h) == [s EXCEPT !.palette = [s.palette EXCEPT ![n] = h]]

\* editConfigSet: a value is merged in, the navigation's entries are replaced.
ConfigSet(s) ==
    {Want("config.set", [s EXCEPT !.nav = Toggle(s.nav, p)], TRUE, {}) : p \in PageId} \cup
    {Want("config.set",
          [s EXCEPT !.palette = [n \in Name |-> IF n \in given THEN h ELSE s.palette[n]]],
          TRUE, {}) : given \in (SUBSET Name) \ {{}}, h \in Hex}

\* editPaletteSet.
PaletteSet(s, n, h) ==
    IF s.palette[n] # None THEN {Want("palette.set", WithEntry(s, n, h), TRUE, {})} ELSE {}

\* editPaletteAdd.
PaletteAdd(s, n, h) ==
    IF s.palette[n] = None THEN {Want("palette.add", WithEntry(s, n, h), TRUE, {})} ELSE {}

Users(s, n) == {p \in Pages(s) : n \in ColorsOf(s.pages[p])}

\* editPaletteRm: only when nothing references it.
PaletteRemove(s, n) ==
    IF s.palette[n] # None /\ Users(s, n) = {}
    THEN {Want("palette.rm", WithEntry(s, n, None), TRUE, {})} ELSE {}

\* renameL1PaletteRef.
Renamed(S, from, to) == IF from \in S THEN (S \ {from}) \cup {to} ELSE S

RenamedPage(page, from, to) ==
    [page EXCEPT !.colors = Renamed(page.colors, from, to),
                 !.modules = {[m EXCEPT !.colors = Renamed(m.colors, from, to)] :
                              m \in page.modules}]

RenamedSite(s, from, to) ==
    [s EXCEPT
       !.palette = [n \in Name |-> IF n = to THEN s.palette[from]
                                   ELSE IF n = from THEN None ELSE s.palette[n]],
       !.pages = [p \in PageId |-> IF p \in Pages(s) THEN RenamedPage(s.pages[p], from, to)
                                   ELSE None]]

\* Mutant: a name that is taken is no obstacle.
PaletteRenameOnto(s, from, to) ==
    IF s.palette[from] # None /\ to # from
    THEN {Want("palette.rename", RenamedSite(s, from, to), TRUE, Users(s, from))} ELSE {}

\* editPaletteRename: site.json and the pages that name the entry, in one write.
PaletteRename(s, from, to) ==
    IF s.palette[from] # None /\ to # from /\ s.palette[to] = None
    THEN {Want("palette.rename", RenamedSite(s, from, to), TRUE, Users(s, from))} ELSE {}

\* cmdApplyGapFixes: spacing, which no reference is in; every page is written.
GapsApply(s) == IF Pages(s) = {} THEN {} ELSE {Want("gaps.apply", s, FALSE, Pages(s))}

\* Every write some validated command may want.
Commands(s) ==
    (UNION {PageAdd(s, p, path) \cup PageUpdate(s, p, path) : p \in PageId, path \in Path}) \cup
    (UNION {PageRemove(s, p, force) : p \in PageId, force \in BOOLEAN}) \cup
    (UNION {CopySet(s, p) \cup L1Set(s, p) \cup DocumentSet(s, p) : p \in PageId}) \cup
    (UNION {ModuleAdd(s, p, m, slot) : p \in PageId, m \in Module, slot \in Slot \cup {None}}) \cup
    (UNION {ModuleConfigure(s, p, m) \cup ModuleRemove(s, p, m) : p \in PageId, m \in Module}) \cup
    ConfigSet(s) \cup GapsApply(s) \cup
    (UNION {PaletteSet(s, n, h) \cup PaletteAdd(s, n, h) : n \in Name, h \in Hex}) \cup
    (UNION {PaletteRemove(s, n) : n \in Name}) \cup
    (UNION {PaletteRename(s, from, to) : from \in Name, to \in Name})

-----------------------------------------------------------------------------
(* The steps of a command.                                                  *)

Init ==
    /\ \E d \in Drafts : draft = d.def /\ assets = d.assets
    /\ pc = [a \in Actor |-> "idle"]
    /\ seen = [a \in Actor |-> None]
    /\ plan = [a \in Actor |-> None]
    /\ stale = [a \in Actor |-> 0]
    /\ begun = 0
    /\ overlaps = 0

\* readBase.
ReadBase(a) ==
    /\ pc[a] = "idle"
    /\ begun < MaxCommands
    /\ begun' = begun + 1
    /\ pc' = [pc EXCEPT ![a] = "base"]
    /\ seen' = [seen EXCEPT ![a] = draft]
    /\ stale' = [stale EXCEPT ![a] = 0]
    /\ UNCHANGED <<draft, assets, plan, overlaps>>

\* readPageFiles.
ReadPages(a) ==
    /\ pc[a] = "base"
    /\ pc' = [pc EXCEPT ![a] = "pages"]
    /\ seen' = [seen EXCEPT ![a] = [seen[a] EXCEPT !.pages = draft.pages]]
    /\ UNCHANGED <<draft, assets, plan, stale, begun, overlaps>>

\* A command makes the definition it wants from what it read.
Decide(a, wants) ==
    /\ pc[a] = "pages"
    /\ \E w \in wants : plan' = [plan EXCEPT ![a] = w]
    /\ pc' = [pc EXCEPT ![a] = "planned"]
    /\ seen' = [seen EXCEPT ![a] = None]
    /\ UNCHANGED <<draft, assets, stale, begun, overlaps>>

\* Of the definition a write needs the files it writes.
Written(w) ==
    [w EXCEPT !.def =
        [palette |-> IF w.base THEN w.def.palette ELSE [n \in Name |-> None],
         nav |-> IF w.base THEN w.def.nav ELSE {},
         pages |-> [p \in PageId |-> IF p \in w.pages THEN w.def.pages[p] ELSE None]]]

\* validateOrThrow reads the asset listing and the pages as they stand.  (No write
\* touches both, so reading one after the other shows nothing that reading them
\* together does not.)
Check(a) ==
    /\ pc[a] = "planned"
    /\ Accepts(plan[a].def, draft, assets)
    /\ plan' = [plan EXCEPT ![a] = Written(plan[a])]
    /\ pc' = [pc EXCEPT ![a] = "valid"]
    /\ UNCHANGED <<draft, assets, seen, stale, begun, overlaps>>

Forget(a) ==
    /\ pc' = [pc EXCEPT ![a] = "idle"]
    /\ seen' = [seen EXCEPT ![a] = None]
    /\ plan' = [plan EXCEPT ![a] = None]

\* The command refuses what was asked, the definition is refused, or a read fails.
Refuse(a) ==
    /\ pc[a] # "idle"
    /\ Forget(a)
    /\ stale' = [stale EXCEPT ![a] = 0]
    /\ UNCHANGED <<draft, assets, begun, overlaps>>

\* Mutant: a component is added to the page as it stands.
MergedPage(was, w, p) ==
    IF w.op = "component.add" /\ was.pages[p] # None
    THEN [was.pages[p] EXCEPT !.modules = w.def.pages[p].modules]
    ELSE w.def.pages[p]

\* A page is written whole.
WrittenPage(was, w, p) == w.def.pages[p]

UpToTwo(n) == IF n > 2 THEN 2 ELSE n

\* store.write: one transition, whatever the draft has become.
Land(a) ==
    /\ pc[a] = "valid"
    /\ LET w == plan[a]
       IN  /\ draft' = [palette |-> IF w.base THEN w.def.palette ELSE draft.palette,
                        nav |-> IF w.base THEN w.def.nav ELSE draft.nav,
                        pages |-> [p \in PageId |-> IF p \in w.pages
                                                    THEN WrittenPage(draft, w, p)
                                                    ELSE draft.pages[p]]]
           /\ assets' = (assets \cup w.stores) \ w.drops
    /\ Forget(a)
    /\ stale' = [b \in Actor |-> IF b = a \/ pc[b] = "idle" THEN 0 ELSE UpToTwo(stale[b] + 1)]
    /\ UNCHANGED begun
    /\ overlaps' = UpToTwo(overlaps + stale[a])

\* A command on assets: it validates no definition.
DecideAsset(a, op, stores, drops) ==
    /\ pc[a] = "idle"
    /\ begun < MaxCommands
    /\ begun' = begun + 1
    /\ pc' = [pc EXCEPT ![a] = "valid"]
    /\ plan' = [plan EXCEPT ![a] =
           Written([op |-> op, def |-> draft, base |-> FALSE, pages |-> {},
                    stores |-> stores, drops |-> drops])]
    /\ stale' = [stale EXCEPT ![a] = 0]
    /\ UNCHANGED <<draft, assets, seen, overlaps>>

\* editAssetAdd.
AssetAdd(a, x) == x \notin assets /\ DecideAsset(a, "asset.add", {x}, {})

\* editAssetWrite.
AssetWrite(a, x, force) == (x \notin assets \/ force) /\ DecideAsset(a, "asset.write", {x}, {})

\* assetReferences: the fields of components' content that name the asset.
AssetReferences(x) ==
    {p \in Pages(draft) : \E m \in draft.pages[p].modules : x \in m.content}

\* editAssetRm.
AssetRemove(a, x, force) ==
    /\ x \in assets
    /\ AssetReferences(x) = {} \/ force
    /\ DecideAsset(a, "asset.rm", {}, {x})

Next ==
    \E a \in Actor :
        \/ ReadBase(a) \/ ReadPages(a) \/ Check(a) \/ Refuse(a) \/ Land(a)
        \/ \E p \in PageId :
              \/ \E path \in Path : Decide(a, PageAdd(seen[a], p, path))
              \/ \E path \in Path : Decide(a, PageUpdate(seen[a], p, path))
              \/ \E force \in BOOLEAN : Decide(a, PageRemove(seen[a], p, force))
              \/ Decide(a, CopySet(seen[a], p))
              \/ Decide(a, L1Set(seen[a], p))
              \/ Decide(a, DocumentSet(seen[a], p))
              \/ \E m \in Module :
                    \/ \E slot \in Slot \cup {None} : Decide(a, ModuleAdd(seen[a], p, m, slot))
                    \/ Decide(a, ModuleConfigure(seen[a], p, m))
                    \/ Decide(a, ModuleRemove(seen[a], p, m))
        \/ Decide(a, ConfigSet(seen[a]))
        \/ Decide(a, GapsApply(seen[a]))
        \/ \E n \in Name :
              \/ \E h \in Hex : Decide(a, PaletteSet(seen[a], n, h))
              \/ \E h \in Hex : Decide(a, PaletteAdd(seen[a], n, h))
              \/ Decide(a, PaletteRemove(seen[a], n))
              \/ \E to \in Name : Decide(a, PaletteRename(seen[a], n, to))
        \/ \E x \in Asset :
              \/ AssetAdd(a, x)
              \/ \E force \in BOOLEAN : AssetWrite(a, x, force)
              \/ \E force \in BOOLEAN : AssetRemove(a, x, force)

Spec == Init /\ [][Next]_vars

-----------------------------------------------------------------------------
(* What the callers may rely on.                                           *)

\* The command of the actor ends with its write, and nothing landed since it began.
Lands(a) == pc[a] = "valid" /\ pc'[a] = "idle"
LandsFresh(a) == Lands(a) /\ stale[a] = 0

\* However commands overlap, no page ever has a component without its seam, or two
\* in one: what mounts and what is mounted into are written together, from one
\* reading ("a module joins it at a declared seam, never beside it", schema.ts).
PagesMounted == \A p \in Pages(draft) : Mounted(draft.pages[p])

\* "Atomic: a write command assembles the resulting definition and validates it"
\* (edit.ts): any sequence of commands that do not overlap leaves a draft that
\* renders, every path one page's and every color of a document or of a
\* component's slots an entry of the palette.
SiteHolds ==
    overlaps = 0 =>
        /\ \A p, q \in Pages(draft) :
              draft.pages[p].path = draft.pages[q].path => p = q
        /\ \A p \in Pages(draft) :
              /\ \A n \in draft.pages[p].colors : draft.palette[n] \in Hex
              /\ \A m \in draft.pages[p].modules : \A n \in m.colors : draft.palette[n] \in Hex

\* "A write may not introduce a dangling reference; it is not required to repair
\* one it inherited" (edit.ts, validateOrThrow), and "remove the nav entry first,
\* or pass --force to remove it automatically" (editPageRm): unless commands
\* overlapped, no page has a new picture or family that resolves to nothing, but
\* where the file of a picture was removed, and no entry of the navigation comes
\* to lead nowhere, but by config.set, which checks no target.
LeadsNowhere(def) == def.nav \ Pages(def)
IntroducesNothing(a) ==
    LandsFresh(a) =>
        /\ plan[a].op # "asset.rm" =>
              \A p \in PageId :
                  DanglingRefs(draft'.pages[p], assets') \subseteq DanglingRefs(draft.pages[p], assets)
        /\ plan[a].op # "config.set" => LeadsNowhere(draft') \subseteq LeadsNowhere(draft)
NoNewDangling == [][\A a \in Actor : IntroducesNothing(a)]_vars

\* "Rename is total and lossless" (edit.ts, editPaletteRename): every page keeps
\* the values it was painted with, of a draft in which every color resolves.
Painted(def, p) == IF p \in Pages(def) THEN {def.palette[n] : n \in ColorsOf(def.pages[p])} ELSE {}
KeepsColors(a) ==
    LandsFresh(a) /\ plan[a].op = "palette.rename" /\ ColorsResolve(draft) =>
        \A p \in PageId : Painted(draft', p) = Painted(draft, p)
RenameKeepsColors == [][\A a \in Actor : KeepsColors(a)]_vars

\* A draft that one command landing over one other has broken is one that some
\* command still repairs, although every command validates the whole site ("a
\* page nobody can touch" is what the check must not make, edit.ts,
\* validateOrThrow).
Repairable == \E w \in Commands(draft) : Accepts(w.def, draft, assets)
OneOverlapIsRepaired == overlaps <= 1 => ValidSite(draft) \/ Repairable

-----------------------------------------------------------------------------
(* What comments say and the code does not keep.                           *)

\* "No partially-renamed state is reachable from any caller" (edit.ts,
\* editPaletteRename).
NoPartialRename == ColorsResolve(draft)

\* "Renaming onto an existing name would merge two colors" (edit.ts): a rename
\* keeps every page's values, overlapping or not.
RenameNeverMerges ==
    [][\A a \in Actor : Lands(a) /\ plan[a].op = "palette.rename" /\ ColorsResolve(draft) =>
          \A p \in PageId : Painted(draft', p) = Painted(draft, p)]_vars

\* Refusing every write "would make a reproduced page uneditable" (edit.ts,
\* validateOrThrow): some validated command is accepted, whatever overlapped.
NeverWedged == ValidSite(draft) \/ Repairable

\* "A write that creates one must be refused" (edit.ts, validateOrThrow): not even
\* the removal of a file leaves a picture without it.
NoBrokenPicture ==
    [][\A a \in Actor : LandsFresh(a) =>
          \A p \in PageId :
              DanglingRefs(draft'.pages[p], assets') \subseteq DanglingRefs(draft.pages[p], assets)]_vars

=============================================================================
