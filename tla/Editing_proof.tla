----------------------------- MODULE Editing_proof -----------------------------
(***************************************************************************)
(* What the edit commands keep of a site, for any number of callers,       *)
(* pages, colors, files and seams and any number of commands.              *)
(*                                                                         *)
(* The argument is about one proposal, the write a command wants.  It says *)
(* what it leaves alone as it read it, so that its landing on what was     *)
(* read makes the very definition it validated; and nothing has landed     *)
(* since, as long as `stale` is 0.  Whatever landed, the pages it writes   *)
(* are pages that were validated.  The first write that lands over another *)
(* wants of a draft that was one write away: all that can be wrong with    *)
(* what they make together is one page, which some command removes, or one *)
(* color without an entry, which some command adds.                        *)
(*                                                                         *)
(* The second part is the client that shows the site and sends the edits:  *)
(* what the builder's panes show, for any number of businesses, sites and  *)
(* selections, in whatever order their requests are answered.              *)
(***************************************************************************)
EXTENDS Editing, Builder, FiniteSetTheorems, TLAPS

\* The drafts that editing starts from render: a starter site is one blank page,
\* and a reproduction is validated before it is stored (repro.ts).
StartsValid == \A d \in Drafts : ValidSite(d.def)

AssetOp == {"asset.add", "asset.write", "asset.rm"}

\* What a write makes of a draft it lands on.
Applied(w, d) ==
    [palette |-> IF w.base THEN w.def.palette ELSE d.palette,
     nav |-> IF w.base THEN w.def.nav ELSE d.nav,
     pages |-> [p \in PageId |-> IF p \in w.pages THEN w.def.pages[p] ELSE d.pages[p]]]

\* What it does to references and to values there.
Gentle(op, def, d) ==
    /\ op # "config.set" => LeadsNowhere(def) \subseteq LeadsNowhere(d)
    /\ op = "palette.rename" /\ ColorsResolve(d) => \A p \in PageId : Painted(def, p) = Painted(d, p)

\* What it may touch: one page, written or removed; the palette's entries, of which
\* it adds some, removes one no page uses, or renames one where it is used; or
\* every page's spacing.
WritesPage(w) == ~w.base /\ \E p \in PageId : w.pages = {p}
RemovesPage(w, s) ==
    /\ w.base /\ w.def.palette = s.palette
    /\ \E p \in PageId : w.pages = {p} /\ w.def.pages[p] = None
AddsEntries(w, s) == w.base /\ w.pages = {} /\ Entries(s) \subseteq Entries(w.def)
RemovesEntry(w, s) ==
    /\ w.base /\ w.pages = {}
    /\ \E n : Users(s, n) = {} /\ Entries(s) \subseteq Entries(w.def) \cup {n}
RenamesEntry(w, s) ==
    /\ w.base
    /\ \E from, to :
          /\ w.pages = Users(s, from)
          /\ Entries(s) \subseteq Entries(w.def) \cup {from}
          /\ \A p \in PageId :
                /\ p \in Pages(w.def) <=> p \in Pages(s)
                /\ p \in Pages(s) =>
                      /\ w.def.pages[p].path = s.pages[p].path
                      /\ ColorsOf(w.def.pages[p]) \subseteq ColorsOf(s.pages[p]) \cup {to}
Respaces(w, s) == ~w.base /\ w.def = s /\ w.pages = Pages(s)
Shaped(w, s) ==
    \/ WritesPage(w) \/ RemovesPage(w, s) \/ AddsEntries(w, s)
    \/ RemovesEntry(w, s) \/ RenamesEntry(w, s) \/ Respaces(w, s)

\* The write a command wants of the definition it read: it makes the definition
\* that was meant, and touches no file beside.
Wanted(w, s) ==
    /\ w \in Proposal
    /\ w.op \notin AssetOp /\ w.stores = {} /\ w.drops = {}
    /\ Applied(w, s) = w.def
    /\ Gentle(w.op, w.def, s)
    /\ Shaped(w, s)

-----------------------------------------------------------------------------
(* The commands.                                                            *)

\* Definitions that agree are one.
LEMMA Agree ==
    ASSUME NEW d \in Definition, NEW e \in Definition, d.palette = e.palette, d.nav = e.nav,
           \A p \in PageId : d.pages[p] = e.pages[p]
    PROVE  d = e
<1>1. d.pages = e.pages
  BY DEF Definition
<1> QED
  BY <1>1 DEF Definition

\* What lands on a definition makes one.
LEMMA AppliedIsDefinition ==
    ASSUME NEW w \in Proposal, NEW d \in Definition
    PROVE  Applied(w, d) \in Definition
<1>1. w.def \in Definition /\ w.base \in BOOLEAN
  BY DEF Proposal
<1> QED
  BY <1>1 DEF Applied, Definition

\* A definition in which one page is another.
LEMMA WithPageIs ==
    ASSUME NEW s \in Definition, NEW p \in PageId, NEW page \in Page \cup {None}
    PROVE  /\ WithPage(s, p, page) \in Definition
           /\ WithPage(s, p, page).palette = s.palette
           /\ WithPage(s, p, page).nav = s.nav
           /\ \A q \in PageId : WithPage(s, p, page).pages[q] = IF q = p THEN page ELSE s.pages[q]
  BY DEF WithPage, Definition

\* The fields of a write a command wants.
LEMMA WantIs ==
    ASSUME NEW op \in Op \ AssetOp, NEW def \in Definition, NEW base \in BOOLEAN,
           NEW pages \in SUBSET PageId
    PROVE  /\ Want(op, def, base, pages) \in Proposal
           /\ Want(op, def, base, pages).op = op /\ Want(op, def, base, pages).def = def
           /\ Want(op, def, base, pages).base = base /\ Want(op, def, base, pages).pages = pages
           /\ Want(op, def, base, pages).stores = {} /\ Want(op, def, base, pages).drops = {}
  BY DEF Want, Proposal

\* A write that writes whatever differs is wanted as it is gentle.
LEMMA WantedAsWritten ==
    ASSUME NEW s \in Definition, NEW op \in Op \ AssetOp, NEW def \in Definition,
           NEW base \in BOOLEAN, NEW pages \in SUBSET PageId,
           base \/ (def.palette = s.palette /\ def.nav = s.nav),
           \A p \in PageId \ pages : def.pages[p] = s.pages[p],
           Gentle(op, def, s), Shaped(Want(op, def, base, pages), s)
    PROVE  Wanted(Want(op, def, base, pages), s)
<1> DEFINE w == Want(op, def, base, pages)
<1>1. /\ w \in Proposal /\ w.op = op /\ w.def = def /\ w.base = base /\ w.pages = pages
      /\ w.stores = {} /\ w.drops = {}
  BY WantIs
<1> HIDE DEF w
<1>2. Applied(w, s) \in Definition
  BY <1>1, AppliedIsDefinition
<1>3. /\ Applied(w, s).palette = def.palette /\ Applied(w, s).nav = def.nav
      /\ \A p \in PageId : Applied(w, s).pages[p] = def.pages[p]
  BY <1>1 DEF Applied
<1>4. Applied(w, s) = def
  BY <1>2, <1>3, Agree
<1> QED
  BY <1>1, <1>4 DEF Wanted, w

\* A write of one page and no more is one of those it may be.
LEMMA WritesOne ==
    ASSUME NEW op, NEW def, NEW p \in PageId
    PROVE  WritesPage(Want(op, def, FALSE, {p}))
  BY DEF WritesPage, Want

\* A write of one page, of a command that neither removes it nor renames a color.
LEMMA PageWanted ==
    ASSUME NEW s \in Definition, NEW p \in PageId, NEW page \in Page,
           NEW op \in Op \ (AssetOp \cup {"config.set", "palette.rename"})
    PROVE  Wanted(Want(op, WithPage(s, p, page), FALSE, {p}), s)
<1> DEFINE def == WithPage(s, p, page)
<1>1. /\ def \in Definition /\ def.palette = s.palette /\ def.nav = s.nav
      /\ \A q \in PageId : def.pages[q] = IF q = p THEN page ELSE s.pages[q]
  BY WithPageIs
<1> HIDE DEF def
<1>2. LeadsNowhere(def) \subseteq LeadsNowhere(s)
  BY <1>1, NoneIsNoValue DEF LeadsNowhere, Pages
<1>3. Gentle(op, def, s)
  BY <1>2 DEF Gentle
<1>4. Shaped(Want(op, def, FALSE, {p}), s)
  BY WritesOne DEF Shaped
<1>5. Wanted(Want(op, def, FALSE, {p}), s)
  BY <1>1, <1>3, <1>4, WantedAsWritten
<1> QED
  BY <1>5 DEF def

\* A write of the definition as it was read, of one page or of all.
LEMMA SameWanted ==
    ASSUME NEW s \in Definition, NEW pages \in {{p} : p \in PageId} \cup {Pages(s)},
           NEW op \in Op \ (AssetOp \cup {"config.set", "palette.rename"})
    PROVE  Wanted(Want(op, s, FALSE, pages), s)
<1>1. Gentle(op, s, s)
  BY DEF Gentle
<1>2. pages \in SUBSET PageId
  BY DEF Pages
<1>3. Shaped(Want(op, s, FALSE, pages), s)
  <2>1. CASE pages \in {{p} : p \in PageId}
    BY <2>1, WritesOne DEF Shaped
  <2>2. CASE pages = Pages(s)
    BY <2>2 DEF Shaped, Respaces, Want
  <2> QED
    BY <2>1, <2>2
<1> QED
  BY <1>1, <1>2, <1>3, WantedAsWritten

\* A write of site.json with another palette.
LEMMA PaletteWanted ==
    ASSUME NEW s \in Definition, NEW palette \in [Name -> Hex \cup {None}],
           NEW op \in Op \ (AssetOp \cup {"palette.rename"}),
           \/ \A n \in Name : s.palette[n] # None => palette[n] # None
           \/ \E c : Users(s, c) = {} /\ \A n \in Name \ {c} : palette[n] = s.palette[n]
    PROVE  Wanted(Want(op, [s EXCEPT !.palette = palette], TRUE, {}), s)
<1> DEFINE def == [s EXCEPT !.palette = palette]
<1>1. def \in Definition /\ def.pages = s.pages /\ def.nav = s.nav /\ def.palette = palette
  BY DEF Definition
<1> HIDE DEF def
<1>2. Gentle(op, def, s)
  BY <1>1 DEF Gentle, LeadsNowhere, Pages
<1> DEFINE w == Want(op, def, TRUE, {})
<1>3. w.def = def /\ w.base = TRUE /\ w.pages = {}
  BY DEF Want
<1> HIDE DEF w
<1>4. AddsEntries(w, s) \/ RemovesEntry(w, s)
  BY <1>1, <1>3 DEF AddsEntries, RemovesEntry, Entries
<1>5. Wanted(w, s)
  BY <1>1, <1>2, <1>4, WantedAsWritten DEF w, Shaped
<1> QED
  BY <1>5 DEF def, w

\* A page with one of its fields changed is a page.
LEMMA ChangedPage ==
    ASSUME NEW page \in Page
    PROVE  /\ \A x \in Path : [page EXCEPT !.path = x] \in Page
           /\ \A x \in SUBSET Slot : [page EXCEPT !.slots = x] \in Page
           /\ \A x \in SUBSET Name : [page EXCEPT !.colors = x] \in Page
           /\ \A x \in SUBSET Asset : [page EXCEPT !.pics = x] \in Page
           /\ \A x \in SUBSET Family : [page EXCEPT !.uses = x] \in Page
           /\ \A x \in SUBSET Family : [page EXCEPT !.serves = x] \in Page
           /\ \A x \in SUBSET Instance : [page EXCEPT !.modules = x] \in Page
  BY DEF Page

\* A written reference is one of all there are.
LEMMA RewrittenIs ==
    ASSUME NEW S, NEW all, S \subseteq all
    PROVE  Rewritten(S, all) \subseteq SUBSET all
<1> SUFFICES ASSUME NEW T \in Rewritten(S, all) PROVE T \subseteq all
  OBVIOUS
<1>1. PICK out \in {{}} \cup {{x} : x \in S}, come \in {{}} \cup {{x} : x \in all} : T = (S \ out) \cup come
  BY DEF Rewritten
<1>2. come \subseteq all
  OBVIOUS
<1> QED
  BY <1>1, <1>2

\* What an editor makes of a page is a page.
LEMMA EditedPage ==
    ASSUME NEW page \in Page
    PROVE  Repainted(page) \cup Restyled(page) \cup Replaced(page) \subseteq Page
<1>1. /\ page.colors \subseteq Name /\ page.pics \subseteq Asset /\ page.uses \subseteq Family
      /\ page.modules \subseteq Instance
      /\ page.slots # None => page.slots \subseteq Slot
  BY DEF Page
<1>2. Repainted(page) \subseteq Page
  <2>1. Rewritten(page.colors, Name) \subseteq SUBSET Name /\ Rewritten(page.pics, Asset) \subseteq SUBSET Asset
    BY <1>1, RewrittenIs
  <2> QED
    BY <2>1, ChangedPage DEF Repainted
<1>3. Replaced(page) \subseteq Page
  <2>1. \A f \in Family : Toggle(page.uses, f) \subseteq Family
    BY <1>1 DEF Toggle
  <2>2. page.slots # None => \A x \in Slot : Toggle(page.slots, x) \subseteq Slot
    BY <1>1 DEF Toggle
  <2> QED
    BY <2>1, <2>2, ChangedPage DEF Replaced
<1>4. ASSUME NEW m \in page.modules, NEW c \in Rewritten(m.colors, Name)
      PROVE  [page EXCEPT !.modules = (page.modules \ {m}) \cup {[m EXCEPT !.colors = c]}] \in Page
  <2>1. m \in Instance /\ m.colors \subseteq Name
    BY <1>1 DEF Instance
  <2>2. c \in SUBSET Name
    BY <1>4, <2>1, RewrittenIs
  <2>3. [m EXCEPT !.colors = c] \in Instance
    BY <2>1, <2>2 DEF Instance
  <2> QED
    BY <1>1, <2>3, ChangedPage
<1>5. Restyled(page) \subseteq Page
  BY <1>4 DEF Restyled
<1> QED
  BY <1>2, <1>3, <1>5

\* A page that is added, edited, or given or rid of a component.
LEMMA PageCommandsWanted ==
    ASSUME NEW s \in Definition, NEW p \in PageId
    PROVE  /\ \A path \in Path : \A w \in PageAdd(s, p, path) \cup PageUpdate(s, p, path) : Wanted(w, s)
           /\ \A w \in CopySet(s, p) \cup L1Set(s, p) \cup DocumentSet(s, p) : Wanted(w, s)
           /\ \A m \in Module, slot \in Slot \cup {None} :
                 \A w \in ModuleAdd(s, p, m, slot) \cup ModuleConfigure(s, p, m) \cup ModuleRemove(s, p, m) :
                    Wanted(w, s)
<1> DEFINE Ops == {"page.add", "page.update", "copy.set", "l1.set", "document.set", "component.add",
                   "component.rm"}
<1>1. \A page \in Page, op \in Ops : Wanted(Want(op, WithPage(s, p, page), FALSE, {p}), s)
  BY PageWanted DEF Op, AssetOp
<1>2. s.pages[p] \in Page \cup {None}
  BY DEF Definition
<1>3. p \in Pages(s) => s.pages[p] \in Page
  BY <1>2 DEF Pages
<1>4. ASSUME NEW path \in Path, NEW w \in PageAdd(s, p, path) PROVE Wanted(w, s)
  <2>1. NewPage(path) \in Page
    BY DEF NewPage, Page
  <2> QED
    BY <1>1, <1>4, <2>1 DEF PageAdd
<1>5. ASSUME NEW path \in Path, NEW w \in PageUpdate(s, p, path) PROVE Wanted(w, s)
  BY <1>1, <1>3, <1>5, ChangedPage DEF PageUpdate
<1>6. ASSUME NEW w \in CopySet(s, p) \cup L1Set(s, p) PROVE Wanted(w, s)
  <2>1. PICK page \in Repainted(s.pages[p]) \cup Restyled(s.pages[p]) \cup Replaced(s.pages[p]),
             op \in {"copy.set", "l1.set"} :
            p \in Pages(s) /\ w = Want(op, WithPage(s, p, page), FALSE, {p})
    BY <1>6 DEF CopySet, L1Set
  <2>2. page \in Page
    BY <1>3, <2>1, EditedPage
  <2> QED
    BY <1>1, <2>1, <2>2
<1>7. ASSUME NEW w \in DocumentSet(s, p) PROVE Wanted(w, s)
  <2>1. PICK f \in Family :
            /\ p \in Pages(s)
            /\ w = Want("document.set", WithPage(s, p, [s.pages[p] EXCEPT !.serves = Toggle(@, f)]), FALSE, {p})
    BY <1>7 DEF DocumentSet
  <2>2. s.pages[p].serves \subseteq Family /\ Toggle(s.pages[p].serves, f) \subseteq Family
    BY <1>3, <2>1 DEF Page, Toggle
  <2>3. [s.pages[p] EXCEPT !.serves = Toggle(@, f)] \in Page
    BY <1>3, <2>1, <2>2 DEF Page
  <2> QED
    BY <1>1, <2>1, <2>3
<1>8. ASSUME NEW m \in Module, NEW slot \in Slot \cup {None}, NEW w \in ModuleAdd(s, p, m, slot)
      PROVE  Wanted(w, s)
  <2> DEFINE i == [id |-> m, slot |-> slot, colors |-> {}, content |-> {}]
             page == [s.pages[p] EXCEPT !.modules = s.pages[p].modules \cup {i}]
  <2>1. w = Want("component.add", WithPage(s, p, page), FALSE, {p}) /\ p \in Pages(s)
    BY <1>8 DEF ModuleAdd
  <2>2. i \in Instance
    BY DEF Instance
  <2>3. page \in Page
    BY <1>3, <2>1, <2>2 DEF Page
  <2> HIDE DEF page
  <2> QED
    BY <1>1, <2>1, <2>3
<1>9. ASSUME NEW m \in Module, NEW w \in ModuleRemove(s, p, m) PROVE Wanted(w, s)
  <2> DEFINE page == [s.pages[p] EXCEPT !.modules = {i \in s.pages[p].modules : i.id # m}]
  <2>1. w = Want("component.rm", WithPage(s, p, page), FALSE, {p}) /\ p \in Pages(s)
    BY <1>9 DEF ModuleRemove
  <2>2. page \in Page
    BY <1>3, <2>1 DEF Page
  <2> HIDE DEF page
  <2> QED
    BY <1>1, <2>1, <2>2
<1>10. ASSUME NEW m \in Module, NEW w \in ModuleConfigure(s, p, m) PROVE Wanted(w, s)
  BY <1>10, SameWanted DEF ModuleConfigure, Op, AssetOp
<1> QED
  BY <1>4, <1>5, <1>6, <1>7, <1>8, <1>9, <1>10

\* A page that is removed takes its entries of the navigation with it.
LEMMA PageRemoveWanted ==
    ASSUME NEW s \in Definition, NEW p \in PageId, NEW force \in BOOLEAN, NEW w \in PageRemove(s, p, force)
    PROVE  Wanted(w, s)
<1> DEFINE t == [s EXCEPT !.nav = s.nav \ {p}]
           def == WithPage(t, p, None)
<1>1. t \in Definition /\ t.palette = s.palette /\ t.nav = s.nav \ {p} /\ t.pages = s.pages
  BY DEF Definition
<1>2. w = Want("page.rm", def, p \in s.nav, {p})
  BY DEF PageRemove
<1> HIDE DEF t
<1>3. /\ def \in Definition /\ def.palette = s.palette /\ def.nav = s.nav \ {p}
      /\ \A q \in PageId : def.pages[q] = IF q = p THEN None ELSE s.pages[q]
  BY <1>1, WithPageIs
<1> HIDE DEF def
<1> DEFINE op == "page.rm"
<1>4. Gentle(op, def, s)
  BY <1>3 DEF Gentle, LeadsNowhere, Pages
<1>5. (p \in s.nav) \in BOOLEAN /\ (~(p \in s.nav) => def.nav = s.nav)
  BY <1>3
<1>6. op \in Op \ AssetOp
  BY DEF Op, AssetOp
<1> HIDE DEF op
<1>7. \A q \in PageId \ {p} : def.pages[q] = s.pages[q]
  BY <1>3
<1> DEFINE base == p \in s.nav
<1>8. base \in BOOLEAN
  OBVIOUS
<1>9. base \/ (def.palette = s.palette /\ def.nav = s.nav)
  BY <1>3, <1>5
<1> HIDE DEF base
<1>10. Shaped(Want(op, def, base, {p}), s)
  BY <1>3, <1>6, <1>8, WantIs DEF Shaped, WritesPage, RemovesPage
<1>11. Wanted(Want(op, def, base, {p}), s)
  BY <1>3, <1>4, <1>6, <1>7, <1>8, <1>9, <1>10, WantedAsWritten
<1> QED
  BY <1>2, <1>11 DEF op, base

\* What site.json alone is written for.
LEMMA BaseCommandsWanted ==
    ASSUME NEW s \in Definition
    PROVE  /\ \A w \in ConfigSet(s) \cup GapsApply(s) : Wanted(w, s)
           /\ \A n \in Name : \A w \in PaletteRemove(s, n) : Wanted(w, s)
           /\ \A n \in Name, h \in Hex : \A w \in PaletteSet(s, n, h) \cup PaletteAdd(s, n, h) : Wanted(w, s)
<1>1. s.palette \in [Name -> Hex \cup {None}]
  BY DEF Definition
<1>2. ASSUME NEW w \in GapsApply(s) PROVE Wanted(w, s)
  BY <1>2, SameWanted DEF GapsApply, Pages, Op, AssetOp
<1>3. ASSUME NEW n \in Name, NEW h \in Hex \cup {None}, NEW op \in {"palette.set", "palette.add", "palette.rm"},
             h # None \/ Users(s, n) = {}
      PROVE  Wanted(Want(op, WithEntry(s, n, h), TRUE, {}), s)
  <2> DEFINE palette == [s.palette EXCEPT ![n] = h]
  <2>1. palette \in [Name -> Hex \cup {None}]
    BY <1>1
  <2>2. palette[n] = h /\ \A c \in Name \ {n} : palette[c] = s.palette[c]
    BY <1>1
  <2> HIDE DEF palette
  <2>3. \/ \A c \in Name : s.palette[c] # None => palette[c] # None
        \/ \E e : Users(s, e) = {} /\ \A c \in Name \ {e} : palette[c] = s.palette[c]
    BY <1>3, <2>2
  <2>4. op \in Op \ (AssetOp \cup {"palette.rename"})
    BY DEF Op, AssetOp
  <2>5. Wanted(Want(op, [s EXCEPT !.palette = palette], TRUE, {}), s)
    BY <2>1, <2>3, <2>4, PaletteWanted
  <2> QED
    BY <2>5 DEF WithEntry, palette
<1>4. ASSUME NEW p \in PageId
      PROVE  Wanted(Want("config.set", [s EXCEPT !.nav = Toggle(s.nav, p)], TRUE, {}), s)
  <2> DEFINE def == [s EXCEPT !.nav = Toggle(s.nav, p)]
  <2>1. s.nav \subseteq PageId /\ Toggle(s.nav, p) \subseteq PageId
    BY DEF Definition, Toggle
  <2>2. def \in Definition /\ def.pages = s.pages /\ def.palette = s.palette
    BY <2>1 DEF Definition
  <2> HIDE DEF def
  <2> DEFINE op == "config.set"
  <2>3. Gentle(op, def, s)
    BY DEF Gentle
  <2>4. op \in Op \ AssetOp
    BY DEF Op, AssetOp
  <2> HIDE DEF op
  <2>5. Shaped(Want(op, def, TRUE, {}), s)
    BY <2>2 DEF Shaped, AddsEntries, Entries, Want
  <2>6. Wanted(Want(op, def, TRUE, {}), s)
    BY <2>2, <2>3, <2>4, <2>5, WantedAsWritten
  <2> QED
    BY <2>6 DEF def, op
<1>5. ASSUME NEW given \in SUBSET Name, NEW h \in Hex
      PROVE  Wanted(Want("config.set",
                 [s EXCEPT !.palette = [n \in Name |-> IF n \in given THEN h ELSE s.palette[n]]],
                 TRUE, {}), s)
  <2> DEFINE palette == [n \in Name |-> IF n \in given THEN h ELSE s.palette[n]]
  <2>1. palette \in [Name -> Hex \cup {None}] /\ \A n \in Name : s.palette[n] # None => palette[n] # None
    BY <1>1, NoneIsNoValue
  <2>2. "config.set" \in Op \ (AssetOp \cup {"palette.rename"})
    BY DEF Op, AssetOp
  <2> HIDE DEF palette
  <2>3. Wanted(Want("config.set", [s EXCEPT !.palette = palette], TRUE, {}), s)
    BY <2>1, <2>2, PaletteWanted
  <2> QED
    BY <2>3 DEF palette
<1>6. ASSUME NEW w \in ConfigSet(s) PROVE Wanted(w, s)
  <2> DEFINE Moved(p) == Want("config.set", [s EXCEPT !.nav = Toggle(s.nav, p)], TRUE, {})
             Merged(given, h) ==
                 Want("config.set",
                      [s EXCEPT !.palette = [n \in Name |-> IF n \in given THEN h ELSE s.palette[n]]],
                      TRUE, {})
  <2>1. \A p \in PageId : Wanted(Moved(p), s)
    BY <1>4
  <2>2. \A given \in SUBSET Name, h \in Hex : Wanted(Merged(given, h), s)
    BY <1>5
  <2>3. ConfigSet(s) = {Moved(p) : p \in PageId} \cup
                       {Merged(given, h) : given \in (SUBSET Name) \ {{}}, h \in Hex}
    BY DEF ConfigSet
  <2> HIDE DEF Moved, Merged
  <2> QED
    BY <1>6, <2>1, <2>2, <2>3
<1> QED
  BY <1>2, <1>3, <1>6, NoneIsNoValue DEF PaletteRemove, PaletteSet, PaletteAdd

\* The colors of a page in which one name has become another.
LEMMA RenamedColors ==
    ASSUME NEW page \in Page, NEW from \in Name, NEW to \in Name
    PROVE  /\ RenamedPage(page, from, to) \in Page
           /\ from \notin ColorsOf(page) => RenamedPage(page, from, to) = page
           /\ \A n : n \in ColorsOf(RenamedPage(page, from, to)) <=>
                 \/ n \in ColorsOf(page) /\ n # from
                 \/ n = to /\ from \in ColorsOf(page)
<1> DEFINE new == RenamedPage(page, from, to)
           all == {[m EXCEPT !.colors = Renamed(m.colors, from, to)] : m \in page.modules}
<1>1. page.colors \subseteq Name /\ page.modules \subseteq Instance
  BY DEF Page
<1>2. ASSUME NEW m \in page.modules
      PROVE  /\ [m EXCEPT !.colors = Renamed(m.colors, from, to)] \in Instance
             /\ [m EXCEPT !.colors = Renamed(m.colors, from, to)].colors = Renamed(m.colors, from, to)
             /\ from \notin m.colors => [m EXCEPT !.colors = Renamed(m.colors, from, to)] = m
  BY <1>1 DEF Instance, Renamed
<1>3. all \subseteq Instance /\ Renamed(page.colors, from, to) \subseteq Name
  BY <1>1, <1>2 DEF Renamed
<1>4. new = [page EXCEPT !.colors = Renamed(page.colors, from, to), !.modules = all]
  BY DEF RenamedPage
<1> HIDE DEF all
<1>5. new \in Page /\ new.colors = Renamed(page.colors, from, to) /\ new.modules = all
  BY <1>3, <1>4 DEF Page
<1>6. ASSUME from \notin ColorsOf(page) PROVE new = page
  <2>1. from \notin page.colors /\ \A m \in page.modules : from \notin m.colors
    BY <1>6 DEF ColorsOf
  <2>2. all = page.modules
    <3>1. \A m \in page.modules : [m EXCEPT !.colors = Renamed(m.colors, from, to)] = m
      BY <1>2, <2>1
    <3> QED
      BY <3>1, Zenon DEF all
  <2>3. Renamed(page.colors, from, to) = page.colors
    BY <2>1 DEF Renamed
  <2> QED
    BY <1>4, <2>2, <2>3 DEF Page
<1> HIDE DEF new
<1>7. ASSUME NEW n
      PROVE  n \in ColorsOf(new) <=> \/ n \in ColorsOf(page) /\ n # from
                                     \/ n = to /\ from \in ColorsOf(page)
  <2>1. n \in ColorsOf(new) <=> n \in Renamed(page.colors, from, to) \/ \E i \in all : n \in i.colors
    BY <1>5 DEF ColorsOf
  <2>2. (\E i \in all : n \in i.colors) <=> \E m \in page.modules : n \in Renamed(m.colors, from, to)
    BY <1>2 DEF all
  <2>3. \A c : c \in ColorsOf(page) <=> c \in page.colors \/ \E m \in page.modules : c \in m.colors
    BY DEF ColorsOf
  <2>4. \A S : n \in Renamed(S, from, to) <=> (n \in S /\ n # from) \/ (n = to /\ from \in S)
    BY DEF Renamed
  <2> QED
    BY <2>1, <2>2, <2>3, <2>4
<1> QED
  BY <1>5, <1>6, <1>7 DEF new

\* A color that is renamed keeps what it painted, if the name it gets is free and
\* every color resolves.
LEMMA RenameWanted ==
    ASSUME NEW s \in Definition, NEW from \in Name, NEW to \in Name, NEW w \in PaletteRename(s, from, to)
    PROVE  Wanted(w, s)
<1> DEFINE def == RenamedSite(s, from, to)
           palette == [n \in Name |-> IF n = to THEN s.palette[from]
                                      ELSE IF n = from THEN None ELSE s.palette[n]]
           pages == [p \in PageId |-> IF p \in Pages(s) THEN RenamedPage(s.pages[p], from, to) ELSE None]
<1>1. /\ s.palette[from] # None /\ s.palette[to] = None /\ to # from
      /\ w = Want("palette.rename", def, TRUE, Users(s, from))
  BY DEF PaletteRename
<1>2. s.palette \in [Name -> Hex \cup {None}] /\ s.pages \in [PageId -> Page \cup {None}]
  BY DEF Definition
<1>3. \A p \in Pages(s) : p \in PageId /\ s.pages[p] \in Page
  BY <1>2 DEF Pages
<1>4. palette \in [Name -> Hex \cup {None}] /\ pages \in [PageId -> Page \cup {None}]
  BY <1>2, <1>3, RenamedColors
<1>5. def \in Definition /\ def.palette = palette /\ def.pages = pages /\ def.nav = s.nav
  BY <1>4 DEF Definition, RenamedSite
<1> HIDE DEF def
<1>6. Pages(def) = Pages(s)
  <2>1. \A p \in Pages(s) : pages[p] # None
    BY <1>3, RenamedColors, NoneIsNoValue
  <2>2. \A p \in PageId : pages[p] # None <=> p \in Pages(s)
    BY <2>1
  <2> QED
    BY <1>5, <2>2 DEF Pages
<1>7. \A p \in PageId \ Users(s, from) : def.pages[p] = s.pages[p]
  BY <1>3, <1>5, RenamedColors DEF Users, Pages
<1>8. ASSUME ColorsResolve(s), NEW p \in PageId PROVE Painted(def, p) = Painted(s, p)
  <2>1. CASE p \notin Pages(s)
    BY <1>6, <2>1 DEF Painted
  <2>2. CASE p \in Pages(s)
    <3>1. /\ s.pages[p] \in Page /\ def.pages[p] = RenamedPage(s.pages[p], from, to)
      BY <1>3, <1>5, <2>2
    <3>2. \A n \in ColorsOf(s.pages[p]) : n # to /\ n \in Name
      <4>1. ColorsOf(s.pages[p]) \subseteq Name
        BY <3>1 DEF ColorsOf, Page, Instance
      <4> QED
        BY <1>1, <1>8, <2>2, <4>1 DEF ColorsResolve
    <3>3. \A n : n \in ColorsOf(def.pages[p]) <=> \/ n \in ColorsOf(s.pages[p]) /\ n # from
                                                  \/ n = to /\ from \in ColorsOf(s.pages[p])
      BY <3>1, RenamedColors
    <3>4. /\ def.palette[to] = s.palette[from]
          /\ \A n \in Name : n # to /\ n # from => def.palette[n] = s.palette[n]
      BY <1>5
    <3>5. {def.palette[n] : n \in ColorsOf(def.pages[p])} = {s.palette[n] : n \in ColorsOf(s.pages[p])}
      <4>1. ASSUME NEW n \in ColorsOf(def.pages[p])
            PROVE  def.palette[n] \in {s.palette[c] : c \in ColorsOf(s.pages[p])}
        BY <3>2, <3>3, <3>4
      <4>2. ASSUME NEW n \in ColorsOf(s.pages[p])
            PROVE  s.palette[n] \in {def.palette[c] : c \in ColorsOf(def.pages[p])}
        BY <3>2, <3>3, <3>4
      <4> QED
        BY <4>1, <4>2
    <3> QED
      BY <1>6, <2>2, <3>5 DEF Painted
  <2> QED
    BY <2>1, <2>2
<1>9. Gentle("palette.rename", def, s)
  BY <1>5, <1>6, <1>8 DEF Gentle, LeadsNowhere
<1>10. Entries(s) \subseteq Entries(def) \cup {from}
  BY <1>1, <1>5 DEF Entries
<1>11. \A p \in PageId :
          /\ p \in Pages(def) <=> p \in Pages(s)
          /\ p \in Pages(s) => /\ def.pages[p].path = s.pages[p].path
                              /\ ColorsOf(def.pages[p]) \subseteq ColorsOf(s.pages[p]) \cup {to}
  <2> SUFFICES ASSUME NEW p \in Pages(s)
               PROVE  /\ def.pages[p].path = s.pages[p].path
                      /\ ColorsOf(def.pages[p]) \subseteq ColorsOf(s.pages[p]) \cup {to}
    BY <1>6
  <2>1. s.pages[p] \in Page /\ def.pages[p] = RenamedPage(s.pages[p], from, to)
    BY <1>3, <1>5
  <2>2. RenamedPage(s.pages[p], from, to).path = s.pages[p].path
    BY <2>1 DEF RenamedPage, Page
  <2> QED
    BY <2>1, <2>2, RenamedColors
<1> DEFINE op == "palette.rename"
<1>12. op \in Op \ AssetOp /\ Users(s, from) \in SUBSET PageId
  BY DEF Op, AssetOp, Users, Pages
<1> HIDE DEF op
<1>13. Shaped(Want(op, def, TRUE, Users(s, from)), s)
  <2>1. /\ Want(op, def, TRUE, Users(s, from)).def = def
        /\ Want(op, def, TRUE, Users(s, from)).base = TRUE
        /\ Want(op, def, TRUE, Users(s, from)).pages = Users(s, from)
    BY DEF Want
  <2>2. RenamesEntry(Want(op, def, TRUE, Users(s, from)), s)
    BY <1>10, <1>11, <2>1 DEF RenamesEntry
  <2> QED
    BY <2>2 DEF Shaped
<1> QED
  BY <1>1, <1>5, <1>7, <1>9, <1>12, <1>13, WantedAsWritten DEF op
-----------------------------------------------------------------------------
(* The invariant.                                                           *)

\* A command nothing has landed under has read the draft as it stands ...
ReadsTheDraft == \A a \in Actor : pc[a] \in {"base", "pages"} /\ stale[a] = 0 => seen[a] = draft

\* ... and wants a write of it.
PlansTheDraft == \A a \in Actor : pc[a] = "planned" /\ stale[a] = 0 => Wanted(plan[a], draft)

\* Whatever landed, the pages a checked write writes are pages that were checked.
PlansMount ==
    \A a \in Actor : pc[a] = "valid" =>
        \A p \in plan[a].pages : plan[a].def.pages[p] # None => Mounted(plan[a].def.pages[p])

\* What a checked write makes of the draft and the files it was checked against ...
Edits(w, d, held) ==
    /\ w.op \notin AssetOp /\ w.stores = {} /\ w.drops = {}
    /\ ValidSite(Applied(w, d))
    /\ \A p \in PageId :
          DanglingRefs(Applied(w, d).pages[p], held) \subseteq DanglingRefs(d.pages[p], held)
    /\ Gentle(w.op, Applied(w, d), d)

\* ... and what one of files alone leaves alone.
Files(w) ==
    /\ w.op \in AssetOp /\ w.base = FALSE /\ w.pages = {}
    /\ w.op # "asset.rm" => w.drops = {}

ChecksTheDraft ==
    \A a \in Actor : pc[a] = "valid" /\ stale[a] = 0 =>
        Edits(plan[a], draft, assets) \/ Files(plan[a])

EditInv == TypeOK /\ ReadsTheDraft /\ PlansTheDraft /\ PlansMount /\ ChecksTheDraft

\* What the draft itself keeps, when it was valid to begin with.
SiteInv == PagesMounted /\ (overlaps = 0 => ValidSite(draft))
-----------------------------------------------------------------------------
(* The steps.                                                               *)

\* Every command on the definition makes a write it wants, ...
Decides(a) ==
    /\ pc[a] = "pages"
    /\ \E w \in Proposal : Wanted(w, seen[a]) /\ plan' = [plan EXCEPT ![a] = w]
    /\ pc' = [pc EXCEPT ![a] = "planned"]
    /\ seen' = [seen EXCEPT ![a] = None]
    /\ UNCHANGED <<draft, assets, stale, begun, overlaps>>

\* ... and every command on files one that touches nothing else.
DecidesFiles(a) ==
    \E op \in AssetOp, stores \in SUBSET Asset, drops \in SUBSET Asset :
        (op # "asset.rm" => drops = {}) /\ DecideAsset(a, op, stores, drops)

\* A set of wanted writes decides.
LEMMA WantsDecide ==
    ASSUME NEW a \in Actor, NEW wants, \A w \in wants : Wanted(w, seen[a]), Decide(a, wants)
    PROVE  Decides(a)
<1>1. PICK w \in wants : plan' = [plan EXCEPT ![a] = w]
  BY DEF Decide
<1>2. Wanted(w, seen[a]) /\ w \in Proposal
  BY DEF Wanted
<1> QED
  BY <1>1, <1>2 DEF Decide, Decides

\* What a command has read is a definition, what it wants a proposal.
LEMMA HeldIsOfItsKind ==
    ASSUME TypeOK, NEW a \in Actor
    PROVE  /\ pc[a] \in {"base", "pages"} => seen[a] \in Definition
           /\ pc[a] \in {"planned", "valid"} => plan[a] \in Proposal
  BY NoneIsNoValue DEF TypeOK

\* The steps there are.
LEMMA NextIs ==
    ASSUME TypeOK, Next
    PROVE  \E a \in Actor : \/ ReadBase(a) \/ ReadPages(a) \/ Check(a) \/ Refuse(a) \/ Land(a)
                            \/ Decides(a) \/ DecidesFiles(a)
<1>1. PICK a \in Actor :
        \/ ReadBase(a) \/ ReadPages(a) \/ Check(a) \/ Refuse(a) \/ Land(a)
        \/ \E p \in PageId :
              \/ \E path \in Path : Decide(a, PageAdd(seen[a], p, path))
              \/ \E path \in Path : Decide(a, PageUpdate(seen[a], p, path))
              \/ \E force \in BOOLEAN : Decide(a, PageRemove(seen[a], p, force))
              \/ Decide(a, CopySet(seen[a], p))
              \/ Decide(a, L1Set(seen[a], p))
              \/ Decide(a, DocumentSet(seen[a], p))
              \/ \E m \in Module :
                    \/ \E slot \in Slot \cup {None} : Decide(a, ModuleAdd(seen[a], p, m, slot))
                    \/ Decide(a, ModuleConfigure(seen[a], p, m))
                    \/ Decide(a, ModuleRemove(seen[a], p, m))
        \/ Decide(a, ConfigSet(seen[a]))
        \/ Decide(a, GapsApply(seen[a]))
        \/ \E n \in Name :
              \/ \E h \in Hex : Decide(a, PaletteSet(seen[a], n, h))
              \/ \E h \in Hex : Decide(a, PaletteAdd(seen[a], n, h))
              \/ Decide(a, PaletteRemove(seen[a], n))
              \/ \E to \in Name : Decide(a, PaletteRename(seen[a], n, to))
        \/ \E x \in Asset :
              \/ AssetAdd(a, x)
              \/ \E force \in BOOLEAN : AssetWrite(a, x, force)
              \/ \E force \in BOOLEAN : AssetRemove(a, x, force)
  BY Zenon DEF Next
<1> DEFINE s == seen[a]
<1>2. ASSUME NEW wants, Decide(a, wants) PROVE s \in Definition
  BY <1>2, HeldIsOfItsKind DEF Decide
<1>3. ASSUME NEW wants, Decide(a, wants), \A w \in wants : Wanted(w, s) PROVE Decides(a)
  BY <1>3, WantsDecide
<1>4. ASSUME s \in Definition, NEW p \in PageId
      PROVE  /\ \A path \in Path : \A w \in PageAdd(s, p, path) : Wanted(w, s)
             /\ \A path \in Path : \A w \in PageUpdate(s, p, path) : Wanted(w, s)
             /\ \A force \in BOOLEAN : \A w \in PageRemove(s, p, force) : Wanted(w, s)
             /\ \A w \in CopySet(s, p) : Wanted(w, s)
             /\ \A w \in L1Set(s, p) : Wanted(w, s)
             /\ \A w \in DocumentSet(s, p) : Wanted(w, s)
             /\ \A m \in Module :
                   /\ \A slot \in Slot \cup {None} : \A w \in ModuleAdd(s, p, m, slot) : Wanted(w, s)
                   /\ \A w \in ModuleConfigure(s, p, m) : Wanted(w, s)
                   /\ \A w \in ModuleRemove(s, p, m) : Wanted(w, s)
  BY <1>4, PageCommandsWanted, PageRemoveWanted
<1>5. ASSUME s \in Definition
      PROVE  /\ \A w \in ConfigSet(s) : Wanted(w, s)
             /\ \A w \in GapsApply(s) : Wanted(w, s)
             /\ \A n \in Name :
                   /\ \A h \in Hex : \A w \in PaletteSet(s, n, h) : Wanted(w, s)
                   /\ \A h \in Hex : \A w \in PaletteAdd(s, n, h) : Wanted(w, s)
                   /\ \A w \in PaletteRemove(s, n) : Wanted(w, s)
                   /\ \A to \in Name : \A w \in PaletteRename(s, n, to) : Wanted(w, s)
  BY <1>5, BaseCommandsWanted, RenameWanted
<1>6. ASSUME NEW x \in Asset
      PROVE  /\ AssetAdd(a, x) => DecidesFiles(a)
             /\ \A force \in BOOLEAN : AssetWrite(a, x, force) => DecidesFiles(a)
             /\ \A force \in BOOLEAN : AssetRemove(a, x, force) => DecidesFiles(a)
  <2>1. {x} \in SUBSET Asset /\ {} \in SUBSET Asset
    OBVIOUS
  <2>2. AssetAdd(a, x) => DecidesFiles(a)
    BY <2>1, "asset.add" \in AssetOp, Zenon DEF AssetAdd, DecidesFiles, AssetOp
  <2>3. \A force \in BOOLEAN : AssetWrite(a, x, force) => DecidesFiles(a)
    BY <2>1, "asset.write" \in AssetOp, Zenon DEF AssetWrite, DecidesFiles, AssetOp
  <2>4. \A force \in BOOLEAN : AssetRemove(a, x, force) => DecidesFiles(a)
    BY <2>1, "asset.rm" \in AssetOp, Zenon DEF AssetRemove, DecidesFiles, AssetOp
  <2> QED
    BY <2>2, <2>3, <2>4
<1> HIDE DEF s
<1> SUFFICES ASSUME ~(ReadBase(a) \/ ReadPages(a) \/ Check(a) \/ Refuse(a) \/ Land(a)), ~DecidesFiles(a)
             PROVE  Decides(a)
  BY Zenon
<1>7. CASE \E p \in PageId :
              \/ \E path \in Path : Decide(a, PageAdd(s, p, path))
              \/ \E path \in Path : Decide(a, PageUpdate(s, p, path))
              \/ \E force \in BOOLEAN : Decide(a, PageRemove(s, p, force))
              \/ Decide(a, CopySet(s, p))
              \/ Decide(a, L1Set(s, p))
              \/ Decide(a, DocumentSet(s, p))
              \/ \E m \in Module :
                    \/ \E slot \in Slot \cup {None} : Decide(a, ModuleAdd(s, p, m, slot))
                    \/ Decide(a, ModuleConfigure(s, p, m))
                    \/ Decide(a, ModuleRemove(s, p, m))
  BY <1>2, <1>3, <1>4, <1>7, Zenon
<1>8. CASE \/ Decide(a, ConfigSet(s))
           \/ Decide(a, GapsApply(s))
           \/ \E n \in Name :
                 \/ \E h \in Hex : Decide(a, PaletteSet(s, n, h))
                 \/ \E h \in Hex : Decide(a, PaletteAdd(s, n, h))
                 \/ Decide(a, PaletteRemove(s, n))
                 \/ \E to \in Name : Decide(a, PaletteRename(s, n, to))
  BY <1>2, <1>3, <1>5, <1>8, Zenon
<1> QED
  BY <1>1, <1>6, <1>7, <1>8, Zenon DEF s

\* Of the definition a checked write still has what it writes.
LEMMA WrittenIs ==
    ASSUME NEW w \in Proposal
    PROVE  /\ Written(w) \in Proposal
           /\ Written(w).op = w.op /\ Written(w).base = w.base /\ Written(w).pages = w.pages
           /\ Written(w).stores = w.stores /\ Written(w).drops = w.drops
           /\ \A p \in w.pages : Written(w).def.pages[p] = w.def.pages[p]
           /\ \A d \in Definition : Applied(Written(w), d) = Applied(w, d)
<1> DEFINE def == [palette |-> IF w.base THEN w.def.palette ELSE [n \in Name |-> None],
                   nav |-> IF w.base THEN w.def.nav ELSE {},
                   pages |-> [p \in PageId |-> IF p \in w.pages THEN w.def.pages[p] ELSE None]]
<1>1. w.def \in Definition /\ w.pages \subseteq PageId
  BY DEF Proposal
<1>2. def \in Definition
  BY <1>1 DEF Definition
<1>3. /\ w.base => def.palette = w.def.palette /\ def.nav = w.def.nav
      /\ \A p \in w.pages : def.pages[p] = w.def.pages[p]
  BY <1>1
<1>4. Written(w) = [w EXCEPT !.def = def]
  BY DEF Written
<1> HIDE DEF def
<1>5. /\ Written(w) \in Proposal /\ Written(w).def = def
      /\ Written(w).op = w.op /\ Written(w).base = w.base /\ Written(w).pages = w.pages
      /\ Written(w).stores = w.stores /\ Written(w).drops = w.drops
  BY <1>2, <1>4 DEF Proposal
<1>6. ASSUME NEW d \in Definition PROVE Applied(Written(w), d) = Applied(w, d)
  <2>1. Applied(Written(w), d) \in Definition /\ Applied(w, d) \in Definition
    BY <1>5, AppliedIsDefinition
  <2>2. /\ Applied(Written(w), d).palette = Applied(w, d).palette
        /\ Applied(Written(w), d).nav = Applied(w, d).nav
    BY <1>3, <1>5 DEF Applied
  <2>3. \A p \in PageId : Applied(Written(w), d).pages[p] = Applied(w, d).pages[p]
    BY <1>3, <1>5 DEF Applied
  <2> QED
    BY <2>1, <2>2, <2>3, Agree
<1> QED
  BY <1>3, <1>5, <1>6

\* A write lands as it is applied.
LEMMA LandApplies ==
    ASSUME NEW a \in Actor, Land(a)
    PROVE  draft' = Applied(plan[a], draft) /\ assets' = (assets \cup plan[a].stores) \ plan[a].drops
  BY DEF Land, Applied, WrittenPage

\* A write of files alone changes no definition.
LEMMA FilesLeaveTheDraft ==
    ASSUME NEW w \in Proposal, NEW d \in Definition, Files(w)
    PROVE  Applied(w, d) = d
<1>1. Applied(w, d) \in Definition
  BY AppliedIsDefinition
<1>2. Applied(w, d).palette = d.palette /\ Applied(w, d).nav = d.nav
  BY DEF Applied, Files
<1>3. \A p \in PageId : Applied(w, d).pages[p] = d.pages[p]
  BY DEF Applied, Files
<1> QED
  BY <1>1, <1>2, <1>3, Agree
-----------------------------------------------------------------------------
(* Type correctness.                                                        *)

\* A site is opened as a definition, with nothing under way.
LEMMA InitTypes == Init => TypeOK
<1> SUFFICES ASSUME Init PROVE TypeOK
  OBVIOUS
<1>1. draft \in Definition /\ assets \subseteq Asset
  BY DraftsAreDefinitions DEF Init
<1> QED
  BY <1>1, MaxCommandsIsNat DEF Init, TypeOK

\* A write of files alone is a proposal, of the draft as it stands.
LEMMA FilesProposal ==
    ASSUME TypeOK, NEW op \in AssetOp, NEW stores \in SUBSET Asset, NEW drops \in SUBSET Asset
    PROVE  [op |-> op, def |-> draft, base |-> FALSE, pages |-> {},
            stores |-> stores, drops |-> drops] \in Proposal
  BY DEF TypeOK, Proposal, Op, AssetOp

\* Every step keeps the types.
LEMMA StepTypes == TypeOK /\ [Next]_vars => TypeOK'
<1> SUFFICES ASSUME TypeOK, [Next]_vars PROVE TypeOK'
  OBVIOUS
<1>1. CASE UNCHANGED vars
  BY <1>1 DEF vars, TypeOK
<1>2. CASE Next
  <2>1. PICK a \in Actor : \/ ReadBase(a) \/ ReadPages(a) \/ Check(a) \/ Refuse(a) \/ Land(a)
                           \/ Decides(a) \/ DecidesFiles(a)
    BY <1>2, NextIs
  <2>2. CASE ReadBase(a)
    <3>1. begun' \in 0..MaxCommands
      BY <2>2, MaxCommandsIsNat DEF ReadBase, TypeOK
    <3>2. plan'[a] = None /\ seen'[a] # None
      BY <2>2, NoneIsNoValue DEF ReadBase, TypeOK
    <3> QED
      BY <2>2, <3>1, <3>2 DEF ReadBase, TypeOK
  <2>3. CASE ReadPages(a)
    <3>1. seen[a] \in Definition
      BY <2>3, HeldIsOfItsKind DEF ReadPages
    <3>2. [seen[a] EXCEPT !.pages = draft.pages] \in Definition
      BY <3>1 DEF TypeOK, Definition
    <3>3. [seen[a] EXCEPT !.pages = draft.pages] # None
      BY <3>2, NoneIsNoValue
    <3> QED
      BY <2>3, <3>2, <3>3 DEF ReadPages, TypeOK
  <2>4. CASE Check(a)
    <3>1. plan[a] \in Proposal
      BY <2>4, HeldIsOfItsKind DEF Check
    <3>2. Written(plan[a]) \in Proposal /\ Written(plan[a]) # None
      BY <3>1, WrittenIs, NoneIsNoValue
    <3> QED
      BY <2>4, <3>2 DEF Check, TypeOK
  <2>5. CASE Refuse(a)
    BY <2>5 DEF Refuse, Forget, TypeOK
  <2>6. CASE Land(a)
    <3>1. plan[a] \in Proposal
      BY <2>6, HeldIsOfItsKind DEF Land
    <3>2. draft' \in Definition
      BY <2>6, <3>1, LandApplies, AppliedIsDefinition DEF TypeOK
    <3>3. assets' \subseteq Asset
      BY <2>6, <3>1, LandApplies DEF TypeOK, Proposal
    <3>4. stale' \in [Actor -> 0..2] /\ overlaps' \in 0..2
      BY <2>6 DEF Land, TypeOK, UpToTwo
    <3> QED
      BY <2>6, <3>2, <3>3, <3>4 DEF Land, Forget, TypeOK
  <2>7. CASE Decides(a)
    <3>1. PICK w \in Proposal : plan' = [plan EXCEPT ![a] = w]
      BY <2>7 DEF Decides
    <3>2. w # None
      BY NoneIsNoValue
    <3> QED
      BY <2>7, <3>1, <3>2 DEF Decides, TypeOK
  <2>8. CASE DecidesFiles(a)
    <3>1. PICK op \in AssetOp, stores \in SUBSET Asset, drops \in SUBSET Asset :
              DecideAsset(a, op, stores, drops)
      BY <2>8 DEF DecidesFiles
    <3> DEFINE w == [op |-> op, def |-> draft, base |-> FALSE, pages |-> {},
                     stores |-> stores, drops |-> drops]
    <3>2. w \in Proposal
      BY FilesProposal
    <3>3. plan' = [plan EXCEPT ![a] = Written(w)]
      BY <3>1 DEF DecideAsset
    <3> HIDE DEF w
    <3>4. Written(w) \in Proposal /\ Written(w) # None
      BY <3>2, WrittenIs, NoneIsNoValue
    <3>5. begun' \in 0..MaxCommands
      BY <3>1, MaxCommandsIsNat DEF DecideAsset, TypeOK
    <3>6. /\ pc[a] = "idle" /\ pc' = [pc EXCEPT ![a] = "valid"] /\ stale' = [stale EXCEPT ![a] = 0]
          /\ UNCHANGED <<draft, assets, seen, overlaps>>
      BY <3>1 DEF DecideAsset
    <3> QED
      BY <3>3, <3>4, <3>5, <3>6 DEF TypeOK
  <2> QED
    BY <2>1, <2>2, <2>3, <2>4, <2>5, <2>6, <2>7, <2>8
<1> QED
  BY <1>1, <1>2

\* Files and commands keep their shapes, and no command is further than what it
\* holds, for any callers, pages, colors and files and any number of commands.
THEOREM TypeCorrect == Spec => []TypeOK
<1> QED
  BY InitTypes, StepTypes, PTL DEF Spec
-----------------------------------------------------------------------------
(* The invariant is one.                                                    *)

\* A write that was wanted and is accepted edits.
LEMMA AcceptedEdits ==
    ASSUME NEW d \in Definition, NEW held, NEW w, Wanted(w, d), Accepts(w.def, d, held)
    PROVE  Edits(Written(w), d, held)
<1>1. w \in Proposal /\ w.op \notin AssetOp /\ w.stores = {} /\ w.drops = {} /\ Applied(w, d) = w.def
      /\ Gentle(w.op, w.def, d)
  BY DEF Wanted
<1>2. /\ Applied(Written(w), d) = w.def /\ Written(w).op = w.op
      /\ Written(w).stores = {} /\ Written(w).drops = {}
  BY <1>1, WrittenIs
<1>3. ASSUME NEW p \in PageId
      PROVE  DanglingRefs(w.def.pages[p], held) \subseteq DanglingRefs(d.pages[p], held)
  <2>1. CASE p \in Pages(w.def)
    BY <2>1 DEF Accepts, Inherited
  <2>2. CASE p \notin Pages(w.def)
    BY <2>2 DEF Pages, DanglingRefs
  <2> QED
    BY <2>1, <2>2
<1>4. ValidSite(w.def)
  BY DEF Accepts
<1> QED
  BY <1>1, <1>2, <1>3, <1>4 DEF Edits

\* The pages an accepted write writes are mounted.
LEMMA AcceptedMounts ==
    ASSUME NEW w \in Proposal, NEW d, NEW held, Accepts(w.def, d, held)
    PROVE  \A p \in Written(w).pages :
               Written(w).def.pages[p] # None => Mounted(Written(w).def.pages[p])
<1> SUFFICES ASSUME NEW p \in Written(w).pages, Written(w).def.pages[p] # None
             PROVE  Mounted(Written(w).def.pages[p])
  OBVIOUS
<1>1. p \in w.pages /\ Written(w).def.pages[p] = w.def.pages[p] /\ p \in PageId
  BY WrittenIs DEF Proposal
<1>2. p \in Pages(w.def)
  BY <1>1 DEF Pages
<1> QED
  BY <1>1, <1>2 DEF Accepts, ValidSite

\* Nothing is under way at first.
LEMMA InitEdit == Init => EditInv
  BY InitTypes DEF Init, EditInv, ReadsTheDraft, PlansTheDraft, PlansMount, ChecksTheDraft

\* What a step that leaves the draft, the files and the other callers alone has to
\* show of its own caller.
LEMMA OnesOwn ==
    ASSUME EditInv, TypeOK', NEW a \in Actor, UNCHANGED <<draft, assets>>,
           \A b \in Actor \ {a} : /\ pc'[b] = pc[b] /\ seen'[b] = seen[b]
                                  /\ plan'[b] = plan[b] /\ stale'[b] = stale[b],
           pc'[a] \in {"base", "pages"} /\ stale'[a] = 0 => seen'[a] = draft,
           pc'[a] = "planned" /\ stale'[a] = 0 => Wanted(plan'[a], draft),
           pc'[a] = "valid" =>
              /\ \A p \in plan'[a].pages :
                    plan'[a].def.pages[p] # None => Mounted(plan'[a].def.pages[p])
              /\ stale'[a] = 0 => Edits(plan'[a], draft, assets) \/ Files(plan'[a])
    PROVE  EditInv'
<1>1. ReadsTheDraft'
  BY DEF EditInv, ReadsTheDraft
<1>2. PlansTheDraft'
  BY DEF EditInv, PlansTheDraft
<1>3. PlansMount'
  BY DEF EditInv, PlansMount
<1>4. ChecksTheDraft'
  BY DEF EditInv, ChecksTheDraft
<1> QED
  BY <1>1, <1>2, <1>3, <1>4 DEF EditInv

\* Every step keeps it.
LEMMA StepEdit == EditInv /\ [Next]_vars => EditInv'
<1> SUFFICES ASSUME EditInv, [Next]_vars PROVE EditInv'
  OBVIOUS
<1>1. TypeOK /\ TypeOK'
  BY StepTypes DEF EditInv
<1>2. CASE UNCHANGED vars
  BY <1>2 DEF vars, EditInv, TypeOK, ReadsTheDraft, PlansTheDraft, PlansMount, ChecksTheDraft
<1>3. CASE Next
  <2>1. PICK a \in Actor : \/ ReadBase(a) \/ ReadPages(a) \/ Check(a) \/ Refuse(a) \/ Land(a)
                           \/ Decides(a) \/ DecidesFiles(a)
    BY <1>1, <1>3, NextIs
  <2>2. CASE ReadBase(a)
    BY <1>1, <2>2, OnesOwn DEF ReadBase, TypeOK
  <2>3. CASE ReadPages(a)
    <3>1. stale[a] = 0 => [seen[a] EXCEPT !.pages = draft.pages] = draft
      BY <1>1, <2>3 DEF ReadPages, EditInv, ReadsTheDraft, TypeOK, Definition
    <3> QED
      BY <1>1, <2>3, <3>1, OnesOwn DEF ReadPages, TypeOK
  <2>4. CASE Check(a)
    <3>1. plan[a] \in Proposal /\ Accepts(plan[a].def, draft, assets) /\ pc[a] = "planned"
      BY <1>1, <2>4, HeldIsOfItsKind DEF Check
    <3>2. stale[a] = 0 => Edits(Written(plan[a]), draft, assets)
      BY <1>1, <3>1, AcceptedEdits DEF EditInv, PlansTheDraft, TypeOK
    <3>3. \A p \in Written(plan[a]).pages :
              Written(plan[a]).def.pages[p] # None => Mounted(Written(plan[a]).def.pages[p])
      BY <3>1, AcceptedMounts
    <3>4. /\ plan'[a] = Written(plan[a]) /\ pc'[a] = "valid" /\ UNCHANGED <<draft, assets, seen, stale>>
          /\ \A b \in Actor \ {a} : pc'[b] = pc[b] /\ plan'[b] = plan[b]
      BY <1>1, <2>4 DEF Check, TypeOK
    <3> QED
      BY <1>1, <3>2, <3>3, <3>4, OnesOwn
  <2>5. CASE Refuse(a)
    BY <1>1, <2>5, OnesOwn DEF Refuse, Forget, TypeOK
  <2>6. CASE Land(a)
    <3>1. \A b \in Actor : pc'[b] # "idle" => /\ stale'[b] # 0 /\ b # a
                                              /\ pc'[b] = pc[b] /\ plan'[b] = plan[b]
      BY <1>1, <2>6 DEF Land, Forget, TypeOK, UpToTwo
    <3>2. PlansMount'
      BY <3>1 DEF EditInv, PlansMount
    <3> QED
      BY <1>1, <3>1, <3>2 DEF EditInv, ReadsTheDraft, PlansTheDraft, ChecksTheDraft
  <2>7. CASE Decides(a)
    <3>1. PICK w \in Proposal : Wanted(w, seen[a]) /\ plan' = [plan EXCEPT ![a] = w]
      BY <2>7 DEF Decides
    <3>2. stale[a] = 0 => Wanted(w, draft)
      BY <2>7, <3>1 DEF Decides, EditInv, ReadsTheDraft
    <3>3. /\ plan'[a] = w /\ pc'[a] = "planned" /\ UNCHANGED <<draft, assets, stale>>
          /\ \A b \in Actor \ {a} : pc'[b] = pc[b] /\ plan'[b] = plan[b] /\ seen'[b] = seen[b]
      BY <1>1, <2>7, <3>1 DEF Decides, TypeOK
    <3> QED
      BY <1>1, <3>2, <3>3, OnesOwn
  <2>8. CASE DecidesFiles(a)
    <3>1. PICK op \in AssetOp, stores \in SUBSET Asset, drops \in SUBSET Asset :
              (op # "asset.rm" => drops = {}) /\ DecideAsset(a, op, stores, drops)
      BY <2>8 DEF DecidesFiles
    <3> DEFINE w == [op |-> op, def |-> draft, base |-> FALSE, pages |-> {},
                     stores |-> stores, drops |-> drops]
    <3>2. w \in Proposal
      BY <1>1, FilesProposal
    <3>3. plan' = [plan EXCEPT ![a] = Written(w)]
      BY <3>1 DEF DecideAsset
    <3>4. w.op \in AssetOp /\ w.base = FALSE /\ w.pages = {} /\ (w.op # "asset.rm" => w.drops = {})
      BY <3>1
    <3> HIDE DEF w
    <3>5. Files(Written(w)) /\ Written(w).pages = {}
      BY <3>2, <3>4, WrittenIs DEF Files
    <3>6. /\ plan'[a] = Written(w) /\ pc'[a] = "valid" /\ UNCHANGED <<draft, assets, seen>>
          /\ \A b \in Actor \ {a} : pc'[b] = pc[b] /\ plan'[b] = plan[b] /\ stale'[b] = stale[b]
      BY <1>1, <3>1, <3>3 DEF DecideAsset, TypeOK
    <3> QED
      BY <1>1, <3>5, <3>6, OnesOwn
  <2> QED
    BY <2>1, <2>2, <2>3, <2>4, <2>5, <2>6, <2>7, <2>8
<1> QED
  BY <1>2, <1>3

\* The invariant: a command nothing landed under wants and writes what the draft,
\* as it stands, becomes valid by; one that something landed under still writes
\* pages that were valid.
THEOREM EditInvariant == Spec => []EditInv
<1> QED
  BY InitEdit, StepEdit, PTL DEF Spec
-----------------------------------------------------------------------------
(* What the callers may rely on.                                            *)

\* Who ends with a write has written it, or has written nothing.
LEMMA LandsIs ==
    ASSUME TypeOK, [Next]_vars, NEW a \in Actor, Lands(a)
    PROVE  Land(a) \/ UNCHANGED <<draft, assets>>
<1>1. CASE UNCHANGED vars
  BY <1>1 DEF vars
<1>2. CASE Next
  <2>1. PICK b \in Actor : \/ ReadBase(b) \/ ReadPages(b) \/ Check(b) \/ Refuse(b) \/ Land(b)
                           \/ Decides(b) \/ DecidesFiles(b)
    BY <1>2, NextIs
  <2>2. CASE Land(b)
    <3>1. pc' = [pc EXCEPT ![b] = "idle"]
      BY <2>2 DEF Land, Forget
    <3>2. b = a
      BY <3>1 DEF Lands, TypeOK
    <3> QED
      BY <2>2, <3>2
  <2>3. CASE DecidesFiles(b)
    BY <2>3 DEF DecidesFiles, DecideAsset
  <2> QED
    BY <2>1, <2>2, <2>3 DEF ReadBase, ReadPages, Check, Refuse, Decides
<1> QED
  BY <1>1, <1>2

\* The draft is what it was but where a write lands.
LEMMA OnlyLandsWrite ==
    ASSUME TypeOK, [Next]_vars
    PROVE  (\E a \in Actor : Land(a)) \/ UNCHANGED <<draft, overlaps>>
<1>1. CASE UNCHANGED vars
  BY <1>1 DEF vars
<1>2. CASE Next
  <2>1. PICK b \in Actor : \/ ReadBase(b) \/ ReadPages(b) \/ Check(b) \/ Refuse(b) \/ Land(b)
                           \/ Decides(b) \/ DecidesFiles(b)
    BY <1>2, NextIs
  <2>2. CASE DecidesFiles(b)
    BY <2>2 DEF DecidesFiles, DecideAsset
  <2> QED
    BY <2>1, <2>2 DEF ReadBase, ReadPages, Check, Refuse, Decides
<1> QED
  BY <1>1, <1>2

\* A site that was valid stays as valid as the overlaps leave it.
LEMMA StepSite == EditInv /\ SiteInv /\ [Next]_vars => SiteInv'
<1> SUFFICES ASSUME EditInv, SiteInv, [Next]_vars PROVE SiteInv'
  OBVIOUS
<1>1. TypeOK
  BY DEF EditInv
<1>2. CASE UNCHANGED <<draft, overlaps>>
  <2>1. PagesMounted'
    BY <1>2 DEF SiteInv, PagesMounted
  <2> QED
    BY <1>2, <2>1 DEF SiteInv
<1>3. ASSUME NEW a \in Actor, Land(a) PROVE SiteInv'
  <2> DEFINE w == plan[a]
  <2>1. w \in Proposal /\ pc[a] = "valid" /\ draft \in Definition
    BY <1>1, <1>3, HeldIsOfItsKind DEF Land, TypeOK
  <2>2. draft' = Applied(w, draft)
    BY <1>3, LandApplies
  <2>3. ASSUME NEW p \in Pages(draft') PROVE Mounted(draft'.pages[p])
    <3>1. p \in PageId /\ draft'.pages[p] # None
      BY DEF Pages
    <3>2. draft'.pages[p] = IF p \in w.pages THEN w.def.pages[p] ELSE draft.pages[p]
      BY <2>2, <3>1 DEF Applied
    <3>3. CASE p \in w.pages
      BY <2>1, <3>1, <3>2, <3>3 DEF EditInv, PlansMount
    <3>4. CASE p \notin w.pages
      BY <3>1, <3>2, <3>4 DEF SiteInv, PagesMounted, Pages
    <3> QED
      BY <3>3, <3>4
  <2>4. PagesMounted'
    BY <2>3 DEF PagesMounted
  <2>5. ASSUME overlaps' = 0 PROVE ValidSite(draft')
    <3>1. overlaps = 0 /\ stale[a] = 0
      BY <1>1, <1>3, <2>5 DEF Land, UpToTwo, TypeOK
    <3>2. Edits(w, draft, assets) \/ Files(w)
      BY <2>1, <3>1 DEF EditInv, ChecksTheDraft
    <3>3. CASE Edits(w, draft, assets)
      BY <2>2, <3>3 DEF Edits
    <3>4. CASE Files(w)
      BY <2>1, <2>2, <3>1, <3>4, FilesLeaveTheDraft DEF SiteInv
    <3> QED
      BY <3>2, <3>3, <3>4
  <2>6. (overlaps = 0 => ValidSite(draft))'
    BY <2>5
  <2> QED
    BY <2>4, <2>6 DEF SiteInv
<1> QED
  BY <1>1, <1>2, <1>3, OnlyLandsWrite

\* A site that starts valid is kept so.
LEMMA SiteIsKept == StartsValid /\ Spec => []SiteInv
<1>1. StartsValid /\ Init => SiteInv
  BY DEF StartsValid, Init, SiteInv, PagesMounted, ValidSite
<1> QED
  BY <1>1, EditInvariant, StepSite, PTL DEF Spec

\* However commands overlap, and however many, no page of a site that started with
\* its components in its seams ever has one without, or two in one: what mounts and
\* what is mounted into are written together.
THEOREM ComponentsStayMounted == StartsValid /\ Spec => []PagesMounted
<1>1. SiteInv => PagesMounted
  BY DEF SiteInv
<1> QED
  BY <1>1, SiteIsKept, PTL

\* Commands that did not overlap leave a draft that renders, of any site that did:
\* no path is two pages', and every color of a document or of a component's slots
\* is an entry of the palette.
THEOREM ValidDraftsStayValid == StartsValid /\ Spec => []SiteHolds
<1>1. TypeOK /\ SiteInv => SiteHolds
  <2> SUFFICES ASSUME TypeOK, ValidSite(draft) PROVE SiteHolds
    BY DEF SiteInv, SiteHolds
  <2>1. \A n \in Name : draft.palette[n] # None => draft.palette[n] \in Hex
    BY DEF TypeOK, Definition
  <2>2. ASSUME NEW p \in Pages(draft)
        PROVE  /\ draft.pages[p] \in Page
               /\ \A n \in ColorsOf(draft.pages[p]) : n \in Name => draft.palette[n] \in Hex
    <3>1. draft.pages[p] \in Page
      BY DEF TypeOK, Definition, Pages
    <3> QED
      BY <2>1, <3>1 DEF ValidSite, ColorsResolve
  <2>3. ASSUME NEW p \in Pages(draft), NEW n \in draft.pages[p].colors PROVE draft.palette[n] \in Hex
    <3>1. n \in Name /\ n \in ColorsOf(draft.pages[p])
      BY <2>2 DEF Page, ColorsOf
    <3> QED
      BY <2>2, <3>1
  <2>4. ASSUME NEW p \in Pages(draft), NEW m \in draft.pages[p].modules, NEW n \in m.colors
        PROVE  draft.palette[n] \in Hex
    <3>1. m \in Instance
      BY <2>2 DEF Page
    <3>2. n \in Name /\ n \in ColorsOf(draft.pages[p])
      BY <3>1 DEF Instance, ColorsOf
    <3> QED
      BY <2>2, <3>2
  <2>5. \A p, q \in Pages(draft) : draft.pages[p].path = draft.pages[q].path => p = q
    BY DEF ValidSite, PathsUnique
  <2> QED
    BY <2>3, <2>4, <2>5 DEF SiteHolds
<1> QED
  BY <1>1, TypeCorrect, SiteIsKept, PTL

\* A command on the definition that nothing landed under leaves a valid draft.
FreshEditsAreValid ==
    [][\A a \in Actor : Land(a) /\ stale[a] = 0 /\ plan[a].op \notin AssetOp => ValidSite(draft')]_vars

\* So it is whatever the draft was, also for one that came in by an import, which
\* validates nothing: the whole is validated, whatever the command touches.
THEOREM EditsMakeValid == Spec => FreshEditsAreValid
<1>1. ASSUME EditInv, NEW a \in Actor, Land(a), stale[a] = 0, plan[a].op \notin AssetOp
      PROVE  ValidSite(draft')
  <2>1. pc[a] = "valid"
    BY <1>1 DEF Land
  <2>2. Edits(plan[a], draft, assets)
    BY <1>1, <2>1 DEF EditInv, ChecksTheDraft, Files
  <2> QED
    BY <1>1, <2>2, LandApplies DEF Edits
<1>2. EditInv /\ [Next]_vars =>
          [\A a \in Actor : Land(a) /\ stale[a] = 0 /\ plan[a].op \notin AssetOp => ValidSite(draft')]_vars
  BY <1>1
<1> QED
  BY <1>2, EditInvariant, PTL DEF Spec, FreshEditsAreValid

\* A write nothing landed under edits, or leaves the definition alone.
LEMMA FreshWrite ==
    ASSUME EditInv, NEW a \in Actor, Land(a), stale[a] = 0
    PROVE  \/ /\ Edits(plan[a], draft, assets)
              /\ draft' = Applied(plan[a], draft) /\ assets' = assets
           \/ /\ draft' = draft /\ plan[a].op \in AssetOp
              /\ plan[a].op # "asset.rm" => assets \subseteq assets'
<1>1. pc[a] = "valid" /\ plan[a] \in Proposal /\ draft \in Definition
  BY HeldIsOfItsKind DEF Land, EditInv, TypeOK
<1>2. /\ draft' = Applied(plan[a], draft)
      /\ assets' = (assets \cup plan[a].stores) \ plan[a].drops
  BY LandApplies
<1>3. Edits(plan[a], draft, assets) \/ Files(plan[a])
  BY <1>1 DEF EditInv, ChecksTheDraft
<1>4. CASE Edits(plan[a], draft, assets)
  BY <1>2, <1>4 DEF Edits
<1>5. CASE Files(plan[a])
  <2>1. draft' = draft
    BY <1>1, <1>2, <1>5, FilesLeaveTheDraft
  <2>2. plan[a].op # "asset.rm" => assets \subseteq assets'
    BY <1>2, <1>5 DEF Files
  <2> QED
    BY <1>5, <2>1, <2>2 DEF Files
<1> QED
  BY <1>3, <1>4, <1>5

\* Where nothing landed in between, no page has a new picture or family that
\* resolves to nothing, but by the removal of a file, and no entry of the
\* navigation comes to lead nowhere, but by config.set.
THEOREM NothingIsLeftDangling == Spec => NoNewDangling
<1>1. ASSUME EditInv, [Next]_vars, NEW a \in Actor PROVE IntroducesNothing(a)
  <2> SUFFICES ASSUME LandsFresh(a)
               PROVE  /\ plan[a].op # "asset.rm" =>
                            \A p \in PageId : DanglingRefs(draft'.pages[p], assets')
                                                \subseteq DanglingRefs(draft.pages[p], assets)
                      /\ plan[a].op # "config.set" => LeadsNowhere(draft') \subseteq LeadsNowhere(draft)
    BY DEF IntroducesNothing
  <2>1. Land(a) \/ UNCHANGED <<draft, assets>>
    BY <1>1, LandsIs DEF LandsFresh, EditInv
  <2>2. CASE UNCHANGED <<draft, assets>>
    BY <2>2
  <2>3. CASE Land(a)
    <3>1. CASE /\ Edits(plan[a], draft, assets)
               /\ draft' = Applied(plan[a], draft) /\ assets' = assets
      BY <3>1 DEF Edits, Gentle
    <3>2. CASE /\ draft' = draft /\ plan[a].op \in AssetOp
               /\ plan[a].op # "asset.rm" => assets \subseteq assets'
      <4>1. assets \subseteq assets' =>
                \A page : DanglingRefs(page, assets') \subseteq DanglingRefs(page, assets)
        BY DEF DanglingRefs, DanglingAssetReferences
      <4> QED
        BY <3>2, <4>1
    <3> QED
      BY <1>1, <2>3, <3>1, <3>2, FreshWrite DEF LandsFresh
  <2> QED
    BY <2>1, <2>2, <2>3
<1>2. EditInv /\ [Next]_vars => [\A a \in Actor : IntroducesNothing(a)]_vars
  BY <1>1
<1> QED
  BY <1>2, EditInvariant, PTL DEF Spec, NoNewDangling

\* A color that is renamed paints every page as it did, of a draft in which every
\* color resolves, where nothing landed in between.
THEOREM RenamesAreLossless == Spec => RenameKeepsColors
<1>1. ASSUME EditInv, [Next]_vars, NEW a \in Actor PROVE KeepsColors(a)
  <2> SUFFICES ASSUME LandsFresh(a), plan[a].op = "palette.rename", ColorsResolve(draft)
               PROVE  \A p \in PageId : Painted(draft', p) = Painted(draft, p)
    BY DEF KeepsColors
  <2>1. Land(a) \/ UNCHANGED <<draft, assets>>
    BY <1>1, LandsIs DEF LandsFresh, EditInv
  <2>2. CASE UNCHANGED <<draft, assets>>
    BY <2>2
  <2>3. CASE Land(a)
    <3>1. "palette.rename" \notin AssetOp
      BY DEF AssetOp
    <3>2. Edits(plan[a], draft, assets) /\ draft' = Applied(plan[a], draft)
      BY <1>1, <2>3, <3>1, FreshWrite DEF LandsFresh
    <3> QED
      BY <3>2 DEF Edits, Gentle
  <2> QED
    BY <2>1, <2>2, <2>3
<1>2. EditInv /\ [Next]_vars => [\A a \in Actor : KeepsColors(a)]_vars
  BY <1>1
<1> QED
  BY <1>2, EditInvariant, PTL DEF Spec, RenameKeepsColors

-----------------------------------------------------------------------------
(* One command over one other: what some command mends.                    *)

\* A draft without a page of its own.
Without(d, p) == [d EXCEPT !.pages = [d.pages EXCEPT ![p] = None]]

\* What some command mends: a site that holds, or does without one page, or with
\* one more color.
Mendable(d) ==
    \/ ValidSite(d)
    \/ \E p \in Pages(d) : ValidSite(Without(d, p))
    \/ \E n \in Name, h \in Hex : d.palette[n] = None /\ ValidSite(WithEntry(d, n, h))

\* What the colors of a page may be: those of the entries.
Paints(page, d) == ColorsOf(page) \subseteq Entries(d)

\* A site is valid if its paths differ and each page is painted and mounted.
LEMMA ValidIs ==
    ASSUME NEW d \in Definition
    PROVE  ValidSite(d) <=> /\ PathsUnique(d)
                            /\ \A p \in Pages(d) : Paints(d.pages[p], d) /\ Mounted(d.pages[p])
<1>1. \A p \in Pages(d) : ColorsOf(d.pages[p]) \subseteq Name
  BY DEF Pages, Definition, ColorsOf, Page, Instance
<1>2. ColorsResolve(d) <=> \A p \in Pages(d) : Paints(d.pages[p], d)
  BY <1>1 DEF ColorsResolve, Paints, Entries
<1> QED
  BY <1>2 DEF ValidSite

\* Fewer pages and more colors are as valid.
LEMMA PartIsValid ==
    ASSUME NEW d \in Definition, NEW e \in Definition, ValidSite(d), Entries(d) \subseteq Entries(e),
           \A p \in Pages(e) : p \in Pages(d) /\ e.pages[p] = d.pages[p]
    PROVE  ValidSite(e)
<1>1. PathsUnique(e)
  BY DEF ValidSite, PathsUnique
<1>2. \A p \in Pages(e) : Paints(e.pages[p], e) /\ Mounted(e.pages[p])
  BY ValidIs DEF Paints
<1> QED
  BY <1>1, <1>2, ValidIs

\* What is put together of the pages of two valid definitions can be mended by one
\* more color, if that is all it misses.
LEMMA OneIsMissing ==
    ASSUME NEW d \in Definition, NEW e \in Definition, NEW f \in Definition,
           ValidSite(e), ValidSite(f),
           \A p \in Pages(d) : \/ (p \in Pages(e) /\ d.pages[p] = e.pages[p])
                                \/ (p \in Pages(f) /\ d.pages[p] = f.pages[p]),
           PathsUnique(d),
           NEW n, \A p \in Pages(d) : ColorsOf(d.pages[p]) \subseteq Entries(d) \cup {n}
    PROVE  Mendable(d)
<1>1. \A p \in Pages(d) : Mounted(d.pages[p])
  BY DEF ValidSite
<1>2. CASE \A p \in Pages(d) : Paints(d.pages[p], d)
  BY <1>1, <1>2, ValidIs DEF Mendable
<1>3. ASSUME NEW p \in Pages(d), ~Paints(d.pages[p], d) PROVE Mendable(d)
  <2>1. ColorsOf(d.pages[p]) \subseteq Name
    BY DEF Pages, Definition, ColorsOf, Page, Instance
  <2>2. n \in Name /\ d.palette[n] = None /\ n \in ColorsOf(d.pages[p])
    BY <1>3, <2>1 DEF Paints, Entries
  <2>3. PICK h \in Hex : TRUE
    <3>1. e.palette[n] \in Hex \/ f.palette[n] \in Hex
      BY <2>2 DEF ValidSite, ColorsResolve, Definition
    <3> QED
      BY <3>1
  <2> DEFINE g == WithEntry(d, n, h)
             palette == [d.palette EXCEPT ![n] = h]
  <2>4. /\ palette \in [Name -> Hex \cup {None}] /\ palette[n] = h
        /\ \A c \in Name \ {n} : palette[c] = d.palette[c]
    BY <2>2 DEF Definition
  <2>5. g = [d EXCEPT !.palette = palette]
    BY DEF WithEntry
  <2> HIDE DEF palette, g
  <2>6. g \in Definition /\ g.palette = palette /\ g.pages = d.pages
    BY <2>4, <2>5 DEF Definition
  <2>7. h # None
    BY NoneIsNoValue
  <2>8. Entries(d) \cup {n} \subseteq Entries(g)
    BY <2>2, <2>4, <2>6, <2>7 DEF Entries
  <2>9. Pages(g) = Pages(d) /\ PathsUnique(g)
    BY <2>6 DEF Pages, PathsUnique
  <2>10. \A q \in Pages(g) : Paints(g.pages[q], g) /\ Mounted(g.pages[q])
    BY <1>1, <2>6, <2>8, <2>9 DEF Paints
  <2>11. ValidSite(g)
    BY <2>6, <2>10, <2>9, ValidIs
  <2> QED
    BY <2>2, <2>11 DEF Mendable, g
<1> QED
  BY <1>2, <1>3

\* Removals of pages and additions to the palette are among the commands.
LEMMA MendsAreCommands ==
    ASSUME NEW d
    PROVE  /\ \A p \in PageId, force \in BOOLEAN : PageRemove(d, p, force) \subseteq Commands(d)
           /\ \A n \in Name, h \in Hex : PaletteAdd(d, n, h) \subseteq Commands(d)
<1>1. ASSUME NEW p \in PageId, NEW force \in BOOLEAN
      PROVE  PageRemove(d, p, force) \subseteq Commands(d)
  <2>1. PageRemove(d, p, force) \in {PageRemove(d, q, f) : q \in PageId, f \in BOOLEAN}
    OBVIOUS
  <2> QED
    BY <2>1 DEF Commands
<1>2. ASSUME NEW n \in Name, NEW h \in Hex PROVE PaletteAdd(d, n, h) \subseteq Commands(d)
  <2> DEFINE Both(c, g) == PaletteSet(d, c, g) \cup PaletteAdd(d, c, g)
             Colors == UNION {Both(c, g) : c \in Name, g \in Hex}
  <2>1. PaletteAdd(d, n, h) \subseteq Both(n, h) /\ Colors \subseteq Commands(d)
    BY DEF Commands
  <2> HIDE DEF Both
  <2>2. Both(n, h) \in {Both(c, g) : c \in Name, g \in Hex}
    OBVIOUS
  <2>3. Both(n, h) \subseteq Colors
    BY <2>2
  <2> QED
    BY <2>1, <2>3
<1> QED
  BY <1>1, <1>2

\* What is mendable some command mends.
LEMMA MendableIsRepaired ==
    ASSUME NEW d \in Definition, NEW held, Mendable(d)
    PROVE  ValidSite(d) \/ \E w \in Commands(d) : Accepts(w.def, d, held)
<1>1. ASSUME NEW p \in Pages(d), ValidSite(Without(d, p))
      PROVE  \E w \in Commands(d) : Accepts(w.def, d, held)
  <2> DEFINE t == [d EXCEPT !.nav = d.nav \ {p}]
             def == WithPage(t, p, None)
             w == Want("page.rm", def, p \in d.nav, {p})
  <2>1. p \in PageId
    BY DEF Pages
  <2>2. w \in PageRemove(d, p, TRUE)
    BY DEF PageRemove
  <2>3. w \in Commands(d)
    BY <2>1, <2>2, MendsAreCommands
  <2>4. w.def = def
    BY DEF Want
  <2>5. t \in Definition /\ t.palette = d.palette /\ t.pages = d.pages
    BY DEF Definition
  <2> HIDE DEF t, w
  <2>6. /\ def \in Definition /\ def.palette = d.palette
        /\ \A q \in PageId : def.pages[q] = IF q = p THEN None ELSE d.pages[q]
    BY <2>1, <2>5, WithPageIs
  <2>7. /\ Without(d, p) \in Definition /\ Without(d, p).palette = d.palette
        /\ \A q \in PageId : Without(d, p).pages[q] = IF q = p THEN None ELSE d.pages[q]
    BY <2>1 DEF Without, Definition
  <2> HIDE DEF def
  <2>8. ValidSite(def)
    BY <1>1, <2>6, <2>7, PartIsValid DEF Pages, Entries
  <2>9. \A q \in Pages(def) : DanglingRefs(def.pages[q], held) \subseteq Inherited(d, held, q)
    BY <2>6 DEF Pages, Inherited
  <2> QED
    BY <2>3, <2>4, <2>8, <2>9 DEF Accepts
<1>2. ASSUME NEW n \in Name, NEW h \in Hex, d.palette[n] = None, ValidSite(WithEntry(d, n, h))
      PROVE  \E w \in Commands(d) : Accepts(w.def, d, held)
  <2> DEFINE def == WithEntry(d, n, h)
             w == Want("palette.add", def, TRUE, {})
  <2>1. w \in PaletteAdd(d, n, h)
    BY <1>2 DEF PaletteAdd
  <2>2. w \in Commands(d)
    BY <2>1, MendsAreCommands
  <2>3. w.def = def /\ def.pages = d.pages
    BY DEF Want, WithEntry, Definition
  <2> HIDE DEF w, def
  <2>4. \A q \in Pages(def) : DanglingRefs(def.pages[q], held) \subseteq Inherited(d, held, q)
    BY <2>3 DEF Inherited
  <2>5. ValidSite(def)
    BY <1>2 DEF def
  <2> QED
    BY <2>2, <2>3, <2>4, <2>5 DEF Accepts
<1> QED
  BY <1>1, <1>2 DEF Mendable

\* A site that is valid and another, made of it by one command and valid too.
Follows(d, e) ==
    /\ ValidSite(d) /\ ValidSite(e)
    /\ e = d \/ \E w : Wanted(w, d) /\ e = w.def

\* What a command reads while the draft goes from one definition to another: the
\* first, or its site.json and the pages of the other.
ReadOf(s, d, e) == s = d \/ s = [d EXCEPT !.pages = e.pages]

\* Whose pages are at the same paths.
PathsOf(d, e, p) ==
    /\ p \in Pages(d) <=> p \in Pages(e)
    /\ p \in Pages(d) => d.pages[p].path = e.pages[p].path

\* What one command leaves of a site: every page but one where it was; every entry
\* but one; and the colors of the pages, which have an entry or, but for one, were
\* theirs.
LEMMA FollowsIs ==
    ASSUME NEW d \in Definition, NEW e \in Definition, Follows(d, e)
    PROVE  /\ \E q : \A p \in PageId \ {q} : PathsOf(d, e, p)
           /\ \E n : Entries(d) \subseteq Entries(e) \cup {n}
           /\ \/ \A p \in Pages(e) : ColorsOf(e.pages[p]) \subseteq Entries(d)
              \/ \E t : \A p \in Pages(e) :
                    p \in Pages(d) /\ ColorsOf(e.pages[p]) \subseteq ColorsOf(d.pages[p]) \cup {t}
<1>1. \A p \in Pages(d) : ColorsOf(d.pages[p]) \subseteq Entries(d)
  BY ValidIs DEF Follows, Paints
<1>2. \A p \in Pages(e) : ColorsOf(e.pages[p]) \subseteq Entries(e)
  BY ValidIs DEF Follows, Paints
<1>3. CASE e = d
  BY <1>1, <1>3 DEF PathsOf
<1>4. ASSUME NEW w, Wanted(w, d), e = w.def
      PROVE  /\ \E q : \A p \in PageId \ {q} : PathsOf(d, e, p)
             /\ \E n : Entries(d) \subseteq Entries(e) \cup {n}
             /\ \/ \A p \in Pages(e) : ColorsOf(e.pages[p]) \subseteq Entries(d)
                \/ \E t : \A p \in Pages(e) :
                      p \in Pages(d) /\ ColorsOf(e.pages[p]) \subseteq ColorsOf(d.pages[p]) \cup {t}
  <2>1. /\ e.palette = IF w.base THEN w.def.palette ELSE d.palette
        /\ \A p \in PageId : e.pages[p] = IF p \in w.pages THEN w.def.pages[p] ELSE d.pages[p]
    <3>1. Applied(w, d) = e
      BY <1>4 DEF Wanted
    <3> QED
      BY <3>1 DEF Applied
  <2>2. \A p \in PageId \ w.pages : PathsOf(d, e, p)
    BY <2>1 DEF PathsOf, Pages
  <2>3. CASE WritesPage(w) \/ RemovesPage(w, d)
    <3>1. PICK q : w.pages = {q}
      BY <2>3 DEF WritesPage, RemovesPage
    <3>2. e.palette = d.palette
      BY <1>4, <2>1, <2>3 DEF WritesPage, RemovesPage
    <3>3. Entries(d) = Entries(e)
      BY <3>2 DEF Entries
    <3> QED
      BY <1>2, <2>2, <3>1, <3>3
  <2>4. CASE AddsEntries(w, d) \/ RemovesEntry(w, d)
    <3>1. w.pages = {} /\ \E n : Entries(d) \subseteq Entries(e) \cup {n}
      BY <1>4, <2>4 DEF AddsEntries, RemovesEntry
    <3>2. Pages(e) = Pages(d) /\ \A p \in Pages(e) : e.pages[p] = d.pages[p]
      BY <2>1, <3>1 DEF Pages
    <3> QED
      BY <1>1, <2>2, <3>1, <3>2
  <2>5. CASE RenamesEntry(w, d)
    <3>1. PICK from, to :
              /\ w.pages = Users(d, from)
              /\ Entries(d) \subseteq Entries(w.def) \cup {from}
              /\ \A p \in PageId :
                    /\ p \in Pages(w.def) <=> p \in Pages(d)
                    /\ p \in Pages(d) =>
                          /\ w.def.pages[p].path = d.pages[p].path
                          /\ ColorsOf(w.def.pages[p]) \subseteq ColorsOf(d.pages[p]) \cup {to}
      BY <2>5 DEF RenamesEntry
    <3>2. \A p \in PageId : PathsOf(d, e, p)
      BY <1>4, <3>1 DEF PathsOf
    <3>3. \A p \in Pages(e) : p \in Pages(d) /\ ColorsOf(e.pages[p]) \subseteq ColorsOf(d.pages[p]) \cup {to}
      BY <1>4, <3>1 DEF Pages
    <3> QED
      BY <1>4, <3>1, <3>2, <3>3
  <2>6. CASE Respaces(w, d)
    <3>1. e = d
      BY <1>4, <2>6 DEF Respaces
    <3> QED
      BY <1>1, <3>1 DEF PathsOf
  <2> QED
    BY <1>4, <2>3, <2>4, <2>5, <2>6 DEF Wanted, Shaped
<1> QED
  BY <1>3, <1>4 DEF Follows

\* Pages at the paths of a site's are at paths of their own.
LEMMA SamePaths ==
    ASSUME NEW d, NEW e, PathsUnique(e), \A p \in PageId : PathsOf(e, d, p)
    PROVE  PathsUnique(d)
  BY DEF PathsUnique, PathsOf, Pages

\* A command that lands over one other leaves a site that some command mends.
LEMMA OverlapIsMendable ==
    ASSUME NEW d \in Definition, NEW e \in Definition, Follows(d, e),
           NEW s, ReadOf(s, d, e), NEW w, Wanted(w, s), ValidSite(w.def)
    PROVE  Mendable(Applied(w, e))
<1> DEFINE f == Applied(w, e)
<1> SUFFICES Mendable(f)
  OBVIOUS
<1>1. w \in Proposal /\ w.def \in Definition /\ w.pages \subseteq PageId /\ w.base \in BOOLEAN
  BY DEF Wanted, Proposal
<1>2. f \in Definition
  BY <1>1, AppliedIsDefinition
<1>3. /\ f.palette = IF w.base THEN w.def.palette ELSE e.palette
      /\ \A p \in PageId : f.pages[p] = IF p \in w.pages THEN w.def.pages[p] ELSE e.pages[p]
  BY DEF Applied
<1>4. s \in Definition
  BY DEF ReadOf, Definition
<1>5. /\ w.def.palette = IF w.base THEN w.def.palette ELSE s.palette
      /\ \A p \in PageId : w.def.pages[p] = IF p \in w.pages THEN w.def.pages[p] ELSE s.pages[p]
  <2>1. Applied(w, s) = w.def
    BY DEF Wanted
  <2> QED
    BY <2>1 DEF Applied
<1> HIDE DEF f
<1>6. \A p \in Pages(f) : \/ (p \in w.pages /\ p \in Pages(w.def) /\ f.pages[p] = w.def.pages[p])
                          \/ (p \notin w.pages /\ p \in Pages(e) /\ f.pages[p] = e.pages[p])
  BY <1>3 DEF Pages
<1>7. /\ ValidSite(d) /\ ValidSite(e)
      /\ PathsUnique(d) /\ PathsUnique(e)
      /\ \A p \in Pages(d) : ColorsOf(d.pages[p]) \subseteq Entries(d)
      /\ \A p \in Pages(e) : ColorsOf(e.pages[p]) \subseteq Entries(e)
      /\ \A p \in Pages(w.def) : ColorsOf(w.def.pages[p]) \subseteq Entries(w.def)
  BY <1>1, ValidIs DEF Follows, Paints
<1>8. ASSUME PathsUnique(f), NEW n, \A p \in Pages(f) : ColorsOf(f.pages[p]) \subseteq Entries(f) \cup {n}
      PROVE  Mendable(f)
  BY <1>1, <1>2, <1>6, <1>7, <1>8, OneIsMissing
<1>9. ASSUME ~w.base, WritesPage(w) PROVE Mendable(f)
  <2>1. PICK p \in PageId : w.pages = {p}
    BY <1>9 DEF WritesPage
  <2>2. Entries(f) = Entries(e)
    BY <1>3, <1>9 DEF Entries
  <2>3. CASE p \in Pages(f)
    <3> DEFINE g == Without(f, p)
    <3>1. /\ g \in Definition /\ g.palette = f.palette
          /\ \A q \in PageId : g.pages[q] = IF q = p THEN None ELSE f.pages[q]
      BY <1>2 DEF Without, Definition
    <3> HIDE DEF g
    <3>2. Entries(g) = Entries(e)
      BY <2>2, <3>1 DEF Entries
    <3>3. \A q \in Pages(g) : q \in Pages(e) /\ g.pages[q] = e.pages[q]
      BY <1>3, <2>1, <3>1 DEF Pages
    <3>4. ValidSite(g)
      BY <1>7, <3>1, <3>2, <3>3, PartIsValid
    <3> QED
      BY <2>3, <3>4 DEF Mendable, g
  <2>4. CASE p \notin Pages(f)
    <3>1. \A q \in Pages(f) : q \in Pages(e) /\ f.pages[q] = e.pages[q]
      BY <1>6, <2>1, <2>4
    <3>2. ValidSite(f)
      BY <1>2, <1>7, <2>2, <3>1, PartIsValid
    <3> QED
      BY <3>2 DEF Mendable
  <2> QED
    BY <2>3, <2>4
<1>10. CASE s = [d EXCEPT !.pages = e.pages] /\ ~WritesPage(w)
  <2>1. s.pages = e.pages
    BY <1>10, <1>4 DEF Definition
  <2>2. ASSUME w.base PROVE ValidSite(f)
    <3>1. Entries(f) = Entries(w.def)
      BY <1>3, <2>2 DEF Entries
    <3>2. \A p \in PageId : f.pages[p] = w.def.pages[p]
      BY <1>3, <1>5, <2>1
    <3> QED
      BY <1>1, <1>2, <3>1, <3>2, PartIsValid DEF Pages
  <2>3. ASSUME Respaces(w, s) PROVE ValidSite(f)
    <3>1. Entries(f) = Entries(e)
      BY <1>3, <2>3 DEF Entries, Respaces
    <3>2. \A p \in PageId : f.pages[p] = e.pages[p]
      BY <1>3, <2>1, <2>3 DEF Respaces
    <3> QED
      BY <1>2, <1>7, <3>1, <3>2, PartIsValid DEF Pages
  <2> QED
    BY <1>10, <2>2, <2>3 DEF Wanted, Shaped, RemovesPage, AddsEntries, RemovesEntry, RenamesEntry, Mendable
<1>11. PICK n : Entries(d) \subseteq Entries(e) \cup {n}
  BY FollowsIs
<1>12. PICK q : \A p \in PageId \ {q} : PathsOf(d, e, p)
  BY FollowsIs
<1>13. \/ \A p \in Pages(e) : ColorsOf(e.pages[p]) \subseteq Entries(d)
       \/ \E t : \A p \in Pages(e) :
             p \in Pages(d) /\ ColorsOf(e.pages[p]) \subseteq ColorsOf(d.pages[p]) \cup {t}
  BY FollowsIs
<1>14. \E t : \A p \in Pages(e) : ColorsOf(e.pages[p]) \subseteq Entries(d) \cup {t}
  BY <1>7, <1>13
<1>15. CASE s = d /\ RemovesPage(w, d)
  <2>1. Entries(f) = Entries(d)
    BY <1>3, <1>15 DEF RemovesPage, Entries
  <2>2. \A p \in Pages(f) : p \in Pages(e) /\ f.pages[p] = e.pages[p]
    BY <1>6, <1>15 DEF RemovesPage, Pages
  <2>3. PathsUnique(f)
    BY <1>7, <2>2 DEF PathsUnique
  <2>4. PICK t : \A p \in Pages(e) : ColorsOf(e.pages[p]) \subseteq Entries(d) \cup {t}
    BY <1>14
  <2> QED
    BY <1>8, <2>1, <2>2, <2>3, <2>4
<1>16. CASE s = d /\ (AddsEntries(w, d) \/ RemovesEntry(w, d))
  <2>1. w.pages = {}
    BY <1>16 DEF AddsEntries, RemovesEntry
  <2>2. \A p \in Pages(f) : p \in Pages(e) /\ f.pages[p] = e.pages[p]
    BY <1>6, <2>1
  <2>3. PathsUnique(f)
    BY <1>7, <2>2 DEF PathsUnique
  <2>4. Entries(f) = Entries(w.def)
    BY <1>3, <1>16 DEF AddsEntries, RemovesEntry, Entries
  <2>5. PICK c : \/ Entries(d) \subseteq Entries(f)
                 \/ (Users(d, c) = {} /\ Entries(d) \subseteq Entries(f) \cup {c})
    BY <1>16, <2>4 DEF AddsEntries, RemovesEntry
  <2>6. CASE Entries(d) \subseteq Entries(f)
    BY <1>8, <1>14, <2>2, <2>3, <2>6
  <2>7. CASE /\ Users(d, c) = {} /\ Entries(d) \subseteq Entries(f) \cup {c}
             /\ \A p \in Pages(e) : ColorsOf(e.pages[p]) \subseteq Entries(d)
    BY <1>8, <2>2, <2>3, <2>7
  <2>8. ASSUME Users(d, c) = {}, Entries(d) \subseteq Entries(f) \cup {c}, NEW t,
               \A p \in Pages(e) : p \in Pages(d) /\ ColorsOf(e.pages[p]) \subseteq ColorsOf(d.pages[p]) \cup {t}
        PROVE  Mendable(f)
    <3>1. \A p \in Pages(d) : ColorsOf(d.pages[p]) \subseteq Entries(f)
      BY <1>7, <2>8 DEF Users
    <3> QED
      BY <1>8, <2>2, <2>3, <2>8, <3>1
  <2> QED
    BY <1>13, <2>5, <2>6, <2>7, <2>8
<1>17. CASE s = d /\ RenamesEntry(w, d)
  <2>1. PICK from, to :
            /\ w.pages = Users(d, from)
            /\ Entries(d) \subseteq Entries(w.def) \cup {from}
            /\ \A p \in PageId : PathsOf(d, w.def, p)
    BY <1>17 DEF RenamesEntry, PathsOf, Pages
  <2>2. Entries(f) = Entries(w.def)
    BY <1>3, <1>17 DEF RenamesEntry, Entries
  <2>3. PathsUnique(f)
    <3>1. CASE q \in Users(d, from)
      <4>1. \A p \in PageId : PathsOf(d, f, p)
        BY <1>3, <1>12, <2>1, <3>1 DEF PathsOf, Pages
      <4> QED
        BY <1>7, <4>1, SamePaths
    <3>2. CASE q \notin Users(d, from)
      <4>1. \A p \in PageId : PathsOf(e, f, p)
        BY <1>3, <1>12, <2>1, <3>2 DEF PathsOf, Pages
      <4> QED
        BY <1>7, <4>1, SamePaths
    <3> QED
      BY <3>1, <3>2
  <2>4. \A p \in Pages(f) : p \in w.pages => ColorsOf(f.pages[p]) \subseteq Entries(f)
    BY <1>6, <1>7, <2>2
  <2>5. CASE \A p \in Pages(e) : ColorsOf(e.pages[p]) \subseteq Entries(d)
    <3>1. \A p \in Pages(f) : ColorsOf(f.pages[p]) \subseteq Entries(f) \cup {from}
      BY <1>6, <2>1, <2>2, <2>4, <2>5
    <3> QED
      BY <1>8, <2>3, <3>1
  <2>6. ASSUME NEW t, \A p \in Pages(e) : p \in Pages(d) /\ ColorsOf(e.pages[p]) \subseteq ColorsOf(d.pages[p]) \cup {t}
        PROVE  Mendable(f)
    <3>1. \A p \in Pages(d) : p \notin w.pages => ColorsOf(d.pages[p]) \subseteq Entries(f)
      BY <1>7, <2>1, <2>2 DEF Users
    <3>2. \A p \in Pages(f) : ColorsOf(f.pages[p]) \subseteq Entries(f) \cup {t}
      BY <1>6, <2>4, <2>6, <3>1
    <3> QED
      BY <1>8, <2>3, <3>2
  <2> QED
    BY <1>13, <2>5, <2>6
<1>18. CASE s = d /\ Respaces(w, d)
  <2>1. w.pages = Pages(d) /\ w.def = d /\ Entries(f) = Entries(e)
    BY <1>3, <1>18 DEF Respaces, Entries
  <2>2. PathsUnique(f)
    <3>1. CASE q \in Pages(d)
      <4>1. \A p \in PageId : PathsOf(d, f, p)
        BY <1>3, <1>12, <2>1, <3>1 DEF PathsOf, Pages
      <4> QED
        BY <1>7, <4>1, SamePaths
    <3>2. CASE q \notin Pages(d)
      <4>1. \A p \in PageId : PathsOf(e, f, p)
        BY <1>3, <1>12, <2>1, <3>2 DEF PathsOf, Pages
      <4> QED
        BY <1>7, <4>1, SamePaths
    <3> QED
      BY <3>1, <3>2
  <2>3. \A p \in Pages(f) : ColorsOf(f.pages[p]) \subseteq Entries(f) \cup {n}
    BY <1>6, <1>7, <1>11, <2>1
  <2> QED
    BY <1>8, <2>2, <2>3
<1>19. Shaped(w, s)
  BY DEF Wanted
<1>20. CASE WritesPage(w)
  BY <1>9, <1>20 DEF WritesPage
<1> QED
  BY <1>10, <1>15, <1>16, <1>17, <1>18, <1>19, <1>20 DEF ReadOf, Shaped

\* What a command that began at a definition may have come to while the draft went
\* on from it: it has read of the two, and wants what it makes of what it read.
Stands(a, d) ==
    /\ pc[a] = "base" => seen[a] = d
    /\ pc[a] = "pages" => ReadOf(seen[a], d, draft)
    /\ pc[a] = "planned" => \E s : ReadOf(s, d, draft) /\ Wanted(plan[a], s)
    /\ pc[a] = "valid" =>
          \/ Files(plan[a])
          \/ \E s, w : /\ ReadOf(s, d, draft) /\ Wanted(w, s)
                       /\ ValidSite(w.def) /\ plan[a] = Written(w)

BeganAt(a, d) == (stale[a] = 0 => d = draft) /\ Follows(d, draft) /\ Stands(a, d)

\* Until a command has landed over another, one that at most one write landed under
\* began at a definition that is at most that write away.
OneWriteAway ==
    overlaps = 0 => \A a \in Actor : pc[a] # "idle" /\ stale[a] <= 1 =>
                        \E d \in Definition : BeganAt(a, d)

\* The invariant: after the first that did, the draft is mendable.
MendInv == OneWriteAway /\ (overlaps <= 1 => Mendable(draft))

\* What a step that leaves the draft and the other callers alone has to show of its
\* own caller.
LEMMA OneStands ==
    ASSUME TypeOK, TypeOK', MendInv, NEW a \in Actor, draft' = draft, overlaps' = overlaps,
           \A b \in Actor \ {a} : /\ pc'[b] = pc[b] /\ seen'[b] = seen[b]
                                  /\ plan'[b] = plan[b] /\ stale'[b] = stale[b],
           overlaps = 0 /\ pc'[a] # "idle" /\ stale'[a] <= 1 => \E d \in Definition : BeganAt(a, d)'
    PROVE  MendInv'
<1>1. ASSUME overlaps' = 0, NEW b \in Actor, pc'[b] # "idle", stale'[b] <= 1
      PROVE  \E d \in Definition : BeganAt(b, d)'
  <2>1. CASE b = a
    BY <1>1, <2>1
  <2>2. CASE b # a
    <3>1. PICK d \in Definition : BeganAt(b, d)
      BY <1>1, <2>2 DEF MendInv, OneWriteAway
    <3>2. BeganAt(b, d)'
      BY <2>2, <3>1 DEF BeganAt, Stands
    <3> QED
      BY <3>2
  <2> QED
    BY <2>1, <2>2
<1>2. OneWriteAway'
  BY <1>1 DEF OneWriteAway
<1> QED
  BY <1>2 DEF MendInv

\* What is read of a definition and itself is the definition.
LEMMA ReadOfOne ==
    ASSUME NEW d \in Definition, NEW s, ReadOf(s, d, d)
    PROVE  s = d
  BY DEF ReadOf, Definition

\* Every step keeps it.
LEMMA StepMends == EditInv /\ SiteInv /\ MendInv /\ [Next]_vars => MendInv'
<1> SUFFICES ASSUME EditInv, SiteInv, MendInv, [Next]_vars PROVE MendInv'
  OBVIOUS
<1>1. TypeOK /\ TypeOK' /\ draft \in Definition
  BY StepTypes DEF EditInv, TypeOK
<1>2. overlaps = 0 => Follows(draft, draft)
  BY DEF SiteInv, Follows
<1>3. CASE UNCHANGED vars
  BY <1>3 DEF vars, MendInv, OneWriteAway, BeganAt, Stands
<1>4. CASE Next
  <2>1. PICK a \in Actor : \/ ReadBase(a) \/ ReadPages(a) \/ Check(a) \/ Refuse(a) \/ Land(a)
                           \/ Decides(a) \/ DecidesFiles(a)
    BY <1>1, <1>4, NextIs
  <2>2. CASE ReadBase(a)
    <3>1. /\ pc'[a] = "base" /\ seen'[a] = draft /\ draft' = draft /\ overlaps' = overlaps
          /\ \A b \in Actor \ {a} : /\ pc'[b] = pc[b] /\ seen'[b] = seen[b]
                                     /\ plan'[b] = plan[b] /\ stale'[b] = stale[b]
      BY <1>1, <2>2 DEF ReadBase, TypeOK
    <3>2. overlaps = 0 => BeganAt(a, draft)'
      BY <1>2, <3>1 DEF BeganAt, Stands
    <3> QED
      BY <1>1, <3>1, <3>2, OneStands
  <2>3. CASE ReadPages(a)
    <3>1. /\ pc[a] = "base" /\ pc'[a] = "pages" /\ draft' = draft /\ overlaps' = overlaps /\ stale' = stale
          /\ seen'[a] = [seen[a] EXCEPT !.pages = draft.pages]
          /\ \A b \in Actor \ {a} : /\ pc'[b] = pc[b] /\ seen'[b] = seen[b]
                                     /\ plan'[b] = plan[b] /\ stale'[b] = stale[b]
      BY <1>1, <2>3 DEF ReadPages, TypeOK
    <3>2. ASSUME overlaps = 0, stale[a] <= 1 PROVE \E d \in Definition : BeganAt(a, d)'
      <4>1. PICK d \in Definition : BeganAt(a, d)
        BY <3>1, <3>2 DEF MendInv, OneWriteAway
      <4>2. BeganAt(a, d)'
        BY <3>1, <4>1 DEF BeganAt, Stands, ReadOf
      <4> QED
        BY <4>2
    <3> QED
      BY <1>1, <3>1, <3>2, OneStands
  <2>4. CASE Check(a)
    <3>1. /\ pc[a] = "planned" /\ pc'[a] = "valid" /\ draft' = draft /\ overlaps' = overlaps /\ stale' = stale
          /\ plan'[a] = Written(plan[a]) /\ ValidSite(plan[a].def)
          /\ \A b \in Actor \ {a} : /\ pc'[b] = pc[b] /\ seen'[b] = seen[b]
                                     /\ plan'[b] = plan[b] /\ stale'[b] = stale[b]
      BY <1>1, <2>4 DEF Check, TypeOK, Accepts
    <3>2. ASSUME overlaps = 0, stale[a] <= 1 PROVE \E d \in Definition : BeganAt(a, d)'
      <4>1. PICK d \in Definition : BeganAt(a, d)
        BY <3>1, <3>2 DEF MendInv, OneWriteAway
      <4>2. BeganAt(a, d)'
        BY <3>1, <4>1 DEF BeganAt, Stands
      <4> QED
        BY <4>2
    <3> QED
      BY <1>1, <3>1, <3>2, OneStands
  <2>5. CASE Refuse(a)
    BY <1>1, <2>5, OneStands DEF Refuse, Forget, TypeOK
  <2>6. CASE Land(a)
    <3> DEFINE w == plan[a]
    <3>1. /\ pc[a] = "valid" /\ w \in Proposal /\ draft' = Applied(w, draft)
          /\ overlaps' = UpToTwo(overlaps + stale[a]) /\ overlaps \in 0..2 /\ stale[a] \in 0..2
      BY <1>1, <2>6, HeldIsOfItsKind, LandApplies DEF Land, TypeOK
    <3>2. \A b \in Actor : pc'[b] # "idle" /\ stale'[b] <= 1 =>
              /\ stale[b] = 0 /\ stale'[b] = 1
              /\ pc[b] # "idle" /\ pc'[b] = pc[b] /\ seen'[b] = seen[b] /\ plan'[b] = plan[b]
      BY <1>1, <2>6 DEF Land, Forget, TypeOK, UpToTwo
    <3> HIDE DEF w
    <3>3. Files(w) => draft' = draft
      BY <1>1, <3>1, FilesLeaveTheDraft
    <3>4. ASSUME overlaps = 0, stale[a] = 0 PROVE Follows(draft, draft')
      <4>1. PICK d \in Definition : BeganAt(a, d)
        BY <3>1, <3>4 DEF MendInv, OneWriteAway
      <4>2. CASE Files(w)
        BY <1>2, <3>3, <3>4, <4>2
      <4>3. ASSUME NEW s, NEW v, ReadOf(s, d, draft), Wanted(v, s), ValidSite(v.def), w = Written(v)
            PROVE  Follows(draft, draft')
        <5>1. s = draft
          BY <1>1, <3>4, <4>1, <4>3, ReadOfOne DEF BeganAt
        <5>2. v \in Proposal /\ Applied(v, draft) = v.def
          BY <4>3, <5>1 DEF Wanted
        <5>3. draft' = v.def
          BY <1>1, <3>1, <4>3, <5>2, WrittenIs
        <5> QED
          BY <1>2, <3>4, <4>3, <5>1, <5>3 DEF Follows
      <4> QED
        BY <3>1, <4>1, <4>2, <4>3 DEF BeganAt, Stands, w
    <3>5. ASSUME overlaps' = 0, NEW b \in Actor, pc'[b] # "idle", stale'[b] <= 1
          PROVE  \E d \in Definition : BeganAt(b, d)'
      <4>1. overlaps = 0 /\ stale[a] = 0
        BY <3>1, <3>5 DEF UpToTwo
      <4>2. PICK d \in Definition : BeganAt(b, d)
        BY <3>2, <3>5, <4>1 DEF MendInv, OneWriteAway
      <4>3. d = draft /\ Stands(b, draft)
        BY <3>2, <3>5, <4>2 DEF BeganAt
      <4>4. \A s : ReadOf(s, draft, draft) => ReadOf(s, draft, draft')
        BY <1>1, ReadOfOne DEF ReadOf
      <4>5. /\ pc'[b] = "base" => seen'[b] = draft
            /\ pc'[b] = "pages" => ReadOf(seen'[b], draft, draft')
        BY <3>2, <3>5, <4>3, <4>4 DEF Stands
      <4>6. pc'[b] = "planned" => \E s : ReadOf(s, draft, draft') /\ Wanted(plan'[b], s)
        BY <3>2, <3>5, <4>3, <4>4 DEF Stands
      <4>7. pc'[b] = "valid" =>
               \/ Files(plan'[b])
               \/ \E s, v : /\ ReadOf(s, draft, draft') /\ Wanted(v, s)
                            /\ ValidSite(v.def) /\ plan'[b] = Written(v)
        BY <3>2, <3>5, <4>3, <4>4 DEF Stands
      <4>8. /\ stale'[b] = 1 /\ Follows(draft, draft')
        BY <3>2, <3>4, <3>5, <4>1
      <4>9. \E d0 \in Definition : d0 = draft
        BY <1>1
      <4>10. PICK d0 \in Definition : d0 = draft
        BY <4>9
      <4>11. BeganAt(b, d0)'
        BY <4>5, <4>6, <4>7, <4>8, <4>10 DEF BeganAt, Stands
      <4> QED
        BY <4>11
    <3>6. ASSUME overlaps' <= 1 PROVE Mendable(draft')
      <4>1. CASE stale[a] = 0
        <5>1. overlaps <= 1
          BY <3>1, <3>6, <4>1 DEF UpToTwo
        <5> QED
          BY <2>6, <4>1, <5>1, FreshWrite DEF MendInv, Mendable, Edits
      <4>2. CASE stale[a] # 0
        <5>1. overlaps = 0 /\ stale[a] <= 1
          BY <3>1, <3>6, <4>2 DEF UpToTwo
        <5>2. PICK d \in Definition : BeganAt(a, d)
          BY <3>1, <5>1 DEF MendInv, OneWriteAway
        <5>3. CASE Files(w)
          BY <3>3, <5>1, <5>3 DEF MendInv
        <5>4. ASSUME NEW s, NEW v, ReadOf(s, d, draft), Wanted(v, s), ValidSite(v.def), w = Written(v)
              PROVE  Mendable(draft')
          <6>1. draft' = Applied(v, draft)
            BY <1>1, <3>1, <5>4, WrittenIs DEF Wanted
          <6>2. Mendable(Applied(v, draft))
            BY <1>1, <5>2, <5>4, OverlapIsMendable DEF BeganAt
          <6> QED
            BY <6>1, <6>2
        <5> QED
          BY <3>1, <5>2, <5>3, <5>4 DEF BeganAt, Stands, w
      <4> QED
        BY <4>1, <4>2
    <3>7. OneWriteAway'
      BY <3>5 DEF OneWriteAway
    <3> QED
      BY <3>6, <3>7 DEF MendInv
  <2>7. CASE Decides(a)
    <3>1. PICK w \in Proposal : Wanted(w, seen[a]) /\ plan' = [plan EXCEPT ![a] = w]
      BY <2>7 DEF Decides
    <3>2. /\ pc[a] = "pages" /\ pc'[a] = "planned" /\ draft' = draft /\ overlaps' = overlaps /\ stale' = stale
          /\ plan'[a] = w
          /\ \A b \in Actor \ {a} : /\ pc'[b] = pc[b] /\ seen'[b] = seen[b]
                                     /\ plan'[b] = plan[b] /\ stale'[b] = stale[b]
      BY <1>1, <2>7, <3>1 DEF Decides, TypeOK
    <3>3. ASSUME overlaps = 0, stale[a] <= 1 PROVE \E d \in Definition : BeganAt(a, d)'
      <4>1. PICK d \in Definition : BeganAt(a, d)
        BY <3>2, <3>3 DEF MendInv, OneWriteAway
      <4>2. BeganAt(a, d)'
        BY <3>1, <3>2, <4>1 DEF BeganAt, Stands
      <4> QED
        BY <4>2
    <3> QED
      BY <1>1, <3>2, <3>3, OneStands
  <2>8. CASE DecidesFiles(a)
    <3>1. PICK op \in AssetOp, stores \in SUBSET Asset, drops \in SUBSET Asset :
              (op # "asset.rm" => drops = {}) /\ DecideAsset(a, op, stores, drops)
      BY <2>8 DEF DecidesFiles
    <3> DEFINE w == [op |-> op, def |-> draft, base |-> FALSE, pages |-> {},
                     stores |-> stores, drops |-> drops]
    <3>2. w \in Proposal
      BY <1>1, FilesProposal
    <3>3. plan' = [plan EXCEPT ![a] = Written(w)]
      BY <3>1 DEF DecideAsset
    <3>4. w.op \in AssetOp /\ w.base = FALSE /\ w.pages = {} /\ (w.op # "asset.rm" => w.drops = {})
      BY <3>1
    <3> HIDE DEF w
    <3>5. Files(Written(w))
      BY <3>2, <3>4, WrittenIs DEF Files
    <3>6. /\ plan'[a] = Written(w) /\ pc'[a] = "valid" /\ draft' = draft /\ overlaps' = overlaps
          /\ \A b \in Actor \ {a} : /\ pc'[b] = pc[b] /\ seen'[b] = seen[b]
                                     /\ plan'[b] = plan[b] /\ stale'[b] = stale[b]
      BY <1>1, <3>1, <3>3 DEF DecideAsset, TypeOK
    <3>7. overlaps = 0 => BeganAt(a, draft)'
      BY <1>2, <3>5, <3>6 DEF BeganAt, Stands
    <3> QED
      BY <1>1, <3>6, <3>7, OneStands
  <2> QED
    BY <2>1, <2>2, <2>3, <2>4, <2>5, <2>6, <2>7, <2>8
<1> QED
  BY <1>3, <1>4

\* One command that lands over another, which is what the whole-site check cannot
\* see, leaves a site that started valid in a state some command still mends:
\* without the page it wrote, or with the color that went under it.
THEOREM OneOverlapIsMended == StartsValid /\ Spec => []OneOverlapIsRepaired
<1>1. StartsValid /\ Init => MendInv
  BY DEF StartsValid, Init, MendInv, OneWriteAway, Mendable
<1>2. TypeOK /\ MendInv => OneOverlapIsRepaired
  BY MendableIsRepaired DEF TypeOK, MendInv, OneOverlapIsRepaired, Repairable
<1> QED
  BY <1>1, <1>2, TypeCorrect, EditInvariant, SiteIsKept, StepMends, PTL DEF Spec
-----------------------------------------------------------------------------
(* The builder in which edits are made: what is on screen is of the business *)
(* in scope, for any number of businesses, selections and files.  A selection *)
(* that has nothing beside it is of that business at each of its steps; where *)
(* selections cross, the frame alone is made again from the scope.           *)

\* The selections whose sites are not listed yet.
Unanswered == {i \in Selection : select[i].pc = "sites"}

\* A selection opens one session, once its sites are listed.
OpeningsFit == generation + Cardinality(Unanswered) <= made

PaneTypes == PaneTypeOK /\ OpeningsFit

\* The frame is on the site in scope, or a list of sites is to come.
FrameFollows == frame = PreviewUrl(scope, site) \/ ended \/ Unanswered # {}

\* A selection, or a drop, that has nothing beside it is of the business in scope,
\* and so is what it has brought on screen.
AloneIsOfScope ==
    crossed # "still" /\ ~ended =>
        /\ \A i, j \in Selecting : i = j
        /\ \A i \in Selecting : select[i].of = scope
        /\ upload # None => Selecting = {} /\ upload.of = scope
        /\ Unanswered = {} => site \in Sites[scope] \cup {None} /\ library \in {scope, None}
        /\ (\A i \in Selecting : select[i].pc = "people") => people \in {scope, None}

\* The session that was opened last is the site's; it is on screen or awaited.
LastIsOfSite ==
    generation > 0 =>
        IF site = None THEN chat = None /\ opening[generation] = None
        ELSE IF opening[generation] = None THEN chat # None /\ chat.id[2] = site
        ELSE opening[generation].slug = site

PaneInv == PaneTypes /\ FrameFollows /\ AloneIsOfScope /\ LastIsOfSite

-----------------------------------------------------------------------------
(* Helpers.                                                                 *)

\* What the constants are: None is none of what is asked for, shown or sent.
LEMMA PaneConstants ==
    /\ Sites \in [Business -> SUBSET Slug]
    /\ MaxSelects \in Nat \ {0} /\ MaxFiles \in Nat \ {0}
    /\ None \notin Business \cup Conversation \cup Drop \cup [of: Business, slug: Slug]
BY SitesAreOfBusinesses, BoundsAreNat, NoneIsNoAnswer

\* Selections are the numbers up to the bound, and finitely many.
LEMMA Numbers ==
    /\ MaxSelects \in Nat /\ 1 \in Selection
    /\ \A n : n \in Selection <=> n \in Nat /\ 1 <= n /\ n <= MaxSelects
    /\ Opening = Selection /\ IsFiniteSet(Selection)
<1>1. IsFiniteSet(1..MaxSelects)
  BY BoundsAreNat, FS_Interval
<1> QED
  BY <1>1, BoundsAreNat DEF Selection, Opening

\* So are those that wait for an answer.
LEMMA UnansweredIsFinite ==
    IsFiniteSet(Unanswered) /\ Cardinality(Unanswered) \in Nat
  BY Numbers, FS_Subset, FS_CardinalityType DEF Unanswered

\* What is chosen of a list is on it, or nothing is.
LEMMA ChosenIs ==
    ASSUME NEW list, site \in Slug \cup {None}
    PROVE  Chosen(list) \in list \cup {None}
  BY DEF Chosen

\* The URL of a preview is of the site it is made for.
LEMMA UrlIs ==
    ASSUME NEW b \in Business \cup {None}, NEW s \in Slug \cup {None}
    PROVE  PreviewUrl(b, s) \in Url /\ PreviewUrl(b, s).slug = s
  BY DEF PreviewUrl, Url, Blank

\* A selection goes on with what is not a list of sites.
LEMMA AnsweredOne ==
    ASSUME PaneTypes, NEW i \in Unanswered, NEW q \in SelectState, q.pc # "sites",
           select' = [select EXCEPT ![i] = q]
    PROVE  /\ Cardinality(Unanswered)' = Cardinality(Unanswered) - 1
           /\ Cardinality(Unanswered) \in Nat \ {0}
<1>1. Unanswered' = Unanswered \ {i}
  BY DEF Unanswered, PaneTypes, PaneTypeOK
<1>2. IsFiniteSet(Unanswered) /\ Cardinality(Unanswered) \in Nat
  BY UnansweredIsFinite
<1>3. Cardinality(Unanswered \ {i}) = Cardinality(Unanswered) - 1
  BY <1>2, FS_RemoveElement
<1>4. Cardinality(Unanswered) # 0
  BY <1>2, FS_EmptySet
<1> QED
  BY <1>1, <1>2, <1>3, <1>4

\* A selection that does not wait for its sites does not count.
LEMMA StaysUnanswered ==
    ASSUME PaneTypes, NEW i \in Selection, NEW q \in SelectState, q.pc # "sites",
           select[i].pc # "sites", select' = [select EXCEPT ![i] = q]
    PROVE  Unanswered' = Unanswered
  BY DEF Unanswered, PaneTypes, PaneTypeOK

\* One selection moves.
LEMMA SelectMoves ==
    ASSUME PaneTypes, NEW i \in Selection, NEW q \in SelectState, select' = [select EXCEPT ![i] = q],
           q.pc # "idle" => q.of # None /\ i <= made, made' = made
    PROVE  /\ select' \in [Selection -> SelectState]
           /\ select'[i] = q /\ \A j \in Selection \ {i} : select'[j] = select[j]
           /\ \A j \in Selection : select'[j].pc # "idle" => select'[j].of # None /\ j <= made'
  BY DEF PaneTypes, PaneTypeOK

-----------------------------------------------------------------------------
(* The steps.                                                               *)

\* Nothing is selected and nothing shown.
LEMMA PaneStarts == PaneInit => PaneInv
<1> SUFFICES ASSUME PaneInit PROVE PaneInv
  OBVIOUS
<1>1. /\ select \in [Selection -> SelectState]
      /\ \A i \in Selection : IF i = 1 THEN select[i] = [pc |-> "sites", of |-> scope] ELSE select[i] = Idle
      /\ scope \in Business /\ scope # None
  BY PaneConstants DEF PaneInit, SelectState, Idle
<1>2. Unanswered = {1}
  BY <1>1, Numbers DEF Unanswered, Idle
<1>3. OpeningsFit
  <2>1. Cardinality({1}) = 1
    BY FS_Singleton, Zenon
  <2>2. Cardinality(Unanswered) = 1 /\ generation = 0 /\ made = 1
    BY <1>2, <2>1 DEF PaneInit
  <2> QED
    BY <2>2 DEF OpeningsFit
<1>4. frame \in Url /\ doc \in Url /\ frame.slug = site
  BY UrlIs DEF PaneInit, Blank, Url
<1>5. PaneTypeOK
  <2>1. \A i \in Selection : select[i].pc # "idle" => select[i].of # None /\ i <= made
    <3>1. made = 1 /\ 1 <= 1
      BY DEF PaneInit
    <3> QED
      BY <1>1, <3>1 DEF Idle
  <2>2. generation \in 0..MaxSelects /\ made \in Selection
    BY Numbers DEF PaneInit
  <2>3. opening = [g \in Opening |-> None] /\ chat = None /\ library = None /\ people = None
        /\ upload = None /\ ended = FALSE /\ crossed = "never" /\ site \in Slug \cup {None}
    BY DEF PaneInit
  <2> QED
    BY <1>1, <1>4, <2>1, <2>2, <2>3 DEF PaneTypeOK
<1> QED
  BY <1>1, <1>2, <1>3, <1>5 DEF PaneInit, PaneInv, PaneTypes, FrameFollows, AloneIsOfScope,
                                LastIsOfSite,
                                Selecting, Idle

\* A new selection sets the scope, and whoever is in flight is overtaken.
LEMMA SelectKeeps ==
    ASSUME PaneInv, NEW b \in Business, SelectBusiness(b)
    PROVE  PaneInv'
<1> DEFINE k == made + 1
           q == [pc |-> "sites", of |-> b]
<1>1. /\ made \in Nat /\ made < MaxSelects /\ made' = k /\ k \in Selection /\ scope' = b
      /\ generation \in Nat /\ b # None
      /\ UNCHANGED <<site, frame, doc, chat, library, people, opening, generation, upload, ended>>
  BY Numbers, PaneConstants DEF PaneInv, PaneTypes, PaneTypeOK, SelectBusiness
<1>2. /\ select' = [select EXCEPT ![k] = q] /\ q \in SelectState /\ select[k].pc = "idle"
      /\ select \in [Selection -> SelectState]
  BY <1>1 DEF PaneInv, PaneTypes, PaneTypeOK, SelectBusiness, SelectState
<1>3. /\ select' \in [Selection -> SelectState] /\ select'[k].pc = "sites" /\ select'[k].of = b
      /\ \A j \in Selection \ {k} : select'[j] = select[j]
  BY <1>1, <1>2
<1>4. Unanswered' = Unanswered \cup {k} /\ k \notin Unanswered
  BY <1>1, <1>2, <1>3 DEF Unanswered
<1>5. OpeningsFit'
  <2>1. IsFiniteSet(Unanswered) /\ Cardinality(Unanswered) \in Nat
    BY UnansweredIsFinite
  <2>2. Cardinality(Unanswered \cup {k}) = Cardinality(Unanswered) + 1
    BY <1>4, <2>1, FS_AddElement
  <2> QED
    BY <1>1, <1>4, <2>1, <2>2 DEF OpeningsFit, PaneInv, PaneTypes
<1>6. crossed' \in {"never", "before", "still"}
  BY DEF SelectBusiness
<1>7. PaneTypeOK'
  <2>1. \A i \in Selection : select'[i].pc # "idle" => select'[i].of # None /\ i <= made'
    BY <1>1, <1>3, Numbers DEF PaneInv, PaneTypes, PaneTypeOK
  <2> QED
    BY <1>1, <1>3, <1>6, <2>1 DEF PaneInv, PaneTypes, PaneTypeOK
<1>8. AloneIsOfScope'
  <2> SUFFICES ASSUME crossed' # "still" PROVE AloneIsOfScope'
    BY DEF AloneIsOfScope
  <2>1. Selecting = {} /\ upload = None
    BY DEF SelectBusiness, Pending
  <2>2. Selecting' = {k}
    BY <1>1, <1>3, <2>1 DEF Selecting
  <2> QED
    BY <1>1, <1>3, <1>4, <2>1, <2>2 DEF AloneIsOfScope
<1> QED
  BY <1>1, <1>4, <1>5, <1>7, <1>8 DEF PaneInv, PaneTypes, FrameFollows, LastIsOfSite

\* The sites of a selection are listed, or are not.
LEMMA SitesKeep ==
    ASSUME PaneInv, NEW i \in Selection, SitesAnswered(i)
    PROVE  PaneInv'
<1> DEFINE q == [pc |-> "library", of |-> scope]
           g == generation + 1
<1>1. PICK list \in {Sites[select[i].of], {}} :
          site' = Chosen(list) /\ frame' = Refreshed(Chosen(list)) /\ ShowSite(Chosen(list))
  BY DEF SitesAnswered
<1>2. /\ PaneTypes /\ select[i].pc = "sites" /\ select[i] \in SelectState /\ scope \in Business
      /\ scope # None /\ i <= made /\ select[i].of \in Business
      /\ site \in Slug \cup {None} /\ generation \in Nat /\ made \in Selection
      /\ opening \in [Opening -> [of: Business, slug: Slug] \cup {None}]
      /\ \A h \in Opening : opening[h] # None => h <= generation
  <2>1. PaneTypeOK /\ select[i].pc = "sites"
    BY DEF PaneInv, PaneTypes, SitesAnswered
  <2>2. select[i] \in SelectState /\ select[i].of # None /\ i <= made
    BY <2>1 DEF PaneTypeOK
  <2>3. select[i].of \in Business
    BY <2>2 DEF SelectState
  <2> QED
    BY <2>1, <2>2, <2>3, PaneConstants DEF PaneInv, PaneTypeOK
<1>3. /\ UNCHANGED <<scope, doc, people, upload, ended, made, crossed>>
      /\ library' = None /\ select' = [select EXCEPT ![i] = q]
  BY DEF SitesAnswered, Cleared
<1>4. q \in SelectState /\ q.pc = "library" /\ q.of = scope
  BY <1>2 DEF SelectState
<1> HIDE DEF q
<1>5. /\ select' \in [Selection -> SelectState] /\ select'[i] = q
      /\ \A j \in Selection \ {i} : select'[j] = select[j]
      /\ \A j \in Selection : select'[j].pc # "idle" => select'[j].of # None /\ j <= made'
  BY <1>2, <1>3, <1>4, SelectMoves
<1>6. OpeningsFit' /\ g \in Opening /\ generation' = g
  <2>1. i \in Unanswered /\ generation + Cardinality(Unanswered) <= made
    BY <1>2 DEF Unanswered, PaneTypes, OpeningsFit
  <2>2. Cardinality(Unanswered)' = Cardinality(Unanswered) - 1 /\ Cardinality(Unanswered) \in Nat \ {0}
    BY <1>2, <1>3, <1>4, <2>1, AnsweredOne
  <2>3. generation' = g
    BY <1>1 DEF ShowSite
  <2> QED
    BY <1>2, <1>3, <2>1, <2>2, <2>3, Numbers DEF OpeningsFit
<1>7. site' \in list \cup {None} /\ site' \in Slug \cup {None}
  <2>1. list \subseteq Slug
    BY <1>1, <1>2, PaneConstants
  <2> QED
    BY <1>1, <1>2, <2>1, ChosenIs
<1>8. frame' = PreviewUrl(scope, site') /\ frame' \in Url /\ frame'.slug = site'
  <2>1. frame' = PreviewUrl(scope, site')
    BY <1>1 DEF Refreshed
  <2> QED
    BY <1>2, <1>7, <2>1, UrlIs
<1>9. /\ opening' \in [Opening -> [of: Business, slug: Slug] \cup {None}]
      /\ \A h \in Opening : opening'[h] # None => h <= generation'
      /\ chat' \in {chat, None}
      /\ LastIsOfSite'
  <2>1. CASE site' = None
    <3>1. chat' = None /\ opening' = opening
      BY <1>1, <2>1 DEF ShowSite
    <3>2. opening[g] = None
      BY <1>2, <1>6
    <3>3. \A h \in Opening : opening'[h] # None => h <= generation'
      BY <1>2, <1>6, <3>1, Numbers
    <3> QED
      BY <1>2, <1>6, <2>1, <3>1, <3>2, <3>3 DEF LastIsOfSite
  <2>2. CASE site' # None
    <3> DEFINE x == [of |-> scope, slug |-> site']
    <3>1. chat' = chat /\ opening' = [opening EXCEPT ![g] = x]
      BY <1>1, <2>2 DEF ShowSite
    <3>2. x \in [of: Business, slug: Slug] /\ x # None /\ x.slug = site'
      BY <1>2, <1>7, <2>2, PaneConstants
    <3> HIDE DEF x
    <3>3. /\ opening' \in [Opening -> [of: Business, slug: Slug] \cup {None}] /\ opening'[g] = x
          /\ \A h \in Opening \ {g} : opening'[h] = opening[h]
      BY <1>2, <1>6, <3>1, <3>2
    <3>4. \A h \in Opening : opening'[h] # None => h <= generation'
      BY <1>2, <1>6, <3>3, Numbers
    <3> QED
      BY <1>6, <2>2, <3>1, <3>2, <3>3, <3>4 DEF LastIsOfSite
  <2> QED
    BY <2>1, <2>2
<1>10. PaneTypeOK'
  <2>1. generation' \in 0..MaxSelects
    BY <1>2, <1>6, Numbers
  <2> QED
    BY <1>2, <1>3, <1>5, <1>7, <1>8, <1>9, <2>1 DEF PaneTypes, PaneTypeOK
<1>11. AloneIsOfScope'
  <2> SUFFICES ASSUME crossed # "still", ~ended
               PROVE  /\ \A j, k \in Selecting' : j = k
                      /\ \A j \in Selecting' : select'[j].of = scope
                      /\ upload # None => FALSE
                      /\ site' \in Sites[scope] \cup {None}
                      /\ ~ \A j \in Selecting' : select'[j].pc = "people"
    BY <1>3 DEF AloneIsOfScope
  <2>1. i \in Selecting /\ select[i].of = scope /\ Selecting = {i} /\ upload = None
    BY <1>2 DEF PaneInv, AloneIsOfScope, Selecting
  <2>2. Selecting' = {i}
    BY <1>4, <1>5, <2>1 DEF Selecting
  <2> QED
    BY <1>4, <1>5, <1>7, <2>1, <2>2
<1> QED
  BY <1>3, <1>6, <1>8, <1>9, <1>10, <1>11 DEF PaneInv, PaneTypes, FrameFollows

\* The other answers of a selection.
LEMMA SelectionKeeps ==
    ASSUME PaneInv, NEW i \in Selection,
           SessionEnded(i) \/ LibraryAnswered(i) \/ PeopleAnswered(i)
    PROVE  PaneInv'
<1>1. /\ PaneTypes /\ PaneTypeOK /\ scope \in Business /\ scope # None /\ select[i].pc # "idle"
      /\ i <= made /\ select[i].of \in Business
  <2>1. PaneTypeOK /\ select[i].pc # "idle"
    BY DEF PaneInv, PaneTypes, SessionEnded, LibraryAnswered, PeopleAnswered
  <2>2. select[i] \in SelectState /\ select[i].of # None /\ i <= made
    BY <2>1 DEF PaneTypeOK
  <2>3. select[i].of \in Business
    BY <2>2 DEF SelectState
  <2> QED
    BY <2>1, <2>2, <2>3, PaneConstants DEF PaneInv, PaneTypeOK
<1>2. UNCHANGED <<scope, site, frame, doc, chat, opening, generation, upload, made, crossed>>
  BY DEF SessionEnded, LibraryAnswered, PeopleAnswered
<1>3. CASE SessionEnded(i)
  <2>1. /\ ended' = TRUE /\ select' = [select EXCEPT ![i] = Idle] /\ UNCHANGED <<library, people>>
        /\ i \in Unanswered
    BY <1>3 DEF SessionEnded, Unanswered
  <2>2. Idle \in SelectState /\ Idle.pc = "idle"
    BY DEF Idle, SelectState
  <2>3. /\ select' \in [Selection -> SelectState]
        /\ \A j \in Selection : select'[j].pc # "idle" => select'[j].of # None /\ j <= made'
    BY <1>1, <1>2, <2>1, <2>2, SelectMoves
  <2>4. Cardinality(Unanswered)' = Cardinality(Unanswered) - 1 /\ Cardinality(Unanswered) \in Nat
    BY <1>1, <2>1, <2>2, AnsweredOne
  <2>5. OpeningsFit'
    BY <1>1, <1>2, <2>4, Numbers DEF PaneTypes, OpeningsFit, PaneTypeOK
  <2>6. PaneTypeOK'
    BY <1>1, <1>2, <2>1, <2>3 DEF PaneTypeOK
  <2> QED
    BY <1>2, <2>1, <2>5, <2>6 DEF PaneInv, PaneTypes, FrameFollows, AloneIsOfScope, LastIsOfSite
<1>4. CASE LibraryAnswered(i)
  <2> DEFINE q == [pc |-> "people", of |-> scope]
  <2>1. /\ select[i].pc = "library" /\ select' = [select EXCEPT ![i] = q] /\ ended' = ended
        /\ library' \in {select[i].of, library} /\ people' = None
    BY <1>4 DEF LibraryAnswered, Cleared
  <2>2. q \in SelectState /\ q.pc = "people" /\ q.of = scope
    BY <1>1 DEF SelectState
  <2> HIDE DEF q
  <2>3. /\ select' \in [Selection -> SelectState] /\ select'[i] = q
        /\ \A j \in Selection \ {i} : select'[j] = select[j]
        /\ \A j \in Selection : select'[j].pc # "idle" => select'[j].of # None /\ j <= made'
    BY <1>1, <1>2, <2>1, <2>2, SelectMoves
  <2>4. Unanswered' = Unanswered
    BY <1>1, <2>1, <2>2, StaysUnanswered
  <2>5. OpeningsFit' /\ FrameFollows'
    BY <1>1, <1>2, <2>1, <2>4 DEF PaneInv, PaneTypes, OpeningsFit, FrameFollows
  <2>6. PaneTypeOK'
    BY <1>1, <1>2, <2>1, <2>3 DEF PaneTypeOK
  <2>7. AloneIsOfScope'
    <3> SUFFICES ASSUME crossed # "still", ~ended PROVE AloneIsOfScope'
      BY <1>2, <2>1 DEF AloneIsOfScope
    <3>1. /\ i \in Selecting /\ select[i].of = scope /\ Selecting = {i} /\ upload = None
      BY <1>1 DEF PaneInv, AloneIsOfScope, Selecting
    <3>2. Unanswered = {}
      BY <2>1, <3>1 DEF Selecting, Unanswered
    <3>3. site \in Sites[scope] \cup {None} /\ library \in {scope, None}
      BY <3>2 DEF PaneInv, AloneIsOfScope
    <3>4. Selecting' = {i}
      BY <2>2, <2>3, <3>1 DEF Selecting
    <3> QED
      BY <1>2, <2>1, <2>2, <2>3, <3>1, <3>3, <3>4 DEF AloneIsOfScope
  <2> QED
    BY <1>2, <2>5, <2>6, <2>7 DEF PaneInv, PaneTypes, LastIsOfSite
<1>5. CASE PeopleAnswered(i)
  <2>1. /\ select[i].pc = "people" /\ select' = [select EXCEPT ![i] = Idle] /\ ended' = ended
        /\ people' \in {select[i].of, people} /\ library' = library
    BY <1>5 DEF PeopleAnswered
  <2>2. Idle \in SelectState /\ Idle.pc = "idle"
    BY DEF Idle, SelectState
  <2>3. /\ select' \in [Selection -> SelectState] /\ select'[i] = Idle
        /\ \A j \in Selection \ {i} : select'[j] = select[j]
        /\ \A j \in Selection : select'[j].pc # "idle" => select'[j].of # None /\ j <= made'
    BY <1>1, <1>2, <2>1, <2>2, SelectMoves
  <2>4. Unanswered' = Unanswered
    BY <1>1, <2>1, <2>2, StaysUnanswered
  <2>5. OpeningsFit' /\ FrameFollows'
    BY <1>1, <1>2, <2>1, <2>4 DEF PaneInv, PaneTypes, OpeningsFit, FrameFollows
  <2>6. PaneTypeOK'
    BY <1>1, <1>2, <2>1, <2>3 DEF PaneTypeOK
  <2>7. AloneIsOfScope'
    <3> SUFFICES ASSUME crossed # "still", ~ended PROVE AloneIsOfScope'
      BY <1>2, <2>1 DEF AloneIsOfScope
    <3>1. /\ i \in Selecting /\ select[i].of = scope /\ Selecting = {i} /\ upload = None
      BY <1>1 DEF PaneInv, AloneIsOfScope, Selecting
    <3>2. Unanswered = {} /\ \A j \in Selecting : select[j].pc = "people"
      BY <2>1, <3>1 DEF Selecting, Unanswered
    <3>3. site \in Sites[scope] \cup {None} /\ library \in {scope, None} /\ people \in {scope, None}
      BY <3>2 DEF PaneInv, AloneIsOfScope
    <3>4. Selecting' = {}
      BY <2>2, <2>3, <3>1 DEF Selecting
    <3> QED
      BY <1>2, <2>1, <3>1, <3>3, <3>4 DEF AloneIsOfScope
  <2> QED
    BY <1>2, <2>5, <2>6, <2>7 DEF PaneInv, PaneTypes, LastIsOfSite
<1> QED
  BY <1>3, <1>4, <1>5

\* A session opens, or could not be opened.
LEMMA OpenedKeeps ==
    ASSUME PaneInv, NEW g \in Opening, SessionOpened(g)
    PROVE  PaneInv'
<1>1. /\ opening[g] # None /\ opening' = [opening EXCEPT ![g] = None]
      /\ UNCHANGED <<scope, site, frame, doc, library, people, select, generation, upload, ended,
                     made, crossed>>
  BY DEF SessionOpened
<1>2. /\ PaneTypes /\ PaneTypeOK /\ opening[g] \in [of: Business, slug: Slug] /\ g <= generation
      /\ opening \in [Opening -> [of: Business, slug: Slug] \cup {None}]
  BY <1>1 DEF PaneInv, PaneTypes, PaneTypeOK
<1>3. /\ opening' \in [Opening -> [of: Business, slug: Slug] \cup {None}] /\ opening'[g] = None
      /\ \A h \in Opening \ {g} : opening'[h] = opening[h]
  BY <1>1, <1>2
<1>4. PICK how \in {"site", "unopened"} :
          \/ g # generation /\ chat' = chat
          \/ g = generation /\ SetSession([id |-> <<how, opening[g].slug>>, of |-> opening[g].of])
  BY DEF SessionOpened, Overtaken
<1> DEFINE x == [id |-> <<how, opening[g].slug>>, of |-> opening[g].of]
<1>5. x \in Conversation /\ x # None /\ x.id[2] = opening[g].slug /\ x.id = <<how, opening[g].slug>>
  BY <1>2, PaneConstants DEF Conversation
<1>6. /\ chat' \in Conversation \cup {None}
      /\ g = generation => chat' # None /\ chat'.id[2] = opening[g].slug
      /\ g # generation => chat' = chat
  BY <1>2, <1>4, <1>5 DEF SetSession, PaneTypeOK
<1>7. PaneTypeOK'
  BY <1>1, <1>2, <1>3, <1>6 DEF PaneTypeOK
<1>8. LastIsOfSite'
  <2> SUFFICES ASSUME generation > 0 PROVE LastIsOfSite'
    BY <1>1 DEF LastIsOfSite
  <2>1. generation \in Opening
    BY <1>2, Numbers DEF PaneTypeOK
  <2>2. CASE g = generation
    BY <1>1, <1>3, <1>6, <2>2 DEF PaneInv, LastIsOfSite
  <2>3. CASE g # generation
    BY <1>1, <1>3, <1>6, <2>1, <2>3 DEF PaneInv, LastIsOfSite
  <2> QED
    BY <2>2, <2>3
<1> QED
  BY <1>1, <1>2, <1>7, <1>8 DEF PaneInv, PaneTypes, OpeningsFit, FrameFollows, AloneIsOfScope,
                               Unanswered, Selecting

\* The frame loads, or is pointed at the site again.
LEMMA FrameKeeps ==
    ASSUME PaneInv, Load \/ ChangeMode
    PROVE  PaneInv'
<1>1. UNCHANGED <<scope, site, chat, library, people, select, opening, generation, upload, ended,
                  made, crossed>>
  BY DEF Load, ChangeMode
<1>2. PaneTypeOK /\ site \in Slug \cup {None} /\ scope \in Business
  BY DEF PaneInv, PaneTypes, PaneTypeOK
<1>3. /\ frame' \in Url /\ doc' \in Url /\ frame'.slug = site'
      /\ frame' \in {frame, PreviewUrl(scope, site)}
  BY <1>1, <1>2, UrlIs DEF Load, ChangeMode, PaneTypeOK
<1>4. PaneTypeOK'
  BY <1>1, <1>2, <1>3 DEF PaneTypeOK
<1> QED
  BY <1>1, <1>3, <1>4 DEF PaneInv, PaneTypes, OpeningsFit, FrameFollows, AloneIsOfScope,
                          LastIsOfSite,
                         Unanswered, Selecting

\* A drop begins, goes on, and is over.
LEMMA DropKeeps ==
    ASSUME PaneInv, DropFiles \/ FileAnswered \/ DropAnswered
    PROVE  PaneInv'
<1>1. UNCHANGED <<scope, site, frame, doc, chat, people, select, opening, generation, ended, made>>
  BY DEF DropFiles, FileAnswered, DropAnswered
<1>2. PaneTypeOK /\ site \in Slug \cup {None} /\ scope \in Business /\ MaxFiles \in Nat \ {0}
  BY PaneConstants DEF PaneInv, PaneTypes, PaneTypeOK
<1>3. \A n \in 0..MaxFiles : Send(n) \in Drop /\ Send(n).of = scope /\ Send(n) # None
  BY <1>2, PaneConstants DEF Send, Drop
<1>4. /\ upload' \in Drop \cup {None}
      /\ upload' # None => upload'.of = scope
      /\ library' \in Business \cup {None} /\ crossed' \in {"never", "before", "still"}
  <2>1. CASE DropFiles
    <3>1. PICK n \in 0..(MaxFiles - 1) : upload' = Send(n)
      BY <2>1 DEF DropFiles
    <3>2. n \in 0..MaxFiles
      BY <1>2
    <3> QED
      BY <1>2, <1>3, <2>1, <3>1, <3>2 DEF DropFiles, PaneTypeOK
  <2>2. CASE FileAnswered
    <3>1. upload \in Drop /\ upload.left \in 0..MaxFiles
      BY <1>2, <2>2 DEF FileAnswered, PaneTypeOK, Drop
    <3>2. CASE upload.left > 0
      <4>1. upload.left - 1 \in 0..MaxFiles /\ upload' = Send(upload.left - 1)
        BY <1>2, <2>2, <3>1, <3>2 DEF FileAnswered
      <4> QED
        BY <1>2, <1>3, <2>2, <4>1 DEF FileAnswered, PaneTypeOK
    <3>3. CASE ~(upload.left > 0)
      <4>1. upload' = [upload EXCEPT !.pc = "refresh", !.of = scope, !.slug = None]
        BY <2>2, <3>3 DEF FileAnswered
      <4>2. upload' \in Drop /\ upload'.of = scope
        BY <1>2, <3>1, <4>1 DEF Drop
      <4> QED
        BY <1>2, <2>2, <4>2 DEF FileAnswered, PaneTypeOK
    <3> QED
      BY <3>2, <3>3
  <2>3. CASE DropAnswered
    <3>1. upload' = None /\ upload \in Drop /\ library' \in {upload.of, library} /\ crossed' = crossed
      BY <1>2, <2>3 DEF DropAnswered, PaneTypeOK
    <3>2. upload.of \in Business
      BY <3>1 DEF Drop
    <3> QED
      BY <1>2, <3>1, <3>2 DEF PaneTypeOK
  <2> QED
    BY <2>1, <2>2, <2>3
<1>5. PaneTypeOK'
  BY <1>1, <1>2, <1>4 DEF PaneTypeOK
<1>6. AloneIsOfScope'
  <2> SUFFICES ASSUME crossed' # "still", ~ended PROVE AloneIsOfScope'
    BY <1>1 DEF AloneIsOfScope
  <2>1. crossed = crossed' /\ Selecting = {}
    <3>1. CASE DropFiles
      BY <3>1 DEF DropFiles
    <3>2. CASE FileAnswered \/ DropAnswered
      BY <3>2 DEF FileAnswered, DropAnswered, PaneInv, AloneIsOfScope
    <3> QED
      BY <3>1, <3>2
  <2>2. /\ Selecting' = {} /\ Unanswered = {} /\ Unanswered' = {}
    BY <1>1, <2>1 DEF Selecting, Unanswered
  <2>3. site \in Sites[scope] \cup {None} /\ library \in {scope, None} /\ people \in {scope, None}
    BY <2>1, <2>2 DEF PaneInv, AloneIsOfScope
  <2>4. library' \in {scope, None}
    BY <2>1, <2>3 DEF DropFiles, FileAnswered, DropAnswered, PaneInv, AloneIsOfScope
  <2> QED
    BY <1>1, <1>4, <2>1, <2>2, <2>3, <2>4 DEF AloneIsOfScope
<1> QED
  BY <1>1, <1>5, <1>6 DEF PaneInv, PaneTypes, OpeningsFit, FrameFollows, LastIsOfSite, Unanswered

\* Every step keeps the invariant.
LEMMA PaneStep == PaneInv /\ [PaneNext]_paneVars => PaneInv'
<1> SUFFICES ASSUME PaneInv, [PaneNext]_paneVars PROVE PaneInv'
  OBVIOUS
<1>1. CASE UNCHANGED paneVars
  BY <1>1 DEF paneVars, PaneInv, PaneTypes, PaneTypeOK, OpeningsFit, FrameFollows,
              AloneIsOfScope, LastIsOfSite,
              Unanswered, Selecting
<1>2. CASE PaneNext
  BY <1>2, SelectKeeps, SitesKeep, SelectionKeeps, OpenedKeeps, FrameKeeps, DropKeeps DEF PaneNext
<1> QED
  BY <1>1, <1>2

\* It holds of every reachable state of the pane.
LEMMA PaneInvariant == PaneSpec => []PaneInv
  BY PaneStarts, PaneStep, PTL DEF PaneSpec

-----------------------------------------------------------------------------
(* Theorems.                                                                *)

\* The builder's panes, requests and drops keep their shapes (builder/app.js).
THEOREM PaneTypeCorrect == PaneSpec => []PaneTypeOK
<1>1. PaneInv => PaneTypeOK
  BY DEF PaneInv, PaneTypes
<1> QED
  BY <1>1, PaneInvariant, PTL

\* In whatever order the answers of selections come: when nothing is in flight
\* page, site and lists are of the business in scope (builder/app.js).
THEOREM WhatIsShownIsOfScope == PaneSpec => []ShownIsOfScope
<1>1. ASSUME PaneInv PROVE ShownIsOfScope
  <2>1. PageIsOfScope /\ SiteIsOfScope
    <3>1. Settled => Unanswered = {}
      BY DEF Settled, Pending, Selecting, Unanswered
    <3> QED
      BY <1>1, <3>1 DEF PaneInv, FrameFollows, AloneIsOfScope, PageIsOfScope,
                        SiteIsOfScope, Settled
  <2>2. ListsAreOfScope
    <3>1. (\A i \in Selecting : select[i].pc = "people") => Unanswered = {}
      BY DEF Selecting, Unanswered
    <3> QED
      BY <1>1, <3>1 DEF PaneInv, AloneIsOfScope, ListsAreOfScope
  <2> QED
    BY <2>1, <2>2 DEF ShownIsOfScope
<1> QED
  BY <1>1, PaneInvariant, PTL

\* A session that opened late for a site that was left is never shown, and when
\* none is awaited the site's is there (builder/app.js, showSite).
THEOREM ConversationsAreOfSites == PaneSpec => []ConversationIsOfSite
<1>1. ASSUME PaneInv PROVE ConversationIsOfSite
  <2>1. generation > 0 => generation \in Opening
    BY <1>1, Numbers DEF PaneInv, PaneTypes, PaneTypeOK
  <2> QED
    BY <1>1, <2>1 DEF PaneInv, LastIsOfSite, ConversationIsOfSite
<1> QED
  BY <1>1, PaneInvariant, PTL

=============================================================================
