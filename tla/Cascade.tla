------------------------------- MODULE Cascade -------------------------------
(***************************************************************************)
(* From a page captured at several widths to the page a visitor sees at    *)
(* any width: the fold of one element's captures into a keyframe track and *)
(* a visibility (tools/generate src/l1/fold.ts), the rules the renderer    *)
(* makes of them (packages/framework src/l1/render.ts) and the cascade     *)
(* that picks one, and what the analytic gate takes the page to do         *)
(* (site-schema src/l1/layout.ts, tools/generate src/l1/probes.ts).        *)
(*                                                                         *)
(* Widths are whole pixels.  A value is named by the keyframe it is held   *)
(* at, or the pair it runs between; what is optional in the code is a      *)
(* sequence of at most one element.                                        *)
(***************************************************************************)
EXTENDS Naturals, Sequences

Ascending(at) == \A i, j \in DOMAIN at : i < j => at[i] < at[j]
OptionalWidth(o) == o = <<>> \/ \E px \in Nat : o = <<px>>

-----------------------------------------------------------------------------
(* A stylesheet: the rules of one element, in the order of their emission.  *)

Everywhere == [kind |-> "all", px |-> 0]
From(px) == [kind |-> "min", px |-> px]       \* (min-width: px)
Below(px) == [kind |-> "max", px |-> px]      \* (max-width: px - 1)

Rule(media, decls) == [media |-> media, decls |-> decls]
Only(p, value) == [q \in {p} |-> value]

Applies(media, w) ==
    \/ media.kind = "all"
    \/ media.kind = "min" /\ media.px <= w
    \/ media.kind = "max" /\ w < media.px

\* serializeRules: bare rules, then the blocks by ascending breakpoint, and last
\* those that have none.
SortsBefore(a, b) ==
    \/ a.kind = "all" /\ b.kind # "all"
    \/ a.kind = "min" /\ b.kind = "max"
    \/ a.kind = "min" /\ b.kind = "min" /\ a.px < b.px

\* Rule i comes after rule j in the stylesheet.
Overrides(rules, i, j) ==
    \/ SortsBefore(rules[j].media, rules[i].media)
    \/ ~SortsBefore(rules[i].media, rules[j].media) /\ j < i

Speaks(rules, p, w, i) ==
    /\ i \in DOMAIN rules
    /\ p \in DOMAIN rules[i].decls
    /\ Applies(rules[i].media, w)

InForce(rules, p, w, i) ==
    /\ Speaks(rules, p, w, i)
    /\ \A j \in DOMAIN rules : Speaks(rules, p, w, j) /\ j # i => Overrides(rules, i, j)

\* What a browser of width w takes for p: one value, or nothing.
Declared(rules, p, w) ==
    {rules[i].decls[p] : i \in {k \in DOMAIN rules : InForce(rules, p, w, k)}}

-----------------------------------------------------------------------------
(* Geometry: top, left, width and height over a ladder of keyframes.        *)

Held(i) == [kind |-> "held", at |-> i]
Between(i) == [kind |-> "between", at |-> i]  \* from keyframe i to the next
AutoWidth == [kind |-> "auto", at |-> 0]
Column == [kind |-> "column", at |-> 0]       \* the centred column's function

\* at: the keyframes' widths; snap: those held to the next; tall: those with a
\* height; anchored: axes the column governs; nowrap: where wrapping stops.
Geometry(g) ==
    /\ g.at \in Seq(Nat) /\ Len(g.at) > 0 /\ Ascending(g.at)
    /\ g.snap \subseteq DOMAIN g.at
    /\ g.tall \subseteq DOMAIN g.at
    /\ g.anchored \subseteq {"left", "width"}
    /\ OptionalWidth(g.nowrap)

\* The value of the segment that begins at keyframe i.
Segment(g, i) == IF i = Len(g.at) \/ i \in g.snap THEN Held(i) ELSE Between(i)

Relaxed(g, px) == \E k \in DOMAIN g.nowrap : g.nowrap[k] <= px

\* widthDecls: the width of a run that cannot wrap is its floor.
WidthProps(g, px) == IF Relaxed(g, px) THEN {"width", "min-width"} ELSE {"width"}

\* frames: the keyframes the values come from; all must have a height.
Pinned(g, i, frames) ==
    {"top"} \cup ({"left"} \ g.anchored)
            \cup (IF "width" \in g.anchored THEN {} ELSE WidthProps(g, g.at[i]))
            \cup (IF frames \subseteq g.tall THEN {"height"} ELSE {})

Decls(g, i, frames, value) ==
    [p \in Pinned(g, i, frames) |-> IF p = "width" /\ Relaxed(g, g.at[i]) THEN AutoWidth ELSE value]

Anchors(g) ==
    ({"left"} \cap g.anchored)
        \cup (IF "width" \notin g.anchored THEN {}
              ELSE IF Relaxed(g, g.at[1]) THEN {"min-width"} ELSE {"width"})

Base(g) ==
    LET held == Decls(g, 1, {1}, Held(1))
    IN  Rule(Everywhere, [p \in DOMAIN held \cup Anchors(g) |-> IF p \in Anchors(g) THEN Column ELSE held[p]])

Ends(g, i) == IF i = Len(g.at) \/ i \in g.snap THEN {i} ELSE {i, i + 1}
Rung(g, i) == Rule(From(g.at[i]), Decls(g, i, Ends(g, i), Segment(g, i)))

GeometryRules(g) ==
    IF Len(g.at) = 1 THEN <<Base(g)>>
    ELSE [i \in 1..(Len(g.at) + 1) |-> IF i = 1 THEN Base(g) ELSE Rung(g, i - 1)]

\* scalarAxisRules: a font size, a padding, over its own keyframes.
TrackRules(p, g) ==
    IF Len(g.at) = 1 THEN <<Rule(Everywhere, Only(p, Held(1)))>>
    ELSE [i \in 1..(Len(g.at) + 1) |->
            IF i = 1 THEN Rule(Everywhere, Only(p, Held(1)))
                     ELSE Rule(From(g.at[i - 1]), Only(p, Segment(g, i - 1)))]

\* emitTextAxes: at or below the narrowest width the pin is unconditional.
WhiteSpaceRules(nowrap, minWidth) ==
    [k \in DOMAIN nowrap |->
        Rule(IF nowrap[k] <= minWidth THEN Everywhere ELSE From(nowrap[k]),
             Only("white-space", "nowrap"))]

-----------------------------------------------------------------------------
(* Display: a container's layout per width, and a node's visibility.        *)

Mode == {"stack", "row", "grid"}

\* A static layout is a track of one keyframe; a leaf's track is empty.
Layout(t) ==
    /\ t \in Seq([at: Nat, mode: Mode])
    /\ \A i, j \in DOMAIN t : i < j => t[i].at < t[j].at

Visibility(v) == OptionalWidth(v.from) /\ OptionalWidth(v.until)

LayoutRules(t) ==
    [i \in DOMAIN t |->
        Rule(IF i = 1 THEN Everywhere ELSE From(t[i].at), Only("display", t[i].mode))]

VisibilityRules(v) ==
    [k \in DOMAIN v.from |-> Rule(Below(v.from[k]), Only("display", "none"))]
        \o [k \in DOMAIN v.until |-> Rule(From(v.until[k]), Only("display", "none"))]

DisplayRules(t, v) == LayoutRules(t) \o VisibilityRules(v)

Displayed(t, v, w) == "none" \notin Declared(DisplayRules(t, v), "display", w)

\* hidden, of the analytic gate.
Hidden(v, w) ==
    \/ \E k \in DOMAIN v.from : w < v.from[k]
    \/ \E k \in DOMAIN v.until : v.until[k] <= w

\* resolveLayoutMode, of both: the last keyframe that is reached.
ResolveLayoutMode(t, w) ==
    IF \E i \in DOMAIN t : t[i].at <= w
    THEN t[CHOOSE i \in DOMAIN t : t[i].at <= w /\ \A j \in (i + 1)..Len(t) : t[j].at > w].mode
    ELSE t[1].mode

-----------------------------------------------------------------------------
(* The fold: one row of the responsive table.                               *)

\* buildResponsiveTable: the i-th of the elements that share a key is present
\* where the capture has that many.
PresentAt(count, i) == {s \in DOMAIN count : count[s] >= i}

Least(S) == CHOOSE x \in S : \A y \in S : x <= y
Greatest(S) == CHOOSE x \in S : \A y \in S : x >= y

\* visibilityFor: present are indices of the ladder's widths.
VisibilityFor(present, ladder) ==
    LET above == {s \in DOMAIN ladder : ladder[s] > ladder[Greatest(present)]}
    IN  IF present = {} \/ present = DOMAIN ladder THEN [from |-> <<>>, until |-> <<>>]
        ELSE [from |-> IF ladder[Least(present)] > ladder[1] THEN <<ladder[Least(present)]>> ELSE <<>>,
              until |-> IF above = {} THEN <<>> ELSE <<ladder[Least(above)]>>]

\* nowrapThreshold: the narrowest sample from which all are of a single line.
Settled(at, single) == {i \in DOMAIN at : i..Len(at) \subseteq single}
NowrapThreshold(at, single) ==
    IF Settled(at, single) = {} THEN <<>> ELSE <<at[Least(Settled(at, single))]>>

-----------------------------------------------------------------------------
(* What a page must do at a width w.                                        *)

\* w is at keyframe i, or between it and the next.
Reached(at, i, w) == at[i] <= w /\ (i < Len(at) => w < at[i + 1])

\* A page takes every part of an element's place from the segment its width is
\* in, and from no rung below it, though the rules of all of them apply: geometryRules.
PlacedBySegment(g, w) ==
    \A i \in DOMAIN g.at : Reached(g.at, i, w) =>
        LET in(p) == Declared(GeometryRules(g), p, w)
        IN  /\ in("top") = {Segment(g, i)}
            /\ in("left") = IF "left" \in g.anchored THEN {Column} ELSE {Segment(g, i)}
            /\ "width" \notin g.anchored =>
                 /\ in("width") = IF Relaxed(g, g.at[i]) THEN {AutoWidth} ELSE {Segment(g, i)}
                 /\ in("min-width") = IF Relaxed(g, g.at[i]) THEN {Segment(g, i)} ELSE {}
            /\ g.tall = DOMAIN g.at => in("height") = {Segment(g, i)}

\* So it does with a font size or a padding that has a track: scalarAxisRules.
TrackedBySegment(p, g, w) ==
    \A i \in DOMAIN g.at : Reached(g.at, i, w) => Declared(TrackRules(p, g), p, w) = {Segment(g, i)}

\* The page hides a node where the gate takes it to be hidden, and lays it out as
\* the gate does elsewhere: mirrored by probes.ts and layout.ts.
MirrorsGate(t, v, w) ==
    IF Hidden(v, w) THEN Declared(DisplayRules(t, v), "display", w) = {"none"}
    ELSE Declared(DisplayRules(t, v), "display", w) =
           IF t = <<>> THEN {} ELSE {ResolveLayoutMode(t, w)}

\* No breakpoint of the layout lies past the end of the visibility.
LaidOutWhileVisible(t, v) ==
    \A i \in DOMAIN t : i > 1 => \A k \in DOMAIN v.until : t[i].at <= v.until[k]

\* A run's width is a floor only where the run cannot wrap, or is not seen.
FloorIsUnbreakable(g, v, minWidth, w) ==
    Declared(GeometryRules(g), "min-width", w) # {} =>
        Declared(WhiteSpaceRules(g.nowrap, minWidth), "white-space", w) # {} \/ Hidden(v, w)

\* A row is seen at the captured widths from its first to its last, the ones in
\* between it was missing from included: visibilityFor has one interval.
SeenFromFirstToLast(present, ladder) ==
    \A s \in DOMAIN ladder :
        Hidden(VisibilityFor(present, ladder), ladder[s])
            <=> s \notin Least(present)..Greatest(present)

\* A captured width is a floor exactly where the run was of one line there and at
\* every wider sample: nowrapThreshold, through the rules.
FloorWhereSettled(g, single) ==
    \A i \in DOMAIN g.at :
        Declared(GeometryRules(g), "min-width", g.at[i]) # {} <=> i..Len(g.at) \subseteq single
==============================================================================
