----------------------------- MODULE MCCascade ------------------------------
(* Cascade over a short ladder: every capture of one element's rows, every  *)
(* layout and visibility, as a visitor's window grows.                      *)
EXTENDS Cascade

CONSTANT MaxWidth     \* bound: widths of a window

VARIABLES node, w
vars == <<node, w>>

Ladder == <<2, 4, 6>>
Ladders == {<<2>>, <<4>>, <<2, 4>>, <<2, 6>>, <<4, 6>>, Ladder}
Opt == {<<>>} \cup {<<px>> : px \in 0..(MaxWidth - 1)}
Geometries ==
    UNION {[at: {at}, snap: SUBSET (1..Len(at)), tall: {{}, 1..Len(at)},
            anchored: {{}, {"left"}}, nowrap: {<<>>} \cup {<<at[k]>> : k \in 1..Len(at)}] : at \in Ladders}
Tracks ==
    {<<>>} \cup {<<[at |-> a, mode |-> "stack"]>> : a \in {0, 3}}
           \cup {<<[at |-> a, mode |-> "stack"], [at |-> b, mode |-> "row"]>> : a \in 0..1, b \in 2..6}

Folded(count, i, single) ==
    LET p == PresentAt(count, i)
        at == SelectSeq(Ladder, LAMBDA x : \E s \in p : Ladder[s] = x)
        lines == {k \in DOMAIN at : \E s \in single : Ladder[s] = at[k]}
    IN  [kind |-> "leaf", of |-> p, single |-> lines, v |-> VisibilityFor(p, Ladder),
         g |-> [at |-> at, snap |-> {}, tall |-> {}, anchored |-> {}, nowrap |-> NowrapThreshold(at, lines)]]

Init ==
    /\ w = 0
    /\ \/ \E g \in Geometries : node = [kind |-> "geometry", g |-> g]
       \/ \E t \in Tracks, v \in [from: Opt, until: Opt] : node = [kind |-> "layout", t |-> t, v |-> v]
       \/ \E count \in [1..3 -> 0..2], single \in SUBSET (1..3) :
             PresentAt(count, 1) # {} /\ node = Folded(count, 1, single)
       \/ \E count \in [1..3 -> 0..2], single \in SUBSET (1..3) :
             PresentAt(count, 2) # {} /\ node = Folded(count, 2, single)

Resize == w < MaxWidth /\ w' = w + 1 /\ UNCHANGED node
Spec == Init /\ [][Resize]_vars

Placed == node.kind = "geometry" => PlacedBySegment(node.g, w) /\ TrackedBySegment("font-size", node.g, w)
Mirrored == node.kind = "layout" /\ LaidOutWhileVisible(node.t, node.v) => MirrorsGate(node.t, node.v, w)
Suffix == node.kind = "leaf" => SeenFromFirstToLast(node.of, Ladder) /\ FloorWhereSettled(node.g, node.single)
Unbreakable == node.kind = "leaf" => FloorIsUnbreakable(node.g, node.v, 2, w)
\* Violated: what render.ts 2305 says of a hidden node that is laid out past its end.
AlwaysMirrored == node.kind = "layout" => MirrorsGate(node.t, node.v, w)
==============================================================================
