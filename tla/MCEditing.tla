------------------------------ MODULE MCEditing ------------------------------
(* Editing with sets small enough to explore exhaustively.                 *)
EXTENDS Editing, TLC

CONSTANTS a1, a2, a3, p1, p2, q1, q2, q3, n1, n2, n3, h1, h2, x1, f1, s1, m1

Palette(f, g) == [n \in Name |-> IF n = n1 THEN f ELSE IF n = n2 THEN g ELSE None]

Document(path, slots, colors, pics, modules) ==
    [path |-> path, slots |-> slots, colors |-> colors, pics |-> pics, uses |-> {},
     serves |-> {}, modules |-> modules]

\* A site with two pages: one with a picture, a component in its seam and an entry
\* in the navigation, painted with the palette's two entries.
Authored ==
    [def |-> [palette |-> Palette(h1, h2), nav |-> {p1},
              pages |-> [p \in PageId |->
                  IF p = p1
                  THEN Document(q1, {s1}, {n1}, {x1},
                                {[id |-> m1, slot |-> s1, colors |-> {n2}, content |-> {}]})
                  ELSE Document(q2, {}, {n2}, {}, {})]],
     assets |-> {x1}]

\* A reproduction: its one page names a picture and a family nobody mirrored, and
\* the content of its component a file that is there.
Reproduced ==
    [def |-> [palette |-> Palette(h1, None), nav |-> {},
              pages |-> [p \in PageId |->
                  IF p = p1
                  THEN [Document(q1, {s1}, {}, {}, {[id |-> m1, slot |-> s1, colors |-> {n1},
                                                     content |-> {x1}]})
                        EXCEPT !.uses = {f1}]
                  ELSE None]],
     assets |-> {x1}]

\* Two pages painted with one of two palette entries.
Plain ==
    [def |-> [palette |-> Palette(h1, None), nav |-> {},
              pages |-> [p \in PageId |->
                  Document(IF p = p1 THEN q1 ELSE q2, {}, {n1}, {}, {})]],
     assets |-> {}]

Starts == {Authored, Reproduced}
PlainOnly == {Plain}
AuthoredOnly == {Authored}

Symmetry == Permutations(Actor)

=============================================================================
