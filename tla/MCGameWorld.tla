---------------------------- MODULE MCGameWorld ----------------------------
(***************************************************************************)
(* Small instances of GameWorld for TLC.                                   *)
(***************************************************************************)
EXTENDS GameWorld, TLC

CONSTANTS e1, e2, c1, c2, o1, o2

TwoEndpoints == {e1, e2}
OneEndpoint == {e1}
OneChar == {c1}
TwoChars == {c1, c2}
OneObj == {o1}
TwoObjs == {o1, o2}

\* With a zone size of 10: the origin's cell, its neighbour, and a cell that
\* touches neither the origin's cell nor anything near it.
NearAndFar == {<<0, 0>>, <<10, 0>>, <<50, 0>>}
OneStep == {<<0, 0>>, <<-10, 0>>}

\* Positions on cell borders and just before them on both sides of the origin, and in
\* the last cells of the range in which ids do not collide.
Window ==
    {-4989, -20, -10, -9, 9, 10, 4989} \X {-10, 9, 20}

\* Heap cells, endpoints and characters are interchangeable.
Symmetric == Permutations(Endpoints) \cup Permutations(Chars) \cup Permutations(Objs)
=============================================================================
