--------------------------- MODULE MCSkipBookSide ---------------------------
(* Four prices for a pool of three nodes.                                  *)
EXTENDS SkipBookSide

MCPrice == 1 .. 4
MCSize == 0 .. 1

L(p) == [price |-> p, size |-> 1]
Zero(p) == [price |-> p, size |-> 0]

(* In, out of and against price order, with a level of size zero, and none.*)
MCSnapshots ==
    { <<>>, <<L(2), L(1)>>, <<L(1), Zero(2), L(3)>>, <<L(3), L(1), L(4), L(2)>> }
=============================================================================
