--------------------------- MODULE MCBasicBookSide ---------------------------
(* Four prices, and snapshots in and out of order, with and without a      *)
(* level of size zero.                                                     *)
EXTENDS BasicBookSide

MCPrice == 1 .. 4
MCSize == 0 .. 2

L(p, s) == [price |-> p, size |-> s]

MCSnapshots ==
    { <<>>,
      <<L(2, 1), L(4, 2)>>,
      <<L(3, 1), L(1, 0), L(2, 2)>>,
      <<L(4, 1), L(3, 0), L(1, 1), L(2, 1)>> }
=============================================================================
