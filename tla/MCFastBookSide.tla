--------------------------- MODULE MCFastBookSide ---------------------------
(* Small instances of FastBookSide.                                        *)
EXTENDS FastBookSide

MCPrice == 1 .. 4
MCSize == 0 .. 2

L(p, s) == [price |-> p, size |-> s]

(***************************************************************************)
(* Four prices for a pool of three nodes.  Snapshots without a price twice:*)
(* none, some and all prices quoted, best level first, last and between,   *)
(* with and without a level of size zero.                                  *)
(***************************************************************************)
MCSnapshots ==
    { <<>>,
      <<L(2, 1)>>,
      <<L(1, 1), L(3, 0)>>,
      <<L(3, 1), L(1, 0), L(2, 2)>>,
      <<L(1, 1), L(2, 1), L(3, 1)>>,
      <<L(4, 1), L(1, 1), L(3, 1), L(2, 1)>> }
=============================================================================
