-------------------------- MODULE MCFastDuplicates --------------------------
(***************************************************************************)
(* Snapshots with a price twice, side by side and apart, first and last,   *)
(* once with size zero, and without; more levels than the pool has nodes.  *)
(***************************************************************************)
EXTENDS FastDuplicates

MCPrice == 1 .. 3
MCSize == 0 .. 1

L(p, s) == [price |-> p, size |-> s]

MCSnapshots ==
    { <<L(1, 1), L(2, 1)>>,
      <<L(2, 1), L(2, 1)>>,
      <<L(2, 1), L(2, 0), L(1, 1)>>,
      <<L(2, 1), L(1, 1), L(3, 1), L(2, 1)>>,
      <<L(3, 1), L(1, 1), L(3, 1), L(1, 1), L(2, 1)>> }
=============================================================================
