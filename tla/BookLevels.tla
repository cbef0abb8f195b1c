----------------------------- MODULE BookLevels -----------------------------
(***************************************************************************)
(* What the books are made of: price levels and the order of a side.       *)
(*                                                                         *)
(* A price or a size is a `Decimal` in the code; a book only compares      *)
(* prices, tests sizes for zero and adds sizes up, so integers stand for   *)
(* both.                                                                   *)
(***************************************************************************)
EXTENDS LevelLists

CONSTANTS
    Price,      \* the prices the feed may quote
    Size,       \* the sizes it may quote; size 0 withdraws a level
    Snapshots,  \* the level lists a `book` message may carry for this side
    IsBid       \* the const generic IS_BID: TRUE for bids, FALSE for asks

Level == [price : Price, size : Size]

ASSUME BookLevelsAssumption ==
    /\ Price \subseteq Int
    /\ Size \subseteq Int
    /\ IsBid \in BOOLEAN
    /\ Snapshots \subseteq Seq(Level)

(* Bids run from the highest price down, asks from the lowest up.          *)
ComesBefore(p, q) == IF IsBid THEN p > q ELSE p < q

(* No `book` message quotes a price twice: the feed's contract, which the  *)
(* code does not test.                                                     *)
DistinctSnapshots == \A levels \in Snapshots : DistinctPrices(levels)

(* What `bids()` or `asks()` yields for a book: all levels, best first.    *)
Ranked(b) ==
    [r \in 1..Cardinality(DOMAIN b) |->
        LET p == CHOOSE q \in DOMAIN b :
                    Cardinality({x \in DOMAIN b : ComesBefore(x, q)}) = r - 1
        IN  [price |-> p, size |-> b[p]]]
=============================================================================
