----------------------------- MODULE LevelLists -----------------------------
(***************************************************************************)
(* What the levels of a book message, a sequence of prices with sizes, do  *)
(* to one side of a book, seen as a function from quoted price to size.    *)
(***************************************************************************)
EXTENDS Integers, Sequences, FiniteSets

DistinctPrices(levels) ==
    \A j, k \in DOMAIN levels : levels[j].price = levels[k].price => j = k

(***************************************************************************)
(* The levels of a message laid over a book, where no price comes twice:   *)
(* those with a size replace what the book has at their price, those with  *)
(* size zero are not entered.                                              *)
(***************************************************************************)
Quoted(levels) ==
    {levels[k].price : k \in {j \in DOMAIN levels : levels[j].size # 0}}

SizeAt(levels, p) ==
    levels[CHOOSE k \in DOMAIN levels : levels[k].price = p].size

Overlay(b, levels) ==
    [p \in DOMAIN b \cup Quoted(levels) |->
        IF p \in Quoted(levels) THEN SizeAt(levels, p) ELSE b[p]]

(* The levels of a message that a side with room for so many more takes:   *)
(* the first of those with a size; and the book laid over with these.      *)
QuotedBefore(levels, k) == {j \in 1 .. k - 1 : levels[j].size # 0}

Taken(levels, room) ==
    {k \in DOMAIN levels :
        levels[k].size # 0 /\ Cardinality(QuotedBefore(levels, k)) < room}

OverlayWithin(b, levels, room) ==
    LET prices == {levels[k].price : k \in Taken(levels, room)}
    IN  [p \in DOMAIN b \cup prices |->
            IF p \in prices THEN SizeAt(levels, p) ELSE b[p]]

(* One price change: size zero withdraws the level, any other size sets it.*)
WithLevel(b, p, s) ==
    IF s = 0
    THEN [q \in DOMAIN b \ {p} |-> b[q]]
    ELSE [q \in DOMAIN b \cup {p} |-> IF q = p THEN s ELSE b[q]]
=============================================================================
