------------------------------ MODULE BookSide ------------------------------
(***************************************************************************)
(* One side (bids or asks) of an order book, as a caller of                *)
(* `OrderbookLike` sees it between two calls: which prices are quoted and  *)
(* each with which size.  A side holds so many levels and no more: a level *)
(* that is new and finds no room is dropped.  The book implementations are *)
(* shown to implement this module.                                         *)
(***************************************************************************)
EXTENDS BookLevels

CONSTANT MaxLevels

VARIABLE book   \* [quoted price -> size # 0]

TypeOK == /\ DOMAIN book \subseteq Price
          /\ \A p \in DOMAIN book : book[p] \in Size \ {0}

Init == book = <<>>

HasRoom(p) == p \in DOMAIN book \/ Cardinality(DOMAIN book) < MaxLevels

ApplyPriceChange ==
    \E p \in Price, s \in Size :
        book' = IF s = 0 \/ HasRoom(p) THEN WithLevel(book, p, s) ELSE book

ApplySnapshot ==
    \E levels \in Snapshots : book' = OverlayWithin(<<>>, levels, MaxLevels)

Next == ApplyPriceChange \/ ApplySnapshot

Spec == Init /\ [][Next]_book
=============================================================================
