----------------------------- MODULE MCObserver -----------------------------
(***************************************************************************)
(* Two labelled assets and one without label, three prices, a visible top  *)
(* of two levels in place of five: levels enter and leave the top from     *)
(* below it.                                                               *)
(***************************************************************************)
EXTENDS Observer

MCAsset == {"a", "b", "c"}
MCLabelled == {"a", "b"}
MCPrice == 1 .. 3
MCSize == 0 .. 2

L(p, s) == [price |-> p, size |-> s]

Book(a, bids, asks, ok) == [event_type |-> "book", asset_id |-> a,
                            bids |-> bids, asks |-> asks, parses |-> ok]

Books == { Book("a", <<>>, <<>>, TRUE),
           Book("a", <<L(1, 1), L(3, 1), L(2, 0)>>, <<L(3, 1)>>, TRUE),
           Book("a", <<L(2, 1), L(1, 1), L(3, 2)>>, <<>>, TRUE),
           Book("b", <<L(1, 1)>>, <<>>, TRUE),
           Book("a", <<L(1, 2)>>, <<>>, FALSE),
           Book("c", <<L(1, 2)>>, <<>>, TRUE) }

Ch(a, side, p, s, ok) == [asset_id |-> a, side |-> side, price |-> p,
                          size |-> s, parses |-> ok]

(* Changes that apply once the asset has a book; and those never applied.  *)
Good == {Ch("a", "BUY", p, s, TRUE) : p \in MCPrice, s \in MCSize}
        \cup {Ch("a", "SELL", 3, 0, TRUE), Ch("a", "SELL", 2, 1, TRUE),
              Ch("b", "BUY", 1, 2, TRUE)}
Bad == {Ch("a", "BUY", 1, 2, FALSE), Ch("a", "?", 1, 2, TRUE), Ch("c", "BUY", 1, 2, TRUE)}

PriceChange(cs) == [event_type |-> "price_change", price_changes |-> cs]

(* Two changes: each of them on its own may stay out of the visible top.   *)
Pairs == {<<Ch("a", "BUY", p, 0, TRUE), Ch("a", "BUY", q, s, TRUE)>> :
             p, q \in MCPrice, s \in 0 .. 1}

Singles == Books \cup {PriceChange(<<>>), [event_type |-> "other"]}
           \cup {PriceChange(<<c>>) : c \in Good \cup Bad}
           \cup {PriceChange(cs) : cs \in Pairs}

(* Single messages, the empty array, and arrays of two.                    *)
MCFrames ==
    {<<m>> : m \in Singles}
    \cup { <<>>,
           <<Book("a", <<L(2, 2)>>, <<L(3, 1)>>, TRUE),
             PriceChange(<<Ch("a", "BUY", 3, 1, TRUE), Ch("a", "BUY", 2, 0, TRUE)>>)>>,
           <<PriceChange(<<Ch("b", "BUY", 1, 2, TRUE)>>), Book("b", <<L(1, 1)>>, <<>>, TRUE)>> }
=============================================================================
