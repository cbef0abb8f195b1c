--------------------------- MODULE MCLiveSession ---------------------------
(***************************************************************************)
(* One asset with two prices, a visible top of one level and a channel of  *)
(* one snapshot, so that changes stay below the top and the HTTP task is   *)
(* overrun; one connection lost.                                           *)
(***************************************************************************)
EXTENDS LiveSession

MCAsset == {"a"}
MCPrice == 1 .. 2
MCSize == 0 .. 1

Levels(ps) == [p \in ps |-> 1]
MCXBooks == {[a \in MCAsset |-> [bids |-> Levels({1, 2}), asks |-> Levels({2})]]}

Ch(side, p, s) == [asset_id |-> "a", side |-> side, price |-> p, size |-> s, parses |-> TRUE]

(* The best bid goes; the one below it goes; and the best bid comes back   *)
(* while an ask improves.                                                  *)
MCDeltas == { <<Ch("BUY", 2, 0)>>, <<Ch("BUY", 1, 0)>>,
              <<Ch("BUY", 2, 1), Ch("SELL", 1, 1)>> }
=============================================================================
