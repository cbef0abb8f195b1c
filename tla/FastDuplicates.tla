--------------------------- MODULE FastDuplicates ---------------------------
(***************************************************************************)
(* FastBookSide when the feed breaks its contract and a book message       *)
(* quotes a price twice: link enters a second node for the price, the map  *)
(* forgets the first, and the first stays on the list as a ghost, which    *)
(* the iterators yield and no price change can reach.  What survives of    *)
(* the structure is stated over the list as it is walked, not over the map.*)
(***************************************************************************)
EXTENDS FastBookSide

(* The nodes that a walk along `next` meets when it begins at `first`: no  *)
(* more than any set that holds `first` and what its nodes lead to.        *)
Reached(first) ==
    {i \in DOMAIN nodes :
        \A S \in SUBSET DOMAIN nodes :
            (\A j \in {first} \cup {nodes[k].next : k \in S} : j = NONE \/ j \in S)
                => i \in S}

(* The walk does not go around in a circle.                                *)
Ends(first) == first = NONE \/ \E i \in Reached(first) : nodes[i].next = NONE

Ghosts == Reached(head) \ Mapped

(* The node that link is placing.                                          *)
Placing == IF pc = "link" THEN {node} ELSE {}

(***************************************************************************)
(* No node leaks and none is handed out twice, ghosts included: when no    *)
(* loop runs over them, list and free list end, and between them go        *)
(* through every node of the pool once, but for the one being placed.      *)
(***************************************************************************)
PoolPartition ==
    pc # "reclaim" =>
        LET list == Reached(head)
            free == Reached(free_head)
        IN  /\ Ends(head) /\ Ends(free_head)
            /\ list \cap free = {} /\ Placing \cap (list \cup free) = {}
            /\ list \cup free \cup Placing = DOMAIN nodes

(***************************************************************************)
(* The list stays in price order, equal prices side by side, with `prev`   *)
(* inverting `next`; the map's nodes are on it.                            *)
(***************************************************************************)
ListOrdered ==
    pc \in {"idle", "fill"} =>
        LET list == Reached(head)
        IN  /\ Mapped \subseteq list
            /\ \A i \in list :
                  LET h == nodes[i].prev
                  IN  /\ IF i = head THEN h = NONE ELSE h \in list /\ nodes[h].next = i
                      /\ \A k \in Reached(i) : ~Before(k, i)

(***************************************************************************)
(* A price change makes no ghost and removes none: a level the feed has    *)
(* quoted twice and then withdraws stays quoted until the next book        *)
(* message, and only then.                                                 *)
(***************************************************************************)
GhostsOnlyFromBooks ==
    [][(pc = "idle" /\ pc' # "reclaim") \/ pc = "link" => Ghosts' = Ghosts]_vars
=============================================================================
