---------------------------- MODULE FastBookSide ----------------------------
(***************************************************************************)
(* `FastBookSide<IS_BID>` of src/fast_orderbook.rs: a pool of nodes, a     *)
(* doubly linked list through the pool in price order, a free list through *)
(* the same `next` fields, and a map from price to node.                   *)
(*                                                                         *)
(* The two mutating operations, apply_level and apply_levels, run one step *)
(* per loop iteration: pc says which loop is running.  Straight-line code  *)
(* between two loop heads is one action.  Nothing else runs meanwhile (the *)
(* operations take &mut self); the small steps are there so that what each *)
(* loop maintains can be stated, checked and proved.                       *)
(***************************************************************************)
EXTENDS BookLevels

CONSTANT NONE   \* u32::MAX in the code: the null index, and the pool's limit

ASSUME FastBookSideAssumption == NONE \in Nat

Index == 0 .. NONE - 1
LevelNode == [price : Price, size : Size, next : Index \cup {NONE},
              prev : Index \cup {NONE}]

VARIABLES
    nodes,         \* [index below nodes.len() -> LevelNode]
    free_head,     \* first node of the free list, or NONE
    head,          \* first node of the price-ordered list, or NONE
    tick_to_node,  \* [quoted price -> index of its node]
    pc,            \* "idle", or the loop that runs: "reclaim", "fill", "link"
    ret,           \* where link returns to: "idle" (apply_level) or "fill"
    cur,           \* the loops' cursor `cur`
    node,          \* link's argument `i`
    rest           \* the levels apply_levels has not entered yet

struct == <<nodes, free_head, head, tick_to_node>>
locals == <<pc, ret, cur, node, rest>>
vars == <<nodes, free_head, head, tick_to_node, pc, ret, cur, node, rest>>

FastInit ==
    /\ nodes = <<>> /\ free_head = NONE /\ head = NONE /\ tick_to_node = <<>>
    /\ pc = "idle" /\ ret = "idle" /\ cur = NONE /\ node = NONE /\ rest = <<>>

-----------------------------------------------------------------------------
(* Pool accesses.  A write through NONE is what the code's `!= NONE` tests *)
(* skip.                                                                   *)
SetNext(ns, i, x) ==
    [j \in DOMAIN ns |-> IF j = i THEN [ns[j] EXCEPT !.next = x] ELSE ns[j]]
SetPrev(ns, i, x) ==
    [j \in DOMAIN ns |-> IF j = i THEN [ns[j] EXCEPT !.prev = x] ELSE ns[j]]

(* mutant: the back link of the node after the new one is not set *)
Splice_OneWay(ns, i, before, after) ==
    SetNext([ns EXCEPT ![i].prev = before, ![i].next = after], before, i)
Splice(ns, i, before, after) ==      \* i between two neighbours
    SetNext(SetPrev([ns EXCEPT ![i].prev = before, ![i].next = after],
                    after, i), before, i)

(* alloc_node: the head of the free list if there is one, else a new node  *)
(* at the end of the pool; None once the pool's length is NONE.            *)
PoolLen == Cardinality(DOMAIN nodes)
(* mutant: the pool's limit is not tested *)
CanAlloc_Unbounded == TRUE
CanAlloc == free_head # NONE \/ PoolLen # NONE
AllocIndex == IF free_head # NONE THEN free_head ELSE PoolLen
(* mutant: the rest of the free list is forgotten *)
FreeHeadAfterAlloc_Leaks == NONE
FreeHeadAfterAlloc == IF free_head # NONE THEN nodes[free_head].next ELSE NONE
WithNode(i, lvl) ==
    [j \in DOMAIN nodes \cup {i} |->
        IF j = i
        THEN [price |-> lvl.price, size |-> lvl.size, next |-> NONE, prev |-> NONE]
        ELSE nodes[j]]

(***************************************************************************)
(* alloc_node followed by link up to link's loop.  An empty list takes the *)
(* node as its head at once; a pool at its limit drops the level silently. *)
(***************************************************************************)
Insert(lvl, caller) ==
    \/ /\ ~CanAlloc
       /\ pc' = caller
       /\ UNCHANGED <<nodes, free_head, head, tick_to_node, ret, cur, node>>
    \/ /\ CanAlloc
       /\ nodes' = WithNode(AllocIndex, lvl)
       /\ free_head' = FreeHeadAfterAlloc
       /\ tick_to_node' = [t \in DOMAIN tick_to_node \cup {lvl.price} |->
                              IF t = lvl.price THEN AllocIndex ELSE tick_to_node[t]]
       /\ IF head = NONE
          THEN /\ head' = AllocIndex
               /\ pc' = caller
               /\ UNCHANGED <<ret, cur, node>>
          ELSE /\ cur' = head
               /\ node' = AllocIndex
               /\ ret' = caller
               /\ pc' = "link"
               /\ UNCHANGED head

-----------------------------------------------------------------------------
(* apply_level, by its early returns.                                      *)
ApplyLevelAbsent(p) ==           \* size zero, no such level: nothing to do
    /\ p \notin DOMAIN tick_to_node
    /\ UNCHANGED vars

(* mutant: the node after a removed one still points back to it *)
ApplyLevelRemove_StalePrev(p) ==
    /\ p \in DOMAIN tick_to_node
    /\ LET i    == tick_to_node[p]
           prev == nodes[i].prev
           next == nodes[i].next
       IN  /\ nodes' = SetNext(SetNext(nodes, prev, next), i, free_head)
           /\ head' = IF prev = NONE THEN next ELSE head
           /\ free_head' = i
           /\ tick_to_node' = [t \in DOMAIN tick_to_node \ {nodes[i].price} |->
                                  tick_to_node[t]]
    /\ UNCHANGED locals

(* Size zero: unlink the node, then free_node takes it off the map and     *)
(* puts it at the head of the free list.                                   *)
ApplyLevelRemove(p) ==
    /\ p \in DOMAIN tick_to_node
    /\ LET i    == tick_to_node[p]
           prev == nodes[i].prev
           next == nodes[i].next
       IN  /\ nodes' = SetNext(SetPrev(SetNext(nodes, prev, next), next, prev),
                               i, free_head)
           /\ head' = IF prev = NONE THEN next ELSE head
           /\ free_head' = i
           /\ tick_to_node' = [t \in DOMAIN tick_to_node \ {nodes[i].price} |->
                                  tick_to_node[t]]
    /\ UNCHANGED locals

(* mutant: a level that is there is entered once more *)
ApplyLevelUpdate_Enters(p, s) ==
    /\ p \in DOMAIN tick_to_node
    /\ Insert([price |-> p, size |-> s], "idle")
    /\ UNCHANGED rest

ApplyLevelUpdate(p, s) ==
    /\ p \in DOMAIN tick_to_node
    /\ nodes' = [nodes EXCEPT ![tick_to_node[p]].size = s]
    /\ UNCHANGED <<free_head, head, tick_to_node>>
    /\ UNCHANGED locals

ApplyLevelInsert(p, s) ==
    /\ p \notin DOMAIN tick_to_node
    /\ Insert([price |-> p, size |-> s], "idle")
    /\ UNCHANGED rest

ApplyLevel ==
    /\ pc = "idle"
    /\ \E p \in Price, s \in Size :
          \/ s = 0 /\ (ApplyLevelAbsent(p) \/ ApplyLevelRemove(p))
          \/ s # 0 /\ (ApplyLevelUpdate(p, s) \/ ApplyLevelInsert(p, s))

-----------------------------------------------------------------------------
(* apply_levels: return every node to the free list, then enter the        *)
(* snapshot's levels one by one.                                           *)
ApplyLevels ==
    /\ pc = "idle"
    /\ \E levels \in Snapshots : rest' = levels
    /\ pc' = "reclaim"
    /\ cur' = head
    /\ UNCHANGED <<ret, node>>
    /\ UNCHANGED struct

(* mutant: the old levels' nodes are not returned to the free list *)
Reclaim_Leaks ==
    /\ pc = "reclaim" /\ cur # NONE
    /\ cur' = nodes[cur].next
    /\ UNCHANGED <<nodes, free_head, head, tick_to_node, pc, ret, node, rest>>

Reclaim ==
    /\ pc = "reclaim"
    /\ cur # NONE
    /\ nodes' = SetNext(nodes, cur, free_head)
    /\ free_head' = cur
    /\ cur' = nodes[cur].next
    /\ UNCHANGED <<head, tick_to_node, pc, ret, node, rest>>

(* mutants: the map, or the list's head, outlives the list *)
ReclaimDone_KeepsMap ==
    /\ pc = "reclaim" /\ cur = NONE
    /\ head' = NONE /\ pc' = "fill"
    /\ UNCHANGED <<nodes, free_head, tick_to_node, ret, cur, node, rest>>
ReclaimDone_KeepsHead ==
    /\ pc = "reclaim" /\ cur = NONE
    /\ tick_to_node' = <<>> /\ pc' = "fill"
    /\ UNCHANGED <<nodes, free_head, head, ret, cur, node, rest>>

ReclaimDone ==
    /\ pc = "reclaim"
    /\ cur = NONE
    /\ head' = NONE
    /\ tick_to_node' = <<>>
    /\ pc' = "fill"
    /\ UNCHANGED <<nodes, free_head, ret, cur, node, rest>>

FillSkip ==
    /\ pc = "fill"
    /\ rest # <<>>
    /\ Head(rest).size = 0
    /\ rest' = Tail(rest)
    /\ UNCHANGED <<pc, ret, cur, node>>
    /\ UNCHANGED struct

FillInsert ==
    /\ pc = "fill"
    /\ rest # <<>>
    /\ Head(rest).size # 0
    /\ Insert(Head(rest), "fill")
    /\ rest' = Tail(rest)

FillDone ==
    /\ pc = "fill"
    /\ rest = <<>>
    /\ pc' = "idle"
    /\ UNCHANGED <<ret, cur, node, rest>>
    /\ UNCHANGED struct

-----------------------------------------------------------------------------
(* link's loop: walk from the head to the first node the new one comes     *)
(* before.  Locals are reset on return: they are dead.                     *)
LinkReturn == /\ pc' = ret
              /\ ret' = "idle" /\ cur' = NONE /\ node' = NONE

(* mutant: a new best level does not become the head *)
LinkBefore_KeepsHead ==
    /\ pc = "link"
    /\ ComesBefore(nodes[node].price, nodes[cur].price)
    /\ nodes' = Splice(nodes, node, nodes[cur].prev, cur)
    /\ LinkReturn
    /\ UNCHANGED <<free_head, head, tick_to_node, rest>>

LinkBefore ==
    /\ pc = "link"
    /\ ComesBefore(nodes[node].price, nodes[cur].price)
    /\ nodes' = Splice(nodes, node, nodes[cur].prev, cur)
    /\ head' = IF nodes[cur].prev = NONE THEN node ELSE head
    /\ LinkReturn
    /\ UNCHANGED <<free_head, tick_to_node, rest>>

LinkLast ==
    /\ pc = "link"
    /\ ~ComesBefore(nodes[node].price, nodes[cur].price)
    /\ nodes[cur].next = NONE
    /\ nodes' = Splice(nodes, node, cur, NONE)
    /\ LinkReturn
    /\ UNCHANGED <<free_head, head, tick_to_node, rest>>

LinkAdvance ==
    /\ pc = "link"
    /\ ~ComesBefore(nodes[node].price, nodes[cur].price)
    /\ nodes[cur].next # NONE
    /\ cur' = nodes[cur].next
    /\ UNCHANGED <<pc, ret, node, rest>>
    /\ UNCHANGED struct

-----------------------------------------------------------------------------
Loops == \/ Reclaim \/ ReclaimDone
         \/ FillSkip \/ FillInsert \/ FillDone
         \/ LinkBefore \/ LinkLast \/ LinkAdvance

FastNext == ApplyLevel \/ ApplyLevels \/ Loops

(* A call that has been made runs to its end; nobody has to make one.      *)
FastSpec == FastInit /\ [][FastNext]_vars /\ WF_vars(Loops)

-----------------------------------------------------------------------------
(* The pool is a prefix of the indices; cursors point into it.             *)
TypeOK ==
    /\ \E n \in 0 .. NONE : nodes \in [0 .. n - 1 -> LevelNode]
    /\ free_head \in Index \cup {NONE}
    /\ head \in Index \cup {NONE}
    /\ DOMAIN tick_to_node \subseteq Price
    /\ \A t \in DOMAIN tick_to_node : tick_to_node[t] \in DOMAIN nodes
    /\ pc \in {"idle", "reclaim", "fill", "link"}
    /\ ret \in {"idle", "fill"}
    /\ cur \in DOMAIN nodes \cup {NONE}
    /\ node \in DOMAIN nodes \cup {NONE}
    /\ rest \in Seq(Level)

(***************************************************************************)
(* The nodes on the map; of these, the ones on the price-ordered list (not *)
(* the one link is placing, nor those already reclaimed); and the others,  *)
(* which must be on the free list.                                         *)
(***************************************************************************)
Mapped == {tick_to_node[t] : t \in DOMAIN tick_to_node}

Before(i, j) == ComesBefore(nodes[i].price, nodes[j].price)

Linked == CASE pc = "link"    -> Mapped \ {node}
            [] pc = "reclaim" -> {k \in Mapped : cur # NONE /\ (k = cur \/ Before(cur, k))}
            [] OTHER          -> Mapped

Free == DOMAIN nodes \ (Linked \cup IF pc = "link" THEN {node} ELSE {})

(* The map finds, for each price, the node that holds it.                  *)
MapFindsPrice ==
    \A t \in DOMAIN tick_to_node : nodes[tick_to_node[t]].price = t

(***************************************************************************)
(* The list is the mapped nodes in price order: `next` is the immediate    *)
(* successor, the last node's is NONE, and unless nodes are being          *)
(* reclaimed, `head` is the first node and `prev` inverts `next`.          *)
(***************************************************************************)
NextInPriceOrder ==
    \A i \in Linked :
        LET j == nodes[i].next
        IN  \/ j = NONE /\ \A k \in Linked : ~Before(i, k)
            \/ /\ j \in Linked
               /\ Before(i, j)
               /\ \A k \in Linked : Before(i, k) => k = j \/ Before(j, k)

HeadIsBest ==
    pc # "reclaim" =>
        \/ head = NONE /\ Linked = {}
        \/ head \in Linked /\ \A k \in Linked : k = head \/ Before(head, k)

PrevInvertsNext ==
    pc # "reclaim" =>
        \A i \in Linked :
            LET h == nodes[i].prev
            IN  IF i = head THEN h = NONE ELSE h \in Linked /\ nodes[h].next = i

(* What link has walked past comes before the node it is placing.          *)
LinkPassed ==
    pc = "link" =>
        /\ node \in Mapped
        /\ cur \in Linked
        /\ \A k \in Linked : Before(k, cur) => Before(k, node)

ReclaimCursor == pc = "reclaim" => cur \in Mapped \cup {NONE}

(* The list structure as a whole: what link, unlink and the reclaim loop   *)
(* must keep up between any two of their steps.                            *)
ListInv == /\ MapFindsPrice
           /\ NextInPriceOrder
           /\ HeadIsBest
           /\ PrevInvertsNext
           /\ LinkPassed
           /\ ReclaimCursor

(***************************************************************************)
(* The free list, read from its last node to free_head, is an enumeration  *)
(* of exactly the nodes that are not in use: no node leaks and none is     *)
(* both free and in use, or free twice.                                    *)
(***************************************************************************)
FreeListOf(free, first, ns, st) ==
    LET n == Cardinality(free)
    IN  /\ \A i \in free : \E k \in 1 .. n : st[k] = i
        /\ \A j, k \in 1 .. n : st[j] = st[k] => j = k
        /\ first = IF n = 0 THEN NONE ELSE st[n]
        /\ \A k \in 1 .. n : ns[st[k]].next = IF k = 1 THEN NONE ELSE st[k - 1]

IsFreeList(free, first, ns) ==
    \E st \in [1 .. Cardinality(free) -> free] : FreeListOf(free, first, ns, st)

(* No node leaks from the pool, in alloc_node, free_node or apply_levels.  *)
FreeListInv == IsFreeList(Free, free_head, nodes)

(***************************************************************************)
(* The levels apply_levels has yet to enter: no price twice, and none that *)
(* is on the map.                                                          *)
(***************************************************************************)
RestInv ==
    /\ DistinctPrices(rest)
    /\ pc = "idle" \/ (pc = "link" /\ ret = "idle") => rest = <<>>
    /\ pc \in {"fill", "link"} =>
          \A k \in DOMAIN rest : rest[k].price \notin DOMAIN tick_to_node

-----------------------------------------------------------------------------
(* The iterator behind bids() and asks() yields these levels and ends: it  *)
(* visits the node `at` of each, from the head along `next` to NONE.       *)
Yields(ls) ==
    \E at \in [DOMAIN ls -> DOMAIN nodes] :
        /\ head = IF 1 \in DOMAIN ls THEN at[1] ELSE NONE
        /\ \A k \in DOMAIN ls :
              /\ ls[k] = [price |-> nodes[at[k]].price, size |-> nodes[at[k]].size]
              /\ nodes[at[k]].next = IF k + 1 \in DOMAIN ls THEN at[k + 1] ELSE NONE

Sizes == [t \in DOMAIN tick_to_node |-> nodes[tick_to_node[t]].size]

(* Between calls it yields the quoted levels, each once, best first.       *)
IterIsRanked == pc = "idle" => Yields(Ranked(Sizes))

(* The pool grows only when all of its nodes hold quoted levels.           *)
PoolGrowsOnlyWhenFull ==
    [][DOMAIN nodes' # DOMAIN nodes => Mapped = DOMAIN nodes]_vars

(* Every call returns: no loop goes around a corrupted list for ever.      *)
CallsReturn == pc # "idle" ~> pc = "idle"

(***************************************************************************)
(* A call takes effect on the abstract book at its first step: while       *)
(* apply_levels runs, the levels it has yet to enter count as entered, and *)
(* those it is still taking down as gone.                                  *)
(***************************************************************************)
InPlace == IF pc = "reclaim" THEN <<>> ELSE Sizes

Abstract == INSTANCE BookSide WITH
    MaxLevels <- NONE,
    book <- OverlayWithin(InPlace, rest, NONE - Cardinality(DOMAIN InPlace))

(* apply_level and apply_levels do to the book what BookSide says.         *)
ImplementsBookSide == Abstract!Spec
=============================================================================
