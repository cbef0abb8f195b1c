---------------------------- MODULE SkipBookSide ----------------------------
(***************************************************************************)
(* `SkipBookSide<IS_BID>` of src/skip_orderbook.rs: a pool of nodes, a     *)
(* skip list through the pool, a free list through lane 0 of the same      *)
(* `forwards` fields, and a map from price to node.  Lane h holds the      *)
(* nodes higher than h in price order; lane 0 holds all of them.           *)
(*                                                                         *)
(* One step per loop iteration, as in FastBookSide.  A node's height is    *)
(* drawn from a generator in the code, and is any height here.             *)
(***************************************************************************)
EXTENDS BookLevels

CONSTANTS
    NONE,        \* u32::MAX in the code: the null index, and the pool's limit
    MAX_HEIGHT   \* number of lanes: 4 in the code

ASSUME SkipBookSideAssumption == NONE \in Nat /\ MAX_HEIGHT \in Nat \ {0}

Index == 0 .. NONE - 1
LaneNo == 0 .. MAX_HEIGHT - 1
Links == [LaneNo -> Index \cup {NONE}]
NoLinks == [h \in LaneNo |-> NONE]
LevelNode == [price : Price, size : Size, height : 1 .. MAX_HEIGHT, forwards : Links]

VARIABLES
    nodes,         \* [index below nodes.len() -> LevelNode]
    free_head,     \* first node of the free list, or NONE
    head,          \* first node of each lane, or NONE
    tick_to_node,  \* [quoted price -> index of its node]
    pc,            \* "idle", or the loop that runs: "reclaim", "fill",
                   \*   "find" (in find_update), "link", "unlink"
    op,            \* who called find_update: "link" or "unlink"
    ret,           \* where that returns to: "idle" (apply_level) or "fill"
    node,          \* its argument `i`
    cur,           \* the loops' cursor `cur`
    lane,          \* the lane `h` that find_update, link or unlink is at
    update,        \* find_update's result: last node before `node`, by lane
    rest           \* the levels apply_levels has not entered yet

struct == <<nodes, free_head, head, tick_to_node>>
locals == <<pc, op, ret, node, cur, lane, update, rest>>
vars == <<nodes, free_head, head, tick_to_node, pc, op, ret, node, cur, lane, update, rest>>

SkipInit ==
    /\ nodes = <<>> /\ free_head = NONE /\ head = NoLinks /\ tick_to_node = <<>>
    /\ pc = "idle" /\ op = "link" /\ ret = "idle" /\ rest = <<>>
    /\ node = NONE /\ cur = NONE /\ lane = 0 /\ update = NoLinks

-----------------------------------------------------------------------------
(* What follows node i, or the head for NONE, in lane h; and writing it.   *)
Next(i, h) == IF i = NONE THEN head[h] ELSE nodes[i].forwards[h]

SetForward(ns, i, h, x) ==
    [j \in DOMAIN ns |-> IF j = i THEN [ns[j] EXCEPT !.forwards[h] = x] ELSE ns[j]]

(* alloc_node, as in FastBookSide.                                         *)
PoolLen == Cardinality(DOMAIN nodes)
CanAlloc == free_head # NONE \/ PoolLen # NONE
AllocIndex == IF free_head # NONE THEN free_head ELSE PoolLen
(* mutant: the rest of the free list is forgotten *)
FreeHeadAfterAlloc_Leaks == NONE
FreeHeadAfterAlloc == IF free_head # NONE THEN nodes[free_head].forwards[0] ELSE NONE
WithNode(i, lvl, height) ==
    [j \in DOMAIN nodes \cup {i} |->
        IF j = i THEN [price |-> lvl.price, size |-> lvl.size,
                       height |-> height, forwards |-> NoLinks]
        ELSE nodes[j]]

(* Calling find_update from link or unlink of node i.                      *)
Find(i, for, caller) ==
    /\ pc' = "find" /\ op' = for /\ ret' = caller /\ node' = i
    /\ cur' = NONE /\ lane' = MAX_HEIGHT - 1 /\ update' = NoLinks

(* Returning from link or unlink; locals are reset, as they are dead.      *)
Return == /\ pc' = ret /\ ret' = "idle" /\ op' = "link"
          /\ node' = NONE /\ cur' = NONE /\ lane' = 0 /\ update' = NoLinks

(* random_height, alloc_node and link up to find_update.  A pool at its    *)
(* limit drops the level.                                                  *)
Insert(lvl, caller) ==
    \/ /\ ~CanAlloc
       /\ pc' = caller
       /\ UNCHANGED <<op, ret, node, cur, lane, update>> /\ UNCHANGED struct
    \/ /\ CanAlloc
       /\ \E height \in 1 .. MAX_HEIGHT : nodes' = WithNode(AllocIndex, lvl, height)
       /\ free_head' = FreeHeadAfterAlloc
       /\ tick_to_node' = [t \in DOMAIN tick_to_node \cup {lvl.price} |->
                              IF t = lvl.price THEN AllocIndex ELSE tick_to_node[t]]
       /\ Find(AllocIndex, "link", caller)
       /\ UNCHANGED head

-----------------------------------------------------------------------------
(* apply_level, by its early returns.                                      *)
ApplyLevelAbsent(p) ==           \* size zero, no such level: nothing to do
    /\ p \notin DOMAIN tick_to_node
    /\ UNCHANGED vars

ApplyLevelRemove(p) ==           \* size zero: unlink up to find_update
    /\ p \in DOMAIN tick_to_node
    /\ Find(tick_to_node[p], "unlink", "idle")
    /\ UNCHANGED rest /\ UNCHANGED struct

ApplyLevelUpdate(p, s) ==
    /\ p \in DOMAIN tick_to_node
    /\ nodes' = [nodes EXCEPT ![tick_to_node[p]].size = s]
    /\ UNCHANGED <<free_head, head, tick_to_node>> /\ UNCHANGED locals

ApplyLevelInsert(p, s) ==
    /\ p \notin DOMAIN tick_to_node
    /\ Insert([price |-> p, size |-> s], "idle")
    /\ UNCHANGED rest

ApplyLevel ==
    /\ pc = "idle"
    /\ \E p \in Price, s \in Size :
          \/ s = 0 /\ (ApplyLevelAbsent(p) \/ ApplyLevelRemove(p))
          \/ s # 0 /\ (ApplyLevelUpdate(p, s) \/ ApplyLevelInsert(p, s))

-----------------------------------------------------------------------------
(* apply_levels: return every node to the free list along lane 0, then     *)
(* enter the snapshot's levels one by one.                                 *)
ApplyLevels ==
    /\ pc = "idle"
    /\ \E levels \in Snapshots : rest' = levels
    /\ pc' = "reclaim"
    /\ cur' = head[0]
    /\ UNCHANGED <<op, ret, node, lane, update>> /\ UNCHANGED struct

Reclaim ==
    /\ pc = "reclaim"
    /\ cur # NONE
    /\ nodes' = SetForward(nodes, cur, 0, free_head)
    /\ free_head' = cur
    /\ cur' = nodes[cur].forwards[0]
    /\ UNCHANGED <<head, tick_to_node, pc, op, ret, node, lane, update, rest>>

(* mutants: only lane 0 is emptied; the map outlives the list              *)
ReclaimDone_KeepsLanes ==
    /\ pc = "reclaim" /\ cur = NONE
    /\ head' = [head EXCEPT ![0] = NONE] /\ tick_to_node' = <<>> /\ pc' = "fill"
    /\ UNCHANGED <<nodes, free_head, op, ret, node, cur, lane, update, rest>>
ReclaimDone_KeepsMap ==
    /\ pc = "reclaim" /\ cur = NONE
    /\ head' = NoLinks /\ pc' = "fill"
    /\ UNCHANGED <<nodes, free_head, tick_to_node, op, ret, node, cur, lane, update, rest>>

ReclaimDone ==
    /\ pc = "reclaim"
    /\ cur = NONE
    /\ head' = NoLinks
    /\ tick_to_node' = <<>>
    /\ pc' = "fill"
    /\ UNCHANGED <<nodes, free_head, op, ret, node, cur, lane, update, rest>>

FillSkip ==
    /\ pc = "fill"
    /\ rest # <<>>
    /\ Head(rest).size = 0
    /\ rest' = Tail(rest)
    /\ UNCHANGED <<pc, op, ret, node, cur, lane, update>> /\ UNCHANGED struct

FillInsert ==
    /\ pc = "fill"
    /\ rest # <<>>
    /\ Head(rest).size # 0
    /\ Insert(Head(rest), "fill")
    /\ rest' = Tail(rest)

FillDone ==
    /\ pc = "fill"
    /\ rest = <<>>
    /\ pc' = "idle"
    /\ UNCHANGED <<op, ret, node, cur, lane, update, rest>> /\ UNCHANGED struct

-----------------------------------------------------------------------------
(* find_update: along each lane to the last node before `node`, then down  *)
(* a lane from there.                                                      *)
StillBefore(i) == i # NONE /\ ComesBefore(nodes[i].price, nodes[node].price)

FindAdvance ==
    /\ pc = "find"
    /\ StillBefore(Next(cur, lane))
    /\ cur' = Next(cur, lane)
    /\ UNCHANGED <<pc, op, ret, node, lane, update, rest>> /\ UNCHANGED struct

(* mutant: the node after the place is recorded                            *)
FindDown_Probe ==
    /\ pc = "find" /\ ~StillBefore(Next(cur, lane))
    /\ update' = [update EXCEPT ![lane] = Next(cur, lane)]
    /\ IF lane = 0
       THEN pc' = op /\ UNCHANGED lane
       ELSE lane' = lane - 1 /\ UNCHANGED pc
    /\ UNCHANGED <<op, ret, node, cur, rest>> /\ UNCHANGED struct

FindDown ==
    /\ pc = "find"
    /\ ~StillBefore(Next(cur, lane))
    /\ update' = [update EXCEPT ![lane] = cur]
    /\ IF lane = 0
       THEN pc' = op /\ UNCHANGED lane
       ELSE lane' = lane - 1 /\ UNCHANGED pc
    /\ UNCHANGED <<op, ret, node, cur, rest>> /\ UNCHANGED struct

(* link's and unlink's loops over the lanes below the node's height.       *)
MoreLanes == lane < nodes[node].height
ToNextLane == /\ lane' = lane + 1
              /\ UNCHANGED <<free_head, tick_to_node, pc, op, ret, node, cur, update, rest>>

(* mutant: every lane is spliced at lane 0's place                         *)
LinkLane_Lowest ==
    /\ pc = "link" /\ MoreLanes
    /\ LET pred == update[0]
           ns   == SetForward(nodes, node, lane, Next(pred, lane))
       IN  IF pred = NONE
           THEN head' = [head EXCEPT ![lane] = node] /\ nodes' = ns
           ELSE nodes' = SetForward(ns, pred, lane, node) /\ UNCHANGED head
    /\ ToNextLane

LinkLane ==
    /\ pc = "link"
    /\ MoreLanes
    /\ LET pred == update[lane]
           ns   == SetForward(nodes, node, lane, Next(pred, lane))
       IN  IF pred = NONE
           THEN head' = [head EXCEPT ![lane] = node] /\ nodes' = ns
           ELSE nodes' = SetForward(ns, pred, lane, node) /\ UNCHANGED head
    /\ ToNextLane

LinkDone ==
    /\ pc = "link"
    /\ ~MoreLanes
    /\ Return
    /\ UNCHANGED rest /\ UNCHANGED struct

UnlinkLane ==
    /\ pc = "unlink"
    /\ MoreLanes
    /\ LET pred == update[lane]
           succ == nodes[node].forwards[lane]
       IN  IF Next(pred, lane) # node     \* the code's guard; see UpdateInv
           THEN UNCHANGED <<nodes, head>>
           ELSE IF pred = NONE
                THEN head' = [head EXCEPT ![lane] = succ] /\ UNCHANGED nodes
                ELSE nodes' = SetForward(nodes, pred, lane, succ) /\ UNCHANGED head
    /\ ToNextLane

(* Out of all lanes, the node goes to the free list.                       *)
UnlinkDone ==
    /\ pc = "unlink"
    /\ ~MoreLanes
    /\ tick_to_node' = [t \in DOMAIN tick_to_node \ {nodes[node].price} |-> tick_to_node[t]]
    /\ nodes' = SetForward(nodes, node, 0, free_head)
    /\ free_head' = node
    /\ Return
    /\ UNCHANGED <<head, rest>>

-----------------------------------------------------------------------------
Loops == \/ Reclaim \/ ReclaimDone
         \/ FillSkip \/ FillInsert \/ FillDone
         \/ FindAdvance \/ FindDown
         \/ LinkLane \/ LinkDone \/ UnlinkLane \/ UnlinkDone

SkipNext == ApplyLevel \/ ApplyLevels \/ Loops

(* A call that has been made runs to its end; nobody has to make one.      *)
SkipSpec == SkipInit /\ [][SkipNext]_vars /\ WF_vars(Loops)

-----------------------------------------------------------------------------
Mapped == {tick_to_node[t] : t \in DOMAIN tick_to_node}

Before(i, j) == ComesBefore(nodes[i].price, nodes[j].price)

(***************************************************************************)
(* The nodes that belong in lane h: those higher than h, except one that   *)
(* link has yet to splice in there or unlink has already cut out, and      *)
(* those that the reclaim loop, which takes lane 0 only, has gone past.    *)
(***************************************************************************)
Busy(i, for) == op = for /\ i = node /\ pc \in {"find", "link", "unlink"}

Lane(h) ==
    {i \in Mapped :
        /\ nodes[i].height > h
        /\ Busy(i, "link") => pc = "link" /\ h < lane
        /\ Busy(i, "unlink") => pc = "find" \/ h >= lane
        /\ pc = "reclaim" /\ h = 0 => cur # NONE /\ (i = cur \/ Before(cur, i))}

(* Each lane is its nodes in price order, from the head to NONE.  (While   *)
(* nodes are reclaimed the heads are those of the old book.)               *)
LaneInv ==
    /\ \A t \in DOMAIN tick_to_node : nodes[tick_to_node[t]].price = t
    /\ \A h \in LaneNo : \A i \in Lane(h) \cup (IF pc = "reclaim" THEN {} ELSE {NONE}) :
          LET j == Next(i, h)
              after == {k \in Lane(h) : i = NONE \/ Before(i, k)}
          IN  \/ j = NONE /\ after = {}
              \/ j \in after /\ \A k \in after : k = j \/ Before(j, k)

(***************************************************************************)
(* find_update may go on, a lane down, from where the lane above stopped:  *)
(* the comment there claims that this is safe.  What it has found in a     *)
(* lane is the last node of that lane before the one to place or remove;   *)
(* so unlink's guard, that this one leads to the node, never fails.        *)
(***************************************************************************)
LastBefore(i, h) ==
    /\ i = NONE \/ (i \in Lane(h) /\ Before(i, node))
    /\ \A k \in Lane(h) : Before(k, node) => i # NONE /\ (k = i \/ Before(k, i))

UpdateInv ==
    /\ pc = "find" => /\ cur = NONE \/ (cur \in Lane(lane) /\ Before(cur, node))
                      /\ \A h \in LaneNo : h > lane => LastBefore(update[h], h)
    /\ pc \in {"link", "unlink"} => \A h \in LaneNo : LastBefore(update[h], h)
    /\ pc = "unlink" /\ MoreLanes => Next(update[lane], lane) = node

(* No node leaks from the pool: those not in use are on the free list,     *)
(* each once.                                                              *)
InUse == IF pc = "reclaim" THEN Lane(0) ELSE Mapped

FreeListInv ==
    \E st \in [1 .. Cardinality(DOMAIN nodes \ InUse) -> DOMAIN nodes \ InUse] :
        LET n == Len(st)
        IN  /\ \A i \in DOMAIN nodes \ InUse : \E k \in 1 .. n : st[k] = i
            /\ free_head = IF n = 0 THEN NONE ELSE st[1]
            /\ \A k \in 1 .. n :
                  nodes[st[k]].forwards[0] = IF k = n THEN NONE ELSE st[k + 1]

(* The iterator yields these levels and ends: it visits the node `at` of   *)
(* each, along lane 0 from its head to NONE.                               *)
Yields(ls) ==
    \E at \in [DOMAIN ls -> DOMAIN nodes] :
        /\ head[0] = IF 1 \in DOMAIN ls THEN at[1] ELSE NONE
        /\ \A k \in DOMAIN ls :
              /\ ls[k] = [price |-> nodes[at[k]].price, size |-> nodes[at[k]].size]
              /\ Next(at[k], 0) = IF k + 1 \in DOMAIN ls THEN at[k + 1] ELSE NONE

Sizes == [t \in DOMAIN tick_to_node |-> nodes[tick_to_node[t]].size]

(* Between calls bids() and asks() yield the quoted levels, best first.    *)
IterIsRanked == pc = "idle" => Yields(Ranked(Sizes))

(* Every call returns: no lane leads in a circle.                          *)
CallsReturn == pc # "idle" ~> pc = "idle"

(* A snapshot takes effect at its first step, an insertion when the map    *)
(* has the level, a removal when it no longer has.                         *)
InPlace == IF pc = "reclaim" THEN <<>> ELSE Sizes

Abstract == INSTANCE BookSide WITH
    MaxLevels <- NONE,
    book <- OverlayWithin(InPlace, rest, NONE - Cardinality(DOMAIN InPlace))

(* The skip list does to the book what BookSide says, as the other two     *)
(* implementations of OrderbookLike do.                                    *)
ImplementsBookSide == Abstract!Spec
=============================================================================
