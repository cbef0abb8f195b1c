------------------------- MODULE FastBookSideProofs -------------------------
(***************************************************************************)
(* The pool, the price-ordered list, the map and the free list of          *)
(* FastBookSide stay consistent between any two iterations of any call:    *)
(* for any prices, any pool limit, bids and asks, provided no snapshot     *)
(* quotes a price twice.                                                   *)
(***************************************************************************)
EXTENDS FastDuplicates, BookLevelsProofs

-----------------------------------------------------------------------------
(* The order of a side.                                                    *)
LEMMA Order ==
    ASSUME NEW p \in Price, NEW q \in Price, NEW r \in Price
    PROVE  /\ ~ComesBefore(p, p)
           /\ ComesBefore(p, q) => ~ComesBefore(q, p)
           /\ ComesBefore(p, q) /\ ComesBefore(q, r) => ComesBefore(p, r)
           /\ p # q => ComesBefore(p, q) \/ ComesBefore(q, p)
<1>1. p \in Int /\ q \in Int /\ r \in Int
  BY BookLevelsAssumption
<1> QED BY <1>1 DEF ComesBefore

(* The pool is a prefix of the indices.                                    *)
LEMMA PoolFacts ==
    ASSUME TypeOK
    PROVE  /\ nodes \in [DOMAIN nodes -> LevelNode]
           /\ DOMAIN nodes \subseteq Index
           /\ PoolLen \in 0 .. NONE
           /\ DOMAIN nodes = 0 .. PoolLen - 1
           /\ IsFiniteSet(DOMAIN nodes)
           /\ NONE \notin DOMAIN nodes
<1>1. PICK n \in 0 .. NONE : nodes \in [0 .. n - 1 -> LevelNode]
  BY DEF TypeOK
<1>2. n \in Nat /\ NONE \in Nat /\ n <= NONE
  BY <1>1, FastBookSideAssumption
<1>3. IsFiniteSet(0 .. n - 1) /\ Cardinality(0 .. n - 1) = n
  BY <1>2, FS_Interval
<1>4. DOMAIN nodes = 0 .. n - 1
  BY <1>1
<1> QED BY <1>1, <1>2, <1>3, <1>4 DEF PoolLen, Index

(* Writes to the pool, field by field.                                     *)
LEMMA SetNextFacts ==
    ASSUME NEW D, NEW ns \in [D -> LevelNode], NEW i, NEW x \in Index \cup {NONE}
    PROVE  /\ SetNext(ns, i, x) \in [D -> LevelNode]
           /\ \A j \in D : /\ SetNext(ns, i, x)[j].price = ns[j].price
                           /\ SetNext(ns, i, x)[j].size = ns[j].size
                           /\ SetNext(ns, i, x)[j].prev = ns[j].prev
                           /\ SetNext(ns, i, x)[j].next = IF j = i THEN x ELSE ns[j].next
BY DEF SetNext, LevelNode

(* The same for `prev`.                                                    *)
LEMMA SetPrevFacts ==
    ASSUME NEW D, NEW ns \in [D -> LevelNode], NEW i, NEW x \in Index \cup {NONE}
    PROVE  /\ SetPrev(ns, i, x) \in [D -> LevelNode]
           /\ \A j \in D : /\ SetPrev(ns, i, x)[j].price = ns[j].price
                           /\ SetPrev(ns, i, x)[j].size = ns[j].size
                           /\ SetPrev(ns, i, x)[j].next = ns[j].next
                           /\ SetPrev(ns, i, x)[j].prev = IF j = i THEN x ELSE ns[j].prev
BY DEF SetPrev, LevelNode

(* What a splice of i between h and j makes of the pool ns.                *)
Spliced(ns, nt, D, i, h, j) ==
    /\ nt \in [D -> LevelNode]
    /\ \A k \in D :
         /\ nt[k].price = ns[k].price
         /\ nt[k].size = ns[k].size
         /\ nt[k].next = IF k = h THEN i ELSE IF k = i THEN j ELSE ns[k].next
         /\ nt[k].prev = IF k = j THEN i ELSE IF k = i THEN h ELSE ns[k].prev

(* link's pointer writes splice the node in between its neighbours.        *)
LEMMA SpliceFacts ==
    ASSUME NEW D, NEW ns \in [D -> LevelNode], NEW i \in D, i \in Index,
           NEW h \in Index \cup {NONE}, NEW j \in Index \cup {NONE}, h # i, j # i
    PROVE  Spliced(ns, Splice(ns, i, h, j), D, i, h, j)
<1> DEFINE at == [ns EXCEPT ![i].prev = h, ![i].next = j]
<1>1. /\ at \in [D -> LevelNode]
      /\ \A k \in D : /\ at[k].price = ns[k].price
                      /\ at[k].size = ns[k].size
                      /\ at[k].next = IF k = i THEN j ELSE ns[k].next
                      /\ at[k].prev = IF k = i THEN h ELSE ns[k].prev
  BY DEF LevelNode
<1>2. i \in Index \cup {NONE}
  OBVIOUS
<1> HIDE DEF at
<1>3. SetPrev(at, j, i) \in [D -> LevelNode]
  BY <1>1, <1>2, SetPrevFacts
<1>4. \A k \in D : /\ SetPrev(at, j, i)[k].price = ns[k].price
                   /\ SetPrev(at, j, i)[k].size = ns[k].size
                   /\ SetPrev(at, j, i)[k].next = at[k].next
                   /\ SetPrev(at, j, i)[k].prev = IF k = j THEN i ELSE at[k].prev
  BY <1>1, <1>2, SetPrevFacts
<1>5. Splice(ns, i, h, j) = SetNext(SetPrev(at, j, i), h, i)
  BY DEF Splice, at
<1>6. /\ Splice(ns, i, h, j) \in [D -> LevelNode]
      /\ \A k \in D :
           /\ Splice(ns, i, h, j)[k].price = SetPrev(at, j, i)[k].price
           /\ Splice(ns, i, h, j)[k].size = SetPrev(at, j, i)[k].size
           /\ Splice(ns, i, h, j)[k].prev = SetPrev(at, j, i)[k].prev
           /\ Splice(ns, i, h, j)[k].next = IF k = h THEN i ELSE SetPrev(at, j, i)[k].next
  BY <1>2, <1>3, <1>5, SetNextFacts
<1> QED BY <1>1, <1>4, <1>6 DEF Spliced

(* What taking i out from between h and j, with f behind it from now on,   *)
(* makes of the pool ns.                                                   *)
Unlink(ns, i, h, j, f) == SetNext(SetPrev(SetNext(ns, h, j), j, h), i, f)

Unlinked(ns, nt, D, i, h, j, f) ==
    /\ nt \in [D -> LevelNode]
    /\ \A k \in D :
         /\ nt[k].price = ns[k].price
         /\ nt[k].prev = IF k = j THEN h ELSE ns[k].prev
         /\ nt[k].next = IF k = i THEN f ELSE IF k = h THEN j ELSE ns[k].next

LEMMA UnlinkFacts ==
    ASSUME NEW D, NEW ns \in [D -> LevelNode], NEW i, NEW h \in Index \cup {NONE},
           NEW j \in Index \cup {NONE}, NEW f \in Index \cup {NONE}
    PROVE  Unlinked(ns, Unlink(ns, i, h, j, f), D, i, h, j, f)
<1> DEFINE n1 == SetNext(ns, h, j)
           n2 == SetPrev(n1, j, h)
<1>1. /\ n1 \in [D -> LevelNode]
      /\ \A k \in D : /\ n1[k].price = ns[k].price
                      /\ n1[k].prev = ns[k].prev
                      /\ n1[k].next = IF k = h THEN j ELSE ns[k].next
  BY SetNextFacts
<1> HIDE DEF n1
<1>2. /\ n2 \in [D -> LevelNode]
      /\ \A k \in D : /\ n2[k].price = n1[k].price
                      /\ n2[k].next = n1[k].next
                      /\ n2[k].prev = IF k = j THEN h ELSE n1[k].prev
  BY <1>1, SetPrevFacts
<1> HIDE DEF n2
<1>3. Unlink(ns, i, h, j, f) = SetNext(n2, i, f)
  BY DEF n1, n2, Unlink
<1>4. /\ Unlink(ns, i, h, j, f) \in [D -> LevelNode]
      /\ \A k \in D : /\ Unlink(ns, i, h, j, f)[k].price = n2[k].price
                      /\ Unlink(ns, i, h, j, f)[k].prev = n2[k].prev
                      /\ Unlink(ns, i, h, j, f)[k].next = IF k = i THEN f ELSE n2[k].next
  BY <1>2, <1>3, SetNextFacts
<1> QED BY <1>1, <1>2, <1>4 DEF Unlinked

(* A price has one node, and the nodes' prices order them.                 *)
LEMMA BeforeOrder ==
    ASSUME TypeOK
    PROVE  \A i, j, k \in DOMAIN nodes :
               /\ ~Before(i, i)
               /\ Before(i, j) => ~Before(j, i)
               /\ Before(i, j) /\ Before(j, k) => Before(i, k)
<1>1. \A i \in DOMAIN nodes : nodes[i].price \in Price
  BY PoolFacts DEF LevelNode
<1> QED BY <1>1, Order DEF Before

(* Mapped nodes are in the pool, and no two hold the same price.           *)
LEMMA MapFacts ==
    ASSUME TypeOK, MapFindsPrice
    PROVE  /\ Mapped \subseteq DOMAIN nodes
           /\ \A i \in Mapped : /\ nodes[i].price \in DOMAIN tick_to_node
                                /\ tick_to_node[nodes[i].price] = i
           /\ \A i, j \in Mapped : i # j => Before(i, j) \/ Before(j, i)
<1>1. Mapped \subseteq DOMAIN nodes
  BY DEF TypeOK, Mapped
<1>2. \A i \in Mapped : /\ nodes[i].price \in DOMAIN tick_to_node
                        /\ tick_to_node[nodes[i].price] = i
  BY DEF MapFindsPrice, Mapped
<1>3. \A i \in DOMAIN nodes : nodes[i].price \in Price
  BY PoolFacts DEF LevelNode
<1>4. \A i, j \in Mapped : i # j => nodes[i].price # nodes[j].price
  BY <1>2
<1> QED BY <1>1, <1>2, <1>3, <1>4, Order DEF Before

-----------------------------------------------------------------------------
(* The free list: what its head tells, and how it grows and shrinks.       *)
LEMMA FreeFinite ==
    ASSUME TypeOK
    PROVE  /\ Free \subseteq DOMAIN nodes
           /\ IsFiniteSet(Free)
           /\ Cardinality(Free) \in Nat
<1>1. Free \subseteq DOMAIN nodes
  BY DEF Free
<1> QED BY <1>1, PoolFacts, FS_Subset, FS_CardinalityType

(* free_head is NONE just when no node is free, else a free node.          *)
LEMMA FreeHead ==
    ASSUME NEW S, IsFiniteSet(S), NEW fh, NEW ns, IsFreeList(S, fh, ns), NONE \notin S
    PROVE  /\ fh = NONE => S = {}
           /\ fh # NONE => fh \in S /\ ns[fh].next \in S \cup {NONE}
<1>1. PICK n \in Nat : n = Cardinality(S)
  BY FS_CardinalityType
<1>2. PICK st \in [1 .. n -> S] : FreeListOf(S, fh, ns, st)
  BY <1>1 DEF IsFreeList
<1>3. CASE n = 0
  BY <1>1, <1>2, <1>3 DEF FreeListOf
<1>4. CASE n # 0
  <2>1. n \in 1 .. n /\ fh = st[n] /\ st[n] \in S
    BY <1>1, <1>2, <1>4 DEF FreeListOf
  <2>2. ns[st[n]].next = IF n = 1 THEN NONE ELSE st[n - 1]
    BY <1>1, <1>2, <2>1 DEF FreeListOf
  <2>3. n # 1 => n - 1 \in 1 .. n
    BY <1>4
  <2> QED BY <1>2, <2>1, <2>2, <2>3
<1> QED BY <1>3, <1>4

(* Writes that leave the free nodes' links alone keep the free list.       *)
LEMMA FreeSame ==
    ASSUME NEW S, NEW fh, NEW ns, IsFreeList(S, fh, ns), NEW nt,
           \A f \in S : nt[f].next = ns[f].next
    PROVE  IsFreeList(S, fh, nt)
<1>1. PICK st \in [1 .. Cardinality(S) -> S] : FreeListOf(S, fh, ns, st)
  BY DEF IsFreeList
<1>2. \A k \in 1 .. Cardinality(S) : nt[st[k]].next = ns[st[k]].next
  BY <1>1
<1>3. FreeListOf(S, fh, nt, st)
  BY <1>1, <1>2 DEF FreeListOf
<1> QED BY <1>3 DEF IsFreeList

(* free_node and the reclaim loop: a node put in front.                    *)
LEMMA FreePush ==
    ASSUME NEW S, IsFiniteSet(S), NEW fh, NEW ns, IsFreeList(S, fh, ns),
           NEW i, i \notin S, NEW nt, nt[i].next = fh,
           \A f \in S : nt[f].next = ns[f].next
    PROVE  IsFreeList(S \cup {i}, i, nt)
<1>1. PICK n \in Nat : n = Cardinality(S)
  BY FS_CardinalityType
<1>2. PICK st \in [1 .. n -> S] : FreeListOf(S, fh, ns, st)
  BY <1>1 DEF IsFreeList
<1>3. Cardinality(S \cup {i}) = n + 1
  BY <1>1, FS_AddElement
<1>4. /\ \A f \in S : \E k \in 1 .. n : st[k] = f
      /\ \A j, k \in 1 .. n : st[j] = st[k] => j = k
      /\ fh = IF n = 0 THEN NONE ELSE st[n]
      /\ \A k \in 1 .. n : ns[st[k]].next = IF k = 1 THEN NONE ELSE st[k - 1]
  BY <1>1, <1>2 DEF FreeListOf
<1> DEFINE su == [k \in 1 .. n + 1 |-> IF k = n + 1 THEN i ELSE st[k]]
<1>5. /\ \A k \in 1 .. n : k \in 1 .. n + 1 /\ su[k] = st[k] /\ st[k] \in S
      /\ n + 1 \in 1 .. n + 1 /\ su[n + 1] = i /\ n + 1 # 0
      /\ \A k \in 1 .. n + 1 : k \in 1 .. n \/ k = n + 1
      /\ \A k \in 1 .. n : k # 1 => k - 1 \in 1 .. n
  BY <1>2
<1>6. su \in [1 .. n + 1 -> S \cup {i}]
  BY <1>5
<1> HIDE DEF su
<1>7. \A f \in S \cup {i} : \E k \in 1 .. n + 1 : su[k] = f
  BY <1>4, <1>5
<1>8. \A j, k \in 1 .. n + 1 : su[j] = su[k] => j = k
  <2> SUFFICES ASSUME NEW j \in 1 .. n + 1, NEW k \in 1 .. n + 1, su[j] = su[k] PROVE j = k
    OBVIOUS
  <2>1. CASE j \in 1 .. n /\ k \in 1 .. n
    BY <1>4, <1>5, <2>1
  <2>2. CASE j = n + 1 \/ k = n + 1
    BY <1>5, <2>2
  <2> QED BY <1>5, <2>1, <2>2
<1>9. ASSUME NEW k \in 1 .. n
      PROVE  nt[su[k]].next = IF k = 1 THEN NONE ELSE su[k - 1]
  <2>1. su[k] = st[k] /\ st[k] \in S /\ (k # 1 => su[k - 1] = st[k - 1])
    BY <1>5
  <2>2. nt[st[k]].next = ns[st[k]].next
    BY <2>1
  <2> QED BY <1>4, <2>1, <2>2
<1>10. nt[su[n + 1]].next = IF n + 1 = 1 THEN NONE ELSE su[n]
  <2>1. n # 0 => n \in 1 .. n /\ n + 1 # 1
    OBVIOUS
  <2> QED BY <1>4, <1>5, <2>1
<1>11. \A k \in 1 .. n + 1 : nt[su[k]].next = IF k = 1 THEN NONE ELSE su[k - 1]
  BY <1>5, <1>9, <1>10
<1>12. FreeListOf(S \cup {i}, i, nt, su)
  BY <1>3, <1>5, <1>7, <1>8, <1>11 DEF FreeListOf
<1> QED BY <1>3, <1>6, <1>12 DEF IsFreeList

(* alloc_node: the first node taken off.                                   *)
LEMMA FreePop ==
    ASSUME NEW S, IsFiniteSet(S), NEW fh, NEW ns, IsFreeList(S, fh, ns),
           fh # NONE, NONE \notin S, NEW nt,
           \A f \in S \ {fh} : nt[f].next = ns[f].next
    PROVE  IsFreeList(S \ {fh}, ns[fh].next, nt)
<1>1. PICK n \in Nat : n = Cardinality(S)
  BY FS_CardinalityType
<1>2. PICK st \in [1 .. n -> S] : FreeListOf(S, fh, ns, st)
  BY <1>1 DEF IsFreeList
<1>3. Cardinality(S \ {fh}) = n - 1
  BY <1>1, FreeHead, FS_RemoveElement
<1>4. /\ \A f \in S : \E k \in 1 .. n : st[k] = f
      /\ \A j, k \in 1 .. n : st[j] = st[k] => j = k
      /\ n # 0 /\ fh = st[n]
      /\ \A k \in 1 .. n : ns[st[k]].next = IF k = 1 THEN NONE ELSE st[k - 1]
  BY <1>1, <1>2 DEF FreeListOf
<1> DEFINE su == [k \in 1 .. n - 1 |-> st[k]]
<1>5. /\ n \in 1 .. n
      /\ \A k \in 1 .. n - 1 : k \in 1 .. n /\ k # n /\ su[k] = st[k]
      /\ \A k \in 1 .. n : k = n \/ k \in 1 .. n - 1
      /\ \A k \in 1 .. n - 1 : k # 1 => k - 1 \in 1 .. n - 1
      /\ n = 1 <=> n - 1 = 0
      /\ n # 1 => n - 1 \in 1 .. n - 1
  BY <1>4
<1>6. \A k \in 1 .. n - 1 : su[k] \in S \ {fh}
  BY <1>2, <1>4, <1>5
<1>7. su \in [1 .. n - 1 -> S \ {fh}]
  BY <1>6
<1> HIDE DEF su
<1>8. ns[fh].next = IF n - 1 = 0 THEN NONE ELSE su[n - 1]
  BY <1>4, <1>5
<1>9. \A f \in S \ {fh} : \E k \in 1 .. n - 1 : su[k] = f
  BY <1>4, <1>5
<1>10. \A j, k \in 1 .. n - 1 : su[j] = su[k] => j = k
  BY <1>4, <1>5
<1>11. ASSUME NEW k \in 1 .. n - 1
       PROVE  nt[su[k]].next = IF k = 1 THEN NONE ELSE su[k - 1]
  <2>1. nt[su[k]].next = ns[su[k]].next
    BY <1>6
  <2>2. k \in 1 .. n /\ su[k] = st[k]
    BY <1>5
  <2>3. ns[st[k]].next = IF k = 1 THEN NONE ELSE st[k - 1]
    BY <1>4, <2>2
  <2>4. k # 1 => su[k - 1] = st[k - 1]
    BY <1>5
  <2> QED BY <2>1, <2>2, <2>3, <2>4
<1>12. FreeListOf(S \ {fh}, ns[fh].next, nt, su)
  BY <1>3, <1>8, <1>9, <1>10, <1>11 DEF FreeListOf
<1> QED BY <1>3, <1>7, <1>12 DEF IsFreeList

-----------------------------------------------------------------------------
(***************************************************************************)
(* The invariant.  The order of the list alone is not inductive: that      *)
(* alloc_node hands out a node that is on no list needs the free list,     *)
(* that link finds no node of equal price needs the map, and that it finds *)
(* none while a snapshot is entered needs the distinctness of its prices.  *)
(***************************************************************************)
IInv == TypeOK /\ ListInv /\ FreeListInv /\ RestInv

(* An empty book.                                                          *)
LEMMA InitIInv == FastInit => IInv
<1> SUFFICES ASSUME FastInit PROVE IInv
  OBVIOUS
<1>1. Mapped = {} /\ Linked = {} /\ Free = {}
  BY DEF FastInit, Mapped, Linked, Free
<1>2. TypeOK
  <2>1. nodes \in [0 .. 0 - 1 -> LevelNode]
    BY DEF FastInit
  <2> QED BY <2>1, FastBookSideAssumption DEF FastInit, TypeOK
<1>3. ListInv
  BY <1>1 DEF FastInit, ListInv, MapFindsPrice, NextInPriceOrder, HeadIsBest,
              PrevInvertsNext, LinkPassed, ReclaimCursor
<1>4. FreeListInv
  <2>1. Cardinality({}) = 0
    BY FS_EmptySet
  <2>2. <<>> \in [1 .. Cardinality({}) -> {}]
    BY <2>1
  <2>3. FreeListOf({}, NONE, nodes, <<>>)
    BY <2>1 DEF FreeListOf
  <2> QED BY <1>1, <2>2, <2>3 DEF FastInit, FreeListInv, IsFreeList
<1>5. RestInv
  BY DEF FastInit, RestInv, DistinctPrices
<1> QED BY <1>2, <1>3, <1>4, <1>5 DEF IInv

(* A step that leaves list, map, free list and cursors as they are, though *)
(* it may change sizes or move on to the next level.                       *)
LEMMA Frame ==
    ASSUME IInv, TypeOK', DOMAIN nodes' = DOMAIN nodes,
           \A i \in DOMAIN nodes : /\ nodes'[i].price = nodes[i].price
                                  /\ nodes'[i].next = nodes[i].next
                                  /\ nodes'[i].prev = nodes[i].prev,
           UNCHANGED <<free_head, head, tick_to_node, cur, node>>,
           \/ pc' = pc
           \/ pc = "fill" /\ pc' = "idle"
    PROVE  ListInv' /\ FreeListInv'
<1>1. Mapped' = Mapped /\ Mapped \subseteq DOMAIN nodes
  BY MapFacts DEF Mapped, IInv, ListInv
<1>2. \A i, j \in DOMAIN nodes : Before(i, j)' <=> Before(i, j)
  BY DEF Before
<1>3. cur \in DOMAIN nodes \cup {NONE}
  BY DEF IInv, TypeOK
<1>4. Linked' = Linked
  <2>1. CASE pc = "reclaim"
    <3>1. \A k \in Mapped : cur # NONE => (Before(cur, k)' <=> Before(cur, k))
      BY <1>1, <1>2, <1>3
    <3>2. Linked' = {k \in Mapped : cur # NONE /\ (k = cur \/ Before(cur, k)')}
      BY <1>1, <2>1 DEF Linked
    <3>3. Linked = {k \in Mapped : cur # NONE /\ (k = cur \/ Before(cur, k))}
      BY <2>1 DEF Linked
    <3> QED BY <3>1, <3>2, <3>3
  <2>2. CASE pc = "link"
    BY <1>1, <2>2 DEF Linked
  <2>3. CASE pc \in {"idle", "fill"}
    BY <1>1, <2>3 DEF Linked
  <2> QED BY <2>1, <2>2, <2>3 DEF IInv, TypeOK
<1>5. Linked \subseteq Mapped
  BY DEF Linked, IInv, TypeOK
<1>6. Free' = Free /\ Free \subseteq DOMAIN nodes
  BY <1>4 DEF Free
<1>7. FreeListInv'
  BY <1>6, FreeSame DEF IInv, FreeListInv
<1>8. MapFindsPrice'
  BY <1>1 DEF MapFindsPrice, IInv, ListInv, TypeOK
<1>9. NextInPriceOrder'
  BY <1>1, <1>2, <1>4, <1>5 DEF NextInPriceOrder, IInv, ListInv
<1>10. HeadIsBest' /\ PrevInvertsNext'
  BY <1>1, <1>2, <1>4, <1>5 DEF HeadIsBest, PrevInvertsNext, IInv, ListInv
<1>11. LinkPassed' /\ ReclaimCursor'
  BY <1>1, <1>2, <1>4, <1>5 DEF LinkPassed, ReclaimCursor, IInv, ListInv
<1> QED BY <1>7, <1>8, <1>9, <1>10, <1>11 DEF ListInv

-----------------------------------------------------------------------------
(* Between calls and while a snapshot is entered, the list is the map's.   *)
LEMMA AtRest ==
    ASSUME IInv, pc \in {"idle", "fill"}
    PROVE  /\ Linked = Mapped
           /\ Free = DOMAIN nodes \ Mapped
           /\ head = NONE <=> Mapped = {}
<1>1. Linked = Mapped /\ Free = DOMAIN nodes \ Mapped
  BY DEF Linked, Free
<1>2. NONE \notin Mapped
  BY PoolFacts, MapFacts DEF IInv, ListInv
<1> QED BY <1>1, <1>2 DEF IInv, ListInv, HeadIsBest

(* alloc_node takes the first free node, or extends the pool.              *)
LEMMA AllocatedFrom ==
    ASSUME TypeOK, CanAlloc, NEW S \in SUBSET DOMAIN nodes, IsFreeList(S, free_head, nodes)
    PROVE  /\ AllocIndex \in Index
           /\ AllocIndex \notin DOMAIN nodes \ S
           /\ FreeHeadAfterAlloc \in Index \cup {NONE}
           /\ \E m \in 0 .. NONE : DOMAIN nodes \cup {AllocIndex} = 0 .. m - 1
           /\ \A ns : (\A f \in S \ {AllocIndex} : ns[f].next = nodes[f].next)
                  => IsFreeList(S \ {AllocIndex}, FreeHeadAfterAlloc, ns)
<1>1. /\ IsFiniteSet(S) /\ NONE \notin S /\ DOMAIN nodes \subseteq Index
      /\ PoolLen \in 0 .. NONE /\ DOMAIN nodes = 0 .. PoolLen - 1
  BY PoolFacts, FS_Subset
<1>2. CASE free_head # NONE
  <2>1. AllocIndex = free_head /\ FreeHeadAfterAlloc = nodes[free_head].next
    BY <1>2 DEF AllocIndex, FreeHeadAfterAlloc
  <2>2. free_head \in S /\ nodes[free_head].next \in S \cup {NONE}
    BY <1>1, <1>2, FreeHead
  <2>3. DOMAIN nodes \cup {AllocIndex} = 0 .. PoolLen - 1
    BY <1>1, <2>1, <2>2
  <2>4. \A ns : (\A f \in S \ {AllocIndex} : ns[f].next = nodes[f].next)
             => IsFreeList(S \ {AllocIndex}, FreeHeadAfterAlloc, ns)
    BY <1>1, <1>2, <2>1, FreePop
  <2> QED BY <1>1, <2>1, <2>2, <2>3, <2>4
<1>3. CASE free_head = NONE
  <2>1. /\ AllocIndex = PoolLen /\ FreeHeadAfterAlloc = NONE /\ PoolLen # NONE
    BY <1>3 DEF AllocIndex, FreeHeadAfterAlloc, CanAlloc
  <2>2. S = {}
    BY <1>1, <1>3, FreeHead
  <2>3. PoolLen \in Index /\ PoolLen \notin DOMAIN nodes
    BY <1>1, <2>1, FastBookSideAssumption DEF Index
  <2>4. /\ PoolLen + 1 \in 0 .. NONE
        /\ DOMAIN nodes \cup {PoolLen} = 0 .. (PoolLen + 1) - 1
    BY <1>1, <2>1, FastBookSideAssumption
  <2>5. \A ns : IsFreeList({}, NONE, ns)
    BY <1>3, <2>2, FreeSame
  <2>6. S \ {AllocIndex} = {}
    BY <2>2
  <2> QED BY <2>1, <2>3, <2>4, <2>5, <2>6
<1> QED BY <1>2, <1>3

(* It is a node that is on no list.                                        *)
LEMMA Allocated ==
    ASSUME IInv, pc \in {"idle", "fill"}, CanAlloc
    PROVE  /\ AllocIndex \in Index
           /\ AllocIndex \notin Mapped
           /\ FreeHeadAfterAlloc \in Index \cup {NONE}
           /\ \E m \in 0 .. NONE : DOMAIN nodes \cup {AllocIndex} = 0 .. m - 1
           /\ \A ns : (\A f \in Free \ {AllocIndex} : ns[f].next = nodes[f].next)
                  => IsFreeList(Free \ {AllocIndex}, FreeHeadAfterAlloc, ns)
<1>1. TypeOK /\ Free \in SUBSET DOMAIN nodes /\ IsFreeList(Free, free_head, nodes)
  BY FreeFinite DEF IInv, FreeListInv
<1>2. Free = DOMAIN nodes \ Mapped /\ Mapped \subseteq DOMAIN nodes
  BY AtRest, MapFacts DEF IInv, ListInv
<1> QED BY <1>1, <1>2, AllocatedFrom

(* alloc_node and link up to its loop, from either caller.                 *)
LEMMA InsertKeeps ==
    ASSUME IInv, pc \in {"idle", "fill"}, NEW lvl \in Level,
           lvl.price \notin DOMAIN tick_to_node,
           Insert(lvl, pc), rest' \in Seq(Level)
    PROVE  /\ TypeOK' /\ ListInv' /\ FreeListInv'
           /\ DOMAIN tick_to_node' \subseteq DOMAIN tick_to_node \cup {lvl.price}
           /\ pc' = pc \/ (pc' = "link" /\ ret' = pc)
<1>1. CASE ~CanAlloc
  <2>1. UNCHANGED <<nodes, free_head, head, tick_to_node, pc, ret, cur, node>>
    BY <1>1 DEF Insert
  <2>2. TypeOK'
    BY <2>1 DEF IInv, TypeOK
  <2> QED BY <2>1, <2>2, Frame
<1>2. CASE CanAlloc
  <2>1. PICK i : i = AllocIndex
    OBVIOUS
  <2>2. /\ nodes' = WithNode(i, lvl)
        /\ free_head' = FreeHeadAfterAlloc
        /\ tick_to_node' = [t \in DOMAIN tick_to_node \cup {lvl.price} |->
                               IF t = lvl.price THEN i ELSE tick_to_node[t]]
        /\ IF head = NONE
           THEN head' = i /\ pc' = pc /\ UNCHANGED <<ret, cur, node>>
           ELSE cur' = head /\ node' = i /\ ret' = pc /\ pc' = "link" /\ UNCHANGED head
    BY <1>2, <2>1 DEF Insert
  <2>3. /\ i \in Index /\ i # NONE /\ i \notin Mapped /\ Mapped \subseteq DOMAIN nodes
        /\ NONE \notin DOMAIN nodes /\ DOMAIN nodes \subseteq Index
    BY <1>2, <2>1, Allocated, PoolFacts, MapFacts, FastBookSideAssumption
       DEF IInv, ListInv, Index
  <2>4. /\ nodes \in [DOMAIN nodes -> LevelNode] /\ DOMAIN nodes' = DOMAIN nodes \cup {i}
        /\ nodes'[i] = [price |-> lvl.price, size |-> lvl.size, next |-> NONE, prev |-> NONE]
        /\ \A j \in DOMAIN nodes : j # i => nodes'[j] = nodes[j]
    BY <2>2, PoolFacts DEF WithNode, IInv
  <2>5. nodes' \in [DOMAIN nodes \cup {i} -> LevelNode]
    <3>1. nodes'[i] \in LevelNode
      BY <2>4 DEF LevelNode, Level
    <3>2. nodes' = [j \in DOMAIN nodes \cup {i} |-> nodes'[j]]
      BY <2>2 DEF WithNode
    <3>3. \A j \in DOMAIN nodes \cup {i} : nodes'[j] \in LevelNode
      BY <2>4, <3>1
    <3> QED BY <3>2, <3>3
  <2>6. /\ DOMAIN tick_to_node' = DOMAIN tick_to_node \cup {lvl.price}
        /\ tick_to_node'[lvl.price] = i
        /\ \A t \in DOMAIN tick_to_node : t # lvl.price /\ tick_to_node'[t] = tick_to_node[t]
    BY <2>2
  <2>7. Mapped' = Mapped \cup {i}
    BY <2>6 DEF Mapped
  <2>8. Linked = Mapped /\ Free = DOMAIN nodes \ Mapped /\ (head = NONE <=> Mapped = {})
    BY AtRest
  <2>9. Linked' = IF head = NONE THEN {i} ELSE Mapped
    <3>1. CASE head = NONE
      BY <2>2, <2>7, <2>8, <3>1 DEF Linked
    <3>2. CASE head # NONE
      <4>1. Linked' = Mapped' \ {node'}
        BY <2>2, <3>2 DEF Linked
      <4> QED BY <2>2, <2>3, <2>7, <3>2, <4>1
    <3> QED BY <3>1, <3>2
  <2>10. Free' = Free \ {i}
    <3>1. CASE head = NONE
      <4>1. Free' = DOMAIN nodes' \ Linked'
        BY <2>2, <3>1 DEF Free
      <4> QED BY <2>4, <2>8, <2>9, <3>1, <4>1
    <3>2. CASE head # NONE
      <4>1. Free' = DOMAIN nodes' \ (Linked' \cup {i})
        BY <2>2, <3>2 DEF Free
      <4> QED BY <2>4, <2>8, <2>9, <3>2, <4>1
    <3> QED BY <3>1, <3>2
  <2>11. FreeListInv'
    <3>1. \A f \in Free \ {i} : nodes'[f].next = nodes[f].next
      BY <2>4, <2>8
    <3>2. IsFreeList(Free \ {i}, FreeHeadAfterAlloc, nodes')
      BY <1>2, <2>1, <3>1, Allocated
    <3> QED BY <2>2, <2>10, <3>2 DEF FreeListInv
  <2>12. TypeOK'
    <3>1. PICK m \in 0 .. NONE : DOMAIN nodes \cup {i} = 0 .. m - 1
      BY <1>2, <2>1, Allocated
    <3>2. \E n \in 0 .. NONE : nodes' \in [0 .. n - 1 -> LevelNode]
      BY <2>5, <3>1
    <3>3. free_head' \in Index \cup {NONE}
      BY <1>2, <2>2, Allocated
    <3>4. head \in DOMAIN nodes \cup {NONE}
      BY <2>3, <2>8 DEF IInv, ListInv, HeadIsBest
    <3>5. /\ head' \in Index \cup {NONE}
          /\ cur' \in DOMAIN nodes' \cup {NONE}
          /\ node' \in DOMAIN nodes' \cup {NONE}
          /\ pc' \in {"idle", "fill", "link"} /\ ret' \in {"idle", "fill"}
      BY <2>2, <2>3, <2>4, <3>4 DEF IInv, TypeOK
    <3>6. /\ DOMAIN tick_to_node' \subseteq Price
          /\ \A t \in DOMAIN tick_to_node' : tick_to_node'[t] \in DOMAIN nodes'
      BY <2>4, <2>6 DEF IInv, TypeOK, Level
    <3> QED BY <3>2, <3>3, <3>5, <3>6 DEF TypeOK
  <2>13. MapFindsPrice'
    BY <2>3, <2>4, <2>6 DEF MapFindsPrice, IInv, ListInv, TypeOK, Mapped
  <2>14. /\ \A j \in Mapped : nodes'[j] = nodes[j]
         /\ \A j, k \in Mapped : Before(j, k)' <=> Before(j, k)
    BY <2>3, <2>4 DEF Before
  <2>15. pc' # "reclaim"
    BY <2>2
  <2>16. CASE head = NONE
    <3>1. Linked' = {i} /\ head' = i /\ pc' # "link"
      BY <2>2, <2>9, <2>16
    <3>2. ~Before(i, i)'
      BY <2>4, <2>12, BeforeOrder, Order DEF Before, Level
    <3>3. NextInPriceOrder' /\ HeadIsBest' /\ PrevInvertsNext'
      BY <2>4, <3>1, <3>2 DEF NextInPriceOrder, HeadIsBest, PrevInvertsNext
    <3> QED BY <2>2, <2>6, <2>11, <2>12, <2>13, <2>15, <2>16, <3>1, <3>3
            DEF ListInv, LinkPassed, ReclaimCursor
  <2>17. CASE head # NONE
    <3>1. Linked' = Linked /\ Linked = Mapped /\ head' = head /\ pc' = "link"
          /\ node' = i /\ cur' = head
      BY <2>2, <2>8, <2>9, <2>17
    <3>2. NextInPriceOrder'
      BY <2>14, <3>1 DEF NextInPriceOrder, IInv, ListInv
    <3>3. HeadIsBest'
      BY <2>14, <2>15, <3>1 DEF HeadIsBest, IInv, ListInv
    <3>4. PrevInvertsNext'
      BY <2>14, <2>15, <3>1 DEF PrevInvertsNext, IInv, ListInv
    <3>5. head \in Linked /\ \A k \in Linked : ~Before(k, head)
      <4>1. head \in Linked /\ \A k \in Linked : k = head \/ Before(head, k)
        BY <2>17 DEF HeadIsBest, IInv, ListInv
      <4> QED BY <2>3, <3>1, <4>1, BeforeOrder DEF IInv
    <3>6. LinkPassed' /\ ReclaimCursor'
      BY <2>7, <2>14, <2>15, <3>1, <3>5 DEF LinkPassed, ReclaimCursor
    <3> QED BY <2>2, <2>6, <2>11, <2>12, <2>13, <2>17, <3>2, <3>3, <3>4, <3>6 DEF ListInv
  <2> QED BY <2>16, <2>17
<1> QED BY <1>1, <1>2

-----------------------------------------------------------------------------
(* apply_level.                                                            *)
LEMMA RemoveKeeps ==
    ASSUME IInv, pc = "idle", NEW p \in Price, ApplyLevelRemove(p)
    PROVE  IInv'
<1>1. PICK i : i = tick_to_node[p]
  OBVIOUS
<1>2. PICK h : h = nodes[i].prev
  OBVIOUS
<1>3. PICK j : j = nodes[i].next
  OBVIOUS
<1>4. /\ nodes' = SetNext(SetPrev(SetNext(nodes, h, j), j, h), i, free_head)
      /\ head' = IF h = NONE THEN j ELSE head
      /\ free_head' = i
      /\ tick_to_node' = [t \in DOMAIN tick_to_node \ {nodes[i].price} |-> tick_to_node[t]]
      /\ UNCHANGED <<pc, ret, cur, node, rest>>
  BY <1>1, <1>2, <1>3 DEF ApplyLevelRemove, locals
<1>5. /\ nodes \in [DOMAIN nodes -> LevelNode] /\ NONE \notin DOMAIN nodes
      /\ DOMAIN nodes \subseteq Index /\ Mapped \subseteq DOMAIN nodes
      /\ Linked = Mapped /\ Free = DOMAIN nodes \ Mapped
      /\ free_head \in Index \cup {NONE}
  BY PoolFacts, MapFacts, AtRest DEF IInv, ListInv, TypeOK
<1>6. i \in Mapped /\ nodes[i].price = p /\ p \in DOMAIN tick_to_node
  BY <1>1 DEF ApplyLevelRemove, Mapped, IInv, ListInv, MapFindsPrice
<1>7. /\ h \in Mapped \cup {NONE} /\ j \in Mapped \cup {NONE}
      /\ h = NONE <=> i = head
      /\ h # NONE => nodes[h].next = i
      /\ j = NONE => \A k \in Mapped : ~Before(i, k)
      /\ j # NONE => /\ Before(i, j)
                     /\ \A k \in Mapped : Before(i, k) => k = j \/ Before(j, k)
  BY <1>2, <1>3, <1>5, <1>6
     DEF IInv, ListInv, NextInPriceOrder, PrevInvertsNext, HeadIsBest
<1>8. /\ nodes' \in [DOMAIN nodes -> LevelNode]
      /\ \A k \in DOMAIN nodes :
           /\ nodes'[k].price = nodes[k].price
           /\ nodes'[k].prev = IF k = j THEN h ELSE nodes[k].prev
           /\ nodes'[k].next = IF k = i THEN free_head ELSE IF k = h THEN j ELSE nodes[k].next
  <2>1. h \in Index \cup {NONE} /\ j \in Index \cup {NONE} /\ i \in DOMAIN nodes
    BY <1>5, <1>6, <1>7
  <2>2. Unlinked(nodes, Unlink(nodes, i, h, j, free_head), DOMAIN nodes, i, h, j, free_head)
    BY <1>5, <2>1, UnlinkFacts
  <2>3. nodes' = Unlink(nodes, i, h, j, free_head)
    BY <1>4 DEF Unlink
  <2> QED BY <2>2, <2>3 DEF Unlinked
<1>9. DOMAIN nodes' = DOMAIN nodes
  BY <1>8
<1>10. Mapped' = Mapped \ {i} /\ DOMAIN tick_to_node' = DOMAIN tick_to_node \ {p}
  <2>1. \A t \in DOMAIN tick_to_node : tick_to_node[t] = i => t = p
    BY <1>6 DEF IInv, ListInv, MapFindsPrice
  <2> QED BY <1>1, <1>4, <1>6, <2>1 DEF Mapped
<1>11. Linked' = Mapped \ {i}
  BY <1>4, <1>10 DEF Linked
<1>12. Free' = Free \cup {i} /\ i \notin Free
  BY <1>4, <1>5, <1>6, <1>9, <1>11 DEF Free
<1>13. FreeListInv'
  <2>1. \A f \in Free : nodes'[f].next = nodes[f].next
    BY <1>5, <1>6, <1>7, <1>8
  <2>2. nodes'[i].next = free_head
    BY <1>5, <1>6, <1>8
  <2>3. IsFreeList(Free \cup {i}, i, nodes')
    BY <1>12, <2>1, <2>2, FreeFinite, FreePush DEF IInv, FreeListInv
  <2> QED BY <1>4, <1>12, <2>3 DEF FreeListInv
<1>14. TypeOK'
  <2>1. \E n \in 0 .. NONE : nodes' \in [0 .. n - 1 -> LevelNode]
    BY <1>5, <1>8, PoolFacts DEF IInv
  <2> QED BY <1>4, <1>5, <1>6, <1>7, <1>9, <1>10, <2>1 DEF IInv, TypeOK
<1>15. MapFindsPrice'
  BY <1>4, <1>5, <1>8, <1>10 DEF MapFindsPrice, IInv, ListInv, TypeOK
<1>16. \A k, l \in DOMAIN nodes : Before(k, l)' <=> Before(k, l)
  BY <1>8 DEF Before
<1>17. /\ \A k, l \in Mapped : k # l => Before(k, l) \/ Before(l, k)
       /\ \A k, l, m \in Mapped : /\ ~Before(k, k)
                                  /\ Before(k, l) => ~Before(l, k)
                                  /\ Before(k, l) /\ Before(l, m) => Before(k, m)
  BY <1>5, MapFacts, BeforeOrder DEF IInv, ListInv
<1>18. NextInPriceOrder'
  <2> SUFFICES ASSUME NEW k \in Mapped, k # i
               PROVE  LET n == nodes'[k].next
                      IN  \/ n = NONE /\ \A l \in Mapped \ {i} : ~Before(k, l)
                          \/ /\ n \in Mapped \ {i} /\ Before(k, n)
                             /\ \A l \in Mapped \ {i} : Before(k, l) => l = n \/ Before(n, l)
    BY <1>5, <1>11, <1>16 DEF NextInPriceOrder
  <2>1. LET n == nodes[k].next
        IN  \/ n = NONE /\ \A l \in Mapped : ~Before(k, l)
            \/ /\ n \in Mapped /\ Before(k, n)
               /\ \A l \in Mapped : Before(k, l) => l = n \/ Before(n, l)
    BY <1>5 DEF IInv, ListInv, NextInPriceOrder
  <2>2. CASE k = h
    <3>1. nodes'[k].next = j /\ nodes[k].next = i
      BY <1>5, <1>7, <1>8, <2>2
    <3>2. Before(k, i) /\ \A l \in Mapped : Before(k, l) => l = i \/ Before(i, l)
      BY <1>5, <1>6, <2>1, <3>1
    <3>3. CASE j = NONE
      <4>1. \A l \in Mapped \ {i} : ~Before(k, l)
        BY <1>7, <3>2, <3>3
      <4> QED BY <3>1, <3>3, <4>1
    <3>4. CASE j # NONE
      <4>1. j \in Mapped /\ Before(i, j)
        BY <1>7, <3>4
      <4>2. j # i /\ Before(k, j)
        BY <1>6, <1>17, <3>2, <4>1
      <4>3. \A l \in Mapped \ {i} : Before(k, l) => l = j \/ Before(j, l)
        BY <1>7, <3>2, <3>4
      <4> QED BY <3>1, <4>1, <4>2, <4>3
    <3> QED BY <3>3, <3>4
  <2>3. CASE k # h
    <3>1. nodes'[k].next = nodes[k].next
      BY <1>5, <1>8, <2>3
    <3>2. nodes[k].next # i
      <4>1. ASSUME nodes[k].next = i PROVE FALSE
        <5>1. Before(k, i)
          BY <1>5, <1>6, <2>1, <4>1
        <5>2. i # head
          BY <1>5, <1>6, <1>17, <5>1 DEF IInv, ListInv, HeadIsBest
        <5>3. h \in Mapped /\ nodes[h].next = i
          BY <1>7, <5>2
        <5>4. /\ Before(h, i)
              /\ \A l \in Mapped : Before(h, l) => l = i \/ Before(i, l)
          BY <1>5, <1>6, <5>3 DEF IInv, ListInv, NextInPriceOrder
        <5>5. Before(h, k) \/ Before(k, h)
          BY <1>17, <2>3, <5>3
        <5>6. \A l \in Mapped : Before(k, l) => l = i \/ Before(i, l)
          BY <1>5, <1>6, <2>1, <4>1
        <5> QED BY <1>6, <1>17, <5>1, <5>3, <5>4, <5>5, <5>6
      <4> QED BY <4>1
    <3> QED BY <2>1, <3>1, <3>2
  <2> QED BY <2>2, <2>3
<1>19. HeadIsBest'
  <2>1. head \in Mapped /\ \A k \in Mapped : k = head \/ Before(head, k)
    BY <1>4, <1>5, <1>6 DEF IInv, ListInv, HeadIsBest
  <2>2. CASE h = NONE
    <3>1. i = head /\ head' = j
      BY <1>4, <1>7, <2>2
    <3>2. CASE j = NONE
      BY <1>4, <1>7, <1>11, <2>1, <3>1, <3>2 DEF HeadIsBest
    <3>3. CASE j # NONE
      <4>1. j \in Mapped \ {i}
        BY <1>6, <1>7, <1>17, <3>3
      <4>2. \A k \in Mapped \ {i} : k = j \/ Before(j, k)
        BY <1>6, <1>7, <2>1, <3>1, <3>3
      <4>3. \A k \in Mapped \ {i} : k = j \/ Before(j, k)'
        BY <1>5, <1>16, <4>1, <4>2
      <4> QED BY <1>11, <3>1, <4>1, <4>3 DEF HeadIsBest
    <3> QED BY <3>2, <3>3
  <2>3. CASE h # NONE
    <3>1. head' = head /\ head # i
      BY <1>4, <1>7, <2>3
    <3>2. \A k \in Mapped \ {i} : k = head \/ Before(head, k)'
      BY <1>5, <1>16, <2>1, <3>1
    <3> QED BY <1>11, <2>1, <3>1, <3>2 DEF HeadIsBest
  <2> QED BY <2>2, <2>3
<1>20. PrevInvertsNext'
  <2> SUFFICES ASSUME NEW k \in Mapped, k # i
               PROVE  LET g == nodes'[k].prev
                      IN  IF k = head' THEN g = NONE
                          ELSE g \in Mapped \ {i} /\ nodes'[g].next = k
    BY <1>11 DEF PrevInvertsNext
  <2>1. IF k = head THEN nodes[k].prev = NONE
        ELSE nodes[k].prev \in Mapped /\ nodes[nodes[k].prev].next = k
    BY <1>4, <1>5 DEF IInv, ListInv, PrevInvertsNext
  <2>2. head \in Mapped /\ \A l \in Mapped : l = head \/ Before(head, l)
    BY <1>4, <1>5, <1>6 DEF IInv, ListInv, HeadIsBest
  <2>3. CASE k = j
    <3>1. nodes'[k].prev = h /\ k # head
      BY <1>5, <1>6, <1>7, <1>8, <1>17, <2>2, <2>3
    <3>2. CASE h = NONE
      BY <1>4, <2>3, <3>1, <3>2
    <3>3. CASE h # NONE
      <4>1. h \in Mapped /\ h # i /\ nodes'[h].next = j /\ head' = head
        <5>1. h \in Mapped /\ nodes[h].next = i /\ head' = head
          BY <1>4, <1>7, <3>3
        <5>2. h # i
          BY <1>5, <1>6, <1>17, <5>1 DEF IInv, ListInv, NextInPriceOrder
        <5> QED BY <1>5, <1>8, <5>1, <5>2
      <4> QED BY <2>3, <3>1, <4>1
    <3> QED BY <3>2, <3>3
  <2>4. CASE k # j
    <3>1. nodes'[k].prev = nodes[k].prev
      BY <1>5, <1>8, <2>4
    <3>2. k = head' <=> k = head
      <4>1. CASE h = NONE
        BY <1>4, <1>7, <2>4, <4>1
      <4>2. CASE h # NONE
        BY <1>4, <4>2
      <4> QED BY <4>1, <4>2
    <3>3. CASE k = head
      BY <2>1, <3>1, <3>2, <3>3
    <3>4. CASE k # head
      <4>1. PICK g \in Mapped : g = nodes[k].prev /\ nodes[g].next = k
        BY <2>1, <3>4
      <4>2. g # i /\ g # h
        BY <1>3, <1>5, <1>7, <2>4, <4>1
      <4>3. nodes'[g].next = k
        BY <1>5, <1>8, <4>1, <4>2
      <4> QED BY <3>1, <3>2, <3>4, <4>1, <4>2, <4>3
    <3> QED BY <3>3, <3>4
  <2> QED BY <2>3, <2>4
<1>21. LinkPassed' /\ ReclaimCursor' /\ RestInv'
  BY <1>4, <1>10 DEF LinkPassed, ReclaimCursor, RestInv, IInv, DistinctPrices
<1> QED BY <1>13, <1>14, <1>15, <1>18, <1>19, <1>20, <1>21 DEF IInv, ListInv

(* Size zero for a price that has no level, and steps that change nothing. *)
LEMMA StutterKeeps == ASSUME IInv, UNCHANGED vars PROVE IInv'
<1>1. UNCHANGED <<nodes, free_head, head, tick_to_node, pc, ret, cur, node, rest>>
  BY DEF vars
<1>2. TypeOK'
  BY <1>1 DEF IInv, TypeOK
<1>3. ListInv' /\ FreeListInv'
  BY <1>1, <1>2, Frame
<1>4. RestInv'
  BY <1>1 DEF IInv, RestInv, DistinctPrices
<1> QED BY <1>2, <1>3, <1>4 DEF IInv

(* A new size for a quoted level.                                          *)
LEMMA UpdateKeeps ==
    ASSUME IInv, pc = "idle", NEW p \in Price, NEW s \in Size, ApplyLevelUpdate(p, s)
    PROVE  IInv'
<1>1. PICK i : i = tick_to_node[p]
  OBVIOUS
<1>2. /\ nodes' = [nodes EXCEPT ![i].size = s]
      /\ UNCHANGED <<free_head, head, tick_to_node, pc, ret, cur, node, rest>>
  BY <1>1 DEF ApplyLevelUpdate, locals
<1>3. nodes \in [DOMAIN nodes -> LevelNode]
  BY PoolFacts DEF IInv
<1>4. /\ nodes' \in [DOMAIN nodes -> LevelNode]
      /\ \A k \in DOMAIN nodes : /\ nodes'[k].price = nodes[k].price
                                 /\ nodes'[k].next = nodes[k].next
                                 /\ nodes'[k].prev = nodes[k].prev
  BY <1>2, <1>3 DEF LevelNode
<1>5. DOMAIN nodes' = DOMAIN nodes
  BY <1>4
<1>6. TypeOK'
  <2>1. \E n \in 0 .. NONE : nodes' \in [0 .. n - 1 -> LevelNode]
    BY <1>4, PoolFacts DEF IInv
  <2> QED BY <1>2, <1>5, <2>1 DEF IInv, TypeOK
<1>7. ListInv' /\ FreeListInv'
  BY <1>2, <1>4, <1>5, <1>6, Frame
<1>8. RestInv'
  BY <1>2 DEF IInv, RestInv, DistinctPrices
<1> QED BY <1>6, <1>7, <1>8 DEF IInv

(* A price change that enters a level.                                     *)
LEMMA ApplyLevelInsertKeeps ==
    ASSUME IInv, pc = "idle", NEW p \in Price, NEW s \in Size, ApplyLevelInsert(p, s)
    PROVE  IInv'
<1> DEFINE lvl == [price |-> p, size |-> s]
<1>1. lvl \in Level /\ lvl.price = p
  BY DEF Level
<1>2. rest = <<>> /\ rest' = <<>>
  BY DEF ApplyLevelInsert, IInv, RestInv
<1>3. Insert(lvl, pc) /\ p \notin DOMAIN tick_to_node
  BY DEF ApplyLevelInsert
<1>4. rest' \in Seq(Level)
  BY <1>2
<1>5. /\ TypeOK' /\ ListInv' /\ FreeListInv'
      /\ pc' = pc \/ (pc' = "link" /\ ret' = pc)
  BY <1>1, <1>3, <1>4, InsertKeeps
<1>6. RestInv'
  BY <1>2 DEF RestInv, DistinctPrices
<1> QED BY <1>5, <1>6 DEF IInv

-----------------------------------------------------------------------------
(* apply_levels.                                                           *)
LEMMA ApplyLevelsKeeps ==
    ASSUME IInv, DistinctSnapshots, ApplyLevels
    PROVE  IInv'
<1>1. /\ pc = "idle" /\ pc' = "reclaim" /\ cur' = head
      /\ UNCHANGED <<nodes, free_head, head, tick_to_node, ret, node>>
      /\ rest' \in Snapshots
  BY DEF ApplyLevels, struct
<1>2. /\ Linked = Mapped /\ Free = DOMAIN nodes \ Mapped /\ Mapped' = Mapped
      /\ Mapped \subseteq DOMAIN nodes /\ NONE \notin DOMAIN nodes
  BY <1>1, AtRest, MapFacts, PoolFacts DEF IInv, ListInv, Mapped
<1>3. \/ head = NONE /\ Mapped = {}
      \/ head \in Mapped /\ \A k \in Mapped : k = head \/ Before(head, k)
  BY <1>1, <1>2 DEF IInv, ListInv, HeadIsBest
<1>4. \A k, l \in Mapped : Before(k, l)' <=> Before(k, l)
  BY <1>1 DEF Before
<1>5. Linked' = Mapped
  <2>1. Linked' = {k \in Mapped : cur' # NONE /\ (k = cur' \/ Before(cur, k)')}
    BY <1>1, <1>2 DEF Linked
  <2>2. \A k \in Mapped : Before(cur, k)' <=> Before(head, k)
    BY <1>1 DEF Before
  <2> QED BY <1>1, <1>2, <1>3, <2>1, <2>2
<1>6. Free' = Free
  BY <1>1, <1>2, <1>5 DEF Free
<1>7. FreeListInv'
  BY <1>1, <1>6 DEF IInv, FreeListInv
<1>8. TypeOK'
  <2>1. rest' \in Seq(Level)
    BY <1>1, BookLevelsAssumption
  <2> QED BY <1>1, <1>2, <1>3, <2>1 DEF IInv, TypeOK
<1>9. MapFindsPrice' /\ NextInPriceOrder'
  BY <1>1, <1>2, <1>4, <1>5 DEF IInv, ListInv, MapFindsPrice, NextInPriceOrder
<1>10. HeadIsBest' /\ PrevInvertsNext' /\ LinkPassed' /\ ReclaimCursor'
  BY <1>1, <1>2, <1>3 DEF HeadIsBest, PrevInvertsNext, LinkPassed, ReclaimCursor
<1>11. RestInv'
  BY <1>1 DEF RestInv, DistinctSnapshots, DistinctPrices
<1> QED BY <1>7, <1>8, <1>9, <1>10, <1>11 DEF IInv, ListInv

(* The order of the nodes on the map, and so of those on the list.         *)
LEMMA MappedOrder ==
    ASSUME IInv
    PROVE  /\ Linked \subseteq Mapped /\ Mapped \subseteq DOMAIN nodes
           /\ NONE \notin DOMAIN nodes /\ DOMAIN nodes \subseteq Index
           /\ nodes \in [DOMAIN nodes -> LevelNode]
           /\ \A k, l \in Mapped : k # l => Before(k, l) \/ Before(l, k)
           /\ \A k, l \in Mapped : Before(k, l) => k # l /\ ~Before(l, k)
           /\ \A k, l, m \in Mapped : Before(k, l) /\ Before(l, m) => Before(k, m)
<1>1. Linked \subseteq Mapped
  BY DEF Linked, IInv, TypeOK
<1> QED BY <1>1, PoolFacts, MapFacts, BeforeOrder DEF IInv, ListInv

(* One node taken off the old list, from its head on.                      *)
LEMMA ReclaimKeeps ==
    ASSUME IInv, Reclaim
    PROVE  IInv'
<1>1. PICK c : c = cur
  OBVIOUS
<1>2. PICK n : n = nodes[c].next
  OBVIOUS
<1>3. /\ pc = "reclaim" /\ c # NONE /\ nodes' = SetNext(nodes, c, free_head)
      /\ free_head' = c /\ cur' = n
      /\ UNCHANGED <<head, tick_to_node, pc, ret, node, rest>>
  BY <1>1, <1>2 DEF Reclaim
<1>4. /\ c \in Mapped /\ free_head \in Index \cup {NONE}
      /\ Linked = {k \in Mapped : k = c \/ Before(c, k)}
      /\ Free = DOMAIN nodes \ Linked
  BY <1>1, <1>3 DEF IInv, ListInv, TypeOK, ReclaimCursor, Linked, Free
<1>5. /\ nodes' \in [DOMAIN nodes -> LevelNode]
      /\ \A k \in DOMAIN nodes :
           /\ nodes'[k].price = nodes[k].price
           /\ nodes'[k].prev = nodes[k].prev
           /\ nodes'[k].next = IF k = c THEN free_head ELSE nodes[k].next
  BY <1>3, <1>4, MappedOrder, SetNextFacts
<1>6. DOMAIN nodes' = DOMAIN nodes /\ Mapped' = Mapped
  BY <1>3, <1>5 DEF Mapped
<1>7. \A k, l \in DOMAIN nodes : Before(k, l)' <=> Before(k, l)
  BY <1>5 DEF Before
<1>8. \/ n = NONE /\ \A k \in Linked : ~Before(c, k)
      \/ /\ n \in Linked /\ Before(c, n)
         /\ \A k \in Linked : Before(c, k) => k = n \/ Before(n, k)
  BY <1>2, <1>4 DEF IInv, ListInv, NextInPriceOrder
<1>9. Linked' = Linked \ {c}
  <2>1. Linked' = {k \in Mapped : n # NONE /\ (k = n \/ Before(cur, k)')}
    BY <1>3, <1>6 DEF Linked
  <2>2. CASE n = NONE
    BY <1>4, <1>8, <2>1, <2>2, MappedOrder
  <2>3. CASE n # NONE
    <3>1. n \in Linked /\ n \in DOMAIN nodes /\ n \in Mapped
      BY <1>8, <2>3, MappedOrder
    <3>2. \A k \in Mapped : Before(cur, k)' <=> Before(n, k)
      BY <1>3, <1>5, <3>1, MappedOrder DEF Before
    <3>3. \A k \in Mapped : k = n \/ Before(n, k) => k \in Linked /\ k # c
      BY <1>4, <1>8, <2>3, <3>1, MappedOrder
    <3>4. \A k \in Linked : k # c => k = n \/ Before(n, k)
      BY <1>4, <1>8, <2>3
    <3> QED BY <2>1, <2>3, <3>2, <3>3, <3>4, MappedOrder
  <2> QED BY <2>2, <2>3
<1>10. Free' = Free \cup {c} /\ c \notin Free
  BY <1>3, <1>4, <1>6, <1>9, MappedOrder DEF Free
<1>11. FreeListInv'
  <2>1. /\ nodes'[c].next = free_head
        /\ \A f \in Free : nodes'[f].next = nodes[f].next
    BY <1>4, <1>5, <1>10, MappedOrder
  <2>2. IsFreeList(Free \cup {c}, c, nodes')
    BY <1>10, <2>1, FreeFinite, FreePush DEF IInv, FreeListInv
  <2> QED BY <1>3, <1>10, <2>2 DEF FreeListInv
<1>12. TypeOK'
  <2>1. \E m \in 0 .. NONE : nodes' \in [0 .. m - 1 -> LevelNode]
    BY <1>5, PoolFacts DEF IInv
  <2>2. cur' \in DOMAIN nodes' \cup {NONE} /\ free_head' \in Index \cup {NONE}
    BY <1>3, <1>4, <1>6, <1>8, MappedOrder
  <2> QED BY <1>3, <1>6, <2>1, <2>2 DEF IInv, TypeOK
<1>13. MapFindsPrice'
  BY <1>3, <1>5 DEF MapFindsPrice, IInv, ListInv, TypeOK
<1>14. NextInPriceOrder'
  <2> SUFFICES ASSUME NEW k \in Linked, k # c
               PROVE  LET m == nodes'[k].next
                      IN  \/ m = NONE /\ \A l \in Linked \ {c} : ~Before(k, l)
                          \/ /\ m \in Linked \ {c} /\ Before(k, m)
                             /\ \A l \in Linked \ {c} : Before(k, l) => l = m \/ Before(m, l)
    BY <1>7, <1>9, MappedOrder DEF NextInPriceOrder
  <2>1. nodes'[k].next = nodes[k].next /\ Before(c, k)
    BY <1>4, <1>5, MappedOrder
  <2>2. ~Before(k, c)
    BY <1>4, <2>1, MappedOrder
  <2> QED BY <2>1, <2>2 DEF IInv, ListInv, NextInPriceOrder
<1>15. ReclaimCursor'
  BY <1>3, <1>6, <1>8, MappedOrder DEF ReclaimCursor
<1>16. HeadIsBest' /\ PrevInvertsNext' /\ LinkPassed' /\ RestInv'
  BY <1>3 DEF HeadIsBest, PrevInvertsNext, LinkPassed, IInv, RestInv, DistinctPrices
<1> QED BY <1>11, <1>12, <1>13, <1>14, <1>15, <1>16 DEF IInv, ListInv

(* The old list is gone: head and map are emptied.                         *)
LEMMA ReclaimDoneKeeps ==
    ASSUME IInv, ReclaimDone
    PROVE  IInv'
<1>1. /\ pc = "reclaim" /\ cur = NONE /\ head' = NONE /\ tick_to_node' = <<>>
      /\ pc' = "fill" /\ UNCHANGED <<nodes, free_head, ret, cur, node, rest>>
  BY DEF ReclaimDone
<1>2. Linked = {} /\ Mapped' = {} /\ Linked' = {}
  BY <1>1 DEF Linked, Mapped
<1>3. Free' = Free
  BY <1>1, <1>2 DEF Free
<1>4. FreeListInv'
  BY <1>1, <1>3 DEF IInv, FreeListInv
<1>5. TypeOK'
  BY <1>1 DEF IInv, TypeOK
<1>6. ListInv'
  BY <1>1, <1>2 DEF ListInv, MapFindsPrice, NextInPriceOrder, HeadIsBest, PrevInvertsNext,
     LinkPassed, ReclaimCursor
<1>7. RestInv'
  BY <1>1 DEF IInv, RestInv, DistinctPrices
<1> QED BY <1>4, <1>5, <1>6, <1>7 DEF IInv

(* The rest of a snapshot after one of its levels.                         *)
LEMMA RestTail ==
    ASSUME NEW r \in Seq(Level), r # <<>>, DistinctPrices(r)
    PROVE  /\ Head(r) \in Level /\ Tail(r) \in Seq(Level)
           /\ DistinctPrices(Tail(r))
           /\ 1 \in DOMAIN r /\ Head(r) = r[1]
           /\ \A k \in DOMAIN Tail(r) : /\ k + 1 \in DOMAIN r
                                        /\ Tail(r)[k] = r[k + 1]
                                        /\ Tail(r)[k].price # Head(r).price
<1>1. /\ Head(r) \in Level /\ Tail(r) \in Seq(Level) /\ Len(r) \in Nat /\ Len(r) # 0
      /\ Len(Tail(r)) = Len(r) - 1 /\ Head(r) = r[1]
      /\ \A k \in 1 .. Len(r) - 1 : Tail(r)[k] = r[k + 1]
  OBVIOUS
<1>2. /\ DOMAIN r = 1 .. Len(r) /\ 1 \in 1 .. Len(r)
      /\ DOMAIN Tail(r) = 1 .. Len(r) - 1
      /\ \A k \in 1 .. Len(r) - 1 : k + 1 \in 1 .. Len(r) /\ k + 1 # 1
  BY <1>1
<1>3. \A j, k \in 1 .. Len(r) - 1 : j + 1 = k + 1 => j = k
  BY <1>1
<1>4. DistinctPrices(Tail(r))
  BY <1>1, <1>2, <1>3 DEF DistinctPrices
<1> QED BY <1>1, <1>2, <1>4 DEF DistinctPrices

(* A snapshot's level of size zero is passed over.                         *)
LEMMA FillSkipKeeps ==
    ASSUME IInv, FillSkip
    PROVE  IInv'
<1>1. /\ pc = "fill" /\ rest # <<>> /\ rest' = Tail(rest)
      /\ UNCHANGED <<nodes, free_head, head, tick_to_node, pc, ret, cur, node>>
  BY DEF FillSkip, struct
<1>2. rest \in Seq(Level) /\ DistinctPrices(rest)
  BY DEF IInv, TypeOK, RestInv
<1>3. TypeOK'
  BY <1>1, <1>2, RestTail DEF IInv, TypeOK
<1>4. ListInv' /\ FreeListInv'
  BY <1>1, <1>3, Frame
<1>5. RestInv'
  <2>1. DistinctPrices(rest')
    BY <1>1, <1>2, RestTail
  <2>2. DistinctPrices(rest)'
    BY <2>1 DEF DistinctPrices
  <2>3. \A k \in DOMAIN rest' : rest'[k].price \notin DOMAIN tick_to_node
    BY <1>1, <1>2, RestTail DEF IInv, RestInv
  <2> QED BY <1>1, <2>2, <2>3 DEF RestInv
<1> QED BY <1>3, <1>4, <1>5 DEF IInv

(* A snapshot's level is entered.                                          *)
LEMMA FillInsertKeeps ==
    ASSUME IInv, FillInsert
    PROVE  IInv'
<1>1. /\ pc = "fill" /\ rest # <<>> /\ rest' = Tail(rest) /\ Insert(Head(rest), pc)
  BY DEF FillInsert
<1>2. rest \in Seq(Level) /\ DistinctPrices(rest)
  BY DEF IInv, TypeOK, RestInv
<1>3. \A k \in DOMAIN rest : rest[k].price \notin DOMAIN tick_to_node
  BY <1>1 DEF IInv, RestInv
<1>4. /\ Head(rest) \in Level /\ rest' \in Seq(Level)
      /\ Head(rest).price \notin DOMAIN tick_to_node
  BY <1>1, <1>2, <1>3, RestTail
<1>5. /\ TypeOK' /\ ListInv' /\ FreeListInv'
      /\ DOMAIN tick_to_node' \subseteq DOMAIN tick_to_node \cup {Head(rest).price}
      /\ pc' = pc \/ (pc' = "link" /\ ret' = pc)
  BY <1>1, <1>4, InsertKeeps
<1>6. RestInv'
  <2>1. DistinctPrices(rest')
    BY <1>1, <1>2, RestTail
  <2>2. DistinctPrices(rest)'
    BY <2>1 DEF DistinctPrices
  <2>3. \A k \in DOMAIN rest' : rest'[k].price \notin DOMAIN tick_to_node'
    BY <1>1, <1>2, <1>3, <1>5, RestTail
  <2> QED BY <1>1, <1>5, <2>2, <2>3 DEF RestInv
<1> QED BY <1>5, <1>6 DEF IInv

(* The snapshot is in.                                                     *)
LEMMA FillDoneKeeps ==
    ASSUME IInv, FillDone
    PROVE  IInv'
<1>1. /\ pc = "fill" /\ rest = <<>> /\ pc' = "idle"
      /\ UNCHANGED <<nodes, free_head, head, tick_to_node, ret, cur, node, rest>>
  BY DEF FillDone, struct
<1>2. TypeOK'
  BY <1>1 DEF IInv, TypeOK
<1>3. ListInv' /\ FreeListInv'
  BY <1>1, <1>2, Frame
<1>4. RestInv'
  BY <1>1 DEF RestInv, DistinctPrices
<1> QED BY <1>2, <1>3, <1>4 DEF IInv

-----------------------------------------------------------------------------
(* link.  No two nodes have the same successor.                            *)
LEMMA NextInjective ==
    ASSUME IInv, NEW k \in Linked, NEW l \in Linked,
           nodes[k].next = nodes[l].next, nodes[k].next # NONE
    PROVE  k = l
<1>1. PICK m : m = nodes[k].next /\ m = nodes[l].next
  OBVIOUS
<1>2. /\ m \in Linked /\ Before(k, m) /\ Before(l, m)
      /\ Before(k, l) => l = m \/ Before(m, l)
      /\ Before(l, k) => k = m \/ Before(m, k)
  BY <1>1 DEF IInv, ListInv, NextInPriceOrder
<1> QED BY <1>2, MappedOrder

(* Where link stands: the new node, the cursor and what is between.        *)
LEMMA LinkFacts ==
    ASSUME IInv, pc = "link"
    PROVE  /\ node \in Mapped /\ cur \in Linked /\ Linked = Mapped \ {node}
           /\ Free = DOMAIN nodes \ Mapped
           /\ \A k \in Linked : Before(k, cur) => Before(k, node)
           /\ ~Before(node, cur) => Before(cur, node)
<1>1. /\ node \in Mapped /\ cur \in Linked /\ Linked = Mapped \ {node}
      /\ \A k \in Linked : Before(k, cur) => Before(k, node)
  BY DEF IInv, ListInv, LinkPassed, Linked
<1>2. Free = DOMAIN nodes \ Mapped
  BY <1>1 DEF Free
<1> QED BY <1>1, <1>2, MappedOrder

(* A splice and a return from link: all but the order of the list.         *)
LEMMA SpliceKeeps ==
    ASSUME IInv, pc = "link", NEW h \in Linked \cup {NONE}, NEW j \in Linked \cup {NONE},
           nodes' = Splice(nodes, node, h, j), LinkReturn,
           UNCHANGED <<free_head, tick_to_node, rest>>, head' \in Mapped
    PROVE  /\ TypeOK' /\ MapFindsPrice' /\ FreeListInv' /\ RestInv'
           /\ LinkPassed' /\ ReclaimCursor'
           /\ Linked' = Mapped /\ pc' # "reclaim"
           /\ \A k, l \in Mapped : Before(k, l)' <=> Before(k, l)
           /\ \A k \in Mapped :
                /\ nodes'[k].next = IF k = h THEN node ELSE IF k = node THEN j ELSE nodes[k].next
                /\ nodes'[k].prev = IF k = j THEN node ELSE IF k = node THEN h ELSE nodes[k].prev
<1>1. PICK i : i = node
  OBVIOUS
<1>2. /\ i \in Mapped /\ Linked = Mapped \ {i} /\ Mapped \subseteq DOMAIN nodes
      /\ NONE \notin DOMAIN nodes /\ Free = DOMAIN nodes \ Mapped
      /\ DOMAIN nodes \subseteq Index /\ nodes \in [DOMAIN nodes -> LevelNode]
      /\ h # i /\ j # i
  BY <1>1, LinkFacts, MappedOrder
<1>3. /\ nodes' \in [DOMAIN nodes -> LevelNode]
      /\ \A k \in DOMAIN nodes :
           /\ nodes'[k].price = nodes[k].price
           /\ nodes'[k].next = IF k = h THEN i ELSE IF k = i THEN j ELSE nodes[k].next
           /\ nodes'[k].prev = IF k = j THEN i ELSE IF k = i THEN h ELSE nodes[k].prev
  <2>1. h \in Index \cup {NONE} /\ j \in Index \cup {NONE} /\ i \in DOMAIN nodes
    BY <1>2
  <2>2. nodes' = Splice(nodes, i, h, j)
    BY <1>1
  <2>3. Spliced(nodes, Splice(nodes, i, h, j), DOMAIN nodes, i, h, j)
    BY <1>2, <2>1, SpliceFacts
  <2> QED BY <2>2, <2>3 DEF Spliced
<1>4. /\ DOMAIN nodes' = DOMAIN nodes /\ Mapped' = Mapped
      /\ pc' = ret /\ ret' = "idle" /\ cur' = NONE /\ node' = NONE
      /\ pc' \in {"idle", "fill"}
  BY <1>3 DEF Mapped, LinkReturn, IInv, TypeOK
<1>5. Linked' = Mapped
  BY <1>4 DEF Linked
<1>6. Free' = Free
  BY <1>2, <1>4, <1>5 DEF Free
<1>7. FreeListInv'
  <2>1. \A f \in Free : nodes'[f].next = nodes[f].next
    BY <1>2, <1>3
  <2> QED BY <1>6, <2>1, FreeSame DEF IInv, FreeListInv
<1>8. TypeOK'
  <2>1. \E m \in 0 .. NONE : nodes' \in [0 .. m - 1 -> LevelNode]
    BY <1>3, PoolFacts DEF IInv
  <2> QED BY <1>2, <1>4, <2>1 DEF IInv, TypeOK
<1>9. MapFindsPrice'
  BY <1>3 DEF MapFindsPrice, IInv, ListInv, TypeOK
<1>10. RestInv'
  BY <1>4 DEF IInv, RestInv, DistinctPrices
<1>11. LinkPassed' /\ ReclaimCursor'
  BY <1>4 DEF LinkPassed, ReclaimCursor
<1>12. \A k, l \in Mapped : Before(k, l)' <=> Before(k, l)
  BY <1>2, <1>3 DEF Before
<1> QED BY <1>1, <1>2, <1>3, <1>4, <1>5, <1>7, <1>8, <1>9, <1>10, <1>11, <1>12

(* link places its node before another one.                                *)
LEMMA LinkBeforeKeeps ==
    ASSUME IInv, LinkBefore
    PROVE  IInv'
<1>1. PICK i : i = node
  OBVIOUS
<1>2. PICK c : c = cur
  OBVIOUS
<1>3. PICK h : h = nodes[c].prev
  OBVIOUS
<1>4. /\ pc = "link" /\ Before(i, c) /\ nodes' = Splice(nodes, node, h, c)
      /\ head' = IF h = NONE THEN i ELSE head
      /\ LinkReturn /\ UNCHANGED <<free_head, tick_to_node, rest>>
  BY <1>1, <1>2, <1>3 DEF LinkBefore, Before
<1>5. /\ i \in Mapped /\ c \in Linked /\ Linked = Mapped \ {i}
      /\ \A k \in Linked : Before(k, c) => Before(k, i)
  BY <1>1, <1>2, <1>4, LinkFacts
<1>6. head \in Linked /\ \A k \in Linked : k = head \/ Before(head, k)
  BY <1>4, <1>5 DEF IInv, ListInv, HeadIsBest
<1>7. IF c = head THEN h = NONE ELSE h \in Linked /\ nodes[h].next = c
  BY <1>3, <1>4, <1>5 DEF IInv, ListInv, PrevInvertsNext
<1>8. NONE \notin Mapped /\ NONE \notin Linked
  BY MappedOrder
<1>9. h \in Linked \cup {NONE} /\ c \in Linked \cup {NONE} /\ head' \in Mapped
  BY <1>4, <1>5, <1>6, <1>7
<1>10. /\ TypeOK' /\ MapFindsPrice' /\ FreeListInv' /\ RestInv'
       /\ LinkPassed' /\ ReclaimCursor'
       /\ Linked' = Mapped /\ pc' # "reclaim"
       /\ \A k, l \in Mapped : Before(k, l)' <=> Before(k, l)
       /\ \A k \in Mapped :
            /\ nodes'[k].next = IF k = h THEN i ELSE IF k = i THEN c ELSE nodes[k].next
            /\ nodes'[k].prev = IF k = c THEN i ELSE IF k = i THEN h ELSE nodes[k].prev
  BY <1>1, <1>4, <1>9, SpliceKeeps
<1>11. NextInPriceOrder'
  <2> SUFFICES ASSUME NEW k \in Mapped
               PROVE  LET n == nodes'[k].next
                      IN  \/ n = NONE /\ \A l \in Mapped : ~Before(k, l)
                          \/ /\ n \in Mapped /\ Before(k, n)
                             /\ \A l \in Mapped : Before(k, l) => l = n \/ Before(n, l)
    BY <1>10 DEF NextInPriceOrder
  <2>1. CASE k = i
    <3>1. nodes'[k].next = c
      BY <1>5, <1>7, <1>8, <1>10, <2>1
    <3>2. \A l \in Mapped : Before(i, l) => l = c \/ Before(c, l)
      BY <1>5, MappedOrder
    <3> QED BY <1>4, <1>5, <2>1, <3>1, <3>2
  <2>2. CASE k = h
    <3>1. nodes'[k].next = i /\ k \in Linked /\ nodes[k].next = c
      BY <1>7, <1>8, <1>10, <2>2, MappedOrder
    <3>2. Before(k, c) /\ \A l \in Linked : Before(k, l) => l = c \/ Before(c, l)
      BY <1>5, <1>8, <3>1 DEF IInv, ListInv, NextInPriceOrder
    <3>3. Before(k, i)
      BY <1>5, <3>1, <3>2
    <3>4. \A l \in Mapped : Before(k, l) => l = i \/ Before(i, l)
      BY <1>4, <1>5, <3>2, MappedOrder
    <3> QED BY <1>5, <3>1, <3>3, <3>4
  <2>3. CASE k # i /\ k # h
    <3>1. k \in Linked /\ nodes'[k].next = nodes[k].next
      BY <1>5, <1>10, <2>3
    <3>2. PICK n : n = nodes[k].next
      OBVIOUS
    <3>3. \/ n = NONE /\ \A l \in Linked : ~Before(k, l)
          \/ /\ n \in Linked /\ Before(k, n)
             /\ \A l \in Linked : Before(k, l) => l = n \/ Before(n, l)
      BY <3>1, <3>2 DEF IInv, ListInv, NextInPriceOrder
    <3>4. Before(k, i) => Before(k, c)
      BY <1>4, <1>5, <3>1, MappedOrder
    <3>5. n # c
      <4>1. CASE c = head
        BY <1>5, <1>6, <1>8, <3>1, <3>3, <4>1, MappedOrder
      <4>2. CASE c # head
        BY <1>5, <1>7, <1>8, <2>3, <3>1, <3>2, <4>2, NextInjective
      <4> QED BY <4>1, <4>2
    <3>6. CASE n = NONE
      BY <1>5, <1>8, <3>1, <3>2, <3>3, <3>4, <3>6
    <3>7. CASE n # NONE
      <4>1. Before(k, i) => Before(n, i)
        BY <1>5, <3>3, <3>4, <3>5, <3>7
      <4> QED BY <1>5, <3>1, <3>2, <3>3, <3>7, <4>1
    <3> QED BY <3>6, <3>7
  <2> QED BY <2>1, <2>2, <2>3
<1>12. HeadIsBest'
  <2>1. \A k \in Mapped : k = head' \/ Before(head', k)
    <3>1. CASE h = NONE
      <4>1. c = head /\ head' = i
        BY <1>4, <1>7, <1>8, <3>1
      <4>2. \A k \in Linked : Before(i, k)
        BY <1>4, <1>5, <1>6, <4>1, MappedOrder
      <4> QED BY <1>5, <4>1, <4>2
    <3>2. CASE h # NONE
      <4>1. c # head /\ head' = head
        BY <1>4, <1>7, <3>2
      <4>2. Before(head, i)
        BY <1>5, <1>6, <4>1
      <4> QED BY <1>5, <1>6, <4>1, <4>2
    <3> QED BY <3>1, <3>2
  <2>2. \A k \in Mapped : k = head' \/ Before(head, k)'
    <3>1. PICK f \in Mapped : f = head'
      BY <1>9
    <3>2. \A k \in Mapped : Before(f, k)' <=> Before(f, k)
      BY <1>10
    <3> QED BY <2>1, <3>1, <3>2 DEF Before
  <2> QED BY <1>9, <1>10, <2>2 DEF HeadIsBest
<1>13. PrevInvertsNext'
  <2> SUFFICES ASSUME NEW k \in Mapped
               PROVE  LET g == nodes'[k].prev
                      IN  IF k = head' THEN g = NONE ELSE g \in Mapped /\ nodes'[g].next = k
    BY <1>10 DEF PrevInvertsNext
  <2>1. CASE k = i
    <3>1. nodes'[k].prev = h
      BY <1>5, <1>10, <2>1
    <3>2. k = head' <=> h = NONE
      BY <1>4, <1>5, <1>6, <2>1
    <3>3. h # NONE => h \in Mapped /\ nodes'[h].next = k
      BY <1>5, <1>7, <1>10, <2>1
    <3> QED BY <3>1, <3>2, <3>3
  <2>2. CASE k = c
    <3>1. nodes'[k].prev = i /\ nodes'[i].next = k
      BY <1>5, <1>7, <1>8, <1>10, <2>2
    <3>2. k # head'
      BY <1>4, <1>5, <1>7, <1>8, <2>2
    <3> QED BY <1>5, <3>1, <3>2
  <2>3. CASE k # i /\ k # c
    <3>1. k \in Linked /\ nodes'[k].prev = nodes[k].prev
      BY <1>5, <1>10, <2>3
    <3>2. k = head' <=> k = head
      BY <1>4, <1>5, <1>7, <1>8, <2>3, <3>1
    <3>3. IF k = head THEN nodes[k].prev = NONE
          ELSE nodes[k].prev \in Linked /\ nodes[nodes[k].prev].next = k
      BY <1>4, <3>1 DEF IInv, ListInv, PrevInvertsNext
    <3>4. ASSUME k # head
          PROVE  LET g == nodes[k].prev IN g \in Mapped /\ nodes'[g].next = k
      <4>1. PICK g \in Linked : g = nodes[k].prev /\ nodes[g].next = k
        BY <3>3, <3>4
      <4>2. g # h /\ g # i
        BY <1>5, <1>7, <1>8, <2>3, <4>1
      <4> QED BY <1>5, <1>10, <4>1, <4>2
    <3> QED BY <3>1, <3>2, <3>3, <3>4
  <2> QED BY <2>1, <2>2, <2>3
<1> QED BY <1>10, <1>11, <1>12, <1>13 DEF IInv, ListInv

(* link places its node at the end.                                        *)
LEMMA LinkLastKeeps ==
    ASSUME IInv, LinkLast
    PROVE  IInv'
<1>1. PICK i : i = node
  OBVIOUS
<1>2. PICK c : c = cur
  OBVIOUS
<1>3. /\ pc = "link" /\ ~Before(i, c) /\ nodes[c].next = NONE
      /\ nodes' = Splice(nodes, node, c, NONE)
      /\ LinkReturn /\ UNCHANGED <<free_head, head, tick_to_node, rest>>
  BY <1>1, <1>2 DEF LinkLast, Before
<1>4. /\ i \in Mapped /\ c \in Linked /\ Linked = Mapped \ {i} /\ Before(c, i)
      /\ \A k \in Linked : Before(k, c) => Before(k, i)
  BY <1>1, <1>2, <1>3, LinkFacts
<1>5. head \in Linked /\ \A k \in Linked : k = head \/ Before(head, k)
  BY <1>3, <1>4 DEF IInv, ListInv, HeadIsBest
<1>6. NONE \notin Mapped
  BY MappedOrder
<1>7. \A k \in Linked : k # c => Before(k, c)
  <2>1. \A k \in Linked : ~Before(c, k)
    BY <1>3, <1>4, <1>6 DEF IInv, ListInv, NextInPriceOrder
  <2> QED BY <1>4, <2>1, MappedOrder
<1>8. \A k \in Linked : Before(k, i)
  BY <1>4, <1>7
<1>9. /\ TypeOK' /\ MapFindsPrice' /\ FreeListInv' /\ RestInv'
      /\ LinkPassed' /\ ReclaimCursor'
      /\ Linked' = Mapped /\ pc' # "reclaim"
      /\ \A k, l \in Mapped : Before(k, l)' <=> Before(k, l)
      /\ \A k \in Mapped :
           /\ nodes'[k].next = IF k = c THEN i ELSE IF k = i THEN NONE ELSE nodes[k].next
           /\ nodes'[k].prev = IF k = NONE THEN i ELSE IF k = i THEN c ELSE nodes[k].prev
  BY <1>1, <1>3, <1>4, <1>5, SpliceKeeps
<1>10. NextInPriceOrder'
  <2> SUFFICES ASSUME NEW k \in Mapped
               PROVE  LET n == nodes'[k].next
                      IN  \/ n = NONE /\ \A l \in Mapped : ~Before(k, l)
                          \/ /\ n \in Mapped /\ Before(k, n)
                             /\ \A l \in Mapped : Before(k, l) => l = n \/ Before(n, l)
    BY <1>9 DEF NextInPriceOrder
  <2>1. CASE k = i
    <3>1. nodes'[k].next = NONE
      BY <1>4, <1>9, <2>1
    <3>2. \A l \in Mapped : ~Before(k, l)
      BY <1>4, <1>8, <2>1, MappedOrder
    <3> QED BY <3>1, <3>2
  <2>2. CASE k = c
    <3>1. nodes'[k].next = i
      BY <1>9, <2>2
    <3>2. \A l \in Mapped : Before(k, l) => l = i
      BY <1>4, <1>7, <2>2, MappedOrder
    <3> QED BY <1>4, <2>2, <3>1, <3>2
  <2>3. CASE k # i /\ k # c
    <3>1. k \in Linked /\ nodes'[k].next = nodes[k].next
      BY <1>4, <1>9, <2>3
    <3>2. PICK n : n = nodes[k].next
      OBVIOUS
    <3>3. \/ n = NONE /\ \A l \in Linked : ~Before(k, l)
          \/ /\ n \in Linked /\ Before(k, n)
             /\ \A l \in Linked : Before(k, l) => l = n \/ Before(n, l)
      BY <3>1, <3>2 DEF IInv, ListInv, NextInPriceOrder
    <3>4. Before(k, c)
      BY <1>7, <2>3, <3>1
    <3>5. n \in Linked /\ Before(n, i)
      BY <1>4, <1>8, <3>3, <3>4
    <3> QED BY <1>4, <1>6, <3>1, <3>2, <3>3, <3>5
  <2> QED BY <2>1, <2>2, <2>3
<1>11. HeadIsBest'
  <2>1. \A k \in Mapped : k = head \/ Before(head, k)
    BY <1>4, <1>5, <1>8
  <2>2. \A k \in Mapped : k = head' \/ Before(head, k)'
    <3>1. PICK f \in Mapped : f = head /\ f = head'
      BY <1>3, <1>4, <1>5
    <3>2. \A k \in Mapped : Before(f, k)' <=> Before(f, k)
      BY <1>9
    <3> QED BY <2>1, <3>1, <3>2 DEF Before
  <2> QED BY <1>3, <1>4, <1>5, <1>9, <2>2 DEF HeadIsBest
<1>12. PrevInvertsNext'
  <2> SUFFICES ASSUME NEW k \in Mapped
               PROVE  LET g == nodes'[k].prev
                      IN  IF k = head' THEN g = NONE ELSE g \in Mapped /\ nodes'[g].next = k
    BY <1>9 DEF PrevInvertsNext
  <2>1. CASE k = i
    <3>1. nodes'[k].prev = c /\ nodes'[c].next = k /\ k # head'
      BY <1>3, <1>4, <1>5, <1>6, <1>9, <2>1
    <3> QED BY <1>4, <3>1
  <2>2. CASE k # i
    <3>1. k \in Linked /\ nodes'[k].prev = nodes[k].prev /\ (k = head' <=> k = head)
      BY <1>3, <1>4, <1>6, <1>9, <2>2
    <3>2. IF k = head THEN nodes[k].prev = NONE
          ELSE nodes[k].prev \in Linked /\ nodes[nodes[k].prev].next = k
      BY <1>3, <3>1 DEF IInv, ListInv, PrevInvertsNext
    <3>3. ASSUME k # head
          PROVE  LET g == nodes[k].prev IN g \in Mapped /\ nodes'[g].next = k
      <4>1. PICK g \in Linked : g = nodes[k].prev /\ nodes[g].next = k
        BY <3>2, <3>3
      <4>2. g # c /\ g # i
        BY <1>3, <1>4, <1>6, <4>1
      <4> QED BY <1>4, <1>9, <4>1, <4>2
    <3> QED BY <3>1, <3>2, <3>3
  <2> QED BY <2>1, <2>2
<1> QED BY <1>9, <1>10, <1>11, <1>12 DEF IInv, ListInv

(* link walks past a node.                                                 *)
LEMMA LinkAdvanceKeeps ==
    ASSUME IInv, LinkAdvance
    PROVE  IInv'
<1>1. PICK c : c = cur
  OBVIOUS
<1>2. PICK n : n = nodes[c].next
  OBVIOUS
<1>3. /\ pc = "link" /\ ~Before(node, c) /\ n # NONE /\ cur' = n
      /\ UNCHANGED <<nodes, free_head, head, tick_to_node, pc, ret, node, rest>>
  BY <1>1, <1>2 DEF LinkAdvance, Before, struct
<1>4. /\ node \in Mapped /\ c \in Linked /\ Linked = Mapped \ {node} /\ Before(c, node)
      /\ \A k \in Linked : Before(k, c) => Before(k, node)
  BY <1>1, <1>3, LinkFacts
<1>5. /\ n \in Linked /\ Before(c, n)
      /\ \A k \in Linked : Before(c, k) => k = n \/ Before(n, k)
  BY <1>2, <1>3, <1>4 DEF IInv, ListInv, NextInPriceOrder
<1>6. Mapped' = Mapped /\ Linked' = Linked
  BY <1>3 DEF Mapped, Linked
<1>7. Free' = Free
  BY <1>3, <1>6 DEF Free
<1>8. FreeListInv'
  BY <1>3, <1>7 DEF IInv, FreeListInv
<1>9. TypeOK'
  BY <1>3, <1>5, MappedOrder DEF IInv, TypeOK
<1>11. \A k \in Linked : Before(k, n) => Before(k, node)
  BY <1>4, <1>5, MappedOrder
<1>12. LinkPassed'
  <2>1. \A k \in Linked : (Before(k, cur)' <=> Before(k, n)) /\ (Before(k, node)' <=> Before(k, node))
    BY <1>3 DEF Before
  <2> QED BY <1>3, <1>4, <1>5, <1>6, <1>11, <2>1 DEF LinkPassed
<1>13. \A k, l \in Linked : Before(k, l)' <=> Before(k, l)
  BY <1>3 DEF Before
<1>14. MapFindsPrice' /\ NextInPriceOrder' /\ PrevInvertsNext' /\ ReclaimCursor'
  BY <1>3, <1>6, <1>13 DEF IInv, ListInv, MapFindsPrice, NextInPriceOrder, PrevInvertsNext,
     ReclaimCursor
<1>15. HeadIsBest'
  <2>1. head \in Linked /\ \A k \in Linked : k = head \/ Before(head, k)
    BY <1>3, <1>4 DEF IInv, ListInv, HeadIsBest
  <2>2. \A k \in Linked : Before(head, k)' <=> Before(head, k)
    BY <1>3 DEF Before
  <2> QED BY <1>3, <1>6, <2>1, <2>2 DEF HeadIsBest
<1>16. RestInv'
  BY <1>3 DEF IInv, RestInv, DistinctPrices
<1> QED BY <1>8, <1>9, <1>12, <1>14, <1>15, <1>16 DEF IInv, ListInv

-----------------------------------------------------------------------------
(* The loops' steps and the calls between them keep the invariant.         *)
LEMMA NextKeeps ==
    ASSUME IInv, DistinctSnapshots, [FastNext]_vars
    PROVE  IInv'
<1>1. CASE ApplyLevel
  <2>1. pc = "idle"
    BY <1>1 DEF ApplyLevel
  <2>2. PICK p \in Price, s \in Size :
            \/ ApplyLevelAbsent(p) \/ ApplyLevelRemove(p)
            \/ ApplyLevelUpdate(p, s) \/ ApplyLevelInsert(p, s)
    BY <1>1 DEF ApplyLevel
  <2>3. CASE ApplyLevelAbsent(p)
    BY <2>3, StutterKeeps DEF ApplyLevelAbsent
  <2>4. CASE ApplyLevelRemove(p)
    BY <2>1, <2>4, RemoveKeeps
  <2>5. CASE ApplyLevelUpdate(p, s)
    BY <2>1, <2>5, UpdateKeeps
  <2>6. CASE ApplyLevelInsert(p, s)
    BY <2>1, <2>6, ApplyLevelInsertKeeps
  <2> QED BY <2>2, <2>3, <2>4, <2>5, <2>6
<1>2. CASE ApplyLevels
  BY <1>2, ApplyLevelsKeeps
<1>3. CASE Reclaim
  BY <1>3, ReclaimKeeps
<1>4. CASE ReclaimDone
  BY <1>4, ReclaimDoneKeeps
<1>5. CASE FillSkip
  BY <1>5, FillSkipKeeps
<1>6. CASE FillInsert
  BY <1>6, FillInsertKeeps
<1>7. CASE FillDone
  BY <1>7, FillDoneKeeps
<1>8. CASE LinkBefore
  BY <1>8, LinkBeforeKeeps
<1>9. CASE LinkLast
  BY <1>9, LinkLastKeeps
<1>10. CASE LinkAdvance
  BY <1>10, LinkAdvanceKeeps
<1>11. CASE UNCHANGED vars
  BY <1>11, StutterKeeps
<1> QED BY <1>1, <1>2, <1>3, <1>4, <1>5, <1>6, <1>7, <1>8, <1>9, <1>10, <1>11
        DEF FastNext, Loops

(* Whatever sequence of calls is made, of whatever levels, on a pool of    *)
(* whatever limit, the inductive invariant holds between any two steps.    *)
THEOREM IInvHolds == ASSUME DistinctSnapshots PROVE FastSpec => []IInv
<1>1. FastInit => IInv
  BY InitIInv
<1>2. IInv /\ [FastNext]_vars => IInv'
  BY NextKeeps
<1> QED BY <1>1, <1>2, PTL DEF FastSpec

(* Indices kept in the list, the map and the cursors point into the pool,  *)
(* and the pool never outgrows the null index.                             *)
THEOREM TypeOKHolds == ASSUME DistinctSnapshots PROVE FastSpec => []TypeOK
<1>1. IInv => TypeOK
  BY DEF IInv
<1> QED BY <1>1, IInvHolds, PTL

(* link, unlink and the reclaim loop keep the doubly linked list ordered,  *)
(* its head the best level and the map in agreement with it.               *)
THEOREM ListInvHolds == ASSUME DistinctSnapshots PROVE FastSpec => []ListInv
<1>1. IInv => ListInv
  BY DEF IInv
<1> QED BY <1>1, IInvHolds, PTL

(* alloc_node, free_node and apply_levels neither leak a node nor hand out *)
(* one that is in use.                                                     *)
THEOREM FreeListInvHolds == ASSUME DistinctSnapshots PROVE FastSpec => []FreeListInv
<1>1. IInv => FreeListInv
  BY DEF IInv
<1> QED BY <1>1, IInvHolds, PTL

(* The levels apply_levels has yet to enter are new to the map.            *)
THEOREM RestInvHolds == ASSUME DistinctSnapshots PROVE FastSpec => []RestInv
<1>1. IInv => RestInv
  BY DEF IInv
<1> QED BY <1>1, IInvHolds, PTL

(* A new node is taken from the end of the pool only when no node is free. *)
LEMMA GrowsWhenFull ==
    ASSUME IInv, FastNext, DOMAIN nodes' # DOMAIN nodes
    PROVE  Mapped = DOMAIN nodes
<1>1. \A i, x : DOMAIN SetNext(nodes, i, x) = DOMAIN nodes
  BY DEF SetNext
<1>2. \A i, x, y, z : DOMAIN SetNext(SetPrev(SetNext(nodes, i, x), x, y), z, free_head) = DOMAIN nodes
  BY DEF SetNext, SetPrev
<1>3. \A i, h, j : DOMAIN Splice(nodes, i, h, j) = DOMAIN nodes
  BY DEF Splice, SetNext, SetPrev
<1>4. pc \in {"idle", "fill"} /\ \E lvl : Insert(lvl, pc)
  <2>1. CASE ApplyLevel
    <3>1. pc = "idle"
      BY <2>1 DEF ApplyLevel
    <3>2. PICK p \in Price, s \in Size :
              \/ ApplyLevelAbsent(p) \/ ApplyLevelRemove(p)
              \/ ApplyLevelUpdate(p, s) \/ ApplyLevelInsert(p, s)
      BY <2>1 DEF ApplyLevel
    <3>3. ~ApplyLevelAbsent(p)
      BY DEF ApplyLevelAbsent, vars
    <3>4. ~ApplyLevelRemove(p)
      BY <1>2 DEF ApplyLevelRemove
    <3>5. ~ApplyLevelUpdate(p, s)
      BY DEF ApplyLevelUpdate
    <3> QED BY <3>1, <3>2, <3>3, <3>4, <3>5 DEF ApplyLevelInsert
  <2>2. CASE FillInsert
    BY <2>2 DEF FillInsert
  <2>3. CASE Reclaim
    BY <1>1, <2>3 DEF Reclaim
  <2>4. CASE LinkBefore \/ LinkLast
    BY <1>3, <2>4 DEF LinkBefore, LinkLast
  <2>5. CASE ApplyLevels \/ ReclaimDone \/ FillSkip \/ FillDone \/ LinkAdvance
    BY <2>5 DEF ApplyLevels, ReclaimDone, FillSkip, FillDone, LinkAdvance, struct
  <2> QED BY <2>1, <2>2, <2>3, <2>4, <2>5 DEF FastNext, Loops
<1>5. PICK lvl : Insert(lvl, pc)
  BY <1>4
<1>6. DOMAIN nodes' = DOMAIN nodes \cup {AllocIndex}
  BY <1>5 DEF Insert, WithNode
<1>7. AllocIndex \notin DOMAIN nodes
  BY <1>6
<1>8. /\ Free = DOMAIN nodes \ Mapped /\ Mapped \subseteq DOMAIN nodes
      /\ NONE \notin DOMAIN nodes /\ IsFiniteSet(Free) /\ IsFreeList(Free, free_head, nodes)
  BY <1>4, AtRest, MappedOrder, FreeFinite DEF IInv, FreeListInv
<1>9. free_head = NONE
  <2>1. ASSUME free_head # NONE PROVE FALSE
    <3>1. AllocIndex = free_head
      BY <2>1 DEF AllocIndex
    <3>2. free_head \in Free
      BY <1>8, <2>1, FreeHead
    <3> QED BY <1>7, <1>8, <3>1, <3>2
  <2> QED BY <2>1
<1>10. Free = {}
  BY <1>8, <1>9, FreeHead
<1> QED BY <1>8, <1>10

(* The arena never holds more nodes than the book ever had levels at once: *)
(* alloc_node extends it only when every node holds a quoted level.        *)
THEOREM PoolGrowsOnlyWhenFullHolds ==
    ASSUME DistinctSnapshots PROVE FastSpec => PoolGrowsOnlyWhenFull
<1>1. IInv /\ [FastNext]_vars =>
         [DOMAIN nodes' # DOMAIN nodes => Mapped = DOMAIN nodes]_vars
  BY GrowsWhenFull DEF vars
<1> QED BY <1>1, IInvHolds, PTL DEF FastSpec, PoolGrowsOnlyWhenFull

-----------------------------------------------------------------------------
(***************************************************************************)
(* What the calls do to the book.  The definitions BookSide takes from     *)
(* BookLevels are those used here.                                         *)
(***************************************************************************)
LEMMA SameCardinality == \A S : Abstract!Cardinality(S) = Cardinality(S)
BY DEF Abstract!Cardinality, Cardinality

LEMMA SameWithLevel == \A b, p, s : Abstract!WithLevel(b, p, s) = WithLevel(b, p, s)
BY DEF Abstract!WithLevel, WithLevel

LEMMA SameWithin ==
    \A b, ls, room : Abstract!OverlayWithin(b, ls, room) = OverlayWithin(b, ls, room)
<1>1. \A ls, k : Abstract!QuotedBefore(ls, k) = QuotedBefore(ls, k)
  BY DEF Abstract!QuotedBefore, QuotedBefore
<1>2. \A ls, room : Abstract!Taken(ls, room) = Taken(ls, room)
  BY <1>1, SameCardinality DEF Abstract!Taken, Taken
<1>3. \A ls, p : Abstract!SizeAt(ls, p) = SizeAt(ls, p)
  BY DEF Abstract!SizeAt, SizeAt
<1> QED BY <1>2, <1>3 DEF Abstract!OverlayWithin, OverlayWithin

(* The book that BookSide has at each state.                               *)
Book == OverlayWithin(InPlace, rest, NONE - Cardinality(DOMAIN InPlace))

(* Each quoted price has a node of its own: there is room in the book just *)
(* when alloc_node finds a node.                                           *)
LEMMA RoomFacts ==
    ASSUME IInv
    PROVE  /\ IsFiniteSet(DOMAIN tick_to_node)
           /\ Cardinality(DOMAIN tick_to_node) \in 0 .. NONE
           /\ pc \in {"idle", "fill"} =>
                 (CanAlloc <=> Cardinality(DOMAIN tick_to_node) < NONE)
<1> DEFINE D == DOMAIN tick_to_node
           f == [t \in D |-> tick_to_node[t]]
<1>1. /\ \A t \in D : tick_to_node[t] \in Mapped /\ nodes[tick_to_node[t]].price = t
      /\ \A i \in Mapped : \E t \in D : tick_to_node[t] = i
      /\ Mapped \subseteq DOMAIN nodes
  BY MapFacts DEF Mapped, IInv, ListInv, MapFindsPrice
<1>2. /\ DOMAIN nodes \subseteq Index /\ IsFiniteSet(DOMAIN nodes)
      /\ PoolLen = Cardinality(DOMAIN nodes) /\ PoolLen \in 0 .. NONE
  BY PoolFacts DEF IInv, PoolLen
<1>3. IsFiniteSet(Index) /\ Cardinality(Index) = NONE
  BY FastBookSideAssumption, FS_Interval DEF Index
<1>4. \A S : Mapped \subseteq S => f \in Injection(D, S)
  BY <1>1 DEF Injection, IsInjective
<1>5. Mapped = DOMAIN nodes => f \in Surjection(D, DOMAIN nodes)
  BY <1>1 DEF Surjection
<1> HIDE DEF f, D
<1>6. /\ IsFiniteSet(D) /\ Cardinality(D) <= PoolLen
      /\ Cardinality(D) = PoolLen <=> f \in Surjection(D, DOMAIN nodes)
  BY <1>1, <1>2, <1>4, FS_Injection
<1>7. Cardinality(D) \in 0 .. NONE
  BY <1>2, <1>6, FS_CardinalityType, FastBookSideAssumption
<1>8. ASSUME pc \in {"idle", "fill"}, CanAlloc PROVE Cardinality(D) < NONE
  <2>1. AllocIndex \in Index /\ AllocIndex \notin Mapped
    BY <1>8, Allocated
  <2>2. /\ IsFiniteSet(Index \ {AllocIndex})
        /\ Cardinality(Index \ {AllocIndex}) = NONE - 1
    BY <1>3, <2>1, FS_RemoveElement
  <2>3. f \in Injection(D, Index \ {AllocIndex})
    BY <1>1, <1>2, <1>4, <2>1
  <2>4. Cardinality(D) <= NONE - 1
    BY <2>2, <2>3, FS_Injection
  <2> QED BY <1>7, <2>4, FastBookSideAssumption
<1>9. ASSUME pc \in {"idle", "fill"}, ~CanAlloc PROVE Cardinality(D) = NONE
  <2>1. free_head = NONE /\ PoolLen = NONE
    BY <1>9 DEF CanAlloc
  <2>2. /\ Free = DOMAIN nodes \ Mapped /\ IsFiniteSet(Free) /\ NONE \notin Free
        /\ IsFreeList(Free, free_head, nodes)
    BY <1>9, AtRest, FreeFinite, PoolFacts DEF IInv, FreeListInv
  <2>3. Free = {}
    BY <2>1, <2>2, FreeHead
  <2>4. Mapped = DOMAIN nodes
    BY <1>1, <2>2, <2>3
  <2> QED BY <1>5, <1>6, <2>1, <2>4
<1> QED BY <1>6, <1>7, <1>8, <1>9, FastBookSideAssumption DEF D

LEMMA SizesFacts ==
    ASSUME IInv
    PROVE  /\ DOMAIN Sizes = DOMAIN tick_to_node
           /\ Sizes = [t \in DOMAIN Sizes |-> Sizes[t]]
           /\ rest \in Seq(Level) /\ NONE - Cardinality(DOMAIN Sizes) \in Int
<1>1. /\ DOMAIN Sizes = DOMAIN tick_to_node /\ Sizes = [t \in DOMAIN Sizes |-> Sizes[t]]
  BY DEF Sizes
<1>2. rest \in Seq(Level)
  BY DEF IInv, TypeOK
<1>3. NONE - Cardinality(DOMAIN Sizes) \in Int
  BY <1>1, RoomFacts, FastBookSideAssumption
<1> QED BY <1>1, <1>2, <1>3

(* Between calls, before a step or after it, the book is what the map and  *)
(* the nodes say.                                                          *)
LEMMA RestingBook ==
    /\ rest = <<>> /\ pc # "reclaim" => Book = Sizes
    /\ rest' = <<>> /\ pc' # "reclaim" => Book' = Sizes'
<1>1. ASSUME rest = <<>>, pc # "reclaim" PROVE Book = Sizes
  <2>1. Book = OverlayWithin(Sizes, <<>>, NONE - Cardinality(DOMAIN Sizes))
    BY <1>1 DEF Book, InPlace
  <2>2. Sizes = [t \in DOMAIN Sizes |-> Sizes[t]]
    BY DEF Sizes
  <2> HIDE DEF Sizes
  <2> QED BY <2>1, <2>2, OverlayEmpty
<1>2. ASSUME rest' = <<>>, pc' # "reclaim" PROVE Book' = Sizes'
  <2>1. Book' = OverlayWithin(Sizes', <<>>, NONE - Cardinality(DOMAIN Sizes'))
    BY <1>2 DEF Book, InPlace
  <2>2. Sizes' = [t \in DOMAIN Sizes' |-> Sizes'[t]]
    BY DEF Sizes
  <2> HIDE DEF Sizes
  <2> QED BY <2>1, <2>2, OverlayEmpty
<1> QED BY <1>1, <1>2

(* What changes neither the map, nor sizes, nor the rest of the snapshot   *)
(* does not change the book.                                               *)
LEMMA BookSame ==
    ASSUME IInv, tick_to_node' = tick_to_node, rest' = rest,
           pc # "reclaim" /\ pc' # "reclaim",
           \A i \in Mapped : nodes'[i].size = nodes[i].size
    PROVE  Book' = Book
<1>1. Sizes' = Sizes
  BY DEF Sizes, Mapped
<1>2. InPlace' = InPlace
  BY <1>1 DEF InPlace
<1> QED BY <1>2 DEF Book

(* A level of size zero takes the price off.                               *)
LEMMA RemoveDoes ==
    ASSUME IInv, pc = "idle", NEW p \in Price, ApplyLevelRemove(p)
    PROVE  Book' = WithLevel(Book, p, 0)
<1>1. PICK i : i = tick_to_node[p]
  OBVIOUS
<1>2. /\ p \in DOMAIN tick_to_node /\ i \in Mapped /\ nodes[i].price = p
  BY <1>1 DEF ApplyLevelRemove, Mapped, IInv, ListInv, MapFindsPrice
<1>3. tick_to_node' = [t \in DOMAIN tick_to_node \ {p} |-> tick_to_node[t]]
  BY <1>1, <1>2 DEF ApplyLevelRemove
<1>4. \A j \in DOMAIN nodes : nodes'[j].size = nodes[j].size
  <2>1. nodes' = SetNext(SetPrev(SetNext(nodes, nodes[i].prev, nodes[i].next),
                                 nodes[i].next, nodes[i].prev), i, free_head)
    BY <1>1 DEF ApplyLevelRemove
  <2> QED BY <2>1 DEF SetNext, SetPrev
<1>5. Mapped \subseteq DOMAIN nodes
  BY MapFacts DEF IInv, ListInv
<1>6. \A t \in DOMAIN tick_to_node : tick_to_node[t] \in DOMAIN nodes
  BY <1>5 DEF Mapped
<1>7. Sizes' = WithLevel(Sizes, p, 0)
  BY <1>3, <1>4, <1>6 DEF Sizes, WithLevel
<1>8. rest = <<>> /\ rest' = <<>> /\ pc' = "idle"
  BY DEF ApplyLevelRemove, locals, IInv, RestInv
<1>9. Book = Sizes
  BY <1>8, RestingBook
<1>10. Book' = Sizes'
  BY <1>8, RestingBook
<1> QED BY <1>7, <1>9, <1>10

(* A level that is there takes the new size.                               *)
LEMMA UpdateDoes ==
    ASSUME IInv, pc = "idle", NEW p \in Price, NEW s \in Size, s # 0,
           ApplyLevelUpdate(p, s)
    PROVE  Book' = WithLevel(Book, p, s) /\ p \in DOMAIN Book
<1>1. PICK i : i = tick_to_node[p]
  OBVIOUS
<1>2. /\ p \in DOMAIN tick_to_node /\ i \in DOMAIN nodes
      /\ nodes' = [nodes EXCEPT ![i].size = s] /\ tick_to_node' = tick_to_node
  BY <1>1 DEF ApplyLevelUpdate, IInv, TypeOK
<1>3. \A t \in DOMAIN tick_to_node :
          tick_to_node[t] \in DOMAIN nodes /\ (tick_to_node[t] = i => t = p)
  BY <1>1, <1>2 DEF IInv, TypeOK, ListInv, MapFindsPrice
<1>4. \A j \in DOMAIN nodes : nodes'[j].size = IF j = i THEN s ELSE nodes[j].size
  BY <1>2, PoolFacts DEF IInv, LevelNode
<1>5. Sizes' = WithLevel(Sizes, p, s)
  BY <1>1, <1>2, <1>3, <1>4 DEF Sizes, WithLevel
<1>6. rest = <<>> /\ rest' = <<>> /\ pc' = "idle"
  BY DEF ApplyLevelUpdate, locals, IInv, RestInv
<1>7. Book = Sizes /\ DOMAIN Sizes = DOMAIN tick_to_node
  BY <1>6, SizesFacts, RestingBook
<1>8. Book' = Sizes'
  BY <1>6, RestingBook
<1> QED BY <1>2, <1>5, <1>7, <1>8

(* A level that is new is entered, if there is room.                       *)
LEMMA InsertDoes ==
    ASSUME IInv, pc \in {"idle", "fill"}, NEW lvl \in Level, lvl.size # 0,
           lvl.price \notin DOMAIN tick_to_node, Insert(lvl, pc)
    PROVE  /\ ~CanAlloc => UNCHANGED <<Sizes, pc>>
           /\ CanAlloc => /\ Sizes' = WithLevel(Sizes, lvl.price, lvl.size)
                          /\ Cardinality(DOMAIN Sizes') = Cardinality(DOMAIN Sizes) + 1
           /\ pc' # "reclaim"
<1>1. CASE ~CanAlloc
  BY <1>1 DEF Insert, Sizes
<1>2. CASE CanAlloc
  <2>1. PICK i : i = AllocIndex
    OBVIOUS
  <2>2. /\ nodes' = WithNode(i, lvl) /\ pc' # "reclaim"
        /\ tick_to_node' = [t \in DOMAIN tick_to_node \cup {lvl.price} |->
                               IF t = lvl.price THEN i ELSE tick_to_node[t]]
    BY <1>2, <2>1 DEF Insert
  <2>3. i \notin Mapped /\ Mapped \subseteq DOMAIN nodes
    BY <1>2, <2>1, Allocated, MapFacts DEF IInv, ListInv
  <2>4. /\ nodes'[i].size = lvl.size
        /\ \A j \in Mapped : nodes'[j].size = nodes[j].size
    BY <2>2, <2>3 DEF WithNode
  <2>5. \A t \in DOMAIN tick_to_node : t # lvl.price /\ tick_to_node[t] \in Mapped
    BY DEF Mapped
  <2>6. Sizes' = WithLevel(Sizes, lvl.price, lvl.size)
    BY <2>2, <2>4, <2>5 DEF Sizes, WithLevel
  <2>7. DOMAIN Sizes' = DOMAIN Sizes \cup {lvl.price} /\ DOMAIN Sizes = DOMAIN tick_to_node
    BY <2>2 DEF Sizes
  <2>8. Cardinality(DOMAIN Sizes') = Cardinality(DOMAIN Sizes) + 1
    <3> HIDE DEF Sizes
    <3> QED BY <2>7, RoomFacts, FS_AddElement
  <2> QED BY <1>2, <2>2, <2>6, <2>8
<1> QED BY <1>1, <1>2

LEMMA ApplyLevelInsertDoes ==
    ASSUME IInv, pc = "idle", NEW p \in Price, NEW s \in Size, s # 0,
           ApplyLevelInsert(p, s)
    PROVE  \/ Book' = Book
           \/ Book' = WithLevel(Book, p, s) /\ Cardinality(DOMAIN Book) < NONE
<1> DEFINE lvl == [price |-> p, size |-> s]
<1>1. lvl \in Level /\ lvl.price = p /\ lvl.size = s
  BY DEF Level
<1> HIDE DEF lvl
<1>2. p \notin DOMAIN tick_to_node /\ Insert(lvl, pc) /\ rest' = rest
  BY DEF ApplyLevelInsert, lvl
<1>3. /\ ~CanAlloc => UNCHANGED <<Sizes, pc>>
      /\ CanAlloc => Sizes' = WithLevel(Sizes, p, s)
      /\ pc' # "reclaim"
  BY <1>1, <1>2, InsertDoes
<1>4. rest = <<>> /\ rest' = <<>>
  BY <1>2 DEF IInv, RestInv
<1>5. Book = Sizes /\ DOMAIN Sizes = DOMAIN tick_to_node
  BY <1>4, SizesFacts, RestingBook
<1>6. Book' = Sizes'
  BY <1>3, <1>4, RestingBook
<1>7. CanAlloc => Cardinality(DOMAIN tick_to_node) < NONE
  BY RoomFacts
<1> QED BY <1>3, <1>5, <1>6, <1>7

(* apply_levels, at once for all the levels there is room for.             *)
LEMMA ApplyLevelsDoes ==
    ASSUME ApplyLevels
    PROVE  \E ls \in Snapshots : Book' = OverlayWithin(<<>>, ls, NONE)
<1>1. PICK ls \in Snapshots : rest' = ls
  BY DEF ApplyLevels
<1>2. InPlace' = <<>>
  BY DEF ApplyLevels, InPlace
<1>3. Cardinality(DOMAIN <<>>) = 0
  <2>1. DOMAIN <<>> = {}
    OBVIOUS
  <2> QED BY <2>1, FS_EmptySet
<1>4. NONE - 0 = NONE
  BY FastBookSideAssumption
<1> QED BY <1>1, <1>2, <1>3, <1>4 DEF Book

(* The reclaim loop takes down what no longer counts.                      *)
LEMMA ReclaimDoes ==
    ASSUME Reclaim \/ ReclaimDone
    PROVE  Book' = Book
<1>1. InPlace = <<>> /\ rest' = rest
  BY DEF Reclaim, ReclaimDone, InPlace
<1>2. InPlace' = <<>>
  <2>1. CASE Reclaim
    BY <2>1 DEF Reclaim, InPlace
  <2>2. CASE ReclaimDone
    BY <2>2 DEF ReclaimDone, InPlace, Sizes
  <2> QED BY <2>1, <2>2
<1> QED BY <1>1, <1>2 DEF Book

(* Levels are entered as they already count.                               *)
LEMMA FillSkipDoes ==
    ASSUME IInv, FillSkip
    PROVE  Book' = Book
<1>1. /\ pc = "fill" /\ pc' = "fill" /\ rest # <<>> /\ Head(rest).size = 0
      /\ rest' = Tail(rest) /\ InPlace = Sizes
  BY DEF FillSkip, InPlace
<1>2. InPlace' = Sizes
  BY <1>1 DEF FillSkip, struct, InPlace, Sizes
<1>3. DistinctPrices(rest) /\ rest \in Seq(Level) /\ NONE - Cardinality(DOMAIN Sizes) \in Int
  BY SizesFacts DEF IInv, RestInv
<1> HIDE DEF Sizes
<1>4. OverlayWithin(Sizes, rest, NONE - Cardinality(DOMAIN Sizes))
      = OverlayWithin(Sizes, Tail(rest), NONE - Cardinality(DOMAIN Sizes))
  BY <1>1, <1>3, OverlayTail
<1> QED BY <1>1, <1>2, <1>4 DEF Book

LEMMA FillInsertDoes ==
    ASSUME IInv, FillInsert
    PROVE  Book' = Book
<1> DEFINE room == NONE - Cardinality(DOMAIN Sizes)
           h == Head(rest)
<1>1. /\ pc = "fill" /\ rest # <<>> /\ h.size # 0 /\ rest' = Tail(rest)
      /\ Insert(h, pc)
  BY DEF FillInsert
<1>2. /\ DistinctPrices(rest) /\ rest \in Seq(Level) /\ room \in Int
      /\ Sizes = [t \in DOMAIN Sizes |-> Sizes[t]] /\ DOMAIN Sizes = DOMAIN tick_to_node
  BY SizesFacts DEF IInv, RestInv
<1>3. /\ h \in Level /\ h.price \notin DOMAIN tick_to_node /\ Tail(rest) \in Seq(Level)
  <2>1. h = rest[1] /\ 1 \in DOMAIN rest
    BY <1>1, <1>2, TailAt
  <2>2. Tail(rest) \in Seq(Level) /\ h \in Level
    BY <1>1, <1>2, HeadTailProperties
  <2> QED BY <1>1, <2>1, <2>2 DEF IInv, RestInv
<1>4. /\ ~CanAlloc => UNCHANGED <<Sizes, pc>>
      /\ CanAlloc => /\ Sizes' = WithLevel(Sizes, h.price, h.size)
                     /\ Cardinality(DOMAIN Sizes') = Cardinality(DOMAIN Sizes) + 1
      /\ pc' # "reclaim"
  BY <1>1, <1>3, InsertDoes
<1>5. CanAlloc <=> Cardinality(DOMAIN Sizes) < NONE
  BY <1>1, <1>2, RoomFacts
<1>6. Cardinality(DOMAIN Sizes) \in Nat /\ NONE \in Nat
  BY <1>2, RoomFacts, FastBookSideAssumption
<1>7. Book = OverlayWithin(Sizes, rest, room)
  BY <1>1 DEF Book, InPlace
<1>8. Book' = OverlayWithin(Sizes', Tail(rest), NONE - Cardinality(DOMAIN Sizes'))
  BY <1>1, <1>4 DEF Book, InPlace
<1> HIDE DEF Sizes, h
<1>9. CASE CanAlloc
  <2>1. room > 0 /\ NONE - Cardinality(DOMAIN Sizes') = room - 1
    BY <1>4, <1>5, <1>6, <1>9
  <2> HIDE DEF room
  <2>2. OverlayWithin(Sizes, rest, room)
        = OverlayWithin(WithLevel(Sizes, h.price, h.size), Tail(rest), room - 1)
    BY <1>1, <1>2, <2>1, OverlayTail DEF h
  <2> QED BY <1>4, <1>7, <1>8, <1>9, <2>1, <2>2
<1>10. CASE ~CanAlloc
  <2>1. room <= 0
    BY <1>5, <1>6, <1>10
  <2>2. Book' = OverlayWithin(Sizes, Tail(rest), room)
    BY <1>4, <1>8, <1>10
  <2> HIDE DEF room
  <2>3. OverlayWithin(Sizes, rest, room) = Sizes
    BY <1>2, <2>1, OverlayFull
  <2>4. OverlayWithin(Sizes, Tail(rest), room) = Sizes
    BY <1>2, <1>3, <2>1, OverlayFull
  <2> QED BY <1>7, <2>2, <2>3, <2>4
<1> QED BY <1>9, <1>10

(* Placing a node in the list leaves sizes alone.                          *)
LEMMA LinkDoes ==
    ASSUME IInv, LinkBefore \/ LinkLast \/ LinkAdvance \/ FillDone
    PROVE  Book' = Book
<1>1. /\ tick_to_node' = tick_to_node /\ rest' = rest
      /\ pc # "reclaim" /\ pc' # "reclaim"
  BY DEF LinkBefore, LinkLast, LinkAdvance, FillDone, LinkReturn, struct, IInv, TypeOK
<1>2. \A j \in DOMAIN nodes : nodes'[j].size = nodes[j].size
  <2>1. \A i, h, k : \A j \in DOMAIN nodes : Splice(nodes, i, h, k)[j].size = nodes[j].size
    <3>1. nodes \in [DOMAIN nodes -> LevelNode]
      BY PoolFacts DEF IInv
    <3> QED BY <3>1 DEF Splice, SetNext, SetPrev, LevelNode
  <2>2. CASE LinkBefore \/ LinkLast
    BY <2>1, <2>2 DEF LinkBefore, LinkLast
  <2>3. CASE LinkAdvance \/ FillDone
    BY <2>3 DEF LinkAdvance, FillDone, struct
  <2> QED BY <2>2, <2>3
<1>3. Mapped \subseteq DOMAIN nodes
  BY MapFacts DEF IInv, ListInv
<1> QED BY <1>1, <1>2, <1>3, BookSame

(***************************************************************************)
(* Each step of the calls, of whatever levels, is a step BookSide allows   *)
(* or changes nothing a caller sees: an insertion and a snapshot take      *)
(* effect at their first step, levels without room are dropped, and the    *)
(* loops' other steps only carry out what already counts.                  *)
(***************************************************************************)
THEOREM ImplementsBookSideHolds ==
    ASSUME DistinctSnapshots PROVE FastSpec => ImplementsBookSide
<1>1. FastInit => Abstract!Init
  <2> SUFFICES ASSUME FastInit PROVE Book = <<>>
    BY DEF Abstract!Init, Book
  <2>1. IInv /\ rest = <<>> /\ pc # "reclaim" /\ Sizes = <<>>
    BY InitIInv DEF FastInit, Sizes
  <2> QED BY <2>1, RestingBook
<1>2. IInv /\ [FastNext]_vars => [Abstract!Next]_Book
  <2> SUFFICES ASSUME IInv, [FastNext]_vars PROVE [Abstract!Next]_Book
    OBVIOUS
  <2>1. CASE ApplyLevel
    <3>1. pc = "idle"
      BY <2>1 DEF ApplyLevel
    <3>2. PICK p \in Price, s \in Size :
              \/ s = 0 /\ ApplyLevelAbsent(p)
              \/ s = 0 /\ ApplyLevelRemove(p)
              \/ s # 0 /\ ApplyLevelUpdate(p, s)
              \/ s # 0 /\ ApplyLevelInsert(p, s)
      BY <2>1 DEF ApplyLevel
    <3>3. \/ Book' = Book
          \/ /\ Book' = WithLevel(Book, p, s)
             /\ s = 0 \/ p \in DOMAIN Book \/ Cardinality(DOMAIN Book) < NONE
      <4>1. CASE s = 0 /\ ApplyLevelAbsent(p)
        BY <4>1 DEF ApplyLevelAbsent, vars, Book, InPlace, Sizes
      <4>2. CASE s = 0 /\ ApplyLevelRemove(p)
        BY <3>1, <4>2, RemoveDoes
      <4>3. CASE s # 0 /\ ApplyLevelUpdate(p, s)
        BY <3>1, <4>3, UpdateDoes
      <4>4. CASE s # 0 /\ ApplyLevelInsert(p, s)
        BY <3>1, <4>4, ApplyLevelInsertDoes
      <4> QED BY <3>2, <4>1, <4>2, <4>3, <4>4
    <3>4. Book' = WithLevel(Book, p, s)
          /\ (s = 0 \/ p \in DOMAIN Book \/ Cardinality(DOMAIN Book) < NONE)
          => Abstract!ApplyPriceChange
      BY SameWithLevel, SameCardinality
         DEF Abstract!ApplyPriceChange, Abstract!HasRoom, Book
    <3> QED BY <3>3, <3>4 DEF Abstract!Next
  <2>2. CASE ApplyLevels
    <3>1. Abstract!ApplySnapshot
      BY <2>2, ApplyLevelsDoes, SameWithin DEF Abstract!ApplySnapshot, Book
    <3> QED BY <3>1 DEF Abstract!Next
  <2>3. CASE Reclaim \/ ReclaimDone
    BY <2>3, ReclaimDoes
  <2>4. CASE FillSkip
    BY <2>4, FillSkipDoes
  <2>5. CASE FillInsert
    BY <2>5, FillInsertDoes
  <2>6. CASE LinkBefore \/ LinkLast \/ LinkAdvance \/ FillDone
    BY <2>6, LinkDoes
  <2>7. CASE UNCHANGED vars
    BY <2>7 DEF vars, Book, InPlace, Sizes
  <2> QED BY <2>1, <2>2, <2>3, <2>4, <2>5, <2>6, <2>7 DEF FastNext, Loops
<1>3. FastSpec => []IInv
  BY IInvHolds
<1> QED BY <1>1, <1>2, <1>3, PTL DEF FastSpec, ImplementsBookSide, Abstract!Spec, Book
-----------------------------------------------------------------------------
(* Ranked is by position.                                                  *)
LEMMA RankedAt ==
    \A b : Ranked(b) = [r \in 1 .. Cardinality(DOMAIN b) |->
                           [price |-> At(IsBid, DOMAIN b, r), size |-> b[At(IsBid, DOMAIN b, r)]]]
<1>1. \A b : \A q : {x \in DOMAIN b : ComesBefore(x, q)} = Ahead(IsBid, DOMAIN b, q)
  BY DEF ComesBefore, Ahead, Precedes
<1> QED BY <1>1 DEF Ranked, At

(***************************************************************************)
(* Between calls the iterator yields the quoted levels, each once, best    *)
(* first, and ends: the node in each position leads to the node in the     *)
(* next one, because it leads to the next price.                           *)
(***************************************************************************)
THEOREM IterIsRankedHolds == ASSUME DistinctSnapshots PROVE FastSpec => []IterIsRanked
<1>1. IInv => IterIsRanked
  <2> SUFFICES ASSUME IInv, pc = "idle" PROVE Yields(Ranked(Sizes))
    BY DEF IterIsRanked
  <2> DEFINE D == DOMAIN tick_to_node
             n == Cardinality(D)
             p(r) == At(IsBid, D, r)
             at == [r \in 1 .. n |-> tick_to_node[p(r)]]
             ls == Ranked(Sizes)
  <2>1. D \in SUBSET Int /\ IsFiniteSet(D) /\ n \in Nat /\ IsBid \in BOOLEAN
    BY RoomFacts, BookLevelsAssumption, FS_CardinalityType DEF IInv, TypeOK
  <2>2. /\ \A t \in D : tick_to_node[t] \in Mapped /\ nodes[tick_to_node[t]].price = t
        /\ \A i \in Mapped : nodes[i].price \in D /\ tick_to_node[nodes[i].price] = i
        /\ Mapped \subseteq DOMAIN nodes /\ NONE \notin Mapped
    BY MapFacts, PoolFacts DEF Mapped, IInv, ListInv, MapFindsPrice
  <2>3. \A r \in 1 .. n : p(r) \in D
    BY <2>1, EveryPosition
  <2>4. ls = [r \in 1 .. n |-> [price |-> p(r), size |-> nodes[tick_to_node[p(r)]].size]]
    BY <2>3, RankedAt DEF Sizes
  <2>5. /\ DOMAIN ls = 1 .. n /\ at \in [1 .. n -> DOMAIN nodes]
        /\ \A r \in 1 .. n :
              /\ at[r] \in Mapped /\ nodes[at[r]].price = p(r)
              /\ ls[r] = [price |-> nodes[at[r]].price, size |-> nodes[at[r]].size]
    BY <2>2, <2>3, <2>4
  <2>6. \A i \in Mapped, r \in 0 .. n :
           LET q == nodes[i].price
           IN  /\ Behind(IsBid, D, r, q)
               /\ \A t \in D : Behind(IsBid, D, r, t) => t = q \/ Precedes(IsBid, q, t)
               => r + 1 \in 1 .. n /\ at[r + 1] = i
    BY <2>1, <2>2, NextPosition
  <2>7. \A r \in 0 .. n :
           (\A t \in D : ~Behind(IsBid, D, r, t)) => r + 1 \notin 1 .. n
    BY <2>1, NextPosition
  <2> HIDE DEF n, p, at, ls
  <2>8. \A i, j \in Mapped : Before(i, j) <=> Precedes(IsBid, nodes[i].price, nodes[j].price)
    BY DEF Before, ComesBefore, Precedes
  <2>9. Linked = Mapped
    BY AtRest
  <2>10. head = IF 1 \in 1 .. n THEN at[1] ELSE NONE
    <3>1. \A t : Behind(IsBid, D, 0, t)
      BY DEF Behind
    <3>2. CASE head = NONE /\ Mapped = {}
      <4>1. D = {}
        BY <2>2, <3>2
      <4> QED BY <2>1, <2>7, <3>2, <4>1
    <3>3. CASE head \in Mapped /\ \A k \in Mapped : k = head \/ Before(head, k)
      <4>1. \A t \in D : t = nodes[head].price \/ Precedes(IsBid, nodes[head].price, t)
        BY <2>2, <2>8, <3>3
      <4>2. 0 + 1 \in 1 .. n /\ at[0 + 1] = head
        BY <2>1, <2>6, <3>1, <3>3, <4>1
      <4> QED BY <4>2
    <3> QED BY <2>9, <3>2, <3>3 DEF IInv, ListInv, HeadIsBest
  <2>11. ASSUME NEW r \in 1 .. n
         PROVE  nodes[at[r]].next = IF r + 1 \in 1 .. n THEN at[r + 1] ELSE NONE
    <3>1. PICK i \in Mapped : i = at[r]
      BY <2>5
    <3>2. nodes[i].price = p(r) /\ r \in 0 .. n /\ r > 0
      BY <2>1, <2>5, <3>1
    <3>3. \A t : Behind(IsBid, D, r, t) <=> Precedes(IsBid, nodes[i].price, t)
      BY <3>2 DEF Behind, p
    <3>4. PICK j : j = nodes[i].next
      OBVIOUS
    <3>5. CASE j = NONE /\ \A k \in Mapped : ~Before(i, k)
      <4>1. \A t \in D : ~Behind(IsBid, D, r, t)
        BY <2>2, <2>8, <3>3, <3>5
      <4> QED BY <2>7, <3>1, <3>2, <3>4, <3>5, <4>1
    <3>6. CASE /\ j \in Mapped /\ Before(i, j)
               /\ \A k \in Mapped : Before(i, k) => k = j \/ Before(j, k)
      <4>1. /\ Behind(IsBid, D, r, nodes[j].price)
            /\ \A t \in D : Behind(IsBid, D, r, t)
                            => t = nodes[j].price \/ Precedes(IsBid, nodes[j].price, t)
        BY <2>2, <2>8, <3>3, <3>6
      <4> QED BY <2>6, <3>1, <3>2, <3>4, <3>6, <4>1
    <3> QED BY <2>9, <3>4, <3>5, <3>6 DEF IInv, ListInv, NextInPriceOrder
  <2> QED BY <2>5, <2>10, <2>11 DEF Yields, ls
<1> QED BY <1>1, IInvHolds, PTL
-----------------------------------------------------------------------------
(***************************************************************************)
(* Without DistinctSnapshots, the list is not that of the map's nodes any  *)
(* more.  What follows is about walks: a chain of nodes, by position.      *)
(***************************************************************************)
Chain(ns, first, n, at) ==
    /\ n \in Nat /\ at \in [1 .. n -> DOMAIN ns]
    /\ first = IF n = 0 THEN NONE ELSE at[1]
    /\ \A k \in 1 .. n : ns[at[k]].next = IF k = n THEN NONE ELSE at[k + 1]

OnChain(n, at) == {at[k] : k \in 1 .. n}

(* The walk along a chain meets its nodes and ends.                        *)
LEMMA ReachedIs ==
    ASSUME NONE \notin DOMAIN nodes, NEW first, NEW n, NEW at, Chain(nodes, first, n, at)
    PROVE  Reached(first) = OnChain(n, at) /\ Ends(first)
<1>1. /\ n \in Nat /\ at \in [1 .. n -> DOMAIN nodes]
      /\ first = IF n = 0 THEN NONE ELSE at[1]
      /\ \A k \in 1 .. n : nodes[at[k]].next = IF k = n THEN NONE ELSE at[k + 1]
  BY DEF Chain
<1>2. Reached(first) \subseteq OnChain(n, at)
  <2>1. OnChain(n, at) \in SUBSET DOMAIN nodes
    BY <1>1 DEF OnChain
  <2>2. n # 0 => first \in OnChain(n, at)
    BY <1>1 DEF OnChain
  <2>3. \A k \in OnChain(n, at) : nodes[k].next \in OnChain(n, at) \cup {NONE}
    <3> SUFFICES ASSUME NEW k \in 1 .. n
                 PROVE  nodes[at[k]].next \in OnChain(n, at) \cup {NONE}
      BY DEF OnChain
    <3>1. k # n => k + 1 \in 1 .. n
      BY <1>1
    <3> QED BY <1>1, <3>1 DEF OnChain
  <2> QED BY <1>1, <2>1, <2>2, <2>3 DEF Reached
<1>3. OnChain(n, at) \subseteq Reached(first)
  <2> SUFFICES ASSUME NEW S \in SUBSET DOMAIN nodes,
                      \A j \in {first} \cup {nodes[k].next : k \in S} : j = NONE \/ j \in S
               PROVE  \A k \in 1 .. n : at[k] \in S
    BY <1>1 DEF OnChain, Reached
  <2> DEFINE B == {k \in 1 .. n : at[k] \notin S}
  <2>1. ASSUME B # {} PROVE FALSE
    <3>1. PICK m \in B : \A k \in B : m <= k
      <4>1. B \in SUBSET Nat
        OBVIOUS
      <4> HIDE DEF B
      <4> QED BY <2>1, <4>1, LeastNat
    <3>2. m \in 1 .. n /\ at[m] \notin S /\ at[m] # NONE
      BY <1>1, <3>1
    <3>3. m # 1
      BY <1>1, <3>2
    <3>4. m - 1 \in 1 .. n /\ m - 1 \notin B /\ m - 1 # n /\ (m - 1) + 1 = m
      BY <1>1, <3>1, <3>2, <3>3
    <3>5. at[m - 1] \in S /\ nodes[at[m - 1]].next = at[m]
      BY <1>1, <3>4
    <3> QED BY <3>2, <3>5
  <2> QED BY <2>1
<1>4. Ends(first)
  <2>1. CASE n = 0
    BY <1>1, <2>1 DEF Ends
  <2>2. CASE n # 0
    <3>1. n \in 1 .. n /\ nodes[at[n]].next = NONE
      BY <1>1, <2>2
    <3>2. at[n] \in Reached(first)
      BY <1>3, <3>1 DEF OnChain
    <3> QED BY <3>1, <3>2 DEF Ends
  <2> QED BY <2>1, <2>2
<1> QED BY <1>2, <1>3, <1>4

(* From a node on, it meets those behind it.                               *)
LEMMA ReachedFrom ==
    ASSUME NONE \notin DOMAIN nodes, NEW first, NEW n, NEW at, Chain(nodes, first, n, at),
           NEW i \in 1 .. n
    PROVE  Reached(at[i]) = {at[k] : k \in i .. n}
<1>1. /\ n \in Nat /\ at \in [1 .. n -> DOMAIN nodes]
      /\ \A k \in 1 .. n : nodes[at[k]].next = IF k = n THEN NONE ELSE at[k + 1]
  BY DEF Chain
<1> DEFINE m == (n - i) + 1
           bt == [k \in 1 .. m |-> at[k + (i - 1)]]
<1>2. m \in Nat /\ m # 0 /\ 1 \in 1 .. m
  BY <1>1
<1>3. \A k \in 1 .. m : /\ k + (i - 1) \in i .. n /\ k + (i - 1) \in 1 .. n
                        /\ k = m <=> k + (i - 1) = n
                        /\ k # m => k + 1 \in 1 .. m /\ (k + 1) + (i - 1) = (k + (i - 1)) + 1
  BY <1>1
<1>4. bt \in [1 .. m -> DOMAIN nodes] /\ \A k \in 1 .. m : bt[k] = at[k + (i - 1)]
  BY <1>1, <1>3
<1>5. \A k \in i .. n : k - (i - 1) \in 1 .. m /\ (k - (i - 1)) + (i - 1) = k
  BY <1>1
<1>6. bt[1] = at[i]
  BY <1>2, <1>4
<1> HIDE DEF m, bt
<1>7. \A k \in 1 .. m : nodes[bt[k]].next = IF k = m THEN NONE ELSE bt[k + 1]
  <2> SUFFICES ASSUME NEW k \in 1 .. m
               PROVE  nodes[bt[k]].next = IF k = m THEN NONE ELSE bt[k + 1]
    OBVIOUS
  <2>1. PICK j \in 1 .. n : j = k + (i - 1)
    BY <1>3
  <2>2. nodes[bt[k]].next = IF j = n THEN NONE ELSE at[j + 1]
    BY <1>1, <1>4, <2>1
  <2>3. k # m => bt[k + 1] = at[j + 1]
    BY <1>3, <1>4, <2>1
  <2> QED BY <1>3, <2>1, <2>2, <2>3
<1>8. Chain(nodes, at[i], m, bt)
  BY <1>2, <1>4, <1>6, <1>7 DEF Chain
<1>9. Reached(at[i]) = OnChain(m, bt)
  BY <1>8, ReachedIs
<1>10. OnChain(m, bt) = {at[k] : k \in i .. n}
  <2>1. \A k \in 1 .. m : bt[k] \in {at[j] : j \in i .. n}
    BY <1>3, <1>4
  <2>2. \A j \in i .. n : \E k \in 1 .. m : bt[k] = at[j]
    BY <1>4, <1>5
  <2> QED BY <2>1, <2>2 DEF OnChain
<1> QED BY <1>9, <1>10

(* The walk along the free list meets the free nodes and ends.             *)
LEMMA ReachedFree ==
    ASSUME TypeOK, NEW S \in SUBSET DOMAIN nodes, NEW fh, IsFreeList(S, fh, nodes)
    PROVE  Reached(fh) = S /\ Ends(fh)
<1>1. IsFiniteSet(S) /\ NONE \notin DOMAIN nodes
  BY PoolFacts, FS_Subset
<1>2. PICK n \in Nat : n = Cardinality(S)
  BY <1>1, FS_CardinalityType
<1>3. PICK st \in [1 .. n -> S] : FreeListOf(S, fh, nodes, st)
  BY <1>2 DEF IsFreeList
<1>4. /\ \A f \in S : \E k \in 1 .. n : st[k] = f
      /\ fh = IF n = 0 THEN NONE ELSE st[n]
      /\ \A k \in 1 .. n : nodes[st[k]].next = IF k = 1 THEN NONE ELSE st[k - 1]
  BY <1>2, <1>3 DEF FreeListOf
<1> DEFINE at == [k \in 1 .. n |-> st[(n + 1) - k]]
<1>5. \A k \in 1 .. n : /\ (n + 1) - k \in 1 .. n /\ (n + 1) - ((n + 1) - k) = k
                        /\ (n + 1) - k = 1 <=> k = n
                        /\ k # n => k + 1 \in 1 .. n /\ (n + 1) - (k + 1) = ((n + 1) - k) - 1
  OBVIOUS
<1>6. at \in [1 .. n -> DOMAIN nodes] /\ \A k \in 1 .. n : at[k] = st[(n + 1) - k]
  BY <1>5
<1>7. n # 0 => at[1] = st[n]
  BY <1>6
<1> HIDE DEF at
<1>8. \A k \in 1 .. n : nodes[at[k]].next = IF k = n THEN NONE ELSE at[k + 1]
  <2> SUFFICES ASSUME NEW k \in 1 .. n
               PROVE  nodes[at[k]].next = IF k = n THEN NONE ELSE at[k + 1]
    OBVIOUS
  <2>1. PICK j \in 1 .. n : j = (n + 1) - k
    BY <1>5
  <2>2. nodes[at[k]].next = IF j = 1 THEN NONE ELSE st[j - 1]
    BY <1>4, <1>6, <2>1
  <2>3. k # n => at[k + 1] = st[j - 1]
    BY <1>5, <1>6, <2>1
  <2> QED BY <1>5, <2>1, <2>2, <2>3
<1>9. Chain(nodes, fh, n, at)
  BY <1>4, <1>6, <1>7, <1>8 DEF Chain
<1>10. OnChain(n, at) = S
  <2>1. \A k \in 1 .. n : at[k] \in S
    BY <1>5, <1>6
  <2>2. \A f \in S : \E k \in 1 .. n : at[k] = f
    BY <1>4, <1>5, <1>6
  <2> QED BY <2>1, <2>2 DEF OnChain
<1> QED BY <1>1, <1>9, <1>10, ReachedIs
-----------------------------------------------------------------------------
(***************************************************************************)
(* The list, ghosts included, as the chain it is: no node twice, in price  *)
(* order, and every other node but the one being placed free.  While the   *)
(* nodes are reclaimed it is what is left of it.                           *)
(***************************************************************************)
ListedNodes(n, at) ==
    /\ n \in Nat /\ at \in [1 .. n -> DOMAIN nodes]
    /\ \A j, k \in 1 .. n : at[j] = at[k] => j = k
    /\ \A k \in 1 .. n : nodes[at[k]].next = IF k = n THEN NONE ELSE at[k + 1]
    /\ \A j, k \in 1 .. n : j < k => ~Before(at[k], at[j])
    /\ Placing \cap OnChain(n, at) = {}
    /\ IsFreeList(DOMAIN nodes \ (OnChain(n, at) \cup Placing), free_head, nodes)

ListedWhole(n, at) ==
    pc # "reclaim" =>
        /\ head = IF n = 0 THEN NONE ELSE at[1]
        /\ \A k \in 1 .. n : nodes[at[k]].prev = IF k = 1 THEN NONE ELSE at[k - 1]
        /\ Mapped \subseteq OnChain(n, at) \cup Placing

ListedCursor(n, at) ==
    /\ pc = "reclaim" => cur = IF n = 0 THEN NONE ELSE at[1]
    /\ pc = "link" =>
          /\ node \in Mapped
          /\ \E c \in 1 .. n : cur = at[c] /\ \A k \in 1 .. c - 1 : ~Before(node, at[k])

Listed(n, at) == ListedNodes(n, at) /\ ListedWhole(n, at) /\ ListedCursor(n, at)

ChainInv == TypeOK /\ MapFindsPrice /\ \E n, at : Listed(n, at)

(* A step that leaves list, map and free list as they are, though it may   *)
(* move a cursor.                                                          *)
LEMMA ListedFrame ==
    ASSUME TypeOK, MapFindsPrice, NEW n, NEW at, Listed(n, at),
           DOMAIN nodes' = DOMAIN nodes,
           \A i \in DOMAIN nodes : /\ nodes'[i].price = nodes[i].price
                                  /\ nodes'[i].next = nodes[i].next
                                  /\ nodes'[i].prev = nodes[i].prev,
           UNCHANGED <<free_head, head, tick_to_node>>, Placing' = Placing,
           pc' # "reclaim" => pc # "reclaim", ListedCursor(n, at)'
    PROVE  MapFindsPrice' /\ Listed(n, at)'
<1>1. ListedNodes(n, at) /\ ListedWhole(n, at) /\ Mapped' = Mapped
  BY DEF Listed, Mapped
<1>2. at \in [1 .. n -> DOMAIN nodes] /\ \A k \in 1 .. n : at[k] \in DOMAIN nodes
  BY <1>1 DEF ListedNodes
<1>3. MapFindsPrice'
  BY DEF MapFindsPrice, TypeOK
<1>4. ListedNodes(n, at)'
  <2> DEFINE S == DOMAIN nodes \ (OnChain(n, at) \cup Placing)
  <2>1. \A j, k \in 1 .. n : Before(at[k], at[j])' <=> Before(at[k], at[j])
    BY <1>2 DEF Before
  <2>2. IsFreeList(S, free_head, nodes)
    BY <1>1 DEF ListedNodes
  <2>3. \A f \in S : nodes'[f].next = nodes[f].next
    OBVIOUS
  <2> HIDE DEF S
  <2>4. IsFreeList(S, free_head, nodes')
    BY <2>2, <2>3, FreeSame
  <2>5. S = DOMAIN nodes' \ (OnChain(n, at) \cup Placing')
    BY DEF S
  <2> QED BY <1>1, <1>2, <2>1, <2>4, <2>5 DEF ListedNodes
<1>5. ListedWhole(n, at)'
  BY <1>1, <1>2 DEF ListedWhole
<1> QED BY <1>3, <1>4, <1>5 DEF Listed

(* Unless nodes are being reclaimed, the walk meets the chain's nodes.     *)
LEMMA ListIsChain ==
    ASSUME TypeOK, NEW n, NEW at, Listed(n, at), pc # "reclaim"
    PROVE  /\ Chain(nodes, head, n, at) /\ NONE \notin DOMAIN nodes
           /\ Reached(head) = OnChain(n, at) /\ Ends(head)
<1>1. Chain(nodes, head, n, at)
  BY DEF Listed, ListedNodes, ListedWhole, Chain
<1> QED BY <1>1, PoolFacts, ReachedIs

(* Calls to come leave the pool as it is.                                  *)
LEMMA ApplyLevelsLists ==
    ASSUME ChainInv, ApplyLevels
    PROVE  ChainInv'
<1>1. PICK n, at : Listed(n, at)
  BY DEF ChainInv
<1>2. /\ pc = "idle" /\ pc' = "reclaim" /\ cur' = head /\ rest' \in Seq(Level)
      /\ UNCHANGED <<nodes, free_head, head, tick_to_node, ret, node>>
  BY BookLevelsAssumption DEF ApplyLevels, struct
<1>3. head = IF n = 0 THEN NONE ELSE at[1]
  BY <1>1, <1>2 DEF Listed, ListedWhole
<1>4. head \in DOMAIN nodes \cup {NONE}
  BY <1>1, <1>3 DEF Listed, ListedNodes
<1>5. TypeOK'
  BY <1>2, <1>4 DEF ChainInv, TypeOK
<1>6. Placing' = Placing /\ ListedCursor(n, at)'
  BY <1>2, <1>3 DEF Placing, ListedCursor
<1>7. MapFindsPrice' /\ Listed(n, at)'
  BY <1>1, <1>2, <1>6, ListedFrame DEF ChainInv
<1> QED BY <1>5, <1>7 DEF ChainInv

(* An update touches sizes only; a level skipped, or none left, nothing.   *)
LEMMA UpdateLists ==
    ASSUME ChainInv, NEW p \in Price, NEW s \in Size, ApplyLevelUpdate(p, s), pc = "idle"
    PROVE  ChainInv' /\ \A n, at : Listed(n, at) => Listed(n, at)'
<1>1. PICK i : i = tick_to_node[p]
  OBVIOUS
<1>2. /\ i \in DOMAIN nodes /\ nodes' = [nodes EXCEPT ![i].size = s]
      /\ nodes \in [DOMAIN nodes -> LevelNode]
      /\ UNCHANGED <<free_head, head, tick_to_node, pc, ret, cur, node, rest>>
  BY <1>1, PoolFacts DEF ApplyLevelUpdate, locals, ChainInv, TypeOK
<1>3. /\ nodes' \in [DOMAIN nodes -> LevelNode] /\ DOMAIN nodes' = DOMAIN nodes
      /\ \A j \in DOMAIN nodes : /\ nodes'[j].price = nodes[j].price
                                /\ nodes'[j].next = nodes[j].next
                                /\ nodes'[j].prev = nodes[j].prev
  BY <1>2 DEF LevelNode
<1>4. TypeOK'
  <2>1. PICK n \in 0 .. NONE : nodes \in [0 .. n - 1 -> LevelNode]
    BY DEF ChainInv, TypeOK
  <2>2. nodes' \in [0 .. n - 1 -> LevelNode]
    BY <1>3, <2>1
  <2> QED BY <1>2, <1>3, <2>2 DEF ChainInv, TypeOK
<1>5. ASSUME NEW n, NEW at, Listed(n, at)
      PROVE  MapFindsPrice' /\ Listed(n, at)'
  <2>1. Placing' = Placing /\ ListedCursor(n, at)' /\ pc' = pc
    BY <1>2 DEF Placing, ListedCursor
  <2> QED BY <1>2, <1>3, <1>5, <2>1, ListedFrame DEF ChainInv
<1> QED BY <1>4, <1>5 DEF ChainInv

LEMMA RestLists ==
    ASSUME ChainInv, FillSkip \/ FillDone \/ UNCHANGED vars
    PROVE  ChainInv' /\ \A n, at : Listed(n, at) => Listed(n, at)'
<1>1. /\ UNCHANGED <<nodes, free_head, head, tick_to_node, ret, cur, node>>
      /\ pc' = pc \/ (pc = "fill" /\ pc' = "idle")
      /\ rest' = rest \/ (rest # <<>> /\ rest' = Tail(rest))
  BY DEF FillSkip, FillDone, struct, vars
<1>2. TypeOK'
  <2>1. rest' \in Seq(Level)
    <3>1. rest \in Seq(Level)
      BY DEF ChainInv, TypeOK
    <3> QED BY <1>1, <3>1
  <2> QED BY <1>1, <2>1 DEF ChainInv, TypeOK
<1>3. ASSUME NEW n, NEW at, Listed(n, at)
      PROVE  MapFindsPrice' /\ Listed(n, at)'
  <2>1. Placing' = Placing /\ ListedCursor(n, at)' /\ (pc' # "reclaim" => pc # "reclaim")
    BY <1>1, <1>3 DEF Placing, Listed, ListedCursor, Mapped, Before
  <2> QED BY <1>1, <1>3, <2>1, ListedFrame DEF ChainInv
<1> QED BY <1>2, <1>3 DEF ChainInv
(* A node reclaimed is the first of what is left of the list.              *)
LEMMA ReclaimLists ==
    ASSUME ChainInv, Reclaim
    PROVE  ChainInv'
<1>1. PICK n, at : Listed(n, at)
  BY DEF ChainInv
<1>2. /\ pc = "reclaim" /\ cur # NONE /\ cur = (IF n = 0 THEN NONE ELSE at[1])
      /\ n \in Nat /\ at \in [1 .. n -> DOMAIN nodes]
      /\ \A j, k \in 1 .. n : at[j] = at[k] => j = k
      /\ \A k \in 1 .. n : nodes[at[k]].next = IF k = n THEN NONE ELSE at[k + 1]
      /\ \A j, k \in 1 .. n : j < k => ~Before(at[k], at[j])
      /\ IsFreeList(DOMAIN nodes \ OnChain(n, at), free_head, nodes)
  BY <1>1 DEF Reclaim, Listed, ListedNodes, ListedCursor, Placing
<1>3. /\ nodes' = SetNext(nodes, cur, free_head) /\ free_head' = cur
      /\ cur' = nodes[cur].next /\ pc' = pc
      /\ UNCHANGED <<head, tick_to_node, ret, node, rest>>
  BY DEF Reclaim
<1>4. /\ TypeOK /\ nodes \in [DOMAIN nodes -> LevelNode] /\ DOMAIN nodes \subseteq Index
      /\ IsFiniteSet(DOMAIN nodes) /\ free_head \in Index \cup {NONE}
  BY PoolFacts DEF ChainInv, TypeOK
<1>5. n # 0 /\ cur = at[1] /\ 1 \in 1 .. n /\ cur \in DOMAIN nodes
  BY <1>2
<1>6. /\ nodes' \in [DOMAIN nodes -> LevelNode] /\ DOMAIN nodes' = DOMAIN nodes
      /\ \A j \in DOMAIN nodes :
            /\ nodes'[j].price = nodes[j].price
            /\ nodes'[j].next = IF j = cur THEN free_head ELSE nodes[j].next
  BY <1>3, <1>4, SetNextFacts
<1> DEFINE bt == [k \in 1 .. n - 1 |-> at[k + 1]]
<1>7. \A k \in 1 .. n - 1 : /\ k + 1 \in 1 .. n /\ k + 1 # 1 /\ bt[k] = at[k + 1]
                            /\ k = n - 1 <=> k + 1 = n
                            /\ k # n - 1 => k + 1 \in 1 .. n - 1
  BY <1>2
<1>8. bt \in [1 .. n - 1 -> DOMAIN nodes] /\ n - 1 \in Nat
  BY <1>2, <1>5, <1>7
<1>9. \A k \in 1 .. n : k # 1 => k - 1 \in 1 .. n - 1 /\ bt[k - 1] = at[k]
  BY <1>2
<1> HIDE DEF bt
<1>10. OnChain(n - 1, bt) = OnChain(n, at) \ {cur}
  <2>1. \A k \in 1 .. n - 1 : bt[k] \in OnChain(n, at) \ {cur}
    BY <1>2, <1>5, <1>7 DEF OnChain
  <2>2. \A k \in 1 .. n : at[k] # cur => \E j \in 1 .. n - 1 : bt[j] = at[k]
    BY <1>5, <1>9
  <2> QED BY <2>1, <2>2 DEF OnChain
<1>11. IsFreeList(DOMAIN nodes' \ OnChain(n - 1, bt), free_head', nodes')
  <2> DEFINE S == DOMAIN nodes \ OnChain(n, at)
  <2>1. cur \in OnChain(n, at)
    BY <1>5 DEF OnChain
  <2>2. IsFiniteSet(S) /\ cur \notin S /\ IsFreeList(S, free_head, nodes)
    BY <1>2, <1>4, <2>1, FS_Subset
  <2>3. nodes'[cur].next = free_head /\ \A f \in S : nodes'[f].next = nodes[f].next
    BY <1>5, <1>6, <2>1
  <2>4. S \cup {cur} = DOMAIN nodes' \ OnChain(n - 1, bt)
    BY <1>5, <1>6, <1>10, <2>1
  <2> HIDE DEF S
  <2>5. IsFreeList(S \cup {cur}, cur, nodes')
    BY <2>2, <2>3, FreePush
  <2> QED BY <1>3, <2>4, <2>5
<1>12. \A j, k \in 1 .. n - 1 : /\ bt[j] = bt[k] => j = k
                                /\ j < k => ~Before(bt[k], bt[j])'
  <2> SUFFICES ASSUME NEW j \in 1 .. n - 1, NEW k \in 1 .. n - 1
               PROVE  (bt[j] = bt[k] => j = k) /\ (j < k => ~Before(bt[k], bt[j])')
    OBVIOUS
  <2>1. /\ bt[j] = at[j + 1] /\ bt[k] = at[k + 1] /\ j + 1 \in 1 .. n /\ k + 1 \in 1 .. n
        /\ bt[j] \in DOMAIN nodes /\ bt[k] \in DOMAIN nodes
    BY <1>7, <1>8
  <2>2. bt[j] = bt[k] => j + 1 = k + 1
    BY <1>2, <2>1
  <2>3. j < k => ~Before(at[k + 1], at[j + 1])
    BY <1>2, <2>1
  <2>4. Before(bt[k], bt[j])' <=> Before(at[k + 1], at[j + 1])
    BY <1>6, <2>1 DEF Before
  <2> QED BY <2>2, <2>3, <2>4
<1>13. \A k \in 1 .. n - 1 : nodes'[bt[k]].next = IF k = n - 1 THEN NONE ELSE bt[k + 1]
  <2> SUFFICES ASSUME NEW k \in 1 .. n - 1
               PROVE  nodes'[bt[k]].next = IF k = n - 1 THEN NONE ELSE bt[k + 1]
    OBVIOUS
  <2>1. /\ bt[k] = at[k + 1] /\ k + 1 \in 1 .. n /\ bt[k] # cur /\ bt[k] \in DOMAIN nodes
        /\ k # n - 1 => bt[k + 1] = at[(k + 1) + 1]
    BY <1>2, <1>5, <1>7, <1>8
  <2>2. nodes'[bt[k]].next = IF k + 1 = n THEN NONE ELSE at[(k + 1) + 1]
    BY <1>2, <1>6, <2>1
  <2> QED BY <1>7, <2>1, <2>2
<1>14. Listed(n - 1, bt)'
  <2>1. Placing' = {} /\ pc' = "reclaim"
    BY <1>2, <1>3 DEF Placing
  <2>2. ListedNodes(n - 1, bt)'
    BY <1>6, <1>8, <1>11, <1>12, <1>13, <2>1 DEF ListedNodes
  <2>3. cur' = IF n - 1 = 0 THEN NONE ELSE bt[1]
    BY <1>2, <1>3, <1>5, <1>7
  <2> QED BY <2>1, <2>2, <2>3 DEF Listed, ListedWhole, ListedCursor
<1>15. TypeOK'
  <2>1. PICK m \in 0 .. NONE : nodes \in [0 .. m - 1 -> LevelNode]
    BY <1>4 DEF TypeOK
  <2>2. nodes' \in [0 .. m - 1 -> LevelNode]
    BY <1>6, <2>1
  <2>3. cur' \in DOMAIN nodes' \cup {NONE}
    BY <1>2, <1>3, <1>5, <1>6
  <2>4. free_head' \in Index \cup {NONE}
    BY <1>3, <1>4, <1>5
  <2> QED BY <1>3, <1>4, <1>6, <2>2, <2>3, <2>4 DEF TypeOK
<1>16. MapFindsPrice'
  BY <1>3, <1>4, <1>6 DEF MapFindsPrice, ChainInv, TypeOK
<1> QED BY <1>14, <1>15, <1>16 DEF ChainInv

(* With all nodes reclaimed, the list is empty.                            *)
LEMMA ReclaimDoneLists ==
    ASSUME ChainInv, ReclaimDone
    PROVE  ChainInv'
<1>1. PICK n, at : Listed(n, at)
  BY DEF ChainInv
<1>2. /\ pc = "reclaim" /\ cur = NONE /\ head' = NONE /\ tick_to_node' = <<>> /\ pc' = "fill"
      /\ UNCHANGED <<nodes, free_head, ret, cur, node, rest>>
  BY DEF ReclaimDone
<1>3. n = 0
  <2>1. n \in Nat /\ at \in [1 .. n -> DOMAIN nodes] /\ NONE = (IF n = 0 THEN NONE ELSE at[1])
    BY <1>1, <1>2 DEF Listed, ListedNodes, ListedCursor
  <2>2. NONE \notin DOMAIN nodes
    BY PoolFacts DEF ChainInv
  <2> QED BY <2>1, <2>2
<1>4. DOMAIN tick_to_node' = {} /\ Mapped' = {} /\ Placing = {} /\ Placing' = {}
  BY <1>2 DEF Mapped, Placing
<1>5. TypeOK' /\ MapFindsPrice'
  BY <1>2, <1>4 DEF ChainInv, TypeOK, MapFindsPrice
<1>6. ListedNodes(n, at)'
  BY <1>1, <1>2, <1>4 DEF Listed, ListedNodes, Before
<1>7. ListedWhole(n, at)' /\ ListedCursor(n, at)'
  BY <1>2, <1>3, <1>4 DEF ListedWhole, ListedCursor
<1> QED BY <1>5, <1>6, <1>7 DEF ChainInv, Listed
(* alloc_node and link up to its loop: the node is not on the list yet,    *)
(* or is all of it.  A ghost is made only of a price that is quoted.       *)
LEMMA InsertLists ==
    ASSUME TypeOK, MapFindsPrice, NEW n, NEW at, Listed(n, at), pc \in {"idle", "fill"},
           NEW lvl \in Level, Insert(lvl, pc), rest' \in Seq(Level)
    PROVE  /\ TypeOK' /\ MapFindsPrice'
           /\ \E m, bt : /\ Listed(m, bt)'
                         /\ lvl.price \notin DOMAIN tick_to_node =>
                               OnChain(m, bt) \ Mapped' = OnChain(n, at) \ Mapped
<1>1. CASE ~CanAlloc
  <2>1. UNCHANGED <<nodes, free_head, head, tick_to_node, pc, ret, cur, node>>
    BY <1>1 DEF Insert
  <2>2. TypeOK' /\ Mapped' = Mapped
    BY <2>1 DEF TypeOK, Mapped
  <2>3. Placing' = Placing /\ ListedCursor(n, at)'
    BY <2>1 DEF Placing, ListedCursor
  <2>4. MapFindsPrice' /\ Listed(n, at)'
    BY <2>1, <2>3, ListedFrame
  <2> QED BY <2>2, <2>4
<1>2. CASE CanAlloc
  <2> DEFINE S == DOMAIN nodes \ OnChain(n, at)
  <2>1. /\ n \in Nat /\ at \in [1 .. n -> DOMAIN nodes] /\ Placing = {}
        /\ \A j, k \in 1 .. n : at[j] = at[k] => j = k
        /\ \A k \in 1 .. n : nodes[at[k]].next = IF k = n THEN NONE ELSE at[k + 1]
        /\ \A j, k \in 1 .. n : j < k => ~Before(at[k], at[j])
        /\ IsFreeList(S, free_head, nodes)
        /\ head = IF n = 0 THEN NONE ELSE at[1]
        /\ \A k \in 1 .. n : nodes[at[k]].prev = IF k = 1 THEN NONE ELSE at[k - 1]
        /\ Mapped \subseteq OnChain(n, at)
    BY DEF Listed, ListedNodes, ListedWhole, Placing
  <2>2. PICK i : i = AllocIndex
    OBVIOUS
  <2>3. /\ nodes' = WithNode(i, lvl)
        /\ free_head' = FreeHeadAfterAlloc
        /\ tick_to_node' = [t \in DOMAIN tick_to_node \cup {lvl.price} |->
                               IF t = lvl.price THEN i ELSE tick_to_node[t]]
        /\ IF head = NONE
           THEN head' = i /\ pc' = pc /\ UNCHANGED <<ret, cur, node>>
           ELSE cur' = head /\ node' = i /\ ret' = pc /\ pc' = "link" /\ UNCHANGED head
    BY <1>2, <2>2 DEF Insert
  <2>4. /\ OnChain(n, at) \subseteq DOMAIN nodes /\ NONE \notin DOMAIN nodes
        /\ nodes \in [DOMAIN nodes -> LevelNode]
        /\ \A k \in 1 .. n : at[k] \in OnChain(n, at)
    BY <2>1, PoolFacts DEF OnChain
  <2>5. /\ i \in Index /\ i \notin OnChain(n, at) /\ FreeHeadAfterAlloc \in Index \cup {NONE}
        /\ \E m \in 0 .. NONE : DOMAIN nodes \cup {i} = 0 .. m - 1
        /\ \A ns : (\A f \in S \ {i} : ns[f].next = nodes[f].next)
                      => IsFreeList(S \ {i}, FreeHeadAfterAlloc, ns)
    <3>1. S \in SUBSET DOMAIN nodes /\ IsFreeList(S, free_head, nodes)
      BY <2>1
    <3>2. DOMAIN nodes \ S = OnChain(n, at)
      BY <2>4
    <3> HIDE DEF S
    <3> QED BY <1>2, <2>2, <3>1, <3>2, AllocatedFrom
  <2>6. /\ DOMAIN nodes' = DOMAIN nodes \cup {i}
        /\ nodes'[i] = [price |-> lvl.price, size |-> lvl.size, next |-> NONE, prev |-> NONE]
        /\ \A j \in DOMAIN nodes : j # i => nodes'[j] = nodes[j]
    BY <2>3 DEF WithNode
  <2>7. nodes' \in [DOMAIN nodes \cup {i} -> LevelNode]
    <3>1. nodes'[i] \in LevelNode
      BY <2>6 DEF LevelNode, Level
    <3>2. nodes' = [j \in DOMAIN nodes \cup {i} |-> nodes'[j]]
      BY <2>3 DEF WithNode
    <3>3. \A j \in DOMAIN nodes \cup {i} : nodes'[j] \in LevelNode
      BY <2>4, <2>6, <3>1
    <3> QED BY <3>2, <3>3
  <2>8. /\ DOMAIN tick_to_node' = DOMAIN tick_to_node \cup {lvl.price}
        /\ tick_to_node'[lvl.price] = i
        /\ \A t \in DOMAIN tick_to_node : t # lvl.price => tick_to_node'[t] = tick_to_node[t]
    BY <2>3
  <2>9. /\ Mapped' \subseteq Mapped \cup {i} /\ i \in Mapped'
        /\ lvl.price \notin DOMAIN tick_to_node => Mapped' = Mapped \cup {i}
    BY <2>8 DEF Mapped
  <2>10. MapFindsPrice'
    BY <2>1, <2>4, <2>5, <2>6, <2>8 DEF MapFindsPrice, TypeOK, Mapped
  <2>11. TypeOK'
    <3>1. PICK m \in 0 .. NONE : DOMAIN nodes \cup {i} = 0 .. m - 1
      BY <2>5
    <3>2. \E m1 \in 0 .. NONE : nodes' \in [0 .. m1 - 1 -> LevelNode]
      BY <2>7, <3>1
    <3>3. free_head' \in Index \cup {NONE}
      BY <2>3, <2>5
    <3>4. head \in DOMAIN nodes \cup {NONE}
      BY <2>1
    <3>5. /\ head' \in Index \cup {NONE}
          /\ cur' \in DOMAIN nodes' \cup {NONE} /\ node' \in DOMAIN nodes' \cup {NONE}
          /\ pc' \in {"idle", "fill", "link"} /\ ret' \in {"idle", "fill"}
      BY <2>3, <2>5, <2>6, <3>4 DEF TypeOK
    <3>6. /\ DOMAIN tick_to_node' \subseteq Price
          /\ \A t \in DOMAIN tick_to_node' : tick_to_node'[t] \in DOMAIN nodes'
      BY <2>6, <2>8 DEF TypeOK, Level
    <3> QED BY <3>2, <3>3, <3>5, <3>6 DEF TypeOK
  <2>12. IsFreeList(S \ {i}, free_head', nodes')
    <3>1. \A f \in S \ {i} : nodes'[f].next = nodes[f].next
      BY <2>6
    <3> HIDE DEF S
    <3> QED BY <2>3, <2>5, <3>1
  <2>13. CASE head = NONE
    <3>1. n = 0 /\ OnChain(n, at) = {} /\ Mapped = {}
      BY <2>1, <2>4, <2>13 DEF OnChain
    <3>2. pc' = pc /\ head' = i /\ Placing' = {} /\ Mapped' = {i}
      BY <2>3, <2>9, <2>13, <3>1 DEF Placing
    <3> DEFINE bt == [k \in 1 .. 1 |-> i]
    <3>3. bt \in [1 .. 1 -> DOMAIN nodes'] /\ OnChain(1, bt) = {i} /\ bt[1] = i
          /\ \A k \in 1 .. 1 : k = 1
      BY <2>6 DEF OnChain
    <3> HIDE DEF bt
    <3>4. S \ {i} = DOMAIN nodes' \ (OnChain(1, bt) \cup Placing')
      BY <2>6, <3>1, <3>2, <3>3
    <3> HIDE DEF S
    <3>5. ListedNodes(1, bt)'
      <4>1. \A j, k \in 1 .. 1 : j = k /\ ~(j < k)
        OBVIOUS
      <4>2. \A k \in 1 .. 1 : nodes'[bt[k]].next = IF k = 1 THEN NONE ELSE bt[k + 1]
        BY <2>6, <3>3
      <4>3. IsFreeList(DOMAIN nodes' \ (OnChain(1, bt) \cup Placing'), free_head', nodes')
        BY <2>12, <3>4
      <4> QED BY <3>2, <3>3, <4>1, <4>2, <4>3 DEF ListedNodes
    <3>6. ListedWhole(1, bt)' /\ ListedCursor(1, bt)'
      BY <2>6, <3>2, <3>3 DEF ListedWhole, ListedCursor
    <3>7. OnChain(1, bt) \ Mapped' = OnChain(n, at) \ Mapped
      BY <3>1, <3>2, <3>3
    <3>8. Listed(1, bt)'
      BY <3>5, <3>6 DEF Listed
    <3> QED BY <2>10, <2>11, <3>7, <3>8
  <2>14. CASE head # NONE
    <3>1. /\ pc' = "link" /\ node' = i /\ cur' = head /\ head' = head /\ Placing' = {i}
          /\ n # 0 /\ 1 \in 1 .. n /\ head = at[1]
      BY <2>1, <2>3, <2>14 DEF Placing
    <3>2. \A k \in 1 .. n : at[k] \in DOMAIN nodes /\ at[k] # i /\ nodes'[at[k]] = nodes[at[k]]
      BY <2>4, <2>5, <2>6
    <3>3. \A j, k \in 1 .. n : Before(at[k], at[j])' <=> Before(at[k], at[j])
      BY <3>2 DEF Before
    <3>4. S \ {i} = DOMAIN nodes' \ (OnChain(n, at) \cup Placing')
      BY <2>6, <3>1
    <3>5. at \in [1 .. n -> DOMAIN nodes'] /\ Placing' \cap OnChain(n, at) = {}
      BY <2>1, <2>5, <2>6, <3>1
    <3> HIDE DEF S
    <3>6. ListedNodes(n, at)'
      BY <2>1, <2>12, <3>2, <3>3, <3>4, <3>5 DEF ListedNodes
    <3>7. ListedWhole(n, at)'
      BY <2>1, <2>9, <3>1, <3>2 DEF ListedWhole
    <3>8. ListedCursor(n, at)'
      <4>1. 1 .. 1 - 1 = {}
        OBVIOUS
      <4> QED BY <2>9, <3>1, <4>1 DEF ListedCursor
    <3>9. Listed(n, at)'
      BY <3>6, <3>7, <3>8 DEF Listed
    <3>10. lvl.price \notin DOMAIN tick_to_node =>
              OnChain(n, at) \ Mapped' = OnChain(n, at) \ Mapped
      BY <2>5, <2>9
    <3> QED BY <2>10, <2>11, <3>9, <3>10
  <2> QED BY <2>13, <2>14
<1> QED BY <1>1, <1>2
(* The node link places goes between two neighbours on the list, or to one *)
(* of its ends, and is no ghost: the map found it all along.               *)
LEMMA SpliceLists ==
    ASSUME TypeOK, MapFindsPrice, pc = "link", NEW n, NEW at, Listed(n, at),
           NEW c \in 1 .. n + 1, NEW h, NEW j,
           h = IF c = 1 THEN NONE ELSE at[c - 1], j = IF c = n + 1 THEN NONE ELSE at[c],
           nodes' = Splice(nodes, node, h, j), head' = IF c = 1 THEN node ELSE head,
           LinkReturn, UNCHANGED <<free_head, tick_to_node, rest>>,
           \A k \in 1 .. n : IF k < c THEN ~Before(node, at[k]) ELSE ~Before(at[k], node)
    PROVE  /\ TypeOK' /\ MapFindsPrice'
           /\ \E m, bt : Listed(m, bt)' /\ OnChain(m, bt) \ Mapped' = OnChain(n, at) \ Mapped
<1>1. PICK i : i = node
  OBVIOUS
<1>2. /\ n \in Nat /\ n # 0 /\ at \in [1 .. n -> DOMAIN nodes] /\ Placing = {i} /\ i \in Mapped
      /\ \A k, l \in 1 .. n : at[k] = at[l] => k = l
      /\ \A k \in 1 .. n : nodes[at[k]].next = IF k = n THEN NONE ELSE at[k + 1]
      /\ \A k \in 1 .. n : nodes[at[k]].prev = IF k = 1 THEN NONE ELSE at[k - 1]
      /\ \A k, l \in 1 .. n : k < l => ~Before(at[l], at[k])
      /\ {i} \cap OnChain(n, at) = {} /\ head = at[1] /\ Mapped \subseteq OnChain(n, at) \cup {i}
      /\ IsFreeList(DOMAIN nodes \ (OnChain(n, at) \cup {i}), free_head, nodes)
  BY <1>1 DEF Listed, ListedNodes, ListedWhole, ListedCursor, Placing
<1>3. /\ NONE \notin DOMAIN nodes /\ DOMAIN nodes \subseteq Index
      /\ nodes \in [DOMAIN nodes -> LevelNode] /\ i \in DOMAIN nodes
  BY <1>2, PoolFacts DEF Mapped, TypeOK
<1>4. \A k \in 1 .. n : at[k] \in DOMAIN nodes /\ at[k] # i /\ at[k] # NONE
  BY <1>2, <1>3 DEF OnChain
<1>5. /\ c # 1 => c - 1 \in 1 .. n /\ h = at[c - 1]
      /\ c # n + 1 => c \in 1 .. n /\ j = at[c]
  BY <1>2
<1>6. /\ h \in DOMAIN nodes \cup {NONE} /\ j \in DOMAIN nodes \cup {NONE} /\ h # i /\ j # i
      /\ i # NONE
  BY <1>3, <1>4, <1>5
<1>7. /\ nodes' \in [DOMAIN nodes -> LevelNode] /\ DOMAIN nodes' = DOMAIN nodes
      /\ \A k \in DOMAIN nodes :
           /\ nodes'[k].price = nodes[k].price
           /\ nodes'[k].next = IF k = h THEN i ELSE IF k = i THEN j ELSE nodes[k].next
           /\ nodes'[k].prev = IF k = j THEN i ELSE IF k = i THEN h ELSE nodes[k].prev
  <2>1. Spliced(nodes, Splice(nodes, i, h, j), DOMAIN nodes, i, h, j)
    BY <1>3, <1>6, SpliceFacts
  <2> QED BY <1>1, <2>1 DEF Spliced
<1>8. /\ pc' = ret /\ ret' = "idle" /\ cur' = NONE /\ node' = NONE /\ pc' \in {"idle", "fill"}
      /\ Mapped' = Mapped /\ Placing' = {}
  BY DEF LinkReturn, TypeOK, Mapped, Placing
<1>9. TypeOK' /\ MapFindsPrice'
  <2>1. \E m \in 0 .. NONE : nodes' \in [0 .. m - 1 -> LevelNode]
    BY <1>7, PoolFacts
  <2>2. head' \in Index \cup {NONE}
    BY <1>1, <1>3 DEF TypeOK
  <2>3. TypeOK'
    BY <1>7, <1>8, <2>1, <2>2 DEF TypeOK
  <2>4. MapFindsPrice'
    BY <1>7 DEF MapFindsPrice, TypeOK
  <2> QED BY <2>3, <2>4
<1> DEFINE m == n + 1
           bt == [k \in 1 .. m |-> IF k < c THEN at[k] ELSE IF k = c THEN i ELSE at[k - 1]]
<1>10. /\ m \in Nat /\ m # 0 /\ 1 \in 1 .. m /\ c \in 1 .. m /\ m = n + 1
       /\ \A k \in 1 .. m : /\ k \in Nat /\ (k < c \/ k = c \/ c < k)
                            /\ k < c => k \in 1 .. n
                            /\ c < k => k - 1 \in 1 .. n /\ c <= k - 1
                            /\ k # m => k + 1 \in 1 .. m
                            /\ k # 1 => k - 1 \in 1 .. m
  BY <1>2
<1>11. /\ bt[c] = i
       /\ \A k \in 1 .. m : (k < c => bt[k] = at[k]) /\ (c < k => bt[k] = at[k - 1])
  BY <1>10
<1>12. bt \in [1 .. m -> DOMAIN nodes]
  BY <1>3, <1>4, <1>10
<1> HIDE DEF m, bt
<1>13. OnChain(m, bt) = OnChain(n, at) \cup {i}
  <2>1. \A k \in 1 .. m : bt[k] \in OnChain(n, at) \cup {i}
    BY <1>10, <1>11 DEF OnChain
  <2>2. \A k \in 1 .. n : \E l \in 1 .. m : bt[l] = at[k]
    <3> SUFFICES ASSUME NEW k \in 1 .. n
                 PROVE  \E l \in 1 .. m : bt[l] = at[k]
      OBVIOUS
    <3>1. CASE k < c
      BY <1>10, <1>11, <3>1
    <3>2. CASE ~(k < c)
      <4>1. k + 1 \in 1 .. m /\ c < k + 1 /\ (k + 1) - 1 = k
        BY <1>2, <1>10, <3>2
      <4> QED BY <1>11, <4>1
    <3> QED BY <3>1, <3>2
  <2> QED BY <1>10, <1>11, <2>1, <2>2 DEF OnChain
<1>14. \A k, l \in 1 .. m : k < l => bt[k] # bt[l] /\ ~Before(bt[l], bt[k])
  <2> SUFFICES ASSUME NEW k \in 1 .. m, NEW l \in 1 .. m, k < l
               PROVE  bt[k] # bt[l] /\ ~Before(bt[l], bt[k])
    OBVIOUS
  <2>1. k \in Nat /\ l \in Nat /\ c \in Nat
    BY <1>10
  <2>2. CASE l < c
    BY <1>2, <1>10, <1>11, <2>1, <2>2
  <2>3. CASE l = c
    BY <1>1, <1>4, <1>10, <1>11, <2>1, <2>3
  <2>4. CASE c < l /\ k < c
    BY <1>2, <1>10, <1>11, <2>1, <2>4
  <2>5. CASE k = c
    BY <1>1, <1>4, <1>10, <1>11, <2>1, <2>5
  <2>6. CASE c < k
    <3>1. /\ bt[k] = at[k - 1] /\ bt[l] = at[l - 1] /\ k - 1 \in 1 .. n /\ l - 1 \in 1 .. n
          /\ k - 1 < l - 1 /\ k - 1 # l - 1
      BY <1>10, <1>11, <2>1, <2>6
    <3> QED BY <1>2, <3>1
  <2> QED BY <2>1, <2>2, <2>3, <2>4, <2>5, <2>6
<1>15. \A k \in 1 .. m : nodes'[bt[k]].next = IF k = m THEN NONE ELSE bt[k + 1]
  <2> SUFFICES ASSUME NEW k \in 1 .. m
               PROVE  nodes'[bt[k]].next = IF k = m THEN NONE ELSE bt[k + 1]
    OBVIOUS
  <2>1. k \in Nat /\ n \in Nat /\ c \in Nat /\ c <= m
    BY <1>10, <1>2
  <2>2. CASE k = c
    <3>1. nodes'[bt[k]].next = j
      BY <1>3, <1>6, <1>7, <1>11, <2>2
    <3>2. k # m => bt[k + 1] = at[k]
      BY <1>10, <1>11, <2>1, <2>2
    <3> QED BY <1>5, <1>10, <2>2, <3>1, <3>2
  <2>3. CASE k + 1 = c
    <3>1. k \in 1 .. n /\ bt[k] = h /\ bt[k + 1] = i /\ k # m /\ bt[k] \in DOMAIN nodes
      BY <1>4, <1>5, <1>10, <1>11, <2>1, <2>3
    <3> QED BY <1>7, <3>1
  <2>4. CASE k + 1 < c
    <3>1. /\ k \in 1 .. n /\ k + 1 \in 1 .. m /\ k # n /\ k # m /\ bt[k] = at[k] /\ bt[k + 1] = at[k + 1]
          /\ c # 1 /\ k # c - 1
      BY <1>10, <1>11, <2>1, <2>4
    <3>2. at[k] # h /\ at[k] # i /\ at[k] \in DOMAIN nodes
      BY <1>2, <1>4, <1>5, <3>1
    <3> QED BY <1>2, <1>7, <3>1, <3>2
  <2>5. CASE c < k
    <3>1. /\ k - 1 \in 1 .. n /\ bt[k] = at[k - 1] /\ (c # 1 => k - 1 # c - 1)
          /\ k - 1 = n <=> k = m
          /\ k # m => bt[k + 1] = at[k] /\ (k - 1) + 1 = k
      BY <1>10, <1>11, <2>1, <2>5
    <3>2. at[k - 1] # h /\ at[k - 1] # i /\ at[k - 1] \in DOMAIN nodes
      BY <1>2, <1>4, <1>5, <3>1
    <3>3. nodes'[bt[k]].next = nodes[at[k - 1]].next
      BY <1>7, <3>1, <3>2
    <3> QED BY <1>2, <3>1, <3>3
  <2> QED BY <2>1, <2>2, <2>3, <2>4, <2>5
<1>16. \A k \in 1 .. m : nodes'[bt[k]].prev = IF k = 1 THEN NONE ELSE bt[k - 1]
  <2> SUFFICES ASSUME NEW k \in 1 .. m
               PROVE  nodes'[bt[k]].prev = IF k = 1 THEN NONE ELSE bt[k - 1]
    OBVIOUS
  <2>1. k \in Nat /\ n \in Nat /\ c \in Nat /\ c <= m
    BY <1>10, <1>2
  <2>2. CASE k = c
    <3>1. nodes'[bt[k]].prev = h
      BY <1>3, <1>6, <1>7, <1>11, <2>2
    <3>2. k # 1 => bt[k - 1] = at[k - 1]
      BY <1>10, <1>11, <2>1, <2>2
    <3> QED BY <1>5, <2>2, <3>1, <3>2
  <2>3. CASE k = c + 1
    <3>1. c \in 1 .. n /\ c # m /\ bt[k] = at[c] /\ k - 1 = c /\ k # 1
      BY <1>10, <1>11, <2>1, <2>3
    <3>2. bt[k] = j /\ bt[k] \in DOMAIN nodes
      BY <1>4, <1>5, <1>10, <3>1
    <3> QED BY <1>7, <1>11, <3>1, <3>2
  <2>4. CASE k < c
    <3>1. k \in 1 .. n /\ bt[k] = at[k] /\ (k # 1 => bt[k - 1] = at[k - 1]) /\ k # c
      BY <1>10, <1>11, <2>1, <2>4
    <3>2. at[k] # j /\ at[k] # i /\ at[k] \in DOMAIN nodes
      BY <1>2, <1>4, <1>5, <3>1
    <3> QED BY <1>2, <1>7, <3>1, <3>2
  <2>5. CASE c + 1 < k
    <3>1. /\ k - 1 \in 1 .. n /\ bt[k] = at[k - 1] /\ k - 1 # c /\ k # 1 /\ k - 1 # 1
          /\ bt[k - 1] = at[(k - 1) - 1]
      BY <1>10, <1>11, <2>1, <2>5
    <3>2. at[k - 1] # j /\ at[k - 1] # i /\ at[k - 1] \in DOMAIN nodes
      BY <1>2, <1>4, <1>5, <3>1
    <3>3. nodes'[bt[k]].prev = nodes[at[k - 1]].prev
      BY <1>7, <3>1, <3>2
    <3> QED BY <1>2, <3>1, <3>3
  <2> QED BY <2>1, <2>2, <2>3, <2>4, <2>5
<1>17. IsFreeList(DOMAIN nodes' \ OnChain(m, bt), free_head', nodes')
  <2> DEFINE S == DOMAIN nodes \ (OnChain(n, at) \cup {i})
  <2>1. h = NONE \/ h \in OnChain(n, at)
    BY <1>5 DEF OnChain
  <2>2. \A f \in S : nodes'[f].next = nodes[f].next
    BY <1>3, <1>7, <2>1
  <2>3. IsFreeList(S, free_head, nodes) /\ S = DOMAIN nodes' \ OnChain(m, bt)
    BY <1>2, <1>7, <1>13
  <2> HIDE DEF S
  <2>4. IsFreeList(S, free_head, nodes')
    BY <2>2, <2>3, FreeSame
  <2> QED BY <2>3, <2>4
<1>18. Listed(m, bt)'
  <2>1. \A k, l \in 1 .. m : Before(bt[l], bt[k])' <=> Before(bt[l], bt[k])
    BY <1>7, <1>12 DEF Before
  <2>2. \A k, l \in 1 .. m : bt[k] = bt[l] => k = l
    <3>1. \A k, l \in 1 .. m : k < l \/ l < k \/ k = l
      BY <1>10
    <3> QED BY <1>14, <3>1
  <2>3. bt \in [1 .. m -> DOMAIN nodes'] /\ m \in Nat
    BY <1>7, <1>10, <1>12
  <2>4. ListedNodes(m, bt)'
    BY <1>8, <1>14, <1>15, <1>17, <2>1, <2>2, <2>3 DEF ListedNodes
  <2>5. head' = bt[1]
    BY <1>1, <1>2, <1>10, <1>11
  <2>6. ListedWhole(m, bt)' /\ ListedCursor(m, bt)'
    BY <1>2, <1>8, <1>10, <1>13, <1>16, <2>5 DEF ListedWhole, ListedCursor
  <2> QED BY <2>4, <2>6 DEF Listed
<1>19. OnChain(m, bt) \ Mapped' = OnChain(n, at) \ Mapped
  BY <1>2, <1>8, <1>13
<1> QED BY <1>9, <1>18, <1>19
(* A step that keeps ChainInv and neither makes a ghost nor removes one.   *)
GhostsStay ==
    /\ ChainInv'
    /\ \E n, at, m, bt : /\ Listed(n, at) /\ Listed(m, bt)'
                         /\ OnChain(m, bt) \ Mapped' = OnChain(n, at) \ Mapped

LEMMA LinkBeforeLists ==
    ASSUME ChainInv, LinkBefore
    PROVE  GhostsStay
<1>1. PICK n, at : Listed(n, at)
  BY DEF ChainInv
<1>2. /\ TypeOK /\ MapFindsPrice /\ pc = "link" /\ Before(node, cur)
      /\ nodes' = Splice(nodes, node, nodes[cur].prev, cur) /\ node \in Mapped
      /\ head' = (IF nodes[cur].prev = NONE THEN node ELSE head) /\ LinkReturn
      /\ UNCHANGED <<free_head, tick_to_node, rest>>
  BY <1>1 DEF LinkBefore, Before, ChainInv, Listed, ListedCursor
<1>3. PICK c \in 1 .. n : cur = at[c] /\ \A k \in 1 .. c - 1 : ~Before(node, at[k])
  BY <1>1, <1>2 DEF Listed, ListedCursor
<1>4. /\ n \in Nat /\ at \in [1 .. n -> DOMAIN nodes] /\ node \in DOMAIN nodes
      /\ nodes[cur].prev = (IF c = 1 THEN NONE ELSE at[c - 1])
      /\ \A k, l \in 1 .. n : k < l => ~Before(at[l], at[k])
      /\ NONE \notin DOMAIN nodes
  BY <1>1, <1>2, <1>3, PoolFacts DEF Listed, ListedNodes, ListedWhole, Mapped, TypeOK
<1>5. c \in 1 .. n + 1 /\ c # n + 1 /\ (c # 1 => c - 1 \in 1 .. n)
  BY <1>3, <1>4
<1>6. nodes[cur].prev = NONE <=> c = 1
  BY <1>4, <1>5
<1>7. ASSUME NEW k \in 1 .. n
      PROVE  IF k < c THEN ~Before(node, at[k]) ELSE ~Before(at[k], node)
  <2>1. CASE k < c
    BY <1>3, <1>4, <2>1
  <2>2. CASE ~(k < c)
    <3>1. k = c \/ c < k
      BY <1>4, <2>2
    <3>2. ~Before(at[k], at[c])
      <4>1. k = c => ~Before(at[k], at[c])
        BY <1>2, <1>4, BeforeOrder
      <4> QED BY <1>4, <3>1, <4>1
    <3>3. Before(at[k], node) => Before(at[k], at[c])
      BY <1>2, <1>3, <1>4, BeforeOrder
    <3> QED BY <2>2, <3>2, <3>3
  <2> QED BY <2>1, <2>2
<1> DEFINE h == IF c = 1 THEN NONE ELSE at[c - 1]
           j == IF c = n + 1 THEN NONE ELSE at[c]
<1>8. /\ nodes' = Splice(nodes, node, h, j)
      /\ head' = (IF c = 1 THEN node ELSE head)
  BY <1>2, <1>3, <1>4, <1>5, <1>6
<1> HIDE DEF h, j
<1>9. h = (IF c = 1 THEN NONE ELSE at[c - 1]) /\ j = (IF c = n + 1 THEN NONE ELSE at[c])
  BY DEF h, j
<1>10. /\ TypeOK' /\ MapFindsPrice'
       /\ \E m, bt : Listed(m, bt)' /\ OnChain(m, bt) \ Mapped' = OnChain(n, at) \ Mapped
  BY <1>1, <1>2, <1>5, <1>7, <1>8, <1>9, SpliceLists
<1> QED BY <1>1, <1>10 DEF ChainInv, GhostsStay

LEMMA LinkLastLists ==
    ASSUME ChainInv, LinkLast
    PROVE  GhostsStay
<1>1. PICK n, at : Listed(n, at)
  BY DEF ChainInv
<1>2. /\ TypeOK /\ MapFindsPrice /\ pc = "link" /\ ~Before(node, cur) /\ nodes[cur].next = NONE
      /\ nodes' = Splice(nodes, node, cur, NONE) /\ head' = head /\ LinkReturn
      /\ UNCHANGED <<free_head, tick_to_node, rest>>
  BY DEF LinkLast, Before, ChainInv
<1>3. PICK c \in 1 .. n : cur = at[c] /\ \A k \in 1 .. c - 1 : ~Before(node, at[k])
  BY <1>1, <1>2 DEF Listed, ListedCursor
<1>4. /\ n \in Nat /\ at \in [1 .. n -> DOMAIN nodes] /\ NONE \notin DOMAIN nodes
      /\ nodes[cur].next = IF c = n THEN NONE ELSE at[c + 1]
  BY <1>1, <1>2, <1>3, PoolFacts DEF Listed, ListedNodes
<1>5. c = n
  <2>1. c # n => c + 1 \in 1 .. n
    BY <1>3, <1>4
  <2> QED BY <1>2, <1>4, <2>1
<1>6. n + 1 \in 1 .. n + 1 /\ n + 1 # 1 /\ (n + 1) - 1 = n
  BY <1>3, <1>4
<1>7. ASSUME NEW k \in 1 .. n
      PROVE  IF k < n + 1 THEN ~Before(node, at[k]) ELSE ~Before(at[k], node)
  <2>1. k < n + 1 /\ (k = n \/ k \in 1 .. n - 1)
    BY <1>4
  <2> QED BY <1>2, <1>3, <1>5, <2>1
<1>8. /\ cur = (IF n + 1 = 1 THEN NONE ELSE at[(n + 1) - 1])
      /\ NONE = (IF n + 1 = n + 1 THEN NONE ELSE at[n + 1])
      /\ head' = (IF n + 1 = 1 THEN node ELSE head)
  BY <1>2, <1>3, <1>5, <1>6
<1>9. /\ TypeOK' /\ MapFindsPrice'
      /\ \E m, bt : Listed(m, bt)' /\ OnChain(m, bt) \ Mapped' = OnChain(n, at) \ Mapped
  BY <1>1, <1>2, <1>6, <1>7, <1>8, SpliceLists
<1> QED BY <1>1, <1>9 DEF ChainInv, GhostsStay

LEMMA LinkAdvanceLists ==
    ASSUME ChainInv, LinkAdvance
    PROVE  GhostsStay
<1>1. PICK n, at : Listed(n, at)
  BY DEF ChainInv
<1>2. /\ TypeOK /\ MapFindsPrice /\ pc = "link" /\ ~Before(node, cur) /\ nodes[cur].next # NONE
      /\ cur' = nodes[cur].next
      /\ UNCHANGED <<nodes, free_head, head, tick_to_node, pc, ret, node, rest>>
  BY DEF LinkAdvance, Before, ChainInv, struct
<1>3. PICK c \in 1 .. n : cur = at[c] /\ \A k \in 1 .. c - 1 : ~Before(node, at[k])
  BY <1>1, <1>2 DEF Listed, ListedCursor
<1>4. /\ n \in Nat /\ at \in [1 .. n -> DOMAIN nodes] /\ node \in Mapped
      /\ nodes[cur].next = IF c = n THEN NONE ELSE at[c + 1]
  BY <1>1, <1>2, <1>3 DEF Listed, ListedNodes, ListedCursor
<1>5. c + 1 \in 1 .. n /\ cur' = at[c + 1] /\ cur' \in DOMAIN nodes
  BY <1>2, <1>3, <1>4
<1>6. \A k \in 1 .. (c + 1) - 1 : ~Before(node, at[k])
  <2>1. \A k \in 1 .. (c + 1) - 1 : k = c \/ k \in 1 .. c - 1
    BY <1>4
  <2> QED BY <1>2, <1>3, <2>1
<1>7. Mapped' = Mapped /\ Placing' = Placing /\ \A k : Before(node, at[k])' <=> Before(node, at[k])
  BY <1>2 DEF Mapped, Placing, Before
<1>8. ListedCursor(n, at)'
  BY <1>2, <1>4, <1>5, <1>6, <1>7 DEF ListedCursor
<1>9. MapFindsPrice' /\ Listed(n, at)'
  BY <1>1, <1>2, <1>7, <1>8, ListedFrame
<1>10. TypeOK'
  BY <1>2, <1>5 DEF TypeOK
<1> QED BY <1>1, <1>7, <1>9, <1>10 DEF ChainInv, GhostsStay
(* A level withdrawn leaves the list where the map finds it.               *)
LEMMA RemoveLists ==
    ASSUME ChainInv, pc = "idle", NEW p \in Price, ApplyLevelRemove(p)
    PROVE  GhostsStay
<1>1. PICK n, at : Listed(n, at)
  BY DEF ChainInv
<1>2. PICK i : i = tick_to_node[p]
  OBVIOUS
<1>3. /\ n \in Nat /\ at \in [1 .. n -> DOMAIN nodes] /\ Placing = {}
      /\ \A k, l \in 1 .. n : at[k] = at[l] => k = l
      /\ \A k \in 1 .. n : nodes[at[k]].next = IF k = n THEN NONE ELSE at[k + 1]
      /\ \A k \in 1 .. n : nodes[at[k]].prev = IF k = 1 THEN NONE ELSE at[k - 1]
      /\ \A k, l \in 1 .. n : k < l => ~Before(at[l], at[k])
      /\ head = (IF n = 0 THEN NONE ELSE at[1]) /\ Mapped \subseteq OnChain(n, at)
      /\ IsFreeList(DOMAIN nodes \ OnChain(n, at), free_head, nodes)
  BY <1>1 DEF Listed, ListedNodes, ListedWhole, Placing
<1>4. /\ NONE \notin DOMAIN nodes /\ DOMAIN nodes \subseteq Index /\ IsFiniteSet(DOMAIN nodes)
      /\ nodes \in [DOMAIN nodes -> LevelNode] /\ TypeOK /\ MapFindsPrice
      /\ free_head \in Index \cup {NONE}
  BY PoolFacts DEF ChainInv, TypeOK
<1>5. i \in Mapped /\ nodes[i].price = p /\ p \in DOMAIN tick_to_node
  BY <1>2, <1>4 DEF ApplyLevelRemove, Mapped, MapFindsPrice
<1>6. PICK c \in 1 .. n : at[c] = i
  BY <1>3, <1>5 DEF OnChain
<1>7. PICK h : h = IF c = 1 THEN NONE ELSE at[c - 1]
  OBVIOUS
<1>8. PICK j : j = IF c = n THEN NONE ELSE at[c + 1]
  OBVIOUS
<1>9. /\ c # 1 => c - 1 \in 1 .. n /\ h = at[c - 1]
      /\ c # n => c + 1 \in 1 .. n /\ j = at[c + 1]
      /\ n # 0 /\ c \in Nat /\ i \in DOMAIN nodes
      /\ \A k \in 1 .. n : at[k] \in DOMAIN nodes /\ at[k] # NONE
  BY <1>3, <1>4, <1>6, <1>7, <1>8
<1>10. /\ nodes' = SetNext(SetPrev(SetNext(nodes, h, j), j, h), i, free_head)
       /\ head' = IF h = NONE THEN j ELSE head
       /\ free_head' = i
       /\ tick_to_node' = [t \in DOMAIN tick_to_node \ {p} |-> tick_to_node[t]]
       /\ UNCHANGED <<pc, ret, cur, node, rest>>
  <2>1. nodes[i].prev = h /\ nodes[i].next = j
    BY <1>3, <1>6, <1>7, <1>8
  <2> QED BY <1>2, <1>5, <2>1 DEF ApplyLevelRemove, locals
<1>11. h \in DOMAIN nodes \cup {NONE} /\ j \in DOMAIN nodes \cup {NONE}
  BY <1>7, <1>8, <1>9
<1>12. /\ nodes' \in [DOMAIN nodes -> LevelNode] /\ DOMAIN nodes' = DOMAIN nodes
       /\ \A k \in DOMAIN nodes :
            /\ nodes'[k].price = nodes[k].price
            /\ nodes'[k].prev = IF k = j THEN h ELSE nodes[k].prev
            /\ nodes'[k].next = IF k = i THEN free_head ELSE IF k = h THEN j ELSE nodes[k].next
  <2>1. h \in Index \cup {NONE} /\ j \in Index \cup {NONE}
    BY <1>4, <1>11
  <2>2. Unlinked(nodes, Unlink(nodes, i, h, j, free_head), DOMAIN nodes, i, h, j, free_head)
    BY <1>4, <2>1, UnlinkFacts
  <2>3. nodes' = Unlink(nodes, i, h, j, free_head)
    BY <1>10 DEF Unlink
  <2> QED BY <2>2, <2>3 DEF Unlinked
<1>13. Mapped' = Mapped \ {i} /\ DOMAIN tick_to_node' = DOMAIN tick_to_node \ {p} /\ Placing' = {}
  <2>1. \A t \in DOMAIN tick_to_node : tick_to_node[t] = i => t = p
    BY <1>4, <1>5 DEF MapFindsPrice
  <2> QED BY <1>2, <1>3, <1>5, <1>10, <2>1 DEF Mapped, Placing
<1>14. TypeOK' /\ MapFindsPrice'
  <2>1. \E l \in 0 .. NONE : nodes' \in [0 .. l - 1 -> LevelNode]
    BY <1>4, <1>12, PoolFacts
  <2>2. head' \in Index \cup {NONE} /\ free_head' \in Index \cup {NONE}
    BY <1>4, <1>9, <1>10, <1>11 DEF TypeOK
  <2>3. \A t \in DOMAIN tick_to_node' : /\ t \in Price /\ tick_to_node'[t] \in DOMAIN nodes'
                                        /\ tick_to_node'[t] = tick_to_node[t]
    BY <1>4, <1>10, <1>12 DEF TypeOK
  <2>4. TypeOK'
    BY <1>4, <1>10, <1>12, <2>1, <2>2, <2>3 DEF TypeOK
  <2>5. MapFindsPrice'
    BY <1>4, <1>12, <1>13, <2>3 DEF MapFindsPrice, TypeOK
  <2> QED BY <2>4, <2>5
<1> DEFINE m == n - 1
           bt == [k \in 1 .. m |-> IF k < c THEN at[k] ELSE at[k + 1]]
<1>15. /\ m \in Nat /\ m = n - 1 /\ (m = 0 \/ 1 \in 1 .. m)
       /\ \A k \in 1 .. m : /\ k \in Nat /\ k \in 1 .. n /\ k + 1 \in 1 .. n /\ k # n
                            /\ k < c => k # c
                            /\ ~(k < c) => k + 1 # c
                            /\ k # 1 => k - 1 \in 1 .. m
                            /\ k # m => k + 1 \in 1 .. m
                            /\ k = m <=> k + 1 = n
  BY <1>3, <1>9
<1>16. \A k \in 1 .. m : bt[k] = IF k < c THEN at[k] ELSE at[k + 1]
  OBVIOUS
<1>17. bt \in [1 .. m -> DOMAIN nodes]
  BY <1>9, <1>15
<1> HIDE DEF m, bt
<1>18. OnChain(m, bt) = OnChain(n, at) \ {i}
  <2>1. ASSUME NEW k \in 1 .. m
        PROVE  bt[k] \in OnChain(n, at) \ {i}
    <3>1. PICK r \in 1 .. n : r = IF k < c THEN k ELSE k + 1
      BY <1>15
    <3>2. bt[k] = at[r] /\ r # c
      BY <1>15, <1>16, <3>1
    <3>3. at[r] # i
      BY <1>3, <1>6, <3>2
    <3> QED BY <3>2, <3>3 DEF OnChain
  <2>2. \A k \in 1 .. n : k # c => \E l \in 1 .. m : bt[l] = at[k]
    <3> SUFFICES ASSUME NEW k \in 1 .. n, k # c
                 PROVE  \E l \in 1 .. m : bt[l] = at[k]
      OBVIOUS
    <3>1. CASE k < c
      <4>1. k \in 1 .. m
        BY <1>3, <1>6, <1>15, <3>1
      <4> QED BY <1>16, <3>1, <4>1
    <3>2. CASE ~(k < c)
      <4>1. k - 1 \in 1 .. m /\ ~(k - 1 < c) /\ (k - 1) + 1 = k
        BY <1>3, <1>6, <1>9, <1>15, <3>2
      <4>2. bt[k - 1] = at[k]
        BY <1>16, <4>1
      <4> QED BY <4>1, <4>2
    <3> QED BY <3>1, <3>2
  <2>3. \A k \in 1 .. n : at[k] # i => k # c
    BY <1>6
  <2>4. OnChain(m, bt) \subseteq OnChain(n, at) \ {i}
    BY <2>1 DEF OnChain
  <2>5. ASSUME NEW f \in OnChain(n, at), f # i
        PROVE  f \in OnChain(m, bt)
    BY <2>2, <2>3, <2>5 DEF OnChain
  <2> QED BY <2>4, <2>5
<1>19. \A k, l \in 1 .. m : k < l => bt[k] # bt[l] /\ ~Before(bt[l], bt[k])
  <2> SUFFICES ASSUME NEW k \in 1 .. m, NEW l \in 1 .. m, k < l
               PROVE  bt[k] # bt[l] /\ ~Before(bt[l], bt[k])
    OBVIOUS
  <2>1. PICK r \in 1 .. n : r = IF k < c THEN k ELSE k + 1
    BY <1>15
  <2>2. PICK s \in 1 .. n : s = IF l < c THEN l ELSE l + 1
    BY <1>15
  <2>3. bt[k] = at[r] /\ bt[l] = at[s] /\ r < s /\ r # s
    BY <1>9, <1>15, <1>16, <2>1, <2>2
  <2> QED BY <1>3, <2>3
<1>20. \A k \in 1 .. m : nodes'[bt[k]].next = IF k = m THEN NONE ELSE bt[k + 1]
  <2> SUFFICES ASSUME NEW k \in 1 .. m
               PROVE  nodes'[bt[k]].next = IF k = m THEN NONE ELSE bt[k + 1]
    OBVIOUS
  <2>1. CASE k + 1 = c
    <3>1. bt[k] = at[k] /\ k \in 1 .. n /\ k # c /\ c - 1 = k /\ c # 1 /\ (k = m <=> c = n)
          /\ (k # m => bt[k + 1] = at[c + 1])
      BY <1>9, <1>15, <1>16, <2>1
    <3>2. at[k] = h /\ at[k] # i /\ at[k] \in DOMAIN nodes
      BY <1>3, <1>6, <1>9, <3>1
    <3>3. nodes'[bt[k]].next = j
      BY <1>12, <3>1, <3>2
    <3> QED BY <1>8, <3>1, <3>3
  <2>2. CASE k + 1 < c
    <3>1. /\ k \in 1 .. n /\ k # c /\ k # c - 1 /\ c # 1 /\ bt[k] = at[k]
          /\ k # m /\ k # n /\ bt[k + 1] = at[k + 1]
      BY <1>9, <1>15, <1>16, <1>6, <2>2
    <3>2. at[k] # h /\ at[k] # i /\ at[k] \in DOMAIN nodes
      BY <1>3, <1>6, <1>9, <3>1
    <3>3. nodes'[bt[k]].next = nodes[at[k]].next
      BY <1>12, <3>1, <3>2
    <3> QED BY <1>3, <3>1, <3>3
  <2>3. CASE ~(k < c)
    <3>1. /\ k + 1 \in 1 .. n /\ k + 1 # c /\ (c # 1 => k + 1 # c - 1) /\ bt[k] = at[k + 1]
          /\ (k = m <=> k + 1 = n) /\ (k # m => bt[k + 1] = at[(k + 1) + 1])
      BY <1>9, <1>15, <1>16, <2>3
    <3>2. at[k + 1] # h /\ at[k + 1] # i /\ at[k + 1] \in DOMAIN nodes
      BY <1>3, <1>6, <1>7, <1>9, <3>1
    <3>3. nodes'[bt[k]].next = nodes[at[k + 1]].next
      BY <1>12, <3>1, <3>2
    <3> QED BY <1>3, <3>1, <3>3
  <2> QED BY <1>9, <1>15, <2>1, <2>2, <2>3
<1>21. \A k \in 1 .. m : nodes'[bt[k]].prev = IF k = 1 THEN NONE ELSE bt[k - 1]
  <2> SUFFICES ASSUME NEW k \in 1 .. m
               PROVE  nodes'[bt[k]].prev = IF k = 1 THEN NONE ELSE bt[k - 1]
    OBVIOUS
  <2>1. CASE k = c
    <3>1. bt[k] = at[c + 1] /\ c # n /\ c + 1 \in 1 .. n /\ (k # 1 => bt[k - 1] = at[c - 1])
      BY <1>9, <1>15, <1>16, <2>1
    <3>2. bt[k] = j /\ bt[k] \in DOMAIN nodes
      BY <1>9, <3>1
    <3>3. nodes'[bt[k]].prev = h
      BY <1>12, <3>2
    <3> QED BY <1>7, <2>1, <3>1, <3>3
  <2>2. CASE k < c
    <3>1. /\ k \in 1 .. n /\ bt[k] = at[k] /\ (k # 1 => bt[k - 1] = at[k - 1])
          /\ (c # n => k # c + 1)
      BY <1>9, <1>15, <1>16, <2>2
    <3>2. at[k] # j /\ at[k] \in DOMAIN nodes
      BY <1>3, <1>8, <1>9, <3>1
    <3>3. nodes'[bt[k]].prev = nodes[at[k]].prev
      BY <1>12, <3>1, <3>2
    <3> QED BY <1>3, <3>1, <3>3
  <2>3. CASE c < k
    <3>1. /\ k + 1 \in 1 .. n /\ bt[k] = at[k + 1] /\ k + 1 # 1 /\ k # 1 /\ bt[k - 1] = at[k]
          /\ (k + 1) - 1 = k /\ k + 1 # c + 1
      BY <1>9, <1>15, <1>16, <2>3
    <3>2. at[k + 1] # j /\ at[k + 1] \in DOMAIN nodes
      BY <1>3, <1>8, <1>9, <3>1
    <3>3. nodes'[bt[k]].prev = nodes[at[k + 1]].prev
      BY <1>12, <3>1, <3>2
    <3> QED BY <1>3, <3>1, <3>3
  <2> QED BY <1>9, <1>15, <2>1, <2>2, <2>3
<1>22. IsFreeList(DOMAIN nodes' \ OnChain(m, bt), free_head', nodes')
  <2> DEFINE S == DOMAIN nodes \ OnChain(n, at)
  <2>1. i \in OnChain(n, at) /\ (h = NONE \/ h \in OnChain(n, at))
    BY <1>6, <1>9, <1>7 DEF OnChain
  <2>2. IsFiniteSet(S) /\ i \notin S /\ IsFreeList(S, free_head, nodes)
    BY <1>3, <1>4, <2>1, FS_Subset
  <2>3. nodes'[i].next = free_head /\ \A f \in S : nodes'[f].next = nodes[f].next
    BY <1>4, <1>9, <1>12, <2>1
  <2>4. S \cup {i} = DOMAIN nodes' \ OnChain(m, bt)
    BY <1>9, <1>12, <1>18, <2>1
  <2> HIDE DEF S
  <2>5. IsFreeList(S \cup {i}, i, nodes')
    BY <2>2, <2>3, FreePush
  <2> QED BY <1>10, <2>4, <2>5
<1>23. Listed(m, bt)'
  <2>1. \A k, l \in 1 .. m : Before(bt[l], bt[k])' <=> Before(bt[l], bt[k])
    BY <1>12, <1>17 DEF Before
  <2>2. \A k, l \in 1 .. m : bt[k] = bt[l] => k = l
    <3>1. \A k, l \in 1 .. m : k < l \/ l < k \/ k = l
      BY <1>15
    <3> QED BY <1>19, <3>1
  <2>3. bt \in [1 .. m -> DOMAIN nodes'] /\ m \in Nat
    BY <1>12, <1>15, <1>17
  <2>4. ListedNodes(m, bt)'
    BY <1>13, <1>19, <1>20, <1>22, <2>1, <2>2, <2>3 DEF ListedNodes
  <2>5. head' = IF m = 0 THEN NONE ELSE bt[1]
    <3>1. h = NONE <=> c = 1
      BY <1>7, <1>9
    <3>2. CASE c = 1 /\ m = 0
      <4>1. c = n
        BY <1>3, <1>15, <3>2
      <4> QED BY <1>8, <1>10, <3>1, <3>2, <4>1
    <3>3. CASE c = 1 /\ m # 0
      <4>1. bt[1] = at[c + 1] /\ c # n
        <5>1. 1 \in 1 .. m /\ ~(1 < c)
          BY <1>15, <3>3
        <5> QED BY <1>3, <1>15, <1>16, <3>3, <5>1
      <4> QED BY <1>8, <1>10, <3>1, <3>3, <4>1
    <3>4. CASE c # 1
      <4>1. m # 0 /\ 1 \in 1 .. m /\ 1 < c
        BY <1>3, <1>6, <1>15, <3>4
      <4> QED BY <1>3, <1>9, <1>10, <1>16, <3>1, <3>4, <4>1
    <3> QED BY <3>2, <3>3, <3>4
  <2>6. ListedWhole(m, bt)' /\ ListedCursor(m, bt)'
    BY <1>3, <1>10, <1>13, <1>18, <1>21, <2>5 DEF ListedWhole, ListedCursor
  <2> QED BY <2>4, <2>6 DEF Listed
<1>24. OnChain(m, bt) \ Mapped' = OnChain(n, at) \ Mapped
  BY <1>5, <1>13, <1>18
<1> QED BY <1>1, <1>14, <1>23, <1>24 DEF ChainInv, GhostsStay
-----------------------------------------------------------------------------
LEMMA InitLists == FastInit => ChainInv
<1> SUFFICES ASSUME FastInit PROVE ChainInv
  OBVIOUS
<1>1. IInv
  BY InitIInv
<1>2. /\ TypeOK /\ MapFindsPrice /\ pc = "idle" /\ Mapped = {} /\ Placing = {}
      /\ DOMAIN nodes = {} /\ head = NONE /\ Free = {} /\ FreeListInv
  BY <1>1 DEF FastInit, IInv, ListInv, Mapped, Placing, Free
<1> DEFINE at == [k \in 1 .. 0 |-> k]
<1>3. OnChain(0, at) = {} /\ 1 .. 0 = {} /\ at \in [1 .. 0 -> DOMAIN nodes]
  BY DEF OnChain
<1> HIDE DEF at
<1>4. IsFreeList(DOMAIN nodes \ (OnChain(0, at) \cup Placing), free_head, nodes)
  <2>1. DOMAIN nodes \ (OnChain(0, at) \cup Placing) = Free
    BY <1>2
  <2> QED BY <1>2, <2>1 DEF FreeListInv
<1>5. Listed(0, at)
  BY <1>2, <1>3, <1>4 DEF Listed, ListedNodes, ListedWhole, ListedCursor
<1> QED BY <1>2, <1>5 DEF ChainInv

(* Only apply_levels makes ghosts, and only its reclaim loop removes them. *)
LEMMA NextLists ==
    ASSUME ChainInv, [FastNext]_vars
    PROVE  /\ ChainInv'
           /\ (pc = "idle" /\ pc' # "reclaim") \/ pc = "link" => GhostsStay
<1>1. ASSUME FillSkip \/ FillDone \/ UNCHANGED vars
      PROVE  GhostsStay
  <2>1. PICK n, at : Listed(n, at)
    BY DEF ChainInv
  <2>2. ChainInv' /\ Listed(n, at)'
    BY <1>1, <2>1, RestLists
  <2>3. Mapped' = Mapped
    BY <1>1 DEF FillSkip, FillDone, vars, struct, Mapped
  <2> QED BY <2>1, <2>2, <2>3 DEF GhostsStay
<1>2. CASE ApplyLevel
  <2>1. PICK p \in Price, s \in Size :
           /\ pc = "idle"
           /\ \/ ApplyLevelAbsent(p) \/ ApplyLevelRemove(p)
              \/ s # 0 /\ (ApplyLevelUpdate(p, s) \/ ApplyLevelInsert(p, s))
    BY <1>2 DEF ApplyLevel
  <2>2. CASE ApplyLevelAbsent(p)
    BY <1>1, <2>2 DEF ApplyLevelAbsent, GhostsStay
  <2>3. CASE ApplyLevelRemove(p)
    BY <2>1, <2>3, RemoveLists DEF GhostsStay
  <2>4. CASE ApplyLevelUpdate(p, s)
    <3>1. PICK n, at : Listed(n, at)
      BY DEF ChainInv
    <3>2. ChainInv' /\ Listed(n, at)'
      BY <2>1, <2>4, <3>1, UpdateLists
    <3>3. Mapped' = Mapped
      BY <2>4 DEF ApplyLevelUpdate, Mapped
    <3> QED BY <3>1, <3>2, <3>3 DEF GhostsStay
  <2>5. CASE ApplyLevelInsert(p, s)
    <3>1. PICK n, at : Listed(n, at)
      BY DEF ChainInv
    <3>2. PICK lvl \in Level : lvl = [price |-> p, size |-> s]
      BY DEF Level
    <3>3. /\ p \notin DOMAIN tick_to_node /\ Insert(lvl, pc) /\ rest' \in Seq(Level)
          /\ lvl.price = p /\ TypeOK /\ MapFindsPrice
      BY <2>1, <2>5, <3>2 DEF ApplyLevelInsert, ChainInv, TypeOK
    <3>4. /\ TypeOK' /\ MapFindsPrice'
          /\ \E m, bt : Listed(m, bt)' /\ OnChain(m, bt) \ Mapped' = OnChain(n, at) \ Mapped
      BY <2>1, <3>1, <3>3, InsertLists
    <3> QED BY <3>1, <3>4 DEF ChainInv, GhostsStay
  <2> QED BY <2>1, <2>2, <2>3, <2>4, <2>5
<1>3. CASE ApplyLevels
  <2>1. pc = "idle" /\ pc' = "reclaim"
    BY <1>3 DEF ApplyLevels
  <2> QED BY <1>3, <2>1, ApplyLevelsLists
<1>4. CASE Reclaim \/ ReclaimDone
  <2>1. pc = "reclaim"
    BY <1>4 DEF Reclaim, ReclaimDone
  <2> QED BY <1>4, <2>1, ReclaimLists, ReclaimDoneLists
<1>5. CASE FillInsert
  <2>1. PICK n, at : Listed(n, at)
    BY DEF ChainInv
  <2>2. /\ pc = "fill" /\ rest # <<>> /\ rest \in Seq(Level) /\ TypeOK /\ MapFindsPrice
        /\ Insert(Head(rest), pc) /\ rest' = Tail(rest)
    BY <1>5 DEF FillInsert, ChainInv, TypeOK
  <2>3. Head(rest) \in Level /\ rest' \in Seq(Level)
    BY <2>2
  <2>4. TypeOK' /\ MapFindsPrice' /\ \E m, bt : Listed(m, bt)'
    BY <2>1, <2>2, <2>3, InsertLists
  <2> QED BY <2>2, <2>4 DEF ChainInv
<1>6. CASE LinkBefore \/ LinkLast \/ LinkAdvance
  BY <1>6, LinkBeforeLists, LinkLastLists, LinkAdvanceLists DEF GhostsStay
<1>7. CASE FillSkip \/ FillDone \/ UNCHANGED vars
  BY <1>1, <1>7 DEF GhostsStay
<1> QED BY <1>2, <1>3, <1>4, <1>5, <1>6, <1>7 DEF FastNext, Loops

(* Whatever the feed sends, prices quoted twice included, the list is a    *)
(* chain of distinct nodes in price order, and all the others are free.    *)
THEOREM ChainInvHolds == FastSpec => []ChainInv
<1>1. FastInit => ChainInv
  BY InitLists
<1>2. ChainInv /\ [FastNext]_vars => ChainInv'
  BY NextLists
<1> QED BY <1>1, <1>2, PTL DEF FastSpec

(* With prices quoted twice, too, alloc_node, free_node and apply_levels   *)
(* neither leak a node nor hand out one that is in use, and the walks along*)
(* the list and the free list end.                                         *)
THEOREM PoolPartitionHolds == FastSpec => []PoolPartition
<1>1. ChainInv => PoolPartition
  <2> SUFFICES ASSUME ChainInv, pc # "reclaim"
               PROVE  LET list == Reached(head)
                          free == Reached(free_head)
                      IN  /\ Ends(head) /\ Ends(free_head)
                          /\ list \cap free = {} /\ Placing \cap (list \cup free) = {}
                          /\ list \cup free \cup Placing = DOMAIN nodes
    BY DEF PoolPartition
  <2>1. PICK n, at : Listed(n, at)
    BY DEF ChainInv
  <2>2. TypeOK /\ Reached(head) = OnChain(n, at) /\ Ends(head)
    BY <2>1, ListIsChain DEF ChainInv
  <2> DEFINE S == DOMAIN nodes \ (OnChain(n, at) \cup Placing)
  <2>3. IsFreeList(S, free_head, nodes) /\ S \in SUBSET DOMAIN nodes
    BY <2>1 DEF Listed, ListedNodes
  <2>4. Reached(free_head) = S /\ Ends(free_head)
    <3> HIDE DEF S
    <3> QED BY <2>2, <2>3, ReachedFree
  <2>5. OnChain(n, at) \subseteq DOMAIN nodes /\ Placing \cap OnChain(n, at) = {}
    BY <2>1 DEF Listed, ListedNodes, OnChain
  <2>6. Placing \subseteq DOMAIN nodes
    BY <2>1 DEF Placing, Listed, ListedCursor, ChainInv, TypeOK, Mapped
  <2> QED BY <2>2, <2>4, <2>5, <2>6
<1> QED BY <1>1, ChainInvHolds, PTL

(* With prices quoted twice, too, the list stays in price order, doubly    *)
(* linked, and holds every node that the map finds.                        *)
THEOREM ListOrderedHolds == FastSpec => []ListOrdered
<1>1. ChainInv => ListOrdered
  <2> SUFFICES ASSUME ChainInv, pc \in {"idle", "fill"}
               PROVE  /\ Mapped \subseteq Reached(head)
                      /\ \A i \in Reached(head) :
                           /\ IF i = head THEN nodes[i].prev = NONE
                              ELSE /\ nodes[i].prev \in Reached(head)
                                   /\ nodes[nodes[i].prev].next = i
                           /\ \A k \in Reached(i) : ~Before(k, i)
    BY DEF ListOrdered
  <2>1. PICK n, at : Listed(n, at)
    BY DEF ChainInv
  <2>2. /\ TypeOK /\ Chain(nodes, head, n, at) /\ NONE \notin DOMAIN nodes
        /\ Reached(head) = OnChain(n, at)
    BY <2>1, ListIsChain DEF ChainInv
  <2>3. /\ n \in Nat /\ at \in [1 .. n -> DOMAIN nodes]
        /\ \A j, k \in 1 .. n : at[j] = at[k] => j = k
        /\ \A k \in 1 .. n : nodes[at[k]].next = IF k = n THEN NONE ELSE at[k + 1]
        /\ \A k \in 1 .. n : nodes[at[k]].prev = IF k = 1 THEN NONE ELSE at[k - 1]
        /\ \A j, k \in 1 .. n : j < k => ~Before(at[k], at[j])
        /\ head = (IF n = 0 THEN NONE ELSE at[1]) /\ Mapped \subseteq OnChain(n, at)
    BY <2>1 DEF Listed, ListedNodes, ListedWhole, Placing
  <2>4. ASSUME NEW c \in 1 .. n
        PROVE  /\ IF at[c] = head THEN nodes[at[c]].prev = NONE
                  ELSE /\ nodes[at[c]].prev \in OnChain(n, at)
                       /\ nodes[nodes[at[c]].prev].next = at[c]
               /\ \A k \in Reached(at[c]) : ~Before(k, at[c])
    <3>1. at[c] = head <=> c = 1
      BY <2>3
    <3>2. c # 1 => c - 1 \in 1 .. n /\ c - 1 # n /\ (c - 1) + 1 = c
      BY <2>3
    <3>3. Reached(at[c]) = {at[k] : k \in c .. n}
      BY <2>2, ReachedFrom
    <3>4. \A k \in c .. n : ~Before(at[k], at[c])
      <4>1. ~Before(at[c], at[c])
        BY <2>2, <2>3, BeforeOrder
      <4> QED BY <2>3, <4>1
    <3> QED BY <2>3, <3>1, <3>2, <3>3, <3>4 DEF OnChain
  <2> QED BY <2>2, <2>3, <2>4 DEF OnChain
<1> QED BY <1>1, ChainInvHolds, PTL

LEMMA GhostsOnChain ==
    \A n, at : TypeOK /\ Listed(n, at) /\ pc # "reclaim" => Ghosts = OnChain(n, at) \ Mapped
BY ListIsChain DEF Ghosts

(* No price change, in any of link's steps, makes a ghost or removes one.  *)
THEOREM GhostsOnlyFromBooksHolds == FastSpec => GhostsOnlyFromBooks
<1> DEFINE G == \A n, at : TypeOK /\ Listed(n, at) /\ pc # "reclaim"
                              => Ghosts = OnChain(n, at) \ Mapped
           A == (pc = "idle" /\ pc' # "reclaim") \/ pc = "link" => Ghosts' = Ghosts
<1>1. ChainInv /\ G /\ G' /\ [FastNext]_vars => A
  <2> SUFFICES ASSUME ChainInv, G, G', [FastNext]_vars,
                      (pc = "idle" /\ pc' # "reclaim") \/ pc = "link"
               PROVE  Ghosts' = Ghosts
    OBVIOUS
  <2>1. GhostsStay
    BY NextLists
  <2>2. TypeOK /\ TypeOK' /\ pc # "reclaim" /\ pc' # "reclaim"
    <3>1. TypeOK /\ TypeOK'
      BY <2>1 DEF ChainInv, GhostsStay
    <3>2. pc = "link" => pc' # "reclaim"
      BY <3>1 DEF FastNext, ApplyLevel, ApplyLevels, Loops, Reclaim, ReclaimDone, FillSkip,
                  FillInsert, FillDone, LinkBefore, LinkLast, LinkAdvance, LinkReturn,
                  vars, TypeOK
    <3> QED BY <3>1, <3>2
  <2>3. PICK n, at, m, bt : /\ Listed(n, at) /\ Listed(m, bt)'
                            /\ OnChain(m, bt) \ Mapped' = OnChain(n, at) \ Mapped
    BY <2>1 DEF GhostsStay
  <2>4. Ghosts = OnChain(n, at) \ Mapped /\ Ghosts' = OnChain(m, bt) \ Mapped'
    BY <2>2, <2>3 DEF OnChain
  <2> QED BY <2>3, <2>4
<1>2. G
  BY GhostsOnChain
<1> HIDE DEF G
<1>3. ChainInv /\ G /\ G' /\ [FastNext]_vars => [A]_vars
  BY <1>1
<1> QED BY <1>2, <1>3, ChainInvHolds, PTL DEF FastSpec, GhostsOnlyFromBooks
=============================================================================
