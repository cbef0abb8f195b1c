------------------------- MODULE SkipBookSideProofs -------------------------
(***************************************************************************)
(* The two books that are there beside the fast one.                       *)
(*                                                                         *)
(* SkipBookSide: the lanes of the skip list, the position find_update      *)
(* carries down them, the map and the free list stay consistent between    *)
(* any two iterations of any call: for any prices, any number of lanes,    *)
(* any heights drawn, any pool limit, bids and asks.                       *)
(*                                                                         *)
(* BasicBookSide: the reference stays sorted, for any prices.              *)
(*                                                                         *)
(* Both do what BookSide says, provided no snapshot quotes a price twice.  *)
(***************************************************************************)
EXTENDS SkipBookSide, BasicBookSide, BookLevelsProofs

-----------------------------------------------------------------------------
(***************************************************************************)
(* A lane, as a set S of nodes whose prices differ: what comes first in it *)
(* after a node (or of all, for NONE), and what last before one.           *)
(***************************************************************************)
Distinct(ns, S) ==
    /\ NONE \notin S
    /\ \A i \in S : ns[i].price \in Price
    /\ \A i, j \in S : ns[i].price = ns[j].price => i = j

Precede(ns, i, j) == ComesBefore(ns[i].price, ns[j].price)

First(ns, i, j, S) ==
    \/ j = NONE /\ \A k \in S : ~(i = NONE \/ Precede(ns, i, k))
    \/ /\ j \in S /\ (i = NONE \/ Precede(ns, i, j))
       /\ \A k \in S : i = NONE \/ Precede(ns, i, k) => k = j \/ Precede(ns, j, k)

Last(ns, i, n, S) ==
    /\ i = NONE \/ (i \in S /\ Precede(ns, i, n))
    /\ \A k \in S : Precede(ns, k, n) => i # NONE /\ (k = i \/ Precede(ns, k, i))

LEMMA DistinctOrder ==
    ASSUME NEW ns, NEW S, Distinct(ns, S)
    PROVE  \A i, j, k \in S : /\ ~Precede(ns, i, i)
                              /\ Precede(ns, i, j) => ~Precede(ns, j, i)
                              /\ Precede(ns, i, j) /\ Precede(ns, j, k) => Precede(ns, i, k)
                              /\ i # j => Precede(ns, i, j) \/ Precede(ns, j, i)
<1> SUFFICES ASSUME NEW i \in S, NEW j \in S, NEW k \in S
             PROVE  /\ ~Precede(ns, i, i)
                    /\ Precede(ns, i, j) => ~Precede(ns, j, i)
                    /\ Precede(ns, i, j) /\ Precede(ns, j, k) => Precede(ns, i, k)
                    /\ i # j => Precede(ns, i, j) \/ Precede(ns, j, i)
  OBVIOUS
<1>1. ns[i].price \in Int /\ ns[j].price \in Int /\ ns[k].price \in Int
  BY BookLevelsAssumption DEF Distinct
<1>2. i # j => ns[i].price # ns[j].price
  BY DEF Distinct
<1> QED BY <1>1, <1>2 DEF Precede, ComesBefore

(* Where the walk along a lane stops is the last node before n.            *)
LEMMA StoppedAtLast ==
    ASSUME NEW ns, NEW S, NEW n, Distinct(ns, S \cup {n}),
           NEW i, i = NONE \/ (i \in S /\ Precede(ns, i, n)),
           NEW j, First(ns, i, j, S), j = NONE \/ ~Precede(ns, j, n)
    PROVE  Last(ns, i, n, S)
<1> SUFFICES ASSUME NEW k \in S, Precede(ns, k, n)
             PROVE  i # NONE /\ (k = i \/ Precede(ns, k, i))
  BY DEF Last
<1>1. ~(i = NONE \/ Precede(ns, i, k))
  <2> SUFFICES ASSUME i = NONE \/ Precede(ns, i, k) PROVE FALSE
    OBVIOUS
  <2>1. j \in S /\ ~Precede(ns, j, n) /\ (k = j \/ Precede(ns, j, k))
    BY DEF First, Distinct
  <2> QED BY <2>1, DistinctOrder
<1> QED BY <1>1, DistinctOrder

(* It leads to n when n is in the lane.                                    *)
LEMMA LastLeads ==
    ASSUME NEW ns, NEW S, NEW n \in S, Distinct(ns, S),
           NEW i, Last(ns, i, n, S), NEW j, First(ns, i, j, S)
    PROVE  j = n
<1>1. i = NONE \/ (i \in S /\ Precede(ns, i, n))
  BY DEF Last
<1>2. j \in S /\ (i = NONE \/ Precede(ns, i, j)) /\ (n = j \/ Precede(ns, j, n))
  BY <1>1 DEF First
<1>3. ~Precede(ns, j, n)
  BY <1>1, <1>2, DistinctOrder DEF Last
<1> QED BY <1>2, <1>3

(***************************************************************************)
(* Splicing n in after the last node p before it: p leads to n, n to where *)
(* p led, and every other node of the lane to where it did.                *)
(***************************************************************************)
LEMMA SplicedIn ==
    ASSUME NEW ns, NEW S, NEW n, n \notin S, Distinct(ns, S \cup {n}),
           NEW p, Last(ns, p, n, S), NEW i \in S \cup {NONE}, NEW j, First(ns, i, j, S)
    PROVE  /\ i = p => First(ns, p, n, S \cup {n}) /\ First(ns, n, j, S \cup {n})
           /\ i # p => First(ns, i, j, S \cup {n})
<1>1. p = NONE \/ (p \in S /\ Precede(ns, p, n))
  BY DEF Last
<1>2. \A k \in S : Precede(ns, k, n) => p # NONE /\ (k = p \/ Precede(ns, k, p))
  BY DEF Last
<1>3. NONE \notin S /\ n # NONE
  BY DEF Distinct
<1>4. \A k \in S : Precede(ns, k, n) \/ Precede(ns, n, k)
  BY DistinctOrder
<1>5. \A k \in S : (p = NONE \/ Precede(ns, p, k)) <=> Precede(ns, n, k)
  BY <1>1, <1>2, <1>4, DistinctOrder
<1>6. ASSUME i = p PROVE First(ns, p, n, S \cup {n})
  BY <1>1, <1>5 DEF First
<1>7. ASSUME i = p PROVE First(ns, n, j, S \cup {n})
  <2>1. ~Precede(ns, n, n)
    BY DistinctOrder
  <2> QED BY <1>3, <1>5, <1>7, <2>1 DEF First
<1>8. ASSUME i # p PROVE First(ns, i, j, S \cup {n})
  <2>1. CASE i = NONE \/ Precede(ns, i, n)
    <3>1. p \in S /\ (i = NONE \/ Precede(ns, i, p))
      BY <1>1, <1>2, <1>8, <2>1
    <3>2. j \in S /\ (p = j \/ Precede(ns, j, p))
      BY <3>1 DEF First
    <3>3. Precede(ns, j, n)
      BY <1>1, <1>3, <3>1, <3>2, DistinctOrder
    <3> QED BY <1>3, <3>2, <3>3 DEF First
  <2>2. CASE ~(i = NONE \/ Precede(ns, i, n))
    BY <2>2 DEF First
  <2> QED BY <2>1, <2>2
<1> QED BY <1>6, <1>7, <1>8

(* Cutting n out: the last node p before it leads to where n led.          *)
LEMMA CutOut ==
    ASSUME NEW ns, NEW S, NEW n \in S, Distinct(ns, S),
           NEW p, Last(ns, p, n, S), NEW i \in S \cup {NONE}, NEW j, First(ns, i, j, S)
    PROVE  /\ i = n => First(ns, p, j, S \ {n})
           /\ i # n /\ i # p => First(ns, i, j, S \ {n})
<1>1. p = NONE \/ (p \in S /\ Precede(ns, p, n))
  BY DEF Last
<1>2. \A k \in S : Precede(ns, k, n) => p # NONE /\ (k = p \/ Precede(ns, k, p))
  BY DEF Last
<1>3. NONE \notin S /\ n # NONE
  BY DEF Distinct
<1>4. \A k \in S \ {n} : Precede(ns, k, n) \/ Precede(ns, n, k)
  BY DistinctOrder
<1>5. \A k \in S \ {n} : (p = NONE \/ Precede(ns, p, k)) <=> Precede(ns, n, k)
  BY <1>1, <1>2, <1>4, DistinctOrder
<1>6. ASSUME i = n PROVE First(ns, p, j, S \ {n})
  <2>1. ~Precede(ns, n, n)
    BY DistinctOrder
  <2> QED BY <1>3, <1>5, <1>6, <2>1 DEF First
<1>7. ASSUME i # n, i # p PROVE First(ns, i, j, S \ {n})
  <2>1. j # n
    <3> SUFFICES ASSUME j = n PROVE FALSE
      OBVIOUS
    <3>1. i = NONE \/ Precede(ns, i, n)
      BY <1>3 DEF First
    <3>2. p \in S /\ (i = NONE \/ Precede(ns, i, p))
      BY <1>1, <1>2, <1>7, <3>1
    <3>3. p = n \/ Precede(ns, n, p)
      BY <1>3, <3>2 DEF First
    <3> QED BY <1>1, <1>3, <3>2, <3>3, DistinctOrder
  <2> QED BY <2>1 DEF First
<1> QED BY <1>6, <1>7

(* The last node before n does not depend on whether n is in the lane.     *)
LEMMA LastWithout ==
    ASSUME NEW ns, NEW S, NEW n, Distinct(ns, S \cup {n}), NEW p, Last(ns, p, n, S)
    PROVE  Last(ns, p, n, S \cup {n}) /\ Last(ns, p, n, S \ {n})
<1>1. ~Precede(ns, n, n)
  BY DistinctOrder
<1> QED BY <1>1 DEF Last

(* Only prices count.                                                      *)
LEMMA SamePrices ==
    ASSUME NEW ns, NEW nt, NEW S, \A i \in S : nt[i].price = ns[i].price
    PROVE  /\ \A i \in S \cup {NONE} : \A j : First(ns, i, j, S) => First(nt, i, j, S)
           /\ \A n : nt[n].price = ns[n].price =>
                 \A p : Last(ns, p, n, S) => Last(nt, p, n, S)
<1>1. \A i, j \in S : Precede(nt, i, j) <=> Precede(ns, i, j)
  BY DEF Precede
<1>2. ASSUME NEW i \in S \cup {NONE}, NEW j, First(ns, i, j, S)
      PROVE  First(nt, i, j, S)
  <2>1. \A k \in S : (i = NONE \/ Precede(nt, i, k)) <=> (i = NONE \/ Precede(ns, i, k))
    BY <1>1
  <2> QED BY <1>1, <1>2, <2>1 DEF First
<1>3. ASSUME NEW n, nt[n].price = ns[n].price, NEW p, Last(ns, p, n, S)
      PROVE  Last(nt, p, n, S)
  <2>1. \A k \in S : Precede(nt, k, n) <=> Precede(ns, k, n)
    BY <1>3 DEF Precede
  <2> QED BY <1>1, <1>3, <2>1 DEF Last
<1> QED BY <1>2, <1>3

-----------------------------------------------------------------------------
(***************************************************************************)
(* The free list: what its head tells, and how it grows and shrinks.       *)
(***************************************************************************)
FreeListOf(S, n, fh, ns, st) ==
    /\ \A i \in S : \E k \in 1 .. n : st[k] = i
    /\ fh = IF n = 0 THEN NONE ELSE st[1]
    /\ \A k \in 1 .. n : ns[st[k]].forwards[0] = IF k = n THEN NONE ELSE st[k + 1]

IsFreeList(S, fh, ns) ==
    \E st \in [1 .. Cardinality(S) -> S] : FreeListOf(S, Cardinality(S), fh, ns, st)

LEMMA LenOf ==
    ASSUME NEW n \in Nat, NEW S, NEW st \in [1 .. n -> S]
    PROVE  Len(st) = n
<1>1. st \in Seq(S)
  OBVIOUS
<1>2. Len(st) \in Nat /\ DOMAIN st = 1 .. Len(st) /\ DOMAIN st = 1 .. n
  BY <1>1, LenProperties
<1>3. \A m \in Nat : 1 .. m = 1 .. n => m = n
  <2> SUFFICES ASSUME NEW m \in Nat, 1 .. m = 1 .. n PROVE m = n
    OBVIOUS
  <2>1. \A k \in Nat : k \in 1 .. m <=> k \in 1 .. n
    OBVIOUS
  <2>2. (n \in 1 .. m \/ n = 0) /\ (m \in 1 .. n \/ m = 0)
    BY <2>1
  <2>3. n = 0 => m = 0
    BY <2>1
  <2>4. m = 0 => n = 0
    BY <2>1
  <2> QED BY <2>2, <2>3, <2>4
<1> QED BY <1>2, <1>3

(* FreeListInv, before a step and after it.                                *)
LEMMA FreeListIs ==
    /\ IsFiniteSet(DOMAIN nodes \ InUse) =>
          (FreeListInv <=> IsFreeList(DOMAIN nodes \ InUse, free_head, nodes))
    /\ IsFiniteSet(DOMAIN nodes' \ InUse') =>
          (FreeListInv' <=> IsFreeList(DOMAIN nodes' \ InUse', free_head', nodes'))
<1>1. ASSUME NEW S, IsFiniteSet(S)
      PROVE  Cardinality(S) \in Nat /\ \A st \in [1 .. Cardinality(S) -> S] : Len(st) = Cardinality(S)
  BY <1>1, FS_CardinalityType, LenOf
<1>2. FreeListInv <=> \E st \in [1 .. Cardinality(DOMAIN nodes \ InUse) -> DOMAIN nodes \ InUse] :
                          FreeListOf(DOMAIN nodes \ InUse, Len(st), free_head, nodes, st)
  BY DEF FreeListInv, FreeListOf
<1>3. FreeListInv' <=> \E st \in [1 .. Cardinality(DOMAIN nodes' \ InUse') -> DOMAIN nodes' \ InUse'] :
                          FreeListOf(DOMAIN nodes' \ InUse', Len(st), free_head', nodes', st)
  BY DEF FreeListInv, FreeListOf
<1> QED BY <1>1, <1>2, <1>3 DEF IsFreeList

(* No node is on the list twice: there are as many places as nodes.        *)
LEMMA FreeOnce ==
    ASSUME NEW S, IsFiniteSet(S), NEW st \in [1 .. Cardinality(S) -> S],
           \A i \in S : \E k \in 1 .. Cardinality(S) : st[k] = i
    PROVE  \A j, k \in 1 .. Cardinality(S) : st[j] = st[k] => j = k
<1> DEFINE n == Cardinality(S)
<1>1. n \in Nat
  BY FS_CardinalityType
<1>2. st \in Surjection(1 .. n, S)
  BY DEF Surjection
<1>3. IsFiniteSet(1 .. n) /\ Cardinality(1 .. n) = n
  <2> HIDE DEF n
  <2> QED BY <1>1, FS_Interval
<1> HIDE DEF n
<1>4. st \in Injection(1 .. n, S)
  BY <1>2, <1>3, FS_Surjection DEF n
<1> QED BY <1>4 DEF Injection, IsInjective, n

(* free_head is NONE just when no node is free, else a free node.          *)
LEMMA FreeHead ==
    ASSUME NEW S, IsFiniteSet(S), NEW fh, NEW ns, IsFreeList(S, fh, ns), NONE \notin S
    PROVE  /\ fh = NONE => S = {}
           /\ fh # NONE => fh \in S /\ ns[fh].forwards[0] \in S \cup {NONE}
<1>1. PICK n \in Nat : n = Cardinality(S)
  BY FS_CardinalityType
<1>2. PICK st \in [1 .. n -> S] : FreeListOf(S, n, fh, ns, st)
  BY <1>1 DEF IsFreeList
<1>3. CASE n = 0
  BY <1>1, <1>2, <1>3 DEF FreeListOf
<1>4. CASE n # 0
  <2>1. 1 \in 1 .. n /\ fh = st[1] /\ st[1] \in S
    BY <1>2, <1>4 DEF FreeListOf
  <2>2. ns[st[1]].forwards[0] = IF 1 = n THEN NONE ELSE st[2]
    BY <1>2, <2>1 DEF FreeListOf
  <2>3. n # 1 => 2 \in 1 .. n
    BY <1>4
  <2> QED BY <1>2, <2>1, <2>2, <2>3
<1> QED BY <1>3, <1>4

(* Writes that leave the free nodes' lane 0 alone keep the free list.      *)
LEMMA FreeSame ==
    ASSUME NEW S, NEW fh, NEW ns, IsFreeList(S, fh, ns), NEW nt,
           \A f \in S : nt[f].forwards[0] = ns[f].forwards[0]
    PROVE  IsFreeList(S, fh, nt)
<1>1. PICK st \in [1 .. Cardinality(S) -> S] : FreeListOf(S, Cardinality(S), fh, ns, st)
  BY DEF IsFreeList
<1>2. \A k \in 1 .. Cardinality(S) : nt[st[k]].forwards[0] = ns[st[k]].forwards[0]
  BY <1>1
<1>3. FreeListOf(S, Cardinality(S), fh, nt, st)
  BY <1>1, <1>2 DEF FreeListOf
<1> QED BY <1>3 DEF IsFreeList

(* free_node and the reclaim loop: a node put in front.                    *)
LEMMA FreePush ==
    ASSUME NEW S, IsFiniteSet(S), NEW fh, NEW ns, IsFreeList(S, fh, ns),
           NEW i, i \notin S, NEW nt, nt[i].forwards[0] = fh,
           \A f \in S : nt[f].forwards[0] = ns[f].forwards[0]
    PROVE  IsFreeList(S \cup {i}, i, nt)
<1>1. PICK n \in Nat : n = Cardinality(S)
  BY FS_CardinalityType
<1>2. PICK st \in [1 .. n -> S] : FreeListOf(S, n, fh, ns, st)
  BY <1>1 DEF IsFreeList
<1>3. Cardinality(S \cup {i}) = n + 1
  BY <1>1, FS_AddElement
<1>4. /\ \A f \in S : \E k \in 1 .. n : st[k] = f
      /\ fh = IF n = 0 THEN NONE ELSE st[1]
      /\ \A k \in 1 .. n : ns[st[k]].forwards[0] = IF k = n THEN NONE ELSE st[k + 1]
  BY <1>2 DEF FreeListOf
<1> DEFINE su == [k \in 1 .. n + 1 |-> IF k = 1 THEN i ELSE st[k - 1]]
<1>5. /\ 1 \in 1 .. n + 1 /\ su[1] = i /\ n + 1 # 0
      /\ \A k \in 1 .. n : k + 1 \in 1 .. n + 1 /\ su[k + 1] = st[k]
      /\ \A k \in 1 .. n + 1 : k # 1 => k - 1 \in 1 .. n /\ su[k] = st[k - 1]
  <2>1. \A k \in 1 .. n : k + 1 \in 1 .. n + 1 /\ k + 1 # 1 /\ (k + 1) - 1 = k
    OBVIOUS
  <2> QED BY <2>1
<1>6. su \in [1 .. n + 1 -> S \cup {i}]
  BY <1>2, <1>5
<1> HIDE DEF su
<1>7. ASSUME NEW f \in S \cup {i} PROVE \E k \in 1 .. n + 1 : su[k] = f
  <2>1. CASE f = i
    BY <1>5, <2>1
  <2>2. CASE f # i
    <3>1. PICK k \in 1 .. n : st[k] = f
      BY <1>4, <2>2
    <3>2. k + 1 \in 1 .. n + 1 /\ su[k + 1] = f
      BY <1>5, <3>1
    <3> QED BY <3>2
  <2> QED BY <2>1, <2>2
<1>8. ASSUME NEW k \in 1 .. n + 1
      PROVE  nt[su[k]].forwards[0] = IF k = n + 1 THEN NONE ELSE su[k + 1]
  <2>1. CASE k = 1
    <3>1. nt[su[k]].forwards[0] = fh
      BY <1>5, <2>1
    <3>2. n # 0 => 1 \in 1 .. n /\ su[1 + 1] = st[1]
      BY <1>5
    <3> QED BY <1>4, <2>1, <3>1, <3>2
  <2>2. CASE k # 1
    <3>1. k - 1 \in 1 .. n /\ su[k] = st[k - 1] /\ (k - 1) + 1 = k /\ (k - 1 = n <=> k = n + 1)
      BY <1>5, <2>2
    <3>2. nt[su[k]].forwards[0] = IF k = n + 1 THEN NONE ELSE st[k]
      BY <1>2, <1>4, <3>1
    <3>3. k # n + 1 => k \in 1 .. n /\ su[k + 1] = st[k]
      BY <1>5
    <3> QED BY <3>2, <3>3
  <2> QED BY <2>1, <2>2
<1>9. FreeListOf(S \cup {i}, n + 1, i, nt, su)
  BY <1>5, <1>7, <1>8 DEF FreeListOf
<1> QED BY <1>3, <1>6, <1>9 DEF IsFreeList

(* alloc_node: the first node taken off.                                   *)
LEMMA FreePop ==
    ASSUME NEW S, IsFiniteSet(S), NEW fh, NEW ns, IsFreeList(S, fh, ns),
           fh # NONE, NONE \notin S, NEW nt,
           \A f \in S \ {fh} : nt[f].forwards[0] = ns[f].forwards[0]
    PROVE  IsFreeList(S \ {fh}, ns[fh].forwards[0], nt)
<1>1. PICK n \in Nat : n = Cardinality(S)
  BY FS_CardinalityType
<1>2. PICK st \in [1 .. n -> S] : FreeListOf(S, n, fh, ns, st)
  BY <1>1 DEF IsFreeList
<1>3. fh \in S /\ Cardinality(S \ {fh}) = n - 1
  BY <1>1, FreeHead, FS_RemoveElement
<1>4. /\ \A f \in S : \E k \in 1 .. n : st[k] = f
      /\ n # 0 /\ fh = st[1]
      /\ \A k \in 1 .. n : ns[st[k]].forwards[0] = IF k = n THEN NONE ELSE st[k + 1]
  BY <1>2, <1>3 DEF FreeListOf
<1>5. \A j, k \in 1 .. n : st[j] = st[k] => j = k
  <2>1. st \in [1 .. Cardinality(S) -> S] /\ \A i \in S : \E k \in 1 .. Cardinality(S) : st[k] = i
    BY <1>1, <1>2, <1>4
  <2>2. \A j, k \in 1 .. Cardinality(S) : st[j] = st[k] => j = k
    BY <2>1, FreeOnce
  <2> QED BY <1>1, <2>2
<1> DEFINE su == [k \in 1 .. n - 1 |-> st[k + 1]]
<1>6. /\ 1 \in 1 .. n
      /\ \A k \in 1 .. n - 1 : k + 1 \in 1 .. n /\ k + 1 # 1 /\ su[k] = st[k + 1]
      /\ \A k \in 1 .. n : k # 1 => k - 1 \in 1 .. n - 1 /\ su[k - 1] = st[k]
  <2>1. \A k \in 1 .. n : k # 1 => k - 1 \in 1 .. n - 1 /\ (k - 1) + 1 = k
    OBVIOUS
  <2>2. \A k \in 1 .. n - 1 : k + 1 \in 1 .. n /\ k + 1 # 1
    OBVIOUS
  <2> QED BY <1>4, <2>1, <2>2
<1>7. \A k \in 1 .. n - 1 : su[k] \in S \ {fh}
  <2> SUFFICES ASSUME NEW k \in 1 .. n - 1 PROVE su[k] \in S /\ su[k] # fh
    OBVIOUS
  <2>1. k + 1 \in 1 .. n /\ k + 1 # 1 /\ su[k] = st[k + 1]
    BY <1>6
  <2> HIDE DEF su
  <2> QED BY <1>2, <1>4, <1>5, <1>6, <2>1
<1>8. su \in [1 .. n - 1 -> S \ {fh}]
  BY <1>7
<1> HIDE DEF su
<1>9. ns[fh].forwards[0] = IF n - 1 = 0 THEN NONE ELSE su[1]
  <2>1. n # 1 => 1 \in 1 .. n - 1 /\ su[1] = st[1 + 1]
    BY <1>4, <1>6
  <2>2. n = 1 <=> n - 1 = 0
    OBVIOUS
  <2> QED BY <1>4, <1>6, <2>1, <2>2
<1>10. ASSUME NEW f \in S \ {fh} PROVE \E k \in 1 .. n - 1 : su[k] = f
  <2>1. PICK k \in 1 .. n : st[k] = f
    BY <1>4
  <2>2. k # 1
    BY <1>4, <2>1
  <2>3. k - 1 \in 1 .. n - 1 /\ su[k - 1] = f
    BY <1>6, <2>1, <2>2
  <2> QED BY <2>3
<1>11. ASSUME NEW k \in 1 .. n - 1
       PROVE  nt[su[k]].forwards[0] = IF k = n - 1 THEN NONE ELSE su[k + 1]
  <2>1. nt[su[k]].forwards[0] = ns[su[k]].forwards[0]
    BY <1>7
  <2>2. k + 1 \in 1 .. n /\ su[k] = st[k + 1] /\ (k + 1 = n <=> k = n - 1)
    BY <1>6
  <2>3. ns[st[k + 1]].forwards[0] = IF k + 1 = n THEN NONE ELSE st[(k + 1) + 1]
    BY <1>4, <2>2
  <2>4. k # n - 1 => k + 1 \in 1 .. n - 1 /\ su[k + 1] = st[(k + 1) + 1]
    BY <1>6
  <2> QED BY <2>1, <2>2, <2>3, <2>4
<1>12. FreeListOf(S \ {fh}, n - 1, ns[fh].forwards[0], nt, su)
  BY <1>9, <1>10, <1>11 DEF FreeListOf
<1> QED BY <1>3, <1>8, <1>12 DEF IsFreeList

-----------------------------------------------------------------------------
(***************************************************************************)
(* The invariant.                                                          *)
(***************************************************************************)
(* The pool is a prefix of the indices; cursors point into it.             *)
TypeOK ==
    /\ \E n \in 0 .. NONE : nodes \in [0 .. n - 1 -> LevelNode]
    /\ free_head \in Index \cup {NONE}
    /\ head \in Links
    /\ DOMAIN tick_to_node \subseteq Price
    /\ \A t \in DOMAIN tick_to_node : tick_to_node[t] \in DOMAIN nodes
    /\ pc \in {"idle", "reclaim", "fill", "find", "link", "unlink"}
    /\ op \in {"link", "unlink"} /\ ret \in {"idle", "fill"}
    /\ node \in DOMAIN nodes \cup {NONE} /\ cur \in DOMAIN nodes \cup {NONE}
    /\ lane \in 0 .. MAX_HEIGHT /\ update \in [LaneNo -> DOMAIN nodes \cup {NONE}]
    /\ rest \in Seq(Level)

(* What the loops may rely on when they run.                               *)
Control ==
    /\ pc \in {"find", "link", "unlink"} => node \in Mapped
    /\ pc = "find" => lane \in LaneNo
    /\ pc \in {"link", "unlink"} => op = pc /\ lane <= nodes[node].height
    /\ pc \in {"find", "unlink"} /\ op = "unlink" => ret = "idle" /\ 0 \in Size
    /\ pc = "reclaim" => cur \in Mapped \cup {NONE}

(* The levels apply_levels has yet to enter: no price twice, and none that *)
(* is on the map.                                                          *)
RestInv ==
    /\ DistinctPrices(rest)
    /\ pc = "idle" \/ (pc \in {"find", "link", "unlink"} /\ ret = "idle") => rest = <<>>
    /\ pc \in {"fill", "find", "link"} =>
          \A k \in DOMAIN rest : rest[k].price \notin DOMAIN tick_to_node

IInv == TypeOK /\ Control /\ LaneInv /\ UpdateInv /\ FreeListInv /\ RestInv
-----------------------------------------------------------------------------
(* The pool, and the nodes the map leads to.                               *)
LEMMA PoolFacts ==
    ASSUME TypeOK
    PROVE  /\ PoolLen \in 0 .. NONE
           /\ nodes \in [0 .. PoolLen - 1 -> LevelNode]
           /\ DOMAIN nodes = 0 .. PoolLen - 1
           /\ IsFiniteSet(DOMAIN nodes)
           /\ DOMAIN nodes \subseteq Index /\ NONE \notin DOMAIN nodes
           /\ Mapped \subseteq DOMAIN nodes /\ NONE \notin Mapped
           /\ 0 \in LaneNo /\ MAX_HEIGHT - 1 \in LaneNo
<1>1. PICK n \in 0 .. NONE : nodes \in [0 .. n - 1 -> LevelNode]
  BY DEF TypeOK
<1>2. n \in Nat /\ NONE \in Nat /\ n <= NONE
  BY SkipBookSideAssumption
<1>3. DOMAIN nodes = 0 .. n - 1
  BY <1>1
<1>4. IsFiniteSet(0 .. n - 1) /\ Cardinality(0 .. n - 1) = n
  BY <1>2, FS_Interval
<1>5. PoolLen = n
  BY <1>3, <1>4 DEF PoolLen
<1>6. DOMAIN nodes \subseteq Index /\ NONE \notin DOMAIN nodes
  BY <1>2, <1>3 DEF Index
<1>7. Mapped \subseteq DOMAIN nodes
  BY DEF TypeOK, Mapped
<1>8. 0 \in LaneNo /\ MAX_HEIGHT - 1 \in LaneNo
  BY SkipBookSideAssumption DEF LaneNo
<1> QED BY <1>1, <1>3, <1>4, <1>5, <1>6, <1>7, <1>8

LEMMA NodeFacts ==
    ASSUME TypeOK
    PROVE  \A i \in DOMAIN nodes :
              /\ nodes[i].price \in Price /\ nodes[i].size \in Size
              /\ nodes[i].height \in 1 .. MAX_HEIGHT
              /\ nodes[i].forwards \in Links
              /\ \A h \in LaneNo : nodes[i].forwards[h] \in Index \cup {NONE}
BY PoolFacts DEF LevelNode, Links

LEMMA MapFacts ==
    ASSUME TypeOK, \A t \in DOMAIN tick_to_node : nodes[tick_to_node[t]].price = t
    PROVE  /\ Distinct(nodes, Mapped)
           /\ \A i \in Mapped : /\ nodes[i].price \in DOMAIN tick_to_node
                                /\ tick_to_node[nodes[i].price] = i
           /\ \A t \in DOMAIN tick_to_node : tick_to_node[t] \in Mapped
<1>1. \A i \in Mapped : nodes[i].price \in DOMAIN tick_to_node /\ tick_to_node[nodes[i].price] = i
  BY DEF Mapped
<1>2. \A i \in Mapped : nodes[i].price \in Price
  BY PoolFacts, NodeFacts
<1>3. NONE \notin Mapped
  BY PoolFacts
<1> QED BY <1>1, <1>2, <1>3 DEF Distinct, Mapped

(* Writing one link of one node.                                           *)
Pool(n) == [0 .. n - 1 -> LevelNode]

OneLink(ns, nt, n, i, h, x) ==
    /\ nt \in [0 .. n - 1 -> LevelNode]
    /\ \A j \in 0 .. n - 1 :
          /\ nt[j].price = ns[j].price /\ nt[j].size = ns[j].size
          /\ nt[j].height = ns[j].height
          /\ \A g \in LaneNo :
                nt[j].forwards[g] = IF j = i /\ g = h THEN x ELSE ns[j].forwards[g]

LEMMA SetForwardFacts ==
    ASSUME NEW n, NEW ns \in Pool(n), NEW i, NEW h \in LaneNo, NEW x \in Index \cup {NONE}
    PROVE  OneLink(ns, SetForward(ns, i, h, x), n, i, h, x)
<1> DEFINE nt == SetForward(ns, i, h, x)
<1>1. DOMAIN ns = 0 .. n - 1
  BY DEF Pool
<1>2. ASSUME NEW j \in 0 .. n - 1
      PROVE  /\ nt[j] \in LevelNode
             /\ nt[j].price = ns[j].price /\ nt[j].size = ns[j].size
             /\ nt[j].height = ns[j].height
             /\ \A g \in LaneNo :
                   nt[j].forwards[g] = IF j = i /\ g = h THEN x ELSE ns[j].forwards[g]
  <2>1. ns[j] \in LevelNode
    BY DEF Pool
  <2>2. nt[j] = IF j = i THEN [ns[j] EXCEPT !.forwards[h] = x] ELSE ns[j]
    BY <1>1 DEF SetForward
  <2> HIDE DEF nt
  <2> QED BY <2>1, <2>2 DEF LevelNode, Links
<1>3. nt = [j \in 0 .. n - 1 |-> nt[j]]
  BY <1>1 DEF SetForward
<1> HIDE DEF nt
<1>4. OneLink(ns, nt, n, i, h, x)
  BY <1>2, <1>3 DEF OneLink
<1> QED BY <1>4 DEF nt

-----------------------------------------------------------------------------
(* The parts of LaneInv and UpdateInv, before a step and after it.         *)
Ends(p) == IF p = "reclaim" THEN {} ELSE {NONE}

Leads(ns, hd, i, h) == IF i = NONE THEN hd[h] ELSE ns[i].forwards[h]

IsLane(ns, hd, S, E, h) == \A i \in S \cup E : First(ns, i, Leads(ns, hd, i, h), S)

MapFinds(map, ns) == \A t \in DOMAIN map : ns[map[t]].price = t

LEMMA LanesAre ==
    /\ LaneInv <=> /\ MapFinds(tick_to_node, nodes)
                   /\ \A h \in LaneNo : IsLane(nodes, head, Lane(h), Ends(pc), h)
    /\ LaneInv' <=> /\ MapFinds(tick_to_node', nodes')
                    /\ \A h \in LaneNo : IsLane(nodes', head', Lane(h)', Ends(pc'), h)
<1> DEFINE P(i, h) ==
        LET j == Next(i, h)
            after == {k \in Lane(h) : i = NONE \/ Before(i, k)}
        IN  \/ j = NONE /\ after = {}
            \/ j \in after /\ \A k \in after : k = j \/ Before(j, k)
<1>1. ASSUME NEW i, NEW h
      PROVE  P(i, h) <=> First(nodes, i, Leads(nodes, head, i, h), Lane(h))
  BY DEF First, Leads, Next, Before, Precede
<1>2. ASSUME NEW i, NEW h
      PROVE  P(i, h)' <=> First(nodes', i, Leads(nodes', head', i, h), Lane(h)')
  BY DEF First, Leads, Next, Before, Precede
<1>3. LaneInv <=> /\ MapFinds(tick_to_node, nodes)
                  /\ \A h \in LaneNo : \A i \in Lane(h) \cup Ends(pc) : P(i, h)
  BY DEF LaneInv, MapFinds, Ends
<1>4. LaneInv' <=> /\ MapFinds(tick_to_node', nodes')
                   /\ \A h \in LaneNo : \A i \in Lane(h)' \cup Ends(pc') : P(i, h)'
  BY DEF LaneInv, MapFinds, Ends
<1> HIDE DEF P
<1> QED BY <1>1, <1>2, <1>3, <1>4 DEF IsLane

LEMMA UpdateIs ==
    /\ UpdateInv <=>
          /\ pc = "find" =>
                /\ \A h : h = lane => cur = NONE \/ (cur \in Lane(h) /\ Precede(nodes, cur, node))
                /\ \A h \in LaneNo : h > lane => Last(nodes, update[h], node, Lane(h))
          /\ pc \in {"link", "unlink"} => \A h \in LaneNo : Last(nodes, update[h], node, Lane(h))
          /\ pc = "unlink" /\ lane < nodes[node].height =>
                Leads(nodes, head, update[lane], lane) = node
    /\ UpdateInv' <=>
          /\ pc' = "find" =>
                /\ \A h : h = lane' => cur' = NONE \/ (cur' \in Lane(h)' /\ Precede(nodes', cur', node'))
                /\ \A h \in LaneNo : h > lane' => Last(nodes', update'[h], node', Lane(h)')
          /\ pc' \in {"link", "unlink"} =>
                \A h \in LaneNo : Last(nodes', update'[h], node', Lane(h)')
          /\ pc' = "unlink" /\ lane' < nodes'[node'].height =>
                Leads(nodes', head', update'[lane'], lane') = node'
BY DEF UpdateInv, LastBefore, Last, Before, Precede, Leads, Next, MoreLanes, Lane, Busy

(* A lane no step writes to.                                               *)
LEMMA LaneKept ==
    ASSUME NEW ns, NEW hd, NEW S, NEW E, NEW h, IsLane(ns, hd, S, E, h), NONE \notin S,
           NEW nt, \A i \in S : nt[i].price = ns[i].price /\ nt[i].forwards[h] = ns[i].forwards[h],
           NEW hdt, hdt[h] = hd[h], NEW Et, Et \subseteq E \cup S, E \subseteq {NONE}
    PROVE  IsLane(nt, hdt, S, Et, h)
<1>1. \A i \in S \cup {NONE} : Leads(nt, hdt, i, h) = Leads(ns, hd, i, h)
  BY DEF Leads
<1>2. \A i \in S \cup E : First(ns, i, Leads(ns, hd, i, h), S)
  BY DEF IsLane
<1>3. \A i \in S \cup E : First(nt, i, Leads(ns, hd, i, h), S)
  BY <1>2, SamePrices
<1> QED BY <1>1, <1>3 DEF IsLane

(* A free list no step writes to.                                          *)
LEMMA FreeKept ==
    ASSUME TypeOK, FreeListInv, DOMAIN nodes' = DOMAIN nodes, free_head' = free_head,
           InUse' = InUse,
           \A f \in DOMAIN nodes \ InUse : nodes'[f].forwards[0] = nodes[f].forwards[0]
    PROVE  FreeListInv'
<1>1. IsFiniteSet(DOMAIN nodes \ InUse)
  BY PoolFacts, FS_Subset
<1>2. IsFreeList(DOMAIN nodes \ InUse, free_head, nodes)
  BY <1>1, FreeListIs
<1>3. IsFreeList(DOMAIN nodes \ InUse, free_head, nodes')
  BY <1>2, FreeSame
<1> QED BY <1>1, <1>3, FreeListIs
-----------------------------------------------------------------------------
(***************************************************************************)
(* Every step preserves the invariant.                                     *)
(***************************************************************************)
(* A step that writes to no node and to no head, and moves no lane.        *)
LEMMA Quiet ==
    ASSUME TypeOK, LaneInv, FreeListInv, UNCHANGED struct,
           \A h \in LaneNo : Lane(h)' = Lane(h), Ends(pc') \subseteq Ends(pc), InUse' = InUse
    PROVE  LaneInv' /\ FreeListInv'
<1>1. MapFinds(tick_to_node', nodes')
  BY LanesAre DEF struct
<1>2. ASSUME NEW h \in LaneNo PROVE IsLane(nodes', head', Lane(h)', Ends(pc'), h)
  <2>1. IsLane(nodes, head, Lane(h), Ends(pc), h)
    BY LanesAre
  <2> QED BY <2>1 DEF IsLane, struct
<1>3. LaneInv'
  BY <1>1, <1>2, LanesAre
<1> QED BY <1>3, FreeKept DEF struct

LEMMA Stutter ==
    ASSUME IInv, UNCHANGED vars
    PROVE  IInv'
<1>1. TypeOK' /\ Control' /\ RestInv'
  BY DEF vars, IInv, TypeOK, Control, RestInv, Mapped
<1>2. \A h \in LaneNo : Lane(h)' = Lane(h)
  BY DEF vars, Lane, Busy, Before, Mapped
<1>3. UpdateInv'
  BY DEF vars, IInv, UpdateInv, LastBefore, Lane, Busy, Before, Next, Mapped, MoreLanes
<1>4. InUse' = InUse /\ Ends(pc') = Ends(pc) /\ UNCHANGED struct
  BY DEF vars, InUse, Lane, Busy, Before, Mapped, Ends, struct
<1> QED BY <1>1, <1>2, <1>3, <1>4, Quiet DEF IInv

(* The free nodes alloc_node takes from, and those that it leaves.         *)
LEMMA AllocFacts ==
    ASSUME TypeOK, FreeListInv, CanAlloc, pc # "reclaim"
    PROVE  /\ AllocIndex \in Index /\ AllocIndex \notin Mapped
           /\ \E n \in 0 .. NONE : DOMAIN nodes \cup {AllocIndex} = 0 .. n - 1
           /\ FreeHeadAfterAlloc \in Index \cup {NONE}
           /\ \A ns : (\A f \in DOMAIN nodes \ {AllocIndex} : ns[f] = nodes[f]) =>
                 IsFreeList((DOMAIN nodes \cup {AllocIndex}) \ (Mapped \cup {AllocIndex}),
                            FreeHeadAfterAlloc, ns)
<1> DEFINE S == DOMAIN nodes \ Mapped
<1>1. IsFiniteSet(S) /\ NONE \notin S /\ InUse = Mapped
  BY PoolFacts, FS_Subset DEF InUse
<1>2. IsFreeList(S, free_head, nodes)
  BY <1>1, FreeListIs
<1>3. NONE \in Nat
  BY SkipBookSideAssumption
<1>4. CASE free_head # NONE
  <2>1. /\ AllocIndex = free_head /\ FreeHeadAfterAlloc = nodes[free_head].forwards[0]
        /\ free_head \in S /\ nodes[free_head].forwards[0] \in S \cup {NONE}
    <3> HIDE DEF S
    <3> QED BY <1>1, <1>2, <1>4, FreeHead DEF AllocIndex, FreeHeadAfterAlloc
  <2>2. (DOMAIN nodes \cup {AllocIndex}) \ (Mapped \cup {AllocIndex}) = S \ {free_head}
    BY <2>1
  <2>3. DOMAIN nodes \cup {AllocIndex} = 0 .. PoolLen - 1 /\ PoolLen \in 0 .. NONE
    BY <2>1, PoolFacts
  <2>4. ASSUME NEW ns, \A f \in DOMAIN nodes \ {AllocIndex} : ns[f] = nodes[f]
        PROVE  IsFreeList(S \ {free_head}, FreeHeadAfterAlloc, ns)
    <3>1. \A f \in S \ {free_head} : ns[f].forwards[0] = nodes[f].forwards[0]
      BY <2>1, <2>4
    <3> HIDE DEF S
    <3> QED BY <1>1, <1>2, <1>4, <2>1, <3>1, FreePop
  <2> QED BY <2>1, <2>2, <2>3, <2>4, PoolFacts
<1>5. CASE free_head = NONE
  <2>1. AllocIndex = PoolLen /\ FreeHeadAfterAlloc = NONE /\ PoolLen # NONE
    BY <1>5 DEF AllocIndex, FreeHeadAfterAlloc, CanAlloc
  <2>2. S = {}
    <3> HIDE DEF S
    <3> QED BY <1>1, <1>2, <1>5, FreeHead
  <2>3. PoolLen \in Index /\ PoolLen + 1 \in 0 .. NONE /\ PoolLen \notin DOMAIN nodes
    BY <1>3, <2>1, PoolFacts DEF Index
  <2>4. DOMAIN nodes \cup {AllocIndex} = 0 .. (PoolLen + 1) - 1
    BY <1>3, <2>1, PoolFacts
  <2>5. (DOMAIN nodes \cup {AllocIndex}) \ (Mapped \cup {AllocIndex}) = S
    BY <2>2
  <2>6. \A ns : IsFreeList(S, FreeHeadAfterAlloc, ns)
    <3> HIDE DEF S
    <3> QED BY <1>2, <1>5, <2>1, <2>2, FreeSame
  <2> QED BY <2>1, <2>3, <2>4, <2>5, <2>6, PoolFacts
<1> QED BY <1>4, <1>5

(* alloc_node, or the level dropped, up to the call of find_update.        *)
LEMMA InsertKeeps ==
    ASSUME IInv, pc \in {"idle", "fill"}, NEW lvl \in Level,
           lvl.price \notin DOMAIN tick_to_node, Insert(lvl, pc),
           rest' \in Seq(Level), DistinctPrices(rest'), pc = "idle" => rest' = <<>>,
           \A k \in DOMAIN rest' :
               rest'[k].price \notin DOMAIN tick_to_node /\ rest'[k].price # lvl.price
    PROVE  IInv'
<1> USE DEF IInv
<1>1. CASE ~CanAlloc
  <2>1. pc' = pc /\ UNCHANGED <<op, ret, node, cur, lane, update>> /\ UNCHANGED struct
    BY <1>1 DEF Insert
  <2>2. TypeOK' /\ Control' /\ RestInv'
    BY <2>1 DEF struct, TypeOK, Control, RestInv, Mapped
  <2>3. \A h \in LaneNo : Lane(h)' = Lane(h)
    BY <2>1 DEF Lane, Busy, Before, Mapped, struct
  <2>4. InUse' = InUse
    BY <2>1 DEF InUse, Mapped, struct
  <2>5. UpdateInv'
    BY <2>1 DEF UpdateInv
  <2> QED BY <2>1, <2>2, <2>3, <2>4, <2>5, Quiet
<1>2. CASE CanAlloc
  <2> DEFINE i == AllocIndex
  <2>1. PICK height \in 1 .. MAX_HEIGHT : nodes' = WithNode(i, lvl, height)
    BY <1>2 DEF Insert
  <2>2. /\ free_head' = FreeHeadAfterAlloc /\ UNCHANGED head
        /\ tick_to_node' = [t \in DOMAIN tick_to_node \cup {lvl.price} |->
                              IF t = lvl.price THEN i ELSE tick_to_node[t]]
        /\ pc' = "find" /\ op' = "link" /\ ret' = pc /\ node' = i
        /\ cur' = NONE /\ lane' = MAX_HEIGHT - 1 /\ update' = NoLinks
    BY <1>2 DEF Insert, Find
  <2>3. /\ i \in Index /\ i \notin Mapped
        /\ FreeHeadAfterAlloc \in Index \cup {NONE}
        /\ \A ns : (\A f \in DOMAIN nodes \ {i} : ns[f] = nodes[f]) =>
              IsFreeList((DOMAIN nodes \cup {i}) \ (Mapped \cup {i}), FreeHeadAfterAlloc, ns)
    BY <1>2, AllocFacts
  <2>4. PICK n \in 0 .. NONE : DOMAIN nodes \cup {i} = 0 .. n - 1
    BY <1>2, AllocFacts
  <2> HIDE DEF i
  <2>5. /\ DOMAIN nodes' = DOMAIN nodes \cup {i}
        /\ nodes'[i] = [price |-> lvl.price, size |-> lvl.size,
                        height |-> height, forwards |-> NoLinks]
        /\ \A j \in DOMAIN nodes \ {i} : nodes'[j] = nodes[j]
    BY <2>1 DEF WithNode
  <2>6. NONE \in Nat /\ MAX_HEIGHT - 1 \in LaneNo /\ MAX_HEIGHT \in Nat
    BY SkipBookSideAssumption DEF LaneNo
  <2>7. nodes' \in [0 .. n - 1 -> LevelNode]
    <3>1. nodes'[i] \in LevelNode
      BY <2>5 DEF LevelNode, Level, NoLinks, Links
    <3>2. \A j \in DOMAIN nodes \ {i} : nodes'[j] \in LevelNode
      BY <2>5, PoolFacts
    <3>3. nodes' = [j \in 0 .. n - 1 |-> nodes'[j]]
      BY <2>1, <2>4 DEF WithNode
    <3> QED BY <2>4, <3>1, <3>2, <3>3
  <2>8. Mapped' = Mapped \cup {i}
    BY <2>2 DEF Mapped
  <2>9. TypeOK'
    <3>1. \E m \in 0 .. NONE : nodes' \in [0 .. m - 1 -> LevelNode]
      BY <2>7
    <3>2. \A t \in DOMAIN tick_to_node' : tick_to_node'[t] \in DOMAIN nodes'
      BY <2>2, <2>5 DEF TypeOK
    <3>3. DOMAIN tick_to_node' \subseteq Price /\ head' \in Links
      BY <2>2 DEF TypeOK, Level
    <3>4. update' \in [LaneNo -> DOMAIN nodes' \cup {NONE}] /\ lane' \in 0 .. MAX_HEIGHT
      BY <2>2, <2>6 DEF NoLinks, LaneNo
    <3> QED BY <2>2, <2>3, <2>5, <3>1, <3>2, <3>3, <3>4 DEF TypeOK
  <2>10. Control'
    BY <2>2, <2>6, <2>8 DEF Control
  <2>11. \A h \in LaneNo : Lane(h)' = Lane(h)
    <3> SUFFICES ASSUME NEW h \in LaneNo, NEW j PROVE j \in Lane(h)' <=> j \in Lane(h)
      OBVIOUS
    <3>1. j \in Lane(h) <=> j \in Mapped /\ nodes[j].height > h
      BY DEF Lane, Busy
    <3>2. j \in Lane(h)' <=> j \in Mapped' /\ nodes'[j].height > h /\ j # i
      BY <2>2 DEF Lane, Busy
    <3>3. j \in Mapped => j # i /\ nodes'[j] = nodes[j]
      BY <2>3, <2>5, PoolFacts
    <3> QED BY <2>8, <3>1, <3>2, <3>3
  <2>12. LaneInv'
    <3>1. MapFinds(tick_to_node', nodes')
      <4>1. \A t \in DOMAIN tick_to_node : tick_to_node[t] \in DOMAIN nodes \ {i}
        BY <2>3, PoolFacts DEF Mapped
      <4>2. MapFinds(tick_to_node, nodes)
        BY LanesAre
      <4> QED BY <2>2, <2>5, <4>1, <4>2 DEF MapFinds
    <3>2. ASSUME NEW h \in LaneNo PROVE IsLane(nodes', head', Lane(h)', Ends(pc'), h)
      <4>1. IsLane(nodes, head, Lane(h), Ends(pc), h) /\ Ends(pc) = {NONE} /\ Ends(pc') = {NONE}
        BY <2>2, LanesAre DEF Ends
      <4>2. NONE \notin Lane(h) /\ \A j \in Lane(h) : nodes'[j] = nodes[j]
        BY <2>3, <2>5, PoolFacts DEF Lane
      <4> QED BY <2>2, <2>11, <4>1, <4>2, LaneKept
    <3> QED BY <3>1, <3>2, LanesAre
  <2>13. UpdateInv'
    BY <2>2, <2>6 DEF UpdateInv, LaneNo
  <2>14. FreeListInv'
    <3>1. InUse' = Mapped \cup {i}
      BY <2>2, <2>8 DEF InUse
    <3>2. IsFreeList(DOMAIN nodes' \ InUse', free_head', nodes')
      BY <2>2, <2>3, <2>5, <3>1
    <3>3. IsFiniteSet(DOMAIN nodes')
      <4>1. 0 \in Int /\ n - 1 \in Int /\ DOMAIN nodes' = 0 .. n - 1
        BY <2>4, <2>5, <2>6
      <4> QED BY <4>1, FS_Interval
    <3> QED BY <3>2, <3>3, FS_Subset, FreeListIs
  <2>15. RestInv'
    BY <2>2 DEF RestInv
  <2> QED BY <2>9, <2>10, <2>12, <2>13, <2>14, <2>15
<1> QED BY <1>1, <1>2

LEMMA ApplyLevelRemoveKeeps ==
    ASSUME IInv, pc = "idle", NEW p \in Price, 0 \in Size, ApplyLevelRemove(p)
    PROVE  IInv'
<1> USE DEF IInv
<1>1. /\ p \in DOMAIN tick_to_node /\ pc' = "find" /\ op' = "unlink" /\ ret' = "idle"
      /\ node' = tick_to_node[p] /\ cur' = NONE /\ lane' = MAX_HEIGHT - 1
      /\ update' = NoLinks /\ UNCHANGED rest /\ UNCHANGED struct
  BY DEF ApplyLevelRemove, Find
<1>2. Mapped' = Mapped /\ node' \in Mapped
  BY <1>1 DEF Mapped, struct
<1>3. MAX_HEIGHT - 1 \in LaneNo /\ MAX_HEIGHT \in Nat \ {0}
  BY SkipBookSideAssumption DEF LaneNo
<1>4. TypeOK'
  <2>1. update' \in [LaneNo -> DOMAIN nodes' \cup {NONE}] /\ lane' \in 0 .. MAX_HEIGHT
    BY <1>1, <1>3 DEF NoLinks, LaneNo
  <2>2. node' \in DOMAIN nodes'
    BY <1>1, <1>2, PoolFacts DEF struct
  <2> QED BY <1>1, <2>1, <2>2 DEF TypeOK, struct
<1>5. Control'
  BY <1>1, <1>2, <1>3 DEF Control
<1>6. RestInv'
  BY <1>1 DEF RestInv
<1>7. \A h \in LaneNo : Lane(h)' = Lane(h)
  BY <1>1, <1>2 DEF Lane, Busy, struct
<1>8. InUse' = InUse /\ Ends(pc') = Ends(pc)
  BY <1>1, <1>2 DEF InUse, Ends
<1>9. UpdateInv'
  BY <1>1, <1>3 DEF UpdateInv, LaneNo
<1> QED BY <1>1, <1>4, <1>5, <1>6, <1>7, <1>8, <1>9, Quiet

LEMMA ApplyLevelUpdateKeeps ==
    ASSUME IInv, pc = "idle", NEW p \in Price, NEW s \in Size, ApplyLevelUpdate(p, s)
    PROVE  IInv'
<1> USE DEF IInv
<1>1. /\ p \in DOMAIN tick_to_node /\ nodes' = [nodes EXCEPT ![tick_to_node[p]].size = s]
      /\ UNCHANGED <<free_head, head, tick_to_node, pc, op, ret, node, cur, lane, update, rest>>
  BY DEF ApplyLevelUpdate, locals
<1>2. /\ nodes' \in [0 .. PoolLen - 1 -> LevelNode] /\ DOMAIN nodes' = DOMAIN nodes
      /\ \A j \in DOMAIN nodes : /\ nodes'[j].price = nodes[j].price
                                 /\ nodes'[j].height = nodes[j].height
                                 /\ nodes'[j].forwards = nodes[j].forwards
  <2>1. nodes \in [0 .. PoolLen - 1 -> LevelNode]
    BY PoolFacts
  <2> QED BY <1>1, <2>1 DEF LevelNode
<1>3. Mapped' = Mapped /\ Mapped \subseteq DOMAIN nodes
  BY <1>1, PoolFacts DEF Mapped
<1>4. TypeOK'
  <2>1. \E n \in 0 .. NONE : nodes' \in [0 .. n - 1 -> LevelNode]
    BY <1>2, PoolFacts
  <2> QED BY <1>1, <1>2, <2>1 DEF TypeOK
<1>5. Control' /\ RestInv'
  BY <1>1, <1>3 DEF Control, RestInv
<1>6. \A h \in LaneNo : Lane(h)' = Lane(h)
  BY <1>1, <1>2, <1>3 DEF Lane, Busy
<1>7. InUse' = InUse /\ Ends(pc') = Ends(pc) /\ Ends(pc) \subseteq {NONE}
  BY <1>1, <1>3 DEF InUse, Ends
<1>8. LaneInv'
  <2>1. MapFinds(tick_to_node', nodes')
    <3>1. MapFinds(tick_to_node, nodes)
      BY LanesAre
    <3> QED BY <1>1, <1>2, <1>3, <3>1 DEF MapFinds, Mapped
  <2>2. ASSUME NEW h \in LaneNo PROVE IsLane(nodes', head', Lane(h)', Ends(pc'), h)
    <3>1. IsLane(nodes, head, Lane(h), Ends(pc), h)
      BY LanesAre
    <3>2. NONE \notin Lane(h) /\ Lane(h) \subseteq DOMAIN nodes
      BY <1>3, PoolFacts DEF Lane
    <3>3. \A j \in Lane(h) : /\ nodes'[j].price = nodes[j].price
                             /\ nodes'[j].forwards[h] = nodes[j].forwards[h]
      BY <1>2, <3>2
    <3>4. head'[h] = head[h] /\ Ends(pc') \subseteq Ends(pc) \cup Lane(h)
      BY <1>1, <1>7
    <3>5. IsLane(nodes', head', Lane(h), Ends(pc'), h)
      BY <1>7, <3>1, <3>2, <3>3, <3>4, LaneKept
    <3> QED BY <1>6, <3>5
  <2> QED BY <2>1, <2>2, LanesAre
<1>9. UpdateInv'
  BY <1>1 DEF UpdateInv
<1>10. FreeListInv'
  BY <1>1, <1>2, <1>7, FreeKept
<1> QED BY <1>4, <1>5, <1>8, <1>9, <1>10

LEMMA ApplyLevelKeeps ==
    ASSUME IInv, ApplyLevel
    PROVE  IInv'
<1>1. PICK p \in Price, s \in Size :
          \/ s = 0 /\ (ApplyLevelAbsent(p) \/ ApplyLevelRemove(p))
          \/ s # 0 /\ (ApplyLevelUpdate(p, s) \/ ApplyLevelInsert(p, s))
  BY DEF ApplyLevel
<1>2. pc = "idle"
  BY DEF ApplyLevel
<1>3. CASE ApplyLevelAbsent(p)
  BY <1>3, Stutter DEF ApplyLevelAbsent
<1>4. CASE ApplyLevelInsert(p, s)
  <2> DEFINE lvl == [price |-> p, size |-> s]
  <2>1. lvl \in Level /\ lvl.price \notin DOMAIN tick_to_node /\ Insert(lvl, pc)
    BY <1>2, <1>4 DEF ApplyLevelInsert, Level
  <2>2. rest' = <<>> /\ rest' \in Seq(Level)
    BY <1>2, <1>4 DEF ApplyLevelInsert, IInv, RestInv
  <2>3. DistinctPrices(rest') /\ DOMAIN rest' = {}
    BY <2>2 DEF DistinctPrices
  <2> HIDE DEF lvl
  <2> QED BY <1>2, <2>1, <2>2, <2>3, InsertKeeps
<1>5. CASE s = 0 /\ ApplyLevelRemove(p)
  BY <1>2, <1>5, ApplyLevelRemoveKeeps
<1> QED BY <1>1, <1>2, <1>3, <1>4, <1>5, ApplyLevelUpdateKeeps

LEMMA ApplyLevelsKeeps ==
    ASSUME IInv, DistinctSnapshots, ApplyLevels
    PROVE  IInv'
<1> USE DEF IInv
<1>1. /\ pc = "idle" /\ pc' = "reclaim" /\ rest' \in Snapshots /\ cur' = head[0]
      /\ UNCHANGED <<op, ret, node, lane, update>> /\ UNCHANGED struct
  BY DEF ApplyLevels
<1>2. Mapped' = Mapped /\ 0 \in LaneNo
  BY <1>1, PoolFacts DEF Mapped, struct
<1>3. \A h : Lane(h) = {i \in Mapped : nodes[i].height > h}
  BY <1>1 DEF Lane, Busy
<1>4. Lane(0) = Mapped
  <2>1. \A i \in Mapped : nodes[i].height > 0
    BY PoolFacts, NodeFacts, SkipBookSideAssumption
  <2> QED BY <1>3, <2>1
<1>5. First(nodes, NONE, head[0], Mapped)
  <2>1. IsLane(nodes, head, Lane(0), {NONE}, 0)
    BY <1>1, <1>2, LanesAre DEF Ends
  <2> QED BY <1>4, <2>1 DEF IsLane, Leads
<1>6. \/ head[0] = NONE /\ Mapped = {}
      \/ /\ head[0] \in Mapped
         /\ \A k \in Mapped : k = head[0] \/ Before(head[0], k)
  BY <1>5 DEF First, Precede, Before
<1>7. TypeOK' /\ Control'
  BY <1>1, <1>2, <1>6, PoolFacts, BookLevelsAssumption DEF TypeOK, Control, struct
<1>8. RestInv'
  BY <1>1 DEF RestInv, DistinctSnapshots
<1>9. \A h \in LaneNo : Lane(h)' = Lane(h)
  <2> SUFFICES ASSUME NEW h \in LaneNo, NEW j PROVE j \in Lane(h)' <=> j \in Lane(h)
    OBVIOUS
  <2>1. j \in Lane(h)' <=> /\ j \in Mapped' /\ nodes'[j].height > h
                           /\ h = 0 => cur' # NONE /\ (j = cur' \/ Precede(nodes', cur', j))
    BY <1>1 DEF Lane, Busy, Before, Precede
  <2>2. Precede(nodes', cur', j) <=> Before(head[0], j)
    BY <1>1 DEF Before, Precede, struct
  <2> QED BY <1>1, <1>2, <1>3, <1>6, <2>1, <2>2, PoolFacts DEF struct
<1>10. InUse' = InUse
  BY <1>1, <1>2, <1>4, <1>9 DEF InUse
<1>11. Ends(pc') \subseteq Ends(pc)
  BY <1>1 DEF Ends
<1>12. UpdateInv'
  BY <1>1 DEF UpdateInv
<1> QED BY <1>1, <1>7, <1>8, <1>9, <1>10, <1>11, <1>12, Quiet
LEMMA ReclaimKeeps ==
    ASSUME IInv, Reclaim
    PROVE  IInv'
<1> USE DEF IInv
<1> DEFINE next == nodes[cur].forwards[0]
<1>1. /\ pc = "reclaim" /\ cur # NONE /\ nodes' = SetForward(nodes, cur, 0, free_head)
      /\ free_head' = cur /\ cur' = next
      /\ UNCHANGED <<head, tick_to_node, pc, op, ret, node, lane, update, rest>>
  BY DEF Reclaim
<1>2. Mapped' = Mapped /\ 0 \in LaneNo /\ cur \in Mapped
  BY <1>1, PoolFacts DEF Mapped, Control
<1>3. Distinct(nodes, Mapped)
  BY MapFacts DEF LaneInv
<1>4. /\ nodes' \in [0 .. PoolLen - 1 -> LevelNode] /\ DOMAIN nodes' = DOMAIN nodes
      /\ \A j \in DOMAIN nodes :
            /\ nodes'[j].price = nodes[j].price /\ nodes'[j].height = nodes[j].height
            /\ \A g \in LaneNo : nodes'[j].forwards[g] =
                   IF j = cur /\ g = 0 THEN free_head ELSE nodes[j].forwards[g]
  <2>1. PoolLen \in Nat /\ free_head \in Index \cup {NONE} /\ 0 \in LaneNo
    BY PoolFacts, SkipBookSideAssumption DEF TypeOK
  <2>2. nodes \in [0 .. PoolLen - 1 -> LevelNode] /\ DOMAIN nodes = 0 .. PoolLen - 1
    BY PoolFacts
  <2>3. /\ nodes' \in [0 .. PoolLen - 1 -> LevelNode]
        /\ \A j \in 0 .. PoolLen - 1 :
              /\ nodes'[j].price = nodes[j].price /\ nodes'[j].height = nodes[j].height
              /\ \A g \in LaneNo : nodes'[j].forwards[g] =
                     IF j = cur /\ g = 0 THEN free_head ELSE nodes[j].forwards[g]
    <3>1. OneLink(nodes, nodes', PoolLen, cur, 0, free_head)
      BY <1>1, <2>1, <2>2, SetForwardFacts DEF Pool
    <3> QED BY <3>1 DEF OneLink
  <2> QED BY <2>2, <2>3
<1>5. \A j : j \in Lane(0) <=> j \in Mapped /\ (j = cur \/ Precede(nodes, cur, j))
  <2>1. \A i \in Mapped : nodes[i].height > 0
    BY PoolFacts, NodeFacts, SkipBookSideAssumption
  <2> QED BY <1>1, <2>1 DEF Lane, Busy, Before, Precede
<1>6. First(nodes, cur, next, Lane(0))
  <2>1. IsLane(nodes, head, Lane(0), Ends(pc), 0)
    BY <1>2, LanesAre
  <2> QED BY <1>1, <1>2, <1>5, <2>1 DEF IsLane, Leads
<1>7. \A j : j \in Lane(0)' <=> j \in Mapped /\ next # NONE /\ (j = next \/ Precede(nodes, next, j))
  <2>1. \A i \in Mapped : nodes'[i].height > 0
    BY <1>4, PoolFacts, NodeFacts, SkipBookSideAssumption
  <2>2. \A j : j \in Lane(0)' <=> j \in Mapped /\ next # NONE /\ (j = next \/ Precede(nodes', next, j))
    BY <1>1, <1>2, <2>1 DEF Lane, Busy, Before, Precede
  <2>3. next # NONE => next \in Mapped
    BY <1>5, <1>6 DEF First
  <2>4. \A j \in Mapped : next # NONE => (Precede(nodes', next, j) <=> Precede(nodes, next, j))
    BY <1>4, <2>3, PoolFacts DEF Precede
  <2> HIDE DEF next
  <2> QED BY <2>2, <2>4
<1>8. Lane(0)' = Lane(0) \ {cur}
  <2> SUFFICES ASSUME NEW j PROVE j \in Lane(0)' <=> j \in Lane(0) /\ j # cur
    OBVIOUS
  <2> HIDE DEF next
  <2>1. CASE next = NONE
    <3>1. \A k \in Lane(0) : ~Precede(nodes, cur, k)
      BY <1>1, <1>2, <1>3, <1>5, <1>6, <2>1 DEF First, Distinct
    <3> QED BY <1>5, <1>7, <2>1, <3>1
  <2>2. CASE next # NONE
    <3>1. /\ next \in Mapped /\ Precede(nodes, cur, next) /\ cur \in Mapped
          /\ \A k \in Lane(0) : Precede(nodes, cur, k) => k = next \/ Precede(nodes, next, k)
      BY <1>1, <1>2, <1>5, <1>6, <2>2 DEF First
    <3> QED BY <1>3, <1>5, <1>7, <2>2, <3>1, DistinctOrder
  <2> QED BY <2>1, <2>2
<1>9. \A h \in LaneNo : h # 0 => Lane(h)' = Lane(h)
  <2> SUFFICES ASSUME NEW h \in LaneNo, h # 0, NEW j PROVE j \in Lane(h)' <=> j \in Lane(h)
    OBVIOUS
  <2>1. j \in Lane(h) <=> j \in Mapped /\ nodes[j].height > h
    BY <1>1 DEF Lane, Busy
  <2>2. j \in Lane(h)' <=> j \in Mapped /\ nodes'[j].height > h
    BY <1>1, <1>2 DEF Lane, Busy
  <2> QED BY <1>4, <2>1, <2>2, PoolFacts
<1>10. TypeOK' /\ Control' /\ RestInv'
  <2>1. next \in Mapped \cup {NONE}
    BY <1>5, <1>6 DEF First
  <2>2. \E n \in 0 .. NONE : nodes' \in [0 .. n - 1 -> LevelNode]
    BY <1>4, PoolFacts
  <2>3. cur \in Index
    BY <1>2, PoolFacts
  <2> HIDE DEF next
  <2>4. TypeOK'
    BY <1>1, <1>4, <2>1, <2>2, <2>3, PoolFacts DEF TypeOK
  <2> QED BY <1>1, <1>2, <2>1, <2>4 DEF Control, RestInv
<1>11. LaneInv'
  <2>1. MapFinds(tick_to_node', nodes')
    <3>1. MapFinds(tick_to_node, nodes)
      BY LanesAre
    <3> QED BY <1>1, <1>4, <3>1, PoolFacts DEF MapFinds, Mapped
  <2>2. ASSUME NEW h \in LaneNo PROVE IsLane(nodes', head', Lane(h)', Ends(pc'), h)
    <3>1. IsLane(nodes, head, Lane(h), {}, h) /\ Ends(pc') = {}
      BY <1>1, LanesAre DEF Ends
    <3>2. NONE \notin Lane(h) /\ Lane(h) \subseteq DOMAIN nodes
      BY PoolFacts DEF Lane
    <3>3. CASE h # 0
      <4>1. \A j \in Lane(h) : /\ nodes'[j].price = nodes[j].price
                               /\ nodes'[j].forwards[h] = nodes[j].forwards[h]
        BY <1>4, <3>2, <3>3
      <4>2. IsLane(nodes', head', Lane(h), {}, h)
        BY <1>1, <3>1, <3>2, <4>1, LaneKept
      <4> QED BY <1>9, <3>1, <3>3, <4>2
    <3>4. CASE h = 0
      <4> SUFFICES ASSUME NEW i \in Lane(0)'
                   PROVE  First(nodes', i, nodes'[i].forwards[0], Lane(0)')
        BY <3>1, <3>2, <1>8, <3>4 DEF IsLane, Leads
      <4>1. i \in Lane(0) /\ i # cur /\ i \in Mapped /\ cur \in Lane(0)
        BY <1>2, <1>5, <1>8
      <4>2. First(nodes, i, nodes[i].forwards[0], Lane(0))
        BY <3>1, <3>2, <3>4, <4>1 DEF IsLane, Leads
      <4>3. ~Precede(nodes, i, cur)
        BY <1>2, <1>3, <1>5, <4>1, DistinctOrder
      <4>4. First(nodes, i, nodes[i].forwards[0], Lane(0) \ {cur})
        BY <3>2, <3>4, <4>1, <4>2, <4>3 DEF First
      <4>5. \A k \in Lane(0) \ {cur} : nodes'[k].price = nodes[k].price
        BY <1>4, <3>2, <3>4
      <4>6. First(nodes', i, nodes[i].forwards[0], Lane(0) \ {cur})
        BY <4>1, <4>4, <4>5, SamePrices
      <4>7. nodes'[i].forwards[0] = nodes[i].forwards[0]
        BY <1>2, <1>4, <4>1, PoolFacts
      <4> QED BY <1>8, <4>6, <4>7
    <3> QED BY <3>3, <3>4
  <2> QED BY <2>1, <2>2, LanesAre
<1>12. UpdateInv'
  BY <1>1 DEF UpdateInv
<1>13. FreeListInv'
  <2> DEFINE S == DOMAIN nodes \ InUse
  <2>1. InUse = Lane(0) /\ InUse' = Lane(0) \ {cur} /\ cur \in Lane(0)
    BY <1>1, <1>2, <1>5, <1>8 DEF InUse
  <2>2. DOMAIN nodes' \ InUse' = S \cup {cur} /\ cur \notin S
    BY <1>2, <1>4, <2>1, PoolFacts
  <2>3. IsFiniteSet(S) /\ S \subseteq DOMAIN nodes
    BY PoolFacts, FS_Subset
  <2>4. IsFreeList(S, free_head, nodes)
    BY <2>3, FreeListIs
  <2>5. /\ nodes'[cur].forwards[0] = free_head
        /\ \A f \in S : nodes'[f].forwards[0] = nodes[f].forwards[0]
    BY <1>2, <1>4, <2>2, <2>3, PoolFacts
  <2> HIDE DEF S
  <2>6. IsFreeList(S \cup {cur}, cur, nodes') /\ IsFiniteSet(S \cup {cur})
    BY <2>2, <2>3, <2>4, <2>5, FreePush, FS_AddElement
  <2> QED BY <1>1, <2>2, <2>6, FreeListIs
<1> QED BY <1>10, <1>11, <1>12, <1>13

LEMMA ReclaimDoneKeeps ==
    ASSUME IInv, ReclaimDone
    PROVE  IInv'
<1> USE DEF IInv
<1>1. /\ pc = "reclaim" /\ cur = NONE /\ head' = NoLinks /\ tick_to_node' = <<>> /\ pc' = "fill"
      /\ UNCHANGED <<nodes, free_head, op, ret, node, cur, lane, update, rest>>
  BY DEF ReclaimDone
<1>2. Mapped' = {} /\ DOMAIN tick_to_node' = {}
  BY <1>1 DEF Mapped
<1>3. \A h : Lane(h)' = {}
  BY <1>2 DEF Lane
<1>4. TypeOK' /\ Control' /\ RestInv'
  BY <1>1, <1>2 DEF TypeOK, Control, RestInv, NoLinks, Links
<1>5. LaneInv'
  <2>1. \A h \in LaneNo : IsLane(nodes', head', {}, {NONE}, h)
    BY <1>1 DEF IsLane, Leads, First, NoLinks
  <2>2. MapFinds(tick_to_node', nodes') /\ Ends(pc') = {NONE}
    BY <1>1, <1>2 DEF MapFinds, Ends
  <2> QED BY <1>3, <2>1, <2>2, LanesAre
<1>6. UpdateInv'
  BY <1>1 DEF UpdateInv
<1>7. FreeListInv'
  <2>1. InUse = {} /\ InUse' = {}
    BY <1>1, <1>2, PoolFacts DEF InUse, Lane
  <2> QED BY <1>1, <2>1, FreeKept
<1> QED BY <1>4, <1>5, <1>6, <1>7

LEMMA RestFacts ==
    ASSUME IInv, rest # <<>>
    PROVE  /\ Head(rest) \in Level /\ Tail(rest) \in Seq(Level)
           /\ 1 \in DOMAIN rest /\ Head(rest) = rest[1]
           /\ DistinctPrices(Tail(rest))
           /\ \A k \in DOMAIN Tail(rest) : /\ k + 1 \in DOMAIN rest /\ Tail(rest)[k] = rest[k + 1]
                                           /\ Tail(rest)[k].price # Head(rest).price
<1>1. rest \in Seq(Level) /\ DistinctPrices(rest)
  BY DEF IInv, TypeOK, RestInv
<1>2. /\ Head(rest) \in Level /\ Tail(rest) \in Seq(Level)
      /\ 1 \in DOMAIN rest /\ Head(rest) = rest[1]
  BY <1>1
<1>3. \A k \in DOMAIN Tail(rest) :
         k \in Nat \ {0} /\ k + 1 \in DOMAIN rest /\ Tail(rest)[k] = rest[k + 1]
  BY <1>1
<1> QED BY <1>1, <1>2, <1>3 DEF DistinctPrices

LEMMA FillSkipKeeps ==
    ASSUME IInv, FillSkip
    PROVE  IInv'
<1> USE DEF IInv
<1>1. /\ pc = "fill" /\ rest # <<>> /\ rest' = Tail(rest)
      /\ UNCHANGED <<pc, op, ret, node, cur, lane, update>> /\ UNCHANGED struct
  BY DEF FillSkip
<1>2. TypeOK' /\ Control'
  BY <1>1, RestFacts DEF TypeOK, Control, Mapped, struct
<1>3. RestInv'
  BY <1>1, RestFacts DEF RestInv, struct
<1>4. \A h \in LaneNo : Lane(h)' = Lane(h)
  BY <1>1 DEF Lane, Busy, Before, Mapped, struct
<1>5. UpdateInv' /\ InUse' = InUse /\ Ends(pc') = Ends(pc)
  BY <1>1 DEF UpdateInv, InUse, Mapped, Ends, struct
<1> QED BY <1>1, <1>2, <1>3, <1>4, <1>5, Quiet

LEMMA FillInsertKeeps ==
    ASSUME IInv, FillInsert
    PROVE  IInv'
<1>1. /\ pc = "fill" /\ rest # <<>> /\ rest' = Tail(rest) /\ Insert(Head(rest), pc)
  BY DEF FillInsert
<1>2. \A k \in DOMAIN rest : rest[k].price \notin DOMAIN tick_to_node
  BY <1>1 DEF IInv, RestInv
<1>3. /\ Head(rest) \in Level /\ Head(rest).price \notin DOMAIN tick_to_node
      /\ rest' \in Seq(Level) /\ DistinctPrices(rest')
      /\ \A k \in DOMAIN rest' : rest'[k].price \notin DOMAIN tick_to_node
                                 /\ rest'[k].price # Head(rest).price
  BY <1>1, <1>2, RestFacts
<1> QED BY <1>1, <1>3, InsertKeeps

LEMMA FillDoneKeeps ==
    ASSUME IInv, FillDone
    PROVE  IInv'
<1> USE DEF IInv
<1>1. /\ pc = "fill" /\ rest = <<>> /\ pc' = "idle"
      /\ UNCHANGED <<op, ret, node, cur, lane, update, rest>> /\ UNCHANGED struct
  BY DEF FillDone
<1>2. TypeOK' /\ Control' /\ RestInv'
  BY <1>1 DEF TypeOK, Control, RestInv, Mapped, struct
<1>3. \A h \in LaneNo : Lane(h)' = Lane(h)
  BY <1>1 DEF Lane, Busy, Before, Mapped, struct
<1>4. UpdateInv' /\ InUse' = InUse /\ Ends(pc') = Ends(pc)
  BY <1>1 DEF UpdateInv, InUse, Mapped, Ends, struct
<1> QED BY <1>1, <1>2, <1>3, <1>4, Quiet

-----------------------------------------------------------------------------
(* The node find_update looks for is on the map: its price is comparable   *)
(* with those of any lane, and what it is at leads on in this lane.        *)
LEMMA FindFacts ==
    ASSUME IInv, pc \in {"find", "link", "unlink"}
    PROVE  /\ node \in Mapped /\ Distinct(nodes, Mapped)
           /\ \A h \in LaneNo :
                 /\ Lane(h) \subseteq Mapped /\ Distinct(nodes, Lane(h) \cup {node})
                 /\ \A i \in Lane(h) \cup {NONE} : First(nodes, i, Next(i, h), Lane(h))
<1>1. node \in Mapped /\ Distinct(nodes, Mapped)
  BY MapFacts DEF IInv, Control, LaneInv
<1>2. ASSUME NEW h \in LaneNo
      PROVE  /\ Lane(h) \subseteq Mapped /\ Distinct(nodes, Lane(h) \cup {node})
             /\ \A i \in Lane(h) \cup {NONE} : First(nodes, i, Next(i, h), Lane(h))
  <2>1. Lane(h) \subseteq Mapped
    BY DEF Lane
  <2>2. IsLane(nodes, head, Lane(h), {NONE}, h)
    BY LanesAre DEF IInv, Ends
  <2> QED BY <1>1, <2>1, <2>2 DEF Distinct, IsLane, Leads, Next
<1> QED BY <1>1, <1>2

LEMMA FindAdvanceKeeps ==
    ASSUME IInv, FindAdvance
    PROVE  IInv'
<1> USE DEF IInv
<1>1. /\ pc = "find" /\ StillBefore(Next(cur, lane)) /\ cur' = Next(cur, lane)
      /\ UNCHANGED <<pc, op, ret, node, lane, update, rest>> /\ UNCHANGED struct
  BY DEF FindAdvance
<1>2. lane \in LaneNo /\ (cur = NONE \/ (cur \in Lane(lane) /\ Before(cur, node)))
  BY <1>1 DEF Control, UpdateInv
<1>3. cur' \in Lane(lane) /\ Before(cur', node)
  <2>1. First(nodes, cur, Next(cur, lane), Lane(lane))
    BY <1>1, <1>2, FindFacts
  <2> QED BY <1>1, <2>1 DEF First, StillBefore, Before
<1>4. \A h \in LaneNo : Lane(h)' = Lane(h)
  BY <1>1 DEF Lane, Busy, Mapped, struct
<1>5. cur' \in DOMAIN nodes
  BY <1>3, PoolFacts DEF Lane
<1>6. TypeOK' /\ Control' /\ RestInv'
  BY <1>1, <1>5 DEF TypeOK, Control, RestInv, Mapped, struct
<1>7. InUse' = InUse /\ Ends(pc') = Ends(pc)
  BY <1>1 DEF InUse, Mapped, Ends, struct
<1>8. UpdateInv'
  <2>1. \A h \in LaneNo : h > lane => Last(nodes, update[h], node, Lane(h))
    BY <1>1, UpdateIs
  <2>2. \A h \in LaneNo : h > lane' => Last(nodes', update'[h], node', Lane(h)')
    BY <1>1, <1>4, <2>1 DEF struct
  <2>3. \A h : h = lane' => cur' \in Lane(h)' /\ Precede(nodes', cur', node')
    BY <1>1, <1>2, <1>3, <1>4 DEF Before, Precede, struct
  <2> QED BY <1>1, <2>2, <2>3, UpdateIs
<1> QED BY <1>1, <1>4, <1>6, <1>7, <1>8, Quiet

(* A lane down, every node found so far is in the lane below as well; out  *)
(* of the lowest lane, it leads to the node in a lane the node is in.      *)
LEMMA FindDownKeeps ==
    ASSUME IInv, FindDown
    PROVE  IInv'
<1> USE DEF IInv
<1>1. /\ pc = "find" /\ ~StillBefore(Next(cur, lane))
      /\ update' = [update EXCEPT ![lane] = cur]
      /\ lane = 0 => pc' = op /\ lane' = lane
      /\ lane # 0 => lane' = lane - 1 /\ pc' = pc
      /\ UNCHANGED <<op, ret, node, cur, rest>> /\ UNCHANGED struct
  BY DEF FindDown
<1>2. /\ lane \in LaneNo /\ (cur = NONE \/ (cur \in Lane(lane) /\ Before(cur, node)))
      /\ \A h \in LaneNo : h > lane => Last(nodes, update[h], node, Lane(h))
  BY <1>1, UpdateIs DEF Control, Before, Precede
<1>3. lane \in 0 .. MAX_HEIGHT - 1 /\ MAX_HEIGHT \in Nat
  BY <1>2, SkipBookSideAssumption DEF LaneNo
<1>4. Last(nodes, cur, node, Lane(lane))
  <2>1. First(nodes, cur, Next(cur, lane), Lane(lane))
    BY <1>1, <1>2, FindFacts
  <2>2. cur = NONE \/ (cur \in Lane(lane) /\ Precede(nodes, cur, node))
    BY <1>2 DEF Before, Precede
  <2>3. Next(cur, lane) = NONE \/ ~Precede(nodes, Next(cur, lane), node)
    BY <1>1 DEF StillBefore, Precede
  <2> QED BY <1>1, <1>2, <2>1, <2>2, <2>3, FindFacts, StoppedAtLast
<1>5. \A h \in LaneNo : h >= lane => Last(nodes, update'[h], node, Lane(h))
  <2>1. \A h \in LaneNo : h > lane => Last(nodes, update[h], node, Lane(h))
    BY <1>2
  <2>2. \A h \in LaneNo : update'[h] = IF h = lane THEN cur ELSE update[h]
    BY <1>1 DEF TypeOK
  <2>3. \A h \in LaneNo : h >= lane /\ h # lane => h > lane
    BY <1>3 DEF LaneNo
  <2> QED BY <1>4, <2>1, <2>2, <2>3
<1>6. \A h \in LaneNo : Lane(h)' = Lane(h)
  <2>1. Mapped' = Mapped /\ nodes' = nodes /\ op \in {"link", "unlink"}
    BY <1>1 DEF Mapped, struct, TypeOK
  <2>2. \A h \in LaneNo : ~(h < 0) /\ h >= 0
    BY <1>3 DEF LaneNo
  <2> QED BY <1>1, <2>1, <2>2 DEF Lane, Busy
<1>7. TypeOK' /\ Control' /\ RestInv'
  <2>1. TypeOK'
    <3>1. lane' \in 0 .. MAX_HEIGHT /\ pc' \in {"find", "link", "unlink"}
      BY <1>1, <1>3 DEF TypeOK
    <3>2. update' \in [LaneNo -> DOMAIN nodes' \cup {NONE}]
      BY <1>1, <1>2 DEF TypeOK, struct
    <3> QED BY <1>1, <3>1, <3>2 DEF TypeOK, struct
  <2>2. Control'
    <3>1. node' \in Mapped' /\ node \in DOMAIN nodes
      BY <1>1, PoolFacts DEF Control, Mapped, struct
    <3>2. nodes[node].height \in 1 .. MAX_HEIGHT
      BY <3>1, NodeFacts
    <3>3. lane = 0 => lane' <= nodes'[node'].height
      BY <1>1, <1>3, <3>2 DEF struct
    <3>4. lane # 0 => lane' \in LaneNo
      BY <1>1, <1>3 DEF LaneNo
    <3> QED BY <1>1, <3>1, <3>3, <3>4 DEF Control, TypeOK
  <2>3. RestInv'
    BY <1>1 DEF RestInv, Control, TypeOK, struct
  <2> QED BY <2>1, <2>2, <2>3
<1>8. InUse' = InUse /\ Ends(pc') = Ends(pc)
  BY <1>1 DEF InUse, Mapped, Ends, struct, TypeOK
<1>9. UpdateInv'
  <2>1. \A h \in LaneNo : h >= lane => Last(nodes', update'[h], node', Lane(h)')
    BY <1>1, <1>5, <1>6 DEF struct
  <2>2. CASE lane # 0
    <3>1. lane' = lane - 1 /\ lane' \in LaneNo /\ \A h \in LaneNo : h > lane' => h >= lane
      BY <1>1, <1>3, <2>2 DEF LaneNo
    <3>2. cur = NONE \/ (cur \in Lane(lane') /\ Before(cur, node))
      <4>1. Lane(lane) \subseteq Lane(lane - 1)
        <5>1. \A i \in Mapped : nodes[i].height > lane => nodes[i].height > lane - 1
          BY <1>3, PoolFacts, NodeFacts, SkipBookSideAssumption
        <5> QED BY <1>1, <5>1 DEF Lane, Busy
      <4> QED BY <1>2, <3>1, <4>1
    <3>3. \A h : h = lane' => cur' = NONE \/ (cur' \in Lane(h)' /\ Precede(nodes', cur', node'))
      BY <1>1, <1>6, <3>1, <3>2 DEF Before, Precede, struct
    <3> QED BY <1>1, <2>1, <2>2, <3>1, <3>3, UpdateIs
  <2>3. CASE lane = 0
    <3>1. \A h \in LaneNo : h >= lane
      BY <1>3, <2>3 DEF LaneNo
    <3>2. pc' = op /\ lane' = 0 /\ 0 \in LaneNo /\ op # "find"
      BY <1>1, <2>3, PoolFacts DEF TypeOK
    <3>3. op = "unlink" => Next(update'[0], 0) = node
      <4> HAVE op = "unlink"
      <4>1. node \in Lane(0)
        <5>1. node \in Mapped /\ nodes[node].height > 0
          BY <1>1, FindFacts, PoolFacts, NodeFacts, SkipBookSideAssumption
        <5> QED BY <1>1, <5>1 DEF Lane, Busy
      <4>2. Last(nodes, update'[0], node, Lane(0))
        BY <1>5, <3>1, <3>2
      <4>3. update'[0] \in Lane(0) \cup {NONE}
        BY <4>2 DEF Last
      <4>4. First(nodes, update'[0], Next(update'[0], 0), Lane(0)) /\ Distinct(nodes, Lane(0))
        BY <1>1, <3>2, <4>1, <4>3, FindFacts DEF Distinct
      <4> QED BY <4>1, <4>2, <4>4, LastLeads
    <3>4. op = "unlink" => Leads(nodes', head', update'[lane'], lane') = node'
      BY <1>1, <3>2, <3>3 DEF Next, Leads, struct
    <3> QED BY <2>1, <3>1, <3>2, <3>4, UpdateIs DEF TypeOK
  <2> QED BY <2>2, <2>3
<1> QED BY <1>1, <1>6, <1>7, <1>8, <1>9, Quiet
-----------------------------------------------------------------------------
(***************************************************************************)
(* A step of link or unlink writes to lane `lane` of the node and of what  *)
(* find_update found there, and to nothing else.                           *)
(***************************************************************************)
Relinked(pred) ==
    /\ nodes' \in [0 .. PoolLen - 1 -> LevelNode] /\ head' \in Links
    /\ \A j \in DOMAIN nodes :
          /\ nodes'[j].price = nodes[j].price /\ nodes'[j].height = nodes[j].height
          /\ nodes'[j].size = nodes[j].size
          /\ \A g \in LaneNo : (g # lane \/ j \notin {node, pred}) =>
                nodes'[j].forwards[g] = nodes[j].forwards[g]
    /\ \A g \in LaneNo : (g # lane \/ pred # NONE) => head'[g] = head[g]
    /\ free_head' = free_head /\ tick_to_node' = tick_to_node
    /\ pc' = pc /\ op' = op /\ ret' = ret /\ node' = node /\ cur' = cur
    /\ lane' = lane + 1 /\ update' = update /\ rest' = rest

SameSizes == \A j \in DOMAIN nodes : nodes'[j].size = nodes[j].size

LEMMA LoopFacts ==
    ASSUME IInv, pc \in {"link", "unlink"}, MoreLanes
    PROVE  /\ lane \in LaneNo /\ lane \in Nat /\ lane < nodes[node].height
           /\ lane + 1 <= nodes[node].height /\ lane + 1 \in 0 .. MAX_HEIGHT
           /\ node \in DOMAIN nodes
           /\ update[lane] \in Lane(lane) \cup {NONE} /\ update[lane] \in DOMAIN nodes \cup {NONE}
           /\ \A h \in LaneNo : h \in Nat /\ Last(nodes, update[h], node, Lane(h))
<1>1. node \in Mapped /\ node \in DOMAIN nodes
  BY FindFacts, PoolFacts DEF IInv
<1>2. nodes[node].height \in 1 .. MAX_HEIGHT /\ lane \in 0 .. MAX_HEIGHT /\ MAX_HEIGHT \in Nat
  BY <1>1, NodeFacts, SkipBookSideAssumption DEF IInv, TypeOK
<1>3. lane < nodes[node].height
  BY DEF MoreLanes
<1>4. lane \in LaneNo /\ lane \in Nat /\ lane + 1 <= nodes[node].height /\ lane + 1 \in 0 .. MAX_HEIGHT
  BY <1>2, <1>3 DEF LaneNo
<1>5. \A h \in LaneNo : h \in Nat /\ Last(nodes, update[h], node, Lane(h))
  BY <1>2, UpdateIs DEF IInv, LaneNo
<1>6. update[lane] \in Lane(lane) \cup {NONE} /\ Lane(lane) \subseteq DOMAIN nodes
  BY <1>4, <1>5, PoolFacts DEF Last, Lane, IInv
<1> QED BY <1>1, <1>3, <1>4, <1>5, <1>6

(* What such a step leaves alone.                                          *)
LEMMA RelinkedKeeps ==
    ASSUME IInv, pc \in {"link", "unlink"}, MoreLanes, Relinked(update[lane])
    PROVE  /\ TypeOK' /\ Control' /\ RestInv' /\ FreeListInv'
           /\ MapFinds(tick_to_node', nodes')
           /\ Lane(lane) \subseteq Mapped
           /\ \A h \in LaneNo : h # lane =>
                 /\ Lane(h)' = Lane(h)
                 /\ IsLane(nodes', head', Lane(h)', Ends(pc'), h)
           /\ pc = "link" => /\ node \notin Lane(lane)
                             /\ \A h : h = lane => Lane(h)' = Lane(h) \cup {node}
           /\ pc = "unlink" => /\ \A h \in LaneNo : lane <= h /\ h < nodes[node].height =>
                                     node \in Lane(h)
                               /\ \A h : h = lane => Lane(h)' = Lane(h) \ {node}
<1> USE DEF IInv
<1>1. /\ lane \in LaneNo /\ lane \in Nat /\ lane < nodes[node].height
      /\ lane + 1 <= nodes[node].height /\ lane + 1 \in 0 .. MAX_HEIGHT
      /\ node \in DOMAIN nodes /\ node \in Mapped
      /\ update[lane] \in Lane(lane) \cup {NONE}
  BY LoopFacts, FindFacts
<1>2. DOMAIN nodes' = DOMAIN nodes /\ \E n \in 0 .. NONE : nodes' \in [0 .. n - 1 -> LevelNode]
  BY PoolFacts DEF Relinked
<1>3. Mapped' = Mapped /\ Mapped \subseteq DOMAIN nodes
  BY PoolFacts DEF Relinked, Mapped
<1>4. \A j \in Mapped : nodes'[j].price = nodes[j].price /\ nodes'[j].height = nodes[j].height
  BY <1>3 DEF Relinked
<1>5. TypeOK'
  BY <1>1, <1>2 DEF Relinked, TypeOK
<1>6. Control'
  <2>1. lane' <= nodes'[node'].height
    BY <1>1, <1>4 DEF Relinked
  <2>2. op = pc
    BY DEF Control
  <2> QED BY <1>1, <1>3, <2>1, <2>2 DEF Relinked, Control
<1>7. RestInv'
  BY DEF Relinked, RestInv
<1>8. FreeListInv'
  <2>1. InUse = Mapped /\ InUse' = Mapped
    BY <1>3 DEF InUse, Relinked
  <2>2. \A f \in DOMAIN nodes \ InUse : f # node /\ f # update[lane]
    <3>1. Lane(lane) \subseteq Mapped
      BY DEF Lane
    <3>2. NONE \notin DOMAIN nodes
      BY PoolFacts
    <3> QED BY <1>1, <2>1, <3>1, <3>2
  <2>3. \A f \in DOMAIN nodes \ InUse : nodes'[f].forwards[0] = nodes[f].forwards[0]
    BY <2>2, PoolFacts DEF Relinked
  <2> QED BY <1>2, <2>1, <2>3, FreeKept DEF Relinked
<1>9. MapFinds(tick_to_node', nodes')
  <2>1. MapFinds(tick_to_node, nodes)
    BY LanesAre
  <2> QED BY <1>4, <2>1 DEF Relinked, MapFinds, Mapped
<1>10. op = pc
  BY DEF Control
<1>11. \A h, j : /\ j \in Lane(h) <=> /\ j \in Mapped /\ nodes[j].height > h
                                      /\ (j = node /\ pc = "link" => h < lane)
                                      /\ (j = node /\ pc = "unlink" => h >= lane)
                 /\ j \in Lane(h)' <=> /\ j \in Mapped /\ nodes[j].height > h
                                       /\ (j = node /\ pc = "link" => h < lane + 1)
                                       /\ (j = node /\ pc = "unlink" => h >= lane + 1)
  <2>1. \A h, j : j \in Lane(h) <=> /\ j \in Mapped /\ nodes[j].height > h
                                    /\ (j = node /\ pc = "link" => h < lane)
                                    /\ (j = node /\ pc = "unlink" => h >= lane)
    BY <1>10 DEF Lane, Busy
  <2>2. \A h, j : j \in Lane(h)' <=> /\ j \in Mapped' /\ nodes'[j].height > h
                                     /\ (j = node' /\ pc' = "link" => h < lane')
                                     /\ (j = node' /\ pc' = "unlink" => h >= lane')
    BY <1>10 DEF Lane, Busy, Relinked
  <2>3. pc' = pc /\ node' = node /\ lane' = lane + 1
    BY DEF Relinked
  <2> QED BY <1>3, <1>4, <2>1, <2>2, <2>3
<1>12. ASSUME NEW h \in LaneNo, h # lane
       PROVE  Lane(h)' = Lane(h) /\ IsLane(nodes', head', Lane(h)', Ends(pc'), h)
  <2>0. h \in Nat /\ lane \in Nat /\ h # lane
    BY <1>1, <1>12, LoopFacts
  <2>1. h \in Nat /\ (h < lane <=> h < lane + 1) /\ (h >= lane <=> h >= lane + 1)
    BY <2>0
  <2>2. Lane(h)' = Lane(h)
    <3> SUFFICES ASSUME NEW j PROVE j \in Lane(h)' <=> j \in Lane(h)
      OBVIOUS
    <3> QED BY <1>11, <2>1
  <2>3. IsLane(nodes, head, Lane(h), {NONE}, h) /\ Ends(pc') = {NONE}
    BY LanesAre DEF Ends, Relinked
  <2>4. NONE \notin Lane(h) /\ Lane(h) \subseteq DOMAIN nodes
    BY <1>11, <1>3, PoolFacts
  <2>5. /\ \A i \in Lane(h) : nodes'[i].price = nodes[i].price /\ nodes'[i].forwards[h] = nodes[i].forwards[h]
        /\ head'[h] = head[h]
    BY <1>12, <2>4 DEF Relinked
  <2>6. IsLane(nodes', head', Lane(h), {NONE}, h)
    BY <2>3, <2>4, <2>5, LaneKept
  <2> QED BY <2>2, <2>3, <2>6
<1>13. ASSUME pc = "link"
       PROVE  node \notin Lane(lane) /\ \A h : h = lane => Lane(h)' = Lane(h) \cup {node}
  <2>1. node \notin Lane(lane)
    BY <1>1, <1>11, <1>13
  <2>2. ASSUME NEW h, h = lane, NEW j PROVE j \in Lane(h)' <=> j \in Lane(h) \/ j = node
    <3>1. j # node => (j \in Lane(h)' <=> j \in Lane(h))
      BY <1>11
    <3>2. node \in Lane(h)'
      BY <1>1, <1>11, <1>13, <2>2
    <3> QED BY <3>1, <3>2
  <2> QED BY <2>1, <2>2
<1>14. ASSUME pc = "unlink"
       PROVE  /\ \A h \in LaneNo : lane <= h /\ h < nodes[node].height => node \in Lane(h)
              /\ \A h : h = lane => Lane(h)' = Lane(h) \ {node}
  <2>1. ASSUME NEW h \in LaneNo, lane <= h, h < nodes[node].height PROVE node \in Lane(h)
    <3>1. h \in Nat /\ nodes[node].height \in Nat
      BY <1>1, LoopFacts, NodeFacts, SkipBookSideAssumption
    <3> QED BY <1>1, <1>11, <1>14, <2>1, <3>1
  <2>2. ASSUME NEW h, h = lane, NEW j PROVE j \in Lane(h)' <=> j \in Lane(h) /\ j # node
    <3>1. j # node => (j \in Lane(h)' <=> j \in Lane(h))
      BY <1>11
    <3>2. node \notin Lane(h)'
      BY <1>1, <1>11, <1>14, <2>2
    <3> QED BY <3>1, <3>2
  <2> QED BY <2>1, <2>2
<1>15. Lane(lane) \subseteq Mapped
  BY DEF Lane
<1> QED BY <1>5, <1>6, <1>7, <1>8, <1>9, <1>12, <1>13, <1>14, <1>15

LEMMA LinkLaneKeeps ==
    ASSUME IInv, LinkLane
    PROVE  IInv' /\ SameSizes
<1> DEFINE pred == update[lane]
           succ == Next(pred, lane)
           ns   == SetForward(nodes, node, lane, succ)
           S    == Lane(lane)
<1>1. /\ pc = "link" /\ MoreLanes
      /\ pred = NONE => head' = [head EXCEPT ![lane] = node] /\ nodes' = ns
      /\ pred # NONE => nodes' = SetForward(ns, pred, lane, node) /\ UNCHANGED head
      /\ lane' = lane + 1
      /\ UNCHANGED <<free_head, tick_to_node, pc, op, ret, node, cur, update, rest>>
  BY DEF LinkLane, ToNextLane
<1>2. /\ lane \in LaneNo /\ node \in DOMAIN nodes /\ pred \in S \cup {NONE}
      /\ pred \in DOMAIN nodes \cup {NONE}
      /\ \A h \in LaneNo : Last(nodes, update[h], node, Lane(h))
  BY <1>1, LoopFacts
<1>3. Distinct(nodes, S \cup {node}) /\ \A i \in S \cup {NONE} : First(nodes, i, Next(i, lane), S)
  BY <1>1, <1>2, FindFacts
<1>4. TypeOK /\ PoolLen \in Nat /\ node \in Index /\ head \in Links
      /\ nodes \in [0 .. PoolLen - 1 -> LevelNode] /\ DOMAIN nodes = 0 .. PoolLen - 1
      /\ NONE \notin DOMAIN nodes
  BY <1>2, PoolFacts DEF IInv, TypeOK
<1>5. node \notin S
  BY <1>1, <1>4 DEF Lane, Busy, IInv, Control, TypeOK
<1>6. succ \in Index \cup {NONE}
  BY <1>2, <1>4, NodeFacts DEF Next, Links
<1>7. node # pred
  BY <1>2, <1>4, <1>5
<1> HIDE DEF pred, succ
<1>8. /\ ns \in [0 .. PoolLen - 1 -> LevelNode]
      /\ \A j \in 0 .. PoolLen - 1 :
            /\ ns[j].price = nodes[j].price /\ ns[j].height = nodes[j].height
            /\ ns[j].size = nodes[j].size
            /\ \A g \in LaneNo : ns[j].forwards[g] =
                   IF j = node /\ g = lane THEN succ ELSE nodes[j].forwards[g]
  <2>1. OneLink(nodes, ns, PoolLen, node, lane, succ)
    BY <1>2, <1>4, <1>6, SetForwardFacts DEF Pool
  <2> HIDE DEF ns
  <2> QED BY <2>1 DEF OneLink
<1> HIDE DEF ns
<1>9. /\ nodes' \in [0 .. PoolLen - 1 -> LevelNode] /\ head' \in Links
      /\ \A j \in 0 .. PoolLen - 1 :
            /\ nodes'[j].price = ns[j].price /\ nodes'[j].height = ns[j].height
            /\ nodes'[j].size = ns[j].size
            /\ \A g \in LaneNo : nodes'[j].forwards[g] =
                   IF j = pred /\ g = lane THEN node ELSE ns[j].forwards[g]
      /\ \A g \in LaneNo : head'[g] = IF pred = NONE /\ g = lane THEN node ELSE head[g]
  <2>1. CASE pred = NONE
    BY <1>1, <1>2, <1>4, <1>8, <2>1 DEF Links
  <2>2. CASE pred # NONE
    <3>1. node \in Index \cup {NONE} /\ nodes' = SetForward(ns, pred, lane, node)
      BY <1>1, <1>4, <2>2
    <3>2. /\ nodes' \in [0 .. PoolLen - 1 -> LevelNode]
          /\ \A j \in 0 .. PoolLen - 1 :
                /\ nodes'[j].price = ns[j].price /\ nodes'[j].height = ns[j].height
                /\ nodes'[j].size = ns[j].size
                /\ \A g \in LaneNo : nodes'[j].forwards[g] =
                       IF j = pred /\ g = lane THEN node ELSE ns[j].forwards[g]
      <4>1. OneLink(ns, nodes', PoolLen, pred, lane, node)
        BY <1>2, <1>4, <1>8, <3>1, SetForwardFacts DEF Pool
      <4> QED BY <4>1 DEF OneLink
    <3> QED BY <1>1, <1>4, <2>2, <3>2
  <2> QED BY <2>1, <2>2
<1>10. Relinked(update[lane])
  BY <1>1, <1>4, <1>8, <1>9 DEF Relinked, pred
<1>11. /\ TypeOK' /\ Control' /\ RestInv' /\ FreeListInv'
       /\ MapFinds(tick_to_node', nodes') /\ S \subseteq Mapped
       /\ \A h \in LaneNo : h # lane =>
             Lane(h)' = Lane(h) /\ IsLane(nodes', head', Lane(h)', Ends(pc'), h)
       /\ \A h : h = lane => Lane(h)' = Lane(h) \cup {node}
  BY <1>1, <1>10, RelinkedKeeps
<1>12. /\ Mapped \subseteq DOMAIN nodes
       /\ \A i \in S \cup {node} : nodes'[i].price = nodes[i].price
  BY <1>2, <1>4, <1>8, <1>9, <1>11, PoolFacts
<1>13. IsLane(nodes', head', S \cup {node}, {NONE}, lane)
  <2> SUFFICES ASSUME NEW i \in S \cup {node} \cup {NONE}
               PROVE  First(nodes', i, Leads(nodes', head', i, lane), S \cup {node})
    BY DEF IsLane
  <2>1. First(nodes, i, Leads(nodes', head', i, lane), S \cup {node})
    <3>0. node \in 0 .. PoolLen - 1 /\ Last(nodes, pred, node, S)
      BY <1>2, <1>4 DEF pred
    <3>1. CASE i = node
      <4>1. Leads(nodes', head', i, lane) = succ
        BY <1>2, <1>4, <1>7, <1>8, <1>9, <3>0, <3>1 DEF Leads
      <4>2. First(nodes, pred, succ, S)
        BY <1>2, <1>3 DEF succ
      <4> QED BY <1>2, <1>3, <1>5, <3>0, <3>1, <4>1, <4>2, SplicedIn
    <3>2. CASE i = pred
      <4>1. Leads(nodes', head', i, lane) = node
        BY <1>2, <1>4, <1>9, <3>2 DEF Leads
      <4>2. First(nodes, pred, succ, S)
        BY <1>2, <1>3 DEF succ
      <4> QED BY <1>2, <1>3, <1>5, <3>0, <3>2, <4>1, <4>2, SplicedIn
    <3>3. CASE i # node /\ i # pred
      <4>1. Leads(nodes', head', i, lane) = Next(i, lane)
        <5>1. i \in S => i \in 0 .. PoolLen - 1 /\ i # NONE
          BY <1>4, <1>11, <1>12
        <5>2. i \in S => nodes'[i].forwards[lane] = nodes[i].forwards[lane]
          BY <1>2, <1>8, <1>9, <3>3, <5>1
        <5>3. i = NONE => head'[lane] = head[lane]
          BY <1>2, <1>9, <3>3
        <5> QED BY <3>3, <5>1, <5>2, <5>3 DEF Leads, Next
      <4>2. i \in S \cup {NONE} /\ First(nodes, i, Next(i, lane), S)
        BY <1>3, <3>3
      <4> QED BY <1>3, <1>5, <3>0, <3>3, <4>1, <4>2, SplicedIn
    <3> QED BY <3>1, <3>2, <3>3
  <2> QED BY <1>12, <2>1, SamePrices
<1>14. LaneInv'
  <2>1. ASSUME NEW h \in LaneNo, h = lane PROVE IsLane(nodes', head', Lane(h)', Ends(pc'), h)
    BY <1>1, <1>11, <1>13, <2>1 DEF Ends
  <2> QED BY <1>11, <2>1, LanesAre
<1>15. UpdateInv'
  <2>1. ASSUME NEW h \in LaneNo PROVE Last(nodes', update'[h], node', Lane(h)')
    <3>1. Last(nodes, update[h], node, Lane(h)')
      <4>1. CASE h = lane
        BY <1>2, <1>3, <1>11, <4>1, LastWithout
      <4>2. CASE h # lane
        BY <1>2, <1>11, <4>2
      <4> QED BY <4>1, <4>2
    <3>2. Lane(h)' \subseteq DOMAIN nodes
      <4>1. Lane(h) \subseteq Mapped
        BY DEF Lane
      <4> QED BY <1>2, <1>11, <1>12, <4>1
    <3>3. nodes'[node].price = nodes[node].price /\ \A i \in Lane(h)' : nodes'[i].price = nodes[i].price
      BY <1>4, <1>8, <1>9, <1>12, <3>2
    <3> QED BY <1>1, <3>1, <3>3, SamePrices
  <2> QED BY <1>1, <2>1, UpdateIs
<1>16. SameSizes
  BY <1>4, <1>8, <1>9 DEF SameSizes
<1> QED BY <1>11, <1>14, <1>15, <1>16 DEF IInv

(* unlink's guard never fails, and holds for the next lane again.          *)
LEMMA UnlinkLaneKeeps ==
    ASSUME IInv, UnlinkLane
    PROVE  IInv' /\ SameSizes
<1> DEFINE pred == update[lane]
           succ == nodes[node].forwards[lane]
           S    == Lane(lane)
<1>1. /\ pc = "unlink" /\ MoreLanes /\ lane' = lane + 1
      /\ UNCHANGED <<free_head, tick_to_node, pc, op, ret, node, cur, update, rest>>
  BY DEF UnlinkLane, ToNextLane
<1>2. /\ pred = NONE => head' = [head EXCEPT ![lane] = succ] /\ UNCHANGED nodes
      /\ pred # NONE => nodes' = SetForward(nodes, pred, lane, succ) /\ UNCHANGED head
  <2>1. Next(pred, lane) = node
    BY <1>1 DEF IInv, UpdateInv
  <2> QED BY <2>1 DEF UnlinkLane
<1>3. /\ lane \in LaneNo /\ node \in DOMAIN nodes /\ pred \in S \cup {NONE}
      /\ pred \in DOMAIN nodes \cup {NONE} /\ lane \in Nat /\ lane < nodes[node].height
      /\ \A h \in LaneNo : h \in Nat /\ Last(nodes, update[h], node, Lane(h))
  BY <1>1, LoopFacts
<1>4. Distinct(nodes, S \cup {node}) /\ \A i \in S \cup {NONE} : First(nodes, i, Next(i, lane), S)
  BY <1>1, <1>3, FindFacts
<1>5. TypeOK /\ PoolLen \in Nat /\ head \in Links
      /\ nodes \in [0 .. PoolLen - 1 -> LevelNode] /\ DOMAIN nodes = 0 .. PoolLen - 1
      /\ NONE \notin DOMAIN nodes
  BY PoolFacts DEF IInv, TypeOK
<1>6. succ \in Index \cup {NONE}
  BY <1>3, <1>5, NodeFacts
<1> HIDE DEF pred, succ
<1>7. /\ nodes' \in [0 .. PoolLen - 1 -> LevelNode] /\ head' \in Links
      /\ \A j \in 0 .. PoolLen - 1 :
            /\ nodes'[j].price = nodes[j].price /\ nodes'[j].height = nodes[j].height
            /\ nodes'[j].size = nodes[j].size
            /\ \A g \in LaneNo : nodes'[j].forwards[g] =
                   IF j = pred /\ g = lane THEN succ ELSE nodes[j].forwards[g]
      /\ \A g \in LaneNo : head'[g] = IF pred = NONE /\ g = lane THEN succ ELSE head[g]
  <2>1. CASE pred = NONE
    BY <1>2, <1>3, <1>5, <1>6, <2>1 DEF Links
  <2>2. CASE pred # NONE
    <3>1. nodes' = SetForward(nodes, pred, lane, succ) /\ head' = head
      BY <1>2, <2>2
    <3>2. /\ nodes' \in [0 .. PoolLen - 1 -> LevelNode]
          /\ \A j \in 0 .. PoolLen - 1 :
                /\ nodes'[j].price = nodes[j].price /\ nodes'[j].height = nodes[j].height
                /\ nodes'[j].size = nodes[j].size
                /\ \A g \in LaneNo : nodes'[j].forwards[g] =
                       IF j = pred /\ g = lane THEN succ ELSE nodes[j].forwards[g]
      <4>1. OneLink(nodes, nodes', PoolLen, pred, lane, succ)
        BY <1>3, <1>5, <1>6, <3>1, SetForwardFacts DEF Pool
      <4> QED BY <4>1 DEF OneLink
    <3> QED BY <1>5, <2>2, <3>1, <3>2
  <2> QED BY <2>1, <2>2
<1>8. Relinked(update[lane])
  BY <1>1, <1>5, <1>7 DEF Relinked, pred
<1>9. /\ TypeOK' /\ Control' /\ RestInv' /\ FreeListInv'
      /\ MapFinds(tick_to_node', nodes') /\ S \subseteq Mapped
      /\ \A h \in LaneNo : h # lane =>
            Lane(h)' = Lane(h) /\ IsLane(nodes', head', Lane(h)', Ends(pc'), h)
      /\ \A h \in LaneNo : lane <= h /\ h < nodes[node].height => node \in Lane(h)
      /\ \A h : h = lane => Lane(h)' = Lane(h) \ {node}
  BY <1>1, <1>8, RelinkedKeeps
<1>10. Mapped \subseteq DOMAIN nodes /\ node \in S /\ S \cup {node} = S
  BY <1>3, <1>5, <1>9, PoolFacts
<1>11. \A i \in S : nodes'[i].price = nodes[i].price
  BY <1>5, <1>7, <1>9, <1>10
<1>12. IsLane(nodes', head', S \ {node}, {NONE}, lane)
  <2> SUFFICES ASSUME NEW i \in (S \ {node}) \cup {NONE}
               PROVE  First(nodes', i, Leads(nodes', head', i, lane), S \ {node})
    BY DEF IsLane
  <2>1. First(nodes, i, Leads(nodes', head', i, lane), S \ {node})
    <3>0. Last(nodes, pred, node, S) /\ Distinct(nodes, S) /\ node # NONE
      BY <1>3, <1>4, <1>5, <1>10 DEF pred
    <3>1. CASE i = pred
      <4>1. Leads(nodes', head', i, lane) = succ
        BY <1>3, <1>5, <1>7, <3>1 DEF Leads
      <4>2. First(nodes, node, succ, S)
        BY <1>4, <1>10, <3>0 DEF Next, succ
      <4> QED BY <1>10, <3>0, <3>1, <4>1, <4>2, CutOut
    <3>2. CASE i # pred
      <4>1. Leads(nodes', head', i, lane) = Next(i, lane)
        BY <1>3, <1>5, <1>7, <1>9, <1>10, <3>2 DEF Leads, Next
      <4>2. i \in S \cup {NONE} /\ First(nodes, i, Next(i, lane), S) /\ i # node
        BY <1>4, <3>0
      <4> QED BY <1>10, <3>0, <3>2, <4>1, <4>2, CutOut
    <3> QED BY <3>1, <3>2
  <2> QED BY <1>11, <2>1, SamePrices
<1>13. LaneInv'
  <2>1. ASSUME NEW h \in LaneNo, h = lane PROVE IsLane(nodes', head', Lane(h)', Ends(pc'), h)
    BY <1>1, <1>9, <1>12, <2>1 DEF Ends
  <2> QED BY <1>9, <2>1, LanesAre
<1>14. ASSUME NEW h \in LaneNo PROVE Last(nodes', update'[h], node', Lane(h)')
  <2>1. Last(nodes, update[h], node, Lane(h)')
    <3>1. CASE h = lane
      BY <1>3, <1>4, <1>9, <3>1, LastWithout
    <3>2. CASE h # lane
      BY <1>3, <1>9, <3>2
    <3> QED BY <3>1, <3>2
  <2>2. Lane(h)' \subseteq DOMAIN nodes
    <3>1. Lane(h) \subseteq Mapped
      BY DEF Lane
    <3> QED BY <1>9, <1>10, <3>1
  <2>3. nodes'[node].price = nodes[node].price /\ \A i \in Lane(h)' : nodes'[i].price = nodes[i].price
    BY <1>3, <1>5, <1>7, <2>2
  <2> QED BY <1>1, <2>1, <2>3, SamePrices
<1>15. lane' < nodes'[node'].height => Leads(nodes', head', update'[lane'], lane') = node'
  <2> SUFFICES ASSUME lane + 1 < nodes[node].height
               PROVE  Leads(nodes', head', update[lane + 1], lane + 1) = node
    BY <1>1, <1>3, <1>5, <1>7
  <2> DEFINE g == lane + 1
  <2>1. g \in LaneNo /\ g # lane /\ lane <= g
    <3>1. nodes[node].height \in 1 .. MAX_HEIGHT /\ MAX_HEIGHT \in Nat
      BY <1>3, <1>5, NodeFacts, SkipBookSideAssumption
    <3> QED BY <1>3, <3>1 DEF LaneNo
  <2>2. node \in Lane(g) /\ Last(nodes, update[g], node, Lane(g))
    BY <1>3, <1>9, <2>1
  <2>3. update[g] \in Lane(g) \cup {NONE} /\ Lane(g) \subseteq DOMAIN nodes /\ NONE \notin Lane(g)
    BY <1>5, <1>10, <2>2 DEF Last, Lane
  <2>4. First(nodes, update[g], Next(update[g], g), Lane(g)) /\ Distinct(nodes, Lane(g))
    BY <1>1, <2>1, <2>2, <2>3, FindFacts DEF Distinct
  <2>5. Next(update[g], g) = node
    BY <2>2, <2>4, LastLeads
  <2>6. Leads(nodes', head', update[g], g) = Next(update[g], g)
    <3>1. CASE update[g] = NONE
      BY <1>7, <2>1, <3>1 DEF Leads, Next
    <3>2. CASE update[g] # NONE
      BY <1>5, <1>7, <2>1, <2>3, <3>2 DEF Leads, Next
    <3> QED BY <3>1, <3>2
  <2> QED BY <2>5, <2>6
<1>16. UpdateInv'
  BY <1>1, <1>14, <1>15, UpdateIs
<1>17. SameSizes
  BY <1>5, <1>7 DEF SameSizes
<1> QED BY <1>9, <1>13, <1>16, <1>17 DEF IInv
(* The loop has left all lanes that the node is high enough for.           *)
LEMMA LoopDone ==
    ASSUME IInv, pc \in {"link", "unlink"}, ~MoreLanes
    PROVE  /\ op = pc /\ node \in Mapped /\ ret \in {"idle", "fill"}
           /\ \A h \in LaneNo : h < nodes[node].height => h < lane
<1>1. op = pc /\ node \in Mapped /\ ret \in {"idle", "fill"}
  BY DEF IInv, Control, TypeOK
<1>2. nodes[node].height \in Nat /\ lane \in Nat
  <2>1. node \in DOMAIN nodes
    BY <1>1, PoolFacts DEF IInv
  <2>2. nodes[node].height \in 1 .. MAX_HEIGHT /\ lane \in 0 .. MAX_HEIGHT
    BY <2>1, NodeFacts DEF IInv, TypeOK
  <2> QED BY <2>2, SkipBookSideAssumption
<1>3. \A h \in LaneNo : h \in Nat
  BY SkipBookSideAssumption DEF LaneNo
<1> QED BY <1>1, <1>2, <1>3 DEF MoreLanes

LEMMA LinkDoneKeeps ==
    ASSUME IInv, LinkDone
    PROVE  IInv'
<1> USE DEF IInv
<1>1. /\ pc = "link" /\ ~MoreLanes /\ pc' = ret /\ ret' = "idle" /\ op' = "link"
      /\ node' = NONE /\ cur' = NONE /\ lane' = 0 /\ update' = NoLinks
      /\ UNCHANGED rest /\ UNCHANGED struct
  BY DEF LinkDone, Return
<1>2. /\ op = pc /\ node \in Mapped /\ ret \in {"idle", "fill"}
      /\ \A h \in LaneNo : h < nodes[node].height => h < lane
  BY <1>1, LoopDone
<1>3. Mapped' = Mapped
  BY <1>1 DEF Mapped, struct
<1>4. TypeOK'
  <2>1. update' \in [LaneNo -> DOMAIN nodes' \cup {NONE}] /\ lane' \in 0 .. MAX_HEIGHT
    BY <1>1, SkipBookSideAssumption DEF NoLinks
  <2> QED BY <1>1, <1>2, <2>1 DEF TypeOK, struct
<1>5. Control'
  BY <1>1, <1>2 DEF Control
<1>6. RestInv'
  BY <1>1, <1>2 DEF RestInv, struct
<1>7. \A h \in LaneNo : Lane(h)' = Lane(h)
  <2> SUFFICES ASSUME NEW h \in LaneNo, NEW j PROVE j \in Lane(h)' <=> j \in Lane(h)
    OBVIOUS
  <2>1. j \in Lane(h) <=> /\ j \in Mapped /\ nodes[j].height > h
                          /\ j = node => h < lane
    BY <1>1, <1>2 DEF Lane, Busy
  <2>2. j \in Lane(h)' <=> j \in Mapped /\ nodes[j].height > h
    BY <1>1, <1>2, <1>3 DEF Lane, Busy, struct
  <2>3. nodes[node].height > h <=> h < nodes[node].height
    BY <1>2, PoolFacts, NodeFacts, SkipBookSideAssumption DEF LaneNo
  <2> QED BY <1>2, <2>1, <2>2, <2>3
<1>8. UpdateInv' /\ InUse' = InUse /\ Ends(pc') = Ends(pc)
  BY <1>1, <1>2, <1>3 DEF UpdateInv, InUse, Ends
<1> QED BY <1>1, <1>4, <1>5, <1>6, <1>7, <1>8, Quiet

(* Without its price the map no longer leads to the node, nor to another   *)
(* node less.                                                              *)
LEMMA Unmapped ==
    ASSUME TypeOK, \A t \in DOMAIN tick_to_node : nodes[tick_to_node[t]].price = t,
           node \in Mapped,
           tick_to_node' = [t \in DOMAIN tick_to_node \ {nodes[node].price} |-> tick_to_node[t]]
    PROVE  Mapped' = Mapped \ {node}
<1>1. /\ \A i \in Mapped : nodes[i].price \in DOMAIN tick_to_node /\ tick_to_node[nodes[i].price] = i
      /\ \A t \in DOMAIN tick_to_node : tick_to_node[t] \in Mapped
  BY MapFacts
<1>2. \A i : i \in Mapped' <=> \E t \in DOMAIN tick_to_node : t # nodes[node].price /\ tick_to_node[t] = i
  BY DEF Mapped
<1>3. ASSUME NEW i \in Mapped' PROVE i \in Mapped \ {node}
  BY <1>1, <1>2
<1>4. ASSUME NEW i \in Mapped \ {node} PROVE i \in Mapped'
  <2>1. nodes[i].price # nodes[node].price
    BY <1>1
  <2> QED BY <1>1, <1>2, <2>1
<1> QED BY <1>3, <1>4

LEMMA UnlinkDoneKeeps ==
    ASSUME IInv, UnlinkDone
    PROVE  IInv' /\ SameSizes
<1> USE DEF IInv
<1>1. /\ pc = "unlink" /\ ~MoreLanes
      /\ tick_to_node' = [t \in DOMAIN tick_to_node \ {nodes[node].price} |-> tick_to_node[t]]
      /\ nodes' = SetForward(nodes, node, 0, free_head) /\ free_head' = node
      /\ pc' = ret /\ ret' = "idle" /\ op' = "link"
      /\ node' = NONE /\ cur' = NONE /\ lane' = 0 /\ update' = NoLinks
      /\ UNCHANGED <<head, rest>>
  BY DEF UnlinkDone, Return
<1>2. /\ op = pc /\ node \in Mapped /\ ret = "idle" /\ pc' = "idle"
      /\ \A h \in LaneNo : h < nodes[node].height => h < lane
  BY <1>1, LoopDone DEF Control
<1>3. Mapped' = Mapped \ {node}
  BY <1>1, <1>2, Unmapped DEF LaneInv
<1>4. /\ Mapped \subseteq DOMAIN nodes /\ PoolLen \in 0 .. NONE /\ NONE \in Nat
      /\ nodes \in [0 .. PoolLen - 1 -> LevelNode] /\ DOMAIN nodes = 0 .. PoolLen - 1
      /\ NONE \notin DOMAIN nodes /\ DOMAIN nodes \subseteq Index /\ 0 \in LaneNo
  BY PoolFacts, SkipBookSideAssumption
<1>5. /\ nodes' \in [0 .. PoolLen - 1 -> LevelNode]
      /\ \A j \in 0 .. PoolLen - 1 :
            /\ nodes'[j].price = nodes[j].price /\ nodes'[j].height = nodes[j].height
            /\ nodes'[j].size = nodes[j].size
            /\ \A g \in LaneNo : nodes'[j].forwards[g] =
                   IF j = node /\ g = 0 THEN free_head ELSE nodes[j].forwards[g]
  <2>1. free_head \in Index \cup {NONE}
    BY DEF TypeOK
  <2>2. OneLink(nodes, nodes', PoolLen, node, 0, free_head)
    BY <1>1, <1>4, <2>1, SetForwardFacts DEF Pool
  <2> QED BY <2>2 DEF OneLink
<1>6. DOMAIN nodes' = DOMAIN nodes /\ node \in DOMAIN nodes /\ node \in Index
  BY <1>2, <1>4, <1>5
<1>7. TypeOK'
  <2>1. update' \in [LaneNo -> DOMAIN nodes' \cup {NONE}] /\ lane' \in 0 .. MAX_HEIGHT
    BY <1>1, SkipBookSideAssumption DEF NoLinks
  <2>2. \E n \in 0 .. NONE : nodes' \in [0 .. n - 1 -> LevelNode]
    BY <1>4, <1>5
  <2>3. /\ DOMAIN tick_to_node' \subseteq Price
        /\ \A t \in DOMAIN tick_to_node' : tick_to_node'[t] \in DOMAIN nodes'
    BY <1>1, <1>6 DEF TypeOK
  <2> QED BY <1>1, <1>2, <1>6, <2>1, <2>2, <2>3 DEF TypeOK
<1>8. Control'
  BY <1>2 DEF Control
<1>9. RestInv'
  BY <1>1, <1>2 DEF RestInv
<1>10. \A h \in LaneNo : Lane(h)' = Lane(h)
  <2> SUFFICES ASSUME NEW h \in LaneNo, NEW j PROVE j \in Lane(h)' <=> j \in Lane(h)
    OBVIOUS
  <2>1. j \in Lane(h) <=> /\ j \in Mapped /\ nodes[j].height > h
                          /\ j = node => h >= lane
    BY <1>1, <1>2 DEF Lane, Busy
  <2>2. j \in Lane(h)' <=> j \in Mapped /\ j # node /\ nodes'[j].height > h
    BY <1>2, <1>3 DEF Lane, Busy
  <2>3. nodes[node].height > h => ~(h >= lane)
    <3>1. nodes[node].height \in Nat /\ h \in Nat /\ lane \in Nat
      <4>1. nodes[node].height \in 1 .. MAX_HEIGHT /\ lane \in 0 .. MAX_HEIGHT
        BY <1>6, NodeFacts DEF TypeOK
      <4> QED BY <4>1, SkipBookSideAssumption DEF LaneNo
    <3> QED BY <1>2, <3>1
  <2>4. j \in Mapped => nodes'[j].height = nodes[j].height
    BY <1>4, <1>5
  <2> QED BY <2>1, <2>2, <2>3, <2>4
<1>11. LaneInv'
  <2>1. MapFinds(tick_to_node', nodes')
    <3>1. MapFinds(tick_to_node, nodes)
      BY LanesAre
    <3>2. \A t \in DOMAIN tick_to_node : tick_to_node[t] \in DOMAIN nodes
      BY DEF TypeOK
    <3> QED BY <1>1, <1>4, <1>5, <3>1, <3>2 DEF MapFinds
  <2>2. ASSUME NEW h \in LaneNo PROVE IsLane(nodes', head', Lane(h)', Ends(pc'), h)
    <3>1. IsLane(nodes, head, Lane(h), {NONE}, h) /\ Ends(pc') = {NONE}
      BY <1>1, <1>2, LanesAre DEF Ends
    <3>2. Lane(h) \subseteq DOMAIN nodes \ {node} /\ NONE \notin Lane(h)
      <4>1. Lane(h)' \subseteq Mapped'
        BY DEF Lane
      <4> QED BY <1>3, <1>4, <1>10, <4>1
    <3>3. \A i \in Lane(h) : /\ nodes'[i].price = nodes[i].price
                             /\ nodes'[i].forwards[h] = nodes[i].forwards[h]
      BY <1>4, <1>5, <3>2
    <3>4. IsLane(nodes', head', Lane(h), {NONE}, h)
      BY <1>1, <3>1, <3>2, <3>3, LaneKept
    <3> QED BY <1>10, <3>1, <3>4
  <2> QED BY <2>1, <2>2, LanesAre
<1>12. UpdateInv'
  BY <1>2 DEF UpdateInv
<1>13. FreeListInv'
  <2> DEFINE S == DOMAIN nodes \ InUse
  <2>1. InUse = Mapped /\ InUse' = Mapped \ {node}
    BY <1>1, <1>2, <1>3 DEF InUse
  <2>2. DOMAIN nodes' \ InUse' = S \cup {node} /\ node \notin S
    BY <1>2, <1>6, <2>1
  <2>3. IsFiniteSet(S) /\ S \subseteq DOMAIN nodes
    BY PoolFacts, FS_Subset
  <2>4. IsFreeList(S, free_head, nodes)
    BY <2>3, FreeListIs
  <2>5. /\ nodes'[node].forwards[0] = free_head
        /\ \A f \in S : nodes'[f].forwards[0] = nodes[f].forwards[0]
    BY <1>4, <1>5, <1>6, <2>2, <2>3
  <2> HIDE DEF S
  <2>6. IsFreeList(S \cup {node}, node, nodes') /\ IsFiniteSet(S \cup {node})
    BY <2>2, <2>3, <2>4, <2>5, FreePush, FS_AddElement
  <2> QED BY <1>1, <2>2, <2>6, FreeListIs
<1>14. SameSizes
  BY <1>4, <1>5 DEF SameSizes
<1> QED BY <1>7, <1>8, <1>9, <1>11, <1>12, <1>13, <1>14

-----------------------------------------------------------------------------
LEMMA InitHolds ==
    ASSUME SkipInit
    PROVE  IInv
<1>1. /\ nodes = <<>> /\ free_head = NONE /\ head = NoLinks /\ tick_to_node = <<>>
      /\ pc = "idle" /\ op = "link" /\ ret = "idle" /\ rest = <<>>
      /\ node = NONE /\ cur = NONE /\ lane = 0 /\ update = NoLinks
  BY DEF SkipInit
<1>2. DOMAIN nodes = {} /\ DOMAIN tick_to_node = {} /\ Mapped = {} /\ InUse = {}
  BY <1>1 DEF Mapped, InUse
<1>3. TypeOK
  <2>1. 0 \in 0 .. NONE /\ nodes \in [0 .. 0 - 1 -> LevelNode] /\ lane \in 0 .. MAX_HEIGHT
    BY <1>1, SkipBookSideAssumption
  <2> QED BY <1>1, <1>2, <2>1 DEF TypeOK, NoLinks, Links
<1>4. Control /\ RestInv /\ UpdateInv
  BY <1>1, <1>2 DEF Control, RestInv, UpdateInv, DistinctPrices
<1>5. LaneInv
  <2>1. \A h : Lane(h) = {}
    BY <1>2 DEF Lane
  <2>2. \A h \in LaneNo : IsLane(nodes, head, {}, Ends(pc), h)
    BY <1>1 DEF IsLane, Ends, Leads, First, NoLinks
  <2> QED BY <1>2, <2>1, <2>2, LanesAre DEF MapFinds
<1>6. FreeListInv
  <2>1. IsFiniteSet({}) /\ Cardinality({}) = 0
    BY FS_EmptySet
  <2>2. FreeListOf({}, 0, free_head, nodes, <<>>) /\ <<>> \in [1 .. 0 -> {}]
    BY <1>1 DEF FreeListOf
  <2>3. IsFreeList(DOMAIN nodes \ InUse, free_head, nodes) /\ DOMAIN nodes \ InUse = {}
    BY <1>2, <2>1, <2>2 DEF IsFreeList
  <2> QED BY <2>1, <2>3, FreeListIs
<1> QED BY <1>3, <1>4, <1>5, <1>6 DEF IInv

LEMMA NextKeeps ==
    ASSUME DistinctSnapshots, IInv, [SkipNext]_vars
    PROVE  IInv'
<1>1. CASE ApplyLevel
  BY <1>1, ApplyLevelKeeps
<1>2. CASE ApplyLevels
  BY <1>2, ApplyLevelsKeeps
<1>3. CASE Loops
  BY <1>3, ReclaimKeeps, ReclaimDoneKeeps, FillSkipKeeps, FillInsertKeeps, FillDoneKeeps,
     FindAdvanceKeeps, FindDownKeeps, LinkLaneKeeps, LinkDoneKeeps, UnlinkLaneKeeps,
     UnlinkDoneKeeps DEF Loops
<1>4. CASE UNCHANGED vars
  BY <1>4, Stutter
<1> QED BY <1>1, <1>2, <1>3, <1>4 DEF SkipNext

(* The whole invariant holds whatever the prices, sizes, snapshots, number *)
(* of lanes and pool limit are, and whatever heights are drawn.            *)
THEOREM InvHolds ==
    ASSUME DistinctSnapshots
    PROVE  SkipSpec => []IInv
<1>1. SkipInit => IInv
  BY InitHolds
<1>2. IInv /\ [SkipNext]_vars => IInv'
  BY NextKeeps
<1> QED BY <1>1, <1>2, PTL DEF SkipSpec

(* Every lane leads through exactly the nodes that belong in it, in price  *)
(* order, between any two iterations of link, unlink, find_update and the  *)
(* loops of apply_levels.                                                  *)
THEOREM LaneInvHolds ==
    ASSUME DistinctSnapshots
    PROVE  SkipSpec => []LaneInv
<1>1. IInv => LaneInv
  BY DEF IInv
<1> QED BY <1>1, InvHolds, PTL

(* find_update may go on in the lane below from where it stopped in the    *)
(* lane above, and what it finds leads unlink to the node in every lane:   *)
(* the guard in unlink never fails.                                        *)
THEOREM UpdateInvHolds ==
    ASSUME DistinctSnapshots
    PROVE  SkipSpec => []UpdateInv
<1>1. IInv => UpdateInv
  BY DEF IInv
<1> QED BY <1>1, InvHolds, PTL

(* alloc_node, free_node and the reclaim loop lose no node of the pool,    *)
(* and put none on the free list twice.                                    *)
THEOREM FreeListInvHolds ==
    ASSUME DistinctSnapshots
    PROVE  SkipSpec => []FreeListInv
<1>1. IInv => FreeListInv
  BY DEF IInv
<1> QED BY <1>1, InvHolds, PTL
-----------------------------------------------------------------------------
(***************************************************************************)
(* What the calls do to the book.  The definitions BookSide takes from     *)
(* BookLevels are those used here.                                         *)
(***************************************************************************)
LEMMA SameCardinality == \A S : Abstract!Cardinality(S) = Cardinality(S)
BY DEF Abstract!Cardinality, Cardinality

LEMMA SameWithLevel == \A b, p, s : Abstract!WithLevel(b, p, s) = WithLevel(b, p, s)
BY DEF Abstract!WithLevel, WithLevel

LEMMA SameWithin ==
    \A b, ls, room : Abstract!OverlayWithin(b, ls, room) = OverlayWithin(b, ls, room)
<1>1. \A ls, k : Abstract!QuotedBefore(ls, k) = QuotedBefore(ls, k)
  BY DEF Abstract!QuotedBefore, QuotedBefore
<1>2. \A ls, room : Abstract!Taken(ls, room) = Taken(ls, room)
  BY <1>1, SameCardinality DEF Abstract!Taken, Taken
<1>3. \A ls, p : Abstract!SizeAt(ls, p) = SizeAt(ls, p)
  BY DEF Abstract!SizeAt, SizeAt
<1> QED BY <1>2, <1>3 DEF Abstract!OverlayWithin, OverlayWithin

(* The book that BookSide has at each state.                               *)
BookNow == OverlayWithin(InPlace, rest, NONE - Cardinality(DOMAIN InPlace))

(* Each quoted price has a node of its own: there is room in the book just *)
(* when alloc_node finds a node.                                           *)
LEMMA RoomFacts ==
    ASSUME IInv
    PROVE  /\ IsFiniteSet(DOMAIN tick_to_node)
           /\ Cardinality(DOMAIN tick_to_node) \in 0 .. NONE
           /\ pc \in {"idle", "fill"} =>
                 (CanAlloc <=> Cardinality(DOMAIN tick_to_node) < NONE)
<1> DEFINE D == DOMAIN tick_to_node
           f == [t \in D |-> tick_to_node[t]]
<1>0. TypeOK /\ FreeListInv /\ NONE \in Nat
  BY SkipBookSideAssumption DEF IInv
<1>1. /\ \A t \in D : tick_to_node[t] \in Mapped /\ nodes[tick_to_node[t]].price = t
      /\ \A i \in Mapped : \E t \in D : tick_to_node[t] = i
      /\ Mapped \subseteq DOMAIN nodes
  BY PoolFacts DEF Mapped, IInv, LaneInv
<1>2. /\ DOMAIN nodes \subseteq Index /\ IsFiniteSet(DOMAIN nodes)
      /\ PoolLen = Cardinality(DOMAIN nodes) /\ PoolLen \in 0 .. NONE
  BY <1>0, PoolFacts DEF PoolLen
<1>3. IsFiniteSet(Index) /\ Cardinality(Index) = NONE
  BY <1>0, FS_Interval DEF Index
<1>4. \A S : Mapped \subseteq S => f \in Injection(D, S)
  BY <1>1 DEF Injection, IsInjective
<1>5. Mapped = DOMAIN nodes => f \in Surjection(D, DOMAIN nodes)
  BY <1>1 DEF Surjection
<1> HIDE DEF f, D
<1>6. /\ IsFiniteSet(D) /\ Cardinality(D) <= PoolLen
      /\ Cardinality(D) = PoolLen <=> f \in Surjection(D, DOMAIN nodes)
  BY <1>1, <1>2, <1>4, FS_Injection
<1>7. Cardinality(D) \in 0 .. NONE
  BY <1>0, <1>2, <1>6, FS_CardinalityType
<1>8. ASSUME pc \in {"idle", "fill"}, CanAlloc PROVE Cardinality(D) < NONE
  <2>1. AllocIndex \in Index /\ AllocIndex \notin Mapped
    BY <1>0, <1>8, AllocFacts
  <2>2. /\ IsFiniteSet(Index \ {AllocIndex})
        /\ Cardinality(Index \ {AllocIndex}) = NONE - 1
    BY <1>3, <2>1, FS_RemoveElement
  <2>3. f \in Injection(D, Index \ {AllocIndex})
    BY <1>1, <1>2, <1>4, <2>1
  <2>4. Cardinality(D) <= NONE - 1
    BY <2>2, <2>3, FS_Injection
  <2> QED BY <1>0, <1>7, <2>4
<1>9. ASSUME pc \in {"idle", "fill"}, ~CanAlloc PROVE Cardinality(D) = NONE
  <2>1. free_head = NONE /\ PoolLen = NONE
    BY <1>9 DEF CanAlloc
  <2>2. InUse = Mapped /\ IsFiniteSet(DOMAIN nodes \ Mapped) /\ NONE \notin DOMAIN nodes
    BY <1>0, <1>9, PoolFacts, FS_Subset DEF InUse
  <2>3. IsFreeList(DOMAIN nodes \ Mapped, free_head, nodes)
    BY <1>0, <2>2, FreeListIs
  <2>4. DOMAIN nodes \ Mapped = {}
    BY <2>1, <2>2, <2>3, FreeHead
  <2> QED BY <1>1, <1>5, <1>6, <2>1, <2>4
<1> QED BY <1>0, <1>6, <1>7, <1>8, <1>9 DEF D

LEMMA SizesFacts ==
    ASSUME IInv
    PROVE  /\ DOMAIN Sizes = DOMAIN tick_to_node
           /\ Sizes = [t \in DOMAIN Sizes |-> Sizes[t]]
           /\ rest \in Seq(Level) /\ NONE - Cardinality(DOMAIN Sizes) \in Int
<1>1. /\ DOMAIN Sizes = DOMAIN tick_to_node /\ Sizes = [t \in DOMAIN Sizes |-> Sizes[t]]
  BY DEF Sizes
<1>2. rest \in Seq(Level)
  BY DEF IInv, TypeOK
<1>3. NONE - Cardinality(DOMAIN Sizes) \in Int
  BY <1>1, RoomFacts, SkipBookSideAssumption
<1> QED BY <1>1, <1>2, <1>3

(* Between calls, before a step or after it, the book is what the map and  *)
(* the nodes say.                                                          *)
LEMMA RestingBook ==
    /\ rest = <<>> /\ pc # "reclaim" => BookNow = Sizes
    /\ rest' = <<>> /\ pc' # "reclaim" => BookNow' = Sizes'
<1>1. ASSUME rest = <<>>, pc # "reclaim" PROVE BookNow = Sizes
  <2>1. BookNow = OverlayWithin(Sizes, <<>>, NONE - Cardinality(DOMAIN Sizes))
    BY <1>1 DEF BookNow, InPlace
  <2>2. Sizes = [t \in DOMAIN Sizes |-> Sizes[t]]
    BY DEF Sizes
  <2> HIDE DEF Sizes
  <2> QED BY <2>1, <2>2, OverlayEmpty
<1>2. ASSUME rest' = <<>>, pc' # "reclaim" PROVE BookNow' = Sizes'
  <2>1. BookNow' = OverlayWithin(Sizes', <<>>, NONE - Cardinality(DOMAIN Sizes'))
    BY <1>2 DEF BookNow, InPlace
  <2>2. Sizes' = [t \in DOMAIN Sizes' |-> Sizes'[t]]
    BY DEF Sizes
  <2> HIDE DEF Sizes
  <2> QED BY <2>1, <2>2, OverlayEmpty
<1> QED BY <1>1, <1>2

(* What changes neither the map, nor sizes, nor the rest of the snapshot   *)
(* does not change the book.                                               *)
LEMMA BookSame ==
    ASSUME IInv, tick_to_node' = tick_to_node, rest' = rest,
           pc # "reclaim" /\ pc' # "reclaim",
           \A i \in Mapped : nodes'[i].size = nodes[i].size
    PROVE  BookNow' = BookNow
<1>1. Sizes' = Sizes
  BY DEF Sizes, Mapped
<1>2. InPlace' = InPlace
  BY <1>1 DEF InPlace
<1> QED BY <1>2 DEF BookNow

(* The steps of a call that has taken effect, or has yet to.               *)
LEMMA WalkDoes ==
    ASSUME IInv, FindAdvance \/ FindDown \/ LinkLane \/ UnlinkLane \/ LinkDone \/ FillDone
    PROVE  BookNow' = BookNow
<1>1. /\ tick_to_node' = tick_to_node /\ rest' = rest
      /\ pc # "reclaim" /\ pc' # "reclaim"
  BY DEF FindAdvance, FindDown, LinkLane, UnlinkLane, LinkDone, FillDone, ToNextLane, Return,
     struct, IInv, TypeOK
<1>2. SameSizes
  BY LinkLaneKeeps, UnlinkLaneKeeps DEF FindAdvance, FindDown, LinkDone, FillDone, struct, SameSizes
<1>3. Mapped \subseteq DOMAIN nodes
  BY PoolFacts DEF IInv
<1> QED BY <1>1, <1>2, <1>3, BookSame DEF SameSizes

(* A level of size zero takes the price off when the node is out of all    *)
(* lanes; up to then the book is as it was.                                *)
LEMMA RemoveDoes ==
    ASSUME IInv, pc = "idle", NEW p \in Price, ApplyLevelRemove(p)
    PROVE  BookNow' = BookNow
BY BookSame DEF ApplyLevelRemove, Find, struct

LEMMA UnlinkDoneDoes ==
    ASSUME IInv, UnlinkDone
    PROVE  0 \in Size /\ \E p \in Price : BookNow' = WithLevel(BookNow, p, 0)
<1> DEFINE p == nodes[node].price
<1>1. /\ pc = "unlink" /\ op = "unlink" /\ ret = "idle" /\ node \in Mapped /\ 0 \in Size
      /\ rest = <<>>
  BY DEF UnlinkDone, IInv, Control, RestInv
<1>2. /\ tick_to_node' = [t \in DOMAIN tick_to_node \ {p} |-> tick_to_node[t]]
      /\ rest' = <<>> /\ pc' = "idle"
  BY <1>1 DEF UnlinkDone, Return
<1>3. Mapped \subseteq DOMAIN nodes /\ p \in Price
  BY <1>1, PoolFacts, NodeFacts DEF IInv
<1>4. \A t \in DOMAIN tick_to_node : nodes'[tick_to_node[t]].size = nodes[tick_to_node[t]].size
  BY <1>3, UnlinkDoneKeeps DEF SameSizes, Mapped
<1> HIDE DEF p
<1>5. Sizes' = WithLevel(Sizes, p, 0)
  BY <1>2, <1>4 DEF Sizes, WithLevel
<1>6. BookNow = Sizes
  BY <1>1, RestingBook
<1>7. BookNow' = Sizes'
  BY <1>2, RestingBook
<1>8. BookNow' = WithLevel(BookNow, p, 0)
  BY <1>5, <1>6, <1>7
<1> QED BY <1>1, <1>3, <1>8

(* A level that is there takes the new size.                               *)
LEMMA UpdateDoes ==
    ASSUME IInv, pc = "idle", NEW p \in Price, NEW s \in Size, s # 0,
           ApplyLevelUpdate(p, s)
    PROVE  BookNow' = WithLevel(BookNow, p, s) /\ p \in DOMAIN BookNow
<1>1. PICK i : i = tick_to_node[p]
  OBVIOUS
<1>2. /\ p \in DOMAIN tick_to_node /\ i \in DOMAIN nodes
      /\ nodes' = [nodes EXCEPT ![i].size = s] /\ tick_to_node' = tick_to_node
  BY <1>1 DEF ApplyLevelUpdate, IInv, TypeOK
<1>3. \A t \in DOMAIN tick_to_node :
          tick_to_node[t] \in DOMAIN nodes /\ (tick_to_node[t] = i => t = p)
  BY <1>1, <1>2 DEF IInv, TypeOK, LaneInv
<1>4. \A j \in DOMAIN nodes : nodes'[j].size = IF j = i THEN s ELSE nodes[j].size
  BY <1>2, PoolFacts DEF IInv, LevelNode
<1>5. Sizes' = WithLevel(Sizes, p, s)
  BY <1>1, <1>2, <1>3, <1>4 DEF Sizes, WithLevel
<1>6. rest = <<>> /\ rest' = <<>> /\ pc' = "idle"
  BY DEF ApplyLevelUpdate, locals, IInv, RestInv
<1>7. BookNow = Sizes /\ DOMAIN Sizes = DOMAIN tick_to_node
  BY <1>6, SizesFacts, RestingBook
<1>8. BookNow' = Sizes'
  BY <1>6, RestingBook
<1> QED BY <1>2, <1>5, <1>7, <1>8

(* A level that is new is entered, if there is room.                       *)
LEMMA InsertDoes ==
    ASSUME IInv, pc \in {"idle", "fill"}, NEW lvl \in Level, lvl.size # 0,
           lvl.price \notin DOMAIN tick_to_node, Insert(lvl, pc)
    PROVE  /\ ~CanAlloc => UNCHANGED <<Sizes, pc>>
           /\ CanAlloc => /\ Sizes' = WithLevel(Sizes, lvl.price, lvl.size)
                          /\ Cardinality(DOMAIN Sizes') = Cardinality(DOMAIN Sizes) + 1
           /\ pc' # "reclaim"
<1>1. CASE ~CanAlloc
  BY <1>1 DEF Insert, Sizes, struct
<1>2. CASE CanAlloc
  <2>1. PICK i : i = AllocIndex
    OBVIOUS
  <2>2. /\ \E height \in 1 .. MAX_HEIGHT : nodes' = WithNode(i, lvl, height)
        /\ pc' # "reclaim"
        /\ tick_to_node' = [t \in DOMAIN tick_to_node \cup {lvl.price} |->
                               IF t = lvl.price THEN i ELSE tick_to_node[t]]
    BY <1>2, <2>1 DEF Insert, Find
  <2>3. i \notin Mapped /\ Mapped \subseteq DOMAIN nodes
    BY <1>2, <2>1, AllocFacts, PoolFacts DEF IInv
  <2>4. /\ nodes'[i].size = lvl.size
        /\ \A j \in Mapped : nodes'[j].size = nodes[j].size
    BY <2>2, <2>3 DEF WithNode
  <2>5. \A t \in DOMAIN tick_to_node : t # lvl.price /\ tick_to_node[t] \in Mapped
    BY DEF Mapped
  <2>6. Sizes' = WithLevel(Sizes, lvl.price, lvl.size)
    BY <2>2, <2>4, <2>5 DEF Sizes, WithLevel
  <2>7. DOMAIN Sizes' = DOMAIN Sizes \cup {lvl.price} /\ DOMAIN Sizes = DOMAIN tick_to_node
    BY <2>2 DEF Sizes
  <2>8. Cardinality(DOMAIN Sizes') = Cardinality(DOMAIN Sizes) + 1
    <3> HIDE DEF Sizes
    <3> QED BY <2>7, RoomFacts, FS_AddElement
  <2> QED BY <1>2, <2>2, <2>6, <2>8
<1> QED BY <1>1, <1>2

LEMMA ApplyLevelInsertDoes ==
    ASSUME IInv, pc = "idle", NEW p \in Price, NEW s \in Size, s # 0,
           ApplyLevelInsert(p, s)
    PROVE  \/ BookNow' = BookNow
           \/ BookNow' = WithLevel(BookNow, p, s) /\ Cardinality(DOMAIN BookNow) < NONE
<1> DEFINE lvl == [price |-> p, size |-> s]
<1>1. lvl \in Level /\ lvl.price = p /\ lvl.size = s
  BY DEF Level
<1> HIDE DEF lvl
<1>2. p \notin DOMAIN tick_to_node /\ Insert(lvl, pc) /\ rest' = rest
  BY DEF ApplyLevelInsert, lvl
<1>3. /\ ~CanAlloc => UNCHANGED <<Sizes, pc>>
      /\ CanAlloc => Sizes' = WithLevel(Sizes, p, s)
      /\ pc' # "reclaim"
  BY <1>1, <1>2, InsertDoes
<1>4. rest = <<>> /\ rest' = <<>>
  BY <1>2 DEF IInv, RestInv
<1>5. BookNow = Sizes /\ DOMAIN Sizes = DOMAIN tick_to_node
  BY <1>4, SizesFacts, RestingBook
<1>6. BookNow' = Sizes'
  BY <1>3, <1>4, RestingBook
<1>7. CanAlloc => Cardinality(DOMAIN tick_to_node) < NONE
  BY RoomFacts
<1> QED BY <1>3, <1>5, <1>6, <1>7

(* apply_levels, at once for all the levels there is room for.             *)
LEMMA ApplyLevelsDoes ==
    ASSUME ApplyLevels
    PROVE  \E ls \in Snapshots : BookNow' = OverlayWithin(<<>>, ls, NONE)
<1>1. PICK ls \in Snapshots : rest' = ls
  BY DEF ApplyLevels
<1>2. InPlace' = <<>>
  BY DEF ApplyLevels, InPlace
<1>3. Cardinality(DOMAIN <<>>) = 0
  <2>1. DOMAIN <<>> = {}
    OBVIOUS
  <2> QED BY <2>1, FS_EmptySet
<1>4. NONE - 0 = NONE
  BY SkipBookSideAssumption
<1> QED BY <1>1, <1>2, <1>3, <1>4 DEF BookNow

(* The reclaim loop takes down what no longer counts.                      *)
LEMMA ReclaimDoes ==
    ASSUME Reclaim \/ ReclaimDone
    PROVE  BookNow' = BookNow
<1>1. InPlace = <<>> /\ rest' = rest
  BY DEF Reclaim, ReclaimDone, InPlace
<1>2. InPlace' = <<>>
  <2>1. CASE Reclaim
    BY <2>1 DEF Reclaim, InPlace
  <2>2. CASE ReclaimDone
    BY <2>2 DEF ReclaimDone, InPlace, Sizes
  <2> QED BY <2>1, <2>2
<1> QED BY <1>1, <1>2 DEF BookNow

(* Levels are entered as they already count.                               *)
LEMMA FillSkipDoes ==
    ASSUME IInv, FillSkip
    PROVE  BookNow' = BookNow
<1>1. /\ pc = "fill" /\ pc' = "fill" /\ rest # <<>> /\ Head(rest).size = 0
      /\ rest' = Tail(rest) /\ InPlace = Sizes
  BY DEF FillSkip, InPlace
<1>2. InPlace' = Sizes
  BY <1>1 DEF FillSkip, struct, InPlace, Sizes
<1>3. DistinctPrices(rest) /\ rest \in Seq(Level) /\ NONE - Cardinality(DOMAIN Sizes) \in Int
  BY SizesFacts DEF IInv, RestInv
<1> HIDE DEF Sizes
<1>4. OverlayWithin(Sizes, rest, NONE - Cardinality(DOMAIN Sizes))
      = OverlayWithin(Sizes, Tail(rest), NONE - Cardinality(DOMAIN Sizes))
  BY <1>1, <1>3, OverlayTail
<1> QED BY <1>1, <1>2, <1>4 DEF BookNow

LEMMA FillInsertDoes ==
    ASSUME IInv, FillInsert
    PROVE  BookNow' = BookNow
<1> DEFINE room == NONE - Cardinality(DOMAIN Sizes)
           h == Head(rest)
<1>1. /\ pc = "fill" /\ rest # <<>> /\ h.size # 0 /\ rest' = Tail(rest)
      /\ Insert(h, pc)
  BY DEF FillInsert
<1>2. /\ DistinctPrices(rest) /\ rest \in Seq(Level) /\ room \in Int
      /\ Sizes = [t \in DOMAIN Sizes |-> Sizes[t]] /\ DOMAIN Sizes = DOMAIN tick_to_node
  BY SizesFacts DEF IInv, RestInv
<1>3. /\ h \in Level /\ h.price \notin DOMAIN tick_to_node /\ Tail(rest) \in Seq(Level)
  <2>1. h = rest[1] /\ 1 \in DOMAIN rest
    BY <1>1, <1>2, TailAt
  <2>2. Tail(rest) \in Seq(Level) /\ h \in Level
    BY <1>1, <1>2, HeadTailProperties
  <2> QED BY <1>1, <2>1, <2>2 DEF IInv, RestInv
<1>4. /\ ~CanAlloc => UNCHANGED <<Sizes, pc>>
      /\ CanAlloc => /\ Sizes' = WithLevel(Sizes, h.price, h.size)
                     /\ Cardinality(DOMAIN Sizes') = Cardinality(DOMAIN Sizes) + 1
      /\ pc' # "reclaim"
  BY <1>1, <1>3, InsertDoes
<1>5. CanAlloc <=> Cardinality(DOMAIN Sizes) < NONE
  BY <1>1, <1>2, RoomFacts
<1>6. Cardinality(DOMAIN Sizes) \in Nat /\ NONE \in Nat
  BY <1>2, RoomFacts, SkipBookSideAssumption
<1>7. BookNow = OverlayWithin(Sizes, rest, room)
  BY <1>1 DEF BookNow, InPlace
<1>8. BookNow' = OverlayWithin(Sizes', Tail(rest), NONE - Cardinality(DOMAIN Sizes'))
  BY <1>1, <1>4 DEF BookNow, InPlace
<1> HIDE DEF Sizes, h
<1>9. CASE CanAlloc
  <2>1. room > 0 /\ NONE - Cardinality(DOMAIN Sizes') = room - 1
    BY <1>4, <1>5, <1>6, <1>9
  <2> HIDE DEF room
  <2>2. OverlayWithin(Sizes, rest, room)
        = OverlayWithin(WithLevel(Sizes, h.price, h.size), Tail(rest), room - 1)
    BY <1>1, <1>2, <2>1, OverlayTail DEF h
  <2> QED BY <1>4, <1>7, <1>8, <1>9, <2>1, <2>2
<1>10. CASE ~CanAlloc
  <2>1. room <= 0
    BY <1>5, <1>6, <1>10
  <2>2. BookNow' = OverlayWithin(Sizes, Tail(rest), room)
    BY <1>4, <1>8, <1>10
  <2> HIDE DEF room
  <2>3. OverlayWithin(Sizes, rest, room) = Sizes
    BY <1>2, <2>1, OverlayFull
  <2>4. OverlayWithin(Sizes, Tail(rest), room) = Sizes
    BY <1>2, <1>3, <2>1, OverlayFull
  <2> QED BY <1>7, <2>2, <2>3, <2>4
<1> QED BY <1>9, <1>10

(***************************************************************************)
(* Each step of the calls, of whatever levels, is a step BookSide allows   *)
(* or changes nothing a caller sees: an insertion and a snapshot take      *)
(* effect at their first step, a removal at its last, levels without room  *)
(* are dropped, and the loops' other steps change nothing in the book.     *)
(***************************************************************************)
THEOREM ImplementsBookSideHolds ==
    ASSUME DistinctSnapshots PROVE SkipSpec => ImplementsBookSide
<1>1. SkipInit => Abstract!Init
  <2> SUFFICES ASSUME SkipInit PROVE BookNow = <<>>
    BY DEF Abstract!Init, BookNow
  <2>1. IInv /\ rest = <<>> /\ pc # "reclaim" /\ Sizes = <<>>
    BY InitHolds DEF SkipInit, Sizes
  <2> QED BY <2>1, RestingBook
<1>2. IInv /\ [SkipNext]_vars => [Abstract!Next]_BookNow
  <2> SUFFICES ASSUME IInv, [SkipNext]_vars PROVE [Abstract!Next]_BookNow
    OBVIOUS
  <2>1. CASE ApplyLevel
    <3>1. pc = "idle"
      BY <2>1 DEF ApplyLevel
    <3>2. PICK p \in Price, s \in Size :
              \/ s = 0 /\ ApplyLevelAbsent(p)
              \/ s = 0 /\ ApplyLevelRemove(p)
              \/ s # 0 /\ ApplyLevelUpdate(p, s)
              \/ s # 0 /\ ApplyLevelInsert(p, s)
      BY <2>1 DEF ApplyLevel
    <3>3. \/ BookNow' = BookNow
          \/ /\ BookNow' = WithLevel(BookNow, p, s)
             /\ p \in DOMAIN BookNow \/ Cardinality(DOMAIN BookNow) < NONE
      <4>1. CASE s = 0 /\ ApplyLevelAbsent(p)
        BY <4>1 DEF ApplyLevelAbsent, vars, BookNow, InPlace, Sizes
      <4>2. CASE s = 0 /\ ApplyLevelRemove(p)
        BY <3>1, <4>2, RemoveDoes
      <4>3. CASE s # 0 /\ ApplyLevelUpdate(p, s)
        BY <3>1, <4>3, UpdateDoes
      <4>4. CASE s # 0 /\ ApplyLevelInsert(p, s)
        BY <3>1, <4>4, ApplyLevelInsertDoes
      <4> QED BY <3>2, <4>1, <4>2, <4>3, <4>4
    <3>4. BookNow' = WithLevel(BookNow, p, s)
          /\ (p \in DOMAIN BookNow \/ Cardinality(DOMAIN BookNow) < NONE)
          => Abstract!ApplyPriceChange
      BY SameWithLevel, SameCardinality
         DEF Abstract!ApplyPriceChange, Abstract!HasRoom, BookNow
    <3> QED BY <3>3, <3>4 DEF Abstract!Next
  <2>2. CASE ApplyLevels
    <3>1. Abstract!ApplySnapshot
      BY <2>2, ApplyLevelsDoes, SameWithin DEF Abstract!ApplySnapshot, BookNow
    <3> QED BY <3>1 DEF Abstract!Next
  <2>3. CASE Reclaim \/ ReclaimDone
    BY <2>3, ReclaimDoes
  <2>4. CASE FillSkip
    BY <2>4, FillSkipDoes
  <2>5. CASE FillInsert
    BY <2>5, FillInsertDoes
  <2>6. CASE UnlinkDone
    <3>1. PICK p \in Price : BookNow' = WithLevel(BookNow, p, 0)
      BY <2>6, UnlinkDoneDoes
    <3>2. Abstract!ApplyPriceChange
      BY <2>6, <3>1, UnlinkDoneDoes, SameWithLevel DEF Abstract!ApplyPriceChange, BookNow
    <3> QED BY <3>2 DEF Abstract!Next
  <2>7. CASE FindAdvance \/ FindDown \/ LinkLane \/ UnlinkLane \/ LinkDone \/ FillDone
    BY <2>7, WalkDoes
  <2>8. CASE UNCHANGED vars
    BY <2>8 DEF vars, BookNow, InPlace, Sizes
  <2> QED BY <2>1, <2>2, <2>3, <2>4, <2>5, <2>6, <2>7, <2>8 DEF SkipNext, Loops
<1>3. SkipSpec => []IInv
  BY InvHolds
<1> QED BY <1>1, <1>2, <1>3, PTL DEF SkipSpec, ImplementsBookSide, Abstract!Spec, BookNow
-----------------------------------------------------------------------------
(* Ranked is by position.                                                  *)
LEMMA RankedAt ==
    \A b : Ranked(b) = [r \in 1 .. Cardinality(DOMAIN b) |->
                           [price |-> At(IsBid, DOMAIN b, r), size |-> b[At(IsBid, DOMAIN b, r)]]]
<1>1. \A b : \A q : {x \in DOMAIN b : ComesBefore(x, q)} = Ahead(IsBid, DOMAIN b, q)
  BY DEF ComesBefore, Ahead, Precedes
<1> QED BY <1>1 DEF Ranked, At

(***************************************************************************)
(* Between calls the iterator, along lane 0, yields the quoted levels,     *)
(* each once, best first, and ends: every node is in lane 0, whatever its  *)
(* height.                                                                 *)
(***************************************************************************)
THEOREM IterIsRankedHolds == ASSUME DistinctSnapshots PROVE SkipSpec => []IterIsRanked
<1>1. IInv => IterIsRanked
  <2> SUFFICES ASSUME IInv, pc = "idle" PROVE Yields(Ranked(Sizes))
    BY DEF IterIsRanked
  <2> DEFINE D == DOMAIN tick_to_node
             n == Cardinality(D)
             p(r) == At(IsBid, D, r)
             at == [r \in 1 .. n |-> tick_to_node[p(r)]]
             ls == Ranked(Sizes)
  <2>1. D \in SUBSET Int /\ IsFiniteSet(D) /\ n \in Nat /\ IsBid \in BOOLEAN
    BY RoomFacts, BookLevelsAssumption, FS_CardinalityType DEF IInv, TypeOK
  <2>2. /\ \A t \in D : tick_to_node[t] \in Mapped /\ nodes[tick_to_node[t]].price = t
        /\ \A i \in Mapped : nodes[i].price \in D /\ tick_to_node[nodes[i].price] = i
        /\ Mapped \subseteq DOMAIN nodes /\ NONE \notin Mapped
    BY MapFacts, PoolFacts DEF Mapped, IInv, LaneInv
  <2>3. \A r \in 1 .. n : p(r) \in D
    BY <2>1, EveryPosition
  <2>4. ls = [r \in 1 .. n |-> [price |-> p(r), size |-> nodes[tick_to_node[p(r)]].size]]
    BY <2>3, RankedAt DEF Sizes
  <2>5. /\ DOMAIN ls = 1 .. n /\ at \in [1 .. n -> DOMAIN nodes]
        /\ \A r \in 1 .. n :
              /\ at[r] \in Mapped /\ nodes[at[r]].price = p(r)
              /\ ls[r] = [price |-> nodes[at[r]].price, size |-> nodes[at[r]].size]
    BY <2>2, <2>3, <2>4
  <2>6. \A i \in Mapped, r \in 0 .. n :
           LET q == nodes[i].price
           IN  /\ Behind(IsBid, D, r, q)
               /\ \A t \in D : Behind(IsBid, D, r, t) => t = q \/ Precedes(IsBid, q, t)
               => r + 1 \in 1 .. n /\ at[r + 1] = i
    BY <2>1, <2>2, NextPosition
  <2>7. \A r \in 0 .. n :
           (\A t \in D : ~Behind(IsBid, D, r, t)) => r + 1 \notin 1 .. n
    BY <2>1, NextPosition
  <2> HIDE DEF n, p, at, ls
  <2>8. Lane(0) = Mapped
    <3>1. \A i \in Mapped : nodes[i].height > 0
      BY <2>2, NodeFacts, SkipBookSideAssumption DEF IInv
    <3> QED BY <3>1 DEF Lane, Busy
  <2>9. \A i, j \in Mapped : Before(i, j) <=> Precedes(IsBid, nodes[i].price, nodes[j].price)
    BY DEF Before, ComesBefore, Precedes
  <2>10. ASSUME NEW r \in 0 .. n, NEW i, i = IF r = 0 THEN NONE ELSE at[r]
         PROVE  Next(i, 0) = IF r + 1 \in 1 .. n THEN at[r + 1] ELSE NONE
    <3>1. /\ i \in Mapped \cup {NONE} /\ (i = NONE <=> r = 0)
          /\ i # NONE => nodes[i].price = p(r)
      BY <2>1, <2>2, <2>5, <2>10
    <3>2. \A k \in Mapped : Behind(IsBid, D, r, nodes[k].price) <=> i = NONE \/ Before(i, k)
      BY <2>1, <2>9, <2>10, <3>1 DEF Behind, p
    <3>3. PICK j : j = Next(i, 0)
      OBVIOUS
    <3>4. \/ j = NONE /\ \A k \in Mapped : ~(i = NONE \/ Before(i, k))
          \/ /\ j \in Mapped /\ (i = NONE \/ Before(i, j))
             /\ \A k \in Mapped : i = NONE \/ Before(i, k) => k = j \/ Before(j, k)
      BY <2>8, <3>1, <3>3, SkipBookSideAssumption, PoolFacts DEF IInv, LaneInv
    <3>5. CASE j = NONE /\ \A k \in Mapped : ~(i = NONE \/ Before(i, k))
      <4>1. \A t \in D : ~Behind(IsBid, D, r, t)
        BY <2>2, <3>2, <3>5
      <4> QED BY <2>7, <3>3, <3>5, <4>1
    <3>6. CASE /\ j \in Mapped /\ (i = NONE \/ Before(i, j))
               /\ \A k \in Mapped : i = NONE \/ Before(i, k) => k = j \/ Before(j, k)
      <4>1. /\ Behind(IsBid, D, r, nodes[j].price)
            /\ \A t \in D : Behind(IsBid, D, r, t)
                            => t = nodes[j].price \/ Precedes(IsBid, nodes[j].price, t)
        BY <2>2, <2>9, <3>2, <3>6
      <4> QED BY <2>6, <3>3, <3>6, <4>1
    <3> QED BY <3>4, <3>5, <3>6
  <2>11. head[0] = IF 1 \in 1 .. n THEN at[1] ELSE NONE
    BY <2>1, <2>10 DEF Next
  <2>12. \A r \in 1 .. n : Next(at[r], 0) = IF r + 1 \in 1 .. n THEN at[r + 1] ELSE NONE
    BY <2>1, <2>10
  <2> QED BY <2>5, <2>11, <2>12 DEF Yields, ls
<1> QED BY <1>1, InvHolds, PTL

-----------------------------------------------------------------------------
(***************************************************************************)
(* The reference book, with its vector of levels.                          *)
(***************************************************************************)
(* Levels of which no two have the same price, best first.                 *)
IsRanked(ls) ==
    \A j, k \in DOMAIN ls : j < k => ComesBefore(ls[j].price, ls[k].price)

Inv == levels \in Seq(Level) /\ IsRanked(levels)

-----------------------------------------------------------------------------
LEMMA OrderIsPrecedes ==
    ASSUME NEW p \in Price, NEW q \in Price
    PROVE  /\ ComesBefore(p, q) <=> Precedes(IsBid, p, q)
           /\ ~ComesBefore(p, p)
           /\ p # q => ComesBefore(p, q) \/ ComesBefore(q, p)
           /\ ComesBefore(p, q) => ~ComesBefore(q, p)
BY BookLevelsAssumption DEF ComesBefore, Precedes

LEMMA LevelAt ==
    ASSUME NEW ls \in Seq(Level)
    PROVE  /\ DOMAIN ls = 1 .. Len(ls) /\ Len(ls) \in Nat
           /\ \A k \in DOMAIN ls : /\ ls[k] \in Level
                                   /\ ls[k].price \in Price /\ ls[k].size \in Size
<1>1. DOMAIN ls = 1 .. Len(ls) /\ Len(ls) \in Nat
  BY LenProperties
<1>2. \A k \in 1 .. Len(ls) : ls[k] \in Level
  BY ElementOfSeq
<1>3. \A l \in Level : l.price \in Price /\ l.size \in Size
  BY DEF Level
<1> HIDE DEF Level
<1> QED BY <1>1, <1>2, <1>3

(* A ranked sequence quotes no price twice.                                *)
LEMMA RankedIsDistinct ==
    ASSUME NEW ls \in Seq(Level), IsRanked(ls)
    PROVE  DistinctPrices(ls)
<1> SUFFICES ASSUME NEW j \in DOMAIN ls, NEW k \in DOMAIN ls, ls[j].price = ls[k].price
             PROVE  j = k
  BY DEF DistinctPrices
<1>1. ls[j].price \in Price /\ DOMAIN ls \subseteq Nat
  BY LevelAt
<1>2. ~(j < k) /\ ~(k < j)
  BY <1>1, OrderIsPrecedes DEF IsRanked
<1> QED BY <1>1, <1>2

(***************************************************************************)
(* Sorting: the position of a level after the sort is that of its price    *)
(* among the prices.                                                       *)
(***************************************************************************)
PricesOf(ls) == {ls[k].price : k \in DOMAIN ls}

LEMMA PricesFacts ==
    ASSUME NEW ls \in Seq(Level), DistinctPrices(ls)
    PROVE  /\ PricesOf(ls) \in SUBSET Int
           /\ IsFiniteSet(PricesOf(ls)) /\ Cardinality(PricesOf(ls)) = Len(ls)
<1> DEFINE f == [k \in DOMAIN ls |-> ls[k].price]
<1>1. \A k \in DOMAIN ls : ls[k].price \in Price
  BY LevelAt
<1>2. f \in Bijection(DOMAIN ls, PricesOf(ls))
  BY DEF Bijection, Injection, Surjection, IsInjective, PricesOf, DistinctPrices
<1>3. IsFiniteSet(1 .. Len(ls)) /\ Cardinality(1 .. Len(ls)) = Len(ls)
  <2>1. Len(ls) \in Nat
    BY LenProperties
  <2>2. Cardinality(1 .. Len(ls)) = IF 1 > Len(ls) THEN 0 ELSE Len(ls) - 1 + 1
    BY <2>1, FS_Interval
  <2> QED BY <2>1, <2>2, FS_Interval
<1>4. DOMAIN ls = 1 .. Len(ls)
  BY LenProperties
<1> HIDE DEF f
<1>5. ExistsBijection(1 .. Len(ls), PricesOf(ls))
  BY <1>2, <1>4 DEF ExistsBijection
<1>6. IsFiniteSet(PricesOf(ls)) /\ Cardinality(PricesOf(ls)) = Len(ls)
  BY <1>3, <1>5, FS_Bijection
<1> QED BY <1>1, <1>6, BookLevelsAssumption DEF PricesOf

LEMMA AheadByPosition ==
    ASSUME NEW ls \in Seq(Level), DistinctPrices(ls), NEW k \in DOMAIN ls
    PROVE  Cardinality({j \in DOMAIN ls :
                          \/ ComesBefore(ls[j].price, ls[k].price)
                          \/ ls[j].price = ls[k].price /\ j < k})
           = Cardinality(Ahead(IsBid, PricesOf(ls), ls[k].price))
<1> DEFINE J == {j \in DOMAIN ls : \/ ComesBefore(ls[j].price, ls[k].price)
                                   \/ ls[j].price = ls[k].price /\ j < k}
           A == Ahead(IsBid, PricesOf(ls), ls[k].price)
           f == [j \in J |-> ls[j].price]
<1>1. \A j \in DOMAIN ls : ls[j].price \in Price
  BY LevelAt
<1>2. J = {j \in DOMAIN ls : Precedes(IsBid, ls[j].price, ls[k].price)}
  BY <1>1, OrderIsPrecedes DEF DistinctPrices
<1> HIDE DEF J
<1>3. f \in [J -> A]
  BY <1>2 DEF Ahead, PricesOf
<1>4. \A p \in A : \E j \in J : f[j] = p
  BY <1>2 DEF Ahead, PricesOf
<1>5. \A i, j \in J : f[i] = f[j] => i = j
  BY <1>2 DEF DistinctPrices
<1> HIDE DEF f
<1>6. f \in Bijection(J, A)
  <2> HIDE DEF A
  <2> QED BY <1>3, <1>4, <1>5 DEF Bijection, Injection, Surjection, IsInjective
<1>7. IsFiniteSet(A)
  BY PricesFacts, AheadFacts, BookLevelsAssumption DEF PricesOf
<1>8. IsFiniteSet(J)
  <2>1. IsFiniteSet(DOMAIN ls)
    BY LenProperties, FS_Interval
  <2>2. J \in SUBSET DOMAIN ls
    BY <1>2
  <2> QED BY <2>1, <2>2, FS_Subset
<1>9. Cardinality(J) = Cardinality(A)
  <2>1. ExistsBijection(J, A)
    BY <1>6 DEF ExistsBijection
  <2> HIDE DEF A
  <2> QED BY <1>8, <2>1, FS_Bijection
<1> QED BY <1>9 DEF J

(* So the sort puts at each position the level of the price that ranks     *)
(* there.                                                                  *)
LEMMA SortedFacts ==
    ASSUME NEW ls \in Seq(Level), DistinctPrices(ls)
    PROVE  /\ Sorted(ls) \in Seq(Level) /\ IsRanked(Sorted(ls))
           /\ \A r \in DOMAIN Sorted(ls) : \E k \in DOMAIN ls : Sorted(ls)[r] = ls[k]
           /\ \A k \in DOMAIN ls : \E r \in DOMAIN Sorted(ls) : Sorted(ls)[r] = ls[k]
<1> DEFINE P == PricesOf(ls)
           n == Len(ls)
           num(k) == Cardinality({j \in DOMAIN ls :
                          \/ ComesBefore(ls[j].price, ls[k].price)
                          \/ ls[j].price = ls[k].price /\ j < k})
           at(r) == CHOOSE k \in DOMAIN ls : num(k) = r - 1
<1>1. /\ P \in SUBSET Int /\ IsFiniteSet(P) /\ Cardinality(P) = n
      /\ n \in Nat /\ DOMAIN ls = 1 .. n /\ IsBid \in BOOLEAN
  BY PricesFacts, LenProperties, BookLevelsAssumption
<1>2. \A k \in DOMAIN ls : num(k) = Cardinality(Ahead(IsBid, P, ls[k].price))
  BY AheadByPosition
<1>3. Sorted(ls) = [r \in 1 .. n |-> ls[at(r)]]
  BY <1>1 DEF Sorted
<1> HIDE DEF num
<1>4. ASSUME NEW r \in 1 .. n
      PROVE  at(r) \in DOMAIN ls /\ num(at(r)) = r - 1
  <2>1. PICK p \in P : Cardinality(Ahead(IsBid, P, p)) = r - 1
    BY <1>1, EveryPosition
  <2>2. PICK k \in DOMAIN ls : ls[k].price = p
    BY DEF PricesOf
  <2>3. num(k) = r - 1
    BY <1>2, <2>1, <2>2
  <2> QED BY <2>3
<1> HIDE DEF at
<1>5. \A r \in 1 .. n : Sorted(ls)[r] = ls[at(r)] /\ ls[at(r)] \in Level
  BY <1>3, <1>4
<1>6. Sorted(ls) \in Seq(Level)
  BY <1>1, <1>3, <1>5
<1>7. DOMAIN Sorted(ls) = 1 .. n
  BY <1>3
<1>8. ASSUME NEW q \in 1 .. n, NEW r \in 1 .. n, q < r
      PROVE  ComesBefore(ls[at(q)].price, ls[at(r)].price)
  <2>1. /\ ls[at(q)].price \in P /\ ls[at(r)].price \in P
        /\ ls[at(q)].price \in Price /\ ls[at(r)].price \in Price
    BY <1>4, <1>5 DEF PricesOf, Level
  <2>2. /\ Cardinality(Ahead(IsBid, P, ls[at(q)].price)) = q - 1
        /\ Cardinality(Ahead(IsBid, P, ls[at(r)].price)) = r - 1
    BY <1>2, <1>4
  <2>3. ls[at(q)].price # ls[at(r)].price
    BY <1>8, <2>2
  <2>4. ASSUME ComesBefore(ls[at(r)].price, ls[at(q)].price) PROVE FALSE
    <3>1. Precedes(IsBid, ls[at(r)].price, ls[at(q)].price)
      BY <2>1, <2>4, OrderIsPrecedes
    <3> HIDE DEF P
    <3>2. r - 1 < q - 1
      BY <1>1, <2>1, <2>2, <3>1, AheadGrows
    <3> QED BY <1>8, <3>2
  <2> QED BY <2>1, <2>3, <2>4, OrderIsPrecedes
<1>9. IsRanked(Sorted(ls))
  BY <1>5, <1>7, <1>8 DEF IsRanked
<1>10. ASSUME NEW k \in DOMAIN ls
       PROVE  \E r \in DOMAIN Sorted(ls) : Sorted(ls)[r] = ls[k]
  <2> DEFINE r == num(k) + 1
  <2>1. ls[k].price \in P
    BY DEF PricesOf
  <2>2. num(k) \in 0 .. n - 1
    <3> HIDE DEF P
    <3> QED BY <1>1, <1>2, <2>1, AheadFacts
  <2>3. r \in 1 .. n /\ num(k) = r - 1
    BY <1>1, <2>2
  <2> HIDE DEF r
  <2>4. /\ at(r) \in DOMAIN ls /\ ls[at(r)].price \in P
        /\ Cardinality(Ahead(IsBid, P, ls[at(r)].price))
           = Cardinality(Ahead(IsBid, P, ls[k].price))
    BY <1>2, <1>4, <2>3 DEF PricesOf
  <2> HIDE DEF P
  <2>5. ls[at(r)].price = ls[k].price
    <3>1. \A p, q \in P :
             Cardinality(Ahead(IsBid, P, p)) = Cardinality(Ahead(IsBid, P, q)) => p = q
      BY <1>1, AheadDistinct
    <3> QED BY <2>1, <2>4, <3>1
  <2>6. at(r) = k
    BY <2>4, <2>5 DEF DistinctPrices
  <2> QED BY <1>5, <1>7, <2>3, <2>6
<1> QED BY <1>4, <1>5, <1>6, <1>7, <1>9, <1>10

-----------------------------------------------------------------------------
(***************************************************************************)
(* Retaining the levels of other prices keeps them in their order.         *)
(***************************************************************************)
LEMMA RetainedFacts ==
    ASSUME NEW ls \in Seq(Level), IsRanked(ls), NEW p \in Price
    PROVE  /\ Retained(ls, p) \in Seq(Level) /\ IsRanked(Retained(ls, p))
           /\ \A r \in DOMAIN Retained(ls, p) :
                 \E k \in DOMAIN ls : ls[k].price # p /\ Retained(ls, p)[r] = ls[k]
           /\ \A k \in DOMAIN ls : ls[k].price # p =>
                 \E r \in DOMAIN Retained(ls, p) : Retained(ls, p)[r] = ls[k]
<1> DEFINE K == {k \in DOMAIN ls : ls[k].price # p}
           n == Cardinality(K)
           at(r) == CHOOSE k \in K : Cardinality({j \in K : j < k}) = r - 1
<1>1. /\ DOMAIN ls = 1 .. Len(ls) /\ Len(ls) \in Nat
      /\ \A k \in DOMAIN ls : ls[k] \in Level
  BY LevelAt
<1>2. K \in SUBSET Int /\ IsFiniteSet(K) /\ n \in Nat
  <2>1. IsFiniteSet(DOMAIN ls) /\ K \in SUBSET DOMAIN ls
    BY <1>1, FS_Interval
  <2> HIDE DEF K
  <2> QED BY <1>1, <2>1, FS_Subset, FS_CardinalityType
<1>3. Retained(ls, p) = [r \in 1 .. n |-> ls[at(r)]]
  BY DEF Retained
<1>4. \A k \in K : k \in DOMAIN ls /\ ls[k].price # p
  OBVIOUS
<1>5. \A k \in DOMAIN ls : ls[k].price # p => k \in K
  OBVIOUS
<1> HIDE DEF K, at
<1>6. ASSUME NEW r \in 1 .. n PROVE at(r) \in K
  BY <1>2, PositionsInOrder DEF at
<1>7. ASSUME NEW q \in 1 .. n, NEW r \in 1 .. n, q < r PROVE at(q) < at(r)
  BY <1>2, <1>7, PositionsInOrder DEF at
<1>8. ASSUME NEW k \in K PROVE \E r \in 1 .. n : at(r) = k
  BY <1>2, PositionsInOrder DEF at
<1> HIDE DEF n
<1>9. \A r \in 1 .. n : /\ at(r) \in DOMAIN ls /\ ls[at(r)].price # p
                        /\ ls[at(r)] \in Level
  BY <1>1, <1>4, <1>6
<1>10. /\ DOMAIN Retained(ls, p) = 1 .. n
       /\ \A r \in 1 .. n : Retained(ls, p)[r] = ls[at(r)]
       /\ Retained(ls, p) \in Seq(Level)
  BY <1>2, <1>3, <1>9
<1>11. IsRanked(Retained(ls, p))
  BY <1>7, <1>9, <1>10 DEF IsRanked
<1> QED BY <1>5, <1>8, <1>9, <1>10, <1>11

-----------------------------------------------------------------------------
(***************************************************************************)
(* What each operation does to the book the levels stand for.              *)
(***************************************************************************)
LEMMA SortedOverlay ==
    ASSUME NEW ls \in Seq(Level), DistinctPrices(ls)
    PROVE  Overlay(<<>>, Sorted(ls)) = Overlay(<<>>, ls)
<1> DEFINE ms == Sorted(ls)
           b == Overlay(<<>>, ls)
<1>1. ms \in Seq(Level) /\ IsRanked(ms)
  BY SortedFacts
<1>2. \A r \in DOMAIN ms : \E k \in DOMAIN ls : ms[r] = ls[k]
  BY SortedFacts
<1>3. \A k \in DOMAIN ls : \E r \in DOMAIN ms : ms[r] = ls[k]
  BY SortedFacts
<1> HIDE DEF ms
<1>4. DistinctPrices(ms)
  BY <1>1, RankedIsDistinct
<1>5. /\ DOMAIN b = Quoted(ls) /\ b = [q \in DOMAIN b |-> b[q]]
      /\ \A k \in DOMAIN ls : ls[k].size # 0 =>
             ls[k].price \in DOMAIN b /\ b[ls[k].price] = ls[k].size
  BY OverlayOf
<1> HIDE DEF b
<1>6. \A r \in DOMAIN ms : ms[r].size # 0 =>
          ms[r].price \in DOMAIN b /\ b[ms[r].price] = ms[r].size
  BY <1>2, <1>5
<1>7. ASSUME NEW q \in DOMAIN b
      PROVE  \E r \in DOMAIN ms : ms[r].size # 0 /\ ms[r].price = q
  <2>1. PICK k \in DOMAIN ls : ls[k].size # 0 /\ ls[k].price = q
    BY <1>5 DEF Quoted
  <2> QED BY <1>3, <2>1
<1>8. Overlay(<<>>, ms) = b
  BY <1>4, <1>5, <1>6, <1>7, OverlayIs
<1> QED BY <1>8 DEF ms, b

LEMMA RetainedOverlay ==
    ASSUME NEW ls \in Seq(Level), IsRanked(ls), NEW p \in Price
    PROVE  Overlay(<<>>, Retained(ls, p)) = WithLevel(Overlay(<<>>, ls), p, 0)
<1> DEFINE ms == Retained(ls, p)
           a == Overlay(<<>>, ls)
           b == WithLevel(a, p, 0)
<1>1. ms \in Seq(Level) /\ IsRanked(ms)
  BY RetainedFacts
<1>2. \A r \in DOMAIN ms : \E k \in DOMAIN ls : ls[k].price # p /\ ms[r] = ls[k]
  BY RetainedFacts
<1>3. \A k \in DOMAIN ls : ls[k].price # p => \E r \in DOMAIN ms : ms[r] = ls[k]
  BY RetainedFacts
<1> HIDE DEF ms
<1>4. DistinctPrices(ms) /\ DistinctPrices(ls)
  BY <1>1, RankedIsDistinct
<1>5. /\ DOMAIN a = Quoted(ls)
      /\ \A k \in DOMAIN ls : ls[k].size # 0 =>
             ls[k].price \in DOMAIN a /\ a[ls[k].price] = ls[k].size
  BY <1>4, OverlayOf
<1> HIDE DEF a
<1>6. b = [q \in DOMAIN a \ {p} |-> a[q]]
  BY DEF WithLevel
<1> HIDE DEF b
<1>7. \A r \in DOMAIN ms : ms[r].size # 0 =>
          ms[r].price \in DOMAIN b /\ b[ms[r].price] = ms[r].size
  BY <1>2, <1>5, <1>6
<1>8. ASSUME NEW q \in DOMAIN b
      PROVE  \E r \in DOMAIN ms : ms[r].size # 0 /\ ms[r].price = q
  <2>1. PICK k \in DOMAIN ls : ls[k].size # 0 /\ ls[k].price = q
    BY <1>5, <1>6 DEF Quoted
  <2> QED BY <1>3, <1>6, <2>1
<1>9. b = [q \in DOMAIN b |-> b[q]]
  BY <1>6
<1>10. Overlay(<<>>, ms) = b
  BY <1>4, <1>7, <1>8, <1>9, OverlayIs
<1> QED BY <1>10 DEF ms, b, a

LEMMA SetFacts ==
    ASSUME NEW ls \in Seq(Level), DistinctPrices(ls),
           NEW k \in DOMAIN ls, NEW s \in Size, s # 0
    PROVE  LET ms == [ls EXCEPT ![k].size = s]
           IN  /\ ms \in Seq(Level) /\ DistinctPrices(ms)
               /\ Overlay(<<>>, ms) = WithLevel(Overlay(<<>>, ls), ls[k].price, s)
<1> DEFINE ms == [ls EXCEPT ![k].size = s]
           a == Overlay(<<>>, ls)
           b == WithLevel(a, ls[k].price, s)
<1>1. /\ DOMAIN ls = 1 .. Len(ls) /\ Len(ls) \in Nat
      /\ \A j \in DOMAIN ls : ls[j] \in Level
  BY LevelAt
<1>2. /\ DOMAIN ms = DOMAIN ls
      /\ \A j \in DOMAIN ls : j # k => ms[j] = ls[j]
      /\ ms[k] = [ls[k] EXCEPT !.size = s]
  OBVIOUS
<1>3. ms[k] \in Level /\ ms[k].price = ls[k].price /\ ms[k].size = s
  BY <1>1, <1>2 DEF Level
<1>4. ms \in Seq(Level)
  <2>1. ms = [j \in 1 .. Len(ls) |-> ms[j]]
    BY <1>1
  <2>2. \A j \in 1 .. Len(ls) : ms[j] \in Level
    BY <1>1, <1>2, <1>3
  <2> HIDE DEF ms
  <2> QED BY <1>1, <2>1, <2>2
<1> HIDE DEF ms
<1>5. \A j \in DOMAIN ls : ms[j].price = ls[j].price
  BY <1>2, <1>3
<1>6. DistinctPrices(ms)
  BY <1>2, <1>5 DEF DistinctPrices
<1>7. /\ DOMAIN a = Quoted(ls)
      /\ \A j \in DOMAIN ls : ls[j].size # 0 =>
             ls[j].price \in DOMAIN a /\ a[ls[j].price] = ls[j].size
  BY OverlayOf
<1> HIDE DEF a
<1>8. b = [q \in DOMAIN a \cup {ls[k].price} |-> IF q = ls[k].price THEN s ELSE a[q]]
  BY DEF WithLevel
<1> HIDE DEF b
<1>9. ASSUME NEW j \in DOMAIN ms, ms[j].size # 0
      PROVE  ms[j].price \in DOMAIN b /\ b[ms[j].price] = ms[j].size
  <2>1. CASE j = k
    BY <1>3, <1>8, <2>1
  <2>2. CASE j # k
    <3>1. ms[j] = ls[j] /\ ls[j].price # ls[k].price
      BY <1>2, <2>2 DEF DistinctPrices
    <3> QED BY <1>2, <1>7, <1>8, <1>9, <3>1
  <2> QED BY <2>1, <2>2
<1>10. ASSUME NEW q \in DOMAIN b
       PROVE  \E j \in DOMAIN ms : ms[j].size # 0 /\ ms[j].price = q
  <2>1. CASE q = ls[k].price
    BY <1>2, <1>3, <2>1
  <2>2. CASE q # ls[k].price
    <3>1. PICK j \in DOMAIN ls : ls[j].size # 0 /\ ls[j].price = q
      BY <1>7, <1>8, <2>2 DEF Quoted
    <3> QED BY <1>2, <2>2, <3>1
  <2> QED BY <2>1, <2>2
<1>11. b = [q \in DOMAIN b |-> b[q]]
  BY <1>8
<1>12. Overlay(<<>>, ms) = b
  BY <1>6, <1>9, <1>10, <1>11, OverlayIs
<1> QED BY <1>4, <1>6, <1>12 DEF ms, b, a

LEMMA AppendedFacts ==
    ASSUME NEW ls \in Seq(Level), DistinctPrices(ls),
           NEW p \in Price, \A k \in DOMAIN ls : ls[k].price # p,
           NEW s \in Size, s # 0
    PROVE  LET ms == Append(ls, [price |-> p, size |-> s])
           IN  /\ ms \in Seq(Level) /\ DistinctPrices(ms)
               /\ Overlay(<<>>, ms) = WithLevel(Overlay(<<>>, ls), p, s)
<1> DEFINE l == [price |-> p, size |-> s]
           ms == Append(ls, l)
           n == Len(ls)
           a == Overlay(<<>>, ls)
           b == WithLevel(a, p, s)
<1>1. DOMAIN ls = 1 .. n /\ n \in Nat
  BY LevelAt
<1>2. l \in Level /\ l.price = p /\ l.size = s
  BY DEF Level
<1> HIDE DEF l
<1>3. /\ ms \in Seq(Level) /\ Len(ms) = n + 1 /\ ms[n + 1] = l
      /\ \A k \in 1 .. n : ms[k] = ls[k]
  BY <1>2, AppendProperties
<1> HIDE DEF ms
<1>4. DOMAIN ms = 1 .. n + 1
  BY <1>3, LevelAt
<1> HIDE DEF n
<1>5. /\ n + 1 \in DOMAIN ms /\ DOMAIN ms = DOMAIN ls \cup {n + 1}
      /\ \A k \in DOMAIN ls : ms[k] = ls[k]
  BY <1>1, <1>3, <1>4
<1>6. DistinctPrices(ms)
  BY <1>2, <1>3, <1>5 DEF DistinctPrices
<1>7. /\ DOMAIN a = Quoted(ls)
      /\ \A j \in DOMAIN ls : ls[j].size # 0 =>
             ls[j].price \in DOMAIN a /\ a[ls[j].price] = ls[j].size
  BY OverlayOf
<1> HIDE DEF a
<1>8. b = [q \in DOMAIN a \cup {p} |-> IF q = p THEN s ELSE a[q]]
  BY DEF WithLevel
<1> HIDE DEF b
<1>9. ASSUME NEW j \in DOMAIN ms, ms[j].size # 0
      PROVE  ms[j].price \in DOMAIN b /\ b[ms[j].price] = ms[j].size
  <2>1. CASE j = n + 1
    BY <1>2, <1>3, <1>8, <2>1
  <2>2. CASE j \in DOMAIN ls
    BY <1>5, <1>7, <1>8, <1>9, <2>2
  <2> QED BY <1>5, <2>1, <2>2
<1>10. ASSUME NEW q \in DOMAIN b
       PROVE  \E j \in DOMAIN ms : ms[j].size # 0 /\ ms[j].price = q
  <2>1. CASE q = p
    BY <1>2, <1>3, <1>5, <2>1
  <2>2. CASE q # p
    <3>1. PICK j \in DOMAIN ls : ls[j].size # 0 /\ ls[j].price = q
      BY <1>7, <1>8, <2>2 DEF Quoted
    <3> QED BY <1>5, <3>1
  <2> QED BY <2>1, <2>2
<1>11. b = [q \in DOMAIN b |-> b[q]]
  BY <1>8
<1>12. Overlay(<<>>, ms) = b
  BY <1>6, <1>9, <1>10, <1>11, OverlayIs
<1> QED BY <1>3, <1>6, <1>12 DEF ms, b, a, l

(***************************************************************************)
(* A side with room for every price there is takes all levels of a         *)
(* snapshot that have a size.                                              *)
(***************************************************************************)
LEMMA AllTaken ==
    ASSUME IsFiniteSet(Price), NEW ls \in Seq(Level), DistinctPrices(ls)
    PROVE  OverlayWithin(<<>>, ls, Cardinality(Price)) = Overlay(<<>>, ls)
<1>1. ASSUME NEW k \in DOMAIN ls
      PROVE  Cardinality(QuotedBefore(ls, k)) < Cardinality(Price)
  <2> DEFINE Q == QuotedBefore(ls, k)
             f == [j \in Q |-> ls[j].price]
             R == Price \ {ls[k].price}
  <2>1. DOMAIN ls = 1 .. Len(ls) /\ Len(ls) \in Nat
    BY LevelAt
  <2>2. Q \in SUBSET (DOMAIN ls \ {k}) /\ Q \in SUBSET (1 .. k - 1)
    BY <2>1 DEF QuotedBefore
  <2> HIDE DEF Q
  <2>3. ls[k].price \in Price /\ \A j \in DOMAIN ls : ls[j].price \in Price
    BY LevelAt
  <2>4. f \in Injection(Q, R)
    BY <2>2, <2>3 DEF Injection, IsInjective, DistinctPrices
  <2>5. IsFiniteSet(R) /\ Cardinality(R) = Cardinality(Price) - 1
    BY <2>3, FS_RemoveElement
  <2> HIDE DEF f, R
  <2>6. IsFiniteSet(Q) /\ Cardinality(Q) <= Cardinality(R)
    BY <2>4, <2>5, FS_Injection
  <2>7. Cardinality(Q) \in Nat /\ Cardinality(Price) \in Nat
    BY <2>6, FS_CardinalityType
  <2> QED BY <2>5, <2>6, <2>7 DEF Q
<1>2. Taken(ls, Cardinality(Price)) = {k \in DOMAIN ls : ls[k].size # 0}
  BY <1>1 DEF Taken
<1> QED BY <1>2 DEF OverlayWithin, Overlay, Quoted

-----------------------------------------------------------------------------
(* The definitions BookSide takes from BookLevels are those used here.     *)
LEMMA BasicSameCardinality == \A S : Book!Cardinality(S) = Cardinality(S)
BY DEF Book!Cardinality, Cardinality

LEMMA BasicSameWithLevel == \A b, p, s : Book!WithLevel(b, p, s) = WithLevel(b, p, s)
BY DEF Book!WithLevel, WithLevel

LEMMA BasicSameWithin ==
    \A b, ls, room : Book!OverlayWithin(b, ls, room) = OverlayWithin(b, ls, room)
<1>1. \A ls, k : Book!QuotedBefore(ls, k) = QuotedBefore(ls, k)
  BY DEF Book!QuotedBefore, QuotedBefore
<1>2. \A ls, room : Book!Taken(ls, room) = Taken(ls, room)
  BY <1>1, BasicSameCardinality DEF Book!Taken, Taken
<1>3. \A ls, p : Book!SizeAt(ls, p) = SizeAt(ls, p)
  BY DEF Book!SizeAt, SizeAt
<1> QED BY <1>2, <1>3 DEF Book!OverlayWithin, OverlayWithin

-----------------------------------------------------------------------------
(***************************************************************************)
(* The operations, each with what it keeps and what it does.               *)
(***************************************************************************)
LEMMA FromLevelsStep ==
    ASSUME NEW ls \in Snapshots, DistinctSnapshots, levels' = Sorted(ls)
    PROVE  Inv' /\ Overlay(<<>>, levels)' = Overlay(<<>>, ls)
<1>1. ls \in Seq(Level) /\ DistinctPrices(ls)
  BY BookLevelsAssumption DEF DistinctSnapshots
<1>2. Sorted(ls) \in Seq(Level) /\ IsRanked(Sorted(ls))
  BY <1>1, SortedFacts
<1>3. Overlay(<<>>, Sorted(ls)) = Overlay(<<>>, ls)
  BY <1>1, SortedOverlay
<1> QED BY <1>2, <1>3 DEF Inv

LEMMA WithdrawStep ==
    ASSUME Inv, NEW p \in Price, Withdraw(p)
    PROVE  Inv' /\ Overlay(<<>>, levels)' = WithLevel(Overlay(<<>>, levels), p, 0)
<1>1. levels \in Seq(Level) /\ IsRanked(levels) /\ levels' = Retained(levels, p)
  BY DEF Inv, Withdraw
<1>2. Retained(levels, p) \in Seq(Level) /\ IsRanked(Retained(levels, p))
  BY <1>1, RetainedFacts
<1>3. Overlay(<<>>, Retained(levels, p)) = WithLevel(Overlay(<<>>, levels), p, 0)
  BY <1>1, RetainedOverlay
<1> QED BY <1>1, <1>2, <1>3 DEF Inv

LEMMA SetStep ==
    ASSUME Inv, NEW p \in Price, NEW s \in Size, s # 0, Has(p), Set(p, s)
    PROVE  Inv' /\ Overlay(<<>>, levels)' = WithLevel(Overlay(<<>>, levels), p, s)
<1> DEFINE k == CHOOSE i \in DOMAIN levels :
                  levels[i].price = p /\ \A j \in 1 .. i - 1 : levels[j].price # p
           ms == [levels EXCEPT ![k].size = s]
<1>1. levels \in Seq(Level) /\ DistinctPrices(levels) /\ levels' = Sorted(ms)
  BY RankedIsDistinct DEF Inv, Set
<1>2. k \in DOMAIN levels /\ levels[k].price = p
  <2>1. PICK i \in DOMAIN levels : levels[i].price = p
    BY DEF Has
  <2>2. DOMAIN levels = 1 .. Len(levels) /\ Len(levels) \in Nat
    BY <1>1, LevelAt
  <2>3. ASSUME NEW j \in 1 .. i - 1 PROVE levels[j].price # p
    <3>1. j \in DOMAIN levels /\ j # i
      BY <2>2
    <3> QED BY <1>1, <2>1, <3>1 DEF DistinctPrices
  <2> QED BY <2>1, <2>3
<1> HIDE DEF k
<1>3. /\ ms \in Seq(Level) /\ DistinctPrices(ms)
      /\ Overlay(<<>>, ms) = WithLevel(Overlay(<<>>, levels), p, s)
  BY <1>1, <1>2, SetFacts
<1> HIDE DEF ms
<1>4. Sorted(ms) \in Seq(Level) /\ IsRanked(Sorted(ms))
  BY <1>3, SortedFacts
<1>5. Overlay(<<>>, Sorted(ms)) = Overlay(<<>>, ms)
  BY <1>3, SortedOverlay
<1> QED BY <1>1, <1>3, <1>4, <1>5 DEF Inv

LEMMA EnteredStep ==
    ASSUME Inv, NEW p \in Price, NEW s \in Size, s # 0, ~Has(p),
           levels' = Entered(p, s)
    PROVE  Inv' /\ Overlay(<<>>, levels)' = WithLevel(Overlay(<<>>, levels), p, s)
<1> DEFINE ms == Append(levels, [price |-> p, size |-> s])
<1>1. levels \in Seq(Level) /\ DistinctPrices(levels) /\ levels' = Sorted(ms)
  BY RankedIsDistinct DEF Inv, Entered
<1>2. \A k \in DOMAIN levels : levels[k].price # p
  BY DEF Has
<1>3. /\ ms \in Seq(Level) /\ DistinctPrices(ms)
      /\ Overlay(<<>>, ms) = WithLevel(Overlay(<<>>, levels), p, s)
  BY <1>1, <1>2, AppendedFacts
<1> HIDE DEF ms
<1>4. Sorted(ms) \in Seq(Level) /\ IsRanked(Sorted(ms))
  BY <1>3, SortedFacts
<1>5. Overlay(<<>>, Sorted(ms)) = Overlay(<<>>, ms)
  BY <1>3, SortedOverlay
<1> QED BY <1>1, <1>3, <1>4, <1>5 DEF Inv

-----------------------------------------------------------------------------
(***************************************************************************)
(* The levels are sequences of levels, best first, no price twice.         *)
(***************************************************************************)
THEOREM BasicInvHolds == ASSUME DistinctSnapshots PROVE BasicSpec => []Inv
<1>1. BasicInit => Inv
  BY DEF BasicInit, Inv, IsRanked
<1>2. Inv /\ [BasicNext]_levels => Inv'
  <2> SUFFICES ASSUME Inv, [BasicNext]_levels PROVE Inv'
    OBVIOUS
  <2>1. CASE FromLevels
    BY <2>1, FromLevelsStep DEF FromLevels
  <2>2. CASE BasicApplyLevel
    BY <2>2, WithdrawStep, SetStep, EnteredStep DEF BasicApplyLevel
  <2>3. CASE UNCHANGED levels
    BY <2>3 DEF Inv
  <2> QED BY <2>1, <2>2, <2>3 DEF BasicNext
<1> QED BY <1>1, <1>2, PTL DEF BasicSpec

(***************************************************************************)
(* After any mix of snapshots and changes a price has at most one level    *)
(* and the best comes first: sort_by after each operation, and retain,     *)
(* which needs none.                                                       *)
(***************************************************************************)
THEOREM RankedByPriceHolds == ASSUME DistinctSnapshots PROVE BasicSpec => []RankedByPrice
<1>1. Inv => RankedByPrice
  BY DEF Inv, IsRanked, RankedByPrice
<1> QED BY <1>1, BasicInvHolds, PTL

(***************************************************************************)
(* Levels of size zero aside, from_levels and apply_level do to the levels *)
(* what BookSide says, on a side with room for every price: prices are     *)
(* Decimals, of which there are finitely many.                             *)
(***************************************************************************)
THEOREM BasicImplementsBookSideHolds ==
    ASSUME DistinctSnapshots, IsFiniteSet(Price)
    PROVE  BasicSpec => BasicImplementsBookSide
<1> DEFINE b == Overlay(<<>>, levels)
<1>1. BasicInit => Book!Init
  BY DEF BasicInit, Book!Init, Overlay, Quoted
<1>2. Inv /\ [BasicNext]_levels => [Book!Next]_b
  <2> SUFFICES ASSUME Inv, [BasicNext]_levels PROVE [Book!Next]_b
    OBVIOUS
  <2>1. CASE FromLevels
    <3>1. PICK ls \in Snapshots : levels' = Sorted(ls)
      BY <2>1 DEF FromLevels
    <3>2. b' = Overlay(<<>>, ls)
      BY <3>1, FromLevelsStep
    <3>3. ls \in Seq(Level) /\ DistinctPrices(ls)
      BY BookLevelsAssumption DEF DistinctSnapshots
    <3>4. b' = OverlayWithin(<<>>, ls, Cardinality(Price))
      BY <3>2, <3>3, AllTaken
    <3>5. Book!ApplySnapshot
      BY <3>4, BasicSameWithin DEF Book!ApplySnapshot
    <3> QED BY <3>5 DEF Book!Next
  <2>2. CASE BasicApplyLevel
    <3>1. PICK p \in Price, s \in Size :
             /\ b' = WithLevel(b, p, s)
             /\ \/ s = 0
                \/ p \in DOMAIN b
                \/ p \notin DOMAIN b /\ Cardinality(DOMAIN b) < Cardinality(Price)
      <4>1. PICK p \in Price, s \in Size : \/ s = 0 /\ Withdraw(p)
                                           \/ s # 0 /\ Has(p) /\ Set(p, s)
                                           \/ s # 0 /\ ~Has(p) /\ levels' = Entered(p, s)
        BY <2>2 DEF BasicApplyLevel
      <4>2. b' = WithLevel(b, p, s)
        BY <4>1, WithdrawStep, SetStep, EnteredStep
      <4>3. p \notin DOMAIN b => Cardinality(DOMAIN b) < Cardinality(Price)
        <5>1. DOMAIN b \subseteq Price
          BY LevelAt DEF Inv, Overlay, Quoted
        <5> HIDE DEF b
        <5>2. /\ IsFiniteSet(Price \ {p})
              /\ Cardinality(Price \ {p}) = Cardinality(Price) - 1
          BY FS_RemoveElement
        <5>3. p \notin DOMAIN b => /\ IsFiniteSet(DOMAIN b)
                                   /\ Cardinality(DOMAIN b) <= Cardinality(Price \ {p})
          BY <5>1, <5>2, FS_Subset
        <5>4. /\ Cardinality(Price) \in Nat
              /\ IsFiniteSet(DOMAIN b) => Cardinality(DOMAIN b) \in Nat
          BY FS_CardinalityType
        <5> QED BY <5>2, <5>3, <5>4
      <4> HIDE DEF b
      <4> QED BY <4>2, <4>3
    <3> HIDE DEF b
    <3>2. Book!ApplyPriceChange
      BY <3>1, BasicSameWithLevel, BasicSameCardinality DEF Book!ApplyPriceChange, Book!HasRoom, b
    <3> QED BY <3>2 DEF Book!Next
  <2>3. CASE UNCHANGED levels
    BY <2>3
  <2> QED BY <2>1, <2>2, <2>3 DEF BasicNext
<1>3. BasicSpec => []Inv
  BY BasicInvHolds
<1> QED BY <1>1, <1>2, <1>3, PTL DEF BasicSpec, BasicImplementsBookSide, Book!Spec
=============================================================================
