-------------------------- MODULE BookLevelsProofs --------------------------
(***************************************************************************)
(* Lemmas about books as functions from price to size: which position a    *)
(* price has when they are ranked, and what a message's levels, or the     *)
(* first of them, make of a book.                                          *)
(***************************************************************************)
EXTENDS LevelLists, FiniteSetTheorems, SequenceTheorems, WellFoundedInduction, TLAPS

(***************************************************************************)
(* Counting: what takes the place of induction.                            *)
(***************************************************************************)
(* A set of natural numbers has a least one.                               *)
LEMMA LeastNat ==
    ASSUME NEW T \in SUBSET Nat, T # {}
    PROVE  \E x \in T : \A y \in T : x <= y
<1>1. PICK R : /\ IsWellFoundedOn(R, Nat)
               /\ R = {p \in Nat \X Nat : p[1] < p[2]}
  <2>1. OpToRel(<, Nat) = {p \in Nat \X Nat : p[1] < p[2]}
    BY Zenon DEF OpToRel
  <2> QED BY <2>1, NatLessThanWellFounded, Zenon
<1>2. \A x, y \in Nat : <<x, y>> \in R <=> x < y
  BY <1>1
<1>3. PICK x \in T : \A y \in T : <<y, x>> \notin R
  BY <1>1, WFMin, Zenon
<1>4. \A y \in T : x \in Nat /\ y \in Nat /\ ~(y < x)
  BY <1>2, <1>3
<1>5. \A y \in T : x <= y
  BY <1>4
<1> QED BY <1>5

(* A set of numbers up to n that has 0, and with each its successor, has   *)
(* them all.                                                               *)
LEMMA UpTo ==
    ASSUME NEW n \in Nat, NEW T \in SUBSET (0 .. n), 0 \in T,
           \A k \in 0 .. n : k \in T /\ k # n => k + 1 \in T
    PROVE  T = 0 .. n
<1> SUFFICES ASSUME (0 .. n) \ T # {} PROVE FALSE
  OBVIOUS
<1>1. PICK m \in (0 .. n) \ T : \A k \in (0 .. n) \ T : m <= k
  <2>1. (0 .. n) \ T \in SUBSET Nat
    OBVIOUS
  <2> QED BY <2>1, LeastNat
<1>2. m # 0 /\ m - 1 \in 0 .. n /\ m - 1 # n
  BY <1>1
<1>3. m - 1 \in T
  BY <1>1, <1>2
<1>4. (m - 1) + 1 \in T
  BY <1>2, <1>3
<1> QED BY <1>1, <1>4

(***************************************************************************)
(* Positions in a finite set of prices, as BookLevels!Ranked orders them:  *)
(* each position is taken by one price, and what happens below a position  *)
(* does not move the prices above it.                                      *)
(***************************************************************************)

(* ComesBefore, with the side as an argument.                              *)
Precedes(isBid, p, q) == IF isBid THEN p > q ELSE p < q

Ahead(isBid, S, q) == {x \in S : Precedes(isBid, x, q)}

(* The price that Ranked puts in position r.                               *)
At(isBid, S, r) == CHOOSE q \in S : Cardinality(Ahead(isBid, S, q)) = r - 1

-----------------------------------------------------------------------------
(* How many prices are ahead of one: fewer than there are.                 *)
LEMMA AheadFacts ==
    ASSUME NEW isBid \in BOOLEAN, NEW S \in SUBSET Int, IsFiniteSet(S), NEW q \in S
    PROVE  /\ Cardinality(S) \in Nat
           /\ IsFiniteSet(Ahead(isBid, S, q))
           /\ Cardinality(Ahead(isBid, S, q)) \in 0 .. Cardinality(S) - 1
<1>1. Cardinality(S) \in Nat
  BY FS_CardinalityType
<1>2. IsFiniteSet(S \ {q}) /\ Cardinality(S \ {q}) = Cardinality(S) - 1
  BY FS_RemoveElement
<1>3. Ahead(isBid, S, q) \in SUBSET (S \ {q})
  BY DEF Ahead, Precedes
<1>4. /\ IsFiniteSet(Ahead(isBid, S, q))
      /\ Cardinality(Ahead(isBid, S, q)) <= Cardinality(S \ {q})
  BY <1>2, <1>3, FS_Subset
<1>5. Cardinality(Ahead(isBid, S, q)) \in Nat
  BY <1>4, FS_CardinalityType
<1> QED BY <1>1, <1>2, <1>4, <1>5

(* A better price has fewer ahead of it.                                   *)
LEMMA AheadGrows ==
    ASSUME NEW isBid \in BOOLEAN, NEW S \in SUBSET Int, IsFiniteSet(S),
           NEW p \in S, NEW q \in S, Precedes(isBid, p, q)
    PROVE  Cardinality(Ahead(isBid, S, p)) < Cardinality(Ahead(isBid, S, q))
<1>1. /\ IsFiniteSet(Ahead(isBid, S, p)) /\ Cardinality(Ahead(isBid, S, p)) \in Nat
      /\ IsFiniteSet(Ahead(isBid, S, q)) /\ Cardinality(Ahead(isBid, S, q)) \in Nat
  BY AheadFacts
<1>2. Ahead(isBid, S, p) \in SUBSET Ahead(isBid, S, q)
  <2>1. p \in Int /\ q \in Int /\ S \subseteq Int
    OBVIOUS
  <2>2. ASSUME NEW x \in S, Precedes(isBid, x, p) PROVE Precedes(isBid, x, q)
    <3>1. x \in Int
      OBVIOUS
    <3> QED BY <2>1, <2>2, <3>1 DEF Precedes
  <2> QED BY <2>2 DEF Ahead
<1>3. p \in Ahead(isBid, S, q) /\ p \notin Ahead(isBid, S, p)
  BY DEF Ahead, Precedes
<1>4. /\ Cardinality(Ahead(isBid, S, p)) <= Cardinality(Ahead(isBid, S, q))
      /\ Cardinality(Ahead(isBid, S, q)) # Cardinality(Ahead(isBid, S, p))
  BY <1>1, <1>2, <1>3, FS_Subset
<1> QED BY <1>1, <1>4

(* So no two prices have as many ahead of them.                            *)
LEMMA AheadDistinct ==
    ASSUME NEW isBid \in BOOLEAN, NEW S \in SUBSET Int, IsFiniteSet(S),
           NEW p \in S, NEW q \in S,
           Cardinality(Ahead(isBid, S, p)) = Cardinality(Ahead(isBid, S, q))
    PROVE  p = q
<1>1. /\ Cardinality(Ahead(isBid, S, p)) \in Nat
      /\ Cardinality(Ahead(isBid, S, q)) \in Nat
  BY AheadFacts
<1>2. p = q \/ Precedes(isBid, p, q) \/ Precedes(isBid, q, p)
  BY DEF Precedes
<1> QED BY <1>1, <1>2, AheadGrows

(* A price is found in the position after those ahead of it.               *)
LEMMA FoundAt ==
    ASSUME NEW isBid \in BOOLEAN, NEW S \in SUBSET Int, IsFiniteSet(S), NEW q \in S
    PROVE  At(isBid, S, Cardinality(Ahead(isBid, S, q)) + 1) = q
<1> DEFINE n == Cardinality(Ahead(isBid, S, q))
<1>1. n \in Nat
  BY AheadFacts
<1>2. (n + 1) - 1 = n
  BY <1>1
<1>3. \A p \in S : Cardinality(Ahead(isBid, S, p)) = n => p = q
  BY AheadDistinct
<1> QED BY <1>2, <1>3 DEF At

(* Every position is taken: as many prices, each in a position of its own. *)
LEMMA EveryPosition ==
    ASSUME NEW isBid \in BOOLEAN, NEW S \in SUBSET Int, IsFiniteSet(S),
           NEW r \in 1 .. Cardinality(S)
    PROVE  /\ At(isBid, S, r) \in S
           /\ Cardinality(Ahead(isBid, S, At(isBid, S, r))) = r - 1
<1> DEFINE n == Cardinality(S)
           f == [q \in S |-> Cardinality(Ahead(isBid, S, q))]
<1>1. n \in Nat
  BY FS_CardinalityType
<1>2. IsFiniteSet(0 .. n - 1) /\ Cardinality(0 .. n - 1) = n
  <2>1. 0 \in Int /\ n - 1 \in Int
    BY <1>1
  <2> HIDE DEF n
  <2>2. /\ IsFiniteSet(0 .. n - 1)
        /\ Cardinality(0 .. n - 1) = IF 0 > n - 1 THEN 0 ELSE (n - 1) - 0 + 1
    BY <2>1, FS_Interval
  <2> QED BY <1>1, <2>2
<1>3. f \in [S -> 0 .. n - 1]
  BY AheadFacts
<1>4. \A p, q \in S : f[p] = f[q] => p = q
  BY AheadDistinct
<1>5. f \in Injection(S, 0 .. n - 1)
  BY <1>3, <1>4 DEF Injection, IsInjective
<1> HIDE DEF f
<1>6. f \in Surjection(S, 0 .. n - 1)
  BY <1>2, <1>5, FS_Injection
<1>7. PICK q \in S : f[q] = r - 1
  BY <1>1, <1>6 DEF Surjection
<1>8. Cardinality(Ahead(isBid, S, q)) = r - 1
  BY <1>7 DEF f
<1> QED BY <1>8 DEF At

(* A price is behind position r: in a later one.  All are behind position 0. *)
Behind(isBid, S, r, q) == r > 0 => Precedes(isBid, At(isBid, S, r), q)

(***************************************************************************)
(* The best of the prices behind a position is in the next position; where *)
(* none is behind, there is no next position.                              *)
(***************************************************************************)
LEMMA NextPosition ==
    ASSUME NEW isBid \in BOOLEAN, NEW S \in SUBSET Int, IsFiniteSet(S),
           NEW r \in 0 .. Cardinality(S)
    PROVE  /\ (\A q \in S : ~Behind(isBid, S, r, q)) => r + 1 \notin 1 .. Cardinality(S)
           /\ \A p \in S :
                 /\ Behind(isBid, S, r, p)
                 /\ \A q \in S : Behind(isBid, S, r, q) => q = p \/ Precedes(isBid, p, q)
                 => r + 1 \in 1 .. Cardinality(S) /\ At(isBid, S, r + 1) = p
<1> DEFINE n == Cardinality(S)
           num == [q \in S |-> Cardinality(Ahead(isBid, S, q))]
           next == At(isBid, S, r + 1)
<1>1. n \in Nat /\ \A q \in S : num[q] \in Nat /\ num[q] < n
  BY FS_CardinalityType, AheadFacts
<1>2. r > 0 => At(isBid, S, r) \in S /\ num[At(isBid, S, r)] = r - 1
  BY <1>1, EveryPosition
<1>3. \A p, q \in S : /\ Precedes(isBid, p, q) => num[p] < num[q]
                      /\ p = q \/ Precedes(isBid, p, q) \/ Precedes(isBid, q, p)
  BY AheadGrows DEF Precedes
<1>4. r + 1 \in 1 .. n => next \in S /\ num[next] = (r + 1) - 1
  BY EveryPosition
<1> HIDE DEF n, num, next
<1>5. r \in 0 .. n /\ r \in Int /\ n \in Int
  BY <1>1 DEF n
<1>6. \A q \in S : Behind(isBid, S, r, q) <=> num[q] >= r
  <2> SUFFICES ASSUME NEW q \in S PROVE Behind(isBid, S, r, q) <=> num[q] >= r
    OBVIOUS
  <2>1. CASE r = 0
    BY <1>1, <2>1 DEF Behind
  <2>2. CASE r > 0
    <3>1. PICK a : a = At(isBid, S, r)
      OBVIOUS
    <3>2. a \in S /\ num[a] = r - 1 /\ (Behind(isBid, S, r, q) <=> Precedes(isBid, a, q))
      BY <1>2, <2>2, <3>1 DEF Behind
    <3>3. num[a] \in Int /\ num[q] \in Int /\ r \in Int
      BY <1>1, <1>5, <3>2
    <3>4. Precedes(isBid, a, q) => num[a] < num[q]
      BY <1>3, <3>2
    <3>5. ~Precedes(isBid, a, q) => num[q] = num[a] \/ num[q] < num[a]
      BY <1>3, <3>2
    <3> QED BY <3>2, <3>3, <3>4, <3>5
  <2> QED BY <1>5, <2>1, <2>2
<1>7. ASSUME \A q \in S : ~Behind(isBid, S, r, q) PROVE r + 1 \notin 1 .. n
  <2>1. ASSUME r + 1 \in 1 .. n PROVE FALSE
    <3>1. next \in S /\ num[next] = r
      BY <1>4, <1>5, <2>1
    <3> QED BY <1>5, <1>6, <1>7, <3>1
  <2> QED BY <2>1
<1>8. ASSUME NEW p \in S, Behind(isBid, S, r, p),
             \A q \in S : Behind(isBid, S, r, q) => q = p \/ Precedes(isBid, p, q)
      PROVE  r + 1 \in 1 .. n /\ next = p
  <2>1. num[p] >= r /\ r + 1 \in 1 .. n
    BY <1>1, <1>5, <1>6, <1>8
  <2>2. next \in S /\ num[next] = r
    BY <1>4, <1>5, <2>1
  <2>3. next = p \/ Precedes(isBid, p, next)
    BY <1>5, <1>6, <1>8, <2>2
  <2>4. Precedes(isBid, p, next) => num[p] < num[next]
    BY <1>3, <2>2
  <2>5. num[p] \in Int /\ r \in Int
    BY <1>1, <1>5
  <2> QED BY <2>1, <2>2, <2>3, <2>4, <2>5
<1> QED BY <1>7, <1>8 DEF n, next

(***************************************************************************)
(* Taking a price out of a set leaves the positions ahead of it as they    *)
(* are.                                                                    *)
(***************************************************************************)
LEMMA PositionsAheadKept ==
    ASSUME NEW isBid \in BOOLEAN, NEW S \in SUBSET Int, IsFiniteSet(S), NEW p \in S,
           NEW r \in Nat \ {0}, r <= Cardinality(Ahead(isBid, S, p))
    PROVE  /\ r <= Cardinality(S) /\ r <= Cardinality(S \ {p})
           /\ At(isBid, S, r) \in S \ {p}
           /\ At(isBid, S \ {p}, r) = At(isBid, S, r)
<1> DEFINE T == S \ {p}
           q == At(isBid, S, r)
<1>1. /\ Cardinality(S) \in Nat
      /\ Cardinality(Ahead(isBid, S, p)) \in 0 .. Cardinality(S) - 1
  BY AheadFacts
<1>2. IsFiniteSet(T) /\ Cardinality(T) = Cardinality(S) - 1
  BY FS_RemoveElement
<1>3. r \in 1 .. Cardinality(S) /\ r <= Cardinality(T)
  BY <1>1, <1>2
<1>4. q \in S /\ Cardinality(Ahead(isBid, S, q)) = r - 1
  BY <1>3, EveryPosition
<1>5. q # p /\ ~Precedes(isBid, p, q)
  <2>1. q # p
    BY <1>1, <1>4
  <2>2. ASSUME Precedes(isBid, p, q) PROVE FALSE
    <3>1. Cardinality(Ahead(isBid, S, p)) < Cardinality(Ahead(isBid, S, q))
      BY <1>4, <2>2, AheadGrows
    <3> QED BY <1>1, <1>4, <3>1
  <2> QED BY <2>1, <2>2
<1>6. Ahead(isBid, T, q) = Ahead(isBid, S, q)
  BY <1>5 DEF Ahead
<1>7. q \in T
  BY <1>4, <1>5
<1> HIDE DEF q
<1>8. At(isBid, T, Cardinality(Ahead(isBid, T, q)) + 1) = q
  <2>1. T \in SUBSET Int
    OBVIOUS
  <2> HIDE DEF T
  <2> QED BY <1>2, <1>7, <2>1, FoundAt
<1>9. Cardinality(Ahead(isBid, T, q)) + 1 = r
  BY <1>4, <1>6
<1> QED BY <1>3, <1>7, <1>8, <1>9 DEF q

(***************************************************************************)
(* Two sets that differ in one price at most have the same first positions,*)
(* as many as are ahead of that price wherever it is.                      *)
(***************************************************************************)
LEMMA FirstPositionsKept ==
    ASSUME NEW isBid \in BOOLEAN, NEW S \in SUBSET Int, NEW T \in SUBSET Int,
           IsFiniteSet(S), IsFiniteSet(T), NEW p, S \ {p} = T \ {p}, NEW d \in Nat,
           p \in S => d <= Cardinality(Ahead(isBid, S, p)),
           p \in T => d <= Cardinality(Ahead(isBid, T, p)),
           NEW r \in 1 .. d
    PROVE  /\ r <= Cardinality(S) <=> r <= Cardinality(T)
           /\ r <= Cardinality(S) => /\ At(isBid, S, r) = At(isBid, T, r)
                                     /\ At(isBid, S, r) \in S \ {p}
<1>1. CASE p \in S /\ p \in T
  <2>1. S = T
    BY <1>1
  <2>2. r <= Cardinality(Ahead(isBid, S, p))
    BY <1>1, AheadFacts
  <2>3. r \in Nat \ {0} /\ p \in S
    BY <1>1
  <2>4. At(isBid, S, r) \in S \ {p}
    BY <2>2, <2>3, PositionsAheadKept
  <2> QED BY <2>1, <2>4
<1>2. CASE p \in S /\ p \notin T
  <2>1. T = S \ {p}
    BY <1>2
  <2>2. r <= Cardinality(Ahead(isBid, S, p))
    BY <1>2, AheadFacts
  <2> QED BY <1>2, <2>1, <2>2, PositionsAheadKept
<1>3. CASE p \notin S /\ p \in T
  <2>1. S = T \ {p}
    BY <1>3
  <2>2. r <= Cardinality(Ahead(isBid, T, p))
    BY <1>3, AheadFacts
  <2> QED BY <1>3, <2>1, <2>2, PositionsAheadKept
<1>4. CASE p \notin S /\ p \notin T
  <2>1. S = T /\ S \ {p} = S
    BY <1>4
  <2>2. Cardinality(S) \in Nat
    BY FS_CardinalityType
  <2>3. ASSUME r <= Cardinality(S) PROVE At(isBid, S, r) \in S
    BY <2>2, <2>3, EveryPosition
  <2> QED BY <2>1, <2>3
<1> QED BY <1>1, <1>2, <1>3, <1>4

(* The positions of a set of numbers, counted from below, are in its order. *)
LEMMA PositionsInOrder ==
    ASSUME NEW K \in SUBSET Int, IsFiniteSet(K)
    PROVE  LET at(r) == CHOOSE k \in K : Cardinality({j \in K : j < k}) = r - 1
           IN  /\ \A r \in 1 .. Cardinality(K) : at(r) \in K
               /\ \A q, r \in 1 .. Cardinality(K) : q < r => at(q) < at(r)
               /\ \A k \in K : \E r \in 1 .. Cardinality(K) : at(r) = k
<1> DEFINE at(r) == CHOOSE k \in K : Cardinality({j \in K : j < k}) = r - 1
           num(k) == Cardinality(Ahead(FALSE, K, k))
           n == Cardinality(K)
<1>1. \A r : at(r) = At(FALSE, K, r)
  BY DEF Ahead, Precedes, At
<1>2. n \in Nat
  BY FS_CardinalityType
<1>3. ASSUME NEW r \in 1 .. n PROVE at(r) \in K /\ num(at(r)) = r - 1
  BY <1>1, EveryPosition
<1>4. ASSUME NEW k \in K PROVE num(k) \in 0 .. n - 1 /\ at(num(k) + 1) = k
  <2>1. FALSE \in BOOLEAN
    OBVIOUS
  <2>2. Cardinality(Ahead(FALSE, K, k)) \in 0 .. Cardinality(K) - 1
    BY <2>1, AheadFacts
  <2>3. At(FALSE, K, Cardinality(Ahead(FALSE, K, k)) + 1) = k
    BY <2>1, FoundAt
  <2> QED BY <1>1, <2>2, <2>3
<1>5. ASSUME NEW j \in K, NEW k \in K, j < k PROVE num(j) < num(k)
  BY <1>5, AheadGrows DEF Precedes
<1> HIDE DEF at, num, n
<1>6. ASSUME NEW q \in 1 .. n, NEW r \in 1 .. n, q < r PROVE at(q) < at(r)
  <2>1. /\ at(q) \in K /\ num(at(q)) = q - 1
        /\ at(r) \in K /\ num(at(r)) = r - 1
    BY <1>3
  <2>2. /\ q \in Int /\ r \in Int
        /\ \A k \in K : k \in Int
    BY <1>2
  <2>3. ~(at(r) < at(q))
    <3>1. ~(num(at(r)) < num(at(q)))
      BY <1>6, <2>1, <2>2
    <3> QED BY <1>5, <2>1, <3>1
  <2>4. at(r) # at(q)
    BY <1>6, <2>1, <2>2
  <2>5. at(q) \in Int /\ at(r) \in Int
    BY <2>1, <2>2
  <2> QED BY <2>3, <2>4, <2>5
<1>7. ASSUME NEW k \in K PROVE \E r \in 1 .. n : at(r) = k
  <2>1. num(k) + 1 \in 1 .. n
    BY <1>2, <1>4
  <2> QED BY <1>4, <2>1
<1> QED BY <1>3, <1>6, <1>7 DEF at, n

-----------------------------------------------------------------------------
(***************************************************************************)
(* What the levels of a sequence lay over an empty book depends on the     *)
(* levels in it, not on their order.                                       *)
(***************************************************************************)
LEMMA OverlayOf ==
    ASSUME NEW ls, DistinctPrices(ls)
    PROVE  /\ DOMAIN Overlay(<<>>, ls) = Quoted(ls)
           /\ \A k \in DOMAIN ls : ls[k].size # 0 =>
                 ls[k].price \in Quoted(ls) /\ Overlay(<<>>, ls)[ls[k].price] = ls[k].size
           /\ Overlay(<<>>, ls) = [q \in Quoted(ls) |-> Overlay(<<>>, ls)[q]]
<1>1. DOMAIN <<>> = {}
  OBVIOUS
<1>2. Overlay(<<>>, ls) = [q \in Quoted(ls) |-> SizeAt(ls, q)]
  BY <1>1 DEF Overlay
<1>3. ASSUME NEW k \in DOMAIN ls, ls[k].size # 0
      PROVE  ls[k].price \in Quoted(ls) /\ SizeAt(ls, ls[k].price) = ls[k].size
  <2>1. (CHOOSE j \in DOMAIN ls : ls[j].price = ls[k].price) = k
    BY DEF DistinctPrices
  <2> QED BY <1>3, <2>1 DEF Quoted, SizeAt
<1> QED BY <1>2, <1>3

(* A book: a function whose value at a level's price is its size.          *)
LEMMA OverlayIs ==
    ASSUME NEW ls, DistinctPrices(ls), NEW b, b = [q \in DOMAIN b |-> b[q]],
           \A k \in DOMAIN ls : ls[k].size # 0 =>
               ls[k].price \in DOMAIN b /\ b[ls[k].price] = ls[k].size,
           \A q \in DOMAIN b : \E k \in DOMAIN ls : ls[k].size # 0 /\ ls[k].price = q
    PROVE  Overlay(<<>>, ls) = b
<1>1. Quoted(ls) = DOMAIN b
  BY DEF Quoted
<1>2. ASSUME NEW q \in DOMAIN b PROVE Overlay(<<>>, ls)[q] = b[q]
  <2>1. PICK k \in DOMAIN ls : ls[k].size # 0 /\ ls[k].price = q
    OBVIOUS
  <2> QED BY <2>1, OverlayOf
<1> QED BY <1>1, <1>2, OverlayOf

-----------------------------------------------------------------------------
(***************************************************************************)
(* What the first of some levels lay over a book, level by level: the head *)
(* of the sequence goes in first, if it has a size and there is room.      *)
(***************************************************************************)
LEMMA TailAt ==
    ASSUME NEW S, NEW ls \in Seq(S), ls # <<>>
    PROVE  /\ DOMAIN ls = 1 .. Len(ls) /\ Len(ls) \in Nat \ {0}
           /\ DOMAIN Tail(ls) = 1 .. Len(ls) - 1
           /\ ls[1] = Head(ls) /\ 1 \in DOMAIN ls
           /\ \A k \in DOMAIN Tail(ls) : k + 1 \in DOMAIN ls /\ Tail(ls)[k] = ls[k + 1]
           /\ \A k \in DOMAIN ls : k # 1 => k - 1 \in DOMAIN Tail(ls)
<1>1. /\ Len(ls) \in Nat /\ DOMAIN ls = 1 .. Len(ls)
      /\ Tail(ls) \in Seq(S) /\ Len(Tail(ls)) = Len(ls) - 1
      /\ \A k \in 1 .. Len(Tail(ls)) : Tail(ls)[k] = ls[k + 1]
  BY LenProperties, HeadTailProperties
<1>2. Len(ls) # 0 /\ ls[1] = Head(ls)
  BY EmptySeq, HeadTailProperties
<1>3. DOMAIN Tail(ls) = 1 .. Len(Tail(ls))
  BY <1>1, LenProperties
<1> QED BY <1>1, <1>2, <1>3

LEMMA QuotedBeforeTail ==
    ASSUME NEW S, NEW ls \in Seq(S), ls # <<>>, NEW k \in DOMAIN Tail(ls)
    PROVE  /\ Cardinality(QuotedBefore(Tail(ls), k)) \in Nat
           /\ Cardinality(QuotedBefore(ls, k + 1))
              = Cardinality(QuotedBefore(Tail(ls), k)) + IF Head(ls).size # 0 THEN 1 ELSE 0
<1> DEFINE Q == QuotedBefore(ls, k + 1)
           T == QuotedBefore(Tail(ls), k)
           U == {j \in 2 .. k : ls[j].size # 0}
           f == [j \in T |-> j + 1]
<1>1. /\ k \in Nat \ {0} /\ ls[1] = Head(ls)
      /\ \A j \in 1 .. k - 1 : Tail(ls)[j] = ls[j + 1]
  <2>1. k \in 1 .. Len(ls) - 1 /\ Len(ls) \in Nat
    BY TailAt
  <2>2. \A j \in 1 .. k - 1 : j \in DOMAIN Tail(ls)
    BY <2>1, TailAt
  <2> QED BY <2>1, <2>2, TailAt
<1>2. Q = U \cup IF Head(ls).size # 0 THEN {1} ELSE {}
  BY <1>1 DEF QuotedBefore
<1>3. \A j \in T : j \in 1 .. k - 1 /\ ls[j + 1].size # 0
  BY <1>1 DEF QuotedBefore
<1>4. \A i \in U : i - 1 \in T /\ i = (i - 1) + 1 /\ i \in Int
  <2> SUFFICES ASSUME NEW i \in U PROVE i - 1 \in T /\ i = (i - 1) + 1 /\ i \in Int
    OBVIOUS
  <2>1. i \in 2 .. k /\ ls[i].size # 0
    OBVIOUS
  <2>2. i - 1 \in 1 .. k - 1 /\ (i - 1) + 1 = i /\ i \in Int
    BY <1>1, <2>1
  <2> QED BY <1>1, <2>1, <2>2 DEF QuotedBefore
<1>5. \A j \in T : j + 1 \in U /\ j \in Int
  BY <1>1, <1>3
<1>6. 1 \notin U
  OBVIOUS
<1> HIDE DEF T, U, Q
<1>7. f \in Bijection(T, U)
  <2>1. f \in [T -> U]
    BY <1>5
  <2>2. \A i, j \in T : f[i] = f[j] => i = j
    BY <1>5
  <2>3. \A i \in U : \E j \in T : f[j] = i
    BY <1>4
  <2> QED BY <2>1, <2>2, <2>3 DEF Bijection, Injection, Surjection, IsInjective
<1>8. IsFiniteSet(T)
  <2>1. IsFiniteSet(1 .. k - 1)
    BY <1>1, FS_Interval
  <2>2. T \subseteq 1 .. k - 1
    BY <1>3
  <2> QED BY <2>1, <2>2, FS_Subset
<1> HIDE DEF f
<1>9. IsFiniteSet(U) /\ Cardinality(U) = Cardinality(T) /\ Cardinality(T) \in Nat
  <2>1. ExistsBijection(T, U)
    BY <1>7 DEF ExistsBijection
  <2> QED BY <1>8, <2>1, FS_Bijection, FS_CardinalityType
<1>10. Cardinality(Q) = Cardinality(T) + IF Head(ls).size # 0 THEN 1 ELSE 0
  <2>1. CASE Head(ls).size # 0
    <3>1. Q = U \cup {1}
      BY <1>2, <2>1
    <3> QED BY <1>6, <1>9, <2>1, <3>1, FS_AddElement
  <2>2. CASE Head(ls).size = 0
    <3>1. Q = U
      BY <1>2, <2>2
    <3> QED BY <1>9, <2>2, <3>1
  <2> QED BY <2>1, <2>2
<1> QED BY <1>9, <1>10 DEF T, Q

(* Nothing is ahead of the first level.                                    *)
LEMMA QuotedBeforeFirst ==
    \A ls : Cardinality(QuotedBefore(ls, 1)) = 0
<1>1. \A ls : QuotedBefore(ls, 1) = {}
  BY DEF QuotedBefore
<1> QED BY <1>1, FS_EmptySet

LEMMA TakenTail ==
    ASSUME NEW S, NEW ls \in Seq(S), ls # <<>>, NEW room \in Int
    PROVE  LET rest == room - IF Head(ls).size # 0 THEN 1 ELSE 0
           IN  /\ \A k \in DOMAIN Tail(ls) :
                      k + 1 \in Taken(ls, room) <=> k \in Taken(Tail(ls), rest)
               /\ 1 \in Taken(ls, room) <=> (Head(ls).size # 0 /\ room > 0)
<1> DEFINE rest == room - IF Head(ls).size # 0 THEN 1 ELSE 0
<1>1. ASSUME NEW k \in DOMAIN Tail(ls)
      PROVE  k + 1 \in Taken(ls, room) <=> k \in Taken(Tail(ls), rest)
  <2>1. k + 1 \in DOMAIN ls /\ Tail(ls)[k] = ls[k + 1]
    BY TailAt
  <2>2. Cardinality(QuotedBefore(ls, k + 1)) < room
        <=> Cardinality(QuotedBefore(Tail(ls), k)) < rest
    BY QuotedBeforeTail
  <2> QED BY <2>1, <2>2 DEF Taken
<1>2. 1 \in Taken(ls, room) <=> (Head(ls).size # 0 /\ room > 0)
  <2>1. ls[1] = Head(ls) /\ 1 \in DOMAIN ls
    BY TailAt
  <2>2. Cardinality(QuotedBefore(ls, 1)) = 0
    BY QuotedBeforeFirst
  <2> QED BY <2>1, <2>2 DEF Taken
<1> QED BY <1>1, <1>2

(* What a level taken has for its price is its own size.                   *)
LEMMA OverlayWithinAt ==
    ASSUME NEW ls, DistinctPrices(ls), NEW b, NEW room
    PROVE  /\ \A p : p \in DOMAIN OverlayWithin(b, ls, room)
                     <=> p \in DOMAIN b \/ \E k \in Taken(ls, room) : ls[k].price = p
           /\ \A k \in Taken(ls, room) :
                 OverlayWithin(b, ls, room)[ls[k].price] = ls[k].size
           /\ \A p \in DOMAIN b :
                 (\A k \in Taken(ls, room) : ls[k].price # p)
                 => OverlayWithin(b, ls, room)[p] = b[p]
<1> DEFINE prices == {ls[k].price : k \in Taken(ls, room)}
<1>1. OverlayWithin(b, ls, room)
      = [p \in DOMAIN b \cup prices |-> IF p \in prices THEN SizeAt(ls, p) ELSE b[p]]
  BY DEF OverlayWithin
<1>2. \A k \in Taken(ls, room) : SizeAt(ls, ls[k].price) = ls[k].size
  <2> SUFFICES ASSUME NEW k \in Taken(ls, room) PROVE SizeAt(ls, ls[k].price) = ls[k].size
    OBVIOUS
  <2>1. k \in DOMAIN ls
    BY DEF Taken
  <2>2. (CHOOSE j \in DOMAIN ls : ls[j].price = ls[k].price) = k
    BY <2>1 DEF DistinctPrices
  <2> QED BY <2>2 DEF SizeAt
<1> QED BY <1>1, <1>2

(* The levels taken of ts are those of ls, each one place further on; ls   *)
(* may start with one more, which c has laid over b.                       *)
OneMoved(ls, room, b, ts, r, c) ==
    LET K == Taken(ls, room)
        T == Taken(ts, r)
    IN  /\ \A k \in T : k + 1 \in K /\ ts[k] = ls[k + 1] /\ ts[k].price # ls[1].price
        /\ \A k \in K : k # 1 => k - 1 \in T /\ ts[k - 1] = ls[k]
        /\ 1 \in K => /\ DOMAIN c = DOMAIN b \cup {ls[1].price}
                      /\ c[ls[1].price] = ls[1].size
                      /\ \A p \in DOMAIN b : p # ls[1].price => c[p] = b[p]
        /\ 1 \notin K => c = b

(* Such levels lay over c what the others lay over b.                      *)
LEMMA OverlayMoved ==
    ASSUME NEW ls, DistinctPrices(ls), NEW ts, DistinctPrices(ts),
           NEW b, NEW c, NEW room, NEW r, OneMoved(ls, room, b, ts, r, c)
    PROVE  OverlayWithin(b, ls, room) = OverlayWithin(c, ts, r)
<1> DEFINE K == Taken(ls, room)
           T == Taken(ts, r)
           L == OverlayWithin(b, ls, room)
           R == OverlayWithin(c, ts, r)
<1>1. /\ \A p : p \in DOMAIN L <=> p \in DOMAIN b \/ \E k \in K : ls[k].price = p
      /\ \A k \in K : L[ls[k].price] = ls[k].size
      /\ \A p \in DOMAIN b : (\A k \in K : ls[k].price # p) => L[p] = b[p]
  BY OverlayWithinAt
<1>2. /\ \A p : p \in DOMAIN R <=> p \in DOMAIN c \/ \E k \in T : ts[k].price = p
      /\ \A k \in T : R[ts[k].price] = ts[k].size
      /\ \A p \in DOMAIN c : (\A k \in T : ts[k].price # p) => R[p] = c[p]
  BY OverlayWithinAt
<1>3. L = [p \in DOMAIN L |-> L[p]] /\ R = [p \in DOMAIN R |-> R[p]]
  BY DEF OverlayWithin
<1> HIDE DEF K, T, L, R
<1>4. /\ \A k \in T : k + 1 \in K /\ ts[k] = ls[k + 1] /\ ts[k].price # ls[1].price
      /\ \A k \in K : k # 1 => k - 1 \in T /\ ts[k - 1] = ls[k]
      /\ 1 \in K => /\ DOMAIN c = DOMAIN b \cup {ls[1].price}
                    /\ c[ls[1].price] = ls[1].size
                    /\ \A p \in DOMAIN b : p # ls[1].price => c[p] = b[p]
      /\ 1 \notin K => c = b
  BY DEF OneMoved, K, T
<1>5. \A k \in K : k = 1 \/ \E j \in T : ts[j] = ls[k]
  BY <1>4
<1>6. \A j \in T : \E k \in K : ts[j] = ls[k]
  BY <1>4
<1>7. ASSUME NEW p \in DOMAIN L PROVE p \in DOMAIN R /\ L[p] = R[p]
  <2>1. CASE \E j \in T : ts[j].price = p
    BY <1>1, <1>2, <1>6, <2>1
  <2>2. CASE 1 \in K /\ p = ls[1].price
    BY <1>1, <1>2, <1>4, <2>2
  <2>3. CASE ~(\E j \in T : ts[j].price = p) /\ ~(1 \in K /\ p = ls[1].price)
    <3>1. \A k \in K : ls[k].price # p
      BY <1>5, <2>3
    <3>2. p \in DOMAIN b /\ L[p] = b[p]
      BY <1>1, <3>1
    <3>3. p \in DOMAIN c /\ c[p] = b[p]
      BY <1>4, <2>3, <3>2
    <3> QED BY <1>2, <2>3, <3>2, <3>3
  <2> QED BY <2>1, <2>2, <2>3
<1>8. ASSUME NEW p \in DOMAIN R PROVE p \in DOMAIN L
  BY <1>1, <1>2, <1>4, <1>6
<1>9. L = R
  BY <1>3, <1>7, <1>8
<1> QED BY <1>9 DEF L, R

LEMMA OverlayTail ==
    ASSUME NEW S, NEW ls \in Seq(S), ls # <<>>, DistinctPrices(ls), NEW b, NEW room \in Int
    PROVE  /\ Head(ls).size = 0 =>
                OverlayWithin(b, ls, room) = OverlayWithin(b, Tail(ls), room)
           /\ Head(ls).size # 0 /\ room > 0 =>
                OverlayWithin(b, ls, room)
                = OverlayWithin(WithLevel(b, Head(ls).price, Head(ls).size),
                                Tail(ls), room - 1)
<1> DEFINE h == Head(ls)
           ts == Tail(ls)
<1>1. /\ h = ls[1] /\ 1 \in DOMAIN ls
      /\ \A k \in DOMAIN ts : k + 1 \in DOMAIN ls /\ ts[k] = ls[k + 1] /\ k + 1 # 1
      /\ \A k \in DOMAIN ls : k # 1 => k - 1 \in DOMAIN ts
      /\ DOMAIN ls \subseteq Int /\ DOMAIN ts \subseteq Nat \ {0}
  BY TailAt
<1>2. DistinctPrices(ts)
  <2> SUFFICES ASSUME NEW j \in DOMAIN ts, NEW k \in DOMAIN ts, ts[j].price = ts[k].price
               PROVE  j = k
    BY DEF DistinctPrices
  <2>1. j + 1 = k + 1
    BY <1>1 DEF DistinctPrices
  <2> QED BY <1>1, <2>1
<1>3. \A k \in DOMAIN ts : ts[k].price # h.price
  BY <1>1 DEF DistinctPrices
<1>4. ASSUME NEW r, \A k \in DOMAIN ts : k + 1 \in Taken(ls, room) <=> k \in Taken(ts, r)
      PROVE  /\ \A k \in Taken(ts, r) : /\ k + 1 \in Taken(ls, room) /\ ts[k] = ls[k + 1]
                                        /\ ts[k].price # ls[1].price
             /\ \A k \in Taken(ls, room) :
                    k # 1 => k - 1 \in Taken(ts, r) /\ ts[k - 1] = ls[k]
  <2>1. \A k \in Taken(ts, r) : k \in DOMAIN ts
    BY DEF Taken
  <2>2. \A k \in Taken(ls, room) : k \in DOMAIN ls
    BY DEF Taken
  <2>3. \A k \in DOMAIN ls : k # 1 => k - 1 \in DOMAIN ts /\ (k - 1) + 1 = k
    BY <1>1
  <2> QED BY <1>1, <1>3, <1>4, <2>1, <2>2, <2>3
<1>5. CASE h.size = 0
  <2>1. /\ \A k \in DOMAIN ts : k + 1 \in Taken(ls, room) <=> k \in Taken(ts, room)
        /\ 1 \notin Taken(ls, room)
    BY <1>5, TakenTail
  <2>2. OverlayWithin(b, ls, room) = OverlayWithin(b, ts, room)
    <3>1. OneMoved(ls, room, b, ts, room, b)
      BY <1>4, <2>1 DEF OneMoved
    <3> HIDE DEF ts
    <3> QED BY <1>2, <3>1, OverlayMoved
  <2> QED BY <1>5, <2>2
<1>6. CASE h.size # 0 /\ room > 0
  <2> DEFINE c == WithLevel(b, h.price, h.size)
  <2>1. /\ \A k \in DOMAIN ts : k + 1 \in Taken(ls, room) <=> k \in Taken(ts, room - 1)
        /\ 1 \in Taken(ls, room)
    BY <1>6, TakenTail
  <2>2. /\ DOMAIN c = DOMAIN b \cup {ls[1].price} /\ c[ls[1].price] = ls[1].size
        /\ \A p \in DOMAIN b : p # ls[1].price => c[p] = b[p]
    BY <1>1, <1>6 DEF WithLevel
  <2> HIDE DEF c
  <2>3. OverlayWithin(b, ls, room) = OverlayWithin(c, ts, room - 1)
    <3>1. OneMoved(ls, room, b, ts, room - 1, c)
      BY <1>4, <2>1, <2>2 DEF OneMoved
    <3> HIDE DEF ts
    <3> QED BY <1>2, <3>1, OverlayMoved
  <2> QED BY <1>6, <2>3 DEF c
<1> QED BY <1>5, <1>6

(* No level, or no room: the book stays.                                   *)
LEMMA OverlayEmpty ==
    ASSUME NEW b, b = [p \in DOMAIN b |-> b[p]], NEW room
    PROVE  OverlayWithin(b, <<>>, room) = b
<1>1. Taken(<<>>, room) = {}
  BY DEF Taken
<1> QED BY <1>1 DEF OverlayWithin

LEMMA OverlayFull ==
    ASSUME NEW b, b = [p \in DOMAIN b |-> b[p]], NEW S, NEW ls \in Seq(S), NEW room \in Int,
           room <= 0
    PROVE  OverlayWithin(b, ls, room) = b
<1>1. Taken(ls, room) = {}
  <2> SUFFICES ASSUME NEW k \in DOMAIN ls
               PROVE  ~(Cardinality(QuotedBefore(ls, k)) < room)
    BY DEF Taken
  <2>1. DOMAIN ls = 1 .. Len(ls) /\ Len(ls) \in Nat
    BY LenProperties
  <2>2. IsFiniteSet(1 .. k - 1)
    BY <2>1, FS_Interval
  <2>3. QuotedBefore(ls, k) \subseteq 1 .. k - 1
    BY DEF QuotedBefore
  <2>4. Cardinality(QuotedBefore(ls, k)) \in Nat
    BY <2>2, <2>3, FS_Subset, FS_CardinalityType
  <2> QED BY <2>4
<1> QED BY <1>1 DEF OverlayWithin
=============================================================================
