------------------------- MODULE LiveSessionProofs -------------------------
(***************************************************************************)
(* What holds of the whole program: for any assets, books and changes, any *)
(* number of losses, any depth of the visible top and any channel.         *)
(***************************************************************************)
EXTENDS LiveSession, BookLevelsProofs

-----------------------------------------------------------------------------
(***************************************************************************)
(* WithChanges and After are defined by recursion.  What follows from it:  *)
(* the first of a sequence may be carried out first, or the last one last. *)
(***************************************************************************)
ChangesRun(f, b, n, cs) ==
    f = [k \in 0 .. n |-> IF k = 0 THEN b ELSE O!WithChange(f[k - 1], cs[k])]

(* There is such a run, and only one.                                      *)
LEMMA ChangesRunExists ==
    ASSUME NEW n \in Nat, NEW b, NEW cs
    PROVE  \E f : ChangesRun(f, b, n, cs)
<1> DEFINE T == {k \in 0 .. n : \E f : ChangesRun(f, b, k, cs)}
<1>1. 0 \in T
  <2>1. ChangesRun([k \in 0 .. 0 |-> b], b, 0, cs)
    BY DEF ChangesRun
  <2> QED BY <2>1
<1>2. ASSUME NEW k \in 0 .. n, k \in T, k # n
      PROVE  k + 1 \in T
  <2>1. PICK f : ChangesRun(f, b, k, cs)
    BY <1>2
  <2> DEFINE g == [j \in 0 .. k + 1 |-> IF j = k + 1 THEN O!WithChange(f[k], cs[k + 1])
                                                     ELSE f[j]]
  <2>2. DOMAIN f = 0 .. k /\ \A j \in 0 .. k : f[j] = IF j = 0 THEN b
                                                     ELSE O!WithChange(f[j - 1], cs[j])
    BY <2>1 DEF ChangesRun
  <2>3. \A j \in 0 .. k + 1 : g[j] = IF j = 0 THEN b ELSE O!WithChange(g[j - 1], cs[j])
    <3> SUFFICES ASSUME NEW j \in 0 .. k + 1
                 PROVE  g[j] = IF j = 0 THEN b ELSE O!WithChange(g[j - 1], cs[j])
      OBVIOUS
    <3>1. CASE j = k + 1
      <4>1. j # 0 /\ j - 1 = k /\ k \in 0 .. k + 1 /\ k # k + 1
        BY <3>1
      <4>2. g[j] = O!WithChange(f[k], cs[j]) /\ g[j - 1] = f[k]
        BY <3>1, <4>1
      <4> QED BY <4>1, <4>2
    <3>2. CASE j # k + 1
      <4>1. j \in 0 .. k /\ g[j] = f[j]
        BY <3>2
      <4>2. j # 0 => j - 1 \in 0 .. k + 1 /\ j - 1 # k + 1 /\ g[j - 1] = f[j - 1]
        BY <3>2
      <4> QED BY <2>2, <4>1, <4>2
    <3> QED BY <3>1, <3>2
  <2>4. ChangesRun(g, b, k + 1, cs)
    <3> HIDE DEF g
    <3>1. g = [j \in 0 .. k + 1 |-> g[j]]
      BY DEF g
    <3> QED BY <2>3, <3>1 DEF ChangesRun
  <2> QED BY <1>2, <2>4
<1>3. n \in T
  <2> HIDE DEF T
  <2>1. T \in SUBSET (0 .. n)
    BY DEF T
  <2> QED BY <1>1, <1>2, <2>1, UpTo
<1> QED BY <1>3

LEMMA ChangesRunOnce ==
    ASSUME NEW n \in Nat, NEW m \in Nat, m <= n, NEW b, NEW cs, NEW ds,
           \A k \in 1 .. m : cs[k] = ds[k],
           NEW f, ChangesRun(f, b, m, cs), NEW g, ChangesRun(g, b, n, ds)
    PROVE  \A k \in 0 .. m : f[k] = g[k]
<1> DEFINE T == {k \in 0 .. m : f[k] = g[k]}
<1>1. /\ \A k \in 0 .. m : f[k] = IF k = 0 THEN b ELSE O!WithChange(f[k - 1], cs[k])
      /\ \A k \in 0 .. n : g[k] = IF k = 0 THEN b ELSE O!WithChange(g[k - 1], ds[k])
  BY DEF ChangesRun
<1>2. 0 \in T
  BY <1>1
<1>3. ASSUME NEW k \in 0 .. m, k \in T, k # m
      PROVE  k + 1 \in T
  <2>1. k + 1 \in 0 .. m /\ k + 1 \in 1 .. m /\ k + 1 \in 0 .. n /\ k + 1 # 0 /\ (k + 1) - 1 = k
    BY <1>3
  <2> QED BY <1>1, <1>3, <2>1
<1>4. T = 0 .. m
  <2> HIDE DEF T
  <2>1. T \in SUBSET (0 .. m)
    BY DEF T
  <2> QED BY <1>2, <1>3, <2>1, UpTo
<1> QED BY <1>4

(* So WithChanges is where the run ends.                                   *)
LEMMA ChangesRunEnds ==
    ASSUME NEW b, NEW cs, Len(cs) \in Nat, NEW f, ChangesRun(f, b, Len(cs), cs)
    PROVE  WithChanges(b, cs) = f[Len(cs)]
<1> DEFINE made == CHOOSE g : ChangesRun(g, b, Len(cs), cs)
<1>1. ChangesRun(made, b, Len(cs), cs)
  BY Zenon
<1>2. WithChanges(b, cs) = made[Len(cs)]
  BY DEF WithChanges, ChangesRun
<1> HIDE DEF made
<1>3. \A k \in 0 .. Len(cs) : made[k] = f[k]
  BY <1>1, ChangesRunOnce
<1> QED BY <1>2, <1>3

LEMMA NoChanges == ASSUME NEW b PROVE WithChanges(b, <<>>) = b
<1>1. Len(<<>>) = 0
  OBVIOUS
<1>2. PICK f : ChangesRun(f, b, Len(<<>>), <<>>)
  BY <1>1, ChangesRunExists
<1>3. f[0] = b
  BY <1>1, <1>2 DEF ChangesRun
<1> QED BY <1>1, <1>2, <1>3, ChangesRunEnds

LEMMA FirstChange ==
    ASSUME NEW b, NEW S, NEW cs \in Seq(S), cs # <<>>
    PROVE  WithChanges(b, cs) = WithChanges(O!WithChange(b, Head(cs)), Tail(cs))
<1>1. /\ Len(cs) \in Nat /\ Len(cs) # 0 /\ Head(cs) = cs[1]
      /\ Len(Tail(cs)) = Len(cs) - 1 /\ Len(Tail(cs)) \in Nat
      /\ \A k \in 1 .. Len(Tail(cs)) : Tail(cs)[k] = cs[k + 1]
  BY EmptySeq
<1> DEFINE n == Len(Tail(cs))
<1>2. PICK f : ChangesRun(f, b, Len(cs), cs)
  BY <1>1, ChangesRunExists
<1> DEFINE g == [k \in 0 .. n |-> f[k + 1]]
<1>3. \A k \in 0 .. Len(cs) : f[k] = IF k = 0 THEN b ELSE O!WithChange(f[k - 1], cs[k])
  BY <1>2 DEF ChangesRun
<1>4. \A k \in 0 .. n : g[k] = IF k = 0 THEN O!WithChange(b, Head(cs))
                               ELSE O!WithChange(g[k - 1], Tail(cs)[k])
  <2> SUFFICES ASSUME NEW k \in 0 .. n
               PROVE  f[k + 1] = IF k = 0 THEN O!WithChange(b, Head(cs))
                                 ELSE O!WithChange(g[k - 1], Tail(cs)[k])
    OBVIOUS
  <2>1. k + 1 \in 0 .. Len(cs) /\ k + 1 # 0 /\ (k + 1) - 1 = k
    BY <1>1
  <2>2. f[k + 1] = O!WithChange(f[k], cs[k + 1])
    BY <1>3, <2>1
  <2>3. CASE k = 0
    BY <1>1, <1>3, <2>2, <2>3
  <2>4. CASE k # 0
    <3>1. k - 1 \in 0 .. n /\ (k - 1) + 1 = k /\ k \in 1 .. n
      BY <1>1, <2>4
    <3>2. g[k - 1] = f[k] /\ Tail(cs)[k] = cs[k + 1]
      BY <1>1, <3>1
    <3> QED BY <2>2, <2>4, <3>2
  <2> QED BY <2>3, <2>4
<1>5. g[n] = f[Len(cs)]
  BY <1>1
<1>6. ChangesRun(g, O!WithChange(b, Head(cs)), n, Tail(cs))
  <2> HIDE DEF g
  <2>1. g = [k \in 0 .. n |-> g[k]]
    BY DEF g
  <2> QED BY <1>4, <2>1 DEF ChangesRun
<1> HIDE DEF g
<1>7. WithChanges(O!WithChange(b, Head(cs)), Tail(cs)) = g[n]
  BY <1>1, <1>6, ChangesRunEnds
<1> QED BY <1>1, <1>2, <1>5, <1>7, ChangesRunEnds

(* The same of messages.                                                   *)
ArrivalsRun(f, h, a, n, ms) ==
    f = [k \in 0 .. n |-> IF k = 0 THEN h ELSE Arrived(f[k - 1], a, ms[k])]

(* There is such a run, and only one.                                      *)
LEMMA ArrivalsRunExists ==
    ASSUME NEW n \in Nat, NEW h, NEW a, NEW ms
    PROVE  \E f : ArrivalsRun(f, h, a, n, ms)
<1> DEFINE T == {k \in 0 .. n : \E f : ArrivalsRun(f, h, a, k, ms)}
<1>1. 0 \in T
  <2>1. ArrivalsRun([k \in 0 .. 0 |-> h], h, a, 0, ms)
    BY DEF ArrivalsRun
  <2> QED BY <2>1
<1>2. ASSUME NEW k \in 0 .. n, k \in T, k # n
      PROVE  k + 1 \in T
  <2>1. PICK f : ArrivalsRun(f, h, a, k, ms)
    BY <1>2
  <2> DEFINE g == [j \in 0 .. k + 1 |-> IF j = k + 1 THEN Arrived(f[k], a, ms[k + 1])
                                                     ELSE f[j]]
  <2>2. DOMAIN f = 0 .. k /\ \A j \in 0 .. k : f[j] = IF j = 0 THEN h
                                                     ELSE Arrived(f[j - 1], a, ms[j])
    BY <2>1 DEF ArrivalsRun
  <2>3. \A j \in 0 .. k + 1 : g[j] = IF j = 0 THEN h ELSE Arrived(g[j - 1], a, ms[j])
    <3> SUFFICES ASSUME NEW j \in 0 .. k + 1
                 PROVE  g[j] = IF j = 0 THEN h ELSE Arrived(g[j - 1], a, ms[j])
      OBVIOUS
    <3>1. CASE j = k + 1
      <4>1. j # 0 /\ j - 1 = k /\ k \in 0 .. k + 1 /\ k # k + 1
        BY <3>1
      <4>2. g[j] = Arrived(f[k], a, ms[j]) /\ g[j - 1] = f[k]
        BY <3>1, <4>1
      <4> QED BY <4>1, <4>2
    <3>2. CASE j # k + 1
      <4>1. j \in 0 .. k /\ g[j] = f[j]
        BY <3>2
      <4>2. j # 0 => j - 1 \in 0 .. k + 1 /\ j - 1 # k + 1 /\ g[j - 1] = f[j - 1]
        BY <3>2
      <4> QED BY <2>2, <4>1, <4>2
    <3> QED BY <3>1, <3>2
  <2>4. ArrivalsRun(g, h, a, k + 1, ms)
    <3> HIDE DEF g
    <3>1. g = [j \in 0 .. k + 1 |-> g[j]]
      BY DEF g
    <3> QED BY <2>3, <3>1 DEF ArrivalsRun
  <2> QED BY <1>2, <2>4
<1>3. n \in T
  <2> HIDE DEF T
  <2>1. T \in SUBSET (0 .. n)
    BY DEF T
  <2> QED BY <1>1, <1>2, <2>1, UpTo
<1> QED BY <1>3

LEMMA ArrivalsRunOnce ==
    ASSUME NEW n \in Nat, NEW m \in Nat, m <= n, NEW h, NEW a, NEW ms, NEW ds,
           \A k \in 1 .. m : ms[k] = ds[k],
           NEW f, ArrivalsRun(f, h, a, m, ms), NEW g, ArrivalsRun(g, h, a, n, ds)
    PROVE  \A k \in 0 .. m : f[k] = g[k]
<1> DEFINE T == {k \in 0 .. m : f[k] = g[k]}
<1>1. /\ \A k \in 0 .. m : f[k] = IF k = 0 THEN h ELSE Arrived(f[k - 1], a, ms[k])
      /\ \A k \in 0 .. n : g[k] = IF k = 0 THEN h ELSE Arrived(g[k - 1], a, ds[k])
  BY DEF ArrivalsRun
<1>2. 0 \in T
  BY <1>1
<1>3. ASSUME NEW k \in 0 .. m, k \in T, k # m
      PROVE  k + 1 \in T
  <2>1. k + 1 \in 0 .. m /\ k + 1 \in 1 .. m /\ k + 1 \in 0 .. n /\ k + 1 # 0 /\ (k + 1) - 1 = k
    BY <1>3
  <2> QED BY <1>1, <1>3, <2>1
<1>4. T = 0 .. m
  <2> HIDE DEF T
  <2>1. T \in SUBSET (0 .. m)
    BY DEF T
  <2> QED BY <1>2, <1>3, <2>1, UpTo
<1> QED BY <1>4

(* So After is where the run ends.                                         *)
LEMMA ArrivalsRunEnds ==
    ASSUME NEW h, NEW a, NEW ms, Len(ms) \in Nat, NEW f, ArrivalsRun(f, h, a, Len(ms), ms)
    PROVE  After(h, a, ms) = f[Len(ms)]
<1> DEFINE made == CHOOSE g : ArrivalsRun(g, h, a, Len(ms), ms)
<1>1. ArrivalsRun(made, h, a, Len(ms), ms)
  BY Zenon
<1>2. After(h, a, ms) = made[Len(ms)]
  BY DEF After, ArrivalsRun
<1> HIDE DEF made
<1>3. \A k \in 0 .. Len(ms) : made[k] = f[k]
  BY <1>1, ArrivalsRunOnce
<1> QED BY <1>2, <1>3

LEMMA NoArrivals == ASSUME NEW h, NEW a PROVE After(h, a, <<>>) = h
<1>1. Len(<<>>) = 0
  OBVIOUS
<1>2. PICK f : ArrivalsRun(f, h, a, Len(<<>>), <<>>)
  BY <1>1, ArrivalsRunExists
<1>3. f[0] = h
  BY <1>1, <1>2 DEF ArrivalsRun
<1> QED BY <1>1, <1>2, <1>3, ArrivalsRunEnds

LEMMA FirstArrival ==
    ASSUME NEW h, NEW a, NEW S, NEW ms \in Seq(S), ms # <<>>
    PROVE  After(h, a, ms) = After(Arrived(h, a, Head(ms)), a, Tail(ms))
<1>1. /\ Len(ms) \in Nat /\ Len(ms) # 0 /\ Head(ms) = ms[1]
      /\ Len(Tail(ms)) = Len(ms) - 1 /\ Len(Tail(ms)) \in Nat
      /\ \A k \in 1 .. Len(Tail(ms)) : Tail(ms)[k] = ms[k + 1]
  BY EmptySeq
<1> DEFINE n == Len(Tail(ms))
<1>2. PICK f : ArrivalsRun(f, h, a, Len(ms), ms)
  BY <1>1, ArrivalsRunExists
<1> DEFINE g == [k \in 0 .. n |-> f[k + 1]]
<1>3. \A k \in 0 .. Len(ms) : f[k] = IF k = 0 THEN h ELSE Arrived(f[k - 1], a, ms[k])
  BY <1>2 DEF ArrivalsRun
<1>4. \A k \in 0 .. n : g[k] = IF k = 0 THEN Arrived(h, a, Head(ms))
                               ELSE Arrived(g[k - 1], a, Tail(ms)[k])
  <2> SUFFICES ASSUME NEW k \in 0 .. n
               PROVE  f[k + 1] = IF k = 0 THEN Arrived(h, a, Head(ms))
                                 ELSE Arrived(g[k - 1], a, Tail(ms)[k])
    OBVIOUS
  <2>1. k + 1 \in 0 .. Len(ms) /\ k + 1 # 0 /\ (k + 1) - 1 = k
    BY <1>1
  <2>2. f[k + 1] = Arrived(f[k], a, ms[k + 1])
    BY <1>3, <2>1
  <2>3. CASE k = 0
    BY <1>1, <1>3, <2>2, <2>3
  <2>4. CASE k # 0
    <3>1. k - 1 \in 0 .. n /\ (k - 1) + 1 = k /\ k \in 1 .. n
      BY <1>1, <2>4
    <3>2. g[k - 1] = f[k] /\ Tail(ms)[k] = ms[k + 1]
      BY <1>1, <3>1
    <3> QED BY <2>2, <2>4, <3>2
  <2> QED BY <2>3, <2>4
<1>5. g[n] = f[Len(ms)]
  BY <1>1
<1>6. ArrivalsRun(g, Arrived(h, a, Head(ms)), a, n, Tail(ms))
  <2> HIDE DEF g
  <2>1. g = [k \in 0 .. n |-> g[k]]
    BY DEF g
  <2> QED BY <1>4, <2>1 DEF ArrivalsRun
<1> HIDE DEF g
<1>7. After(Arrived(h, a, Head(ms)), a, Tail(ms)) = g[n]
  <2> DEFINE first == Arrived(h, a, Head(ms))
             others == Tail(ms)
  <2>1. Len(others) \in Nat /\ n = Len(others) /\ ArrivalsRun(g, first, a, Len(others), others)
    BY <1>1, <1>6
  <2> HIDE DEF first, others, n
  <2>2. After(first, a, others) = g[n]
    BY <2>1, ArrivalsRunEnds
  <2> QED BY <2>2 DEF first, others
<1> QED BY <1>1, <1>2, <1>5, <1>7, ArrivalsRunEnds

LEMMA LastArrival ==
    ASSUME NEW h, NEW a, NEW S, NEW ms \in Seq(S), NEW m
    PROVE  After(h, a, Append(ms, m)) = Arrived(After(h, a, ms), a, m)
<1> DEFINE n  == Len(ms)
           ns == Append(ms, m)
<1>1. /\ n \in Nat /\ n + 1 \in Nat /\ Len(ns) = n + 1 /\ ns[n + 1] = m
      /\ \A k \in 1 .. n : ms[k] = ns[k]
  OBVIOUS
<1> HIDE DEF n, ns
<1>2. PICK f : ArrivalsRun(f, h, a, n, ms)
  BY <1>1, ArrivalsRunExists
<1>3. PICK g : ArrivalsRun(g, h, a, n + 1, ns)
  BY <1>1, ArrivalsRunExists
<1>4. n + 1 \in 0 .. n + 1 /\ n + 1 # 0 /\ (n + 1) - 1 = n /\ n <= n + 1 /\ n + 1 \in Nat
      /\ n \in 0 .. n
  BY <1>1
<1>5. g[n + 1] = Arrived(g[n], a, m)
  BY <1>1, <1>3, <1>4 DEF ArrivalsRun
<1>6. \A k \in 0 .. n : f[k] = g[k]
  BY <1>1, <1>2, <1>3, <1>4, ArrivalsRunOnce
<1>7. After(h, a, ms) = f[n]
  BY <1>1, <1>2, ArrivalsRunEnds DEF n
<1>8. After(h, a, ns) = g[n + 1]
  BY <1>1, <1>3, <1>4, ArrivalsRunEnds
<1> QED BY <1>4, <1>5, <1>6, <1>7, <1>8 DEF ns

-----------------------------------------------------------------------------
(***************************************************************************)
(* What is sent.  The changes of one price_change, or those left of them,  *)
(* are about one asset and apply wherever it has a book; a book message    *)
(* parses and quotes no price twice.                                       *)
(***************************************************************************)
OneAsset(cs) == \A j, k \in DOMAIN cs : cs[j].asset_id = cs[k].asset_id

Rest == {cs \in Seq(O!Change) :
            OneAsset(cs) /\ \A k \in DOMAIN cs : cs[k].parses /\ cs[k].side # "?"}

BookSent == {m \in [event_type : {"book"}, asset_id : Asset, parses : {TRUE},
                    bids : Seq(O!Bids!Level), asks : Seq(O!Bids!Level)] :
                DistinctPrices(m.bids) /\ DistinctPrices(m.asks)}

ChangeSent == [event_type : {"price_change"}, price_changes : Rest]

LiveMessage == BookSent \cup ChangeSent

(* The observer, handed frames of these.                                   *)
OP == INSTANCE ObserverProofs WITH Labelled <- Asset, Frames <- Seq(LiveMessage)

(* Every instance of the books' modules has operators of its own: the same *)
(* ones.                                                                   *)
LEMMA SameLevels ==
    /\ O!Change = OP!Change /\ O!Bids!Level = OP!Bids!Level
    /\ \A ls : /\ OP!Bids!DistinctPrices(ls) <=> DistinctPrices(ls)
               /\ O!Bids!Overlay(<<>>, ls) = Overlay(<<>>, ls)
               /\ O!Asks!Overlay(<<>>, ls) = Overlay(<<>>, ls)
               /\ OP!Bids!Overlay(<<>>, ls) = Overlay(<<>>, ls)
               /\ OP!Asks!Overlay(<<>>, ls) = Overlay(<<>>, ls)
    /\ \A b, p, s : /\ O!Bids!WithLevel(b, p, s) = WithLevel(b, p, s)
                    /\ O!Asks!WithLevel(b, p, s) = WithLevel(b, p, s)
                    /\ OP!Bids!WithLevel(b, p, s) = WithLevel(b, p, s)
                    /\ OP!Asks!WithLevel(b, p, s) = WithLevel(b, p, s)
<1>1. O!Change = OP!Change /\ O!Bids!Level = OP!Bids!Level
  BY DEF O!Change, OP!Change, O!Bids!Level, OP!Bids!Level
<1>2. \A ls : OP!Bids!DistinctPrices(ls) <=> DistinctPrices(ls)
  BY DEF OP!Bids!DistinctPrices, DistinctPrices
<1>3. \A ls : /\ O!Bids!Overlay(<<>>, ls) = Overlay(<<>>, ls)
              /\ O!Asks!Overlay(<<>>, ls) = Overlay(<<>>, ls)
  BY DEF O!Bids!Overlay, O!Asks!Overlay, Overlay, O!Bids!Quoted, O!Asks!Quoted, Quoted,
         O!Bids!SizeAt, O!Asks!SizeAt, SizeAt
<1>4. \A ls : /\ OP!Bids!Overlay(<<>>, ls) = Overlay(<<>>, ls)
              /\ OP!Asks!Overlay(<<>>, ls) = Overlay(<<>>, ls)
  BY DEF OP!Bids!Overlay, OP!Asks!Overlay, Overlay, OP!Bids!Quoted, OP!Asks!Quoted, Quoted,
         OP!Bids!SizeAt, OP!Asks!SizeAt, SizeAt
<1>5. \A b, p, s : /\ O!Bids!WithLevel(b, p, s) = WithLevel(b, p, s)
                   /\ O!Asks!WithLevel(b, p, s) = WithLevel(b, p, s)
                   /\ OP!Bids!WithLevel(b, p, s) = WithLevel(b, p, s)
                   /\ OP!Asks!WithLevel(b, p, s) = WithLevel(b, p, s)
  BY DEF O!Bids!WithLevel, O!Asks!WithLevel, OP!Bids!WithLevel, OP!Asks!WithLevel, WithLevel
<1> QED BY <1>1, <1>2, <1>3, <1>4, <1>5

(* The messages are what the observer takes.                               *)
LEMMA SentIsWellFormed == LiveMessage \subseteq OP!WellFormed
<1>1. ASSUME NEW m \in BookSent PROVE m \in OP!WellFormed
  <2>1. /\ m \in [event_type : {"book"}, asset_id : Asset, parses : {TRUE},
                  bids : Seq(O!Bids!Level), asks : Seq(O!Bids!Level)]
        /\ DistinctPrices(m.bids) /\ DistinctPrices(m.asks)
    BY DEF BookSent
  <2>2. m \in OP!Message
    BY <2>1, SameLevels DEF OP!Message
  <2> QED BY <2>1, <2>2, SameLevels DEF OP!WellFormed
<1>2. ASSUME NEW m \in ChangeSent PROVE m \in OP!WellFormed
  <2>1. m \in [event_type : {"price_change"}, price_changes : Seq(OP!Change)]
    BY SameLevels DEF ChangeSent, Rest
  <2> QED BY <2>1 DEF OP!Message, OP!WellFormed
<1> QED BY <1>1, <1>2 DEF LiveMessage

(* So the feed's contract is kept, and what Observer assumes holds.         *)
LEMMA ContractKept == OP!DistinctFrames /\ Seq(LiveMessage) \subseteq Seq(OP!Message)
<1>1. Seq(LiveMessage) \subseteq Seq(OP!WellFormed)
  BY SentIsWellFormed
<1>2. OP!WellFormed \subseteq OP!Message
  BY DEF OP!WellFormed
<1> QED BY <1>1, <1>2 DEF OP!DistinctFrames

(* The live program's observer is the Observer of that module.             *)
LEMMA SameObserver ==
    /\ \A b : O!TopView(b) = OP!TopView(b)
    /\ \A b : O!AssetBook(b) = OP!AssetBook(b)
    /\ \A bs : O!TopBookSnapshot(bs) = OP!TopBookSnapshot(bs)
    /\ \A b, c : O!WithChange(b, c) = OP!WithChange(b, c)
    /\ \A b, new, c : O!ReachesTop(b, new, c) <=> OP!ReachesTop(b, new, c)
<1>1. \A b : O!Bids!Ranked(b) = OP!Bids!Ranked(b) /\ O!Asks!Ranked(b) = OP!Asks!Ranked(b)
  BY DEF O!Bids!Ranked, OP!Bids!Ranked, O!Asks!Ranked, OP!Asks!Ranked,
         O!Bids!ComesBefore, OP!Bids!ComesBefore, O!Asks!ComesBefore, OP!Asks!ComesBefore,
         O!Bids!Cardinality, OP!Bids!Cardinality, O!Asks!Cardinality, OP!Asks!Cardinality
<1>2. \A b : O!TopView(b) = OP!TopView(b)
  BY <1>1 DEF O!TopView, OP!TopView, O!Top, OP!Top
<1>3. \A b : O!AssetBook(b) = OP!AssetBook(b)
  <2>1. \A ls : O!Top(ls) = OP!Top(ls)
    BY DEF O!Top, OP!Top
  <2>2. \A ls : O!Cumulated(ls) = OP!Cumulated(ls)
    BY DEF O!Cumulated, OP!Cumulated
  <2>3. \A ls, ms : O!Spread(ls, ms) = OP!Spread(ls, ms)
    BY DEF O!Spread, OP!Spread
  <2> QED BY <1>1, <2>1, <2>2, <2>3 DEF O!AssetBook, OP!AssetBook
<1>4. \A bs : O!TopBookSnapshot(bs) = OP!TopBookSnapshot(bs)
  BY <1>3 DEF O!TopBookSnapshot, OP!TopBookSnapshot
<1>5. \A b, c : O!WithChange(b, c) = OP!WithChange(b, c)
  BY SameLevels DEF O!WithChange, OP!WithChange
<1>6. \A b, c : O!InTop(b, c) <=> OP!InTop(b, c)
  BY <1>2 DEF O!InTop, OP!InTop
<1>7. \A b, new, c : O!ReachesTop(b, new, c) <=> OP!ReachesTop(b, new, c)
  BY <1>6 DEF O!ReachesTop, OP!ReachesTop
<1> QED BY <1>2, <1>3, <1>4, <1>5, <1>7

LEMMA SameSteps ==
    /\ O!HandleBook <=> OP!HandleBook
    /\ O!HandlePriceChange <=> OP!HandlePriceChange
    /\ O!SkipChange <=> OP!SkipChange
    /\ O!ApplyChange <=> OP!ApplyChange
    /\ O!PriceChangeDone <=> OP!PriceChangeDone
    /\ \A frame : O!Take(frame) <=> OP!Take(frame)
<1>1. \A type : O!Handling(type) <=> OP!Handling(type)
  BY DEF O!Handling, OP!Handling
<1>2. \A c : O!Applicable(c) <=> OP!Applicable(c)
  BY DEF O!Applicable, OP!Applicable
<1>3. \A bs, a, b : O!Put(bs, a, b) = OP!Put(bs, a, b)
  BY DEF O!Put, OP!Put
<1>4. O!HandleBook <=> OP!HandleBook
  BY <1>1, <1>3, SameLevels, SameObserver
     DEF O!HandleBook, OP!HandleBook, O!EmptyBook, OP!EmptyBook, O!loop, OP!loop
<1>5. O!HandlePriceChange <=> OP!HandlePriceChange
  BY <1>1 DEF O!HandlePriceChange, OP!HandlePriceChange
<1>6. O!SkipChange <=> OP!SkipChange
  BY <1>2 DEF O!SkipChange, OP!SkipChange
<1>7. O!ApplyChange <=> OP!ApplyChange
  BY <1>2, <1>3, SameObserver DEF O!ApplyChange, OP!ApplyChange
<1>8. O!PriceChangeDone <=> OP!PriceChangeDone
  BY SameObserver DEF O!PriceChangeDone, OP!PriceChangeDone
<1>9. \A frame : O!Take(frame) <=> OP!Take(frame)
  BY DEF O!Take, OP!Take, O!Handled, OP!Handled, O!loop, OP!loop
<1> QED BY <1>4, <1>5, <1>6, <1>7, <1>8, <1>9

-----------------------------------------------------------------------------
(***************************************************************************)
(* dispatch forwards only what was received.                               *)
(***************************************************************************)
Others == R!Effect \ {"ForwardJson"}

Pending == /\ \/ todo = <<"ForwardJson">> /\ wire # <<>>
              \/ todo \in Seq(Others)
           /\ pc = "sleep" => todo # <<>>
           /\ back # "sleep"

(* The effects of an event: of none but a JSON text is it ForwardJson.     *)
LEMMA EffectsOf ==
    ASSUME NEW s, NEW e \in R!Event
    PROVE  \/ R!HandleEvent(s, e).effects \in Seq(Others)
           \/ e = "json" /\ R!HandleEvent(s, e).effects = <<"ForwardJson">>
<1>1. /\ <<>> \in Seq(Others) /\ <<"Connect">> \in Seq(Others)
      /\ <<"NotifyConnected">> \in Seq(Others) /\ <<"NotifyDisconnected">> \in Seq(Others)
      /\ <<"SendText">> \in Seq(Others) /\ <<"Ignore">> \in Seq(Others)
      /\ <<"NotifyDisconnected", "ScheduleBackoff">> \in Seq(Others)
  BY DEF Others, R!Effect
<1> HIDE DEF Others
<1>2. CASE R!Connected(s) /\ e \in R!Text
  <2>1. R!HandleEvent(s, e) = R!Classified(s, e)
    BY <1>2 DEF R!HandleEvent, R!Connected, R!Text
  <2>2. CASE e \in {"PING", "ping"}
    BY <1>1, <2>1, <2>2 DEF R!Classified, R!Become
  <2>3. CASE e = "json"
    BY <1>1, <2>1, <2>3 DEF R!Classified, R!Become
  <2>4. CASE e = "garbage"
    <3>1. R!Classified(s, e) = R!Become(s, s.phase, <<"Ignore">>)
      BY <2>4 DEF R!Classified
    <3> QED BY <1>1, <2>1, <3>1 DEF R!Become
  <2> QED BY <1>2, <2>2, <2>3, <2>4 DEF R!Text
<1>3. CASE ~(R!Connected(s) /\ e \in R!Text)
  BY <1>1, <1>3 DEF R!HandleEvent, R!Become, R!Lost, R!Stopped
<1> QED BY <1>2, <1>3

LEMMA DispatchPending ==
    ASSUME NEW e \in R!Event \ {"json"}, NEW to, to # "sleep", R!Dispatch(e, to)
    PROVE  Pending'
<1>1. todo' \in Seq(Others) /\ pc' = "effects" /\ back' # "sleep"
  BY EffectsOf DEF R!Dispatch
<1> QED BY <1>1 DEF Pending

LEMMA CarriedPending ==
    ASSUME Pending, todo # <<>>, todo' = Tail(todo), pc' # "sleep", back' = back
    PROVE  Pending'
<1>1. Tail(<<"ForwardJson">>) \in Seq(Others)
  OBVIOUS
<1>2. todo \in Seq(Others) => Tail(todo) \in Seq(Others)
  OBVIOUS
<1> QED BY <1>1, <1>2 DEF Pending

LEMMA SessionPending ==
    ASSUME Pending, Session
    PROVE  Pending'
<1> USE DEF R!Event, R!Text
<1>1. wire' = wire
  BY DEF Session, exchange
<1>2. ASSUME todo' = todo, back' = back, pc' = "sleep" => todo # <<>> PROVE Pending'
  BY <1>1, <1>2 DEF Pending
<1>3. CASE R!Start \/ R!TakeShutdown
  BY <1>3, DispatchPending DEF R!Start, R!TakeShutdown
<1>4. CASE \/ R!ReceivePing \/ R!ReceiveOther \/ R!Heartbeat \/ R!SendDone
           \/ R!PollShutdown \/ R!Close
  BY <1>2, <1>4 DEF R!ReceivePing, R!ReceiveOther, R!Heartbeat, R!SendDone,
                    R!PollShutdown, R!Close, R!Goto
<1>5. CASE R!EffectsDone
  BY <1>2, <1>5 DEF R!EffectsDone, R!Goto, Pending
<1>6. CASE R!NotifyConnected \/ R!NotifyDisconnected \/ R!NothingToDo
  BY <1>6, CarriedPending
     DEF R!NotifyConnected, R!NotifyDisconnected, R!NothingToDo, R!Effects, R!Carried
<1>7. CASE R!SendText
  BY <1>2, <1>7, CarriedPending DEF R!SendText, R!Effects, R!Carried, R!Goto
<1>8. CASE R!ScheduleBackoff
  BY <1>2, <1>8 DEF R!ScheduleBackoff, R!Effects
<1>9. CASE R!WakeUp
  BY <1>9, CarriedPending DEF R!WakeUp, Pending
<1> QED BY <1>3, <1>4, <1>5, <1>6, <1>7, <1>8, <1>9 DEF Session

LEMMA PendingInit == LiveInit => Pending
<1>1. <<>> \in Seq(Others)
  OBVIOUS
<1> QED BY <1>1 DEF LiveInit, R!RunnerInit, Pending

LEMMA PendingKept == Pending /\ [LiveNext]_vars => Pending'
<1> SUFFICES ASSUME Pending, [LiveNext]_vars PROVE Pending'
  OBVIOUS
<1>1. ASSUME UNCHANGED <<pc, todo, back>>, wire # <<>> => wire' # <<>> PROVE Pending'
  BY <1>1 DEF Pending
<1>2. CASE Exchange
  <2>1. UNCHANGED session
    BY <1>2 DEF Exchange, Change, End, SendBook
  <2>2. wire # <<>> => wire' # <<>>
    <3>1. wire' = wire \/ \E m : wire' = Append(wire, m)
      BY <1>2 DEF Exchange, Change, End, SendBook
    <3>2. ASSUME NEW m, wire' = Append(wire, m) PROVE wire' # <<>>
      BY <3>2
    <3> QED BY <3>1, <3>2
  <2> QED BY <1>1, <2>1, <2>2 DEF session
<1>3. CASE Signal
  BY <1>3 DEF Signal, R!Signal, exchange, Pending
<1>4. CASE Connect
  <2>1. CASE R!Dispatch("WsOpen", "subscribe")
    BY <2>1, DispatchPending DEF R!Event, R!Text
  <2>2. CASE R!Goto("failed")
    BY <1>4, <2>2 DEF R!Goto, Connect, Pending
  <2> QED BY <1>4, <2>1, <2>2 DEF Connect, R!Connect
<1>5. CASE Subscribe
  BY <1>5 DEF Subscribe, R!Subscribe, R!Goto, Pending
<1>6. CASE Lose
  BY <1>6, DispatchPending DEF Lose, R!LoseConnection, R!Event, R!Text
<1>7. CASE Receive
  <2>1. /\ wire # <<>> /\ wire' = wire /\ pc' = "effects" /\ back' = "select"
        /\ todo' = R!HandleEvent(state, "json").effects
    BY <1>7 DEF Receive, R!Dispatch, exchange
  <2> QED BY <2>1, EffectsOf DEF Pending, R!Event, R!Text
<1>8. CASE ReceiveOtherText
  BY <1>8, DispatchPending DEF ReceiveOtherText, R!Event, R!Text
<1>9. CASE Forward
  BY <1>9, CarriedPending DEF Forward, R!ForwardJson, R!Effects, R!Carried
<1>10. CASE Observe \/ Publish
  BY <1>1, <1>10 DEF Observe, Publish, Confirm, session
<1>11. CASE Bind \/ Recv \/ Return
  BY <1>1, <1>11 DEF Bind, Recv, Return, session, exchange
<1>12. CASE UNCHANGED vars
  BY <1>1, <1>12 DEF vars
<1> QED BY <1>2, <1>3, <1>4, <1>5, <1>6, <1>7, <1>8, <1>9, <1>10, <1>11, <1>12,
           SessionPending DEF LiveNext

(* So there is a message to forward.                                       *)
LEMMA ForwardsOne == ASSUME Pending, Forward PROVE wire # <<>>
<1>1. todo # <<>> /\ Head(todo) = "ForwardJson"
  BY DEF Forward, R!ForwardJson, R!Effects
<1>2. todo \in Seq(Others) => Head(todo) \in Others
  BY <1>1
<1> QED BY <1>1, <1>2 DEF Pending, Others

-----------------------------------------------------------------------------
(***************************************************************************)
(* A book message holds each level of the exchange's book once: laid over  *)
(* an empty book, it makes that book.                                      *)
(***************************************************************************)
LEMMA LevelsOfSide ==
    ASSUME NEW side, IsSide(side)
    PROVE  /\ LevelsOf(side) \in Seq(O!Bids!Level)
           /\ DistinctPrices(LevelsOf(side))
           /\ Overlay(<<>>, LevelsOf(side)) = side
<1> DEFINE L == {[price |-> p, size |-> side[p]] : p \in DOMAIN side}
           n == Cardinality(L)
           ls == LevelsOf(side)
<1>1. side = [p \in DOMAIN side |-> side[p]] /\ \A p \in DOMAIN side : side[p] \in Size \ {0}
  BY DEF IsSide
<1>2. IsFiniteSet(L) /\ n \in Nat
  <2> DEFINE f == [p \in DOMAIN side |-> [price |-> p, size |-> side[p]]]
  <2>1. f \in Surjection(DOMAIN side, L)
    BY DEF Surjection
  <2> HIDE DEF f, L
  <2>2. IsFiniteSet(L)
    BY <2>1, FS_Surjection DEF IsSide
  <2> QED BY <2>2, FS_CardinalityType
<1>3. ls \in Injection(1 .. n, L) /\ ls \in Surjection(1 .. n, L)
  <2> HIDE DEF L
  <2>1. ExistsBijection(1 .. n, L)
    BY <1>2, FS_CardinalityType
  <2>2. PICK f : f \in Bijection(1 .. n, L)
    BY <2>1 DEF ExistsBijection
  <2>3. \E g \in [1 .. n -> L] : IsInjective(g)
    BY <2>2 DEF Bijection, Injection
  <2>4. SetToSeq(L) \in [1 .. n -> L] /\ IsInjective(SetToSeq(L))
    BY <2>3 DEF SetToSeq
  <2>5. ls \in Injection(1 .. n, L)
    BY <2>4 DEF Injection, LevelsOf, L
  <2>6. IsFiniteSet(1 .. n) /\ Cardinality(1 .. n) = n
    BY <1>2, FS_Interval
  <2> HIDE DEF ls
  <2> QED BY <1>2, <2>5, <2>6, FS_Injection
<1> HIDE DEF ls
<1>4. /\ \A k \in 1 .. n : \E p \in DOMAIN side : ls[k] = [price |-> p, size |-> side[p]]
      /\ \A p \in DOMAIN side : \E k \in 1 .. n : ls[k] = [price |-> p, size |-> side[p]]
      /\ \A j, k \in 1 .. n : ls[j] = ls[k] => j = k
      /\ ls \in [1 .. n -> L] /\ DOMAIN ls = 1 .. n
  BY <1>3 DEF Injection, Surjection, IsInjective
<1>5. ls \in Seq(O!Bids!Level)
  <2>1. L \subseteq O!Bids!Level
    BY <1>1 DEF O!Bids!Level, IsSide
  <2> HIDE DEF L
  <2> QED BY <1>2, <1>4, <2>1
<1>6. DistinctPrices(ls)
  BY <1>4 DEF DistinctPrices
<1>7. Overlay(<<>>, ls) = side
  <2>1. \A k \in DOMAIN ls : ls[k].price \in DOMAIN side /\ side[ls[k].price] = ls[k].size
    BY <1>4
  <2>2. ASSUME NEW p \in DOMAIN side
        PROVE  \E k \in DOMAIN ls : ls[k].size # 0 /\ ls[k].price = p
    <3>1. PICK k \in 1 .. n : ls[k] = [price |-> p, size |-> side[p]]
      BY <1>4
    <3>2. ls[k].price = p /\ ls[k].size = side[p] /\ side[p] # 0
      BY <1>1, <3>1
    <3> QED BY <1>4, <3>2
  <2> QED BY <1>1, <1>6, <2>1, <2>2, OverlayIs
<1> QED BY <1>5, <1>6, <1>7 DEF ls

(* So it is one of the messages above, and makes the exchange's book.      *)
LEMMA BookMessageIs ==
    ASSUME NEW a \in Asset, IsBook(xbook[a])
    PROVE  /\ BookMessage(a) \in BookSent
           /\ BookMessage(a).event_type = "book" /\ BookMessage(a).asset_id = a
           /\ [bids |-> O!Bids!Overlay(<<>>, BookMessage(a).bids),
               asks |-> O!Asks!Overlay(<<>>, BookMessage(a).asks)] = xbook[a]
<1>1. IsSide(xbook[a].bids) /\ IsSide(xbook[a].asks)
      /\ xbook[a] = [bids |-> xbook[a].bids, asks |-> xbook[a].asks]
  BY DEF IsBook
<1>2. /\ LevelsOf(xbook[a].bids) \in Seq(O!Bids!Level)
      /\ DistinctPrices(LevelsOf(xbook[a].bids))
      /\ Overlay(<<>>, LevelsOf(xbook[a].bids)) = xbook[a].bids
      /\ LevelsOf(xbook[a].asks) \in Seq(O!Bids!Level)
      /\ DistinctPrices(LevelsOf(xbook[a].asks))
      /\ Overlay(<<>>, LevelsOf(xbook[a].asks)) = xbook[a].asks
  BY <1>1, LevelsOfSide
<1> QED BY <1>1, <1>2, SameLevels DEF BookMessage, BookSent

(* A change keeps a book a book, and so do changes.                        *)
LEMMA WithChangeIsBook ==
    ASSUME NEW b, IsBook(b), NEW c \in O!Change
    PROVE  IsBook(O!WithChange(b, c))
<1>1. ASSUME NEW side, IsSide(side) PROVE IsSide(WithLevel(side, c.price, c.size))
  <2>1. c.price \in Price /\ c.size \in Size
    BY DEF O!Change
  <2>2. CASE c.size = 0
    <3>1. WithLevel(side, c.price, c.size) = [q \in DOMAIN side \ {c.price} |-> side[q]]
      BY <2>2 DEF WithLevel
    <3>2. IsFiniteSet(DOMAIN side \ {c.price})
      BY <1>1, FS_RemoveElement DEF IsSide
    <3> QED BY <1>1, <3>1, <3>2 DEF IsSide
  <2>3. CASE c.size # 0
    <3>1. WithLevel(side, c.price, c.size)
          = [q \in DOMAIN side \cup {c.price} |-> IF q = c.price THEN c.size ELSE side[q]]
      BY <2>3 DEF WithLevel
    <3>2. IsFiniteSet(DOMAIN side \cup {c.price})
      BY <1>1, FS_AddElement DEF IsSide
    <3> QED BY <1>1, <2>1, <2>3, <3>1, <3>2 DEF IsSide
  <2> QED BY <2>2, <2>3
<1>2. /\ b = [bids |-> b.bids, asks |-> b.asks]
      /\ IsSide(WithLevel(b.bids, c.price, c.size)) /\ IsSide(b.bids)
      /\ IsSide(WithLevel(b.asks, c.price, c.size)) /\ IsSide(b.asks)
  BY <1>1 DEF IsBook
<1>3. \/ O!WithChange(b, c) = [bids |-> WithLevel(b.bids, c.price, c.size), asks |-> b.asks]
      \/ O!WithChange(b, c) = [bids |-> b.bids, asks |-> WithLevel(b.asks, c.price, c.size)]
  BY <1>2, SameLevels DEF O!WithChange
<1> HIDE DEF IsSide
<1> QED BY <1>2, <1>3 DEF IsBook

LEMMA WithChangesIsBook ==
    ASSUME NEW b, IsBook(b), NEW cs \in Seq(O!Change)
    PROVE  IsBook(WithChanges(b, cs))
<1>1. Len(cs) \in Nat /\ \A k \in 1 .. Len(cs) : cs[k] \in O!Change
  BY LenProperties, ElementOfSeq
<1>2. PICK f : ChangesRun(f, b, Len(cs), cs)
  BY <1>1, ChangesRunExists
<1> DEFINE T == {k \in 0 .. Len(cs) : IsBook(f[k])}
<1>3. \A k \in 0 .. Len(cs) : f[k] = IF k = 0 THEN b ELSE O!WithChange(f[k - 1], cs[k])
  BY <1>2 DEF ChangesRun
<1>4. 0 \in T
  BY <1>1, <1>3
<1>5. ASSUME NEW k \in 0 .. Len(cs), k \in T, k # Len(cs) PROVE k + 1 \in T
  <2>1. k + 1 \in 1 .. Len(cs) /\ k + 1 \in 0 .. Len(cs) /\ k + 1 # 0 /\ (k + 1) - 1 = k
    BY <1>1, <1>5
  <2>2. f[k + 1] = O!WithChange(f[k], cs[k + 1])
    BY <1>3, <2>1
  <2>3. IsBook(O!WithChange(f[k], cs[k + 1]))
    BY <1>1, <1>5, <2>1, WithChangeIsBook
  <2> QED BY <2>1, <2>2, <2>3
<1>6. T = 0 .. Len(cs)
  <2> HIDE DEF T
  <2>1. T \in SUBSET (0 .. Len(cs))
    BY DEF T
  <2> QED BY <1>1, <1>4, <1>5, <2>1, UpTo
<1>7. Len(cs) \in T
  BY <1>1, <1>6
<1> QED BY <1>1, <1>2, <1>7, ChangesRunEnds

(* The changes that the exchange may send are of the kind above.           *)
LEMMA DeltaIs ==
    ASSUME NEW delta \in Deltas
    PROVE  /\ delta \in Rest /\ delta # <<>> /\ delta \in Seq(O!Change)
           /\ delta[1].asset_id \in Asset /\ 1 \in DOMAIN delta
           /\ \A k \in DOMAIN delta : delta[k].asset_id = delta[1].asset_id
           /\ ChangeMessage(delta) \in ChangeSent
           /\ ChangeMessage(delta).event_type = "price_change"
           /\ ChangeMessage(delta).price_changes = delta
<1>1. /\ delta \in Seq(O!Change) /\ delta # <<>>
      /\ \A k \in DOMAIN delta : /\ delta[k].asset_id = delta[1].asset_id
                                 /\ delta[k].parses /\ delta[k].side # "?"
  BY LiveAssumption
<1>2. 1 \in DOMAIN delta /\ delta[1] \in O!Change
  BY <1>1, EmptySeq
<1>3. delta[1].asset_id \in Asset
  BY <1>2 DEF O!Change
<1>4. delta \in Rest
  BY <1>1 DEF Rest, OneAsset
<1>5. ChangeMessage(delta) = [event_type |-> "price_change", price_changes |-> delta]
  BY DEF ChangeMessage
<1> QED BY <1>1, <1>2, <1>3, <1>4, <1>5 DEF ChangeSent

-----------------------------------------------------------------------------
(***************************************************************************)
(* What there is at both ends and on the way: the observer's own invariant *)
(* (what it published is current), messages of the kinds above, and books. *)
(***************************************************************************)
Typed ==
    /\ OP!PInv
    /\ wire \in Seq(LiveMessage) /\ inbox \in Seq(LiveMessage) /\ changes \in Rest
    /\ DOMAIN xbook = Asset /\ \A a \in Asset : IsBook(xbook[a])
    /\ snapped \subseteq Asset
    /\ Pending

LEMMA NoChangesLeft == <<>> \in Rest
BY DEF Rest, OneAsset

LEMMA TypedInit == LiveInit => Typed
<1> SUFFICES ASSUME LiveInit PROVE Typed
  OBVIOUS
<1>1. OP!ObserverInit
  BY DEF LiveInit, O!ObserverInit, OP!ObserverInit
<1>2. OP!PInv
  BY <1>1, OP!PInvInit, ContractKept, LiveAssumption
<1>3. xbook \in XBooks /\ snapped = {} /\ wire = <<>> /\ inbox = <<>> /\ changes = <<>>
  BY DEF LiveInit, O!ObserverInit
<1> QED BY <1>2, <1>3, LiveAssumption, NoChangesLeft, PendingInit DEF Typed


(* The steps of the live program are, of the observer, steps of Observer.  *)
LEMMA ObserverStep ==
    ASSUME Pending, wire \in Seq(LiveMessage), [LiveNext]_vars
    PROVE  [OP!ObserverNext]_OP!vars
<1>1. ASSUME UNCHANGED observer PROVE [OP!ObserverNext]_OP!vars
  BY <1>1 DEF observer, OP!vars
<1>2. CASE Exchange
  BY <1>1, <1>2 DEF Exchange, Change, End, SendBook
<1>3. CASE Signal \/ Session \/ Connect \/ Subscribe \/ Lose \/ Receive \/ ReceiveOtherText
  BY <1>1, <1>3 DEF Signal, Session, Connect, Subscribe, Lose, Receive, ReceiveOtherText
<1>4. CASE Forward
  <2>1. <<Head(wire)>> \in Seq(LiveMessage)
    BY <1>4, ForwardsOne
  <2>2. OP!Take(<<Head(wire)>>)
    BY <1>4, SameSteps DEF Forward
  <2> QED BY <2>1, <2>2 DEF OP!ObserverNext, OP!OnJsonMessage
<1>5. CASE Observe \/ Publish
  BY <1>5, SameSteps DEF Observe, Publish, OP!ObserverNext
<1>6. CASE Bind \/ Recv \/ Return
  BY <1>1, <1>6 DEF Bind, Recv, Return
<1>7. CASE UNCHANGED vars
  BY <1>1, <1>7 DEF vars, observer
<1> QED BY <1>2, <1>3, <1>4, <1>5, <1>6, <1>7 DEF LiveNext

(* What is left of a price_change.                                         *)
LEMMA TailOfRest ==
    ASSUME NEW cs \in Rest, cs # <<>>
    PROVE  /\ Tail(cs) \in Rest /\ Head(cs) \in O!Change /\ cs \in Seq(O!Change)
           /\ Head(cs).parses /\ Head(cs).side # "?" /\ Head(cs).asset_id \in Asset
           /\ \A k \in DOMAIN cs : cs[k].asset_id = Head(cs).asset_id
           /\ \A k \in DOMAIN Tail(cs) : Tail(cs)[k].asset_id = Head(cs).asset_id
           /\ 1 \in DOMAIN cs /\ cs[1] = Head(cs)
<1>1. cs \in Seq(O!Change) /\ OneAsset(cs)
      /\ \A k \in DOMAIN cs : cs[k].parses /\ cs[k].side # "?"
  BY DEF Rest
<1>2. /\ 1 \in DOMAIN cs /\ cs[1] = Head(cs)
      /\ \A k \in DOMAIN Tail(cs) : k + 1 \in DOMAIN cs /\ Tail(cs)[k] = cs[k + 1]
  BY <1>1, TailAt
<1>3. Head(cs) \in O!Change /\ Tail(cs) \in Seq(O!Change)
  BY <1>1
<1>4. Head(cs).asset_id \in Asset
  BY <1>3 DEF O!Change
<1>5. \A k \in DOMAIN cs : cs[k].asset_id = cs[1].asset_id
  BY <1>1, <1>2 DEF OneAsset
<1>6. Tail(cs) \in Rest
  <2>1. \A k \in DOMAIN Tail(cs) : Tail(cs)[k].parses /\ Tail(cs)[k].side # "?"
    BY <1>1, <1>2
  <2>2. OneAsset(Tail(cs))
    BY <1>2, <1>5 DEF OneAsset
  <2> QED BY <1>3, <2>1, <2>2 DEF Rest
<1> QED BY <1>1, <1>2, <1>3, <1>4, <1>5, <1>6

(* The two kinds of message.                                               *)
LEMMA MessageKinds ==
    ASSUME NEW m \in LiveMessage
    PROVE  /\ m.event_type = "book" => m \in BookSent
           /\ m.event_type = "price_change" =>
                 m.price_changes \in Rest /\ m = ChangeMessage(m.price_changes)
           /\ m.event_type \in {"book", "price_change"}
<1>1. CASE m \in BookSent
  BY <1>1 DEF BookSent
<1>2. CASE m \in ChangeSent
  BY <1>2 DEF ChangeSent, ChangeMessage
<1> QED BY <1>1, <1>2 DEF LiveMessage

LEMMA TypedKept == Typed /\ [LiveNext]_vars => Typed'
<1> SUFFICES ASSUME Typed, [LiveNext]_vars PROVE Typed'
  OBVIOUS
<1>1. OP!PInv' /\ Pending'
  <2>1. [OP!ObserverNext]_OP!vars
    BY ObserverStep DEF Typed
  <2>2. OP!PInv'
    BY <2>1, OP!PInvKeeps, ContractKept, LiveAssumption DEF Typed
  <2> QED BY <2>2, PendingKept DEF Typed
<1>2. ASSUME UNCHANGED <<inbox, changes>>, wire' \in Seq(LiveMessage), snapped' \subseteq Asset,
             DOMAIN xbook' = Asset, \A a \in Asset : IsBook(xbook'[a])
      PROVE  Typed'
  BY <1>1, <1>2 DEF Typed
<1>3. ASSUME UNCHANGED <<observer, exchange>> PROVE Typed'
  BY <1>2, <1>3 DEF Typed, observer, exchange
<1>4. CASE Change
  <2>1. PICK delta \in Deltas :
           /\ xbook' = [xbook EXCEPT ![delta[1].asset_id] = WithChanges(@, delta)]
           /\ wire' = wire \/ wire' = Append(wire, ChangeMessage(delta))
    BY <1>4 DEF Change
  <2>2. wire' \in Seq(LiveMessage)
    <3>1. ChangeMessage(delta) \in LiveMessage
      BY DeltaIs DEF LiveMessage
    <3>2. wire \in Seq(LiveMessage)
      BY DEF Typed
    <3>3. Append(wire, ChangeMessage(delta)) \in Seq(LiveMessage)
      BY <3>1, <3>2, AppendProperties
    <3> QED BY <2>1, <3>2, <3>3
  <2>3. DOMAIN xbook' = Asset /\ \A a \in Asset : IsBook(xbook'[a])
    <3>1. IsBook(WithChanges(xbook[delta[1].asset_id], delta))
      BY DeltaIs, WithChangesIsBook DEF Typed
    <3> QED BY <2>1, <3>1 DEF Typed
  <2> QED BY <1>2, <1>4, <2>2, <2>3 DEF Change, observer, Typed
<1>5. CASE \E a \in Asset : SendBook(a)
  <2>1. PICK a \in Asset : SendBook(a)
    BY <1>5
  <2>2. BookMessage(a) \in LiveMessage
    BY BookMessageIs DEF Typed, LiveMessage
  <2>3. wire' \in Seq(LiveMessage)
    BY <2>1, <2>2, AppendProperties DEF SendBook, Typed
  <2>4. /\ UNCHANGED <<inbox, changes, xbook>> /\ snapped' = snapped \cup {a}
    BY <2>1 DEF SendBook, observer
  <2> QED BY <1>2, <2>3, <2>4 DEF Typed
<1>6. CASE End \/ Subscribe \/ Lose
  BY <1>2, <1>6 DEF End, Subscribe, Lose, observer, Typed
<1>7. CASE Connect
  <2>1. /\ wire' = <<>> \/ wire' = wire
        /\ snapped' = {} \/ snapped' = snapped
        /\ UNCHANGED <<inbox, changes, xbook>>
    BY <1>7 DEF Connect, observer
  <2>2. wire' \in Seq(LiveMessage)
    <3>1. <<>> \in Seq(LiveMessage)
      OBVIOUS
    <3> QED BY <2>1, <3>1 DEF Typed
  <2>3. snapped' \subseteq Asset
    BY <2>1 DEF Typed
  <2> QED BY <1>2, <2>1, <2>2, <2>3 DEF Typed
<1>8. CASE Forward
  <2>1. /\ inbox' = <<Head(wire)>> /\ wire' = Tail(wire) /\ wire # <<>>
        /\ UNCHANGED <<changes, xbook, snapped>>
    BY <1>8, ForwardsOne DEF Forward, O!Take, O!loop, Typed
  <2> QED BY <1>1, <2>1 DEF Typed
<1>9. CASE Observe \/ Publish
  <2>1. UNCHANGED <<wire, xbook, snapped>>
    BY <1>9 DEF Observe, Publish, Confirm
  <2>2. inbox' \in Seq(LiveMessage) /\ changes' \in Rest
    <3>1. CASE O!HandlePriceChange
      <4>1. Head(inbox) \in LiveMessage /\ Tail(inbox) \in Seq(LiveMessage)
        BY <3>1 DEF O!HandlePriceChange, O!Handling, Typed
      <4> QED BY <3>1, <4>1, MessageKinds DEF O!HandlePriceChange, O!Handling
    <3>2. CASE O!HandleBook
      BY <3>2 DEF O!HandleBook, O!Handling, O!loop, Typed
    <3>3. CASE O!SkipChange \/ O!ApplyChange
      BY <3>3, TailOfRest DEF O!SkipChange, O!ApplyChange, Typed
    <3>4. CASE O!PriceChangeDone
      BY <3>4 DEF O!PriceChangeDone, Typed
    <3> QED BY <1>9, <3>1, <3>2, <3>3, <3>4 DEF Observe, Publish
  <2> QED BY <1>1, <2>1, <2>2 DEF Typed
<1>10. CASE Signal \/ Session \/ Receive \/ ReceiveOtherText \/ Bind \/ Recv \/ Return
  BY <1>3, <1>10 DEF Signal, Session, Receive, ReceiveOtherText, Bind, Recv, Return
<1>11. CASE UNCHANGED vars
  BY <1>3, <1>11 DEF vars, observer, exchange
<1> QED BY <1>4, <1>5, <1>6, <1>7, <1>8, <1>9, <1>10, <1>11 DEF LiveNext, Exchange

-----------------------------------------------------------------------------
(***************************************************************************)
(* What the steps do to what is in flight: a message that is sent goes to  *)
(* its end, one that is handled leaves its beginning, a change that is     *)
(* handled leaves its first message, and nothing else happens to it.       *)
(***************************************************************************)
First == IF looping THEN <<ChangeMessage(changes)>> ELSE <<>>

LEMMA FlightTyped ==
    ASSUME Typed
    PROVE  /\ InFlight = First \o (inbox \o wire)
           /\ InFlight \in Seq(LiveMessage) /\ First \in Seq(LiveMessage)
           /\ inbox \o wire \in Seq(LiveMessage)
           /\ ~looping => InFlight = inbox \o wire
           /\ ~looping /\ inbox = <<>> => InFlight = wire
           /\ looping \in BOOLEAN
<1>1. looping \in BOOLEAN /\ wire \in Seq(LiveMessage) /\ inbox \in Seq(LiveMessage)
  BY DEF Typed, OP!PInv, OP!OInv, OP!TypeOK
<1>2. ChangeMessage(changes) \in LiveMessage
  BY DEF Typed, ChangeMessage, ChangeSent, LiveMessage
<1>3. First \in Seq(LiveMessage)
  <2>1. <<ChangeMessage(changes)>> \in Seq(LiveMessage) /\ <<>> \in Seq(LiveMessage)
    BY <1>2
  <2> QED BY <2>1 DEF First
<1>4. InFlight = First \o (inbox \o wire) /\ inbox \o wire \in Seq(LiveMessage)
  <2>1. InFlight = (First \o inbox) \o wire
    BY DEF InFlight, First
  <2>2. (First \o inbox) \o wire = First \o (inbox \o wire)
    BY <1>1, <1>3, ConcatAssociative
  <2>3. inbox \o wire \in Seq(LiveMessage)
    BY <1>1, ConcatProperties
  <2> QED BY <2>1, <2>2, <2>3
<1>5. First \o (inbox \o wire) \in Seq(LiveMessage)
  BY <1>3, <1>4, ConcatProperties
<1>6. ~looping => InFlight = inbox \o wire
  BY <1>4, ConcatEmptySeq DEF First
<1>7. inbox = <<>> => inbox \o wire = wire
  BY <1>1, ConcatEmptySeq
<1> QED BY <1>1, <1>3, <1>4, <1>5, <1>6, <1>7

LEMMA FirstOfConcat ==
    ASSUME NEW S, NEW m \in S, NEW t \in Seq(S)
    PROVE  /\ <<m>> \o t \in Seq(S) /\ <<m>> \o t # <<>>
           /\ Head(<<m>> \o t) = m /\ Tail(<<m>> \o t) = t
<1>1. <<m>> \in Seq(S) /\ Len(<<m>>) = 1 /\ <<m>>[1] = m
  OBVIOUS
<1>2. /\ <<m>> \o t \in Seq(S) /\ Len(<<m>> \o t) = 1 + Len(t) /\ Len(t) \in Nat
      /\ \A i \in 1 .. 1 + Len(t) : (<<m>> \o t)[i] = IF i <= 1 THEN <<m>>[i] ELSE t[i - 1]
  BY <1>1, ConcatProperties, LenProperties
<1> DEFINE u == <<m>> \o t
<1>3. u \in Seq(S) /\ Len(u) = 1 + Len(t) /\ u[1] = m /\ \A i \in 1 .. Len(t) : u[i + 1] = t[i]
  <2>1. u[1] = m
    BY <1>1, <1>2
  <2>2. ASSUME NEW i \in 1 .. Len(t) PROVE u[i + 1] = t[i]
    <3>1. i + 1 \in 1 .. 1 + Len(t) /\ ~(i + 1 <= 1) /\ (i + 1) - 1 = i
      BY <1>2
    <3> QED BY <1>2, <3>1
  <2> QED BY <1>2, <2>1, <2>2
<1> HIDE DEF u
<1>4. u # <<>>
  BY <1>2, <1>3, EmptySeq
<1>5. Head(u) = m
  BY <1>3, <1>4, TailAt
<1>6. Tail(u) = t
  <2>1. /\ Tail(u) \in Seq(S) /\ Len(Tail(u)) = Len(u) - 1
        /\ \A i \in 1 .. Len(Tail(u)) : Tail(u)[i] = u[i + 1]
    BY <1>3, <1>4, HeadTailProperties
  <2>2. Len(Tail(u)) = Len(t)
    BY <1>2, <1>3, <2>1
  <2>3. \A i \in 1 .. Len(Tail(u)) : Tail(u)[i] = t[i]
    BY <1>3, <2>1, <2>2
  <2> QED BY <2>1, <2>2, <2>3, SeqEqual
<1> QED BY <1>3, <1>4, <1>5, <1>6 DEF u

(* A sequence that is not empty is its first element and the others.       *)
LEMMA FirstAndTail ==
    ASSUME NEW S, NEW s \in Seq(S), s # <<>>
    PROVE  s = <<Head(s)>> \o Tail(s) /\ Head(s) \in S /\ Tail(s) \in Seq(S)
<1>1. Head(s) \in S /\ Tail(s) \in Seq(S) /\ Len(s) \in Nat \ {0}
  BY HeadTailProperties, EmptySeq
<1>2. <<Head(s)>> \o Tail(s) \in Seq(S)
  BY <1>1, FirstOfConcat
<1>3. Len(<<Head(s)>> \o Tail(s)) = Len(s) /\
      \A i \in 1 .. Len(s) : (<<Head(s)>> \o Tail(s))[i] = s[i]
  <2>1. /\ <<Head(s)>> \in Seq(S) /\ Len(<<Head(s)>>) = 1 /\ <<Head(s)>>[1] = Head(s)
        /\ Head(s) = s[1]
        /\ Len(Tail(s)) = Len(s) - 1 /\ \A i \in 1 .. Len(Tail(s)) : Tail(s)[i] = s[i + 1]
    BY <1>1, HeadTailProperties
  <2>2. /\ Len(<<Head(s)>> \o Tail(s)) = 1 + Len(Tail(s))
        /\ \A i \in 1 .. 1 + Len(Tail(s)) : (<<Head(s)>> \o Tail(s))[i]
                = IF i <= 1 THEN <<Head(s)>>[i] ELSE Tail(s)[i - 1]
    BY <1>1, <2>1, ConcatProperties
  <2>3. ASSUME NEW i \in 1 .. Len(s) PROVE (<<Head(s)>> \o Tail(s))[i] = s[i]
    <3>1. CASE i = 1
      BY <1>1, <2>1, <2>2, <3>1
    <3>2. CASE i # 1
      <4>1. /\ i \in 1 .. 1 + Len(Tail(s)) /\ ~(i <= 1) /\ i - 1 \in 1 .. Len(Tail(s))
            /\ (i - 1) + 1 = i
        BY <1>1, <2>1, <3>2
      <4> QED BY <2>1, <2>2, <4>1
    <3> QED BY <3>1, <3>2
  <2> QED BY <1>1, <2>1, <2>2, <2>3
<1> QED BY <1>1, <1>2, <1>3, SeqEqual

LEMMA FlightKept ==
    ASSUME UNCHANGED <<looping, changes, inbox, wire>>
    PROVE  InFlight' = InFlight
BY DEF InFlight

LEMMA FlightSent ==
    ASSUME Typed, UNCHANGED <<looping, changes, inbox>>,
           NEW m \in LiveMessage, wire' = Append(wire, m)
    PROVE  InFlight' = Append(InFlight, m)
<1> DEFINE front == First \o inbox
<1>1. /\ First \in Seq(LiveMessage) /\ inbox \in Seq(LiveMessage) /\ wire \in Seq(LiveMessage)
      /\ front \in Seq(LiveMessage) /\ <<m>> \in Seq(LiveMessage)
  BY FlightTyped, ConcatProperties DEF Typed
<1>2. InFlight = front \o wire /\ InFlight' = front \o wire'
  BY DEF InFlight, First
<1>3. InFlight \in Seq(LiveMessage)
  BY FlightTyped
<1> HIDE DEF front
<1>4. wire' = wire \o <<m>>
  BY <1>1, AppendIsConcat
<1>5. InFlight' = InFlight \o <<m>>
  BY <1>1, <1>2, <1>4, ConcatAssociative
<1>6. Append(InFlight, m) = InFlight \o <<m>>
  BY <1>3, AppendIsConcat
<1> QED BY <1>5, <1>6

LEMMA FlightForwarded ==
    ASSUME Typed, Forward
    PROVE  InFlight' = InFlight /\ UNCHANGED <<books, xbook, link, snapped, early, confirmed>>
<1>1. /\ wire # <<>> /\ inbox = <<>> /\ ~looping /\ ~looping'
      /\ inbox' = <<Head(wire)>> /\ wire' = Tail(wire)
      /\ UNCHANGED <<books, xbook, link, snapped, early, confirmed>>
  BY ForwardsOne DEF Forward, O!Take, O!Handled, O!loop, Typed
<1>2. wire \in Seq(LiveMessage)
  BY DEF Typed
<1>3. InFlight = wire
  BY <1>1, FlightTyped
<1>4. /\ <<Head(wire)>> \in Seq(LiveMessage) /\ Tail(wire) \in Seq(LiveMessage)
      /\ wire = <<Head(wire)>> \o Tail(wire)
  BY <1>1, <1>2, FirstAndTail
<1>5. InFlight' = (<<>> \o <<Head(wire)>>) \o Tail(wire)
  BY <1>1 DEF InFlight
<1>6. <<>> \o <<Head(wire)>> = <<Head(wire)>>
  BY <1>4, ConcatEmptySeq
<1> QED BY <1>1, <1>3, <1>4, <1>5, <1>6

LEMMA FlightTaken ==
    ASSUME Typed, O!HandlePriceChange, UNCHANGED wire
    PROVE  InFlight' = InFlight /\ books' = books
<1>1. /\ inbox # <<>> /\ ~looping /\ looping' /\ Head(inbox).event_type = "price_change"
      /\ changes' = Head(inbox).price_changes /\ inbox' = Tail(inbox) /\ books' = books
  BY DEF O!HandlePriceChange, O!Handling
<1>2. inbox \in Seq(LiveMessage) /\ wire \in Seq(LiveMessage)
  BY DEF Typed
<1>3. /\ inbox = <<Head(inbox)>> \o Tail(inbox) /\ Tail(inbox) \in Seq(LiveMessage)
      /\ Head(inbox) \in LiveMessage
  BY <1>1, <1>2, FirstAndTail
<1>4. Head(inbox) = ChangeMessage(changes')
  BY <1>1, <1>3, MessageKinds
<1>5. InFlight' = (<<ChangeMessage(changes')>> \o Tail(inbox)) \o wire
  BY <1>1 DEF InFlight, ChangeMessage
<1>6. InFlight = inbox \o wire
  BY <1>1, FlightTyped
<1> QED BY <1>1, <1>3, <1>4, <1>5, <1>6

(* The first message is handled.                                           *)
LEMMA FlightHandled ==
    ASSUME Typed, O!HandleBook, UNCHANGED wire
    PROVE  /\ InFlight # <<>> /\ Head(InFlight) = Head(inbox) /\ InFlight' = Tail(InFlight)
           /\ Head(inbox) \in BookSent /\ Head(inbox).event_type = "book"
           /\ Head(inbox).asset_id \in Asset
           /\ DOMAIN books' = DOMAIN books \cup {Head(inbox).asset_id}
           /\ \A a \in DOMAIN books' :
                  books'[a] = IF a = Head(inbox).asset_id
                              THEN [bids |-> O!Bids!Overlay(<<>>, Head(inbox).bids),
                                    asks |-> O!Asks!Overlay(<<>>, Head(inbox).asks)]
                              ELSE books[a]
<1>1. /\ inbox # <<>> /\ ~looping /\ ~looping' /\ Head(inbox).event_type = "book"
      /\ inbox' = Tail(inbox) /\ Head(inbox).asset_id \in Asset
      /\ books' = O!Put(books, Head(inbox).asset_id,
                        [bids |-> O!Bids!Overlay(<<>>, Head(inbox).bids),
                         asks |-> O!Asks!Overlay(<<>>, Head(inbox).asks)])
  BY DEF O!HandleBook, O!Handling, O!loop
<1>2. inbox \in Seq(LiveMessage) /\ wire \in Seq(LiveMessage)
  BY DEF Typed
<1>3. /\ inbox = <<Head(inbox)>> \o Tail(inbox) /\ Tail(inbox) \in Seq(LiveMessage)
      /\ Head(inbox) \in LiveMessage /\ <<Head(inbox)>> \in Seq(LiveMessage)
  BY <1>1, <1>2, FirstAndTail
<1>4. Head(inbox) \in BookSent
  BY <1>1, <1>3, MessageKinds
<1>5. InFlight' = Tail(inbox) \o wire /\ Tail(inbox) \o wire \in Seq(LiveMessage)
  <2>1. InFlight' = (<<>> \o Tail(inbox)) \o wire
    BY <1>1 DEF InFlight
  <2>2. <<>> \o Tail(inbox) = Tail(inbox)
    BY <1>3, ConcatEmptySeq
  <2> QED BY <1>2, <1>3, <2>1, <2>2, ConcatProperties
<1>6. InFlight = <<Head(inbox)>> \o (Tail(inbox) \o wire)
  <2>1. InFlight = (<<Head(inbox)>> \o Tail(inbox)) \o wire
    BY <1>1, <1>3, FlightTyped
  <2> QED BY <1>2, <1>3, <2>1, ConcatAssociative
<1>7. InFlight # <<>> /\ Head(InFlight) = Head(inbox) /\ Tail(InFlight) = InFlight'
  BY <1>3, <1>5, <1>6, FirstOfConcat
<1>8. /\ DOMAIN books' = DOMAIN books \cup {Head(inbox).asset_id}
      /\ \A a \in DOMAIN books' :
             books'[a] = IF a = Head(inbox).asset_id
                         THEN [bids |-> O!Bids!Overlay(<<>>, Head(inbox).bids),
                               asks |-> O!Asks!Overlay(<<>>, Head(inbox).asks)]
                         ELSE books[a]
  BY <1>1 DEF O!Put
<1> QED BY <1>1, <1>4, <1>7, <1>8

(* The price_change under way is the first in flight.                      *)
LEMMA FlightLooping ==
    ASSUME Typed, looping
    PROVE  /\ InFlight # <<>> /\ Head(InFlight) = ChangeMessage(changes)
           /\ InFlight = <<ChangeMessage(changes)>> \o Tail(InFlight)
           /\ Tail(InFlight) = inbox \o wire
           /\ ChangeMessage(changes) \in LiveMessage /\ Tail(InFlight) \in Seq(LiveMessage)
<1>1. ChangeMessage(changes) \in LiveMessage
  BY DEF Typed, ChangeMessage, ChangeSent, LiveMessage
<1>2. InFlight = <<ChangeMessage(changes)>> \o (inbox \o wire)
      /\ inbox \o wire \in Seq(LiveMessage)
  BY FlightTyped DEF First
<1> QED BY <1>1, <1>2, FirstOfConcat

LEMMA FlightTrimmed ==
    ASSUME Typed, looping, looping', UNCHANGED <<inbox, wire>>
    PROVE  InFlight' = <<ChangeMessage(changes')>> \o Tail(InFlight)
<1>1. Tail(InFlight) = inbox \o wire
  BY FlightLooping
<1>2. InFlight' = (<<ChangeMessage(changes')>> \o inbox) \o wire
  BY DEF InFlight, ChangeMessage
<1>3. /\ inbox \in Seq(LiveMessage) /\ wire \in Seq(LiveMessage)
  BY DEF Typed
<1>4. \A m : (<<m>> \o inbox) \o wire = <<m>> \o (inbox \o wire)
  <2> SUFFICES ASSUME NEW m PROVE (<<m>> \o inbox) \o wire = <<m>> \o (inbox \o wire)
    OBVIOUS
  <2> DEFINE S == LiveMessage \cup {m}
  <2>1. <<m>> \in Seq(S) /\ inbox \in Seq(S) /\ wire \in Seq(S)
    BY <1>3
  <2> HIDE DEF S
  <2> QED BY <2>1, ConcatAssociative
<1> QED BY <1>1, <1>2, <1>4

LEMMA FlightDone ==
    ASSUME Typed, O!PriceChangeDone, UNCHANGED wire
    PROVE  /\ InFlight # <<>> /\ Head(InFlight) = ChangeMessage(<<>>)
           /\ InFlight' = Tail(InFlight) /\ books' = books
<1>1. looping /\ changes = <<>> /\ ~looping' /\ UNCHANGED <<books, inbox, wire>>
  BY DEF O!PriceChangeDone
<1>2. InFlight' = (<<>> \o inbox) \o wire
  BY <1>1 DEF InFlight
<1>3. <<>> \o inbox = inbox
  BY ConcatEmptySeq DEF Typed
<1> QED BY <1>1, <1>2, <1>3, FlightLooping

-----------------------------------------------------------------------------
(***************************************************************************)
(* What is in flight makes the observer's books the exchange's.  Every     *)
(* step of the observer carries out the first of it, or of its changes, so *)
(* that what it makes stays the same; every step of the exchange does to   *)
(* its book what the message it appends will do.                           *)
(***************************************************************************)
Synced == /\ InSync
          /\ link = "open" => snapped = {}

(* What a price_change makes of an asset without a book, and of one that   *)
(* has one.                                                                *)
LEMMA ArrivedNowhere ==
    \A cs, a : Arrived(<<>>, a, ChangeMessage(cs)) = <<>>
<1>1. \A cs : ChangeMessage(cs).event_type # "book"
  BY DEF ChangeMessage
<1> QED BY <1>1 DEF Arrived

LEMMA ArrivedChange ==
    ASSUME NEW cs \in Rest, NEW a, NEW b
    PROVE  /\ cs = <<>> => Arrived(<<b>>, a, ChangeMessage(cs)) = <<b>>
           /\ cs # <<>> /\ Head(cs).asset_id # a
              => Arrived(<<b>>, a, ChangeMessage(cs)) = <<b>>
           /\ cs # <<>> /\ Head(cs).asset_id = a
              => Arrived(<<b>>, a, ChangeMessage(cs)) = <<WithChanges(b, cs)>>
<1>1. /\ ChangeMessage(cs).event_type # "book"
      /\ ChangeMessage(cs).price_changes = cs
  BY DEF ChangeMessage
<1>2. <<b>> # <<>> /\ <<b>>[1] = b
  OBVIOUS
<1>3. CASE cs = <<>>
  <2>1. Arrived(<<b>>, a, ChangeMessage(cs)) = <<WithChanges(b, cs)>>
    BY <1>1, <1>2, <1>3 DEF Arrived
  <2> QED BY <1>1, <1>3, <2>1, NoChanges DEF Arrived
<1>4. CASE cs # <<>>
  <2>1. 1 \in DOMAIN cs /\ cs[1] = Head(cs)
        /\ \A k \in DOMAIN cs : cs[k].asset_id = Head(cs).asset_id
    BY <1>4, TailOfRest
  <2> QED BY <1>1, <1>2, <1>4, <2>1 DEF Arrived
<1> QED BY <1>3, <1>4

(* Carrying out the first change leaves what the message makes as it is.   *)
LEMMA ChangeCarriedOut ==
    ASSUME NEW cs \in Rest, cs # <<>>, NEW a, NEW b
    PROVE  /\ Head(cs).asset_id = a =>
                 Arrived(<<b>>, a, ChangeMessage(cs))
                 = Arrived(<<O!WithChange(b, Head(cs))>>, a, ChangeMessage(Tail(cs)))
           /\ Head(cs).asset_id # a =>
                 Arrived(<<b>>, a, ChangeMessage(cs))
                 = Arrived(<<b>>, a, ChangeMessage(Tail(cs)))
<1>1. /\ Tail(cs) \in Rest /\ cs \in Seq(O!Change)
      /\ \A k \in DOMAIN Tail(cs) : Tail(cs)[k].asset_id = Head(cs).asset_id
  BY TailOfRest
<1>2. Tail(cs) # <<>> => Head(Tail(cs)).asset_id = Head(cs).asset_id
  BY <1>1, TailOfRest
<1>3. CASE Head(cs).asset_id = a
  <2> DEFINE new == O!WithChange(b, Head(cs))
  <2>1. Arrived(<<b>>, a, ChangeMessage(cs)) = <<WithChanges(b, cs)>>
    BY <1>3, ArrivedChange
  <2>2. WithChanges(b, cs) = WithChanges(new, Tail(cs))
    BY <1>1, FirstChange
  <2> HIDE DEF new
  <2>3. CASE Tail(cs) = <<>>
    <3>1. \A x : Arrived(<<x>>, a, ChangeMessage(<<>>)) = <<x>>
      BY NoChangesLeft, ArrivedChange
    <3>2. WithChanges(new, Tail(cs)) = new
      BY <2>3, NoChanges
    <3>3. Arrived(<<new>>, a, ChangeMessage(Tail(cs))) = <<new>>
      BY <2>3, <3>1
    <3> QED BY <1>3, <2>1, <2>2, <3>2, <3>3 DEF new
  <2>4. CASE Tail(cs) # <<>>
    <3>1. Arrived(<<new>>, a, ChangeMessage(Tail(cs))) = <<WithChanges(new, Tail(cs))>>
      BY <1>1, <1>2, <1>3, <2>4, ArrivedChange
    <3> QED BY <1>3, <2>1, <2>2, <3>1 DEF new
  <2> QED BY <2>3, <2>4
<1>4. CASE Head(cs).asset_id # a
  <2>1. Arrived(<<b>>, a, ChangeMessage(cs)) = <<b>>
    BY <1>4, ArrivedChange
  <2> DEFINE cs2 == Tail(cs)
  <2>2. cs2 \in Rest /\ (cs2 # <<>> => Head(cs2).asset_id # a)
    BY <1>1, <1>2, <1>4
  <2> HIDE DEF cs2
  <2>3. Arrived(<<b>>, a, ChangeMessage(cs2)) = <<b>>
    BY <2>2, ArrivedChange
  <2> QED BY <1>4, <2>1, <2>3 DEF cs2
<1> QED BY <1>3, <1>4

(* So a step of the observer leaves what all messages make as it is.       *)
LEMMA ObserverKeepsPace ==
    ASSUME Typed, Observe \/ Publish, NEW a \in Asset
    PROVE  After(Held(a)', a, InFlight') = After(Held(a), a, InFlight)
<1> DEFINE f == InFlight'
<1>1. UNCHANGED wire
  BY DEF Observe, Publish, Confirm
<1>2. InFlight \in Seq(LiveMessage)
  BY FlightTyped
<1>3. books' = books => Held(a)' = Held(a)
  BY DEF Held
<1>4. CASE O!HandlePriceChange
  BY <1>1, <1>3, <1>4, FlightTaken
<1>5. CASE O!HandleBook
  <2> DEFINE m == Head(inbox)
  <2>1. /\ InFlight # <<>> /\ Head(InFlight) = m /\ InFlight' = Tail(InFlight)
        /\ m.event_type = "book"
        /\ DOMAIN books' = DOMAIN books \cup {m.asset_id}
        /\ \A b \in DOMAIN books' :
              books'[b] = IF b = m.asset_id
                          THEN [bids |-> O!Bids!Overlay(<<>>, m.bids),
                                asks |-> O!Asks!Overlay(<<>>, m.asks)]
                          ELSE books[b]
    BY <1>1, <1>5, FlightHandled
  <2> HIDE DEF m
  <2>2. After(Held(a), a, InFlight) = After(Arrived(Held(a), a, m), a, Tail(InFlight))
    BY <1>2, <2>1, FirstArrival
  <2>3. Arrived(Held(a), a, m) = Held(a)'
    <3>1. CASE m.asset_id = a
      <4>1. a \in DOMAIN books'
            /\ books'[a] = [bids |-> O!Bids!Overlay(<<>>, m.bids),
                            asks |-> O!Asks!Overlay(<<>>, m.asks)]
        BY <2>1, <3>1
      <4>2. Held(a)' = <<books'[a]>>
        BY <4>1 DEF Held
      <4> QED BY <2>1, <3>1, <4>1, <4>2 DEF Arrived
    <3>2. CASE m.asset_id # a
      <4>1. Arrived(Held(a), a, m) = Held(a)
        BY <2>1, <3>2 DEF Arrived
      <4>2. (a \in DOMAIN books' <=> a \in DOMAIN books)
            /\ (a \in DOMAIN books => books'[a] = books[a])
        BY <2>1, <3>2
      <4> QED BY <4>1, <4>2 DEF Held
    <3> QED BY <3>1, <3>2
  <2> QED BY <2>1, <2>2, <2>3
<1>6. CASE O!SkipChange \/ O!ApplyChange
  <2>1. /\ looping /\ looping' /\ changes # <<>> /\ changes' = Tail(changes)
        /\ UNCHANGED <<inbox, wire>> /\ changes \in Rest
    BY <1>1, <1>6 DEF O!SkipChange, O!ApplyChange, Typed
  <2>2. /\ InFlight # <<>> /\ Head(InFlight) = ChangeMessage(changes)
        /\ Tail(InFlight) \in Seq(LiveMessage)
    BY <2>1, FlightLooping
  <2>3. InFlight' = <<ChangeMessage(changes')>> \o Tail(InFlight)
    BY <2>1, FlightTrimmed
  <2>4. Tail(changes) \in Rest /\ ChangeMessage(changes') \in LiveMessage
    <3>1. Tail(changes) \in Rest
      BY <2>1, TailOfRest
    <3> QED BY <2>1, <3>1 DEF ChangeMessage, ChangeSent, LiveMessage
  <2>5. InFlight' \in Seq(LiveMessage) /\ InFlight' # <<>>
        /\ Head(InFlight') = ChangeMessage(Tail(changes)) /\ Tail(InFlight') = Tail(InFlight)
    BY <2>1, <2>2, <2>3, <2>4, FirstOfConcat
  <2>6. Arrived(Held(a)', a, ChangeMessage(Tail(changes)))
        = Arrived(Held(a), a, ChangeMessage(changes))
    <3>1. CASE O!SkipChange
      <4>1. Head(changes).asset_id \notin DOMAIN books /\ books' = books
        BY <2>1, <3>1, TailOfRest DEF O!SkipChange, O!Applicable
      <4>2. Held(a)' = Held(a)
        BY <1>3, <4>1
      <4>3. CASE a \in DOMAIN books
        <5>1. Held(a) = <<books[a]>> /\ Head(changes).asset_id # a
          BY <4>1, <4>3 DEF Held
        <5>2. \A x : Arrived(<<x>>, a, ChangeMessage(changes))
                     = Arrived(<<x>>, a, ChangeMessage(Tail(changes)))
          BY <2>1, <5>1, ChangeCarriedOut
        <5> QED BY <4>2, <5>1, <5>2
      <4>4. CASE a \notin DOMAIN books
        <5>1. Held(a) = <<>>
          BY <4>4 DEF Held
        <5> QED BY <4>2, <5>1, ArrivedNowhere
      <4> QED BY <4>3, <4>4
    <3>2. CASE O!ApplyChange
      <4> DEFINE b == Head(changes).asset_id
      <4>1. /\ b \in DOMAIN books /\ DOMAIN books' = DOMAIN books
            /\ \A x \in DOMAIN books :
                  books'[x] = IF x = b THEN O!WithChange(books[b], Head(changes)) ELSE books[x]
        BY <3>2 DEF O!ApplyChange, O!Applicable, O!Put
      <4> HIDE DEF b
      <4>2. CASE a = b
        <5>1. Held(a) = <<books[a]>> /\ Held(a)' = <<O!WithChange(books[a], Head(changes))>>
          BY <4>1, <4>2 DEF Held
        <5> QED BY <2>1, <4>2, <5>1, ChangeCarriedOut DEF b
      <4>3. CASE a # b /\ a \in DOMAIN books
        <5>1. Held(a) = <<books[a]>> /\ Held(a)' = <<books[a]>>
          BY <4>1, <4>3 DEF Held
        <5>2. \A x : Arrived(<<x>>, a, ChangeMessage(changes))
                     = Arrived(<<x>>, a, ChangeMessage(Tail(changes)))
          BY <2>1, <4>3, ChangeCarriedOut DEF b
        <5> QED BY <5>1, <5>2
      <4>4. CASE a \notin DOMAIN books
        <5>1. Held(a) = <<>> /\ Held(a)' = <<>>
          BY <4>1, <4>4 DEF Held
        <5> QED BY <5>1, ArrivedNowhere
      <4> QED BY <4>2, <4>3, <4>4
    <3> QED BY <1>6, <3>1, <3>2
  <2>7. After(Held(a), a, InFlight)
        = After(Arrived(Held(a), a, ChangeMessage(changes)), a, Tail(InFlight))
    BY <1>2, <2>2, FirstArrival
  <2>8. After(Held(a)', a, InFlight')
        = After(Arrived(Held(a)', a, ChangeMessage(Tail(changes))), a, Tail(InFlight))
    <3>1. /\ f \in Seq(LiveMessage) /\ f # <<>>
          /\ Head(f) = ChangeMessage(Tail(changes)) /\ Tail(f) = Tail(InFlight)
      BY <2>5
    <3> HIDE DEF f
    <3>2. \A h : After(h, a, f) = After(Arrived(h, a, Head(f)), a, Tail(f))
      BY <3>1, FirstArrival
    <3> QED BY <3>1, <3>2 DEF f
  <2> QED BY <2>6, <2>7, <2>8
<1>7. CASE O!PriceChangeDone
  <2>1. /\ InFlight # <<>> /\ Head(InFlight) = ChangeMessage(<<>>)
        /\ InFlight' = Tail(InFlight) /\ books' = books
    BY <1>1, <1>7, FlightDone
  <2>2. Arrived(Held(a), a, ChangeMessage(<<>>)) = Held(a)
    <3>1. \A x : Arrived(<<x>>, a, ChangeMessage(<<>>)) = <<x>>
      BY NoChangesLeft, ArrivedChange
    <3> QED BY <3>1, ArrivedNowhere DEF Held
  <2>3. After(Held(a), a, InFlight) = After(Held(a), a, Tail(InFlight))
    BY <1>2, <2>1, <2>2, FirstArrival
  <2> QED BY <1>3, <2>1, <2>3
<1> QED BY <1>4, <1>5, <1>6, <1>7 DEF Observe, Publish

LEMMA SyncedInit == LiveInit => Synced
BY DEF LiveInit, Synced, InSync

LEMMA SyncedKept == Typed /\ Synced /\ [LiveNext]_vars => Synced'
<1> SUFFICES ASSUME Typed, Synced, [LiveNext]_vars PROVE Synced'
  OBVIOUS
<1> DEFINE now  == [a \in Asset |-> After(Held(a), a, InFlight)]
           then == [a \in Asset |-> After(Held(a)', a, InFlight')]
<1>1. snapped \subseteq Asset
  BY DEF Typed
<1>2. ASSUME snapped' \subseteq Asset, link' = "open" => snapped' = {},
             link' = "subscribed" => \A a \in snapped' : then[a] = <<xbook'[a]>>
      PROVE  Synced'
  <2>1. \A a \in snapped' : then[a] = After(Held(a)', a, InFlight')
    BY <1>2
  <2> QED BY <1>2, <2>1 DEF Synced, InSync
<1>3. link = "subscribed" => \A a \in snapped : now[a] = <<xbook[a]>>
  BY <1>1 DEF Synced, InSync
<1>4. ASSUME UNCHANGED <<link, snapped, xbook>>, then = now
      PROVE  Synced'
  BY <1>1, <1>2, <1>3, <1>4 DEF Synced
<1>5. ASSUME UNCHANGED books PROVE \A a : Held(a)' = Held(a)
  BY <1>5 DEF Held
<1>6. ASSUME UNCHANGED <<books, looping, changes, inbox, wire>> PROVE then = now
  <2>1. InFlight' = InFlight
    BY <1>6, FlightKept
  <2> QED BY <1>5, <1>6, <2>1
<1>7. InFlight \in Seq(LiveMessage)
  BY FlightTyped
<1>8. ASSUME NEW m \in LiveMessage, wire' = Append(wire, m), UNCHANGED observer
      PROVE  \A a \in Asset : then[a] = Arrived(now[a], a, m)
  <2>1. InFlight' = Append(InFlight, m)
    BY <1>8, FlightSent DEF observer
  <2>2. \A a : Held(a)' = Held(a)
    BY <1>5, <1>8 DEF observer
  <2>3. \A a : After(Held(a), a, Append(InFlight, m)) = Arrived(After(Held(a), a, InFlight), a, m)
    BY <1>7, LastArrival
  <2> QED BY <2>1, <2>2, <2>3
<1>9. CASE Change
  <2>1. PICK delta \in Deltas :
           /\ xbook' = [xbook EXCEPT ![delta[1].asset_id] = WithChanges(@, delta)]
           /\ \/ link = "subscribed" /\ wire' = Append(wire, ChangeMessage(delta))
              \/ (link # "subscribed" \/ delta[1].asset_id \notin snapped) /\ wire' = wire
    BY <1>9 DEF Change
  <2> DEFINE b == delta[1].asset_id
             m == ChangeMessage(delta)
  <2>2. /\ UNCHANGED <<link, snapped, observer>>
        /\ UNCHANGED <<books, looping, changes, inbox>>
    BY <1>9 DEF Change, observer
  <2>3. /\ b \in Asset /\ delta \in Rest /\ delta # <<>> /\ Head(delta).asset_id = b
        /\ m \in LiveMessage
    <3>1. delta \in Rest /\ delta # <<>> /\ b \in Asset /\ m \in LiveMessage
      BY DeltaIs DEF LiveMessage
    <3> QED BY <3>1, TailOfRest
  <2>4. DOMAIN xbook = Asset
    BY DEF Typed
  <2>5. \A a \in Asset : xbook'[a] = IF a = b THEN WithChanges(xbook[b], delta) ELSE xbook[a]
    BY <2>1, <2>4
  <2>6. ASSUME link = "subscribed", wire' = Append(wire, m), NEW a \in snapped
        PROVE  then[a] = <<xbook'[a]>>
    <3>1. now[a] = <<xbook[a]>> /\ a \in Asset
      BY <1>1, <1>3, <2>6
    <3>2. then[a] = Arrived(<<xbook[a]>>, a, m)
      BY <1>8, <2>2, <2>3, <2>6, <3>1
    <3>3. Arrived(<<xbook[a]>>, a, m) = IF a = b THEN <<WithChanges(xbook[a], delta)>>
                                                 ELSE <<xbook[a]>>
      BY <2>3, ArrivedChange
    <3> QED BY <2>5, <3>1, <3>2, <3>3
  <2>7. ASSUME link # "subscribed" \/ b \notin snapped, wire' = wire,
               link = "subscribed", NEW a \in snapped
        PROVE  then[a] = <<xbook'[a]>>
    <3>1. now[a] = <<xbook[a]>> /\ a \in Asset
      BY <1>1, <1>3, <2>7
    <3>2. xbook'[a] = xbook[a]
      BY <2>5, <2>7, <3>1
    <3> QED BY <1>6, <2>2, <2>7, <3>1, <3>2
  <2>8. link' = "subscribed" => \A a \in snapped' : then[a] = <<xbook'[a]>>
    <3> HIDE DEF then, now
    <3> QED BY <2>1, <2>2, <2>6, <2>7
  <2> QED BY <1>1, <1>2, <2>2, <2>8 DEF Synced
<1>10. CASE \E b \in Asset : SendBook(b)
  <2>1. PICK b \in Asset : SendBook(b)
    BY <1>10
  <2> DEFINE m == BookMessage(b)
  <2>2. /\ link = "subscribed" /\ wire' = Append(wire, m) /\ snapped' = snapped \cup {b}
        /\ UNCHANGED <<link, xbook, observer>>
    BY <2>1 DEF SendBook
  <2>3. /\ m \in LiveMessage /\ m.event_type = "book" /\ m.asset_id = b
        /\ [bids |-> O!Bids!Overlay(<<>>, m.bids), asks |-> O!Asks!Overlay(<<>>, m.asks)]
           = xbook[b]
    BY BookMessageIs DEF Typed, LiveMessage
  <2> HIDE DEF m
  <2>4. ASSUME NEW a \in snapped' PROVE then[a] = <<xbook'[a]>>
    <3>1. a \in Asset /\ then[a] = Arrived(now[a], a, m)
      BY <1>1, <1>8, <2>2, <2>3
    <3>2. CASE a = b
      BY <2>2, <2>3, <3>1, <3>2 DEF Arrived
    <3>3. CASE a # b
      <4>1. now[a] = <<xbook[a]>>
        BY <1>3, <2>2, <3>3
      <4>2. Arrived(now[a], a, m) = now[a]
        BY <2>3, <3>3 DEF Arrived
      <4> QED BY <2>2, <3>1, <4>1, <4>2
    <3> QED BY <3>2, <3>3
  <2> QED BY <1>1, <1>2, <2>2, <2>4
<1>11. CASE End \/ Lose
  <2>1. UNCHANGED snapped /\ link' \in {"ended", "none"}
    BY <1>11 DEF End, Lose
  <2> QED BY <1>1, <1>2, <2>1
<1>12. CASE Subscribe
  <2>1. /\ link' = link \/ (link = "open" /\ link' = "subscribed")
        /\ UNCHANGED <<xbook, snapped, wire, observer>>
    BY <1>12 DEF Subscribe
  <2>2. then = now
    BY <1>6, <2>1 DEF observer
  <2>3. link' = "subscribed" => \A a \in snapped' : then[a] = <<xbook'[a]>>
    <3> HIDE DEF then, now
    <3> QED BY <1>3, <2>1, <2>2 DEF Synced
  <2>4. link' = "open" => snapped' = {}
    BY <2>1 DEF Synced
  <2> QED BY <1>1, <1>2, <2>1, <2>3, <2>4
<1>13. CASE Connect
  <2>1. \/ link' = "open" /\ snapped' = {}
        \/ UNCHANGED <<link, snapped, wire>>
    BY <1>13 DEF Connect
  <2>2. UNCHANGED <<xbook, observer>>
    BY <1>13 DEF Connect
  <2>3. CASE UNCHANGED <<link, snapped, wire>>
    BY <1>4, <1>6, <2>2, <2>3 DEF observer
  <2>4. CASE link' = "open" /\ snapped' = {}
    BY <1>2, <2>4
  <2> QED BY <2>1, <2>3, <2>4
<1>14. CASE Forward
  <2>1. InFlight' = InFlight /\ UNCHANGED <<books, xbook, link, snapped>>
    BY <1>14, FlightForwarded
  <2>2. then = now
    BY <1>5, <2>1
  <2> QED BY <1>4, <2>1, <2>2
<1>15. CASE Observe \/ Publish
  <2>1. UNCHANGED <<xbook, link, snapped>>
    BY <1>15 DEF Observe, Publish, Confirm
  <2>2. \A a \in Asset : After(Held(a)', a, InFlight') = After(Held(a), a, InFlight)
    BY <1>15, ObserverKeepsPace
  <2>3. then = now
    BY <2>2
  <2> QED BY <1>4, <2>1, <2>3
<1>16. ASSUME UNCHANGED <<observer, exchange>> PROVE Synced'
  <2>1. /\ UNCHANGED <<books, looping, changes, inbox, wire>>
        /\ UNCHANGED <<link, snapped, xbook>>
    BY <1>16 DEF observer, exchange
  <2> QED BY <1>4, <1>6, <2>1
<1>17. CASE Signal \/ Session \/ Receive \/ ReceiveOtherText \/ Bind \/ Recv \/ Return
  BY <1>16, <1>17 DEF Signal, Session, Receive, ReceiveOtherText, Bind, Recv, Return
<1>18. CASE UNCHANGED vars
  BY <1>16, <1>18 DEF vars, observer, exchange
<1> QED BY <1>9, <1>10, <1>11, <1>12, <1>13, <1>14, <1>15, <1>17, <1>18 DEF LiveNext, Exchange

-----------------------------------------------------------------------------
(***************************************************************************)
(* Of an asset whose book of this connection was not applied yet, and of   *)
(* which no change was sent before it, the book is in flight ahead of      *)
(* every change; so no change of it can be applied.                        *)
(***************************************************************************)
About(m, a) == /\ m.event_type = "price_change"
               /\ \E k \in DOMAIN m.price_changes : m.price_changes[k].asset_id = a
IsBookOf(m, a) == m.event_type = "book" /\ m.asset_id = a

Announces(ms, a) == \E i \in 1 .. Len(ms) : IsBookOf(ms[i], a)
Preceded(ms, a) ==
    \A k \in 1 .. Len(ms) : About(ms[k], a) => \E i \in 1 .. k - 1 : IsBookOf(ms[i], a)

Announced ==
    \A a \in Asset : /\ a \in confirmed \/ a \in early \/ Preceded(InFlight, a)
                     /\ a \in snapped => a \in confirmed \/ Announces(InFlight, a)

LEMMA TailAnnounces ==
    ASSUME NEW S, NEW ms \in Seq(S), ms # <<>>, NEW a, ~IsBookOf(Head(ms), a)
    PROVE  /\ Preceded(ms, a) => Preceded(Tail(ms), a)
           /\ Announces(ms, a) => Announces(Tail(ms), a)
<1>1. /\ Len(ms) \in Nat /\ Len(ms) # 0 /\ Head(ms) = ms[1]
      /\ Len(Tail(ms)) = Len(ms) - 1 /\ Len(Tail(ms)) \in Nat
      /\ \A k \in 1 .. Len(Tail(ms)) : Tail(ms)[k] = ms[k + 1]
  BY EmptySeq
<1> DEFINE t == Tail(ms)
           n == Len(t)
<1>2. n \in Nat /\ Len(ms) = n + 1 /\ \A k \in 1 .. n : t[k] = ms[k + 1]
  BY <1>1
<1> HIDE DEF t, n
<1>3. ASSUME NEW i \in 1 .. n + 1, IsBookOf(ms[i], a)
      PROVE  i - 1 \in 1 .. n /\ IsBookOf(t[i - 1], a)
  <2>1. i # 1
    BY <1>1, <1>3
  <2>2. i - 1 \in 1 .. n /\ (i - 1) + 1 = i
    BY <1>2, <2>1
  <2> QED BY <1>2, <1>3, <2>2
<1>4. ASSUME Announces(ms, a) PROVE Announces(t, a)
  <2>1. PICK i \in 1 .. n + 1 : IsBookOf(ms[i], a)
    BY <1>2, <1>4 DEF Announces
  <2> QED BY <1>3, <2>1 DEF Announces, n
<1>5. ASSUME Preceded(ms, a), NEW k \in 1 .. n, About(t[k], a)
      PROVE  \E i \in 1 .. k - 1 : IsBookOf(t[i], a)
  <2>1. k + 1 \in 1 .. Len(ms) /\ About(ms[k + 1], a) /\ (k + 1) - 1 = k
    BY <1>2, <1>5
  <2>2. PICK i \in 1 .. k : IsBookOf(ms[i], a)
    BY <1>5, <2>1 DEF Preceded
  <2>3. i \in 1 .. n + 1
    BY <1>2
  <2>4. i - 1 \in 1 .. n /\ IsBookOf(t[i - 1], a)
    BY <1>3, <2>2, <2>3
  <2>5. i - 1 \in 1 .. k - 1
    BY <1>2, <2>4
  <2> QED BY <2>4, <2>5
<1> QED BY <1>4, <1>5 DEF Preceded, t, n

LEMMA LastAnnounces ==
    ASSUME NEW S, NEW ms \in Seq(S), NEW m, NEW a
    PROVE  /\ Preceded(ms, a) /\ (About(m, a) => Announces(ms, a))
              => Preceded(Append(ms, m), a)
           /\ Announces(Append(ms, m), a) <=> Announces(ms, a) \/ IsBookOf(m, a)
<1> DEFINE n  == Len(ms)
           ns == Append(ms, m)
<1>1. /\ n \in Nat /\ Len(ns) = n + 1 /\ ns[n + 1] = m
      /\ \A k \in 1 .. n : ns[k] = ms[k]
  OBVIOUS
<1>2. \A k \in 1 .. n + 1 : k \in 1 .. n \/ k = n + 1
  BY <1>1
<1>3. /\ \A k \in 1 .. n : k \in 1 .. n + 1
      /\ n + 1 \in 1 .. n + 1 /\ (n + 1) - 1 = n
  BY <1>1
<1> HIDE DEF ns
<1>4. Announces(ns, a) <=> Announces(ms, a) \/ IsBookOf(m, a)
  <2> HIDE DEF n
  <2> QED BY <1>1, <1>2, <1>3 DEF Announces, n
<1>5. ASSUME Preceded(ms, a), About(m, a) => Announces(ms, a),
             NEW k \in 1 .. n + 1, About(ns[k], a)
      PROVE  \E i \in 1 .. k - 1 : IsBookOf(ns[i], a)
  <2>1. CASE k = n + 1
    <3>1. PICK i \in 1 .. n : IsBookOf(ms[i], a)
      BY <1>1, <1>5, <2>1 DEF Announces
    <3>2. i \in 1 .. k - 1
      BY <1>3, <2>1
    <3> QED BY <1>1, <3>1, <3>2
  <2>2. CASE k # n + 1
    <3>1. k \in 1 .. n /\ About(ms[k], a)
      BY <1>1, <1>2, <1>5, <2>2
    <3>2. PICK i \in 1 .. k - 1 : IsBookOf(ms[i], a)
      BY <1>5, <3>1 DEF Preceded
    <3>3. i \in 1 .. n
      BY <1>1, <3>1
    <3> QED BY <1>1, <3>2, <3>3
  <2> QED BY <2>1, <2>2
<1>6. Preceded(ms, a) /\ (About(m, a) => Announces(ms, a)) => Preceded(ns, a)
  BY <1>1, <1>5 DEF Preceded
<1> QED BY <1>4, <1>6 DEF ns

(* A first message that says less about an asset.                          *)
LEMMA FirstAnnounces ==
    ASSUME NEW S, NEW ms \in Seq(S), ms # <<>>, NEW m \in S, NEW a,
           ~IsBookOf(Head(ms), a), ~IsBookOf(m, a),
           About(m, a) => About(Head(ms), a)
    PROVE  /\ Preceded(ms, a) => Preceded(<<m>> \o Tail(ms), a)
           /\ Announces(ms, a) => Announces(<<m>> \o Tail(ms), a)
<1> DEFINE ns == <<m>> \o Tail(ms)
           n  == Len(ms)
<1>1. /\ n \in Nat /\ n # 0 /\ Tail(ms) \in Seq(S) /\ Head(ms) = ms[1]
      /\ Len(Tail(ms)) = n - 1 /\ \A k \in 1 .. n - 1 : Tail(ms)[k] = ms[k + 1]
  BY EmptySeq
<1>2. /\ Len(ns) = n /\ ns[1] = m
      /\ \A k \in 2 .. n : ns[k] = ms[k]
  <2>1. <<m>> \in Seq(S) /\ Len(<<m>>) = 1 /\ <<m>>[1] = m
    OBVIOUS
  <2>2. /\ Len(ns) = 1 + (n - 1)
        /\ \A k \in 1 .. 1 + (n - 1) : ns[k] = IF k <= 1 THEN <<m>>[k] ELSE Tail(ms)[k - 1]
    BY <1>1, <2>1, ConcatProperties
  <2>3. ASSUME NEW k \in 2 .. n PROVE ns[k] = ms[k]
    <3>1. k \in 1 .. 1 + (n - 1) /\ ~(k <= 1) /\ k - 1 \in 1 .. n - 1 /\ (k - 1) + 1 = k
      BY <1>1
    <3> QED BY <1>1, <2>2, <3>1
  <2> QED BY <1>1, <2>1, <2>2, <2>3
<1> HIDE DEF ns
<1>3. \A k \in 1 .. n : k = 1 \/ k \in 2 .. n
  BY <1>1
<1>4. \A i \in 1 .. n : IsBookOf(ns[i], a) <=> IsBookOf(ms[i], a)
  BY <1>1, <1>2, <1>3
<1>5. \A i \in 1 .. n : About(ns[i], a) => About(ms[i], a)
  BY <1>1, <1>2, <1>3
<1>6. \A k \in 1 .. n : \A i \in 1 .. k - 1 : i \in 1 .. n
  BY <1>1
<1> HIDE DEF n
<1>7. Announces(ms, a) => Announces(ns, a)
  BY <1>2, <1>4 DEF Announces, n
<1>8. Preceded(ms, a) => Preceded(ns, a)
  BY <1>2, <1>4, <1>5, <1>6 DEF Preceded, n
<1> QED BY <1>7, <1>8 DEF ns

LEMMA AnnouncedInit == LiveInit => Announced
<1> SUFFICES ASSUME LiveInit PROVE Announced
  OBVIOUS
<1>1. snapped = {} /\ wire = <<>> /\ inbox = <<>> /\ ~looping
  BY DEF LiveInit, O!ObserverInit
<1>2. InFlight = <<>>
  BY <1>1 DEF InFlight
<1>3. Len(<<>>) = 0
  OBVIOUS
<1> QED BY <1>1, <1>2, <1>3 DEF Announced, Preceded

LEMMA AnnouncedKept == Typed /\ Announced /\ [LiveNext]_vars => Announced'
<1> SUFFICES ASSUME Typed, Announced, [LiveNext]_vars PROVE Announced'
  OBVIOUS
<1>1. InFlight \in Seq(LiveMessage)
  BY FlightTyped
<1>2. ASSUME InFlight' = InFlight, UNCHANGED <<confirmed, early, snapped>> PROVE Announced'
  BY <1>2 DEF Announced, Preceded, Announces
<1>3. ASSUME UNCHANGED <<observer, exchange>> PROVE Announced'
  <2>1. InFlight' = InFlight
    BY <1>3, FlightKept DEF observer, exchange
  <2> QED BY <1>2, <1>3, <2>1 DEF exchange
<1>4. CASE Change
  <2>1. PICK delta \in Deltas :
           \/ /\ wire' = Append(wire, ChangeMessage(delta))
              /\ early' = IF delta[1].asset_id \in snapped THEN early
                          ELSE early \cup {delta[1].asset_id}
           \/ wire' = wire /\ early' = early
    BY <1>4 DEF Change
  <2> DEFINE b == delta[1].asset_id
             m == ChangeMessage(delta)
  <2>2. /\ UNCHANGED <<looping, changes, inbox>> /\ UNCHANGED <<snapped, confirmed>>
    BY <1>4 DEF Change, observer
  <2>3. CASE wire' = wire /\ early' = early
    <3>1. InFlight' = InFlight
      BY <2>2, <2>3, FlightKept
    <3> QED BY <1>2, <2>2, <2>3, <3>1
  <2>4. CASE /\ wire' = Append(wire, m)
             /\ early' = IF b \in snapped THEN early ELSE early \cup {b}
    <3>1. m \in LiveMessage /\ \A a : ~IsBookOf(m, a) /\ (About(m, a) => a = b)
      BY DeltaIs DEF LiveMessage, IsBookOf, About
    <3>2. InFlight' = Append(InFlight, m)
      BY <2>2, <2>4, <3>1, FlightSent
    <3> SUFFICES ASSUME NEW a \in Asset
                 PROVE  /\ a \in confirmed' \/ a \in early' \/ Preceded(Append(InFlight, m), a)
                        /\ a \in snapped' =>
                              a \in confirmed' \/ Announces(Append(InFlight, m), a)
      BY <3>2 DEF Announced, Preceded, Announces
    <3> HIDE DEF m
    <3>3. a \in snapped' => a \in confirmed' \/ Announces(Append(InFlight, m), a)
      BY <1>1, <2>2, LastAnnounces DEF Announced
    <3>4. CASE a \in confirmed \/ a \in early
      BY <2>2, <2>4, <3>3, <3>4
    <3>5. CASE ~(a \in confirmed \/ a \in early)
      <4>1. Preceded(InFlight, a) /\ (a \in snapped => Announces(InFlight, a))
        BY <3>5 DEF Announced
      <4>2. CASE a = b /\ b \notin snapped
        BY <2>4, <3>3, <4>2
      <4>3. CASE ~(a = b /\ b \notin snapped)
        <5>1. About(m, a) => Announces(InFlight, a)
          BY <3>1, <4>1, <4>3
        <5>2. Preceded(Append(InFlight, m), a)
          BY <1>1, <4>1, <5>1, LastAnnounces
        <5> QED BY <3>3, <5>2
      <4> QED BY <4>2, <4>3
    <3> QED BY <3>4, <3>5
  <2> QED BY <2>1, <2>3, <2>4
<1>5. CASE \E b \in Asset : SendBook(b)
  <2>1. PICK b \in Asset : SendBook(b)
    BY <1>5
  <2> DEFINE m == BookMessage(b)
  <2>2. /\ wire' = Append(wire, m) /\ snapped' = snapped \cup {b}
        /\ UNCHANGED <<looping, changes, inbox>> /\ UNCHANGED <<confirmed, early>>
    BY <2>1 DEF SendBook, observer
  <2>3. m \in LiveMessage /\ IsBookOf(m, b) /\ \A a : ~About(m, a)
    BY BookMessageIs DEF Typed, LiveMessage, IsBookOf, About
  <2>4. InFlight' = Append(InFlight, m)
    BY <2>2, <2>3, FlightSent
  <2> SUFFICES ASSUME NEW a \in Asset
               PROVE  /\ a \in confirmed' \/ a \in early' \/ Preceded(Append(InFlight, m), a)
                      /\ a \in snapped' =>
                            a \in confirmed' \/ Announces(Append(InFlight, m), a)
    BY <2>4 DEF Announced, Preceded, Announces
  <2> HIDE DEF m
  <2>5. a \in snapped' => a \in confirmed' \/ Announces(Append(InFlight, m), a)
    <3>1. CASE a = b
      BY <1>1, <2>3, <3>1, LastAnnounces
    <3>2. CASE a # b
      BY <1>1, <2>2, <3>2, LastAnnounces DEF Announced
    <3> QED BY <3>1, <3>2
  <2>6. a \in confirmed' \/ a \in early' \/ Preceded(Append(InFlight, m), a)
    BY <1>1, <2>2, <2>3, LastAnnounces DEF Announced
  <2> QED BY <2>5, <2>6
<1>6. CASE End \/ Subscribe \/ Lose
  <2>1. UNCHANGED <<looping, changes, inbox, wire>> /\ UNCHANGED <<snapped, confirmed, early>>
    BY <1>6 DEF End, Subscribe, Lose, observer
  <2> QED BY <1>2, <2>1, FlightKept
<1>7. CASE Connect
  <2>1. CASE UNCHANGED <<link, wire, snapped, early, confirmed>>
    <3>1. InFlight' = InFlight
      BY <1>7, <2>1, FlightKept DEF Connect, observer
    <3> QED BY <1>2, <2>1, <3>1
  <2>2. CASE wire' = <<>> /\ snapped' = {} /\ early' = {} /\ confirmed' = {}
    <3>1. ~looping' /\ inbox' = <<>>
      BY <1>7 DEF Connect, Idle, O!Handled, observer
    <3>2. InFlight' = <<>> /\ Len(<<>>) = 0
      BY <2>2, <3>1 DEF InFlight
    <3>3. Announced' <=> \A a \in Asset :
              /\ a \in confirmed' \/ a \in early' \/ Preceded(InFlight', a)
              /\ a \in snapped' => a \in confirmed' \/ Announces(InFlight', a)
      BY DEF Announced, Preceded, Announces
    <3> QED BY <2>2, <3>2, <3>3 DEF Preceded
  <2> QED BY <1>7, <2>1, <2>2 DEF Connect
<1>8. CASE Forward
  BY <1>2, <1>8, FlightForwarded
<1>9. CASE Observe \/ Publish
  <2>1. UNCHANGED <<snapped, early, wire>>
        /\ confirmed' = IF O!Handling("book") THEN confirmed \cup {Head(inbox).asset_id}
                        ELSE confirmed
    BY <1>9 DEF Observe, Publish, Confirm
  <2>2. confirmed \subseteq confirmed'
    BY <2>1
  <2>3. ASSUME InFlight' = Tail(InFlight), InFlight # <<>>,
               \A a \in Asset : a \in confirmed' \/ ~IsBookOf(Head(InFlight), a)
        PROVE  Announced'
    <3> SUFFICES ASSUME NEW a \in Asset, a \notin confirmed'
                 PROVE  /\ a \in early' \/ Preceded(Tail(InFlight), a)
                        /\ a \in snapped' => Announces(Tail(InFlight), a)
      BY <2>3 DEF Announced, Preceded, Announces
    <3>1. a \notin confirmed /\ ~IsBookOf(Head(InFlight), a)
      BY <2>2, <2>3
    <3> QED BY <1>1, <2>1, <2>3, <3>1, TailAnnounces DEF Announced
  <2>4. CASE O!HandlePriceChange
    <3>1. confirmed' = confirmed
      BY <2>1, <2>4 DEF O!HandlePriceChange, O!Handling
    <3> QED BY <1>2, <2>1, <2>4, <3>1, FlightTaken
  <2>5. CASE O!HandleBook
    <3>1. /\ InFlight # <<>> /\ Head(InFlight) = Head(inbox) /\ InFlight' = Tail(InFlight)
      BY <2>1, <2>5, FlightHandled
    <3>2. confirmed' = confirmed \cup {Head(inbox).asset_id}
      BY <2>1, <2>5 DEF O!HandleBook
    <3> QED BY <2>3, <3>1, <3>2 DEF IsBookOf
  <2>6. CASE O!SkipChange \/ O!ApplyChange
    <3>1. /\ looping /\ looping' /\ changes # <<>> /\ changes' = Tail(changes)
          /\ UNCHANGED <<inbox, wire>> /\ changes \in Rest /\ confirmed' = confirmed
      BY <2>1, <2>6 DEF O!SkipChange, O!ApplyChange, O!Handling, Typed
    <3> DEFINE m == ChangeMessage(Tail(changes))
    <3>2. /\ InFlight # <<>> /\ Head(InFlight) = ChangeMessage(changes)
          /\ InFlight' = <<m>> \o Tail(InFlight)
      BY <3>1, FlightLooping, FlightTrimmed
    <3>3. m \in LiveMessage
      <4>1. Tail(changes) \in Rest
        BY <3>1, TailOfRest
      <4> QED BY <4>1 DEF ChangeMessage, ChangeSent, LiveMessage
    <3>4. \A a : /\ ~IsBookOf(m, a) /\ ~IsBookOf(Head(InFlight), a)
                 /\ About(m, a) => About(Head(InFlight), a)
      <4>1. \A k \in DOMAIN Tail(changes) : Tail(changes)[k].asset_id = changes[1].asset_id
            /\ 1 \in DOMAIN changes
        BY <3>1, TailOfRest
      <4> QED BY <3>2, <4>1 DEF IsBookOf, About, ChangeMessage
    <3> HIDE DEF m
    <3> SUFFICES ASSUME NEW a \in Asset
                 PROVE  /\ a \in confirmed' \/ a \in early' \/ Preceded(<<m>> \o Tail(InFlight), a)
                        /\ a \in snapped' =>
                              a \in confirmed' \/ Announces(<<m>> \o Tail(InFlight), a)
      BY <3>2 DEF Announced, Preceded, Announces
    <3> QED BY <1>1, <2>1, <3>1, <3>2, <3>3, <3>4, FirstAnnounces DEF Announced
  <2>7. CASE O!PriceChangeDone
    <3>1. /\ InFlight # <<>> /\ Head(InFlight) = ChangeMessage(<<>>)
          /\ InFlight' = Tail(InFlight)
      BY <2>1, <2>7, FlightDone
    <3> QED BY <2>3, <3>1 DEF IsBookOf, ChangeMessage
  <2> QED BY <1>9, <2>4, <2>5, <2>6, <2>7 DEF Observe, Publish
<1>10. CASE Signal \/ Session \/ Receive \/ ReceiveOtherText \/ Bind \/ Recv \/ Return
  BY <1>3, <1>10 DEF Signal, Session, Receive, ReceiveOtherText, Bind, Recv, Return
<1>11. CASE UNCHANGED vars
  BY <1>3, <1>11 DEF vars, observer, exchange
<1> QED BY <1>4, <1>5, <1>6, <1>7, <1>8, <1>9, <1>10, <1>11 DEF LiveNext, Exchange

(* So books change only where NoMixture lets them.                         *)
LEMMA NoMixtureStep ==
    ASSUME Typed, Announced, [LiveNext]_vars, NEW a \in Asset
    PROVE  \/ a \in confirmed' \/ a \in early
           \/ a \notin DOMAIN books'
           \/ a \in DOMAIN books /\ books'[a] = books[a]
<1>1. CASE books' = books
  BY <1>1
<1>2. CASE Observe \/ Publish
  <2>1. confirmed' = IF O!Handling("book") THEN confirmed \cup {Head(inbox).asset_id}
                     ELSE confirmed
    BY <1>2 DEF Observe, Publish, Confirm
  <2>2. CASE O!HandleBook
    BY <2>1, <2>2 DEF O!HandleBook, O!Put
  <2>3. CASE O!ApplyChange
    <3> DEFINE b == Head(changes).asset_id
    <3>1. /\ looping /\ changes # <<>> /\ changes \in Rest /\ confirmed \subseteq confirmed'
          /\ DOMAIN books' = DOMAIN books /\ \A x \in DOMAIN books : x # b => books'[x] = books[x]
      BY <2>1, <2>3 DEF O!ApplyChange, O!Applicable, O!Put, Typed
    <3>2. /\ InFlight # <<>> /\ Head(InFlight) = ChangeMessage(changes)
          /\ InFlight \in Seq(LiveMessage)
      BY <3>1, FlightLooping, FlightTyped
    <3>3. 1 \in 1 .. Len(InFlight) /\ InFlight[1] = ChangeMessage(changes)
      BY <3>2, EmptySeq
    <3>4. About(ChangeMessage(changes), b)
      BY <3>1, TailOfRest DEF About, ChangeMessage
    <3>5. ~Preceded(InFlight, b)
      <4>1. ~\E i \in 1 .. 1 - 1 : IsBookOf(InFlight[i], b)
        OBVIOUS
      <4> QED BY <3>3, <3>4, <4>1 DEF Preceded
    <3>6. b \in Asset
      BY <3>1, TailOfRest
    <3>7. b \in confirmed \/ b \in early
      BY <3>5, <3>6 DEF Announced
    <3> QED BY <3>1, <3>7
  <2> QED BY <1>1, <1>2, <2>2, <2>3
     DEF Observe, Publish, O!HandlePriceChange, O!SkipChange, O!PriceChangeDone
<1>3. CASE ~(Observe \/ Publish)
  <2>1. books' = books
    BY <1>3 DEF LiveNext, vars, Exchange, Change, End, SendBook, Signal, Session, Connect,
       Subscribe, Lose, Receive, ReceiveOtherText, Forward, O!Take, Bind, Recv, Return, observer
  <2> QED BY <2>1
<1> QED BY <1>2, <1>3

-----------------------------------------------------------------------------
(***************************************************************************)
(* The channel.  While the server lives, the newest snapshot on it is what *)
(* the observer published last; of those before the next to be taken, the  *)
(* latest taken is the last, unless the channel overran what follows it.   *)
(***************************************************************************)
IsSequence(s) == \E S : s \in Seq(S)

Channelled ==
    /\ sent \in Nat /\ next \in Nat /\ latest \in Nat
    /\ latest < next /\ next <= sent + 1
    /\ next - 1 > latest => next - 1 + Capacity <= sent
    /\ IsSequence(log)
    /\ Len(log) = sent
    /\ server \in {"bind", "select"} => published = IF sent = 0 THEN <<>> ELSE log[sent]

LEMMA ChannelledInit == LiveInit => Channelled
<1> SUFFICES ASSUME LiveInit PROVE Channelled
  OBVIOUS
<1>1. /\ sent = 0 /\ next = 1 /\ latest = 0 /\ log = <<>> /\ published = <<>>
  BY DEF LiveInit, D!DashboardInit, O!ObserverInit
<1>2. <<>> \in Seq({}) /\ Len(<<>>) = 0
  OBVIOUS
<1>3. IsSequence(log)
  BY <1>1, <1>2 DEF IsSequence
<1> QED BY <1>1, <1>2, <1>3 DEF Channelled

LEMMA ChannelledKept == Channelled /\ [LiveNext]_vars => Channelled'
<1> SUFFICES ASSUME Channelled, [LiveNext]_vars PROVE Channelled'
  OBVIOUS
<1>1. Capacity \in Nat /\ Capacity # 0
  BY LiveAssumption
<1>2. ASSUME UNCHANGED <<sent, next, latest, log, published>>,
             server' \in {"bind", "select"} => server \in {"bind", "select"}
      PROVE  Channelled'
  <2>1. IsSequence(log)' = IsSequence(log)
    BY <1>2 DEF IsSequence
  <2> QED BY <1>2, <2>1 DEF Channelled
<1>3. ASSUME UNCHANGED <<observer, channel>> PROVE Channelled'
  BY <1>2, <1>3 DEF observer, channel
<1>4. CASE Exchange \/ Signal \/ Session \/ Connect \/ Subscribe \/ Lose
           \/ Receive \/ ReceiveOtherText
  BY <1>3, <1>4 DEF Exchange, Change, End, SendBook, Signal, Session, Connect, Subscribe,
                    Lose, Receive, ReceiveOtherText
<1>5. CASE Forward
  BY <1>2, <1>5 DEF Forward, O!Take, channel
<1>6. CASE Observe
  <2>1. published' = published
    BY <1>6 DEF Observe, O!HandlePriceChange, O!SkipChange, O!ApplyChange, O!PriceChangeDone
  <2> QED BY <1>2, <1>6, <2>1 DEF Observe, channel
<1>7. CASE Publish
  <2>1. CASE server = "unbound" /\ UNCHANGED channel
    <3>1. IsSequence(log)' = IsSequence(log)
      BY <2>1 DEF IsSequence, channel
    <3> QED BY <2>1, <3>1 DEF Channelled, channel
  <2>2. CASE D!Publish /\ log' = Append(log, published')
    <3>1. /\ sent' = sent + 1 /\ UNCHANGED <<next, latest, server>>
          /\ log' = Append(log, published')
      BY <2>2 DEF D!Publish
    <3>2. PICK S : log \in Seq(S)
      BY DEF Channelled, IsSequence
    <3>3. /\ IsSequence(log') /\ Len(log') = Len(log) + 1
          /\ log'[Len(log) + 1] = published' /\ Len(log) = sent
      <4>1. log \in Seq(S \cup {published'})
        BY <3>2
      <4>2. Append(log, published') \in Seq(S \cup {published'})
        BY <4>1
      <4>3. /\ Len(Append(log, published')) = Len(log) + 1
            /\ Append(log, published')[Len(log) + 1] = published'
        BY <3>2
      <4> QED BY <3>1, <4>2, <4>3 DEF Channelled, IsSequence
    <3>4. log'[sent'] = published' /\ Len(log') = sent' /\ sent' \in Nat /\ sent' # 0
      BY <3>1, <3>3 DEF Channelled
    <3>5. /\ next' - 1 > latest' => next' - 1 + Capacity <= sent'
          /\ next' \in Nat /\ latest' \in Nat /\ latest' < next' /\ next' <= sent' + 1
      BY <1>1, <3>1 DEF Channelled
    <3> QED BY <3>3, <3>4, <3>5 DEF Channelled
  <2> QED BY <1>7, <2>1, <2>2 DEF Publish
<1>8. CASE Bind \/ Return
  <2>1. /\ UNCHANGED <<sent, next, latest, log, published>>
        /\ \/ server = "bind" /\ server' \in {"select", "unbound"}
           \/ server' = "over"
    BY <1>8 DEF Bind, Return, D!Bind, D!EndSession, observer
  <2> QED BY <1>2, <2>1
<1>9. CASE Recv
  <2>1. /\ server' = server /\ sent' = sent /\ log' = log /\ published' = published
        /\ next <= sent
        /\ \/ sent - next >= Capacity /\ next' = sent - Capacity + 1 /\ latest' = latest
           \/ next' = next + 1 /\ latest' = next
    BY <1>9 DEF Recv, D!Recv, D!Lagging, observer
  <2>2. /\ next' - 1 > latest' => next' - 1 + Capacity <= sent'
        /\ next' \in Nat /\ latest' \in Nat /\ latest' < next' /\ next' <= sent' + 1
    BY <1>1, <2>1 DEF Channelled
  <2> QED BY <2>1, <2>2 DEF Channelled
<1>10. CASE UNCHANGED vars
  BY <1>3, <1>10 DEF vars, observer, channel
<1> QED BY <1>4, <1>5, <1>6, <1>7, <1>8, <1>9, <1>10 DEF LiveNext

(* A server that has taken all there is has what was published last.       *)
LEMMA ServesThePublished ==
    ASSUME Channelled, server = "select", next = sent + 1
    PROVE  Served = published
<1>1. Capacity \in Nat /\ Capacity # 0
  BY LiveAssumption
<1>2. latest = sent
  BY <1>1 DEF Channelled
<1> QED BY <1>2 DEF Channelled, Served

LEMMA EndToEndFollows ==
    ASSUME Typed, Synced, Channelled
    PROVE  EndToEnd
<1> SUFFICES ASSUME link = "subscribed", InFlight = <<>>, server = "select", next = sent + 1,
                    NEW a \in snapped
             PROVE  Shows(a)
  BY DEF EndToEnd
<1>1. a \in Asset
  BY DEF Typed
<1>2. a \in DOMAIN books /\ books[a] = xbook[a]
  <2>1. After(Held(a), a, <<>>) = <<xbook[a]>>
    BY DEF Synced, InSync
  <2>2. Held(a) = <<xbook[a]>>
    BY <2>1, NoArrivals
  <2>3. a \in DOMAIN books => Held(a) = <<books[a]>>
    BY DEF Held
  <2>4. a \notin DOMAIN books => Held(a) = <<>>
    BY DEF Held
  <2>5. /\ <<xbook[a]>> # <<>>
        /\ <<books[a]>> = <<xbook[a]>> => books[a] = xbook[a]
    OBVIOUS
  <2> QED BY <2>2, <2>3, <2>4, <2>5
<1>3. ~should_print
  <2>1. ~looping
    BY FlightLooping
  <2> QED BY <2>1 DEF Typed, OP!PInv
<1>4. OP!Seen(published, a) = OP!Seen(OP!TopBookSnapshot(books), a)
  BY <1>1, <1>3 DEF Typed, OP!PInv, OP!PublishedIsCurrent
<1>5. OP!Seen(OP!TopBookSnapshot(books), a) = OP!AssetBook(xbook[a])
  BY <1>1, <1>2 DEF OP!Seen, OP!TopBookSnapshot
<1>6. /\ O!AssetBook(xbook[a]) = OP!AssetBook(xbook[a])
      /\ O!Seen(published, a) = OP!Seen(published, a)
  <2>1. O!EmptyBook = OP!EmptyBook
    BY DEF O!EmptyBook, OP!EmptyBook
  <2> QED BY <2>1, SameObserver DEF O!Seen, OP!Seen
<1>7. Served = published
  BY ServesThePublished
<1> QED BY <1>4, <1>5, <1>6, <1>7 DEF Shows

-----------------------------------------------------------------------------
LiveInv == Typed /\ Synced /\ Announced /\ Channelled

LEMMA LiveInvHolds == LiveSpec => []LiveInv
<1>1. LiveInit => LiveInv
  BY TypedInit, SyncedInit, AnnouncedInit, ChannelledInit DEF LiveInv
<1>2. LiveInv /\ [LiveNext]_vars => LiveInv'
  BY TypedKept, SyncedKept, AnnouncedKept, ChannelledKept DEF LiveInv
<1> QED BY <1>1, <1>2, PTL DEF LiveSpec

(***************************************************************************)
(* For any assets, books, changes and connections lost: once an asset's    *)
(* book was sent on this connection, the messages in flight, carried out   *)
(* in order, make the observer's book of it the exchange's.                *)
(***************************************************************************)
THEOREM InSyncHolds == LiveSpec => []InSync
<1>1. LiveInv => InSync
  BY DEF LiveInv, Synced
<1> QED BY <1>1, LiveInvHolds, PTL

(***************************************************************************)
(* A book that a connection left behind stays as it was until the book of  *)
(* the connection that follows is applied, unless the exchange sends a     *)
(* change of the asset before its book.                                    *)
(***************************************************************************)
THEOREM NoMixtureHolds == LiveSpec => NoMixture
<1>1. LiveInv /\ [LiveNext]_vars =>
         [\A a \in Asset : \/ a \in confirmed' \/ a \in early
                           \/ a \notin DOMAIN books'
                           \/ a \in DOMAIN books /\ books'[a] = books[a]]_vars
  BY NoMixtureStep DEF LiveInv
<1> QED BY <1>1, LiveInvHolds, PTL DEF LiveSpec, NoMixture

(***************************************************************************)
(* With nothing in flight and all taken from the channel, what the page is *)
(* given of an asset is the visible top of the exchange's own book, for    *)
(* any depth of that top and any capacity of the channel.                  *)
(***************************************************************************)
THEOREM EndToEndHolds == LiveSpec => []EndToEnd
<1>1. LiveInv => EndToEnd
  BY EndToEndFollows DEF LiveInv
<1> QED BY <1>1, LiveInvHolds, PTL

-----------------------------------------------------------------------------
(***************************************************************************)
(* The parts go their own ways in the live program: what their modules say *)
(* of every run of SessionRunner, Observer or Dashboard that starts so and *)
(* takes such steps is true of the session, the observer and the server    *)
(* here.  First the session: on_json_message and the exchange hold it up   *)
(* or let it go on, and do nothing else to it.                             *)
(***************************************************************************)
THEOREM SessionIsARunner == LiveSpec => R!RunnerInit /\ [][R!RunnerNext]_R!vars
<1>1. ASSUME UNCHANGED session PROVE [R!RunnerNext]_R!vars
  BY <1>1 DEF session, R!vars
<1>2. LiveInit => R!RunnerInit
  BY DEF LiveInit
<1>3. [LiveNext]_vars => [R!RunnerNext]_R!vars
  <2> SUFFICES ASSUME [LiveNext]_vars PROVE [R!RunnerNext]_R!vars
    OBVIOUS
  <2>1. CASE Session
    <3> USE DEF R!RunnerNext, R!Setup, R!Select, R!Carry
    <3>1. CASE R!Start \/ R!ReceivePing \/ R!ReceiveOther \/ R!Heartbeat
      BY <3>1
    <3>2. CASE R!SendDone \/ R!PollShutdown \/ R!TakeShutdown \/ R!Close
      BY <3>2
    <3>3. CASE R!NotifyConnected \/ R!NotifyDisconnected \/ R!NothingToDo
      BY <3>3
    <3>4. CASE R!SendText \/ R!ScheduleBackoff \/ R!WakeUp \/ R!EffectsDone
      BY <3>4
    <3> QED BY <2>1, <3>1, <3>2, <3>3, <3>4 DEF Session
  <2>2. CASE Connect \/ Subscribe \/ Lose \/ Signal \/ Forward
    BY <2>2 DEF Connect, Subscribe, Lose, Signal, Forward,
                R!RunnerNext, R!Setup, R!Select, R!Carry
  <2>3. CASE Receive \/ ReceiveOtherText
    <3>1. \E text \in R!Text : R!Turn /\ R!Dispatch(text, "select")
      <4>1. "json" \in R!Text
        BY DEF R!Text
      <4> QED BY <2>3, <4>1 DEF Receive, ReceiveOtherText
    <3> QED BY <3>1 DEF R!ReceiveText, R!RunnerNext, R!Select
  <2>4. CASE Exchange
    BY <1>1, <2>4 DEF Exchange, Change, End, SendBook
  <2>5. CASE Observe \/ Publish \/ Bind \/ Recv \/ Return
    BY <1>1, <2>5 DEF Observe, Publish, Bind, Recv, Return
  <2>6. CASE UNCHANGED vars
    BY <1>1, <2>6 DEF vars, session
  <2> QED BY <2>1, <2>2, <2>3, <2>4, <2>5, <2>6 DEF LiveNext
<1> QED BY <1>2, <1>3, PTL DEF LiveSpec

(* The observer, which keeps to the contract of the feed (ContractKept).   *)
THEOREM ObserverIsAnObserver == LiveSpec => OP!ObserverSpec
<1>1. LiveInit => OP!ObserverInit
  BY DEF LiveInit, O!ObserverInit, OP!ObserverInit
<1>2. LiveInv /\ [LiveNext]_vars => [OP!ObserverNext]_OP!vars
  BY ObserverStep DEF LiveInv, Typed
<1> QED BY <1>1, <1>2, LiveInvHolds, PTL DEF LiveSpec, OP!ObserverSpec

(* And the server with its end of the channel, its page left out.          *)
THEOREM ServerIsADashboard == LiveSpec => D!DashboardInit /\ [][D!DashboardNext]_D!vars
<1>1. ASSUME UNCHANGED channel PROVE [D!DashboardNext]_D!vars
  BY <1>1 DEF channel, D!vars
<1>2. LiveInit => D!DashboardInit
  BY DEF LiveInit
<1>3. [LiveNext]_vars => [D!DashboardNext]_D!vars
  <2> SUFFICES ASSUME [LiveNext]_vars PROVE [D!DashboardNext]_D!vars
    OBVIOUS
  <2>1. CASE Exchange \/ Signal \/ Session \/ Connect \/ Subscribe \/ Lose
             \/ Receive \/ ReceiveOtherText \/ Forward \/ Observe
    BY <1>1, <2>1 DEF Exchange, Change, End, SendBook, Signal, Session, Connect, Subscribe,
                      Lose, Receive, ReceiveOtherText, Forward, Observe
  <2>2. CASE Publish
    BY <1>1, <2>2 DEF Publish, D!DashboardNext
  <2>3. CASE Bind \/ Recv \/ Return
    BY <2>3 DEF Bind, Recv, Return, D!DashboardNext, D!Serve
  <2>4. CASE UNCHANGED vars
    BY <1>1, <2>4 DEF vars, channel
  <2> QED BY <2>1, <2>2, <2>3, <2>4 DEF LiveNext
<1> QED BY <1>2, <1>3, PTL DEF LiveSpec
=============================================================================
