--------------------------- MODULE ObserverProofs ---------------------------
(***************************************************************************)
(* What the observer keeps, for any assets, prices, depth of the visible   *)
(* top and frames whose books quote no price twice.                        *)
(***************************************************************************)
EXTENDS Observer, BookLevelsProofs

(* The feed's contract for what it sends in one book message.              *)
WellFormed == {m \in Message : m.event_type = "book" =>
                   Bids!DistinctPrices(m.bids) /\ Bids!DistinctPrices(m.asks)}

DistinctFrames == Frames \subseteq Seq(WellFormed)

(* TypeOK is inductive once the messages waiting are well formed: a level  *)
(* of size zero stays out of a new book only where no other has its price; *)
(* and once books are known to be records of two sides, which a change to  *)
(* one side relies on.                                                     *)
FiniteSide(b) == IsSide(b) /\ IsFiniteSet(DOMAIN b)

IsBook(book) == /\ book = [bids |-> book.bids, asks |-> book.asks]
                /\ FiniteSide(book.bids) /\ FiniteSide(book.asks)

OInv == /\ TypeOK
        /\ inbox \in Seq(WellFormed)
        /\ \A a \in DOMAIN books : IsBook(books[a])

-----------------------------------------------------------------------------
(* A book message laid over an empty side leaves exactly what it quotes.   *)
LEMMA BookMessageLaid ==
    ASSUME NEW levels \in Seq(Bids!Level), Bids!DistinctPrices(levels)
    PROVE  /\ DOMAIN Bids!Overlay(<<>>, levels) = Bids!Quoted(levels)
           /\ DOMAIN Asks!Overlay(<<>>, levels) = Asks!Quoted(levels)
           /\ FiniteSide(Bids!Overlay(<<>>, levels))
           /\ FiniteSide(Asks!Overlay(<<>>, levels))
           /\ Held(Bids!Overlay(<<>>, levels)) = Levels(levels)
           /\ Held(Asks!Overlay(<<>>, levels)) = Levels(levels)
<1> DEFINE Q == {levels[k].price : k \in {j \in DOMAIN levels : levels[j].size # 0}}
           Laid == [p \in Q |-> levels[CHOOSE k \in DOMAIN levels : levels[k].price = p].size]
<1>1. ASSUME NEW p \in Q
      PROVE  p \in Price /\ levels[CHOOSE k \in DOMAIN levels : levels[k].price = p].size
                                \in Size \ {0}
  <2>1. PICK j \in DOMAIN levels : levels[j].price = p /\ levels[j].size # 0
    OBVIOUS
  <2>2. (CHOOSE k \in DOMAIN levels : levels[k].price = p) = j
    BY <2>1 DEF Bids!DistinctPrices
  <2>3. levels[j] \in Bids!Level
    BY <2>1
  <2> QED BY <2>1, <2>2, <2>3 DEF Bids!Level
<1>2. DOMAIN <<>> = {}
  OBVIOUS
<1>3. Bids!Quoted(levels) = Q /\ Asks!Quoted(levels) = Q
  BY DEF Bids!Quoted, Asks!Quoted
<1>4. Bids!Overlay(<<>>, levels) = Laid /\ Asks!Overlay(<<>>, levels) = Laid
  BY <1>2, <1>3 DEF Bids!Overlay, Asks!Overlay, Bids!SizeAt, Asks!SizeAt
<1>5. IsSide(Laid)
  BY <1>1 DEF IsSide
<1>6. DOMAIN Laid = Q
  OBVIOUS
<1>7. IsFiniteSet(Q)
  <2> DEFINE J == {j \in DOMAIN levels : levels[j].size # 0}
             f == [k \in J |-> levels[k].price]
  <2>1. IsFiniteSet(1 .. Len(levels))
    BY FS_Interval
  <2>2. J \in SUBSET (1 .. Len(levels))
    OBVIOUS
  <2>3. IsFiniteSet(J)
    BY <2>1, <2>2, FS_Subset
  <2>4. f \in Surjection(J, Q)
    BY DEF Surjection
  <2> HIDE DEF f, J, Q
  <2> QED BY <2>3, <2>4, FS_Surjection
<1>8. ASSUME NEW k \in DOMAIN levels, levels[k].size # 0
      PROVE  levels[k].price \in Q /\ Laid[levels[k].price] = levels[k].size
  <2>1. levels[k].price \in Q
    BY <1>8
  <2>2. (CHOOSE j \in DOMAIN levels : levels[j].price = levels[k].price) = k
    BY <1>8 DEF Bids!DistinctPrices
  <2> QED BY <2>1, <2>2
<1>9. \A p \in Q : \E k \in DOMAIN levels : levels[k].size # 0 /\ levels[k].price = p
  OBVIOUS
<1> HIDE DEF Laid, Q
<1>10. {<<p, Laid[p]>> : p \in Q} = Levels(levels)
  BY <1>8, <1>9 DEF Levels
<1>11. Held(Laid) = Levels(levels)
  BY <1>6, <1>10 DEF Held
<1> QED BY <1>3, <1>4, <1>5, <1>6, <1>7, <1>11 DEF FiniteSide

(* A price change keeps a side a side.                                     *)
LEMMA WithLevelKeeps ==
    ASSUME NEW b, FiniteSide(b), NEW p \in Price, NEW s \in Size
    PROVE  FiniteSide(Bids!WithLevel(b, p, s)) /\ FiniteSide(Asks!WithLevel(b, p, s))
<1>1. IsSide(Bids!WithLevel(b, p, s)) /\ IsSide(Asks!WithLevel(b, p, s))
  BY DEF FiniteSide, IsSide, Bids!WithLevel, Asks!WithLevel
<1>2. IsFiniteSet(DOMAIN b \cup {p}) /\ IsFiniteSet(DOMAIN b \ {p})
  BY FS_AddElement, FS_RemoveElement DEF FiniteSide
<1>3. /\ \/ DOMAIN Bids!WithLevel(b, p, s) = DOMAIN b \cup {p}
         \/ DOMAIN Bids!WithLevel(b, p, s) = DOMAIN b \ {p}
      /\ \/ DOMAIN Asks!WithLevel(b, p, s) = DOMAIN b \cup {p}
         \/ DOMAIN Asks!WithLevel(b, p, s) = DOMAIN b \ {p}
  BY DEF Bids!WithLevel, Asks!WithLevel
<1> QED BY <1>1, <1>2, <1>3 DEF FiniteSide

(* Putting a book of two sides in place keeps the books' type.             *)
LEMMA PutKeeps ==
    ASSUME OInv, NEW a \in Labelled, NEW book, books' = Put(books, a, book), IsBook(book)
    PROVE  /\ DOMAIN books' \subseteq Labelled
           /\ DOMAIN books \subseteq DOMAIN books'
           /\ \A b \in DOMAIN books' : IsBook(books'[b])
<1>1. DOMAIN books' = DOMAIN books \cup {a}
  BY DEF Put
<1>2. \A b \in DOMAIN books' : books'[b] = IF b = a THEN book ELSE books[b]
  BY DEF Put
<1>3. \A b \in DOMAIN books' : IsBook(books'[b])
  BY <1>1, <1>2 DEF OInv
<1> QED BY <1>1, <1>3 DEF OInv, TypeOK

(* What is at the head of the frame.                                       *)
LEMMA FirstMessage ==
    ASSUME OInv, inbox # <<>>
    PROVE  Head(inbox) \in WellFormed /\ Tail(inbox) \in Seq(WellFormed)
BY DEF OInv

(* Messages of a well-formed frame are messages.                           *)
LEMMA WellFormedMessages == Seq(WellFormed) \subseteq Seq(Message)
BY DEF WellFormed

(* No book, no message.                                                    *)
LEMMA OInvInit == ObserverInit => OInv
<1> SUFFICES ASSUME ObserverInit PROVE OInv
  OBVIOUS
<1>1. DOMAIN <<>> = {}
  OBVIOUS
<1>2. inbox \in Seq(WellFormed) /\ changes \in Seq(Change)
  BY DEF ObserverInit
<1> QED BY <1>1, <1>2, WellFormedMessages DEF ObserverInit, OInv, TypeOK

(* The steps that leave books and published alone.                         *)
LEMMA FrameKeeps == ASSUME DistinctFrames, OInv, OnJsonMessage PROVE OInv'
<1>1. PICK frame \in Frames : Take(frame)
  BY DEF OnJsonMessage
<1>2. inbox' \in Seq(WellFormed)
  BY <1>1 DEF DistinctFrames, Take
<1> QED BY <1>1, <1>2, WellFormedMessages DEF OInv, TypeOK, Take, loop

(* A message that is passed over.                                          *)
LEMMA PassOverKeeps == ASSUME OInv, HandleOther \/ IgnoreBook PROVE OInv'
<1>1. inbox # <<>> /\ inbox' = Tail(inbox) /\ UNCHANGED <<books, published, loop>>
  BY DEF HandleOther, IgnoreBook, Handling
<1>2. inbox' \in Seq(WellFormed)
  BY <1>1, FirstMessage
<1> QED BY <1>1, <1>2, WellFormedMessages DEF OInv, TypeOK, loop

(* The steps of handle_price_change that change no book.                   *)
LEMMA HandlePriceChangeKeeps == ASSUME OInv, HandlePriceChange PROVE OInv'
<1>1. Head(inbox) \in WellFormed /\ Tail(inbox) \in Seq(WellFormed)
  BY FirstMessage DEF HandlePriceChange, Handling
<1>2. Head(inbox).price_changes \in Seq(Change)
  BY <1>1 DEF HandlePriceChange, Handling, WellFormed, Message
<1> QED BY <1>1, <1>2, WellFormedMessages DEF HandlePriceChange, OInv, TypeOK

LEMMA SkipKeeps == ASSUME OInv, SkipChange PROVE OInv'
<1>1. changes' \in Seq(Change)
  BY DEF SkipChange, OInv, TypeOK
<1> QED BY <1>1 DEF SkipChange, OInv, TypeOK

LEMMA DoneKeeps == ASSUME OInv, PriceChangeDone PROVE OInv'
<1>1. DOMAIN published' \subseteq DOMAIN books
  BY DEF PriceChangeDone, TopBookSnapshot, OInv, TypeOK
<1> QED BY <1>1 DEF PriceChangeDone, OInv, TypeOK

(* A book message puts a book in place that holds what the message says.   *)
LEMMA BookReplaced ==
    ASSUME OInv, HandleBook
    PROVE  /\ Head(inbox).asset_id \in Labelled
           /\ \E new : /\ books' = Put(books, Head(inbox).asset_id, new)
                       /\ IsBook(new)
                       /\ Held(new.bids) = Levels(Head(inbox).bids)
                       /\ Held(new.asks) = Levels(Head(inbox).asks)
<1> DEFINE msg == Head(inbox)
           new == [bids |-> Bids!Overlay(<<>>, msg.bids),
                   asks |-> Asks!Overlay(<<>>, msg.asks)]
<1>1. msg \in WellFormed /\ msg.event_type = "book" /\ msg.asset_id \in Labelled
  BY FirstMessage DEF HandleBook, Handling
<1>2. /\ msg.bids \in Seq(Bids!Level) /\ Bids!DistinctPrices(msg.bids)
      /\ msg.asks \in Seq(Bids!Level) /\ Bids!DistinctPrices(msg.asks)
  BY <1>1 DEF WellFormed, Message
<1>3. books' = Put(books, msg.asset_id, new)
  BY DEF HandleBook
<1>4. /\ FiniteSide(new.bids) /\ Held(new.bids) = Levels(msg.bids)
      /\ FiniteSide(new.asks) /\ Held(new.asks) = Levels(msg.asks)
  BY <1>2, BookMessageLaid
<1>5. IsBook(new)
  BY <1>4 DEF IsBook
<1> HIDE DEF new
<1> QED BY <1>1, <1>3, <1>4, <1>5

(* A book message, and a change that is applied.                           *)
LEMMA HandleBookKeeps == ASSUME OInv, HandleBook PROVE OInv'
<1>1. /\ DOMAIN books' \subseteq Labelled /\ DOMAIN books \subseteq DOMAIN books'
      /\ \A b \in DOMAIN books' : IsBook(books'[b])
  BY BookReplaced, PutKeeps
<1>2. inbox' \in Seq(WellFormed)
  BY FirstMessage DEF HandleBook, Handling
<1>3. published' = published \/ published' = TopBookSnapshot(books')
  BY DEF HandleBook
<1>4. DOMAIN published' \subseteq DOMAIN books'
  BY <1>1, <1>3 DEF TopBookSnapshot, OInv, TypeOK
<1>5. UNCHANGED loop
  BY DEF HandleBook
<1> QED BY <1>1, <1>2, <1>4, <1>5, WellFormedMessages DEF OInv, TypeOK, IsBook, FiniteSide, loop

LEMMA ApplyKeeps == ASSUME OInv, ApplyChange PROVE OInv'
<1> DEFINE c == Head(changes)
           new == WithChange(books[c.asset_id], c)
<1>1. c \in Change /\ Tail(changes) \in Seq(Change)
  BY DEF ApplyChange, OInv, TypeOK
<1>2. c.asset_id \in DOMAIN books /\ c.asset_id \in Labelled
  BY DEF ApplyChange, Applicable
<1>3. books' = Put(books, c.asset_id, new)
  BY DEF ApplyChange
<1>4. IsBook(new)
  <2>1. IsBook(books[c.asset_id])
    BY <1>2 DEF OInv
  <2>2. c.price \in Price /\ c.size \in Size
    BY <1>1 DEF Change
  <2>3. /\ FiniteSide(Bids!WithLevel(books[c.asset_id].bids, c.price, c.size))
        /\ FiniteSide(Asks!WithLevel(books[c.asset_id].asks, c.price, c.size))
    BY <2>1, <2>2, WithLevelKeeps DEF IsBook
  <2> QED BY <2>1, <2>3 DEF WithChange, IsBook
<1>5. should_print' \in BOOLEAN
  BY DEF ApplyChange, ReachesTop, OInv, TypeOK
<1> HIDE DEF new
<1>6. /\ DOMAIN books' \subseteq Labelled /\ DOMAIN books \subseteq DOMAIN books'
      /\ \A b \in DOMAIN books' : IsBook(books'[b])
  BY <1>2, <1>3, <1>4, PutKeeps
<1> QED BY <1>1, <1>5, <1>6 DEF ApplyChange, OInv, TypeOK, IsBook, FiniteSide

(* So every step keeps the inductive invariant.                            *)
LEMMA OInvKeeps == DistinctFrames /\ OInv /\ [ObserverNext]_vars => OInv'
<1>1. OInv /\ UNCHANGED vars => OInv'
  BY DEF OInv, TypeOK, vars
<1> QED BY <1>1, FrameKeeps, PassOverKeeps, HandleBookKeeps, HandlePriceChangeKeeps,
           SkipKeeps, ApplyKeeps, DoneKeeps DEF ObserverNext

-----------------------------------------------------------------------------
(* The inductive invariant of the observer.                                *)
THEOREM OInvHolds == ASSUME DistinctFrames PROVE ObserverSpec => []OInv
<1>1. OInv /\ [ObserverNext]_vars => OInv'
  BY OInvKeeps
<1> QED BY <1>1, OInvInit, PTL DEF ObserverSpec

(* Books are kept for labelled assets only and hold no empty level, and    *)
(* nothing is published of an asset without a book.                        *)
THEOREM TypeOKHolds == ASSUME DistinctFrames PROVE ObserverSpec => []TypeOK
<1>1. OInv => TypeOK
  BY DEF OInv
<1> QED BY <1>1, OInvHolds, PTL

(* Only these two actions touch a book.                                    *)
LEMMA OthersKeepBooks ==
    ASSUME [ObserverNext]_vars, ~HandleBook, ~ApplyChange
    PROVE  books' = books
BY DEF ObserverNext, vars, OnJsonMessage, Take, HandleOther, IgnoreBook,
       HandlePriceChange, SkipChange, PriceChangeDone

(* A book message that counts is handled in full: no other step can take   *)
(* its place, and none passes over it.                                     *)
LEMMA DueIsHandled ==
    ASSUME OInv, ObserverNext, NEW a, BookDue(a)
    PROVE  HandleBook /\ Head(inbox).asset_id = a
BY DEF ObserverNext, BookDue, Handling, OnJsonMessage, Take, Handled, HandleOther,
       IgnoreBook, HandlePriceChange, SkipChange, ApplyChange, PriceChangeDone

(***************************************************************************)
(* Whatever the feed sends, a book message that parses and names a labelled*)
(* asset leaves its book with exactly its levels, sizes included, and      *)
(* nothing else creates, removes or, but for a change of the asset, alters *)
(* a book.                                                                 *)
(***************************************************************************)
THEOREM SnapshotReplacesHolds ==
    ASSUME DistinctFrames PROVE ObserverSpec => SnapshotReplaces
<1> DEFINE Replaces(a) ==
        IF BookDue(a)
        THEN /\ a \in DOMAIN books'
             /\ Held(books'[a].bids) = Levels(Head(inbox).bids)
             /\ Held(books'[a].asks) = Levels(Head(inbox).asks)
        ELSE /\ a \in DOMAIN books' <=> a \in DOMAIN books
             /\ a \in DOMAIN books =>
                   \/ books'[a] = books[a]
                   \/ looping /\ changes # <<>> /\ Head(changes).asset_id = a
<1>1. ASSUME OInv, HandleBook, NEW a PROVE Replaces(a)
  <2>1. PICK new : /\ books' = Put(books, Head(inbox).asset_id, new)
                   /\ Held(new.bids) = Levels(Head(inbox).bids)
                   /\ Held(new.asks) = Levels(Head(inbox).asks)
    BY <1>1, BookReplaced
  <2>2. BookDue(Head(inbox).asset_id)
    BY <1>1 DEF HandleBook, BookDue
  <2>3. BookDue(a) => a = Head(inbox).asset_id
    BY DEF BookDue
  <2>4. /\ DOMAIN books' = DOMAIN books \cup {Head(inbox).asset_id}
        /\ \A b \in DOMAIN books' :
              books'[b] = IF b = Head(inbox).asset_id THEN new ELSE books[b]
    BY <2>1 DEF Put
  <2>5. CASE a = Head(inbox).asset_id
    BY <2>1, <2>2, <2>4, <2>5
  <2>6. CASE a # Head(inbox).asset_id
    BY <2>3, <2>4, <2>6
  <2> QED BY <2>5, <2>6
<1>2. ASSUME ApplyChange, NEW a PROVE Replaces(a)
  <2>1. looping /\ changes # <<>> /\ Head(changes).asset_id \in DOMAIN books
    BY <1>2 DEF ApplyChange, Applicable
  <2>2. /\ DOMAIN books' = DOMAIN books \cup {Head(changes).asset_id}
        /\ \A b \in DOMAIN books' : b # Head(changes).asset_id => books'[b] = books[b]
    BY <1>2 DEF ApplyChange, Put
  <2>3. ~BookDue(a)
    BY <2>1 DEF BookDue, Handling
  <2> QED BY <2>1, <2>2, <2>3
<1>3. ASSUME OInv, ObserverNext, ~HandleBook, ~ApplyChange, NEW a PROVE Replaces(a)
  <2>1. ~BookDue(a)
    BY <1>3, DueIsHandled
  <2>2. books' = books
    BY <1>3, OthersKeepBooks
  <2> QED BY <2>1, <2>2
<1>4. OInv /\ ObserverNext => \A a \in Asset : Replaces(a)
  BY <1>1, <1>2, <1>3
<1>5. OInv /\ [ObserverNext]_vars => [\A a \in Asset : Replaces(a)]_vars
  BY <1>4
<1> QED BY <1>5, OInvHolds, PTL DEF ObserverSpec, SnapshotReplaces

-----------------------------------------------------------------------------
(* A side as its iterator yields it, with the side's order as an argument. *)
RankedBy(isBid, b) ==
    [r \in 1 .. Cardinality(DOMAIN b) |->
        [price |-> At(isBid, DOMAIN b, r), size |-> b[At(isBid, DOMAIN b, r)]]]

(* Each instance of BookLevels counts with a Cardinality of its own.       *)
LEMMA SameCardinality ==
    \A S : Bids!Cardinality(S) = Cardinality(S) /\ Asks!Cardinality(S) = Cardinality(S)
BY DEF Bids!Cardinality, Asks!Cardinality, Cardinality

(* Both instances rank by position.                                        *)
LEMMA RankedByPosition ==
    ASSUME NEW b, FiniteSide(b)
    PROVE  Bids!Ranked(b) = RankedBy(TRUE, b) /\ Asks!Ranked(b) = RankedBy(FALSE, b)
<1>1. \A q \in DOMAIN b :
         /\ {x \in DOMAIN b : Bids!ComesBefore(x, q)} = Ahead(TRUE, DOMAIN b, q)
         /\ {x \in DOMAIN b : Asks!ComesBefore(x, q)} = Ahead(FALSE, DOMAIN b, q)
  BY DEF Bids!ComesBefore, Asks!ComesBefore, Ahead, Precedes
<1>2. \A q \in DOMAIN b :
         /\ Bids!Cardinality({x \in DOMAIN b : Bids!ComesBefore(x, q)})
            = Cardinality(Ahead(TRUE, DOMAIN b, q))
         /\ Asks!Cardinality({x \in DOMAIN b : Asks!ComesBefore(x, q)})
            = Cardinality(Ahead(FALSE, DOMAIN b, q))
  BY <1>1, SameCardinality
<1>3. \A r \in 1 .. Cardinality(DOMAIN b) :
         /\ (CHOOSE q \in DOMAIN b :
                Bids!Cardinality({x \in DOMAIN b : Bids!ComesBefore(x, q)}) = r - 1)
            = At(TRUE, DOMAIN b, r)
         /\ (CHOOSE q \in DOMAIN b :
                Asks!Cardinality({x \in DOMAIN b : Asks!ComesBefore(x, q)}) = r - 1)
            = At(FALSE, DOMAIN b, r)
  BY <1>2 DEF At
<1> QED BY <1>3, SameCardinality DEF Bids!Ranked, Asks!Ranked, RankedBy

(* The visible top of a side, position by position.                        *)
LEMMA TopPositions ==
    ASSUME NEW isBid \in BOOLEAN, NEW b, FiniteSide(b)
    PROVE  LET n == Cardinality(DOMAIN b)
               m == IF n < DISPLAY_DEPTH THEN n ELSE DISPLAY_DEPTH
           IN  /\ n \in Nat
               /\ RankedBy(isBid, b) \in Seq([price : Price, size : Size])
               /\ Len(RankedBy(isBid, b)) = n
               /\ Top(RankedBy(isBid, b)) = [r \in 1 .. m |-> RankedBy(isBid, b)[r]]
<1> DEFINE n == Cardinality(DOMAIN b)
           s == RankedBy(isBid, b)
<1>1. n \in Nat
  BY FS_CardinalityType DEF FiniteSide
<1>2. DOMAIN b \in SUBSET Int /\ IsFiniteSet(DOMAIN b)
  BY ObserverAssumption DEF FiniteSide, IsSide
<1>3. \A r \in 1 .. n : At(isBid, DOMAIN b, r) \in DOMAIN b
  BY <1>2, EveryPosition
<1>4. \A r \in 1 .. n : s[r] \in [price : Price, size : Size]
  BY <1>3 DEF RankedBy, FiniteSide, IsSide
<1>5. s \in [1 .. n -> [price : Price, size : Size]]
  BY <1>4 DEF RankedBy
<1> HIDE DEF n, s
<1>6. s \in Seq([price : Price, size : Size]) /\ Len(s) = n
  <2>1. s \in Seq([price : Price, size : Size])
    <3>1. \A S : \A f \in [1 .. n -> S] : f \in Seq(S)
      BY <1>1
    <3> QED BY <1>5, <3>1
  <2>2. Len(s) \in Nat /\ DOMAIN s = 1 .. Len(s) /\ DOMAIN s = 1 .. n
    BY <1>5, <2>1, LenProperties
  <2>3. n <= Len(s)
    <3>1. CASE n = 0
      BY <2>2, <3>1
    <3>2. CASE n \in 1 .. n
      BY <1>1, <2>2, <3>2
    <3> QED BY <1>1, <3>1, <3>2
  <2>4. Len(s) <= n
    <3>1. CASE Len(s) = 0
      BY <1>1, <3>1
    <3>2. CASE Len(s) \in 1 .. Len(s)
      BY <1>1, <2>2, <3>2
    <3> QED BY <2>2, <3>1, <3>2
  <2>5. Len(s) \in Nat
    BY <2>2
  <2>6. Len(s) = n
    BY <1>1, <2>3, <2>4, <2>5
  <2> QED BY <2>1, <2>6
<1>7. DISPLAY_DEPTH \in Nat \ {0}
  BY ObserverAssumption
<1>8. Top(s) = [r \in 1 .. (IF n < DISPLAY_DEPTH THEN n ELSE DISPLAY_DEPTH) |-> s[r]]
  BY <1>1, <1>6, <1>7 DEF Top
<1> QED BY <1>1, <1>6, <1>8 DEF n, s

(* Two sides that differ at one price only; a price that is not visible.   *)
SameBut(b, c, p) == /\ DOMAIN b \ {p} = DOMAIN c \ {p}
                    /\ \A q \in DOMAIN b \ {p} : b[q] = c[q]

OutOfTop(isBid, b, p) ==
    \A r \in DOMAIN Top(RankedBy(isBid, b)) : Top(RankedBy(isBid, b))[r].price # p

(***************************************************************************)
(* A side that changes at a price outside the visible top, before and      *)
(* after, keeps its visible top.                                           *)
(***************************************************************************)
LEMMA TopKept ==
    ASSUME NEW isBid \in BOOLEAN, NEW b, FiniteSide(b), NEW c, FiniteSide(c), NEW p,
           SameBut(b, c, p), OutOfTop(isBid, b, p), OutOfTop(isBid, c, p)
    PROVE  Top(RankedBy(isBid, b)) = Top(RankedBy(isBid, c))
<1> DEFINE Depth(x) == IF Cardinality(DOMAIN x) < DISPLAY_DEPTH
                       THEN Cardinality(DOMAIN x) ELSE DISPLAY_DEPTH
<1>1. /\ DISPLAY_DEPTH \in Nat \ {0}
      /\ DOMAIN b \in SUBSET Int /\ IsFiniteSet(DOMAIN b)
      /\ DOMAIN c \in SUBSET Int /\ IsFiniteSet(DOMAIN c)
  BY ObserverAssumption DEF FiniteSide, IsSide
<1>2. /\ Cardinality(DOMAIN b) \in Nat /\ Cardinality(DOMAIN c) \in Nat
      /\ Top(RankedBy(isBid, b)) = [r \in 1 .. Depth(b) |-> RankedBy(isBid, b)[r]]
      /\ Top(RankedBy(isBid, c)) = [r \in 1 .. Depth(c) |-> RankedBy(isBid, c)[r]]
  BY TopPositions
<1>3. ASSUME NEW x, FiniteSide(x), DOMAIN x \in SUBSET Int, p \in DOMAIN x,
             Top(RankedBy(isBid, x)) = [r \in 1 .. Depth(x) |-> RankedBy(isBid, x)[r]],
             OutOfTop(isBid, x, p)
      PROVE  DISPLAY_DEPTH <= Cardinality(Ahead(isBid, DOMAIN x, p))
  <2> DEFINE k == Cardinality(Ahead(isBid, DOMAIN x, p))
  <2>1. /\ Cardinality(DOMAIN x) \in Nat /\ k \in 0 .. Cardinality(DOMAIN x) - 1
        /\ At(isBid, DOMAIN x, k + 1) = p
    BY <1>3, AheadFacts, FoundAt DEF FiniteSide
  <2> HIDE DEF k
  <2>2. k + 1 \in 1 .. Cardinality(DOMAIN x)
    BY <2>1
  <2>3. RankedBy(isBid, x)[k + 1].price = p
    BY <2>1, <2>2 DEF RankedBy
  <2>4. k + 1 \notin 1 .. Depth(x)
    BY <1>3, <2>3 DEF OutOfTop
  <2> QED BY <1>1, <2>1, <2>2, <2>4 DEF k
<1>4. ASSUME NEW r \in 1 .. DISPLAY_DEPTH
      PROVE  /\ r <= Cardinality(DOMAIN b) <=> r <= Cardinality(DOMAIN c)
             /\ r <= Cardinality(DOMAIN b) =>
                    /\ At(isBid, DOMAIN b, r) = At(isBid, DOMAIN c, r)
                    /\ At(isBid, DOMAIN b, r) \in DOMAIN b \ {p}
  <2>1. /\ p \in DOMAIN b => DISPLAY_DEPTH <= Cardinality(Ahead(isBid, DOMAIN b, p))
        /\ p \in DOMAIN c => DISPLAY_DEPTH <= Cardinality(Ahead(isBid, DOMAIN c, p))
    BY <1>1, <1>2, <1>3
  <2>2. DISPLAY_DEPTH \in Nat /\ DOMAIN b \ {p} = DOMAIN c \ {p}
    BY <1>1 DEF SameBut
  <2> QED BY <1>1, <1>4, <2>1, <2>2, FirstPositionsKept
<1>5. Depth(b) = Depth(c)
  <2>1. ASSUME Cardinality(DOMAIN b) < DISPLAY_DEPTH
        PROVE  Cardinality(DOMAIN c) = Cardinality(DOMAIN b)
    <3>1. CASE Cardinality(DOMAIN c) > Cardinality(DOMAIN b)
      BY <1>1, <1>2, <1>4, <2>1, <3>1
    <3>2. CASE Cardinality(DOMAIN c) < Cardinality(DOMAIN b)
      BY <1>1, <1>2, <1>4, <2>1, <3>2
    <3> QED BY <1>2, <3>1, <3>2
  <2>2. ASSUME Cardinality(DOMAIN b) >= DISPLAY_DEPTH
        PROVE  Cardinality(DOMAIN c) >= DISPLAY_DEPTH
    BY <1>1, <1>2, <1>4, <2>2
  <2> QED BY <1>1, <1>2, <2>1, <2>2
<1>6. ASSUME NEW r \in 1 .. Depth(b)
      PROVE  RankedBy(isBid, b)[r] = RankedBy(isBid, c)[r]
  <2>1. /\ r \in 1 .. DISPLAY_DEPTH /\ r \in 1 .. Cardinality(DOMAIN b)
        /\ r \in 1 .. Cardinality(DOMAIN c)
    BY <1>1, <1>2, <1>5
  <2>2. /\ At(isBid, DOMAIN b, r) = At(isBid, DOMAIN c, r)
        /\ At(isBid, DOMAIN b, r) \in DOMAIN b \ {p}
    BY <1>4, <2>1
  <2> QED BY <2>1, <2>2 DEF RankedBy, SameBut
<1> QED BY <1>2, <1>5, <1>6

(***************************************************************************)
(* With the visible levels of a side, whether it is empty and its best     *)
(* price are decided too, as the top is one level deep at least.           *)
(***************************************************************************)
LEMMA TopDecides ==
    ASSUME NEW isBid \in BOOLEAN, NEW b, FiniteSide(b), NEW c, FiniteSide(c),
           Top(RankedBy(isBid, b)) = Top(RankedBy(isBid, c))
    PROVE  /\ RankedBy(isBid, b) = <<>> <=> RankedBy(isBid, c) = <<>>
           /\ RankedBy(isBid, b) # <<>> =>
                 RankedBy(isBid, b)[1].price = RankedBy(isBid, c)[1].price
<1> DEFINE s == RankedBy(isBid, b)
           t == RankedBy(isBid, c)
           depth(n) == IF n < DISPLAY_DEPTH THEN n ELSE DISPLAY_DEPTH
<1>1. /\ s \in Seq([price : Price, size : Size]) /\ t \in Seq([price : Price, size : Size])
      /\ Len(s) \in Nat /\ Len(t) \in Nat
      /\ Top(s) = [r \in 1 .. depth(Len(s)) |-> s[r]]
      /\ Top(t) = [r \in 1 .. depth(Len(t)) |-> t[r]]
  <2>1. /\ s \in Seq([price : Price, size : Size]) /\ Len(s) \in Nat
        /\ Top(s) = [r \in 1 .. depth(Len(s)) |-> s[r]]
    <3> DEFINE n == Cardinality(DOMAIN b)
               m == IF n < DISPLAY_DEPTH THEN n ELSE DISPLAY_DEPTH
    <3>1. /\ n \in Nat /\ s \in Seq([price : Price, size : Size]) /\ Len(s) = n
          /\ Top(s) = [r \in 1 .. m |-> s[r]]
      BY TopPositions, Zenon
    <3>2. depth(Len(s)) = m
      BY <3>1
    <3> HIDE DEF n, m, s
    <3> QED BY <3>1, <3>2
  <2>2. /\ t \in Seq([price : Price, size : Size]) /\ Len(t) \in Nat
        /\ Top(t) = [r \in 1 .. depth(Len(t)) |-> t[r]]
    <3> DEFINE n == Cardinality(DOMAIN c)
               m == IF n < DISPLAY_DEPTH THEN n ELSE DISPLAY_DEPTH
    <3>1. /\ n \in Nat /\ t \in Seq([price : Price, size : Size]) /\ Len(t) = n
          /\ Top(t) = [r \in 1 .. m |-> t[r]]
      BY TopPositions, Zenon
    <3>2. depth(Len(t)) = m
      BY <3>1
    <3> HIDE DEF n, m, t
    <3> QED BY <3>1, <3>2
  <2> QED BY <2>1, <2>2
<1> HIDE DEF s, t
<1>2. DISPLAY_DEPTH \in Nat \ {0}
  BY ObserverAssumption
<1>3. (s = <<>> <=> Len(s) = 0) /\ (t = <<>> <=> Len(t) = 0)
  BY <1>1, EmptySeq
<1>4. 1 \in DOMAIN Top(s) <=> s # <<>>
  BY <1>1, <1>2, <1>3
<1>5. 1 \in DOMAIN Top(t) <=> t # <<>>
  BY <1>1, <1>2, <1>3
<1>6. Top(s) = Top(t)
  BY DEF s, t
<1>7. 1 \in DOMAIN Top(s) => Top(s)[1] = s[1]
  BY <1>1
<1>8. 1 \in DOMAIN Top(t) => Top(t)[1] = t[1]
  BY <1>1
<1> QED BY <1>4, <1>5, <1>6, <1>7, <1>8 DEF s, t

(* So what is published of a book depends on its visible levels only.      *)
LEMMA AssetBookKept ==
    ASSUME NEW b, IsBook(b), NEW c, IsBook(c), TopView(b) = TopView(c)
    PROVE  AssetBook(b) = AssetBook(c)
<1>1. /\ Bids!Ranked(b.bids) = RankedBy(TRUE, b.bids)
      /\ Bids!Ranked(c.bids) = RankedBy(TRUE, c.bids)
      /\ Asks!Ranked(b.asks) = RankedBy(FALSE, b.asks)
      /\ Asks!Ranked(c.asks) = RankedBy(FALSE, c.asks)
  BY RankedByPosition DEF IsBook
<1>2. /\ Top(RankedBy(TRUE, b.bids)) = Top(RankedBy(TRUE, c.bids))
      /\ Top(RankedBy(FALSE, b.asks)) = Top(RankedBy(FALSE, c.asks))
  BY <1>1 DEF TopView
<1>3. /\ RankedBy(TRUE, b.bids) = <<>> <=> RankedBy(TRUE, c.bids) = <<>>
      /\ RankedBy(TRUE, b.bids) # <<>> =>
            RankedBy(TRUE, b.bids)[1].price = RankedBy(TRUE, c.bids)[1].price
      /\ RankedBy(FALSE, b.asks) = <<>> <=> RankedBy(FALSE, c.asks) = <<>>
      /\ RankedBy(FALSE, b.asks) # <<>> =>
            RankedBy(FALSE, b.asks)[1].price = RankedBy(FALSE, c.asks)[1].price
  BY <1>2, TopDecides DEF IsBook
<1>4. Spread(Bids!Ranked(b.bids), Asks!Ranked(b.asks))
      = Spread(Bids!Ranked(c.bids), Asks!Ranked(c.asks))
  BY <1>1, <1>3 DEF Spread
<1>5. Spread(Bids!Ranked(b.bids), Asks!Ranked(b.asks)) # <<>> =>
          /\ RankedBy(TRUE, b.bids)[1].price = RankedBy(TRUE, c.bids)[1].price
          /\ RankedBy(FALSE, b.asks)[1].price = RankedBy(FALSE, c.asks)[1].price
  BY <1>1, <1>3 DEF Spread
<1> QED BY <1>1, <1>2, <1>4, <1>5 DEF AssetBook

-----------------------------------------------------------------------------
(* The book before a change and after it, side by side.                    *)
LEMMA ChangedSides ==
    ASSUME NEW b, IsBook(b), NEW c \in Change, IsBook(WithChange(b, c))
    PROVE  LET new == WithChange(b, c)
           IN  /\ \/ c.side = "BUY" /\ new.asks = b.asks
                                    /\ new.bids = Bids!WithLevel(b.bids, c.price, c.size)
                  \/ c.side # "BUY" /\ new.bids = b.bids
                                    /\ new.asks = Asks!WithLevel(b.asks, c.price, c.size)
BY DEF WithChange, IsBook

(* A change leaves every other price as it is.                            *)
LEMMA ChangedElsewhere ==
    ASSUME NEW b, NEW p, NEW s
    PROVE  SameBut(b, Bids!WithLevel(b, p, s), p) /\ SameBut(b, Asks!WithLevel(b, p, s), p)
BY DEF SameBut, Bids!WithLevel, Asks!WithLevel

(***************************************************************************)
(* The test of handle_price_change is enough: a change whose price is not  *)
(* among the visible ones, before and after, leaves them as they are.      *)
(***************************************************************************)
LEMMA TestIsEnough ==
    ASSUME NEW b, IsBook(b), NEW c \in Change, IsBook(WithChange(b, c)),
           ~ReachesTop(b, WithChange(b, c), c)
    PROVE  AssetBook(b) = AssetBook(WithChange(b, c))
<1> DEFINE new == WithChange(b, c)
<1>1. /\ Bids!Ranked(b.bids) = RankedBy(TRUE, b.bids)
      /\ Bids!Ranked(new.bids) = RankedBy(TRUE, new.bids)
      /\ Asks!Ranked(b.asks) = RankedBy(FALSE, b.asks)
      /\ Asks!Ranked(new.asks) = RankedBy(FALSE, new.asks)
  BY RankedByPosition DEF IsBook
<1>2. FiniteSide(b.bids) /\ FiniteSide(b.asks) /\ FiniteSide(new.bids) /\ FiniteSide(new.asks)
  BY DEF IsBook
<1>3. ~InTop(b, c) /\ ~InTop(new, c)
  BY DEF ReachesTop
<1>4. \/ c.side = "BUY" /\ new.asks = b.asks
                        /\ new.bids = Bids!WithLevel(b.bids, c.price, c.size)
      \/ c.side # "BUY" /\ new.bids = b.bids
                        /\ new.asks = Asks!WithLevel(b.asks, c.price, c.size)
  BY ChangedSides
<1> HIDE DEF new
<1>5. TopView(b) = TopView(new)
  <2>1. CASE c.side = "BUY"
    <3>1. OutOfTop(TRUE, b.bids, c.price) /\ OutOfTop(TRUE, new.bids, c.price)
      BY <1>1, <1>3, <2>1 DEF InTop, TopView, OutOfTop
    <3>2. SameBut(b.bids, new.bids, c.price) /\ new.asks = b.asks
      BY <1>4, <2>1, ChangedElsewhere
    <3>3. Top(RankedBy(TRUE, b.bids)) = Top(RankedBy(TRUE, new.bids))
      BY <1>2, <3>1, <3>2, TopKept
    <3> QED BY <1>1, <3>2, <3>3 DEF TopView
  <2>2. CASE c.side # "BUY"
    <3>1. OutOfTop(FALSE, b.asks, c.price) /\ OutOfTop(FALSE, new.asks, c.price)
      BY <1>1, <1>3, <2>2 DEF InTop, TopView, OutOfTop
    <3>2. SameBut(b.asks, new.asks, c.price) /\ new.bids = b.bids
      BY <1>4, <2>2, ChangedElsewhere
    <3>3. Top(RankedBy(FALSE, b.asks)) = Top(RankedBy(FALSE, new.asks))
      BY <1>2, <3>1, <3>2, TopKept
    <3> QED BY <1>1, <3>2, <3>3 DEF TopView
  <2> QED BY <2>1, <2>2
<1> QED BY <1>5, AssetBookKept DEF new

(***************************************************************************)
(* That what was published is current is inductive, given that should_print*)
(* is FALSE outside the loop of handle_price_change.                       *)
(***************************************************************************)
PInv == OInv /\ PublishedIsCurrent /\ (should_print => looping)

(* What a reader would see if the books were published now.                *)
LEMMA SeenNow ==
    ASSUME NEW bs, NEW a \in Labelled
    PROVE  Seen(TopBookSnapshot(bs), a)
           = IF a \in DOMAIN bs THEN AssetBook(bs[a]) ELSE AssetBook(EmptyBook)
BY DEF Seen, TopBookSnapshot

(* A book put in place of one that looks the same is not seen.             *)
LEMMA UnseenPut ==
    ASSUME NEW bs, NEW a \in Labelled, NEW b \in Labelled, NEW book,
           AssetBook(book) = AssetBook(IF a \in DOMAIN bs THEN bs[a] ELSE EmptyBook)
    PROVE  Seen(TopBookSnapshot(Put(bs, a, book)), b) = Seen(TopBookSnapshot(bs), b)
<1>1. DOMAIN Put(bs, a, book) = DOMAIN bs \cup {a}
  BY DEF Put
<1>2. b \in DOMAIN bs \cup {a} => Put(bs, a, book)[b] = IF b = a THEN book ELSE bs[b]
  BY DEF Put
<1> QED BY <1>1, <1>2, SeenNow

(* A book not heard of yet.                                                *)
LEMMA EmptyIsBook == IsBook(EmptyBook)
<1>1. DOMAIN <<>> = {}
  OBVIOUS
<1>2. FiniteSide(<<>>)
  BY <1>1, FS_EmptySet DEF FiniteSide, IsSide
<1> QED BY <1>2 DEF IsBook, EmptyBook

(* Nothing is known and nothing is published.                              *)
LEMMA PInvInit == ObserverInit => PInv
<1> SUFFICES ASSUME ObserverInit PROVE PInv
  OBVIOUS
<1>1. \A a \in Labelled : Seen(published, a) = Seen(TopBookSnapshot(books), a)
  BY DEF ObserverInit, Seen, TopBookSnapshot
<1> QED BY <1>1, OInvInit DEF ObserverInit, PInv, PublishedIsCurrent

(* A book message is published when the visible top is not the same.       *)
LEMMA HandleBookCurrent == ASSUME PInv, OInv', HandleBook PROVE PInv'
<1> DEFINE a   == Head(inbox).asset_id
           old == IF a \in DOMAIN books THEN books[a] ELSE EmptyBook
           new == [bids |-> Bids!Overlay(<<>>, Head(inbox).bids),
                   asks |-> Asks!Overlay(<<>>, Head(inbox).asks)]
<1>1. /\ a \in Labelled /\ books' = Put(books, a, new)
      /\ published' = IF TopView(new) # TopView(old)
                      THEN TopBookSnapshot(books') ELSE published
      /\ ~should_print /\ ~should_print'
  BY DEF HandleBook, Handling, loop, PInv
<1>2. IsBook(old)
  BY EmptyIsBook DEF PInv, OInv
<1> HIDE DEF new
<1>3. books'[a] = new /\ a \in DOMAIN books'
  BY <1>1 DEF Put
<1>4. IsBook(new)
  BY <1>3 DEF OInv
<1>5. CASE TopView(new) # TopView(old)
  <2>1. published' = TopBookSnapshot(books')
    BY <1>1, <1>5
  <2>2. PublishedIsCurrent'
    BY <2>1 DEF PublishedIsCurrent
  <2> QED BY <1>1, <2>2 DEF PInv
<1>6. CASE TopView(new) = TopView(old)
  <2>1. AssetBook(new) = AssetBook(old)
    BY <1>2, <1>4, <1>6, AssetBookKept
  <2>2. ASSUME NEW b \in Labelled
        PROVE  Seen(published, b) = Seen(TopBookSnapshot(Put(books, a, new)), b)
    <3>1. Seen(published, b) = Seen(TopBookSnapshot(books), b)
      BY <1>1 DEF PInv, PublishedIsCurrent
    <3> HIDE DEF a
    <3> QED BY <1>1, <2>1, <3>1, UnseenPut DEF old
  <2>3. published' = published
    BY <1>1, <1>6
  <2>4. PublishedIsCurrent'
    BY <1>1, <2>2, <2>3 DEF PublishedIsCurrent
  <2> QED BY <1>1, <2>4 DEF PInv
<1> QED BY <1>5, <1>6

(* A change that reaches the visible top makes a publish due.              *)
LEMMA ApplyCurrent == ASSUME PInv, OInv', ApplyChange PROVE PInv'
<1> DEFINE c   == Head(changes)
           a   == c.asset_id
           new == WithChange(books[a], c)
<1>1. /\ c \in Change /\ a \in Labelled /\ a \in DOMAIN books /\ looping'
      /\ books' = Put(books, a, new) /\ published' = published
      /\ should_print' = (should_print \/ ReachesTop(books[a], new, c))
  BY DEF ApplyChange, Applicable, PInv, OInv, TypeOK
<1>2. IsBook(books[a])
  BY <1>1 DEF PInv, OInv
<1>3. IsBook(new)
  <2> HIDE DEF new
  <2>1. books'[a] = new /\ a \in DOMAIN books'
    BY <1>1 DEF Put
  <2> QED BY <2>1 DEF OInv
<1>4. ASSUME ~should_print', NEW b \in Labelled
      PROVE  Seen(published, b) = Seen(TopBookSnapshot(Put(books, a, new)), b)
  <2>1. ~should_print /\ ~ReachesTop(books[a], new, c)
    BY <1>1, <1>4
  <2>2. AssetBook(new) = AssetBook(books[a])
    BY <1>1, <1>2, <1>3, <2>1, TestIsEnough
  <2>3. Seen(published, b) = Seen(TopBookSnapshot(books), b)
    BY <2>1 DEF PInv, PublishedIsCurrent
  <2> HIDE DEF a, c, new
  <2> QED BY <1>1, <2>2, <2>3, UnseenPut
<1>5. PublishedIsCurrent'
  BY <1>1, <1>4 DEF PublishedIsCurrent
<1> QED BY <1>1, <1>5 DEF PInv

(* The end of handle_price_change publishes what is due.                   *)
LEMMA DoneCurrent == ASSUME PInv, OInv', PriceChangeDone PROVE PInv'
<1>1. /\ published' = IF should_print THEN TopBookSnapshot(books) ELSE published
      /\ books' = books /\ ~should_print'
  BY DEF PriceChangeDone
<1>2. PublishedIsCurrent'
  BY <1>1 DEF PInv, PublishedIsCurrent
<1> QED BY <1>1, <1>2 DEF PInv

(* The other steps change neither books nor what is published.             *)
LEMMA OtherCurrent ==
    ASSUME PInv, OInv',
           \/ OnJsonMessage \/ HandleOther \/ IgnoreBook \/ HandlePriceChange
           \/ SkipChange \/ UNCHANGED vars
    PROVE  PInv'
<1>1. books' = books /\ published' = published
  BY DEF OnJsonMessage, Take, HandleOther, IgnoreBook, HandlePriceChange, SkipChange, vars
<1>2. \/ should_print' = should_print /\ looping' = looping
      \/ ~should_print /\ ~should_print'
  BY DEF OnJsonMessage, Take, HandleOther, IgnoreBook, HandlePriceChange, Handling,
         SkipChange, vars, loop, PInv
<1>3. PublishedIsCurrent'
  BY <1>1, <1>2 DEF PInv, PublishedIsCurrent
<1> QED BY <1>2, <1>3 DEF PInv

(* So every step keeps the inductive invariant.                            *)
LEMMA PInvKeeps == DistinctFrames /\ PInv /\ [ObserverNext]_vars => PInv'
<1> SUFFICES ASSUME DistinctFrames, PInv, [ObserverNext]_vars PROVE PInv'
  OBVIOUS
<1>1. OInv'
  BY OInvKeeps DEF PInv
<1> QED BY <1>1, HandleBookCurrent, ApplyCurrent, DoneCurrent, OtherCurrent DEF ObserverNext

(***************************************************************************)
(* For any depth of the visible top, prices and messages: unless a publish *)
(* is due at the end of the message, what readers were last given shows    *)
(* every labelled asset's book as it is.                                   *)
(***************************************************************************)
THEOREM PublishedIsCurrentHolds ==
    ASSUME DistinctFrames PROVE ObserverSpec => []PublishedIsCurrent
<1>1. PInv /\ [ObserverNext]_vars => PInv'
  BY PInvKeeps
<1>2. PInv => PublishedIsCurrent
  BY DEF PInv
<1> QED BY <1>1, <1>2, PInvInit, PTL DEF ObserverSpec

(* Outside of handle_price_change's loop no change is under way.           *)
ChangesOnlyInLoop == looping \/ changes = <<>>

(***************************************************************************)
(* Whatever the frames are, well formed or not: what is published in a step*)
(* shows all the books as that step leaves them, and no change of the      *)
(* message being handled is still to be applied.                           *)
(***************************************************************************)
THEOREM PublishedWholeHolds == ObserverSpec => PublishedWhole
<1> DEFINE Whole == published' # published =>
                        changes = <<>> /\ published' = TopBookSnapshot(books')
<1>1. ObserverInit => ChangesOnlyInLoop
  BY DEF ObserverInit, ChangesOnlyInLoop
<1>2. ChangesOnlyInLoop /\ [ObserverNext]_vars => ChangesOnlyInLoop'
  BY DEF ChangesOnlyInLoop, ObserverNext, vars, loop, OnJsonMessage, Take, HandleOther,
         IgnoreBook, HandleBook, HandlePriceChange, SkipChange, ApplyChange, PriceChangeDone
<1>3. ASSUME ChangesOnlyInLoop, [ObserverNext]_vars PROVE Whole
  <2>1. CASE HandleBook
    <3>1. changes = <<>>
      BY <1>3, <2>1 DEF HandleBook, Handling, ChangesOnlyInLoop
    <3>2. published' = published \/ published' = TopBookSnapshot(books')
      BY <2>1 DEF HandleBook
    <3> QED BY <3>1, <3>2
  <2>2. CASE PriceChangeDone
    BY <2>2 DEF PriceChangeDone
  <2>3. CASE ~HandleBook /\ ~PriceChangeDone
    BY <1>3, <2>3 DEF ObserverNext, vars, OnJsonMessage, Take, HandleOther, IgnoreBook,
                      HandlePriceChange, SkipChange, ApplyChange
  <2> QED BY <2>1, <2>2, <2>3
<1>4. ChangesOnlyInLoop /\ [ObserverNext]_vars => [Whole]_vars
  BY <1>3
<1> QED BY <1>1, <1>2, <1>4, PTL DEF ObserverSpec, PublishedWhole
=============================================================================
