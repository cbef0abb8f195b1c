---------------------------- MODULE CaptureProofs ----------------------------
(***************************************************************************)
(* What a capture keeps, for any capacity of the BufWriter, any number of  *)
(* messages and any number of writes that the disk refuses.                *)
(***************************************************************************)
EXTENDS Capture, SequenceTheorems, TLAPS

Pieces == ((Nat \ {0}) \X {1, 2}) \cup {NewLine}

(* What has been written, on disk or not.                                  *)
Written == file \o buf

(* on_json_message is between two pieces, or has only the newline to write.*)
UnderWay == {<<>>, <<NewLine>>, <<Piece(received, 2), NewLine>>, LineOf(received)}

TypeInv ==
    /\ file \in Seq(Pieces) /\ buf \in Seq(Pieces)
    /\ todo \in UnderWay /\ (todo # <<>> => received > 0)
    /\ received \in Nat /\ synced \in 0 .. received /\ faults \in Nat
    /\ Len(buf) <= Capacity

-----------------------------------------------------------------------------
(***************************************************************************)
(* The order of the pieces of values: the first half of a value before its *)
(* second, and that before the next value.  Ahead is what the pieces       *)
(* written so far are below.                                               *)
(***************************************************************************)
Rank(piece) == 2 * piece[1] + piece[2]

AheadOf(v, left) == CASE left = 3 -> 2 * v + 1
                      [] left = 2 -> 2 * v + 2
                      [] OTHER    -> 2 * v + 3
Ahead == AheadOf(received, Len(todo))

Ascending(pieces) ==
    \A i, j \in DOMAIN pieces :
        i < j /\ pieces[i] # NewLine /\ pieces[j] # NewLine => Rank(pieces[i]) < Rank(pieces[j])

Below(pieces, n) == \A i \in DOMAIN pieces : pieces[i] # NewLine => Rank(pieces[i]) < n

OrderInv == TypeInv /\ Ascending(Written) /\ Below(Written, Ahead)

(***************************************************************************)
(* While the disk takes every write, what was written and what is to be    *)
(* are the lines of the messages received.                                 *)
(***************************************************************************)
PieceAt(pieces, i, piece) == i <= Len(pieces) => pieces[i] = piece

Complete(pieces) ==
    \A v \in 1 .. received : /\ PieceAt(pieces, 3 * v - 2, Piece(v, 1))
                             /\ PieceAt(pieces, 3 * v - 1, Piece(v, 2))
                             /\ PieceAt(pieces, 3 * v, NewLine)

LinesInv ==
    /\ TypeInv
    /\ faults = 0 => /\ Len(Written) + Len(todo) = 3 * received
                     /\ Complete(Written)
                     /\ 3 * synced <= Len(file)

-----------------------------------------------------------------------------
(* The lines that are written, piece by piece.                             *)
LEMMA LinePieces ==
    ASSUME NEW v \in Nat \ {0}
    PROVE  /\ Piece(v, 1) \in Pieces /\ Piece(v, 2) \in Pieces /\ NewLine \in Pieces
           /\ Piece(v, 1) # NewLine /\ Piece(v, 2) # NewLine
           /\ LineOf(v) \in Seq(Pieces) /\ Len(LineOf(v)) = 3 /\ LineOf(v) # <<>>
           /\ Head(LineOf(v)) = Piece(v, 1)
           /\ Tail(LineOf(v)) = <<Piece(v, 2), NewLine>>
           /\ Len(<<Piece(v, 2), NewLine>>) = 2
           /\ Head(<<Piece(v, 2), NewLine>>) = Piece(v, 2)
           /\ Tail(<<Piece(v, 2), NewLine>>) = <<NewLine>>
           /\ Len(<<NewLine>>) = 1 /\ Head(<<NewLine>>) = NewLine /\ Tail(<<NewLine>>) = <<>>
<1>1. Piece(v, 1) \in Pieces /\ Piece(v, 2) \in Pieces /\ NewLine \in Pieces
  BY DEF Piece, NewLine, Pieces
<1>2. Piece(v, 1) # NewLine /\ Piece(v, 2) # NewLine
  BY DEF Piece, NewLine
<1> HIDE DEF Pieces
<1> QED BY <1>1, <1>2 DEF LineOf

(* At most a line is under way.                                            *)
LEMMA TodoLength ==
    ASSUME TypeInv
    PROVE  todo \in Seq(Pieces) /\ Len(todo) \in Nat /\ Len(todo) <= 3
<1>1. NewLine \in Pieces /\ (todo # <<>> => received \in Nat \ {0})
  BY DEF TypeInv, Pieces
<1> HIDE DEF Pieces
<1>2. CASE todo = <<>>
  BY <1>2
<1>3. CASE todo = <<NewLine>>
  <2>1. <<NewLine>> \in Seq(Pieces)
    BY <1>1
  <2>2. Len(<<NewLine>>) = 1
    OBVIOUS
  <2>3. Len(todo) = 1 /\ todo \in Seq(Pieces)
    BY <1>3, <2>1, <2>2
  <2> QED BY <2>3, LenProperties
<1>4. CASE todo = <<Piece(received, 2), NewLine>>
  <2>1. Len(todo) = 2 /\ todo \in Seq(Pieces)
    BY <1>1, <1>4, LinePieces
  <2> QED BY <2>1, LenProperties
<1>5. CASE todo = LineOf(received) /\ todo # <<>>
  <2>1. Len(todo) = 3 /\ todo \in Seq(Pieces)
    BY <1>1, <1>5, LinePieces
  <2> QED BY <2>1, LenProperties
<1> QED BY <1>2, <1>3, <1>4, <1>5 DEF TypeInv, UnderWay

(* A flush moves pieces to the disk, all of them or the first ones.        *)
LEMMA FlushMoves ==
    ASSUME TypeInv, (FlushOk /\ buf' = <<>>) \/ FlushErr
    PROVE  /\ file' \in Seq(Pieces) /\ buf' \in Seq(Pieces)
           /\ Len(buf') <= Capacity /\ Len(file) <= Len(file')
           /\ Written' = Written
           /\ \/ faults' = faults /\ file' = Written /\ buf' = <<>>
              \/ faults' \in Nat \ {0}
<1> HIDE DEF Pieces
<1>1. CASE FlushOk /\ buf' = <<>>
  <2>1. /\ file' = file \o buf /\ faults' = faults /\ buf' = <<>>
        /\ file \in Seq(Pieces) /\ buf \in Seq(Pieces)
    BY <1>1 DEF FlushOk, TypeInv
  <2>2. (file \o buf) \in Seq(Pieces) /\ Len(file \o buf) = Len(file) + Len(buf)
    BY <2>1, ConcatProperties
  <2>3. file' \o buf' = file'
    BY <2>1, <2>2, ConcatEmptySeq
  <2>4. Len(buf') <= Capacity
    BY <2>1, CaptureAssumption
  <2> QED BY <2>1, <2>2, <2>3, <2>4 DEF Written
<1>2. CASE FlushErr
  <2>1. PICK k \in 0 .. Len(buf) - 1 : /\ file' = file \o SubSeq(buf, 1, k)
                                       /\ buf' = SubSeq(buf, k + 1, Len(buf))
    BY <1>2 DEF FlushErr
  <2>2. file \in Seq(Pieces) /\ buf \in Seq(Pieces) /\ Len(buf) <= Capacity
    BY DEF TypeInv
  <2>3. /\ SubSeq(buf, 1, k) \in Seq(Pieces) /\ buf' \in Seq(Pieces)
        /\ Len(SubSeq(buf, 1, k)) = k /\ Len(buf') = Len(buf) - k
    BY <2>1, <2>2, SubSeqProperties
  <2>4. SubSeq(buf, 1, k) \o buf' = buf
    <3>1. SubSeq(buf, 1, k) \o SubSeq(buf, k + 1, Len(buf)) = SubSeq(buf, 1, Len(buf))
      BY <2>2, ConcatAdjacentSubSeq
    <3> QED BY <2>1, <2>2, <3>1, SubSeqFull
  <2>5. file' \o buf' = file \o buf
    <3> DEFINE taken == SubSeq(buf, 1, k)
    <3>1. taken \in Seq(Pieces) /\ taken \o buf' = buf /\ file' = file \o taken
      BY <2>1, <2>3, <2>4
    <3>2. file \in Seq(Pieces) /\ buf' \in Seq(Pieces)
      BY <2>2, <2>3
    <3> HIDE DEF taken
    <3>3. \A t, u \in Seq(Pieces) : (file \o t) \o u = file \o (t \o u)
      BY <3>2, ConcatAssociative
    <3>4. (file \o taken) \o buf' = file \o (taken \o buf')
      BY <3>1, <3>2, <3>3
    <3> QED BY <3>1, <3>4
  <2>6. file' \in Seq(Pieces) /\ Len(file') = Len(file) + k
    BY <2>1, <2>2, <2>3, ConcatProperties
  <2>7. faults' \in Nat \ {0}
    BY <1>2 DEF FlushErr, TypeInv
  <2>8. Len(buf') <= Capacity /\ Len(file) <= Len(file')
    BY <2>2, <2>3, <2>6, CaptureAssumption
  <2> QED BY <2>3, <2>5, <2>6, <2>7, <2>8 DEF Written
<1> QED BY <1>1, <1>2

(* The first pieces written are those on disk.                             *)
LEMMA FileIsPrefix ==
    ASSUME TypeInv
    PROVE  /\ Written \in Seq(Pieces) /\ Len(Written) = Len(file) + Len(buf)
           /\ \A i \in 1 .. Len(file) : Written[i] = file[i]
<1> HIDE DEF Pieces
<1> QED BY ConcatProperties DEF TypeInv, Written

(***************************************************************************)
(* What a step does to the pieces written and to those under way: nothing, *)
(* a message arrives, a piece is written, or the disk refuses it.          *)
(***************************************************************************)
Quiet == UNCHANGED <<todo, received>> /\ Written' = Written
Arrives == /\ todo = <<>> /\ todo' = LineOf(received') /\ received' = received + 1
           /\ Written' = Written
Writes == /\ todo # <<>> /\ todo' = Tail(todo) /\ received' = received
          /\ Written' = Append(Written, Head(todo))
Refused == /\ todo # <<>> /\ todo' \in {<<>>, <<NewLine>>} /\ received' = received
           /\ Written' = Written

(* The disk has what it had, and all that was written after a flush.       *)
DiskKeeps == /\ Len(file) <= Len(file')
             /\ \/ synced' = synced
                \/ synced' = received /\ todo = <<>> /\ file' = Written
             /\ faults' = faults

LEMMA QuietShape ==
    ASSUME TypeInv, UNCHANGED vars \/ Kill
    PROVE  TypeInv' /\ Quiet /\ DiskKeeps
<1>1. UNCHANGED <<file, buf, todo, received, synced, faults>>
  BY DEF vars, Kill
<1>2. TypeInv'
  BY <1>1 DEF TypeInv, UnderWay
<1>3. Quiet
  BY <1>1 DEF Quiet, Written
<1>4. Len(file) \in Nat
  BY DEF TypeInv
<1> QED BY <1>1, <1>2, <1>3, <1>4 DEF DiskKeeps

LEMMA ArrivesShape ==
    ASSUME TypeInv, OnJsonMessage
    PROVE  TypeInv' /\ Arrives /\ DiskKeeps
<1>1. /\ UNCHANGED <<file, buf, synced, faults>> /\ todo = <<>>
      /\ received' = received + 1 /\ todo' = LineOf(received')
  BY DEF OnJsonMessage
<1>2. TypeInv'
  <2>1. todo' \in UnderWay' /\ received' > 0 /\ received' \in Nat /\ synced' \in 0 .. received'
    BY <1>1 DEF TypeInv, UnderWay
  <2> QED BY <1>1, <2>1 DEF TypeInv
<1>3. Arrives
  BY <1>1 DEF Arrives, Written
<1>4. Len(file) \in Nat
  BY DEF TypeInv
<1> QED BY <1>1, <1>2, <1>3, <1>4 DEF DiskKeeps

LEMMA WritesShape ==
    ASSUME TypeInv, Write
    PROVE  TypeInv' /\ Writes /\ DiskKeeps
<1> DEFINE piece == Head(todo)
<1>1. /\ todo # <<>> /\ todo' = Tail(todo) /\ UNCHANGED <<received, synced, faults>>
      /\ \/ Len(buf) < Capacity /\ buf' = Append(buf, piece) /\ file' = file
         \/ buf' = <<piece>> /\ file' = file \o buf
  BY DEF Write, FlushOk
<1>2. /\ file \in Seq(Pieces) /\ buf \in Seq(Pieces) /\ received \in Nat \ {0}
      /\ todo \in UnderWay
  BY <1>1 DEF TypeInv
<1>3. piece \in Pieces /\ todo' \in UnderWay
  BY <1>1, <1>2, LinePieces DEF UnderWay
<1> HIDE DEF Pieces, piece
<1>4. /\ file' \in Seq(Pieces) /\ buf' \in Seq(Pieces) /\ Len(buf') <= Capacity
      /\ Len(file) <= Len(file')
      /\ Written' = Append(Written, piece)
  <2>1. /\ <<piece>> \in Seq(Pieces) /\ Len(<<piece>>) = 1
        /\ Written \in Seq(Pieces) /\ Len(Written) = Len(file) + Len(buf)
    BY <1>2, <1>3, FileIsPrefix
  <2>2. CASE Len(buf) < Capacity /\ buf' = Append(buf, piece) /\ file' = file
    <3>1. /\ buf' \in Seq(Pieces) /\ Len(buf') = Len(buf) + 1
          /\ buf' = buf \o <<piece>>
      BY <1>2, <1>3, <2>2, AppendProperties, AppendIsConcat
    <3>2. Written \o <<piece>> = file \o buf'
      BY <1>2, <2>1, <3>1, ConcatAssociative DEF Written
    <3>3. Append(Written, piece) = Written \o <<piece>>
      BY <1>3, <2>1, AppendIsConcat
    <3> QED BY <1>2, <2>2, <3>1, <3>2, <3>3, CaptureAssumption DEF Written
  <2>3. CASE buf' = <<piece>> /\ file' = file \o buf
    <3>1. Append(Written, piece) = Written \o <<piece>>
      BY <1>3, <2>1, AppendIsConcat
    <3> QED BY <1>2, <2>1, <2>3, <3>1, CaptureAssumption DEF Written
  <2> QED BY <1>1, <2>2, <2>3
<1>5. TypeInv'
  <2>1. UnderWay' = UnderWay
    BY <1>1 DEF UnderWay
  <2> QED BY <1>1, <1>2, <1>3, <1>4, <2>1 DEF TypeInv
<1>6. Writes
  BY <1>1, <1>4 DEF Writes, piece
<1> QED BY <1>1, <1>4, <1>5, <1>6 DEF DiskKeeps

LEMMA RefusedShape ==
    ASSUME TypeInv, WriteError
    PROVE  TypeInv' /\ Refused /\ faults' \in Nat \ {0}
<1>1. /\ FlushErr /\ todo # <<>> /\ todo' = AfterError /\ received' = received
      /\ synced' = synced
  BY DEF WriteError
<1>2. /\ file' \in Seq(Pieces) /\ buf' \in Seq(Pieces) /\ Len(buf') <= Capacity
      /\ Written' = Written
  BY <1>1, FlushMoves
<1>3. faults' \in Nat \ {0}
  BY <1>1 DEF FlushErr, TypeInv
<1>4. todo' \in {<<>>, <<NewLine>>}
  BY <1>1 DEF AfterError
<1>5. TypeInv'
  BY <1>1, <1>2, <1>3, <1>4 DEF TypeInv, UnderWay
<1> QED BY <1>1, <1>2, <1>3, <1>4, <1>5 DEF Refused

LEMMA FlushesShape ==
    ASSUME TypeInv, OnDisconnected \/ Drop
    PROVE  TypeInv' /\ Quiet /\ (faults' \in Nat \ {0} \/ DiskKeeps)
<1>1. /\ (FlushOk /\ buf' = <<>>) \/ FlushErr
      /\ todo = <<>> /\ synced' = received /\ UNCHANGED <<todo, received>>
  BY DEF OnDisconnected, Drop, Flush
<1>2. /\ file' \in Seq(Pieces) /\ buf' \in Seq(Pieces) /\ Len(buf') <= Capacity
      /\ Written' = Written /\ Len(file) <= Len(file')
      /\ \/ faults' = faults /\ file' = Written
         \/ faults' \in Nat \ {0}
  BY <1>1, FlushMoves
<1>3. TypeInv'
  BY <1>1, <1>2 DEF TypeInv, UnderWay
<1> QED BY <1>1, <1>2, <1>3 DEF Quiet, DiskKeeps

LEMMA StepShape ==
    ASSUME TypeInv, [CaptureNext]_vars
    PROVE  /\ TypeInv'
           /\ Quiet \/ Arrives \/ Writes \/ Refused
           /\ faults' \in Nat \ {0} \/ (DiskKeeps /\ (Quiet \/ Arrives \/ Writes))
BY QuietShape, ArrivesShape, WritesShape, RefusedShape, FlushesShape DEF CaptureNext

(* The file is empty at first.                                             *)
LEMMA TypeInvInit == CaptureInit => TypeInv
BY CaptureAssumption DEF CaptureInit, TypeInv, UnderWay

-----------------------------------------------------------------------------
(* What has been written stays in order.                                   *)
LEMMA AheadValues ==
    ASSUME NEW v \in Nat
    PROVE  /\ AheadOf(v, 3) = 2 * v + 1 /\ AheadOf(v, 2) = 2 * v + 2
           /\ AheadOf(v, 1) = 2 * v + 3 /\ AheadOf(v, 0) = 2 * v + 3
BY DEF AheadOf

LEMMA AheadRange == ASSUME TypeInv PROVE Ahead \in Nat /\ Ahead <= 2 * received + 3
<1>1. received \in Nat
  BY DEF TypeInv
<1>2. Len(todo) = 0 \/ Len(todo) = 1 \/ Len(todo) = 2 \/ Len(todo) = 3
  BY DEF TypeInv, UnderWay, LineOf
<1>3. \/ Ahead = 2 * received + 1 \/ Ahead = 2 * received + 2 \/ Ahead = 2 * received + 3
  BY <1>1, <1>2, AheadValues DEF Ahead
<1> QED BY <1>1, <1>3

LEMMA PieceRank == ASSUME NEW p \in Pieces PROVE Rank(p) \in Nat
BY DEF Pieces, NewLine, Rank

LEMMA AppendInOrder ==
    ASSUME NEW pieces \in Seq(Pieces), NEW n \in Nat, Ascending(pieces), Below(pieces, n),
           NEW p \in Pieces, p # NewLine => Rank(p) = n,
           NEW m \in Nat, n <= m, p # NewLine => n < m
    PROVE  Ascending(Append(pieces, p)) /\ Below(Append(pieces, p), m)
<1> DEFINE all == Append(pieces, p)
<1>1. /\ Len(pieces) \in Nat /\ DOMAIN pieces = 1 .. Len(pieces)
      /\ DOMAIN all = 1 .. Len(pieces) + 1
      /\ \A i \in 1 .. Len(pieces) : all[i] = pieces[i] /\ Rank(all[i]) \in Nat
      /\ all[Len(pieces) + 1] = p /\ Rank(p) \in Nat
  BY AppendProperties, LenProperties, PieceRank
<1> HIDE DEF all, Pieces
<1>2. ASSUME NEW i \in DOMAIN all, all[i] # NewLine
      PROVE  \/ i <= Len(pieces) /\ Rank(all[i]) < n
             \/ i = Len(pieces) + 1 /\ Rank(all[i]) = n
  BY <1>1, <1>2 DEF Below
<1>3. Ascending(all)
  BY <1>1, <1>2 DEF Ascending
<1>4. Below(all, m)
  BY <1>1, <1>2 DEF Below
<1> QED BY <1>3, <1>4 DEF all

LEMMA OrderKept ==
    ASSUME OrderInv, TypeInv', Quiet \/ Arrives \/ Writes \/ Refused
    PROVE  OrderInv'
<1>1. /\ Written \in Seq(Pieces) /\ received \in Nat /\ todo \in UnderWay
      /\ todo # <<>> => received \in Nat \ {0}
      /\ Ascending(Written) /\ Below(Written, Ahead)
  BY FileIsPrefix DEF OrderInv, TypeInv
<1>2. Ahead \in Nat /\ Ahead <= 2 * received + 3
  BY AheadRange DEF OrderInv
<1>3. CASE Quiet
  BY <1>3 DEF OrderInv, Quiet, Ahead
<1>4. CASE Arrives \/ Refused
  <2>1. Written' = Written /\ Ahead' = 2 * received + 3
    <3>1. CASE Arrives
      <4>1. received' \in Nat \ {0} /\ todo' = LineOf(received') /\ received' = received + 1
        BY <1>1, <3>1 DEF Arrives
      <4>2. Len(todo') = 3
        BY <4>1, LinePieces
      <4>3. Ahead' = 2 * received' + 1
        BY <4>1, <4>2, AheadValues DEF Ahead
      <4> QED BY <1>1, <3>1, <4>1, <4>3 DEF Arrives
    <3>2. CASE Refused
      <4>1. /\ Len(todo') = 0 \/ Len(todo') = 1
            /\ received' = received /\ Written' = Written
        BY <3>2 DEF Refused
      <4> QED BY <1>1, <4>1, AheadValues DEF Ahead
    <3> QED BY <1>4, <3>1, <3>2
  <2>2. Below(Written, 2 * received + 3)
    <3>1. \A i \in DOMAIN Written : Rank(Written[i]) \in Nat
      BY <1>1, PieceRank
    <3> QED BY <1>1, <1>2, <3>1 DEF Below
  <2>3. Below(Written', Ahead') /\ Ascending(Written')
    BY <1>1, <2>1, <2>2
  <2> QED BY <2>3 DEF OrderInv, Ascending, Below
<1>5. CASE Writes
  <2> DEFINE p == Head(todo)
  <2>1. /\ todo # <<>> /\ received \in Nat \ {0} /\ todo' = Tail(todo)
        /\ received' = received /\ Written' = Append(Written, p)
    BY <1>1, <1>5 DEF Writes
  <2>2. /\ p \in Pieces /\ Ahead' \in Nat
        /\ Ahead <= Ahead'
        /\ p # NewLine => Rank(p) = Ahead /\ Ahead < Ahead'
    <3>1. CASE todo = <<NewLine>>
      <4>1. /\ Len(todo) = 1 /\ Len(todo') = 0
            /\ p = NewLine /\ p \in Pieces
        BY <2>1, <3>1, LinePieces
      <4>2. Ahead = 2 * received + 3 /\ Ahead' = 2 * received + 3
        BY <2>1, <4>1, AheadValues DEF Ahead
      <4> QED BY <2>1, <4>1, <4>2
    <3>2. CASE todo = <<Piece(received, 2), NewLine>>
      <4>1. Rank(Piece(received, 2)) = 2 * received + 2
        BY <2>1 DEF Rank, Piece
      <4>2. /\ Len(todo) = 2 /\ Len(todo') = 1
            /\ p = Piece(received, 2) /\ p \in Pieces
        BY <2>1, <3>2, LinePieces
      <4>3. Ahead = 2 * received + 2 /\ Ahead' = 2 * received + 3
        BY <2>1, <4>2, AheadValues DEF Ahead
      <4> QED BY <2>1, <4>1, <4>2, <4>3
    <3>3. CASE todo = LineOf(received)
      <4>1. Rank(Piece(received, 1)) = 2 * received + 1
        BY <2>1 DEF Rank, Piece
      <4>2. /\ Len(todo) = 3 /\ Len(todo') = 2
            /\ p = Piece(received, 1) /\ p \in Pieces
        BY <2>1, <3>3, LinePieces
      <4>3. Ahead = 2 * received + 1 /\ Ahead' = 2 * received + 2
        BY <2>1, <4>2, AheadValues DEF Ahead
      <4> QED BY <2>1, <4>1, <4>2, <4>3
    <3>4. \/ todo = <<NewLine>> \/ todo = <<Piece(received, 2), NewLine>>
          \/ todo = LineOf(received)
      BY <1>1, <2>1 DEF UnderWay
    <3> QED BY <3>1, <3>2, <3>3, <3>4
  <2> HIDE DEF p, Pieces
  <2>3. Ascending(Written') /\ Below(Written', Ahead')
    BY <1>1, <1>2, <2>1, <2>2, AppendInOrder
  <2> QED BY <2>3 DEF OrderInv, Ascending, Below
<1> QED BY <1>3, <1>4, <1>5

(***************************************************************************)
(* For any capacity and whatever the disk refuses: replay yields messages  *)
(* that were received, in order and none twice.                            *)
(***************************************************************************)
THEOREM ReplayedInOrderHolds == CaptureSpec => []ReplayedInOrder
<1>1. CaptureInit => OrderInv
  <2> SUFFICES ASSUME CaptureInit PROVE OrderInv
    OBVIOUS
  <2>1. Written = <<>> /\ DOMAIN <<>> = {}
    BY DEF CaptureInit, Written
  <2> QED BY <2>1, TypeInvInit DEF OrderInv, Ascending, Below
<1>2. OrderInv /\ [CaptureNext]_vars => OrderInv'
  BY StepShape, OrderKept DEF OrderInv
<1>3. OrderInv => ReplayedInOrder
  <2> SUFFICES ASSUME OrderInv PROVE ReplayedInOrder
    OBVIOUS
  <2>1. /\ file \in Seq(Pieces) /\ received \in Nat /\ Len(file) \in Nat
        /\ Ahead <= 2 * received + 3 /\ Ahead \in Nat
        /\ Len(Written) \in Nat /\ DOMAIN Written = 1 .. Len(Written)
        /\ Len(file) <= Len(Written)
        /\ \A i \in 1 .. Len(file) : Written[i] = file[i]
    BY FileIsPrefix, AheadRange DEF OrderInv, TypeInv
  <2>2. ASSUME NEW p \in Replayed(file)
        PROVE  /\ p \in 1 .. Len(file) /\ file[p] # NewLine
               /\ ValueAt(file, p) \in 1 .. received
               /\ Rank(file[p]) = 2 * ValueAt(file, p) + 1
    <3> DEFINE v == file[p][1]
    <3>1. p \in 1 .. Len(file) /\ file[p] # NewLine /\ file[p] = Piece(v, 1)
      BY DEF Replayed, IsLine, Parses
    <3>2. file[p] \in Pieces
      BY <2>1, <3>1
    <3>3. v \in Nat \ {0} /\ Rank(file[p]) = 2 * v + 1
      BY <3>1, <3>2 DEF Pieces, NewLine, Piece, Rank
    <3>4. Rank(file[p]) < Ahead
      BY <2>1, <3>1 DEF OrderInv, Below
    <3> HIDE DEF v
    <3>5. v <= received
      BY <2>1, <3>3, <3>4
    <3> QED BY <2>1, <3>1, <3>3, <3>5 DEF v, ValueAt
  <2>3. ASSUME NEW p \in Replayed(file), NEW q \in Replayed(file), p < q
        PROVE  ValueAt(file, p) < ValueAt(file, q)
    <3>1. Rank(file[p]) < Rank(file[q])
      BY <2>1, <2>2, <2>3 DEF OrderInv, Ascending
    <3> QED BY <2>2, <3>1
  <2> QED BY <2>2, <2>3 DEF ReplayedInOrder, Values
<1> QED BY <1>1, <1>2, <1>3, PTL DEF CaptureSpec

-----------------------------------------------------------------------------
(* Without refused writes, what has been written stays the lines received. *)
LEMMA LinesKept ==
    ASSUME LinesInv, TypeInv',
           faults' \in Nat \ {0} \/ (DiskKeeps /\ (Quiet \/ Arrives \/ Writes))
    PROVE  LinesInv'
<1>1. CASE faults' \in Nat \ {0}
  BY <1>1 DEF LinesInv
<1>2. CASE DiskKeeps /\ (Quiet \/ Arrives \/ Writes) /\ faults' = 0
  <2>1. /\ Written \in Seq(Pieces) /\ Len(Written) \in Nat
        /\ received \in Nat /\ todo \in UnderWay /\ (todo # <<>> => received \in Nat \ {0})
        /\ synced \in Nat /\ Len(file) \in Nat /\ Len(file') \in Nat
    BY FileIsPrefix DEF LinesInv, TypeInv
  <2>2. /\ Len(Written) + Len(todo) = 3 * received /\ Complete(Written)
        /\ 3 * synced <= Len(file)
    BY <1>2 DEF DiskKeeps, LinesInv
  <2>3. 3 * synced' <= Len(file')
    <3>1. Len(<<>>) = 0
      OBVIOUS
    <3> QED BY <1>2, <2>1, <2>2, <3>1 DEF DiskKeeps
  <2>4. CASE Quiet
    <3>1. UNCHANGED <<todo, received>> /\ Written' = Written
      BY <2>4 DEF Quiet
    <3> QED BY <2>2, <2>3, <3>1 DEF LinesInv, Complete
  <2>5. CASE Arrives
    <3>1. /\ Len(todo) = 0 /\ Len(todo') = 3 /\ received' = received + 1
          /\ Written' = Written
      BY <2>1, <2>5, LinePieces DEF Arrives
    <3>2. \A v \in 1 .. received' : v \in 1 .. received \/ 3 * v - 2 > Len(Written)
      BY <2>1, <2>2, <3>1
    <3>3. Complete(Written)'
      BY <2>1, <2>2, <3>1, <3>2 DEF Complete, PieceAt
    <3> QED BY <2>1, <2>2, <2>3, <3>1, <3>3 DEF LinesInv
  <2>6. CASE Writes
    <3> DEFINE n == Len(Written) + 1
    <3>1. /\ received \in Nat \ {0} /\ received' = received
          /\ Written' = Append(Written, Head(todo))
          /\ \/ Len(todo) = 3 /\ Len(todo') = 2 /\ Head(todo) = Piece(received, 1)
             \/ Len(todo) = 2 /\ Len(todo') = 1 /\ Head(todo) = Piece(received, 2)
             \/ Len(todo) = 1 /\ Len(todo') = 0 /\ Head(todo) = NewLine
      <4>1. /\ todo # <<>> /\ todo' = Tail(todo) /\ received \in Nat \ {0}
            /\ Written' = Append(Written, Head(todo)) /\ received' = received
        BY <2>1, <2>6 DEF Writes
      <4>2. \/ todo = <<NewLine>> \/ todo = <<Piece(received, 2), NewLine>>
            \/ todo = LineOf(received)
        BY <2>1, <4>1 DEF UnderWay
      <4> QED BY <4>1, <4>2, LinePieces
    <3>2. /\ Len(Written') = n /\ Written'[n] = Head(todo)
          /\ \A i \in 1 .. n - 1 : Written'[i] = Written[i]
      <4>1. Head(todo) \in Pieces
        BY <3>1, LinePieces
      <4> HIDE DEF Pieces
      <4> QED BY <2>1, <3>1, <4>1, AppendProperties
    <3> HIDE DEF n
    <3>3. n \in Nat \ {0} /\ Len(Written) = n - 1
      BY <2>1 DEF n
    <3>4. \/ n = 3 * received - 2 /\ Written'[n] = Piece(received, 1)
          \/ n = 3 * received - 1 /\ Written'[n] = Piece(received, 2)
          \/ n = 3 * received     /\ Written'[n] = NewLine
      <4>1. n - 1 + Len(todo) = 3 * received
        BY <2>2, <3>3
      <4>2. CASE Len(todo) = 3 /\ Head(todo) = Piece(received, 1)
        BY <3>1, <3>2, <3>3, <4>1, <4>2
      <4>3. CASE Len(todo) = 2 /\ Head(todo) = Piece(received, 2)
        BY <3>1, <3>2, <3>3, <4>1, <4>3
      <4>4. CASE Len(todo) = 1 /\ Head(todo) = NewLine
        BY <3>1, <3>2, <3>3, <4>1, <4>4
      <4> QED BY <3>1, <4>2, <4>3, <4>4
    <3>5. ASSUME NEW v \in 1 .. received
          PROVE  /\ PieceAt(Written', 3 * v - 2, Piece(v, 1))
                 /\ PieceAt(Written', 3 * v - 1, Piece(v, 2))
                 /\ PieceAt(Written', 3 * v, NewLine)
      <4>1. /\ PieceAt(Written, 3 * v - 2, Piece(v, 1))
            /\ PieceAt(Written, 3 * v - 1, Piece(v, 2))
            /\ PieceAt(Written, 3 * v, NewLine)
        BY <2>2 DEF Complete
      <4>2. /\ 3 * v - 2 # n \/ v = received
            /\ 3 * v - 1 # n \/ v = received
            /\ 3 * v # n     \/ v = received
        BY <2>1, <3>4
      <4> QED BY <2>1, <3>2, <3>3, <3>4, <4>1, <4>2 DEF PieceAt
    <3>6. Complete(Written)'
      BY <3>1, <3>5 DEF Complete
    <3>7. Len(Written') + Len(todo') = 3 * received'
      <4>1. n - 1 + Len(todo) = 3 * received
        BY <2>2, <3>3
      <4>2. Len(todo') = Len(todo) - 1 /\ Len(todo) \in Nat
        <5>1. todo \in Seq(Pieces) /\ Len(todo) \in Nat
          BY TodoLength DEF LinesInv
        <5>2. todo # <<>> /\ todo' = Tail(todo)
          BY <2>6 DEF Writes
        <5> HIDE DEF Pieces
        <5> QED BY <5>1, <5>2, HeadTailProperties
      <4>3. received' = received /\ received \in Nat /\ Len(Written') = n
        BY <2>1, <3>1, <3>2
      <4> QED BY <3>3, <4>1, <4>2, <4>3
    <3> QED BY <2>3, <3>6, <3>7 DEF LinesInv
  <2> QED BY <1>2, <2>4, <2>5, <2>6
<1> QED BY <1>1, <1>2 DEF DiskKeeps, TypeInv

(***************************************************************************)
(* What replay makes of such a file: a value is whole once its second half *)
(* is on disk.                                                             *)
(***************************************************************************)
LEMMA ReplayedPrefix ==
    ASSUME LinesInv, faults = 0
    PROVE  \E n \in 0 .. received : /\ Values(file) = 1 .. n
                                    /\ Len(file) <= 3 * n + 1
                                    /\ 3 * n <= Len(file) + 1
<1> DEFINE L == Len(file)
<1>1. /\ L \in Nat /\ received \in Nat /\ L <= 3 * received
      /\ \A i \in 1 .. L : Written[i] = file[i]
      /\ L <= Len(Written) /\ Len(Written) \in Nat
  <2>1. Len(todo) \in Nat
    BY TodoLength DEF LinesInv
  <2>2. Len(Written) + Len(todo) = 3 * received
    BY DEF LinesInv
  <2>3. /\ L \in Nat /\ Len(buf) \in Nat /\ received \in Nat
        /\ Len(Written) = L + Len(buf) /\ \A i \in 1 .. L : Written[i] = file[i]
    BY FileIsPrefix DEF LinesInv, TypeInv
  <2> QED BY <2>1, <2>2, <2>3
<1>2. \A v \in 1 .. received : /\ PieceAt(file, 3 * v - 2, Piece(v, 1))
                              /\ PieceAt(file, 3 * v - 1, Piece(v, 2))
                              /\ PieceAt(file, 3 * v, NewLine)
  <2> SUFFICES ASSUME NEW v \in 1 .. received
               PROVE  /\ PieceAt(file, 3 * v - 2, Piece(v, 1))
                      /\ PieceAt(file, 3 * v - 1, Piece(v, 2))
                      /\ PieceAt(file, 3 * v, NewLine)
    OBVIOUS
  <2>1. /\ PieceAt(Written, 3 * v - 2, Piece(v, 1))
        /\ PieceAt(Written, 3 * v - 1, Piece(v, 2))
        /\ PieceAt(Written, 3 * v, NewLine)
    BY DEF LinesInv, Complete
  <2>2. ASSUME NEW i \in Nat \ {0}, NEW piece, PieceAt(Written, i, piece)
        PROVE  PieceAt(file, i, piece)
    BY <1>1, <2>2 DEF PieceAt
  <2>3. 3 * v - 2 \in Nat \ {0} /\ 3 * v - 1 \in Nat \ {0} /\ 3 * v \in Nat \ {0}
    BY <1>1
  <2> QED BY <2>1, <2>2, <2>3
<1>3. PICK n \in Nat : 3 * n <= L + 1 /\ L <= 3 * n + 1
  <2>1. (L + 1) \div 3 \in Nat
    BY <1>1
  <2>2. 3 * ((L + 1) \div 3) <= L + 1 /\ L <= 3 * ((L + 1) \div 3) + 1
    BY <1>1
  <2> QED BY <2>1, <2>2
<1>4. n \in 0 .. received
  BY <1>1, <1>3
<1> HIDE DEF L
<1>5. ASSUME NEW v \in 1 .. n
      PROVE  3 * v - 2 \in Replayed(file) /\ ValueAt(file, 3 * v - 2) = v
  <2> DEFINE p == 3 * v - 2
  <2>1. /\ v \in 1 .. received /\ p \in 1 .. L /\ p + 1 \in p .. L
        /\ p + 1 = 3 * v - 1
    BY <1>1, <1>3, <1>4
  <2>2. file[p] = Piece(v, 1) /\ file[p + 1] = Piece(v, 2)
    BY <1>1, <1>2, <2>1 DEF PieceAt, L
  <2>3. p = 1 \/ file[p - 1] = NewLine
    <3>1. CASE v = 1
      BY <3>1
    <3>2. CASE v # 1
      <4>1. /\ v - 1 \in 1 .. received /\ 3 * (v - 1) = p - 1 /\ p - 1 <= L
        BY <1>1, <2>1, <3>2
      <4> QED BY <1>2, <4>1 DEF PieceAt, L
    <3> QED BY <3>1, <3>2
  <2>4. p + 1 = L \/ file[p + 2] = NewLine
    <3>1. p + 2 = 3 * v
      BY <2>1
    <3>2. 3 * v <= L => file[3 * v] = NewLine
      BY <1>2, <2>1 DEF PieceAt, L
    <3> QED BY <1>1, <2>1, <3>1, <3>2
  <2>5. Piece(v, 1) # NewLine /\ Piece(v, 2) # NewLine /\ Piece(v, 1)[1] = v
    BY <2>1 DEF Piece, NewLine
  <2> HIDE DEF p
  <2>6. IsLine(file, p, p + 1)
    <3>1. \A i \in p .. p + 1 : i = p \/ i = p + 1
      BY <1>1, <2>1
    <3>2. (p + 1) + 1 = p + 2
      BY <2>1
    <3> QED BY <2>1, <2>2, <2>3, <2>4, <2>5, <3>1, <3>2 DEF IsLine, L
  <2>7. Parses(file, p, p + 1)
    BY <2>2, <2>5 DEF Parses
  <2> QED BY <2>1, <2>2, <2>5, <2>6, <2>7 DEF Replayed, ValueAt, L, p
<1>6. ASSUME NEW p \in Replayed(file) PROVE ValueAt(file, p) \in 1 .. n
  <2> DEFINE w == file[p][1]
  <2>1. /\ p \in 1 .. L /\ p + 1 \in 1 .. L
        /\ file[p] = Piece(w, 1) /\ file[p + 1] = Piece(w, 2)
        /\ file[p] # NewLine
    <3>1. PICK last \in p .. Len(file) : IsLine(file, p, last) /\ Parses(file, p, last)
      BY DEF Replayed
    <3>2. p \in 1 .. L /\ last \in p .. L /\ file[p] # NewLine
      BY <3>1 DEF IsLine, L
    <3>3. last = p + 1 /\ file[p] = Piece(w, 1) /\ file[last] = Piece(w, 2)
      BY <3>1 DEF Parses
    <3> QED BY <1>1, <3>2, <3>3
  <2>2. PICK v \in 1 .. received : p = 3 * v - 2 \/ p = 3 * v - 1 \/ p = 3 * v
    <3>1. (p + 2) \div 3 \in 1 .. received
      BY <1>1, <2>1
    <3>2. LET v == (p + 2) \div 3 IN p = 3 * v - 2 \/ p = 3 * v - 1 \/ p = 3 * v
      BY <1>1, <2>1
    <3> QED BY <3>1, <3>2
  <2>3. \/ p = 3 * v - 2 /\ file[p] = Piece(v, 1)
        \/ p = 3 * v - 1 /\ file[p] = Piece(v, 2)
        \/ p = 3 * v     /\ file[p] = NewLine
    <3>1. /\ PieceAt(file, 3 * v - 2, Piece(v, 1))
          /\ PieceAt(file, 3 * v - 1, Piece(v, 2))
          /\ PieceAt(file, 3 * v, NewLine)
      BY <1>2
    <3>2. \A piece : PieceAt(file, p, piece) => file[p] = piece
      BY <1>1, <2>1 DEF PieceAt, L
    <3>3. CASE p = 3 * v - 2
      BY <3>1, <3>2, <3>3
    <3>4. CASE p = 3 * v - 1
      BY <3>1, <3>2, <3>4
    <3>5. CASE p = 3 * v
      BY <3>1, <3>2, <3>5
    <3> QED BY <2>2, <3>3, <3>4, <3>5
  <2>4. p = 3 * v - 2 /\ file[p] = Piece(v, 1)
    <3>1. Piece(w, 1) # Piece(v, 2)
      BY DEF Piece
    <3> QED BY <2>1, <2>3, <3>1
  <2>5. ValueAt(file, p) = v
    BY <2>4 DEF Piece, ValueAt
  <2> QED BY <1>1, <1>3, <2>1, <2>2, <2>4, <2>5
<1>7. Values(file) = 1 .. n
  BY <1>5, <1>6 DEF Values
<1> QED BY <1>3, <1>4, <1>7 DEF L

(* The invariant holds in every state.                                     *)
LEMMA LinesInvHolds == CaptureSpec => []LinesInv
<1>1. CaptureInit => LinesInv
  <2> SUFFICES ASSUME CaptureInit PROVE LinesInv
    OBVIOUS
  <2>1. /\ Written = <<>> /\ Len(<<>>) = 0 /\ file = <<>> /\ todo = <<>>
        /\ received = 0 /\ synced = 0
    BY DEF CaptureInit, Written
  <2>2. Complete(Written)
    BY <2>1 DEF Complete
  <2> QED BY <2>1, <2>2, TypeInvInit DEF LinesInv
<1>2. LinesInv /\ [CaptureNext]_vars => LinesInv'
  <2> SUFFICES ASSUME LinesInv, [CaptureNext]_vars PROVE LinesInv'
    OBVIOUS
  <2>1. TypeInv /\ TypeInv'
    BY StepShape DEF LinesInv
  <2> QED BY <2>1, StepShape, LinesKept
<1> QED BY <1>1, <1>2, PTL DEF CaptureSpec

(***************************************************************************)
(* For any capacity: while the disk takes every write, replay yields the   *)
(* first messages without a hole, and misses no more than the buffer and   *)
(* the message under way.                                                  *)
(***************************************************************************)
THEOREM LossBoundedHolds == CaptureSpec => []LossBounded
<1>1. LinesInv => LossBounded
  <2> SUFFICES ASSUME LinesInv, faults = 0
               PROVE  \E n \in 0 .. received : /\ Values(file) = 1 .. n
                                               /\ received - n <= 2 + Capacity \div 3
    BY DEF LossBounded
  <2>1. PICK n \in 0 .. received : /\ Values(file) = 1 .. n
                                   /\ Len(file) <= 3 * n + 1 /\ 3 * n <= Len(file) + 1
    BY ReplayedPrefix
  <2>2. Len(todo) \in Nat /\ Len(todo) <= 3
    BY TodoLength DEF LinesInv
  <2>3. /\ Len(Written) + Len(todo) = 3 * received
        /\ Len(Written) = Len(file) + Len(buf) /\ Len(buf) <= Capacity
        /\ received \in Nat /\ Len(file) \in Nat /\ Len(buf) \in Nat
    BY FileIsPrefix DEF LinesInv, TypeInv
  <2>4. 3 * received <= 3 * n + 1 + Capacity + 3
    BY <2>1, <2>2, <2>3, CaptureAssumption
  <2>5. Capacity <= 3 * (Capacity \div 3) + 2 /\ Capacity \div 3 \in Nat
    BY CaptureAssumption
  <2>6. received - n <= 2 + Capacity \div 3
    BY <2>1, <2>3, <2>4, <2>5, CaptureAssumption
  <2> QED BY <2>1, <2>6
<1> QED BY <1>1, LinesInvHolds, PTL

(***************************************************************************)
(* What was received before a disconnection, or before the observer is     *)
(* dropped, is in what replay yields from then on.                         *)
(***************************************************************************)
THEOREM DisconnectionIsDurableHolds == CaptureSpec => []DisconnectionIsDurable
<1>1. LinesInv => DisconnectionIsDurable
  <2> SUFFICES ASSUME LinesInv, faults = 0 PROVE 1 .. synced \subseteq Values(file)
    BY DEF DisconnectionIsDurable
  <2>1. PICK n \in 0 .. received : /\ Values(file) = 1 .. n /\ Len(file) <= 3 * n + 1
    BY ReplayedPrefix
  <2>2. 3 * synced <= Len(file) /\ synced \in Nat /\ Len(file) \in Nat /\ received \in Nat
    BY DEF LinesInv, TypeInv
  <2>3. synced <= n
    BY <2>1, <2>2
  <2> QED BY <2>1, <2>2, <2>3
<1> QED BY <1>1, LinesInvHolds, PTL
=============================================================================
