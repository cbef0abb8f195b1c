--------------------------- MODULE DashboardProofs ---------------------------
(***************************************************************************)
(* What the HTTP task serves, whatever its channel's capacity, however     *)
(* many connections the page has open, and however many snapshots are      *)
(* published.                                                              *)
(***************************************************************************)
EXTENDS Dashboard, TLAPS

(***************************************************************************)
(* NoOlderAnswer is about a connection's reply and what the page showed    *)
(* when it was opened.  Both were served at some time, so neither is newer *)
(* than latest_snapshot.  That one never goes back, because what the       *)
(* channel holds for the server is newer than what it has taken.           *)
(***************************************************************************)
NothingNewer ==
    /\ latest < next
    /\ shown <= latest
    /\ \A c \in Client : conn[c].base <= latest /\ conn[c].reply <= latest

DInv == TypeOK /\ SkippedOnlyIfOverwritten /\ NothingNewer /\ NoOlderAnswer

-----------------------------------------------------------------------------
(* A connection enters a stage in which it is not being answered.          *)
LEMMA EnterKeeps ==
    ASSUME DInv, NEW c \in Client, NEW stage \in Stage \ {"answering"}, Enter(c, stage)
    PROVE  /\ conn' \in [Client -> Connection]
           /\ \A d \in Client :
                 /\ conn'[d].base = conn[d].base /\ conn'[d].reply = conn[d].reply
                 /\ conn'[d].stage = "answering" => conn[d].stage = "answering"
<1> USE DEF DInv, TypeOK
<1>1. conn' \in [Client -> Connection]
  BY DEF Enter, Connection
<1> QED BY <1>1 DEF Enter, Connection

(* A connection is taken off the backlog.                                  *)
LEMMA FirstInBacklog ==
    ASSUME DInv, backlog # <<>>
    PROVE  Head(backlog) \in Client /\ Tail(backlog) \in Seq(Client)
BY DEF DInv, TypeOK

(* Nothing is published or served yet.                                     *)
LEMMA DInvInit == DashboardInit => DInv
BY DashboardAssumption
   DEF DashboardInit, DInv, TypeOK, SkippedOnlyIfOverwritten, NothingNewer,
       NoOlderAnswer, Closed, Connection, Stage, Path

(* The session's task publishes, or ends.                                  *)
LEMMA SessionKeeps == DInv /\ (Publish \/ EndSession) => DInv'
<1> USE DashboardAssumption
<1>1. ASSUME DInv, Publish PROVE DInv'
  BY <1>1 DEF Publish, DInv, TypeOK, SkippedOnlyIfOverwritten, NothingNewer, NoOlderAnswer
<1>2. ASSUME DInv, EndSession PROVE DInv'
  BY <1>2 DEF EndSession, DInv, TypeOK, SkippedOnlyIfOverwritten, NothingNewer, NoOlderAnswer
<1> QED BY <1>1, <1>2

(* The channel: the next snapshot, or a lag.                               *)
LEMMA RecvKeeps == ASSUME DInv, Recv PROVE DInv'
<1> USE DashboardAssumption
<1>1. /\ next \in Nat /\ sent \in Nat /\ latest \in Nat /\ Capacity \in Nat
      /\ Capacity >= 1 /\ next >= 1 /\ next <= sent /\ latest < next /\ sent' = sent
  BY DEF DInv, TypeOK, NothingNewer, Recv
<1>2. /\ next' \in 1 .. sent + 1 /\ latest' \in Nat
      /\ latest <= latest' /\ latest' <= sent /\ latest' < next'
      /\ next' - 1 > latest' => next' - 1 + Capacity <= sent
  <2>1. CASE Lagging
    <3>1. next' = sent - Capacity + 1 /\ latest' = latest /\ sent - next >= Capacity
      BY <2>1 DEF Recv, Lagging
    <3> QED BY <1>1, <3>1
  <2>2. CASE ~Lagging
    <3>1. next' = next + 1 /\ latest' = next
      BY <2>2 DEF Recv
    <3> QED BY <1>1, <3>1
  <2> QED BY <2>1, <2>2
<1>3. TypeOK'
  BY <1>1, <1>2 DEF DInv, TypeOK, Recv
<1>4. SkippedOnlyIfOverwritten'
  BY <1>1, <1>2 DEF SkippedOnlyIfOverwritten
<1>5. NothingNewer' /\ NoOlderAnswer'
  <2>1. \A c \in Client : conn[c].base \in Nat /\ conn[c].reply \in Nat
    BY DEF DInv, TypeOK, Connection
  <2>2. shown \in Nat
    BY DEF DInv, TypeOK
  <2> QED BY <1>1, <1>2, <2>1, <2>2 DEF DInv, NothingNewer, NoOlderAnswer, Recv
<1> QED BY <1>3, <1>4, <1>5 DEF DInv

(* The server's task binds and accepts.                                    *)
LEMMA AcceptKeeps == DInv /\ (Bind \/ Accept) => DInv'
BY DEF Bind, Accept, DInv, TypeOK, SkippedOnlyIfOverwritten, NothingNewer, NoOlderAnswer

(* A connection that fails in the backlog or before its request.           *)
LEMMA FailedConnectionKeeps == ASSUME DInv, AcceptError \/ ReadNothing PROVE DInv'
<1>1. backlog # <<>>
  BY DEF DInv, TypeOK, AcceptError, ReadNothing
<1>2. Head(backlog) \in Client /\ Tail(backlog) \in Seq(Client)
  BY <1>1, FirstInBacklog
<1>3. Enter(Head(backlog), "closed") /\ "closed" \in Stage \ {"answering"}
  BY DEF AcceptError, ReadNothing, Stage
<1>4. /\ conn' \in [Client -> Connection]
      /\ \A d \in Client :
            /\ conn'[d].base = conn[d].base /\ conn'[d].reply = conn[d].reply
            /\ conn'[d].stage = "answering" => conn[d].stage = "answering"
  BY <1>2, <1>3, EnterKeeps
<1>5. TypeOK'
  BY <1>2, <1>4 DEF DInv, TypeOK, AcceptError, ReadNothing
<1> QED BY <1>4, <1>5 DEF DInv, SkippedOnlyIfOverwritten, NothingNewer, NoOlderAnswer,
                         AcceptError, ReadNothing

(* The request is answered with latest_snapshot.                           *)
LEMMA RespondKeeps == ASSUME DInv, Respond PROVE DInv'
<1>1. Head(backlog) \in Client /\ Tail(backlog) \in Seq(Client)
  BY FirstInBacklog DEF DInv, TypeOK, Respond
<1>2. /\ conn \in [Client -> Connection] /\ latest \in Nat
      /\ conn' = [conn EXCEPT ![Head(backlog)].stage = "answering",
                              ![Head(backlog)].reply = latest]
  BY DEF DInv, TypeOK, Respond
<1>3. /\ conn' \in [Client -> Connection]
      /\ \A d \in Client :
            /\ conn'[d].base = conn[d].base
            /\ d = Head(backlog) => conn'[d].reply = latest
            /\ d # Head(backlog) => conn'[d] = conn[d]
  BY <1>1, <1>2 DEF Connection, Stage
<1>4. TypeOK'
  BY <1>1, <1>3 DEF DInv, TypeOK, Respond
<1>5. NothingNewer' /\ NoOlderAnswer'
  BY <1>2, <1>3 DEF DInv, NothingNewer, NoOlderAnswer, Respond
<1> QED BY <1>4, <1>5 DEF DInv, SkippedOnlyIfOverwritten, Respond

(* The page polls.                                                         *)
LEMMA PollKeeps == ASSUME DInv, NEW c \in Client, Poll(c) PROVE DInv'
<1>1. PICK path \in Path :
         conn' = [conn EXCEPT ![c] = [stage |-> "open", path |-> path,
                                      reply |-> 0, base |-> shown]]
  BY DEF Poll
<1>2. conn \in [Client -> Connection] /\ shown \in Nat /\ latest \in Nat
  BY DEF DInv, TypeOK
<1>3. /\ conn' \in [Client -> Connection]
      /\ conn'[c].stage = "open" /\ conn'[c].base = shown /\ conn'[c].reply = 0
      /\ \A d \in Client : d # c => conn'[d] = conn[d]
  BY <1>1, <1>2 DEF Connection, Stage
<1>4. TypeOK'
  BY <1>3 DEF DInv, TypeOK, Poll
<1>5. NothingNewer' /\ NoOlderAnswer'
  BY <1>2, <1>3 DEF DInv, NothingNewer, NoOlderAnswer, Poll
<1> QED BY <1>4, <1>5 DEF DInv, SkippedOnlyIfOverwritten, Poll

(* A connection gets its request, is given up, or its answer.              *)
LEMMA ConnectionKeeps ==
    ASSUME DInv, NEW c \in Client, Ask(c) \/ GiveUp(c) \/ Deliver(c)
    PROVE  DInv'
<1>1. \E stage \in Stage \ {"answering"} : Enter(c, stage)
  BY DEF Ask, GiveUp, Deliver, Stage
<1>2. /\ conn' \in [Client -> Connection]
      /\ \A d \in Client :
            /\ conn'[d].base = conn[d].base /\ conn'[d].reply = conn[d].reply
            /\ conn'[d].stage = "answering" => conn[d].stage = "answering"
  BY <1>1, EnterKeeps
<1>3. /\ sent \in Nat /\ latest \in Nat /\ latest <= sent
      /\ shown \in Nat /\ shown <= latest /\ conn[c].reply \in Nat /\ conn[c].reply <= latest
  BY DEF DInv, TypeOK, NothingNewer, Connection
<1>4. /\ UNCHANGED <<sent, next, latest, pc>>
      /\ backlog' = backlog
      /\ shown' = shown \/ shown' = 0 \/ shown' = conn[c].reply
  BY DEF Ask, GiveUp, Deliver
<1>5. shown' \in Nat /\ shown' <= latest
  BY <1>3, <1>4
<1>6. TypeOK'
  BY <1>2, <1>3, <1>4, <1>5 DEF DInv, TypeOK
<1> QED BY <1>2, <1>4, <1>5, <1>6
        DEF DInv, SkippedOnlyIfOverwritten, NothingNewer, NoOlderAnswer

(* A step of something else.                                               *)
LEMMA OtherKeeps == DInv /\ UNCHANGED vars => DInv'
BY DEF vars, DInv, TypeOK, SkippedOnlyIfOverwritten, NothingNewer, NoOlderAnswer

-----------------------------------------------------------------------------
(* The inductive invariant of the dashboard.                               *)
THEOREM DInvHolds == DashboardSpec => []DInv
<1>1. DInv /\ [DashboardNext]_vars => DInv'
  BY SessionKeeps, RecvKeeps, AcceptKeeps, FailedConnectionKeeps, RespondKeeps,
     PollKeeps, ConnectionKeeps, OtherKeeps DEF DashboardNext, Serve, Page
<1> QED BY <1>1, DInvInit, PTL DEF DashboardSpec

(* The server reads from a connection it accepted, and no position of the  *)
(* channel, nor what is served or shown, runs ahead of what was published. *)
THEOREM TypeOKHolds == DashboardSpec => []TypeOK
<1>1. DInv => TypeOK
  BY DEF DInv
<1> QED BY <1>1, DInvHolds, PTL

(* run_http_server skips a snapshot only when the channel has overwritten  *)
(* it.                                                                     *)
THEOREM SkippedOnlyIfOverwrittenHolds == DashboardSpec => []SkippedOnlyIfOverwritten
<1>1. DInv => SkippedOnlyIfOverwritten
  BY DEF DInv
<1> QED BY <1>1, DInvHolds, PTL

(* No poll of the page is answered with a snapshot older than the one it   *)
(* showed when it polled.                                                  *)
THEOREM NoOlderAnswerHolds == DashboardSpec => []NoOlderAnswer
<1>1. DInv => NoOlderAnswer
  BY DEF DInv
<1> QED BY <1>1, DInvHolds, PTL
=============================================================================
