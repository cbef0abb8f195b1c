---------------------------- MODULE LiveSession ----------------------------
(***************************************************************************)
(* The live program of src/main.rs put together: async_main runs the       *)
(* session with an OrderbookObserver, whose snapshots go over the channel  *)
(* to the HTTP task.  At the other end of the socket is the exchange, with *)
(* the books the program is to follow.                                     *)
(*                                                                         *)
(* Everything runs on one thread.  The observer is called from dispatch    *)
(* and runs to its end before the session or the HTTP task goes on; the    *)
(* exchange and the operator act at any time.  The page's connections are  *)
(* left to Dashboard: here the HTTP task only takes snapshots.             *)
(***************************************************************************)
EXTENDS Integers, Sequences, FiniteSets, SequencesExt

CONSTANTS
    Asset, Price, Size, DISPLAY_DEPTH,          \* of the observer
    MaxBackoffSecs, ShiftBits, MaxAttempts,     \* of the session
    Capacity,                                   \* of the channel
    XBooks,      \* [Asset -> book] the exchange may start with
    Deltas,      \* sequences of changes that one price_change may carry
    MaxUpdates,  \* bound on what the exchange does to its books or resends
    MaxWire      \* bound on the messages in flight

VARIABLES
    pc, state, todo, back, delay, told, installed, signal,     \* SessionRunner
    books, published, inbox, changes, looping, should_print,   \* Observer
    sent, next, latest, server,                                \* Dashboard
    log,       \* what was published, in order: what the numbers stand for
    xbook,     \* the exchange's books
    link,      \* "none", "open", "subscribed", "ended" by the exchange
    snapped,   \* assets whose book was sent on this connection
    early,     \* and those of which a change was sent before the book
    wire,      \* messages in flight on this connection, oldest first
    confirmed, \* history: assets whose book of this connection was applied
    updates    \* counts what MaxUpdates bounds

session  == <<pc, state, todo, back, delay, told, installed, signal>>
observer == <<books, published, inbox, changes, looping, should_print>>
channel  == <<sent, next, latest, server, log>>
exchange == <<xbook, link, snapped, early, wire, confirmed, updates>>
vars == <<pc, state, todo, back, delay, told, installed, signal,
          books, published, inbox, changes, looping, should_print,
          sent, next, latest, server, log,
          xbook, link, snapped, early, wire, confirmed, updates>>

R == INSTANCE SessionRunner WITH WithShutdown <- TRUE, Builds <- {"release"}
O == INSTANCE Observer WITH Labelled <- Asset, Frames <- {}
D == INSTANCE Dashboard WITH
        Client <- {}, MaxPublished <- MaxUpdates + Cardinality(Asset) * (MaxAttempts + 1),
        pc <- server, backlog <- <<>>, conn <- <<>>, shown <- 0

(* A delta is about one asset, and its changes parse; the exchange's books *)
(* hold no empty level.                                                    *)
IsSide(side) == /\ side \in [DOMAIN side -> Size \ {0}]
                /\ DOMAIN side \subseteq Price /\ IsFiniteSet(DOMAIN side)
IsBook(book) == /\ book = [bids |-> book.bids, asks |-> book.asks]
                /\ IsSide(book.bids) /\ IsSide(book.asks)

ASSUME LiveAssumption ==
    /\ IsFiniteSet(Asset)
    /\ Price \subseteq Int /\ Size \subseteq Int
    /\ DISPLAY_DEPTH \in Nat \ {0} /\ Capacity \in Nat \ {0}
    /\ MaxUpdates \in Nat /\ MaxWire \in Nat /\ MaxAttempts \in Nat
    /\ \A bs \in XBooks : DOMAIN bs = Asset /\ \A a \in Asset : IsBook(bs[a])
    /\ \A delta \in Deltas :
          /\ delta \in Seq(O!Change) /\ delta # <<>>
          /\ \A k \in DOMAIN delta : /\ delta[k].asset_id = delta[1].asset_id
                                     /\ delta[k].parses /\ delta[k].side # "?"

LiveInit ==
    /\ R!RunnerInit /\ O!ObserverInit /\ D!DashboardInit
    /\ log = <<>>
    /\ xbook \in XBooks /\ link = "none" /\ snapped = {} /\ early = {} /\ wire = <<>>
    /\ confirmed = {} /\ updates = 0

-----------------------------------------------------------------------------
(* The exchange.  Once subscribed to, it sends the book of each asset, and *)
(* from then on what changes in it; a book may be sent again.  A change    *)
(* that comes before the book is what handle_price_change calls a protocol *)
(* violation; the observer sees it only when it has no book at all.        *)
LevelsOf(side) == SetToSeq({[price |-> p, size |-> side[p]] : p \in DOMAIN side})

BookMessage(a) == [event_type |-> "book", asset_id |-> a, parses |-> TRUE,
                   bids |-> LevelsOf(xbook[a].bids), asks |-> LevelsOf(xbook[a].asks)]

ChangeMessage(delta) == [event_type |-> "price_change", price_changes |-> delta]

(* A book after one change and the next.                                   *)
WithChanges(book, delta) ==
    LET made[k \in 0 .. Len(delta)] ==
            IF k = 0 THEN book ELSE O!WithChange(made[k - 1], delta[k])
    IN  made[Len(delta)]

SendBook(a) ==
    /\ link = "subscribed" /\ Len(wire) < MaxWire
    /\ IF a \in snapped
       THEN updates < MaxUpdates /\ updates' = updates + 1
       ELSE UNCHANGED updates
    /\ wire' = Append(wire, BookMessage(a))
    /\ snapped' = snapped \cup {a}
    /\ UNCHANGED <<xbook, link, early, confirmed>>
    /\ UNCHANGED <<session, observer, channel>>

Change ==
    /\ updates < MaxUpdates
    /\ updates' = updates + 1
    /\ \E delta \in Deltas :
          LET a == delta[1].asset_id
          IN  /\ xbook' = [xbook EXCEPT ![a] = WithChanges(@, delta)]
              /\ \/ /\ link = "subscribed" /\ Len(wire) < MaxWire
                    /\ wire' = Append(wire, ChangeMessage(delta))
                    /\ early' = IF a \in snapped THEN early ELSE early \cup {a}
                 \/ /\ link # "subscribed" \/ a \notin snapped
                    /\ UNCHANGED <<wire, early>>
    /\ UNCHANGED <<link, snapped, confirmed>>
    /\ UNCHANGED <<session, observer, channel>>

End ==
    /\ link \in {"open", "subscribed"} /\ state.backoff < MaxAttempts
    /\ link' = "ended"
    /\ UNCHANGED <<xbook, snapped, early, wire, confirmed, updates>>
    /\ UNCHANGED <<session, observer, channel>>

-----------------------------------------------------------------------------
(* The session's steps that concern neither exchange nor observer.         *)
Idle == O!Handled /\ pc \notin R!Ended

Session ==
    /\ Idle
    /\ \/ R!Start \/ R!ReceivePing \/ R!ReceiveOther \/ R!Heartbeat
       \/ R!SendDone \/ R!PollShutdown \/ R!TakeShutdown \/ R!Close
       \/ R!NotifyConnected \/ R!NotifyDisconnected \/ R!NothingToDo
       \/ R!SendText \/ R!ScheduleBackoff \/ R!WakeUp \/ R!EffectsDone
    /\ UNCHANGED <<observer, channel, exchange>>

(* The operator does not wait for the observer to return.                  *)
Signal == R!Signal /\ UNCHANGED <<observer, channel, exchange>>

(* mutant: what was in flight is still read from the next connection       *)
Connect_KeepsStream ==
    /\ Idle
    /\ R!Connect
    /\ IF pc' = "effects"
       THEN link' = "open" /\ snapped' = {} /\ early' = {} /\ confirmed' = {}
       ELSE UNCHANGED <<link, snapped, early, confirmed>>
    /\ UNCHANGED <<xbook, wire, updates>>
    /\ UNCHANGED <<observer, channel>>

(* Every connection has streams of its own.                                *)
Connect ==
    /\ Idle
    /\ R!Connect
    /\ IF pc' = "effects"
       THEN /\ link' = "open" /\ wire' = <<>>
            /\ snapped' = {} /\ early' = {} /\ confirmed' = {}
       ELSE UNCHANGED <<link, wire, snapped, early, confirmed>>
    /\ UNCHANGED <<xbook, updates>>
    /\ UNCHANGED <<observer, channel>>

Subscribe ==
    /\ Idle
    /\ R!Subscribe
    /\ link' = IF link = "open" /\ pc' = "select" THEN "subscribed" ELSE link
    /\ UNCHANGED <<xbook, snapped, early, wire, confirmed, updates>>
    /\ UNCHANGED <<observer, channel>>

(* The connection is closed or fails, with messages still in flight or not.*)
Lose ==
    /\ Idle
    /\ R!LoseConnection
    /\ link' = "none"
    /\ UNCHANGED <<xbook, snapped, early, wire, confirmed, updates>>
    /\ UNCHANGED <<observer, channel>>

(* The oldest message is received.  It stays on the wire until dispatch    *)
(* forwards it; of other texts there may be any.                           *)
Receive == /\ Idle
           /\ wire # <<>>
           /\ R!Turn /\ R!Dispatch("json", "select")
           /\ UNCHANGED <<observer, channel, exchange>>

ReceiveOtherText == /\ Idle
                    /\ R!Turn
                    /\ \E text \in R!Text \ {"json"} : R!Dispatch(text, "select")
                    /\ UNCHANGED <<observer, channel, exchange>>

Forward == /\ Idle
           /\ R!ForwardJson
           /\ O!Take(<<Head(wire)>>)
           /\ wire' = Tail(wire)
           /\ UNCHANGED <<xbook, link, snapped, early, confirmed, updates>>
           /\ UNCHANGED channel

-----------------------------------------------------------------------------
(* The observer's steps; one that publishes puts a snapshot on the channel,*)
(* or drops it when a server that could not bind has given its end up.     *)
Confirm == /\ confirmed' = IF O!Handling("book")
                            THEN confirmed \cup {Head(inbox).asset_id} ELSE confirmed
           /\ UNCHANGED <<xbook, link, snapped, early, wire, updates>>

Observe ==
    /\ pc \notin R!Ended
    /\ \/ O!HandlePriceChange \/ O!SkipChange \/ O!ApplyChange
       \/ O!PriceChangeDone /\ ~should_print
       \/ O!HandleBook /\ published' = published
    /\ Confirm
    /\ UNCHANGED <<session, channel>>

Publish ==
    /\ pc \notin R!Ended
    /\ \/ O!PriceChangeDone /\ should_print
       \/ O!HandleBook /\ published' # published
    /\ \/ D!Publish /\ log' = Append(log, published')
       \/ server = "unbound" /\ UNCHANGED channel
    /\ Confirm
    /\ UNCHANGED session

-----------------------------------------------------------------------------
(* The HTTP task gets its turn while the session awaits; it is gone when   *)
(* block_on returns.                                                       *)
Bind == Idle /\ D!Bind /\ UNCHANGED log /\ UNCHANGED <<session, observer, exchange>>
Recv == Idle /\ D!Recv /\ UNCHANGED log /\ UNCHANGED <<session, observer, exchange>>
Return == /\ pc \in R!Ended
          /\ D!EndSession
          /\ UNCHANGED log /\ UNCHANGED <<session, observer, exchange>>

Exchange == Change \/ End \/ \E a \in Asset : SendBook(a)
LiveNext == \/ Exchange \/ Signal
            \/ Session \/ Connect \/ Subscribe \/ Lose
            \/ Receive \/ ReceiveOtherText \/ Forward
            \/ Observe \/ Publish
            \/ Bind \/ Recv \/ Return

(***************************************************************************)
(* The program's own steps come to an end, and neither select! passes over *)
(* a branch that keeps being ready.  The rest is asked of the exchange,    *)
(* not of the code, which has no timeout for any of it: it answers or      *)
(* refuses every attempt to connect and takes or fails every send, so that *)
(* SessionRunner's AtExchange always ends; it sends the books it is        *)
(* subscribed to; and a connection it has ended is seen to be closed.      *)
(***************************************************************************)
Fairness ==
    /\ WF_vars(Connect) /\ WF_vars(Subscribe)
    /\ WF_vars(Session /\ pc # "select") /\ WF_vars(Forward)
    /\ WF_vars(Observe \/ Publish) /\ WF_vars(Bind) /\ WF_vars(Return)
    /\ SF_vars(Receive) /\ SF_vars(Recv)
    /\ \A a \in Asset : WF_vars(a \notin snapped /\ SendBook(a))
    /\ SF_vars(link = "ended" /\ Lose)

LiveSpec == LiveInit /\ [][LiveNext]_vars /\ Fairness

-----------------------------------------------------------------------------
(* What is on its way from the exchange's books to the observer's.         *)
InFlight ==
    (IF looping THEN <<ChangeMessage(changes)>> ELSE <<>>) \o inbox \o wire

(* What a message makes of an asset's book, a sequence of one or no book.  *)
Arrived(held, a, msg) ==
    IF msg.event_type = "book"
    THEN IF msg.asset_id = a THEN <<[bids |-> O!Bids!Overlay(<<>>, msg.bids),
                                     asks |-> O!Asks!Overlay(<<>>, msg.asks)]>>
                             ELSE held
    ELSE IF held # <<>> /\ \A k \in DOMAIN msg.price_changes :
                               msg.price_changes[k].asset_id = a
         THEN <<WithChanges(held[1], msg.price_changes)>> ELSE held

Held(a) == IF a \in DOMAIN books THEN <<books[a]>> ELSE <<>>

(* And what messages make of it, one after the other.                      *)
After(held, a, msgs) ==
    LET run[k \in 0 .. Len(msgs)] ==
            IF k = 0 THEN held ELSE Arrived(run[k - 1], a, msgs[k])
    IN  run[Len(msgs)]

(***************************************************************************)
(* Once the exchange has sent an asset's book on this connection, what is  *)
(* in flight makes the observer's book the exchange's: nothing is lost,    *)
(* doubled or applied out of order, and nothing is left of the book and    *)
(* the messages of the connection before, nor of what happened in between. *)
(***************************************************************************)
InSync ==
    link = "subscribed" =>
        \A a \in snapped : After(Held(a), a, InFlight) = <<xbook[a]>>

(***************************************************************************)
(* on_disconnected clears nothing: a book stays as the last connection     *)
(* left it until this connection's book of the asset is applied, and only  *)
(* then do changes reach it.  No book is a mixture of two connections',    *)
(* unless the exchange sends a change of the asset before its book: where  *)
(* a book is in place, the code does not tell that it is the old one.      *)
(***************************************************************************)
NoMixture ==
    [][\A a \in Asset :
          \/ a \in confirmed' \/ a \in early
          \/ a \notin DOMAIN books'
          \/ a \in DOMAIN books /\ books'[a] = books[a]]_vars

(***************************************************************************)
(* From the exchange's book to what the page is given: with nothing in     *)
(* flight and nothing left to take from the channel, they are the same,    *)
(* though not every change is published and not every snapshot is taken.   *)
(***************************************************************************)
Served == IF latest = 0 THEN <<>> ELSE log[latest]
Shows(a) == O!Seen(Served, a) = O!AssetBook(xbook[a])

EndToEnd ==
    link = "subscribed" /\ InFlight = <<>> /\ server = "select" /\ next = sent + 1 =>
        \A a \in snapped : Shows(a)

(***************************************************************************)
(* When changes and losses cease, the page comes to show the exchange's    *)
(* books, and keeps showing them, unless the run ends or the server cannot *)
(* bind.                                                                   *)
(***************************************************************************)
Converges ==
    <>[](pc \in R!Ended \/ server = "unbound" \/ \A a \in Asset : Shows(a))
=============================================================================
