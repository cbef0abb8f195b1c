---------------------------- MODULE SessionRunner ----------------------------
(***************************************************************************)
(* SessionRunner of src/session.rs: one task that connects, subscribes,    *)
(* then selects between the socket, its heartbeat and the shutdown signal, *)
(* handing events to the state machine of SessionState and carrying out    *)
(* the effects it gets back.  The task can be overtaken only at its awaits *)
(* (connecting, sending, sleeping, selecting); each is a step of its own.  *)
(*                                                                         *)
(* The environment is the exchange at the other end of the socket, which   *)
(* may refuse, send, close, fail or fall silent at any time, and the       *)
(* operator, who may signal the process once.                              *)
(***************************************************************************)
EXTENDS SessionState

CONSTANTS
    WithShutdown,    \* run_with_shutdown rather than run
    MaxBackoffSecs,  \* config.max_backoff_secs
    ShiftBits,       \* width of the integer shifted for the delay: 64 in the code
    Builds,          \* "debug", "release" or both: what an overlong shift may do
    MaxAttempts      \* bound on the connections lost in one run

ASSUME SessionRunnerAssumption ==
    /\ WithShutdown \in BOOLEAN
    /\ Builds \subseteq {"debug", "release"} /\ Builds # {}
    /\ MaxBackoffSecs \in Nat
    /\ ShiftBits \in Nat \ {0}
    /\ MaxAttempts \in Nat

VARIABLES
    pc,         \* where the task is; see Awaiting and Ended
    state,      \* self.state
    todo,       \* effects that dispatch has not carried out yet
    back,       \* where dispatch returns to
    delay,      \* seconds of the last backoff
    told,       \* the observer's last callback was on_connected
    installed,  \* the shutdown future was polled: signal handlers are in place
    signal      \* "none", "pending", or "taken" by the select loop

vars == <<pc, state, todo, back, delay, told, installed, signal>>

Ended == {"stopped", "failed", "panicked", "killed"}  \* Ok, Err, panic, by signal
Awaiting == {"start", "connect", "subscribe", "select", "send", "effects", "sleep",
             "close"}

RunnerInit ==
    /\ pc = "start" /\ state = SessionStateNew
    /\ todo = <<>> /\ back = "start" /\ delay = 0
    /\ told = FALSE /\ installed = FALSE /\ signal = "none"

-----------------------------------------------------------------------------
Dispatch(event, to) ==
    LET handled == HandleEvent(state, event)
    IN  /\ state' = handled.state
        /\ todo' = handled.effects
        /\ back' = to
        /\ pc' = "effects"
        /\ UNCHANGED <<delay, told>>

Goto(place) == /\ pc' = place
               /\ UNCHANGED <<state, todo, back, delay, told>>

Start == /\ pc = "start"
         /\ Dispatch("Start", "connect")
         /\ UNCHANGED <<installed, signal>>

(* connect_async(..).await? : a refused connection ends the run.           *)
Connect == /\ pc = "connect"
           /\ (Dispatch("WsOpen", "subscribe") \/ Goto("failed"))
           /\ UNCHANGED <<installed, signal>>

Subscribe == /\ pc = "subscribe"
             /\ (Goto("select") \/ Goto("failed"))
             /\ UNCHANGED <<installed, signal>>

(***************************************************************************)
(* One turn of the select loop.  Its branches are polled in random order   *)
(* up to the first that is ready, so a turn taken by another branch may or *)
(* may not have polled the shutdown future, and with it installed the      *)
(* signal handlers; a turn that waits has polled them all.                 *)
(***************************************************************************)
Turn == /\ pc = "select"
        /\ installed' \in {installed, WithShutdown}
        /\ UNCHANGED signal

ReceiveText == Turn /\ \E text \in Text : Dispatch(text, "select")

ReceivePing == Turn /\ Goto("send")          \* send(Pong).await?

ReceiveOther == Turn /\ Goto("select")

Heartbeat == Turn /\ Goto("send")            \* send("PING").await?

SendDone == /\ pc = "send"
            /\ (Goto("select") \/ Goto("failed"))
            /\ UNCHANGED <<installed, signal>>

LoseConnection ==
    /\ Turn
    /\ state.backoff < MaxAttempts
    /\ \E event \in {"WsClosed", "WsError"} : Dispatch(event, "connect")

PollShutdown == /\ pc = "select"
                /\ installed' = WithShutdown
                /\ Goto("select")
                /\ UNCHANGED signal

(* mutant: the loop ends without the Stop that closes the session          *)
TakeShutdown_NoStop ==
    /\ pc = "select" /\ WithShutdown /\ signal = "pending"
    /\ signal' = "taken"
    /\ Goto("close")
    /\ UNCHANGED installed
(* mutant: the run does not return after the Stop                          *)
TakeShutdown_NoReturn ==
    /\ pc = "select" /\ WithShutdown /\ signal = "pending"
    /\ signal' = "taken"
    /\ Dispatch("Stop", "connect")
    /\ UNCHANGED installed

TakeShutdown ==
    /\ pc = "select"
    /\ WithShutdown
    /\ signal = "pending"
    /\ signal' = "taken"
    /\ Dispatch("Stop", "close")
    /\ UNCHANGED installed

Close == /\ pc = "close"             \* close frame, sent or not
         /\ Goto("stopped")
         /\ UNCHANGED <<installed, signal>>

-----------------------------------------------------------------------------
(* dispatch's loop over the effects.                                       *)
Effects(kind) == /\ pc = "effects"
                 /\ todo # <<>>
                 /\ Head(todo) = kind
                 /\ UNCHANGED <<installed, signal>>

Carried == /\ todo' = Tail(todo)
           /\ UNCHANGED <<pc, state, back, delay>>

NotifyConnected    == Effects("NotifyConnected") /\ told' = TRUE /\ Carried
NotifyDisconnected == Effects("NotifyDisconnected") /\ told' = FALSE /\ Carried
ForwardJson        == Effects("ForwardJson") /\ Carried /\ UNCHANGED told
NothingToDo        == /\ (Effects("Connect") \/ Effects("Ignore"))
                      /\ Carried
                      /\ UNCHANGED told
SendText           == /\ Effects("SendText")
                      /\ ((Carried /\ UNCHANGED told) \/ Goto("failed"))

(* mutant: the cap is not applied                                          *)
BackoffSecs_Uncapped(attempt) == 2 ^ ((attempt - 1) % ShiftBits)

(* (1u64 << (attempt - 1)).min(max): a shift by the width or more panics in*)
(* a debug build and is taken modulo the width in a release build.         *)
BackoffSecs(attempt) ==
    LET shifted == 2 ^ ((attempt - 1) % ShiftBits)
    IN  IF shifted < MaxBackoffSecs THEN shifted ELSE MaxBackoffSecs

OverlongShift == state.backoff - 1 >= ShiftBits

ScheduleBackoff ==
    /\ Effects("ScheduleBackoff")
    /\ \/ /\ OverlongShift /\ "debug" \in Builds
          /\ pc' = "panicked" /\ UNCHANGED delay
       \/ /\ OverlongShift => "release" \in Builds
          /\ pc' = "sleep" /\ delay' = BackoffSecs(state.backoff)
    /\ UNCHANGED <<state, todo, back, told>>

(* mutant: the state machine is not told that the backoff has elapsed      *)
WakeUp_NoEvent ==
    /\ pc = "sleep"
    /\ todo' = Tail(todo)
    /\ pc' = "effects"
    /\ UNCHANGED <<state, back, delay, told, installed, signal>>

(* The effects of BackoffElapsed are thrown away.                          *)
WakeUp ==
    /\ pc = "sleep"
    /\ state' = HandleEvent(state, "BackoffElapsed").state
    /\ todo' = Tail(todo)
    /\ pc' = "effects"
    /\ UNCHANGED <<back, delay, told, installed, signal>>

EffectsDone == /\ pc = "effects"
               /\ todo = <<>>
               /\ Goto(back)
               /\ UNCHANGED <<installed, signal>>

-----------------------------------------------------------------------------
(* SIGINT or SIGTERM.  Without handlers the process ends there and then.   *)
Signal ==
    /\ pc \notin Ended
    /\ signal = "none"
    /\ signal' = "pending"
    /\ pc' = IF installed THEN pc ELSE "killed"
    /\ UNCHANGED <<state, todo, back, delay, told, installed>>

Setup == Start \/ Connect \/ Subscribe
Select == \/ ReceiveText \/ ReceivePing \/ ReceiveOther \/ Heartbeat \/ SendDone
          \/ LoseConnection \/ PollShutdown \/ TakeShutdown
Carry == \/ NotifyConnected \/ NotifyDisconnected \/ ForwardJson \/ NothingToDo
         \/ SendText \/ ScheduleBackoff \/ WakeUp \/ EffectsDone
RunnerNext == Setup \/ Select \/ Carry \/ Close \/ Signal

(***************************************************************************)
(* What waits for the other end of the socket: connecting, the handshakes  *)
(* of connect_async included, and sending.  Neither has a timeout, so an   *)
(* exchange that falls silent can keep the task there for ever.            *)
(***************************************************************************)
AtExchange == \/ pc \in {"connect", "subscribe", "send", "close"}
              \/ pc = "effects" /\ todo # <<>> /\ Head(todo) = "SendText"

(***************************************************************************)
(* What the task does by itself, sleeping included, comes to an end; and   *)
(* the select loop, whose branches are polled in random order, does not    *)
(* pass a ready shutdown branch over for ever.  The exchange need not      *)
(* answer, take, send or close anything and nobody need signal.            *)
(***************************************************************************)
Fairness == /\ WF_vars(Start)
            /\ WF_vars(Carry /\ ~AtExchange)
            /\ SF_vars(TakeShutdown)

RunnerSpec == RunnerInit /\ [][RunnerNext]_vars /\ Fairness

-----------------------------------------------------------------------------
(* The task is somewhere; its state and its effects are those of state.rs. *)
TypeOK ==
    /\ pc \in Awaiting \cup Ended
    /\ state \in State
    /\ todo \in Seq(Effect)
    /\ back \in {"start", "connect", "subscribe", "select", "close"}
    /\ told \in BOOLEAN
    /\ installed \in BOOLEAN
    /\ signal \in {"none", "pending", "taken"}

(***************************************************************************)
(* The runner and the state machine agree on where the session is, so that *)
(* no event the runner dispatches can fall through to the catch-all arm of *)
(* handle_event and be lost: `WsOpen` is dispatched in Connecting, socket  *)
(* events in Subscribing or Running, `BackoffElapsed` in Reconnecting.     *)
(***************************************************************************)
PhaseFits ==
    /\ pc = "start"     => state.phase = "Disconnected"
    /\ pc = "connect"   => state.phase = "Connecting"
    /\ pc = "subscribe" => state.phase = "Subscribing"
    /\ pc \in {"select", "send"} => Connected(state)
    /\ pc = "sleep"     => state.phase = "Reconnecting"
    /\ pc = "close"     => state = SessionStateNew

(* Every event dispatched is handled: it yields effects, or, for the       *)
(* BackoffElapsed whose effects are thrown away, moves the state machine.  *)
NoEventLost ==
    [][pc # "effects" /\ pc' = "effects" =>
        todo' # <<>> \/ (pc = "sleep" /\ state' # state)]_vars

(***************************************************************************)
(* The observer sees on_connected and on_disconnected in turn, and         *)
(* messages only in between: across reconnections and shutdown too.        *)
(***************************************************************************)
CallbackOrder ==
    pc = "effects" /\ todo # <<>> =>
        /\ Head(todo) = "NotifyConnected" => ~told
        /\ Head(todo) \in {"NotifyDisconnected", "ForwardJson"} => told

(***************************************************************************)
(* run_with_shutdown returns Ok only when shutdown was asked for, and then *)
(* the observer knows it is disconnected and the state machine is reset.   *)
(***************************************************************************)
StopsOnlyOnRequest ==
    pc = "stopped" => signal = "taken" /\ ~told /\ state = SessionStateNew

(***************************************************************************)
(* Backoff delays are between one second and the cap, and they only grow,  *)
(* save where the shift wraps: the attempt is never reset by a successful  *)
(* connection, so a long run reaches the integer's width.                  *)
(***************************************************************************)
BackoffGrows ==
    [][delay' # delay =>
        /\ delay' \in 1 .. MaxBackoffSecs
        /\ delay' < delay => state.backoff % ShiftBits = 1]_vars

(***************************************************************************)
(* A lost connection is followed by another one or by the end of the run,  *)
(* whatever the exchange does; only in connect_async, which the exchange   *)
(* may keep waiting, can the session remain, and it does get there.        *)
(***************************************************************************)
LossResolved ==
    state.phase = "Reconnecting" ~>
        Connected(state) \/ pc \in Ended \/ [](pc = "connect")

(***************************************************************************)
(* A shutdown signal ends the run, whatever the task was doing when it     *)
(* came, unless one await on the exchange never completes: no backoff, no  *)
(* loss and no traffic that keeps the other branches ready holds it up for *)
(* ever.  Once the handlers are in place, a signal has no other effect, so *)
(* in such an await it is swallowed.                                       *)
(***************************************************************************)
ShutdownCompletes == signal = "pending" ~> pc \in Ended \/ []AtExchange

-----------------------------------------------------------------------------
(***************************************************************************)
(* ARCHITECTURE.md says the session owns the "reconnection loop, and       *)
(* backoff": a lost connection is restored, unless the process is stopped  *)
(* or an attempt never comes to an end.                                    *)
(* Refuted: `connect_async(..).await?` leaves the loop when the exchange   *)
(* refuses the first attempt, with neither a retry nor a backoff.          *)
(***************************************************************************)
LossRestored ==
    state.phase = "Reconnecting" ~>
        Connected(state) \/ signal # "none" \/ [](pc = "connect")

(***************************************************************************)
(* main.rs says "Handle SIGTERM on Unix (e.g. Docker stop)": once the      *)
(* session has started, a signal shuts it down.  Refuted: the handlers are *)
(* installed when the shutdown future is first polled, which is in the     *)
(* select loop, so a signal during the first connection kills the process. *)
(***************************************************************************)
SignalsHandled == pc = "killed" => state.phase = "Disconnected"
=============================================================================
