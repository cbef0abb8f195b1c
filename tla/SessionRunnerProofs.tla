------------------------- MODULE SessionRunnerProofs -------------------------
(***************************************************************************)
(* The runner and the state machine agree on where the session is, and the *)
(* observer's callbacks come in order, in every run of SessionRunner: for  *)
(* any cap, any integer width, any number of lost connections.             *)
(***************************************************************************)
EXTENDS SessionRunner, FiniteSetTheorems, TLAPS

(***************************************************************************)
(* PhaseFits speaks of the places between two calls of dispatch.  What is  *)
(* needed inside dispatch is which effects are still to be carried out:    *)
(* with them, where dispatch returns to, and what the observer was told.   *)
(***************************************************************************)
At(place) ==
    \/ place = "start" /\ state = SessionStateNew /\ ~told
    \/ place = "connect" /\ state.phase = "Connecting" /\ ~told
    \/ place = "subscribe" /\ state.phase = "Subscribing" /\ told
    \/ place = "select" /\ Connected(state) /\ told
    \/ place = "close" /\ state = SessionStateNew /\ ~told /\ signal = "taken"

Effecting ==
    \/ todo = <<>> /\ At(back)
    \/ todo = <<"Connect">> /\ back = "connect" /\ At("connect")
    \/ /\ todo = <<"NotifyConnected">> /\ back = "subscribe"
       /\ state.phase = "Subscribing" /\ ~told
    \/ /\ todo \in {<<"SendText">>, <<"ForwardJson">>, <<"Ignore">>}
       /\ back = "select" /\ At("select")
    \/ /\ todo = <<"NotifyDisconnected", "ScheduleBackoff">> /\ back = "connect"
       /\ state.phase = "Reconnecting" /\ told
    \/ /\ todo = <<"ScheduleBackoff">> /\ back = "connect"
       /\ state.phase = "Reconnecting" /\ ~told
    \/ /\ todo = <<"NotifyDisconnected">> /\ back = "close"
       /\ state = SessionStateNew /\ told /\ signal = "taken"

Asleep == /\ todo = <<"ScheduleBackoff">> /\ back = "connect"
          /\ state.phase = "Reconnecting" /\ ~told

InStep == /\ pc \in {"start", "connect", "subscribe", "select", "close"} => At(pc)
          /\ pc = "send" => At("select")
          /\ pc = "effects" => Effecting
          /\ pc = "sleep" => Asleep
          /\ pc = "stopped" => At("close")

Inv == TypeOK /\ InStep

-----------------------------------------------------------------------------
(* handle_event on the events the runner dispatches, in the phases it      *)
(* dispatches them in.                                                     *)
LEMMA Handling ==
    ASSUME NEW s \in State
    PROVE  /\ s.phase = "Disconnected" =>
                HandleEvent(s, "Start") =
                    [state |-> [s EXCEPT !.phase = "Connecting"], effects |-> <<"Connect">>]
           /\ s.phase = "Connecting" =>
                HandleEvent(s, "WsOpen") =
                    [state |-> [s EXCEPT !.phase = "Subscribing"], effects |-> <<"NotifyConnected">>]
           /\ s.phase = "Reconnecting" =>
                HandleEvent(s, "BackoffElapsed") =
                    [state |-> [s EXCEPT !.phase = "Connecting"], effects |-> <<"Connect">>]
           /\ Connected(s) =>
                \A e \in {"WsClosed", "WsError"} : HandleEvent(s, e) = Lost(s)
           /\ Connected(s) =>
                \A e \in Text : HandleEvent(s, e) = Classified(s, e)
           /\ HandleEvent(s, "Stop") = Stopped
<1>1. s.phase = "Disconnected" =>
         HandleEvent(s, "Start") =
             [state |-> [s EXCEPT !.phase = "Connecting"], effects |-> <<"Connect">>]
  BY DEF HandleEvent, Become, Connected, Text
<1>2. s.phase = "Connecting" =>
         HandleEvent(s, "WsOpen") =
             [state |-> [s EXCEPT !.phase = "Subscribing"], effects |-> <<"NotifyConnected">>]
  BY DEF HandleEvent, Become, Connected, Text
<1>3. s.phase = "Reconnecting" =>
         HandleEvent(s, "BackoffElapsed") =
             [state |-> [s EXCEPT !.phase = "Connecting"], effects |-> <<"Connect">>]
  BY DEF HandleEvent, Become, Connected, Text
<1>4. Connected(s) => \A e \in {"WsClosed", "WsError"} : HandleEvent(s, e) = Lost(s)
  BY DEF HandleEvent, Connected, Text
<1>5. Connected(s) => \A e \in Text : HandleEvent(s, e) = Classified(s, e)
  BY DEF HandleEvent, Connected, Text
<1>6. HandleEvent(s, "Stop") = Stopped
  BY DEF HandleEvent, Connected, Text
<1> QED BY <1>1, <1>2, <1>3, <1>4, <1>5, <1>6

(* What incoming text does: the session stays connected, and exactly one   *)
(* effect, none of them a change of connection, answers it.                *)
LEMMA Classifying ==
    ASSUME NEW s \in State, Connected(s), NEW text \in Text
    PROVE  /\ Classified(s, text).state \in State
           /\ Connected(Classified(s, text).state)
           /\ Classified(s, text).effects \in {<<"SendText">>, <<"ForwardJson">>, <<"Ignore">>}
<1>1. CASE text \in {"PING", "ping"}
  BY <1>1 DEF Classified, Become, Connected, State, Phase
<1>2. CASE text = "json"
  BY <1>2 DEF Classified, Become, Connected, State, Phase
<1>3. CASE text = "garbage"
  BY <1>3 DEF Classified, Become, Connected, State, Phase
<1> QED BY <1>1, <1>2, <1>3 DEF Text

-----------------------------------------------------------------------------
(* The lists of effects there are, and what is left of them.               *)
LEMMA EffectLists ==
    /\ <<>> \in Seq(Effect)
    /\ \A e \in Effect : <<e>> \in Seq(Effect) /\ Tail(<<e>>) = <<>> /\ Head(<<e>>) = e
    /\ <<"NotifyDisconnected", "ScheduleBackoff">> \in Seq(Effect)
    /\ Tail(<<"NotifyDisconnected", "ScheduleBackoff">>) = <<"ScheduleBackoff">>
    /\ {"Connect", "SendText", "ScheduleBackoff", "NotifyConnected",
        "NotifyDisconnected", "ForwardJson", "Ignore"} = Effect
BY DEF Effect

(* Nothing has been started or told.                                       *)
LEMMA InvInit == RunnerInit => Inv
<1> SUFFICES ASSUME RunnerInit PROVE Inv
  OBVIOUS
<1>1. state \in State
  BY DEF RunnerInit, SessionStateNew, State, Phase, NoBackoff
<1>2. TypeOK
  BY <1>1, EffectLists DEF RunnerInit, TypeOK, Awaiting
<1> QED BY <1>2 DEF RunnerInit, Inv, InStep, At

(* Connecting and subscribing.                                             *)
LEMMA InvSetup == Inv /\ Setup => Inv'
<1> SUFFICES ASSUME Inv, Setup PROVE Inv'
  OBVIOUS
<1> USE DEF Inv, TypeOK, InStep, At, Dispatch, Goto
<1>0. state \in State
  OBVIOUS
<1>1. CASE Start
  <2>1. /\ state' = [state EXCEPT !.phase = "Connecting"]
        /\ todo' = <<"Connect">> /\ back' = "connect" /\ pc' = "effects" /\ told' = FALSE
        /\ UNCHANGED <<installed, signal>>
    BY <1>0, <1>1, Handling DEF Start, SessionStateNew
  <2>2. state' \in State /\ state'.phase = "Connecting"
    BY <2>1, <1>0 DEF State, Phase
  <2>3. TypeOK'
    BY <2>1, <2>2, EffectLists DEF Awaiting
  <2> QED BY <2>1, <2>2, <2>3 DEF Effecting
<1>2. CASE Connect
  <2>1. CASE Goto("failed")
    BY <1>2, <2>1 DEF Connect, Ended
  <2>2. CASE Dispatch("WsOpen", "subscribe")
    <3>1. /\ state' = [state EXCEPT !.phase = "Subscribing"]
          /\ todo' = <<"NotifyConnected">> /\ back' = "subscribe" /\ pc' = "effects" /\ told' = FALSE
          /\ UNCHANGED <<installed, signal>>
      BY <1>0, <1>2, <2>2, Handling DEF Connect
    <3>2. state' \in State /\ state'.phase = "Subscribing"
      BY <3>1, <1>0 DEF State, Phase
    <3>3. TypeOK'
      BY <3>1, <3>2, EffectLists DEF Awaiting
    <3> QED BY <3>1, <3>2, <3>3 DEF Effecting
  <2> QED BY <1>2, <2>1, <2>2 DEF Connect
<1>3. CASE Subscribe
  BY <1>3 DEF Subscribe, Ended, Awaiting, Connected
<1> QED BY <1>1, <1>2, <1>3 DEF Setup

(* A turn of the select loop.                                              *)
LEMMA InvSelect == Inv /\ Select => Inv'
<1> SUFFICES ASSUME Inv, Select PROVE Inv'
  OBVIOUS
<1> USE DEF Inv, TypeOK, InStep, At, Dispatch, Goto
<1>0. /\ state \in State /\ pc \in {"select", "send"} /\ Connected(state) /\ told
      /\ installed' \in BOOLEAN
  BY SessionRunnerAssumption
     DEF Select, Turn, ReceiveText, ReceivePing, ReceiveOther, Heartbeat, SendDone,
         LoseConnection, PollShutdown, TakeShutdown
<1>1. CASE ReceiveText
  <2>1. PICK text \in Text : Dispatch(text, "select")
    BY <1>1 DEF ReceiveText
  <2>2. HandleEvent(state, text) = Classified(state, text)
    BY <1>0, Handling
  <2>3. /\ state' \in State /\ Connected(state)'
        /\ todo' \in {<<"SendText">>, <<"ForwardJson">>, <<"Ignore">>}
    BY <1>0, <2>1, <2>2, Classifying DEF Connected
  <2>4. pc' = "effects" /\ back' = "select" /\ told' /\ signal' = signal
    BY <1>0, <1>1, <2>1 DEF ReceiveText, Turn
  <2> QED BY <1>0, <2>3, <2>4, EffectLists DEF Effecting, Awaiting
<1>2. CASE ReceivePing \/ ReceiveOther \/ Heartbeat \/ SendDone \/ PollShutdown
  <2>1. /\ pc' \in {"select", "send", "failed"}
        /\ UNCHANGED <<state, todo, back, told, signal>>
    BY <1>2 DEF ReceivePing, ReceiveOther, Heartbeat, SendDone, PollShutdown, Turn
  <2> QED BY <1>0, <2>1 DEF Awaiting, Ended, Connected
<1>3. CASE LoseConnection
  <2>1. PICK event \in {"WsClosed", "WsError"} : Dispatch(event, "connect")
    BY <1>3 DEF LoseConnection
  <2>2. HandleEvent(state, event) = Lost(state)
    BY <1>0, Handling
  <2>3. /\ state' = [phase |-> "Reconnecting", backoff |-> state.backoff + 1]
        /\ todo' = <<"NotifyDisconnected", "ScheduleBackoff">>
        /\ pc' = "effects" /\ back' = "connect" /\ told' /\ signal' = signal
    BY <1>0, <1>3, <2>1, <2>2 DEF Lost, LoseConnection, Turn
  <2>4. state' \in State /\ state'.phase = "Reconnecting"
    BY <1>0, <2>3 DEF State, Phase
  <2> QED BY <1>0, <2>3, <2>4, EffectLists DEF Effecting, Awaiting
<1>4. CASE TakeShutdown
  <2>1. /\ state' = SessionStateNew /\ todo' = <<"NotifyDisconnected">>
        /\ pc' = "effects" /\ back' = "close" /\ told' /\ signal' = "taken"
    BY <1>0, <1>4, Handling DEF TakeShutdown, Stopped
  <2>2. SessionStateNew \in State
    BY DEF SessionStateNew, State, Phase, NoBackoff
  <2> QED BY <1>0, <2>1, <2>2, EffectLists DEF Effecting, Awaiting
<1> QED BY <1>1, <1>2, <1>3, <1>4 DEF Select

(* dispatch's loop over the effects.                                       *)
LEMMA InvCarry == Inv /\ Carry => Inv'
<1> SUFFICES ASSUME Inv, Carry PROVE Inv'
  OBVIOUS
<1> USE DEF Inv, TypeOK, InStep, Goto
<1>1. CASE NotifyConnected
  <2>1. /\ todo = <<"NotifyConnected">> /\ back = "subscribe"
        /\ state.phase = "Subscribing"
    BY <1>1 DEF NotifyConnected, Effects, Effecting
  <2>2. todo' = <<>> /\ told' /\ UNCHANGED <<pc, state, back, installed, signal>>
    BY <1>1, <2>1 DEF NotifyConnected, Effects, Carried
  <2> QED BY <1>1, <2>1, <2>2 DEF NotifyConnected, Effects, Effecting, At
<1>2. CASE NotifyDisconnected
  <2>1. told' = FALSE /\ todo' = Tail(todo) /\ pc = "effects"
        /\ UNCHANGED <<pc, state, back, installed, signal>>
    BY <1>2 DEF NotifyDisconnected, Effects, Carried
  <2>2. CASE /\ todo = <<"NotifyDisconnected", "ScheduleBackoff">> /\ back = "connect"
             /\ state.phase = "Reconnecting"
    <3>1. todo' = <<"ScheduleBackoff">>
      BY <2>1, <2>2
    <3>2. TypeOK'
      BY <2>1, <3>1, EffectLists
    <3> QED BY <2>1, <2>2, <3>1, <3>2 DEF Effecting
  <2>3. CASE /\ todo = <<"NotifyDisconnected">> /\ back = "close"
             /\ state = SessionStateNew /\ signal = "taken"
    <3>1. todo' = <<>>
      BY <2>1, <2>3
    <3>2. TypeOK'
      BY <2>1, <3>1, EffectLists
    <3>3. At("close")'
      BY <2>1, <2>3 DEF At
    <3> QED BY <2>1, <2>3, <3>1, <3>2, <3>3 DEF Effecting
  <2> QED BY <1>2, <2>2, <2>3 DEF NotifyDisconnected, Effects, Effecting
<1>3. CASE ForwardJson \/ (SendText /\ Carried)
  <2>1. todo \in {<<"SendText">>, <<"ForwardJson">>} /\ back = "select" /\ At("select")
    BY <1>3 DEF ForwardJson, SendText, Effects, Effecting
  <2>2. todo' = <<>> /\ UNCHANGED <<pc, state, back, told, installed, signal>>
    <3>1. todo' = <<>>
      BY <1>3, <2>1, EffectLists DEF ForwardJson, SendText, Effects, Carried
    <3>2. pc = "effects" /\ pc' = "effects"
      BY <1>3 DEF ForwardJson, SendText, Effects, Carried
    <3> QED BY <1>3, <3>1, <3>2 DEF ForwardJson, SendText, Effects, Carried
  <2> QED BY <1>3, <2>1, <2>2 DEF ForwardJson, SendText, Effects, Effecting, At, Connected
<1>4. CASE NothingToDo
  <2>1. \/ todo = <<"Connect">> /\ back = "connect" /\ At("connect")
        \/ todo = <<"Ignore">> /\ back = "select" /\ At("select")
    BY <1>4 DEF NothingToDo, Effects, Effecting
  <2>2. todo' = <<>> /\ UNCHANGED <<pc, state, back, told, installed, signal>>
    BY <1>4, <2>1 DEF NothingToDo, Effects, Carried
  <2> QED BY <1>4, <2>1, <2>2 DEF NothingToDo, Effects, Effecting, At, Connected
<1>5. CASE SendText /\ Goto("failed")
  BY <1>5 DEF SendText, Effects, Ended
<1>6. CASE ScheduleBackoff
  <2>1. todo = <<"ScheduleBackoff">> /\ back = "connect"
        /\ state.phase = "Reconnecting" /\ ~told
    BY <1>6 DEF ScheduleBackoff, Effects, Effecting
  <2> QED BY <1>6, <2>1 DEF ScheduleBackoff, Effects, Asleep, Awaiting, Ended
<1>7. CASE WakeUp
  <2>1. /\ todo' = <<>> /\ state' = [state EXCEPT !.phase = "Connecting"]
        /\ back = "connect" /\ ~told /\ pc' = "effects"
        /\ UNCHANGED <<back, told, installed, signal>>
    BY <1>7, Handling DEF WakeUp, Asleep
  <2>2. state' \in State /\ state'.phase = "Connecting"
    BY <2>1 DEF State, Phase
  <2> QED BY <2>1, <2>2 DEF Effecting, At, Awaiting
<1>8. CASE EffectsDone
  <2>1. pc' = back /\ At(back) /\ UNCHANGED <<state, todo, back, told, installed, signal>>
    BY <1>8 DEF EffectsDone, Effecting
  <2> QED BY <2>1 DEF At, Awaiting, Connected
<1> QED BY <1>1, <1>2, <1>3, <1>4, <1>5, <1>6, <1>7, <1>8 DEF Carry, SendText

(* The run returns Ok.                                                     *)
LEMMA InvClose == Inv /\ Close => Inv'
BY DEF Inv, TypeOK, InStep, Close, Goto, At, Ended

(* A signal touches neither the state machine nor the effects.             *)
LEMMA InvSignal == Inv /\ Signal => Inv'
<1> SUFFICES ASSUME Inv, Signal PROVE Inv'
  OBVIOUS
<1> USE DEF Inv, TypeOK, InStep, Signal
<1>1. signal # "taken" /\ pc # "stopped" /\ pc' \in {pc, "killed"}
      /\ UNCHANGED <<state, todo, back, told, installed>> /\ signal' = "pending"
  BY DEF Ended
<1>2. CASE pc' = "killed"
  BY <1>1, <1>2 DEF Ended
<1>3. CASE pc' = pc
  BY <1>1, <1>3 DEF At, Effecting, Asleep, Connected
<1> QED BY <1>1, <1>2, <1>3

(* A step of something else.                                               *)
LEMMA InvStutter == Inv /\ UNCHANGED vars => Inv'
BY DEF Inv, TypeOK, InStep, At, Effecting, Asleep, Connected, vars

-----------------------------------------------------------------------------
(* In every run of the session the runner's place, the effects still to be *)
(* carried out, the state machine and what the observer was told fit.      *)
THEOREM InvHolds == RunnerSpec => []Inv
<1>1. RunnerInit => Inv
  BY InvInit
<1>2. Inv /\ [RunnerNext]_vars => Inv'
  BY InvSetup, InvSelect, InvCarry, InvClose, InvSignal, InvStutter DEF RunnerNext
<1> QED BY <1>1, <1>2, PTL DEF RunnerSpec

(* The runner never dispatches an event in a phase that ignores it.        *)
THEOREM PhaseFitsHolds == RunnerSpec => []PhaseFits
<1>1. Inv => PhaseFits
  BY DEF Inv, InStep, At, Asleep, PhaseFits, SessionStateNew
<1> QED BY <1>1, InvHolds, PTL

(* The observer's callbacks alternate, with messages only in between.      *)
THEOREM CallbackOrderHolds == RunnerSpec => []CallbackOrder
<1>1. Inv => CallbackOrder
  BY DEF Inv, InStep, Effecting, At, CallbackOrder
<1> QED BY <1>1, InvHolds, PTL

(* Ok is returned only after a shutdown request, with the observer told.   *)
THEOREM StopsOnlyOnRequestHolds == RunnerSpec => []StopsOnlyOnRequest
<1>1. Inv => StopsOnlyOnRequest
  BY DEF Inv, InStep, At, StopsOnlyOnRequest
<1> QED BY <1>1, InvHolds, PTL

(* The state of the session and of dispatch is always one of state.rs's.   *)
THEOREM TypeOKHolds == RunnerSpec => []TypeOK
<1>1. Inv => TypeOK
  BY DEF Inv
<1> QED BY <1>1, InvHolds, PTL

(* Each event yields the effects it is dispatched for.                     *)
LEMMA Answered ==
    ASSUME Inv, RunnerNext, pc # "effects", pc' = "effects"
    PROVE  todo' # <<>> \/ (pc = "sleep" /\ state' # state)
<1> USE DEF Inv, TypeOK, InStep, At, Dispatch, Goto
<1>1. CASE Setup
  <2>1. CASE Start
    <3>1. state \in State /\ state.phase = "Disconnected"
      BY <2>1 DEF Start, SessionStateNew
    <3>2. todo' = HandleEvent(state, "Start").effects
      BY <2>1 DEF Start
    <3>3. todo' = <<"Connect">>
      BY <3>1, <3>2, Handling
    <3> QED BY <3>3
  <2>2. CASE Connect
    BY <2>2, Handling DEF Connect
  <2>3. CASE Subscribe
    BY <2>3 DEF Subscribe
  <2> QED BY <1>1, <2>1, <2>2, <2>3 DEF Setup
<1>2. CASE Select
  <2>1. state \in State /\ pc \in {"select", "send"} /\ Connected(state)
    BY <1>2 DEF Select, Turn, ReceiveText, ReceivePing, ReceiveOther, Heartbeat,
                SendDone, LoseConnection, PollShutdown, TakeShutdown
  <2>2. CASE ReceiveText
    <3>1. PICK text \in Text : todo' = HandleEvent(state, text).effects
      BY <2>2 DEF ReceiveText
    <3>2. todo' = Classified(state, text).effects
      BY <2>1, <3>1, Handling
    <3>3. todo' \in {<<"SendText">>, <<"ForwardJson">>, <<"Ignore">>}
      BY <2>1, <3>2, Classifying
    <3> HIDE DEF Inv
    <3> QED BY <3>3
  <2>3. CASE LoseConnection
    <3>1. PICK event \in {"WsClosed", "WsError"} : todo' = HandleEvent(state, event).effects
      BY <2>3 DEF LoseConnection
    <3>2. todo' = Lost(state).effects
      BY <2>1, <3>1, Handling
    <3> QED BY <3>2 DEF Lost
  <2>4. CASE TakeShutdown
    BY <2>1, <2>4, Handling DEF TakeShutdown, Stopped
  <2>5. CASE ReceivePing \/ ReceiveOther \/ Heartbeat \/ SendDone \/ PollShutdown
    BY <2>5 DEF ReceivePing, ReceiveOther, Heartbeat, SendDone, PollShutdown
  <2> QED BY <1>2, <2>2, <2>3, <2>4, <2>5 DEF Select
<1>3. CASE Carry
  <2>1. CASE WakeUp
    <3>1. /\ pc = "sleep" /\ state \in State /\ state.phase = "Reconnecting"
          /\ state' = HandleEvent(state, "BackoffElapsed").state
      BY <2>1 DEF WakeUp, Asleep
    <3>2. state' = [state EXCEPT !.phase = "Connecting"]
      BY <3>1, Handling
    <3>3. state'.phase = "Connecting"
      BY <3>1, <3>2 DEF State
    <3> QED BY <3>1, <3>3
  <2>2. CASE ~WakeUp
    BY <1>3, <2>2 DEF Carry, NotifyConnected, NotifyDisconnected, ForwardJson,
                      NothingToDo, SendText, ScheduleBackoff, EffectsDone, Effects
  <2> QED BY <2>1, <2>2
<1>4. CASE Close
  BY <1>4 DEF Close
<1>5. CASE Signal
  BY <1>5 DEF Signal
<1> QED BY <1>1, <1>2, <1>3, <1>4, <1>5 DEF RunnerNext

(* No event falls through to the catch-all arm of handle_event, in a       *)
(* session with any number of reconnections.                               *)
THEOREM NoEventLostHolds == RunnerSpec => NoEventLost
<1>1. Inv /\ [RunnerNext]_vars =>
         [pc # "effects" /\ pc' = "effects" =>
            todo' # <<>> \/ (pc = "sleep" /\ state' # state)]_vars
  BY Answered DEF vars
<1> QED BY <1>1, InvHolds, PTL DEF RunnerSpec, NoEventLost
-----------------------------------------------------------------------------
(* Counting on by one, modulo the width of the integer.                    *)
LEMMA ModNext ==
    ASSUME NEW a \in Nat, NEW w \in Nat \ {0}
    PROVE  /\ a % w \in 0 .. w - 1
           /\ (a + 1) % w = IF a % w = w - 1 THEN 0 ELSE (a % w) + 1
<1>1. \A b \in Nat : /\ b = w * (b \div w) + (b % w)
                     /\ b \div w \in Int /\ b % w \in 0 .. w - 1
  OBVIOUS
<1>2. PICK p \in Int, q \in Int : p = a \div w /\ q = (a + 1) \div w
  <2>1. a \div w \in Int /\ (a + 1) \div w \in Int
    BY <1>1
  <2> QED BY <2>1
<1> DEFINE d == q - p
<1>3. w * d = ((a % w) + 1) - ((a + 1) % w)
  BY <1>1, <1>2
<1>4. d \in {0, 1}
  <2>0. d \in Int
    OBVIOUS
  <2> HIDE DEF d
  <2>1. d >= 2 => w * d >= 2 * w
    BY <2>0
  <2>2. d <= -1 => w * d <= -w
    BY <2>0
  <2> QED BY <1>1, <1>3, <2>0, <2>1, <2>2
<1> HIDE DEF d
<1>5. (d = 0 /\ w * d = 0) \/ (d = 1 /\ w * d = w)
  BY <1>4
<1>6. a % w \in 0 .. w - 1 /\ (a + 1) % w \in 0 .. w - 1
  BY <1>1
<1>7. PICK r \in Int, s \in Int : r = a % w /\ s = (a + 1) % w
  BY <1>6
<1>8. r \in 0 .. w - 1 /\ s \in 0 .. w - 1 /\ w * d = (r + 1) - s
  BY <1>3, <1>6, <1>7
<1>9. s = IF r = w - 1 THEN 0 ELSE r + 1
  <2>1. CASE w * d = 0
    BY <1>8, <2>1
  <2>2. CASE w * d = w
    BY <1>8, <2>2
  <2> QED BY <1>5, <2>1, <2>2
<1> QED BY <1>6, <1>7, <1>9

(* Powers of two, by counting subsets.                                     *)
LEMMA PowerGrows ==
    ASSUME NEW k \in Nat
    PROVE  2 ^ k \in Nat \ {0} /\ 2 ^ (k + 1) \in Nat /\ 2 ^ k <= 2 ^ (k + 1)
<1> DEFINE S == SUBSET (1 .. k)
           T == SUBSET (1 .. k + 1)
<1>1. /\ IsFiniteSet(1 .. k) /\ Cardinality(1 .. k) = k
      /\ IsFiniteSet(1 .. k + 1) /\ Cardinality(1 .. k + 1) = k + 1
  BY FS_Interval
<1>2. /\ IsFiniteSet(S) /\ Cardinality(S) = 2 ^ k
      /\ IsFiniteSet(T) /\ Cardinality(T) = 2 ^ (k + 1)
  BY <1>1, FS_SUBSET
<1>3. S \subseteq T /\ {} \in S
  <2>1. 1 .. k \subseteq 1 .. k + 1
    OBVIOUS
  <2> QED BY <2>1
<1> HIDE DEF S, T
<1>4. Cardinality(S) <= Cardinality(T) /\ Cardinality(S) # 0
  BY <1>2, <1>3, FS_Subset, FS_EmptySet
<1>5. Cardinality(S) \in Nat /\ Cardinality(T) \in Nat
  BY <1>2, FS_CardinalityType
<1> QED BY <1>2, <1>4, <1>5
-----------------------------------------------------------------------------
(***************************************************************************)
(* The delay is that of the last attempt that was scheduled: the one       *)
(* before the current, from a loss until ScheduleBackoff is carried out.   *)
(* After Stop, which resets the attempt, nothing is scheduled any more.    *)
(***************************************************************************)
DelayAt(attempt) == IF attempt = 0 THEN 0 ELSE BackoffSecs(attempt)

Unscheduled == pc = "effects" /\ state.phase = "Reconnecting"

DelayFits ==
    \/ pc \in Ended \cup {"close"}
    \/ pc = "effects" /\ back = "close"
    \/ Unscheduled /\ state.backoff > 0 /\ delay = DelayAt(state.backoff - 1)
    \/ ~Unscheduled /\ delay = DelayAt(state.backoff)

DelayInv == Inv /\ DelayFits

(* A delay is a second at least, the cap at most, and no shorter than the  *)
(* one before, unless the shift has come around to zero.                   *)
LEMMA DelaysGrow ==
    ASSUME NEW attempt \in Nat \ {0}
    PROVE  /\ MaxBackoffSecs > 0 => BackoffSecs(attempt) \in 1 .. MaxBackoffSecs
           /\ MaxBackoffSecs = 0 => BackoffSecs(attempt) = 0
           /\ DelayAt(attempt - 1) \in Nat
           /\ BackoffSecs(attempt) < DelayAt(attempt - 1) => attempt % ShiftBits = 1
<1> DEFINE w == ShiftBits
           m == MaxBackoffSecs
<1>1. w \in Nat \ {0} /\ m \in Nat
  BY SessionRunnerAssumption
<1>2. PICK k : k = (attempt - 1) % w
  OBVIOUS
<1>3. k \in Nat /\ attempt - 1 \in Nat /\ k < w
  BY <1>1, <1>2, ModNext
<1>4. 2 ^ k \in Nat \ {0} /\ BackoffSecs(attempt) = IF 2 ^ k < m THEN 2 ^ k ELSE m
  BY <1>2, <1>3, PowerGrows DEF BackoffSecs
<1>5. CASE attempt = 1
  BY <1>1, <1>4, <1>5 DEF DelayAt
<1>6. CASE attempt # 1
  <2>1. attempt - 2 \in Nat /\ (attempt - 2) + 1 = attempt - 1 /\ (attempt - 1) + 1 = attempt
        /\ (attempt - 1) - 1 = attempt - 2
    BY <1>6
  <2> DEFINE j == (attempt - 2) % w
  <2>2. j = (attempt - 2) % w
    OBVIOUS
  <2>3. j \in Nat /\ j < w /\ k = IF j = w - 1 THEN 0 ELSE j + 1
    <3>1. PICK a \in Nat : a = attempt - 2 /\ a + 1 = attempt - 1
      BY <2>1
    <3>2. /\ a % w \in 0 .. w - 1
          /\ (a + 1) % w = IF a % w = w - 1 THEN 0 ELSE (a % w) + 1
      BY <1>1, ModNext
    <3>3. j = a % w /\ k = (a + 1) % w
      BY <1>2, <3>1
    <3> HIDE DEF j
    <3>4. j \in 0 .. w - 1 /\ k = IF j = w - 1 THEN 0 ELSE j + 1
      BY <3>2, <3>3
    <3> QED BY <1>1, <3>4
  <2> HIDE DEF j
  <2>4. 2 ^ j \in Nat \ {0} /\ DelayAt(attempt - 1) = IF 2 ^ j < m THEN 2 ^ j ELSE m
    BY <1>6, <2>1, <2>2, <2>3, PowerGrows DEF BackoffSecs, DelayAt
  <2>5. CASE k = 0 /\ w # 1
    <3>1. attempt % w = 1
      BY <1>1, <1>2, <1>3, <2>1, <2>5, ModNext
    <3> QED BY <1>1, <1>4, <2>4, <3>1
  <2>6. CASE k = j
    BY <1>1, <1>4, <2>4, <2>6
  <2>7. CASE k = j + 1
    <3>1. 2 ^ j <= 2 ^ k
      BY <2>3, <2>7, PowerGrows
    <3> QED BY <1>1, <1>4, <2>4, <3>1
  <2> QED BY <1>1, <1>3, <2>3, <2>5, <2>6, <2>7
<1> QED BY <1>5, <1>6

(* Each step keeps the delay that of the last attempt scheduled.           *)
LEMMA DelayKept == DelayInv /\ [RunnerNext]_vars => DelayFits'
<1> SUFFICES ASSUME DelayInv, [RunnerNext]_vars PROVE DelayFits'
  OBVIOUS
<1>0. Inv /\ DelayFits /\ state \in State /\ state.backoff \in Nat
  BY DEF DelayInv, Inv, TypeOK, State
<1>1. CASE Setup
  <2>1. CASE Start
    <3>1. /\ state = SessionStateNew /\ pc' = "effects" /\ delay' = delay
          /\ state' = HandleEvent(state, "Start").state
      BY <1>0, <2>1 DEF Start, Dispatch, Inv, InStep, At
    <3>2. state' = [state EXCEPT !.phase = "Connecting"]
      BY <1>0, <3>1, Handling DEF SessionStateNew
    <3> QED BY <1>0, <2>1, <3>1, <3>2 DEF Start, DelayFits, Unscheduled, Ended, State
  <2>2. CASE Connect
    <3>1. CASE pc' = "failed"
      BY <3>1 DEF DelayFits, Ended
    <3>2. CASE pc' # "failed"
      <4>1. /\ pc = "connect" /\ state.phase = "Connecting" /\ pc' = "effects"
            /\ delay' = delay /\ state' = HandleEvent(state, "WsOpen").state
        BY <1>0, <2>2, <3>2 DEF Connect, Goto, Dispatch, Inv, InStep, At
      <4>2. state' = [state EXCEPT !.phase = "Subscribing"]
        BY <1>0, <4>1, Handling
      <4> QED BY <1>0, <4>1, <4>2 DEF DelayFits, Unscheduled, Ended, State
    <3> QED BY <3>1, <3>2
  <2>3. CASE Subscribe
    BY <1>0, <2>3 DEF Subscribe, Goto, DelayFits, Unscheduled, Ended
  <2> QED BY <1>1, <2>1, <2>2, <2>3 DEF Setup
<1>2. CASE Select
  <2>0. /\ pc \in {"select", "send"} /\ Connected(state)
        /\ delay' = delay /\ delay = DelayAt(state.backoff)
    BY <1>0, <1>2 DEF Select, Turn, ReceiveText, ReceivePing, ReceiveOther, Heartbeat,
         SendDone, LoseConnection, PollShutdown, TakeShutdown, Dispatch, Goto, Inv, InStep, At,
         DelayFits, Unscheduled, Ended
  <2>1. CASE ReceiveText
    <3>1. PICK text \in Text : Dispatch(text, "select")
      BY <2>1 DEF ReceiveText
    <3>2. state' = Classified(state, text).state /\ pc' = "effects"
      BY <1>0, <2>0, <3>1, Handling DEF Dispatch
    <3>3. state'.backoff = state.backoff
      BY <1>0, <3>2 DEF Classified, Become, State, Text
    <3>4. state'.phase # "Reconnecting"
      BY <1>0, <2>0, <3>2, Classifying DEF Connected
    <3> QED BY <2>0, <3>2, <3>3, <3>4 DEF DelayFits, Unscheduled
  <2>2. CASE ReceivePing \/ ReceiveOther \/ Heartbeat \/ SendDone \/ PollShutdown
    BY <2>0, <2>2 DEF ReceivePing, ReceiveOther, Heartbeat, SendDone, PollShutdown,
                      Goto, DelayFits, Unscheduled, Ended
  <2>3. CASE LoseConnection
    <3>1. PICK event \in {"WsClosed", "WsError"} : Dispatch(event, "connect")
      BY <2>3 DEF LoseConnection
    <3>2. state' = Lost(state).state /\ pc' = "effects"
      BY <1>0, <2>0, <3>1, Handling DEF Dispatch
    <3>3. state'.phase = "Reconnecting" /\ state'.backoff = state.backoff + 1
      BY <3>2 DEF Lost
    <3>4. state'.backoff > 0 /\ state'.backoff - 1 = state.backoff
      BY <1>0, <3>3
    <3> QED BY <2>0, <3>2, <3>3, <3>4 DEF DelayFits, Unscheduled, DelayAt, BackoffSecs
  <2>4. CASE TakeShutdown
    BY <2>4 DEF TakeShutdown, Dispatch, DelayFits
  <2> QED BY <1>2, <2>1, <2>2, <2>3, <2>4 DEF Select
<1>3. CASE Carry
  <2>1. CASE ScheduleBackoff
    <3>1. /\ pc = "effects" /\ state.phase = "Reconnecting" /\ state' = state
          /\ back # "close" /\ (pc' = "panicked" \/ (pc' = "sleep" /\ delay' = BackoffSecs(state.backoff)))
      BY <1>0, <2>1 DEF ScheduleBackoff, Effects, Inv, InStep, Effecting
    <3>2. state.backoff > 0
      BY <1>0, <3>1 DEF DelayFits, Unscheduled, Ended
    <3> QED BY <1>0, <3>1, <3>2 DEF DelayFits, Unscheduled, DelayAt, Ended, BackoffSecs
  <2>2. CASE WakeUp
    <3>1. /\ pc = "sleep" /\ state.phase = "Reconnecting" /\ pc' = "effects" /\ delay' = delay
          /\ state' = HandleEvent(state, "BackoffElapsed").state
      BY <1>0, <2>2 DEF WakeUp, Inv, InStep, Asleep
    <3>2. state' = [state EXCEPT !.phase = "Connecting"]
      BY <1>0, <3>1, Handling
    <3> QED BY <1>0, <3>1, <3>2 DEF DelayFits, Unscheduled, Ended, State
  <2>3. CASE EffectsDone
    <3>1. /\ pc = "effects" /\ pc' = back /\ UNCHANGED <<state, delay, back>>
          /\ back # "close" => state.phase # "Reconnecting"
      BY <1>0, <2>3 DEF EffectsDone, Goto, Inv, InStep, Effecting, At, Connected,
                        SessionStateNew
    <3> QED BY <1>0, <3>1 DEF DelayFits, Unscheduled, DelayAt, Ended, BackoffSecs
  <2>4. CASE \/ NotifyConnected \/ NotifyDisconnected \/ ForwardJson \/ NothingToDo
             \/ SendText
    <3>1. pc' = "failed" \/ UNCHANGED <<pc, state, back, delay>>
      BY <2>4 DEF NotifyConnected, NotifyDisconnected, ForwardJson, NothingToDo,
                  SendText, Carried, Goto
    <3> QED BY <1>0, <3>1 DEF DelayFits, Unscheduled, DelayAt, Ended, BackoffSecs
  <2> QED BY <1>3, <2>1, <2>2, <2>3, <2>4 DEF Carry
<1>4. CASE Close
  BY <1>4 DEF Close, Goto, DelayFits, Ended
<1>5. CASE Signal
  <2>1. pc' = "killed" \/ UNCHANGED <<pc, state, back, delay>>
    BY <1>5 DEF Signal
  <2> QED BY <1>0, <2>1 DEF DelayFits, Unscheduled, DelayAt, Ended, BackoffSecs
<1>6. CASE UNCHANGED vars
  BY <1>0, <1>6 DEF DelayFits, Unscheduled, DelayAt, Ended, BackoffSecs, vars
<1> QED BY <1>1, <1>2, <1>3, <1>4, <1>5, <1>6 DEF RunnerNext

(***************************************************************************)
(* For any cap and any width of the integer: a delay is between one second *)
(* and the cap, and shorter than the one before only where the shift wraps.*)
(***************************************************************************)
THEOREM BackoffGrowsHolds == RunnerSpec => BackoffGrows
<1>1. RunnerInit => DelayInv
  <2> SUFFICES ASSUME RunnerInit PROVE DelayFits
    BY InvInit DEF DelayInv
  <2> QED BY DEF RunnerInit, SessionStateNew, NoBackoff, DelayFits, Unscheduled, DelayAt, Ended
<1>2. DelayInv /\ [RunnerNext]_vars => DelayInv'
  BY DelayKept, InvSetup, InvSelect, InvCarry, InvClose, InvSignal, InvStutter
     DEF RunnerNext, DelayInv
<1>3. DelayInv /\ [RunnerNext]_vars =>
         [delay' # delay =>
             /\ delay' \in 1 .. MaxBackoffSecs
             /\ delay' < delay => state.backoff % ShiftBits = 1]_vars
  <2> SUFFICES ASSUME DelayInv, RunnerNext, delay' # delay
               PROVE  /\ delay' \in 1 .. MaxBackoffSecs
                      /\ delay' < delay => state.backoff % ShiftBits = 1
    BY DEF vars
  <2>1. ScheduleBackoff
    BY DEF RunnerNext, Setup, Select, Carry, Start, Connect, Subscribe, Turn,
           ReceiveText, ReceivePing, ReceiveOther, Heartbeat, SendDone,
           LoseConnection, PollShutdown, TakeShutdown, NotifyConnected, NotifyDisconnected,
           ForwardJson, NothingToDo, SendText, WakeUp, EffectsDone, Close, Signal,
           Dispatch, Goto, Carried
  <2>2. /\ pc = "effects" /\ state.phase = "Reconnecting" /\ back # "close"
        /\ delay' = BackoffSecs(state.backoff) /\ state.backoff \in Nat
    BY <2>1 DEF ScheduleBackoff, Effects, DelayInv, Inv, InStep, Effecting, TypeOK, State
  <2>3. state.backoff > 0 /\ delay = DelayAt(state.backoff - 1)
    BY <2>2 DEF DelayInv, DelayFits, Unscheduled, Ended
  <2>4. MaxBackoffSecs # 0
    <3> SUFFICES ASSUME MaxBackoffSecs = 0 PROVE FALSE
      OBVIOUS
    <3>1. delay' = 0
      BY <2>2, <2>3, DelaysGrow
    <3>2. DelayAt(state.backoff - 1) = 0
      <4>1. CASE state.backoff = 1
        BY <4>1 DEF DelayAt
      <4>2. CASE state.backoff # 1
        <5>1. state.backoff - 1 \in Nat \ {0}
          BY <2>2, <2>3, <4>2
        <5> QED BY <5>1, DelaysGrow DEF DelayAt
      <4> QED BY <4>1, <4>2
    <3> QED BY <2>3, <3>1, <3>2
  <2>5. MaxBackoffSecs > 0 /\ state.backoff \in Nat \ {0}
    BY <2>2, <2>3, <2>4, SessionRunnerAssumption
  <2> QED BY <2>2, <2>3, <2>5, DelaysGrow
<1> QED BY <1>1, <1>2, <1>3, PTL DEF RunnerSpec, BackoffGrows
=============================================================================
