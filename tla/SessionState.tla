---------------------------- MODULE SessionState ----------------------------
(***************************************************************************)
(* The pure connection state machine of src/state.rs: handle_event as a    *)
(* function from a state and an event to the new state and the effects the *)
(* runner is to carry out, in order.                                       *)
(***************************************************************************)
EXTENDS Naturals, Sequences

(* `Failed` is declared in the code; no transition enters it.              *)
Phase == {"Disconnected", "Connecting", "Subscribing", "Running",
          "Reconnecting", "Failed"}

(* backoff: the attempt of Some(Backoff { attempt }), or 0 for None.       *)
NoBackoff == 0
State == [phase : Phase, backoff : Nat]

(* Event::IncomingText by what its text is: either heartbeat, JSON, or     *)
(* anything else.                                                          *)
Text == {"PING", "ping", "json", "garbage"}
Event == {"Start", "Stop", "WsOpen", "WsClosed", "WsError", "BackoffElapsed"}
         \cup Text

(* ScheduleBackoff carries the attempt that it leaves in the state.        *)
Effect == {"Connect", "SendText", "ScheduleBackoff", "NotifyConnected",
           "NotifyDisconnected", "ForwardJson", "Ignore"}

SessionStateNew == [phase |-> "Disconnected", backoff |-> NoBackoff]

-----------------------------------------------------------------------------
Become(s, phase, effects) ==
    [state |-> [s EXCEPT !.phase = phase], effects |-> effects]

(* mutants: the loss is not announced; attempts are counted down           *)
Lost_Silent(s) ==
    [state   |-> [phase |-> "Reconnecting", backoff |-> s.backoff + 1],
     effects |-> <<"ScheduleBackoff">>]
Lost_CountsDown(s) ==
    [state   |-> [phase |-> "Reconnecting", backoff |-> s.backoff - 1],
     effects |-> <<"NotifyDisconnected", "ScheduleBackoff">>]

Lost(s) ==       \* the connection closed or failed
    [state   |-> [phase |-> "Reconnecting", backoff |-> s.backoff + 1],
     effects |-> <<"NotifyDisconnected", "ScheduleBackoff">>]

Stopped == [state |-> SessionStateNew, effects |-> <<"NotifyDisconnected">>]

Classified(s, text) ==
    CASE text \in {"PING", "ping"} -> Become(s, s.phase, <<"SendText">>)
      [] text = "json"             -> Become(s, "Running", <<"ForwardJson">>)
      [] text = "garbage"          -> Become(s, s.phase, <<"Ignore">>)

Connected(s) == s.phase \in {"Subscribing", "Running"}

(* mutant: the arm for a socket error is missing                           *)
HandleEvent_NoErrorArm(s, e) ==
    CASE s.phase = "Disconnected" /\ e = "Start"  -> Become(s, "Connecting", <<"Connect">>)
      [] s.phase = "Connecting" /\ e = "WsOpen"   -> Become(s, "Subscribing", <<"NotifyConnected">>)
      [] s.phase = "Reconnecting" /\ e = "BackoffElapsed" -> Become(s, "Connecting", <<"Connect">>)
      [] Connected(s) /\ e = "WsClosed"           -> Lost(s)
      [] Connected(s) /\ e \in Text               -> Classified(s, e)
      [] e = "Stop"                               -> Stopped
      [] OTHER                                    -> Become(s, s.phase, <<>>)

HandleEvent(s, e) ==
    CASE s.phase = "Disconnected" /\ e = "Start"
           -> Become(s, "Connecting", <<"Connect">>)
      [] s.phase = "Connecting" /\ e = "WsOpen"
           -> Become(s, "Subscribing", <<"NotifyConnected">>)
      [] s.phase = "Reconnecting" /\ e = "BackoffElapsed"
           -> Become(s, "Connecting", <<"Connect">>)
      [] Connected(s) /\ e \in {"WsClosed", "WsError"}
           -> Lost(s)
      [] Connected(s) /\ e \in Text
           -> Classified(s, e)
      [] e = "Stop"
           -> Stopped
      [] OTHER
           -> Become(s, s.phase, <<>>)
=============================================================================
