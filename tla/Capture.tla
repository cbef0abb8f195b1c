------------------------------ MODULE Capture ------------------------------
(***************************************************************************)
(* CaptureObserver of src/bin/capture.rs: the messages of a session        *)
(* written to a file through a BufWriter, and what replay makes of that    *)
(* file: at the end, or at any time before.                                *)
(*                                                                         *)
(* The environment is the session, which calls back and in the end drops   *)
(* the observer; the disk, which may refuse a write after taking part of   *)
(* it; and whatever kills the process.                                     *)
(***************************************************************************)
EXTENDS Replay

CONSTANTS
    Capacity,    \* of the BufWriter, in pieces
    MaxValues,   \* bound on the messages received
    MaxFaults    \* bound on the writes that the disk refuses

ASSUME CaptureAssumption ==
    /\ Capacity \in Nat \ {0, 1}
    /\ MaxValues \in Nat
    /\ MaxFaults \in Nat

VARIABLES
    file,      \* pieces on disk
    buf,       \* pieces in the BufWriter
    todo,      \* pieces on_json_message has yet to write
    run,       \* "open", "closed" (observer dropped), "killed"
    received,  \* number of on_json_message calls
    synced,    \* received at the last on_disconnected or drop
    faults     \* writes the disk refused

vars == <<file, buf, todo, run, received, synced, faults>>

CaptureInit ==
    /\ file = <<>> /\ buf = <<>> /\ todo = <<>> /\ run = "open"
    /\ received = 0 /\ synced = 0 /\ faults = 0

-----------------------------------------------------------------------------
(***************************************************************************)
(* BufWriter::flush_buf hands the buffer to the file and keeps what was    *)
(* not taken when a write fails.                                           *)
(***************************************************************************)
FlushOk == file' = file \o buf /\ UNCHANGED faults
FlushErr ==
    /\ faults < MaxFaults
    /\ faults' = faults + 1
    /\ \E k \in 0 .. Len(buf) - 1 :
          /\ file' = file \o SubSeq(buf, 1, k)
          /\ buf' = SubSeq(buf, k + 1, Len(buf))

(* on_json_message writes the value, then the newline.                     *)
OnJsonMessage ==
    /\ run = "open" /\ todo = <<>>
    /\ received < MaxValues
    /\ received' = received + 1
    /\ todo' = LineOf(received + 1)
    /\ UNCHANGED <<file, buf, run, synced, faults>>

(* mutant: the buffer never fills, nothing is written before the end       *)
Write_Hoards ==
    /\ run = "open" /\ todo # <<>>
    /\ todo' = Tail(todo)
    /\ buf' = Append(buf, Head(todo))
    /\ UNCHANGED <<file, run, received, synced, faults>>

(* write_all makes room by flushing; a piece that fits is only buffered.   *)
Write ==
    /\ run = "open" /\ todo # <<>>
    /\ todo' = Tail(todo)
    /\ IF Len(buf) < Capacity
       THEN buf' = Append(buf, Head(todo)) /\ UNCHANGED <<file, faults>>
       ELSE buf' = <<Head(todo)>> /\ FlushOk
    /\ UNCHANGED <<run, received, synced>>

(* mutant: the value is tried again, on a line of its own                  *)
AfterError_Retries ==
    IF Head(todo) = NewLine THEN <<NewLine>> \o LineOf(received) ELSE <<NewLine>>

(* An error in the value ends the value, and the newline is written next;  *)
(* an error in the newline ends the call.                                  *)
AfterError == IF Head(todo) = NewLine THEN <<>> ELSE <<NewLine>>

WriteError ==
    /\ run = "open" /\ todo # <<>>
    /\ Len(buf) = Capacity /\ FlushErr
    /\ todo' = AfterError
    /\ UNCHANGED <<run, received, synced>>

(* The result of flush is ignored.                                         *)
Flush == (FlushOk /\ buf' = <<>>) \/ FlushErr

(* mutant: on_disconnected leaves the buffer as it is                      *)
OnDisconnected_NoFlush ==
    /\ run = "open" /\ todo = <<>>
    /\ synced' = received
    /\ UNCHANGED <<file, buf, faults, todo, run, received>>

OnDisconnected ==
    /\ run = "open" /\ todo = <<>>
    /\ Flush
    /\ synced' = received
    /\ UNCHANGED <<todo, run, received>>

(* When run_inner returns, with an error too, or panics, the runner and    *)
(* with it the observer is dropped, and BufWriter flushes on drop.         *)
Drop ==
    /\ run = "open" /\ todo = <<>>
    /\ Flush
    /\ synced' = received
    /\ run' = "closed"
    /\ UNCHANGED <<todo, received>>

(* A signal before the handlers are in place, SIGKILL, a lack of memory.   *)
Kill == /\ run = "open"
        /\ run' = "killed"
        /\ UNCHANGED <<file, buf, todo, received, synced, faults>>

CaptureNext == \/ OnJsonMessage \/ Write \/ WriteError
               \/ OnDisconnected \/ Drop \/ Kill

CaptureSpec == CaptureInit /\ [][CaptureNext]_vars

-----------------------------------------------------------------------------
(***************************************************************************)
(* Replay hands on values that were received, in the order they were, and  *)
(* none twice: whatever the disk refused, whenever the capture was killed, *)
(* and also when it is still being written.                                *)
(***************************************************************************)
ReplayedInOrder ==
    /\ Values(file) \subseteq 1 .. received
    /\ \A p, q \in Replayed(file) : p < q => ValueAt(file, p) < ValueAt(file, q)

(***************************************************************************)
(* As long as the disk takes every write, replay yields the first messages *)
(* without a hole, so the books it builds are those of an earlier moment   *)
(* of the session; and it misses no more than the buffer holds and the     *)
(* message under way.                                                      *)
(***************************************************************************)
LossBounded ==
    faults = 0 =>
        \E n \in 0 .. received : /\ Values(file) = 1 .. n
                                 /\ received - n <= 2 + Capacity \div 3

(***************************************************************************)
(* As long as the disk takes every write, nothing received before a        *)
(* disconnection is lost, whatever comes after, short of a power failure   *)
(* (there is no fsync: what the file was given counts as kept); nor is     *)
(* anything at all when the run ends by itself, orderly or by an error.    *)
(***************************************************************************)
DisconnectionIsDurable == faults = 0 => 1 .. synced \subseteq Values(file)
=============================================================================
