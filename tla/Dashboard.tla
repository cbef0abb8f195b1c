------------------------------ MODULE Dashboard ------------------------------
(***************************************************************************)
(* The live program's dashboard, in src/main.rs: run_http_server takes the *)
(* snapshots that the observer publishes from a bounded broadcast channel, *)
(* keeps the latest and serves it to connections; the page it serves polls *)
(* it and shows what comes back.                                           *)
(*                                                                         *)
(* The server is one task of a single-threaded runtime, as the session is: *)
(* it is overtaken only where it awaits, in select! and in reading a       *)
(* request.  Snapshots are numbered in the order they are published.       *)
(***************************************************************************)
EXTENDS Naturals, Sequences, FiniteSets

CONSTANTS
    Client,        \* connections the page can have open at a time
    Capacity,      \* of the broadcast channel: 16 in the code
    MaxPublished   \* bound on the snapshots published

ASSUME DashboardAssumption ==
    /\ IsFiniteSet(Client)
    /\ Capacity \in Nat \ {0}
    /\ MaxPublished \in Nat

VARIABLES
    sent,      \* snapshots published; the channel holds the last Capacity
    next,      \* the receiver's next snapshot
    latest,    \* latest_snapshot, or 0 for None
    pc,        \* "bind", "select", "read"; "unbound": bind failed; "over"
    backlog,   \* connections to be accepted, oldest first
    conn,      \* [Client -> its stage, request, reply, and `base`]
    shown      \* snapshot the page shows, or 0

vars == <<sent, next, latest, pc, backlog, conn, shown>>

(***************************************************************************)
(* A connection is closed, open without a request, asking for a path,      *)
(* given up by the page, accepted with nothing read yet, or being answered *)
(* by a task of its own.  base is a history variable: what the page showed *)
(* when it opened the connection.                                          *)
(***************************************************************************)
Path == {"/", "/api/books"}
Stage == {"closed", "open", "asking", "given up", "answering"}
Connection == [stage : Stage, path : Path, reply : Nat, base : Nat]
Closed == [stage |-> "closed", path |-> "/", reply |-> 0, base |-> 0]

DashboardInit ==
    /\ sent = 0 /\ next = 1 /\ latest = 0
    /\ pc = "bind" /\ backlog = <<>>
    /\ conn = [c \in Client |-> Closed] /\ shown = 0

Enter(c, stage) == conn' = [conn EXCEPT ![c].stage = stage]

-----------------------------------------------------------------------------
(* The session's task.  A publish with no receiver left is dropped.  When  *)
(* the session ends, main returns from block_on and every task with it, so *)
(* the server never gets to see its channel closed.                        *)
Publish ==
    /\ pc \notin {"unbound", "over"}
    /\ sent < MaxPublished
    /\ sent' = sent + 1
    /\ UNCHANGED <<next, latest, pc, backlog, conn, shown>>

EndSession ==
    /\ pc # "over"
    /\ pc' = "over"
    /\ UNCHANGED <<sent, next, latest, backlog, conn, shown>>

-----------------------------------------------------------------------------
(* The server's task.                                                      *)
Bind == /\ pc = "bind"
        /\ pc' \in {"select", "unbound"}
        /\ UNCHANGED <<sent, next, latest, backlog, conn, shown>>

(* mutants: only the first snapshot is kept; a lag forgets the snapshot;   *)
(* a lag ends the server, as a closed channel does                         *)
Lagging == sent - next >= Capacity
Recv_KeepsFirst ==
    /\ pc = "select" /\ next <= sent
    /\ IF Lagging
       THEN next' = sent - Capacity + 1 /\ UNCHANGED latest
       ELSE next' = next + 1 /\ latest' = IF latest = 0 THEN next ELSE latest
    /\ UNCHANGED <<sent, pc, backlog, conn, shown>>
Recv_LagForgets ==
    /\ pc = "select" /\ next <= sent
    /\ IF Lagging
       THEN next' = sent - Capacity + 1 /\ latest' = 0
       ELSE next' = next + 1 /\ latest' = next
    /\ UNCHANGED <<sent, pc, backlog, conn, shown>>
Recv_LagEnds ==
    /\ pc = "select" /\ next <= sent
    /\ IF Lagging
       THEN pc' = "left" /\ UNCHANGED <<next, latest>>
       ELSE next' = next + 1 /\ latest' = next /\ UNCHANGED pc
    /\ UNCHANGED <<sent, backlog, conn, shown>>

(* A receiver that the channel has overrun is moved to the oldest snapshot *)
(* still held, and the loop goes on; latest_snapshot is as it was.         *)
Recv ==
    /\ pc = "select"
    /\ next <= sent
    /\ IF Lagging
       THEN next' = sent - Capacity + 1 /\ UNCHANGED latest
       ELSE next' = next + 1 /\ latest' = next
    /\ UNCHANGED <<sent, pc, backlog, conn, shown>>

Accept == /\ pc = "select"
          /\ backlog # <<>>
          /\ pc' = "read"
          /\ UNCHANGED <<sent, next, latest, backlog, conn, shown>>

(* The connection failed in the backlog: accept returns an error.  (One    *)
(* that fails for lack of descriptors leaves the connection where it is,   *)
(* and `continue` makes of it a step that changes nothing.)                *)
AcceptError == /\ pc = "select"
               /\ backlog # <<>>
               /\ conn[Head(backlog)].stage = "given up"
               /\ Enter(Head(backlog), "closed")
               /\ backlog' = Tail(backlog)
               /\ UNCHANGED <<sent, next, latest, pc, shown>>

(* The accepted connection is the head of the backlog while it is read.    *)
(* mutant: a connection that fails ends the loop                           *)
ReadNothing_Ends ==
    /\ pc = "read" /\ conn[Head(backlog)].stage = "given up"
    /\ Enter(Head(backlog), "closed")
    /\ backlog' = Tail(backlog) /\ pc' = "left"
    /\ UNCHANGED <<sent, next, latest, shown>>

ReadNothing == /\ pc = "read"
               /\ conn[Head(backlog)].stage = "given up"
               /\ Enter(Head(backlog), "closed")
               /\ backlog' = Tail(backlog)
               /\ pc' = "select"
               /\ UNCHANGED <<sent, next, latest, shown>>

Respond ==
    /\ pc = "read"
    /\ conn[Head(backlog)].stage = "asking"
    /\ conn' = [conn EXCEPT ![Head(backlog)].stage = "answering",
                            ![Head(backlog)].reply = latest]
    /\ backlog' = Tail(backlog)
    /\ pc' = "select"
    /\ UNCHANGED <<sent, next, latest, shown>>

-----------------------------------------------------------------------------
(* The page.  A poll does not wait for the one before it, nor do the tasks *)
(* that write the answers wait for each other.                             *)
Poll(c) == /\ pc \in {"select", "read"}
           /\ conn[c].stage = "closed"
           /\ \E path \in Path :
                 conn' = [conn EXCEPT ![c] = [stage |-> "open", path |-> path,
                                              reply |-> 0, base |-> shown]]
           /\ backlog' = Append(backlog, c)
           /\ UNCHANGED <<sent, next, latest, pc, shown>>

Ask(c) == /\ conn[c].stage = "open"
          /\ Enter(c, "asking")
          /\ UNCHANGED <<sent, next, latest, pc, backlog, shown>>

GiveUp(c) == /\ conn[c].stage = "open"
             /\ Enter(c, "given up")
             /\ UNCHANGED <<sent, next, latest, pc, backlog, shown>>

(* The answer is shown, loads the page anew, or is lost in writing.        *)
Deliver(c) == /\ pc # "over"
              /\ conn[c].stage = "answering"
              /\ Enter(c, "closed")
              /\ \/ conn[c].path = "/api/books" /\ shown' = conn[c].reply
                 \/ conn[c].path = "/" /\ shown' = 0
                 \/ UNCHANGED shown
              /\ UNCHANGED <<sent, next, latest, pc, backlog>>

Serve == Bind \/ ReadNothing \/ Respond
Page(c) == Poll(c) \/ Ask(c) \/ GiveUp(c) \/ Deliver(c)
DashboardNext == \/ Publish \/ EndSession
                 \/ Serve \/ Recv \/ Accept \/ AcceptError
                 \/ \E c \in Client : Page(c)

(***************************************************************************)
(* The runtime polls a task that is ready; select! starts with a branch at *)
(* random, so neither branch that keeps being ready is passed over for     *)
(* ever; and accept does not fail for lack of descriptors for ever.  Of    *)
(* the page nothing is assumed but that answers can be written or fail: a  *)
(* connection, once accepted, may stay silent, and the read has no timeout.*)
(***************************************************************************)
Fairness ==
    /\ WF_vars(Serve) /\ SF_vars(Recv) /\ SF_vars(Accept \/ AcceptError)
    /\ \A c \in Client : WF_vars(Deliver(c))

DashboardSpec == DashboardInit /\ [][DashboardNext]_vars /\ Fairness

-----------------------------------------------------------------------------
(* The server reads from a connection it accepted, and the channel's       *)
(* positions are those of snapshots published.                             *)
TypeOK ==
    /\ sent \in 0 .. MaxPublished
    /\ next \in 1 .. sent + 1
    /\ latest \in 0 .. sent
    /\ pc \in {"bind", "select", "read", "unbound", "over"}
    /\ backlog \in Seq(Client)
    /\ pc = "read" => backlog # <<>>
    /\ conn \in [Client -> Connection]
    /\ shown \in 0 .. sent

(***************************************************************************)
(* A snapshot is passed over only when the channel no longer holds it.  In *)
(* particular a server that has taken all there is serves the newest.      *)
(***************************************************************************)
SkippedOnlyIfOverwritten == next - 1 > latest => next - 1 + Capacity <= sent

(***************************************************************************)
(* A poll is never answered with a snapshot older than the one the page    *)
(* showed when it polled, whatever the other connections and the channel   *)
(* did in between.  (Answers to polls that overlap may still be shown out  *)
(* of order.)                                                              *)
(***************************************************************************)
NoOlderAnswer ==
    \A c \in Client : conn[c].stage = "answering" => conn[c].reply >= conn[c].base

(* The accepted connection is silent: the server waits for it alone.       *)
Silenced == pc = "read" /\ conn[Head(backlog)].stage = "open"

(***************************************************************************)
(* Every snapshot, or a later one, comes to be served, though the server   *)
(* has connections to serve and the channel may overrun it; only a         *)
(* connection that was accepted and stays silent for ever can prevent it.  *)
(***************************************************************************)
SnapshotsServed ==
    \A k \in 1 .. MaxPublished :
        sent >= k ~> latest >= k \/ pc \in {"unbound", "over"} \/ []Silenced

(***************************************************************************)
(* Every request is answered, though snapshots keep coming and other       *)
(* connections are given up, unless the session ends first or, again, a    *)
(* connection ahead of it stays silent for ever.                           *)
(***************************************************************************)
RequestsAnswered ==
    \A c \in Client :
        conn[c].stage = "asking" ~>
            conn[c].stage = "answering" \/ pc = "over" \/ []Silenced
=============================================================================
