---------------------------- MODULE SocketServer ----------------------------
(***************************************************************************)
(* The daemon's socket (socket.go), its life (main.go) and the client that *)
(* calls it (clientCall of main.go).                                       *)
(*                                                                         *)
(* A connection carries one request.  Time is not counted; a deadline is   *)
(* compared with how long what it watches may take, in minutes.  A client  *)
(* other than clientCall may connect and send nothing.                     *)
(***************************************************************************)
EXTENDS Naturals, FiniteSets

CONSTANTS Conns   \* bound: connections served at the same time

VARIABLES
    server,   \* "up", "closing" or "down"
    conns     \* conns[c]: what is served on c

serverVars == <<server, conns>>

\* Served for a client that waits for the answer.
Methods == {"status", "pair.start", "pair.poll", "targets.list", "targets.refresh", "send", "logout"}

\* Nothing, a client that has not sent its request, or a method whose client has
\* gone.
Served == Methods \cup {"none", "silent", "unwatched"}

ServerInit == server = "down" /\ conns = [c \in Conns |-> "none"]

\* The stale socket of a daemon that died is removed.
Start == server = "down" /\ server' = "up" /\ UNCHANGED conns

\* A request that is malformed or names no method is answered at once, and is
\* left out.
Serve(c, what) ==
    /\ server = "up" /\ conns[c] = "none"
    /\ conns' = [conns EXCEPT ![c] = what] /\ UNCHANGED server

ConnectSilently(c) == Serve(c, "silent")

\* Mutated form: a connection has no deadline, and its read goes on.
ReadWaits(c) == conns[c] = "silent" /\ UNCHANGED serverVars

\* The deadline of a connection that never sends its request.
ReadTimesOut(c) ==
    /\ conns[c] = "silent"
    /\ conns' = [conns EXCEPT ![c] = "none"] /\ UNCHANGED server

HandlerEnds(c) ==
    /\ conns[c] \in Methods \cup {"unwatched"}
    /\ conns' = [conns EXCEPT ![c] = "none"] /\ UNCHANGED server

\* What a handler asks of the broker or of Notion ends with requestTimeout;
\* targets.refresh has that twice, for itself and for targets.list.
OutboundTime(method) ==
    IF method \in {"status", "logout"} THEN 0 ELSE IF method = "targets.refresh" THEN 4 ELSE 2

\* send reads, parses and renders the pages before its requestTimeout begins,
\* under no deadline at all.
Outlives(method, deadline) == method = "send" \/ OutboundTime(method) > deadline

ClientDeadline == 3

\* clientCall gives up on a handler that takes longer than it waits.  The
\* handler goes on, past requestDeadline too, which ends reads and writes of the
\* connection and no handler: its answer goes nowhere.
GiveUp(c) ==
    /\ conns[c] \in Methods /\ Outlives(conns[c], ClientDeadline)
    /\ conns' = [conns EXCEPT ![c] = "unwatched"] /\ UNCHANGED server

\* SIGTERM: the listener is closed, and Close waits for the connections.
Close == server = "up" /\ server' = "closing" /\ UNCHANGED conns
Closed ==
    /\ server = "closing" /\ \A c \in Conns : conns[c] = "none"
    /\ server' = "down" /\ UNCHANGED conns

\* The process is killed.
Killed == server # "down" /\ server' = "down" /\ conns' = [c \in Conns |-> "none"]

=============================================================================
