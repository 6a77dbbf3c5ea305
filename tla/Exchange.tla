------------------------------- MODULE Exchange -------------------------------
(***************************************************************************)
(* One request from a client to the daemon while daemons stop, die and are *)
(* started (src/ipc.rs): the check that a daemon answers, the connection,  *)
(* the one repetition after a refused connection, the task that serves the *)
(* connection, and the drain of a daemon that stops.                       *)
(*                                                                         *)
(* Who may bind the endpoint is Endpoint's subject; here a start leads to  *)
(* one daemon that serves.  Sockets are those of POSIX: a connection made  *)
(* before the endpoint is removed waits in the queue of the listener.      *)
(*                                                                         *)
(* Time is coarse: a quick request is served well within DRAIN, a long one *)
(* (a transfer, a flash, a read that waits) may outlast DRAIN and the      *)
(* patience of its client.  Fault definitions are wrong variants.          *)
(***************************************************************************)
EXTENDS Integers, FiniteSets

CONSTANTS
  Client,      \* processes that ask for one thing each
  Kinds,       \* what they may ask: a subset of "quick", "long" and "shutdown"
  MaxDaemons,  \* bound: daemons ever started; the last one does not stop
  MaxCrashes   \* bound: daemons that die

ASSUME ExchangeAssumption ==
  /\ Kinds \subseteq {"quick", "long", "shutdown"}
  /\ MaxDaemons \in Nat \ {0} /\ MaxCrashes \in Nat

Daemon == 1 .. MaxDaemons
None == 0

\* serving; draining: the endpoint is removed, queued connections are taken;
\* closed: the listener is dropped, the connections taken are served.
DaemonState == {"unborn", "serving", "draining", "closed", "ended"}

\* In send_after: ensure_daemon, connect, write_frame, read_frame.
ClientPc == {"idle", "start", "connect", "write", "read", "done"}

\* The daemon's side of the connection of a client.
Conn == {"none", "queued", "reading", "executing", "answering", "gone"}

Result == {"none", "ok", "refused", "cut", "timeout"}

VARIABLES
  daemon,    \* state of each daemon
  endpoint,  \* the daemon the socket file belongs to
  asked,     \* daemons told to stop
  crashed,   \* daemons that died
  pc,        \* where each client is
  kind,      \* what it asks
  starts,    \* how often it called start
  to,        \* the daemon it is connected to
  frame,     \* whether its request is in the connection
  conn,      \* the daemon's side of its connection
  reply,     \* whether its answer is in the connection
  acted,     \* how often a daemon began to act on its request
  result     \* how its request ended

daemonVars == <<daemon, endpoint, asked, crashed>>
clientVars == <<pc, kind, starts, to, frame, result>>
connVars == <<conn, reply, acted>>
vars == <<daemonVars, clientVars, connVars>>

Init ==
  /\ daemon = [g \in Daemon |-> "unborn"] /\ endpoint = None
  /\ asked = {} /\ crashed = {}
  /\ pc = [c \in Client |-> "idle"] /\ kind \in [Client -> Kinds]
  /\ starts = [c \in Client |-> 0] /\ to = [c \in Client |-> None]
  /\ frame = [c \in Client |-> FALSE] /\ result = [c \in Client |-> "none"]
  /\ conn = [c \in Client |-> "none"] /\ reply = frame /\ acted = starts

Answers == endpoint # None /\ daemon[endpoint] = "serving"

-----------------------------------------------------------------------------
(* The client. *)

Begin(c) ==
  /\ pc[c] = "idle"
  /\ pc' = [pc EXCEPT ![c] = "start"]
  /\ starts' = [starts EXCEPT ![c] = 1]
  /\ UNCHANGED <<daemonVars, kind, to, frame, result, connVars>>

\* ensure_daemon: a daemon answers the ping ...
Alive(c) ==
  /\ pc[c] = "start" /\ Answers
  /\ pc' = [pc EXCEPT ![c] = "connect"]
  /\ UNCHANGED <<daemonVars, kind, starts, to, frame, result, connVars>>

\* ... or one is spawned, which the client pings until it answers.
Spawn(c) ==
  /\ pc[c] = "start" /\ ~Answers
  /\ \E g \in Daemon :
       /\ daemon[g] = "unborn" /\ \A h \in 1 .. g - 1 : daemon[h] # "unborn"
       /\ daemon' = [daemon EXCEPT ![g] = "serving"]
       /\ endpoint' = g
  /\ UNCHANGED <<asked, crashed, clientVars, connVars>>

Connect(c) ==
  /\ pc[c] = "connect" /\ Answers
  /\ pc' = [pc EXCEPT ![c] = "write"]
  /\ to' = [to EXCEPT ![c] = endpoint]
  /\ conn' = [conn EXCEPT ![c] = "queued"]
  /\ UNCHANGED <<daemonVars, kind, starts, frame, result, reply, acted>>

EndWith(c, r) ==
  /\ pc' = [pc EXCEPT ![c] = "done"]
  /\ result' = [result EXCEPT ![c] = r]
  /\ UNCHANGED starts

StartAgain(c) ==
  /\ pc' = [pc EXCEPT ![c] = "start"]
  /\ starts' = [starts EXCEPT ![c] = @ + 1]
  /\ UNCHANGED result

\* Nobody is at the endpoint: start again and send again, once.
Refused(c) ==
  /\ pc[c] = "connect" /\ ~Answers
  /\ IF starts[c] = 1 THEN StartAgain(c) ELSE EndWith(c, "refused")
  /\ UNCHANGED <<daemonVars, kind, to, frame, connVars>>

WriteFrame(c) ==
  /\ pc[c] = "write" /\ conn[c] # "gone"
  /\ pc' = [pc EXCEPT ![c] = "read"]
  /\ frame' = [frame EXCEPT ![c] = TRUE]
  /\ UNCHANGED <<daemonVars, kind, starts, to, result, connVars>>

ReadReply(c) ==
  /\ pc[c] = "read" /\ reply[c]
  /\ EndWith(c, "ok")
  /\ UNCHANGED <<daemonVars, kind, to, frame, connVars>>

\* The connection was closed without an answer: an error that is not repeated,
\* because the daemon may have acted on the request.
FaultClosed(c) == pc[c] = "read" /\ conn[c] = "gone" /\ ~reply[c]
Closed(c) == pc[c] \in {"write", "read"} /\ conn[c] = "gone" /\ ~reply[c]
FaultCutOff(c) ==
  /\ Closed(c)
  /\ IF starts[c] = 1 THEN StartAgain(c) ELSE EndWith(c, "cut")
  /\ UNCHANGED <<daemonVars, kind, to, frame, connVars>>
FaultCutAsRefused(c) ==
  /\ Closed(c)
  /\ EndWith(c, "refused")
  /\ UNCHANGED <<daemonVars, kind, to, frame, connVars>>
CutOff(c) ==
  /\ Closed(c)
  /\ EndWith(c, "cut")
  /\ UNCHANGED <<daemonVars, kind, to, frame, connVars>>

\* The client's patience ends; the daemon goes on.
GiveUp(c) ==
  /\ pc[c] = "read" /\ kind[c] = "long" /\ conn[c] = "executing"
  /\ EndWith(c, "timeout")
  /\ UNCHANGED <<daemonVars, kind, to, frame, connVars>>

-----------------------------------------------------------------------------
(* The daemon's task for a connection. *)

Accept(c) ==
  /\ conn[c] = "queued" /\ daemon[to[c]] \in {"serving", "draining"}
  /\ conn' = [conn EXCEPT ![c] = "reading"]
  /\ UNCHANGED <<daemonVars, clientVars, reply, acted>>

Execute(c) ==
  /\ conn[c] = "reading" /\ frame[c]
  /\ conn' = [conn EXCEPT ![c] = "executing"]
  /\ acted' = [acted EXCEPT ![c] = @ + 1]
  /\ UNCHANGED <<daemonVars, clientVars, reply>>

Finish(c) ==
  /\ conn[c] = "executing"
  /\ conn' = [conn EXCEPT ![c] = "answering"]
  /\ UNCHANGED <<daemonVars, clientVars, reply, acted>>

\* The answer goes out before a shutdown is passed on.
Reply(c) ==
  /\ conn[c] = "answering"
  /\ conn' = [conn EXCEPT ![c] = "gone"]
  /\ reply' = [reply EXCEPT ![c] = TRUE]
  /\ asked' = IF kind[c] = "shutdown" THEN asked \cup {to[c]} ELSE asked
  /\ UNCHANGED <<daemon, endpoint, crashed, clientVars, acted>>

-----------------------------------------------------------------------------
(* The daemon. *)

Held(g) == {c \in Client : to[c] = g /\ conn[c] \in {"reading", "executing", "answering"}}
Queued(g) == {c \in Client : to[c] = g /\ conn[c] = "queued"}
Cut(S) == conn' = [c \in Client |-> IF c \in S THEN "gone" ELSE conn[c]]

\* Ctrl+C, a signal, or the idle watcher.
Signal(g) ==
  /\ daemon[g] = "serving" /\ g \notin asked
  /\ asked' = asked \cup {g}
  /\ UNCHANGED <<daemon, endpoint, crashed, clientVars, connVars>>

\* The accept loop ends and the endpoint is removed.
Stop(g) ==
  /\ daemon[g] = "serving" /\ g \in asked /\ g < MaxDaemons
  /\ daemon' = [daemon EXCEPT ![g] = "draining"]
  /\ endpoint' = None
  /\ UNCHANGED <<asked, crashed, clientVars, connVars>>

\* Nothing was queued for QUEUE_QUIET: the listener is dropped, and with it
\* whatever would still be in its queue.
FaultQuiet(g) == g \in Daemon
Quiet(g) == Queued(g) = {}
DropListener(g) ==
  /\ daemon[g] = "draining" /\ Quiet(g)
  /\ daemon' = [daemon EXCEPT ![g] = "closed"]
  /\ Cut(Queued(g))
  /\ UNCHANGED <<endpoint, asked, crashed, clientVars, reply, acted>>

Drained(g) ==
  /\ daemon[g] = "closed" /\ Held(g) = {}
  /\ daemon' = [daemon EXCEPT ![g] = "ended"]
  /\ UNCHANGED <<endpoint, asked, crashed, clientVars, connVars>>

\* DRAIN is over: only long requests can be left, and are aborted.  What one has
\* handed to a blocking thread goes on: it was acted on when it began, and nobody
\* hears of it.
FaultAbort(g) ==
  /\ daemon[g] = "closed" /\ Held(g) # {}
  /\ \A c \in Held(g) : conn[c] = "answering"
  /\ daemon' = [daemon EXCEPT ![g] = "ended"]
  /\ Cut(Held(g))
  /\ UNCHANGED <<endpoint, asked, crashed, clientVars, reply, acted>>
Abort(g) ==
  /\ daemon[g] = "closed" /\ Held(g) # {}
  /\ \A c \in Held(g) : kind[c] = "long" /\ conn[c] = "executing"
  /\ daemon' = [daemon EXCEPT ![g] = "ended"]
  /\ Cut(Held(g))
  /\ UNCHANGED <<endpoint, asked, crashed, clientVars, reply, acted>>

\* The process dies; its socket file stays.
Crash(g) ==
  /\ daemon[g] \in {"serving", "draining", "closed"} /\ g < MaxDaemons
  /\ Cardinality(crashed) < MaxCrashes
  /\ daemon' = [daemon EXCEPT ![g] = "ended"]
  /\ crashed' = crashed \cup {g}
  /\ Cut(Held(g) \cup Queued(g))
  /\ UNCHANGED <<endpoint, asked, clientVars, reply, acted>>

-----------------------------------------------------------------------------
ClientStep(c) ==
  \/ Begin(c) \/ Alive(c) \/ Spawn(c) \/ Connect(c) \/ Refused(c)
  \/ WriteFrame(c) \/ ReadReply(c) \/ CutOff(c) \/ GiveUp(c)
ServeStep(c) == Accept(c) \/ Execute(c) \/ Finish(c) \/ Reply(c)
DaemonStep(g) == Signal(g) \/ Stop(g) \/ DropListener(g) \/ Drained(g) \/ Abort(g) \/ Crash(g)

Next ==
  \/ \E c \in Client : ClientStep(c) \/ ServeStep(c)
  \/ \E g \in Daemon : DaemonStep(g)

Spec == Init /\ [][Next]_vars

\* Clients and tasks go on when they can, and a daemon told to stop stops.
\* Nobody has to ask, to signal or to crash, and a long request need not end.
Fairness ==
  /\ \A c \in Client :
       /\ WF_vars(ClientStep(c) /\ pc[c] # "idle")
       /\ WF_vars(ServeStep(c) /\ ~(kind[c] = "long" /\ conn[c] = "executing"))
  /\ \A g \in Daemon :
       WF_vars(Stop(g) \/ DropListener(g) \/ Drained(g) \/ Abort(g))

FairSpec == Spec /\ Fairness

-----------------------------------------------------------------------------
TypeOK ==
  /\ daemon \in [Daemon -> DaemonState] /\ endpoint \in Daemon \cup {None}
  /\ asked \subseteq Daemon /\ crashed \subseteq Daemon
  /\ pc \in [Client -> ClientPc] /\ kind \in [Client -> Kinds]
  /\ starts \in [Client -> 0 .. 2] /\ to \in [Client -> Daemon \cup {None}]
  /\ frame \in [Client -> BOOLEAN] /\ result \in [Client -> Result]
  /\ conn \in [Client -> Conn] /\ reply \in [Client -> BOOLEAN]
  /\ acted \in [Client -> Nat]

\* However daemons stop, die and are started, a request is acted on once at
\* most: a write that reached one daemon is not sent to the next.
AtMostOnce == \A c \in Client : acted[c] <= 1

\* What the client is told is true for good: an answer means that a daemon
\* acted, a refusal that none did and none will.
ResultIsTrue ==
  \A c \in Client :
    /\ result[c] = "ok" => acted[c] = 1
    /\ result[c] = "refused" => acted[c] = 0 /\ conn[c] = "none"

\* A quick request is lost only with the daemon that dies with it, and refused
\* only when two daemons went away under it; a daemon that merely stops
\* answers what it has, queued connections included.
NotLost ==
  \A c \in Client :
    /\ result[c] = "cut" /\ kind[c] # "long" => to[c] \in crashed
    /\ result[c] = "refused" =>
         Cardinality({g \in Daemon : daemon[g] \notin {"unborn", "serving"}}) >= 2

\* The exchange implements Requests: a request takes effect when a daemon begins
\* to act on it, and the client is told how it ended once and for good.
Promise == INSTANCE Requests WITH effects <- acted, told <- result
ImplementsRequests == Promise!Spec

\* A daemon that began to stop ends, whatever its clients still wait for.
StopEnds == \A g \in Daemon : daemon[g] = "draining" ~> daemon[g] = "ended"

\* Every request ends, with an answer or with an error.
RequestEnds == \A c \in Client : pc[c] = "start" ~> pc[c] = "done"

\* Neither side waits on the other for ever: the daemon that drains for a request
\* and the client that waits for an answer (IpcServer::run, IpcClient::send).
RequestsSettle == StopEnds /\ RequestEnds

=============================================================================
