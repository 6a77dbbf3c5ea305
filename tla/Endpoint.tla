------------------------------ MODULE Endpoint ------------------------------
(***************************************************************************)
(* The daemons of one user and the files they meet at: the Unix socket,    *)
(* the startup lock, the PID file and the serial port that the last daemon *)
(* recorded as open (src/transport.rs, src/ipc.rs, src/cli/daemon.rs,      *)
(* src/cli/handlers.rs).                                                   *)
(*                                                                         *)
(* Every file is named by its path, and a step that removes one removes    *)
(* whatever has the path then.  A daemon is one process; its steps are the *)
(* system calls other daemons can tell apart.                              *)
(*                                                                         *)
(* A definition whose name begins with Fault is a wrong variant of the one *)
(* that follows it, and no behaviour of Spec uses it.                      *)
(***************************************************************************)
EXTENDS Integers, FiniteSets

CONSTANTS
  Daemon,      \* processes, each a daemon once
  None,        \* no daemon
  LockTries,   \* how often a start tries the lock, 50 in the code
  LongPauses,  \* a lock may get stale although its owner is still starting
  MaxKills,    \* bound: daemons that are killed
  MaxStops     \* bound: daemons that are asked to stop

ASSUME EndpointAssumption ==
  /\ None \notin Daemon
  /\ LockTries \in Nat \ {0}
  /\ LongPauses \in BOOLEAN
  /\ MaxKills \in Nat /\ MaxStops \in Nat

InLock == {"check", "probe", "unlink", "bind", "listen", "restrict", "unlock",
           "abort"}
Starting == {"restore", "lock", "lock.old"} \cup InLock
Accepting == {"pid", "serve"}
Stopping == {"cleanup.socket", "cleanup.lock", "pid.read", "pid.remove", "drain", "closing"}
Over == {"ended", "failed", "killed"}
DaemonPc == {"absent"} \cup Starting \cup Accepting \cup Stopping \cup Over

RestartPc == {"idle", "wait", "start", "await", "done", "failed"}

VARIABLES
  pc,         \* where each daemon is
  tries,      \* how often it has tried the lock, while it tries
  socket,     \* the daemon whose socket has the path, or None
  listening,  \* the daemons whose socket takes connections
  lock,       \* the daemon that made the lock file there is, or None
  lockOld,    \* the lock file is more than 30 seconds old
  pidFile,    \* the daemon the PID file names, or None
  recorded,   \* the state database lists the port as open
  port,       \* the daemon that has the port open, or None
  restart,    \* where `devserial daemon --restart` is
  stopped,    \* the daemon it stopped, or None
  answered,   \* the daemon that answered it in the end, or None
  stolen,     \* history: a lock was removed while its owner was starting
  company,    \* history: daemons that were not alone while they started
  misnamed,   \* history: daemons whose PID file another one removed or wrote over, or
              \* could not be written
  kills, stops

fileVars == <<socket, listening, lock, lockOld, pidFile>>
portVars == <<recorded, port>>
restartVars == <<restart, stopped, answered>>
historyVars == <<stolen, company, misnamed>>
boundVars == <<kills, stops>>
vars == <<pc, tries, fileVars, portVars, restartVars, historyVars, boundVars>>

Alive(d) == pc[d] \notin {"absent"} \cup Over
Alone(d) == \A e \in Daemon \ {d} : ~Alive(e)

\* connect() finds a socket that is listening.
Connectable == socket # None /\ socket \in listening

Goto(d, place) == pc' = [pc EXCEPT ![d] = place]

\* A process that ends gives the port back, and its socket takes nobody.
Gone(d, how) ==
  /\ Goto(d, how)
  /\ listening' = listening \ {d}
  /\ port' = IF port = d THEN None ELSE port

Init ==
  /\ pc = [d \in Daemon |-> "absent"]
  /\ tries = [d \in Daemon |-> 0]
  /\ socket = None /\ listening = {}
  /\ lock = None /\ lockOld = FALSE
  /\ pidFile = None
  /\ recorded = FALSE /\ port = None
  /\ restart = "idle" /\ stopped = None /\ answered = None
  /\ stolen = FALSE /\ company = {} /\ misnamed = {}
  /\ kills = 0 /\ stops = 0

-----------------------------------------------------------------------------
(* Starting.  The ports are restored first, the endpoint is bound after.   *)

\* A lock file nobody alive made is a reason for a start to fail as well.
Spawned(d) ==
  /\ pc[d] = "absent"
  /\ Goto(d, "restore")
  /\ company' = company \cup {e \in Daemon : e # d /\ Alive(e)}
                        \cup (IF Alone(d) /\ lock = None THEN {} ELSE {d})

Spawn(d) ==
  /\ Spawned(d)
  /\ UNCHANGED <<tries, fileVars, portVars, restartVars, stolen, misnamed, boundVars>>

RestorePorts(d) ==
  /\ pc[d] = "restore"
  /\ port' = IF recorded /\ port = None THEN d ELSE port
  /\ Goto(d, "lock")
  /\ UNCHANGED <<tries, fileVars, recorded, restartVars, historyVars, boundVars>>

\* StartupLock::acquire: create the file, or find it there.
FaultAcquire(d) ==
  /\ pc[d] = "lock" /\ tries[d] < LockTries
  /\ lock' = d /\ lockOld' = FALSE
  /\ Goto(d, "check") /\ tries' = [tries EXCEPT ![d] = 0]
  /\ UNCHANGED <<socket, listening, pidFile, portVars, restartVars, historyVars,
                 boundVars>>
Acquire(d) ==
  /\ pc[d] = "lock" /\ lock = None /\ tries[d] < LockTries
  /\ lock' = d /\ lockOld' = FALSE
  /\ Goto(d, "check") /\ tries' = [tries EXCEPT ![d] = 0]
  /\ UNCHANGED <<socket, listening, pidFile, portVars, restartVars, historyVars,
                 boundVars>>

FaultTriesUncounted(d) ==
  /\ pc[d] = "lock" /\ lock # None
  /\ Goto(d, IF lockOld THEN "lock.old" ELSE "lock")
  /\ UNCHANGED tries
  /\ UNCHANGED <<fileVars, portVars, restartVars, historyVars, boundVars>>
LockBusy(d) ==
  /\ pc[d] = "lock" /\ lock # None /\ tries[d] < LockTries
  /\ tries' = [tries EXCEPT ![d] = @ + 1]
  /\ Goto(d, IF lockOld THEN "lock.old" ELSE "lock")
  /\ UNCHANGED <<fileVars, portVars, restartVars, historyVars, boundVars>>

LockTimeout(d) ==
  /\ pc[d] = "lock" /\ tries[d] = LockTries
  /\ Gone(d, "failed") /\ tries' = [tries EXCEPT ![d] = 0]
  /\ UNCHANGED <<socket, lock, lockOld, pidFile, recorded, restartVars, historyVars,
                 boundVars>>

\* Removing the lock file by its path, whoever made the one that is there.
RemoveLock(d) ==
  /\ lock' = None /\ lockOld' = FALSE
  /\ stolen' = (stolen \/ (lock \notin {d, None} /\ pc[lock] \in InLock))

RemoveOldLock(d) ==
  /\ pc[d] = "lock.old"
  /\ RemoveLock(d)
  /\ Goto(d, "lock")
  /\ UNCHANGED <<tries, socket, listening, pidFile, portVars, restartVars, company,
                 misnamed, boundVars>>

\* Listener::bind under the lock: is there a socket, does anybody answer on it?
CheckSocket(d) ==
  /\ pc[d] = "check"
  /\ Goto(d, IF socket = None THEN "bind" ELSE "probe")
  /\ UNCHANGED <<tries, fileVars, portVars, restartVars, historyVars, boundVars>>

Answers == Connectable

ProbeSocket(d) ==
  /\ pc[d] = "probe"
  /\ Goto(d, IF Answers THEN "abort" ELSE "unlink")
  /\ UNCHANGED <<tries, fileVars, portVars, restartVars, historyVars, boundVars>>

\* The socket may have gone meanwhile, and then the removal fails.
FaultUnlinkSocket(d) ==
  /\ pc[d] = "unlink"
  /\ Goto(d, "bind")
  /\ UNCHANGED <<tries, fileVars, portVars, restartVars, historyVars, boundVars>>
UnlinkSocket(d) ==
  /\ pc[d] = "unlink"
  /\ Goto(d, IF socket = None THEN "abort" ELSE "bind")
  /\ socket' = None
  /\ UNCHANGED <<tries, listening, lock, lockOld, pidFile, portVars, restartVars, historyVars,
                 boundVars>>

Bind(d) ==
  /\ pc[d] = "bind"
  /\ Goto(d, IF socket = None THEN "listen" ELSE "abort")
  /\ socket' = IF socket = None THEN d ELSE socket
  /\ UNCHANGED <<tries, listening, lock, lockOld, pidFile, portVars, restartVars, historyVars,
                 boundVars>>

Listen(d) ==
  /\ pc[d] = "listen"
  /\ listening' = listening \cup {d}
  /\ Goto(d, "restrict")
  /\ UNCHANGED <<tries, socket, lock, lockOld, pidFile, portVars, restartVars, historyVars,
                 boundVars>>

\* restrict_socket sets the mode of whatever has the path, if anything has.
RestrictAccess(d) ==
  /\ pc[d] = "restrict"
  /\ Goto(d, IF socket = None THEN "abort" ELSE "unlock")
  /\ UNCHANGED <<tries, fileVars, portVars, restartVars, historyVars, boundVars>>

\* The lock is dropped, on success and on every error alike.

Unlock(d) ==
  /\ pc[d] = "unlock"
  /\ RemoveLock(d)
  /\ Goto(d, "pid")
  /\ UNCHANGED <<tries, socket, listening, pidFile, portVars, restartVars, company, misnamed,
                 boundVars>>

Abort(d) ==
  /\ pc[d] = "abort"
  /\ RemoveLock(d)
  /\ Gone(d, "failed")
  /\ UNCHANGED <<tries, socket, pidFile, recorded, restartVars, company, misnamed, boundVars>>

\* A PID file that cannot be written is only warned of; one that was there is kept
\* or emptied.
WritePid(d) ==
  /\ pc[d] = "pid"
  /\ pidFile' \in {d, pidFile, None}
  /\ misnamed' = misnamed \cup ({pidFile} \ {pidFile', None}) \cup (IF pidFile' = d THEN {} ELSE {d})
  /\ Goto(d, "serve")
  /\ UNCHANGED <<tries, socket, listening, lock, lockOld, portVars, restartVars, stolen,
                 company, boundVars>>

-----------------------------------------------------------------------------
(* Serving: a client opens or closes the port, and the record follows.     *)

OpenPort(d) ==
  /\ pc[d] = "serve" /\ port = None
  /\ port' = d /\ recorded' = TRUE
  /\ UNCHANGED <<pc, tries, fileVars, restartVars, historyVars, boundVars>>

ClosePort(d) ==
  /\ pc[d] = "serve" /\ port = d
  /\ port' = None /\ recorded' = FALSE
  /\ UNCHANGED <<pc, tries, fileVars, restartVars, historyVars, boundVars>>

-----------------------------------------------------------------------------
(* Stopping: a signal, the idle timer or a request.  The endpoint goes     *)
(* first, the requests already there are answered, the ports go last.      *)

Stop(d) ==
  /\ pc[d] = "serve" /\ stops < MaxStops
  /\ Goto(d, "cleanup.socket")
  /\ stops' = stops + 1
  /\ UNCHANGED <<tries, fileVars, portVars, restartVars, historyVars, kills>>

CleanupSocket(d) ==
  /\ pc[d] = "cleanup.socket"
  /\ socket' = None
  /\ Goto(d, "cleanup.lock")
  /\ UNCHANGED <<tries, listening, lock, lockOld, pidFile, portVars, restartVars, historyVars,
                 boundVars>>

CleanupLock(d) ==
  /\ pc[d] = "cleanup.lock"
  /\ RemoveLock(d)
  /\ Goto(d, "pid.read")
  /\ UNCHANGED <<tries, socket, listening, pidFile, portVars, restartVars, company, misnamed,
                 boundVars>>

FaultOwnPid(d) == FALSE
OwnPid(d) == pidFile = d

ReadPid(d) ==
  /\ pc[d] = "pid.read"
  /\ Goto(d, IF OwnPid(d) THEN "pid.remove" ELSE "drain")
  /\ UNCHANGED <<tries, fileVars, portVars, restartVars, historyVars, boundVars>>

RemovePid(d) ==
  /\ pc[d] = "pid.remove"
  /\ pidFile' = None
  /\ misnamed' = IF pidFile \in {d, None} THEN misnamed ELSE misnamed \cup {pidFile}
  /\ Goto(d, "drain")
  /\ UNCHANGED <<tries, socket, listening, lock, lockOld, portVars, restartVars, stolen,
                 company, boundVars>>

\* Queued connections are taken until it is quiet, then the listener goes.
DropListener(d) ==
  /\ pc[d] = "drain"
  /\ listening' = listening \ {d}
  /\ Goto(d, "closing")
  /\ UNCHANGED <<tries, socket, lock, lockOld, pidFile, portVars, restartVars, historyVars,
                 boundVars>>

\* The requests under way are answered or cut off, and the process ends.
End(d) ==
  /\ pc[d] = "closing"
  /\ Gone(d, "ended")
  /\ UNCHANGED <<tries, socket, lock, lockOld, pidFile, recorded, restartVars, historyVars,
                 boundVars>>

-----------------------------------------------------------------------------
(* What happens to daemons and lock files.                                 *)

Kill(d) ==
  /\ Alive(d) /\ kills < MaxKills
  /\ Gone(d, "killed")
  /\ kills' = kills + 1
  /\ UNCHANGED <<tries, socket, lock, lockOld, pidFile, recorded, restartVars, historyVars,
                 stops>>

AgeLock ==
  /\ lock # None /\ ~lockOld
  /\ LongPauses \/ pc[lock] \notin InLock
  /\ lockOld' = TRUE
  /\ UNCHANGED <<pc, tries, socket, listening, lock, pidFile, portVars, restartVars,
                 historyVars, boundVars>>

-----------------------------------------------------------------------------
(* restart_daemon: shut down, wait until nobody answers, start one.        *)

RestartAsk ==
  /\ restart = "idle"
  /\ \/ /\ ~Connectable
        /\ restart' = "wait" /\ UNCHANGED <<pc, stopped>>
     \/ /\ Connectable /\ pc[socket] = "serve"
        /\ Goto(socket, "cleanup.socket")
        /\ stopped' = socket /\ restart' = "wait"
  /\ UNCHANGED <<tries, fileVars, portVars, answered, historyVars, boundVars>>

\* Two hundred pings, 50 ms apart; the last of them gives up.
FaultNoWait == restart = "wait"
NobodyAnswers == restart = "wait" /\ ~Connectable

RestartGone ==
  /\ NobodyAnswers
  /\ restart' = "start"
  /\ UNCHANGED <<pc, tries, fileVars, portVars, stopped, answered, historyVars, boundVars>>

\* send_starting: whoever answers is taken, otherwise a daemon is spawned.
RestartSpawn ==
  /\ restart = "start" /\ ~Connectable
  /\ \E d \in Daemon : Spawned(d)
  /\ restart' = "await"
  /\ UNCHANGED <<tries, fileVars, portVars, stopped, answered, stolen, misnamed, boundVars>>

RestartAnswered ==
  /\ restart \in {"start", "await"}
  /\ Connectable /\ pc[socket] \in {"serve"} \cup Stopping
  /\ restart' = "done" /\ answered' = socket
  /\ UNCHANGED <<pc, tries, fileVars, portVars, stopped, historyVars, boundVars>>

RestartGivesUp ==
  /\ restart \in {"wait", "await"}
  /\ restart' = "failed"
  /\ UNCHANGED <<pc, tries, fileVars, portVars, stopped, answered, historyVars, boundVars>>

-----------------------------------------------------------------------------
Start(d) ==
  \/ RestorePorts(d)
  \/ Acquire(d) \/ LockBusy(d) \/ LockTimeout(d) \/ RemoveOldLock(d)
  \/ CheckSocket(d) \/ ProbeSocket(d) \/ UnlinkSocket(d) \/ Bind(d) \/ Listen(d)
  \/ RestrictAccess(d) \/ Unlock(d) \/ Abort(d) \/ WritePid(d)

Finish(d) ==
  \/ CleanupSocket(d) \/ CleanupLock(d) \/ ReadPid(d) \/ RemovePid(d)
  \/ DropListener(d) \/ End(d)

RestartStep ==
  RestartAsk \/ RestartGone \/ RestartSpawn \/ RestartAnswered \/ RestartGivesUp

Next ==
  \/ \E d \in Daemon : \/ Spawn(d) \/ Start(d) \/ OpenPort(d) \/ ClosePort(d)
                       \/ Stop(d) \/ Finish(d) \/ Kill(d)
  \/ AgeLock
  \/ RestartStep

Spec == Init /\ [][Next]_vars

\* The processes run.
Fairness == \A d \in Daemon : WF_vars(Start(d)) /\ WF_vars(Finish(d))

FairSpec == Spec /\ Fairness

-----------------------------------------------------------------------------
(* Properties. *)

\* Every variable has its type.
TypeOK ==
  /\ pc \in [Daemon -> DaemonPc]
  /\ tries \in [Daemon -> 0 .. LockTries]
  /\ socket \in Daemon \cup {None} /\ listening \subseteq Daemon
  /\ lock \in Daemon \cup {None} /\ lockOld \in BOOLEAN
  /\ pidFile \in Daemon \cup {None}
  /\ recorded \in BOOLEAN /\ port \in Daemon \cup {None}
  /\ restart \in RestartPc
  /\ stopped \in Daemon \cup {None} /\ answered \in Daemon \cup {None}
  /\ stolen \in BOOLEAN /\ company \subseteq Daemon /\ misnamed \subseteq Daemon
  /\ kills \in Nat /\ stops \in Nat

\* The startup lock is exclusive unless its file was removed under the one who
\* made it: two daemons are never both between check and bind.
LockExclusive ==
  ~stolen => \A d, e \in Daemon : pc[d] \in InLock /\ pc[e] \in InLock => d = e

\* A daemon that serves is the one clients reach: no other start took its
\* socket for a stale one and removed it, unless a lock was stolen.
ServerReachable ==
  ~stolen => \A d \in Daemon :
    pc[d] \in Accepting \cup {"unlock", "cleanup.socket"} => socket = d /\ d \in listening

\* A daemon that starts alone, with no lock file there, comes up, whatever
\* socket and PID file a killed one has left.
StartsAlone ==
  \A d \in Daemon \ company : pc[d] # "failed"

\* Starts exclude each other, so none undoes what another has done, and none
\* fails of what others left behind (transport.rs bind, cleanup).
StartsExclude == LockExclusive /\ ServerReachable /\ StartsAlone

\* The PID file names the daemon that serves, if that could write it, until another
\* daemon writes over it or removes it between its own look and its own removal.
PidOfServer ==
  \A d \in Daemon \ misnamed : pc[d] = "serve" => pidFile = d

\* A daemon that ended in order leaves no PID file with its number behind.
NoPidOfTheEnded ==
  \A d \in Daemon : pc[d] = "ended" => pidFile # d

\* The PID file is right about who serves and who does not.
PidFileTrue == PidOfServer /\ NoPidOfTheEnded

\* A restart is answered by another daemon than the one it stopped, also when a
\* lock was stolen meanwhile.
RestartIsNew ==
  restart = "done" => answered # stopped

\* Who serves is known: by the PID file, and to the one who restarted it
\* (ipc.rs write and remove of the PID file, handlers.rs restart_daemon), while
\* every variable keeps its type.
ServerKnown == TypeOK /\ PidFileTrue /\ RestartIsNew

\* Whoever is started serves or gives up.
StartSettles ==
  \A d \in Daemon : pc[d] \in Starting ~> pc[d] \notin Starting

-----------------------------------------------------------------------------
(* What the documents say and the code does not keep to. *)

\* transport.rs: "The lock makes the stale-socket check atomic.  Without it two
\* daemons starting at once can both decide the socket is stale, and the loser
\* then deletes the winner's live socket."
LiveSocketKept ==
  \A d \in Daemon : pc[d] = "serve" => socket = d

=============================================================================
