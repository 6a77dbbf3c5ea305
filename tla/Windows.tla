------------------------------- MODULE Windows -------------------------------
(***************************************************************************)
(* The processes that show ports in windows, the socket by which one shows *)
(* a port for another, and the windows an MCP server starts and closes     *)
(* (src/gui_ipc.rs, src/monitor.rs, src/standalone.rs, src/server.rs).     *)
(***************************************************************************)
EXTENDS Integers, FiniteSets

CONSTANTS
  Devices,       \* ports
  MaxProcesses   \* bound: processes that are started

ASSUME WindowsAssumption == MaxProcesses \in Nat

NoProcess == 0
Process == 1..MaxProcesses

VARIABLES
  at,       \* "out", "tries", "unlinks", "binds", "runs", "shows" (has no socket),
             \* "waits", "gone"
  kind,     \* "user": devserial monitor; "child": started by the MCP server
  wanted,     \* the port it is to show
  guiSocket,   \* whose socket the path names
  windows,  \* [owner, port, by]: shown by owner on behalf of by
  handles,  \* the map of the MCP server
  opening,  \* monitor_open calls that found no entry
  overlap   \* history: two monitor_open calls for a port ran at once

windowsVars == <<at, kind, wanted, guiSocket, windows, handles, opening, overlap>>

WindowsInit ==
  /\ at = [p \in Process |-> "out"] /\ kind = [p \in Process |-> "user"]
  /\ wanted \in [Process -> Devices]
  /\ guiSocket = NoProcess /\ windows = {}
  /\ handles = [d \in Devices |-> NoProcess] /\ opening = {} /\ overlap = FALSE

Moves(p, from, to) == at[p] = from /\ at' = [at EXCEPT ![p] = to]
Window(owner, p) == [owner |-> owner, port |-> wanted[p], by |-> p]
GuiAnswers == guiSocket # NoProcess /\ at[guiSocket] = "runs"
NotStarted == {p \in Process : at[p] = "out" /\ \A q \in 1..p - 1 : at[q] # "out"}

\* devserial monitor --port
UserStarts ==
  /\ \E p \in NotStarted : Moves(p, "out", "tries") /\ kind' = [kind EXCEPT ![p] = "user"]
  /\ UNCHANGED <<wanted, guiSocket, windows, handles, opening, overlap>>

-----------------------------------------------------------------------------
(* try_open_in_existing_gui, and a window of its own. *)

\* The running instance shows the port.  The invocation is done; a child stays,
\* for the pipe of its parent.
HandedOver ==
  \E p \in Process :
    /\ GuiAnswers
    /\ Moves(p, "tries", IF kind[p] = "child" THEN "waits" ELSE "gone")
    /\ windows' = IF \E w \in windows : w.owner = guiSocket /\ w.port = wanted[p] THEN windows
                  ELSE windows \cup {Window(guiSocket, p)}
    /\ UNCHANGED <<kind, wanted, guiSocket, handles, opening, overlap>>

\* No answer in half a second: the instance may show it all the same.
AnswerLate ==
  \E p \in Process :
    /\ GuiAnswers
    /\ Moves(p, "tries", "unlinks")
    /\ windows' \in {windows, windows \cup {Window(guiSocket, p)}}
    /\ UNCHANGED <<kind, wanted, guiSocket, handles, opening, overlap>>

\* Nothing at the path, or the leftover of a process that was killed.
NobodyThere ==
  \E p \in Process :
    /\ ~GuiAnswers
    /\ Moves(p, "tries", "unlinks")
    /\ guiSocket' = NoProcess
    /\ UNCHANGED <<kind, wanted, windows, handles, opening, overlap>>

\* start_gui_socket_server removes what is at the path by now.
Unlink ==
  \E p \in Process :
    /\ Moves(p, "unlinks", "binds")
    /\ guiSocket' = NoProcess
    /\ UNCHANGED <<kind, wanted, windows, handles, opening, overlap>>

\* Another one may have bound first: then this one shows its window without.
BindGui ==
  \E p \in Process :
    /\ Moves(p, "binds", IF guiSocket = NoProcess THEN "runs" ELSE "shows")
    /\ guiSocket' = IF guiSocket = NoProcess THEN p ELSE guiSocket
    /\ windows' = windows \cup {Window(p, p)}
    /\ UNCHANGED <<kind, wanted, handles, opening, overlap>>

Owned(p) == {w \in windows : w.owner = p}

\* The last window of a process ends it, and one that had bound the path removes
\* it, whoever's it is by then.
CloseWindow ==
  \E w \in windows :
    /\ windows' = windows \ {w}
    /\ IF Owned(w.owner) = {w}
       THEN /\ at' = [at EXCEPT ![w.owner] = "gone"]
            /\ guiSocket' = IF at[w.owner] = "runs" THEN NoProcess ELSE guiSocket
       ELSE UNCHANGED <<at, guiSocket>>
    /\ UNCHANGED <<kind, wanted, handles, opening, overlap>>

\* A killed process leaves the path.
Dies(p) ==
  /\ at' = [at EXCEPT ![p] = "gone"]
  /\ windows' = windows \ Owned(p)

Killed ==
  \E p \in Process :
    /\ at[p] \in {"runs", "shows"} /\ Dies(p)
    /\ UNCHANGED <<kind, wanted, guiSocket, handles, opening, overlap>>

-----------------------------------------------------------------------------
(* The MCP server. *)

\* monitor_open_impl looks into the map and lets it go ...
FaultVacant(d) == TRUE
Vacant(d) == handles[d] = NoProcess

LookUp ==
  \E p \in NotStarted :
    /\ Vacant(wanted[p])
    /\ opening' = opening \cup {p}
    /\ Moves(p, "out", "tries") /\ kind' = [kind EXCEPT ![p] = "child"]
    /\ overlap' = (overlap \/ \E q \in opening : wanted[q] = wanted[p])
    /\ UNCHANGED <<wanted, guiSocket, windows, handles>>

\* ... and puts the process it has started, which runs meanwhile, into it, over
\* what is there by now.
Insert ==
  \E p \in opening :
    /\ opening' = opening \ {p}
    /\ handles' = [handles EXCEPT ![wanted[p]] = p]
    /\ UNCHANGED <<at, kind, wanted, guiSocket, windows, overlap>>

\* monitor_close_impl takes the process out of the map and kills it.
MonitorClose ==
  \E d \in Devices :
    LET p == handles[d]
    IN  /\ p # NoProcess
        /\ handles' = [handles EXCEPT ![d] = NoProcess]
        /\ Dies(p)
        /\ UNCHANGED <<kind, wanted, guiSocket, opening, overlap>>

-----------------------------------------------------------------------------
WindowsNext ==
  \/ UserStarts \/ HandedOver \/ AnswerLate \/ NobodyThere \/ Unlink \/ BindGui \/ CloseWindow
  \/ Killed \/ LookUp \/ Insert \/ MonitorClose

WindowsSpec == WindowsInit /\ [][WindowsNext]_windowsVars

-----------------------------------------------------------------------------
(* Properties. *)

\* Every process the server started is one it can still close, unless two calls
\* for a port ran at once: nothing else ends it while the server lives.
NothingOrphaned ==
  ~overlap => \A p \in Process \ opening :
    kind[p] = "child" /\ at[p] \notin {"out", "gone"} => handles[wanted[p]] = p

=============================================================================
