------------------------------- MODULE Desktop -------------------------------
(***************************************************************************)
(* The windows of one GUI process, what other invocations ask of it over   *)
(* its socket, and the question whether to stop the daemon when the last   *)
(* window goes (src/monitor.rs, src/gui_ipc.rs).                           *)
(*                                                                         *)
(* Ports are devices: both nodes of a device name the same port.  A window *)
(* with a session talks to the daemon, one without shows a log only.       *)
(***************************************************************************)
EXTENDS Integers, Sequences, SequencesExt, FiniteSets

CONSTANTS
  Ports,        \* devices
  MaxCommands,  \* bound: invocations and commands over the socket
  MaxClicks     \* bound: what the person does, and others do to the daemon

ASSUME DesktopAssumption ==
  MaxCommands \in Nat /\ MaxClicks \in Nat

OnQuit == {"ask", "keep", "stop"}
NoWindow == 0

VARIABLES
  app,        \* "runs", "closed", or "panicked"
  monitors,   \* the windows: [port, open, daemon]
  connecting, \* the connection dialog is open
  question,   \* the window the question is shown over
  resolved,   \* quit_resolved
  commands,   \* the channel from the socket thread
  setting,    \* on_quit, as the file has it
  daemonUp,   \* a daemon answers
  answerGiven,     \* history: the last answer to the question
  asked, clicks

windowVars == <<monitors, connecting>>
quitVars == <<question, resolved, setting, daemonUp, answerGiven>>
desktopVars == <<app, windowVars, quitVars, commands, asked, clicks>>

Monitor(p, daemon) == [port |-> p, open |-> TRUE, daemon |-> daemon]
Shown(ms) == {i \in DOMAIN ms : ms[i].open}
IndexOf(p) == {i \in DOMAIN monitors : monitors[i].port = p}
Raised(ms, i) == [ms EXCEPT ![i].open = TRUE]
AllShut(ms) == [i \in DOMAIN ms |-> [ms[i] EXCEPT !.open = FALSE]]
Lowest(S) == CHOOSE i \in S : \A j \in S : i <= j
Greatest(S) == CHOOSE i \in S : \A j \in S : j <= i

\* run_monitor_gui starts with the dialog; `devserial monitor` and a child of
\* the MCP server with their window.
DesktopInit ==
  /\ app = "runs"
  /\ \/ monitors = <<>> /\ connecting = TRUE
     \/ \E p \in Ports, daemon \in BOOLEAN : monitors = <<Monitor(p, daemon)>> /\ connecting = FALSE
  /\ question = NoWindow /\ resolved = FALSE
  /\ commands = <<>> /\ setting \in OnQuit /\ daemonUp = TRUE /\ answerGiven = "none"
  /\ asked = 0 /\ clicks = 0

-----------------------------------------------------------------------------
(* Quitting. *)

Runs == app = "runs"
Click == Runs /\ clicks < MaxClicks /\ clicks' = clicks + 1

\* resolve_quit, on the windows as they are.
Resolve(ms) ==
  /\ monitors' = AllShut(ms) /\ question' = NoWindow /\ resolved' = TRUE

\* begin_quit: the setting is read back from the file.  A stop that fails is only
\* warned of, and so is an answer that cannot be saved.
BeginQuit(ms, i) ==
  \/ /\ ~ms[i].daemon \/ setting = "keep"
     /\ Resolve(ms) /\ UNCHANGED daemonUp
  \/ /\ ms[i].daemon /\ setting = "stop"
     /\ Resolve(ms) /\ daemonUp' \in {daemonUp, FALSE}
  \/ /\ ms[i].daemon /\ setting = "ask" /\ daemonUp
     /\ monitors' = ms /\ question' = i
     /\ UNCHANGED <<resolved, daemonUp>>
  \/ /\ ms[i].daemon /\ setting = "ask" /\ ~daemonUp
     /\ Resolve(ms) /\ UNCHANGED daemonUp

\* quit_from_menu: over an open window with a session, else over any open one.
QuitFromMenu ==
  /\ Click /\ question = NoWindow
  /\ LET sessions == {i \in Shown(monitors) : monitors[i].daemon}
         window == IF sessions # {} THEN Lowest(sessions) ELSE Lowest(Shown(monitors))
     IN  IF Shown(monitors) # {} /\ ~resolved
         THEN BeginQuit(monitors, window) /\ app' = IF resolved' THEN "closed" ELSE app
         ELSE /\ resolved' = TRUE /\ monitors' = AllShut(monitors) /\ app' = "closed"
              /\ UNCHANGED <<question, daemonUp>>
  /\ UNCHANGED <<connecting, setting, answerGiven, commands, asked>>

\* The close button of the main window, which shows the first open one.
ClosePrimary ==
  /\ Click /\ Shown(monitors) # {}
  /\ LET first == Lowest(Shown(monitors))
         shut == [monitors EXCEPT ![first].open = FALSE]
     IN  IF Cardinality(Shown(monitors)) > 1 \/ resolved
         THEN monitors' = shut /\ UNCHANGED <<question, resolved, daemonUp>>
         ELSE IF question = NoWindow THEN BeginQuit(monitors, first)
              ELSE UNCHANGED <<monitors, question, resolved, daemonUp>>
  /\ UNCHANGED <<app, connecting, setting, answerGiven, commands, asked>>

\* The close buttons of other windows, and of all in one frame.
CloseSecondary ==
  /\ Click /\ Cardinality(Shown(monitors)) > 1
  /\ LET first == Lowest(Shown(monitors))
     IN  \E S \in SUBSET Shown(monitors) :
           /\ S # {} /\ S # {first}
           /\ monitors' = [i \in DOMAIN monitors |->
                IF i \in S THEN [monitors[i] EXCEPT !.open = FALSE] ELSE monitors[i]]
  /\ UNCHANGED <<app, connecting, quitVars, commands, asked>>

\* The root window without a port closes at once.
CloseConnectionView ==
  /\ Click /\ Shown(monitors) = {}
  /\ app' = "closed"
  /\ UNCHANGED <<windowVars, quitVars, commands, asked>>

\* answer_quit.  The index was taken when the question was asked.
FaultStops(stop, i) == monitors[i].daemon
Stops(stop, i) == stop /\ monitors[i].daemon

AnswerQuit ==
  /\ Click /\ question # NoWindow /\ Shown(monitors) # {}
  /\ \E answer \in {"keep", "stop"}, remember \in BOOLEAN :
       /\ answerGiven' = answer
       /\ IF question \notin DOMAIN monitors
          THEN app' = "panicked" /\ UNCHANGED <<windowVars, question, resolved, setting, daemonUp>>
          ELSE /\ setting' \in IF remember THEN {setting, answer} ELSE {setting}
               /\ daemonUp' \in IF Stops(answer = "stop", question) THEN {daemonUp, FALSE} ELSE {daemonUp}
               /\ Resolve(monitors)
               /\ UNCHANGED <<app, connecting>>
  /\ UNCHANGED <<commands, asked>>

CancelQuit ==
  /\ Click /\ question # NoWindow /\ Shown(monitors) # {}
  /\ question' = NoWindow
  /\ UNCHANGED <<app, windowVars, resolved, setting, daemonUp, answerGiven, commands, asked>>

\* The end of logic(): every window is shut and nothing is being connected.
FaultLastWindow == Resolve(monitors) /\ UNCHANGED daemonUp
LastWindow ==
  LET sessions == {i \in DOMAIN monitors : monitors[i].daemon}
      window == Greatest(sessions)
  IN  IF sessions = {} \/ resolved
      THEN UNCHANGED <<monitors, question, resolved, daemonUp>>
      ELSE BeginQuit(Raised(monitors, window), window)

EndWithoutWindows ==
  /\ Runs /\ monitors # <<>> /\ Shown(monitors) = {} /\ ~connecting /\ commands = <<>>
  /\ LastWindow
  /\ app' = IF Shown(monitors') = {} THEN "closed" ELSE app
  /\ UNCHANGED <<connecting, setting, answerGiven, commands, asked, clicks>>

\* Another window or the command line saves the setting or stops the daemon.
Elsewhere ==
  /\ Click
  /\ \/ setting' \in OnQuit /\ UNCHANGED daemonUp
     \/ daemonUp' \in BOOLEAN /\ UNCHANGED setting
  /\ UNCHANGED <<app, windowVars, question, resolved, answerGiven, commands, asked>>

-----------------------------------------------------------------------------
(* Opening. *)

OpenConnectDialog ==
  /\ Click
  /\ connecting' = TRUE
  /\ UNCHANGED <<app, monitors, quitVars, commands, asked>>

CancelConnect ==
  /\ Click /\ connecting /\ Shown(monitors) # {}
  /\ connecting' = FALSE
  /\ UNCHANGED <<app, monitors, quitVars, commands, asked>>

\* A session starts a daemon when none answers.
Session(p) ==
  /\ monitors' = Append(monitors, Monitor(p, TRUE))
  /\ daemonUp' = TRUE

\* The form offers no port that an open window shows.
Offered(p) == IndexOf(p) \cap Shown(monitors) = {}

\* connect_from_dialog and open_requested_port look among all windows.
FaultKnown(p) == {i \in IndexOf(p) : monitors[i].open}
Known(p) == IndexOf(p)

ConnectFromDialog ==
  /\ Click
  /\ connecting \/ Shown(monitors) = {}
  /\ \E p \in Ports :
       /\ Offered(p)
       /\ IF Known(p) # {}
          THEN monitors' = Raised(monitors, Lowest(Known(p))) /\ connecting' = FALSE
               /\ UNCHANGED daemonUp
          ELSE \/ Session(p) /\ connecting' = FALSE
               \/ UNCHANGED <<windowVars, daemonUp>>
  /\ UNCHANGED <<app, question, resolved, setting, answerGiven, commands, asked>>

\* open_requested_port
Requested(c) ==
  \/ /\ c.port = "none"
     /\ connecting' = TRUE /\ UNCHANGED <<monitors, daemonUp>>
  \/ /\ c.port # "none" /\ Known(c.port) # {}
     /\ monitors' = Raised(monitors, Lowest(Known(c.port))) /\ connecting' = FALSE
     /\ UNCHANGED daemonUp
  \/ /\ c.port # "none" /\ Known(c.port) = {} /\ c.session
     /\ \/ Session(c.port) /\ connecting' = FALSE
        \/ connecting' = TRUE /\ UNCHANGED <<monitors, daemonUp>>
  \/ /\ c.port # "none" /\ Known(c.port) = {} /\ ~c.session
     /\ \/ monitors' = Append(monitors, Monitor(c.port, FALSE))
        \/ UNCHANGED monitors
     /\ UNCHANGED <<connecting, daemonUp>>

\* Vec::retain: the other windows stay, in their order.
ForgetWindows(p) ==
  LET others == DOMAIN monitors \ IndexOf(p) IN
  \E kept \in [1..Cardinality(others) -> others] :
    /\ \A i, j \in DOMAIN kept : i < j => kept[i] < kept[j]
    /\ monitors' = [i \in DOMAIN kept |-> monitors[kept[i]]]

\* handle_command, for each command of the channel.
HandleCommand ==
  /\ Runs /\ commands # <<>> /\ commands' = Tail(commands)
  /\ LET c == Head(commands)
     IN  \/ c.name = "OpenPort" /\ Requested(c)
         \/ /\ c.name = "FocusPort"
            /\ monitors' = IF IndexOf(c.port) = {} THEN monitors
                           ELSE Raised(monitors, Lowest(IndexOf(c.port)))
            /\ UNCHANGED <<connecting, daemonUp>>
         \/ /\ c.name = "ClosePort"
            /\ ForgetWindows(c.port)
            /\ UNCHANGED <<connecting, daemonUp>>
  /\ UNCHANGED <<app, question, resolved, setting, answerGiven, asked,
                 clicks>>

-----------------------------------------------------------------------------
(* The socket of the GUI. *)

GuiCommand == [name : {"OpenPort"}, port : Ports \cup {"none"}, session : BOOLEAN]
              \cup [name : {"FocusPort", "ClosePort"}, port : Ports, session : {FALSE}]
Sends == asked < MaxCommands /\ asked' = asked + 1

\* Whoever speaks the protocol of the socket.
Send ==
  /\ Sends /\ Runs
  /\ \E c \in GuiCommand : commands' = Append(commands, c)
  /\ UNCHANGED <<app, windowVars, quitVars, clicks>>

-----------------------------------------------------------------------------
DesktopNext ==
  \/ QuitFromMenu \/ ClosePrimary \/ CloseSecondary \/ CloseConnectionView \/ AnswerQuit
  \/ CancelQuit \/ EndWithoutWindows \/ Elsewhere
  \/ OpenConnectDialog \/ CancelConnect \/ ConnectFromDialog \/ HandleCommand
  \/ Send

DesktopSpec == DesktopInit /\ [][DesktopNext]_desktopVars

-----------------------------------------------------------------------------
(* Properties. *)

\* A port is shown by one window of the process, whoever asks for it, by
\* whichever of its nodes, and whether a window for it was shut or not: a second
\* would hold a second session on it and a second keepalive lease.
OneWindowPerPort ==
  \A i, j \in DOMAIN monitors : monitors[i].port = monitors[j].port => i = j

\* The process is to end, which it does in the next frame at the latest.
Quits == resolved \/ app = "closed"
ByPerson == clicks' # clicks
WithSession(S) == {i \in S : monitors[i].daemon}

\* While the setting is to ask and a daemon answers, quitting is decided by an answer,
\* unless a person shuts or quits a process of which no window with a session is
\* shown: the last window shown may have none although one shut before it had one.
\* By itself the process ends only if it never had a session.  Once decided it stays
\* decided, for windows too that a command opens before the process has ended.
QuitAsked ==
  ~Quits /\ Quits' /\ setting = "ask" /\ daemonUp =>
    IF ByPerson THEN question # NoWindow \/ WithSession(Shown(monitors)) = {}
    ELSE WithSession(DOMAIN monitors) = {}

\* As a process quits it stops the daemon, with every capture the daemon runs, only
\* when the file says so or the person has answered so.
StopMeant ==
  daemonUp /\ ~daemonUp' /\ ~Quits /\ Quits' =>
    setting = "stop" \/ (question # NoWindow /\ answerGiven' = "stop")

=============================================================================
