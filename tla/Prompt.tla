------------------------------- MODULE Prompt --------------------------------
(***************************************************************************)
(* The keys of a terminal and the input line of a window: the modes of the *)
(* terminal and the one line of text they share, the history of what was   *)
(* sent with its draft, the daemon screen, and the question on quit        *)
(* (src/tui.rs, src/monitor.rs).                                           *)
(*                                                                         *)
(* One key is one step; a request to the daemon blocks the surface and is  *)
(* part of it.  What the screens for settings, signals, macros, flashing,  *)
(* the HTTP interface and lines of the capture do is in Session, RestPanel *)
(* and Display: here they are modes that are entered and left.             *)
(***************************************************************************)
EXTENDS Integers, Sequences, SequencesExt

CONSTANTS
  Texts,        \* what a person types
  Paths,        \* what a screen puts on the line: a path, an idle period
  MaxHistory,   \* bound: entries of the history
  MaxKeys       \* bound: keys that are pressed

ASSUME PromptAssumption ==
  /\ Texts # {} /\ Paths # {} /\ MaxHistory \in Nat /\ MaxKeys \in Nat

Empty == "empty"
NoPlace == 0        \* history_idx is None

\* Modes that take text, that show a panel, and that ask a question.
Typing == {"Normal", "Filter", "Export", "SendFile", "RecvFile", "Flash", "Daemon"}
Panel == {"About", "Configure", "Signals", "Macros", "Rest", "Lines"}
Question == {"SkillOffer", "QuitDaemon", "ClearCapture", "DeleteLines"}
Setting == {"ask", "stop", "keep"}

VARIABLES
  host,    \* "window" or "terminal"
  promptUp,
  mode,       \* input_mode
  input,      \* the text on the line
  history, place, draft,   \* history_idx counts from 1 here
  onQuit,     \* the setting as the surface holds it
  saved,      \* the setting in the configuration file
  daemonIs,     \* "runs", "stopped" by this surface, or "gone"
  meant,      \* history: somebody chose that the daemon stops
  keys

lineVars == <<input, history, place, draft>>
leaveVars == <<onQuit, saved, daemonIs, meant>>
promptVars == <<host, promptUp, mode, lineVars, leaveVars, keys>>

PromptInit ==
  /\ host \in {"window", "terminal"} /\ promptUp = TRUE
  /\ mode \in IF host = "terminal" THEN {"Normal", "SkillOffer"} ELSE {"Normal"}
  /\ input = Empty /\ draft = Empty /\ place = NoPlace
  /\ history \in {<<>>} \cup {<<t>> : t \in Texts}
  /\ onQuit \in Setting /\ saved = onQuit /\ meant = (onQuit = "stop")
  /\ daemonIs \in {"runs", "gone"}
  /\ keys = 0

Key(modes) == promptUp /\ mode \in modes /\ keys < MaxKeys /\ keys' = keys + 1
Terminal(modes) == host = "terminal" /\ Key(modes)

-----------------------------------------------------------------------------
(* The line. *)

\* Characters and Backspace.  A text that is typed over a recalled one leaves
\* the place in the history as it is.
Type ==
  /\ Key(Typing)
  /\ input' \in (Texts \cup {Empty}) \ {input}
  /\ UNCHANGED <<host, promptUp, mode, history, place, draft, leaveVars>>

\* history_back, history_up
HistoryBack ==
  /\ Key({"Normal"}) /\ history # <<>>
  /\ draft' = IF place = NoPlace THEN input ELSE draft
  /\ place' = CASE place = NoPlace -> Len(history)
                [] place = 1 -> 1
                [] OTHER -> place - 1
  /\ input' = IF place = 1 /\ host = "window" THEN input ELSE history[place']
  /\ UNCHANGED <<host, promptUp, mode, history, leaveVars>>

\* history_forward, history_down; only a terminal empties the draft.
HistoryForward ==
  /\ Key({"Normal"}) /\ place # NoPlace
  /\ IF place < Len(history)
     THEN place' = place + 1 /\ input' = history[place'] /\ UNCHANGED draft
     ELSE /\ place' = NoPlace /\ input' = draft
          /\ draft' = IF host = "terminal" THEN Empty ELSE draft
  /\ UNCHANGED <<host, promptUp, mode, history, leaveVars>>

\* remember_sent: no entry twice in a row.
Entered(text) ==
  IF history # <<>> /\ Last(history) = text THEN history ELSE Append(history, text)

\* handle_enter and send_input.  A terminal remembers what was accepted; a window
\* remembers first, and its writer is not asked whether it worked.
SendLine ==
  /\ Key({"Normal"}) /\ input # Empty
  /\ Len(Entered(input)) <= MaxHistory
  /\ \E done \in BOOLEAN :
       /\ IF done \/ host = "window"
          THEN history' = Entered(input) /\ place' = NoPlace /\ draft' = Empty
          ELSE UNCHANGED <<history, place, draft>>
       /\ input' = IF done \/ host = "window" THEN Empty ELSE input
  /\ UNCHANGED <<host, promptUp, mode, leaveVars>>

-----------------------------------------------------------------------------
(* The modes of the terminal. *)

Enter(target, text) ==
  /\ mode' = target /\ input' = text
  /\ UNCHANGED <<host, promptUp, history, place, draft, leaveVars>>

\* Ctrl+S, Ctrl+R, Ctrl+E and Ctrl+F put their own text on the line.
OpenScreen ==
  /\ Terminal({"Normal"})
  /\ \/ \E target \in {"SendFile", "RecvFile"} : Enter(target, Empty)
     \/ \E path \in Paths : Enter("Export", path)
     \/ \E filter \in Texts \cup {Empty} : Enter("Filter", filter)

\* F1 to F7: the line keeps its text, also when they leave a screen that had put
\* its own there.
ChangePanel ==
  /\ Terminal(Typing \cup Panel \cup Question)
  /\ \E target \in (Panel \ {"Lines"}) \cup {"Flash"} :
       Enter(IF mode = target THEN "Normal" ELSE target, input)

\* F9 empties the line and shows the idle period of a daemon that answers.
ToggleDaemon ==
  /\ Terminal(Typing \cup Panel \cup Question)
  /\ IF mode = "Daemon" \/ daemonIs # "runs"
     THEN Enter(IF mode = "Daemon" THEN "Normal" ELSE "Daemon", Empty)
     ELSE \E period \in Paths : Enter("Daemon", period)

\* Enter in Filter, Export, SendFile and RecvFile; an export that fails stays.
Accept ==
  /\ Terminal({"Filter", "Export", "SendFile", "RecvFile"})
  /\ mode \in {"SendFile", "Export"} => input # Empty
  /\ \/ Enter("Normal", Empty)
     \/ mode = "Export" /\ Enter("Export", input)

\* Esc is the same for every mode: the walk through the history goes on where it
\* was.
Escape ==
  /\ Terminal(Typing \cup Panel \cup Question)
  /\ Enter("Normal", Empty)

\* Ctrl+G, a and b, Ctrl+X and the answers: what they do is in Display.
AskCapture ==
  \/ Terminal({"Normal"}) /\ \E target \in {"ClearCapture", "Lines"} : Enter(target, input)
  \/ Terminal({"Lines"}) /\ \E target \in {"DeleteLines", "Normal"} : Enter(target, input)
  \/ Terminal({"ClearCapture"}) /\ Enter("Normal", input)
  \/ Terminal({"DeleteLines"}) /\ \E target \in {"Lines", "Normal"} : Enter(target, input)

\* A macro that ran, settings that were asked for, the skill that was answered.
LeavePanel ==
  /\ Terminal({"Macros", "Configure", "SkillOffer"})
  /\ Enter("Normal", input)

-----------------------------------------------------------------------------
(* The daemon screen and the question on quit. *)

\* cycle_on_quit saves at once, when the file can be written.
CycleOnQuit ==
  /\ Terminal({"Daemon"})
  /\ onQuit' = CASE onQuit = "ask" -> "stop" [] onQuit = "stop" -> "keep" [] OTHER -> "ask"
  /\ saved' \in {saved, onQuit'}
  /\ meant' = (meant \/ onQuit' = "stop")
  /\ UNCHANGED <<host, promptUp, mode, lineVars, daemonIs>>

\* apply_idle and save_idle_default leave the screen as it is.
ApplyIdle ==
  /\ Terminal({"Daemon"}) /\ input # Empty
  /\ UNCHANGED <<host, promptUp, mode, lineVars, leaveVars>>

StopDaemon == daemonIs' = IF daemonIs = "runs" THEN "stopped" ELSE daemonIs

\* request_quit: nothing that does not answer is asked about.
RequestQuit ==
  /\ Terminal(Typing \cup Panel \cup (Question \ {"QuitDaemon"}))
  /\ CASE onQuit = "keep" -> promptUp' = FALSE /\ UNCHANGED <<mode, daemonIs>>
       [] onQuit = "stop" -> promptUp' = FALSE /\ StopDaemon /\ UNCHANGED mode
       [] OTHER -> /\ promptUp' = (daemonIs = "runs")
                   /\ mode' = IF daemonIs = "runs" THEN "QuitDaemon" ELSE mode
                   /\ UNCHANGED daemonIs
  /\ UNCHANGED <<host, lineVars, onQuit, saved, meant>>

\* y and n, remembered with a capital.  A second Ctrl+C only leaves.
FaultSecondQuit == StopDaemon
SecondQuit == UNCHANGED daemonIs

AnswerLeave ==
  /\ Terminal({"QuitDaemon"})
  /\ promptUp' = FALSE
  /\ \/ \E stop \in BOOLEAN, remember \in BOOLEAN :
          /\ IF stop THEN StopDaemon ELSE UNCHANGED daemonIs
          /\ meant' = (meant \/ stop)
          /\ onQuit' = CASE ~remember -> onQuit [] stop -> "stop" [] OTHER -> "keep"
          /\ saved' \in {saved, onQuit'}
     \/ SecondQuit /\ UNCHANGED <<onQuit, saved, meant>>
  /\ UNCHANGED <<host, mode, lineVars>>

\* Somebody else stops the daemon, or starts one.
DaemonChanges ==
  /\ promptUp /\ keys < MaxKeys /\ keys' = keys + 1
  /\ daemonIs' = IF daemonIs = "runs" THEN "gone" ELSE "runs"
  /\ UNCHANGED <<host, promptUp, mode, lineVars, onQuit, saved, meant>>

-----------------------------------------------------------------------------
PromptNext ==
  \/ Type \/ HistoryBack \/ HistoryForward \/ SendLine
  \/ OpenScreen \/ ChangePanel \/ ToggleDaemon \/ Accept \/ Escape \/ AskCapture \/ LeavePanel
  \/ CycleOnQuit \/ ApplyIdle \/ RequestQuit \/ AnswerLeave \/ DaemonChanges

PromptSpec == PromptInit /\ [][PromptNext]_promptVars

-----------------------------------------------------------------------------
(* Properties. *)

\* A terminal stops the daemon when it leaves only because somebody chose that:
\* no screen, no key pressed twice and no daemon that went away does.
TerminalStopsWhenMeant == daemonIs = "stopped" => meant

=============================================================================
