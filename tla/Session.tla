------------------------------- MODULE Session -------------------------------
(***************************************************************************)
(* A window or a terminal on a port the daemon holds: connect and          *)
(* disconnect, the settings dialog, DTR, RTS and macros, the link state a  *)
(* poller publishes, and espflash run with the port released               *)
(* (src/monitor.rs, src/tui.rs, src/standalone.rs).                        *)
(*                                                                         *)
(* The surface is one thread; a request to the daemon blocks it and is one *)
(* step.  The tool, the poller and the other clients of the daemon go on   *)
(* meanwhile, also between two steps of one frame.  The daemon may refuse  *)
(* any request, for a device that is busy or gone, and its answer may be   *)
(* lost or come too late, which the surface cannot tell from a refusal.    *)
(***************************************************************************)
EXTENDS Integers, Sequences, SequencesExt

CONSTANTS
  Settings,    \* line settings of the port, as a whole
  KeptLines,   \* MAX_FLASH_LOG_LINES
  MaxPrinted,  \* bound: lines a run of the tool prints
  MaxUses,     \* bound: what the person does
  MaxOthers    \* bound: what other clients and the device do

ASSUME SessionAssumption ==
  /\ Settings # {} /\ KeptLines \in Nat
  /\ MaxPrinted \in Nat /\ MaxUses \in Nat /\ MaxOthers \in Nat

Level == {"low", "high"}
Nothing == "nothing"    \* no lines printed, no outcome, no level known

VARIABLES
  surface,     \* "window" or "terminal"
  open,        \* the surface is there
  connected,   \* its flag: it holds the port through the daemon
  settings,    \* its live settings, which the dialog edits
  editing,     \* the settings dialog or screen is shown
  line,        \* what it knows of DTR; RTS is the same
  panel,       \* the flash dialog or screen is shown
  eraseArmed,       \* Erase was pressed once
  running,     \* it has a run it has not finished
  frame,       \* where poll_flash is: "idle", "drained", "answered"
  log,         \* flash_log
  outcome,     \* what it says of the last run
  tool,        \* the task of the run: "none", "runs", "sends", "ended", "killed"
  channel,       \* the channel of its lines
  result,      \* the oneshot of its result
  printed,     \* history: lines the run printed
  returned,    \* history: what the surface asked of the port when the run ended
  held, pin,   \* the daemon holds the port; the level of its DTR
  unheard,     \* requests the surface no longer waits for and the daemon has not done;
               \* bound: one to open the port and one to close it
  deviceLink,  \* the state of the device as the daemon has it
  shown,       \* the watch: what the surface was last told of it
  poller,      \* where the poller is, or the answer it has got
  doubt,       \* history: somebody else changed the port, or a request of the
               \* surface may have, since it was last answered that one was done
  uses, others

flashVars == <<panel, eraseArmed, running, frame, log, outcome, tool, channel, result, printed, returned>>
heldVars == <<held, pin, unheard, deviceLink, doubt>>
pollVars == <<shown, poller>>
knownVars == <<connected, settings, editing, line>>
sessionVars == <<surface, open, knownVars, flashVars, heldVars, pollVars, uses, others>>

Link == {"up", "down"}

\* attach_session: the port is held already, or is opened with the settings.
SessionInit ==
  /\ surface \in {"window", "terminal"} /\ open = TRUE
  /\ connected = TRUE /\ held = TRUE
  /\ settings \in Settings /\ editing = FALSE
  /\ line = Nothing /\ pin \in Level
  /\ panel = FALSE /\ eraseArmed = FALSE /\ running = FALSE /\ frame = "idle"
  /\ log = <<>> /\ outcome = Nothing
  /\ tool = "none" /\ channel = <<>> /\ result = Nothing
  /\ printed = <<>> /\ returned = Nothing
  /\ deviceLink \in Link /\ shown = deviceLink /\ poller = "waits"
  /\ unheard = {} /\ doubt = FALSE /\ uses = 0 /\ others = 0

-----------------------------------------------------------------------------
(* The person at the surface.  A terminal shows one screen at a time.      *)

Uses == open /\ frame = "idle" /\ uses < MaxUses /\ uses' = uses + 1

\* OpenPort or ClosePort at the daemon.  An open of a port that is held sets its
\* lines and settings, a close needs one.
Opens == held' = TRUE /\ pin' \in Level
Closes == held /\ held' = FALSE /\ UNCHANGED pin
CarriesOut(wanted) == IF wanted THEN Opens ELSE Closes

\* What a request comes to.  The surface has an error after all but the first.
Verdict == {"done", "refused", "lost", "late"}

\* toggle_connection: the flag moves only when the daemon answered.
FaultFlagFirst(wanted, done) ==
  /\ connected' = wanted
  /\ line' = IF done THEN Nothing ELSE line
FlagFollows(wanted, done) ==
  /\ connected' = IF done THEN wanted ELSE connected
  /\ line' = IF done THEN Nothing ELSE line

Ask(wanted, answer) ==
  /\ \/ answer \in {"done", "lost"} /\ CarriesOut(wanted) /\ UNCHANGED unheard
     \/ answer = "refused" /\ UNCHANGED <<held, pin, unheard>>
     \/ answer = "late" /\ unheard' = unheard \cup {wanted} /\ UNCHANGED <<held, pin>>
  /\ doubt' = IF answer = "done" THEN unheard # {} ELSE doubt \/ answer # "refused"
  /\ FlagFollows(wanted, answer = "done")
  /\ UNCHANGED <<settings, deviceLink>>

\* Disconnect and Connect, Cmd+K and Ctrl+K.
Toggle ==
  /\ Uses
  /\ \E answer \in Verdict : Ask(~connected, answer)
  /\ UNCHANGED <<surface, open, editing, flashVars, pollVars, others>>

\* The settings are edited in place; closing the dialog restores nothing.
OpenSettings ==
  /\ Uses /\ ~editing
  /\ editing' = TRUE
  /\ panel' = (panel /\ surface = "window")
  /\ UNCHANGED <<surface, open, connected, settings, line, eraseArmed, running, frame, log,
                 outcome, tool, channel, result, printed, returned, heldVars, pollVars, others>>

EditSettings ==
  /\ Uses /\ editing
  /\ settings' \in Settings
  /\ UNCHANGED <<surface, open, connected, editing, line, flashVars, heldVars, pollVars,
                 others>>

CancelSettings ==
  /\ Uses /\ editing
  /\ editing' = FALSE
  /\ UNCHANGED <<surface, open, connected, settings, line, flashVars, heldVars, pollVars,
                 others>>

\* apply_reconfiguration: a window keeps its dialog when the daemon refused.
ApplySettings ==
  /\ Uses /\ editing
  /\ \E done \in IF held THEN BOOLEAN ELSE {FALSE} :
       /\ editing' = (surface = "window" /\ ~done)
  /\ UNCHANGED <<surface, open, connected, settings, line, flashVars, heldVars, pollVars, others>>

\* SignalLine::after_click
AfterClick == IF line = "high" THEN "low" ELSE "high"

\* A window shows the level before it asks for it and keeps it when refused.  An
\* error may hide that the line was set.
SetSignal ==
  /\ Uses
  /\ \E done \in IF held THEN BOOLEAN ELSE {FALSE} :
       /\ pin' \in IF done THEN {AfterClick} ELSE IF held THEN {pin, AfterClick} ELSE {pin}
       /\ line' = IF done \/ surface = "window" THEN AfterClick ELSE line
  /\ UNCHANGED <<surface, open, connected, settings, editing, flashVars, held, unheard, deviceLink,
                 doubt, pollVars, others>>

\* A macro drives the lines, as far as it gets.
RunMacro ==
  /\ Uses
  /\ \E done \in IF held THEN BOOLEAN ELSE {FALSE} :
       line' = IF done \/ surface = "window" THEN Nothing ELSE line
  /\ pin' \in IF held THEN Level ELSE {pin}
  /\ UNCHANGED <<surface, open, connected, settings, editing, flashVars, held, unheard, deviceLink,
                 doubt, pollVars, others>>

-----------------------------------------------------------------------------
(* Flashing. *)

\* The toolbar shows or hides the window's dialog; F6 and Esc the screen.
\* Hidden by its own cross the dialog comes back while a run is in flight.
TogglePanel ==
  /\ Uses
  /\ panel' = ~panel
  /\ editing' = (editing /\ surface = "window")
  /\ eraseArmed' = (eraseArmed /\ panel')
  /\ UNCHANGED <<surface, open, connected, settings, line, running, frame, log, outcome,
                 tool, channel, result, printed, returned, heldVars, pollVars, others>>

\* Erasing takes two presses.
ArmErase ==
  /\ Uses /\ panel /\ surface = "window" /\ ~running /\ ~eraseArmed
  /\ eraseArmed' = TRUE
  /\ UNCHANGED <<surface, open, knownVars, panel, running, frame, log, outcome, tool, channel,
                 result, printed, returned, heldVars, pollVars, others>>

\* Nothing starts while the port cannot be released; a request that names no
\* image is refused before that and changes nothing but a message.
StartFlash ==
  /\ Uses /\ panel /\ ~running
  /\ \E answer \in Verdict :
       /\ IF connected THEN Ask(FALSE, answer)
          ELSE answer = "done" /\ UNCHANGED <<connected, settings, line, heldVars>>
       /\ IF answer = "done"
          THEN /\ running' = TRUE /\ tool' = "runs"
               /\ log' = <<>> /\ outcome' = Nothing /\ eraseArmed' = FALSE
               /\ channel' = <<>> /\ result' = Nothing /\ printed' = <<>> /\ returned' = Nothing
          ELSE UNCHANGED <<running, tool, log, eraseArmed, channel, result, printed, returned>>
               /\ outcome' = "refused"
  /\ UNCHANGED <<surface, open, editing, panel, frame, pollVars, others>>

ToolPrints ==
  /\ tool = "runs" /\ Len(printed) < MaxPrinted
  /\ printed' = Append(printed, Len(printed) + 1)
  /\ channel' = Append(channel, Len(printed) + 1)
  /\ UNCHANGED <<surface, open, knownVars, panel, eraseArmed, running, frame, log, outcome, tool,
                 result, returned, heldVars, pollVars, uses, others>>

\* The task sends what the tool came to after its last line.
ToolEnds ==
  /\ tool = "runs" /\ tool' = "ended"
  /\ result' \in {"finished", "failed"}
  /\ UNCHANGED <<surface, open, knownVars, panel, eraseArmed, running, frame, log, outcome, channel,
                 printed, returned, heldVars, pollVars, uses, others>>

Kept(s) == IF Len(s) <= KeptLines THEN s ELSE SubSeq(s, Len(s) - KeptLines + 1, Len(s))

\* One frame: drain the lines, look for the result, drain again, reconnect.
\* A window polls where it draws its dialog, a terminal on every turn.
Polls == open /\ running /\ (surface = "window" => panel)

PollDrain ==
  /\ Polls /\ frame = "idle"
  /\ channel # <<>> \/ result # Nothing
  /\ log' = IF surface = "window" THEN Kept(log \o channel) ELSE log \o channel
  /\ channel' = <<>>
  /\ frame' = "drained"
  /\ UNCHANGED <<surface, open, knownVars, panel, eraseArmed, running, outcome, tool, result, printed,
                 returned, heldVars, pollVars, uses, others>>

PollResult ==
  /\ frame = "drained"
  /\ frame' = IF result = Nothing THEN "idle" ELSE "answered"
  /\ log' = IF result = Nothing THEN Kept(log) ELSE log
  /\ UNCHANGED <<surface, open, knownVars, panel, eraseArmed, running, outcome, tool, channel, result,
                 printed, returned, heldVars, pollVars, uses, others>>

FaultLastLines == log
LastLines == IF surface = "window" THEN log \o channel ELSE Kept(log \o channel)

\* Behind the lines of a run that failed stand an empty one and the error.
Complaint == <<0, 0>>

\* A window asks for the port again; a terminal toggles.
Wanted == surface = "window" \/ ~connected

FinishFlash ==
  /\ frame = "answered"
  /\ log' = IF result = "failed" THEN LastLines \o Complaint ELSE LastLines
  /\ channel' = <<>> /\ result' = Nothing
  /\ running' = FALSE /\ tool' = "none" /\ frame' = "idle"
  /\ returned' = IF Wanted THEN "asked back" ELSE "released"
  /\ \E answer \in Verdict :
       /\ Ask(Wanted, answer)
       /\ outcome' = IF answer = "done" \/ surface = "terminal" THEN result ELSE "not back"
  /\ UNCHANGED <<surface, open, editing, panel, eraseArmed, printed, pollVars, uses, others>>

\* The surface is closed: its runtime goes, and the task with it.
CloseSurface ==
  /\ Uses
  /\ open' = FALSE
  /\ tool' = IF tool = "runs" THEN "killed" ELSE tool
  /\ UNCHANGED <<surface, knownVars, panel, eraseArmed, running, frame, log, outcome, channel, result,
                 printed, returned, heldVars, pollVars, others>>

-----------------------------------------------------------------------------
(* spawn_link_poller: a failed request leaves what is shown as it is.      *)

AskStatus ==
  /\ open /\ poller = "waits"
  /\ poller' = "asks"
  /\ UNCHANGED <<surface, open, knownVars, flashVars, heldVars, shown, uses, others>>

StatusAnswered ==
  /\ poller = "asks"
  /\ poller' = IF held THEN deviceLink ELSE "failed"
  /\ UNCHANGED <<surface, open, knownVars, flashVars, heldVars, shown, uses, others>>

FaultAfter(answer) == IF answer = "failed" THEN "ended" ELSE "waits"
After(answer) == "waits"

PublishStatus ==
  /\ open /\ poller \in Link \cup {"failed"}
  /\ shown' = IF poller = "failed" THEN shown ELSE poller
  /\ poller' = After(poller)
  /\ UNCHANGED <<surface, open, knownVars, flashVars, heldVars, uses, others>>

\* The daemon comes to a request nobody waits for any more.
LateRequest ==
  /\ \E wanted \in unheard :
       /\ unheard' = unheard \ {wanted}
       /\ CarriesOut(wanted) \/ UNCHANGED <<held, pin>>
  /\ UNCHANGED <<surface, open, knownVars, flashVars, deviceLink, doubt, pollVars, uses, others>>

\* Other clients open, close and set the port or end the daemon, and the device
\* comes and goes.
Others ==
  /\ others < MaxOthers /\ others' = others + 1
  /\ \/ held' = ~held /\ pin' \in Level /\ doubt' = TRUE /\ UNCHANGED deviceLink
     \/ deviceLink' \in Link /\ UNCHANGED <<held, pin, doubt>>
  /\ UNCHANGED <<surface, open, knownVars, flashVars, unheard, pollVars, uses>>

-----------------------------------------------------------------------------
Person ==
  \/ Toggle \/ OpenSettings \/ EditSettings \/ CancelSettings \/ ApplySettings
  \/ SetSignal \/ RunMacro \/ TogglePanel \/ ArmErase \/ StartFlash \/ CloseSurface
Tool == ToolPrints \/ ToolEnds
Poll == PollDrain \/ PollResult \/ FinishFlash
StatusPoll == AskStatus \/ StatusAnswered \/ PublishStatus

SessionNext == Person \/ Tool \/ Poll \/ StatusPoll \/ LateRequest \/ Others

\* Frames are drawn, the tool ends and the poller ticks; a person and other
\* clients do what they like.
SessionFairness ==
  /\ WF_sessionVars(Poll) /\ WF_sessionVars(ToolEnds) /\ WF_sessionVars(StatusPoll)

SessionSpec == SessionInit /\ [][SessionNext]_sessionVars /\ SessionFairness

-----------------------------------------------------------------------------
(* Properties. *)

\* The flash log under an outcome ends with the last lines the tool printed,
\* although they and the result come by two channels; after a failure, with those
\* and the error.  "Not back" is said of either.
LogEnds(lines) == IsSuffix(lines, log)
FlashTold ==
  /\ outcome = "finished" => LogEnds(Kept(printed))
  /\ outcome = "failed" => LogEnds(Kept(printed) \o Complaint)
  /\ outcome = "not back" => LogEnds(Kept(printed)) \/ LogEnds(Kept(printed) \o Complaint)

\* A surface knows whether the daemon holds the port, whatever was refused,
\* flashed or closed, since a request of its own was last answered with a yes and
\* none was left to the daemon: nobody else opened or closed the port since, and
\* no answer was lost or late.  After those its flag may be wrong, although it
\* tells the person that the port did not change hands.
FlagTrue == open /\ ~doubt => connected = held

\* What a surface shows of the device becomes what the daemon knows of it.
LinkSettles == []<>(shown = deviceLink \/ ~held \/ ~open)

-----------------------------------------------------------------------------
(* What a comment says and the code does not keep to. *)

\* "A run in flight keeps the window, otherwise closing it would orphan a
\* released port with nothing left to reconnect it": when the tool has ended the
\* window asks for the port again.
FlashPortReturns == (tool = "ended" /\ open) ~> (tool # "ended" \/ ~open)

=============================================================================
