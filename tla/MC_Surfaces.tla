---------------------------- MODULE MC_Surfaces ----------------------------
(***************************************************************************)
(* What a person has before them: the session of a window or a terminal,   *)
(* its lines, the keys of a terminal, the panel of the HTTP interface, the *)
(* windows of one process, the processes that show windows, the offer of   *)
(* the agent skill and the saved settings.  They share no state, so a      *)
(* behaviour is one of them, and the parts that do not move start in one   *)
(* state.                                                                  *)
(***************************************************************************)
EXTENDS Session, Display, Prompt, RestPanel, Desktop, Windows, Skills, Settings

VARIABLE part

Periods == {[number |-> n, unit |-> u] : n \in {0, 90}, u \in {"", "s", "m", "h", "d"}}


allVars == <<sessionVars, displayVars, promptVars, restPanelVars, desktopVars, windowsVars,
             skillsVars, settingsVars>>

SurfacesInit ==
  /\ part \in {"session", "display", "prompt", "panel", "desktop", "windows",
               "skills", "settings"}
  /\ SessionInit /\ (part # "session" =>
       /\ surface = "window" /\ pin = "low"
       /\ deviceLink = CHOOSE l \in Link : TRUE
       /\ settings = CHOOSE s \in Settings : TRUE)
  /\ DisplayInit /\ (part # "display" =>
       viewer = "window" /\ rows = {} /\ content = [i \in Id |-> CHOOSE t \in LineTexts : TRUE])
  /\ PromptInit /\ (part # "prompt" =>
       host = "window" /\ history = <<>> /\ onQuit = "stop" /\ daemonIs = "runs")
  /\ RestPanelInit /\ (part # "panel" => side = "window" /\ ~listener.listening)
  /\ DesktopInit /\ (part # "desktop" => connecting /\ setting = "stop")
  /\ WindowsInit /\ (part # "windows" => wanted = [p \in Process |-> CHOOSE d \in Devices : TRUE])
  /\ SkillsInit /\ (part # "skills" => found = [p \in Place |-> "no tool"])
  /\ SettingsInit /\ (part # "settings" => conf = Missing /\ staging = Missing /\ idleNow = Down)

SurfacesNext ==
  \/ part = "session" /\ SessionNext
     /\ UNCHANGED <<part, displayVars, promptVars, restPanelVars, desktopVars, windowsVars,
                    skillsVars, settingsVars>>
  \/ part = "display" /\ DisplayNext
     /\ UNCHANGED <<part, sessionVars, promptVars, restPanelVars, desktopVars, windowsVars,
                    skillsVars, settingsVars>>
  \/ part = "prompt" /\ PromptNext
     /\ UNCHANGED <<part, sessionVars, displayVars, restPanelVars, desktopVars, windowsVars,
                    skillsVars, settingsVars>>
  \/ part = "panel" /\ RestPanelNext
     /\ UNCHANGED <<part, sessionVars, displayVars, promptVars, desktopVars, windowsVars,
                    skillsVars, settingsVars>>
  \/ part = "desktop" /\ DesktopNext
     /\ UNCHANGED <<part, sessionVars, displayVars, promptVars, restPanelVars, windowsVars,
                    skillsVars, settingsVars>>
  \/ part = "windows" /\ WindowsNext
     /\ UNCHANGED <<part, sessionVars, displayVars, promptVars, restPanelVars, desktopVars,
                    skillsVars, settingsVars>>
  \/ part = "skills" /\ SkillsNext
     /\ UNCHANGED <<part, sessionVars, displayVars, promptVars, restPanelVars, desktopVars,
                    windowsVars, settingsVars>>
  \/ part = "settings" /\ SettingsNext
     /\ UNCHANGED <<part, sessionVars, displayVars, promptVars, restPanelVars, desktopVars,
                    windowsVars, skillsVars>>

SurfacesSpec == SurfacesInit /\ [][SurfacesNext]_<<part, allVars>>

-----------------------------------------------------------------------------
\* No port has two windows within a process, and an MCP server can close every
\* window process it has started, overlapping requests for one port excepted
\* (monitor.rs, server.rs).
WindowsAccounted == OneWindowPerPort /\ NothingOrphaned

\* What a person answered or saved is what happens: a surface that ends asks before
\* and stops the daemon, with every capture it runs, only when that was chosen, a
\* copy of the skill stands only where somebody agreed, and the file says what was
\* saved (begin_quit, answer_quit, request_quit, Offer::accept,
\* save_daemon_settings).
Answered == TerminalStopsWhenMeant /\ SkillsAgreed /\ SettingsSaved
AnswersHold == Answered /\ [][QuitAsked /\ StopMeant /\ Answered']_<<part, allVars>>
=============================================================================
