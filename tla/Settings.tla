------------------------------- MODULE Settings -------------------------------
(***************************************************************************)
(* The daemon settings of the configuration file: how a surface applies an *)
(* idle period and saves it or what quitting does, in the four steps of    *)
(* save_daemon_settings (src/config.rs), while other surfaces, a person    *)
(* with an editor, crashes and starts of the daemon come between, and the  *)
(* period as it is written (src/lifecycle.rs).                             *)
(*                                                                         *)
(* A process has one thread that saves, so a saver is a process.  A        *)
(* definition whose name begins with Fault is a wrong variant of the one   *)
(* that follows it.                                                        *)
(***************************************************************************)
EXTENDS Integers

CONSTANTS
  Saver,       \* processes with a daemon dialog or a daemon screen
  Typed,       \* periods typed: a number and what follows it
  MaxPeriod,   \* the seconds 64 bits hold
  MaxSaves,    \* bound: settings saved
  MaxEdits     \* bound: changes made with an editor

ASSUME SettingsAssumption ==
  /\ Typed \subseteq [number : Nat, unit : STRING]
  /\ MaxPeriod \in Nat /\ MaxSaves \in Nat /\ MaxEdits \in Nat

VARIABLES
  conf,        \* the configuration file: <<>>, or what it says, or Torn
  staging,     \* the file beside it, the same way
  idleNow,     \* idle period of the running daemon, or Down
  step,        \* of each saver: where it is in save_daemon_settings
  change,      \* of each saver: what it changes
  copy,        \* of each saver: the document it works on
  opened,      \* of each saver: the name of the file it writes to, or "nowhere"
  told,        \* history: what a surface last said it saved
  edits,       \* changes made with an editor, the last of which the file shows
  mixed,       \* history: two of them worked on the file at once
  saves        \* how many settings were saved

settingsVars ==
  <<conf, staging, idleNow, step, change, copy, opened, told, edits, mixed, saves>>

Missing == <<>>
Torn == <<"torn">>
Down == -1

-----------------------------------------------------------------------------
(* IdleTimeout: a period as it is typed, and as it is written. *)

Unit == [s |-> 1, m |-> 60, h |-> 3600]
Parses(t) ==
  \/ t = [number |-> 0, unit |-> ""]
  \/ t.unit \in DOMAIN Unit /\ t.number * Unit[t.unit] <= MaxPeriod
Seconds(t) == IF t.unit = "" THEN 0 ELSE t.number * Unit[t.unit]

As(seconds, unit) == [number |-> seconds \div Unit[unit], unit |-> unit]
FaultPrinted(n) == IF n = 0 THEN [number |-> 0, unit |-> ""]
                   ELSE IF n >= 3600 THEN As(n, "h")
                   ELSE IF n >= 60 THEN As(n, "m") ELSE As(n, "s")
Printed(n) == IF n = 0 THEN [number |-> 0, unit |-> ""]
              ELSE IF n % 3600 = 0 THEN As(n, "h")
              ELSE IF n % 60 = 0 THEN As(n, "m") ELSE As(n, "s")

-----------------------------------------------------------------------------
(* The file. *)

\* A document says an idle period, what quitting does, and everything else,
\* which is known by the number of the edit that wrote it.
\* What it does not say is the default: 15 minutes, and a question.
DefaultIdle == [number |-> 15, unit |-> "m"]
Document(idle, quit, rest) == <<idle, quit, rest>>
NewDocument == Document(DefaultIdle, "ask", 0)
IdleOf(document) == Seconds(document[1])
OnDisk == IF conf = Missing THEN NewDocument ELSE conf

SettingsInit ==
  /\ conf \in {Missing, Document([number |-> 2, unit |-> "h"], "keep", 0)} /\ staging \in {Missing, Torn}
  /\ idleNow \in {Down, IdleOf(OnDisk)}
  /\ step = [s \in Saver |-> "idle"] /\ change = [s \in Saver |-> Missing]
  /\ copy = [s \in Saver |-> Missing] /\ opened = [s \in Saver |-> "nowhere"]
  /\ told = OnDisk
  /\ edits = 0 /\ mixed = FALSE /\ saves = 0

-----------------------------------------------------------------------------
(* A surface. *)

Begin(s, key, value, said) ==
  /\ saves < MaxSaves /\ saves' = saves + 1
  /\ step' = [step EXCEPT ![s] = "asked"]
  /\ change' = [change EXCEPT ![s] = [key |-> key, value |-> value, said |-> said]]

\* apply_daemon_idle, apply_idle: "Apply now" on the running daemon.
ApplyNow(s, t) ==
  /\ step[s] = "idle" /\ Parses(t) /\ idleNow # Down /\ idleNow' = Seconds(t)
  /\ UNCHANGED <<conf, staging, step, change, copy, opened, told, edits, mixed, saves>>

\* apply_daemon_idle(true), save_idle_default: a window saves what it applied, a
\* terminal saves also when the daemon could not be reached.
SaveIdle(s, t, window) ==
  /\ step[s] = "idle" /\ Parses(t)
  /\ window => idleNow # Down
  /\ idleNow' = IF idleNow = Down THEN Down ELSE Seconds(t)
  /\ Begin(s, 1, Printed(Seconds(t)), t)
  /\ UNCHANGED <<conf, staging, copy, opened, told, edits, mixed>>

\* save_on_quit, and answer_quit with "remember".
SaveOnQuit(s, choice) ==
  /\ step[s] = "idle" /\ Begin(s, 2, choice, choice)
  /\ UNCHANGED <<conf, staging, idleNow, copy, opened, told, edits, mixed>>

-----------------------------------------------------------------------------
(* save_daemon_settings. *)

Busy == {s \in Saver : step[s] \in {"read", "opened", "written"}}
Ends(s) ==
  /\ step' = [step EXCEPT ![s] = "idle"] /\ opened' = [opened EXCEPT ![s] = "nowhere"]
  /\ copy' = [copy EXCEPT ![s] = Missing] /\ change' = [change EXCEPT ![s] = Missing]

\* Read, change the document, and check that it loads.
ReadDocument(s) ==
  /\ step[s] = "asked"
  /\ \/ /\ conf # Torn
        /\ copy' = [copy EXCEPT ![s] = [OnDisk EXCEPT ![change[s].key] = change[s].value]]
        /\ step' = [step EXCEPT ![s] = "read"] /\ mixed' = (mixed \/ Busy # {})
        /\ UNCHANGED <<change, opened>>
     \/ conf = Torn /\ Ends(s) /\ UNCHANGED mixed
  /\ UNCHANGED <<conf, staging, idleNow, told, edits, saves>>

\* std::fs::write creates or empties the file, and then writes it.
FaultStaged(s) == "conf"
Staged(s) == "staging"
OpenStaging(s) ==
  /\ step[s] = "read" /\ step' = [step EXCEPT ![s] = "opened"]
  /\ opened' = [opened EXCEPT ![s] = Staged(s)]
  /\ IF Staged(s) = "staging" THEN staging' = Torn /\ UNCHANGED conf
     ELSE conf' = Torn /\ UNCHANGED staging
  /\ UNCHANGED <<idleNow, change, copy, told, edits, mixed, saves>>

WriteDocument(s) ==
  /\ step[s] = "opened" /\ step' = [step EXCEPT ![s] = "written"]
  /\ staging' = IF opened[s] = "staging" THEN copy[s] ELSE staging
  /\ conf' = IF opened[s] = "conf" THEN copy[s] ELSE conf
  /\ UNCHANGED <<idleNow, change, copy, opened, told, edits, mixed, saves>>

\* The file keeps its writers when it gets another name, and loses its name when
\* another one is given it.
Renamed == [s \in Saver |-> IF opened[s] = "staging" THEN "conf" ELSE "nowhere"]
Rename(s) ==
  /\ step[s] = "written"
  /\ IF staging = Missing
     THEN UNCHANGED <<conf, staging, told>> /\ Ends(s)
     ELSE /\ conf' = staging /\ staging' = Missing /\ told' = [told EXCEPT ![change[s].key] = change[s].said]
          /\ opened' = [Renamed EXCEPT ![s] = "nowhere"]
          /\ step' = [step EXCEPT ![s] = "idle"] /\ copy' = [copy EXCEPT ![s] = Missing]
          /\ change' = [change EXCEPT ![s] = Missing]
  /\ UNCHANGED <<idleNow, edits, mixed, saves>>

\* The disk is full, or the process dies: at any step, whatever it was doing.
SaveFails(s) ==
  /\ step[s] # "idle" /\ Ends(s)
  /\ UNCHANGED <<conf, staging, idleNow, told, edits, mixed, saves>>

-----------------------------------------------------------------------------
(* Beside the surfaces. *)

\* A person writes the file with an editor, all of it at once.
EditFile ==
  /\ edits < MaxEdits /\ edits' = edits + 1 /\ conf # Torn
  /\ conf' = [OnDisk EXCEPT ![3] = edits + 1]
  /\ mixed' = (mixed \/ Busy # {})
  /\ opened' = [s \in Saver |-> IF opened[s] = "conf" THEN "nowhere" ELSE opened[s]]
  /\ UNCHANGED <<staging, idleNow, step, change, copy, told, saves>>

\* A daemon takes the period of the file, and does not start on a torn one.
DaemonStarts ==
  /\ idleNow = Down /\ conf # Torn /\ idleNow' = IdleOf(OnDisk)
  /\ UNCHANGED <<conf, staging, step, change, copy, opened, told, edits, mixed, saves>>
DaemonStops ==
  /\ idleNow # Down /\ idleNow' = Down
  /\ UNCHANGED <<conf, staging, step, change, copy, opened, told, edits, mixed, saves>>

SettingsNext ==
  \/ \E s \in Saver, t \in Typed : ApplyNow(s, t) \/ \E window \in BOOLEAN : SaveIdle(s, t, window)
  \/ \E s \in Saver, choice \in {"ask", "stop", "keep"} : SaveOnQuit(s, choice)
  \/ \E s \in Saver : \/ ReadDocument(s) \/ OpenStaging(s) \/ WriteDocument(s)
                      \/ Rename(s) \/ SaveFails(s)
  \/ EditFile \/ DaemonStarts \/ DaemonStops

SettingsSpec == SettingsInit /\ [][SettingsNext]_settingsVars

-----------------------------------------------------------------------------
(* Properties. *)

\* The file a daemon starts from is whole at every moment, says what a surface
\* last said it saved, the period as it was typed, and keeps everything else as
\* the person last wrote it, whatever fails or dies in the middle of a save.
\* Excused is a file that two worked on at once: the last one to rename wins, and
\* two surfaces share one staging file (save_daemon_settings, IdleTimeout).
SettingsSaved ==
  ~mixed =>
    /\ conf # Torn
    /\ OnDisk[2] = told[2] /\ IdleOf(OnDisk) = IdleOf(told) /\ OnDisk[3] = edits

=============================================================================
