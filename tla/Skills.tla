-------------------------------- MODULE Skills --------------------------------
(***************************************************************************)
(* The agent skill: a text devserial installs for the AI tools of a        *)
(* machine, which a window, a terminal and the command line offer, decline *)
(* and remove, and every long-running process brings up to date            *)
(* (src/agent_skill.rs, skill_control of src/cli/handlers.rs,              *)
(* answer_skill_offer of src/monitor.rs and src/tui.rs).                   *)
(*                                                                         *)
(* What is at a place, and who decided what, is kept by the crate          *)
(* agent_skill_installer and by the file of consent, which all processes   *)
(* share; the crate is modelled from how it is used.  A place the person   *)
(* or another program works on between two steps of the crate is one where *)
(* the crate fails.  A definition whose name begins with Fault is a wrong  *)
(* variant of the one that follows it.                                     *)
(***************************************************************************)
EXTENDS Integers

CONSTANTS
  Place,       \* skills folders of tools that are or may be installed
  MaxEvents    \* bound: things that happen outside devserial

\* What is at a place: no tool, no copy, a copy of devserial's of this build or
\* an older one, one of a newer build, one changed by hand, something else.
Contents == {"no tool", "absent", "older", "current", "newer", "modified", "foreign"}
Surfaces == {"window", "terminal", "command"}

VARIABLES
  found,      \* what is at each place
  declined,   \* places a person does not want
  asking,     \* surfaces with a question on the screen
  offered,    \* the places each question names
  yes,        \* history: places a person agreed to, or once had agreed to
  late,       \* history: places first offered while a question was on a screen
  own,        \* history: places where something a person made is
  events      \* how many things happened outside

skillsVars == <<found, declined, asking, offered, yes, late, own, events>>

SkillsInit ==
  /\ found \in [Place -> Contents \ {"current"}]
  /\ declined \in SUBSET {p \in Place : found[p] = "absent"}
  /\ asking = {} /\ offered = [s \in Surfaces |-> {}]
  /\ yes = {p \in Place : found[p] = "older"} /\ late = {}
  /\ own = {p \in Place : found[p] \in {"modified", "foreign"}} /\ events = 0

-----------------------------------------------------------------------------
(* What the crate says and does. *)

Undecided == {p \in Place : found[p] = "absent" /\ p \notin declined}   \* offer, awaiting_approval
Installable == {p \in Place : found[p] = "absent"}                     \* with those declined earlier
Outdated == {p \in Place : found[p] = "older"}
Removable == {p \in Place : found[p] \in {"older", "current"}}

\* Every place of a set is written or fails.
Install(places) ==
  \E done \in SUBSET places :
    found' = [p \in Place |-> IF p \in done THEN "current" ELSE found[p]]

Pose(s, places) ==
  /\ asking' = asking \cup {s} /\ offered' = [offered EXCEPT ![s] = places]
Gone(s) == asking' = asking \ {s} /\ offered' = [offered EXCEPT ![s] = {}]
\* A person says yes to the places a question names; those it does not name and
\* that are decided with it came up later.
Agreed(s, places) ==
  /\ yes' = yes \cup offered[s] /\ late' = late \cup (places \ offered[s])

-----------------------------------------------------------------------------
(* A window and a terminal. *)

\* Offer::for_this_user, when a surface starts.
OfferSkill(s) ==
  /\ s \in {"window", "terminal"} \ asking /\ Undecided # {}
  /\ Pose(s, Undecided)
  /\ UNCHANGED <<found, declined, yes, late, own, events>>

\* Answering asks the crate again, so it acts on the machine as it is then.
FaultStillOffered(s) == offered[s]
StillOffered(s) == Undecided

AcceptOffer(s) ==
  /\ s \in asking \ {"command"}
  /\ Install(StillOffered(s)) /\ Agreed(s, StillOffered(s)) /\ Gone(s)
  /\ UNCHANGED <<declined, own, events>>

\* The answer is saved, or the surface says that it is not.
DeclineOffer(s) ==
  /\ s \in asking \ {"command"}
  /\ \/ /\ declined' = declined \cup StillOffered(s)
        /\ yes' = yes \ StillOffered(s) /\ late' = late \ StillOffered(s)
     \/ UNCHANGED <<declined, yes, late>>
  /\ Gone(s) /\ UNCHANGED <<found, own, events>>

\* Later, Esc and a function key decide nothing.
LeaveOffer(s) ==
  /\ s \in asking \ {"command"} /\ Gone(s)
  /\ UNCHANGED <<found, declined, yes, late, own, events>>

-----------------------------------------------------------------------------
(* The command line, and every process that runs for a while. *)

\* skill_install names the places and asks; without a place it does not.
AskInstall ==
  /\ "command" \notin asking /\ Installable # {} /\ Pose("command", Installable)
  /\ UNCHANGED <<found, declined, yes, late, own, events>>

\* install_everywhere, after a yes, with --yes, or with nothing to ask about:
\* also what was declined, and copies of older builds.
InstallEverywhere ==
  /\ Install(Installable \cup Outdated) /\ Gone("command")
  /\ IF "command" \in asking THEN Agreed("command", Installable)
     ELSE yes' = yes \cup Installable /\ UNCHANGED late
  /\ declined' = declined \ Installable
  /\ UNCHANGED <<own, events>>

RefuseInstall ==
  /\ "command" \in asking /\ Gone("command")
  /\ UNCHANGED <<found, declined, yes, late, own, events>>

DeclineByCommand ==
  /\ declined' = declined \cup Undecided /\ yes' = yes \ Undecided /\ late' = late \ Undecided
  /\ UNCHANGED <<found, asking, offered, own, events>>

\* A place from which a copy was taken is offered again, or it is not.
RemoveCopies ==
  /\ Removable # {}
  /\ \E done \in SUBSET Removable, kept \in BOOLEAN :
       /\ found' = [p \in Place |-> IF p \in done THEN "absent" ELSE found[p]]
       /\ declined' = IF kept THEN declined \cup done ELSE declined
       /\ yes' = yes \ done /\ late' = late \ done
  /\ UNCHANGED <<asking, offered, own, events>>

\* update_in_background, of any process: copies nobody changed.
FaultUpdated == {p \in Place : found[p] \in {"older", "modified"}}
Updated == Outdated
UpdateInBackground ==
  /\ Updated # {} /\ Install(Updated)
  /\ UNCHANGED <<declined, asking, offered, yes, late, own, events>>

-----------------------------------------------------------------------------
(* What happens outside. *)

Event(p, from, to) ==
  /\ events < MaxEvents /\ events' = events + 1
  /\ found[p] \in from /\ found' = [found EXCEPT ![p] = to]
  /\ UNCHANGED <<declined, asking, offered>>
Made(p) == own' = own \cup {p} /\ UNCHANGED <<yes, late>>

ToolInstalled(p) == Event(p, {"no tool"}, "absent") /\ UNCHANGED <<own, yes, late>>
SkillEdited(p) == Event(p, {"older", "current", "newer"}, "modified") /\ Made(p)
SomethingElsePut(p) == Event(p, {"absent"}, "foreign") /\ Made(p)
TakenAway(p) ==
  /\ Event(p, Contents \ {"no tool", "absent"}, "absent")
  /\ own' = own \ {p} /\ yes' = yes \ {p} /\ late' = late \ {p}

\* Another build is started from now on.
NewBuild ==
  /\ events < MaxEvents /\ events' = events + 1
  /\ found' = [p \in Place |-> IF found[p] = "current" THEN "older" ELSE found[p]]
  /\ UNCHANGED <<declined, asking, offered, yes, late, own>>

SkillsNext ==
  \/ \E s \in Surfaces : OfferSkill(s) \/ AcceptOffer(s) \/ DeclineOffer(s) \/ LeaveOffer(s)
  \/ AskInstall \/ InstallEverywhere \/ RefuseInstall \/ DeclineByCommand \/ RemoveCopies
  \/ UpdateInBackground \/ NewBuild
  \/ \E p \in Place : ToolInstalled(p) \/ SkillEdited(p) \/ SomethingElsePut(p) \/ TakenAway(p)

SkillsSpec == SkillsInit /\ [][SkillsNext]_skillsVars

-----------------------------------------------------------------------------
(* Properties. *)

\* A copy stands only where a person agreed to one, whichever surface asked and
\* whatever was decided on another while its question stood, and what a person
\* made is never replaced.  Excused is a place that came up while a question was
\* on the screen: the answer decides it too (Offer::accept, skill_install).
SkillsAgreed ==
  /\ \A p \in Place : found[p] \in {"older", "current"} => p \in (yes \ declined) \cup late
  /\ \A p \in own : found[p] \in {"modified", "foreign"}

=============================================================================
