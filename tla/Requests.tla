------------------------------ MODULE Requests ------------------------------
(***************************************************************************)
(* What the exchange promises to whoever sends a request, however many     *)
(* daemons come, stop and die in between (src/ipc.rs): it takes effect     *)
(* once or not at all, and what the sender is told is the last word.  An   *)
(* answer comes after the effect, a refusal instead of it, and once a      *)
(* connection was cut nothing more happens.  Only a sender that lost its   *)
(* patience has to reckon with an effect that is still to come.            *)
(***************************************************************************)
EXTENDS Integers

CONSTANTS Client   \* processes that ask for one thing each

VARIABLES
  effects,  \* how often the request of each client took effect
  told      \* how it ended for the client

requestVars == <<effects, told>>

Init == effects = [c \in Client |-> 0] /\ told = [c \in Client |-> "none"]

Tell(c, end) ==
  /\ told[c] = "none" /\ told' = [told EXCEPT ![c] = end]
  /\ UNCHANGED effects

Act(c) ==
  /\ effects[c] = 0 /\ told[c] \in {"none", "timeout"}
  /\ effects' = [effects EXCEPT ![c] = 1]
  /\ UNCHANGED told

Answer(c) == effects[c] = 1 /\ Tell(c, "ok")
Refuse(c) == effects[c] = 0 /\ Tell(c, "refused")

\* The client cannot know whether it was done, and is not told that it was not.
Doubt(c) == \E end \in {"cut", "timeout"} : Tell(c, end)

Next == \E c \in Client : Act(c) \/ Answer(c) \/ Refuse(c) \/ Doubt(c)

Spec == Init /\ [][Next]_requestVars
=============================================================================
