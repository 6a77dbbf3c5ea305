-------------------------------- MODULE Feeds --------------------------------
(***************************************************************************)
(* What the event streams promise to those who follow them (src/rest.rs):  *)
(* each line of a source once and in order, whatever breaks and is resumed *)
(* in between, nothing passed over but what the source has dropped, and    *)
(* the outcome once, behind the last line.  A line is its number.          *)
(***************************************************************************)
EXTENDS Integers

CONSTANTS
  Sources,    \* what can be followed: the jobs and the port
  Followers,  \* who follows one of them
  Nobody      \* no source

VARIABLES
  lines,   \* how many lines each source has had
  first,   \* the first line it still has
  ending,  \* how it ended
  of,      \* the source of each follower
  got,     \* the last line that it received
  events,  \* how many lines it received
  told     \* the end that it was told

sourceVars == <<lines, first, ending>>
feedVars == <<sourceVars, of, got, events, told>>

Init ==
  /\ lines = [s \in Sources |-> 0] /\ first = [s \in Sources |-> 1]
  /\ ending = [s \in Sources |-> "none"]
  /\ of = [f \in Followers |-> Nobody] /\ got = [f \in Followers |-> 0]
  /\ events = got /\ told = [f \in Followers |-> "none"]

Grow(s) ==
  /\ ending[s] = "none"
  /\ lines' = [lines EXCEPT ![s] = @ + 1]
  /\ UNCHANGED <<first, ending, of, got, events, told>>

Drop(s) ==
  /\ \E n \in (first[s] + 1) .. (lines[s] + 1) : first' = [first EXCEPT ![s] = n]
  /\ UNCHANGED <<lines, ending, of, got, events, told>>

End(s) ==
  /\ ending[s] = "none"
  /\ \E end \in {"ok", "failed"} : ending' = [ending EXCEPT ![s] = end]
  /\ UNCHANGED <<lines, first, of, got, events, told>>

\* A source that nobody knows any more is all its follower learns.
Follow(f, s) ==
  /\ of[f] \in {Nobody, s} /\ told[f] = "none"
  /\ of' = [of EXCEPT ![f] = s]
  /\ told' = told \/ told' = [told EXCEPT ![f] = "no such job"]
  /\ UNCHANGED <<sourceVars, got, events>>

Deliver(f, s) ==
  /\ of[f] = s /\ told[f] = "none"
  /\ \E n \in (got[f] + 1) .. lines[s] :
       /\ \A r \in (got[f] + 1) .. (n - 1) : r < first[s]
       /\ got' = [got EXCEPT ![f] = n]
  /\ events' = [events EXCEPT ![f] = @ + 1]
  /\ UNCHANGED <<sourceVars, of, told>>

Tell(f, s) ==
  /\ of[f] = s /\ told[f] = "none"
  /\ ending[s] # "none" /\ got[f] = lines[s]
  /\ told' = [told EXCEPT ![f] = ending[s]]
  /\ UNCHANGED <<sourceVars, of, got, events>>

Next ==
  \E s \in Sources :
    \/ Grow(s) \/ Drop(s) \/ End(s)
    \/ \E f \in Followers : Follow(f, s) \/ Deliver(f, s) \/ Tell(f, s)

Spec == Init /\ [][Next]_feedVars
=============================================================================
