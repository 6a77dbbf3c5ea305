----------------------------- MODULE MC_Daemon -----------------------------
(***************************************************************************)
(* The ports of a daemon, and when it stops by itself.  Lifecycle knows of *)
(* the ports only that rows come and go, so a behaviour is one of the two. *)
(***************************************************************************)
EXTENDS Ports, Lifecycle, TLC

CONSTANT MaxEvents  \* bound: requests, unplugs and restarts, together

VARIABLE side

DaemonInit == Init /\ LifecycleInit /\ side \in {"ports", "lifecycle"}

DaemonNext ==
  \/ side = "ports" /\ Next /\ requests' + unplugs' + restarts' <= MaxEvents
     /\ UNCHANGED <<side, lifecycleVars>>
  \/ side = "lifecycle" /\ LifecycleNext /\ UNCHANGED <<side, vars>>

DaemonSpec == DaemonInit /\ [][DaemonNext]_<<side, vars, lifecycleVars>>

Symmetry == Permutations(Client) \cup Permutations(Holder)
=============================================================================
