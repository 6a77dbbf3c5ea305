------------------------------- MODULE MC_Rest -------------------------------
(***************************************************************************)
(* The switch with its routes, and the streams.  They share the listener   *)
(* only by what Streams says of its replacement, so a behaviour is one of  *)
(* the two.                                                                *)
(***************************************************************************)
EXTENDS Rest, Streams

VARIABLE side

Init == RestInit /\ StreamInit /\ side \in {"switch", "streams"}

Next ==
  \/ side = "switch" /\ RestNext /\ UNCHANGED <<side, streamVars>>
  \/ side = "streams" /\ StreamNext /\ UNCHANGED <<side, restVars>>

Spec == Init /\ [][Next]_<<side, restVars, streamVars>> /\ StreamFairness
=============================================================================
