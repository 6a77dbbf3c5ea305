----------------------------- MODULE MC_Capture -----------------------------
(* Capture on a small instance. *)
EXTENDS Capture
=============================================================================
