------------------------------ MODULE MC_Store ------------------------------
(***************************************************************************)
(* Store on a small log: a terminal and a follower, or a window and the    *)
(* batches left to the writer of a closed port.                            *)
(***************************************************************************)
EXTENDS Store

WhoMeets == {{"terminal", "follower"}, {"window", "old"}}
=============================================================================
