------------------------------- MODULE Content -------------------------------
(***************************************************************************)
(* What a client is given of a log, and what it gives to a device or a     *)
(* file: Reading and Text, which have no state in common.                  *)
(***************************************************************************)
EXTENDS Reading, Text

\* What is read of a log is what it holds, and what is written is what was meant
\* (engine.rs read_once, search and write_data, storage.rs, export.rs).
ContentTrue == ReadsTrue /\ TextTrue
==============================================================================
