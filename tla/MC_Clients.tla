----------------------------- MODULE MC_Clients -----------------------------
(***************************************************************************)
(* What stands between clients and the daemon: its endpoint while daemons  *)
(* start and end, the commands and tools that use it, reads of a log that  *)
(* changes, and text on its way to a device or a file.  They have no state *)
(* in common, so a behaviour is one of them, and the parts that do not     *)
(* move start in one state.                                                *)
(***************************************************************************)
EXTENDS Endpoint, Commands, Content, TLC

CONSTANTS
  MaxEvents,  \* bound: calls and daemons that stop under them, together
  MaxDowns    \* bound: daemons killed and daemons stopped but by the restart, together

VARIABLE part

Symmetry == Permutations(Daemon)

\* 0, x, 3, F, a sign, a blank and z; in a payload a quote, a comma, a line feed and z.
Typeable == {48, 120, 51, 70, 43, 32, 122}
ShortPayloads == UNION {[1..n -> {34, 44, 10, 122}] : n \in 0..2}

ClientsInit ==
  /\ part \in {"endpoint", "commands", "reading", "text"}
  /\ Init /\ CommandsInit
  /\ ReadingInit /\ (part # "reading" => stored = <<>> /\ matches = {})
  /\ IF part = "text" THEN TextInit
     ELSE /\ way = "tool" /\ typed = <<>> /\ ending = "none" /\ holder = "typist" /\ carried = <<>>
          /\ asHex = FALSE /\ twice = FALSE /\ records = <<>> /\ file = <<>>

ClientsNext ==
  \/ part = "endpoint" /\ Next /\ kills' + stops' <= MaxDowns
     /\ UNCHANGED <<part, commandsVars, readingVars, textVars>>
  \/ part = "commands" /\ CommandsNext /\ calls' + ends' <= MaxEvents
     /\ UNCHANGED <<part, vars, readingVars, textVars>>
  \/ part = "reading" /\ ReadingNext /\ UNCHANGED <<part, vars, commandsVars, textVars>>
  \/ part = "text" /\ TextNext /\ UNCHANGED <<part, vars, commandsVars, readingVars>>

ClientsSpec ==
  ClientsInit /\ [][ClientsNext]_<<part, vars, commandsVars, readingVars, textVars>>
=============================================================================
