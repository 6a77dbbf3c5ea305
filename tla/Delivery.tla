------------------------------ MODULE Delivery ------------------------------
(***************************************************************************)
(* What a file transfer promises, by whatever protocol (src/modem).  The   *)
(* receiver takes the pieces of the file one after the other.  Each side   *)
(* comes to one outcome and stays with it, and success of either one       *)
(* means that the receiver has the whole file.                             *)
(*                                                                         *)
(* A protocol without numbers or sums in all its messages can be misled:   *)
(* a side takes an answer, an end or a size for what it is not.  From then *)
(* on success says nothing, and what was taken may be cut.  What is there  *)
(* is still in order, unless the answers to one piece pile up.             *)
(***************************************************************************)
EXTENDS Naturals, Sequences, SequencesExt

VARIABLES
  pieces,        \* how many the file has
  kept,          \* those the receiver has, in the order it took them
  taker, giver,  \* the outcome of the receiver and of the sender
  misled,        \* a side took something for what it is not
  jumbled        \* and what it answers no longer belongs to one piece each

deliveryVars == <<pieces, kept, taker, giver, misled, jumbled>>

Outcomes == {"ok", "err"}
Whole == kept = [i \in 1 .. pieces |-> i]

Init ==
  /\ pieces \in Nat /\ kept = <<>>
  /\ taker = "open" /\ giver = "open"
  /\ misled = FALSE /\ jumbled = FALSE

Take ==
  /\ Len(kept) < pieces /\ kept' = Append(kept, Len(kept) + 1)
  /\ UNCHANGED <<taker, giver>>

\* The end of the file was put where it is not.
Cut ==
  /\ misled /\ IsPrefix(kept', kept)
  /\ UNCHANGED <<taker, giver>>

Jumble ==
  /\ jumbled' /\ kept' \in Seq(0 .. pieces)
  /\ UNCHANGED <<taker, giver>>

TakerEnds ==
  /\ taker' \in Outcomes /\ (taker' = "ok" => Whole \/ misled')
  /\ UNCHANGED <<kept, giver>>

GiverEnds ==
  /\ giver = "open"
  /\ giver' \in Outcomes /\ (giver' = "ok" => Whole \/ misled')
  /\ UNCHANGED <<kept, taker>>

Waits == UNCHANGED <<kept, taker, giver>>

Next ==
  /\ misled' \in {misled, TRUE} /\ jumbled' \in {jumbled, TRUE} /\ UNCHANGED pieces
  /\ \/ taker = "open" /\ (Take \/ Cut \/ Jumble \/ TakerEnds)
     \/ GiverEnds
     \/ Waits

Spec == Init /\ [][Next]_deliveryVars
=============================================================================
