----------------------------- MODULE CaptureLog -----------------------------
(***************************************************************************)
(* What the capture of a port promises, whatever the tasks in between do:  *)
(* a log that takes the byte stream of the device batch by batch.  A write *)
(* moves the front of the log forward over a whole batch of touching       *)
(* lines, or loses that batch as a whole; it never goes back, so no byte   *)
(* is stored twice and none out of order; rows leave at the old end only.  *)
(***************************************************************************)
EXTENDS Integers, Sequences

VARIABLES
  rows,   \* the stored lines, oldest first
  front   \* every byte up to this one is stored or lost

logVars == <<rows, front>>

Init == rows = <<>> /\ front = 0

\* The first k rows of new are the k newest rows of old.
KeepsNewest(old, new, k) ==
  /\ k <= Len(new)
  /\ \A i \in 1 .. k : new[i] = old[Len(old) - k + i]

Touching(s, first, last) ==
  \A i \in first .. last - 1 : s[i].to + 1 = s[i + 1].from

\* The batch begins right behind the front; a trim may have taken the rows
\* that were there, and the beginning of the batch with them.
Commit ==
  /\ front' > front
  /\ \E k \in 0 .. Len(rows) :
       /\ KeepsNewest(rows, rows', k)
       /\ k < Len(rows')
       /\ Touching(rows', k + 1, Len(rows'))
       /\ rows'[Len(rows')].to = front'
       /\ rows'[k + 1].from > front
       /\ k > 0 => rows'[k + 1].from = front + 1

Lose ==
  /\ front' > front
  /\ Len(rows') <= Len(rows)
  /\ KeepsNewest(rows, rows', Len(rows'))

Next == Commit \/ Lose

Spec == Init /\ [][Next]_logVars
=============================================================================
