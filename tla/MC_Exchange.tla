----------------------------- MODULE MC_Exchange -----------------------------
(* Exchange with two clients; the configuration gives the other constants. *)
EXTENDS Exchange

CONSTANTS c1, c2

TwoClients == {c1, c2}
AllKinds == {"quick", "long", "shutdown"}

\* The clients are interchangeable, so the first asks for no heavier a request
\* than the second.  TLC's own symmetry would not be sound for liveness.
Weight == [quick |-> 1, long |-> 2, shutdown |-> 3]
OrderedInit == Init /\ Weight[kind[c1]] <= Weight[kind[c2]]
OrderedSpec == OrderedInit /\ [][Next]_vars /\ Fairness
=============================================================================
