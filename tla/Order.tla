-------------------------------- MODULE Order --------------------------------
(***************************************************************************)
(* Numbers and lines in their order: the rows a query returns ORDER BY id, *)
(* the places a scan of a list from its front collects.                    *)
(***************************************************************************)
EXTENDS Integers, FiniteSets, Sequences

\* A set of numbers as a sequence.
Ascending(S) == [i \in 1 .. Cardinality(S) |->
                   CHOOSE r \in S : Cardinality({s \in S : s < r}) = i - 1]

\* The members of s at the places of a set.
AtPlaces(s, places) ==
  LET p == Ascending(places) IN [i \in DOMAIN p |-> s[p[i]]]

\* The members of s that pass a test.
Chosen(s, Test(_)) == AtPlaces(s, {i \in DOMAIN s : Test(s[i])})
==============================================================================
