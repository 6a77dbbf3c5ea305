------------------------------ MODULE MC_Ports ------------------------------
EXTENDS Ports, TLC

Symmetry == Permutations(Client)
=============================================================================
