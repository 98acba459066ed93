------------------------------ MODULE MCGroup ------------------------------
EXTENDS MultiroomGroup, TLC

Symmetry == Permutations(Node)
=============================================================================
