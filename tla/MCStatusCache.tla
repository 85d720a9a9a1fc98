---------------------------- MODULE MCStatusCache ----------------------------
EXTENDS StatusCache, TLC

Symmetry == Permutations(Helper)
=============================================================================
