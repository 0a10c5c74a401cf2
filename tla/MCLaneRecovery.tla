--------------------------- MODULE MCLaneRecovery ---------------------------
EXTENDS LaneRecovery, TLC

Symmetry == Permutations(Calls) \cup Permutations(Tasks) \cup Permutations(Lanes)
=============================================================================
