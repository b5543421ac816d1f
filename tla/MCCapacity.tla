------------------------------ MODULE MCCapacity ------------------------------
EXTENDS CapacityProps, TLC

\* Instances and placements are interchangeable; jobs are numbered in order.
Symmetry == Permutations(Instances) \cup Permutations(Placements)
=============================================================================
