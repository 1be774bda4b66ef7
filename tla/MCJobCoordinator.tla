-------------------------- MODULE MCJobCoordinator --------------------------
EXTENDS JobCoordinator, TLC

CONSTANTS v1

\* Every job belongs to the default conversation of its route.
SharedConv == [j \in Job |-> v1]

\* No definition chooses among tabs or runtime sessions.
Symmetry == Permutations(Tab) \cup Permutations(Runtime)
=============================================================================
