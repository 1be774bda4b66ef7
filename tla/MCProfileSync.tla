---------------------------- MODULE MCProfileSync ----------------------------
EXTENDS ProfileSync, TLC

\* Neither the slots nor the contents differ.
Symmetric == Permutations(Slot) \cup Permutations(Content)
=============================================================================
