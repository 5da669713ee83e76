------------------------------- MODULE MCNudges -------------------------------
EXTENDS Nudges, TLC
Symmetry == Permutations(Sessions) \cup Permutations(Slots) \cup Permutations(Passes)
=============================================================================
