------------------------------- MODULE MCGate -------------------------------
EXTENDS GateInvariant, TLC
Symmetry == Permutations(Procs) \cup Permutations(Heads) \cup Permutations(Bases)
=============================================================================
