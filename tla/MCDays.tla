-------------------------------- MODULE MCDays --------------------------------
EXTENDS WorkDay, TLC

Symmetry == Permutations(Names) \cup Permutations(Turns)
=============================================================================
