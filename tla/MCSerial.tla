------------------------------ MODULE MCSerial ------------------------------
EXTENDS PersonDay, TLC

MCOneShift == {[start |-> 0, end |-> 1]}
Symmetry == Permutations(Sessions) \cup Permutations(Breaks)
=============================================================================
