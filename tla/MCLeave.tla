------------------------------- MODULE MCLeave -------------------------------
EXTENDS LeaveBalance, TLC

\* Days over New Year and a weekend, and hours of one of them whose form has a
\* last day before its first, which is put right.
MCWishes ==
  {[start |-> 0, end |-> 2, from |-> Blank, to |-> Blank],
   [start |-> 1, end |-> 0, from |-> 0, to |-> 2]}

Symmetry == Permutations(Leaves) \cup Permutations(Requests)
=============================================================================
