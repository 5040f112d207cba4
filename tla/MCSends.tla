------------------------------ MODULE MCSends ------------------------------
EXTENDS ScheduledSends, TLC

MCOwner == [a \in Sessions |-> CHOOSE e \in Employees : TRUE]
MCNoShift == {NoShift}
MCShifts == {NoShift, [start |-> 0, end |-> 1]}
Symmetry == Permutations(Instances)
=============================================================================
