------------------------------ MODULE MCRaces ------------------------------
EXTENDS AttendanceSession

MCOneShift == {[start |-> 0, end |-> 1]}
=============================================================================
