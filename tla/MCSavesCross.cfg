SPECIFICATION Spec
CONSTANTS
  Names = {n1, n2}
  Turns = {p1, p2}
  OneAtATime = FALSE
  MaxDay = 0
  MaxSessions = 1
  MaxCards = 4
  MaxSaves = 3
  None = None
SYMMETRY Symmetry
INVARIANTS
  MixedPlansCrossed
CHECK_DEADLOCK FALSE
