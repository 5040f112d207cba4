SPECIFICATION Spec
CONSTANTS
  Names = {n1, n2}
  Turns = {p1, p2}
  OneAtATime = TRUE
  MaxDay = 1
  MaxSessions = 2
  MaxCards = 4
  MaxSaves = 3
  None = None
SYMMETRY Symmetry
INVARIANTS
  HeldByOne
  AnsweredOnce
  LinksResolve
PROPERTIES
  ReviewCoversPlan
CHECK_DEADLOCK FALSE
