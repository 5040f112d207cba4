SPECIFICATION FairSpec
CONSTANTS
  MinuteTicks = 1
  DayMinutes = 3
  Employees = {e1}
  Sessions = {a1}
  Breaks = {b1}
  Requests = {r1, r2}
  Sweepers = {s1}
  Fallible = {r1}
  Shifts <- MCOneShift
  MaxNow = 3
  None = None
INVARIANTS
  ReadsStayTrue
PROPERTIES
  SweepKeepsToTheDay
  RacingContract
  StaleIsClosed
CHECK_DEADLOCK FALSE
