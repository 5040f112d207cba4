SPECIFICATION Spec
CONSTANTS
  MinuteTicks = 2
  DayMinutes = 2
  Employees = {e1}
  Sessions = {a1, a2}
  Breaks = {b1, b2}
  Requests = {p1}
  Sweepers = {p1}
  Fallible = {}
  Shifts <- MCOneShift
  MaxNow = 5
  None = None
SYMMETRY Symmetry
INVARIANTS
  TypeOK
  OnBreakIffOpenBreak
  MinutesAddUp
  AutoCloseEndsBreaks
  AutoFlagTruthful
PROPERTIES
  EndAddsNoHours
  SerialContract
CHECK_DEADLOCK FALSE
