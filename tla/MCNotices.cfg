SPECIFICATION Spec
CONSTANTS
  MinuteTicks = 1
  DayMinutes = 2
  Employees = {e1}
  Groups = {}
  Sessions = {a1}
  Owner <- MCOwner
  OneAtATime = TRUE
  Instances = {i1, i2}
  Shifts <- MCNoShift
  CheckInClock <- Malformed
  CheckOutClock <- Malformed
  MorningClock <- Malformed
  EveningClock <- Malformed
  NoticeFrom = 0
  ShiftGrace = 1
  MinSession = 1
  MorningWindow = 1
  NoticeWindow = 2
  Retention = 3
  DaysOff = {0, 1, 2, 3}
  TickLimit = 1
  MaxNow = 6
  None = None
SYMMETRY Symmetry
INVARIANTS
  AtMostOnce
PROPERTIES
  InTime
CHECK_DEADLOCK FALSE
