SPECIFICATION Spec
CONSTANTS
  MinuteTicks = 1
  DayMinutes = 3
  Employees = {e1}
  Groups = {}
  Sessions = {a1}
  Owner <- MCOwner
  OneAtATime = TRUE
  Instances = {i1}
  Shifts <- MCShifts
  CheckInClock = 2
  CheckOutClock = 1
  MorningClock <- Malformed
  EveningClock <- Malformed
  NoticeFrom = 1
  ShiftGrace = 1
  MinSession = 1
  MorningWindow = 1
  NoticeWindow = 0
  Retention = 4
  DaysOff = {1}
  TickLimit = 1
  MaxNow = 4
  None = None
INVARIANTS
  AtMostOnce
PROPERTIES
  InTime
  RemindedNotIn
CHECK_DEADLOCK FALSE
