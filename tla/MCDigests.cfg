SPECIFICATION Spec
CONSTANTS
  MinuteTicks = 1
  DayMinutes = 3
  Employees = {e1}
  Groups = {g1}
  Sessions = {}
  Owner <- MCOwner
  OneAtATime = TRUE
  Instances = {i1, i2}
  Shifts <- MCNoShift
  CheckInClock <- Malformed
  CheckOutClock <- Malformed
  MorningClock = 1
  EveningClock = 2
  NoticeFrom = 1
  ShiftGrace = 1
  MinSession = 1
  MorningWindow = 1
  NoticeWindow = 0
  Retention = 4
  DaysOff = {1}
  TickLimit = 1
  MaxNow = 6
  None = None
SYMMETRY Symmetry
INVARIANTS
  TypeOK
PROPERTIES
  InTime
  DeliveryContract
CHECK_DEADLOCK FALSE
