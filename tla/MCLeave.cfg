SPECIFICATION Spec
CONSTANTS
  MinuteTicks = 1
  DayMinutes = 4
  Employees = {e1}
  Leaves = {l1, l2}
  Requests = {r1, r2}
  Wishes <- MCWishes
  MaxDay = 2
  YearDays = 2
  WorkingDays = {1, 2}
  Blank = Blank
  None = None
SYMMETRY Symmetry
INVARIANTS
  TypeOK
  BalanceCountsOnce
  ClashesExplained
  ToldAsDecided
CHECK_DEADLOCK FALSE
