SPECIFICATION Spec
CONSTANTS
  Users = {u1}
  Admins = {}
  Tasks = {t1}
  Owner <- MCOwner
  Fields = {status, remarks}
  Values = {v1, v2}
  Blank <- MCBlank
  SelfEditDays = 0
  Requests = {p1, p2}
  MaxDay = 1
  MaxEdits = 2
SYMMETRY Symmetry
INVARIANTS
  LogJoinsUp
PROPERTIES
  SelfServiceEnds
CHECK_DEADLOCK FALSE
