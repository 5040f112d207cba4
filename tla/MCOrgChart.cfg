SPECIFICATION FairSpec
CONSTANTS
  a = a
  b = b
  c = c
  d = d
  Employees = {a, b, c, d}
  Role <- MCRole
  Charts <- MCCharts
  MaxDepth = 2
  Requests = {p1}
  MaxEdits = 2
  None = None
INVARIANTS
  FoundAreBelow
  BelowAreFound
  QueriesAreFew
PROPERTIES
  GrantsHaveReasons
  QuestionsEnd
CHECK_DEADLOCK FALSE
