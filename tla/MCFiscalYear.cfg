\* Three requests of any kind on one year of two periods.
CONSTANTS
  p1 = p1
  p2 = p2
  k1 = k1
  Sessions = {s1, s2, s3}
  Periods <- MCPeriods
  Keys = {k1}
  NoSession = NoSession
  NoKey = NoKey
  NoEntry = NoEntry
  Revenue <- MCRevenue
  Expense <- MCExpense
  Retained = "retained"
  Cash = "cash"
  Dates = {1, 2, 3}
  EndDate = 2
  DatesOf <- MCDatesOf
  Opening <- MCOpening
  Requests <- MCRequests
SYMMETRY Symmetry
SPECIFICATION Spec
INVARIANTS TypeOK CloseReopenAlternate ResultCarried ReopenUndoesClose
PROPERTIES CloseShutsPeriods
CHECK_DEADLOCK FALSE
