\* Three requests of every kind on a receivable and a payable check.
CONSTANTS
  d1 = d1
  d2 = d2
  d3 = d3
  Sessions = {s1, s2, s3}
  Dates <- MCDates
  Checks <- MCChecks
  Keys <- MCKeys
  Requests <- MCRequests
  NoSession = NoSession
  NoKey = NoKey
  NoEntry = NoEntry
SYMMETRY Symmetry
INIT MCInit
NEXT Next
INVARIANTS TypeOK LedgerFollowsStatus TreasuryIsBankSum
CHECK_DEADLOCK FALSE
