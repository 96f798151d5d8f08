\* Two requests for one check on one day.
CONSTANTS
  s1 = s1
  s2 = s2
  d1 = d1
  d2 = d2
  d3 = d3
  Sessions = {s1, s2}
  Dates <- MCDates
  Checks <- MCChecks
  Keys <- MCKeys
  Requests <- SameDayRequests
  NoSession = NoSession
  NoKey = NoKey
  NoEntry = NoEntry
SPECIFICATION Spec
INVARIANTS EveryStatusIsPosted
CHECK_DEADLOCK FALSE
