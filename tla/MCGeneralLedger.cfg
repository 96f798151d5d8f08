\* Three concurrent requests of every kind, all safety properties.
CONSTANTS
  s1 = s1
  s2 = s2
  s3 = s3
  cash = cash
  revenue = revenue
  inv1 = inv1
  Sessions = {s1, s2, s3}
  Accounts = {cash, revenue}
  Docs = {inv1}
  Dates <- MCDates
  Keys <- MCKeys
  Requests <- MCRequests
  NoSession = NoSession
  NoKey = NoKey
  NoDoc = NoDoc
  NoAccount = NoAccount
  Refused = Refused
  DraftsInClosedPeriod = FALSE
SYMMETRY Symmetry
SPECIFICATION Spec
INVARIANTS TypeOK BalancesMatchLedger ReversedOnce AnswersHold
PROPERTIES EntryHistory ImplementsLedger
CHECK_DEADLOCK FALSE
