\* Three concurrent requests of every kind, the waits for locks: no request hangs.
CONSTANTS
  s1 = s1
  s2 = s2
  s3 = s3
  cash = cash
  revenue = revenue
  inv1 = inv1
  Sessions = {s1, s2, s3}
  Accounts = {cash, revenue}
  Docs = {inv1}
  Dates <- OneDay
  Keys <- MCKeys
  Requests <- ContendingRequests
  NoSession = NoSession
  NoKey = NoKey
  NoDoc = NoDoc
  NoAccount = NoAccount
  Refused = Refused
  DraftsInClosedPeriod = FALSE
SPECIFICATION FairSpec
PROPERTIES EveryoneAnswered
CHECK_DEADLOCK FALSE
