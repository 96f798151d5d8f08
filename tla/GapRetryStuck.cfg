\* The payment and SMS queues under the scheduler, without any failure.
CONSTANTS
  Items = {i1, i2}
  Workers = {w1, w2}
  Admins = {}
  NoOne = NoOne
  Kinds <- JobOnly
  Limit = 2
  MaxAttempts = 3
  MaxLosses = 0
  MaxSubmits = 0
SPECIFICATION QueuesSpec
PROPERTIES RetriesResolve
CHECK_DEADLOCK FALSE
