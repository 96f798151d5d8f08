\* Every table, two rows, two processes, two losses, two replays of a click.
CONSTANTS
  Items = {i1, i2}
  Workers = {w1, w2}
  Admins = {a1, a2}
  NoOne = NoOne
  Kinds <- AllKinds
  Limit = 2
  MaxAttempts = 2
  MaxLosses = 2
  MaxSubmits = 2
SPECIFICATION QueuesSpec
INVARIANTS QueueTables SendsBounded
PROPERTIES FinalStays EventuallySettled
CHECK_DEADLOCK FALSE
