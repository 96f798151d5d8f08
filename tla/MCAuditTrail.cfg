\* Two workers flushing the rows of three requests.
CONSTANTS
  sale = sale
  payroll = payroll
  export = export
  Requests <- MCRequests
  Writers <- MCWriters
  Critical <- MCCritical
  Workers = {w1, w2}
  NoWorker = NoWorker
  NoRow = NoRow
  Batch = 2
  MaxAttempts = 2
  MaxCrashes = 1
SPECIFICATION Spec
INVARIANTS TypeOK AuditedTogether ChainLinear FlushedOnce
PROPERTIES EventuallySettled
CHECK_DEADLOCK FALSE
