\* Orders received in parts, documents, notes and vouchers, some of them of
\* amounts that are not in whole cents.
CONSTANTS
  main = main
  wh = main
  Warehouses <- MCWarehouses
  Method = "fifo"
  Policy = "per_warehouse_wac"
  Orders = {o1, o2}
  OrderForms <- MCOrderForms
  Per = 2
  ContractTotals = {100, 30000}
  Amounts = {200, 20049}
  Allotments = {100, 19949}
  NoteTotals = {100, 10000}
  Openings <- MCOpenings
  Days = {1}
  Before <- MCBefore
  AllowOverpayment = TRUE
  MaxDocuments = 3
  MaxVouchers = 2
  MaxDecisions = 1
SPECIFICATION Spec
CONSTRAINT Scope
INVARIANTS TypeOK  PayableAgrees PaidIsAllocated 
CHECK_DEADLOCK FALSE
