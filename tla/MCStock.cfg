\* Two shipments, a transfer and its retry, an order and a count, over two days.
CONSTANTS
  main = main
  branch = branch
  Warehouses <- MCWarehouses
  Shipments = {s1, s2}
  Transfers = {t1, t2}
  Orders = {o1}
  Keys = {"key"}
  ShipmentForms <- MCShipmentForms
  TransferForms <- MCTransferForms
  OrderForms <- MCOrderForms
  Counts <- MCCounts
  Openings <- MCOpenings
  KeyOf <- MCKeyOf
  Method = "fifo"
  Policy = "per_warehouse_wac"
  LastDay = 2
  MaxAdjustments = 1
  NoForm = NoForm
SYMMETRY Symmetry
SPECIFICATION Spec
INVARIANTS TypeOK GoodsAccountedFor HoldingsCover TransitAccount
CHECK_DEADLOCK FALSE
