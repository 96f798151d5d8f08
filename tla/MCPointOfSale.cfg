\* A session, two sales and two returns, two requests at once, an order, a count.
CONSTANTS
  shop = shop
  Warehouses <- MCWarehouses
  Shop = shop
  Price = 50000
  Clerks = {c1, c2}
  SaleForms <- MCSaleForms
  ReturnForms <- MCReturnForms
  Gaps <- MCGaps
  FirstReturn = 2
  MaxSessions = 1
  MaxSales = 2
  MaxReturns = 2
  Shipments = {}
  Transfers = {}
  Orders = {o1}
  Keys = {"key"}
  ShipmentForms = {}
  TransferForms = {}
  OrderForms <- MCOrderForms
  Counts <- MCCounts
  Openings <- MCOpenings
  KeyOf <- MCKeyOf
  Method = "fifo"
  Policy = "global_wac"
  LastDay = 1
  MaxAdjustments = 1
  NoForm = NoForm
SYMMETRY Symmetry
SPECIFICATION PosSpec
INVARIANTS ShopStock SubledgerAgrees ReturnsWithinSale SessionSales
CHECK_DEADLOCK FALSE
