SPECIFICATION Spec
CONSTANTS
  o1 = o1
  o2 = o2
  o3 = o3
  o4 = o4
  bad = bad
  NoOrder = NoOrder
  Malformed = Malformed
  Orders = {o1, o2}
  BadIds = {}
  Log <- TwoOrdersRepeated
  Qty <- UnitQty
  Side <- AllBuys
  Refused <- RefusedByPolicy
  NoFile = NoFile
  RiskFile = NoFile
  MaxOrderQtyBTC = 0
  MaxOrderQtyETH = 0
  Instrument <- InstrumentMixedCase
  Price <- PriceThree
  Shape <- Shapes
  MaxDailyOrders = 3
  MaxDailyBuys = 0
  MaxDailySells = 0
  PublishRetries = 1
  ReuseClosedIds = TRUE
  Env = {"crash", "publish", "commit", "query", "submit", "stream"}
  MaxFaults = 1
  MaxRestarts = 1
  MaxHalts = 0
INVARIANTS
  TypeOK
  WriteAhead
  SubmittedOncePerLife
  ActiveOrdersKnown
  CommittedIntentRecorded
PROPERTIES
  LedgerSpec
