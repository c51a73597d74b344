SPECIFICATION FairSpec
CONSTANTS
  o1 = o1
  o2 = o2
  o3 = o3
  o4 = o4
  bad = bad
  NoOrder = NoOrder
  Malformed = Malformed
  Orders = {o1, o2}
  BadIds = {}
  Log <- TwoOrdersRepeated
  Qty <- OneSmall
  Side <- AllBuys
  Refused <- RefusedByPolicy
  NoFile = NoFile
  RiskFile <- LowerCaseFile
  MaxOrderQtyBTC = 0
  MaxOrderQtyETH = 0
  Instrument <- InstrumentMixedCase
  Price <- PriceThree
  Shape <- Shapes
  MaxDailyOrders = 3
  MaxDailyBuys = 0
  MaxDailySells = 0
  PublishRetries = 1
  ReuseClosedIds = TRUE
  Env = {"crash", "sigterm", "publish", "submit", "stream"}
  MaxFaults = 1
  MaxRestarts = 1
  MaxHalts = 0
INVARIANTS
  WriteAhead
  VenueOrdersWithinPolicy
PROPERTIES
  EveryIntentCommitted
  ShutdownCompletes
  StreamFillsPublished
