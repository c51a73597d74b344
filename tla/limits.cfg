SPECIFICATION Spec
CONSTANTS
  o1 = o1
  o2 = o2
  o3 = o3
  o4 = o4
  bad = bad
  NoOrder = NoOrder
  Malformed = Malformed
  Orders = {o1, o2, o3, o4}
  BadIds = {bad}
  Log <- MixedIntents
  Qty <- UnitQty
  Side <- BuysAndSells
  Refused <- RefusedByPolicy
  NoFile = NoFile
  RiskFile = NoFile
  MaxOrderQtyBTC = 0
  MaxOrderQtyETH = 0
  Instrument <- InstrumentMixedCase
  Price <- PriceThree
  Shape <- Shapes
  MaxDailyOrders = 3
  MaxDailyBuys = 1
  MaxDailySells = 0
  PublishRetries = 1
  ReuseClosedIds = TRUE
  Env = {"crash", "halt", "commit"}
  MaxFaults = 1
  MaxRestarts = 2
  MaxHalts = 2
INVARIANTS
  HaltLetsAtMostOneThrough
  DailyCapsHold
