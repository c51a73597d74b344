SPECIFICATION FairSpec
CONSTANTS
  p1 = p1
  p2 = p2
  NoParent = NoParent
  Waiters = {"intents"}
  Rate = 1
  Second = 3
  Token = 2
  Parents = {p1, p2}
  Intents <- TwoIntents
  Qty <- SliceableQty
  Algos = {"TWAP", "VWAP", "other"}
  Backends = {"binance", "sim"}
  Lot = 8
  Slices = 3
  Duration = 3
  SubmitTimeout = 3
  Env = {"cancel", "submit", "publish", "commit"}
  MaxFaults = 1
  MaxRestarts = 0
INVARIANTS
  TypeOK
  RateBound
PROPERTIES
  EveryIntentHandled
