SPECIFICATION Spec
CONSTANTS
  p1 = p1
  p2 = p2
  NoParent = NoParent
  Waiters = {"intents"}
  Rate = 1
  Second = 1
  Token = 1
  Parents = {p1}
  Intents <- OneIntent
  Qty <- SliceableQty
  Algos = {"TWAP", "VWAP"}
  Backends = {"binance", "sim"}
  Lot = 6
  Slices = 3
  Duration = 1
  SubmitTimeout = 1
  Env = {"crash", "store", "submit", "publish"}
  MaxFaults = 1
  MaxRestarts = 1
INVARIANTS
  ReportedIsExecuted
  
