SPECIFICATION FeedSpec
CONSTANTS
  Features = {"f", "g"}
  MaxEvents = 4
  BaseDelay = 10
  MaxDelay = 75
  MaxStreak = 3
INVARIANTS
  TypeOK
  LatestIsDelivered
  BackoffIsExponential
PROPERTIES
  StopsOnCancel
