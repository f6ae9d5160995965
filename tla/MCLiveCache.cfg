SPECIFICATION FairSpec
CONSTANTS
  c1 = c1
  c2 = c2
  trainTrips = trainTrips
  busTrips = busTrips
  None = None
  Nil = Nil
  Callers <- MCCallers
  Feeds <- MCFeeds
  TTL = 2
  Timeout = 2
  MaxClock = 4
INVARIANTS ServedAge RoundInvariant
PROPERTIES OutageKeepsData RefreshSpacing NoFeedGoesBack GetReturns ImplementsRegister
