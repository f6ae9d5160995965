SPECIFICATION Spec
CONSTANTS
  p1 = p1
  p2 = p2
  q = q
  weekday = weekday
  weekend = weekend
  special = special
  line = line
  there = there
  elsewhere = elsewhere
  run = run
  run2 = run2
  other = other
  late = late
  Week = 2
  Day24 <- MCDay24
  Midnight <- MCMidnight
  Feeds <- MCFeeds
  Requests <- MCRequests
  Factor = 2
  FetchCap = 5
INVARIANTS SoonestShown OnceAndReal VariantsKept PeriodIsRespected
CHECK_DEADLOCK FALSE
