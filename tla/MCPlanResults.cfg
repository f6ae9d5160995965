SPECIFICATION Spec
CONSTANTS
  o = o
  x = x
  y = y
  p = p
  q = q
  d = d
  t1 = t1
  t1b = t1b
  t2 = t2
  t3 = t3
  t4 = t4
  t5 = t5
  t6 = t6
  t7 = t7
  t8 = t8
  none = none
  Trips <- MCTrips
  Places <- MCPlaces
  Searches <- MCSearches
  Requests <- MCRequests
INVARIANTS ShownOnce LeastWalkShown NothingLost FirstIsBest
CHECK_DEADLOCK FALSE
