SPECIFICATION LookupSpec
CONSTANTS
  s1 = s1
  s2 = s2
  t1 = t1
  NoDate = NoDate
  NoTime = NoTime
  NoStop = NoStop
  DayLength = 4
  Threshold = 1
  Trips <- MCTrips
  StopIds <- MCStopIds
  MaxSeq = 3
  MaxLen = 3
INVARIANTS FindsUpdate
CHECK_DEADLOCK FALSE
