SPECIFICATION Spec
CONSTANTS
  t1 = t1
  t2 = t2
  t3 = t3
  here = here
  earlier = earlier
  line = line
  otherLine = otherLine
  NoDate = NoDate
  NoTime = NoTime
  NoStop = NoStop
  DayLength = 10
  Threshold = 1
  Trips <- MCTrips
  StopIds <- MCStopIds
  Routes <- MCRoutes
  Updates <- MCUpdates
  Timetables <- MCTimetables
  MaxUpdates = 3
INVARIANTS KnownIsPublished VariantBlind NothingKnownIsDropped
