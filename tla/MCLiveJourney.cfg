SPECIFICATION JourneySpec
CONSTANTS
  t1 = t1
  t2 = t2
  alt1 = alt1
  none = none
  a = a
  b = b
  c = c
  d = d
  Trips <- MCTrips
  StopIds <- MCStopIds
  NoDate = NoDate
  NoTime = NoTime
  NoStop = NoStop
  DayLength = 10
  Threshold = 1
  Journeys <- MCJourneys
  Snapshots <- MCSnapshots
INVARIANTS StatusIsWorst SlackIsSpareTime MissedIsBroken
CHECK_DEADLOCK FALSE
