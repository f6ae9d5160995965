SPECIFICATION Spec
CONSTANTS
  c1 = c1
  c2 = c2
  h1 = h1
  h2 = h2
  t = t
  p = p
  u = u
  b1 = b1
  b2 = b2
  orphan = orphan
  nameT = nameT
  nameP = nameP
  nameU = nameU
  nameB1 = nameB1
  nameB2 = nameB2
  Never = Never
  Error = Error
  Pending = Pending
  Unasked = Unasked
  Stops <- MCStops
  Orphan = orphan
  Parent <- MCParent
  NameOf <- MCNameOf
  StationIDs = {t}
  Place <- MCPlace
  Metres <- MCMetres
  Callers <- MCCallers
  Readers <- MCReaders
  Near <- MCNear
  ModeOf <- MCModeOf
  Timetables <- MCTimetables
  DefaultRadius = 27
  OverFetch = 3
  Rows = 2
INVARIANTS GraphIsWhole AnswerIsWhole
PROPERTIES RequestReturns
CHECK_DEADLOCK FALSE
