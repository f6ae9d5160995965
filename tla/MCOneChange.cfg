SPECIFICATION Spec
CONSTANTS
  o = o
  x = x
  x1 = x1
  x2 = x2
  b = b
  y = y
  orphan = orphan
  anywhere = anywhere
  nameO = nameO
  nameX = nameX
  nameP = nameP
  nameB = nameB
  nameY = nameY
  daily = daily
  alternate = alternate
  slow = slow
  fast = fast
  bus = bus
  on = on
  onLate = onLate
  onBus = onBus
  back = back
  line = line
  Week = 2
  Day24 = 100
  Midnight <- MCMidnight
  Stops <- MCStops
  Orphan = orphan
  Parent <- MCParent
  NameOf <- MCNameOf
  StationIDs = {x}
  Place <- MCPlace
  Metres <- MCMetres
  RowLimit = 4
  StationLimit = 4
  DefaultTransferTime = 2
  MaxTransferTime = 4
  Detour = 1
  Pace = 2
  Unknown <- MCUnknown
  Searches <- MCSearches
  Anywhere = anywhere
  WalkRadius = 6
  MaxInterchanges = 3
  MaxFirsts = 2
INVARIANTS CanBeMade SlackIsWhatIsLeft FindsTheBest QuickestWayAllowed ExpressIsLegible
CHECK_DEADLOCK FALSE
