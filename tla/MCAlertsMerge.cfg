SPECIFICATION AlertsSpec
CONSTANTS
  c1 = c1
  c2 = c2
  delay = delay
  works = works
  r1 = r1
  r2 = r2
  r3 = r3
  r4 = r4
  r5 = r5
  None = None
  Callers <- MCCallers
  Instants <- MCInstants
  Alerts <- MCAlerts
  Texts <- MCTexts
  Affected <- MCAffected
  Room <- MCRoom
INVARIANTS SnapshotUnchanged OneOfEachIncident
