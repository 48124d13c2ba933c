SPECIFICATION FairSpec
CONSTANTS
  p = p
  q = q
  k1 = k1
  k2 = k2
  k3 = k3
  None = None
  Torn = Torn
  Process = {p, q}
  Random = {k1, k2, k3}
  Scenes <- MCScenes
  MaxStops = 1
  MaxWrites = 2
INVARIANTS OneInstallation ImportExact
PROPERTIES ComesUp
CHECK_DEADLOCK FALSE
