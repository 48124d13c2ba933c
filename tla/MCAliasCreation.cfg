CONSTANTS
  a1 = a1
  a2 = a2
  a3 = a3
  Address <- Addresses
  NoAddress = NoAddress
  Places = 2
  AccountLimit = 1
  WebLimit = 1
  WebOnlyLimit = 2
  Hour = 2
  LongestWait = 2
  StaleAge = 1
  OldAge = 2
  Lag = 1
  MaxTime = 2
  MaxRuns = 2
  MaxSyncs = 1
  MaxEvents = 1
SPECIFICATION Spec
SYMMETRY Symm
CHECK_DEADLOCK FALSE
INVARIANTS
  PlacesKept
  OneCandidatePerChannel
  IssuedOnlyIfMade
PROPERTIES
  ThrottleRemembered
  KeepsLiveCandidates
