SPECIFICATION LivenessSpec
CONSTANTS
  Scenes <- LivenessScenes
  Account = {1}
  Address = {x, y}
  Client = {p}
  Request = {r, s}
  MaxAlias = 2
  MaxLease = 2
  MaxCount = 1
  MaxTTL = 2
  NoClaim = NoClaim
  Op = {o1}
PROPERTIES
  ExpiredReclaimed
  JobEnds
CHECK_DEADLOCK FALSE
