SPECIFICATION SafetySpec
CONSTANTS
  Scenes <- SafetyScenes
  Account = {1}
  Address = {x, y}
  Client = {p, q}
  Request = {r}
  MaxAlias = 2
  MaxLease = 2
  MaxCount = 2
  MaxTTL = 1
  NoClaim = NoClaim
  Op = {o1, o2}
SYMMETRY Operations
INVARIANTS
  MembershipSound
  ConsumedOnce
  CredentialsExclusive
  RequestFulfilled
  RetiredGone
  JobsHonest
CHECK_DEADLOCK FALSE
