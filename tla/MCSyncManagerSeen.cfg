SPECIFICATION Spec
CONSTANTS
  a1 = a1
  a2 = a2
  l1 = l1
  l2 = l2
  l3 = l3
  None = None
  Account = {a1, a2}
  Lock = {l1, l2, l3}
  Proc <- Claims
  Key <- LockKeys
  Worker <- MCWorker
  Crews <- MCCrews
  Slots = 1
  MaxBatches = 1
  MaxRetries = 1
  MaxSource = 2
  Validity <- SameValidity
INVARIANT SeenMarksOwnSource
CHECK_DEADLOCK FALSE
