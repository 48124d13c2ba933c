SPECIFICATION Spec
CONSTANTS
  a = a
  b = b
  Alias = {a, b}
  Batches <- MCBatches
  Selection <- MCSelection
  Alongside <- MCAlongside
  MaxRecoveries = 1
  MaxBatches = 1
  MaxChanges = 1
  MaxSession = 2
  MaxSettings = 1
  MaxLogins = 1
  Target = 2
  MaxJobs = 2
  MaxDropped = 2
INVARIANTS SessionKept NeverForgotten OwnRetryState ResultsAudited LossesExplained
PROPERTIES GoneForCause OnlyWanted NeverOverwrites JobsEndForGood
CHECK_DEADLOCK FALSE
