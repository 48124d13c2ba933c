SPECIFICATION Spec
CONSTANTS
  r1 = r1
  r2 = r2
  Reader = {r1, r2}
  Long = {r2}
  MaxMail = 1
  MaxGeneration = 2
INVARIANTS SeenBeforeAnswer NoLostCommit Attended
CHECK_DEADLOCK FALSE
