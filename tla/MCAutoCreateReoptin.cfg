CONSTANTS
    m1 = m1
    m2 = m2
    Manager <- One
    Scenes <- OperatorScene
    ManagersTime = 0
    ManagersToggles = 0
    WebSlots <- WebLast
    Slots = 2
    Gap = 2
    Cycle = 5
    Grace = 1
    Cooldown = 4
    Limit = 2
    MaxTime = 7
    MaxCrashes = 0
    MaxToggles = 3
    MaxLag = 1
SPECIFICATION MCSpec
CHECK_DEADLOCK FALSE
INVARIANT StartsSpaced
