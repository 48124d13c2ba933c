CONSTANTS
    m1 = m1
    m2 = m2
    Manager <- Managers
    Scenes <- BothScenes
    ManagersTime = 6
    ManagersToggles = 1
    WebSlots <- WebLast
    Slots = 2
    Gap = 2
    Cycle = 5
    Grace = 1
    Cooldown = 4
    Limit = 2
    MaxTime = 7
    MaxCrashes = 1
    MaxToggles = 3
    MaxLag = 1
SPECIFICATION MCSpec
SYMMETRY Symm
CHECK_DEADLOCK FALSE
INVARIANTS SpacedBeforeReoptin RollingCeiling
PROPERTIES SlotOnce CooldownHonoured
