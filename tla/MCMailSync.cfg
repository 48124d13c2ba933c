SPECIFICATION Spec
CONSTANTS
    a = a
    b = b
    Alias = {a, b}
    Window = 1
    Batch = 1
    Recent = 1
    Span = 2
    Sources = 2
    Scenarios <- AllScenarios
INVARIANTS
    FiledBehindCursor
    NoForeignMail
    PauseIsCurrent
    ContentKept
SYMMETRY Either
CHECK_DEADLOCK FALSE
