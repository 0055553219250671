SPECIFICATION Spec
CONSTANTS
    p1 = p1  p2 = p2  a = a  b = b  h1 = h1  h2 = h2
    Proc = {p1, p2}
    Objective = {a}
    Objectives <- OneObjective
    DependsOn <- NoDeps
    Points <- Three
    NodeFaulted = {}
    Hint = {h1, h2}
    Hints <- OneHint
    Penalty <- PenaltyOne
    Breaches = {"points"}
    RulePoints = 1
    Enforce = FALSE
    NodeAccess = FALSE
    TimeLimit = 1
    ResetFlags <- Practice
    Edits = TRUE
    MaxTime = 3
    MaxAttempts = 2
SYMMETRY Symmetry
INVARIANTS TypeOK BestIsMaxOnTime HintsOnce
PROPERTY AttemptsKept
CHECK_DEADLOCK FALSE
