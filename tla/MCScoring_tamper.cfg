SPECIFICATION Spec
CONSTANTS
    p1 = p1  p2 = p2  a = a  b = b  h1 = h1  h2 = h2
    Proc = {p1, p2}
    Objective = {a}
    Objectives <- OneObjective
    DependsOn <- NoDeps
    Points <- Three
    NodeFaulted = {}
    Hint = {h1, h2}
    Hints <- NoHints
    Penalty <- PenaltyOne
    Breaches = {"points"}
    RulePoints = 1
    Enforce = TRUE
    NodeAccess = FALSE
    TimeLimit = 0
    ResetFlags <- HardOnly
    Edits = FALSE
    MaxTime = 1
    MaxAttempts = 1
SYMMETRY Symmetry
INVARIANT TamperedByPlayer
CHECK_DEADLOCK FALSE
