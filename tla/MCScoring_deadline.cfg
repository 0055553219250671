SPECIFICATION Spec
CONSTANTS
    p1 = p1  p2 = p2  a = a  b = b  h1 = h1  h2 = h2
    Proc = {p1, p2}
    Objective = {a, b}
    Objectives <- TwoObjectives
    DependsOn <- Chain
    Points <- Weighted
    NodeFaulted = {b}
    Hint = {h1, h2}
    Hints <- NoHints
    Penalty <- PenaltyOne
    Breaches = {"fail"}
    RulePoints = 1
    Enforce = TRUE
    NodeAccess = FALSE
    TimeLimit = 1
    ResetFlags <- FastOrClock
    Edits = FALSE
    MaxTime = 3
    MaxAttempts = 2
SYMMETRY Symmetry
INVARIANT VerifiedWasPassed
PROPERTY NoLateBest
CHECK_DEADLOCK FALSE
