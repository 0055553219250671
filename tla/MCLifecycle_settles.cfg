SPECIFICATION FairSpec
CONSTANTS
    Session = {s1, s2}
    Proc = {p1, p2}
    Threshold = 2
    NoSession = NoSession
    Commands = {"start", "stop", "prune", "hardReset"}
    Faults = {"apply", "update", "remove"}
    Overlap = TRUE
PROPERTIES
    StartSettles
