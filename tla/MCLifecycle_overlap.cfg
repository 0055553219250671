SPECIFICATION Spec
CONSTANTS
    Session = {s1, s2}
    Proc = {p1, p2}
    Threshold = 2
    NoSession = NoSession
    Commands = {"start", "force", "stop", "stopAll", "prune", "reset", "hardReset", "verify"}
    Faults = {"crash", "provision", "apply", "destroy", "remove"}
    Overlap = TRUE
PROPERTIES
    PruneSparesPlayable
SYMMETRY Symmetry
