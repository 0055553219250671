SPECIFICATION Spec
CONSTANTS
    Session = {s1, s2}
    Proc = {p1}
    Threshold = 2
    NoSession = NoSession
    Commands = {"start", "prune"}
    Faults = {"listClusters"}
    Overlap = FALSE
PROPERTIES
    PruneRemovesOnlyGone
SYMMETRY Symmetry
