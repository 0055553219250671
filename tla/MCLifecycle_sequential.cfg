SPECIFICATION Spec
CONSTANTS
    Session = {s1, s2, s3}
    Proc = {p1}
    Threshold = 2
    NoSession = NoSession
    Commands = {"start", "stop", "stopAll", "prune", "reset", "hardReset", "verify"}
    Faults = {"crash", "provision", "apply", "destroy", "update", "remove"}
    Overlap = FALSE
INVARIANTS
    TypeOK
    ClusterHasRecord
    ClustersBelowThreshold
    PruneReconciles
SYMMETRY Symmetry
