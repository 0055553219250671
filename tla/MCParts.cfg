SPECIFICATION PartsSpec
CONSTANTS
    Challenge = {c1, c2}
    MaxVersion = 2
    MaxBuild = 3
    Rank <- TextOrder
    MaxReaders = 1
    Ref = {r1, r2}
    MaxPulls = 3
    Proc = {p1, p2}
    Faults = {"kill", "copy", "rename", "remove"}
    NoProc = NoProc
    NoRef = NoRef
    Puller = {"q1", "q2", "q3"}
    NoPuller = NoPuller
    PullFaults = {"kill", "docker", "temp", "rename"}
    Setup <- Manifested
    Kept = {"ns"}
    Faulty <- Broken
    Gates <- Awaited
    Other = "x"
    Needy = {"db"}
    MaxMoves = 2
    MaxResets = 2
    Fact = {"a", "b", "c"}
    Objectives <- Card
    Verifier = {p1, p2}
    MaxFlips = 2
    MaxRuns = 2
    EvalFaults = {"api", "probe", "kill"}
    Authored <- Written
    KeepEnv = FALSE
    MaxTurns = 2
    Document <- Documents
    Key = {"a", "b", "spec"}
    Depth = 4
    Float <- Rounded
    Input <- Inputs
    TestFaults = {"start", "api", "solution", "destroy", "prune", "kill"}
INVARIANTS
    FinalWhole
    ServesNewest
    ArchivesWhole
    PulledOnce
    LocksInUse
    ResetForgets
    BrokenAsIntended
    SteadyPasses
    PassedWasTrue
    FailedWasFalse
    NonVacuous
    PassedMeansSolved
    TornDown
    AcyclicAccepted
    MatchIsEmbedding
    VacuousMatchesAll
PROPERTIES
    FreshOrNothing
    ExportComplete
    ImplementsRegistry
SYMMETRY Symmetry
CHECK_DEADLOCK FALSE
