SPECIFICATION ProvisionSpec
CONSTANTS
    Setup <- Manifests
    Kept = {"ns"}
    Faulty <- Patched
    Gates <- Awaited
    Other = "x"
    Needy = {"db"}
    MaxMoves = 1
    MaxResets = 1
INVARIANT BrokenAgain
CHECK_DEADLOCK FALSE
