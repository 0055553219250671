SPECIFICATION Spec
CONSTANTS
    Kind <- Kinds
    Served <- ServedAs
    Naive <- NaivePlural
    Tabled <- InTable
    Rules <- FourRules
    PolicyOf <- PolicyNames
    Request <- Requests
    Actor <- Actors
    MaxRequests = 2
INVARIANTS BreachesCharged OnlyPlayerCharged RequireCredited EnforcedAsGraded
CHECK_DEADLOCK FALSE
