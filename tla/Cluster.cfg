SPECIFICATION Spec
CONSTANTS
    Hosts = {h1, h2}
    Genesis = genesis
    None = none
    p1 = p1
    p2 = p2
    Payloads <- Siblings
    PrevState <- SiblingsPrev
    MaxSubmits = 1
    MaxEvents = 1
SYMMETRY HostSymmetry
CHECK_DEADLOCK FALSE
INVARIANTS
    CompleteRoundTried
    NoFork
    ClosesFullySigned
