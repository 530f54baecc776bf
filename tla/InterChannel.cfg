SPECIFICATION LiveSpec
CONSTANTS
    Channels = {1, 2}
    Transfers = {t1, t2}
    t1 = t1
    t2 = t2
    Clients = {client}
    Sweep = sweep
    None = none
    Deployments <- MCDeployments
    MaxFaults = 2
INVARIANTS TransferAtomic LandedInSignedOrder
PROPERTIES CommittedLands PendingResolves
CHECK_DEADLOCK FALSE
