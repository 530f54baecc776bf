SPECIFICATION RetrySpec
CONSTANTS
    Channels = {1, 2}
    Transfers = {t1, t2}
    t1 = t1
    t2 = t2
    Clients = {client}
    Sweep = sweep
    None = none
    Deployments <- MCRepeated
    MaxFaults = 2
PROPERTY StagedResolves
CHECK_DEADLOCK FALSE
