SPECIFICATION FairSpec
CONSTANTS
    j1 = j1
    c1 = c1
    c2 = c2
    w1 = w1
    w2 = w2
    NoJob = NoJob
    Jobs = {j1}
    Clients = {c1, c2}
    Workers = {w1, w2}
    HardLimit = 1
    RunningGrace = 1
    QueuedCutoff = 2
    Retention = 1
    Limited = {w1}
    MaxFaults = 2
    LastRequest = 0
    LastClaim = 2
    Horizon = 4
INVARIANTS
    TypeOK
    LiveRunOwnsJob
PROPERTIES
    KeepsPromise
    SweepCatchesUp
