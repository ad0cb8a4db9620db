\* Nothing refused, nothing dies: a live batch before the backfill.
SPECIFICATION Spec
CONSTANTS
    r1 = r1
    r2 = r2
    s1 = s1
    s2 = s2
    NoReplica = NoReplica
    Backfill = Backfill
    Replicas = {r1}
    Slots = {s1}
    Logs = {1, 2}
    BlockOf <- OnePerBlock
    MaxBlock = 2
    InitHead = 1
    InitCheckpoints = {0}
    ChunkSize = 1
    ChunkAttempts = 2
    LogAttempts = 1
    FaultSites = {}
    MaxFaults = 0
    MaxCrashes = 0
    MaxLockLosses = 0
CHECK_DEADLOCK FALSE
PROPERTY BootSkipsNothing
