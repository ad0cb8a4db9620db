\* Two replicas, a crash, a lost lock connection, nothing refused.
SPECIFICATION FairSpec
CONSTANTS
    r1 = r1
    r2 = r2
    s1 = s1
    s2 = s2
    NoReplica = NoReplica
    Backfill = Backfill
    Replicas = {r1, r2}
    Slots = {s1}
    Logs = {1}
    BlockOf <- OnePerBlock
    MaxBlock = 1
    InitHead = 0
    InitCheckpoints = {0}
    ChunkSize = 1
    ChunkAttempts = 2
    LogAttempts = 1
    FaultSites = {}
    MaxFaults = 0
    MaxCrashes = 1
    MaxLockLosses = 1
CHECK_DEADLOCK FALSE
INVARIANTS
    OnlyLockLossDuplicatesWatchers
PROPERTIES
    ImplementsEventLedger
    EveryEventInSightIsIndexed
    LeaderIsReplaced
