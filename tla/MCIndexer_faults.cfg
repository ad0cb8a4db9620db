\* One replica, every statement may be refused, three times in all.
SPECIFICATION Spec
CONSTANTS
    r1 = r1
    r2 = r2
    s1 = s1
    s2 = s2
    NoReplica = NoReplica
    Backfill = Backfill
    Replicas = {r1}
    Slots = {s1, s2}
    Logs = {1, 2}
    BlockOf <- OnePerBlock
    MaxBlock = 2
    InitHead = 1
    InitCheckpoints <- FirstBootOrGap
    ChunkSize = 1
    ChunkAttempts = 2
    LogAttempts = 2
    FaultSites = {"find", "head", "create", "fetch", "claim", "write", "release", "mark"}
    MaxFaults = 3
    MaxCrashes = 1
    MaxLockLosses = 0
CHECK_DEADLOCK FALSE
SYMMETRY IndexerSymmetry
INVARIANTS
    TypeOK
    ClaimsAreAccountedFor
    SpendHasAuditRow
