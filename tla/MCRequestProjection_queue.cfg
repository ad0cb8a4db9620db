\* One request, two sweeps that overlap, one statement refused or process dead.
SPECIFICATION FairSpec
CONSTANTS
    q1 = q1
    q2 = q2
    s1 = s1
    s2 = s2
    NoRequest = NoRequest
    Requests = {q1}
    Sweeps = {s1, s2}
    TTL = 2
    MaxTime = 4
    MaxFaults = 1
CHECK_DEADLOCK FALSE
INVARIANTS
    SweptOnlyAfterWindow
    ExpiryRecordedOnce
    NothingVanishesUnexplained
PROPERTIES
    ClosedRowsStayClosed
    EveryRowIsClosed
