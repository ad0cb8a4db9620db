\* One payment, sent again after an error.
SPECIFICATION Spec
CONSTANTS
    c1 = c1
    c2 = c2
    Calls = {c1, c2}
    IntentOf <- Again
    MaxMoves = 0
    MaxFaults = 1
CHECK_DEADLOCK FALSE
INVARIANTS
    PaidOncePerIntent
