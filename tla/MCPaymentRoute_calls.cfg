\* Two payments of one agent, two changes of the policy, two faults.
SPECIFICATION Spec
CONSTANTS
    c1 = c1
    c2 = c2
    Calls = {c1, c2}
    IntentOf <- Apart
    MaxMoves = 2
    MaxFaults = 2
CHECK_DEADLOCK FALSE
INVARIANTS
    RowsNameRequests
    AnswersTellTheOutcome
    ErrorsMovedNothing
SYMMETRY Alike
