\* Two agents share the global ceiling; three days of requests.
SPECIFICATION Spec
CONSTANTS
    a1 = a1
    a2 = a2
    c1 = c1
    ZeroAddress = ZeroAddress
    Agents = {a1, a2}
    Counterparties = {c1}
    DayLength = 1
    CapChangeDelay = 1
    UnlimitedCap = 5
    PolicyInputs <- OnePolicy
    GlobalCapInputs = {4}
    MaxTime = 3
    Amounts = {1, 2}
    Funding = 4
    MaxRequests = 2
    MaxBlocked = 0
SYMMETRY AgentSymmetry
CHECK_DEADLOCK FALSE
INVARIANTS
    TypeOK
    BooksMatchToken
    CeilingNeverUnderCounts
    GlobalDayCovers
    FlagsMatchFate
    HeadroomNeverLeaks
    AuditReconciles
PROPERTIES
    ImplementsDailyBudget
