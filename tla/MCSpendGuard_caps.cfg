\* One agent whose caps are raised, tightened, scheduled and cancelled in the
\* middle of days of two clock units.
SPECIFICATION Spec
CONSTANTS
    a1 = a1
    c1 = c1
    ZeroAddress = ZeroAddress
    Agents = {a1}
    Counterparties = {c1}
    DayLength = 2
    CapChangeDelay = 2
    UnlimitedCap = 5
    PolicyInputs <- PolicyChanges
    GlobalCapInputs = {2}
    MaxTime = 7
    Amounts = {1, 2}
    Funding = 2
    MaxRequests = 1
    MaxBlocked = 1
CHECK_DEADLOCK FALSE
INVARIANTS
    PreFilterIsSound
PROPERTIES
    TimelockRespected
