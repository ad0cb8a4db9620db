\* The agents' organisation has moved to a deployment of its own.
SPECIFICATION Spec
CONSTANTS
    c1 = c1
    c2 = c2
    w1 = w1
    w2 = w2
    Relayer = Relayer
    Calls = {c1, c2}
    Wallets = {w1}
    DecisionOf <- Decisions
    HomeOf <- GlobalCalls
    Capped = {c2}
    Large <- FirstIsLarge
    AgentHome = "org"
    MaxRequests = 1
CHECK_DEADLOCK FALSE
INVARIANTS
    LandsWhereShown
