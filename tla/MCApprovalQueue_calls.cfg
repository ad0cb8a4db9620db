\* A call of the organisation and one of the global deployment, whose agents
\* have moved to the organisation: two accounts or one, two contracts or one.
SPECIFICATION LeanSpec
CONSTANTS
    c1 = c1
    c2 = c2
    w1 = w1
    w2 = w2
    Relayer = Relayer
    Calls = {c1, c2}
    Wallets = {w1, w2}
    DecisionOf <- Decisions
    HomeOf <- MixedCalls
    Capped = {c1}
    Large <- FirstIsLarge
    AgentHome = "org"
    MaxRequests = 1
CHECK_DEADLOCK FALSE
INVARIANTS
    OneExecutionPerWallet
    EveryDecisionIsSigned
    AnswersAreTrue
    ListedCallsArrive
    OneDecisionReported
PROPERTIES
    EveryCallIsAnswered
