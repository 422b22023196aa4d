SPECIFICATION FairSpec
CONSTANTS
    a1 = a1
    a2 = a2
    s1 = s1
    s2 = s2
    Requests <- AllRequests
    Anonymous <- AllAnonymous
    MaxConcurrency = 2
INVARIANT NoSlotLeak
INVARIANT AnonymousLeavesRoom
PROPERTY ImplementsPool
PROPERTY EveryRequestAnswered
