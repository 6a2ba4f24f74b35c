SPECIFICATION MCFairSpec
CONSTANTS
    ChannelCapacity = 2
    QueueCapacity = 1
    MaxHistoryEvents = 3
    NoStore = NoStore
    AlertCapacity = 1
    Request = {u1, u2}
    Inputs <- MCInputs
    Store = {s1, s2}
INVARIANTS
    AccountedFor
    
PROPERTIES
    HistoryReturns
CHECK_DEADLOCK FALSE
