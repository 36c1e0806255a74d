CONSTANTS
    c1 = c1
    c2 = c2
    s1 = s1
    s2 = s2
    None = None
    Callers <- MCCallers
    Subscribers <- MCSubscribers
    Wants <- MCWants
    QueueCap = 1
    Attempts = 2
    MaxDeliveries = 1
    MaxVersion = 2
    MaxReadErrors = 1
    MaxRestarts = 1
SPECIFICATION FairSpec
PROPERTIES
    InOrder
    CallsReturn
    CloseReturns
    Told
CHECK_DEADLOCK FALSE
