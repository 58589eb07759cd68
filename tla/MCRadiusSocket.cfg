CONSTANTS
    Threads = {t1, t2}
    Accounting = {t2}
    NumIds = 3
    Permanent = 1
    NumServers = 1
    NumRetries = 2
    MaxCalls = 4
    IdsOutlive = TRUE
    None = None
SPECIFICATION Spec
INVARIANT UniqueIds
INVARIANT SocketInUse
PROPERTY ImplementsRequests
INVARIANT SharedStateExact
