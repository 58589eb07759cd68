CONSTANTS
    Threads = {t1, t2, t3}
    Accounting = {t2}
    NumIds = 4
    Permanent = 1
    NumServers = 1
    NumRetries = 1
    MaxCalls = 3
    IdsOutlive = TRUE
    None = None
SPECIFICATION Spec
INVARIANT ResponsesAreRead
