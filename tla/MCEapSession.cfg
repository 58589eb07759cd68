CONSTANT MaxLogins = 2
SPECIFICATION FairSpec
INVARIANTS
    FaultsNeedRace
    NoSessionIsClean
    UserCanDisconnect
    ConnectedIsAuthenticated
    LogoffIsLast
PROPERTIES
    ImplementsLife
    ConnectedFromConnecting
    LogoutReturns
    FailureReachesUser
