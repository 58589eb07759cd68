CONSTANTS Downloads = {d1, d2}
SPECIFICATION FairSpec
INVARIANT RestartsWithFile
INVARIANT FaultsNeedCancel
PROPERTY WaitReturns
PROPERTY EndIsSeen
