CONSTANTS
    Stations = {s1, s2}
    CheckOld = TRUE
    InitialIds = {1}
    Tries = 2
    MaxChallenges = 2
    MaxQueue = 1
    MaxInbox = 1
    None = None
SPECIFICATION Spec
SYMMETRY Symmetry
INVARIANT TypeOK
INVARIANT AcceptedOnce
INVARIANT StartsAreEarned
INVARIANT FailureHasCause
