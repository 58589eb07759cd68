CONSTANTS
    Enabled <- MC_NoAuth
    CheckOld = TRUE
    Ids <- MC_Ids
    NINVALID_MAX = 0
    INITIAL = 1
    Challenges = {}
    fragment_size = 1
    MaxMsg = 0
    Paes = {a1}
    PAE_GROUP_ADDR = group
    Pids = {p1, p2}
SPECIFICATION FairSpec
PROPERTY KeepsReceiving
