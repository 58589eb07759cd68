CONSTANTS
    Enabled <- MC_Enabled
    CheckOld = TRUE
    Ids <- MC_Ids
    NINVALID_MAX = 5
    INITIAL = 2
    Challenges <- MC_Challenges
    fragment_size = 2
    MaxMsg = 4
SPECIFICATION Spec
INVARIANTS
    SslLive
    FragSendHasData
    InvalidsBounded
PROPERTY RetransmissionHarmless
