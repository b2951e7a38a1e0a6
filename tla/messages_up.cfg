SPECIFICATION FairSpec
CONSTANTS
    Keys = {k1, k2}
    Senders <- ClientSends
    StreamLimit = 3
    MaxStream = 4
    MaxAir = 2
PROPERTIES
    LearnsTarget
