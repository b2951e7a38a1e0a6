SPECIFICATION Spec
CONSTANTS
    Keys = {k1, k2}
    Senders <- ServerSends
    StreamLimit = 3
    MaxStream = 4
    MaxAir = 2
SYMMETRY KeySymmetry
INVARIANTS
    PeerStateGoesWithIt
