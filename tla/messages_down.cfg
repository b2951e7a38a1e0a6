SPECIFICATION Spec
CONSTANTS
    Keys = {k1, k2}
    Senders <- ServerSends
    StreamLimit = 3
    MaxStream = 6
    MaxAir = 2
SYMMETRY KeySymmetry
INVARIANTS
    TypeOK
    RegistrationInv
    CallsResolve
    RegisteredOnce
