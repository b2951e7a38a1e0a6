SPECIFICATION Spec
CONSTANTS
    Objs = {o1, o2, o3}
    NoObject = NoObject
    SwapsPeer = FALSE
    HostJoins = FALSE
    MaxId = 6
SYMMETRY ObjSymmetry
INVARIANTS
    TypeOK
    IdsOneToOne
    HostsOwnStay
    LearnedOnlyInSession
