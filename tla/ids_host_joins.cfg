SPECIFICATION Spec
CONSTANTS
    Objs = {o1, o2, o3}
    NoObject = NoObject
    SwapsPeer = FALSE
    HostJoins = TRUE
    MaxId = 4
SYMMETRY ObjSymmetry
INVARIANTS
    HostsOwnStay
