SPECIFICATION Spec
CONSTANTS
    Objs = {o1, o2, o3}
    NoObject = NoObject
    SwapsPeer = TRUE
    HostJoins = FALSE
    MaxId = 4
SYMMETRY ObjSymmetry
INVARIANTS
    IdsOneToOne
