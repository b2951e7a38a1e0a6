SPECIFICATION Spec
CONSTANTS
    Placed = {p1}
    Nodes = {n1}
    NoObject = NoObject
    MaxId = 5
INVARIANTS
    TypeOK
    SameNode
    OneToOne
    EntitiesNamed
    AckedIsPlaced
    BuiltAreSpawned
PROPERTIES
    ClientShares
