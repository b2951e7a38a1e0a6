SPECIFICATION FairSpec
CONSTANTS
    Placed = {p1}
    Nodes = {n1}
    NoObject = NoObject
    MaxId = 3
PROPERTIES
    FreedGoes
    SpawnedComes
    PlacedComes
