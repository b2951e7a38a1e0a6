SPECIFICATION Spec
CONSTANTS
    Objects = {o1, o2}
    NoObject = NoObject
    Paths = {x, y}
    Peers = {5, 7}
    Me = 9
    MaxDepth = 3
    IntRange = 16
    Steps16 = 8
    Steps8 = 4
    One = 4
    Single = 2
    Half = 4
    Turn = 16
    MaxFields = 2
    Arguments <- SomeArguments
    Declarations <- SomeDeclarations
SYMMETRY Symmetry
INVARIANTS
    TypeOK
    MessagesReach
    CommandsReach
    SenderAnswered
    RouteAsInner
    ArgumentsExact
    CommandsCarry
