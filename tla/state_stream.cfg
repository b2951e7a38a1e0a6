SPECIFICATION Spec
CONSTANTS
    IntRange = 8
    Steps16 = 16
    Steps8 = 8
    One = 8
    Single = 3
    Half = 4
    Turn = 64
    s1 = s1
    s2 = s2
    Syncs = {s1, s2}
    Followed = s1
    Intervals = {0, 2, 3}
    DefaultInterval = 4
    Rates = {3}
    Longest = 4
    MaxGap = 7
    Games <- AllGames
    Frame = 64
    Window = 192
    Gain = 2
    Slew = 16
    Snap = 100
    Lags = {0, 64, 192, 320}
    Frames = 5
    MaxSize = 3
    Teleport = 24
    ExtrapMax = 2
    Times = {1, 2, 3, 5}
    Positions = {0, 24, 60}
    Velocities <- SomeVelocities
    Renders = {0, 1, 2, 3, 4, 5, 6, 7, 8}
    MaxPushes = 4
INVARIANTS
    TypeOK
    HeldIsClose
    ShownInPlace
    OtherCodingIgnored
    MarkedIsRead
    TurnsAreShort
    Paced
    EstimateFollows
    ShownFromNewest
