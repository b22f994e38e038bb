SPECIFICATION Spec
CONSTANTS
    Nodes = {n1}
    Packs = {p1, p2}
    NoNode = NoNode
    NoPack = NoPack
    MaxNodes = 1
    JoinPeriods = {"Always"}
    Spoilt = Spoilt
    BusDepth = 2
    AirDepth = 2
    MaxJoins = 1
    MaxUplinks = 0
SYMMETRY Symmetry
PROPERTY SuccessIsTrue
