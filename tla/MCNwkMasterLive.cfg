SPECIFICATION LiveSpec
CONSTANTS
    Nodes = {n1}
    Packs = {p1, p2}
    NoNode = NoNode
    NoPack = NoPack
    MaxNodes = 1
    JoinPeriods = {"Wakes", "UplinkOnly"}
    Spoilt = Spoilt
    BusDepth = 2
    AirDepth = 1
    MaxJoins = 2
    MaxUplinks = 1
PROPERTY DownPackLeaves
