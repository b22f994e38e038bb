SPECIFICATION Spec
CONSTANTS
    Nodes = {n1, n2}
    Packs = {p1, p2}
    NoNode = NoNode
    NoPack = NoPack
    MaxNodes = 2
    JoinPeriods = {"Wakes"}
    Spoilt = Spoilt
    BusDepth = 2
    AirDepth = 1
    MaxJoins = 2
    MaxUplinks = 2
SYMMETRY Symmetry
INVARIANT TypeOK
INVARIANT AnnouncedIsSent
INVARIANT JoinedIsKnown
PROPERTY PackLeavesWithEvent
PROPERTY TimesOutAfterThree
PROPERTY UplinkRead
PROPERTY ImplementsService
