SPECIFICATION Spec
CONSTANTS
    Gateways = {g1, g2}
    Msgs = {m1, m2}
    DevMsgs = {}
    NoMsg = NoMsg
    JoinReq = JoinReq
    NoGw = NoGw
    GwSlots = 2
    Period = "Wakes"
    DevPeriod = "Wakes"
    Console = FALSE
    Modes = {"Static", "Dynamic"}
    UpChannels = 3
    DownChannels = 2
    UpSniffs = 3
    DownSniffs = 1
    Rounds = 1
    MaxFrames = 1
    MaxOwed = 2
    MaxFaults = 1
SYMMETRY Symmetry
INVARIANT KeyFits
INVARIANT TypeOK
INVARIANT ChannelsInTable
PROPERTY FrameSentOut
