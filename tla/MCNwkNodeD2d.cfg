SPECIFICATION LiveSpec
CONSTANTS
    Gateways = {}
    Msgs = {m1}
    DevMsgs = {d1}
    NoMsg = NoMsg
    JoinReq = JoinReq
    NoGw = NoGw
    GwSlots = 1
    Period = "Wakes"
    DevPeriod = "Wakes"
    Console = FALSE
    Modes = {"Static", "Dynamic"}
    UpChannels = 3
    DownChannels = 2
    UpSniffs = 3
    DownSniffs = 2
    Rounds = 2
    MaxFrames = 2
    MaxOwed = 0
    MaxFaults = 1
INVARIANT ChannelsInTable
INVARIANT RadioAwake
PROPERTY D2dLeavesWithEvent
PROPERTY JobsEnd
