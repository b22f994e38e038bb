SPECIFICATION LiveSpec
CONSTANTS
    Gateways = {g1}
    Msgs = {m1}
    DevMsgs = {}
    NoMsg = NoMsg
    JoinReq = JoinReq
    NoGw = NoGw
    GwSlots = 1
    Period = "Wakes"
    DevPeriod = "Wakes"
    Console = TRUE
    Modes = {"Static", "Dynamic"}
    UpChannels = 3
    DownChannels = 2
    UpSniffs = 3
    DownSniffs = 1
    Rounds = 1
    MaxFrames = 1
    MaxOwed = 1
    MaxFaults = 1
INVARIANT FrameIsQueued
PROPERTY JobsEnd
PROPERTY UplinkLeaves
