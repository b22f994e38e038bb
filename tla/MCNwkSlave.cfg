SPECIFICATION FairSpec
CONSTANTS
    DownPacks = {d1, d2}
    Broads = {b1}
    NoPack = NoPack
    UpChannels = 2
    DownChannels = 1
    SniffTries = 2
    BusDepth = 2
    MaxOrders = 2
    MaxFrames = 2
    MaxOwed = 1
    MaxFaults = 1
INVARIANTS TypeOK WorkServesQueue RxWaitsListening OnlyRepliesIntrude ChannelsInTable
PROPERTIES DownPackKept
PROPERTY GivesRadioBack
PROPERTY AllServed
