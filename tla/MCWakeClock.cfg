SPECIFICATION LiveSpec
CONSTANTS
    SearchPeriod = 40
    SearchWait = 10
    WakePeriod = 10
    Offset = 0
    Air = 2
    Cycle = 40
    MaxErr = 3
    MaxBusy = 3
    MaxPacks = 1
    MaxFaults = 1
    MaxCmds = 1
INVARIANT TypeOK
INVARIANT ClocksAgree
PROPERTY GivenUpForReason
PROPERTY Wakes
