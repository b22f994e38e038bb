SPECIFICATION LiveSpec
CONSTANTS
    SearchPeriod = 120
    SearchWait = 10
    WakePeriod = 120
    Offset = 0
    Air = 2
    Cycle = 120
    MaxErr = 1
    MaxBusy = 6
    MaxPacks = 1
    MaxFaults = 0
    MaxCmds = 0
PROPERTY Wakes
