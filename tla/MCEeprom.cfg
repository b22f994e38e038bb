\* MaxSaves: one for each thread and one after them.  The model stops when its
\* bounds are reached.
SPECIFICATION LiveSpec
CONSTANTS
    Threads = {"master", "mqtt", "uart"}
    Records = {"id", "cfg"}
    Reader <- MCReader
    Savers <- MCSavers
    Restarts <- MCRestarts
    Size = 4
    ValAt <- MCValAt
    CrcAt <- MCCrcAt
    MaxSaves = 3
    MaxResets = 2
INVARIANT TypeOK
INVARIANT ErrorNeedsClash
INVARIANT FlashIsRam
PROPERTY StartFindsLastSave
PROPERTY ImplementsStore
PROPERTY Heals
CHECK_DEADLOCK FALSE
