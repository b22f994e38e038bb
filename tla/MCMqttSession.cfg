\* RingDepth: two frames, so that a third is dropped.
\* MaxFaults: two failures, the second while the first is being repaired.
SPECIFICATION LiveSpec
CONSTANTS
    RingDepth = 2
    QueueDepth = 3
    MaxFaults = 2
    MaxPublish = 1
INVARIANT MTypeOK
INVARIANT SubscribedUnlessStale
PROPERTY Online
