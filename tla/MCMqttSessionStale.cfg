SPECIFICATION Spec
CONSTANTS
    RingDepth = 2
    QueueDepth = 3
    MaxFaults = 2
    MaxPublish = 0
INVARIANT Subscribed
