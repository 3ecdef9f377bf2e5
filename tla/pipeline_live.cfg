SPECIFICATION FairSpec
CONSTANTS
    Events = {e1}
    Consumers = {c1, c2}
    None = None
    Retention = 1
    MaxMonth = 2
    MaxCopies = 2
PROPERTY EveryEventRecorded
CHECK_DEADLOCK FALSE
