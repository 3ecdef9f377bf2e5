SPECIFICATION Spec
CONSTANTS
    Events = {e1, e2}
    Consumers = {c1, c2}
    None = None
    Retention = 1
    MaxMonth = 2
    MaxCopies = 2
SYMMETRY Symmetry
INVARIANT TypeOK
INVARIANT RecordedOnce
INVARIANT NotLost
INVARIANT DoneIsRecorded
PROPERTY ImplementsLog
CHECK_DEADLOCK FALSE
