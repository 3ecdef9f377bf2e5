SPECIFICATION Spec
CONSTANTS
    Configs <- Configurations
    MaxRows = 1
    MaxWrites = 2
INVARIANT TypeOK
INVARIANT NeedsMet
INVARIANT NothingLeaks
INVARIANT InstallOnly
PROPERTY CountCatchesUp
PROPERTY Settles
CHECK_DEADLOCK FALSE
