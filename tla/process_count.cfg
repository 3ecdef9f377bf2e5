SPECIFICATION Spec
CONSTANTS
    Configs <- Configurations
    MaxRows = 1
    MaxWrites = 2
CHECK_DEADLOCK FALSE
PROPERTY CountRefreshed
