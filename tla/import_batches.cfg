SPECIFICATION FairSpec
CONSTANTS
    Tasks = {t1}
    Workers = {w1, w2}
    Created = {c1}
    Names = {a, b}
    Keys = {}
    NoKey = NoKey
    None = None
    MaxImport = 3
    Statement = 2
    MaxRuns = 2
INVARIANT TypeOK
INVARIANT DoneIsImported
INVARIANT OncePerRun
INVARIANT RevivesDeletedOnly
INVARIANT RenameStands
INVARIANT Whole
PROPERTY LeaseDecides
PROPERTY Settles
CHECK_DEADLOCK FALSE
