SPECIFICATION Spec
CONSTANTS
    Tasks = {t1}
    Workers = {w1}
    Created = {}
    Names = {a, b}
    Keys = {}
    NoKey = NoKey
    None = None
    MaxImport = 1
    Statement = 1
    MaxRuns = 2
INVARIANT ReplayHarmless
CHECK_DEADLOCK FALSE
