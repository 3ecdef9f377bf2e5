SPECIFICATION Spec
CONSTANTS
    Ids = {1, 2, 3, 4}
    Times = {1, 2}
    NoKey = NoKey
    Limit = 2
    Rows = 2
    MaxPage = 1
INVARIANT TypeOK
INVARIANT NewestFirst
INVARIANT NoGap
INVARIANT Progresses
INVARIANT TotalFits
CHECK_DEADLOCK FALSE
