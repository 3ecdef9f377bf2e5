SPECIFICATION FairSpec
CONSTANTS
    Requests = {r1, r2}
    Replicas = {p1, p2}
    Names = {n1, n2}
    Descs = {d1}
    Nil = Nil
    NoRow = NoRow
    NoCall = NoCall
    Broker = TRUE
    Faults = TRUE
    MaxReruns = 1
INVARIANT TypeOK
INVARIANT OutboxAtomic
INVARIANT EffectsFollowCommit
PROPERTY PauseHolds
PROPERTY Answered
CHECK_DEADLOCK FALSE
