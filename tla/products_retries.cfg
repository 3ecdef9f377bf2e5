SPECIFICATION Spec
CONSTANTS
    Requests = {r1, r2, r3}
    Callers = {alice, bob}
    Headers = {h1}
    Names = {n1}
    Prices = {p1}
    Nil = Nil
    NoRow = NoRow
    NoCall = NoCall
    NoReply = NoReply
    Bad = Bad
    Auth = TRUE
    MaxFaults = 2
SYMMETRY Symmetry
INVARIANT TypeOK
INVARIANT OncePerKey
INVARIANT ReplaysFaithful
INVARIANT BusyIsBusy
PROPERTY ImplementsCatalog
CHECK_DEADLOCK FALSE
