SPECIFICATION Spec
CONSTANTS
    Requests = {r1, r2, r3}
    Replicas = {p1}
    Names = {n1, n2}
    Descs = {d1}
    Nil = Nil
    NoRow = NoRow
    NoCall = NoCall
    Broker = TRUE
    Faults = TRUE
    MaxReruns = 1
SYMMETRY Symmetry
INVARIANT NamesUnique
PROPERTY OnlyRacesUndo
PROPERTY ImplementsRegistry
CHECK_DEADLOCK FALSE
