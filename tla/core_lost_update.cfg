SPECIFICATION Spec
CONSTANTS
    Requests = {r1, r2, r3}
    Replicas = {p1}
    Names = {n1, n2}
    Descs = {d1, d2}
    Nil = Nil
    NoRow = NoRow
    NoCall = NoCall
    Broker = FALSE
    Faults = FALSE
    MaxReruns = 0
SYMMETRY Symmetry
PROPERTY NilFieldsUnchanged
CHECK_DEADLOCK FALSE
