SPECIFICATION Spec
CONSTANTS
    Requests = {r1, r2, r3}
    Emails = {e1, e2}
    Names = {n1, n2}
    Nil = Nil
    Bad = Bad
    NoRow = NoRow
    NoCall = NoCall
    NoReply = NoReply
SYMMETRY Symmetry
PROPERTY OnlyRacesUndo
PROPERTY ImplementsDirectory
CHECK_DEADLOCK FALSE
