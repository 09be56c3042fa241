SPECIFICATION Spec
CONSTANTS
    Requests = {p1, p2}
    Names = {n1}
    KindCount = 2
    Strict = {1}
    Contents <- SomeContents
    MaxUpdates = 3
    MaxNew = 1
    Nil = Nil
INVARIANTS TypeOK OldRowsGo SubmittedRowsStand
SYMMETRY RequestSymmetry
CHECK_DEADLOCK FALSE
