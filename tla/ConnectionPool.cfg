SPECIFICATION FairSpec
CONSTANTS
    Wide = 10
    Requests = {r1, r2}
    MaxConnections = 2
    Ops <- WriteOps
    Earlier <- AlmostAll
    MaxApprovals = 11
    MaxMonth = 2
    Nil = Nil
INVARIANTS TypeOK NumbersWithoutGaps RepeatsOverlap
PROPERTIES EveryRequestEnds ImplementsNumbering
