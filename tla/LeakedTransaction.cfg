SPECIFICATION Spec
CONSTANTS
    Wide = 10
    Requests = {r1}
    MaxConnections = 2
    Ops = {"read", "status"}
    Earlier <- AlmostAll
    MaxApprovals = 11
    MaxMonth = 2
    Nil = Nil
INVARIANTS ErrorsRollBack
