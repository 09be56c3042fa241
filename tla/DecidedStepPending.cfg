SPECIFICATION Spec
CONSTANTS
    e1 = e1
    e2 = e2
    Approvals = {a1}
    Employees = {e1, e2}
    Authors = {e1}
    Requests = {p1}
    Edits <- ChainEdits
    FaultPoints <- AnyFault
    MaxHistory = 2
    MaxSteps = 3
    Nil = Nil
INVARIANTS
    OnlyPendingStepsDecided
