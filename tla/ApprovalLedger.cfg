SPECIFICATION FairSpec
CONSTANTS
    e1 = e1
    e2 = e2
    Approvals = {a1, a2}
    Employees = {e1}
    Authors = {e1}
    Requests = {p1, p2}
    Edits <- OwnerEdits
    FaultPoints <- SomeFault
    MaxHistory = 1
    MaxSteps = 1
    Nil = Nil
PROPERTIES
    ImplementsLedger
    WaitersAreServed
