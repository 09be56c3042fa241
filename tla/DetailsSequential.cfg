SPECIFICATION FairSpec
CONSTANTS
    Approvals = {a1, a2}
    Requests = {p1}
    Ops = {"read", "update", "status", "cancel", "dates", "remove", "decide", "duplicate", "duplicateCancel"}
    Outside = {a1}
    Edits <- AllEdits
    MaxWrites = 3
    FaultPoints <- NoFault
    Nil = Nil
INVARIANTS WritersAreHeard
PROPERTIES EventuallyCurrent
