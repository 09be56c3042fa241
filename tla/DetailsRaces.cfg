SPECIFICATION FairSpec
CONSTANTS
    Approvals = {a1}
    Requests = {p1, p2}
    Ops = {"read", "update", "cancel", "decide", "remove"}
    Outside = {a1}
    Edits <- SomeEdits
    MaxWrites = 3
    FaultPoints <- SomeFault
    Nil = Nil
INVARIANTS TypeOK NoOldSubmissionUnderNew
PROPERTIES EventuallyCurrent
