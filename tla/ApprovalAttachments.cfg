SPECIFICATION Spec
CONSTANTS
    Approvals = {a1}
    Files = {f1, f2, f3}
    f1 = f1
    f2 = f2
    f3 = f3
    Requests = {p1, p2}
    Bodies <- TwoDocuments
    FaultPoints <- SomeFault
    Nil = Nil
INVARIANTS TypeOK CommittedListsStand FilesInUseAreKept
PROPERTIES NoFileForgotten
SYMMETRY RequestSymmetry
