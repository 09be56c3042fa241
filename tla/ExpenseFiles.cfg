SPECIFICATION Spec
CONSTANTS
    Approvals = {a1}
    Files = {f1, f2}
    f1 = f1
    f2 = f2
    f3 = f3
    Requests = {p1}
    Bodies <- ClothingBodies
    FaultPoints <- NoFault
    Nil = Nil
INVARIANTS ExpensesKeepTheirFiles
SYMMETRY RequestSymmetry
