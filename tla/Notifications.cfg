SPECIFICATION FairSpec
CONSTANTS
    e1 = e1
    e2 = e2
    Clients <- TwoClients
    Employees = {e1, e2}
    EmployeeOf <- BothOfTheFirst
    Transactions = {t1}
    Plans <- SomePlans
    Counters = {k1}
    MaxRows = 2
    Nil = Nil
INVARIANTS TypeOK CommittedIsAnnounced CountsAreOwn SilentClientsAreDropped
PROPERTIES CountsSettle LiveClientsAreReached
