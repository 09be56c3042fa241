SPECIFICATION FairSpec
CONSTANTS
    e1 = e1
    e2 = e2
    d1 = d1
    d2 = d2
    PermA = PermA
    PermB = PermB
    Employees = {e1, e2}
    Approvals = {a1, a2}
    Destinations = {d1, d2}
    AttireGroup <- SomeGroups
    Submissions <- SomeSubmissions
    Bodies <- SomeBodies
    ByHand <- SomeByHand
    DutyDays = {0}
    Questions <- SomeQuestions
    TwoYears = 0
    MaxDay = 1
    MaxWrites = 3
    Missing = Missing
    Invalid = Invalid
    Nil = Nil
INVARIANTS TypeOK JobKeepsEarlierDates
PROPERTIES AnswersAreOwn ClaimsGetDated ImplementsClaiming
CHECK_DEADLOCK FALSE
