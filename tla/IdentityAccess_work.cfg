SPECIFICATION Spec
CONSTANTS
    Request = {r1, r2}
    Guest = {g1}
    Root = Root
    Invitation = {i1, i2}
    Session = {s1, s2}
    NoRequest = NoRequest
    NoId = NoId
    StatusBudget = 2
    RotateBudget = 1
    ExpiryBudget = 1
SYMMETRY Symmetry
INVARIANTS TypeOK AcceptanceIsWhole SessionKeepsItsWrites TrailIsTrue
PROPERTIES SuspensionHolds
CHECK_DEADLOCK FALSE
