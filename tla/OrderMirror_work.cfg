SPECIFICATION Spec
CONSTANTS
    o1 = o1
    a1 = a1
    Order = {o1}
    AfterSale = {a1}
    OrderOf <- MCOrderOf
    Request = {q1, q2}
    Key = {k1, k2}
    Worker = {w1, w2}
    Event = {e1}
    NoItem = NoItem
    NoKey = NoKey
    MaxVersion = 3
    Head <- MCHead
    Tail <- MCTail
    Unreadable = {2}
    IssueAt = 2
    FaultBudget = 1
INVARIANTS TypeOK RowsAreWhole
PROPERTIES SyncIsCurrent CallbackArrives
CHECK_DEADLOCK FALSE
