SPECIFICATION Spec
CONSTANTS
    Request = {q1, q2}
    Key = {k1, k2}
    Date = {d1, d2}
    Worker = {w1, w2}
    o1 = o1
    d1 = d1
    fund = fund
    bill = bill
    FundId = {fund}
    BillId = {bill}
    Order = {o1}
    NoOrder = NoOrder
    NoId = NoId
    NoKey = NoKey
    NoDate = NoDate
    NoRow = NoRow
    Unreadable = Unreadable
    Length <- MCLength
    PageLimit = 2
    FaultBudget = 1
    Amounts <- MCAmounts
    Given <- MCGiven
    Identity <- MCIdentity
    OrderOf <- MCOrderOf
INVARIANTS TypeOK KeyDecides
PROPERTIES SummaryIsHonest ImportIsComplete
SYMMETRY Symmetry
CHECK_DEADLOCK FALSE
