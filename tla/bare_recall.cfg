\* Recall after the row was registered and before the first store.
SPECIFICATION Spec
CONSTANTS
    t1 = t1  t2 = t2  a = a  b = b
    Threads = {t1}
    Ids = {a, b}
    Ops <- AllOps
    NoId = NoId
    Months <- OneMonth
    Allowance = 2
    Unlimited = Unlimited
    MaxFaults = 0
SYMMETRY Interchangeable
INVARIANTS
    RecallNeverRaises
