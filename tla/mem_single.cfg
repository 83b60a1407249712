\* One call at a time, every operation, two failures anywhere.
SPECIFICATION Spec
CONSTANTS
    t1 = t1  t2 = t2  a = a  b = b
    Threads = {t1}
    Ids = {a, b}
    Ops <- AllOps
    NoId = NoId
    Months <- OneMonth
    Allowance = 4
    Unlimited = Unlimited
    MaxFaults = 2
SYMMETRY Interchangeable
INVARIANTS
    TypeOK
    BackedIsRegistered
    OnlyRecallRaises
PROPERTIES
    CountIsRepaired
