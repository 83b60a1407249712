\* Two calls at once store, recall and delete, one of them fails, a month passes.
SPECIFICATION Spec
CONSTANTS
    t1 = t1  t2 = t2  a = a  b = b
    Threads = {t1, t2}
    Ids = {a, b}
    Ops <- MemoryOps
    NoId = NoId
    Months <- TwoMonths
    Allowance = 2
    Unlimited = Unlimited
    MaxFaults = 1
SYMMETRY Interchangeable
INVARIANTS
    AckedIsKept
    MetersAgree
PROPERTIES
    KeepsMeter
