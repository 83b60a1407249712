\* Three callers, three months, a budget of two.
SPECIFICATION Spec
CONSTANTS
    c1 = c1  c2 = c2  c3 = c3
    Callers = {c1, c2, c3}
    Months <- ThreeMonths
    Allowance = 2
    Unlimited = Unlimited
SYMMETRY Interchangeable
INVARIANTS
    TypeOK
    OvershootBounded
