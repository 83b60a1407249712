\* The sweep as the only thread: three purchases of two tiers, lapses and one failure.
SPECIFICATION Spec
CONSTANTS
    u1 = u1  i1 = i1  i2 = i2  i3 = i3  tierA = tierA  tierB = tierB
    FreeTier = free
    PaidTiers = {tierA, tierB}
    NoDate = NoDate
    NoInvoice = NoInvoice
    Users = {u1}
    Invoices = {i1, i2, i3}
    Handlers = {}
    Sweeps = {s1}
    Operators = {}
    Owner <- OneBuyer
    Plan <- TwoTiers
    MonobankSteps <- AlwaysPaid
    SubscriptionDays = 3
    ReconcileAfter = 0
    SweepLimit = 3
    DayLength = 4
    SecondLength = 2
    WarningDays = 1
    PromptTime = 0
    Unreachable = {}
    GiftDays = {}
    MaxTime = 4
    MaxFaults = 1
    MaxGifts = 0
SYMMETRY Interchangeable
INVARIANTS
    WarningIsInTime
PROPERTIES
    PromptRunsDown
    KeepsContract
