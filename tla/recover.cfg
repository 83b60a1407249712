\* No assumption on webhooks, a grant by hand, one failure of any kind: the sweep catches up.
SPECIFICATION FairSpec
CONSTANTS
    u1 = u1  i1 = i1  i2 = i2  i3 = i3  tierA = tierA  tierB = tierB
    FreeTier = free
    PaidTiers = {tierA}
    NoDate = NoDate
    NoInvoice = NoInvoice
    Users = {u1}
    Invoices = {i1}
    Handlers = {h1}
    Sweeps = {s1}
    Operators = {o1}
    Owner <- OneBuyer
    Plan <- SameTier
    MonobankSteps <- AllMonobankSteps
    SubscriptionDays = 2
    ReconcileAfter = 1
    SweepLimit = 2
    DayLength = 4
    SecondLength = 2
    WarningDays = 1
    PromptTime = 1
    Unreachable = {}
    GiftDays <- OpenEndedGift
    MaxTime = 3
    MaxFaults = 1
    MaxGifts = 1
PROPERTIES
    EndIsRecorded
    LapsedIsDowngraded
