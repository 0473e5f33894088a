\* The shutdown with two trades at a time.
SPECIFICATION Spec
CONSTANTS
    None = None
    o1 = o1
    o2 = o2
    o3 = o3
    m1 = m1
    m2 = m2
    m3 = m3
    Orders = {o1, o2}
    Mints = {m1, m2}
    OpenTrades = 2
    MaxTrades = 1
    Attempts = 1
    Slots = 3
    Amount = 2
    InputFee = 1
    QuoteFees = {1}
    Proceeds = {4}
    Misses <- Worse
    MaxPartials = 0
    InitBalance = 10
    Landed = FALSE
    Faults = {}
PROPERTY AllCompleted
