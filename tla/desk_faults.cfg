\* Failing Storage calls, and swaps that settle behind an error and are repeated.
SPECIFICATION FairSpec
CONSTANTS
    None = None
    o1 = o1
    o2 = o2
    o3 = o3
    m1 = m1
    m2 = m2
    m3 = m3
    Orders = {o1, o2}
    Mints = {m1}
    OpenTrades = 1
    MaxTrades = 0
    Attempts = 2
    Slots = 2
    Amount = 1
    InputFee = 0
    QuoteFees = {0}
    Proceeds = {0}
    Misses = {0}
    MaxPartials = 1
    InitBalance = 3
    Landed = TRUE
    Faults = {"tradescount", "tradeexists", "walletbalance", "walletupdate",
              "tradecreate", "tradepartialsell", "traderealized"}
INVARIANTS TypeOK BuysBounded
PROPERTY OrdersEnd
