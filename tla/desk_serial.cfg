\* One trade at a time: the wallet, the totals and the shutdown.
SPECIFICATION Spec
CONSTANTS
    None = None
    o1 = o1
    o2 = o2
    o3 = o3
    m1 = m1
    m2 = m2
    m3 = m3
    Orders = {o1, o2, o3}
    Mints = {m1, m2}
    OpenTrades = 1
    MaxTrades = 2
    Attempts = 1
    Slots = 3
    Amount = 2
    InputFee = 1
    QuoteFees = {1}
    Proceeds = {4}
    Misses <- AtMostQuoted
    MaxPartials = 1
    InitBalance = 5
    Landed = FALSE
    Faults = {"mintlock", "mintunlock"}
INVARIANTS WalletAgrees TotalsAreFills ExitIsClean
PROPERTY ClosedIsFinal
SYMMETRY Twins
