\* A token reported twice and traded, with failing enrichments and batches.
SPECIFICATION FairSpec
CONSTANTS
    None = None
    t1 = t1
    Tokens = {t1}
    Creations = {c1, c2}
    Swaps = {s1, s2}
    About <- OneToken
    Channel = 2
    MaxBatch = 4
    FlushMayFail = TRUE
    Threshold = 2
    MaxLooks = 2
    EnrichMayFail = TRUE
CHECK_DEADLOCK FALSE
INVARIANTS TypeOK PriceIsNewest OrderedIsPriced OrderedOnce AsIfSerial
PROPERTY UpdatesLand
