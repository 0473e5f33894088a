\* One trade over rising and falling prices.
SPECIFICATION FairSpec
CONSTANTS
    Prices = {5, 9, 14, 16, 19, 20}
    Slips <- BothSides
    Entry = 10
    Units = 8
    PartialTrigger = 30
    PartialShare = 50
    TrailingTrigger = 25
    TrailingShare = 50
    TrailingStop = 5
    TrailingDrop = 10
    TakeProfit = 95
    StopLoss = 40
    LiquidityWatch = TRUE
    HoldTime = 2
    TimeClose = 3
    Attempts = 2
    Capacity = 2
    PriceMayFail = TRUE
INVARIANTS TypeOK CostBasis SellsEarned TrailingFromPeak KeptInBand
PROPERTIES KeeperEnds ImplementsPosition
