\* A subscription: its pipeline, its parsers and its callback.
CONSTANTS
    Scenarios <- MCScenarios
    Channel = 1
    Workers = 2
    MeterBound = 1
    EventsOf <- ParsedEvents
    Fatal <- ParserPanics
    Malformed <- ConversionPanics
    Silent <- Ping
    Direct <- NoTransaction

SPECIFICATION Spec

INVARIANTS
    StreamTypeOK
    Accounted
    BatchOrder
    MeterTrue
    OwnAmounts
    LegsTold
    OneEach
    DevFlagged
    OverrunsKnown
    RowsKeyed

PROPERTIES
    Promised
    Drained
    Flowing

CHECK_DEADLOCK FALSE
