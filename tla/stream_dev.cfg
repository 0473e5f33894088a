\* The developer's flag where a token is created by a called instruction.
CONSTANTS
    Scenarios <- MCScenarios
    Channel = 1
    Workers = 2
    MeterBound = 1
    EventsOf <- ParsedEvents
    Fatal <- ParserPanics
    Malformed <- ConversionPanics
    Silent <- Ping
    Direct <- NoTransaction

SPECIFICATION Spec

INVARIANTS
    DevSeen

CHECK_DEADLOCK FALSE
