SPECIFICATION MCSpec
CONSTANTS
    MetricNameLabel <- MCName
    MinTime <- MCMinTime
    MaxTime = 9999
    MaxInt64 = 2100000000
    Queries = {1, 2}
    Requests <- MCRequests
    Asks <- MCAsks
    Series <- MCSeries
    Tables <- MCTables
    MetricOrder <- MCMetricOrder
    MaxConns = 3
    FaultKinds = {"query", "row", "scan", "cancel"}
    MaxFaults = 1
    NaN = NaN
    Stale = Stale
    Null = Null
    Scale = 60
    LookbackDelta = 2
    DefaultInterval = 2
    Statements <- MCStatements
    Stores <- MCStores
INVARIANTS
    ReadIsExact
    ConnectionsReturned
    EvaluatesAsDefined
PROPERTIES
    EveryQueryEnds
CHECK_DEADLOCK FALSE
