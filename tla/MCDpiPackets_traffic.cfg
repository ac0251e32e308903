CONSTANTS
    Scenarios <- MCScenarios
    Peers <- MCPeers
    Initial <- MCInitial
    CAPACITY = 2
    MaxFails = 1
    MaxReroutes = 1
SPECIFICATION Spec
INVARIANTS TypeOK ValidStarts LookupNewest DecoyFallsShort DecoysAsConfigured DeliveredOnce
CHECK_DEADLOCK FALSE
