CONSTANTS
    MaxInstances = 3
    MaxChanges = 2
    MaxHandlers = 1
    Faults = {"accept", "listen", "invalid", "slow", "watch"}
SPECIFICATION FairSpec
INVARIANTS TypeOK OneServer
PROPERTIES Exits ChangeIsLoaded
