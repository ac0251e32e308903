\* A client, the updater and the watcher over one template; failing rollbacks.
CONSTANTS
    node = node
    t1 = t1
    t2 = t2
    r1 = r1
    updater = updater
    watcher = watcher
    Templates = {t1}
    Order <- MCOrder1
    Requests = {r1}
    MaxVersion = 2
    MaxEdits = 0
    RestoreFails = TRUE
SPECIFICATION Spec
INVARIANTS TypeOK RefreshedMeansNew LastKnownGoodServed MemoryMatchesDisk
PROPERTY NoRegression
