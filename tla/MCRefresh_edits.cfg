\* The updater and the watcher, fairly scheduled, while somebody else edits,
\* damages or removes a cache file.
CONSTANTS
    node = node
    t1 = t1
    t2 = t2
    r1 = r1
    updater = updater
    watcher = watcher
    Templates = {t1, t2}
    Order <- MCOrder2
    Requests = {}
    MaxVersion = 1
    MaxEdits = 1
    RestoreFails = TRUE
SPECIFICATION FairSpec
PROPERTIES Converges EverybodyReturns
