\* Three processes, one of them killed, three commands that fail.  (Three removals of one
\* clean-up that fail while everything after them works leave rules of the last process.)
CONSTANTS
    Configs <- MCConfigs
    Packets <- MCPackets
    MaxStarts = 3
    MaxKills = 1
    MaxFails = 3
SPECIFICATION RulesSpec
INVARIANTS NeverBeyond RulesMean
\* Starts are bounded.
CHECK_DEADLOCK FALSE
