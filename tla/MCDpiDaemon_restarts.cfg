\* Restarts, respawns, kills and failing commands with either tool, and operations of the
\* init script beside each other.
CONSTANTS
  Order <- MCOrder
  Tools = {"nft", "iptables"}
  MaxErrors = 2
  MaxProcs = 3
  MaxScripts = 2
  MaxOrders = 3
  MaxCrashes = 1
  MaxFails = 1
SPECIFICATION Spec
INVARIANTS TypeOK RulesStand RulesHaveListener StopLeavesNothing
CONSTRAINT Followed
\* Orders, processes and faults are bounded.
CHECK_DEADLOCK FALSE
