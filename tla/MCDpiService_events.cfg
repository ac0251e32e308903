\* A WAN with two links, one of which vanishes while it is down.
CONSTANTS
  wan = wan  wan6 = wan6
  Links = {wan, wan6}
  Vanishing = {wan6}
  Choices <- MCChoices
  Delays = {1, 2}
  StartLocks = {TRUE, FALSE}
  MaxNow = 2
  MaxFlips = 2
  MaxSaves = 1
  MaxOrders = 1
  MaxTokens = 2
SPECIFICATION Spec
INVARIANTS TypeOK FollowsLink WaitIsTimed
PROPERTY StopHolds
\* Time, link changes, saves and orders are bounded.
CHECK_DEADLOCK FALSE
