CONSTANTS
  MaxSaves = 2
  MaxCalls = 1
  MaxRuns = 2
  Faults = {"invalid", "crash", "start", "stop", "signal"}
SPECIFICATION Spec
INVARIANTS TypeOK TemporaryRemoved SwitchHolds
PROPERTY UserServiceSurvives
\* Saves and runs are bounded.
CHECK_DEADLOCK FALSE
