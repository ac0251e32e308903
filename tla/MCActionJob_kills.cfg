CONSTANTS
  j1 = j1  j2 = j2  j3 = j3
  None = None
  Jobs <- MCJobs
  Attempts = 2
  MaxDeaths = 1
  MaxFails = 1
SPECIFICATION JobSpec
SYMMETRY Symm
CONSTRAINT Claimed
INVARIANTS PageTellsTruth NextJobStarts
\* Every call comes to its end and is made once.
CHECK_DEADLOCK FALSE
