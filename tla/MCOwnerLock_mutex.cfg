CONSTANTS
  p1 = p1  p2 = p2  p3 = p3
  None = None
  Procs <- MCProcs
  Forms = {FALSE}
  MaxLive = 2
  MaxDeaths = 1
  MaxKids = 0
  Attempts = 3
SPECIFICATION Spec
SYMMETRY Symm
INVARIANT MutualExclusion
\* Every run comes to its end and starts once.
CHECK_DEADLOCK FALSE
