CONSTANTS
  p1 = p1  p2 = p2  p3 = p3
  None = None
  Procs <- MCProcs
  Forms = {TRUE, FALSE}
  MaxLive = 3
  MaxDeaths = 2
  MaxKids = 1
  Attempts = 2
SPECIFICATION Spec
SYMMETRY Symm
INVARIANTS TypeOK ExclusiveUnlessRobbed NeverWedged
\* Every run comes to its end and starts once.
CHECK_DEADLOCK FALSE
