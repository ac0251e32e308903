---- MODULE MCOwnerLock ----
EXTENDS OwnerLock, TLC

CONSTANTS p1, p2, p3

MCProcs == {p1, p2, p3}

\* Nothing tells one run from another before it starts.
Symm == Permutations(MCProcs)
====
