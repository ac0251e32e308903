---- MODULE MCActionJob ----
EXTENDS ActionJob, TLC

CONSTANTS j1, j2, j3

MCJobs == {j1, j2, j3}

\* Nothing tells one call from another before it starts.
Symm == Permutations(MCJobs)

\* After a mishap nothing is claimed, and none is undone: what two calls do without
\* faults is explored all the same.
Claimed == mishaps = {} \/ (deaths + fails = 0 /\ \E j \in Jobs : pc[Caller(j)] = "idle")
====
