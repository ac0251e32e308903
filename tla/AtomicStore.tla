---- MODULE AtomicStore ----
(***************************************************************************)
(* What a cache transaction promises its caller (internal/cache/batch.go,  *)
(* the comments of Commit and Abort): the destinations of a batch change   *)
(* together, in one step, or not at all.  A batch that is interrupted, by  *)
(* a kill or by a failure of the rollback itself, leaves every destination *)
(* either as it was or replaced.  There is no temporary file here.         *)
(***************************************************************************)

CONSTANTS Dest,      \* the formal cache files
          Batches,   \* the sequences of destinations one batch may replace
          Gens,      \* what a batch may write
          Initial    \* the possible contents of the directory at the start

VARIABLES data,      \* data[d]: generation stored in d, 0 when d does not exist
          torn       \* the last batch was interrupted

Entries(b) == {b[k] : k \in DOMAIN b}

Init == data \in Initial /\ torn = FALSE

Replace(b, g) ==
    /\ ~torn
    /\ data' = [d \in Dest |-> IF d \in Entries(b) THEN g ELSE data[d]]
    /\ UNCHANGED torn

Interrupt(b, g) ==
    /\ ~torn /\ torn' = TRUE
    /\ \E done \in SUBSET Entries(b) :
          data' = [d \in Dest |-> IF d \in done THEN g ELSE data[d]]

\* The next batch, or the next run of the program, starts from what is there.
Resume == torn /\ torn' = FALSE /\ UNCHANGED data

Next == Resume \/ \E b \in Batches, g \in Gens : Replace(b, g) \/ Interrupt(b, g)

Spec == Init /\ [][Next]_<<data, torn>>
====
