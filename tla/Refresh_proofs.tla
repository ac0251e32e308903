---- MODULE Refresh_proofs ----
(***************************************************************************)
(* Proofs about module Refresh, for every set of templates and requests,   *)
(* every fetch order and every bound.                                      *)
(***************************************************************************)
EXTENDS Refresh, TLAPS

\* The fetch order is a non-empty sequence of files that names every file.
LEMMA OrderFacts ==
    /\ Len(Order) \in Nat /\ Len(Order) >= 1
    /\ \A i \in 1..Len(Order) : Order[i] \in Files
    /\ \A f \in Files : \E i \in 1..Len(Order) : Order[i] = f
    /\ node \in Files /\ Templates \subseteq Files
  <1>1. Order \in Seq(Files) /\ {Order[i] : i \in DOMAIN Order} = Files
    BY FilesAssumption
  <1>2. Len(Order) \in Nat /\ DOMAIN Order = 1..Len(Order)
    BY <1>1
  <1>3. node \in Files /\ Templates \subseteq Files
    BY DEF Files
  <1>4. \A f \in Files : \E i \in 1..Len(Order) : Order[i] = f
    BY <1>1, <1>2
  <1>5. Len(Order) >= 1
    BY <1>2, <1>3, <1>4
  <1> QED BY <1>1, <1>2, <1>3, <1>4, <1>5

\* Where the loop variable and the trigger of a goroutine can be.
Shape ==
    /\ \A p \in Procs : pc[p] \notin Working => cur[p] = 1
    /\ \A p \in Procs : pc[p] = "fetch" => cur[p] <= Len(Order) /\ trigger[p] # "watcher"
    /\ \A p \in Procs : trigger[p] = "on-demand" => p \in Requests

\* The contents the cache may start with, and nothing at all, are snapshots.
LEMMA SnapshotFacts ==
    /\ Empty \in Snapshots
    /\ [Files -> {0, 1}] \subseteq Snapshots
    /\ \A f \in Files, s \in Snapshots : s[f] \in 0..MaxVersion + 1
  <1>1. MaxVersion \in Nat
    BY BoundsAssumption
  <1> QED BY <1>1, SMT DEF Empty, Snapshots, Versions, Local

\* Replacing one content of a snapshot gives a snapshot.
LEMMA SnapshotUpdate ==
    ASSUME NEW s \in Snapshots, NEW f \in Files, NEW v \in Versions
    PROVE  [s EXCEPT ![f] = v] \in Snapshots
  BY DEF Snapshots

LEMMA InitType == Init => TypeOK /\ Shape
  <1> SUFFICES ASSUME Init PROVE TypeOK /\ Shape
    OBVIOUS
  <1>1. upstream \in Snapshots /\ disk \in Snapshots
    <2>1. upstream \in [Files -> {0, 1}]
      BY DEF Init
    <2> QED BY <2>1, SnapshotFacts DEF Init
  <1>2. snap \in Snapshots
    BY <1>1, SnapshotFacts DEF Init
  <1>3. tpl \in [Requests -> Templates]
    BY FilesAssumption DEF Init
  <1>4. /\ cand \in [Procs -> Snapshots] /\ old \in [Procs -> Snapshots]
        /\ want \in [Requests -> Snapshots]
    BY SnapshotFacts DEF Init
  <1>5. pc \in [Procs -> {"idle", "wait", "returned"} \cup Working \cup Handling]
    BY DEF Init
  <1>6. cur \in [Procs -> 1..Len(Order) + 1]
    BY OrderFacts DEF Init
  <1>7. edits \in 0..MaxEdits
    BY BoundsAssumption DEF Init
  <1>8. Requests \subseteq Procs /\ updater \in Procs /\ watcher \in Procs
    BY DEF Procs
  <1>9. trigger \in [Procs -> Full \cup {"on-demand", "watcher"}]
    BY DEF Init, Full
  <1>10. TypeOK
    BY ZenonT(60), <1>1, <1>2, <1>3, <1>4, <1>5, <1>6, <1>7, <1>8, <1>9, ProcsAssumption
    DEF TypeOK, Init, Handling
  <1>11. Shape
    BY <1>8, OrderFacts DEF Shape, Init
  <1> QED BY <1>10, <1>11

LEMMA StepType == TypeOK /\ Shape /\ [Next]_vars => TypeOK' /\ Shape'
  <1> SUFFICES ASSUME TypeOK, Shape, [Next]_vars PROVE TypeOK' /\ Shape'
    OBVIOUS
  <1> USE ProcsAssumption DEF store, request, work
  <1>1. ASSUME NEW f \in Files, Publish(f) PROVE TypeOK' /\ Shape'
    <2>1. upstream' \in Snapshots
      <3>1. upstream[f] + 1 \in Versions
        BY <1>1, SnapshotFacts, BoundsAssumption DEF Publish, Versions, Local, TypeOK
      <3> QED BY <1>1, <3>1, SnapshotUpdate DEF Publish, TypeOK
    <2> QED BY <1>1, <2>1, OrderFacts DEF TypeOK, Shape, Publish, Procs, Working, Handling
  <1>2. ASSUME NEW f \in Files, Due(f) PROVE TypeOK' /\ Shape'
    BY <1>2, OrderFacts DEF TypeOK, Shape, Due, Goto, Call, Procs, Working, Handling, Full
  <1>3. ASSUME NEW f \in Files, NEW v \in {0, Local}, NEW q \in BOOLEAN, Edit(f, v, q) PROVE TypeOK' /\ Shape'
    <2>1. disk' \in Snapshots /\ edits' \in 0..MaxEdits
      <3>1. v \in Versions
        BY BoundsAssumption DEF Versions, Local
      <3>2. edits' \in 0..MaxEdits
        BY <1>3, BoundsAssumption DEF Edit, TypeOK
      <3> QED BY <1>3, <3>1, <3>2, SnapshotUpdate DEF Edit, TypeOK
    <2> USE DEF Edit, Notify, Miss, TypeOK, Shape
    <2>2. CASE q
      BY <1>3, <2>1, <2>2
    <2>3. CASE ~q
      BY <1>3, <2>1, <2>3
    <2> QED BY <2>2, <2>3
  <1>4. ASSUME NEW p \in Procs, Acquire(p) PROVE TypeOK' /\ Shape'
    BY ZenonT(60), <1>4, OrderFacts DEF TypeOK, Shape, Acquire, Goto, Procs, Working, Handling
  <1>5. ASSUME NEW p \in Procs, Abandon(p) PROVE TypeOK' /\ Shape'
    BY <1>5, OrderFacts DEF TypeOK, Shape, Abandon, Goto, Procs, Working, Handling
  <1>6. ASSUME NEW p \in Procs, Release(p) PROVE TypeOK' /\ Shape'
    BY <1>6, OrderFacts, SnapshotFacts DEF TypeOK, Shape, Release, Goto, Procs, Working, Handling
  <1>7. ASSUME NEW p \in Procs, Fetch(p) PROVE TypeOK' /\ Shape'
    <2> DEFINE f == IF trigger[p] \in Full THEN Order[cur[p]] ELSE tpl[p]
    <2>1. f \in Files /\ upstream[f] \in Versions
      BY <1>7, OrderFacts DEF TypeOK, Shape, Fetch, Procs, Full, Snapshots, Working
    <2>2. cand' \in [Procs -> Snapshots]
      <3>1. [cand[p] EXCEPT ![f] = upstream[f]] \in Snapshots
        BY <2>1, SnapshotUpdate DEF TypeOK
      <3> QED BY <1>7, <3>1 DEF Fetch, TypeOK
    <2>3. cur' \in [Procs -> 1..Len(Order) + 1]
      BY SMTT(60), <1>7, OrderFacts DEF Fetch, TypeOK, Shape
    <2>4. pc' \in [Procs -> {"idle", "wait", "returned"} \cup Working \cup Handling]
      BY <1>7 DEF Fetch, Goto, Working, TypeOK
    <2>5. TypeOK'
      BY <1>7, <2>2, <2>3, <2>4 DEF TypeOK, Fetch, Goto, Procs, Working, Handling
    <2>6. Shape'
      BY SMTT(60), <1>7, OrderFacts DEF TypeOK, Shape, Fetch, Goto, Procs, Working, Full
    <2> QED BY <2>5, <2>6
  <1>8. ASSUME NEW p \in Procs, FetchFails(p) PROVE TypeOK' /\ Shape'
    BY <1>8, OrderFacts DEF TypeOK, Shape, FetchFails, Goto, WorkFails, Procs, Working, Handling
  <1>9. ASSUME NEW p \in Procs, ReadDisk(p) PROVE TypeOK' /\ Shape'
    <2>1. cand' \in [Procs -> Snapshots]
      <3>1. [f \in Files |-> IF f \in Targets(p) THEN cand[p][f] ELSE disk[f]] \in Snapshots
        <4>1. cand[p] \in Snapshots /\ disk \in Snapshots
          BY DEF TypeOK
        <4> QED BY <4>1, SMT DEF Snapshots
      <3> QED BY <1>9, <3>1 DEF ReadDisk, TypeOK
    <2> QED BY <1>9, <2>1, OrderFacts DEF TypeOK, Shape, ReadDisk, Goto, Procs, Working, Handling
  <1>10. ASSUME NEW p \in Procs, ReadFails(p) PROVE TypeOK' /\ Shape'
    BY <1>10, OrderFacts DEF TypeOK, Shape, ReadFails, Goto, WorkFails, Procs, Working, Handling
  <1>11. ASSUME NEW p \in Procs, Backup(p) PROVE TypeOK' /\ Shape'
    BY <1>11, OrderFacts DEF TypeOK, Shape, Backup, Goto, Procs, Working, Handling
  <1>12. ASSUME NEW p \in Procs, StageFails(p) PROVE TypeOK' /\ Shape'
    BY <1>12, OrderFacts DEF TypeOK, Shape, StageFails, Goto, WorkFails, Procs, Working, Handling
  <1>13. ASSUME NEW p \in Procs, NEW done \in SUBSET Files, Rename(p, done) PROVE TypeOK' /\ Shape'
    <2>1. disk' \in Snapshots
      <3>1. cand[p] \in Snapshots /\ disk \in Snapshots
        BY DEF TypeOK
      <3>2. disk' = [f \in Files |-> IF f \in done THEN cand[p][f] ELSE disk[f]]
        BY <1>13 DEF Rename
      <3> QED BY <3>1, <3>2, SMT DEF Snapshots
    <2> QED BY <1>13, <2>1, OrderFacts DEF TypeOK, Shape, Rename, Goto, Notify, Procs, Working, Handling
  <1>14. ASSUME NEW p \in Procs, NEW kept \in SUBSET Files, Rollback(p, kept) PROVE TypeOK' /\ Shape'
    <2>1. disk' \in Snapshots
      <3>1. old[p] \in Snapshots /\ disk \in Snapshots
        BY DEF TypeOK
      <3>2. disk' = [f \in Files |->
                        IF f \in replaced[p] \ kept THEN old[p][f] ELSE disk[f]]
        BY <1>14 DEF Rollback
      <3> QED BY <3>1, <3>2, SMT DEF Snapshots
    <2> QED BY <1>14, <2>1, OrderFacts DEF TypeOK, Shape, Rollback, Goto, Notify, Miss, Procs, Working, Handling
  <1>15. ASSUME NEW p \in Procs, Apply(p) PROVE TypeOK' /\ Shape'
    BY <1>15, OrderFacts DEF TypeOK, Shape, Apply, Goto, Procs, Working, Handling
  <1>16. ASSUME NEW p \in Procs, LogResult(p) PROVE TypeOK' /\ Shape'
    BY <1>16, OrderFacts DEF TypeOK, Shape, LogResult, Goto, Procs, Working, Handling
  <1>17. ASSUME Start PROVE TypeOK' /\ Shape'
    BY <1>17, OrderFacts DEF TypeOK, Shape, Start, Goto, Procs, Working, Handling
  <1>18. ASSUME Tick PROVE TypeOK' /\ Shape'
    BY <1>18, OrderFacts DEF TypeOK, Shape, Tick, Goto, Call, Procs, Working, Handling, Full
  <1>19. ASSUME NEW r \in Requests, HandleRefresh(r) PROVE TypeOK' /\ Shape'
    BY <1>19, OrderFacts DEF TypeOK, Shape, HandleRefresh, Goto, Call, Procs, Working, Handling, Full, Arrive
  <1>20. ASSUME NEW r \in Requests, Disconnect(r) PROVE TypeOK' /\ Shape'
    BY <1>20, OrderFacts DEF TypeOK, Shape, Disconnect, Procs, Working, Handling
  <1>21. ASSUME NEW r \in Requests, NEW d \in BOOLEAN, EnsureTemplate(r, d) PROVE TypeOK' /\ Shape'
    <2> USE DEF Procs, Working, Handling, Full
    <2>1. \/ /\ pc' = [pc EXCEPT ![r] = "wait"]
             /\ \E t \in {"on-demand", "watcher"} : trigger' = [trigger EXCEPT ![r] = t]
          \/ pc' = [pc EXCEPT ![r] = "serve"] /\ UNCHANGED trigger
      BY <1>21 DEF EnsureTemplate, Goto, Call
    <2>2. /\ UNCHANGED <<store, permit, tpl, cancelled, status, had, want>>
          /\ UNCHANGED <<cand, old, replaced, cur, failed>>
          /\ loaded' \in [Requests -> BOOLEAN]
          /\ pc[r] = "ensure"
      BY <1>21 DEF EnsureTemplate, Goto, Call, TypeOK
    <2>3. pc' \in [Procs -> {"idle", "wait", "returned"} \cup Working \cup Handling]
      BY ZenonT(60), <2>1 DEF TypeOK
    <2>4. trigger' \in [Procs -> Full \cup {"on-demand", "watcher"}]
      BY <2>1 DEF TypeOK
    <2>5. /\ \A p \in {updater, watcher} : pc'[p] \notin Handling
          /\ \A x \in Requests : pc'[x] = "answered" <=> status'[x] # "none"
      BY <2>1, <2>2 DEF TypeOK
    <2>6. Shape'
      BY ZenonT(60), <2>1, <2>2 DEF TypeOK, Shape
    <2> QED BY <2>2, <2>3, <2>4, <2>5, <2>6 DEF TypeOK
  <1>22. ASSUME NEW r \in Requests, NEW d \in BOOLEAN, Serve(r, d) PROVE TypeOK' /\ Shape'
    BY ZenonT(60), <1>22, OrderFacts DEF TypeOK, Shape, Serve, Goto, Procs, Working, Handling, Answer
  <1>23. ASSUME NEW r \in Requests, Returned(r) PROVE TypeOK' /\ Shape'
    <2> USE DEF Procs, Working, Handling
    <2>1. \/ /\ pc' = [pc EXCEPT ![r] = "answered"]
             /\ \E x \in {"refresh_failed", "refreshed", "bad_request"} :
                    status' = [status EXCEPT ![r] = x]
          \/ /\ \E l \in {"ensure", "serve"} : pc' = [pc EXCEPT ![r] = l]
             /\ UNCHANGED status
      BY <1>23 DEF Returned, Goto, Answer
    <2>2. UNCHANGED <<store, permit, work, tpl, cancelled, loaded, had, want>> /\ pc[r] = "returned"
      BY <1>23 DEF Returned
    <2>3. pc' \in [Procs -> {"idle", "wait", "returned"} \cup Working \cup Handling]
      BY ZenonT(60), <2>1 DEF TypeOK
    <2>4. status' \in [Requests -> {"none", "ok", "bad_request", "not_loaded",
                                   "render_error", "refreshed", "refresh_failed"}]
      BY <2>1 DEF TypeOK
    <2>5. /\ \A p \in {updater, watcher} : pc'[p] \notin Handling
          /\ \A x \in Requests : pc'[x] = "answered" <=> status'[x] # "none"
      <3>1. CASE UNCHANGED status
        BY <2>1, <2>2, <3>1 DEF TypeOK
      <3>2. CASE pc' = [pc EXCEPT ![r] = "answered"]
        BY <2>1, <2>2, <3>2 DEF TypeOK
      <3> QED BY <2>1, <3>1, <3>2
    <2>6. Shape'
      BY ZenonT(60), <2>1, <2>2 DEF TypeOK, Shape
    <2> QED BY <2>2, <2>3, <2>4, <2>5, <2>6 DEF TypeOK
  <1>24. ASSUME NEW r \in Requests, Finish(r) PROVE TypeOK' /\ Shape'
    BY ZenonT(60), <1>24, OrderFacts, SnapshotFacts, FilesAssumption DEF TypeOK, Shape, Finish, Goto, Procs, Working, Handling, Full
  <1>25. ASSUME NEW r \in Requests, NEW t \in Templates, NEW q \in BOOLEAN,
                HandleRequest(r, t, q)
         PROVE  TypeOK' /\ Shape'
    <2> USE DEF Procs, Working, Handling, Full
    <2>1. \/ pc' = [pc EXCEPT ![r] = "wait"] /\ trigger' = [trigger EXCEPT ![r] = "query"]
          \/ pc' = [pc EXCEPT ![r] = "ensure"] /\ UNCHANGED trigger
      BY <1>25 DEF HandleRequest, Goto, Call
    <2>2. /\ UNCHANGED <<store, permit, cancelled, loaded, status, want>>
          /\ UNCHANGED <<cand, old, replaced, cur, failed>>
          /\ had' \in [Requests -> BOOLEAN] /\ tpl' \in [Requests -> Templates]
          /\ pc[r] = "idle"
      BY <1>25 DEF HandleRequest, Goto, Call, Arrive, TypeOK
    <2>3. pc' \in [Procs -> {"idle", "wait", "returned"} \cup Working \cup Handling]
      BY ZenonT(60), <2>1 DEF TypeOK
    <2>4. trigger' \in [Procs -> Full \cup {"on-demand", "watcher"}]
      BY <2>1 DEF TypeOK
    <2>5. /\ \A p \in {updater, watcher} : pc'[p] \notin Handling
          /\ \A x \in Requests : pc'[x] = "answered" <=> status'[x] # "none"
      BY <2>1, <2>2 DEF TypeOK
    <2>6. Shape'
      BY ZenonT(60), <2>1, <2>2 DEF TypeOK, Shape
    <2> QED BY <2>2, <2>3, <2>4, <2>5, <2>6 DEF TypeOK
  <1>26. ASSUME UNCHANGED vars PROVE TypeOK' /\ Shape'
    BY <1>26 DEF vars, TypeOK, Shape
  <1> QED BY <1>1, <1>2, <1>3, <1>4, <1>5, <1>6, <1>7, <1>8, <1>9, <1>10, <1>11, <1>12, <1>13,
             <1>14, <1>15, <1>16, <1>17, <1>18, <1>19, <1>20, <1>21, <1>22, <1>23, <1>24, <1>25,
             <1>26 DEF Next, Step, Handle

\* How a step can change the places of the goroutines and the permit: one goroutine
\* moves inside the work or outside of it, takes the permit, or puts it back.
LEMMA Moves ==
    ASSUME TypeOK, Shape, [Next]_vars
    PROVE  \/ UNCHANGED <<pc, permit>>
           \/ \E p \in Procs, l \in {"idle", "wait", "returned"} \cup Working \cup Handling :
                /\ pc' = [pc EXCEPT ![p] = l]
                /\ \/ permit' = permit /\ (pc[p] \in Working <=> l \in Working)
                   \/ permit /\ permit' = FALSE /\ l \in Working
                   \/ pc[p] \in Working /\ l \notin Working /\ permit' = TRUE
  <1> DEFINE Goal == \/ UNCHANGED <<pc, permit>>
                     \/ \E p \in Procs, l \in {"idle", "wait", "returned"} \cup Working \cup Handling :
                          /\ pc' = [pc EXCEPT ![p] = l]
                          /\ \/ permit' = permit /\ (pc[p] \in Working <=> l \in Working)
                             \/ permit /\ permit' = FALSE /\ l \in Working
                             \/ pc[p] \in Working /\ l \notin Working /\ permit' = TRUE
  <1>1. ASSUME NEW p \in Procs, Step(p) PROVE Goal
    <2> USE DEF Goto, Working, Handling
    <2>1. CASE Acquire(p)
      BY <2>1 DEF Acquire
    <2>2. CASE Abandon(p) \/ LogResult(p)
      BY <2>2 DEF Abandon, LogResult
    <2>3. CASE Release(p)
      <3>1. pc[p] = "release" /\ permit' = TRUE /\ pc' = [pc EXCEPT ![p] = "returned"]
        BY <2>3 DEF Release
      <3>2. pc[p] \in Working /\ "returned" \notin Working
        BY <3>1
      <3> HIDE DEF Working
      <3> QED BY <3>1, <3>2
    <2>4. CASE Fetch(p)
      BY <2>4 DEF Fetch
    <2>5. CASE FetchFails(p) \/ ReadFails(p) \/ StageFails(p)
      BY <2>5 DEF FetchFails, ReadFails, StageFails, WorkFails
    <2>6. CASE ReadDisk(p) \/ Backup(p)
      BY <2>6 DEF ReadDisk, Backup
    <2>7. CASE \/ \E done \in SUBSET Files : Rename(p, done)
               \/ \E kept \in SUBSET Files : Rollback(p, kept)
               \/ Apply(p)
      BY <2>7 DEF Rename, Rollback, Apply
    <2> QED BY <1>1, <2>1, <2>2, <2>3, <2>4, <2>5, <2>6, <2>7 DEF Step
  <1>2. ASSUME NEW r \in Requests, Handle(r) PROVE Goal
    BY <1>2 DEF Handle, EnsureTemplate, Serve, Returned, Finish, Answer, Call, Goto, Working,
                Handling, Procs
  <1>3. ASSUME NEW r \in Requests,
               HandleRefresh(r) \/ (\E t \in Templates, q \in BOOLEAN : HandleRequest(r, t, q))
        PROVE Goal
    BY <1>3 DEF HandleRefresh, HandleRequest, Arrive, Call, Goto, Working, Handling, Procs
  <1>4. CASE Start \/ Tick \/ \E f \in Files : Due(f)
    BY <1>4 DEF Start, Tick, Due, Call, Goto, Working, Procs
  <1>5. CASE \/ \E f \in Files : Publish(f)
             \/ \E f \in Files, v \in {0, Local}, q \in BOOLEAN : Edit(f, v, q)
             \/ \E r \in Requests : Disconnect(r)
             \/ UNCHANGED vars
    BY <1>5 DEF Publish, Edit, Disconnect, vars
  <1> QED BY <1>1, <1>2, <1>3, <1>4, <1>5 DEF Next

LEMMA WriterStep == TypeOK /\ Shape /\ SoleWriter /\ [Next]_vars => SoleWriter'
  <1> SUFFICES ASSUME TypeOK, Shape, SoleWriter, [Next]_vars PROVE SoleWriter'
    OBVIOUS
  <1>1. CASE UNCHANGED <<pc, permit>>
    BY <1>1 DEF SoleWriter
  <1>2. ASSUME NEW p \in Procs,
               NEW l \in {"idle", "wait", "returned"} \cup Working \cup Handling,
               pc' = [pc EXCEPT ![p] = l],
               \/ permit' = permit /\ (pc[p] \in Working <=> l \in Working)
               \/ permit /\ permit' = FALSE /\ l \in Working
               \/ pc[p] \in Working /\ l \notin Working /\ permit' = TRUE
        PROVE  SoleWriter'
    BY <1>2 DEF SoleWriter, TypeOK
  <1> QED BY <1>1, <1>2, Moves

\* Type correctness of the data plane, for every instance.
THEOREM TypeCorrect == Spec => [](TypeOK /\ Shape)
  <1>1. Init => TypeOK /\ Shape
    BY InitType
  <1>2. TypeOK /\ Shape /\ [Next]_vars => (TypeOK /\ Shape)'
    BY StepType
  <1> QED BY <1>1, <1>2, PTL DEF Spec

\* Manager.Do (manager.go:25-48): whatever the number of requests, at most one goroutine
\* works on the cache, and the token is never lost nor doubled.
THEOREM OneWriter == Spec => []SoleWriter
  <1>1. Init => SoleWriter
    BY ProcsAssumption DEF Init, SoleWriter, Procs, Working
  <1>2. TypeOK /\ Shape /\ SoleWriter /\ [Next]_vars => SoleWriter'
    BY WriterStep
  <1> QED BY <1>1, <1>2, TypeCorrect, PTL DEF Spec
----
(* No regression.  Versions only grow: snap <= disk <= upstream, and what a work    *)
(* has collected lies between the cache it found and what the remote serves.  All   *)
(* of this needs SoleWriter, and that nobody edits the cache (MaxEdits = 0).        *)

\* The files the work of p has fetched so far.
Fetched(p) ==
    IF trigger[p] \in Full THEN {Order[i] : i \in 1..cur[p] - 1}
    ELSE IF trigger[p] = "on-demand" /\ pc[p] = "read" THEN {tpl[p]} ELSE {}

\* Which work can be where.
Phase(p) ==
    /\ pc[p] = "read" => trigger[p] \in {"on-demand", "watcher"}
    /\ pc[p] \in {"stage", "rename", "renamed"} => trigger[p] \in Full \cup {"on-demand"}
    /\ pc[p] = "apply" => trigger[p] = "watcher"

\* What the work of p has collected, backed up and renamed.
Collected(p) ==
    /\ pc[p] \in {"fetch", "read"} =>
        \A f \in Fetched(p) : disk[f] <= cand[p][f] /\ cand[p][f] <= upstream[f]
    /\ pc[p] \in {"stage", "rename", "renamed"} =>
        \A f \in Files : /\ disk[f] <= cand[p][f] /\ cand[p][f] <= upstream[f]
                         /\ f \notin Targets(p) => cand[p][f] = disk[f]
    /\ pc[p] \in {"rename", "renamed"} =>
        \A f \in Files : snap[f] <= old[p][f] /\ old[p][f] <= upstream[f]
    /\ pc[p] = "renamed" => \A f \in replaced[p] : disk[f] = cand[p][f]
    /\ pc[p] = "apply" => cand[p] = disk

Versioned == \A f \in Files : snap[f] <= disk[f] /\ disk[f] <= upstream[f]

Ordered ==
    /\ Versioned
    /\ \A p \in Procs : Phase(p) /\ Collected(p)

Safe == TypeOK /\ Shape /\ SoleWriter

\* A goroutine outside of the work has collected nothing.
LEMMA NotWorking == \A p \in Procs : pc[p] \notin Working => Phase(p) /\ Collected(p)
  BY DEF Phase, Collected, Working

\* A goroutine that another one's step leaves alone keeps what it has collected.
LEMMA Frame ==
    ASSUME Safe, Ordered, NEW q \in Procs,
           UNCHANGED <<disk, snap>>, upstream' \in Snapshots,
           \A f \in Files : upstream[f] <= upstream'[f],
           pc'[q] = pc[q], trigger'[q] = trigger[q], cand'[q] = cand[q],
           old'[q] = old[q], replaced'[q] = replaced[q], cur'[q] = cur[q],
           q \in Requests => tpl'[q] = tpl[q]
    PROVE  Phase(q)' /\ Collected(q)'
  <1>1. Phase(q)'
    BY DEF Ordered, Phase
  <1>2. trigger[q] = "on-demand" => q \in Requests
    BY DEF Safe, Shape
  <1>3. Fetched(q)' = Fetched(q) /\ Targets(q)' = Targets(q)
    <2>1. CASE trigger[q] = "on-demand"
      BY <1>2, <2>1 DEF Fetched, Targets, Full
    <2>2. CASE trigger[q] # "on-demand"
      BY <2>2 DEF Fetched, Targets
    <2> QED BY <2>1, <2>2
  <1>4. /\ disk \in Snapshots /\ cand[q] \in Snapshots /\ old[q] \in Snapshots
        /\ snap \in Snapshots /\ upstream \in Snapshots
    BY DEF Safe, TypeOK
  <1>5. Phase(q) /\ Collected(q)
    BY DEF Ordered
  <1>6. Fetched(q) \subseteq Files
    BY OrderFacts, <1>2 DEF Safe, TypeOK, Fetched
  <1>7. \A s \in Snapshots, f \in Files : s[f] \in Nat
    BY BoundsAssumption, SnapshotFacts
  <1> HIDE DEF Snapshots, Files
  <1>8. Collected(q)'
    BY <1>3, <1>4, <1>5, <1>6, <1>7 DEF Collected
  <1> QED BY <1>1, <1>8

\* The steps outside of the work change neither the cache nor the snapshot.
LEMMA Elsewhere ==
    ASSUME Safe, Ordered, MaxEdits = 0, [Next]_vars,
           ~\E p \in Procs : Step(p) /\ ~LogResult(p) /\ ~Abandon(p)
    PROVE  Ordered'
  <1> USE DEF Safe
  <1> DEFINE Kept(q) ==
        /\ pc'[q] = pc[q] /\ trigger'[q] = trigger[q] /\ cand'[q] = cand[q]
        /\ old'[q] = old[q] /\ replaced'[q] = replaced[q] /\ cur'[q] = cur[q]
        /\ q \in Requests => tpl'[q] = tpl[q]
  <1> DEFINE Quiet == /\ \A q \in Procs : pc'[q] \in Working => Kept(q)
                      /\ UNCHANGED <<disk, snap>> /\ upstream' \in Snapshots
                      /\ \A f \in Files : upstream[f] <= upstream'[f]
  <1>0. upstream \in Snapshots /\ \A f \in Files : upstream[f] \in Nat
    BY SnapshotFacts, BoundsAssumption DEF TypeOK
  <1>1. Quiet
    <2> USE <1>0 DEF TypeOK, Goto, Call, store, request, work, Working, Procs
    <2>1. ASSUME NEW p \in Procs, Abandon(p) \/ LogResult(p) PROVE Quiet
      BY <2>1 DEF Abandon, LogResult
    <2>2. ASSUME NEW f \in Files, Publish(f) PROVE Quiet
      <3>1. upstream' \in Snapshots
        BY <2>2, StepType DEF Next
      <3> QED BY <2>2, <3>1 DEF Publish
    <2>3. ASSUME NEW f \in Files, Due(f) PROVE Quiet
      BY <2>3 DEF Due
    <2>4. CASE Start \/ Tick
      BY <2>4 DEF Start, Tick
    <2>5. ASSUME NEW r \in Requests, Disconnect(r) PROVE Quiet
      BY <2>5 DEF Disconnect
    <2>6. ASSUME NEW r \in Requests, HandleRefresh(r) PROVE Quiet
      BY <2>6 DEF HandleRefresh, Arrive
    <2>7. ASSUME NEW r \in Requests, NEW t \in Templates, NEW q \in BOOLEAN,
                 HandleRequest(r, t, q)
          PROVE  Quiet
      BY <2>7 DEF HandleRequest, Arrive
    <2>8. ASSUME NEW r \in Requests, NEW d \in BOOLEAN, EnsureTemplate(r, d) PROVE Quiet
      BY <2>8 DEF EnsureTemplate
    <2>9. ASSUME NEW r \in Requests, NEW d \in BOOLEAN, Serve(r, d) PROVE Quiet
      BY <2>9 DEF Serve, Answer
    <2>10. ASSUME NEW r \in Requests, Returned(r) PROVE Quiet
      BY <2>10 DEF Returned, Answer
    <2>11. ASSUME NEW r \in Requests, Finish(r) PROVE Quiet
      BY <2>11 DEF Finish
    <2>12. CASE UNCHANGED vars
      BY <2>12 DEF vars
    <2>13. ~\E f \in Files, v \in {0, Local}, q \in BOOLEAN : Edit(f, v, q)
      BY DEF Edit
    <2> QED BY <2>1, <2>2, <2>3, <2>4, <2>5, <2>6, <2>7, <2>8, <2>9, <2>10, <2>11, <2>12, <2>13
            DEF Next, Handle
  <1>3. Versioned'
    <2>1. \A s \in Snapshots, f \in Files : s[f] \in Nat
      BY BoundsAssumption, SnapshotFacts
    <2>2. disk \in Snapshots /\ snap \in Snapshots
      BY DEF TypeOK
    <2>3. upstream \in Snapshots /\ disk' = disk /\ snap' = snap
          /\ upstream' \in Snapshots /\ \A f \in Files : upstream[f] <= upstream'[f]
      BY <1>0, <1>1
    <2>4. \A f \in Files : snap[f] <= disk[f] /\ disk[f] <= upstream[f]
      BY DEF Ordered, Versioned
    <2> HIDE DEF Safe
    <2> QED BY <2>1, <2>2, <2>3, <2>4 DEF Versioned
  <1>4. ASSUME NEW q \in Procs PROVE Phase(q)' /\ Collected(q)'
    <2>1. CASE pc'[q] \in Working
      BY <1>1, <2>1, Frame
    <2>2. CASE pc'[q] \notin Working
      BY <2>2 DEF Phase, Collected, Working
    <2> QED BY <2>1, <2>2
  <1> QED BY <1>3, <1>4 DEF Ordered

\* While p works, or takes the permit, the other goroutines have collected nothing.
LEMMA Alone ==
    ASSUME Safe, NEW p \in Procs, pc[p] \in Working \/ permit,
           \A q \in Procs \ {p} : pc'[q] = pc[q]
    PROVE  \A q \in Procs \ {p} : Phase(q)' /\ Collected(q)'
  <1>1. ASSUME NEW q \in Procs \ {p} PROVE pc'[q] \notin Working
    BY DEF Safe, SoleWriter, TypeOK
  <1> QED BY <1>1 DEF Phase, Collected, Working

\* What is applied to memory is what the cache holds.
LEMMA AppliedIsDisk ==
    ASSUME Safe, Ordered, NEW p \in Procs, Apply(p)
    PROVE  cand[p] = disk
  <1>1. disk \in Snapshots /\ cand[p] \in Snapshots
    BY DEF Safe, TypeOK
  <1>2. Collected(p)
    BY DEF Ordered
  <1>3. CASE pc[p] = "apply"
    BY <1>2, <1>3 DEF Collected
  <1>4. CASE pc[p] = "renamed" /\ replaced[p] = Targets(p)
    <2>1. \A g \in Files : cand[p][g] = disk[g]
      BY <1>2, <1>4 DEF Collected
    <2> QED BY <1>1, <2>1 DEF Snapshots
  <1> QED BY <1>3, <1>4 DEF Apply

\* Every step of a work keeps the order.
LEMMA WorkStep ==
    ASSUME Safe, Ordered, NEW p \in Procs, Step(p), ~LogResult(p), ~Abandon(p)
    PROVE  Ordered'
  <1>0. /\ upstream \in Snapshots /\ disk \in Snapshots /\ snap \in Snapshots
        /\ cand[p] \in Snapshots /\ old[p] \in Snapshots
        /\ pc \in [Procs -> {"idle", "wait", "returned"} \cup Working \cup Handling]
        /\ cand \in [Procs -> Snapshots] /\ old \in [Procs -> Snapshots]
    BY DEF Safe, TypeOK, Working, Handling
  <1>1. \A s \in Snapshots, f \in Files : s[f] \in Nat
    BY BoundsAssumption, SnapshotFacts
  <1>2. Phase(p) /\ Collected(p) /\ Versioned
    BY DEF Ordered
  <1>3. Fetched(p) \subseteq Files /\ (trigger[p] = "on-demand" => p \in Requests /\ tpl[p] \in Files)
    BY OrderFacts DEF Safe, TypeOK, Shape, Fetched
  <1>4. trigger \in [Procs -> Full \cup {"on-demand", "watcher"}]
    BY DEF Safe, TypeOK
  <1> DEFINE Goal == Versioned' /\ Phase(p)' /\ Collected(p)'
                     /\ \A q \in Procs \ {p} : Phase(q)' /\ Collected(q)'
  <1>5. CASE Acquire(p)
    <2>1. UNCHANGED <<snap, disk, upstream, trigger, cur>> /\ cur[p] = 1
      BY <1>5 DEF Acquire, store, Safe, Shape, Working
    <2>2. PICK l \in {"release", "read", "fetch"} :
             pc' = [pc EXCEPT ![p] = l] /\ (l = "read" <=> l # "release" /\ trigger[p] = "watcher")
      BY <1>5 DEF Acquire, Goto
    <2>3. Fetched(p)' = {}
      BY <1>0, <2>1, <2>2 DEF Fetched, Full
    <2>4. Phase(p)' /\ Collected(p)'
      BY <1>0, <2>1, <2>2, <2>3 DEF Phase, Collected
    <2>5. permit
      BY <1>5 DEF Acquire
    <2>6. \A q \in Procs \ {p} : Phase(q)' /\ Collected(q)'
      <3>1. \A q \in Procs \ {p} : pc'[q] = pc[q]
        BY <1>0, <2>2, <2>5
      <3> QED BY <2>2, <2>5, <3>1, Alone
    <2> QED BY <1>2, <2>1, <2>4, <2>6 DEF Versioned, Ordered
  <1>6. CASE Release(p) \/ FetchFails(p) \/ ReadFails(p) \/ StageFails(p)
    <2>1. UNCHANGED <<snap, disk, upstream>> /\ pc[p] \in Working
      BY <1>6 DEF Release, FetchFails, ReadFails, StageFails, WorkFails, store, Working
    <2>2. PICK l \in {"release", "returned"} : pc' = [pc EXCEPT ![p] = l]
      BY <1>6 DEF Release, FetchFails, ReadFails, StageFails, WorkFails, Goto
    <2>3. Phase(p)' /\ Collected(p)'
      BY <1>0, <2>2 DEF Phase, Collected
    <2>4. \A q \in Procs \ {p} : Phase(q)' /\ Collected(q)'
      <3>1. \A q \in Procs \ {p} : pc'[q] = pc[q]
        BY <1>0, <2>1, <2>2
      <3> QED BY <2>1, <2>2, <3>1, Alone
    <2> QED BY <1>2, <2>1, <2>3, <2>4 DEF Versioned, Ordered
  <1>7. CASE Fetch(p)
    <2> DEFINE full == trigger[p] \in Full
    <2> DEFINE f == IF full THEN Order[cur[p]] ELSE tpl[p]
    <2>1. /\ UNCHANGED <<snap, disk, upstream, trigger, old, replaced, tpl>>
          /\ pc[p] = "fetch" /\ pc[p] \in Working
          /\ cand' = [cand EXCEPT ![p] = [@ EXCEPT ![f] = upstream[f]]]
          /\ cur' = [cur EXCEPT ![p] = @ + 1]
      BY <1>7 DEF Fetch, store, request, Working
    <2>2. /\ trigger[p] # "watcher" /\ cur[p] \in 1..Len(Order)
          /\ cur \in [Procs -> 1..Len(Order) + 1]
      BY <2>1 DEF Safe, TypeOK, Shape
    <2>3. f \in Files
      BY <1>3, <1>4, <2>2, OrderFacts DEF Full
    <2>4. \A g \in Files : cand'[p][g] = IF g = f THEN upstream[f] ELSE cand[p][g]
      BY <1>0, <2>1, <2>3 DEF Snapshots
    <2>5. PICK l \in {"read", "stage", "fetch"} :
             /\ pc' = [pc EXCEPT ![p] = l]
             /\ l = "read" <=> ~full
             /\ l = "stage" <=> full /\ cur[p] = Len(Order)
      BY <1>7 DEF Fetch, Goto
    <2>6. pc'[p] = l /\ cur'[p] = cur[p] + 1
      BY <1>0, <2>2, <2>1, <2>5
    <2>7. Fetched(p)' \subseteq Fetched(p) \cup {f}
      BY <2>1, <2>2, <2>6, <1>4 DEF Fetched
    <2>8. \A g \in Fetched(p) \cup {f} : disk[g] <= cand'[p][g] /\ cand'[p][g] <= upstream[g]
      <3>1. disk[f] <= cand'[p][f] /\ cand'[p][f] <= upstream[f]
        BY <1>0, <1>1, <1>2, <2>3, <2>4 DEF Versioned
      <3>2. ASSUME NEW g \in Fetched(p), g # f
            PROVE  disk[g] <= cand'[p][g] /\ cand'[p][g] <= upstream[g]
        BY <1>2, <1>3, <2>1, <2>4, <3>2 DEF Collected
      <3> QED BY <3>1, <3>2
    <2>9. l = "stage" => Files \subseteq Fetched(p) \cup {f} /\ Targets(p) = Files
      <3>1. SUFFICES ASSUME full, cur[p] = Len(Order)
                     PROVE  Files \subseteq Fetched(p) \cup {f} /\ Targets(p) = Files
        BY <2>5
      <3>2. f = Order[Len(Order)] /\ Fetched(p) = {Order[i] : i \in 1..Len(Order) - 1}
        BY <3>1 DEF Fetched
      <3>3. \A i \in 1..Len(Order) : i = Len(Order) \/ i \in 1..Len(Order) - 1
        BY OrderFacts
      <3>4. Files \subseteq Fetched(p) \cup {f}
        BY <3>2, <3>3, OrderFacts
      <3> QED BY <3>1, <3>4 DEF Targets, Full
    <2>10. Phase(p)'
      BY <2>1, <2>2, <2>5, <2>6, <1>4 DEF Phase
    <2>11. Collected(p)'
      <3>1. Targets(p)' = Targets(p)
        BY <2>1 DEF Targets
      <3> QED BY <2>1, <2>5, <2>6, <2>7, <2>8, <2>9, <3>1 DEF Collected
    <2>12. \A q \in Procs \ {p} : Phase(q)' /\ Collected(q)'
      <3>1. \A q \in Procs \ {p} : pc'[q] = pc[q]
        BY <1>0, <2>1, <2>5
      <3> QED BY <2>1, <2>5, <3>1, Alone
    <2> QED BY <1>2, <2>1, <2>10, <2>11, <2>12 DEF Versioned, Ordered
  <1>8. CASE ReadDisk(p)
    <2>1. /\ UNCHANGED <<snap, disk, upstream, trigger, tpl>>
          /\ pc[p] = "read" /\ pc[p] \in Working
          /\ cand'[p] = [g \in Files |-> IF g \in Targets(p) THEN cand[p][g] ELSE disk[g]]
      BY <1>0, <1>8 DEF ReadDisk, store, request, Working
    <2>2. PICK l \in {"apply", "stage"} :
             /\ pc' = [pc EXCEPT ![p] = l]
             /\ l = "apply" <=> trigger[p] = "watcher"
      BY <1>8 DEF ReadDisk, Goto
    <2>3. pc'[p] = l /\ Targets(p)' = Targets(p)
      BY <1>0, <2>1, <2>2 DEF Targets
    <2>4. trigger[p] \in {"on-demand", "watcher"}
      BY <1>2, <2>1 DEF Phase
    <2>5. ASSUME trigger[p] = "watcher" PROVE Phase(p)' /\ Collected(p)'
      <3>1. Targets(p) = {}
        BY <2>5 DEF Targets, Full
      <3>2. cand'[p] = disk
        <4>1. cand'[p] = [g \in Files |-> disk[g]]
          BY <2>1, <3>1
        <4> QED BY <1>0, <4>1 DEF Snapshots
      <3> QED BY <2>1, <2>2, <2>3, <2>5, <3>2 DEF Collected, Phase
    <2>6. ASSUME trigger[p] = "on-demand" PROVE Phase(p)' /\ Collected(p)'
      <3>1. Targets(p) = {tpl[p]} /\ Fetched(p) = {tpl[p]}
        BY <2>1, <2>6 DEF Targets, Fetched, Full
      <3>2. \A g \in Files : /\ disk[g] <= cand'[p][g] /\ cand'[p][g] <= upstream[g]
                             /\ g \notin Targets(p) => cand'[p][g] = disk[g]
        <4>1. \A g \in Files : cand'[p][g] = IF g \in Targets(p) THEN cand[p][g] ELSE disk[g]
          BY <2>1
        <4>2. \A g \in Targets(p) : disk[g] <= cand[p][g] /\ cand[p][g] <= upstream[g]
          BY <1>2, <2>1, <3>1 DEF Collected
        <4>3. \A g \in Files : disk[g] <= disk[g] /\ disk[g] <= upstream[g]
          BY <1>0, <1>1, <1>2 DEF Versioned
        <4> QED BY <4>1, <4>2, <4>3
      <3> QED BY <2>1, <2>2, <2>3, <2>6, <3>2 DEF Collected, Phase
    <2>7. \A q \in Procs \ {p} : Phase(q)' /\ Collected(q)'
      <3>1. \A q \in Procs \ {p} : pc'[q] = pc[q]
        BY <1>0, <2>1, <2>2
      <3> QED BY <2>1, <2>2, <3>1, Alone
    <2> QED BY <1>2, <2>1, <2>4, <2>5, <2>6, <2>7 DEF Versioned, Ordered
  <1>9. CASE Backup(p)
    <2>1. /\ UNCHANGED <<snap, disk, upstream, trigger, tpl, cand>>
          /\ pc[p] = "stage" /\ pc[p] \in Working
          /\ old'[p] = disk
          /\ pc' = [pc EXCEPT ![p] = "rename"]
      BY <1>0, <1>9 DEF Backup, store, request, Working, Goto
    <2>2. pc'[p] = "rename" /\ Targets(p)' = Targets(p)
      BY <1>0, <2>1 DEF Targets
    <2>3. Phase(p)' /\ Collected(p)'
      <3>1. Phase(p)'
        BY <1>2, <2>1, <2>2 DEF Phase
      <3>2. \A g \in Files : snap[g] <= disk[g] /\ disk[g] <= upstream[g]
        BY <1>2 DEF Versioned
      <3>3. \A g \in Files : /\ disk[g] <= cand[p][g] /\ cand[p][g] <= upstream[g]
                             /\ g \notin Targets(p) => cand[p][g] = disk[g]
        BY <1>2, <2>1 DEF Collected
      <3>4. Collected(p)'
        BY <2>1, <2>2, <3>2, <3>3 DEF Collected
      <3> QED BY <3>1, <3>4
    <2>4. \A q \in Procs \ {p} : Phase(q)' /\ Collected(q)'
      <3>1. \A q \in Procs \ {p} : pc'[q] = pc[q]
        BY <1>0, <2>1
      <3> QED BY <2>1, <3>1, Alone
    <2> QED BY <1>2, <2>1, <2>3, <2>4 DEF Versioned, Ordered
  <1>10. ASSUME NEW done \in SUBSET Files, Rename(p, done) PROVE Ordered'
    <2>1. /\ UNCHANGED <<snap, upstream, trigger, tpl, cand, old>>
          /\ pc[p] = "rename" /\ pc[p] \in Working
          /\ replaced'[p] = done
          /\ pc' = [pc EXCEPT ![p] = "renamed"]
          /\ done \subseteq Targets(p)
          /\ disk' = [g \in Files |-> IF g \in done THEN cand[p][g] ELSE disk[g]]
      <3>1. replaced \in [Procs -> SUBSET Files]
        BY DEF Safe, TypeOK
      <3> QED BY <1>10, <3>1 DEF Rename, request, Working, Goto
    <2>2. pc'[p] = "renamed" /\ Targets(p)' = Targets(p)
      BY <1>0, <2>1 DEF Targets
    <2>3. \A g \in Files : disk[g] <= disk'[g] /\ disk'[g] <= cand[p][g]
      BY <1>0, <1>1, <1>2, <2>1 DEF Collected
    <2>4. Versioned'
      BY <1>0, <1>1, <1>2, <2>1, <2>3 DEF Versioned, Collected
    <2>5. Phase(p)'
      BY <1>2, <2>1, <2>2 DEF Phase
    <2>6. Collected(p)'
      BY <1>0, <1>1, <1>2, <2>1, <2>2, <2>3 DEF Collected
    <2>7. \A q \in Procs \ {p} : Phase(q)' /\ Collected(q)'
      <3>1. \A q \in Procs \ {p} : pc'[q] = pc[q]
        BY <1>0, <2>1
      <3> QED BY <2>1, <3>1, Alone
    <2> QED BY <2>4, <2>5, <2>6, <2>7 DEF Ordered
  <1>11. ASSUME NEW kept \in SUBSET Files, Rollback(p, kept) PROVE Ordered'
    <2>1. /\ UNCHANGED <<snap, upstream>>
          /\ pc[p] = "renamed" /\ pc[p] \in Working
          /\ pc' = [pc EXCEPT ![p] = "release"]
          /\ disk' = [g \in Files |-> IF g \in replaced[p] \ kept THEN old[p][g] ELSE disk[g]]
      BY <1>11 DEF Rollback, Working, Goto
    <2>2. Versioned'
      BY <1>0, <1>1, <1>2, <2>1 DEF Versioned, Collected
    <2>3. Phase(p)' /\ Collected(p)'
      BY <1>0, <2>1 DEF Phase, Collected
    <2>4. \A q \in Procs \ {p} : Phase(q)' /\ Collected(q)'
      <3>1. \A q \in Procs \ {p} : pc'[q] = pc[q]
        BY <1>0, <2>1
      <3> QED BY <2>1, <3>1, Alone
    <2> QED BY <2>2, <2>3, <2>4 DEF Ordered
  <1>12. CASE Apply(p)
    <2>1. /\ UNCHANGED <<disk, upstream>>
          /\ pc[p] = "apply" \/ (pc[p] = "renamed" /\ replaced[p] = Targets(p))
          /\ pc[p] \in Working
          /\ pc' = [pc EXCEPT ![p] = "release"]
          /\ snap' = cand[p]
      BY <1>12 DEF Apply, Working, Goto
    <2>2. cand[p] = disk
      BY <1>12, AppliedIsDisk
    <2>3. Versioned'
      BY <1>0, <1>1, <1>2, <2>1, <2>2 DEF Versioned
    <2>4. Phase(p)' /\ Collected(p)'
      BY <1>0, <2>1 DEF Phase, Collected
    <2>5. \A q \in Procs \ {p} : Phase(q)' /\ Collected(q)'
      <3>1. \A q \in Procs \ {p} : pc'[q] = pc[q]
        BY <1>0, <2>1
      <3> QED BY <2>1, <3>1, Alone
    <2> QED BY <2>3, <2>4, <2>5 DEF Ordered
  <1>13. Goal => Ordered'
    BY DEF Ordered
  <1> QED BY <1>5, <1>6, <1>7, <1>8, <1>9, <1>10, <1>11, <1>12, <1>13 DEF Step

LEMMA OrderStep == MaxEdits = 0 /\ Safe /\ Ordered /\ [Next]_vars => Ordered'
  BY Elsewhere, WorkStep

LEMMA InitOrder == Init => Ordered
  <1> SUFFICES ASSUME Init PROVE Ordered
    OBVIOUS
  <1>1. \A p \in Procs : Phase(p) /\ Collected(p)
    <2>1. \A p \in Procs : pc[p] \in {"wait", "idle"}
      BY DEF Init
    <2> QED BY <2>1 DEF Phase, Collected
  <1>2. Versioned
    <2>1. \A f \in Files : upstream[f] = 1 /\ disk[f] \in {0, 1}
      BY DEF Init
    <2>2. CASE snap = disk
      BY <2>1, <2>2 DEF Versioned
    <2>3. CASE snap = Empty
      BY <2>1, <2>3 DEF Versioned, Empty
    <2> QED BY <2>2, <2>3 DEF Init
  <1> QED BY <1>1, <1>2 DEF Ordered

\* Apply is the only step that changes the snapshot, and it never loses a version.
LEMMA SnapshotGrows ==
    ASSUME Safe, Ordered, [Next]_vars
    PROVE  \A f \in Files : snap'[f] >= snap[f]
  <1>1. \A f \in Files : snap[f] \in Nat /\ disk[f] \in Nat /\ snap[f] <= disk[f]
    BY SnapshotFacts, BoundsAssumption DEF Safe, TypeOK, Ordered, Versioned
  <1>2. ASSUME NEW p \in Procs, Apply(p) PROVE \A f \in Files : snap'[f] >= snap[f]
    BY <1>1, <1>2, AppliedIsDisk DEF Apply
  <1>3. CASE ~\E p \in Procs : Apply(p)
    <2>1. UNCHANGED snap
      BY ZenonT(60), <1>3 DEF Next, vars, store, Publish, Due, Edit, Start, Tick, HandleRefresh, Disconnect,
                  HandleRequest, Handle, EnsureTemplate, Serve, Returned, Finish, Step, Acquire,
                  Abandon, Release, Fetch, FetchFails, ReadDisk, ReadFails, Backup, StageFails,
                  Rename, Rollback, LogResult, WorkFails
    <2> QED BY <1>1, <2>1
  <1> QED BY <1>2, <1>3

\* With nobody else editing the cache, every step of the program that changes the
\* snapshot changes it to versions at least as new, file by file.
THEOREM SnapshotNeverRegresses == ASSUME MaxEdits = 0 PROVE Spec => NoRegression
  <1>1. Safe /\ Ordered /\ [Next]_vars => [\A f \in Files : snap'[f] >= snap[f]]_vars
    BY SnapshotGrows
  <1>2. Init => Ordered
    BY InitOrder
  <1>3. Safe /\ Ordered /\ [Next]_vars => Ordered'
    BY OrderStep
  <1> QED BY <1>1, <1>2, <1>3, TypeCorrect, OneWriter, PTL DEF Spec, Safe, NoRegression
----
(* A client is told "refreshed" only after its refresh: what the remote served when *)
(* the request arrived is carried through the wait, the fetches and the commit.     *)

AtMost(s, t) == \A f \in Files : s[f] <= t[f]

Wanted(r) ==
    /\ trigger[r] = "manual" =>
        /\ pc[r] \in {"wait", "fetch"} => AtMost(want[r], upstream)
        /\ pc[r] = "fetch" => \A f \in Fetched(r) : want[r][f] <= cand[r][f]
        /\ pc[r] \in {"stage", "rename", "renamed"} => AtMost(want[r], cand[r])
        /\ pc[r] \in {"release", "returned"} /\ ~failed[r] => AtMost(want[r], snap)
    /\ status[r] = "refreshed" => AtMost(want[r], snap)

Invariant == Safe /\ Ordered

LEMMA UpstreamGrows ==
    ASSUME TypeOK, TypeOK', [Next]_vars
    PROVE  AtMost(upstream, upstream')
  <1>1. \A f \in Files : upstream[f] \in Nat
    BY SnapshotFacts, BoundsAssumption DEF TypeOK
  <1>2. ASSUME NEW f \in Files, Publish(f) PROVE AtMost(upstream, upstream')
    BY <1>1, <1>2 DEF Publish, TypeOK, Snapshots, AtMost
  <1>3. CASE ~\E f \in Files : Publish(f)
    <2>1. UNCHANGED upstream
      BY ZenonT(60), <1>3 DEF Next, vars, store, Due, Edit, Start, Tick, HandleRefresh, Disconnect,
                  HandleRequest, Handle, EnsureTemplate, Serve, Returned, Finish, Step, Acquire,
                  Abandon, Release, Fetch, FetchFails, ReadDisk, ReadFails, Backup, StageFails,
                  Rename, Rollback, Apply, LogResult, WorkFails
    <2> QED BY <1>1, <2>1 DEF AtMost
  <1> QED BY <1>2, <1>3

\* The steps of the others leave a request's own variables alone.
LEMMA Others ==
    ASSUME TypeOK, Next, NEW r \in Requests,
           ~Step(r), ~Handle(r), ~HandleRefresh(r),
           ~\E t \in Templates, q \in BOOLEAN : HandleRequest(r, t, q)
    PROVE  /\ pc'[r] = pc[r] /\ trigger'[r] = trigger[r] /\ cand'[r] = cand[r]
           /\ cur'[r] = cur[r] /\ failed'[r] = failed[r] /\ status'[r] = status[r]
           /\ want'[r] = want[r]
  <1> DEFINE Same == /\ pc'[r] = pc[r] /\ trigger'[r] = trigger[r] /\ cand'[r] = cand[r]
                     /\ cur'[r] = cur[r] /\ failed'[r] = failed[r] /\ status'[r] = status[r]
                     /\ want'[r] = want[r]
  <1> USE ProcsAssumption DEF store, request, work, Goto, Procs
  <1>1. ASSUME NEW p \in Procs, p # r, Step(p) PROVE Same
    BY ZenonT(60), <1>1 DEF Step, Acquire, Abandon, Release, Fetch, FetchFails, ReadDisk, ReadFails, Backup,
                StageFails, Rename, Rollback, Apply, LogResult, WorkFails, TypeOK
  <1>2. ASSUME NEW x \in Requests, x # r, Handle(x) PROVE Same
    BY <1>2 DEF Handle, EnsureTemplate, Serve, Returned, Finish, Answer, Call, TypeOK
  <1>3. ASSUME NEW x \in Requests, x # r,
               HandleRefresh(x) \/ \E t \in Templates, q \in BOOLEAN : HandleRequest(x, t, q)
        PROVE Same
    BY <1>3 DEF HandleRefresh, HandleRequest, Arrive, Call, TypeOK
  <1>4. CASE Start \/ Tick \/ \E f \in Files : Due(f)
    BY <1>4 DEF Start, Tick, Due, Call, TypeOK
  <1>5. CASE \/ \E f \in Files : Publish(f)
             \/ \E f \in Files, v \in {0, Local}, q \in BOOLEAN : Edit(f, v, q)
             \/ \E x \in Requests : Disconnect(x)
    BY <1>5 DEF Publish, Edit, Disconnect
  <1> QED BY <1>1, <1>2, <1>3, <1>4, <1>5 DEF Next

LEMMA WantedStep ==
    ASSUME Invariant, Invariant', [Next]_vars, NEW r \in Requests, Wanted(r)
    PROVE  Wanted(r)'
  <1>1. /\ \A f \in Files : /\ upstream[f] \in Nat /\ upstream'[f] \in Nat
                            /\ snap[f] \in Nat /\ snap'[f] \in Nat
                            /\ want[r][f] \in Nat /\ cand[r][f] \in Nat
        /\ r \in Procs
    BY SnapshotFacts, BoundsAssumption DEF Invariant, Safe, TypeOK, Procs
  <1>2. AtMost(upstream, upstream') /\ AtMost(snap, snap')
    <2>1. AtMost(upstream, upstream')
      BY UpstreamGrows DEF Invariant, Safe
    <2>2. AtMost(snap, snap')
      BY <1>1, SnapshotGrows DEF AtMost, Invariant
    <2> QED BY <2>1, <2>2
  <1>3. /\ AtMost(want[r], upstream) => AtMost(want[r], upstream')
        /\ AtMost(want[r], snap) => AtMost(want[r], snap')
    BY <1>1, <1>2 DEF AtMost
  <1>4. TypeOK /\ Phase(r) /\ Collected(r) /\ Shape
    BY <1>1 DEF Invariant, Safe, Ordered
  <1>5. pc[r] = "answered" <=> status[r] # "none"
    BY <1>4 DEF TypeOK
  <1>6. ASSUME pc'[r] = pc[r], trigger'[r] = trigger[r], cand'[r] = cand[r], cur'[r] = cur[r],
               failed'[r] = failed[r], status'[r] = status[r], want'[r] = want[r]
        PROVE  Wanted(r)'
    <2>1. trigger[r] = "manual" => Fetched(r)' = Fetched(r)
      BY <1>6 DEF Fetched, Full
    <2> QED BY <1>3, <1>6, <2>1 DEF Wanted
  <1>7. CASE Step(r)
    <2>1. UNCHANGED <<want, status>>
      BY <1>7 DEF Step, Acquire, Abandon, Release, Fetch, FetchFails, ReadDisk, ReadFails, Backup,
                  StageFails, Rename, Rollback, Apply, LogResult, WorkFails, request
    <2>2. UNCHANGED trigger
      BY <1>7 DEF Step, Acquire, Abandon, Release, Fetch, FetchFails, ReadDisk, ReadFails, Backup,
                  StageFails, Rename, Rollback, Apply, LogResult, WorkFails, work
    <2>3. status'[r] = "refreshed" => AtMost(want'[r], snap')
      BY <1>3, <2>1 DEF Wanted
    <2>4. ASSUME trigger[r] = "manual"
          PROVE  /\ pc'[r] \in {"wait", "fetch"} => AtMost(want[r], upstream')
                 /\ pc'[r] = "fetch" => \A f \in Fetched(r)' : want[r][f] <= cand'[r][f]
                 /\ pc'[r] \in {"stage", "rename", "renamed"} => AtMost(want[r], cand'[r])
                 /\ pc'[r] \in {"release", "returned"} /\ ~failed'[r] => AtMost(want[r], snap')
      <3> DEFINE Goal == /\ pc'[r] \in {"wait", "fetch"} => AtMost(want[r], upstream')
                         /\ pc'[r] = "fetch" => \A f \in Fetched(r)' : want[r][f] <= cand'[r][f]
                         /\ pc'[r] \in {"stage", "rename", "renamed"} => AtMost(want[r], cand'[r])
                         /\ pc'[r] \in {"release", "returned"} /\ ~failed'[r] => AtMost(want[r], snap')
      <3>0. /\ pc \in [Procs -> {"idle", "wait", "returned"} \cup Working \cup Handling]
            /\ failed \in [Procs -> BOOLEAN] /\ cand \in [Procs -> Snapshots]
            /\ cancelled \in [Procs -> BOOLEAN]
            /\ cur \in [Procs -> 1..Len(Order) + 1]
        BY <1>4 DEF TypeOK
      <3>1. CASE Acquire(r)
        <4>1. /\ pc[r] = "wait" /\ cur[r] = 1 /\ cur' = cur
              /\ pc'[r] = IF cancelled[r] THEN "release" ELSE "fetch"
              /\ failed'[r] = cancelled[r]
          BY <1>1, <1>4, <2>4, <3>0, <3>1 DEF Acquire, Goto, Shape, Working
        <4>2. Fetched(r)' = {}
          BY <2>2, <2>4, <4>1 DEF Fetched, Full
        <4> QED BY <1>3, <2>4, <3>0, <4>1, <4>2 DEF Wanted
      <3>2. CASE Abandon(r) \/ FetchFails(r) \/ ReadFails(r) \/ StageFails(r)
        <4>1. failed'[r] = TRUE /\ pc'[r] \in {"release", "returned"}
          BY <1>1, <3>0, <3>2 DEF Abandon, FetchFails, ReadFails, StageFails, WorkFails, Goto
        <4> QED BY <4>1
      <3>3. CASE Release(r)
        <4>1. failed' = failed /\ snap' = snap /\ pc[r] = "release" /\ pc'[r] = "returned"
          BY <1>1, <3>0, <3>3 DEF Release, Goto, store
        <4> QED BY <2>4, <4>1 DEF Wanted
      <3>4. CASE Fetch(r)
        <4> DEFINE g == Order[cur[r]]
        <4>1. /\ pc[r] = "fetch" /\ cur[r] \in 1..Len(Order) /\ g \in Files
              /\ upstream' = upstream
              /\ cand'[r] = [cand[r] EXCEPT ![g] = upstream[g]]
              /\ cur'[r] = cur[r] + 1
              /\ pc'[r] = IF cur[r] = Len(Order) THEN "stage" ELSE "fetch"
          BY <1>1, <1>4, <2>4, <3>0, <3>4, OrderFacts DEF Fetch, Goto, store, Shape, Full
        <4>2. /\ cand[r] \in Snapshots
              /\ \A f \in Files : cand'[r][f] = IF f = g THEN upstream[f] ELSE cand[r][f]
          BY <1>1, <3>0, <4>1 DEF Snapshots
        <4>3. \A f \in {Order[i] : i \in 1..cur[r]} : want[r][f] <= cand'[r][f]
          <5>1. AtMost(want[r], upstream) /\ \A f \in Fetched(r) : want[r][f] <= cand[r][f]
            BY <2>4, <4>1 DEF Wanted
          <5>2. Fetched(r) = {Order[i] : i \in 1..cur[r] - 1}
            BY <2>4 DEF Fetched, Full
          <5>3. \A i \in 1..cur[r] : Order[i] \in Files /\ (i = cur[r] \/ i \in 1..cur[r] - 1)
            BY <4>1, OrderFacts
          <5> QED BY <4>2, <5>1, <5>2, <5>3 DEF AtMost
        <4>4. pc'[r] = "fetch" => Fetched(r)' = {Order[i] : i \in 1..cur[r]}
          BY <2>2, <2>4, <4>1 DEF Fetched, Full
        <4>5. pc'[r] = "stage" => AtMost(want[r], cand'[r])
          BY <4>1, <4>3, OrderFacts DEF AtMost
        <4> QED BY <1>3, <2>4, <4>1, <4>3, <4>4, <4>5 DEF Wanted
      <3>5. CASE Backup(r)
        <4>1. pc[r] = "stage" /\ pc'[r] = "rename" /\ cand' = cand
          BY <1>1, <3>0, <3>5 DEF Backup, Goto
        <4> QED BY <2>4, <4>1 DEF Wanted
      <3>6. ASSUME NEW done \in SUBSET Files, Rename(r, done) PROVE Goal
        <4>1. pc[r] = "rename" /\ pc'[r] = "renamed" /\ cand' = cand
          BY <1>1, <3>0, <3>6 DEF Rename, Goto
        <4> QED BY <2>4, <4>1 DEF Wanted
      <3>7. ASSUME NEW kept \in SUBSET Files, Rollback(r, kept) PROVE Goal
        <4>1. pc'[r] = "release" /\ failed'[r] = TRUE
          BY <1>1, <3>0, <3>7 DEF Rollback, Goto
        <4> QED BY <4>1
      <3>8. CASE Apply(r)
        <4>1. pc[r] = "renamed" /\ pc'[r] = "release" /\ snap' = cand[r]
          BY <1>1, <1>4, <2>4, <3>0, <3>8 DEF Apply, Goto, Phase
        <4> QED BY <2>4, <4>1 DEF Wanted
      <3>9. ~ReadDisk(r)
        BY <1>4, <2>4 DEF ReadDisk, Phase
      <3>10. ~LogResult(r)
        BY ProcsAssumption DEF LogResult
      <3> QED BY <1>7, <3>1, <3>2, <3>3, <3>4, <3>5, <3>6, <3>7, <3>8, <3>9, <3>10 DEF Step
    <2> QED BY <2>1, <2>2, <2>3, <2>4 DEF Wanted
  <1>8. ASSUME HandleRefresh(r) \/ \E t \in Templates, q \in BOOLEAN : HandleRequest(r, t, q)
        PROVE  Wanted(r)'
    <2>1. /\ pc[r] = "idle" /\ status' = status /\ upstream' = upstream
          /\ \/ pc'[r] = "ensure"
             \/ pc'[r] = "wait" /\ trigger'[r] = "query"
             \/ pc'[r] = "wait" /\ want'[r] = upstream
      BY <1>1, <1>4, <1>8 DEF HandleRefresh, HandleRequest, Arrive, Call, Goto, store, TypeOK
    <2>2. status'[r] = "none"
      BY <1>5, <2>1
    <2> QED BY <1>1, <2>1, <2>2 DEF Wanted, AtMost
  <1>9. CASE Handle(r)
    <2>1. CASE \E d \in BOOLEAN : EnsureTemplate(r, d)
      <3>1. /\ pc[r] = "ensure" /\ status' = status
            /\ pc'[r] = "serve" \/ (pc'[r] = "wait" /\ trigger'[r] \in {"on-demand", "watcher"})
        BY <1>1, <1>4, <2>1 DEF EnsureTemplate, Call, Goto, TypeOK
      <3> QED BY <1>5, <3>1 DEF Wanted
    <2>2. CASE \E d \in BOOLEAN : Serve(r, d)
      <3>1. pc'[r] = "answered" /\ status'[r] \in {"not_loaded", "ok", "render_error"}
        BY <1>1, <1>4, <2>2 DEF Serve, Answer, Goto, TypeOK
      <3> QED BY <3>1 DEF Wanted
    <2>3. CASE Returned(r)
      <3>1. /\ pc[r] = "returned" /\ pc'[r] \in {"answered", "ensure", "serve"}
            /\ snap' = snap /\ want' = want
            /\ status'[r] # "refreshed" \/ (trigger[r] = "manual" /\ ~failed[r])
        <4>1. status[r] = "none"
          BY <1>5, <2>3 DEF Returned
        <4> QED BY <1>1, <1>4, <2>3, <4>1 DEF Returned, Answer, Goto, store, TypeOK
      <3> QED BY <3>1 DEF Wanted
    <2>4. CASE Finish(r)
      <3>1. pc'[r] = "idle" /\ status'[r] = "none"
        BY <1>1, <1>4, <2>4 DEF Finish, Goto, TypeOK
      <3> QED BY <3>1 DEF Wanted
    <2> QED BY <1>9, <2>1, <2>2, <2>3, <2>4 DEF Handle
  <1>10. CASE UNCHANGED vars
    BY <1>6, <1>10 DEF vars, work, request
  <1> QED BY <1>4, <1>6, <1>7, <1>8, <1>9, <1>10, Others

\* The invariant that carries every result about versions.
LEMMA InvariantHolds == ASSUME MaxEdits = 0 PROVE Spec => []Invariant
  <1>1. Init => Ordered
    BY InitOrder
  <1>2. Safe /\ Ordered /\ [Next]_vars => Ordered'
    BY OrderStep
  <1> QED BY <1>1, <1>2, TypeCorrect, OneWriter, PTL DEF Spec, Safe, Invariant

\* "Files refreshed successfully" (handler.go:391-393) is only ever answered when the
\* snapshot holds, of every file, at least the version the remote served when the request
\* arrived, however long it waited behind other refreshes.
THEOREM RefreshIsTruthful == ASSUME MaxEdits = 0 PROVE Spec => []RefreshedMeansNew
  <1> DEFINE AllWanted == \A r \in Requests : Wanted(r)
  <1>1. Init => AllWanted
    <2> SUFFICES ASSUME Init, NEW r \in Requests PROVE Wanted(r)
      OBVIOUS
    <2>1. pc[r] = "idle" /\ status[r] = "none"
      BY ProcsAssumption DEF Init, Procs
    <2> QED BY <2>1 DEF Wanted
  <1>2. Invariant /\ Invariant' /\ AllWanted /\ [Next]_vars => AllWanted'
    BY WantedStep
  <1>3. Invariant /\ AllWanted => RefreshedMeansNew
    <2> SUFFICES ASSUME Invariant, AllWanted, NEW r \in Requests, status[r] = "refreshed",
                        NEW f \in Files
                 PROVE  snap[f] >= want[r][f]
      BY DEF RefreshedMeansNew
    <2>1. snap[f] \in Nat /\ want[r][f] \in Nat
      BY SnapshotFacts, BoundsAssumption DEF Invariant, Safe, TypeOK
    <2> QED BY <2>1 DEF Wanted, AtMost
  <1> QED BY <1>1, <1>2, <1>3, InvariantHolds, PTL DEF Spec
----
(* Last known good: the snapshot is empty or whole.  It becomes whole by a reading of *)
(* all files and stays so.                                                             *)

\* What the work of p has fetched or read is there.
Filled(p) ==
    /\ pc[p] \in {"fetch", "read"} => \A f \in Fetched(p) : cand[p][f] # 0
    /\ pc[p] \in {"stage", "rename", "renamed", "apply"} => Complete(cand[p])

\* The snapshot is empty or whole, and what comes next is whole.
KnownGood ==
    /\ \A f \in Files : upstream[f] # 0
    /\ \A p \in Procs : Phase(p) /\ Filled(p)
    /\ snap = Empty \/ Complete(snap)

\* A request that found a usable snapshot has noted that its template is in it.
Served(r) == had[r] =>
    /\ Complete(snap)
    /\ pc[r] \in {"wait", "returned"} \cup Working =>
          trigger[r] # "watcher" /\ (trigger[r] = "on-demand" => loaded[r])
    /\ status[r] \notin {"bad_request", "not_loaded"}

\* A step of one goroutine's work leaves the others and all requests alone.
LEMMA StepIsLocal ==
    ASSUME Safe, NEW p \in Procs, Step(p)
    PROVE  /\ UNCHANGED <<request, upstream, trigger, started>>
           /\ \A q \in Procs \ {p} :
                /\ pc'[q] = pc[q] /\ cand'[q] = cand[q] /\ old'[q] = old[q]
                /\ replaced'[q] = replaced[q] /\ cur'[q] = cur[q]
  BY ZenonT(60) DEF Safe, TypeOK, Step, Goto, store, work, request, Acquire, Abandon, Release, Fetch, FetchFails,
     ReadDisk, ReadFails, Backup, StageFails, WorkFails, Rename, Rollback, Apply, LogResult

\* What the other steps can do: a goroutine that works afterwards has not been touched.
LEMMA OtherSteps ==
    ASSUME Safe, [Next]_vars, ~\E p \in Procs : Step(p)
    PROVE  /\ \A q \in Procs : pc'[q] \in Working =>
                /\ pc'[q] = pc[q] /\ trigger'[q] = trigger[q] /\ cand'[q] = cand[q]
                /\ old'[q] = old[q] /\ replaced'[q] = replaced[q] /\ cur'[q] = cur[q]
                /\ q \in Requests => tpl'[q] = tpl[q]
           /\ UNCHANGED snap
           /\ \A f \in Files : upstream[f] # 0 => upstream'[f] # 0
  <1> DEFINE Kept(q) ==
        /\ pc'[q] = pc[q] /\ trigger'[q] = trigger[q] /\ cand'[q] = cand[q]
        /\ old'[q] = old[q] /\ replaced'[q] = replaced[q] /\ cur'[q] = cur[q]
        /\ q \in Requests => tpl'[q] = tpl[q]
  <1> DEFINE Quiet == /\ \A q \in Procs : pc'[q] \in Working => Kept(q)
                      /\ UNCHANGED snap
                      /\ \A f \in Files : upstream[f] # 0 => upstream'[f] # 0
  <1>1. upstream \in [Files -> Nat]
    BY BoundsAssumption DEF Safe, TypeOK, Snapshots, Versions, Local
  <1> USE DEF Safe, TypeOK, Goto, Call, store, request, work, Working, Procs
  <1>2. ASSUME NEW f \in Files, Publish(f) PROVE Quiet
    <2>1. \A g \in Files : upstream[g] # 0 => upstream'[g] # 0
      BY <1>1, <1>2 DEF Publish
    <2> QED BY <1>2, <2>1 DEF Publish
  <1>3. ASSUME NEW f \in Files, Due(f) PROVE Quiet
    BY <1>3 DEF Due
  <1>4. ASSUME NEW f \in Files, NEW v \in {0, Local}, NEW q \in BOOLEAN, Edit(f, v, q) PROVE Quiet
    BY <1>4 DEF Edit
  <1>5. CASE Start \/ Tick
    BY <1>5 DEF Start, Tick
  <1>6. ASSUME NEW r \in Requests, Disconnect(r) PROVE Quiet
    BY <1>6 DEF Disconnect
  <1>7. ASSUME NEW r \in Requests, HandleRefresh(r) PROVE Quiet
    BY <1>7 DEF HandleRefresh, Arrive
  <1>8. ASSUME NEW r \in Requests, NEW t \in Templates, NEW q \in BOOLEAN, HandleRequest(r, t, q)
        PROVE  Quiet
    BY <1>8 DEF HandleRequest, Arrive
  <1>9. ASSUME NEW r \in Requests, NEW d \in BOOLEAN, EnsureTemplate(r, d) PROVE Quiet
    BY <1>9 DEF EnsureTemplate
  <1>10. ASSUME NEW r \in Requests, NEW d \in BOOLEAN, Serve(r, d) PROVE Quiet
    BY <1>10 DEF Serve, Answer
  <1>11. ASSUME NEW r \in Requests, Returned(r) PROVE Quiet
    BY <1>11 DEF Returned, Answer
  <1>12. ASSUME NEW r \in Requests, Finish(r) PROVE Quiet
    BY <1>12 DEF Finish
  <1>13. CASE UNCHANGED vars
    BY <1>13 DEF vars
  <1> HIDE DEF Safe, TypeOK, Goto, Call, store, request, work, Working, Procs
  <1> QED BY <1>2, <1>3, <1>4, <1>5, <1>6, <1>7, <1>8, <1>9, <1>10, <1>11, <1>12, <1>13 DEF Next, Handle

\* What the next file is, and which have been fetched when it is in.
LEMMA FetchFacts ==
    ASSUME Safe, NEW p \in Procs, Phase(p), Fetch(p)
    PROVE  \E f \in Files :
              /\ \A g \in Files : cand'[p][g] = IF g = f THEN upstream[f] ELSE cand[p][g]
              /\ Fetched(p)' \subseteq Fetched(p) \cup {f} /\ Fetched(p) \subseteq Files
              /\ pc'[p] \in {"read", "stage", "fetch"}
              /\ pc'[p] = "stage" => trigger[p] \in Full /\ Files \subseteq Fetched(p) \cup {f}
              /\ pc'[p] = "read" => trigger[p] = "on-demand"
  <1> DEFINE full == trigger[p] \in Full
             f == IF full THEN Order[cur[p]] ELSE tpl[p]
  <1>1. /\ UNCHANGED <<trigger, tpl, upstream>> /\ pc[p] = "fetch"
        /\ cand' = [cand EXCEPT ![p] = [@ EXCEPT ![f] = upstream[f]]]
        /\ cur' = [cur EXCEPT ![p] = @ + 1]
        /\ pc' = [pc EXCEPT ![p] = IF ~full THEN "read" ELSE IF cur[p] = Len(Order) THEN "stage" ELSE "fetch"]
    BY DEF Fetch, store, request, Goto
  <1>2. /\ trigger[p] # "watcher" /\ cur[p] \in 1..Len(Order) /\ cur \in [Procs -> 1..Len(Order) + 1]
        /\ trigger[p] \in Full \cup {"on-demand", "watcher"} /\ cand \in [Procs -> Snapshots]
        /\ pc \in [Procs -> {"idle", "wait", "returned"} \cup Working \cup Handling]
    BY <1>1 DEF Safe, TypeOK, Shape
  <1>3. trigger[p] = "on-demand" => p \in Requests /\ tpl[p] \in Files
    BY OrderFacts DEF Safe, TypeOK, Shape
  <1>4. f \in Files /\ Fetched(p) \subseteq Files
    BY <1>2, <1>3, OrderFacts DEF Full, Fetched
  <1>5. \A g \in Files : cand'[p][g] = IF g = f THEN upstream[f] ELSE cand[p][g]
    BY <1>1, <1>2, <1>4 DEF Snapshots
  <1>6. /\ pc'[p] = IF ~full THEN "read" ELSE IF cur[p] = Len(Order) THEN "stage" ELSE "fetch"
        /\ cur'[p] = cur[p] + 1
    BY <1>1, <1>2
  <1>7. Fetched(p)' \subseteq Fetched(p) \cup {f}
    BY <1>1, <1>2, <1>6 DEF Fetched
  <1>8. full /\ cur[p] = Len(Order) => Files \subseteq Fetched(p) \cup {f}
    <2>1. \A i \in 1..Len(Order) : i = Len(Order) \/ i \in 1..Len(Order) - 1
      BY OrderFacts
    <2> QED BY <2>1, OrderFacts DEF Fetched
  <1> QED BY <1>2, <1>4, <1>5, <1>6, <1>7, <1>8

LEMMA GoodWork ==
    ASSUME Safe, KnownGood, NEW p \in Procs, Step(p)
    PROVE  KnownGood'
  <1>1. Phase(p) /\ Filled(p) /\ \A f \in Files : upstream[f] # 0
    BY DEF KnownGood
  <1>2. UNCHANGED <<request, upstream, trigger>>
    BY StepIsLocal
  <1>3. /\ pc \in [Procs -> {"idle", "wait", "returned"} \cup Working \cup Handling]
        /\ cand \in [Procs -> Snapshots] /\ trigger[p] \in Full \cup {"on-demand", "watcher"}
        /\ disk \in Snapshots
    BY DEF Safe, TypeOK
  <1>4. Phase(p)' /\ Filled(p)'
    <2>1. CASE Acquire(p)
      <3>1. cur[p] = 1 /\ cur'[p] = 1 /\ pc[p] = "wait"
        BY <2>1 DEF Acquire, Safe, Shape, Working
      <3>2. pc'[p] \in {"release", "read", "fetch"} /\ (pc'[p] = "read" => trigger[p] = "watcher")
        BY <1>3, <2>1 DEF Acquire, Goto
      <3>3. pc'[p] = "fetch" \/ trigger[p] = "watcher" => Fetched(p)' = {}
        BY <1>2, <3>1, <3>2 DEF Fetched, Full
      <3> QED BY <1>2, <3>2, <3>3 DEF Phase, Filled
    <2>2. CASE Abandon(p) \/ Release(p) \/ LogResult(p) \/ FetchFails(p) \/ ReadFails(p) \/ StageFails(p)
      <3>1. pc'[p] \in {"returned", "idle", "release"}
        BY <1>3, <2>2 DEF Abandon, Release, LogResult, FetchFails, ReadFails, StageFails, WorkFails, Goto
      <3> QED BY <3>1 DEF Phase, Filled
    <2>3. CASE Fetch(p)
      <3>1. PICK f \in Files :
              /\ \A g \in Files : cand'[p][g] = IF g = f THEN upstream[f] ELSE cand[p][g]
              /\ Fetched(p)' \subseteq Fetched(p) \cup {f} /\ Fetched(p) \subseteq Files
              /\ pc'[p] \in {"read", "stage", "fetch"}
              /\ pc'[p] = "stage" => trigger[p] \in Full /\ Files \subseteq Fetched(p) \cup {f}
              /\ pc'[p] = "read" => trigger[p] = "on-demand"
        BY <1>1, <2>3, FetchFacts
      <3>2. \A g \in Fetched(p) \cup {f} : cand'[p][g] # 0
        BY <1>1, <2>3, <3>1 DEF Filled, Fetch
      <3>3. Phase(p)'
        BY <1>2, <3>1 DEF Phase
      <3>4. Filled(p)'
        BY <3>1, <3>2 DEF Filled, Complete
      <3> QED BY <3>3, <3>4
    <2>4. CASE ReadDisk(p)
      <3>1. /\ pc[p] = "read" /\ \A f \in Files \ Targets(p) : disk[f] # 0
            /\ cand'[p] = [f \in Files |-> IF f \in Targets(p) THEN cand[p][f] ELSE disk[f]]
            /\ pc'[p] = IF trigger[p] = "watcher" THEN "apply" ELSE "stage"
        BY <1>3, <2>4 DEF ReadDisk, Goto
      <3>2. trigger[p] \in {"on-demand", "watcher"}
        BY <1>1, <3>1 DEF Phase
      <3>3. Targets(p) \subseteq Fetched(p)
        BY <3>1, <3>2 DEF Targets, Fetched, Full
      <3>4. Complete(cand'[p])
        BY <1>1, <3>1, <3>3 DEF Filled, Complete
      <3> QED BY <1>2, <3>1, <3>2, <3>4 DEF Phase, Filled, Complete
    <2>5. CASE Backup(p) \/ (\E done \in SUBSET Files : Rename(p, done))
      <3>1. /\ pc[p] \in {"stage", "rename"} /\ pc'[p] \in {"rename", "renamed"} /\ cand' = cand
        BY <1>3, <2>5 DEF Backup, Rename, Goto
      <3> QED BY <1>1, <1>2, <3>1 DEF Phase, Filled, Complete
    <2>6. CASE Apply(p) \/ (\E kept \in SUBSET Files : Rollback(p, kept))
      <3>1. pc'[p] = "release"
        BY <1>3, <2>6 DEF Apply, Rollback, Goto
      <3> QED BY <3>1 DEF Phase, Filled
    <2> QED BY <2>1, <2>2, <2>3, <2>4, <2>5, <2>6 DEF Step
  <1>5. ASSUME NEW q \in Procs \ {p} PROVE Phase(q)' /\ Filled(q)'
    <2>1. Phase(q) /\ Filled(q) /\ (trigger[q] = "on-demand" => q \in Requests)
      BY DEF KnownGood, Safe, Shape
    <2>2. /\ pc'[q] = pc[q] /\ trigger' = trigger /\ cand'[q] = cand[q] /\ cur'[q] = cur[q]
          /\ tpl' = tpl
      BY StepIsLocal DEF request
    <2> QED BY <2>1, <2>2 DEF Phase, Filled, Fetched, Complete
  <1>6. snap' = Empty \/ Complete(snap')
    <2>1. CASE Apply(p)
      BY <1>1, <2>1 DEF Apply, Filled
    <2>2. CASE ~Apply(p)
      <3>1. snap' = snap
        BY <2>2 DEF Step, store, Acquire, Abandon, Release, Fetch, FetchFails, ReadDisk, ReadFails, Backup,
           StageFails, WorkFails, Rename, Rollback, LogResult
      <3> QED BY <3>1 DEF KnownGood, Complete
    <2> QED BY <2>1, <2>2
  <1>7. \A f \in Files : upstream'[f] # 0
    BY <1>1, <1>2
  <1> QED BY <1>4, <1>5, <1>6, <1>7 DEF KnownGood, Complete

LEMMA GoodStep == Safe /\ KnownGood /\ [Next]_vars => KnownGood'
  <1> SUFFICES ASSUME Safe, KnownGood, [Next]_vars, ~\E p \in Procs : Step(p)
               PROVE  KnownGood'
    BY GoodWork
  <1>1. /\ UNCHANGED snap
        /\ \A f \in Files : upstream[f] # 0 => upstream'[f] # 0
    BY OtherSteps
  <1>2. ASSUME NEW q \in Procs PROVE Phase(q)' /\ Filled(q)'
    <2>1. CASE pc'[q] \in Working
      <3>1. Phase(q) /\ Filled(q) /\ (trigger[q] = "on-demand" => q \in Requests)
        BY DEF KnownGood, Safe, Shape
      <3>2. /\ pc'[q] = pc[q] /\ trigger'[q] = trigger[q] /\ cand'[q] = cand[q] /\ cur'[q] = cur[q]
            /\ q \in Requests => tpl'[q] = tpl[q]
        BY <2>1, OtherSteps
      <3> QED BY <3>1, <3>2 DEF Phase, Filled, Fetched, Complete
    <2>2. CASE pc'[q] \notin Working
      BY <2>2 DEF Phase, Filled, Working
    <2> QED BY <2>1, <2>2
  <1> QED BY <1>1, <1>2 DEF KnownGood, Complete

LEMMA SnapshotStaysWhole ==
    ASSUME Safe, KnownGood, [Next]_vars, Complete(snap)
    PROVE  Complete(snap')
  <1>1. ASSUME NEW p \in Procs, Apply(p) PROVE Complete(snap')
    BY <1>1 DEF Apply, KnownGood, Filled
  <1>2. CASE ~\E p \in Procs : Apply(p)
    <2>1. CASE \E p \in Procs : Step(p)
      BY ZenonT(60), <1>2, <2>1 DEF Step, store, Acquire, Abandon, Release, Fetch, FetchFails, ReadDisk, ReadFails,
         Backup, StageFails, WorkFails, Rename, Rollback, LogResult
    <2>2. CASE ~\E p \in Procs : Step(p)
      BY <2>2, OtherSteps
    <2> QED BY <2>1, <2>2
  <1> QED BY <1>1, <1>2

LEMMA ServedStep ==
    ASSUME Safe, KnownGood, [Next]_vars, NEW r \in Requests, Served(r)
    PROVE  Served(r)'
  <1> DEFINE Whole == Complete(snap) => Complete(snap')
  <1>1. Whole
    BY SnapshotStaysWhole
  <1>2. tpl[r] \in Files /\ r \in Procs /\ r \notin {updater, watcher}
    BY OrderFacts, ProcsAssumption DEF Safe, TypeOK, Procs
  <1>3. snap = Empty \/ Complete(snap)
    BY DEF KnownGood
  <1> USE DEF Safe, TypeOK, Served, Goto, Call, store, request, work, Working, Handling, Full
  <1>4. ASSUME NEW p \in Procs, Step(p) PROVE Served(r)'
    <2>1. /\ UNCHANGED <<had, trigger, loaded, status>>
          /\ pc'[r] \in {"wait", "returned"} \cup Working => pc[r] \in {"wait", "returned"} \cup Working
      BY ZenonT(60), <1>4, <1>2 DEF Step, Acquire, Abandon, Release, Fetch, FetchFails, ReadDisk, ReadFails,
         Backup, StageFails, WorkFails, Rename, Rollback, Apply, LogResult
    <2> HIDE DEF Safe, TypeOK, Working
    <2> QED BY <1>1, <2>1
  <1>5. CASE \E f \in Files : Publish(f) \/ Due(f) \/ \E v \in {0, Local}, q \in BOOLEAN : Edit(f, v, q)
    <2>1. UNCHANGED <<had, loaded, status>> /\ pc'[r] = pc[r] /\ trigger'[r] = trigger[r]
      BY <1>5, <1>2 DEF Publish, Due, Edit
    <2> HIDE DEF Safe, TypeOK, Working
    <2> QED BY <1>1, <2>1
  <1>6. CASE Start \/ Tick \/ UNCHANGED vars
    <2>1. UNCHANGED <<had, loaded, status>> /\ pc'[r] = pc[r] /\ trigger'[r] = trigger[r]
      BY <1>6, <1>2 DEF Start, Tick, vars
    <2> HIDE DEF Safe, TypeOK, Working
    <2> QED BY <1>1, <2>1
  <1>7. ASSUME NEW x \in Requests, x # r,
               \/ HandleRefresh(x) \/ Disconnect(x) \/ Handle(x)
               \/ \E t \in Templates, q \in BOOLEAN : HandleRequest(x, t, q)
        PROVE  Served(r)'
    <2>1. /\ had'[r] = had[r] /\ loaded'[r] = loaded[r] /\ status'[r] = status[r]
          /\ pc'[r] = pc[r] /\ trigger'[r] = trigger[r]
      BY <1>7, <1>2 DEF HandleRefresh, Disconnect, Handle, HandleRequest, EnsureTemplate, Serve, Returned,
         Finish, Answer, Arrive
    <2> HIDE DEF Safe, TypeOK, Working
    <2> QED BY <1>1, <2>1
  <1>8. CASE Disconnect(r)
    <2>1. UNCHANGED <<had, trigger, loaded, status, pc>>
      BY <1>8 DEF Disconnect
    <2> HIDE DEF Safe, TypeOK, Working
    <2> QED BY <1>1, <2>1
  <1>9. CASE HandleRefresh(r) \/ \E t \in Templates, q \in BOOLEAN : HandleRequest(r, t, q)
    <2>1. had'[r] => snap # Empty
      BY <1>9 DEF HandleRefresh, HandleRequest, Arrive
    <2>2. pc'[r] \in {"wait", "returned"} \cup Working => trigger'[r] \in {"manual", "query"}
      BY <1>9, <1>2 DEF HandleRefresh, HandleRequest
    <2>3. status'[r] = "none"
      BY <1>9, <1>2 DEF HandleRefresh, HandleRequest, Arrive
    <2> HIDE DEF Safe, TypeOK, Working
    <2> QED BY <1>1, <1>3, <2>1, <2>2, <2>3
  <1>10. ASSUME NEW d \in BOOLEAN, EnsureTemplate(r, d) PROVE Served(r)'
    <2>1. /\ had' = had /\ status' = status
          /\ loaded'[r] = (snap[tpl[r]] # 0)
          /\ pc'[r] \in {"wait", "returned"} \cup Working =>
                trigger'[r] = "on-demand" \/ (trigger'[r] = "watcher" /\ ~loaded'[r])
      BY <1>10, <1>2 DEF EnsureTemplate
    <2> HIDE DEF Safe, TypeOK, Working
    <2> QED BY <1>1, <1>2, <2>1 DEF Complete
  <1>11. CASE Returned(r)
    <2>1. /\ had' = had /\ pc[r] = "returned" /\ pc'[r] \in {"serve", "ensure", "answered"}
          /\ UNCHANGED <<loaded, trigger, snap, tpl>>
      BY <1>11, <1>2 DEF Returned, Answer
    <2>2. ASSUME had[r] PROVE status'[r] \notin {"bad_request", "not_loaded"}
      BY <1>11, <1>2, <2>2 DEF Returned, Answer, Complete
    <2> HIDE DEF Safe, TypeOK, Working
    <2> QED BY <1>1, <2>1, <2>2 DEF Working
  <1>12. ASSUME NEW d \in BOOLEAN, Serve(r, d) PROVE Served(r)'
    <2>1. had' = had /\ pc'[r] = "answered" /\ (status'[r] = "not_loaded" => snap[tpl[r]] = 0)
          /\ status'[r] # "bad_request"
      BY <1>12, <1>2 DEF Serve, Answer
    <2> HIDE DEF Safe, TypeOK
    <2> QED BY <1>1, <1>2, <2>1 DEF Complete
  <1>13. CASE Finish(r)
    BY <1>13 DEF Finish
  <1> HIDE DEF Safe, TypeOK, Served, Goto, Call, store, request, work, Working, Handling, Full
  <1> QED BY <1>4, <1>5, <1>6, <1>7, <1>8, <1>9, <1>10, <1>11, <1>12, <1>13 DEF Next, Handle

LEMMA GoodHolds == Spec => [](Safe /\ KnownGood)
  <1>1. Init => KnownGood
    <2> SUFFICES ASSUME Init PROVE KnownGood
      OBVIOUS
    <2>1. \A p \in Procs : pc[p] \in {"wait", "idle"}
      BY DEF Init
    <2> QED BY <2>1 DEF Init, KnownGood, Phase, Filled
  <1>2. Safe /\ KnownGood /\ [Next]_vars => KnownGood'
    BY GoodStep
  <1> QED BY <1>1, <1>2, TypeCorrect, OneWriter, PTL DEF Spec, Safe

\* The handlers (handler.go:113-117, 425-431): a request that finds a usable snapshot is
\* served from one, whatever fails in refreshes, reloads and the request's own wait; for
\* every set of templates and requests, and with somebody editing the cache.
THEOREM KnownGoodIsServed == Spec => []LastKnownGoodServed
  <1> DEFINE AllServed == \A r \in Requests : Served(r)
  <1>1. Init => AllServed
    BY DEF Init, Served
  <1>2. Safe /\ KnownGood /\ AllServed /\ [Next]_vars => AllServed'
    BY ServedStep
  <1>3. AllServed => LastKnownGoodServed
    BY DEF Served, LastKnownGoodServed
  <1> QED BY <1>1, <1>2, <1>3, GoodHolds, PTL DEF Spec
----
(* Memory and disk.  Whatever makes them differ is noticed: before the server starts   *)
(* by nobody but the initial refresh itself, later by the watcher.                     *)

\* A reload by the watcher is on its way.
Called == events # {} \/ pc[watcher] = "wait"
Awaited == Called \/ pc[watcher] \in {"read", "apply"}

\* The cache d is what the snapshot s was built from, but for files that have gone, or
\* there was not enough of it to build a snapshot from.
Like(d, s) == (\A f \in Files : d[f] \in {0, s[f]}) \/ (s = Empty /\ ~Complete(d))

\* Before the server has started only the initial refresh is at work.
Starting == ~started =>
    /\ events = {} /\ trigger[updater] = "initial"
    /\ \A p \in Procs \ {updater} : pc[p] = "idle"

\* Until then the cache is like the snapshot, or like the backups while a commit has
\* renamed some of its files.
BeforeStart == ~started /\ ~missed =>
    /\ pc[updater] # "renamed" => Like(disk, snap)
    /\ pc[updater] \in {"rename", "renamed"} =>
          /\ Like(old[updater], snap)
          /\ \A f \in Files : disk[f] \in
                {0, IF pc[updater] = "renamed" /\ f \in replaced[updater]
                    THEN cand[updater][f] ELSE old[updater][f]}

\* Later whatever makes them differ has called the watcher.
AfterStart == started =>
    /\ missed \/ Awaited \/ ~Complete(disk) \/ snap = disk
    /\ \A p \in Procs :
          /\ pc[p] = "apply" => Called \/ ~Complete(disk) \/ cand[p] = disk
          /\ pc[p] = "renamed" /\ replaced[p] # {} => Called

Watching == trigger[watcher] = "watcher" /\ ~cancelled[watcher]

InStep == Watching /\ Starting /\ BeforeStart /\ AfterStart

LEMMA WatchingStep ==
    ASSUME Safe, Watching, [Next]_vars
    PROVE  Watching'
  <1> USE ProcsAssumption DEF Safe, TypeOK, Watching, Call, store, request, work, Procs
  <1>1. ASSUME NEW p \in Procs, Step(p) PROVE Watching'
    BY <1>1, StepIsLocal DEF request
  <1>2. CASE (\E f \in Files : Publish(f) \/ Due(f)) \/ Start \/ Tick
    BY <1>2 DEF Publish, Due, Start, Tick
  <1>3. CASE \E f \in Files, v \in {0, Local}, q \in BOOLEAN : Edit(f, v, q)
    BY <1>3 DEF Edit
  <1>4. ASSUME NEW r \in Requests,
               \/ HandleRefresh(r) \/ Disconnect(r) \/ Handle(r)
               \/ \E t \in Templates, q \in BOOLEAN : HandleRequest(r, t, q)
        PROVE  Watching'
    <2>1. r # watcher /\ watcher \in Procs
      OBVIOUS
    <2>2. trigger'[watcher] = trigger[watcher]
      BY <1>4, <2>1 DEF HandleRefresh, Disconnect, Handle, HandleRequest, EnsureTemplate, Serve, Returned, Finish
    <2>3. cancelled'[watcher] = cancelled[watcher]
      BY <1>4, <2>1 DEF HandleRefresh, Disconnect, Handle, HandleRequest, EnsureTemplate, Serve, Returned, Finish
    <2> QED BY <2>2, <2>3
  <1>5. CASE UNCHANGED vars
    BY <1>5 DEF vars
  <1> QED BY <1>1, <1>2, <1>3, <1>4, <1>5 DEF Next

\* Before the start no request and no watcher moves.
LEMMA OnlyUpdater ==
    ASSUME Safe, Starting, ~started, [Next]_vars
    PROVE  \/ Step(updater) \/ Start \/ UNCHANGED vars
           \/ \E f \in Files : Publish(f) \/ \E v \in {0, Local}, q \in BOOLEAN : Edit(f, v, q)
  <1>1. \A p \in Procs \ {updater} : pc[p] = "idle"
    BY DEF Starting
  <1>2. ASSUME NEW p \in Procs \ {updater} PROVE ~Step(p)
    <2>1. pc[p] = "idle"
      BY <1>1
    <2> QED
      BY <2>1 DEF Step, Acquire, Abandon, Release, Fetch, FetchFails, ReadDisk, ReadFails, Backup,
                  StageFails, Rename, Rollback, Apply, LogResult
  <1>3. ASSUME NEW r \in Requests
        PROVE  /\ ~HandleRefresh(r) /\ ~Disconnect(r) /\ ~Handle(r)
               /\ \A t \in Templates, q \in BOOLEAN : ~HandleRequest(r, t, q)
    <2>1. pc[r] = "idle"
      BY <1>1, ProcsAssumption DEF Procs
    <2> QED BY <2>1 DEF HandleRefresh, HandleRequest, Arrive, Disconnect, Handle, EnsureTemplate, Serve,
                        Returned, Finish
  <1>4. ~Tick /\ \A f \in Files : ~Due(f)
    BY DEF Tick, Due
  <1> QED BY <1>2, <1>3, <1>4 DEF Next

LEMMA StartingStep ==
    ASSUME Safe, Starting, [Next]_vars
    PROVE  Starting'
  <1> SUFFICES ASSUME ~started'
               PROVE  /\ events' = {} /\ trigger'[updater] = "initial"
                      /\ \A p \in Procs \ {updater} : pc'[p] = "idle"
    BY DEF Starting
  <1>1. ~started
    BY ZenonT(60) DEF Next, Step, Handle, vars, store, Publish, Due, Edit, Start, Tick, HandleRefresh, Disconnect,
       HandleRequest, EnsureTemplate, Serve, Returned, Finish, Acquire, Abandon, Release, Fetch,
       FetchFails, ReadDisk, ReadFails, Backup, StageFails, WorkFails, Rename, Rollback, Apply, LogResult
  <1>2. /\ events = {} /\ trigger[updater] = "initial" /\ \A p \in Procs \ {updater} : pc[p] = "idle"
    BY <1>1 DEF Starting
  <1>3. CASE Step(updater)
    <2>1. trigger' = trigger /\ \A q \in Procs \ {updater} : pc'[q] = pc[q]
      BY <1>3, StepIsLocal DEF Procs
    <2>2. events' = events
      BY <1>1, <1>3 DEF Step, store, Notify, Acquire, Abandon, Release, Fetch, FetchFails, ReadDisk, ReadFails,
         Backup, StageFails, WorkFails, Rename, Rollback, Apply, LogResult
    <2> QED BY <1>2, <2>1, <2>2
  <1>4. CASE \/ UNCHANGED vars
             \/ \E f \in Files : Publish(f) \/ \E v \in {0, Local}, q \in BOOLEAN : Edit(f, v, q)
    BY <1>1, <1>2, <1>4 DEF vars, store, work, Publish, Edit, Notify
  <1>5. ~Start
    BY DEF Start
  <1> QED BY <1>1, <1>3, <1>4, <1>5, OnlyUpdater

LEMMA BeforeStep ==
    ASSUME Safe, KnownGood, Starting, BeforeStart, [Next]_vars
    PROVE  BeforeStart'
  <1> DEFINE u == updater
             Like1 == pc[u] # "renamed" => Like(disk, snap)
             Old1 == pc[u] \in {"rename", "renamed"} =>
                        /\ Like(old[u], snap)
                        /\ \A f \in Files : disk[f] \in
                              {0, IF pc[u] = "renamed" /\ f \in replaced[u] THEN cand[u][f] ELSE old[u][f]}
  <1> SUFFICES ASSUME ~started', ~missed'
               PROVE  Like1' /\ Old1'
    BY DEF BeforeStart
  <1>1. ~started /\ ~missed
    <2>1. ~started
      BY ZenonT(60) DEF Next, Step, Handle, vars, store, Publish, Due, Edit, Start, Tick, HandleRefresh, Disconnect,
         HandleRequest, EnsureTemplate, Serve, Returned, Finish, Acquire, Abandon, Release, Fetch,
         FetchFails, ReadDisk, ReadFails, Backup, StageFails, WorkFails, Rename, Rollback, Apply, LogResult
    <2>2. ~missed
      BY ZenonT(60), <2>1 DEF Next, Step, Handle, vars, store, Publish, Due, Edit, Start, Tick, HandleRefresh, Disconnect,
         HandleRequest, EnsureTemplate, Serve, Returned, Finish, Acquire, Abandon, Release, Fetch, Miss,
         FetchFails, ReadDisk, ReadFails, Backup, StageFails, WorkFails, Rename, Rollback, Apply, LogResult
    <2> QED BY <2>1, <2>2
  <1>2. Like1 /\ Old1
    BY <1>1 DEF BeforeStart
  <1>3. /\ u \in Procs /\ disk \in Snapshots /\ snap \in Snapshots
        /\ cand \in [Procs -> Snapshots] /\ old \in [Procs -> Snapshots]
        /\ pc \in [Procs -> {"idle", "wait", "returned"} \cup Working \cup Handling]
        /\ replaced \in [Procs -> SUBSET Files]
    BY DEF Safe, TypeOK, Procs
  <1>4. Targets(u) = Files
    BY <1>1 DEF Starting, Targets, Full
  <1>5. CASE Step(u)
    <2>1. CASE \/ Acquire(u) \/ Abandon(u) \/ Release(u) \/ Fetch(u) \/ FetchFails(u)
               \/ ReadDisk(u) \/ ReadFails(u) \/ StageFails(u) \/ LogResult(u)
      <3>1. UNCHANGED <<disk, snap>> /\ pc[u] # "renamed" /\ pc'[u] \notin {"rename", "renamed"}
        BY <1>3, <2>1 DEF Acquire, Abandon, Release, Fetch, FetchFails, ReadDisk, ReadFails, StageFails,
           LogResult, WorkFails, Goto, store
      <3> QED BY <1>2, <3>1 DEF Like, Complete
    <2>2. CASE Backup(u)
      <3>1. UNCHANGED <<disk, snap>> /\ pc[u] = "stage" /\ pc'[u] = "rename" /\ old'[u] = disk
        BY <1>3, <2>2 DEF Backup, Goto, store
      <3> QED BY <1>2, <3>1 DEF Like, Complete
    <2>3. ASSUME NEW done \in SUBSET Files, Rename(u, done) PROVE Like1' /\ Old1'
      <3>1. /\ snap' = snap /\ pc[u] = "rename" /\ pc'[u] = "renamed" /\ old' = old /\ cand' = cand
            /\ replaced'[u] = done
            /\ disk' = [f \in Files |-> IF f \in done THEN cand[u][f] ELSE disk[f]]
        BY <1>3, <2>3 DEF Rename, Goto
      <3> QED BY <1>2, <3>1 DEF Like, Complete
    <2>4. ASSUME NEW kept \in SUBSET Files, Rollback(u, kept) PROVE Like1' /\ Old1'
      <3>1. /\ snap' = snap /\ pc[u] = "renamed" /\ pc'[u] = "release"
            /\ disk' = [f \in Files |-> IF f \in replaced[u] \ kept THEN old[u][f] ELSE disk[f]]
            /\ kept \subseteq replaced[u] /\ Miss(kept)
        BY <1>3, <2>4 DEF Rollback, Goto
      <3>2. kept = {}
        BY <1>1, <3>1 DEF Miss
      <3>3. \A f \in Files : disk'[f] \in {0, old[u][f]}
        BY <1>2, <3>1, <3>2
      <3>4. Like(old[u], snap)
        BY <1>2, <3>1
      <3>5. Like(disk', snap)
        BY <3>3, <3>4 DEF Like, Complete
      <3> QED BY <3>1, <3>5 DEF Like, Complete
    <2>5. CASE Apply(u)
      <3>1. disk' = disk /\ snap' = cand[u] /\ pc'[u] = "release"
        BY <1>3, <2>5 DEF Apply, Goto
      <3>2. CASE pc[u] = "renamed" /\ replaced[u] = Files
        BY <1>2, <3>1, <3>2 DEF Like
      <3>3. CASE pc[u] = "apply"
        BY <1>1, <1>3, <3>3 DEF Starting, KnownGood, Phase
      <3> QED BY <1>4, <2>5, <3>2, <3>3 DEF Apply
    <2> QED BY <1>5, <2>1, <2>2, <2>3, <2>4, <2>5 DEF Step
  <1>6. ASSUME NEW f \in Files, NEW v \in {0, Local}, NEW q \in BOOLEAN, Edit(f, v, q)
        PROVE  Like1' /\ Old1'
    <2>1. q
      BY <1>1, <1>6 DEF Edit, Miss
    <2>2. disk' = [disk EXCEPT ![f] = 0] /\ UNCHANGED <<snap, pc, cand, old, replaced>>
      BY <1>6, <2>1 DEF Edit, work
    <2>3. \A g \in Files : disk'[g] = IF g = f THEN 0 ELSE disk[g]
      BY <1>3, <2>2 DEF Snapshots
    <2> QED BY <1>2, <2>2, <2>3 DEF Like, Complete
  <1>7. CASE UNCHANGED vars \/ \E f \in Files : Publish(f)
    <2>1. UNCHANGED <<disk, snap, pc, cand, old, replaced>>
      BY <1>7 DEF vars, store, work, Publish
    <2> QED BY <1>2, <2>1 DEF Like, Complete
  <1>8. ~Start
    BY DEF Start
  <1> QED BY <1>1, <1>5, <1>6, <1>7, <1>8, OnlyUpdater

LEMMA AfterStartStep ==
    ASSUME Safe, Starting, BeforeStart, Start
    PROVE  AfterStart'
  <1>1. /\ ~started /\ pc[updater] = "returned" /\ UNCHANGED <<disk, snap, events, missed>>
        /\ pc' = [pc EXCEPT ![updater] = "idle"]
    BY DEF Start, Goto
  <1>2. \A p \in Procs : pc'[p] = "idle"
    BY <1>1 DEF Starting, Safe, TypeOK
  <1>3. missed \/ Like(disk, snap)
    BY <1>1 DEF BeforeStart
  <1>4. disk \in Snapshots /\ snap \in Snapshots
    BY DEF Safe, TypeOK
  <1>5. Complete(disk) /\ Like(disk, snap) => snap = disk
    <2> SUFFICES ASSUME Complete(disk), Like(disk, snap)
                 PROVE  snap = disk
      OBVIOUS
    <2>1. \A f \in Files : disk[f] = snap[f]
      BY DEF Complete, Like
    <2> QED BY <1>4, <2>1 DEF Snapshots
  <1> QED BY <1>1, <1>2, <1>3, <1>5 DEF AfterStart, Complete

\* The steps of the work once the server has started.
LEMMA AfterWork ==
    ASSUME Safe, KnownGood, Watching, AfterStart, started, NEW p \in Procs, Step(p)
    PROVE  AfterStart'
  <1> DEFINE Agree == missed \/ Awaited \/ ~Complete(disk) \/ snap = disk
             Read(q) == pc[q] = "apply" => Called \/ ~Complete(disk) \/ cand[q] = disk
             Told(q) == pc[q] = "renamed" /\ replaced[q] # {} => Called
  <1>1. Agree /\ Read(p) /\ Told(p) /\ \A q \in Procs : Read(q) /\ Told(q)
    BY DEF AfterStart
  <1>2. /\ disk \in Snapshots /\ cand[p] \in Snapshots /\ watcher \in Procs
        /\ cand \in [Procs -> Snapshots] /\ old \in [Procs -> Snapshots]
        /\ pc \in [Procs -> {"idle", "wait", "returned"} \cup Working \cup Handling]
        /\ replaced \in [Procs -> SUBSET Files]
    BY DEF Safe, TypeOK, Procs
  <1>3. /\ UNCHANGED <<request, upstream, trigger, started>>
        /\ \A q \in Procs \ {p} : pc'[q] = pc[q] /\ cand'[q] = cand[q] /\ replaced'[q] = replaced[q]
    BY StepIsLocal
  <1>4. Phase(p)
    BY DEF KnownGood
  <1>5. p # watcher => pc'[watcher] = pc[watcher]
    BY <1>2, <1>3
  <1>6. ASSUME pc[p] \in Working \/ permit, NEW q \in Procs \ {p} PROVE Read(q)' /\ Told(q)'
    <2>1. pc[q] \notin Working
      BY <1>6 DEF Safe, SoleWriter
    <2> QED BY <1>3, <2>1 DEF Working
  <1>7. CASE Acquire(p)
    <2>1. /\ permit /\ UNCHANGED <<disk, snap, events, missed>> /\ pc[p] = "wait"
          /\ pc'[p] \in {"release", "read", "fetch"}
          /\ p = watcher => pc'[p] = "read"
      BY <1>2, <1>7 DEF Acquire, store, Goto, Watching
    <2>2. Agree'
      BY <1>1, <1>5, <2>1 DEF Awaited, Called, Complete
    <2>3. Read(p)' /\ Told(p)'
      BY <2>1
    <2> QED BY <1>3, <1>6, <2>1, <2>2, <2>3 DEF AfterStart
  <1>8. CASE Abandon(p) \/ LogResult(p)
    <2>1. /\ UNCHANGED <<disk, snap, events, missed, cand, replaced>>
          /\ pc[p] \in {"wait", "returned"} /\ (pc[p] = "wait" => p # watcher)
          /\ pc'[p] \in {"returned", "idle"}
      BY <1>2, <1>8 DEF Abandon, LogResult, store, Goto, Watching
    <2>2. Agree' /\ (Called => Called')
      BY <1>1, <1>5, <2>1 DEF Awaited, Called, Complete
    <2>3. ASSUME NEW q \in Procs PROVE Read(q)' /\ Told(q)'
      <3>1. CASE q = p
        BY <2>1, <3>1
      <3>2. CASE q # p
        BY <1>1, <1>3, <2>1, <2>2, <3>2 DEF Complete
      <3> QED BY <3>1, <3>2
    <2> QED BY <1>3, <2>2, <2>3 DEF AfterStart
  <1>9. CASE \/ Release(p) \/ Fetch(p) \/ FetchFails(p) \/ StageFails(p) \/ Backup(p)
    <2>1. /\ UNCHANGED <<disk, snap, events, missed>>
          /\ pc[p] \in {"release", "fetch", "stage"} /\ pc[p] \in Working
          /\ pc'[p] \notin {"apply", "renamed"}
      BY <1>2, <1>9 DEF Release, Fetch, FetchFails, StageFails, Backup, WorkFails, store, Goto, Working
    <2>2. Agree'
      BY <1>1, <1>5, <2>1 DEF Awaited, Called, Complete
    <2>3. Read(p)' /\ Told(p)'
      BY <2>1
    <2> QED BY <1>3, <1>6, <2>1, <2>2, <2>3 DEF AfterStart
  <1>10. CASE ReadFails(p)
    <2>1. /\ UNCHANGED <<disk, snap, events, missed>> /\ pc[p] = "read" /\ pc[p] \in Working
          /\ pc'[p] = "release"
      BY <1>2, <1>10 DEF ReadFails, WorkFails, store, Goto, Working
    <2>2. p = watcher => ~Complete(disk)
      BY <1>10 DEF ReadFails, Watching, Complete
    <2>3. Agree'
      BY <1>1, <1>5, <2>1, <2>2 DEF Awaited, Called, Complete
    <2>4. Read(p)' /\ Told(p)'
      BY <2>1
    <2> QED BY <1>3, <1>6, <2>1, <2>3, <2>4 DEF AfterStart
  <1>11. CASE ReadDisk(p)
    <2>1. /\ UNCHANGED <<disk, snap, events, missed>> /\ pc[p] = "read" /\ pc[p] \in Working
          /\ pc'[p] = IF trigger[p] = "watcher" THEN "apply" ELSE "stage"
          /\ cand'[p] = [f \in Files |-> IF f \in Targets(p) THEN cand[p][f] ELSE disk[f]]
      BY <1>2, <1>11 DEF ReadDisk, store, Goto, Working
    <2>2. Agree'
      BY <1>1, <1>5, <2>1 DEF Awaited, Called, Complete, Watching
    <2>3. Read(p)' /\ Told(p)'
      <3>1. ASSUME trigger[p] = "watcher" PROVE cand'[p] = disk
        <4>1. Targets(p) = {}
          BY <3>1 DEF Targets, Full
        <4>2. cand'[p] = [f \in Files |-> disk[f]]
          BY <2>1, <4>1
        <4> QED BY <1>2, <4>2 DEF Snapshots
      <3> QED BY <2>1, <3>1
    <2> QED BY <1>3, <1>6, <2>1, <2>2, <2>3 DEF AfterStart
  <1>12. ASSUME NEW done \in SUBSET Files, Rename(p, done) PROVE AfterStart'
    <2>1. /\ UNCHANGED <<snap, missed>> /\ pc[p] = "rename" /\ pc[p] \in Working
          /\ pc'[p] = "renamed" /\ replaced'[p] = done /\ events' = events \cup done
          /\ disk' = [f \in Files |-> IF f \in done THEN cand[p][f] ELSE disk[f]]
      BY <1>2, <1>12 DEF Rename, Notify, Goto, Working
    <2>2. done = {} => disk' = disk
      <3>1. done = {} => disk' = [f \in Files |-> disk[f]]
        BY <2>1
      <3> QED BY <1>2, <3>1 DEF Snapshots
    <2>3. Agree'
      BY <1>1, <1>5, <2>1, <2>2 DEF Awaited, Called, Complete
    <2>4. Read(p)' /\ Told(p)'
      BY <2>1 DEF Called
    <2> QED BY <1>3, <1>6, <2>1, <2>3, <2>4 DEF AfterStart
  <1>13. ASSUME NEW kept \in SUBSET Files, Rollback(p, kept) PROVE AfterStart'
    <2>1. /\ snap' = snap /\ pc[p] = "renamed" /\ pc[p] \in Working /\ pc'[p] = "release"
          /\ kept \subseteq replaced[p] /\ events \subseteq events' /\ Miss(kept)
          /\ disk' = [f \in Files |-> IF f \in replaced[p] \ kept THEN old[p][f] ELSE disk[f]]
      BY <1>2, <1>13 DEF Rollback, Notify, Goto, Working
    <2>2. Agree'
      <3>1. CASE replaced[p] # {}
        BY <1>1, <1>5, <2>1, <3>1 DEF Awaited, Called
      <3>2. CASE replaced[p] = {}
        <4>1. disk' = [f \in Files |-> disk[f]]
          BY <2>1, <3>2
        <4>2. disk' = disk
          BY <1>2, <4>1 DEF Snapshots
        <4>3. missed => missed'
          BY <2>1 DEF Miss
        <4> QED BY <1>1, <1>5, <2>1, <4>2, <4>3 DEF Awaited, Called, Complete
      <3> QED BY <3>1, <3>2
    <2>3. Read(p)' /\ Told(p)'
      BY <2>1
    <2> QED BY <1>3, <1>6, <2>1, <2>2, <2>3 DEF AfterStart
  <1>14. CASE Apply(p)
    <2>1. /\ UNCHANGED <<disk, events>> /\ snap' = cand[p] /\ pc'[p] = "release"
          /\ pc[p] = "apply" \/ (pc[p] = "renamed" /\ replaced[p] = Targets(p))
          /\ pc[p] \in Working
      BY <1>2, <1>14 DEF Apply, Goto, Working
    <2>2. pc[p] = "renamed" => Targets(p) # {}
      BY <1>4, OrderFacts DEF Phase, Targets, Full
    <2>3. Called \/ ~Complete(disk) \/ cand[p] = disk
      BY <1>1, <2>1, <2>2
    <2>4. Agree'
      BY <1>5, <2>1, <2>3 DEF Awaited, Called, Complete
    <2>5. Read(p)' /\ Told(p)'
      BY <2>1
    <2> QED BY <1>3, <1>6, <2>1, <2>4, <2>5 DEF AfterStart
  <1> QED BY <1>7, <1>8, <1>9, <1>10, <1>11, <1>12, <1>13, <1>14 DEF Step

LEMMA AfterElsewhere ==
    ASSUME Safe, AfterStart, started, [Next]_vars, ~\E p \in Procs : Step(p)
    PROVE  AfterStart'
  <1>1. /\ \A q \in Procs : pc'[q] \in Working =>
             pc'[q] = pc[q] /\ cand'[q] = cand[q] /\ replaced'[q] = replaced[q]
        /\ UNCHANGED snap
    BY OtherSteps
  <1>2. /\ disk \in Snapshots /\ watcher \in Procs /\ watcher # updater /\ watcher \notin Requests
        /\ pc \in [Procs -> {"idle", "wait", "returned"} \cup Working \cup Handling]
    BY ProcsAssumption DEF Safe, TypeOK, Procs
  <1>3. ASSUME NEW f \in Files, NEW v \in {0, Local}, NEW q \in BOOLEAN, Edit(f, v, q)
        PROVE  AfterStart'
    <2>1. pc' = pc /\ cand' = cand /\ replaced' = replaced /\ disk' = [disk EXCEPT ![f] = v]
      BY <1>3 DEF Edit, work
    <2>2. CASE q
      <3>1. disk'[f] = 0 /\ UNCHANGED <<events, missed>>
        BY <1>2, <1>3, <2>1, <2>2 DEF Edit, Snapshots
      <3> QED BY <1>1, <2>1, <3>1 DEF AfterStart, Called, Complete
    <2>3. CASE ~q
      <3>1. events' # {}
        BY <1>3, <2>3 DEF Edit, Notify
      <3> QED BY <3>1 DEF AfterStart, Called, Awaited
    <2> QED BY <2>2, <2>3
  <1>4. ASSUME NEW f \in Files, Due(f) PROVE AfterStart'
    <2>1. pc'[watcher] = "wait"
      BY <1>2, <1>4 DEF Due, Call, Goto
    <2> QED BY <2>1 DEF AfterStart, Called, Awaited
  <1>5. ASSUME UNCHANGED <<disk, events, missed>>, pc'[watcher] = pc[watcher] PROVE AfterStart'
    <2>1. ASSUME NEW q \in Procs
          PROVE  /\ pc'[q] = "apply" => pc[q] = "apply" /\ cand'[q] = cand[q]
                 /\ pc'[q] = "renamed" => pc[q] = "renamed" /\ replaced'[q] = replaced[q]
      BY <1>1 DEF Working
    <2> QED BY <1>1, <1>5, <2>1 DEF AfterStart, Called, Awaited, Complete
  <1>6. CASE (\E f \in Files : Publish(f)) \/ Tick \/ UNCHANGED vars
    <2>1. UNCHANGED <<disk, events, missed>> /\ pc'[watcher] = pc[watcher]
      BY <1>2, <1>6 DEF Publish, Tick, vars, store, Call, Goto
    <2> QED BY <1>5, <2>1
  <1>7. ASSUME NEW r \in Requests,
               \/ HandleRefresh(r) \/ Disconnect(r) \/ Handle(r)
               \/ \E t \in Templates, q \in BOOLEAN : HandleRequest(r, t, q)
        PROVE  AfterStart'
    <2>1. UNCHANGED <<disk, events, missed>> /\ pc'[watcher] = pc[watcher]
      BY <1>2, <1>7 DEF HandleRefresh, Disconnect, Handle, HandleRequest, EnsureTemplate, Serve, Returned, Finish,
         Answer, Arrive, Call, Goto, store
    <2> QED BY <1>5, <2>1
  <1>8. ~Start
    BY DEF Start
  <1> QED BY <1>3, <1>4, <1>6, <1>7, <1>8 DEF Next

LEMMA InStepStep == Safe /\ KnownGood /\ InStep /\ [Next]_vars => InStep'
  <1> SUFFICES ASSUME Safe, KnownGood, InStep, [Next]_vars
               PROVE  InStep'
    OBVIOUS
  <1>1. Watching' /\ Starting' /\ BeforeStart'
    BY WatchingStep, StartingStep, BeforeStep DEF InStep
  <1>2. CASE started
    BY <1>1, <1>2, AfterWork, AfterElsewhere DEF InStep
  <1>3. CASE ~started
    <2>1. CASE Start
      BY <1>1, <2>1, AfterStartStep DEF InStep
    <2>2. CASE ~Start
      <3>1. ~started'
        BY <1>3, <2>2, OnlyUpdater, StepIsLocal DEF InStep, Publish, Edit, vars, store, Procs
      <3> QED BY <1>1, <3>1 DEF InStep, AfterStart
    <2> QED BY <2>1, <2>2
  <1> QED BY <1>2, <1>3

\* The manager and the watcher (manager.go, handler.go:138-160, watcher): whenever nobody
\* works and no reload is on its way, the snapshot is the cache on disk, for every number
\* of requests, edits, failed commits and rollbacks; what changed before the watcher ran,
\* and a cache that is not whole, excepted.
THEOREM DiskIsMirrored == Spec => []MemoryMatchesDisk
  <1>1. Init => InStep
    <2> SUFFICES ASSUME Init PROVE InStep
      OBVIOUS
    <2>1. \A p \in Procs : pc[p] = IF p = updater THEN "wait" ELSE "idle"
      BY DEF Init
    <2>2. updater \in Procs /\ watcher \in Procs
      BY DEF Procs
    <2>3. Watching
      BY <2>2 DEF Init, Watching
    <2>4. Starting
      BY <2>1, <2>2, ProcsAssumption DEF Init, Starting
    <2>5. Like(disk, snap)
      BY DEF Init, Like
    <2>6. BeforeStart /\ AfterStart
      BY <2>1, <2>2, <2>5 DEF Init, BeforeStart, AfterStart
    <2> QED BY <2>3, <2>4, <2>6 DEF InStep
  <1>2. Safe /\ KnownGood /\ InStep /\ [Next]_vars => InStep'
    BY InStepStep
  <1>3. Safe /\ InStep => MemoryMatchesDisk
    <2> SUFFICES ASSUME Safe, InStep, permit, events = {}, pc[watcher] # "wait", Complete(disk), ~missed
                 PROVE  snap = disk
      BY DEF MemoryMatchesDisk
    <2>1. pc[watcher] \notin Working /\ pc[updater] \notin Working
      BY DEF Safe, SoleWriter, Procs
    <2>2. CASE started
      BY <2>1, <2>2 DEF InStep, AfterStart, Awaited, Called, Working
    <2>3. CASE ~started
      <3>1. Like(disk, snap)
        BY <2>1, <2>3 DEF InStep, BeforeStart, Working
      <3>2. \A f \in Files : disk[f] = snap[f]
        BY <3>1 DEF Like, Complete
      <3>3. disk \in Snapshots /\ snap \in Snapshots
        BY DEF Safe, TypeOK
      <3> QED BY <3>2, <3>3 DEF Snapshots
    <2> QED BY <2>2, <2>3
  <1> QED BY <1>1, <1>2, <1>3, GoodHolds, PTL DEF Spec
====
