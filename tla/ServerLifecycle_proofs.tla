---- MODULE ServerLifecycle_proofs ----
(***************************************************************************)
(* The converter's control plane for every number of server instances,     *)
(* configuration changes, requests and every set of faults: type           *)
(* correctness, and one server at a time.                                  *)
(***************************************************************************)
EXTENDS ServerLifecycle, TLAPS

---------------------------------------------------------------------------
(* What holds between the mutex, the supervisor and the instances *)

\* The mutex is main's while it boots, and later only for the final Shutdown.
Owners ==
    /\ mu = "main" =>
          main = "boot" \/ (main = "shutdown" /\ closed /\ rp \in {"drain", "await"})
    /\ main = "exited" => closed /\ rp = "none" /\ current = 0
    /\ path = "none" <=> main \in {"boot", "watch", "select"}

\* The newest instance has come to its end, or there has been none.
Quiet == latest = 0 \/ phase[latest] \in {"done", "failed"}

\* Only the newest instance is ever owned or stopped, and while none is owned it is
\* quiet, but for the moments in which Reload or Shutdown stops it or initialises it.
Positions ==
    /\ current \in {0, latest}
    /\ rp \in {"drain", "await"} => current = 0 /\ target = latest /\ latest # 0
    /\ rp = "new" => current = 0
    /\ rp = "init" => current = 0 /\ latest # 0 /\ phase[latest] = "init"
    /\ rp \in {"none", "load", "new"} /\ current = 0 => Quiet

\* What an instance still has, by the phase of its serve().
Phases == \A i \in Ids :
    /\ listener[i] => phase[i] \in {"init", "serve"}
    /\ workers[i] # {} => phase[i] \in {"serve", "drain", "wait"}
    /\ handlers[i] # 0 => phase[i] \in {"serve", "drain"}
    /\ observed[i] => phase[i] = "done"
    /\ i < latest => phase[i] \in {"done", "failed"}
    /\ i > latest => phase[i] = "none"

Inv == TypeOK /\ Owners /\ Positions /\ Phases

---------------------------------------------------------------------------
(* The two halves of TypeOK *)

ControlTypes ==
    /\ main \in {"boot", "watch", "select", "closing", "shutdown", "exited"}
    /\ path \in {"none", "init", "signal", "done"}
    /\ result \in {"none", "ok", "error"}
    /\ signal \in BOOLEAN
    /\ cw \in {"off", "idle", "reload", "stopped"}
    /\ cwCtx \in BOOLEAN /\ event \in BOOLEAN
    /\ config \in [n : 0..MaxChanges, valid : BOOLEAN]
    /\ mu \in {"free", "main", "cw"} /\ (mu = "free" <=> rp = "none")
    /\ rp \in {"none", "load", "drain", "await", "new", "init"}
    /\ cand \in 0..MaxChanges
    /\ target \in 0..MaxInstances /\ current \in 0..MaxInstances
    /\ closed \in BOOLEAN /\ done \in BOOLEAN /\ terr \in BOOLEAN
    /\ latest \in 0..MaxInstances

InstanceTypes ==
    /\ phase \in [Ids -> {"none", "init", "serve", "drain", "wait", "done", "failed"}]
    /\ listener \in [Ids -> BOOLEAN] /\ cancelled \in [Ids -> BOOLEAN]
    /\ workers \in [Ids -> SUBSET Workers]
    /\ handlers \in [Ids -> 0..MaxHandlers]
    /\ serr \in [Ids -> BOOLEAN] /\ observed \in [Ids -> BOOLEAN]
    /\ shut \in [Ids -> {"none", "draining", "ok", "timeout"}]
    /\ ver \in [Ids -> 0..MaxChanges]

LEMMA TypesAre == (TypeOK <=> ControlTypes /\ InstanceTypes) /\ (TypeOK' <=> ControlTypes' /\ InstanceTypes')
  BY DEF TypeOK, ControlTypes, InstanceTypes

LEMMA InitInv == Init => Inv
  <1> SUFFICES ASSUME Init
               PROVE  Inv
    OBVIOUS
  <1> USE BoundsAssumption DEF Ids
  <1>1. ControlTypes
    <2>1. config \in [n : 0..MaxChanges, valid : BOOLEAN]
      <3>1. {TRUE} \cup {"invalid" \notin Faults} \subseteq BOOLEAN
        OBVIOUS
      <3>2. \A V : V \subseteq BOOLEAN =>
                [n : {0}, valid : V] \subseteq [n : 0..MaxChanges, valid : BOOLEAN]
        OBVIOUS
      <3>3. config \in [n : {0}, valid : {TRUE} \cup {"invalid" \notin Faults}]
        BY DEF Init
      <3> HIDE DEF Ids
      <3> QED BY <3>1, <3>2, <3>3
    <2>2. MaxInstances \in Nat /\ 0 \in 0..MaxInstances /\ 0 \in 0..MaxChanges
      OBVIOUS
    <2> QED BY <2>1, <2>2 DEF Init, ControlTypes
  <1>2. InstanceTypes
    <2>1. listener \in [Ids -> BOOLEAN] /\ cancelled \in [Ids -> BOOLEAN] /\ serr \in [Ids -> BOOLEAN]
          /\ observed \in [Ids -> BOOLEAN]
      BY DEF Init
    <2>2. 0 \in 0..MaxHandlers /\ 0 \in 0..MaxChanges
      OBVIOUS
    <2> QED BY <2>1, <2>2 DEF Init, InstanceTypes
  <1>3. Owners /\ Positions
    BY DEF Init, Owners, Positions, Quiet
  <1>4. Phases
    BY DEF Init, Phases
  <1> QED BY <1>1, <1>2, <1>3, <1>4, TypesAre DEF Inv

---------------------------------------------------------------------------
(* Returning from Reload and Shutdown *)

\* A call by the config watcher leaves main alone, one by main takes it to its next
\* place, and out of the process only after the supervisor has been closed.
LEMMA Returns ==
    ASSUME Inv, NEW ok \in BOOLEAN, Return(ok), terr' \in BOOLEAN,
           rp # "none" \/ (main = "shutdown" /\ mu = "free" /\ closed'), closed => closed', current' = 0 \/ mu = "cw" \/ main = "boot"
    PROVE  /\ main' \in {"boot", "watch", "select", "closing", "shutdown", "exited"}
           /\ path' \in {"none", "init", "signal", "done"} /\ result' \in {"none", "ok", "error"}
           /\ cw' \in {"off", "idle", "reload", "stopped"}
           /\ mu' = "free" /\ rp' = "none" /\ target' = 0
           /\ Owners'
  <1>1. CASE mu = "cw"
    <2>1. rp # "none" /\ main # "exited"
      BY <1>1 DEF Inv, TypeOK, Owners
    <2>2. UNCHANGED <<main, path, result>> /\ cw' = "idle" /\ mu' = "free" /\ rp' = "none" /\ target' = 0
      BY <1>1 DEF Return
    <2> QED BY <2>1, <2>2 DEF Inv, TypeOK, Owners
  <1>2. CASE mu # "cw"
    <2>1. main = "boot" \/ (main = "shutdown" /\ closed' /\ path # "none" /\ current' = 0)
      BY <1>2 DEF Inv, TypeOK, Owners
    <2>2. mu' = "free" /\ rp' = "none" /\ target' = 0 /\ cw' = cw
      BY <1>2 DEF Return
    <2>3. CASE main = "boot"
      <3>0. path = "none"
        BY <2>3 DEF Inv, Owners
      <3>1. main' \in {"watch", "shutdown"} /\ (main' = "shutdown" => path' = "init")
            /\ (main' = "watch" => path' = "none") /\ result' = result
        <4>1. CASE ok
          BY <1>2, <2>3, <3>0, <4>1 DEF Return
        <4>2. CASE ~ok
          BY <1>2, <2>3, <3>0, <4>2 DEF Return
        <4> QED BY <4>1, <4>2
      <3> QED BY <2>2, <3>1 DEF Inv, TypeOK, Owners
    <2>4. CASE main = "shutdown"
      <3>1. main' = "exited" /\ path' = path
        BY <1>2, <2>4 DEF Return
      <3>2. path \in {"init", "signal", "done"} /\ closed' /\ current' = 0
        BY <2>1, <2>4 DEF Inv, TypeOK
      <3>3. result' \in {"none", "ok", "error"}
        <4>1. CASE path = "init"
          BY <1>2, <2>4, <4>1 DEF Return
        <4>2. CASE path = "signal"
          BY <1>2, <2>4, <4>2 DEF Return
        <4>3. CASE path = "done"
          BY <1>2, <2>4, <4>3 DEF Return, Inv, TypeOK
        <4> QED BY <3>2, <4>1, <4>2, <4>3
      <3> QED BY <2>2, <3>1, <3>2, <3>3 DEF Inv, TypeOK, Owners
    <2> QED BY <2>1, <2>3, <2>4
  <1> QED BY <1>1, <1>2

\* The types after a return, if the instances and what it does not touch keep theirs.
LEMMA ReturnTypes ==
    ASSUME Inv, NEW ok \in BOOLEAN, Return(ok), terr' \in BOOLEAN, done' \in BOOLEAN,
           closed' \in BOOLEAN, current' \in 0..MaxInstances, latest' \in 0..MaxInstances, cand' = cand,
           UNCHANGED <<signal, cwCtx, event, config>>,
           rp # "none" \/ (main = "shutdown" /\ mu = "free" /\ closed'), closed => closed', current' = 0 \/ mu = "cw" \/ main = "boot"
    PROVE  ControlTypes' /\ Owners'
  <1>1. 0 \in 0..MaxInstances
    BY BoundsAssumption
  <1>2. ControlTypes
    BY TypesAre DEF Inv
  <1> QED BY <1>1, <1>2, Returns DEF ControlTypes

LEMMA FinishTypes ==
    ASSUME Inv, NEW err \in BOOLEAN, Finish(err)
    PROVE  done' \in BOOLEAN /\ terr' \in BOOLEAN
  BY DEF Inv, TypeOK, Finish

---------------------------------------------------------------------------
(* The supervisor *)

\* Stopping an instance takes nothing from the others.
LEMMA BeginInstances ==
    ASSUME Inv, NEW i \in Ids, BeginShutdown(i)
    PROVE  InstanceTypes' /\ Phases'
  <1>1. InstanceTypes
    BY TypesAre DEF Inv
  <1>2. InstanceTypes'
    BY <1>1 DEF BeginShutdown, InstanceTypes
  <1>3. \A k \in Ids : listener'[k] => listener[k]
    BY <1>1 DEF BeginShutdown, InstanceTypes
  <1>4. UNCHANGED <<latest, phase, workers, handlers, observed>>
    BY DEF BeginShutdown
  <1> QED BY <1>2, <1>3, <1>4 DEF Inv, Phases

LEMMA CurrentIs ==
    ASSUME Inv, current # 0
    PROVE  current \in Ids /\ current = latest
  BY BoundsAssumption DEF Inv, TypeOK, Positions, Ids

\* Instances of which a step leaves all variables alone.
LEMMA InstancesStay ==
    ASSUME Inv, UNCHANGED instVars
    PROVE  InstanceTypes' /\ Phases' /\ latest' = latest /\ (Quiet => Quiet')
  <1>1. InstanceTypes
    BY TypesAre DEF Inv
  <1> QED BY <1>1 DEF Inv, instVars, InstanceTypes, Phases, Quiet

LEMMA LockStep ==
    ASSUME Inv, ReloadRefused \/ \E a \in {"main", "cw"} : ReloadLock(a)
    PROVE  Inv'
  <1>1. InstanceTypes' /\ Phases' /\ latest' = latest /\ (Quiet => Quiet')
    BY InstancesStay DEF ReloadRefused, ReloadLock
  <1>2. ControlTypes
    BY TypesAre DEF Inv
  <1>3. CASE ReloadRefused
    <2>1. UNCHANGED <<mainVars, lockVars, supVars>> /\ cw' = "idle" /\ UNCHANGED <<cwCtx, event, config>>
      BY <1>3 DEF ReloadRefused
    <2>2. ControlTypes'
      BY <1>1, <1>2, <2>1 DEF ControlTypes, mainVars, lockVars, supVars
    <2>3. Owners' /\ Positions'
      BY <1>1, <1>3, <2>1 DEF Inv, ReloadRefused, Owners, Positions, mainVars, lockVars, supVars, instVars
    <2> QED BY <1>1, <2>2, <2>3, TypesAre DEF Inv
  <1>4. ASSUME NEW a \in {"main", "cw"}, ReloadLock(a)
        PROVE  Inv'
    <2>1. UNCHANGED <<mainVars, cwVars, cand, target, supVars>> /\ mu' = a /\ rp' = "load" /\ rp = "none"
          /\ (a = "main" => main = "boot") /\ ~closed /\ UNCHANGED instVars
      BY <1>4 DEF ReloadLock, Inv, TypeOK
    <2>2. ControlTypes'
      BY <1>1, <1>2, <2>1 DEF ControlTypes, mainVars, cwVars, supVars
    <2>3. Owners'
      BY <2>1 DEF Inv, Owners, mainVars, supVars
    <2>4. Positions'
      BY <1>1, <2>1 DEF Inv, Positions, supVars
    <2> QED BY <1>1, <2>2, <2>3, <2>4, TypesAre DEF Inv
  <1> QED BY <1>3, <1>4

LEMMA LoadStep ==
    ASSUME Inv, LoadInvalid \/ LoadValid
    PROVE  Inv'
  <1>1. ControlTypes /\ rp = "load" /\ (mu = "main" => main = "boot") /\ mu # "free" /\ main # "exited"
    BY TypesAre DEF Inv, TypeOK, Owners, LoadInvalid, LoadValid
  <1>2. CASE LoadInvalid
    <2>1. InstanceTypes' /\ Phases' /\ latest' = latest /\ (Quiet => Quiet')
      BY <1>2, InstancesStay DEF LoadInvalid
    <2>2. done' \in BOOLEAN /\ terr' \in BOOLEAN
      BY <1>2, FinishTypes DEF LoadInvalid, Inv, TypeOK
    <2>3. UNCHANGED <<signal, cwCtx, event, config, cand, current, closed>> /\ Return(FALSE)
      BY <1>2 DEF LoadInvalid
    <2>4. mu = "cw" \/ main = "boot"
      BY <1>1 DEF Inv, TypeOK
    <2>5. current' \in 0..MaxInstances /\ latest' \in 0..MaxInstances /\ closed' \in BOOLEAN
      BY <2>1, <2>3 DEF Inv, TypeOK
    <2>6. ControlTypes' /\ Owners'
      BY <1>1, <2>2, <2>3, <2>4, <2>5, ReturnTypes
    <2>7. Positions'
      BY <1>1, <2>1, <2>3 DEF Inv, Positions, Return
    <2> QED BY <2>1, <2>6, <2>7, TypesAre DEF Inv
  <1>3. CASE LoadValid
    <2>1. config.n \in 0..MaxChanges
      BY <1>1 DEF ControlTypes
    <2>2. UNCHANGED <<mainVars, cwVars, mu, closed, done, terr>> /\ cand' = config.n
      BY <1>3 DEF LoadValid
    <2>3. CASE current # 0
      <3>1. BeginShutdown(current) /\ current \in Ids /\ current = latest
        BY <1>3, <2>3, CurrentIs DEF LoadValid
      <3>2. InstanceTypes' /\ Phases'
        BY <3>1, BeginInstances
      <3>3. target' = latest /\ current' = 0 /\ rp' = "drain" /\ latest' = latest /\ latest # 0
        BY <2>3, <3>1 DEF BeginShutdown
      <3>4. ControlTypes'
        BY <1>1, <2>1, <2>2, <3>3, BoundsAssumption DEF ControlTypes, mainVars, cwVars
      <3>5. Owners'
        BY <1>1, <2>2, <3>3 DEF Inv, Owners, mainVars
      <3>6. Positions'
        BY <3>3 DEF Positions
      <3> QED BY <3>2, <3>4, <3>5, <3>6, TypesAre DEF Inv
    <2>4. CASE current = 0
      <3>1. rp' = "new" /\ UNCHANGED <<target, current, instVars>>
        BY <1>3, <2>4 DEF LoadValid
      <3>2. InstanceTypes' /\ Phases' /\ latest' = latest /\ (Quiet => Quiet')
        BY <3>1, InstancesStay
      <3>3. ControlTypes'
        BY <1>1, <2>1, <2>2, <3>1, <3>2 DEF ControlTypes, mainVars, cwVars
      <3>4. Owners'
        BY <1>1, <2>2, <3>1 DEF Inv, Owners, mainVars
      <3>5. Positions'
        BY <1>1, <2>4, <3>1, <3>2 DEF Inv, Positions
      <3> QED BY <3>2, <3>3, <3>4, <3>5, TypesAre DEF Inv
    <2> QED BY <2>3, <2>4
  <1> QED BY <1>2, <1>3

LEMMA DrainStep ==
    ASSUME Inv, Drained
    PROVE  Inv'
  <1>1. ControlTypes /\ InstanceTypes
    BY TypesAre DEF Inv
  <1>2. UNCHANGED <<mainVars, cwVars, mu, cand, target, supVars, latest, phase, listener, cancelled,
                    workers, handlers, serr, observed, ver>> /\ rp = "drain" /\ rp' = "await"
    BY DEF Drained
  <1>3. InstanceTypes'
    BY <1>1, <1>2 DEF Drained, InstanceTypes
  <1>4. ControlTypes'
    BY <1>1, <1>2 DEF ControlTypes, mainVars, cwVars, supVars
  <1>5. Owners' /\ Positions'
    BY <1>2 DEF Inv, Owners, Positions, mainVars, supVars
  <1>6. Phases'
    BY <1>2 DEF Inv, Phases
  <1> QED BY <1>3, <1>4, <1>5, <1>6, TypesAre DEF Inv

\* The instance that was stopped has been observed to be done: there is none left.
LEMMA AwaitStep ==
    ASSUME Inv, ReloadStopped \/ ShutdownStopped
    PROVE  Inv'
  <1>1. ControlTypes /\ rp = "await" /\ target = latest /\ latest # 0 /\ current = 0 /\ observed[target]
        /\ mu # "free"
    BY TypesAre DEF Inv, TypeOK, Positions, ReloadStopped, ShutdownStopped
  <1>2. latest \in Ids /\ Quiet
    <2>1. latest \in Ids
      BY <1>1, BoundsAssumption DEF Inv, TypeOK, Ids
    <2> QED BY <1>1, <2>1 DEF Inv, Phases, Quiet
  <1>3. UNCHANGED instVars /\ UNCHANGED <<signal, cwCtx, event, config, current, closed>>
    BY DEF ReloadStopped, ShutdownStopped
  <1>4. InstanceTypes' /\ Phases' /\ latest' = latest /\ Quiet'
    BY <1>2, <1>3, InstancesStay
  <1>5. current' \in 0..MaxInstances /\ latest' \in 0..MaxInstances /\ closed' \in BOOLEAN
    BY <1>3, <1>4 DEF Inv, TypeOK
  <1>6. ASSUME NEW ok \in BOOLEAN, Return(ok), cand' = cand, done' \in BOOLEAN, terr' \in BOOLEAN
        PROVE  Inv'
    <2>1. ControlTypes' /\ Owners'
      BY <1>1, <1>3, <1>5, <1>6, ReturnTypes
    <2>2. Positions'
      BY <1>1, <1>3, <1>4, <1>6 DEF Positions, Return
    <2> QED BY <1>4, <2>1, <2>2, TypesAre DEF Inv
  <1>7. CASE ReloadStopped
    <2>1. CASE shut[target] = "timeout"
      BY <1>6, <1>7, <2>1, FinishTypes DEF ReloadStopped
    <2>2. CASE shut[target] # "timeout" /\ terr
      BY <1>6, <1>7, <2>2 DEF ReloadStopped, Inv, TypeOK
    <2>3. CASE shut[target] # "timeout" /\ ~terr
      <3>1. rp' = "new" /\ target' = 0 /\ UNCHANGED <<mu, cand, cw, main, path, result, done, terr>>
        BY <1>7, <2>3 DEF ReloadStopped
      <3>2. ControlTypes'
        BY <1>1, <1>3, <1>5, <3>1, BoundsAssumption DEF ControlTypes
      <3>3. mu = "main" => main = "boot"
        BY <1>7 DEF ReloadStopped, Inv, Owners
      <3>4. Owners'
        BY <1>1, <1>3, <3>1, <3>3 DEF Inv, Owners
      <3>5. Positions'
        BY <1>1, <1>3, <1>4, <3>1 DEF Positions
      <3> QED BY <1>4, <3>2, <3>4, <3>5, TypesAre DEF Inv
    <2> QED BY <2>1, <2>2, <2>3
  <1>8. CASE ShutdownStopped
    <2>1. (shut[target] = "timeout") \in BOOLEAN /\ (shut[target] # "timeout") \in BOOLEAN
      OBVIOUS
    <2>2. Finish(shut[target] = "timeout") /\ Return(shut[target] # "timeout") /\ cand' = cand
      BY <1>8 DEF ShutdownStopped
    <2>3. done' \in BOOLEAN /\ terr' \in BOOLEAN
      BY <2>1, <2>2, FinishTypes
    <2> QED BY <1>6, <2>1, <2>2, <2>3
  <1> QED BY <1>7, <1>8

LEMMA StartStep ==
    ASSUME Inv, NewServer \/ ListenFails \/ InitializeFails \/ Started
    PROVE  Inv'
  <1>1. ControlTypes /\ InstanceTypes /\ rp \in {"new", "init"} /\ mu # "free" /\ current = 0
        /\ main # "exited" /\ (mu = "main" => main = "boot")
    BY TypesAre DEF Inv, TypeOK, Owners, Positions, NewServer, ListenFails, InitializeFails, Started
  <1>2. mu = "cw" \/ main = "boot"
    BY <1>1 DEF ControlTypes
  <1>3. CASE NewServer
    <2>1. rp = "new" /\ Quiet /\ latest' = latest + 1 /\ latest' \in Ids /\ rp' = "init"
          /\ UNCHANGED <<mainVars, cwVars, mu, cand, target, supVars, cancelled, workers, handlers,
                         serr, shut, observed>>
      BY <1>1, <1>3, BoundsAssumption DEF NewServer, Inv, Positions, ControlTypes, Ids
    <2>2. phase' = [phase EXCEPT ![latest'] = "init"] /\ listener' = [listener EXCEPT ![latest'] = TRUE]
          /\ ver' = [ver EXCEPT ![latest'] = cand]
      BY <1>3 DEF NewServer
    <2>3. InstanceTypes'
      BY <1>1, <2>1, <2>2 DEF InstanceTypes, ControlTypes
    <2>4. ControlTypes'
      BY <1>1, <2>1 DEF ControlTypes, mainVars, cwVars, supVars, Ids
    <2>5. Owners'
      BY <1>1, <2>1 DEF Inv, Owners, mainVars, supVars
    <2>6. phase'[latest'] = "init" /\ current' = 0 /\ latest' # 0
      BY <1>1, <2>1, <2>2 DEF InstanceTypes, supVars, Ids
    <2>7. Positions'
      BY <2>1, <2>6 DEF Positions
    <2>8. ASSUME NEW i \in Ids
          PROVE  /\ listener'[i] => phase'[i] \in {"init", "serve"}
                 /\ workers'[i] # {} => phase'[i] \in {"serve", "drain", "wait"}
                 /\ handlers'[i] # 0 => phase'[i] \in {"serve", "drain"}
                 /\ observed'[i] => phase'[i] = "done"
                 /\ i < latest' => phase'[i] \in {"done", "failed"}
                 /\ i > latest' => phase'[i] = "none"
      <3>1. CASE i = latest'
        <4>1. phase[i] = "none"
          BY <1>1, <2>1, <3>1 DEF Inv, Phases, Ids, ControlTypes
        <4>2. workers[i] = {} /\ handlers[i] = 0 /\ ~observed[i]
          BY <4>1 DEF Inv, Phases
        <4> QED BY <2>1, <2>6, <3>1, <4>2 DEF Ids
      <3>2. CASE i # latest'
        <4>1. phase'[i] = phase[i] /\ listener'[i] = listener[i] /\ workers'[i] = workers[i]
              /\ handlers'[i] = handlers[i] /\ observed'[i] = observed[i]
          BY <1>1, <2>1, <2>2, <3>2 DEF InstanceTypes
        <4>2. i < latest' => i < latest \/ (i = latest /\ latest # 0)
          BY <1>1, <2>1, <3>2 DEF ControlTypes, Ids
        <4>3. i > latest' => i > latest
          BY <1>1, <2>1 DEF ControlTypes, Ids
        <4> QED BY <2>1, <4>1, <4>2, <4>3 DEF Inv, Phases, Quiet
      <3> QED BY <3>1, <3>2
    <2>9. Phases'
      BY <2>8 DEF Phases
    <2> QED BY <2>3, <2>4, <2>5, <2>7, <2>9, TypesAre DEF Inv
  <1>4. CASE ListenFails
    <2>1. InstanceTypes' /\ Phases' /\ latest' = latest /\ (Quiet => Quiet')
      BY <1>4, InstancesStay DEF ListenFails
    <2>2. done' \in BOOLEAN /\ terr' \in BOOLEAN
      BY <1>4, FinishTypes DEF ListenFails
    <2>3. UNCHANGED <<signal, cwCtx, event, config, cand, current, closed>> /\ Return(FALSE) /\ rp = "new"
      BY <1>4 DEF ListenFails
    <2>4. current' \in 0..MaxInstances /\ latest' \in 0..MaxInstances /\ closed' \in BOOLEAN
      BY <2>1, <2>3 DEF Inv, TypeOK
    <2>5. ControlTypes' /\ Owners'
      BY <1>1, <1>2, <2>2, <2>3, <2>4, ReturnTypes
    <2>6. Positions'
      BY <1>1, <2>1, <2>3 DEF Inv, Positions, Return
    <2> QED BY <2>1, <2>5, <2>6, TypesAre DEF Inv
  <1>5. ASSUME InitializeFails \/ Started
        PROVE  latest \in Ids /\ phase[latest] = "init" /\ latest' = latest /\ latest # 0
    <2>1. rp = "init" /\ latest' = latest
      BY <1>5 DEF InitializeFails, Started
    <2>2. latest # 0 /\ phase[latest] = "init"
      BY <2>1 DEF Inv, Positions
    <2>3. latest \in Ids
      BY <1>1, <2>2, BoundsAssumption DEF ControlTypes, Ids
    <2> QED BY <2>1, <2>2, <2>3
  <1>6. CASE InitializeFails
    <2>1. UNCHANGED <<signal, cwCtx, event, config, cand, current, closed, latest, workers,
                      handlers, serr, shut, observed, ver>>
          /\ Finish(TRUE) /\ Return(FALSE) /\ rp = "init"
          /\ phase' = [phase EXCEPT ![latest] = "failed"] /\ listener' = [listener EXCEPT ![latest] = FALSE]
          /\ cancelled' = [cancelled EXCEPT ![latest] = TRUE]
      BY <1>6 DEF InitializeFails
    <2>2. done' \in BOOLEAN /\ terr' \in BOOLEAN
      BY <2>1, FinishTypes
    <2>3. InstanceTypes'
      BY <1>1, <1>5, <1>6, <2>1 DEF InstanceTypes
    <2>4. current' \in 0..MaxInstances /\ latest' \in 0..MaxInstances /\ closed' \in BOOLEAN
      BY <2>1 DEF Inv, TypeOK
    <2>5. ControlTypes' /\ Owners'
      BY <1>1, <1>2, <2>1, <2>2, <2>4, ReturnTypes
    <2>6. phase'[latest] = "failed"
      BY <1>1, <1>5, <1>6, <2>1 DEF InstanceTypes
    <2>7. Positions'
      BY <1>1, <2>1, <2>6 DEF Positions, Return, Quiet
    <2>8. Phases'
      BY <1>1, <1>5, <1>6, <2>1 DEF Inv, Phases, InstanceTypes
    <2> QED BY <2>3, <2>5, <2>7, <2>8, TypesAre DEF Inv
  <1>7. CASE Started
    <2>1. UNCHANGED <<signal, cwCtx, event, config, cand, closed, done, terr, latest, listener,
                      cancelled, handlers, serr, shut, observed, ver>>
          /\ Return(TRUE) /\ rp = "init" /\ current' = latest
          /\ phase' = [phase EXCEPT ![latest] = "serve"] /\ workers' = [workers EXCEPT ![latest] = Workers]
      BY <1>7 DEF Started
    <2>2. InstanceTypes'
      BY <1>1, <1>5, <1>7, <2>1 DEF InstanceTypes
    <2>3. current' \in 0..MaxInstances /\ latest' \in 0..MaxInstances /\ closed' \in BOOLEAN
          /\ done' \in BOOLEAN /\ terr' \in BOOLEAN
      BY <2>1 DEF Inv, TypeOK
    <2>4. ControlTypes' /\ Owners'
      BY <1>1, <1>2, <2>1, <2>3, ReturnTypes
    <2>5. Positions'
      BY <1>5, <1>7, <2>1 DEF Positions, Return
    <2>6. Phases'
      BY <1>1, <1>5, <1>7, <2>1 DEF Inv, Phases, InstanceTypes
    <2> QED BY <2>2, <2>4, <2>5, <2>6, TypesAre DEF Inv
  <1> QED BY <1>3, <1>4, <1>6, <1>7

LEMMA ShutdownStep ==
    ASSUME Inv, ShutdownLock
    PROVE  Inv'
  <1>1. ControlTypes /\ mu = "free" /\ rp = "none" /\ main = "shutdown" /\ closed' = TRUE
        /\ UNCHANGED <<signal, cwCtx, event, config>>
    BY TypesAre DEF Inv, TypeOK, ShutdownLock
  <1>2. CASE current # 0
    <2>1. BeginShutdown(current) /\ current \in Ids /\ current = latest /\ mu' = "main"
          /\ UNCHANGED <<main, path, result, cw, cand, done, terr>>
      BY <1>2, CurrentIs DEF ShutdownLock
    <2>2. InstanceTypes' /\ Phases'
      BY <2>1, BeginInstances
    <2>3. target' = latest /\ current' = 0 /\ rp' = "drain" /\ latest' = latest /\ latest # 0
      BY <1>2, <2>1 DEF BeginShutdown
    <2>4. ControlTypes'
      BY <1>1, <2>1, <2>3, BoundsAssumption DEF ControlTypes
    <2>5. Owners'
      BY <1>1, <2>1, <2>3 DEF Inv, Owners
    <2>6. Positions'
      BY <2>3 DEF Positions
    <2> QED BY <2>2, <2>4, <2>5, <2>6, TypesAre DEF Inv
  <1>3. CASE current = 0
    <2>1. Finish(FALSE) /\ Return(TRUE) /\ UNCHANGED <<cand, current, instVars>>
      BY <1>3 DEF ShutdownLock
    <2>2. InstanceTypes' /\ Phases' /\ latest' = latest /\ (Quiet => Quiet')
      BY <2>1, InstancesStay
    <2>3. done' \in BOOLEAN /\ terr' \in BOOLEAN
      BY <2>1, FinishTypes
    <2>4. current' \in 0..MaxInstances /\ latest' \in 0..MaxInstances /\ closed' \in BOOLEAN /\ current' = 0
      BY <1>1, <1>3, <2>1, <2>2 DEF Inv, TypeOK
    <2>5. ControlTypes' /\ Owners'
      BY <1>1, <2>1, <2>3, <2>4, ReturnTypes
    <2>6. Positions'
      BY <1>1, <1>3, <2>1, <2>2 DEF Inv, Positions, Return
    <2> QED BY <2>2, <2>5, <2>6, TypesAre DEF Inv
  <1> QED BY <1>2, <1>3

---------------------------------------------------------------------------
(* Instances, main and the environment *)

LEMMA InstanceStep ==
    ASSUME Inv, NEW i \in Ids,
           \/ Instance(i) \/ HandlerBegin(i) \/ AcceptFails(i) \/ CacheWatcherFails(i)
    PROVE  Inv'
  <1>1. ControlTypes /\ InstanceTypes
    BY TypesAre DEF Inv
  <1>2. CASE Observe(i)
    <2>1. phase[i] = "done" /\ observed' = [observed EXCEPT ![i] = TRUE]
          /\ UNCHANGED <<mainVars, cwVars, lockVars, current, closed, latest, phase, listener,
                         cancelled, workers, handlers, serr, shut, ver>>
      BY <1>2 DEF Observe
    <2>2. done' \in BOOLEAN /\ terr' \in BOOLEAN
      BY <1>2, FinishTypes DEF Observe, Inv, TypeOK
    <2>3. InstanceTypes'
      BY <1>1, <2>1 DEF InstanceTypes
    <2>4. ControlTypes'
      BY <1>1, <2>1, <2>2 DEF ControlTypes, mainVars, cwVars, lockVars
    <2>5. Owners' /\ Positions'
      BY <2>1 DEF Inv, Owners, Positions, Quiet, mainVars, lockVars
    <2>6. Phases'
      BY <1>1, <2>1 DEF Inv, Phases, InstanceTypes
    <2> QED BY <2>3, <2>4, <2>5, <2>6, TypesAre DEF Inv
  <1>3. ASSUME UNCHANGED env, InstanceTypes', phase[i] \in {"serve", "drain", "wait"} \/ phase'[i] = phase[i],
               \A k \in Ids \ {i} : phase'[k] = phase[k], Phases'
        PROVE  Inv'
    <2>1. UNCHANGED <<mainVars, cwVars, lockVars, supVars, latest>>
      BY <1>3 DEF env
    <2>2. ControlTypes'
      BY <1>1, <2>1 DEF ControlTypes, mainVars, cwVars, lockVars, supVars
    <2>3. Owners'
      BY <2>1 DEF Inv, Owners, mainVars, lockVars, supVars
    <2>4. latest # 0 => latest \in Ids
      BY <1>1, BoundsAssumption DEF ControlTypes, Ids
    <2>5. latest # 0 /\ phase[latest] \in {"init", "done", "failed"} => phase'[latest] = phase[latest]
      BY <1>3, <2>4
    <2>6. Positions'
      BY <2>1, <2>5 DEF Inv, Positions, Quiet, lockVars, supVars
    <2> QED BY <1>3, <2>2, <2>3, <2>6, TypesAre DEF Inv
  <1>4. CASE HandlerEnd(i) \/ HandlerBegin(i)
    <2>1. UNCHANGED <<env, phase, listener, cancelled, workers, serr, shut>>
          /\ (HandlerBegin(i) => phase[i] = "serve" /\ handlers[i] < MaxHandlers)
          /\ (HandlerEnd(i) => handlers[i] > 0)
      BY <1>4 DEF HandlerEnd, HandlerBegin
    <2>2. handlers' \in [Ids -> 0..MaxHandlers]
      BY <1>1, <1>4, BoundsAssumption DEF HandlerEnd, HandlerBegin, InstanceTypes
    <2>3. \A k \in Ids : handlers'[k] # 0 => handlers[k] # 0 \/ phase[k] = "serve"
      BY <1>1, <1>4 DEF HandlerEnd, HandlerBegin, InstanceTypes
    <2>4. InstanceTypes'
      BY <1>1, <2>1, <2>2 DEF InstanceTypes, env
    <2>5. Phases'
      BY <2>1, <2>3 DEF Inv, Phases, env
    <2> QED BY <1>3, <2>1, <2>4, <2>5
  <1>5. CASE AcceptFails(i) \/ ServeClosed(i)
    <2>1. phase[i] = "serve" /\ phase' = [phase EXCEPT ![i] = "drain"]
          /\ listener' = [listener EXCEPT ![i] = FALSE] /\ cancelled' = [cancelled EXCEPT ![i] = TRUE]
          /\ UNCHANGED <<env, workers, handlers, shut>>
      BY <1>5 DEF AcceptFails, ServeClosed, ServeReturns
    <2>2. serr' \in [Ids -> BOOLEAN]
      BY <1>1, <1>5 DEF AcceptFails, ServeClosed, InstanceTypes
    <2>3. InstanceTypes'
      BY <1>1, <2>1, <2>2 DEF InstanceTypes, env
    <2>4. Phases'
      BY <1>1, <2>1 DEF Inv, Phases, InstanceTypes, env
    <2>5. \A k \in Ids \ {i} : phase'[k] = phase[k]
      BY <1>1, <2>1 DEF InstanceTypes
    <2> QED BY <1>3, <2>1, <2>3, <2>4, <2>5
  <1>6. CASE ServeDrained(i) \/ ServeDone(i)
    <2>1. UNCHANGED <<env, listener, cancelled, workers, handlers, serr, shut>>
          /\ \/ phase[i] = "drain" /\ handlers[i] = 0 /\ phase' = [phase EXCEPT ![i] = "wait"]
             \/ phase[i] = "wait" /\ workers[i] = {} /\ phase' = [phase EXCEPT ![i] = "done"]
      BY <1>6 DEF ServeDrained, ServeDone
    <2>2. InstanceTypes'
      BY <1>1, <2>1 DEF InstanceTypes, env
    <2>3. Phases'
      BY <1>1, <2>1 DEF Inv, Phases, InstanceTypes, env
    <2>4. \A k \in Ids \ {i} : phase'[k] = phase[k]
      BY <1>1, <2>1 DEF InstanceTypes
    <2> QED BY <1>3, <2>1, <2>2, <2>3, <2>4
  <1>7. CASE CacheWatcherFails(i) \/ \E w \in Workers : WorkerStops(i, w)
    <2>1. PICK w \in Workers : workers' = [workers EXCEPT ![i] = @ \ {w}]
      BY <1>7 DEF CacheWatcherFails, WorkerStops, Workers
    <2>2. UNCHANGED <<env, phase, listener, cancelled, handlers, serr, shut>>
      BY <1>7 DEF CacheWatcherFails, WorkerStops
    <2>3. \A k \in Ids : workers'[k] \subseteq workers[k]
      BY <1>1, <2>1 DEF InstanceTypes
    <2>4. InstanceTypes'
      BY <1>1, <2>1, <2>2 DEF InstanceTypes, env
    <2>5. Phases'
      BY <2>2, <2>3 DEF Inv, Phases, env
    <2> QED BY <1>3, <2>2, <2>4, <2>5
  <1> QED BY <1>2, <1>4, <1>5, <1>6, <1>7 DEF Instance

LEMMA OutsideStep ==
    ASSUME Inv, \/ \E ok \in BOOLEAN : WriteConfig(ok)
                \/ Signal \/ Root \/ Debounced \/ CwStops \/ Terminated \/ UNCHANGED vars
    PROVE  Inv'
  <1>1. ControlTypes /\ UNCHANGED <<lockVars, supVars, instVars>>
    BY TypesAre DEF Inv, WriteConfig, Signal, Root, StartConfigWatcher, Wake, WatcherClosed, Debounced,
                    CwStops, Terminated, vars
  <1>2. InstanceTypes' /\ Phases' /\ latest' = latest /\ (Quiet => Quiet')
    BY <1>1, InstancesStay
  <1>3. Positions'
    BY <1>1, <1>2 DEF Inv, Positions, lockVars, supVars, instVars
  <1>4. ASSUME NEW ok \in BOOLEAN, WriteConfig(ok)
        PROVE  ControlTypes' /\ Owners'
    <2>1. config' \in [n : 0..MaxChanges, valid : BOOLEAN]
      BY <1>1, <1>4, BoundsAssumption DEF WriteConfig, ControlTypes
    <2>2. event' \in BOOLEAN
      BY <1>4 DEF WriteConfig
    <2>3. UNCHANGED <<mainVars, cw, cwCtx>>
      BY <1>4 DEF WriteConfig
    <2> QED BY <1>1, <1>2, <2>1, <2>2, <2>3 DEF Inv, ControlTypes, Owners, mainVars, lockVars, supVars
  <1>5. ASSUME Signal
        PROVE  ControlTypes' /\ Owners'
    BY <1>1, <1>2, <1>5 DEF Signal, Inv, ControlTypes, Owners, cwVars, lockVars, supVars
  <1>6. ASSUME Root
        PROVE  ControlTypes' /\ Owners'
    <2>1. ASSUME NEW ok \in BOOLEAN, StartConfigWatcher(ok)
          PROVE  ControlTypes' /\ Owners'
      <3>1. cw' \in {"off", "idle", "reload", "stopped"} /\ main' = "select" /\ main = "watch"
            /\ UNCHANGED <<path, result, signal, cwCtx, event, config>>
        BY <2>1 DEF StartConfigWatcher
      <3> QED BY <1>1, <1>2, <3>1 DEF Inv, ControlTypes, Owners, lockVars, supVars
    <2>2. CASE Wake
      <3>1. main' = "closing" /\ main = "select" /\ path' \in {"signal", "done"} /\ cwCtx' \in BOOLEAN
            /\ result' \in {result, "ok", "error"} /\ UNCHANGED <<signal, cw, event, config>>
        BY <2>2 DEF Wake
      <3> QED BY <1>1, <1>2, <3>1 DEF Inv, ControlTypes, Owners, lockVars, supVars
    <2>3. CASE WatcherClosed
      <3>1. main' = "shutdown" /\ main = "closing" /\ UNCHANGED <<path, result, signal, cwVars>>
        BY <2>3 DEF WatcherClosed
      <3> QED BY <1>1, <1>2, <3>1 DEF Inv, ControlTypes, Owners, cwVars, lockVars, supVars
    <2> QED BY <1>6, <2>1, <2>2, <2>3 DEF Root
  <1>7. ASSUME Debounced \/ CwStops
        PROVE  ControlTypes' /\ Owners'
    <2>1. cw' \in {"off", "idle", "reload", "stopped"} /\ event' \in BOOLEAN /\ UNCHANGED <<mainVars, cwCtx, config>>
      BY <1>1, <1>7 DEF Debounced, CwStops, ControlTypes
    <2> QED BY <1>1, <1>2, <2>1 DEF Inv, ControlTypes, Owners, mainVars, lockVars, supVars
  <1>8. ASSUME Terminated \/ UNCHANGED vars
        PROVE  ControlTypes' /\ Owners'
    BY <1>1, <1>2, <1>8 DEF Terminated, vars, Inv, ControlTypes, Owners, mainVars, cwVars, lockVars, supVars
  <1>9. ControlTypes' /\ Owners'
    BY <1>4, <1>5, <1>6, <1>7, <1>8
  <1> QED BY <1>2, <1>3, <1>9, TypesAre DEF Inv

LEMMA InvStep == Inv /\ [Next]_vars => Inv'
  <1> SUFFICES ASSUME Inv, [Next]_vars
               PROVE  Inv'
    OBVIOUS
  <1>1. CASE Supervise
    BY <1>1, LockStep, LoadStep, DrainStep, AwaitStep, StartStep, ShutdownStep DEF Supervise
  <1>2. ASSUME NEW i \in Ids, Instance(i) \/ HandlerBegin(i) \/ AcceptFails(i) \/ CacheWatcherFails(i)
        PROVE  Inv'
    BY <1>2, InstanceStep
  <1>3. CASE ~Supervise /\ ~\E i \in Ids : Instance(i) \/ HandlerBegin(i) \/ AcceptFails(i) \/ CacheWatcherFails(i)
    BY <1>3, OutsideStep DEF Next
  <1> QED BY <1>1, <1>2, <1>3

LEMMA InvHolds == Spec => []Inv
  BY InitInv, InvStep, PTL DEF Spec

\* Every variable of the supervisor, its callers and its instances stays in its range;
\* the mutex is held exactly while somebody is inside Reload or Shutdown.
THEOREM TypeCorrect == Spec => []TypeOK
  <1>1. Inv => TypeOK
    BY DEF Inv
  <1> QED BY <1>1, InvHolds, PTL

\* One server at a time (server_supervisor.go, run_server.go): for any number of reloads,
\* requests, signals and faults in any order, whatever is older than the newest instance
\* has neither the port nor a worker nor a request, and the process ends without any.
THEOREM OneAtATime == Spec => []OneServer
  <1>1. Inv => OneServer
    <2> SUFFICES ASSUME Inv, NEW i \in Ids, i < latest \/ main = "exited"
                 PROVE  Down(i)
      BY DEF OneServer
    <2>1. phase[i] \in {"none", "done", "failed"}
      <3>1. CASE i < latest
        BY <3>1 DEF Inv, Phases
      <3>2. CASE main = "exited" /\ i = latest
        <4>1. Quiet /\ latest # 0
          BY <3>2, BoundsAssumption DEF Inv, Owners, Positions, Ids
        <4> QED BY <3>2, <4>1 DEF Quiet
      <3>3. CASE i > latest
        BY <3>3 DEF Inv, Phases
      <3>4. i < latest \/ i = latest \/ i > latest
        BY BoundsAssumption DEF Inv, TypeOK, Ids
      <3> QED BY <3>1, <3>2, <3>3, <3>4
    <2> QED BY <2>1 DEF Inv, Phases, Down
  <1> QED BY <1>1, InvHolds, PTL
====
