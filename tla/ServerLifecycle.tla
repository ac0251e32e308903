---- MODULE ServerLifecycle ----
(***************************************************************************)
(* The converter's control plane: the main goroutine (runServerWithHooks), *)
(* the ConfigWatcher that calls Reload, the ServerSupervisor, and the      *)
(* server instances it starts one after another: listener, auto-updater,   *)
(* cache watcher, HTTP handlers, serve() and Shutdown().                   *)
(*                                                                         *)
(* Reload and Shutdown of the supervisor hold its mutex to their end, so   *)
(* one program counter (rp) is enough for both of their possible callers.  *)
(***************************************************************************)
EXTENDS Naturals

CONSTANTS
    MaxInstances,  \* bound: server instances started
    MaxChanges,    \* bound: changes of the config file
    MaxHandlers,   \* bound: requests in progress per instance
    Faults         \* the faults considered, out of AllFaults

AllFaults == {"accept",   \* Accept fails while serving
              "listen",   \* the port is taken, or initialize fails
              "invalid",  \* the config file does not validate
              "slow",     \* a handler runs longer than the shutdown timeout
              "watch"}    \* the config or the cache watcher cannot watch

ASSUME BoundsAssumption ==
    /\ MaxInstances \in Nat \ {0}
    /\ MaxChanges \in Nat
    /\ MaxHandlers \in Nat
    /\ Faults \subseteq AllFaults

Ids == 1..MaxInstances
Workers == {"updater", "watcher"}

VARIABLES
    main,      \* the main goroutine
    path,      \* why it left its select
    result,    \* what it returns
    signal,    \* a signal was delivered
    cw,        \* the config watcher goroutine
    cwCtx,     \* its context is alive
    event,     \* a change of the config file it has not handled yet
    config,    \* the config file: version and validity
    mu, rp,    \* holder of the supervisor's mutex, and where it is
    cand,      \* the candidate its Reload has loaded
    target,    \* the instance it stops
    current, closed, done, terr,   \* ServerSupervisor
    latest,    \* instances created; the last one owns the handler's globals
    phase,     \* serve() of each instance
    listener, cancelled, workers, handlers, serr, shut, observed, ver

mainVars == <<main, path, result, signal>>
cwVars == <<cw, cwCtx, event, config>>
lockVars == <<mu, rp, cand, target>>
supVars == <<current, closed, done, terr>>
instVars == <<latest, phase, listener, cancelled, workers, handlers, serr, shut, observed, ver>>
vars == <<mainVars, cwVars, lockVars, supVars, instVars>>

TypeOK ==
    /\ main \in {"boot", "watch", "select", "closing", "shutdown", "exited"}
    /\ path \in {"none", "init", "signal", "done"}
    /\ result \in {"none", "ok", "error"}
    /\ signal \in BOOLEAN
    /\ cw \in {"off", "idle", "reload", "stopped"}
    /\ cwCtx \in BOOLEAN /\ event \in BOOLEAN
    /\ config \in [n : 0..MaxChanges, valid : BOOLEAN]
    /\ mu \in {"free", "main", "cw"} /\ (mu = "free" <=> rp = "none")
    /\ rp \in {"none", "load", "drain", "await", "new", "init"}
    /\ cand \in 0..MaxChanges
    /\ target \in 0..MaxInstances /\ current \in 0..MaxInstances
    /\ closed \in BOOLEAN /\ done \in BOOLEAN /\ terr \in BOOLEAN
    /\ latest \in 0..MaxInstances
    /\ phase \in [Ids -> {"none", "init", "serve", "drain", "wait", "done", "failed"}]
    /\ listener \in [Ids -> BOOLEAN] /\ cancelled \in [Ids -> BOOLEAN]
    /\ workers \in [Ids -> SUBSET Workers]
    /\ handlers \in [Ids -> 0..MaxHandlers]
    /\ serr \in [Ids -> BOOLEAN] /\ observed \in [Ids -> BOOLEAN]
    /\ shut \in [Ids -> {"none", "draining", "ok", "timeout"}]
    /\ ver \in [Ids -> 0..MaxChanges]

Init ==
    /\ main = "boot" /\ path = "none" /\ result = "none" /\ signal = FALSE
    /\ cw = "off" /\ cwCtx = TRUE /\ event = FALSE
    /\ config \in [n : {0}, valid : {TRUE} \cup {"invalid" \notin Faults}]
    /\ mu = "free" /\ rp = "none" /\ cand = 0 /\ target = 0
    /\ current = 0 /\ closed = FALSE /\ done = FALSE /\ terr = FALSE
    /\ latest = 0
    /\ phase = [i \in Ids |-> "none"]
    /\ listener = [i \in Ids |-> FALSE] /\ cancelled = [i \in Ids |-> FALSE]
    /\ workers = [i \in Ids |-> {}] /\ handlers = [i \in Ids |-> 0]
    /\ serr = [i \in Ids |-> FALSE] /\ observed = [i \in Ids |-> FALSE]
    /\ shut = [i \in Ids |-> "none"] /\ ver = [i \in Ids |-> 0]
----
(* The environment *)

\* Variant: a change during a reload starts no timer.
WriteConfigWhenIdle(ok) ==
    /\ config.n < MaxChanges /\ main # "exited"
    /\ ok \/ "invalid" \in Faults
    /\ config' = [n |-> config.n + 1, valid |-> ok]
    /\ event' = (event \/ cw = "idle")
    /\ UNCHANGED <<mainVars, cw, cwCtx, lockVars, supVars, instVars>>

\* The config file is replaced; only a running config watcher notices.
WriteConfig(ok) ==
    /\ config.n < MaxChanges /\ main # "exited"
    /\ ok \/ "invalid" \in Faults
    /\ config' = [n |-> config.n + 1, valid |-> ok]
    /\ event' = (event \/ cw \in {"idle", "reload"})
    /\ UNCHANGED <<mainVars, cw, cwCtx, lockVars, supVars, instVars>>

Signal ==
    /\ ~signal /\ main # "exited"
    /\ signal' = TRUE
    /\ UNCHANGED <<main, path, result, cwVars, lockVars, supVars, instVars>>
----
(* ServerSupervisor *)

\* finish(err) through doneOnce: only the first call has an effect.
Finish(err) ==
    /\ done' = TRUE
    /\ terr' = IF done THEN terr ELSE err

\* Variant: an error return forgets to unlock.
ReturnLocked(ok) ==
    /\ mu' = IF ok THEN "free" ELSE mu
    /\ rp' = "none" /\ target' = 0
    /\ IF mu = "cw" THEN cw' = "idle" /\ UNCHANGED <<main, path, result>>
       ELSE /\ main' = IF main = "boot" THEN IF ok THEN "watch" ELSE "shutdown" ELSE "exited"
            /\ path' = IF main = "boot" /\ ~ok THEN "init" ELSE path
            /\ result' = IF main = "boot" THEN result ELSE IF ok THEN "ok" ELSE "error"
            /\ UNCHANGED cw

\* The mutex is released; Reload returns to its caller, Shutdown to main.
Return(ok) ==
    /\ mu' = "free" /\ rp' = "none" /\ target' = 0
    /\ IF mu = "cw" THEN cw' = "idle" /\ UNCHANGED <<main, path, result>>
       ELSE /\ main' = CASE main = "boot" /\ ok  -> "watch"
                         [] main = "boot" /\ ~ok -> "shutdown"
                         [] main = "shutdown"    -> "exited"
            /\ path' = IF main = "boot" /\ ~ok THEN "init" ELSE path
            /\ result' = CASE main = "boot"     -> result
                           [] path = "init"     -> "error"
                           [] path = "signal"   -> IF terr' \/ ~ok THEN "error" ELSE "ok"
                           [] path = "done"     -> IF result = "ok" /\ ~ok THEN "error" ELSE result
            /\ UNCHANGED cw

\* Reload, called by main at start and by the config watcher: lock, then refuse when
\* the supervisor is closed or terminal.
ReloadLock(a) ==
    /\ mu = "free"
    /\ (a = "main" /\ main = "boot") \/ (a = "cw" /\ cw = "reload")
    /\ ~closed /\ ~terr
    /\ mu' = a /\ rp' = "load"
    /\ UNCHANGED <<mainVars, cwVars, cand, target, supVars, instVars>>

ReloadRefused ==
    /\ mu = "free" /\ cw = "reload" /\ (closed \/ terr)
    /\ cw' = "idle"
    /\ UNCHANGED <<mainVars, cwCtx, event, config, lockVars, supVars, instVars>>

\* The candidate does not validate: fatal only when there is no current server.
LoadInvalid ==
    /\ rp = "load" /\ ~config.valid
    /\ IF current = 0 THEN Finish(TRUE) ELSE UNCHANGED <<done, terr>>
    /\ Return(FALSE)
    /\ UNCHANGED <<signal, cwCtx, event, config, cand, current, closed, instVars>>

\* Server.Shutdown begins on i: cancel its context, close its listener.
BeginShutdown(i) ==
    /\ cancelled' = [cancelled EXCEPT ![i] = TRUE]
    /\ listener' = [listener EXCEPT ![i] = FALSE]
    /\ shut' = [shut EXCEPT ![i] = "draining"]
    /\ target' = i /\ current' = 0 /\ rp' = "drain"
    /\ UNCHANGED <<latest, phase, workers, handlers, serr, observed, ver>>

LoadValid ==
    /\ rp = "load" /\ config.valid
    /\ cand' = config.n
    /\ IF current # 0 THEN BeginShutdown(current)
       ELSE rp' = "new" /\ UNCHANGED <<target, current, instVars>>
    /\ UNCHANGED <<mainVars, cwVars, mu, closed, done, terr>>

\* httpServer.Shutdown returns: no request in progress is left, or the timeout expired.
Drained ==
    /\ rp = "drain"
    /\ \/ handlers[target] = 0 /\ shut' = [shut EXCEPT ![target] = "ok"]
       \/ "slow" \in Faults /\ handlers[target] > 0 /\ shut' = [shut EXCEPT ![target] = "timeout"]
    /\ rp' = "await"
    /\ UNCHANGED <<mainVars, cwVars, mu, cand, target, supVars, latest, phase, listener,
                   cancelled, workers, handlers, serr, observed, ver>>

\* Variant: the old instance is not waited for.
ReloadGoesOn ==
    /\ rp = "await" /\ ~(mu = "main" /\ main = "shutdown")
    /\ IF shut[target] = "timeout" THEN Finish(TRUE) /\ Return(FALSE) /\ UNCHANGED cand
       ELSE IF terr THEN Return(FALSE) /\ UNCHANGED <<cand, done, terr>>
       ELSE rp' = "new" /\ target' = 0 /\ UNCHANGED <<mu, cand, cw, main, path, result, done, terr>>
    /\ UNCHANGED <<signal, cwCtx, event, config, current, closed, instVars>>

\* Server.Shutdown has waited for done, its caller waits for observed.
ReloadStopped ==
    /\ rp = "await" /\ observed[target] /\ ~(mu = "main" /\ main = "shutdown")
    /\ IF shut[target] = "timeout" THEN Finish(TRUE) /\ Return(FALSE) /\ UNCHANGED cand
       ELSE IF terr THEN Return(FALSE) /\ UNCHANGED <<cand, done, terr>>
       ELSE rp' = "new" /\ target' = 0 /\ UNCHANGED <<mu, cand, cw, main, path, result, done, terr>>
    /\ UNCHANGED <<signal, cwCtx, event, config, current, closed, instVars>>

\* newServerFromConfig binds the listener and runs initialize, which takes over the
\* handler's globals and makes the initial fetch.
NewServer ==
    /\ rp = "new" /\ latest < MaxInstances
    /\ \A i \in Ids : ~listener[i]
    /\ LET i == latest + 1
       IN /\ latest' = i
          /\ phase' = [phase EXCEPT ![i] = "init"]
          /\ listener' = [listener EXCEPT ![i] = TRUE]
          /\ ver' = [ver EXCEPT ![i] = cand]
    /\ rp' = "init"
    /\ UNCHANGED <<mainVars, cwVars, mu, cand, target, supVars, cancelled, workers, handlers,
                   serr, shut, observed>>

\* The port is in use (always, while another instance of ours listens on it).
ListenFails ==
    /\ rp = "new"
    /\ "listen" \in Faults \/ \E i \in Ids : listener[i]
    /\ Finish(TRUE) /\ Return(FALSE)
    /\ UNCHANGED <<signal, cwCtx, event, config, cand, current, closed, instVars>>

\* Logger or cache directory: the context is cancelled and the listener closed.
InitializeFails ==
    /\ rp = "init" /\ "listen" \in Faults
    /\ phase' = [phase EXCEPT ![latest] = "failed"]
    /\ listener' = [listener EXCEPT ![latest] = FALSE]
    /\ cancelled' = [cancelled EXCEPT ![latest] = TRUE]
    /\ Finish(TRUE) /\ Return(FALSE)
    /\ UNCHANGED <<signal, cwCtx, event, config, cand, current, closed, latest, workers,
                   handlers, serr, shut, observed, ver>>

\* Workers and serve() start, and the supervisor owns the new instance.
Started ==
    /\ rp = "init"
    /\ phase' = [phase EXCEPT ![latest] = "serve"]
    /\ workers' = [workers EXCEPT ![latest] = Workers]
    /\ current' = latest
    /\ Return(TRUE)
    /\ UNCHANGED <<signal, cwCtx, event, config, cand, closed, done, terr, latest, listener,
                   cancelled, handlers, serr, shut, observed, ver>>

\* Shutdown, called by main: lock, close, stop the current instance if there is one.
ShutdownLock ==
    /\ mu = "free" /\ main = "shutdown"
    /\ closed' = TRUE
    /\ IF current # 0
       THEN mu' = "main" /\ BeginShutdown(current) /\ UNCHANGED <<main, path, result, cw, cand, done, terr>>
       ELSE Finish(FALSE) /\ Return(TRUE) /\ UNCHANGED <<cand, current, instVars>>
    /\ UNCHANGED <<signal, cwCtx, event, config>>

ShutdownStopped ==
    /\ rp = "await" /\ observed[target] /\ mu = "main" /\ main = "shutdown"
    /\ Finish(shut[target] = "timeout")
    /\ Return(shut[target] # "timeout")
    /\ UNCHANGED <<signal, cwCtx, event, config, cand, current, closed, instVars>>

\* watch(): publish the instance's failure, then let its stopper go on.
Observe(i) ==
    /\ phase[i] = "done" /\ ~observed[i]
    /\ observed' = [observed EXCEPT ![i] = TRUE]
    /\ IF serr[i] THEN Finish(TRUE) ELSE UNCHANGED <<done, terr>>
    /\ UNCHANGED <<mainVars, cwVars, lockVars, current, closed, latest, phase, listener,
                   cancelled, workers, handlers, serr, shut, ver>>
----
(* A server instance *)

env == <<mainVars, cwVars, lockVars, supVars, latest, ver, observed>>

\* A request is accepted; it ends when its handler has written its answer.
HandlerBegin(i) ==
    /\ phase[i] = "serve" /\ listener[i] /\ handlers[i] < MaxHandlers
    /\ handlers' = [handlers EXCEPT ![i] = @ + 1]
    /\ UNCHANGED <<env, phase, listener, cancelled, workers, serr, shut>>

HandlerEnd(i) ==
    /\ handlers[i] > 0
    /\ handlers' = [handlers EXCEPT ![i] = @ - 1]
    /\ UNCHANGED <<env, phase, listener, cancelled, workers, serr, shut>>

\* Variant: only Shutdown cancels the workers' context.
ServeReturnsAlone(i) ==
    /\ phase[i] = "serve"
    /\ listener' = [listener EXCEPT ![i] = FALSE]
    /\ phase' = [phase EXCEPT ![i] = "drain"]
    /\ UNCHANGED <<env, cancelled, workers, handlers, shut>>

\* Serve returns, fatally or because Shutdown closed the listener; serve() cancels the
\* workers' context either way.
ServeReturns(i) ==
    /\ phase[i] = "serve"
    /\ listener' = [listener EXCEPT ![i] = FALSE]
    /\ cancelled' = [cancelled EXCEPT ![i] = TRUE]
    /\ phase' = [phase EXCEPT ![i] = "drain"]
    /\ UNCHANGED <<env, workers, handlers, shut>>

AcceptFails(i) ==
    /\ "accept" \in Faults /\ listener[i]
    /\ serr' = [serr EXCEPT ![i] = TRUE]
    /\ ServeReturns(i)

ServeClosed(i) == ~listener[i] /\ ServeReturns(i) /\ UNCHANGED serr

\* httpServer.Shutdown(Background) returns when every request is answered.
ServeDrained(i) ==
    /\ phase[i] = "drain" /\ handlers[i] = 0
    /\ phase' = [phase EXCEPT ![i] = "wait"]
    /\ UNCHANGED <<env, listener, cancelled, workers, handlers, serr, shut>>

\* workers.Wait returns; the terminal error is stored and done is closed.
ServeDone(i) ==
    /\ phase[i] = "wait" /\ workers[i] = {}
    /\ phase' = [phase EXCEPT ![i] = "done"]
    /\ UNCHANGED <<env, listener, cancelled, workers, handlers, serr, shut>>

\* A worker sees its context cancelled; the cache watcher may also fail earlier.
WorkerStops(i, w) ==
    /\ w \in workers[i] /\ cancelled[i]
    /\ workers' = [workers EXCEPT ![i] = @ \ {w}]
    /\ UNCHANGED <<env, phase, listener, cancelled, handlers, serr, shut>>

CacheWatcherFails(i) ==
    /\ "watch" \in Faults
    /\ "watcher" \in workers[i] /\ ~cancelled[i]
    /\ workers' = [workers EXCEPT ![i] = @ \ {"watcher"}]
    /\ UNCHANGED <<env, phase, listener, cancelled, handlers, serr, shut>>
----
(* The main goroutine and the config watcher *)

\* Starting the config watcher may fail: the server then runs without it.
StartConfigWatcher(ok) ==
    /\ main = "watch"
    /\ ok \/ "watch" \in Faults
    /\ main' = "select"
    /\ cw' = IF ok THEN "idle" ELSE "stopped"
    /\ UNCHANGED <<path, result, signal, cwCtx, event, config, lockVars, supVars, instVars>>

\* The select of main: a signal, or the supervisor's Done.
Wake ==
    /\ main = "select"
    /\ \/ signal /\ path' = "signal" /\ UNCHANGED result
       \/ done /\ path' = "done" /\ result' = IF terr THEN "error" ELSE "ok"
    /\ main' = "closing"
    /\ cwCtx' = FALSE
    /\ UNCHANGED <<signal, cw, event, config, lockVars, supVars, instVars>>

\* rootWatcher.Close has waited for handleEvents.
WatcherClosed ==
    /\ main = "closing" /\ cw = "stopped"
    /\ main' = "shutdown"
    /\ UNCHANGED <<path, result, signal, cwVars, lockVars, supVars, instVars>>

\* handleEvents: the debounce timer fires, even when the context has just ended.
Debounced ==
    /\ cw = "idle" /\ event
    /\ event' = FALSE /\ cw' = "reload"
    /\ UNCHANGED <<mainVars, cwCtx, config, lockVars, supVars, instVars>>

CwStops ==
    /\ cw = "idle" /\ ~cwCtx
    /\ cw' = "stopped"
    /\ UNCHANGED <<mainVars, cwCtx, event, config, lockVars, supVars, instVars>>
----
Supervise ==
    \/ ReloadLock("main") \/ ReloadLock("cw") \/ ReloadRefused
    \/ LoadInvalid \/ LoadValid \/ Drained \/ ReloadStopped
    \/ NewServer \/ ListenFails \/ InitializeFails \/ Started
    \/ ShutdownLock \/ ShutdownStopped

Instance(i) ==
    \/ Observe(i) \/ HandlerEnd(i)
    \/ ServeClosed(i) \/ ServeDrained(i) \/ ServeDone(i)
    \/ \E w \in Workers : WorkerStops(i, w)

Root ==
    \/ \E ok \in BOOLEAN : StartConfigWatcher(ok)
    \/ Wake \/ WatcherClosed

\* The process is gone.
Terminated == main = "exited" /\ UNCHANGED vars

Next ==
    \/ \E ok \in BOOLEAN : WriteConfig(ok)
    \/ Signal
    \/ Supervise \/ Root \/ Debounced \/ CwStops
    \/ \E i \in Ids : \/ Instance(i) \/ HandlerBegin(i)
                      \/ AcceptFails(i) \/ CacheWatcherFails(i)
    \/ Terminated

Spec == Init /\ [][Next]_vars

\* Goroutines are scheduled, HTTP handlers end (fetch timeouts bound them), workers
\* obey their context; nothing makes a fault, a request or a signal happen.
Fairness ==
    /\ WF_vars(Supervise) /\ WF_vars(Root) /\ WF_vars(Debounced) /\ WF_vars(CwStops)
    /\ \A i \in Ids :
        /\ WF_vars(Observe(i)) /\ WF_vars(HandlerEnd(i))
        /\ WF_vars(ServeClosed(i)) /\ WF_vars(ServeDrained(i)) /\ WF_vars(ServeDone(i))
        /\ \A w \in Workers : WF_vars(WorkerStops(i, w))

FairSpec == Spec /\ Fairness
----
(* Correctness *)

Down(i) == ~listener[i] /\ workers[i] = {} /\ handlers[i] = 0

\* There is one server at a time (1.5.0-design.md:41): when an instance is created,
\* every earlier one has released the port and has neither a worker nor a request left
\* that would run on the handler globals of the new one.
\* The process ends only after the listener, the workers and the requests of the last.
OneServer == \A i \in Ids : i < latest \/ main = "exited" => Down(i)

\* A signal ends the process, also during a reload, and so does a failing instance;
\* a failure is never reported as a clean exit, however the signal, a reload and the
\* failing instance interleave (run.go:169-174).
Exits ==
    /\ signal ~> main = "exited"
    /\ (\E i \in Ids : serr[i]) ~> main = "exited" /\ result = "error"
    /\ [](result = "ok" => \A i \in Ids : ~serr[i] /\ shut[i] # "timeout" /\ phase[i] # "failed")

\* A change of the file that is made while the config watcher runs, also during a
\* reload or while the server boots again, is the one that runs in the end, unless
\* another change or the end of the process comes first (src/README.md:707).  A change
\* made before the watcher runs is not seen.
ChangeIsLoaded ==
    \A v \in 1..MaxChanges :
        [](config.n = v - 1 /\ cw \in {"idle", "reload"} =>
             (config = [n |-> v, valid |-> TRUE] ~>
                 config.n > v \/ main = "exited" \/ (latest > 0 /\ ver[latest] = v)))
====
