---- MODULE ServiceControl ----
(***************************************************************************)
(* Who starts and stops the converter.  Four parties share procd's single  *)
(* instance "main" and the lifecycle lock: the reload trigger that follows *)
(* a uci commit, the LuCI page that reconciles the service with its switch *)
(* through rpcd, procd itself, which respawns a dead process, and a run of *)
(* update.sh check or apply, which starts a stopped converter for its own  *)
(* duration and removes it in its exit trap.                               *)
(*                                                                         *)
(* The lock is one variable here; OwnerLock has its commands.  A refused   *)
(* operation (exit 75) changes nothing and is not repeated.  A page may    *)
(* give up what it has to reconcile, and several pages may be open.        *)
(***************************************************************************)
EXTENDS Naturals

CONSTANTS
    MaxSaves,  \* bound: Save & Apply
    MaxCalls,  \* bound: restarts called for while the user may still click
    MaxRuns,   \* bound: runs of update.sh
    Faults     \* the faults considered, out of AllFaults

AllFaults == {"invalid",  \* saved settings that generate-config.sh rejects
              "crash",    \* the converter's process ends by itself
              "start",    \* INIT start fails after the generator
              "stop",     \* INIT stop fails
              "signal"}   \* a run is terminated (rpcd's timeout, a user)

ASSUME ControlAssumption ==
    /\ MaxSaves \in Nat /\ MaxCalls \in Nat /\ MaxRuns \in Nat
    /\ Faults \subseteq AllFaults

VARIABLES
    on, valid,  \* the saved settings: the switch, and whether they generate
    pending,    \* the reload trigger has been fired
    inst,       \* who published procd's instance: the user's side, a run, nobody
    up,         \* its process
    lock,       \* holder of the lifecycle lock
    reload,     \* the init script's reload: where it is
    want,       \* the switch as its config_load saw it
    ui,         \* how many pages reconcile after Save & Apply
    calls,      \* the pages' calls of service actions that have not reached the lock
    rpc,        \* rpcd's service action under the lock
    action,     \* which one
    run,        \* the run of update.sh: where it is
    started,    \* its STARTED_CONVERTER
    saves, runs,
    hit,        \* history: the faults that have occurred
    calm,       \* history: the last save found everybody at rest
    decided     \* history: a page has decided since, with no service action under way

pageVars == <<ui, saves, calm, decided>>
userVars == <<on, valid, pending, pageVars>>
instVars == <<inst, up>>
reloadVars == <<reload, want>>
rpcVars == <<calls, rpc, action>>
runVars == <<run, started, runs>>
vars == <<userVars, instVars, lock, reloadVars, rpcVars, runVars, hit>>

Actions == {"restart", "stop"}

TypeOK ==
    /\ on \in BOOLEAN /\ valid \in BOOLEAN /\ pending \in BOOLEAN
    /\ inst \in {"none", "user", "run"}
    /\ up \in {"down", "starting", "healthy"}
    /\ inst = "none" => up = "down"
    /\ lock \in {"free", "reload", "rpc", "run"}
    /\ reload \in {"idle", "again", "load", "publish"}
    /\ lock = "reload" <=> reload \in {"load", "publish"}
    /\ want \in BOOLEAN
    /\ ui \in Nat
    /\ calls \in [Actions -> Nat]
    /\ rpc \in {"idle", "stop", "start"}
    /\ lock = "rpc" <=> rpc # "idle"
    /\ action \in Actions
    /\ run \in {"idle", "generate", "probe", "lock", "reprobe", "running", "start", "mark",
                "wait", "work", "cleanup", "unlock"}
    /\ lock = "run" => run \notin {"idle", "generate", "probe", "lock"}
    /\ started \in BOOLEAN
    /\ saves \in 0..MaxSaves /\ runs \in 0..MaxRuns
    /\ hit \subseteq Faults
    /\ calm \in BOOLEAN /\ decided \in BOOLEAN

Init ==
    /\ on \in BOOLEAN /\ valid = TRUE /\ pending = FALSE /\ ui = 0 /\ saves = 0
    /\ calm = TRUE /\ decided = FALSE
    /\ inst = (IF on THEN "user" ELSE "none")
    /\ up = (IF on THEN "healthy" ELSE "down")
    /\ lock = "free"
    /\ reload = "idle" /\ want = FALSE
    /\ calls = [a \in Actions |-> 0] /\ rpc = "idle" /\ action = "restart"
    /\ run = "idle" /\ started = FALSE /\ runs = 0
    /\ hit = {}

Running == up # "down"   \* INIT running: procd sees a process of the instance
Healthy == up = "healthy"

Hit(f) == f \in Faults /\ hit' = hit \cup {f}

NoAction == rpc = "idle" /\ \A a \in Actions : calls[a] = 0
Rest == ~pending /\ ui = 0 /\ reload = "idle" /\ NoAction /\ run = "idle"

---------------------------------------------------------------------------
(* procd *)

Ready == up = "starting" /\ up' = "healthy" /\ UNCHANGED <<userVars, inst, lock, reloadVars, rpcVars, runVars, hit>>

Crash ==
    /\ Hit("crash") /\ Running
    /\ up' = "down"
    /\ UNCHANGED <<userVars, inst, lock, reloadVars, rpcVars, runVars>>

\* Five seconds later, unless procd has given up.
Respawn ==
    /\ inst # "none" /\ up = "down"
    /\ up' = "starting"
    /\ UNCHANGED <<userVars, inst, lock, reloadVars, rpcVars, runVars, hit>>

\* Publication of the instance by who; an instance that is already there is
\* kept (or restarted with the new digest) and goes on belonging to the user.
Publish(who) ==
    /\ inst' = IF inst = "user" THEN inst ELSE who
    /\ up' = IF Running THEN up ELSE "starting"
    /\ UNCHANGED hit

\* An empty service, or none: procd removes the instance.
Gone == inst' = "none" /\ up' = "down"
Vanish == Gone /\ UNCHANGED hit

\* INIT start without an instance; INIT stop without effect.
StartFails == Hit("start") /\ Gone
StopFails == Hit("stop") /\ UNCHANGED instVars

---------------------------------------------------------------------------
(* Save & Apply: uci commit, then the reload trigger and the page *)

Save(e, v) ==
    /\ saves < MaxSaves
    /\ IF v THEN UNCHANGED hit ELSE Hit("invalid")
    /\ on' = e /\ valid' = v
    /\ pending' = TRUE /\ ui' = ui + 1 /\ saves' = saves + 1
    /\ calm' = Rest /\ decided' = FALSE
    /\ UNCHANGED <<instVars, lock, reloadVars, rpcVars, runVars>>

\* reload_service, start, start_service: config_load reads the switch under
\* the lock.  rc.common tries a failed reload once more, as a restart.
ReloadEnter ==
    /\ reload = "idle" /\ pending
    /\ pending' = FALSE
    /\ \/ lock = "free" /\ lock' = "reload" /\ reload' = "load"
       \/ lock # "free" /\ reload' = "again" /\ UNCHANGED lock
    /\ UNCHANGED <<on, valid, pageVars, instVars, want, rpcVars, runVars, hit>>

ReloadAgain ==
    /\ reload = "again"
    /\ \/ lock = "free" /\ lock' = "reload" /\ reload' = "load" /\ Vanish
       \/ lock # "free" /\ reload' = "idle" /\ UNCHANGED <<lock, instVars, hit>>
    /\ UNCHANGED <<userVars, want, rpcVars, runVars>>

ReloadLoad ==
    /\ reload = "load" /\ reload' = "publish"
    /\ want' = on
    /\ UNCHANGED <<userVars, instVars, lock, rpcVars, runVars, hit>>

\* The generator runs, then the instance is opened; rc.common closes the
\* service whatever start_service returned, so a failure publishes it empty.
ReloadPublish ==
    /\ reload = "publish"
    /\ \/ valid /\ want /\ Publish("user")
       \/ ~(valid /\ want) /\ Vanish
       \/ StartFails
    /\ reload' = "idle" /\ lock' = "free"
    /\ UNCHANGED <<userVars, want, rpcVars, runVars>>

Call(a) == calls' = [calls EXCEPT ![a] = @ + 1]

\* Variant: the page never stops a service that should not run.
UiDecideRestarts ==
    /\ ui > 0 /\ ui' = ui - 1
    /\ \/ on /\ (~Running \/ valid) /\ Call("restart")
       \/ (on => Running) /\ UNCHANGED calls
    /\ decided' = (decided \/ NoAction)
    /\ UNCHANGED <<on, valid, pending, saves, calm, instVars, lock, reloadVars, rpc, action, runVars, hit>>

\* The page compares the switch with the status it polled: restart when the
\* service should run and does not, or when the digest of config.yaml has
\* changed, which takes settings that generate; stop when it should not run.
UiDecide ==
    /\ ui > 0 /\ ui' = ui - 1
    /\ \/ on /\ (~Running \/ valid) /\ Call("restart")
       \/ ~on /\ Running /\ Call("stop")
       \/ on = Running /\ UNCHANGED calls
    /\ decided' = (decided \/ NoAction)
    /\ UNCHANGED <<on, valid, pending, saves, calm, instVars, lock, reloadVars, rpc, action, runVars, hit>>

\* It does nothing: its polls have failed to the end, doAction finds it busy
\* with another action, or the user has left it.
UiDrops ==
    /\ ui > 0 /\ ui' = ui - 1
    /\ UNCHANGED <<on, valid, pending, saves, calm, decided, instVars, lock, reloadVars, rpcVars, runVars, hit>>

\* The Restart button, whatever the switch says.
UiRestart ==
    /\ calls["restart"] < MaxCalls
    /\ Call("restart")
    /\ calm' = FALSE /\ decided' = FALSE
    /\ UNCHANGED <<on, valid, pending, ui, saves, instVars, lock, reloadVars, rpc, action, runVars, hit>>

\* service_action_cmd: 75 while anybody holds the lock.
RpcEnter(a) ==
    /\ calls[a] > 0 /\ calls' = [calls EXCEPT ![a] = @ - 1]
    /\ \/ lock = "free" /\ lock' = "rpc" /\ rpc' = "stop" /\ action' = a
       \/ lock # "free" /\ UNCHANGED <<lock, rpc, action>>
    /\ UNCHANGED <<userVars, instVars, reloadVars, runVars, hit>>

RpcStop ==
    /\ rpc = "stop"
    /\ Vanish \/ StopFails
    /\ \/ action = "stop" /\ rpc' = "idle" /\ lock' = "free"
       \/ action = "restart" /\ rpc' = "start" /\ UNCHANGED lock
    /\ UNCHANGED <<userVars, reloadVars, calls, action, runVars>>

\* INIT start manual does not look at the switch.
RpcStart ==
    /\ rpc = "start"
    /\ \/ valid /\ Publish("user")
       \/ ~valid /\ Vanish
       \/ StartFails
    /\ rpc' = "idle" /\ lock' = "free"
    /\ UNCHANGED <<userVars, reloadVars, calls, action, runVars>>

---------------------------------------------------------------------------
(* update.sh check, apply *)

RunStep(from, to) == run = from /\ run' = to
Release == lock' = IF lock = "run" THEN "free" ELSE lock

RunStart ==
    /\ runs < MaxRuns
    /\ RunStep("idle", "generate")
    /\ UNCHANGED <<userVars, instVars, lock, reloadVars, rpcVars, started, runs, hit>>

RunGenerate ==
    /\ RunStep("generate", IF valid THEN "probe" ELSE "cleanup")
    /\ UNCHANGED <<userVars, instVars, lock, reloadVars, rpcVars, started, runs, hit>>

RunProbe ==
    /\ RunStep("probe", IF Healthy THEN "work" ELSE "lock")
    /\ UNCHANGED <<userVars, instVars, lock, reloadVars, rpcVars, started, runs, hit>>

RunLock ==
    /\ \/ lock = "free" /\ lock' = "run" /\ RunStep("lock", "reprobe")
       \/ lock # "free" /\ RunStep("lock", "cleanup") /\ UNCHANGED lock
    /\ UNCHANGED <<userVars, instVars, reloadVars, rpcVars, started, runs, hit>>

RunReprobe ==
    /\ RunStep("reprobe", IF Healthy THEN "work" ELSE "running")
    /\ IF Healthy THEN Release ELSE UNCHANGED lock
    /\ UNCHANGED <<userVars, instVars, reloadVars, rpcVars, started, runs, hit>>

\* Variant: an unhealthy converter is started again, whoever's it is.
RunRunningStarts ==
    /\ RunStep("running", "start")
    /\ UNCHANGED <<userVars, instVars, lock, reloadVars, rpcVars, started, runs, hit>>

\* A process that is there but not healthy is somebody else's: wait for it,
\* without the lock.
RunRunning ==
    /\ RunStep("running", IF Running THEN "wait" ELSE "start")
    /\ IF Running THEN Release ELSE UNCHANGED lock
    /\ UNCHANGED <<userVars, instVars, reloadVars, rpcVars, started, runs, hit>>

\* INIT start manual, with the token of the lock.
RunInitStart ==
    /\ \/ valid /\ Publish("run") /\ RunStep("start", "mark") /\ UNCHANGED lock
       \/ ((~valid /\ Vanish) \/ StartFails) /\ RunStep("start", "cleanup") /\ Release
    /\ UNCHANGED <<userVars, reloadVars, rpcVars, started, runs>>

\* Variant: the start counts only when the converter is healthy already.
RunMarkHealthy ==
    /\ RunStep("mark", "wait")
    /\ started' = Healthy
    /\ UNCHANGED <<userVars, instVars, lock, reloadVars, rpcVars, runs, hit>>

\* STARTED_CONVERTER=1, a command of its own; the lock stays held.
RunMark ==
    /\ RunStep("mark", "wait")
    /\ started' = TRUE
    /\ UNCHANGED <<userVars, instVars, lock, reloadVars, rpcVars, runs, hit>>

RunWait ==
    /\ RunStep("wait", "cleanup") \/ (Healthy /\ RunStep("wait", "work"))
    /\ UNCHANGED <<userVars, instVars, lock, reloadVars, rpcVars, started, runs, hit>>

\* refresh, fetch, validate, install; success and failure both exit.
RunWork ==
    /\ RunStep("work", "cleanup")
    /\ UNCHANGED <<userVars, instVars, lock, reloadVars, rpcVars, started, runs, hit>>

RunCleanup ==
    /\ RunStep("cleanup", "unlock")
    /\ \/ started /\ (Vanish \/ StopFails)
       \/ ~started /\ UNCHANGED <<instVars, hit>>
    /\ started' = FALSE
    /\ UNCHANGED <<userVars, lock, reloadVars, rpcVars, runs>>

\* Variant: the exit trap leaves the lifecycle lock to its token.
RunUnlockNot ==
    /\ RunStep("unlock", "idle")
    /\ runs' = runs + 1
    /\ UNCHANGED <<userVars, instVars, lock, reloadVars, rpcVars, started, hit>>

RunUnlock ==
    /\ RunStep("unlock", "idle")
    /\ Release
    /\ runs' = runs + 1
    /\ UNCHANGED <<userVars, instVars, reloadVars, rpcVars, started, hit>>

\* The trap of HUP, INT and TERM runs between two commands and exits, which
\* runs the exit trap; during the exit trap it ends the run at once.
Signal ==
    /\ Hit("signal")
    /\ \/ run \notin {"idle", "cleanup", "unlock"} /\ run' = "cleanup" /\ UNCHANGED <<lock, started, runs>>
       \/ /\ run \in {"cleanup", "unlock"} /\ run' = "idle"
          /\ Release /\ started' = FALSE /\ runs' = runs + 1
    /\ UNCHANGED <<userVars, instVars, reloadVars, rpcVars>>

Procd == Ready \/ Crash \/ Respawn
User == (\E e, v \in BOOLEAN : Save(e, v)) \/ UiDecide \/ UiDrops \/ UiRestart
InitScript == ReloadEnter \/ ReloadAgain \/ ReloadLoad \/ ReloadPublish
Rpcd == (\E a \in Actions : RpcEnter(a)) \/ RpcStop \/ RpcStart
Updater ==
    \/ RunStart \/ RunGenerate \/ RunProbe \/ RunLock \/ RunReprobe \/ RunRunning
    \/ RunInitStart \/ RunMark \/ RunWait \/ RunWork \/ RunCleanup \/ RunUnlock \/ Signal

Next == Procd \/ User \/ InitScript \/ Rpcd \/ Updater

Spec == Init /\ [][Next]_vars

---------------------------------------------------------------------------
(* Properties *)

\* A run stops only the converter it started itself: neither its temporary
\* start nor its cleanup removes an instance that the user's side published.
\* A crash is excepted: during the five seconds before procd's respawn INIT
\* running is false, and the run takes the instance for a stopped one.
UserServiceSurvives ==
    [][run' # run /\ inst = "user" /\ "crash" \notin hit => inst' = "user"]_vars

\* A temporary converter does not outlive its run, whatever failed in it,
\* except that a signal may arrive between INIT start and STARTED_CONVERTER=1
\* or in the exit trap itself, and that its INIT stop may fail.
TemporaryRemoved == inst = "run" /\ run = "idle" => hit \cap {"signal", "stop"} # {}

\* When everybody is at rest the service is what the last save says, however
\* the reload triggers and the pages of several saves interleave, if the save
\* was made at rest, whether its page does anything or not; or else if a page
\* has decided since while no service action was called or at work.  (A save
\* that meets one and whose page finds itself busy, is refused or is left stays
\* without effect.)  The Restart button is a wish of its own, until the next
\* save.  Faults are excepted (one refusal or crash at the wrong moment is never
\* repaired), and so are runs of update.sh, whose lock refuses a save for good.
SwitchHolds == Rest /\ hit = {} /\ runs = 0 /\ (calm \/ decided) => (inst # "none") = on

====
