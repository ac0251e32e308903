---- MODULE DpiService ----
(***************************************************************************)
(* When a DPI daemon (fakehttp; fakesip has the same script) runs.  Its    *)
(* init script decides at every start from the saved settings, the boot    *)
(* state, the link state and the WAN mapping; it is started by rcS, by     *)
(* the user, by the reload trigger of a uci commit, by the hotplug script  *)
(* of WAN link changes and by the timer of the boot delay.                 *)
(*                                                                         *)
(* link_down, link_up, boot_expired, reload and stop hold procd_lock from  *)
(* their beginning to their end; all but stop also hold the service's      *)
(* flock until rc.common has published the instance.  A start of its own   *)
(* releases the flock before that.                                         *)
(***************************************************************************)
EXTENDS Naturals, Sequences

CONSTANTS
    Links,       \* WAN interfaces: a network and its device each
    Vanishing,   \* those whose device does not exist while they are down
    Choices,     \* what the user may select: sets of links, {} for "auto"
    Delays,      \* boot delays that may be set
    StartLocks,  \* whether rc.common's start takes procd_lock: the cases considered
    MaxNow,      \* bound: uptime
    MaxFlips,    \* bound: link changes
    MaxSaves,    \* bound: Save & Apply
    MaxOrders,   \* bound: start, stop, restart by the user
    MaxTokens    \* bound: boot waits

ASSUME DpiAssumption ==
    /\ Vanishing \subseteq Links /\ Choices \subseteq SUBSET Links
    /\ Delays \subseteq Nat /\ StartLocks \subseteq BOOLEAN
    /\ MaxNow \in Nat /\ MaxFlips \in Nat /\ MaxSaves \in Nat
    /\ MaxOrders \in Nat /\ MaxTokens \in Nat

VARIABLES
    startLocks,
    conf,      \* saved settings
    pending,   \* the reload trigger has been fired
    up,        \* the links that are up
    events,    \* netifd's queue of link changes
    hot,       \* the one the hotplug script has passed on to the init script
    now,       \* uptime
    rcs,       \* what rcS has still to run
    sched,     \* the scheduler's config_load, None when it does not run
    runner,    \* the published boot wait, None when there is none
    boot,      \* <service>.state
    link,      \* <service>.link
    stored,    \* <service>.wan: the mapping of the running instance
    ctx,       \* what the holder of procd_lock has still to do
    start,     \* what a start of its own has still to publish
    inst,      \* procd's instance: the links it is bound to, {} for none
    tokens, flips, saves, orders

None == [token |-> 0, deadline |-> 0]
envVars == <<up, events, now, flips>>
userVars == <<conf, pending, saves, orders>>
bootVars == <<sched, runner, tokens, rcs>>
stateVars == <<boot, link, stored>>
vars == <<startLocks, envVars, hot, userVars, bootVars, stateVars, ctx, start, inst>>

Contexts == {"manual", "boot", "ifup", "boot-expired", "ifdown-definition"}
Waits == [token : 0..MaxTokens, deadline : Delays \cup {0}]

TypeOK ==
    /\ startLocks \in StartLocks
    /\ conf \in [enabled : BOOLEAN, selected : Choices, delay : Delays]
    /\ pending \in BOOLEAN /\ saves \in 0..MaxSaves /\ orders \in 0..MaxOrders
    /\ up \subseteq Links /\ flips \in 0..MaxFlips /\ now \in 0..MaxNow
    /\ events \in Seq([to : {"up", "down"}, link : Links])
    /\ hot \in {<<>>} \cup {<<h>> : h \in [to : {"up", "down"}, link : Links, named : BOOLEAN]}
    /\ rcs \in {"scheduler", "service", "done"}
    /\ sched \in {<<>>} \cup {<<c>> : c \in [enabled : BOOLEAN, delay : Delays]}
    /\ runner \in Waits /\ tokens \in 0..MaxTokens
    /\ boot \in [phase : {"none", "wait", "manual", "done", "cancel"},
                 token : 0..MaxTokens, deadline : Delays \cup {0}]
    /\ link \in {"unknown", "up", "down"}
    /\ stored \subseteq Links
    /\ ctx \in {"none", "kill", "kill-restart"} \cup Contexts
    /\ start \in {<<>>} \cup {<<s>> : s \in SUBSET Links}
    /\ inst \subseteq Links

\* Before rcS has run anything of the service; /var is empty.
Init ==
    /\ startLocks \in StartLocks
    /\ conf \in [enabled : BOOLEAN, selected : Choices, delay : Delays]
    /\ pending = FALSE /\ saves = 0 /\ orders = 0
    /\ up \in SUBSET Links /\ events = <<>> /\ hot = <<>> /\ flips = 0
    /\ now = 0 /\ rcs = "scheduler" /\ sched = <<>> /\ runner = None /\ tokens = 0
    /\ boot = [phase |-> "none", token |-> 0, deadline |-> 0]
    /\ link = "unknown" /\ stored = {}
    /\ ctx = "none" /\ start = <<>> /\ inst = {}

Automatic == conf.selected = {}
Exists(l) == l \in up \/ l \notin Vanishing

ProcdFree == ctx = "none" /\ (startLocks => start = <<>>)
FlockFree == ctx \in {"none", "kill", "kill-restart"}

Phase(p) == [phase |-> p, token |-> 0, deadline |-> 0]

---------------------------------------------------------------------------
(* fh_start_service_locked *)

\* Variant: an explicit stop is forgotten.
DeferNoCancel ==
    CASE boot.phase = "wait"               -> now < boot.deadline
      [] boot.phase \in {"manual", "done"} -> FALSE
      [] boot.phase \in {"cancel", "none"} -> now < conf.delay

Defer ==
    CASE boot.phase = "wait"               -> now < boot.deadline
      [] boot.phase = "cancel"             -> TRUE
      [] boot.phase \in {"manual", "done"} -> FALSE
      [] boot.phase = "none"               -> now < conf.delay

\* The start in context c gets as far as the validation.
Runs(c) ==
    CASE c = "ifdown-definition" -> FALSE
      [] c = "manual"            -> conf.enabled
      [] c = "boot-expired"      -> conf.enabled /\ link # "down"
      [] c \in {"boot", "ifup"}  -> conf.enabled /\ ~Defer

\* Variant: the delay counts from the start of the daemon, not from that of the system.
BootAfterNow(c) ==
    CASE c = "ifdown-definition" -> boot
      [] c # "ifdown-definition" /\ ~conf.enabled -> Phase("cancel")
      [] c = "manual" /\ conf.enabled -> Phase("manual")
      [] c = "boot-expired" /\ conf.enabled -> [boot EXCEPT !.phase = "done"]
      [] c \in {"boot", "ifup"} /\ conf.enabled ->
            IF Defer \/ boot.phase \in {"manual", "done"} THEN boot
            ELSE [phase |-> "done", token |-> 0, deadline |-> now + conf.delay]

\* Variant: an expired wait that finds the link down is left as it is.
BootAfterLink(c) ==
    CASE c = "ifdown-definition" -> boot
      [] c # "ifdown-definition" /\ ~conf.enabled -> Phase("cancel")
      [] c = "manual" /\ conf.enabled -> Phase("manual")
      [] c = "boot-expired" /\ conf.enabled ->
            IF link = "down" THEN boot ELSE [boot EXCEPT !.phase = "done"]
      [] c \in {"boot", "ifup"} /\ conf.enabled ->
            IF Defer \/ boot.phase \in {"manual", "done"} THEN boot
            ELSE [phase |-> "done", token |-> 0, deadline |-> conf.delay]

BootAfter(c) ==
    CASE c = "ifdown-definition" -> boot
      [] c # "ifdown-definition" /\ ~conf.enabled -> Phase("cancel")
      [] c = "manual" /\ conf.enabled -> Phase("manual")
      [] c = "boot-expired" /\ conf.enabled -> [boot EXCEPT !.phase = "done"]
      [] c \in {"boot", "ifup"} /\ conf.enabled ->
            IF Defer \/ boot.phase \in {"manual", "done"} THEN boot
            ELSE [phase |-> "done", token |-> 0, deadline |-> conf.delay]

\* What validation and WAN resolution leave to bind to; nothing when they fail.
Bound == IF Automatic THEN up
         ELSE IF \A l \in conf.selected : Exists(l) THEN conf.selected ELSE {}

Outcome(c) == IF Runs(c) THEN Bound ELSE {}

\* The state files after a start in context c.
Decide(c) ==
    /\ boot' = BootAfter(c)
    /\ IF Outcome(c) = {} THEN UNCHANGED <<link, stored>>
       ELSE link' = "up" /\ stored' = IF Automatic THEN up ELSE {}

---------------------------------------------------------------------------
(* Operations under procd_lock *)

\* The start that link_down, link_up, boot_expired, reload and restart end
\* with; rc.common publishes what it has defined, nothing included.
Nested ==
    /\ ctx \in Contexts
    /\ Decide(ctx)
    /\ inst' = Outcome(ctx)
    /\ ctx' = "none"
    /\ UNCHANGED <<startLocks, envVars, hot, userVars, bootVars, start>>

\* fh_event_device_matches under the lock.
DownMatches(l) == conf.enabled /\ l \in (IF Automatic THEN stored ELSE conf.selected)
UpMatches(l) == conf.enabled /\ IF Automatic THEN l \in up ELSE Exists(l) /\ l \in conf.selected

\* An event that was passed on by its device alone says nothing about a network.
Event(to, l) == hot # <<>> /\ hot[1].to = to /\ hot[1].link = l
Names == Automatic => hot[1].named

\* Variant: a link that goes down stops the daemon of the other one as well.
LinkDownStops(l) ==
    /\ ProcdFree /\ Event("down", l) /\ hot' = <<>>
    /\ IF ~(Names /\ DownMatches(l)) THEN UNCHANGED <<link, stored, ctx, inst>>
       ELSE /\ inst' = {}
            /\ link' = "down" /\ ctx' = "ifdown-definition"
            /\ stored' = IF Automatic THEN {} ELSE stored
    /\ UNCHANGED <<startLocks, envVars, userVars, bootVars, boot, start>>

\* link_down: what is left of the WAN goes on alone.
LinkDown(l) ==
    /\ ProcdFree /\ Event("down", l) /\ hot' = <<>>
    /\ IF ~(Names /\ DownMatches(l)) THEN UNCHANGED <<link, stored, ctx, inst>>
       ELSE /\ inst' = {}
            /\ IF Automatic /\ up # {} THEN link' = "up" /\ ctx' = "ifup" /\ UNCHANGED stored
               ELSE /\ link' = "down" /\ ctx' = "ifdown-definition"
                    /\ stored' = IF Automatic THEN {} ELSE stored
    /\ UNCHANGED <<startLocks, envVars, userVars, bootVars, boot, start>>

LinkUp(l) ==
    /\ ProcdFree /\ Event("up", l) /\ hot' = <<>>
    /\ IF ~(Names /\ UpMatches(l)) THEN UNCHANGED <<link, ctx, inst>>
       ELSE inst' = {} /\ link' = "up" /\ ctx' = "ifup"
    /\ UNCHANGED <<startLocks, envVars, userVars, bootVars, boot, stored, start>>

Waiting(w) == boot = [phase |-> "wait", token |-> w.token, deadline |-> w.deadline]

\* The runner's loop ends, at the deadline or because the wait is over, and
\* boot_expired checks the token under the lock.
Expire ==
    /\ runner # None /\ ProcdFree
    /\ ~Waiting(runner) \/ now >= runner.deadline
    /\ runner' = None
    /\ ctx' = IF Waiting(runner) THEN "boot-expired" ELSE "none"
    /\ UNCHANGED <<startLocks, envVars, hot, userVars, sched, tokens, rcs, stateVars, start, inst>>

Reload ==
    /\ pending /\ ProcdFree /\ pending' = FALSE
    /\ inst' = {} /\ ctx' = "manual"
    /\ UNCHANGED <<startLocks, envVars, hot, conf, saves, orders, bootVars, stateVars, start>>

Order == orders < MaxOrders /\ orders' = orders + 1

\* stop_service cancels first; the flock is released before procd_kill.
Stop(restart) ==
    /\ Order /\ ProcdFree
    /\ boot' = Phase("cancel")
    /\ ctx' = IF restart THEN "kill-restart" ELSE "kill"
    /\ UNCHANGED <<startLocks, envVars, hot, conf, pending, saves, bootVars, link, stored, start, inst>>

StopKill ==
    /\ ctx \in {"kill", "kill-restart"}
    /\ inst' = {}
    /\ ctx' = IF ctx = "kill" THEN "none" ELSE "manual"
    /\ UNCHANGED <<startLocks, envVars, hot, userVars, bootVars, stateVars, start>>

---------------------------------------------------------------------------
(* A start of its own: by the user, by rcS *)

StartDecides(c) ==
    /\ start = <<>> /\ FlockFree /\ (startLocks => ctx = "none")
    /\ Decide(c)
    /\ start' = <<Outcome(c)>>
    /\ inst' = IF Runs(c) \/ ~conf.enabled THEN {} ELSE inst
    /\ UNCHANGED <<startLocks, envVars, hot, conf, pending, saves, sched, runner, tokens, ctx>>

UserStart == Order /\ StartDecides("manual") /\ UNCHANGED rcs
RcsStart == rcs = "service" /\ rcs' = "done" /\ StartDecides("boot") /\ UNCHANGED orders

StartPublishes ==
    /\ start # <<>>
    /\ inst' = start[1] /\ start' = <<>>
    /\ UNCHANGED <<startLocks, envVars, hot, userVars, bootVars, stateVars, ctx>>

---------------------------------------------------------------------------
(* liquid-formula-boot-delay *)

SchedulerLoads ==
    /\ sched = <<>>
    /\ \/ rcs = "scheduler" /\ UNCHANGED orders
       \/ rcs = "done" /\ Order
    /\ sched' = <<[enabled |-> conf.enabled, delay |-> conf.delay]>>
    /\ UNCHANGED <<startLocks, envVars, hot, conf, pending, saves, runner, tokens, rcs, stateVars,
                   ctx, start, inst>>

\* tf_schedule_boot_service under the flock; then the wait is published (a
\* wait that is over already is handed to boot_expired: here by Expire).
SchedulerDecides ==
    /\ sched # <<>> /\ FlockFree
    /\ LET c == sched[1]
           same == boot.phase = "wait" /\ boot.deadline = c.delay
           fresh == c.enabled /\ ~same /\ boot.phase \in {"none", "wait"}
       IN /\ fresh => tokens < MaxTokens
          /\ tokens' = IF fresh THEN tokens + 1 ELSE tokens
          /\ boot' = IF fresh THEN [phase |-> "wait", token |-> tokens', deadline |-> c.delay]
                     ELSE IF ~c.enabled /\ boot.phase = "wait" THEN Phase("cancel")
                     ELSE boot
          /\ runner' = IF c.enabled /\ (fresh \/ same)
                       THEN [token |-> boot'.token, deadline |-> boot'.deadline] ELSE None
    /\ sched' = <<>>
    /\ rcs' = IF rcs = "scheduler" THEN "service" ELSE rcs
    /\ UNCHANGED <<startLocks, envVars, hot, userVars, link, stored, ctx, start, inst>>

SchedulerStops ==
    /\ rcs = "done" /\ sched = <<>> /\ Order /\ FlockFree
    /\ boot' = IF boot.phase = "wait" THEN Phase("cancel") ELSE boot
    /\ runner' = None
    /\ UNCHANGED <<startLocks, envVars, hot, conf, pending, saves, sched, tokens, rcs, link, stored,
                   ctx, start, inst>>

---------------------------------------------------------------------------
(* The environment *)

Tick == now < MaxNow /\ now' = now + 1
        /\ UNCHANGED <<startLocks, up, events, flips, hot, userVars, bootVars, stateVars, ctx, start, inst>>

Flip(l) ==
    /\ flips < MaxFlips /\ flips' = flips + 1
    /\ up' = IF l \in up THEN up \ {l} ELSE up \cup {l}
    /\ events' = Append(events, [to |-> IF l \in up THEN "down" ELSE "up", link |-> l])
    /\ UNCHANGED <<startLocks, now, hot, userVars, bootVars, stateVars, ctx, start, inst>>

\* The hotplug script looks at the settings without a lock and passes the
\* event on, or drops it.
Known(e) == IF e.to = "down" THEN DownMatches(e.link) ELSE UpMatches(e.link)
Passed(e) == IF Known(e) THEN <<[to |-> e.to, link |-> e.link, named |-> Automatic]>> ELSE <<>>

Hotplug ==
    /\ events # <<>> /\ hot = <<>>
    /\ hot' = Passed(Head(events))
    /\ events' = Tail(events)
    /\ UNCHANGED <<startLocks, up, now, flips, userVars, bootVars, stateVars, ctx, start, inst>>

\* uci commit of Save & Apply; the trigger reloads the service.
Save(c) ==
    /\ saves < MaxSaves /\ saves' = saves + 1
    /\ conf' = c /\ pending' = TRUE
    /\ UNCHANGED <<startLocks, envVars, hot, orders, bootVars, stateVars, ctx, start, inst>>

Operate ==
    \/ Nested \/ Expire \/ Reload \/ StopKill \/ StartPublishes
    \/ \E l \in Links : LinkDown(l) \/ LinkUp(l)
Boot == RcsStart \/ SchedulerLoads \/ SchedulerDecides

Next ==
    \/ Operate \/ Boot \/ Tick \/ Hotplug
    \/ UserStart \/ SchedulerStops \/ \E r \in BOOLEAN : Stop(r)
    \/ \E l \in Links : Flip(l)
    \/ \E c \in [enabled : BOOLEAN, selected : Choices, delay : Delays] : Save(c)

Spec == Init /\ [][Next]_vars

---------------------------------------------------------------------------
(* Properties *)

Idle == ctx = "none" /\ start = <<>>
Rest == Idle /\ ~pending /\ events = <<>> /\ hot = <<>> /\ rcs = "done"

\* A service that was stopped, switched off or is still in its boot wait does
\* not run: neither a link event nor a timer that was on its way brings it up,
\* and only the user ends a stop or a wait before its deadline.  (With a start that does not take procd_lock
\* a stop can fall between its decision and its publication.)
StopHolds ==
    [][/\ boot.phase = "cancel" => boot'.phase \in {"cancel", "manual"}
       /\ boot.phase = "wait" /\ boot'.phase = "done" => now >= boot.deadline
       /\ startLocks /\ Idle' /\ inst' # {} => boot'.phase \in {"manual", "done"}]_vars

\* When everything queued has been handled, an automatic service that may run
\* is bound to exactly the links that are up, however their changes, saves and
\* the boot wait were interleaved; a service of selected devices runs on them
\* when all of them are up.
FollowsLink ==
    startLocks /\ Rest /\ conf.enabled /\ boot.phase \in {"manual", "done"} =>
        IF Automatic THEN inst = up ELSE conf.selected \subseteq up => inst = conf.selected

\* A boot wait has the timer that will end it, until the timer ends it:
\* nothing leaves a service waiting for good.
WaitIsTimed ==
    boot.phase = "wait" =>
        \/ runner = [token |-> boot.token, deadline |-> boot.deadline]
        \/ ctx = "boot-expired"
====
