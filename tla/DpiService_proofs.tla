---- MODULE DpiService_proofs ----
(***************************************************************************)
(* When a DPI daemon runs: type correctness, that a wait has its timer and *)
(* that a stop holds, for any number of links, events, saves, orders and   *)
(* boot waits and any delays.  Its firewall: that what its rules do is     *)
(* never more than they mean, and all of it once they stand, for any       *)
(* configurations, packets, kills and commands that fail.                  *)
(***************************************************************************)
EXTENDS DpiService, DpiRules, WellFoundedInduction, TLAPS

Phases == {"none", "wait", "manual", "done", "cancel"}
EventType == [to : {"up", "down"}, link : Links]
BootType == [phase : Phases, token : 0..MaxTokens, deadline : Delays \cup {0}]

---------------------------------------------------------------------------
(* Types *)

LEMMA PhaseType == \A p \in Phases : Phase(p) \in BootType /\ Phase(p).phase = p
  BY DpiAssumption DEF Phase, BootType

LEMMA BootAfterType ==
    ASSUME TypeOK, NEW c \in Contexts
    PROVE  BootAfter(c) \in BootType
  <1>1. boot \in BootType /\ conf.delay \in Delays /\ conf.enabled \in BOOLEAN
    BY DEF TypeOK, BootType, Phases
  <1>2. [boot EXCEPT !.phase = "done"] \in BootType
    BY <1>1 DEF BootType, Phases
  <1>3. [phase |-> "done", token |-> 0, deadline |-> conf.delay] \in BootType
    BY <1>1, DpiAssumption DEF BootType, Phases
  <1>4. Phase("cancel") \in BootType /\ Phase("manual") \in BootType
    BY PhaseType DEF Phases
  <1> QED BY <1>1, <1>2, <1>3, <1>4 DEF BootAfter, Contexts

LEMMA BoundType == TypeOK => Bound \subseteq Links
  BY DpiAssumption DEF TypeOK, Bound

LEMMA OutcomeType == ASSUME TypeOK, NEW c PROVE Outcome(c) \subseteq Links
  BY BoundType DEF Outcome

LEMMA DecideTypes ==
    ASSUME TypeOK, NEW c \in Contexts, Decide(c)
    PROVE  boot' \in BootType /\ link' \in {"unknown", "up", "down"} /\ stored' \subseteq Links
  BY BootAfterType DEF Decide, TypeOK

LEMMA OperateTypes ==
    ASSUME TypeOK, Operate
    PROVE  TypeOK'
  <1> USE DEF TypeOK, envVars, userVars, bootVars, stateVars
  <1>1. CASE Nested
    BY <1>1, DecideTypes, OutcomeType DEF Nested, BootType, Phases
  <1>2. CASE Expire
    BY SMTT(60), <1>2, DpiAssumption DEF Expire, None, Waits, Contexts
  <1>3. CASE Reload
    BY ZenonT(60), <1>3 DEF Reload, Contexts
  <1>4. CASE StopKill
    BY <1>4 DEF StopKill, Contexts
  <1>5. CASE StartPublishes
    BY <1>5 DEF StartPublishes
  <1>6. ASSUME NEW l \in Links, LinkDown(l)
        PROVE  TypeOK'
    BY <1>6 DEF LinkDown, Contexts
  <1>7. ASSUME NEW l \in Links, LinkUp(l)
        PROVE  TypeOK'
    BY <1>7 DEF LinkUp, Contexts
  <1> QED BY <1>1, <1>2, <1>3, <1>4, <1>5, <1>6, <1>7 DEF Operate

LEMMA StartTypes ==
    ASSUME TypeOK, NEW c \in Contexts, StartDecides(c), rcs' \in {"scheduler", "service", "done"},
           orders' \in 0..MaxOrders
    PROVE  TypeOK'
  BY DecideTypes, OutcomeType DEF StartDecides, TypeOK, envVars, BootType, Phases

LEMMA OrderTypes == TypeOK /\ Order => orders' \in 0..MaxOrders
  BY DpiAssumption DEF TypeOK, Order

LEMMA DecidesTypes ==
    ASSUME TypeOK, SchedulerDecides
    PROVE  TypeOK'
  <1> DEFINE c == sched[1]
             same == boot.phase = "wait" /\ boot.deadline = c.delay
             fresh == c.enabled /\ ~same /\ boot.phase \in {"none", "wait"}
  <1>1. c \in [enabled : BOOLEAN, delay : Delays] /\ tokens \in 0..MaxTokens /\ boot \in BootType
    BY DEF SchedulerDecides, TypeOK, BootType, Phases
  <1>2. tokens' \in 0..MaxTokens
    BY <1>1, DpiAssumption DEF SchedulerDecides
  <1>3. boot' \in BootType
    <2>1. [phase |-> "wait", token |-> tokens', deadline |-> c.delay] \in BootType
      BY <1>1, <1>2 DEF BootType, Phases
    <2> QED BY <1>1, <2>1, PhaseType DEF SchedulerDecides, Phases
  <1>4. runner' \in Waits
    <2>1. [token |-> boot'.token, deadline |-> boot'.deadline] \in Waits /\ None \in Waits
      BY <1>3, DpiAssumption DEF BootType, Waits, None
    <2> QED BY <2>1 DEF SchedulerDecides
  <1> QED BY <1>2, <1>3, <1>4 DEF SchedulerDecides, TypeOK, envVars, userVars, BootType, Phases

LEMMA HeadAndTail ==
    ASSUME NEW S, NEW s \in Seq(S), s # <<>>
    PROVE  Head(s) \in S /\ Tail(s) \in Seq(S)
  OBVIOUS

LEMMA PassedType ==
    ASSUME NEW e \in EventType
    PROVE  Passed(e) \in {<<>>} \cup {<<h>> : h \in [to : {"up", "down"}, link : Links, named : BOOLEAN]}
  <1>1. [to |-> e.to, link |-> e.link, named |-> Automatic] \in [to : {"up", "down"}, link : Links, named : BOOLEAN]
    BY DEF Automatic, EventType
  <1> QED BY <1>1 DEF Passed

LEMMA OtherTypes ==
    ASSUME TypeOK, Next, ~Operate, ~SchedulerDecides
    PROVE  TypeOK'
  <1> USE DpiAssumption DEF TypeOK, envVars, userVars, bootVars, stateVars
  <1>1. CASE RcsStart
    BY <1>1, StartTypes DEF RcsStart, Contexts
  <1>2. CASE UserStart
    BY <1>2, StartTypes, OrderTypes DEF UserStart, Contexts
  <1>3. CASE SchedulerLoads
    <2>1. orders' \in 0..MaxOrders
      BY <1>3, OrderTypes DEF SchedulerLoads
    <2>2. [enabled |-> conf.enabled, delay |-> conf.delay] \in [enabled : BOOLEAN, delay : Delays]
      OBVIOUS
    <2> QED BY <1>3, <2>1, <2>2 DEF SchedulerLoads
  <1>4. CASE SchedulerStops
    <2>1. boot' \in BootType
      BY <1>4, PhaseType DEF SchedulerStops, BootType, Phases
    <2>2. runner' \in Waits
      BY <1>4 DEF SchedulerStops, None, Waits
    <2> QED BY <1>4, <2>1, <2>2, OrderTypes DEF SchedulerStops, BootType, Phases
  <1>5. ASSUME NEW r \in BOOLEAN, Stop(r)
        PROVE  TypeOK'
    <2>1. boot' \in BootType
      BY <1>5, PhaseType DEF Stop, Phases
    <2> QED BY <1>5, <2>1, OrderTypes DEF Stop, BootType, Phases
  <1>6. CASE Tick
    BY <1>6 DEF Tick
  <1>7. CASE Hotplug
    <2>1. Head(events) \in EventType /\ Tail(events) \in Seq(EventType)
      <3>1. events \in Seq(EventType) /\ events # <<>>
        BY <1>7 DEF Hotplug, EventType
      <3> QED BY <3>1, HeadAndTail
    <2>2. hot' \in {<<>>} \cup {<<h>> : h \in [to : {"up", "down"}, link : Links, named : BOOLEAN]}
      BY <1>7, <2>1, PassedType DEF Hotplug
    <2>3. events' \in Seq([to : {"up", "down"}, link : Links])
      BY <1>7, <2>1 DEF Hotplug, EventType
    <2> QED BY <1>7, <2>2, <2>3 DEF Hotplug
  <1>8. ASSUME NEW l \in Links, Flip(l)
        PROVE  TypeOK'
    <2>1. events' \in Seq([to : {"up", "down"}, link : Links])
      BY <1>8 DEF Flip
    <2> QED BY <1>8, <2>1 DEF Flip
  <1>9. ASSUME NEW c \in [enabled : BOOLEAN, selected : Choices, delay : Delays], Save(c)
        PROVE  TypeOK'
    BY <1>9 DEF Save
  <1> QED BY <1>1, <1>2, <1>3, <1>4, <1>5, <1>6, <1>7, <1>8, <1>9 DEF Next, Boot

LEMMA TypeStep == TypeOK /\ [Next]_vars => TypeOK'
  <1>1. TypeOK /\ UNCHANGED vars => TypeOK'
    BY DEF TypeOK, vars, envVars, userVars, bootVars, stateVars
  <1> QED BY <1>1, OperateTypes, DecidesTypes, OtherTypes

LEMMA InitTypes == Init => TypeOK
  <1> SUFFICES ASSUME Init
               PROVE  TypeOK
    OBVIOUS
  <1>1. boot \in BootType /\ runner \in Waits /\ events \in Seq([to : {"up", "down"}, link : Links])
    BY DpiAssumption DEF Init, BootType, Phases, Waits, None
  <1>2. /\ startLocks \in StartLocks /\ conf \in [enabled : BOOLEAN, selected : Choices, delay : Delays]
        /\ up \subseteq Links
    BY DEF Init
  <1>3. /\ pending \in BOOLEAN /\ saves \in 0..MaxSaves /\ orders \in 0..MaxOrders
        /\ flips \in 0..MaxFlips /\ now \in 0..MaxNow /\ tokens \in 0..MaxTokens
    <2>1. pending = FALSE /\ saves = 0 /\ orders = 0 /\ flips = 0 /\ now = 0 /\ tokens = 0
      BY DEF Init
    <2>2. saves \in 0..MaxSaves /\ orders \in 0..MaxOrders /\ flips \in 0..MaxFlips /\ now \in 0..MaxNow /\ tokens \in 0..MaxTokens
      BY <2>1, DpiAssumption
    <2> QED BY <2>1, <2>2
  <1>4. /\ hot = <<>> /\ sched = <<>> /\ start = <<>> /\ inst = {} /\ stored = {} /\ rcs = "scheduler"
        /\ link = "unknown" /\ ctx = "none"
    BY DEF Init
  <1> QED BY <1>1, <1>2, <1>3, <1>4 DEF TypeOK, BootType, Phases

\* The state files, the published wait and procd's instance always have the form that
\* the scripts rely on when they read them back.
THEOREM TypeCorrect == Spec => []TypeOK
  BY InitTypes, TypeStep, PTL DEF Spec

---------------------------------------------------------------------------
(* Waits *)

\* Wherever the context of a start leads, a wait goes on only in the contexts that leave
\* it alone.
LEMMA OnlyDeferredWaits ==
    ASSUME TypeOK, NEW c \in Contexts, BootAfter(c).phase = "wait"
    PROVE  boot.phase = "wait" /\ BootAfter(c) = boot /\ c # "boot-expired" /\ c # "manual"
  <1>1. Phase("cancel").phase # "wait" /\ Phase("manual").phase # "wait" /\ boot \in BootType
    BY DEF Phase, TypeOK, BootType, Phases
  <1>2. [boot EXCEPT !.phase = "done"].phase # "wait"
    BY <1>1 DEF BootType
  <1>3. conf.enabled \in BOOLEAN
    BY DEF TypeOK
  <1> QED BY <1>1, <1>2, <1>3 DEF BootAfter, Contexts

LEMMA TimedStep == TypeOK /\ WaitIsTimed /\ [Next]_vars => WaitIsTimed'
  <1> SUFFICES ASSUME TypeOK, WaitIsTimed, [Next]_vars, boot'.phase = "wait"
               PROVE  \/ runner' = [token |-> boot'.token, deadline |-> boot'.deadline]
                      \/ ctx' = "boot-expired"
    BY DEF WaitIsTimed
  <1> USE DEF envVars, userVars, bootVars, stateVars
  <1>0. boot.phase = "wait" => runner = [token |-> boot.token, deadline |-> boot.deadline] \/ ctx = "boot-expired"
    BY DEF WaitIsTimed
  <1>1. CASE Nested
    BY <1>0, <1>1, OnlyDeferredWaits DEF Nested, Decide
  <1>2. CASE Expire
    <2>1. boot = [phase |-> "wait", token |-> boot.token, deadline |-> boot.deadline] /\ ctx = "none"
      BY <1>2 DEF Expire, ProcdFree, TypeOK
    <2>2. Waiting(runner)
      BY <1>0, <1>2, <2>1 DEF Expire, Waiting
    <2> QED BY <1>2, <2>2 DEF Expire
  <1>3. CASE Reload \/ StopKill \/ StartPublishes \/ Tick \/ Hotplug
    BY <1>0, <1>3 DEF Reload, StopKill, StartPublishes, Tick, Hotplug, ProcdFree
  <1>4. ASSUME NEW l \in Links, LinkDown(l) \/ LinkUp(l) \/ Flip(l)
        PROVE  runner' = [token |-> boot'.token, deadline |-> boot'.deadline] \/ ctx' = "boot-expired"
    BY <1>0, <1>4 DEF LinkDown, LinkUp, Flip, ProcdFree
  <1>5. CASE RcsStart \/ UserStart
    BY <1>0, <1>5, OnlyDeferredWaits DEF RcsStart, UserStart, StartDecides, Decide, Contexts
  <1>6. CASE SchedulerDecides
    <2>1. ctx # "boot-expired" /\ sched[1].enabled \in BOOLEAN
      BY <1>6 DEF SchedulerDecides, FlockFree, TypeOK
    <2> QED BY <1>0, <1>6, <2>1 DEF SchedulerDecides, Phase
  <1>7. CASE SchedulerLoads
    BY <1>0, <1>7 DEF SchedulerLoads
  <1>8. CASE SchedulerStops
    BY <1>0, <1>8 DEF SchedulerStops, Phase
  <1>9. ASSUME NEW r \in BOOLEAN, Stop(r)
        PROVE  FALSE
    BY <1>9 DEF Stop, Phase
  <1>10. ASSUME NEW c \in [enabled : BOOLEAN, selected : Choices, delay : Delays], Save(c)
         PROVE  runner' = [token |-> boot'.token, deadline |-> boot'.deadline] \/ ctx' = "boot-expired"
    BY <1>0, <1>10 DEF Save
  <1>11. CASE UNCHANGED vars
    BY <1>0, <1>11 DEF vars
  <1> QED
    BY <1>1, <1>2, <1>3, <1>4, <1>5, <1>6, <1>7, <1>8, <1>9, <1>10, <1>11 DEF Next, Operate, Boot

\* liquid-formula-boot-delay, boot-delay-runner.sh: a service in its boot wait always has
\* the timer with its token and its deadline, or is being started by it, whatever saves,
\* orders, link events and schedulers come between.
THEOREM WaitsEnd == Spec => []WaitIsTimed
  <1>1. Init => WaitIsTimed
    BY DEF Init, WaitIsTimed
  <1> QED BY <1>1, InitTypes, TypeStep, TimedStep, PTL DEF Spec

---------------------------------------------------------------------------
(* Stops *)

On == boot.phase \in {"manual", "done"}

\* What runs, or is about to be published, was allowed; the timer has ended the wait
\* that it belongs to; procd_lock keeps a start from everything else under the lock.
Allowed ==
    /\ ctx = "boot-expired" => boot.phase = "wait" /\ now >= boot.deadline
    /\ startLocks =>
          /\ start # <<>> => ctx = "none" /\ (start[1] # {} => On)
          /\ inst # {} /\ ctx = "none" => On

Held ==
    /\ boot.phase = "cancel" => boot'.phase \in {"cancel", "manual"}
    /\ boot.phase = "wait" /\ boot'.phase = "done" => now >= boot.deadline
    /\ startLocks /\ Idle' /\ inst' # {} => boot'.phase \in {"manual", "done"}

LEMMA Numbers == TypeOK => now \in Nat /\ boot.deadline \in Nat /\ conf.delay \in Nat
  <1> SUFFICES ASSUME TypeOK
               PROVE  now \in Nat /\ boot.deadline \in Nat /\ conf.delay \in Nat
    OBVIOUS
  <1>1. boot \in BootType /\ now \in 0..MaxNow /\ conf.delay \in Delays
    BY DEF TypeOK, BootType, Phases
  <1>2. boot.deadline \in Delays \cup {0}
    BY <1>1 DEF BootType
  <1>3. (\A d \in Delays : d \in Nat) /\ MaxNow \in Nat
    BY DpiAssumption
  <1>4. now \in Nat
    BY <1>1, <1>3
  <1>5. boot.deadline \in Nat /\ conf.delay \in Nat
    BY <1>1, <1>2, <1>3
  <1> QED BY <1>4, <1>5

LEMMA RunsWhenOn ==
    ASSUME TypeOK, NEW c \in Contexts, Runs(c)
    PROVE  BootAfter(c).phase \in {"manual", "done"}
  <1>1. boot \in BootType /\ conf.enabled
    BY DEF Runs, Contexts, TypeOK, BootType, Phases
  <1>2. [boot EXCEPT !.phase = "done"].phase = "done" /\ Phase("manual").phase = "manual"
    BY <1>1 DEF BootType, Phase
  <1> QED BY <1>1, <1>2 DEF Runs, BootAfter, Contexts, Defer

LEMMA StaysOn ==
    ASSUME TypeOK, NEW c \in Contexts, On, conf.enabled
    PROVE  BootAfter(c).phase \in {"manual", "done"}
  <1>1. boot \in BootType
    BY DEF TypeOK, BootType, Phases
  <1>2. [boot EXCEPT !.phase = "done"].phase = "done" /\ Phase("manual").phase = "manual"
    BY <1>1 DEF BootType, Phase
  <1> QED BY <1>2 DEF BootAfter, Contexts, Defer, On

LEMMA BootHolds ==
    ASSUME TypeOK, NEW c \in Contexts, c = "boot-expired" => boot.phase = "wait" /\ now >= boot.deadline
    PROVE  /\ boot.phase = "cancel" => BootAfter(c).phase \in {"cancel", "manual"}
           /\ boot.phase = "wait" /\ BootAfter(c).phase = "done" => now >= boot.deadline
  <1>1. Phase("cancel").phase = "cancel" /\ Phase("manual").phase = "manual" /\ conf.enabled \in BOOLEAN
    BY DEF Phase, TypeOK
  <1>2. now \in Nat /\ boot.deadline \in Nat
    BY Numbers
  <1>3. CASE c \in {"manual", "ifdown-definition"} \/ ~conf.enabled
    BY <1>1, <1>3 DEF BootAfter, Contexts
  <1>4. CASE c = "boot-expired"
    BY <1>4 DEF BootAfter
  <1>5. CASE c \in {"boot", "ifup"} /\ conf.enabled
    <2>1. CASE boot.phase = "cancel"
      BY <1>5, <2>1 DEF BootAfter, Defer
    <2>2. CASE boot.phase = "wait"
      BY <1>2, <1>5, <2>2 DEF BootAfter, Defer
    <2> QED BY <2>1, <2>2
  <1> QED BY <1>1, <1>3, <1>4, <1>5 DEF Contexts

LEMMA StartAllowed ==
    ASSUME TypeOK, Allowed, NEW c \in {"manual", "boot"}, StartDecides(c)
    PROVE  Held /\ Allowed'
  <1>1. boot' = BootAfter(c) /\ start' = <<Outcome(c)>> /\ c \in Contexts
    BY DEF StartDecides, Decide, Contexts
  <1>2. /\ boot.phase = "cancel" => boot'.phase \in {"cancel", "manual"}
        /\ boot.phase = "wait" /\ boot'.phase = "done" => now >= boot.deadline
    BY <1>1, BootHolds
  <1>3. UNCHANGED <<ctx, now, startLocks>> /\ ctx # "boot-expired"
    BY DEF StartDecides, FlockFree, envVars
  <1>4. Outcome(c) # {} => On'
    BY <1>1, RunsWhenOn DEF Outcome, On
  <1>5. startLocks /\ ctx = "none" /\ inst' # {} => On'
    BY <1>1, StaysOn DEF StartDecides, Allowed, On
  <1>6. ~Idle'
    BY <1>1 DEF Idle
  <1>7. startLocks => ctx = "none"
    BY DEF StartDecides
  <1> QED BY <1>1, <1>2, <1>3, <1>4, <1>5, <1>6, <1>7 DEF Held, Allowed

LEMMA NestedAllowed ==
    ASSUME TypeOK, Allowed, Nested
    PROVE  Held /\ Allowed'
  <1>1. boot' = BootAfter(ctx) /\ inst' = Outcome(ctx) /\ ctx \in Contexts /\ ctx' = "none" /\ UNCHANGED <<start, startLocks>>
    BY DEF Nested, Decide
  <1>2. /\ boot.phase = "cancel" => boot'.phase \in {"cancel", "manual"}
        /\ boot.phase = "wait" /\ boot'.phase = "done" => now >= boot.deadline
    BY <1>1, BootHolds DEF Allowed
  <1>3. inst' # {} => On'
    BY <1>1, RunsWhenOn DEF Outcome, On
  <1>4. startLocks => start = <<>>
    BY <1>1 DEF Allowed, Contexts
  <1> QED BY <1>1, <1>2, <1>3, <1>4 DEF Held, Allowed, On

LEMMA StepAllowed == TypeOK /\ Allowed /\ [Next]_vars => Held /\ Allowed'
  <1> SUFFICES ASSUME TypeOK, Allowed, [Next]_vars
               PROVE  Held /\ Allowed'
    OBVIOUS
  <1> USE DEF envVars, userVars, bootVars, stateVars
  <1>0. now \in Nat /\ boot.deadline \in Nat
    BY Numbers
  <1>1. CASE Expire
    BY <1>0, <1>1, DpiAssumption DEF Expire, ProcdFree, Waiting, Held, Allowed, On, Idle, TypeOK, Waits
  <1>2. CASE Reload \/ StopKill
    BY <1>2 DEF Reload, StopKill, ProcdFree, Held, Allowed, On, Idle
  <1>3. CASE StartPublishes
    BY <1>3 DEF StartPublishes, Held, Allowed, On, Idle
  <1>4. ASSUME NEW l \in Links, LinkDown(l) \/ LinkUp(l)
        PROVE  Held /\ Allowed'
    BY <1>4 DEF LinkDown, LinkUp, ProcdFree, Held, Allowed, On, Idle
  <1>5. CASE RcsStart \/ UserStart
    BY <1>5, StartAllowed DEF RcsStart, UserStart
  <1>6. CASE SchedulerDecides
    <2>1. ctx # "boot-expired" /\ UNCHANGED <<ctx, start, inst, now, startLocks>>
      BY <1>6 DEF SchedulerDecides, FlockFree
    <2>2. /\ boot.phase = "cancel" => boot' = boot
          /\ boot'.phase = "done" => boot.phase = "done"
          /\ On => boot' = boot
      BY <1>6 DEF SchedulerDecides, Phase, On
    <2> QED BY <2>1, <2>2 DEF Held, Allowed, On, Idle
  <1>7. CASE SchedulerStops
    <2>1. ctx # "boot-expired" /\ UNCHANGED <<ctx, start, inst, now, startLocks>>
      BY <1>7 DEF SchedulerStops, FlockFree
    <2>2. CASE boot.phase = "wait"
      <3>1. boot'.phase = "cancel"
        BY <1>7, <2>2 DEF SchedulerStops, Phase
      <3> QED BY <2>1, <2>2, <3>1 DEF Held, Allowed, On, Idle
    <2>3. CASE boot.phase # "wait"
      <3>1. boot' = boot
        BY <1>7, <2>3 DEF SchedulerStops
      <3> QED BY <2>1, <2>3, <3>1 DEF Held, Allowed, On, Idle
    <2> QED BY <2>2, <2>3
  <1>8. ASSUME NEW r \in BOOLEAN, Stop(r)
        PROVE  Held /\ Allowed'
    <2>1. boot'.phase = "cancel" /\ ctx' \in {"kill", "kill-restart"}
      BY <1>8 DEF Stop, Phase
    <2> QED BY <1>8, <2>1 DEF Stop, ProcdFree, Held, Allowed, On, Idle
  <1>9. CASE Tick
    BY <1>0, <1>9 DEF Tick, Held, Allowed, On, Idle
  <1>10. CASE SchedulerLoads \/ Hotplug \/ \E l \in Links : Flip(l)
    <2>1. UNCHANGED <<boot, ctx, start, inst, now, startLocks>>
      BY <1>10 DEF SchedulerLoads, Hotplug, Flip
    <2> QED BY <2>1 DEF Held, Allowed, On, Idle
  <1>11. CASE \E c \in [enabled : BOOLEAN, selected : Choices, delay : Delays] : Save(c)
    BY <1>11 DEF Save, Held, Allowed, On, Idle
  <1>12. CASE UNCHANGED vars
    BY <1>12 DEF vars, Held, Allowed, On, Idle
  <1> QED
    BY <1>1, <1>2, <1>3, <1>4, <1>5, <1>6, <1>7, <1>8, <1>9, <1>10, <1>11, <1>12, NestedAllowed
       DEF Next, Operate, Boot

\* fakehttp and fakesip, their boot delay and hotplug script: an explicit stop is undone
\* only by the user's own start or a save, a boot wait ends by its deadline or the user,
\* and a service that is stopped or waiting does not run, for any number of links, events,
\* saves, orders and waits in any order.
THEOREM StopsHold == Spec => StopHolds
  <1>1. Init => Allowed
    BY DEF Init, Allowed
  <1>2. Held => [/\ boot.phase = "cancel" => boot'.phase \in {"cancel", "manual"}
                 /\ boot.phase = "wait" /\ boot'.phase = "done" => now >= boot.deadline
                 /\ startLocks /\ Idle' /\ inst' # {} => boot'.phase \in {"manual", "done"}]_vars
    BY DEF Held
  <1> QED BY <1>1, <1>2, InitTypes, TypeStep, StepAllowed, PTL DEF Spec, StopHolds

---------------------------------------------------------------------------
(* Links *)

\* The event is no longer what the link is like.
Stale(e) == (e.to = "up") # (e.link \in up)

\* netifd's queue: an event that is no longer true is followed by its opposite.
Answered ==
    /\ hot # <<>> /\ Stale(hot[1]) =>
          \E j \in DOMAIN events : events[j].to # hot[1].to /\ events[j].link = hot[1].link
    /\ \A i \in DOMAIN events : Stale(events[i]) =>
          \E j \in DOMAIN events :
             j > i /\ events[j].to # events[i].to /\ events[j].link = events[i].link

\* An event of the link is still to be handled and will be matched.
Comes(to, l) ==
    \/ Event(to, l) /\ Names
    \/ \E i \in DOMAIN events : events[i].to = to /\ events[i].link = l

\* A service bound to x is as the links say, or an event is on its way for what differs.
Recalled(x) ==
    IF Automatic
    THEN /\ x \subseteq stored
         /\ \A l \in up \ x : Comes("up", l)
         /\ \A l \in x \ up : Comes("down", l)
    ELSE conf.selected \subseteq up /\ x # conf.selected => \E l \in conf.selected : Comes("up", l)

Newest == IF start = <<>> THEN inst ELSE start[1]

\* What follows the links, when no reload is on its way that decides everything anew.  A
\* link recorded as down keeps boot_expired from starting: so it must be about to be
\* corrected.
Tracked ==
    startLocks /\ ~pending /\ conf.enabled =>
        /\ ctx = "none" /\ On => Recalled(Newest)
        /\ ctx # "manual" /\ link = "down" => Recalled({})

Placed ==
    startLocks =>
        /\ ctx # "none" => start = <<>>
        /\ ctx = "kill" => boot.phase = "cancel"
        /\ ctx = "ifdown-definition" => link = "down"

LEMMA SameLocks == [Next]_vars => startLocks' = startLocks
  <1>1. Operate => startLocks' = startLocks
    BY DEF Operate, Nested, Expire, Reload, StopKill, StartPublishes, LinkDown, LinkUp
  <1>2. Boot \/ UserStart \/ SchedulerStops => startLocks' = startLocks
    BY DEF Boot, RcsStart, UserStart, StartDecides, SchedulerLoads, SchedulerDecides, SchedulerStops
  <1> QED BY <1>1, <1>2 DEF Next, vars, Stop, Tick, Hotplug, Flip, Save

LEMMA PlacedStep == TypeOK /\ Placed /\ [Next]_vars => Placed'
  <1> SUFFICES ASSUME TypeOK, Placed, [Next]_vars, startLocks
               PROVE  /\ ctx' # "none" => start' = <<>>
                      /\ ctx' = "kill" => boot'.phase = "cancel"
                      /\ ctx' = "ifdown-definition" => link' = "down"
    BY SameLocks DEF Placed
  <1> USE DEF envVars, userVars, bootVars, stateVars
  <1>1. CASE Nested
    BY <1>1 DEF Nested, Placed, Contexts
  <1>2. CASE Expire \/ Reload \/ StopKill
    BY <1>2 DEF Expire, Reload, StopKill, ProcdFree, Placed
  <1>3. CASE StartPublishes
    BY <1>3 DEF StartPublishes, Placed
  <1>4. ASSUME NEW l \in Links, LinkDown(l) \/ LinkUp(l)
        PROVE  /\ ctx' # "none" => start' = <<>>
               /\ ctx' = "kill" => boot'.phase = "cancel"
               /\ ctx' = "ifdown-definition" => link' = "down"
    BY <1>4 DEF LinkDown, LinkUp, ProcdFree
  <1>5. CASE RcsStart \/ UserStart
    BY <1>5 DEF RcsStart, UserStart, StartDecides
  <1>6. CASE SchedulerDecides \/ SchedulerStops
    <2>1. UNCHANGED <<ctx, start, link>>
      BY <1>6 DEF SchedulerDecides, SchedulerStops
    <2>2. boot.phase = "cancel" => boot' = boot
      BY <1>6 DEF SchedulerDecides, SchedulerStops
    <2> QED BY <2>1, <2>2 DEF Placed
  <1>7. ASSUME NEW r \in BOOLEAN, Stop(r)
        PROVE  /\ ctx' # "none" => start' = <<>>
               /\ ctx' = "kill" => boot'.phase = "cancel"
               /\ ctx' = "ifdown-definition" => link' = "down"
    BY <1>7 DEF Stop, ProcdFree, Phase
  <1>8. CASE SchedulerLoads \/ Tick \/ Hotplug \/ UNCHANGED vars
             \/ (\E l \in Links : Flip(l))
             \/ \E c \in [enabled : BOOLEAN, selected : Choices, delay : Delays] : Save(c)
    <2>1. UNCHANGED <<ctx, start, link, boot>>
      BY <1>8 DEF SchedulerLoads, Tick, Hotplug, Flip, Save, vars
    <2> QED BY <2>1 DEF Placed
  <1> QED BY <1>1, <1>2, <1>3, <1>4, <1>5, <1>6, <1>7, <1>8 DEF Next, Operate, Boot

LEMMA EventTypes ==
    ASSUME TypeOK
    PROVE  /\ events \in Seq(EventType)
           /\ hot # <<>> => hot[1] \in [to : {"up", "down"}, link : Links, named : BOOLEAN]
  BY DEF TypeOK, EventType

LEMMA FlipAnswered ==
    ASSUME TypeOK, Answered, NEW l \in Links, Flip(l)
    PROVE  Answered'
  <1> DEFINE e == [to |-> IF l \in up THEN "down" ELSE "up", link |-> l]
             n == Len(events) + 1
  <1>1. /\ events \in Seq(EventType) /\ events' = Append(events, e) /\ hot' = hot
        /\ up' = IF l \in up THEN up \ {l} ELSE up \cup {l}
    BY EventTypes DEF Flip
  <1>2. /\ DOMAIN events' = 1..n /\ DOMAIN events = 1..Len(events) /\ events'[n] = e
        /\ \A i \in DOMAIN events : events'[i] = events[i] /\ events[i] \in EventType /\ i < n /\ i \in DOMAIN events'
    BY <1>1
  <1>3. /\ e.link = l /\ e.to \in {"up", "down"} /\ (e.to = "up" <=> l \in up')
    BY <1>1
  <1>5. ASSUME hot' # <<>>, Stale(hot[1])'
        PROVE  \E j \in DOMAIN events' : events'[j].to # hot[1].to /\ events'[j].link = hot[1].link
    <2>1. hot[1].to \in {"up", "down"}
      BY <1>1, <1>5, EventTypes
    <2>2. CASE Stale(hot[1])
      BY <1>1, <1>2, <1>5, <2>2 DEF Answered
    <2>3. CASE e.to # hot[1].to /\ e.link = hot[1].link
      BY <1>2, <2>3
    <2>4. Stale(hot[1]) \/ (e.to # hot[1].to /\ e.link = hot[1].link)
      BY <1>1, <1>3, <1>5, <2>1 DEF Stale
    <2> QED BY <2>2, <2>3, <2>4
  <1>6. ASSUME NEW i \in DOMAIN events', Stale(events[i])'
        PROVE  \E j \in DOMAIN events' :
                  j > i /\ events'[j].to # events'[i].to /\ events'[j].link = events'[i].link
    <2>1. CASE i = n
      BY <1>2, <1>3, <1>6, <2>1 DEF Stale
    <2>2. CASE i # n
      <3>1. i \in DOMAIN events /\ events'[i] = events[i] /\ events[i].to \in {"up", "down"}
        BY <1>1, <1>2, <2>2 DEF EventType
      <3>2. Stale(events[i]) \/ (e.to # events[i].to /\ e.link = events[i].link)
        BY <1>1, <1>3, <1>6, <3>1 DEF Stale
      <3>3. CASE Stale(events[i])
        BY <1>2, <3>1, <3>3 DEF Answered
      <3>4. CASE e.to # events[i].to /\ e.link = events[i].link
        BY <1>2, <3>1, <3>4
      <3> QED BY <3>2, <3>3, <3>4
    <2> QED BY <2>1, <2>2
  <1> QED BY <1>1, <1>5, <1>6 DEF Answered

LEMMA HotplugAnswered ==
    ASSUME TypeOK, Answered, Hotplug
    PROVE  Answered'
  <1>1. /\ events \in Seq(EventType) /\ events # <<>> /\ events' = Tail(events)
        /\ hot' = Passed(events[1]) /\ up' = up
    BY EventTypes DEF Hotplug
  <1>2. /\ DOMAIN events' = 1..Len(events) - 1 /\ DOMAIN events = 1..Len(events)
        /\ \A i \in DOMAIN events' : events'[i] = events[i + 1] /\ i + 1 \in DOMAIN events
        /\ \A i \in DOMAIN events : i # 1 => i - 1 \in DOMAIN events' /\ events'[i - 1] = events[i]
        /\ 1 \in DOMAIN events
    BY <1>1
  <1>3. hot' # <<>> => hot'[1].to = events[1].to /\ hot'[1].link = events[1].link
    BY <1>1 DEF Passed
  <1>4. ASSUME hot' # <<>>, Stale(hot[1])'
        PROVE  \E j \in DOMAIN events' : events'[j].to # hot'[1].to /\ events'[j].link = hot'[1].link
    <2>1. Stale(events[1])
      BY <1>1, <1>3, <1>4 DEF Stale
    <2>2. PICK j \in DOMAIN events : j > 1 /\ events[j].to # events[1].to /\ events[j].link = events[1].link
      BY <1>2, <2>1 DEF Answered
    <2> QED BY <1>2, <1>3, <1>4, <2>2
  <1>5. ASSUME NEW i \in DOMAIN events', Stale(events[i])'
        PROVE  \E j \in DOMAIN events' :
                  j > i /\ events'[j].to # events'[i].to /\ events'[j].link = events'[i].link
    <2>1. Stale(events[i + 1]) /\ i + 1 \in DOMAIN events /\ events'[i] = events[i + 1]
      BY <1>1, <1>2, <1>5 DEF Stale
    <2>2. PICK j \in DOMAIN events : j > i + 1 /\ events[j].to # events[i + 1].to /\ events[j].link = events[i + 1].link
      BY <2>1 DEF Answered
    <2>3. j - 1 \in DOMAIN events' /\ events'[j - 1] = events[j] /\ j - 1 > i
      BY <1>2, <2>2
    <2> QED BY <2>1, <2>2, <2>3
  <1> QED BY <1>4, <1>5 DEF Answered

LEMMA AnsweredStep == TypeOK /\ Answered /\ [Next]_vars => Answered'
  <1> SUFFICES ASSUME TypeOK, Answered, [Next]_vars
               PROVE  Answered'
    OBVIOUS
  <1> USE DEF envVars, userVars, bootVars, stateVars
  <1>1. ASSUME NEW l \in Links, LinkDown(l) \/ LinkUp(l)
        PROVE  Answered'
    BY <1>1 DEF LinkDown, LinkUp, Answered, Stale
  <1>2. ASSUME UNCHANGED <<hot, events, up>>
        PROVE  Answered'
    BY <1>2 DEF Answered, Stale
  <1>3. CASE Nested \/ Expire \/ Reload \/ StopKill \/ StartPublishes
    BY <1>2, <1>3 DEF Nested, Expire, Reload, StopKill, StartPublishes
  <1>4. CASE RcsStart \/ UserStart \/ SchedulerLoads \/ SchedulerDecides \/ SchedulerStops
    BY <1>2, <1>4 DEF RcsStart, UserStart, StartDecides, SchedulerLoads, SchedulerDecides, SchedulerStops
  <1>5. CASE Tick \/ UNCHANGED vars \/ (\E r \in BOOLEAN : Stop(r))
             \/ \E c \in [enabled : BOOLEAN, selected : Choices, delay : Delays] : Save(c)
    BY <1>2, <1>5 DEF Tick, vars, Stop, Save
  <1> QED BY <1>1, <1>3, <1>4, <1>5, FlipAnswered, HotplugAnswered DEF Next, Operate, Boot

LEMMA FlipRecalled ==
    ASSUME TypeOK, NEW x, Recalled(x), NEW l \in Links, Flip(l)
    PROVE  Recalled(x)'
  <1> DEFINE e == [to |-> IF l \in up THEN "down" ELSE "up", link |-> l]
             n == Len(events) + 1
  <1>1. /\ events \in Seq(EventType) /\ events' = Append(events, e) /\ UNCHANGED <<hot, conf, stored>>
        /\ up' = IF l \in up THEN up \ {l} ELSE up \cup {l}
    BY EventTypes DEF Flip, userVars, stateVars
  <1>2. /\ n \in DOMAIN events' /\ events'[n] = e
        /\ \A i \in DOMAIN events : i \in DOMAIN events' /\ events'[i] = events[i]
    BY <1>1
  <1>3. ASSUME NEW to, NEW k, Comes(to, k)
        PROVE  Comes(to, k)'
    BY <1>1, <1>2, <1>3 DEF Comes, Event, Names, Automatic
  <1>4. IF l \in up THEN Comes("down", l)' ELSE Comes("up", l)'
    BY <1>2 DEF Comes
  <1>5. Automatic' = Automatic
    BY <1>1 DEF Automatic
  <1>6. CASE Automatic
    BY <1>1, <1>3, <1>4, <1>5, <1>6 DEF Recalled
  <1>7. CASE ~Automatic
    <2> SUFFICES ASSUME conf.selected \subseteq up', x # conf.selected
                 PROVE  \E k \in conf.selected : Comes("up", k)'
      BY <1>1, <1>5, <1>7 DEF Recalled
    <2>1. CASE l \in conf.selected
      BY <1>1, <1>4, <2>1
    <2>2. CASE l \notin conf.selected
      <3>1. conf.selected \subseteq up
        BY <1>1, <2>2
      <3> QED BY <1>3, <1>7, <3>1 DEF Recalled
    <2> QED BY <2>1, <2>2
  <1> QED BY <1>6, <1>7

LEMMA HotplugRecalled ==
    ASSUME TypeOK, conf.enabled, NEW x, Recalled(x), Hotplug
    PROVE  Recalled(x)'
  <1>1. /\ events \in Seq(EventType) /\ events # <<>> /\ events' = Tail(events)
        /\ hot = <<>> /\ hot' = Passed(events[1]) /\ UNCHANGED <<up, conf, stored>>
    BY EventTypes DEF Hotplug, userVars, stateVars
  <1>2. \A i \in DOMAIN events : i # 1 => i - 1 \in DOMAIN events' /\ events'[i - 1] = events[i]
    BY <1>1
  <1>3. Automatic' = Automatic
    BY <1>1 DEF Automatic
  <1>4. ASSUME NEW to, NEW k, Comes(to, k), events[1].to = to /\ events[1].link = k => Known(events[1])
        PROVE  Comes(to, k)'
    <2>1. PICK i \in DOMAIN events : events[i].to = to /\ events[i].link = k
      BY <1>1, <1>4 DEF Comes, Event
    <2>2. CASE i = 1
      <3>1. hot' = <<[to |-> to, link |-> k, named |-> Automatic]>>
        BY <1>1, <1>4, <2>1, <2>2 DEF Passed
      <3> QED BY <1>3, <3>1 DEF Comes, Event, Names
    <2>3. CASE i # 1
      BY <1>2, <2>1, <2>3 DEF Comes
    <2> QED BY <2>2, <2>3
  <1>5. CASE Automatic
    <2>1. ASSUME NEW k \in up \ x PROVE Comes("up", k)'
      BY <1>4, <1>5, <2>1 DEF Recalled, Known, UpMatches
    <2>2. ASSUME NEW k \in x \ up PROVE Comes("down", k)'
      BY <1>4, <1>5, <2>2 DEF Recalled, Known, DownMatches
    <2> QED BY <1>1, <1>3, <1>5, <2>1, <2>2 DEF Recalled
  <1>6. CASE ~Automatic
    <2> SUFFICES ASSUME conf.selected \subseteq up, x # conf.selected
                 PROVE  \E k \in conf.selected : Comes("up", k)'
      BY <1>1, <1>3, <1>6 DEF Recalled
    <2>1. PICK k \in conf.selected : Comes("up", k)
      BY <1>6 DEF Recalled
    <2>2. events[1].to = "up" /\ events[1].link = k => Known(events[1])
      BY <1>6 DEF Known, UpMatches, Exists
    <2> QED BY <1>4, <2>1, <2>2
  <1> QED BY <1>5, <1>6

\* An event that is not matched is none that anything waits for.
LEMMA Dropped ==
    ASSUME TypeOK, conf.enabled, NEW x, Recalled(x), NEW l \in Links,
           \/ Event("down", l) /\ ~(Names /\ DownMatches(l))
           \/ Event("up", l) /\ ~(Names /\ UpMatches(l)),
           hot' = <<>>, UNCHANGED <<up, events, conf, stored>>
    PROVE  Recalled(x)'
  <1>1. Automatic' = Automatic
    BY DEF Automatic
  <1>2. ASSUME NEW to, NEW k, Comes(to, k), ~(Event(to, k) /\ Names)
        PROVE  Comes(to, k)'
    BY <1>2 DEF Comes
  <1>3. CASE Automatic
    <2>1. ASSUME NEW k \in up \ x PROVE ~(Event("up", k) /\ Names)
      BY <1>3 DEF Event, UpMatches
    <2>2. ASSUME NEW k \in x \ up PROVE ~(Event("down", k) /\ Names)
      BY <1>3 DEF Event, DownMatches, Recalled
    <2> QED BY <1>1, <1>2, <1>3, <2>1, <2>2 DEF Recalled
  <1>4. CASE ~Automatic
    <2> SUFFICES ASSUME conf.selected \subseteq up, x # conf.selected
                 PROVE  \E k \in conf.selected : Comes("up", k)'
      BY <1>1, <1>4 DEF Recalled
    <2>1. PICK k \in conf.selected : Comes("up", k)
      BY <1>4 DEF Recalled
    <2>2. ~(Event("up", k) /\ Names)
      BY <1>4 DEF Event, Names, UpMatches, Exists
    <2> QED BY <1>2, <2>1, <2>2
  <1> QED BY <1>3, <1>4

LEMMA Unrecalled ==
    ASSUME NEW x, Recalled(x), UNCHANGED <<hot, events, up, conf, stored>>
    PROVE  Recalled(x)'
  BY DEF Recalled, Comes, Event, Names, Automatic

\* Whatever a start decides is as the links say, unless an event is on its way.
LEMMA Decided ==
    ASSUME TypeOK, NEW c \in Contexts, Decide(c), conf.enabled,
           c # "manual" /\ link = "down" => Recalled({}),
           c = "ifdown-definition" => link = "down",
           UNCHANGED <<hot, events, up, conf>>
    PROVE  /\ On' => \A x : x = Outcome(c) => Recalled(x)'
           /\ link' = "down" => Recalled({})'
  <1>1. Automatic' = Automatic /\ boot' = BootAfter(c)
    BY DEF Automatic, Decide
  <1>2. CASE Outcome(c) # {}
    <2>1. Outcome(c) = Bound /\ link' = "up" /\ stored' = IF Automatic THEN up ELSE {}
      BY <1>2 DEF Outcome, Decide
    <2>2. Automatic => Bound = up
      BY DEF Bound
    <2>3. ~Automatic => Bound = conf.selected
      BY <1>2, <2>1 DEF Bound
    <2> QED BY <1>1, <2>1, <2>2, <2>3 DEF Recalled
  <1>3. CASE Outcome(c) = {}
    <2>1. UNCHANGED <<link, stored>>
      BY <1>3 DEF Decide
    <2>2. CASE Runs(c)
      <3>1. Bound = {}
        BY <1>3, <2>2 DEF Outcome
      <3>2. IF Automatic THEN up = {} ELSE ~(conf.selected \subseteq up)
        BY <3>1 DEF Bound, Automatic, Exists
      <3>3. Recalled({})'
        BY <1>1, <3>2 DEF Recalled
      <3> QED BY <1>3, <3>3
    <2>3. CASE ~Runs(c) /\ link = "down" /\ c # "manual"
      BY <1>3, <2>1, <2>3, Unrecalled
    <2>4. CASE ~Runs(c) /\ c \in {"boot", "ifup"} /\ link # "down"
      <3>1. Defer /\ boot' = boot
        BY <1>1, <2>4 DEF Runs, BootAfter
      <3> QED BY <2>1, <2>4, <3>1 DEF Defer, On
    <2> QED BY <2>2, <2>3, <2>4 DEF Runs, Contexts
  <1> QED BY <1>2, <1>3

LEMMA LinkDownTracked ==
    ASSUME TypeOK, Answered, Tracked, NEW l \in Links, LinkDown(l)
    PROVE  Tracked'
  <1> SUFFICES ASSUME startLocks, ~pending, conf.enabled
               PROVE  /\ ctx' = "none" /\ On' => Recalled(Newest)'
                      /\ ctx' # "manual" /\ link' = "down" => Recalled({})'
    BY DEF Tracked, LinkDown, userVars
  <1>1. /\ ctx = "none" /\ start = <<>> /\ Event("down", l) /\ hot' = <<>>
        /\ UNCHANGED <<up, events, conf, boot, start>>
    BY DEF LinkDown, ProcdFree, envVars, userVars
  <1>2. /\ On => Recalled(inst)
        /\ link = "down" => Recalled({})
    BY <1>1 DEF Tracked, Newest
  <1>3. CASE ~(Names /\ DownMatches(l))
    <2>1. UNCHANGED <<link, stored, ctx, inst>>
      BY <1>3 DEF LinkDown
    <2>2. \A x : Recalled(x) => Recalled(x)'
      BY <1>1, <1>3, <2>1, Dropped
    <2>3. Newest' = inst /\ On' = On
      BY <1>1, <2>1 DEF Newest, On
    <2>4. Recalled(inst) => Recalled(Newest)'
      BY <2>1, <2>2, <2>3
    <2> QED BY <1>2, <2>1, <2>2, <2>3, <2>4
  <1>4. CASE Names /\ DownMatches(l)
    <2>1. CASE Automatic /\ up # {}
      BY <1>4, <2>1 DEF LinkDown
    <2>2. CASE Automatic /\ up = {}
      <3>1. ctx' = "ifdown-definition" /\ Automatic' /\ up' = {}
        BY <1>1, <1>4, <2>2 DEF LinkDown, Automatic
      <3> QED BY <3>1 DEF Recalled
    <2>3. CASE ~Automatic
      <3>1. ctx' = "ifdown-definition" /\ ~Automatic' /\ l \in conf.selected
        BY <1>1, <1>4, <2>3 DEF LinkDown, Automatic, DownMatches
      <3>2. ASSUME l \in up PROVE Comes("up", l)'
        <4>1. Stale(hot[1]) /\ hot # <<>> /\ hot[1].to = "down" /\ hot[1].link = l
          BY <1>1, <3>2 DEF Event, Stale
        <4>2. PICK j \in DOMAIN events : events[j].to # "down" /\ events[j].link = l
          BY <4>1 DEF Answered
        <4>3. events[j] \in EventType
          BY <4>2, EventTypes
        <4>4. events[j].to = "up"
          BY <4>2, <4>3 DEF EventType
        <4> QED BY <1>1, <4>2, <4>4 DEF Comes
      <3> QED BY <1>1, <3>1, <3>2 DEF Recalled
    <2> QED BY <2>1, <2>2, <2>3
  <1> QED BY <1>3, <1>4

LEMMA LinkUpTracked ==
    ASSUME TypeOK, Tracked, NEW l \in Links, LinkUp(l)
    PROVE  Tracked'
  <1> SUFFICES ASSUME startLocks, ~pending, conf.enabled
               PROVE  /\ ctx' = "none" /\ On' => Recalled(Newest)'
                      /\ ctx' # "manual" /\ link' = "down" => Recalled({})'
    BY DEF Tracked, LinkUp, userVars
  <1>1. /\ ctx = "none" /\ start = <<>> /\ Event("up", l) /\ hot' = <<>>
        /\ UNCHANGED <<up, events, conf, boot, start, stored>>
    BY DEF LinkUp, ProcdFree, envVars, userVars
  <1>2. /\ On => Recalled(inst)
        /\ link = "down" => Recalled({})
    BY <1>1 DEF Tracked, Newest
  <1>3. CASE ~(Names /\ UpMatches(l))
    <2>1. UNCHANGED <<link, ctx, inst>>
      BY <1>3 DEF LinkUp
    <2>2. \A x : Recalled(x) => Recalled(x)'
      BY <1>1, <1>3, <2>1, Dropped
    <2>3. Newest' = inst /\ On' = On
      BY <1>1, <2>1 DEF Newest, On
    <2>4. Recalled(inst) => Recalled(Newest)'
      BY <2>1, <2>2, <2>3
    <2> QED BY <1>2, <2>1, <2>2, <2>3, <2>4
  <1>4. CASE Names /\ UpMatches(l)
    BY <1>4 DEF LinkUp
  <1> QED BY <1>3, <1>4

LEMMA NestedTracked ==
    ASSUME TypeOK, Placed, Tracked, Nested
    PROVE  Tracked'
  <1> SUFFICES ASSUME startLocks, ~pending, conf.enabled
               PROVE  /\ ctx' = "none" /\ On' => Recalled(Newest)'
                      /\ ctx' # "manual" /\ link' = "down" => Recalled({})'
    BY DEF Tracked, Nested, userVars
  <1>1. /\ ctx \in Contexts /\ Decide(ctx) /\ start = <<>> /\ UNCHANGED <<hot, events, up, conf, start>>
        /\ inst' = Outcome(ctx)
    BY DEF Nested, envVars, userVars, Placed, Contexts
  <1>2. /\ ctx # "manual" /\ link = "down" => Recalled({})
        /\ ctx = "ifdown-definition" => link = "down"
    BY DEF Tracked, Placed
  <1>3. /\ On' => Recalled(inst)'
        /\ link' = "down" => Recalled({})'
    <2>1. /\ On' => \A x : x = Outcome(ctx) => Recalled(x)'
          /\ link' = "down" => Recalled({})'
      BY <1>1, <1>2, Decided
    <2> QED BY <1>1, <2>1
  <1>4. Newest' = inst'
    BY <1>1 DEF Newest
  <1> QED BY <1>3, <1>4

LEMMA StartTracked ==
    ASSUME TypeOK, Tracked, NEW c \in {"manual", "boot"}, StartDecides(c)
    PROVE  Tracked'
  <1> SUFFICES ASSUME startLocks, ~pending, conf.enabled
               PROVE  /\ ctx' = "none" /\ On' => Recalled(Newest)'
                      /\ ctx' # "manual" /\ link' = "down" => Recalled({})'
    BY DEF Tracked, StartDecides
  <1>1. /\ c \in Contexts /\ Decide(c) /\ ctx = "none" /\ UNCHANGED <<hot, events, up, conf>>
        /\ start' = <<Outcome(c)>>
    BY DEF StartDecides, envVars, Contexts
  <1>2. link = "down" => Recalled({})
    BY <1>1 DEF Tracked
  <1>3. /\ On' => Recalled(start[1])'
        /\ link' = "down" => Recalled({})'
    <2>1. /\ On' => \A x : x = Outcome(c) => Recalled(x)'
          /\ link' = "down" => Recalled({})'
      BY <1>1, <1>2, Decided
    <2> QED BY <1>1, <2>1
  <1>4. Newest' = start[1]'
    BY <1>1 DEF Newest
  <1> QED BY <1>3, <1>4

LEMMA TrackedStep == TypeOK /\ Placed /\ Answered /\ Tracked /\ [Next]_vars => Tracked'
  <1> SUFFICES ASSUME TypeOK, Placed, Answered, Tracked, [Next]_vars
               PROVE  Tracked'
    OBVIOUS
  <1> USE DEF envVars, userVars, bootVars, stateVars
  <1>1. ASSUME UNCHANGED <<startLocks, hot, events, up, conf, pending, stored, link, start, inst>>,
               On' => On /\ (ctx' = "none" => ctx = "none"),
               ctx = "manual" => ctx' = "manual"
        PROVE  Tracked'
    <2>1. \A x : Recalled(x) => Recalled(x)'
      BY <1>1, Unrecalled
    <2>2. Newest' = Newest
      BY <1>1 DEF Newest
    <2>3. Recalled(Newest) => Recalled(Newest)'
      BY <2>1, <2>2
    <2> QED BY <1>1, <2>1, <2>3 DEF Tracked
  <1>2. CASE Expire \/ Tick \/ SchedulerLoads \/ UNCHANGED vars
    <2>1. On' = On
      BY <1>2 DEF Expire, Tick, SchedulerLoads, vars, On
    <2>2. (ctx' = "none" => ctx = "none") /\ (ctx = "manual" => ctx' = "manual")
      BY <1>2 DEF Expire, ProcdFree, Tick, SchedulerLoads, vars
    <2> QED BY <1>1, <1>2, <2>1, <2>2 DEF Expire, Tick, SchedulerLoads, vars
  <1>3. CASE Reload
    BY <1>3 DEF Reload, Tracked
  <1>4. CASE StopKill
    <2>1. CASE ctx = "kill-restart"
      BY <1>4, <2>1 DEF StopKill, Tracked
    <2>2. CASE ctx = "kill" /\ startLocks
      <3>1. ~On'
        BY <1>4, <2>2 DEF StopKill, Placed, On
      <3>2. Recalled({}) => Recalled({})'
        BY <1>4, Unrecalled DEF StopKill
      <3> QED BY <1>4, <2>2, <3>1, <3>2 DEF StopKill, Tracked
    <2>3. CASE ~startLocks
      BY <1>4, <2>3 DEF StopKill, Tracked
    <2> QED BY <1>4, <2>1, <2>2, <2>3 DEF StopKill
  <1>5. CASE StartPublishes
    <2>1. /\ UNCHANGED <<startLocks, hot, events, up, conf, pending, stored, link, boot, ctx>>
          /\ Newest' = Newest
      BY <1>5 DEF StartPublishes, Newest
    <2>2. \A x : Recalled(x) => Recalled(x)'
      BY <2>1, Unrecalled
    <2>3. Recalled(Newest) => Recalled(Newest)'
      BY <2>1, <2>2
    <2> QED BY <2>1, <2>2, <2>3 DEF Tracked, On
  <1>6. CASE SchedulerDecides \/ SchedulerStops
    <2>1. On' => On
      BY <1>6 DEF SchedulerDecides, SchedulerStops, Phase, On
    <2> QED BY <1>1, <1>6, <2>1 DEF SchedulerDecides, SchedulerStops
  <1>7. ASSUME NEW r \in BOOLEAN, Stop(r)
        PROVE  Tracked'
    <2>1. ~On' /\ ctx = "none"
      BY <1>7 DEF Stop, ProcdFree, Phase, On
    <2> QED BY <1>1, <1>7, <2>1 DEF Stop
  <1>8. CASE Hotplug
    <2>1. UNCHANGED <<startLocks, pending, conf, boot, ctx, link>> /\ Newest' = Newest
      BY <1>8 DEF Hotplug, Newest
    <2>2. conf.enabled => \A x : Recalled(x) => Recalled(x)'
      BY <1>8, HotplugRecalled
    <2>3. conf.enabled /\ Recalled(Newest) => Recalled(Newest)'
      BY <2>1, <2>2
    <2> QED BY <2>1, <2>2, <2>3 DEF Tracked, On
  <1>9. ASSUME NEW l \in Links, Flip(l)
        PROVE  Tracked'
    <2>1. UNCHANGED <<startLocks, pending, conf, boot, ctx, link>> /\ Newest' = Newest
      BY <1>9 DEF Flip, Newest
    <2>2. \A x : Recalled(x) => Recalled(x)'
      BY <1>9, FlipRecalled
    <2>3. Recalled(Newest) => Recalled(Newest)'
      BY <2>1, <2>2
    <2> QED BY <2>1, <2>2, <2>3 DEF Tracked, On
  <1>10. CASE \E c \in [enabled : BOOLEAN, selected : Choices, delay : Delays] : Save(c)
    BY <1>10 DEF Save, Tracked
  <1>11. CASE RcsStart \/ UserStart
    BY <1>11, StartTracked DEF RcsStart, UserStart
  <1> QED BY <1>2, <1>3, <1>4, <1>5, <1>6, <1>7, <1>8, <1>9, <1>10, <1>11, LinkDownTracked, LinkUpTracked,
             NestedTracked DEF Next, Operate, Boot

\* The hotplug script, link_down, link_up and boot_expired of both init scripts: once
\* everything queued is handled, a service that may run is bound to exactly the links
\* that are up (or to the selected ones), for any number of links and any interleaving
\* of their changes with saves, orders and the boot wait, if start takes procd_lock.
THEOREM LinksFollowed == Spec => []FollowsLink
  <1>1. Init => Placed /\ Answered /\ Tracked
    <2> SUFFICES ASSUME Init
                 PROVE  Placed /\ Answered /\ Tracked
      OBVIOUS
    <2>1. /\ events = <<>> /\ hot = <<>> /\ ctx = "none" /\ start = <<>> /\ link = "unknown"
          /\ boot.phase = "none"
      BY DEF Init
    <2> QED BY <2>1 DEF Placed, Answered, Tracked, On
  <1>2. TypeOK /\ Placed /\ Answered /\ Tracked /\ [Next]_vars => (Placed /\ Answered /\ Tracked)'
    BY PlacedStep, AnsweredStep, TrackedStep
  <1>3. TypeOK /\ Tracked => FollowsLink
    <2> SUFFICES ASSUME TypeOK, Tracked, startLocks, Rest, conf.enabled, On
                 PROVE  IF Automatic THEN inst = up ELSE conf.selected \subseteq up => inst = conf.selected
      BY DEF FollowsLink, On
    <2>1. Recalled(inst)
      BY DEF Tracked, Rest, Idle, Newest
    <2>2. \A to, l : ~Comes(to, l)
      BY DEF Rest, Comes, Event
    <2> QED BY <2>1, <2>2 DEF Recalled
  <1> QED BY <1>1, <1>2, <1>3, InitTypes, TypeStep, PTL DEF Spec

---------------------------------------------------------------------------
(* The firewall: what is in it                                             *)

\* The rules that the firewall of a family has for a configuration.
Excluded == IF family = "ip" THEN Exclude(Local4) ELSE IF prog = "fakehttp" THEN Exclude(Special6) ELSE NotGlobal6
ExcludedSet == {Excluded[k] : k \in DOMAIN Excluded}
Queueing == IF prog = "fakehttp" THEN {SynRule, EarlyAckRule} ELSE {UdpRule}
Jumping(c) == {Rule(Scopes(c)[k], "jump") : k \in DOMAIN Scopes(c)}
Exceeded(on) == Rule(on \cup {<<"kind", "time exceeded">>}, "drop")
Dropping(c) == IF prog = "fakesip" THEN {Exceeded(Scopes(c)[k]) : k \in DOMAIN Scopes(c)} ELSE {}

AnyScope == {{}} \cup {{<<"iface", i>>} : i \in Nat}
RuleSet ==
    ExcludedSet \cup {MarkRule(c) : c \in Configs} \cup {SynRule, EarlyAckRule, UdpRule}
        \cup {Rule(on, "jump") : on \in AnyScope} \cup {Exceeded(on) : on \in AnyScope}

Ops == Removal \cup {"new", "hook", "append", "insert", "try to append", "batch"}
CmdSet == [op : Ops, chain : Chains, rule : RuleSet \cup {NoRule} \cup [Chains -> Seq(RuleSet)]]

\* S and D hold what excludes, jumps and (S) drops; no jump before all exclusions, and
\* what drops before all others.
Looks(x, c) ==
    LET l == rules[x] IN
    /\ \A k \in DOMAIN l : l[k] \in ExcludedSet \cup Jumping(c) \cup (IF x = "S" THEN Dropping(c) ELSE {})
    /\ \A k \in DOMAIN l : l[k] \in Jumping(c) => \A e \in ExcludedSet : \E j \in 1..k - 1 : l[j] = e
    /\ \A k \in DOMAIN l : l[k] \in Dropping(c) => \A j \in 1..k - 1 : l[j] \in Dropping(c)
\* R queues nothing before it has let the daemon's own packets go.
Queues(c) ==
    LET l == rules["R"] IN
    /\ \A k \in DOMAIN l : l[k] \in {MarkRule(c)} \cup Queueing
    /\ \A k \in DOMAIN l : l[k] \in Queueing => \E j \in 1..k - 1 : l[j] = MarkRule(c)
Meant(c) == Looks("S", c) /\ Looks("D", c) /\ Queues(c)

\* What an older process has left is cut off.
Silent ==
    /\ tool = "iptables" /\ rules["S"] = <<>>
    /\ hooked["D"] = 0 \/ rules["D"] = <<>> \/ rules["R"] = <<>>
Consistent == Removable => Meant(by) \/ Silent

FirewallTyped ==
    /\ there \subseteq Chains /\ rules \in [Chains -> Seq(RuleSet)] /\ hooked \in [{"S", "D"} -> {0, 1}]
    /\ \A x \in Chains \ there : rules[x] = <<>> /\ (x # "R" => hooked[x] = 0)
    /\ \A k \in DOMAIN rules["D"] : rules["D"][k].do \in {"return", "jump"}
    /\ \A k \in DOMAIN rules["R"] : rules["R"][k].do \in {"return", "queue"}

World == prog \in {"fakehttp", "fakesip"} /\ tool \in {"nft", "iptables"} /\ family \in {"ip", "ip6"}

RulesTyped ==
    /\ World /\ FirewallTyped
    /\ phase \in {"off", "making", "ready", "clearing"} /\ config \in Configs /\ by \in Configs
    /\ unremoved \in Nat /\ todo \in Seq(CmdSet)

\* The last ones of a list.
LastOf(t, list) == Len(t) <= Len(list) /\ \A k \in 1..Len(t) : t[k] = list[Len(list) - Len(t) + k]
Position ==
    /\ phase \in {"making", "ready"} => LastOf(todo, Setup(config))
    /\ phase = "clearing" => LastOf(todo, Cleanup)
    /\ phase \in {"off", "ready"} => todo = <<>>

One(b) == IF b THEN 1 ELSE 0
\* After the first n commands of a clean-up what is left has been counted.
Swept(n) ==
    /\ tool = "iptables" => One(n >= 1 /\ rules["R"] # <<>>) + One(n >= 3 /\ rules["D"] # <<>>)
                                + One(n >= 5 /\ hooked["D"] > 0) <= unremoved
    /\ tool = "nft" /\ n >= 1 /\ unremoved = 0 => there = {}

Have(x, r) == \E k \in DOMAIN rules[x] : rules[x][k] = r
Provides(cmd, x, r) ==
    \/ cmd.op \in {"append", "insert"} /\ cmd.chain = x /\ cmd.rule = r
    \/ cmd.op = "batch" /\ \E k \in DOMAIN cmd.rule[x] : cmd.rule[x][k] = r
\* What the first m commands that make the rules have put into the chains.
Brought(m) == \A i \in 1..m : \A x \in Chains, r \in RuleSet : Provides(Making(config)[i], x, r) => Have(x, r)
\* The first five of iptables' make empty chains and hook them up.
Five == <<New("S"), New("D"), Hook("S"), Hook("D"), New("R")>>
IptMade(m) ==
    /\ m \in 1..5 => rules["S"] = <<>>
    /\ m \in 2..5 => rules["D"] = <<>>
    /\ m = 5 => rules["R"] = <<>>
    /\ m \in 1..2 => hooked["S"] = 0
    /\ m \in 2..3 => hooked["D"] = 0
    /\ m >= 3 => hooked["S"] = 1
    /\ m >= 4 => hooked["D"] = 1
    /\ m >= 5 => Meant(config)
Made(m) ==
    /\ m >= 1 => by = config
    /\ tool = "iptables" => IptMade(m)
    /\ tool = "nft" /\ m >= 1 => hooked["S"] = 1 /\ hooked["D"] = 1
    /\ Brought(m)

Progress ==
    LET c == Len(Cleanup) n == Len(Setup(config)) - Len(todo) IN
    /\ phase = "clearing" => Swept(c - Len(todo))
    /\ phase \in {"making", "ready"} => IF n <= c THEN Swept(n) ELSE Made(n - c)

RulesInv == RulesTyped /\ Position /\ Progress /\ Consistent
LEMMA ExcludedIs ==
    /\ Excluded \in Seq(ExcludedSet)
    /\ \A r \in ExcludedSet : r.do = "return" /\ r \in RuleSet
  <1>1. \/ Excluded = Exclude(Local4) \/ Excluded = Exclude(Special6) \/ Excluded = NotGlobal6
    BY DEF Excluded
  <1>2. \E n \in Nat : DOMAIN Excluded = 1..n /\ Excluded = [k \in 1..n |-> Excluded[k]]
    <2>1. CASE Excluded = Exclude(Local4)
      <3>1. DOMAIN Excluded = 1..8 /\ Excluded = [k \in 1..8 |-> Excluded[k]]
        BY <2>1 DEF Exclude, Local4
      <3> QED BY <3>1
    <2>2. CASE Excluded = Exclude(Special6)
      <3>1. DOMAIN Excluded = 1..7 /\ Excluded = [k \in 1..7 |-> Excluded[k]]
        BY <2>2 DEF Exclude, Special6
      <3> QED BY <3>1
    <2>3. CASE Excluded = NotGlobal6
      <3> DEFINE r == Rule({<<"not addr", "2000::/3">>}, "return")
      <3>1. Excluded = <<r>>
        BY <2>3 DEF NotGlobal6
      <3> HIDE DEF r
      <3>2. DOMAIN Excluded = 1..1 /\ Excluded = [k \in 1..1 |-> Excluded[k]]
        BY <3>1
      <3> QED BY <3>2
    <2> QED BY <1>1, <2>1, <2>2, <2>3
  <1>3. Excluded \in Seq(ExcludedSet)
    <2>1. \A k \in DOMAIN Excluded : Excluded[k] \in ExcludedSet
      BY DEF ExcludedSet
    <2> QED BY <1>2, <2>1
  <1>4. ASSUME NEW k \in DOMAIN Excluded
        PROVE  Excluded[k].do = "return"
    <2>1. CASE Excluded = Exclude(Local4)
      BY <2>1, <1>4 DEF Exclude, Rule
    <2>2. CASE Excluded = Exclude(Special6)
      BY <2>2, <1>4 DEF Exclude, Rule
    <2>3. CASE Excluded = NotGlobal6
      <3> DEFINE r == Rule({<<"not addr", "2000::/3">>}, "return")
      <3>1. Excluded = <<r>> /\ r.do = "return"
        BY <2>3 DEF NotGlobal6, Rule
      <3> HIDE DEF r
      <3> QED BY <1>4, <3>1
    <2> QED BY <1>1, <2>1, <2>2, <2>3
  <1> QED BY <1>3, <1>4 DEF ExcludedSet, RuleSet

LEMMA ScopesAre ==
    ASSUME NEW c \in Configs
    PROVE  Scopes(c) \in Seq(AnyScope)
  <1>1. c.all \in BOOLEAN /\ c.ifaces \in Seq(Nat)
    BY RulesAssumption
  <1>2. CASE c.all
    BY <1>2 DEF Scopes, AnyScope
  <1>3. CASE ~c.all
    <2>1. \A k \in DOMAIN c.ifaces : {<<"iface", c.ifaces[k]>>} \in AnyScope
      BY <1>1 DEF AnyScope
    <2>2. DOMAIN c.ifaces = 1..Len(c.ifaces) /\ Len(c.ifaces) \in Nat
      BY <1>1
    <2>3. [k \in 1..Len(c.ifaces) |-> {<<"iface", c.ifaces[k]>>}] \in Seq(AnyScope)
      BY <2>1, <2>2
    <2> QED BY <1>3, <2>2, <2>3 DEF Scopes
  <1> QED BY <1>1, <1>2, <1>3

RulesOf(c) ==
    /\ \A r \in Jumping(c) : r.do = "jump" /\ r \in RuleSet
    /\ \A r \in Dropping(c) : r.do = "drop" /\ r \in RuleSet
    /\ MarkRule(c).do = "return" /\ MarkRule(c) \in RuleSet
    /\ \A r \in Queueing : r.do = "queue" /\ r \in RuleSet

LEMMA RulesAre ==
    ASSUME NEW c \in Configs
    PROVE  RulesOf(c)
  <1>1. \A k \in DOMAIN Scopes(c) : Scopes(c)[k] \in AnyScope
    BY ScopesAre
  <1>2. \A r \in Jumping(c) : r.do = "jump" /\ r \in RuleSet
    BY <1>1 DEF Jumping, RuleSet, Rule
  <1>3. \A r \in Dropping(c) : r.do = "drop" /\ r \in RuleSet
    <2>1. \A on : Exceeded(on).do = "drop"
      BY DEF Exceeded, Rule
    <2>2. \A on \in AnyScope : Exceeded(on) \in RuleSet
      BY DEF RuleSet
    <2> QED BY <1>1, <2>1, <2>2 DEF Dropping
  <1>4. MarkRule(c).do = "return" /\ MarkRule(c) \in RuleSet
    BY DEF MarkRule, RuleSet, Rule
  <1>5. \A r \in Queueing : r.do = "queue" /\ r \in RuleSet
    <2>1. \A r \in {SynRule, EarlyAckRule, UdpRule} : r.do = "queue"
      <3>1. \A on, do : Rule(on, do).do = do
        BY DEF Rule
      <3> QED BY <3>1 DEF SynRule, UdpRule, EarlyAckRule
    <2> QED BY <2>1 DEF Queueing, RuleSet
  <1> QED BY <1>2, <1>3, <1>4, <1>5 DEF RulesOf

\* The commands for the interfaces, of one program or the other.
ForScopes(c) == IF prog = "fakehttp" THEN fh_iface_setup(c) ELSE fs_iface_setup(c)

Scoped(cmd, c) ==
    \/ \E r \in Jumping(c) : cmd = Add("S", r) \/ cmd = Add("D", r)
    \/ \E r \in Dropping(c) : cmd = Insert("S", r)

LEMMA ScopedType ==
    ASSUME NEW c \in Configs, NEW cmd, Scoped(cmd, c)
    PROVE  cmd \in CmdSet
  <1>1. (\A r \in Jumping(c) : r \in RuleSet) /\ (\A r \in Dropping(c) : r \in RuleSet)
    BY RulesAre DEF RulesOf
  <1>2. \A r \in RuleSet : Add("S", r) \in CmdSet /\ Add("D", r) \in CmdSet /\ Insert("S", r) \in CmdSet
    BY DEF CmdSet, Ops, Chains, Add, Insert, Cmd
  <1> QED BY <1>1, <1>2 DEF Scoped

LEMMA ScopesDone ==
    ASSUME World, NEW c \in Configs
    PROVE  /\ ForScopes(c) \in Seq(CmdSet)
           /\ \A i \in 1..Len(ForScopes(c)) : Scoped(ForScopes(c)[i], c)
           /\ \A r \in Jumping(c) : \A x \in {"S", "D"} : \E i \in 1..Len(ForScopes(c)) : ForScopes(c)[i] = Add(x, r)
           /\ \A r \in Dropping(c) : \E i \in 1..Len(ForScopes(c)) : ForScopes(c)[i] = Insert("S", r)
  <1> DEFINE s == Scopes(c)
             n == Len(s)
             l == ForScopes(c)
  <1>1. s \in Seq(AnyScope) /\ n \in Nat /\ DOMAIN s = 1..n
    BY ScopesAre
  <1>2. \A k \in 1..n : Rule(s[k], "jump") \in Jumping(c) /\ (prog = "fakesip" => Exceeded(s[k]) \in Dropping(c))
    BY <1>1 DEF Jumping, Dropping
  <1>3. CASE prog = "fakehttp"
    <2> HIDE DEF s
    <2>1. l = [k \in 1..2 * n |-> FhJumps(s[((k - 1) \div 2) + 1])[((k - 1) % 2) + 1]]
      BY <1>3 DEF ForScopes, fh_iface_setup, s
    <2>2. Len(l) = 2 * n /\ DOMAIN l = 1..2 * n
      BY <1>1, <2>1
    <2>3. ASSUME NEW k \in 1..n
          PROVE  l[2 * k - 1] = Add("S", Rule(s[k], "jump")) /\ l[2 * k] = Add("D", Rule(s[k], "jump"))
      <3>1. 2 * k - 1 \in 1..2 * n /\ ((2 * k - 1 - 1) \div 2) + 1 = k /\ ((2 * k - 1 - 1) % 2) + 1 = 1
        BY <1>1, <2>3
      <3>2. 2 * k \in 1..2 * n /\ ((2 * k - 1) \div 2) + 1 = k /\ ((2 * k - 1) % 2) + 1 = 2
        BY <1>1, <2>3
      <3> QED BY <2>1, <3>1, <3>2 DEF FhJumps
    <2>4. ASSUME NEW i \in 1..2 * n
          PROVE  \E k \in 1..n : i = 2 * k - 1 \/ i = 2 * k
      <3>1. (i + 1) \div 2 \in 1..n /\ (i = 2 * ((i + 1) \div 2) - 1 \/ i = 2 * ((i + 1) \div 2))
        BY <1>1, <2>4
      <3> QED BY <3>1
    <2>5. \A i \in 1..2 * n : Scoped(l[i], c)
      BY <1>2, <2>3, <2>4 DEF Scoped
    <2>6. \A r \in Jumping(c) : \E k \in 1..n : r = Rule(s[k], "jump")
      BY <1>1 DEF Jumping, s
    <2>7. \A k \in 1..n : 2 * k - 1 \in 1..2 * n /\ 2 * k \in 1..2 * n
      BY <1>1
    <2>8. \A r \in Jumping(c) : \A x \in {"S", "D"} : \E i \in 1..2 * n : l[i] = Add(x, r)
      BY <2>3, <2>6, <2>7
    <2>9. \A i \in 1..2 * n : l[i] \in CmdSet
      BY <2>5, ScopedType
    <2>10. l \in Seq(CmdSet)
      BY <1>1, <2>1, <2>2, <2>9
    <2> QED BY <1>3, <2>2, <2>5, <2>8, <2>10 DEF Dropping
  <1>4. CASE prog = "fakesip"
    <2> HIDE DEF s
    <2>1. l = [k \in 1..3 * n |-> FsJumps(s[((k - 1) \div 3) + 1])[((k - 1) % 3) + 1]]
      BY <1>4 DEF ForScopes, fs_iface_setup, s
    <2>2. Len(l) = 3 * n /\ DOMAIN l = 1..3 * n
      BY <1>1, <2>1
    <2>3. ASSUME NEW k \in 1..n
          PROVE  /\ l[3 * k - 2] = Insert("S", Exceeded(s[k]))
                 /\ l[3 * k - 1] = Add("S", Rule(s[k], "jump"))
                 /\ l[3 * k] = Add("D", Rule(s[k], "jump"))
      <3>1. 3 * k - 2 \in 1..3 * n /\ ((3 * k - 2 - 1) \div 3) + 1 = k /\ ((3 * k - 2 - 1) % 3) + 1 = 1
        BY <1>1, <2>3
      <3>2. 3 * k - 1 \in 1..3 * n /\ ((3 * k - 1 - 1) \div 3) + 1 = k /\ ((3 * k - 1 - 1) % 3) + 1 = 2
        BY <1>1, <2>3
      <3>3. 3 * k \in 1..3 * n /\ ((3 * k - 1) \div 3) + 1 = k /\ ((3 * k - 1) % 3) + 1 = 3
        BY <1>1, <2>3
      <3>4. l[3 * k - 2] = FsJumps(s[k])[1] /\ l[3 * k - 1] = FsJumps(s[k])[2] /\ l[3 * k] = FsJumps(s[k])[3]
        BY <2>1, <3>1, <3>2, <3>3
      <3> QED BY <3>4 DEF FsJumps, Exceeded
    <2>4. ASSUME NEW i \in 1..3 * n
          PROVE  \E k \in 1..n : i = 3 * k - 2 \/ i = 3 * k - 1 \/ i = 3 * k
      <3> DEFINE k == (i + 2) \div 3
      <3>1. k \in 1..n /\ (i = 3 * k - 2 \/ i = 3 * k - 1 \/ i = 3 * k)
        BY <1>1, <2>4
      <3> QED BY <3>1
    <2>5. \A i \in 1..3 * n : Scoped(l[i], c)
      BY <1>2, <1>4, <2>3, <2>4 DEF Scoped
    <2>6. \A r \in Jumping(c) : \E k \in 1..n : r = Rule(s[k], "jump")
      BY <1>1 DEF Jumping, s
    <2>7. \A r \in Dropping(c) : \E k \in 1..n : r = Exceeded(s[k])
      BY <1>1 DEF Dropping, s
    <2>8. \A k \in 1..n : 3 * k - 2 \in 1..3 * n /\ 3 * k - 1 \in 1..3 * n /\ 3 * k \in 1..3 * n
      BY <1>1
    <2>9. \A r \in Jumping(c) : \A x \in {"S", "D"} : \E i \in 1..3 * n : l[i] = Add(x, r)
      BY <2>3, <2>6, <2>8
    <2>10. \A r \in Dropping(c) : \E i \in 1..3 * n : l[i] = Insert("S", r)
      BY <2>3, <2>7, <2>8
    <2>11. \A i \in 1..3 * n : l[i] \in CmdSet
      BY <2>5, ScopedType
    <2>12. l \in Seq(CmdSet)
      BY <1>1, <2>1, <2>2, <2>11
    <2> QED BY <2>2, <2>5, <2>9, <2>10, <2>12
  <1> QED BY <1>3, <1>4 DEF World

---------------------------------------------------------------------------
(* The commands that make the rules *)

Main == IF prog = "fakehttp" THEN SynRule ELSE UdpRule

LEMMA AddsAre ==
    ASSUME NEW x \in Chains, NEW l \in Seq(RuleSet)
    PROVE  /\ Adds(x, l) \in Seq(CmdSet) /\ Len(Adds(x, l)) = Len(l)
           /\ \A k \in 1..Len(l) : Adds(x, l)[k] = Add(x, l[k])
  <1>1. Adds(x, l) = [k \in 1..Len(l) |-> Add(x, l[k])] /\ Len(l) \in Nat
    BY DEF Adds
  <1>2. \A k \in 1..Len(l) : Add(x, l[k]) \in CmdSet
    BY DEF CmdSet, Ops, Add, Cmd
  <1> QED BY <1>1, <1>2

LEMMA SimpleCommands ==
    /\ \A x \in Chains : New(x) \in CmdSet /\ Hook(x) \in CmdSet
    /\ \A x \in Chains, op \in Removal : Undo(op, x) \in CmdSet
    /\ \A r \in RuleSet : Optional("R", r) \in CmdSet
  <1>1. \A x \in Chains : New(x) \in CmdSet /\ Hook(x) \in CmdSet
    BY DEF CmdSet, Ops, New, Hook, Cmd
  <1>2. \A x \in Chains, op \in Removal : Undo(op, x) \in CmdSet
    BY DEF CmdSet, Ops, Undo, Cmd
  <1>3. \A r \in RuleSet : Optional("R", r) \in CmdSet
    BY DEF CmdSet, Ops, Chains, Optional, Cmd
  <1> QED BY <1>1, <1>2, <1>3

LEMMA MarkAndMain ==
    ASSUME NEW c \in Configs
    PROVE  /\ MarkThenQueue(c, Main) \in Seq(RuleSet) /\ Len(MarkThenQueue(c, Main)) = 2
           /\ MarkThenQueue(c, Main)[1] = MarkRule(c) /\ MarkThenQueue(c, Main)[2] = Main
           /\ Main \in RuleSet /\ Main \in Queueing
  <1>1. MarkRule(c) \in RuleSet /\ Main \in RuleSet
    BY RulesAre DEF RulesOf, Main, RuleSet
  <1>2. Main \in Queueing
    BY DEF Main, Queueing
  <1> QED BY <1>1, <1>2 DEF MarkThenQueue

LEMMA FiveAre ==
    /\ Five \in Seq(CmdSet) /\ Len(Five) = 5
    /\ Five[1] = New("S") /\ Five[2] = New("D") /\ Five[3] = Hook("S") /\ Five[4] = Hook("D") /\ Five[5] = New("R")
  <1>1. New("S") \in CmdSet /\ New("D") \in CmdSet /\ Hook("S") \in CmdSet /\ Hook("D") \in CmdSet /\ New("R") \in CmdSet
    BY SimpleCommands DEF Chains
  <1> DEFINE a == New("S") b == New("D") d == Hook("S") e == Hook("D") f == New("R")
  <1>2. a \in CmdSet /\ b \in CmdSet /\ d \in CmdSet /\ e \in CmdSet /\ f \in CmdSet /\ Five = <<a, b, d, e, f>>
    BY <1>1 DEF Five
  <1> HIDE DEF a, b, d, e, f
  <1>3. Five \in Seq(CmdSet) /\ Len(Five) = 5 /\ Five[1] = a /\ Five[2] = b /\ Five[3] = d /\ Five[4] = e /\ Five[5] = f
    BY <1>2
  <1> QED BY <1>3 DEF a, b, d, e, f

\* The commands of iptables, by their places.
LEMMA IptTableIs ==
    ASSUME NEW c \in Configs
    PROVE  LET t == IptTable(c, Excluded, Main)
               n == Len(Excluded)
           IN  /\ t \in Seq(CmdSet) /\ n \in Nat /\ Len(t) = 7 + 2 * n
               /\ \A i \in 1..5 : t[i] = Five[i]
               /\ \A k \in 1..n : t[5 + k] = Add("S", Excluded[k]) /\ t[5 + n + k] = Add("D", Excluded[k])
               /\ t[6 + 2 * n] = Add("R", MarkRule(c)) /\ t[7 + 2 * n] = Add("R", Main)
  <1> DEFINE n == Len(Excluded)
             s == Adds("S", Excluded)
             d == Adds("D", Excluded)
             r == Adds("R", MarkThenQueue(c, Main))
  <1>1. Excluded \in Seq(RuleSet) /\ n \in Nat
    BY ExcludedIs
  <1>2. s \in Seq(CmdSet) /\ Len(s) = n /\ \A k \in 1..n : s[k] = Add("S", Excluded[k])
    BY <1>1, AddsAre DEF Chains
  <1>3. d \in Seq(CmdSet) /\ Len(d) = n /\ \A k \in 1..n : d[k] = Add("D", Excluded[k])
    BY <1>1, AddsAre DEF Chains
  <1>4. r \in Seq(CmdSet) /\ Len(r) = 2 /\ r[1] = Add("R", MarkRule(c)) /\ r[2] = Add("R", Main)
    BY MarkAndMain, AddsAre DEF Chains
  <1>5. Five \in Seq(CmdSet) /\ Len(Five) = 5
    BY FiveAre
  <1>6. IptTable(c, Excluded, Main) = Five \o s \o d \o r
    BY DEF IptTable, Five
  <1> HIDE DEF n, s, d, r
  <1> DEFINE u == Five \o s
             v == u \o d
             t == v \o r
  <1>7. u \in Seq(CmdSet) /\ Len(u) = 5 + n /\ (\A i \in 1..5 : u[i] = Five[i]) /\ \A k \in 1..n : u[5 + k] = s[k]
    <2>0. Five \in Seq(CmdSet) /\ s \in Seq(CmdSet)
      BY <1>2, <1>5
    <2>1. u = Five \o s
      OBVIOUS
    <2> HIDE DEF u
    <2>2. /\ u \in Seq(CmdSet) /\ Len(u) = Len(Five) + Len(s)
          /\ \A i \in 1..Len(Five) : u[i] = Five[i]
          /\ \A k \in 1..Len(s) : u[Len(Five) + k] = s[k]
      BY <2>0, <2>1
    <2> QED BY <1>1, <1>2, <1>5, <2>2
  <1>8. v \in Seq(CmdSet) /\ Len(v) = 5 + n + n /\ (\A i \in 1..5 + n : v[i] = u[i]) /\ \A k \in 1..n : v[5 + n + k] = d[k]
    <2>0. u \in Seq(CmdSet) /\ d \in Seq(CmdSet)
      BY <1>3, <1>7
    <2>1. v = u \o d
      OBVIOUS
    <2> HIDE DEF u, v
    <2>2. /\ v \in Seq(CmdSet) /\ Len(v) = Len(u) + Len(d)
          /\ \A i \in 1..Len(u) : v[i] = u[i]
          /\ \A k \in 1..Len(d) : v[Len(u) + k] = d[k]
      BY <2>0, <2>1
    <2>3. Len(u) = 5 + n /\ Len(d) = n
      BY <1>3, <1>7
    <2> QED BY <1>1, <2>2, <2>3
  <1>9. /\ t \in Seq(CmdSet) /\ Len(t) = 7 + 2 * n /\ (\A i \in 1..5 + 2 * n : t[i] = v[i])
        /\ t[6 + 2 * n] = r[1] /\ t[7 + 2 * n] = r[2]
    <2>0. v \in Seq(CmdSet) /\ r \in Seq(CmdSet)
      BY <1>4, <1>8
    <2>1. t = v \o r
      OBVIOUS
    <2> HIDE DEF u, v, t
    <2>a. /\ t \in Seq(CmdSet) /\ Len(t) = Len(v) + Len(r)
          /\ \A i \in 1..Len(v) : t[i] = v[i]
          /\ \A k \in 1..Len(r) : t[Len(v) + k] = r[k]
      BY <2>0, <2>1
    <2>b. Len(v) = 5 + n + n /\ Len(r) = 2
      BY <1>4, <1>8
    <2>2. t \in Seq(CmdSet) /\ Len(t) = 5 + n + n + 2 /\ (\A i \in 1..5 + n + n : t[i] = v[i])
          /\ \A k \in 1..2 : t[5 + n + n + k] = r[k]
      BY <1>1, <2>a, <2>b
    <2>3. t[5 + n + n + 1] = r[1] /\ t[5 + n + n + 2] = r[2]
      BY <2>2
    <2>4. 5 + n + n + 2 = 7 + 2 * n /\ 5 + n + n = 5 + 2 * n /\ 5 + n + n + 1 = 6 + 2 * n
      BY <1>1
    <2> QED BY <2>2, <2>3, <2>4
  <1>a. IptTable(c, Excluded, Main) = t
    BY <1>6
  <1> HIDE DEF u, v, t
  <1>10. \A i \in 1..5 : t[i] = Five[i]
    BY <1>1, <1>7, <1>8, <1>9
  <1>11. \A k \in 1..n : t[5 + k] = Add("S", Excluded[k])
    BY <1>1, <1>2, <1>7, <1>8, <1>9
  <1>12. \A k \in 1..n : t[5 + n + k] = Add("D", Excluded[k])
    <2> SUFFICES ASSUME NEW k \in 1..n PROVE t[5 + n + k] = Add("D", Excluded[k])
      OBVIOUS
    <2>1. 5 + n + k \in 1..5 + 2 * n
      BY <1>1
    <2> QED BY <1>3, <1>8, <1>9, <2>1
  <1> QED BY <1>1, <1>4, <1>9, <1>10, <1>11, <1>12, <1>a DEF n

OneBatch(c) == Cmd("batch", "S", [x \in Chains |-> IF x = "R" THEN MarkThenQueue(c, Main) ELSE Excluded])

LEMMA OneBatchIs ==
    ASSUME NEW c \in Configs
    PROVE  /\ OneBatch(c) \in CmdSet
           /\ \A x \in Chains : OneBatch(c).rule[x] = IF x = "R" THEN MarkThenQueue(c, Main) ELSE Excluded
           /\ OneBatch(c).op = "batch"
  <1> DEFINE l == MarkThenQueue(c, Main)
             f == [x \in Chains |-> IF x = "R" THEN l ELSE Excluded]
  <1>1. l \in Seq(RuleSet) /\ Excluded \in Seq(RuleSet)
    BY MarkAndMain, ExcludedIs
  <1> HIDE DEF l
  <1>2. f \in [Chains -> Seq(RuleSet)] /\ \A x \in Chains : f[x] = IF x = "R" THEN l ELSE Excluded
    BY <1>1
  <1>3. OneBatch(c) = Cmd("batch", "S", f)
    BY DEF OneBatch, l
  <1> HIDE DEF f
  <1>4. OneBatch(c) \in CmdSet /\ OneBatch(c).rule = f /\ OneBatch(c).op = "batch"
    BY <1>2, <1>3 DEF Cmd, CmdSet, Ops, Chains
  <1> QED BY <1>2, <1>4 DEF l

Table(c) ==
    LET t == IF tool = "iptables" THEN IptTable(c, Excluded, Main) ELSE <<OneBatch(c)>>
    IN  IF prog = "fakehttp" THEN t \o EarlyAck ELSE t

LEMMA MakingIs ==
    ASSUME World, NEW c \in Configs
    PROVE  Making(c) = Table(c) \o ForScopes(c)
  <1>1. CASE tool = "iptables"
    BY <1>1 DEF World, Making, Table, ForScopes, fh_ipt4_setup, fh_ipt6_setup, fs_ipt4_setup, fs_ipt6_setup, Excluded, Main
  <1>2. CASE tool = "nft"
    BY <1>2 DEF World, Making, Table, ForScopes, fh_nft4_setup, fh_nft6_setup, fs_nft4_setup, fs_nft6_setup, Excluded, Main,
                NftTable, Batch, OneBatch
  <1> QED BY <1>1, <1>2 DEF World

\* The commands for the queue are none of the others.
LEMMA MainAlone ==
    /\ \A c, r : Add("R", Main) # Add("S", r) /\ Add("R", Main) # Add("D", r) /\ Add("R", Main) # Add("R", MarkRule(c))
    /\ \A x, q, r : Optional("R", q) # Add(x, r)
  <1>1. \A on, do : Rule(on, do).do = do
    BY DEF Rule
  <1>2. \A c : Main.do # MarkRule(c).do
    <2>1. SynRule.do = "queue" /\ UdpRule.do = "queue"
      BY <1>1 DEF SynRule, UdpRule
    <2>2. \A c : MarkRule(c).do = "return"
      BY <1>1 DEF MarkRule
    <2> QED BY <2>1, <2>2 DEF Main
  <1>3. \A x, r : Add(x, r).op = "append" /\ Add(x, r).chain = x /\ Add(x, r).rule = r
    BY DEF Add, Cmd
  <1>4. \A q : Optional("R", q).op = "try to append"
    BY DEF Optional, Cmd
  <1>5. \A r : Add("R", Main) # Add("S", r) /\ Add("R", Main) # Add("D", r)
    BY <1>3
  <1>6. \A c : Add("R", Main) # Add("R", MarkRule(c))
    BY <1>2, <1>3
  <1>7. \A x, q, r : Optional("R", q) # Add(x, r)
    BY <1>3, <1>4
  <1> QED BY <1>5, <1>6, <1>7

\* What a place of the table's commands can be.
Tabled(cmd, c) ==
    \/ \E r \in ExcludedSet : cmd = Add("S", r) \/ cmd = Add("D", r)
    \/ cmd = Add("R", MarkRule(c))
    \/ cmd = Add("R", Main)

TableForm(c) ==
    LET t == Table(c) IN
    /\ t \in Seq(CmdSet)
    /\ tool = "iptables" =>
          /\ Len(t) >= 7 /\ \A i \in 1..5 : t[i] = Five[i]
          /\ \A i \in 6..Len(t) : Tabled(t[i], c) \/ (prog = "fakehttp" /\ t[i] = Optional("R", EarlyAckRule))
          /\ \A r \in ExcludedSet : \A x \in {"S", "D"} : \E i \in 6..Len(t) : t[i] = Add(x, r)
          /\ \E i \in 6..Len(t) : \E m \in 6..i - 1 :
                /\ t[i] = Add("R", Main) /\ t[m] = Add("R", MarkRule(c))
                /\ \A k \in 6..Len(t) : t[k] = Add("R", Main) \/ t[k] = Optional("R", EarlyAckRule) => k >= i
    /\ tool = "nft" =>
          /\ Len(t) >= 1 /\ t[1] = OneBatch(c)
          /\ \A i \in 2..Len(t) : prog = "fakehttp" /\ t[i] = Optional("R", EarlyAckRule)

LEMMA TableIs ==
    ASSUME World, NEW c \in Configs
    PROVE  TableForm(c)
  <1> DEFINE t == Table(c)
             a == EarlyAck
             o == Optional("R", EarlyAckRule)
  <1>1. a \in Seq(CmdSet) /\ Len(a) = 1 /\ a[1] = o
    <2>1. o \in CmdSet
      BY SimpleCommands DEF RuleSet
    <2> QED BY <2>1 DEF EarlyAck
  <1>2. CASE tool = "iptables"
    <2> DEFINE b == IptTable(c, Excluded, Main)
               n == Len(Excluded)
    <2>1. /\ b \in Seq(CmdSet) /\ n \in Nat /\ Len(b) = 7 + 2 * n
          /\ \A i \in 1..5 : b[i] = Five[i]
          /\ \A k \in 1..n : b[5 + k] = Add("S", Excluded[k]) /\ b[5 + n + k] = Add("D", Excluded[k])
          /\ b[6 + 2 * n] = Add("R", MarkRule(c)) /\ b[7 + 2 * n] = Add("R", Main)
      BY IptTableIs
    <2>2. t = IF prog = "fakehttp" THEN b \o a ELSE b
      BY <1>2 DEF Table
    <2>3. DOMAIN Excluded = 1..n
      BY ExcludedIs
    <2> HIDE DEF b, n, a, t
    <2>4. /\ t \in Seq(CmdSet) /\ Len(t) >= 7 + 2 * n /\ \A i \in 1..7 + 2 * n : t[i] = b[i]
          /\ \A i \in 8 + 2 * n..Len(t) : prog = "fakehttp" /\ t[i] = o
      <3>1. CASE prog = "fakehttp"
        <4>1. b \in Seq(CmdSet) /\ a \in Seq(CmdSet)
          BY <1>1, <2>1
        <4>2. t = b \o a
          BY <2>2, <3>1
        <4>3. t \in Seq(CmdSet) /\ Len(t) = Len(b) + Len(a) /\ (\A i \in 1..Len(b) : t[i] = b[i])
              /\ \A i \in 1..Len(a) : t[Len(b) + i] = a[i]
          BY <4>1, <4>2
        <4>4. Len(b) = 7 + 2 * n /\ Len(a) = 1 /\ a[1] = o
          BY <1>1, <2>1
        <4>5. Len(t) = 8 + 2 * n /\ t[8 + 2 * n] = o
          BY <2>1, <4>3, <4>4
        <4>6. \A i \in 8 + 2 * n..Len(t) : i = 8 + 2 * n
          BY <2>1, <4>5
        <4>7. Len(t) >= 7 + 2 * n /\ \A i \in 1..7 + 2 * n : t[i] = b[i]
          BY <2>1, <4>3, <4>4
        <4> QED BY <3>1, <4>3, <4>5, <4>6, <4>7
      <3>2. CASE prog # "fakehttp"
        <4>1. t = b
          BY <2>2, <3>2
        <4>b. Len(b) = 7 + 2 * n /\ n \in Nat
          BY <2>1
        <4>2. \A i \in 8 + 2 * n..Len(b) : FALSE
          BY ONLY <4>b
        <4>3. Len(b) >= 7 + 2 * n
          BY <2>1
        <4> QED BY <2>1, <4>1, <4>2, <4>3
      <3> QED BY <3>1, <3>2
    <2> HIDE DEF o
    <2>5. \A i \in 6..7 + 2 * n : Tabled(b[i], c)
      <3> SUFFICES ASSUME NEW i \in 6..7 + 2 * n PROVE Tabled(b[i], c)
        OBVIOUS
      <3>a. n \in Nat /\ i \in Nat /\ 6 <= i /\ i <= 7 + 2 * n
        BY <2>1
      <3>1. i - 5 \in 1..n \/ i - 5 - n \in 1..n \/ i = 6 + 2 * n \/ i = 7 + 2 * n
        BY ONLY <3>a
      <3>2. CASE i - 5 \in 1..n
        <4>1. b[5 + (i - 5)] = Add("S", Excluded[i - 5]) /\ 5 + (i - 5) = i
          BY <2>1, <3>2
        <4> QED BY <2>3, <3>2, <4>1 DEF Tabled, ExcludedSet
      <3>3. CASE i - 5 - n \in 1..n
        <4>1. b[5 + n + (i - 5 - n)] = Add("D", Excluded[i - 5 - n]) /\ 5 + n + (i - 5 - n) = i
          BY <2>1, <3>3
        <4> QED BY <2>3, <3>3, <4>1 DEF Tabled, ExcludedSet
      <3>4. CASE i = 6 + 2 * n \/ i = 7 + 2 * n
        BY <2>1, <3>4 DEF Tabled
      <3> QED BY <3>1, <3>2, <3>3, <3>4
    <2>6. \A i \in 6..Len(t) : Tabled(t[i], c) \/ (prog = "fakehttp" /\ t[i] = o)
      BY <2>1, <2>4, <2>5
    <2>7. ASSUME NEW r \in ExcludedSet, NEW x \in {"S", "D"}
          PROVE  \E i \in 6..Len(t) : t[i] = Add(x, r)
      <3>1. PICK k \in 1..n : r = Excluded[k]
        BY <2>3 DEF ExcludedSet
      <3>2. 5 + k \in 6..7 + 2 * n /\ 5 + n + k \in 6..7 + 2 * n
        BY <2>1
      <3>3. t[5 + k] = Add("S", r) /\ t[5 + n + k] = Add("D", r)
        BY <2>1, <2>4, <3>1, <3>2
      <3>4. 5 + k \in 6..Len(t) /\ 5 + n + k \in 6..Len(t)
        BY <2>1, <2>4, <3>2
      <3> QED BY <3>3, <3>4
    <2>8. \E i \in 6..Len(t) : \E m \in 6..i - 1 :
             /\ t[i] = Add("R", Main) /\ t[m] = Add("R", MarkRule(c))
             /\ \A k \in 6..Len(t) : t[k] = Add("R", Main) \/ t[k] = o => k >= i
      <3> DEFINE i == 7 + 2 * n
                 m == 6 + 2 * n
      <3>1. i \in 6..Len(t) /\ m \in 6..i - 1 /\ t[i] = Add("R", Main) /\ t[m] = Add("R", MarkRule(c))
        BY <2>1, <2>4
      <3>2. ASSUME NEW k \in 6..Len(t), t[k] = Add("R", Main) \/ t[k] = o, k < i
            PROVE  FALSE
        <4>1. k - 5 \in 1..n \/ k - 5 - n \in 1..n \/ k = m
          BY <2>1, <3>2
        <4>2. t[k] = b[k]
          BY <2>1, <2>4, <3>2
        <4>3. CASE k = m
          BY <3>1, <3>2, <4>3, MainAlone DEF o
        <4>4. CASE k - 5 \in 1..n
          <5>2. \A j \in 1..n : b[5 + j] = Add("S", Excluded[j])
            BY <2>1
          <5>3. 5 + (k - 5) = k
            BY <3>2
          <5>1. b[5 + (k - 5)] = Add("S", Excluded[k - 5]) /\ 5 + (k - 5) = k
            BY ONLY <4>4, <5>2, <5>3
          <5> QED BY <3>2, <4>2, <5>1, MainAlone DEF o
        <4>5. CASE k - 5 - n \in 1..n
          <5>2. \A j \in 1..n : b[5 + n + j] = Add("D", Excluded[j])
            BY <2>1
          <5>3. 5 + n + (k - 5 - n) = k
            BY <2>1, <3>2
          <5>1. b[5 + n + (k - 5 - n)] = Add("D", Excluded[k - 5 - n]) /\ 5 + n + (k - 5 - n) = k
            BY ONLY <4>5, <5>2, <5>3
          <5> QED BY <3>2, <4>2, <5>1, MainAlone DEF o
        <4> QED BY <4>1, <4>3, <4>4, <4>5
      <3>3. \A k \in 6..Len(t) : t[k] = Add("R", Main) \/ t[k] = o => k >= i
        BY <2>1, <3>2
      <3> HIDE DEF i, m
      <3> QED BY <3>1, <3>3
    <2>9. Len(t) >= 7 /\ \A i \in 1..5 : t[i] = Five[i]
      BY <2>1, <2>4
    <2> QED BY <1>2, <2>4, <2>6, <2>7, <2>8, <2>9 DEF TableForm, t, o
  <1>3. CASE tool = "nft"
    <2> DEFINE b == <<OneBatch(c)>>
    <2>1. b \in Seq(CmdSet) /\ Len(b) = 1 /\ b[1] = OneBatch(c)
      BY OneBatchIs
    <2>2. t = IF prog = "fakehttp" THEN b \o a ELSE b
      BY <1>3 DEF Table
    <2> HIDE DEF b, a, t, o
    <2>3. t \in Seq(CmdSet) /\ Len(t) >= 1 /\ t[1] = OneBatch(c) /\ \A i \in 2..Len(t) : prog = "fakehttp" /\ t[i] = o
      <3>1. CASE prog = "fakehttp"
        <4>1. b \in Seq(CmdSet) /\ a \in Seq(CmdSet)
          BY <1>1, <2>1
        <4>2. t = b \o a
          BY <2>2, <3>1
        <4>3. t \in Seq(CmdSet) /\ Len(t) = Len(b) + Len(a) /\ (\A i \in 1..Len(b) : t[i] = b[i])
              /\ \A i \in 1..Len(a) : t[Len(b) + i] = a[i]
          BY <4>1, <4>2
        <4>4. Len(t) = 2 /\ t[2] = o /\ t[1] = OneBatch(c)
          BY <1>1, <2>1, <4>3
        <4>5. \A i \in 2..Len(t) : i = 2
          BY <4>4
        <4> QED BY <3>1, <4>3, <4>4, <4>5
      <3>2. CASE prog # "fakehttp"
        <4>1. t = b
          BY <2>2, <3>2
        <4>2. \A i \in 2..Len(b) : FALSE
          BY <2>1
        <4>3. b \in Seq(CmdSet) /\ Len(b) >= 1
          BY <2>1
        <4> QED BY <2>1, <4>1, <4>2, <4>3
      <3> QED BY <3>1, <3>2
    <2> QED BY <1>3, <2>3 DEF TableForm, t, o
  <1> QED BY <1>2, <1>3 DEF World

\* A rule that a command before the i-th has put into the chain x.
Before(l, i, x, r) == \E j \in 1..i - 1 : Provides(l[j], x, r)

Fits(l, i, c) ==
    \/ \E r \in ExcludedSet : l[i] = Add("S", r) \/ l[i] = Add("D", r)
    \/ l[i] = Add("R", MarkRule(c))
    \/ /\ l[i] = Add("R", Main) \/ (prog = "fakehttp" /\ l[i] = Optional("R", EarlyAckRule))
       /\ Before(l, i, "R", MarkRule(c))
    \/ /\ Scoped(l[i], c)
       /\ \A x \in {"S", "D"} : \A r \in ExcludedSet : Before(l, i, x, r)

First == IF tool = "iptables" THEN 5 ELSE 1

MakingForm(c) ==
    LET l == Making(c) IN
    /\ l \in Seq(CmdSet) /\ Len(l) >= First
    /\ tool = "iptables" => \A i \in 1..5 : l[i] = Five[i]
    /\ tool = "nft" => l[1] = OneBatch(c)
    /\ \A i \in First + 1..Len(l) : Fits(l, i, c)
    /\ \A x \in {"S", "D"} : \A r \in ExcludedSet \cup Jumping(c) : Before(l, Len(l) + 1, x, r)
    /\ \A r \in Dropping(c) : Before(l, Len(l) + 1, "S", r)
    /\ Before(l, Len(l) + 1, "R", MarkRule(c)) /\ Before(l, Len(l) + 1, "R", Main)

LEMMA AddProvides ==
    /\ \A x, r : Provides(Add(x, r), x, r)
    /\ \A r : Provides(Insert("S", r), "S", r)
  <1>1. \A x, r : Add(x, r).op = "append" /\ Add(x, r).chain = x /\ Add(x, r).rule = r
    BY DEF Add, Cmd
  <1>2. \A r : Insert("S", r).op = "insert" /\ Insert("S", r).chain = "S" /\ Insert("S", r).rule = r
    BY DEF Insert, Cmd
  <1> QED BY <1>1, <1>2 DEF Provides

LEMMA BatchProvides ==
    ASSUME NEW c \in Configs
    PROVE  /\ \A x \in {"S", "D"} : \A r \in ExcludedSet : Provides(OneBatch(c), x, r)
           /\ Provides(OneBatch(c), "R", MarkRule(c)) /\ Provides(OneBatch(c), "R", Main)
  <1>1. /\ \A x \in {"S", "D"} : OneBatch(c).rule[x] = Excluded
        /\ OneBatch(c).rule["R"] = MarkThenQueue(c, Main) /\ OneBatch(c).op = "batch"
    BY OneBatchIs DEF Chains
  <1>2. \A x \in {"S", "D"} : \A r \in ExcludedSet : \E k \in DOMAIN OneBatch(c).rule[x] : OneBatch(c).rule[x][k] = r
    BY <1>1 DEF ExcludedSet
  <1>3. /\ \E k \in DOMAIN OneBatch(c).rule["R"] : OneBatch(c).rule["R"][k] = MarkRule(c)
        /\ \E k \in DOMAIN OneBatch(c).rule["R"] : OneBatch(c).rule["R"][k] = Main
    <2> DEFINE q == MarkThenQueue(c, Main)
    <2>1. q \in Seq(RuleSet) /\ Len(q) = 2 /\ q[1] = MarkRule(c) /\ q[2] = Main
      BY MarkAndMain
    <2> HIDE DEF q
    <2>2. 1 \in DOMAIN q /\ 2 \in DOMAIN q
      BY <2>1
    <2>3. OneBatch(c).rule["R"] = q
      BY <1>1 DEF q
    <2> QED BY <2>1, <2>2, <2>3
  <1> QED BY <1>1, <1>2, <1>3 DEF Provides

LEMMA MakingFits ==
    ASSUME World, NEW c \in Configs
    PROVE  MakingForm(c)
  <1> DEFINE t == Table(c)
             s == ForScopes(c)
             l == Making(c)
             a == Len(t)
             b == Len(s)
             o == Optional("R", EarlyAckRule)
  <1>1. TableForm(c)
    BY TableIs
  <1>2. /\ s \in Seq(CmdSet)
        /\ \A i \in 1..b : Scoped(s[i], c)
        /\ \A r \in Jumping(c) : \A x \in {"S", "D"} : \E i \in 1..b : s[i] = Add(x, r)
        /\ \A r \in Dropping(c) : \E i \in 1..b : s[i] = Insert("S", r)
    BY ScopesDone
  <1>3. t \in Seq(CmdSet) /\ a \in Nat /\ b \in Nat /\ a >= First
    BY <1>1, <1>2 DEF TableForm, World, First
  <1>4. l = t \o s
    BY MakingIs
  <1> HIDE DEF t, s, l
  <1>5. /\ l \in Seq(CmdSet) /\ Len(l) = a + b
        /\ \A i \in 1..a : l[i] = t[i]
        /\ \A k \in 1..b : l[a + k] = s[k]
    <2>1. t \in Seq(CmdSet) /\ s \in Seq(CmdSet)
      BY <1>2, <1>3
    <2> QED BY <1>4, <2>1
  <1> HIDE DEF a, b, o
  <1>6. \A i \in a + 1..a + b : i - a \in 1..b /\ l[i] = s[i - a]
    <2> SUFFICES ASSUME NEW i \in a + 1..a + b PROVE i - a \in 1..b /\ l[i] = s[i - a]
      OBVIOUS
    <2>1. i - a \in 1..b /\ a + (i - a) = i
      BY <1>3
    <2> QED BY <1>5, <2>1
  <1>7. \A i \in 1..a : i \in 1..Len(l)
    BY <1>3, <1>5
  <1>8. /\ \A x \in {"S", "D"} : \A r \in ExcludedSet : \E j \in 1..a : Provides(t[j], x, r)
        /\ \E j \in 1..a : Provides(t[j], "R", MarkRule(c))
        /\ \E j \in 1..a : Provides(t[j], "R", Main)
    <2>1. CASE tool = "iptables"
      <3>1. /\ a >= 7
            /\ \A r \in ExcludedSet : \A x \in {"S", "D"} : \E i \in 6..a : t[i] = Add(x, r)
            /\ \E i \in 6..a : \E m \in 6..i - 1 : t[i] = Add("R", Main) /\ t[m] = Add("R", MarkRule(c))
        BY <1>1, <2>1 DEF TableForm, t, a
      <3>2. \A i \in 6..a : i \in 1..a /\ \A m \in 6..i - 1 : m \in 1..a
        BY <1>3
      <3> QED BY <3>1, <3>2, AddProvides
    <2>2. CASE tool = "nft"
      <3>1. a >= 1 /\ t[1] = OneBatch(c)
        BY <1>1, <2>2 DEF TableForm, t, a
      <3>2. 1 \in 1..a
        BY <1>3, <3>1
      <3> QED BY <3>1, <3>2, BatchProvides
    <2> QED BY <2>1, <2>2 DEF World
  <1>9. ASSUME NEW i \in a + 1..a + b
        PROVE  Fits(l, i, c)
    <2>1. Scoped(l[i], c)
      BY <1>2, <1>6 DEF b
    <2>2. \A j \in 1..a : j \in 1..i - 1
      BY <1>3
    <2>3. \A x \in {"S", "D"} : \A r \in ExcludedSet : Before(l, i, x, r)
      BY <1>5, <1>8, <2>2 DEF Before
    <2> QED BY <2>1, <2>3 DEF Fits
  <1>10. ASSUME NEW i \in First + 1..a
         PROVE  Fits(l, i, c)
    <2>1. i \in 1..a /\ l[i] = t[i]
      <3>1. First >= 1 /\ First \in Nat
        BY DEF First
      <3>2. i \in 1..a
        BY <1>3, <3>1
      <3> QED BY <1>5, <3>2
    <2>2. CASE tool = "iptables"
      <3>1. i \in 6..a
        BY <2>2 DEF First
      <3>2. Tabled(t[i], c) \/ (prog = "fakehttp" /\ t[i] = o)
        BY <1>1, <2>2, <3>1 DEF TableForm, t, a, o
      <3>3. ASSUME t[i] = Add("R", Main) \/ t[i] = o
            PROVE  Before(l, i, "R", MarkRule(c))
        <4>1. PICK n \in 6..a : \E m \in 6..n - 1 :
                 /\ t[m] = Add("R", MarkRule(c))
                 /\ \A k \in 6..a : t[k] = Add("R", Main) \/ t[k] = o => k >= n
          BY <1>1, <2>2 DEF TableForm, t, a, o
        <4>2. PICK m \in 6..n - 1 : t[m] = Add("R", MarkRule(c))
          BY <4>1
        <4>3. i >= n
          BY <3>1, <3>3, <4>1
        <4>4. m \in 1..i - 1 /\ m \in 1..a
          BY <1>3, <3>1, <4>3
        <4>5. l[m] = Add("R", MarkRule(c))
          BY <1>5, <4>2, <4>4
        <4> QED BY <4>4, <4>5, AddProvides DEF Before
      <3> QED BY <2>1, <3>2, <3>3 DEF Fits, Tabled, o
    <2>3. CASE tool = "nft"
      <3>1. i \in 2..a
        BY <2>3 DEF First, World
      <3>2. prog = "fakehttp" /\ t[i] = o /\ t[1] = OneBatch(c)
        BY <1>1, <2>3, <3>1 DEF TableForm, t, a, o
      <3>3. 1 \in 1..i - 1 /\ 1 \in 1..a
        BY <1>3, <3>1
      <3>4. l[1] = OneBatch(c)
        BY <1>5, <3>2, <3>3
      <3>5. Before(l, i, "R", MarkRule(c))
        BY <3>3, <3>4, BatchProvides DEF Before
      <3> QED BY <2>1, <3>2, <3>5 DEF Fits, o
    <2> QED BY <2>2, <2>3 DEF World
  <1>11. \A i \in First + 1..Len(l) : Fits(l, i, c)
    <2>1. \A i \in First + 1..a + b : i \in First + 1..a \/ i \in a + 1..a + b
      BY <1>3 DEF First
    <2> QED BY <1>5, <1>9, <1>10, <2>1
  <1>12. \A j \in 1..a : j \in 1..Len(l) + 1 - 1
    BY <1>3, <1>5
  <1>13. \A k \in 1..b : a + k \in 1..Len(l) + 1 - 1
    BY <1>3, <1>5
  <1>14. \A x \in {"S", "D"} : \A r \in ExcludedSet : Before(l, Len(l) + 1, x, r)
    BY <1>5, <1>8, <1>12 DEF Before
  <1>15. Before(l, Len(l) + 1, "R", MarkRule(c)) /\ Before(l, Len(l) + 1, "R", Main)
    BY <1>5, <1>8, <1>12 DEF Before
  <1>16. \A x \in {"S", "D"} : \A r \in Jumping(c) : Before(l, Len(l) + 1, x, r)
    <2> SUFFICES ASSUME NEW x \in {"S", "D"}, NEW r \in Jumping(c) PROVE Before(l, Len(l) + 1, x, r)
      OBVIOUS
    <2>1. PICK k \in 1..b : s[k] = Add(x, r)
      BY <1>2 DEF b
    <2>2. l[a + k] = Add(x, r)
      BY <1>5, <2>1
    <2> QED BY <1>13, <2>2, AddProvides DEF Before
  <1>17. \A r \in Dropping(c) : Before(l, Len(l) + 1, "S", r)
    <2> SUFFICES ASSUME NEW r \in Dropping(c) PROVE Before(l, Len(l) + 1, "S", r)
      OBVIOUS
    <2>1. PICK k \in 1..b : s[k] = Insert("S", r)
      BY <1>2 DEF b
    <2>2. l[a + k] = Insert("S", r)
      BY <1>5, <2>1
    <2> QED BY <1>13, <2>2, AddProvides DEF Before
  <1>18. Len(l) >= First
    BY <1>3, <1>5 DEF First
  <1>19. tool = "iptables" => \A i \in 1..5 : l[i] = Five[i]
    <2> SUFFICES ASSUME tool = "iptables", NEW i \in 1..5 PROVE l[i] = Five[i]
      OBVIOUS
    <2>1. i \in 1..a /\ t[i] = Five[i]
      BY <1>1 DEF TableForm, t, a
    <2> QED BY <1>5, <2>1
  <1>20. tool = "nft" => l[1] = OneBatch(c)
    <2> SUFFICES ASSUME tool = "nft" PROVE l[1] = OneBatch(c)
      OBVIOUS
    <2>1. 1 \in 1..a /\ t[1] = OneBatch(c)
      BY <1>1 DEF TableForm, t, a
    <2> QED BY <1>5, <2>1
  <1> QED BY <1>5, <1>11, <1>14, <1>15, <1>16, <1>17, <1>18, <1>19, <1>20 DEF MakingForm, l

CleanupForm ==
    /\ Cleanup \in Seq(CmdSet) /\ \A i \in 1..Len(Cleanup) : Cleanup[i].op \in Removal
    /\ tool = "iptables" =>
          /\ Len(Cleanup) = 8
          /\ Cleanup[1] = Undo("flush", "R") /\ Cleanup[2] = Undo("flush", "S") /\ Cleanup[3] = Undo("flush", "D")
          /\ Cleanup[4] = Undo("unhook", "S") /\ Cleanup[5] = Undo("unhook", "D")
          /\ Cleanup[6] = Undo("delete", "R") /\ Cleanup[7] = Undo("delete", "S") /\ Cleanup[8] = Undo("delete", "D")
    /\ tool = "nft" => Len(Cleanup) = 1 /\ Cleanup[1] = Undo("delete table", "S")

LEMMA CleanupIs ==
    ASSUME World
    PROVE  CleanupForm
  <1>1. \A op \in Removal, x \in Chains : Undo(op, x) \in CmdSet /\ Undo(op, x).op \in Removal
    BY SimpleCommands DEF Undo, Cmd
  <1>2. CASE tool = "iptables"
    <2> DEFINE a == Undo("flush", "R") b == Undo("flush", "S") d == Undo("flush", "D")
               e == Undo("unhook", "S") f == Undo("unhook", "D")
               g == Undo("delete", "R") h == Undo("delete", "S") i == Undo("delete", "D")
    <2> DEFINE Ok(x) == x \in CmdSet /\ x.op \in Removal
    <2>1. Ok(a) /\ Ok(b) /\ Ok(d) /\ Ok(e) /\ Ok(f) /\ Ok(g) /\ Ok(h) /\ Ok(i)
      BY <1>1 DEF Removal, Chains
    <2>2. Cleanup = <<a, b, d, e, f, g, h, i>>
      BY <1>2 DEF Cleanup, IptCleanup
    <2> HIDE DEF a, b, d, e, f, g, h, i
    <2>3. /\ Cleanup \in Seq(CmdSet) /\ Len(Cleanup) = 8
          /\ Cleanup[1] = a /\ Cleanup[2] = b /\ Cleanup[3] = d /\ Cleanup[4] = e
          /\ Cleanup[5] = f /\ Cleanup[6] = g /\ Cleanup[7] = h /\ Cleanup[8] = i
      BY <2>1, <2>2
    <2>4. \A n \in 1..Len(Cleanup) : Cleanup[n].op \in Removal
      BY <2>1, <2>3
    <2> QED BY <1>2, <2>3, <2>4 DEF CleanupForm, a, b, d, e, f, g, h, i
  <1>3. CASE tool = "nft"
    <2> DEFINE a == Undo("delete table", "S")
    <2>1. a \in CmdSet /\ a.op \in Removal
      BY <1>1 DEF Removal, Chains
    <2>2. Cleanup = <<a>>
      BY <1>3 DEF Cleanup, NftCleanup
    <2> HIDE DEF a
    <2>3. Cleanup \in Seq(CmdSet) /\ Len(Cleanup) = 1 /\ Cleanup[1] = a /\ \A n \in 1..Len(Cleanup) : Cleanup[n].op \in Removal
      BY <2>1, <2>2
    <2> QED BY <1>3, <2>3 DEF CleanupForm, a
  <1> QED BY <1>2, <1>3 DEF World

LEMMA SetupIs ==
    ASSUME World, NEW c \in Configs
    PROVE  /\ Setup(c) \in Seq(CmdSet) /\ Len(Setup(c)) = Len(Cleanup) + Len(Making(c))
           /\ \A i \in 1..Len(Cleanup) : Setup(c)[i] = Cleanup[i]
           /\ \A k \in 1..Len(Making(c)) : Setup(c)[Len(Cleanup) + k] = Making(c)[k]
  <1> DEFINE a == Cleanup
             b == Making(c)
             u == Setup(c)
  <1>1. a \in Seq(CmdSet) /\ b \in Seq(CmdSet)
    BY CleanupIs, MakingFits DEF CleanupForm, MakingForm
  <1>2. u = a \o b
    BY DEF Setup
  <1> HIDE DEF a, b, u
  <1>3. /\ u \in Seq(CmdSet) /\ Len(u) = Len(a) + Len(b)
        /\ \A i \in 1..Len(a) : u[i] = a[i]
        /\ \A k \in 1..Len(b) : u[Len(a) + k] = b[k]
    BY <1>1, <1>2
  <1> QED BY <1>3 DEF a, b, u

---------------------------------------------------------------------------
(* What becomes of a packet *)

LEMMA Least ==
    ASSUME NEW T, T \subseteq Nat, T # {}
    PROVE  \E x \in T : \A y \in T : x <= y
  <1> DEFINE R == OpToRel(<, Nat)
  <1>1. IsWellFoundedOn(R, Nat)
    BY NatLessThanWellFounded
  <1>2. \A x, y \in Nat : <<x, y>> \in R <=> x < y
    BY DEF OpToRel
  <1> HIDE DEF R
  <1>3. PICK x \in T : \A y \in T : ~ (<<y, x>> \in R)
    BY <1>1, WFMin
  <1>4. \A y \in T : ~(y < x)
    BY <1>2, <1>3
  <1>5. \A y \in T : x <= y
    BY <1>4
  <1> QED BY <1>5

Verdict(do) == IF do = "return" THEN "pass" ELSE IF do = "jump" THEN "queue" ELSE do
Decides(r, p, jump) == Matches(r, p) /\ (r.do = "jump" => jump = "queue")

\* The first rule that decides, or none.
LEMMA RuledIs ==
    ASSUME NEW x \in Chains, rules[x] \in Seq(RuleSet), NEW p, NEW jump
    PROVE  \/ /\ \A k \in DOMAIN rules[x] : ~Decides(rules[x][k], p, jump)
              /\ Ruled(x, p, jump) = "pass"
           \/ \E k \in DOMAIN rules[x] :
                 /\ Decides(rules[x][k], p, jump)
                 /\ \A j \in DOMAIN rules[x] : Decides(rules[x][j], p, jump) => k <= j
                 /\ Ruled(x, p, jump) = Verdict(rules[x][k].do)
  <1> DEFINE l == rules[x]
             D == {k \in DOMAIN l : Matches(l[k], p) /\ (l[k].do = "jump" => jump = "queue")}
  <1>1. D \subseteq Nat /\ \A k \in DOMAIN l : k \in D <=> Decides(l[k], p, jump)
    BY DEF Decides
  <1>2. CASE D = {}
    <2>1. Ruled(x, p, jump) = "pass"
      BY <1>2 DEF Ruled
    <2> QED BY <1>1, <1>2, <2>1
  <1>3. CASE D # {}
    <2> DEFINE m == CHOOSE k \in D : \A j \in D : k <= j
    <2>1. Ruled(x, p, jump) = LET do == l[m].do IN CASE do = "return" -> "pass" [] do = "jump" -> "queue" [] OTHER -> do
      BY <1>3 DEF Ruled
    <2>2. \E k \in D : \A j \in D : k <= j
      <3> HIDE DEF D
      <3> QED BY <1>1, <1>3, Least
    <2>3. m \in D /\ \A j \in D : m <= j
      <3> HIDE DEF D
      <3> QED BY <2>2
    <2> HIDE DEF m
    <2>4. Ruled(x, p, jump) = Verdict(l[m].do)
      BY <2>1 DEF Verdict
    <2>5. m \in DOMAIN l
      BY <2>3
    <2> QED BY <1>1, <2>3, <2>4, <2>5
  <1> QED BY <1>2, <1>3

InScope(c, p) == c.all \/ p.iface \in {c.ifaces[k] : k \in DOMAIN c.ifaces}
Kinds == IF prog = "fakehttp" THEN {"syn", "ack 2-4"} ELSE {"udp 1-5"}
Marked(c, p) == p.mark \cap c.mask = c.mark

LEMMA MatchesOne ==
    ASSUME NEW p, NEW m, NEW do
    PROVE  /\ m[1] = "addr" => (Matches(Rule({m}, do), p) <=> In(p.far, m[2]))
           /\ m[1] = "not addr" => (Matches(Rule({m}, do), p) <=> ~In(p.far, m[2]))
           /\ m[1] = "iface" => (Matches(Rule({m}, do), p) <=> p.iface = m[2])
           /\ m[1] = "mark" => (Matches(Rule({m}, do), p) <=> p.mark \cap m[3] = m[2])
           /\ m[1] = "kind" => (Matches(Rule({m}, do), p) <=> p.kind = m[2])
  <1>1. Rule({m}, do).on = {m}
    BY DEF Rule
  <1> QED BY <1>1 DEF Matches

LEMMA MatchesMark ==
    ASSUME NEW c, NEW p
    PROVE  Matches(MarkRule(c), p) <=> Marked(c, p)
  <1> DEFINE m == <<"mark", c.mark, c.mask>>
  <1>1. m[1] = "mark" /\ m[2] = c.mark /\ m[3] = c.mask /\ MarkRule(c) = Rule({m}, "return")
    BY DEF MarkRule
  <1> HIDE DEF m
  <1>2. Matches(Rule({m}, "return"), p) <=> p.mark \cap m[3] = m[2]
    BY <1>1, MatchesOne
  <1>3. Matches(MarkRule(c), p) <=> p.mark \cap c.mask = c.mark
    BY <1>1, <1>2
  <1> QED BY <1>3 DEF Marked

LEMMA MatchesKind ==
    ASSUME NEW p
    PROVE  /\ Matches(SynRule, p) <=> p.kind = "syn"
           /\ Matches(UdpRule, p) <=> p.kind = "udp 1-5"
           /\ Matches(EarlyAckRule, p) <=> p.kind = "ack 2-4"
  <1>1. ASSUME NEW kind
        PROVE  Matches(Rule({<<"kind", kind>>}, "queue"), p) <=> p.kind = kind
    <2> DEFINE m == <<"kind", kind>>
    <2>1. m[1] = "kind" /\ m[2] = kind
      OBVIOUS
    <2> HIDE DEF m
    <2>2. Matches(Rule({m}, "queue"), p) <=> p.kind = kind
      BY <2>1, MatchesOne
    <2> QED BY <2>2 DEF m
  <1> QED BY <1>1 DEF SynRule, UdpRule, EarlyAckRule

LEMMA MatchesAddress ==
    ASSUME NEW p, NEW a
    PROVE  /\ Matches(Rule({<<"addr", a>>}, "return"), p) <=> In(p.far, a)
           /\ Matches(Rule({<<"not addr", a>>}, "return"), p) <=> ~In(p.far, a)
  <1>1. Matches(Rule({<<"addr", a>>}, "return"), p) <=> In(p.far, a)
    <2> DEFINE m == <<"addr", a>>
    <2>1. m[1] = "addr" /\ m[2] = a
      OBVIOUS
    <2> HIDE DEF m
    <2>2. Matches(Rule({m}, "return"), p) <=> In(p.far, a)
      BY <2>1, MatchesOne
    <2> QED BY <2>2 DEF m
  <1>2. Matches(Rule({<<"not addr", a>>}, "return"), p) <=> ~In(p.far, a)
    <2> DEFINE m == <<"not addr", a>>
    <2>1. m[1] = "not addr" /\ m[2] = a
      OBVIOUS
    <2> HIDE DEF m
    <2>2. Matches(Rule({m}, "return"), p) <=> ~In(p.far, a)
      BY <2>1, MatchesOne
    <2> QED BY <2>2 DEF m
  <1> QED BY <1>1, <1>2

\* A rule for an interface, alone or with the kind that fakesip drops.
LEMMA MatchesScope ==
    ASSUME NEW c \in Configs, NEW k \in DOMAIN Scopes(c), NEW p
    PROVE  /\ Matches(Rule(Scopes(c)[k], "jump"), p) <=> c.all \/ p.iface = c.ifaces[k]
           /\ Matches(Exceeded(Scopes(c)[k]), p) <=> p.kind = "time exceeded" /\ (c.all \/ p.iface = c.ifaces[k])
  <1> DEFINE e == <<"kind", "time exceeded">>
  <1>1. e[1] = "kind" /\ e[2] = "time exceeded"
    OBVIOUS
  <1>2. c.all \in BOOLEAN
    BY RulesAssumption
  <1>3. CASE c.all
    <2>1. k = 1 /\ Scopes(c)[k] = {}
      BY <1>3 DEF Scopes
    <2>2. Rule({}, "jump").on = {}
      BY DEF Rule
    <2>3. Exceeded({}) = Rule({e}, "drop")
      <3>1. {} \cup {e} = {e}
        OBVIOUS
      <3> QED BY <3>1 DEF Exceeded
    <2> HIDE DEF e
    <2>a. Matches(Rule({e}, "drop"), p) <=> p.kind = e[2]
      BY <1>1, MatchesOne
    <2>4. Matches(Exceeded({}), p) <=> p.kind = "time exceeded"
      BY <1>1, <2>3, <2>a
    <2>5. Matches(Rule({}, "jump"), p)
      BY <2>2 DEF Matches
    <2> QED BY <1>3, <2>1, <2>4, <2>5
  <1>4. CASE ~c.all
    <2> DEFINE m == <<"iface", c.ifaces[k]>>
    <2>1. Scopes(c)[k] = {m} /\ m[1] = "iface" /\ m[2] = c.ifaces[k]
      BY <1>4 DEF Scopes
    <2>2. Exceeded({m}).on = {m, e}
      <3>1. {m} \cup {e} = {m, e}
        OBVIOUS
      <3> QED BY <3>1 DEF Exceeded, Rule
    <2> HIDE DEF m, e
    <2>3. Matches(Rule({m}, "jump"), p) <=> p.iface = c.ifaces[k]
      BY <2>1, MatchesOne
    <2>4. Matches(Exceeded({m}), p) <=> p.iface = c.ifaces[k] /\ p.kind = "time exceeded"
      BY <1>1, <2>1, <2>2 DEF Matches
    <2> QED BY <1>4, <2>1, <2>3, <2>4
  <1> QED BY <1>2, <1>3, <1>4

LEMMA ScopeRules ==
    ASSUME NEW c \in Configs, NEW p
    PROVE  /\ \A r \in Jumping(c) : Matches(r, p) => InScope(c, p)
           /\ InScope(c, p) => \E r \in Jumping(c) : Matches(r, p)
           /\ \A r \in Dropping(c) : Matches(r, p) => InScope(c, p) /\ p.kind = "time exceeded" /\ prog = "fakesip"
           /\ InScope(c, p) /\ p.kind = "time exceeded" /\ prog = "fakesip" => \E r \in Dropping(c) : Matches(r, p)
  <1>0. c.all \in BOOLEAN /\ (~c.all => DOMAIN Scopes(c) = DOMAIN c.ifaces) /\ (c.all => 1 \in DOMAIN Scopes(c))
    <2>1. c.all \in BOOLEAN
      BY RulesAssumption
    <2>2. ~c.all => DOMAIN Scopes(c) = DOMAIN c.ifaces
      BY DEF Scopes
    <2>3. c.all => 1 \in DOMAIN Scopes(c)
      BY DEF Scopes
    <2> QED BY <2>1, <2>2, <2>3
  <1>1. \A r \in Jumping(c) : Matches(r, p) => InScope(c, p)
    <2> SUFFICES ASSUME NEW k \in DOMAIN Scopes(c), Matches(Rule(Scopes(c)[k], "jump"), p) PROVE InScope(c, p)
      BY DEF Jumping
    <2>1. c.all \/ p.iface = c.ifaces[k]
      BY MatchesScope
    <2> QED BY <1>0, <2>1 DEF InScope
  <1>2. \A r \in Dropping(c) : Matches(r, p) => InScope(c, p) /\ p.kind = "time exceeded" /\ prog = "fakesip"
    <2> SUFFICES ASSUME prog = "fakesip", NEW k \in DOMAIN Scopes(c), Matches(Exceeded(Scopes(c)[k]), p)
                 PROVE  InScope(c, p) /\ p.kind = "time exceeded"
      BY DEF Dropping
    <2>1. p.kind = "time exceeded" /\ (c.all \/ p.iface = c.ifaces[k])
      BY MatchesScope
    <2> QED BY <1>0, <2>1 DEF InScope
  <1>3. ASSUME InScope(c, p)
        PROVE  \E k \in DOMAIN Scopes(c) : c.all \/ p.iface = c.ifaces[k]
    BY <1>0, <1>3 DEF InScope
  <1>4. InScope(c, p) => \E r \in Jumping(c) : Matches(r, p)
    BY <1>3, MatchesScope DEF Jumping
  <1>5. InScope(c, p) /\ p.kind = "time exceeded" /\ prog = "fakesip" => \E r \in Dropping(c) : Matches(r, p)
    BY <1>3, MatchesScope DEF Dropping
  <1> QED BY <1>1, <1>2, <1>4, <1>5

\* What is excluded is what the configuration does not mean.
LEMMA NoGlobalExcluded ==
    ASSUME World, NEW p \in Packets[family], Global(p.far), NEW r \in ExcludedSet
    PROVE  ~Matches(r, p)
  <1>1. PICK k \in DOMAIN Excluded : r = Excluded[k]
    BY DEF ExcludedSet
  <1>2. p.far = "global" \/ (p.far = "2002::/16" /\ prog = "fakesip")
    BY DEF Global
  <1>3. family = "ip" => p.far # "2002::/16"
    <2> SUFFICES ASSUME family = "ip" PROVE p.far # "2002::/16"
      OBVIOUS
    <2>1. p.far \in Addresses("ip")
      BY RulesAssumption
    <2>2. \A j \in DOMAIN Local4 : Local4[j] # "2002::/16"
      BY DEF Local4
    <2> QED BY <2>1, <2>2 DEF Addresses
  <1>4. CASE family = "ip"
    <2>1. k \in DOMAIN Local4 /\ r = Rule({<<"addr", Local4[k]>>}, "return")
      BY <1>1, <1>4 DEF Excluded, Exclude
    <2>2. \A j \in DOMAIN Local4 : Local4[j] # "global" /\ Local4[j] # "2000::/3"
      BY DEF Local4
    <2>3. ~In(p.far, Local4[k])
      BY <1>2, <1>3, <1>4, <2>1, <2>2 DEF In
    <2> QED BY <2>1, <2>3, MatchesAddress
  <1>5. CASE family = "ip6" /\ prog = "fakehttp"
    <2>1. k \in DOMAIN Special6 /\ r = Rule({<<"addr", Special6[k]>>}, "return")
      BY <1>1, <1>5 DEF Excluded, Exclude
    <2>2. \A j \in DOMAIN Special6 : Special6[j] # "global" /\ Special6[j] # "2000::/3"
      BY DEF Special6
    <2>3. ~In(p.far, Special6[k])
      BY <1>2, <1>5, <2>1, <2>2 DEF In
    <2> QED BY <2>1, <2>3, MatchesAddress
  <1>6. CASE family = "ip6" /\ prog = "fakesip"
    <2>1. r = Rule({<<"not addr", "2000::/3">>}, "return")
      <3> DEFINE q == Rule({<<"not addr", "2000::/3">>}, "return")
      <3>1. Excluded = <<q>>
        BY <1>6 DEF Excluded, NotGlobal6
      <3> HIDE DEF q
      <3>2. r = q
        BY <1>1, <3>1
      <3> QED BY <3>2 DEF q
    <2>2. In(p.far, "2000::/3")
      BY <1>2 DEF In
    <2> DEFINE a == "2000::/3"
    <2>3. r = Rule({<<"not addr", a>>}, "return") /\ In(p.far, a)
      BY <2>1, <2>2
    <2> HIDE DEF a
    <2> QED BY <2>3, MatchesAddress
  <1> QED BY <1>4, <1>5, <1>6 DEF World

LEMMA OthersExcluded ==
    ASSUME World, NEW p \in Packets[family], ~Global(p.far), p.kind \in Kinds
    PROVE  \E r \in ExcludedSet : Matches(r, p)
  <1>1. p.far \in Addresses(family) /\ (p.far = "ff00::/8" => p.kind \notin {"syn", "ack 2-4"})
    BY RulesAssumption DEF World
  <1>2. p.far # "global" /\ (p.far = "2002::/16" => prog = "fakehttp")
    BY DEF Global, World
  <1>3. CASE family = "ip"
    <2>1. PICK k \in DOMAIN Local4 : p.far = Local4[k]
      BY <1>1, <1>2, <1>3 DEF Addresses
    <2>2. Rule({<<"addr", Local4[k]>>}, "return") \in ExcludedSet
      BY <1>3 DEF ExcludedSet, Excluded, Exclude
    <2>3. In(p.far, Local4[k])
      BY <2>1 DEF In
    <2> QED BY <2>2, <2>3, MatchesAddress
  <1>4. CASE family = "ip6" /\ prog = "fakehttp"
    <2>1. PICK k \in DOMAIN Special6 : p.far = Special6[k]
      BY <1>1, <1>2, <1>4 DEF Addresses, Kinds
    <2>2. Rule({<<"addr", Special6[k]>>}, "return") \in ExcludedSet
      BY <1>4 DEF ExcludedSet, Excluded, Exclude
    <2>3. In(p.far, Special6[k])
      BY <2>1 DEF In
    <2> QED BY <2>2, <2>3, MatchesAddress
  <1>5. CASE family = "ip6" /\ prog = "fakesip"
    <2> DEFINE a == "2000::/3"
    <2>1. Rule({<<"not addr", a>>}, "return") \in ExcludedSet
      <3> DEFINE r == Rule({<<"not addr", "2000::/3">>}, "return")
      <3>1. Excluded = <<r>>
        BY <1>5 DEF Excluded, NotGlobal6
      <3> HIDE DEF r
      <3>2. r \in ExcludedSet
        <4>1. 1 \in DOMAIN Excluded /\ Excluded[1] = r
          BY <3>1
        <4> QED BY <4>1 DEF ExcludedSet
      <3> QED BY <3>2 DEF r
    <2>2. \A k \in DOMAIN Special6 : Special6[k] # "2000::/3"
      BY DEF Special6
    <2>3. p.far # "2000::/3"
      BY <1>1, <1>2, <1>5, <2>2 DEF Addresses
    <2>4. ~In(p.far, a)
      BY <1>2, <1>5, <2>3 DEF In
    <2> HIDE DEF a
    <2> QED BY <2>1, <2>4, MatchesAddress
  <1> QED BY <1>3, <1>4, <1>5 DEF World

\* R queues a kind of the program, unmarked.
LEMMA QueuedByR ==
    ASSUME NEW c \in Configs, rules["R"] \in Seq(RuleSet), Queues(c), NEW p
    PROVE  /\ Ruled("R", p, "pass") \in {"pass", "queue"}
           /\ Ruled("R", p, "pass") = "queue" => ~Marked(c, p) /\ p.kind \in Kinds
           /\ Have("R", Main) /\ ~Marked(c, p) /\ p.kind \in Kinds => Ruled("R", p, "pass") = "queue" \/ p.kind = "ack 2-4"
  <1> DEFINE l == rules["R"]
             q == Ruled("R", p, "pass")
  <1>1. /\ \A k \in DOMAIN l : l[k] \in {MarkRule(c)} \cup Queueing
        /\ \A k \in DOMAIN l : l[k] \in Queueing => \E j \in 1..k - 1 : l[j] = MarkRule(c)
    BY DEF Queues
  <1>2. MarkRule(c).do = "return" /\ \A r \in Queueing : r.do = "queue"
    BY RulesAre DEF RulesOf
  <1>3. \A k \in DOMAIN l : Decides(l[k], p, "pass") <=> Matches(l[k], p)
    BY <1>1, <1>2 DEF Decides
  <1>4. (Matches(MarkRule(c), p) <=> Marked(c, p)) /\ \A r \in Queueing : Matches(r, p) => p.kind \in Kinds
    BY MatchesMark, MatchesKind DEF Queueing, Kinds
  <1>5. \A k \in DOMAIN l : \A j \in 1..k - 1 : j \in DOMAIN l /\ ~(k <= j)
    OBVIOUS
  <1>6. CASE (\A k \in DOMAIN l : ~Decides(l[k], p, "pass")) /\ q = "pass"
    <2>1. ASSUME Have("R", Main), p.kind \in Kinds, p.kind # "ack 2-4"
          PROVE  FALSE
      <3>1. Matches(Main, p)
        BY <2>1, MatchesKind DEF Main, Kinds
      <3>2. PICK k \in DOMAIN l : l[k] = Main
        BY <2>1 DEF Have
      <3> QED BY <1>3, <1>6, <3>1, <3>2
    <2> QED BY <1>6, <2>1
  <1>7. ASSUME NEW k \in DOMAIN l, Decides(l[k], p, "pass"), q = Verdict(l[k].do),
               \A j \in DOMAIN l : Decides(l[j], p, "pass") => k <= j
        PROVE  /\ q \in {"pass", "queue"} /\ (q = "queue" => ~Marked(c, p) /\ p.kind \in Kinds)
               /\ ~Marked(c, p) => q = "queue"
    <2>1. CASE l[k] = MarkRule(c)
      <3>1. q = "pass"
        BY <1>2, <1>7, <2>1 DEF Verdict
      <3>2. Marked(c, p)
        BY <1>3, <1>4, <1>7, <2>1
      <3> QED BY <3>1, <3>2
    <2>2. CASE l[k] \in Queueing
      <3>1. q = "queue"
        BY <1>2, <1>7, <2>2 DEF Verdict
      <3>2. p.kind \in Kinds
        BY <1>3, <1>4, <1>7, <2>2
      <3>3. PICK j \in 1..k - 1 : l[j] = MarkRule(c)
        BY <1>1, <2>2
      <3>4. ~Decides(l[j], p, "pass") /\ j \in DOMAIN l
        BY <1>5, <1>7
      <3>5. ~Marked(c, p)
        BY <1>3, <1>4, <3>3, <3>4
      <3> QED BY <3>1, <3>2, <3>5
    <2> QED BY <1>1, <2>1, <2>2
  <1>8. \/ (\A k \in DOMAIN l : ~Decides(l[k], p, "pass")) /\ q = "pass"
        \/ \E k \in DOMAIN l : /\ Decides(l[k], p, "pass")
                               /\ \A j \in DOMAIN l : Decides(l[j], p, "pass") => k <= j
                               /\ q = Verdict(l[k].do)
    BY RuledIs DEF Chains
  <1> HIDE DEF q, l
  <1>9. q \in {"pass", "queue"} /\ (q = "queue" => ~Marked(c, p) /\ p.kind \in Kinds)
        /\ (Have("R", Main) /\ ~Marked(c, p) /\ p.kind \in Kinds => q = "queue" \/ p.kind = "ack 2-4")
    <2>1. CASE (\A k \in DOMAIN l : ~Decides(l[k], p, "pass")) /\ q = "pass"
      BY <1>6, <2>1 DEF q
    <2>2. CASE \E k \in DOMAIN l : /\ Decides(l[k], p, "pass")
                                  /\ \A j \in DOMAIN l : Decides(l[j], p, "pass") => k <= j
                                  /\ q = Verdict(l[k].do)
      BY <1>7, <2>2
    <2> QED BY <1>8, <2>1, <2>2
  <1> QED BY <1>9 DEF q

\* S and D hand to R what is in scope and not excluded, and drop what fakesip drops.
HookForm(x, c, p, q) ==
    LET a == Ruled(x, p, q) IN
    /\ a \in {"pass", "queue", "drop"}
    /\ a = "queue" => q = "queue" /\ InScope(c, p) /\ Global(p.far)
    /\ a = "drop" => x = "S" /\ prog = "fakesip" /\ InScope(c, p) /\ p.kind = "time exceeded"
    /\ (\A r \in Jumping(c) : Have(x, r)) /\ q = "queue" /\ InScope(c, p) /\ Global(p.far) => a = "queue"
    /\ x = "S" /\ (\A r \in Dropping(c) : Have(x, r)) /\ prog = "fakesip" /\ InScope(c, p) /\ p.kind = "time exceeded"
         => a = "drop"

LEMMA HookedIs ==
    ASSUME World, NEW c \in Configs, NEW x \in {"S", "D"}, rules[x] \in Seq(RuleSet), Looks(x, c),
           NEW p \in Packets[family], NEW q, q = "queue" => p.kind \in Kinds
    PROVE  HookForm(x, c, p, q)
  <1> DEFINE l == rules[x]
             a == Ruled(x, p, q)
  <1>1. /\ \A k \in DOMAIN l : l[k] \in ExcludedSet \cup Jumping(c) \cup (IF x = "S" THEN Dropping(c) ELSE {})
        /\ \A k \in DOMAIN l : l[k] \in Jumping(c) => \A e \in ExcludedSet : \E j \in 1..k - 1 : l[j] = e
        /\ \A k \in DOMAIN l : l[k] \in Dropping(c) => \A j \in 1..k - 1 : l[j] \in Dropping(c)
    BY DEF Looks
  <1>2. /\ \A r \in Jumping(c) : r.do = "jump"
        /\ \A r \in Dropping(c) : r.do = "drop"
        /\ \A r \in ExcludedSet : r.do = "return"
    BY RulesAre, ExcludedIs DEF RulesOf
  <1>3. /\ \A r \in Jumping(c) : Decides(r, p, q) <=> Matches(r, p) /\ q = "queue"
        /\ \A r \in ExcludedSet \cup Dropping(c) : Decides(r, p, q) <=> Matches(r, p)
    BY <1>2 DEF Decides
  <1>4. /\ \A r \in Jumping(c) : Matches(r, p) => InScope(c, p)
        /\ InScope(c, p) => \E r \in Jumping(c) : Matches(r, p)
        /\ \A r \in Dropping(c) : Matches(r, p) => InScope(c, p) /\ p.kind = "time exceeded" /\ prog = "fakesip"
        /\ InScope(c, p) /\ p.kind = "time exceeded" /\ prog = "fakesip" => \E r \in Dropping(c) : Matches(r, p)
    BY ScopeRules
  <1>5. \A k \in DOMAIN l : \A j \in 1..k - 1 : j \in DOMAIN l /\ ~(k <= j)
    OBVIOUS
  <1>6. q = "queue" => p.kind # "time exceeded"
    BY DEF Kinds
  <1>7. \/ (\A k \in DOMAIN l : ~Decides(l[k], p, q)) /\ a = "pass"
        \/ \E k \in DOMAIN l : /\ Decides(l[k], p, q)
                               /\ \A j \in DOMAIN l : Decides(l[j], p, q) => k <= j
                               /\ a = Verdict(l[k].do)
    <2>1. x \in Chains
      BY DEF Chains
    <2> QED BY <2>1, RuledIs
  <1>8. ASSUME \A r \in Jumping(c) : Have(x, r), q = "queue", InScope(c, p)
        PROVE  \E k \in DOMAIN l : Decides(l[k], p, q)
    <2>1. PICK r \in Jumping(c) : Matches(r, p)
      BY <1>4, <1>8
    <2>2. PICK k \in DOMAIN l : l[k] = r
      BY <1>8 DEF Have
    <2> QED BY <1>3, <1>8, <2>1, <2>2
  <1>9. ASSUME \A r \in Dropping(c) : Have(x, r), InScope(c, p), p.kind = "time exceeded", prog = "fakesip"
        PROVE  \E k \in DOMAIN l : l[k] \in Dropping(c) /\ Decides(l[k], p, q)
    <2>1. PICK r \in Dropping(c) : Matches(r, p)
      BY <1>4, <1>9
    <2>2. PICK k \in DOMAIN l : l[k] = r
      BY <1>9 DEF Have
    <2> QED BY <1>3, <2>1, <2>2
  <1>10. Global(p.far) => \A r \in ExcludedSet : ~Matches(r, p)
    BY NoGlobalExcluded
  <1>11. ~Global(p.far) /\ p.kind \in Kinds => \E r \in ExcludedSet : Matches(r, p)
    BY OthersExcluded
  <1> HIDE DEF a, l
  <1>12. ASSUME NEW k \in DOMAIN l, Decides(l[k], p, q), a = Verdict(l[k].do),
                \A j \in DOMAIN l : Decides(l[j], p, q) => k <= j
         PROVE  /\ a \in {"pass", "queue", "drop"}
                /\ a = "queue" => q = "queue" /\ InScope(c, p) /\ Global(p.far)
                /\ a = "drop" => x = "S" /\ prog = "fakesip" /\ InScope(c, p) /\ p.kind = "time exceeded"
                /\ q = "queue" /\ InScope(c, p) /\ Global(p.far) => a = "queue"
                /\ (\E m \in DOMAIN l : l[m] \in Dropping(c) /\ Decides(l[m], p, q)) => a = "drop"
    <2>1. CASE l[k] \in ExcludedSet
      <3>1. a = "pass"
        BY <1>2, <1>12, <2>1 DEF Verdict
      <3>2. Matches(l[k], p)
        BY <1>3, <1>12, <2>1
      <3>3. ~Global(p.far)
        BY <1>10, <2>1, <3>2
      <3>4. ASSUME NEW m \in DOMAIN l, l[m] \in Dropping(c), Decides(l[m], p, q)
            PROVE  FALSE
        <4>1. k <= m
          BY <1>12, <3>4
        <4>2. k # m
          BY <1>2, <2>1, <3>4
        <4>3. k \in 1..m - 1
          BY <4>1, <4>2 DEF l
        <4>4. l[k] \in Dropping(c)
          BY <1>1, <3>4, <4>3
        <4> QED BY <1>2, <2>1, <4>4
      <3> QED BY <3>1, <3>3, <3>4
    <2>2. CASE l[k] \in Jumping(c)
      <3>1. a = "queue"
        BY <1>2, <1>12, <2>2 DEF Verdict
      <3>2. Matches(l[k], p) /\ q = "queue" /\ InScope(c, p)
        BY <1>3, <1>4, <1>12, <2>2
      <3>3. ASSUME ~Global(p.far)
            PROVE  FALSE
        <4>1. PICK e \in ExcludedSet : Matches(e, p)
          BY <1>11, <3>2, <3>3
        <4>2. PICK j \in 1..k - 1 : l[j] = e
          BY <1>1, <2>2
        <4>3. Decides(l[j], p, q) /\ j \in DOMAIN l /\ ~(k <= j)
          BY <1>3, <1>5, <4>1, <4>2
        <4> QED BY <1>12, <4>3
      <3>4. ASSUME NEW m \in DOMAIN l, l[m] \in Dropping(c), Decides(l[m], p, q)
            PROVE  FALSE
        BY <1>3, <1>4, <1>6, <3>2, <3>4
      <3> QED BY <3>1, <3>2, <3>3, <3>4
    <2>3. CASE x = "S" /\ l[k] \in Dropping(c)
      <3>1. a = "drop"
        BY <1>2, <1>12, <2>3 DEF Verdict
      <3>2. InScope(c, p) /\ p.kind = "time exceeded" /\ prog = "fakesip"
        BY <1>3, <1>4, <1>12, <2>3
      <3> QED BY <1>6, <2>3, <3>1, <3>2
    <2> QED BY <1>1, <2>1, <2>2, <2>3
  <1>13. CASE (\A k \in DOMAIN l : ~Decides(l[k], p, q)) /\ a = "pass"
    <2>1. HookForm(x, c, p, q)
      BY <1>8, <1>9, <1>13 DEF a, HookForm
    <2> QED BY <2>1
  <1>14. CASE \E k \in DOMAIN l : /\ Decides(l[k], p, q)
                                  /\ \A j \in DOMAIN l : Decides(l[j], p, q) => k <= j
                                  /\ a = Verdict(l[k].do)
    <2>1. HookForm(x, c, p, q)
      BY <1>9, <1>12, <1>14 DEF a, HookForm
    <2> QED BY <2>1
  <1> QED BY <1>7, <1>13, <1>14 DEF HookForm, a

\* Rules of a configuration, all of them or some, do nothing that it does not mean.
LEMMA MeantIsWithin ==
    ASSUME World, NEW c \in Configs, FirewallTyped, Meant(c), NEW p \in Packets[family]
    PROVE  Decision(p) \in {"pass", Wanted(c, p)}
  <1> DEFINE x == IF p.way = "in" THEN "S" ELSE "D"
             q == Ruled("R", p, "pass")
  <1>1. Looks("S", c) /\ Looks("D", c) /\ Queues(c)
    BY DEF Meant
  <1>2. rules["S"] \in Seq(RuleSet) /\ rules["D"] \in Seq(RuleSet) /\ rules["R"] \in Seq(RuleSet)
    BY DEF FirewallTyped, Chains
  <1>3. q \in {"pass", "queue"} /\ (q = "queue" => ~Marked(c, p) /\ p.kind \in Kinds)
    BY <1>1, <1>2, QueuedByR
  <1>4. p.way \in {"in", "out"} /\ x \in {"S", "D"} /\ (x = "S" => p.way = "in")
    BY RulesAssumption DEF World
  <1>5. Decision(p) = "pass" \/ Decision(p) = Ruled(x, p, q)
    BY DEF Decision
  <1> HIDE DEF x, q
  <1>6. Looks(x, c) /\ rules[x] \in Seq(RuleSet)
    BY <1>1, <1>2, <1>4
  <1>7. /\ Ruled(x, p, q) \in {"pass", "queue", "drop"}
        /\ Ruled(x, p, q) = "queue" => q = "queue" /\ InScope(c, p) /\ Global(p.far)
        /\ Ruled(x, p, q) = "drop" => x = "S" /\ prog = "fakesip" /\ InScope(c, p) /\ p.kind = "time exceeded"
    <2>1. HookForm(x, c, p, q)
      BY <1>3, <1>4, <1>6, HookedIs
    <2> QED BY <2>1 DEF HookForm
  <1>8. InScope(c, p) => ~(~c.all /\ p.iface \notin {c.ifaces[k] : k \in DOMAIN c.ifaces})
    BY DEF InScope
  <1>9. CASE Ruled(x, p, q) = "drop"
    <2>1. Wanted(c, p) = "drop"
      BY <1>4, <1>7, <1>8, <1>9 DEF Wanted
    <2> QED BY <1>5, <1>9, <2>1
  <1>10. CASE Ruled(x, p, q) = "queue"
    <2>1. p.kind \in (IF prog = "fakehttp" THEN {"syn", "ack 2-4"} ELSE {"udp 1-5"}) /\ p.mark \cap c.mask # c.mark
          /\ p.kind # "time exceeded" /\ InScope(c, p) /\ Global(p.far)
      BY <1>3, <1>7, <1>10 DEF Kinds, Marked
    <2>2. Wanted(c, p) = "queue"
      BY <1>8, <2>1 DEF Wanted
    <2> QED BY <1>5, <1>10, <2>2
  <1> QED BY <1>5, <1>7, <1>9, <1>10

\* What is cut off does nothing at all.
LEMMA SilentPasses ==
    ASSUME World, FirewallTyped, Silent, NEW p \in Packets[family]
    PROVE  Decision(p) = "pass"
  <1>1. rules["S"] \in Seq(RuleSet) /\ rules["D"] \in Seq(RuleSet) /\ rules["R"] \in Seq(RuleSet)
    BY DEF FirewallTyped, Chains
  <1>2. \A x \in {"S", "D", "R"} : \A jump : rules[x] = <<>> => Ruled(x, p, jump) = "pass"
    <2> SUFFICES ASSUME NEW x \in {"S", "D", "R"}, NEW jump, rules[x] = <<>> PROVE Ruled(x, p, jump) = "pass"
      OBVIOUS
    <2>1. DOMAIN rules[x] = {} /\ x \in Chains /\ rules[x] \in Seq(RuleSet)
      BY <1>1 DEF Chains
    <2> QED BY <2>1, RuledIs
  <1>3. rules["R"] = <<>> => Ruled("D", p, Ruled("R", p, "pass")) = "pass"
    <2> DEFINE q == Ruled("R", p, "pass")
    <2> SUFFICES ASSUME rules["R"] = <<>> PROVE Ruled("D", p, q) = "pass"
      OBVIOUS
    <2>1. q # "queue"
      BY <1>2
    <2> HIDE DEF q
    <2>2. \A k \in DOMAIN rules["D"] : rules["D"][k].do = "jump" => ~Decides(rules["D"][k], p, q)
      BY <2>1 DEF Decides
    <2>3. \A k \in DOMAIN rules["D"] : rules["D"][k].do \in {"return", "jump"}
      BY DEF FirewallTyped
    <2>4. \A k \in DOMAIN rules["D"] : Decides(rules["D"][k], p, q) => Verdict(rules["D"][k].do) = "pass"
      BY <2>2, <2>3 DEF Verdict
    <2> QED BY <1>1, <2>4, RuledIs DEF Chains
  <1>4. CASE p.way = "in"
    BY <1>2, <1>4 DEF Decision, Silent
  <1>5. CASE p.way # "in"
    BY <1>2, <1>3, <1>5 DEF Decision, Silent
  <1> QED BY <1>4, <1>5

Complete(c) ==
    /\ hooked["S"] = 1 /\ hooked["D"] = 1
    /\ \A x \in {"S", "D"} : \A r \in Jumping(c) : Have(x, r)
    /\ \A r \in Dropping(c) : Have("S", r)
    /\ Have("R", Main)

\* All of a configuration's rules do all that it means, but perhaps for early ACKs.
LEMMA CompleteMeans ==
    ASSUME World, NEW c \in Configs, FirewallTyped, Meant(c), Complete(c), NEW p \in Packets[family]
    PROVE  Decision(p) = Wanted(c, p) \/ (p.kind = "ack 2-4" /\ Decision(p) = "pass")
  <1> DEFINE x == IF p.way = "in" THEN "S" ELSE "D"
             q == Ruled("R", p, "pass")
  <1>1. Looks("S", c) /\ Looks("D", c) /\ Queues(c)
    BY DEF Meant
  <1>2. rules["S"] \in Seq(RuleSet) /\ rules["D"] \in Seq(RuleSet) /\ rules["R"] \in Seq(RuleSet)
    BY DEF FirewallTyped, Chains
  <1>3. /\ q \in {"pass", "queue"} /\ (q = "queue" => p.kind \in Kinds)
        /\ ~Marked(c, p) /\ p.kind \in Kinds => q = "queue" \/ p.kind = "ack 2-4"
    BY <1>1, <1>2, QueuedByR DEF Complete
  <1>4. p.way \in {"in", "out"} /\ x \in {"S", "D"} /\ (p.way = "in" => x = "S")
    BY RulesAssumption DEF World
  <1>5. Decision(p) = Ruled(x, p, q)
    BY DEF Decision, Complete
  <1>6. Decision(p) \in {"pass", Wanted(c, p)}
    BY MeantIsWithin
  <1> HIDE DEF x, q
  <1>7. Looks(x, c) /\ rules[x] \in Seq(RuleSet) /\ (\A r \in Jumping(c) : Have(x, r)) /\ (x = "S" => \A r \in Dropping(c) : Have(x, r))
    BY <1>1, <1>2, <1>4 DEF Complete
  <1>8. /\ q = "queue" /\ InScope(c, p) /\ Global(p.far) => Ruled(x, p, q) = "queue"
        /\ x = "S" /\ prog = "fakesip" /\ InScope(c, p) /\ p.kind = "time exceeded" => Ruled(x, p, q) = "drop"
    <2>1. HookForm(x, c, p, q)
      BY <1>3, <1>4, <1>7, HookedIs
    <2> QED BY <1>7, <2>1 DEF HookForm
  <1>9. CASE Wanted(c, p) = "pass"
    BY <1>6, <1>9
  <1>10. CASE Wanted(c, p) = "drop"
    <2>1. InScope(c, p) /\ prog = "fakesip" /\ p.way = "in" /\ p.kind = "time exceeded"
      BY <1>10 DEF Wanted, InScope
    <2> QED BY <1>4, <1>5, <1>8, <1>10, <2>1
  <1>11. CASE Wanted(c, p) = "queue"
    <2>1. InScope(c, p) /\ ~Marked(c, p) /\ Global(p.far) /\ p.kind \in Kinds
      BY <1>11 DEF Wanted, InScope, Marked, Kinds
    <2> QED BY <1>3, <1>5, <1>6, <1>8, <1>11, <2>1
  <1>12. Wanted(c, p) \in {"pass", "drop", "queue"}
    BY DEF Wanted
  <1> QED BY <1>9, <1>10, <1>11, <1>12

---------------------------------------------------------------------------
(* What the commands do to the firewall *)

LEMMA SameWorld ==
    ASSUME UNCHANGED system
    PROVE  /\ World' = World /\ ExcludedSet' = ExcludedSet /\ Queueing' = Queueing /\ RuleSet' = RuleSet /\ CmdSet' = CmdSet
           /\ \A c : Dropping(c)' = Dropping(c)
           /\ Cleanup' = Cleanup /\ \A c : Making(c)' = Making(c)
           /\ \A c : Setup(c)' = Setup(c)
  <1>1. prog' = prog /\ tool' = tool /\ family' = family
    BY DEF system
  <1>2. World' = World
    BY <1>1 DEF World
  <1>3. Excluded' = Excluded
    BY <1>1 DEF Excluded
  <1>4. ExcludedSet' = ExcludedSet
    BY <1>3 DEF ExcludedSet
  <1>5. Queueing' = Queueing /\ \A c : Dropping(c)' = Dropping(c)
    BY <1>1 DEF Queueing, Dropping
  <1>6. RuleSet' = RuleSet
    BY <1>4 DEF RuleSet
  <1>7. CmdSet' = CmdSet
    BY <1>6 DEF CmdSet
  <1>8. Cleanup' = Cleanup
    BY <1>1 DEF Cleanup
  <1>9. \A c : Making(c)' = Making(c)
    BY <1>1 DEF Making
  <1>10. \A c : Setup(c)' = Setup(c)
    BY <1>8, <1>9 DEF Setup
  <1> QED BY <1>2, <1>4, <1>5, <1>6, <1>7, <1>8, <1>9, <1>10

\* Rules are only taken away, a chain's all at once.
Less ==
    /\ \A x \in Chains : rules'[x] = rules[x] \/ rules'[x] = <<>>
    /\ \A x \in {"S", "D"} : hooked'[x] = hooked[x] \/ hooked'[x] = 0

LEMMA LessKeeps ==
    ASSUME UNCHANGED system, Less, NEW c
    PROVE  (Meant(c) => Meant(c)') /\ (Silent => Silent')
  <1>1. ExcludedSet' = ExcludedSet /\ Queueing' = Queueing /\ Dropping(c)' = Dropping(c) /\ tool' = tool
    BY SameWorld DEF system
  <1>2. \A x \in Chains : rules'[x] = rules[x] \/ DOMAIN rules'[x] = {}
    BY DEF Less
  <1>3. ASSUME NEW x \in {"S", "D"}, Looks(x, c)
        PROVE  Looks(x, c)'
    BY <1>1, <1>2, <1>3 DEF Looks, Chains
  <1>4. Queues(c) => Queues(c)'
    BY <1>1, <1>2 DEF Queues, Chains
  <1>5. Silent => Silent'
    BY <1>1 DEF Silent, Less, Chains
  <1> QED BY <1>3, <1>4, <1>5 DEF Meant

LEMMA UndoIs ==
    ASSUME NEW op, NEW x
    PROVE  Undo(op, x).op = op /\ Undo(op, x).chain = x
  BY DEF Undo, Cmd

LEMMA Flushed ==
    ASSUME UNCHANGED system, FirewallTyped, NEW x \in Chains, Effect(Undo("flush", x))
    PROVE  FirewallTyped' /\ Less /\ by' = by /\ rules'[x] = <<>> /\ hooked' = hooked
  <1> DEFINE cmd == Undo("flush", x)
  <1>1. cmd.op = "flush" /\ cmd.chain = x
    BY DEF Undo, Cmd
  <1>2. there' = there /\ rules' = [rules EXCEPT ![x] = <<>>] /\ hooked' = hooked /\ by' = by
    <2> HIDE DEF cmd
    <2>1. Effect(cmd)
      BY DEF cmd
    <2> QED BY <1>1, <2>1 DEF Effect, Removal
  <1>3. RuleSet' = RuleSet
    BY SameWorld
  <1>4. \A y \in Chains : rules'[y] = IF y = x THEN <<>> ELSE rules[y]
    BY <1>2 DEF FirewallTyped
  <1>5. rules' \in [Chains -> Seq(RuleSet)]
    <2>1. <<>> \in Seq(RuleSet)
      OBVIOUS
    <2> QED BY <1>2, <2>1 DEF FirewallTyped
  <1>6. Less /\ rules'[x] = <<>>
    BY <1>2, <1>4 DEF Less
  <1>7. \A y \in {"D", "R"} : rules'[y] = rules[y] \/ DOMAIN rules'[y] = {}
    BY <1>4 DEF Chains
  <1>8. FirewallTyped'
    BY <1>2, <1>3, <1>4, <1>5, <1>7 DEF FirewallTyped
  <1> QED BY <1>2, <1>6, <1>8

LEMMA Unhooked ==
    ASSUME UNCHANGED system, FirewallTyped, NEW x \in {"S", "D"}, Possible(Undo("unhook", x)), Effect(Undo("unhook", x))
    PROVE  FirewallTyped' /\ Less /\ by' = by /\ rules' = rules /\ hooked'[x] = 0
  <1> DEFINE cmd == Undo("unhook", x)
  <1>1. cmd.op = "unhook" /\ cmd.chain = x
    BY DEF Undo, Cmd
  <1>2. there' = there /\ rules' = rules /\ hooked' = [hooked EXCEPT ![x] = @ - 1] /\ by' = by /\ hooked[x] > 0
    <2> HIDE DEF cmd
    <2>1. Effect(cmd) /\ Possible(cmd)
      BY DEF cmd
    <2> QED BY <1>1, <2>1 DEF Effect, Possible, Removal
  <1>3. RuleSet' = RuleSet
    BY SameWorld
  <1>4. hooked[x] = 1 /\ hooked'[x] = 0 /\ \A y \in {"S", "D"} : y # x => hooked'[y] = hooked[y]
    BY <1>2 DEF FirewallTyped
  <1>5. hooked' \in [{"S", "D"} -> {0, 1}]
    BY <1>2, <1>4 DEF FirewallTyped
  <1>6. Less
    BY <1>2, <1>4 DEF Less
  <1>7. \A y \in Chains \ there : y # "R" => hooked'[y] = 0
    BY <1>4 DEF FirewallTyped, Chains
  <1>8. FirewallTyped'
    BY <1>2, <1>3, <1>5, <1>7 DEF FirewallTyped
  <1> QED BY <1>2, <1>4, <1>6, <1>8

LEMMA Deleted ==
    ASSUME UNCHANGED system, FirewallTyped, NEW x \in Chains, Possible(Undo("delete", x)), Effect(Undo("delete", x))
    PROVE  FirewallTyped' /\ Less /\ by' = by /\ rules' = rules /\ hooked' = hooked
  <1> DEFINE cmd == Undo("delete", x)
  <1>1. cmd.op = "delete" /\ cmd.chain = x
    BY DEF Undo, Cmd
  <1>2. there' = there \ {x} /\ rules' = rules /\ hooked' = hooked /\ by' = by /\ rules[x] = <<>> /\ (x # "R" => hooked[x] = 0)
    <2> HIDE DEF cmd
    <2>1. Effect(cmd) /\ Possible(cmd)
      BY DEF cmd
    <2> QED BY <1>1, <2>1 DEF Effect, Possible, Removal
  <1>3. RuleSet' = RuleSet
    BY SameWorld
  <1>4. Less
    BY <1>2 DEF Less
  <1>5. FirewallTyped'
    BY <1>2, <1>3 DEF FirewallTyped
  <1> QED BY <1>2, <1>4, <1>5

LEMMA EmptyIs ==
    ASSUME NEW T
    PROVE  <<>> \in Seq(T) /\ DOMAIN <<>> = {}
  OBVIOUS

LEMMA TableDeleted ==
    ASSUME UNCHANGED system, FirewallTyped, Effect(Undo("delete table", "S"))
    PROVE  FirewallTyped' /\ Less /\ by' = by /\ there' = {}
  <1> DEFINE cmd == Undo("delete table", "S")
  <1>1. cmd.op = "delete table"
    BY DEF Undo, Cmd
  <1>2. there' = {} /\ rules' = [c \in Chains |-> <<>>] /\ hooked' = [c \in {"S", "D"} |-> 0] /\ by' = by
    <2> HIDE DEF cmd
    <2>1. Effect(cmd)
      BY DEF cmd
    <2> QED BY <1>1, <2>1 DEF Effect, Removal
  <1>3. RuleSet' = RuleSet
    BY SameWorld
  <1> DEFINE e == <<>>
  <1>4. rules' = [y \in Chains |-> e]
    BY <1>2
  <1>9. e \in Seq(RuleSet) /\ DOMAIN e = {}
    BY EmptyIs
  <1>5. rules' \in [Chains -> Seq(RuleSet)] /\ \A y \in Chains : rules'[y] = e
    <2> HIDE DEF e
    <2> QED BY ONLY <1>4, <1>9
  <1>10. DOMAIN rules'["D"] = {} /\ DOMAIN rules'["R"] = {}
    <2> HIDE DEF e
    <2> QED BY <1>5, <1>9 DEF Chains
  <1>6. Less
    BY <1>2, <1>5 DEF Less
  <1>7. hooked' \in [{"S", "D"} -> {0, 1}] /\ \A y \in Chains : y # "R" => hooked'[y] = 0
    BY <1>2 DEF Chains
  <1>8. FirewallTyped'
    BY <1>2, <1>3, <1>5, <1>7, <1>10 DEF FirewallTyped
  <1> QED BY <1>2, <1>6, <1>8

LEMMA Created ==
    ASSUME UNCHANGED system, FirewallTyped, NEW x \in Chains, Possible(New(x)), Effect(New(x))
    PROVE  /\ FirewallTyped' /\ by' = config /\ rules' = rules /\ hooked' = hooked
           /\ rules[x] = <<>> /\ (x # "R" => hooked[x] = 0)
  <1> DEFINE cmd == New(x)
  <1>1. cmd.op = "new" /\ cmd.chain = x
    BY DEF New, Cmd
  <1>2. there' = there \cup {x} /\ rules' = rules /\ hooked' = hooked /\ by' = config /\ x \notin there
    <2> HIDE DEF cmd
    <2>1. Effect(cmd) /\ Possible(cmd)
      BY DEF cmd
    <2> QED BY <1>1, <2>1 DEF Effect, Possible, Removal
  <1>3. RuleSet' = RuleSet
    BY SameWorld
  <1>4. FirewallTyped'
    BY <1>2, <1>3 DEF FirewallTyped
  <1> QED BY <1>2, <1>4 DEF FirewallTyped

LEMMA HookedUp ==
    ASSUME UNCHANGED system, FirewallTyped, NEW x \in {"S", "D"}, hooked[x] = 0, Possible(Hook(x)), Effect(Hook(x))
    PROVE  /\ FirewallTyped' /\ by' = config /\ rules' = rules
           /\ hooked'[x] = 1 /\ \A y \in {"S", "D"} : y # x => hooked'[y] = hooked[y]
  <1> DEFINE cmd == Hook(x)
  <1>1. cmd.op = "hook" /\ cmd.chain = x
    BY DEF Hook, Cmd
  <1>2. there' = there /\ rules' = rules /\ hooked' = [hooked EXCEPT ![x] = @ + 1] /\ by' = config /\ x \in there
    <2> HIDE DEF cmd
    <2>1. Effect(cmd) /\ Possible(cmd)
      BY DEF cmd
    <2> QED BY <1>1, <2>1 DEF Effect, Possible, Removal
  <1>3. RuleSet' = RuleSet
    BY SameWorld
  <1>4. hooked'[x] = 1 /\ \A y \in {"S", "D"} : y # x => hooked'[y] = hooked[y]
    BY <1>2 DEF FirewallTyped
  <1>5. hooked' \in [{"S", "D"} -> {0, 1}]
    BY <1>2, <1>4 DEF FirewallTyped
  <1>6. \A y \in Chains \ there : y # "R" => hooked'[y] = 0
    BY <1>2, <1>4 DEF FirewallTyped, Chains
  <1>7. FirewallTyped'
    BY <1>2, <1>3, <1>5, <1>6 DEF FirewallTyped
  <1> QED BY <1>2, <1>4, <1>7

\* One rule more, at the end of a chain or in front of it.
Longer(l, m, r) ==
    /\ DOMAIN m = 1..Len(l) + 1 /\ m[Len(l) + 1] = r /\ \A k \in 1..Len(l) : m[k] = l[k]
InFront(l, m, r) ==
    /\ DOMAIN m = 1..Len(l) + 1 /\ m[1] = r /\ \A k \in 1..Len(l) : m[k + 1] = l[k]

LEMMA Appended ==
    ASSUME UNCHANGED system, FirewallTyped, NEW x \in Chains, NEW r \in RuleSet, NEW cmd,
           cmd = Add(x, r) \/ (x = "R" /\ cmd = Optional("R", r)), Possible(cmd), Effect(cmd),
           x = "D" => r.do \in {"return", "jump"}, x = "R" => r.do \in {"return", "queue"}
    PROVE  /\ FirewallTyped' /\ by' = config /\ hooked' = hooked
           /\ Longer(rules[x], rules'[x], r) /\ \A y \in Chains : y # x => rules'[y] = rules[y]
  <1>1. cmd.op \in {"append", "try to append"} /\ cmd.chain = x /\ cmd.rule = r
    <2>1. CASE cmd = Add(x, r)
      BY ONLY <2>1 DEF Add, Cmd
    <2>2. CASE x = "R" /\ cmd = Optional("R", r)
      BY ONLY <2>2 DEF Optional, Cmd
    <2> QED BY <2>1, <2>2
  <1>2. there' = there /\ rules' = [rules EXCEPT ![x] = Append(@, r)] /\ hooked' = hooked /\ by' = config /\ x \in there
    BY <1>1 DEF Effect, Possible, Removal
  <1>3. RuleSet' = RuleSet
    BY SameWorld
  <1> DEFINE l == rules[x]
             m == rules'[x]
  <1>4. m = Append(l, r) /\ l \in Seq(RuleSet) /\ \A y \in Chains : y # x => rules'[y] = rules[y]
    BY <1>2 DEF FirewallTyped
  <1>5. Longer(l, m, r) /\ m \in Seq(RuleSet)
    <2> HIDE DEF l, m
    <2> QED BY <1>4 DEF Longer
  <1>6. rules' \in [Chains -> Seq(RuleSet)]
    BY <1>2, <1>4, <1>5 DEF FirewallTyped
  <1>7. ASSUME NEW do, \A k \in DOMAIN rules[x] : rules[x][k].do \in do, r.do \in do
        PROVE  \A k \in DOMAIN rules'[x] : rules'[x][k].do \in do
    <2>1. Len(rules[x]) \in Nat /\ DOMAIN rules[x] = 1..Len(rules[x])
      BY <1>4
    <2>2. \A k \in 1..Len(rules[x]) + 1 : k \in 1..Len(rules[x]) \/ k = Len(rules[x]) + 1
      BY <2>1
    <2> QED BY <1>5, <1>7, <2>1, <2>2 DEF Longer
  <1>8. \A k \in DOMAIN rules'["D"] : rules'["D"][k].do \in {"return", "jump"}
    BY <1>4, <1>7 DEF FirewallTyped, Chains
  <1>9. \A k \in DOMAIN rules'["R"] : rules'["R"][k].do \in {"return", "queue"}
    BY <1>4, <1>7 DEF FirewallTyped, Chains
  <1>10. \A y \in Chains \ there' : rules'[y] = <<>> /\ (y # "R" => hooked'[y] = 0)
    BY <1>2, <1>4 DEF FirewallTyped
  <1>11. FirewallTyped'
    BY <1>2, <1>3, <1>6, <1>8, <1>9, <1>10 DEF FirewallTyped
  <1> QED BY <1>2, <1>4, <1>5, <1>11

LEMMA Inserted ==
    ASSUME UNCHANGED system, FirewallTyped, NEW r \in RuleSet, Possible(Insert("S", r)), Effect(Insert("S", r))
    PROVE  /\ FirewallTyped' /\ by' = config /\ hooked' = hooked
           /\ InFront(rules["S"], rules'["S"], r) /\ \A y \in Chains : y # "S" => rules'[y] = rules[y]
  <1> DEFINE cmd == Insert("S", r)
  <1>1. cmd.op = "insert" /\ cmd.chain = "S" /\ cmd.rule = r
    BY DEF Insert, Cmd
  <1>2. there' = there /\ rules' = [rules EXCEPT !["S"] = <<r>> \o @] /\ hooked' = hooked /\ by' = config /\ "S" \in there
    <2> HIDE DEF cmd
    <2>1. Effect(cmd) /\ Possible(cmd)
      BY DEF cmd
    <2> QED BY <1>1, <2>1 DEF Effect, Possible, Removal
  <1>3. RuleSet' = RuleSet
    BY SameWorld
  <1> DEFINE l == rules["S"]
             m == rules'["S"]
             f == <<r>>
  <1>4. m = f \o l /\ l \in Seq(RuleSet) /\ \A y \in Chains : y # "S" => rules'[y] = rules[y]
    BY <1>2 DEF FirewallTyped, Chains
  <1>5. f \in Seq(RuleSet) /\ Len(f) = 1 /\ f[1] = r
    OBVIOUS
  <1>6. InFront(l, m, r) /\ m \in Seq(RuleSet)
    <2> HIDE DEF l, m, f
    <2>1. f \in Seq(RuleSet) /\ l \in Seq(RuleSet) /\ m = f \o l
      BY <1>4, <1>5
    <2>2. m \in Seq(RuleSet) /\ Len(m) = Len(f) + Len(l) /\ (\A i \in 1..Len(f) : m[i] = f[i]) /\ \A k \in 1..Len(l) : m[Len(f) + k] = l[k]
      BY <2>1
    <2>3. Len(m) = Len(l) + 1 /\ m[1] = r /\ \A k \in 1..Len(l) : m[k + 1] = l[k]
      <3>1. \A k \in 1..Len(l) : Len(f) + k = k + 1
        BY <1>4, <1>5
      <3>2. Len(l) \in Nat
        BY <1>4
      <3> QED BY <1>5, <2>2, <3>1, <3>2
    <2> QED BY <2>2, <2>3 DEF InFront
  <1>7. rules' \in [Chains -> Seq(RuleSet)]
    BY <1>2, <1>4, <1>6 DEF FirewallTyped
  <1>8. rules'["D"] = rules["D"] /\ rules'["R"] = rules["R"]
    BY <1>4 DEF Chains
  <1>9. \A y \in Chains \ there' : rules'[y] = <<>> /\ (y # "R" => hooked'[y] = 0)
    BY <1>2, <1>4 DEF FirewallTyped
  <1>10. FirewallTyped'
    BY <1>2, <1>3, <1>7, <1>8, <1>9 DEF FirewallTyped
  <1> QED BY <1>2, <1>4, <1>6, <1>10

\* What nft's batch has for a chain.
BatchOf(c, x) == IF x = "R" THEN MarkThenQueue(c, Main) ELSE Excluded

LEMMA BatchRules ==
    ASSUME NEW c \in Configs, NEW x \in Chains
    PROVE  /\ OneBatch(c).rule[x] = BatchOf(c, x) /\ BatchOf(c, x) \in Seq(RuleSet)
           /\ \A k \in DOMAIN BatchOf(c, x) : BatchOf(c, x)[k].do \in IF x = "R" THEN {"return", "queue"} ELSE {"return"}
  <1>1. OneBatch(c).rule[x] = BatchOf(c, x)
    BY OneBatchIs DEF BatchOf
  <1>2. CASE x = "R"
    <2> DEFINE q == MarkThenQueue(c, Main)
    <2>1. q \in Seq(RuleSet) /\ Len(q) = 2 /\ q[1] = MarkRule(c) /\ q[2] = Main /\ Main \in Queueing
      BY MarkAndMain
    <2>2. MarkRule(c).do = "return" /\ Main.do = "queue"
      BY <2>1, RulesAre DEF RulesOf
    <2> HIDE DEF q
    <2>3. \A k \in DOMAIN q : q[k].do \in {"return", "queue"}
      BY <2>1, <2>2
    <2>4. BatchOf(c, x) = q
      BY <1>2 DEF BatchOf, q
    <2> QED BY <1>1, <1>2, <2>1, <2>3, <2>4
  <1>3. CASE x # "R"
    <2>1. BatchOf(c, x) = Excluded
      BY <1>3 DEF BatchOf
    <2>2. Excluded \in Seq(RuleSet) /\ \A k \in DOMAIN Excluded : Excluded[k].do = "return"
      BY ExcludedIs DEF ExcludedSet
    <2> QED BY <1>1, <1>3, <2>1, <2>2
  <1> QED BY <1>2, <1>3

\* A sequence behind another.
Behind(l, m, b) ==
    /\ DOMAIN m = 1..Len(l) + Len(b) /\ \A k \in 1..Len(l) : m[k] = l[k]
    /\ \A k \in 1..Len(b) : m[Len(l) + k] = b[k]

LEMMA Batched ==
    ASSUME UNCHANGED system, World, FirewallTyped, config \in Configs, Effect(OneBatch(config))
    PROVE  /\ FirewallTyped' /\ by' = config /\ hooked'["S"] = 1 /\ hooked'["D"] = 1
           /\ \A x \in Chains : Behind(rules[x], rules'[x], BatchOf(config, x))
  <1> DEFINE cmd == OneBatch(config)
  <1>1. cmd.op = "batch"
    BY OneBatchIs
  <1>2. /\ there' = Chains /\ rules' = [c \in Chains |-> rules[c] \o cmd.rule[c]]
        /\ hooked' = [c \in {"S", "D"} |-> 1] /\ by' = config
    <2> HIDE DEF cmd
    <2>1. Effect(cmd)
      BY DEF cmd
    <2> QED BY <1>1, <2>1 DEF Effect, Removal
  <1>3. RuleSet' = RuleSet
    BY SameWorld
  <1>4. ASSUME NEW x \in Chains
        PROVE  /\ rules'[x] \in Seq(RuleSet) /\ Behind(rules[x], rules'[x], BatchOf(config, x))
               /\ x # "S" => \A k \in DOMAIN rules'[x] : rules'[x][k].do \in IF x = "R" THEN {"return", "queue"} ELSE {"return", "jump"}
    <2> DEFINE l == rules[x]
               b == BatchOf(config, x)
               m == rules'[x]
               S == IF x = "R" THEN {"return", "queue"} ELSE {"return", "jump"}
    <2>1. m = l \o b
      BY <1>2, BatchRules
    <2>2. l \in Seq(RuleSet) /\ b \in Seq(RuleSet)
      BY BatchRules DEF FirewallTyped
    <2>3. (\A k \in DOMAIN b : b[k].do \in S) /\ (x # "S" => \A k \in DOMAIN l : l[k].do \in S)
      BY BatchRules DEF FirewallTyped, Chains
    <2>4. m \in Seq(RuleSet) /\ Behind(l, m, b)
      <3> HIDE DEF l, b, m
      <3> QED BY ONLY <2>1, <2>2 DEF Behind
    <2>5. x # "S" => \A k \in DOMAIN m : m[k].do \in S
      <3>1. Len(l) \in Nat /\ Len(b) \in Nat /\ DOMAIN l = 1..Len(l) /\ DOMAIN b = 1..Len(b)
        BY <2>2
      <3> HIDE DEF l, b, m, S
      <3>2. \A k \in 1..Len(l) + Len(b) : k \in 1..Len(l) \/ (k - Len(l) \in 1..Len(b) /\ k = Len(l) + (k - Len(l)))
        BY <3>1
      <3>3. ASSUME x # "S", NEW k \in DOMAIN m
            PROVE  m[k].do \in S
        <4>1. CASE k \in 1..Len(l)
          BY <2>3, <2>4, <3>1, <3>3, <4>1 DEF Behind
        <4>2. CASE k - Len(l) \in 1..Len(b) /\ k = Len(l) + (k - Len(l))
          <5>1. m[k] = b[k - Len(l)]
            BY <2>4, <4>2 DEF Behind
          <5> QED BY <2>3, <3>1, <4>2, <5>1
        <4> QED BY <2>4, <3>2, <3>3, <4>1, <4>2 DEF Behind
      <3> QED BY <3>3
    <2> QED BY <2>4, <2>5
  <1>5. rules' \in [Chains -> Seq(RuleSet)]
    BY <1>2, <1>4
  <1>6. hooked' \in [{"S", "D"} -> {0, 1}] /\ hooked'["S"] = 1 /\ hooked'["D"] = 1
    BY <1>2
  <1>7. (\A k \in DOMAIN rules'["D"] : rules'["D"][k].do \in {"return", "jump"})
        /\ \A k \in DOMAIN rules'["R"] : rules'["R"][k].do \in {"return", "queue"}
    BY <1>4 DEF Chains
  <1>8. FirewallTyped'
    BY <1>2, <1>3, <1>5, <1>6, <1>7 DEF FirewallTyped
  <1> QED BY <1>2, <1>4, <1>6, <1>8

\* Into chains that are empty it puts what the configuration means.
LEMMA BatchedFresh ==
    ASSUME UNCHANGED system, World, FirewallTyped, config \in Configs, there = {}, Effect(OneBatch(config)), UNCHANGED config
    PROVE  Meant(config)'
  <1>1. ASSUME NEW x \in Chains
        PROVE  DOMAIN rules'[x] = DOMAIN BatchOf(config, x) /\ \A k \in DOMAIN rules'[x] : rules'[x][k] = BatchOf(config, x)[k]
    <2>1. rules[x] = <<>>
      BY DEF FirewallTyped
    <2>2. Behind(rules[x], rules'[x], BatchOf(config, x))
      BY Batched
    <2> DEFINE b == BatchOf(config, x)
               m == rules'[x]
               l == rules[x]
    <2>3. b \in Seq(RuleSet) /\ Len(b) \in Nat /\ DOMAIN b = 1..Len(b)
      BY BatchRules
    <2>4. Len(l) = 0
      BY <2>1
    <2> HIDE DEF b, m, l
    <2>5. Behind(l, m, b)
      BY <2>2 DEF b, m, l
    <2>6. DOMAIN m = 1..Len(b) /\ \A k \in 1..Len(b) : m[k] = b[k]
      <3>1. \A k \in 1..Len(b) : 0 + k = k
        BY <2>3
      <3>2. 0 + Len(b) = Len(b)
        BY <2>3
      <3> QED BY <2>4, <2>5, <3>1, <3>2 DEF Behind
    <2> QED BY <2>3, <2>6 DEF b, m, l
  <1>2. ExcludedSet' = ExcludedSet /\ Queueing' = Queueing /\ Dropping(config)' = Dropping(config) /\ Jumping(config)' = Jumping(config)
    BY SameWorld
  <1>3. ASSUME NEW x \in {"S", "D"}
        PROVE  Looks(x, config)'
    <2>1. BatchOf(config, x) = Excluded /\ x \in Chains
      BY DEF BatchOf, Chains
    <2>2. \A k \in DOMAIN rules'[x] : rules'[x][k] \in ExcludedSet
      BY <1>1, <2>1 DEF ExcludedSet
    <2>3. \A r \in ExcludedSet : r \notin Jumping(config) /\ r \notin Dropping(config)
      BY ExcludedIs, RulesAre DEF RulesOf
    <2> QED BY <1>2, <2>2, <2>3 DEF Looks
  <1>4. Queues(config)'
    <2> DEFINE q == MarkThenQueue(config, Main)
               m == rules'["R"]
    <2>1. q \in Seq(RuleSet) /\ Len(q) = 2 /\ q[1] = MarkRule(config) /\ q[2] = Main /\ Main \in Queueing
      BY MarkAndMain
    <2>2. MarkRule(config) \notin Queueing
      BY RulesAre DEF RulesOf
    <2>3. DOMAIN m = DOMAIN q /\ \A k \in DOMAIN m : m[k] = q[k]
      BY <1>1 DEF BatchOf, Chains
    <2> HIDE DEF q, m
    <2>4. \A k \in DOMAIN m : (k = 1 /\ m[k] = MarkRule(config)) \/ (k = 2 /\ m[k] = Main)
      BY <2>1, <2>3
    <2>5. m[1] = MarkRule(config)
      BY <2>1, <2>3
    <2>6. \A k \in DOMAIN m : m[k] \in Queueing => \E j \in 1..k - 1 : m[j] = MarkRule(config)
      BY <2>2, <2>4, <2>5
    <2>7. MarkRule(config)' = MarkRule(config)
      BY DEF MarkRule
    <2> QED BY <1>2, <2>1, <2>4, <2>6, <2>7 DEF Queues, m
  <1> QED BY <1>3, <1>4 DEF Meant

---------------------------------------------------------------------------
(* One rule more keeps what the rules mean *)

LEMMA LongerHas ==
    ASSUME NEW x \in Chains, rules[x] \in Seq(RuleSet), NEW q, Longer(rules[x], rules'[x], q)
    PROVE  Have(x, q)' /\ \A r : Have(x, r) => Have(x, r)'
  <1> DEFINE l == rules[x]
             m == rules'[x]
             n == Len(l)
  <1>1. n \in Nat /\ DOMAIN l = 1..n /\ DOMAIN m = 1..n + 1 /\ m[n + 1] = q /\ \A k \in 1..n : m[k] = l[k]
    BY DEF Longer
  <1> HIDE DEF l, m, n
  <1>2. n + 1 \in DOMAIN m /\ \A k \in DOMAIN l : k \in DOMAIN m
    BY <1>1
  <1>3. Have(x, q)'
    BY <1>1, <1>2 DEF Have, m
  <1>4. \A r : Have(x, r) => Have(x, r)'
    BY <1>1, <1>2 DEF Have, m, l
  <1> QED BY <1>3, <1>4

LEMMA InFrontHas ==
    ASSUME NEW x \in Chains, rules[x] \in Seq(RuleSet), NEW q, InFront(rules[x], rules'[x], q)
    PROVE  Have(x, q)' /\ \A r : Have(x, r) => Have(x, r)'
  <1> DEFINE l == rules[x]
             m == rules'[x]
             n == Len(l)
  <1>1. n \in Nat /\ DOMAIN l = 1..n /\ DOMAIN m = 1..n + 1 /\ m[1] = q /\ \A k \in 1..n : m[k + 1] = l[k]
    BY DEF InFront
  <1> HIDE DEF l, m, n
  <1>2. 1 \in DOMAIN m /\ \A k \in DOMAIN l : k + 1 \in DOMAIN m
    BY <1>1
  <1>3. Have(x, q)'
    BY <1>1, <1>2 DEF Have, m
  <1>4. \A r : Have(x, r) => Have(x, r)'
    BY <1>1, <1>2 DEF Have, m, l
  <1> QED BY <1>3, <1>4

LEMMA BehindHas ==
    ASSUME NEW x \in Chains, rules[x] \in Seq(RuleSet), NEW b \in Seq(RuleSet), Behind(rules[x], rules'[x], b)
    PROVE  \A r : Have(x, r) \/ (\E k \in DOMAIN b : b[k] = r) => Have(x, r)'
  <1> DEFINE l == rules[x]
             m == rules'[x]
             n == Len(l)
             d == Len(b)
  <1>1. /\ n \in Nat /\ d \in Nat /\ DOMAIN l = 1..n /\ DOMAIN b = 1..d /\ DOMAIN m = 1..n + d
        /\ (\A k \in 1..n : m[k] = l[k]) /\ \A k \in 1..d : m[n + k] = b[k]
    BY DEF Behind
  <1> HIDE DEF l, m, n, d
  <1>2. (\A k \in DOMAIN l : k \in DOMAIN m) /\ \A k \in DOMAIN b : n + k \in DOMAIN m
    BY <1>1
  <1>3. \A k \in DOMAIN b : m[n + k] = b[k] /\ n + k \in DOMAIN m
    BY <1>1, <1>2
  <1>4. \A r : Have(x, r) => Have(x, r)'
    BY <1>1, <1>2 DEF Have, m, l
  <1>5. \A r : (\E k \in DOMAIN b : b[k] = r) => Have(x, r)'
    BY <1>3 DEF Have, m
  <1> QED BY <1>4, <1>5

LEMMA LooksLonger ==
    ASSUME UNCHANGED system, NEW c \in Configs, NEW x \in {"S", "D"}, rules[x] \in Seq(RuleSet), Looks(x, c),
           NEW q \in ExcludedSet \cup Jumping(c), q \in Jumping(c) => \A e \in ExcludedSet : Have(x, e),
           Longer(rules[x], rules'[x], q)
    PROVE  Looks(x, c)'
  <1> DEFINE l == rules[x]
             m == rules'[x]
             n == Len(l)
  <1>1. n \in Nat /\ DOMAIN l = 1..n /\ DOMAIN m = 1..n + 1 /\ m[n + 1] = q /\ \A k \in 1..n : m[k] = l[k]
    BY DEF Longer
  <1>2. ExcludedSet' = ExcludedSet /\ Dropping(c)' = Dropping(c)
    BY SameWorld
  <1>3. q \notin Dropping(c)
    BY ExcludedIs, RulesAre DEF RulesOf
  <1>4. q \in Jumping(c) => \A e \in ExcludedSet : \E j \in 1..n : l[j] = e
    BY <1>1 DEF Have
  <1>5. /\ \A k \in 1..n : l[k] \in ExcludedSet \cup Jumping(c) \cup (IF x = "S" THEN Dropping(c) ELSE {})
        /\ \A k \in 1..n : l[k] \in Jumping(c) => \A e \in ExcludedSet : \E j \in 1..k - 1 : l[j] = e
        /\ \A k \in 1..n : l[k] \in Dropping(c) => \A j \in 1..k - 1 : l[j] \in Dropping(c)
    BY <1>1 DEF Looks
  <1> HIDE DEF l, m, n
  <1>6. ASSUME NEW k \in 1..n + 1
        PROVE  /\ m[k] \in ExcludedSet \cup Jumping(c) \cup (IF x = "S" THEN Dropping(c) ELSE {})
               /\ m[k] \in Jumping(c) => \A e \in ExcludedSet : \E j \in 1..k - 1 : m[j] = e
               /\ m[k] \in Dropping(c) => \A j \in 1..k - 1 : m[j] \in Dropping(c)
    <2>1. CASE k \in 1..n
      <3>1. \A j \in 1..k - 1 : j \in 1..n
        BY <1>1, <2>1
      <3>2. m[k] = l[k] /\ \A j \in 1..k - 1 : m[j] = l[j]
        BY <1>1, <2>1, <3>1
      <3>3. l[k] \in Jumping(c) => \A e \in ExcludedSet : \E j \in 1..k - 1 : l[j] = e
        BY <1>5, <2>1
      <3>4. m[k] \in Jumping(c) => \A e \in ExcludedSet : \E j \in 1..k - 1 : m[j] = e
        BY <3>2, <3>3
      <3>5. m[k] \in Dropping(c) => \A j \in 1..k - 1 : m[j] \in Dropping(c)
        BY <1>5, <2>1, <3>2
      <3> QED BY <1>5, <2>1, <3>2, <3>4, <3>5
    <2>2. CASE k = n + 1
      <3>1. m[k] = q /\ k - 1 = n
        BY <1>1, <2>2
      <3>2. m[k] \in Jumping(c) => \A e \in ExcludedSet : \E j \in 1..n : m[j] = e
        BY <1>1, <1>4, <3>1
      <3> QED BY <1>3, <3>1, <3>2
    <2> QED BY <1>1, <2>1, <2>2
  <1> QED BY <1>1, <1>2, <1>6 DEF Looks, m

LEMMA LooksInFront ==
    ASSUME UNCHANGED system, NEW c \in Configs, rules["S"] \in Seq(RuleSet), Looks("S", c),
           NEW q \in Dropping(c), InFront(rules["S"], rules'["S"], q)
    PROVE  Looks("S", c)'
  <1> DEFINE l == rules["S"]
             m == rules'["S"]
             n == Len(l)
  <1>1. n \in Nat /\ DOMAIN l = 1..n /\ DOMAIN m = 1..n + 1 /\ m[1] = q /\ \A k \in 1..n : m[k + 1] = l[k]
    BY DEF InFront
  <1>2. ExcludedSet' = ExcludedSet /\ Dropping(c)' = Dropping(c)
    BY SameWorld
  <1>3. q \notin Jumping(c)
    BY RulesAre DEF RulesOf
  <1>4. /\ \A k \in 1..n : l[k] \in ExcludedSet \cup Jumping(c) \cup Dropping(c)
        /\ \A k \in 1..n : l[k] \in Jumping(c) => \A e \in ExcludedSet : \E j \in 1..k - 1 : l[j] = e
        /\ \A k \in 1..n : l[k] \in Dropping(c) => \A j \in 1..k - 1 : l[j] \in Dropping(c)
    BY <1>1 DEF Looks
  <1> HIDE DEF l, m, n
  <1>5. ASSUME NEW k \in 1..n + 1
        PROVE  /\ m[k] \in ExcludedSet \cup Jumping(c) \cup Dropping(c)
               /\ m[k] \in Jumping(c) => \A e \in ExcludedSet : \E j \in 1..k - 1 : m[j] = e
               /\ m[k] \in Dropping(c) => \A j \in 1..k - 1 : m[j] \in Dropping(c)
    <2>1. CASE k = 1
      BY <1>1, <1>3, <2>1
    <2>2. CASE k # 1
      <3> DEFINE i == k - 1
      <3>1. i \in 1..n /\ k = i + 1
        BY <1>1, <2>2
      <3> HIDE DEF i
      <3>2. m[k] = l[i] /\ \A j \in 1..i - 1 : m[j + 1] = l[j] /\ j + 1 \in 1..k - 1
        BY <1>1, <3>1
      <3>3. m[k] \in Jumping(c) => \A e \in ExcludedSet : \E j \in 1..k - 1 : m[j] = e
        <4>1. l[i] \in Jumping(c) => \A e \in ExcludedSet : \E j \in 1..i - 1 : l[j] = e
          BY <1>4, <3>1
        <4> QED BY <3>2, <4>1
      <3>4. m[k] \in Dropping(c) => \A j \in 1..k - 1 : m[j] \in Dropping(c)
        <4>1. ASSUME l[i] \in Dropping(c), NEW j \in 1..k - 1
              PROVE  m[j] \in Dropping(c)
          <5>1. CASE j = 1
            BY <1>1, <5>1
          <5>2. CASE j # 1
            <6>1. j - 1 \in 1..i - 1 /\ (j - 1) + 1 = j
              BY <3>1, <5>2
            <6>2. m[j] = l[j - 1]
              BY <3>2, <6>1
            <6>3. l[j - 1] \in Dropping(c)
              BY <1>4, <3>1, <4>1, <6>1
            <6> QED BY <6>2, <6>3
          <5> QED BY <5>1, <5>2
        <4> QED BY <3>2, <4>1
      <3> QED BY <1>4, <3>1, <3>2, <3>3, <3>4
    <2> QED BY <2>1, <2>2
  <1> QED BY <1>1, <1>2, <1>5 DEF Looks, m

LEMMA QueuesLonger ==
    ASSUME UNCHANGED system, NEW c \in Configs, rules["R"] \in Seq(RuleSet), Queues(c),
           NEW q \in {MarkRule(c)} \cup Queueing, q \in Queueing => Have("R", MarkRule(c)),
           Longer(rules["R"], rules'["R"], q)
    PROVE  Queues(c)'
  <1> DEFINE l == rules["R"]
             m == rules'["R"]
             n == Len(l)
             r == MarkRule(c)
  <1>1. n \in Nat /\ DOMAIN l = 1..n /\ DOMAIN m = 1..n + 1 /\ m[n + 1] = q /\ \A k \in 1..n : m[k] = l[k]
    BY DEF Longer
  <1>2. Queueing' = Queueing
    BY SameWorld
  <1>3. q \in Queueing => \E j \in 1..n : l[j] = r
    BY <1>1 DEF Have
  <1>4. /\ \A k \in 1..n : l[k] \in {r} \cup Queueing
        /\ \A k \in 1..n : l[k] \in Queueing => \E j \in 1..k - 1 : l[j] = r
    BY <1>1 DEF Queues
  <1> HIDE DEF l, m, n
  <1>5. ASSUME NEW k \in 1..n + 1
        PROVE  m[k] \in {r} \cup Queueing /\ (m[k] \in Queueing => \E j \in 1..k - 1 : m[j] = r)
    <2> HIDE DEF r
    <2>1. CASE k \in 1..n
      <3>1. \A j \in 1..k - 1 : j \in 1..n
        BY <1>1, <2>1
      <3>2. m[k] = l[k] /\ \A j \in 1..k - 1 : m[j] = l[j]
        BY <1>1, <2>1, <3>1
      <3>3. l[k] \in Queueing => \E j \in 1..k - 1 : l[j] = r
        BY <1>4, <2>1
      <3>4. m[k] \in {r} \cup Queueing
        BY <1>4, <2>1, <3>2
      <3> QED BY <3>2, <3>3, <3>4
    <2>2. CASE k = n + 1
      <3>1. m[k] = q /\ k - 1 = n
        BY <1>1, <2>2
      <3>2. q \in {r} \cup Queueing
        BY DEF r
      <3>3. m[k] \in Queueing => \E j \in 1..n : m[j] = r
        BY <1>1, <1>3, <3>1
      <3> QED BY <3>1, <3>2, <3>3
    <2> QED BY <1>1, <2>1, <2>2
  <1>6. MarkRule(c)' = MarkRule(c)
    BY DEF MarkRule
  <1> QED BY <1>1, <1>2, <1>5, <1>6 DEF Queues, m

\* What a command may add now.
Suits(cmd, c) ==
    \/ \E r \in ExcludedSet : cmd = Add("S", r) \/ cmd = Add("D", r)
    \/ cmd = Add("R", MarkRule(c))
    \/ /\ cmd = Add("R", Main) \/ (prog = "fakehttp" /\ cmd = Optional("R", EarlyAckRule))
       /\ Have("R", MarkRule(c))
    \/ /\ Scoped(cmd, c)
       /\ \A x \in {"S", "D"} : \A r \in ExcludedSet : Have(x, r)

\* What one command keeps and brings.
Keeps(cmd, c) ==
    /\ FirewallTyped' /\ by' = config /\ hooked' = hooked
    /\ Meant(c) => Meant(c)'
    /\ \A x \in Chains : \A r : Have(x, r) \/ Provides(cmd, x, r) => Have(x, r)'

LEMMA LooksSame ==
    ASSUME UNCHANGED system, NEW c, NEW x \in {"S", "D"}, rules'[x] = rules[x]
    PROVE  Looks(x, c) => Looks(x, c)'
  BY SameWorld DEF Looks

LEMMA QueuesSame ==
    ASSUME UNCHANGED system, NEW c, rules'["R"] = rules["R"]
    PROVE  Queues(c) => Queues(c)'
  BY SameWorld DEF Queues, MarkRule

LEMMA AppendKeeps ==
    ASSUME UNCHANGED system, FirewallTyped, NEW c \in Configs, NEW y \in Chains, NEW q \in RuleSet, NEW cmd,
           cmd = Add(y, q) \/ (y = "R" /\ cmd = Optional("R", q)), Possible(cmd), Effect(cmd),
           y # "R" => q \in ExcludedSet \cup Jumping(c) /\ (q \in Jumping(c) => \A e \in ExcludedSet : Have(y, e)),
           y = "R" => q \in {MarkRule(c)} \cup Queueing /\ (q \in Queueing => Have("R", MarkRule(c)))
    PROVE  Keeps(cmd, c)
  <1>1. (y = "D" => q.do \in {"return", "jump"}) /\ (y = "R" => q.do \in {"return", "queue"})
    BY ExcludedIs, RulesAre DEF RulesOf
  <1>2. /\ FirewallTyped' /\ by' = config /\ hooked' = hooked
        /\ Longer(rules[y], rules'[y], q) /\ \A x \in Chains : x # y => rules'[x] = rules[x]
    BY <1>1, Appended
  <1>3. \A x \in Chains : rules[x] \in Seq(RuleSet)
    BY DEF FirewallTyped
  <1>4. ASSUME NEW x \in {"S", "D"}, Looks(x, c)
        PROVE  Looks(x, c)'
    <2>1. CASE x = y
      BY <1>2, <1>3, <1>4, <2>1, LooksLonger DEF Chains
    <2>2. CASE x # y
      BY <1>2, <1>4, <2>2, LooksSame DEF Chains
    <2> QED BY <2>1, <2>2
  <1>5. Queues(c) => Queues(c)'
    <2>1. CASE y = "R"
      BY <1>2, <1>3, <2>1, QueuesLonger
    <2>2. CASE y # "R"
      BY <1>2, <2>2, QueuesSame DEF Chains
    <2> QED BY <2>1, <2>2
  <1>6. Meant(c) => Meant(c)'
    BY <1>4, <1>5 DEF Meant
  <1>7. Have(y, q)' /\ \A r : Have(y, r) => Have(y, r)'
    BY <1>2, <1>3, LongerHas
  <1>8. \A x \in Chains : x # y => \A r : Have(x, r) => Have(x, r)'
    BY <1>2 DEF Have
  <1>9. \A x \in Chains : \A r : Provides(cmd, x, r) => x = y /\ r = q
    <2>1. cmd.op # "batch" /\ cmd.chain = y /\ cmd.rule = q
      <3>1. CASE cmd = Add(y, q)
        BY ONLY <3>1 DEF Add, Cmd
      <3>2. CASE y = "R" /\ cmd = Optional("R", q)
        BY ONLY <3>2 DEF Optional, Cmd
      <3> QED BY <3>1, <3>2
    <2> QED BY <2>1 DEF Provides
  <1> QED BY <1>2, <1>6, <1>7, <1>8, <1>9 DEF Keeps

LEMMA InsertKeeps ==
    ASSUME UNCHANGED system, FirewallTyped, NEW c \in Configs, NEW q \in Dropping(c),
           Possible(Insert("S", q)), Effect(Insert("S", q))
    PROVE  Keeps(Insert("S", q), c)
  <1>1. q \in RuleSet
    BY RulesAre DEF RulesOf
  <1>2. /\ FirewallTyped' /\ by' = config /\ hooked' = hooked
        /\ InFront(rules["S"], rules'["S"], q) /\ \A y \in Chains : y # "S" => rules'[y] = rules[y]
    BY <1>1, Inserted
  <1>3. rules["S"] \in Seq(RuleSet)
    BY DEF FirewallTyped, Chains
  <1>4. Looks("S", c) => Looks("S", c)'
    BY <1>2, <1>3, LooksInFront
  <1>5. Looks("D", c) => Looks("D", c)'
    BY <1>2, LooksSame DEF Chains
  <1>6. Queues(c) => Queues(c)'
    BY <1>2, QueuesSame DEF Chains
  <1>7. Meant(c) => Meant(c)'
    BY <1>4, <1>5, <1>6 DEF Meant
  <1>8. Have("S", q)' /\ \A r : Have("S", r) => Have("S", r)'
    BY <1>2, <1>3, InFrontHas DEF Chains
  <1>9. \A x \in Chains : x # "S" => \A r : Have(x, r) => Have(x, r)'
    BY <1>2 DEF Have
  <1>10. \A x \in Chains : \A r : Provides(Insert("S", q), x, r) => x = "S" /\ r = q
    <2>1. Insert("S", q).op = "insert" /\ Insert("S", q).chain = "S" /\ Insert("S", q).rule = q
      BY DEF Insert, Cmd
    <2> QED BY <2>1 DEF Provides
  <1> QED BY <1>2, <1>7, <1>8, <1>9, <1>10 DEF Keeps

LEMMA SuitedKeeps ==
    ASSUME UNCHANGED system, World, FirewallTyped, NEW c \in Configs, NEW cmd, Suits(cmd, c), Possible(cmd), Effect(cmd)
    PROVE  Keeps(cmd, c)
  <1>1. ASSUME NEW r \in ExcludedSet, NEW y \in {"S", "D"}, cmd = Add(y, r)
        PROVE  Keeps(cmd, c)
    <2>1. r \in RuleSet /\ r \notin Jumping(c) /\ y \in Chains /\ y # "R"
      BY ExcludedIs, RulesAre DEF RulesOf, Chains
    <2> QED BY <1>1, <2>1, AppendKeeps
  <1>2. CASE cmd = Add("R", MarkRule(c))
    <2>1. MarkRule(c) \in RuleSet /\ MarkRule(c) \notin Queueing /\ "R" \in Chains
      BY RulesAre DEF RulesOf, Chains
    <2> QED BY <1>2, <2>1, AppendKeeps
  <1>3. CASE cmd = Add("R", Main) /\ Have("R", MarkRule(c))
    <2>1. Main \in RuleSet /\ Main \in Queueing /\ "R" \in Chains
      BY MarkAndMain DEF Chains
    <2> QED BY <1>3, <2>1, AppendKeeps
  <1>4. CASE prog = "fakehttp" /\ cmd = Optional("R", EarlyAckRule) /\ Have("R", MarkRule(c))
    <2>1. EarlyAckRule \in RuleSet /\ EarlyAckRule \in Queueing /\ "R" \in Chains
      BY <1>4 DEF Chains, RuleSet, Queueing
    <2> QED BY <1>4, <2>1, AppendKeeps
  <1>5. ASSUME NEW r \in Jumping(c), NEW y \in {"S", "D"}, cmd = Add(y, r), \A e \in ExcludedSet : Have(y, e)
        PROVE  Keeps(cmd, c)
    <2>1. r \in RuleSet /\ y \in Chains /\ y # "R"
      BY RulesAre DEF RulesOf, Chains
    <2> QED BY <1>5, <2>1, AppendKeeps
  <1>6. ASSUME NEW r \in Dropping(c), cmd = Insert("S", r)
        PROVE  Keeps(cmd, c)
    BY <1>6, InsertKeeps
  <1> QED BY <1>1, <1>2, <1>3, <1>4, <1>5, <1>6 DEF Suits, Scoped

\* What has been made so far suffices for the next command.
LEMMA FitsSuits ==
    ASSUME World, config \in Configs, NEW m \in Nat, First <= m, m + 1 <= Len(Making(config)), Made(m)
    PROVE  Suits(Making(config)[m + 1], config)
  <1> DEFINE l == Making(config)
             i == m + 1
  <1>1. Len(l) \in Nat /\ First \in Nat
    BY MakingFits DEF MakingForm, First
  <1>2. i \in First + 1..Len(l) /\ i - 1 = m
    BY <1>1
  <1>3. Fits(l, i, config)
    BY <1>2, MakingFits DEF MakingForm
  <1>4. \A x \in Chains, r \in RuleSet : Before(l, i, x, r) => Have(x, r)
    BY <1>2 DEF Before, Made, Brought
  <1>5. MarkRule(config) \in RuleSet /\ ExcludedSet \subseteq RuleSet
    BY RulesAre, ExcludedIs DEF RulesOf
  <1>6. /\ Before(l, i, "R", MarkRule(config)) => Have("R", MarkRule(config))
        /\ \A x \in {"S", "D"} : \A r \in ExcludedSet : Before(l, i, x, r) => Have(x, r)
    BY <1>4, <1>5 DEF Chains
  <1> HIDE DEF l, i
  <1>7. Suits(l[i], config)
    BY <1>3, <1>6 DEF Suits, Fits
  <1> QED BY <1>7 DEF l, i

---------------------------------------------------------------------------
(* The commands of a clean-up *)

LEMMA SweptNext ==
    ASSUME tool' = tool, World, NEW n \in Nat, Swept(n), unremoved \in Nat, unremoved' \in {unremoved, unremoved + 1},
           tool = "iptables" =>
              /\ rules'["R"] # <<>> => rules["R"] # <<>>
              /\ rules'["D"] # <<>> => rules["D"] # <<>>
              /\ hooked'["D"] > 0 => hooked["D"] > 0
              /\ n # 0 \/ unremoved' = unremoved + 1 \/ rules'["R"] = <<>>
              /\ n # 2 \/ unremoved' = unremoved + 1 \/ rules'["D"] = <<>>
              /\ n # 4 \/ unremoved' = unremoved + 1 \/ ~(hooked'["D"] > 0),
           tool = "nft" => n = 0 /\ (unremoved' = unremoved + 1 \/ there' = {})
    PROVE  Swept(n + 1)'
  <1>1. CASE tool = "iptables"
    <2> DEFINE r == rules["R"] # <<>>
               d == rules["D"] # <<>>
               h == hooked["D"] > 0
               r1 == rules'["R"] # <<>>
               d1 == rules'["D"] # <<>>
               h1 == hooked'["D"] > 0
    <2>1. /\ (r1 => r) /\ (d1 => d) /\ (h1 => h)
          /\ n # 0 \/ unremoved' = unremoved + 1 \/ ~r1
          /\ n # 2 \/ unremoved' = unremoved + 1 \/ ~d1
          /\ n # 4 \/ unremoved' = unremoved + 1 \/ ~h1
      BY <1>1
    <2>2. One(n >= 1 /\ r) + One(n >= 3 /\ d) + One(n >= 5 /\ h) <= unremoved
      BY <1>1 DEF Swept
    <2> HIDE DEF r, d, h, r1, d1, h1
    <2>3. One(n + 1 >= 1 /\ r1) + One(n + 1 >= 3 /\ d1) + One(n + 1 >= 5 /\ h1) <= unremoved'
      BY <2>1, <2>2 DEF One
    <2> QED BY <1>1, <2>3 DEF Swept, r1, d1, h1
  <1>2. CASE tool = "nft"
    <2>1. unremoved' = 0 => there' = {}
      BY <1>2
    <2> QED BY <1>2, <2>1 DEF Swept
  <1> QED BY <1>1, <1>2 DEF World

LEMMA RemovalExecuted ==
    ASSUME UNCHANGED system, World, FirewallTyped, unremoved \in Nat, unremoved' = unremoved,
           NEW n \in Nat, n + 1 <= Len(Cleanup), Swept(n), Possible(Cleanup[n + 1]), Effect(Cleanup[n + 1])
    PROVE  FirewallTyped' /\ Less /\ by' = by /\ Swept(n + 1)'
  <1> DEFINE Good == FirewallTyped' /\ Less /\ by' = by
  <1> "R" \in Chains /\ "S" \in Chains /\ "D" \in Chains
    BY DEF Chains
  <1>1. tool' = tool
    BY DEF system
  <1>2. CASE tool = "iptables"
    <2> SUFFICES Good /\ (n = 0 => rules'["R"] = <<>>) /\ (n = 2 => rules'["D"] = <<>>) /\ (n = 4 => hooked'["D"] = 0)
      <3>1. ASSUME Less
            PROVE  /\ rules'["R"] # <<>> => rules["R"] # <<>>
                   /\ rules'["D"] # <<>> => rules["D"] # <<>>
                   /\ hooked'["D"] > 0 => hooked["D"] > 0
        BY <3>1 DEF Less
      <3> QED BY <1>1, <1>2, <3>1, SweptNext
    <2>1. n \in 0..7
      <3>1. Len(Cleanup) = 8
        BY <1>2, CleanupIs DEF CleanupForm
      <3>2. n \in Nat /\ n + 1 <= 8
        BY <3>1
      <3> QED BY ONLY <3>2
    <2>2. CASE n = 0
      <3>1. Cleanup[n + 1] = Undo("flush", "R")
        BY <1>2, <2>2, CleanupIs DEF CleanupForm
      <3> QED BY <2>2, <3>1, Flushed
    <2>3. CASE n = 1
      <3>1. Cleanup[n + 1] = Undo("flush", "S")
        BY <1>2, <2>3, CleanupIs DEF CleanupForm
      <3> QED BY <2>3, <3>1, Flushed
    <2>4. CASE n = 2
      <3>1. Cleanup[n + 1] = Undo("flush", "D")
        BY <1>2, <2>4, CleanupIs DEF CleanupForm
      <3> QED BY <2>4, <3>1, Flushed
    <2>5. CASE n = 3
      <3>1. Cleanup[n + 1] = Undo("unhook", "S")
        BY <1>2, <2>5, CleanupIs DEF CleanupForm
      <3> QED BY <2>5, <3>1, Unhooked
    <2>6. CASE n = 4
      <3>1. Cleanup[n + 1] = Undo("unhook", "D")
        BY <1>2, <2>6, CleanupIs DEF CleanupForm
      <3> QED BY <2>6, <3>1, Unhooked
    <2>7. CASE n = 5
      <3>1. Cleanup[n + 1] = Undo("delete", "R")
        BY <1>2, <2>7, CleanupIs DEF CleanupForm
      <3> QED BY <2>7, <3>1, Deleted
    <2>8. CASE n = 6
      <3>1. Cleanup[n + 1] = Undo("delete", "S")
        BY <1>2, <2>8, CleanupIs DEF CleanupForm
      <3> QED BY <2>8, <3>1, Deleted
    <2>9. CASE n = 7
      <3>1. Cleanup[n + 1] = Undo("delete", "D")
        BY <1>2, <2>9, CleanupIs DEF CleanupForm
      <3> QED BY <2>9, <3>1, Deleted
    <2> QED BY <2>1, <2>2, <2>3, <2>4, <2>5, <2>6, <2>7, <2>8, <2>9
  <1>3. CASE tool = "nft"
    <2>1. n = 0 /\ Cleanup[n + 1] = Undo("delete table", "S")
      <3>1. Len(Cleanup) = 1 /\ Cleanup[1] = Undo("delete table", "S")
        BY <1>3, CleanupIs DEF CleanupForm
      <3>2. n \in Nat /\ n + 1 <= 1
        BY <3>1
      <3>3. n = 0 /\ n + 1 = 1
        BY ONLY <3>2
      <3> QED BY <3>1, <3>3
    <2>2. Good /\ there' = {}
      BY <2>1, TableDeleted
    <2> QED BY <1>1, <1>3, <2>1, <2>2, SweptNext
  <1> QED BY <1>2, <1>3 DEF World

LEMMA RemovalFailed ==
    ASSUME UNCHANGED <<system, firewall>>, World, FirewallTyped, unremoved \in Nat, NEW n \in Nat, n + 1 <= Len(Cleanup), Swept(n),
           unremoved' = IF Possible(Cleanup[n + 1]) THEN unremoved + 1 ELSE unremoved
    PROVE  Swept(n + 1)'
  <1>1. tool' = tool /\ there' = there /\ rules' = rules /\ hooked' = hooked
    BY DEF system, firewall
  <1>2. unremoved' \in {unremoved, unremoved + 1} /\ (unremoved' = unremoved + 1 \/ ~Possible(Cleanup[n + 1]))
    OBVIOUS
  <1>3. \A x \in Chains : ~Possible(Undo("flush", x)) => rules[x] = <<>>
    <2> SUFFICES ASSUME NEW x \in Chains, ~Possible(Undo("flush", x))
                 PROVE  rules[x] = <<>>
      OBVIOUS
    <2> DEFINE cmd == Undo("flush", x)
    <2>1. cmd.op = "flush" /\ cmd.chain = x /\ ~Possible(cmd)
      BY DEF Undo, Cmd
    <2> HIDE DEF cmd
    <2>2. x \notin there
      BY <2>1 DEF Possible
    <2> QED BY <2>2 DEF FirewallTyped
  <1>4. ~Possible(Undo("unhook", "D")) => ~(hooked["D"] > 0)
    <2> SUFFICES ASSUME ~Possible(Undo("unhook", "D"))
                 PROVE  ~(hooked["D"] > 0)
      OBVIOUS
    <2> DEFINE cmd == Undo("unhook", "D")
    <2>1. cmd.op = "unhook" /\ cmd.chain = "D" /\ ~Possible(cmd)
      BY DEF Undo, Cmd
    <2> HIDE DEF cmd
    <2> QED BY <2>1 DEF Possible
  <1>5. ~Possible(Undo("delete table", "S")) => there = {}
    <2> SUFFICES ASSUME ~Possible(Undo("delete table", "S"))
                 PROVE  there = {}
      OBVIOUS
    <2> DEFINE cmd == Undo("delete table", "S")
    <2>1. cmd.op = "delete table" /\ ~Possible(cmd)
      BY DEF Undo, Cmd
    <2> HIDE DEF cmd
    <2> QED BY <2>1 DEF Possible
  <1>6. CASE tool = "iptables"
    <2>1. n = 0 => Cleanup[n + 1] = Undo("flush", "R")
      BY <1>6, CleanupIs DEF CleanupForm
    <2>2. n = 2 => Cleanup[n + 1] = Undo("flush", "D")
      BY <1>6, CleanupIs DEF CleanupForm
    <2>3. n = 4 => Cleanup[n + 1] = Undo("unhook", "D")
      BY <1>6, CleanupIs DEF CleanupForm
    <2>4. /\ n # 0 \/ unremoved' = unremoved + 1 \/ rules'["R"] = <<>>
          /\ n # 2 \/ unremoved' = unremoved + 1 \/ rules'["D"] = <<>>
          /\ n # 4 \/ unremoved' = unremoved + 1 \/ ~(hooked'["D"] > 0)
      BY <1>1, <1>2, <1>3, <1>4, <2>1, <2>2, <2>3 DEF Chains
    <2> QED BY <1>1, <1>2, <1>6, <2>4, SweptNext
  <1>7. CASE tool = "nft"
    <2>1. n = 0 /\ Cleanup[n + 1] = Undo("delete table", "S")
      <3>1. Len(Cleanup) = 1 /\ Cleanup[1] = Undo("delete table", "S")
        BY <1>7, CleanupIs DEF CleanupForm
      <3>2. n \in Nat /\ n + 1 <= 1
        BY <3>1
      <3>3. n = 0 /\ n + 1 = 1
        BY ONLY <3>2
      <3> QED BY <3>1, <3>3
    <2> QED BY <1>1, <1>2, <1>5, <1>7, <2>1, SweptNext
  <1> QED BY <1>6, <1>7 DEF World

---------------------------------------------------------------------------
(* The commands that make the rules *)

LEMMA FiveProvide ==
    \A i \in 1..5 : \A x, r : ~Provides(Five[i], x, r)
  <1>1. \A x, y, r : ~Provides(New(y), x, r) /\ ~Provides(Hook(y), x, r)
    BY DEF New, Hook, Cmd, Provides
  <1>2. \A i \in 1..5 : i = 1 \/ i = 2 \/ i = 3 \/ i = 4 \/ i = 5
    OBVIOUS
  <1> QED BY <1>1, <1>2, FiveAre

LEMMA BroughtNext ==
    ASSUME UNCHANGED <<system, config>>, NEW m \in Nat, Brought(m),
           \A x \in Chains : \A r : Have(x, r) \/ Provides(Making(config)[m + 1], x, r) => Have(x, r)'
    PROVE  Brought(m + 1)'
  <1>1. RuleSet' = RuleSet /\ Making(config)' = Making(config)
    BY SameWorld
  <1>2. ASSUME NEW i \in 1..m + 1, NEW x \in Chains, NEW r \in RuleSet, Provides(Making(config)[i], x, r)
        PROVE  Have(x, r)'
    <2>1. CASE i = m + 1
      BY <1>2, <2>1
    <2>2. CASE i # m + 1
      <3>1. i \in 1..m
        BY <2>2
      <3> QED BY <1>2, <3>1 DEF Brought
    <2> QED BY <2>1, <2>2
  <1> QED BY <1>1, <1>2 DEF Brought, Provides

\* Five commands of iptables have put nothing into the chains.
LEMMA FiveBring ==
    ASSUME UNCHANGED <<system, config>>, World, config \in Configs, tool = "iptables", NEW m \in Nat, m <= 5
    PROVE  Brought(m)'
  <1>1. \A i \in 1..m : Making(config)[i] = Five[i] /\ i \in 1..5
    BY MakingFits DEF MakingForm
  <1>2. Making(config)' = Making(config)
    BY SameWorld
  <1>3. \A i \in 1..m : \A x, r : ~Provides(Making(config)'[i], x, r)
    BY <1>1, <1>2, FiveProvide
  <1> QED BY <1>3 DEF Brought, Provides

\* What three commands of a clean-up are for: any one of them cuts the rest off.
LEMMA SweptIsSilent ==
    ASSUME World, FirewallTyped, tool = "iptables", unremoved \in Nat, Swept(8), Removable, rules["S"] = <<>>
    PROVE  Silent
  <1> DEFINE r == rules["R"] # <<>>
             d == rules["D"] # <<>>
             h == hooked["D"] > 0
  <1>1. One(8 >= 1 /\ r) + One(8 >= 3 /\ d) + One(8 >= 5 /\ h) <= unremoved
    BY DEF Swept
  <1>2. unremoved <= 2
    BY DEF Removable
  <1> HIDE DEF r, d, h
  <1>3. ~r \/ ~d \/ ~h
    BY <1>1, <1>2 DEF One
  <1>4. ~(hooked["D"] > 0) => hooked["D"] = 0
    BY DEF FirewallTyped
  <1> QED BY <1>3, <1>4 DEF Silent, r, d, h

\* The next state of what is made, when five commands are still to be done.
LEMMA FirstFive ==
    ASSUME UNCHANGED <<system, config>>, World, FirewallTyped, config \in Configs, tool = "iptables",
           NEW m \in 0..4, m = 0 => Swept(8), m >= 1 => Made(m), unremoved \in Nat, unremoved' = unremoved,
           Possible(Making(config)[m + 1]), Effect(Making(config)[m + 1])
    PROVE  FirewallTyped' /\ by' = config /\ IptMade(m + 1)' /\ (Removable' /\ m < 4 => Silent')
  <1> "R" \in Chains /\ "S" \in Chains /\ "D" \in Chains
    BY DEF Chains
  <1>1. tool' = tool /\ config' = config
    BY DEF system
  <1>2. Making(config)[m + 1] = Five[m + 1]
    BY MakingFits DEF MakingForm
  <1>3. m >= 1 => IptMade(m)
    BY DEF Made
  <1>4. CASE m = 0
    <2>1. Making(config)[m + 1] = New("S")
      BY <1>2, <1>4, FiveAre
    <2>2. FirewallTyped' /\ by' = config /\ rules' = rules /\ hooked' = hooked /\ rules["S"] = <<>> /\ hooked["S"] = 0
      BY <2>1, Created
    <2>3. Removable' => Silent'
      <3>1. Removable => Silent
        BY <1>4, <2>2, SweptIsSilent
      <3>2. Removable' => Removable
        BY <1>1 DEF Removable
      <3> QED BY <1>1, <2>2, <3>1, <3>2 DEF Silent
    <2> QED BY <1>1, <1>4, <2>2, <2>3 DEF IptMade
  <1>5. CASE m = 1
    <2>1. Making(config)[m + 1] = New("D")
      BY <1>2, <1>5, FiveAre
    <2>2. FirewallTyped' /\ by' = config /\ rules' = rules /\ hooked' = hooked /\ rules["D"] = <<>> /\ hooked["D"] = 0
      BY <2>1, Created
    <2>3. rules["S"] = <<>> /\ hooked["S"] = 0
      BY <1>3, <1>5 DEF IptMade
    <2>4. Silent'
      BY <1>1, <2>2, <2>3 DEF Silent
    <2> QED BY <1>1, <1>5, <2>2, <2>3, <2>4 DEF IptMade
  <1>6. CASE m = 2
    <2>1. Making(config)[m + 1] = Hook("S")
      BY <1>2, <1>6, FiveAre
    <2>2. rules["S"] = <<>> /\ hooked["S"] = 0 /\ rules["D"] = <<>> /\ hooked["D"] = 0
      BY <1>3, <1>6 DEF IptMade
    <2>3. FirewallTyped' /\ by' = config /\ rules' = rules /\ hooked'["S"] = 1 /\ hooked'["D"] = 0
      BY <2>1, <2>2, HookedUp
    <2>4. Silent'
      BY <1>1, <2>2, <2>3 DEF Silent
    <2> QED BY <1>1, <1>6, <2>2, <2>3, <2>4 DEF IptMade
  <1>7. CASE m = 3
    <2>1. Making(config)[m + 1] = Hook("D")
      BY <1>2, <1>7, FiveAre
    <2>2. rules["S"] = <<>> /\ hooked["S"] = 1 /\ rules["D"] = <<>> /\ hooked["D"] = 0
      BY <1>3, <1>7 DEF IptMade
    <2>3. FirewallTyped' /\ by' = config /\ rules' = rules /\ hooked'["D"] = 1 /\ hooked'["S"] = 1
      BY <2>1, <2>2, HookedUp
    <2>4. Silent'
      BY <1>1, <2>2, <2>3 DEF Silent
    <2> QED BY <1>1, <1>7, <2>2, <2>3, <2>4 DEF IptMade
  <1>8. CASE m = 4
    <2>1. Making(config)[m + 1] = New("R")
      BY <1>2, <1>8, FiveAre
    <2>2. rules["S"] = <<>> /\ hooked["S"] = 1 /\ rules["D"] = <<>> /\ hooked["D"] = 1
      BY <1>3, <1>8 DEF IptMade
    <2>3. FirewallTyped' /\ by' = config /\ rules' = rules /\ hooked' = hooked /\ rules["R"] = <<>>
      BY <2>1, Created
    <2>4. DOMAIN rules'["S"] = {} /\ DOMAIN rules'["D"] = {} /\ DOMAIN rules'["R"] = {}
      BY <2>2, <2>3
    <2>5. Meant(config)'
      BY <2>4 DEF Meant, Looks, Queues
    <2> QED BY <1>1, <1>8, <2>2, <2>3, <2>5 DEF IptMade
  <1>9. m = 0 \/ m = 1 \/ m = 2 \/ m = 3 \/ m = 4
    OBVIOUS
  <1> QED BY <1>4, <1>5, <1>6, <1>7, <1>8, <1>9

LEMMA IptMakes ==
    ASSUME UNCHANGED <<system, config>>, World, FirewallTyped, config \in Configs, tool = "iptables",
           unremoved \in Nat, unremoved' = unremoved, NEW m \in Nat, m + 1 <= Len(Making(config)),
           m = 0 => Swept(8), m >= 1 => Made(m), Possible(Making(config)[m + 1]), Effect(Making(config)[m + 1])
    PROVE  FirewallTyped' /\ by' = config /\ Made(m + 1)' /\ Consistent'
  <1>1. tool' = tool /\ config' = config
    BY DEF system
  <1>2. CASE m < 5
    <2>1. m \in 0..4
      BY <1>2
    <2>2. FirewallTyped' /\ by' = config /\ IptMade(m + 1)' /\ (Removable' /\ m < 4 => Silent')
      BY <2>1, FirstFive
    <2>3. Brought(m + 1)'
      BY <2>1, FiveBring
    <2>4. m = 4 => Meant(config)'
      BY <2>2 DEF IptMade
    <2>5. m = 4 => Meant(by)'
      BY <1>1, <2>2, <2>4
    <2>6. Consistent'
      BY <2>1, <2>2, <2>5 DEF Consistent
    <2> QED BY <1>1, <2>2, <2>3, <2>6 DEF Made
  <1>3. CASE m >= 5
    <2> DEFINE cmd == Making(config)[m + 1]
    <2>1. m >= First /\ Made(m)
      BY <1>3 DEF First
    <2>2. Suits(cmd, config)
      BY <2>1, FitsSuits
    <2>3. Keeps(cmd, config)
      BY <2>2, SuitedKeeps
    <2>4. IptMade(m) /\ Brought(m)
      BY <2>1 DEF Made
    <2>5. Brought(m + 1)'
      BY <2>3, <2>4, BroughtNext DEF Keeps
    <2>6. Meant(config)'
      BY <1>3, <2>3, <2>4 DEF Keeps, IptMade
    <2>7. Meant(by)'
      BY <1>1, <2>3, <2>6 DEF Keeps
    <2>8. hooked["S"] = 1 /\ hooked["D"] = 1
      BY <1>3, <2>4 DEF IptMade
    <2>9. IptMade(m + 1)'
      BY <1>3, <2>3, <2>6, <2>8 DEF Keeps, IptMade
    <2> QED BY <1>1, <2>3, <2>5, <2>7, <2>9 DEF Made, Consistent, Keeps
  <1> QED BY <1>2, <1>3

LEMMA NftMakes ==
    ASSUME UNCHANGED <<system, config>>, World, FirewallTyped, config \in Configs, tool = "nft", Consistent,
           unremoved \in Nat, unremoved' = unremoved, NEW m \in Nat, m + 1 <= Len(Making(config)),
           m = 0 => Swept(1), m >= 1 => Made(m), Possible(Making(config)[m + 1]), Effect(Making(config)[m + 1])
    PROVE  FirewallTyped' /\ by' = config /\ Made(m + 1)' /\ Consistent'
  <1>1. tool' = tool /\ config' = config
    BY DEF system
  <1>2. Removable' => unremoved = 0
    BY <1>1 DEF Removable
  <1>3. CASE m = 0
    <2>1. Making(config)[m + 1] = OneBatch(config)
      BY <1>3, MakingFits DEF MakingForm
    <2>2. /\ FirewallTyped' /\ by' = config /\ hooked'["S"] = 1 /\ hooked'["D"] = 1
          /\ \A x \in Chains : Behind(rules[x], rules'[x], BatchOf(config, x))
      BY <2>1, Batched
    <2>3. Removable' => Meant(config)'
      <3>1. Removable' => there = {}
        BY <1>2, <1>3 DEF Swept
      <3> QED BY <2>1, <3>1, BatchedFresh
    <2>4. Removable' => Meant(by)'
      BY <1>1, <2>2, <2>3
    <2>5. ASSUME NEW x \in Chains
          PROVE  \A r : Have(x, r) \/ Provides(OneBatch(config), x, r) => Have(x, r)'
      <3>1. BatchOf(config, x) \in Seq(RuleSet) /\ OneBatch(config).rule[x] = BatchOf(config, x) /\ OneBatch(config).op = "batch"
        BY BatchRules, OneBatchIs
      <3>2. rules[x] \in Seq(RuleSet)
        BY DEF FirewallTyped
      <3>3. \A r : Have(x, r) \/ (\E k \in DOMAIN BatchOf(config, x) : BatchOf(config, x)[k] = r) => Have(x, r)'
        BY <2>2, <3>1, <3>2, BehindHas
      <3> QED BY <3>1, <3>3 DEF Provides
    <2>6. Brought(m)
      BY <1>3 DEF Brought
    <2>7. Brought(m + 1)'
      BY <2>1, <2>5, <2>6, BroughtNext
    <2> QED BY <1>1, <2>2, <2>4, <2>7 DEF Made, Consistent
  <1>4. CASE m >= 1
    <2> DEFINE cmd == Making(config)[m + 1]
    <2>1. m >= First /\ Made(m)
      BY <1>4 DEF First
    <2>2. Suits(cmd, config)
      BY <2>1, FitsSuits
    <2>3. Keeps(cmd, config)
      BY <2>2, SuitedKeeps
    <2>4. Brought(m) /\ by = config /\ hooked["S"] = 1 /\ hooked["D"] = 1
      BY <1>4, <2>1 DEF Made
    <2>5. Brought(m + 1)'
      BY <2>3, <2>4, BroughtNext DEF Keeps
    <2>6. Removable' => Meant(config)
      <3>1. Removable' => Removable
        BY <1>1 DEF Removable
      <3> QED BY <2>4, <3>1 DEF Consistent, Silent
    <2>7. Removable' => Meant(by)'
      BY <1>1, <2>3, <2>6 DEF Keeps
    <2> QED BY <1>1, <2>3, <2>4, <2>5, <2>7 DEF Made, Consistent, Keeps
  <1>5. m = 0 \/ m >= 1
    OBVIOUS
  <1> QED BY <1>3, <1>4, <1>5

\* A command that makes rules is no removal; the one that may fail brings nothing.
LEMMA MakingOps ==
    ASSUME World, NEW c \in Configs, NEW i \in 1..Len(Making(c))
    PROVE  /\ Making(c)[i].op \notin Removal
           /\ ~Must(Making(c)[i]) => i > First /\ \A x, r : ~Provides(Making(c)[i], x, r)
  <1> DEFINE cmd == Making(c)[i]
  <1>1. CASE i > First
    <2>1. i \in First + 1..Len(Making(c))
      BY <1>1, MakingFits DEF MakingForm, First
    <2>2. Fits(Making(c), i, c)
      BY <2>1, MakingFits DEF MakingForm
    <2>3. cmd.op \in {"append", "insert", "try to append"}
      <3>1. \A x, r : Add(x, r).op = "append" /\ Insert(x, r).op = "insert" /\ Optional(x, r).op = "try to append"
        BY DEF Add, Insert, Optional, Cmd
      <3> QED BY <2>2, <3>1 DEF Fits, Scoped
    <2> QED BY <1>1, <2>3 DEF Removal, Must, Provides
  <1>2. CASE i <= First /\ tool = "iptables"
    <2>1. i \in 1..5 /\ cmd = Five[i]
      BY <1>2, MakingFits DEF MakingForm, First
    <2>2. Five[i].op \in {"new", "hook"}
      <3>1. \A x : New(x).op = "new" /\ Hook(x).op = "hook"
        BY DEF New, Hook, Cmd
      <3>2. i = 1 \/ i = 2 \/ i = 3 \/ i = 4 \/ i = 5
        BY <2>1
      <3> QED BY <3>1, <3>2, FiveAre
    <2> QED BY <2>1, <2>2 DEF Removal, Must
  <1>3. CASE i <= First /\ tool = "nft"
    <2>1. cmd = OneBatch(c)
      BY <1>3, MakingFits DEF MakingForm, First
    <2> QED BY <2>1, OneBatchIs DEF Removal, Must
  <1>4. First \in Nat
    BY DEF First
  <1> QED BY <1>1, <1>2, <1>3, <1>4 DEF World

---------------------------------------------------------------------------
(* Every step *)

LEMMA LastIs ==
    ASSUME NEW T, NEW t \in Seq(T), NEW l \in Seq(T), t # <<>>, LastOf(t, l)
    PROVE  /\ Len(t) \in Nat /\ Len(l) \in Nat /\ Len(t) >= 1 /\ Len(t) <= Len(l)
           /\ Head(t) = l[Len(l) - Len(t) + 1]
           /\ Tail(t) \in Seq(T) /\ Len(Tail(t)) = Len(t) - 1 /\ LastOf(Tail(t), l)
  <1>1. Len(t) \in Nat /\ Len(l) \in Nat /\ Len(t) >= 1 /\ Len(t) <= Len(l)
    BY DEF LastOf
  <1>2. Head(t) = t[1] /\ Tail(t) \in Seq(T) /\ Len(Tail(t)) = Len(t) - 1 /\ \A k \in 1..Len(t) - 1 : Tail(t)[k] = t[k + 1]
    BY <1>1
  <1>3. Head(t) = l[Len(l) - Len(t) + 1]
    BY <1>1, <1>2 DEF LastOf
  <1> DEFINE u == Tail(t)
  <1>4. LastOf(u, l)
    <2>1. Len(u) = Len(t) - 1 /\ \A k \in 1..Len(t) - 1 : u[k] = t[k + 1]
      BY <1>2
    <2> HIDE DEF u
    <2>2. ASSUME NEW k \in 1..Len(u)
          PROVE  u[k] = l[Len(l) - Len(u) + k]
      <3>1. k + 1 \in 1..Len(t) /\ Len(l) - Len(t) + (k + 1) = Len(l) - Len(u) + k
        BY <1>1, <2>1
      <3>2. t[k + 1] = l[Len(l) - Len(t) + (k + 1)]
        BY <3>1 DEF LastOf
      <3> QED BY <1>1, <2>1, <3>1, <3>2
    <2> QED BY <1>1, <2>1, <2>2 DEF LastOf
  <1> QED BY <1>1, <1>2, <1>3, <1>4

LEMMA WholeIsLast ==
    ASSUME NEW T, NEW l \in Seq(T)
    PROVE  LastOf(l, l)
  <1>1. Len(l) \in Nat /\ \A k \in 1..Len(l) : Len(l) - Len(l) + k = k
    OBVIOUS
  <1> QED BY <1>1 DEF LastOf

\* The command ahead, and what is known before it.
LEMMA Ahead ==
    ASSUME RulesInv, todo # <<>>
    PROVE  LET c == Len(Cleanup)
               n == Len(Setup(config)) - Len(todo)
           IN  /\ todo \in Seq(CmdSet) /\ Tail(todo) \in Seq(CmdSet) /\ Len(Tail(todo)) = Len(todo) - 1
               /\ Len(todo) \in Nat /\ Len(todo) >= 1 /\ c \in Nat /\ Len(Making(config)) \in Nat
               /\ \/ /\ phase = "clearing" /\ Len(todo) <= c /\ Swept(c - Len(todo))
                     /\ Head(todo) = Cleanup[c - Len(todo) + 1] /\ LastOf(Tail(todo), Cleanup)
                  \/ /\ phase = "making" /\ n \in Nat /\ n < c /\ Swept(n)
                     /\ Head(todo) = Cleanup[n + 1] /\ LastOf(Tail(todo), Setup(config))
                  \/ /\ phase = "making" /\ n \in Nat /\ n >= c
                     /\ n - c + 1 <= Len(Making(config)) /\ (n = c => Swept(c)) /\ (n > c => Made(n - c))
                     /\ Head(todo) = Making(config)[n - c + 1] /\ LastOf(Tail(todo), Setup(config))
  <1> DEFINE a == Cleanup
             b == Making(config)
             s == Setup(config)
             c == Len(a)
             n == Len(s) - Len(todo)
  <1>1. /\ todo \in Seq(CmdSet) /\ a \in Seq(CmdSet) /\ b \in Seq(CmdSet) /\ s \in Seq(CmdSet) /\ Len(s) = Len(a) + Len(b)
        /\ (\A i \in 1..Len(a) : s[i] = a[i]) /\ \A k \in 1..Len(b) : s[Len(a) + k] = b[k]
    <2>1. World /\ config \in Configs /\ todo \in Seq(CmdSet)
      BY DEF RulesInv, RulesTyped
    <2> QED BY <2>1, CleanupIs, SetupIs, MakingFits DEF CleanupForm, MakingForm
  <1>2. CASE phase = "clearing"
    <2>1. LastOf(todo, a) /\ Swept(c - Len(todo))
      BY <1>2 DEF RulesInv, Position, Progress
    <2> HIDE DEF a, b, s
    <2>2. /\ Len(todo) \in Nat /\ c \in Nat /\ Len(todo) >= 1 /\ Len(todo) <= c
          /\ Head(todo) = a[c - Len(todo) + 1]
          /\ Tail(todo) \in Seq(CmdSet) /\ Len(Tail(todo)) = Len(todo) - 1 /\ LastOf(Tail(todo), a)
      BY <1>1, <2>1, LastIs
    <2>3. Len(b) \in Nat
      BY <1>1
    <2> QED BY <1>1, <1>2, <2>1, <2>2, <2>3 DEF a, b, s
  <1>3. CASE phase = "making"
    <2>1. LastOf(todo, s) /\ IF n <= c THEN Swept(n) ELSE Made(n - c)
      BY <1>3 DEF RulesInv, Position, Progress
    <2> HIDE DEF a, b, s
    <2>2. /\ Len(todo) \in Nat /\ Len(s) \in Nat /\ Len(todo) >= 1 /\ Len(todo) <= Len(s)
          /\ Head(todo) = s[n + 1]
          /\ Tail(todo) \in Seq(CmdSet) /\ Len(Tail(todo)) = Len(todo) - 1 /\ LastOf(Tail(todo), s)
      BY <1>1, <2>1, LastIs
    <2>3. c \in Nat /\ Len(b) \in Nat
      BY <1>1
    <2>4. n \in Nat /\ n + 1 \in 1..c + Len(b)
      BY <1>1, <2>2, <2>3
    <2>5. CASE n < c
      <3>1. n + 1 \in 1..c /\ n <= c
        BY <2>3, <2>4, <2>5
      <3>2. Head(todo) = a[n + 1] /\ Swept(n)
        BY <1>1, <2>1, <2>2, <3>1
      <3> QED BY <1>1, <1>3, <2>2, <2>3, <2>4, <2>5, <3>2 DEF a, b, s
    <2>6. CASE n >= c
      <3>1. n - c + 1 \in 1..Len(b) /\ c + (n - c + 1) = n + 1
        BY <2>3, <2>4, <2>6
      <3>2. Head(todo) = b[n - c + 1]
        BY <1>1, <2>2, <3>1
      <3>3. (n = c => Swept(c)) /\ (n > c => Made(n - c))
        BY <2>1, <2>3, <2>4
      <3>4. n - c + 1 <= Len(b)
        BY <3>1
      <3> QED BY <1>1, <1>3, <2>2, <2>3, <2>4, <2>6, <3>2, <3>3, <3>4 DEF a, b, s
    <2> QED BY <2>3, <2>4, <2>5, <2>6
  <1>4. phase \in {"making", "clearing"}
    BY DEF RulesInv, RulesTyped, Position
  <1> QED BY <1>2, <1>3, <1>4

LEMMA SameFirewall ==
    ASSUME UNCHANGED <<system, firewall>>, World, FirewallTyped, Consistent, unremoved \in Nat, unremoved' \in {unremoved, unremoved + 1}
    PROVE  /\ World' /\ FirewallTyped' /\ Consistent' /\ by' = by
           /\ \A m : Made(m) /\ config' = config => Made(m)'
           /\ \A n : Swept(n) /\ unremoved' = unremoved => Swept(n)'
  <1>1. tool' = tool /\ there' = there /\ rules' = rules /\ hooked' = hooked /\ by' = by
    BY DEF system, firewall
  <1>2. Less
    BY <1>1 DEF Less
  <1>3. World' /\ FirewallTyped'
    BY <1>1, SameWorld DEF FirewallTyped
  <1>4. \A c : Meant(c) => Meant(c)'
    BY <1>2, LessKeeps
  <1>5. Silent => Silent'
    BY <1>1 DEF Silent
  <1>6. Removable' => Removable
    BY <1>1 DEF Removable
  <1>7. Consistent'
    BY <1>1, <1>4, <1>5, <1>6 DEF Consistent
  <1>8. ASSUME NEW m, Made(m), config' = config
        PROVE  Made(m)'
    <2>1. Making(config)' = Making(config) /\ RuleSet' = RuleSet
      BY <1>8, SameWorld
    <2>2. Brought(m)'
      BY <1>1, <1>8, <2>1 DEF Made, Brought, Have, Provides
    <2>3. Meant(config) => Meant(config)'
      BY <1>4, <1>8
    <2>4. tool = "iptables" => IptMade(m)'
      BY <1>1, <1>8, <2>3 DEF Made, IptMade
    <2> QED BY <1>1, <1>8, <2>2, <2>4 DEF Made
  <1>9. ASSUME NEW n, Swept(n), unremoved' = unremoved
        PROVE  Swept(n)'
    BY <1>1, <1>9 DEF Swept
  <1> QED BY <1>1, <1>3, <1>7, <1>8, <1>9

\* How far a process is, from the number of the commands ahead of it.
LEMMA ProgressNext ==
    ASSUME UNCHANGED <<system, config, phase>>, NEW c \in Nat, c = Len(Cleanup), NEW s \in Nat, s = Len(Setup(config)),
           NEW t \in Nat, Len(todo') = t - 1, phase \in {"making", "clearing"},
           phase = "clearing" => Swept(c - t + 1)' /\ LastOf(todo', Cleanup),
           phase = "making" =>
              LastOf(todo', Setup(config)) /\ IF s - t < c THEN Swept(s - t + 1)' ELSE Made(s - t - c + 1)'
    PROVE  Position' /\ Progress'
  <1>1. phase' = phase /\ config' = config /\ Cleanup' = Cleanup /\ Setup(config)' = Setup(config)
    BY SameWorld
  <1>2. Position'
    BY <1>1 DEF Position
  <1>3. Len(Cleanup)' = c /\ Len(Setup(config))' = s /\ Len(todo)' = t - 1
    BY <1>1
  <1>4. CASE phase = "clearing"
    <2>1. Len(Cleanup)' - Len(todo)' = c - t + 1
      BY <1>3
    <2>2. Swept(Len(Cleanup) - Len(todo))'
      BY <1>4, <2>1
    <2> QED BY <1>1, <1>2, <1>4, <2>2 DEF Progress
  <1>5. CASE phase = "making"
    <2>1. Len(Setup(config))' - Len(todo)' = s - t + 1
      BY <1>3
    <2>2. CASE s - t < c
      <3>1. s - t + 1 <= c
        BY <2>2
      <3>2. Swept(s - t + 1)'
        BY <1>5, <2>2
      <3> QED BY <1>1, <1>2, <1>3, <1>5, <2>1, <3>1, <3>2 DEF Progress
    <2>3. CASE ~(s - t < c)
      <3>1. ~(s - t + 1 <= c) /\ s - t + 1 - c = s - t - c + 1
        BY <2>3
      <3>2. Made(s - t - c + 1)'
        BY <1>5, <2>3
      <3> QED BY <1>1, <1>2, <1>3, <1>5, <2>1, <3>1, <3>2 DEF Progress
    <2> QED BY <2>2, <2>3
  <1> QED BY <1>4, <1>5

LEMMA LessConsistent ==
    ASSUME UNCHANGED system, Less, by' = by, unremoved' = unremoved, Consistent
    PROVE  Consistent'
  <1>1. tool' = tool
    BY DEF system
  <1>2. Removable' => Removable
    BY <1>1 DEF Removable
  <1>3. (Meant(by) => Meant(by)') /\ (Silent => Silent')
    <2>1. \A c : Meant(c) => Meant(c)'
      BY LessKeeps
    <2>2. Silent => Silent'
      BY LessKeeps
    <2> QED BY <2>1, <2>2
  <1> QED BY <1>2, <1>3 DEF Consistent

LEMMA ExecuteKeeps ==
    ASSUME RulesInv, Execute
    PROVE  RulesInv'
  <1> SUFFICES ASSUME NEW c, c = Len(Cleanup), NEW s, s = Len(Setup(config)), NEW t, t = Len(todo)
               PROVE  RulesInv'
    OBVIOUS
  <1> DEFINE n == s - t
             cmd == Head(todo)
  <1>1. /\ UNCHANGED <<system, config, phase, unremoved>> /\ todo # <<>> /\ Possible(cmd) /\ Effect(cmd) /\ todo' = Tail(todo)
    BY DEF Execute
  <1>2. World /\ FirewallTyped /\ Consistent /\ config \in Configs /\ by \in Configs /\ unremoved \in Nat
    BY DEF RulesInv, RulesTyped
  <1>3. /\ todo \in Seq(CmdSet) /\ todo' \in Seq(CmdSet) /\ Len(todo') = t - 1
        /\ t \in Nat /\ t >= 1 /\ c \in Nat /\ Len(Making(config)) \in Nat /\ s \in Nat
    BY <1>1, <1>2, Ahead, SetupIs
  <1>4. World' /\ CmdSet' = CmdSet
    BY <1>1, <1>2, SameWorld
  <1> SUFFICES FirewallTyped' /\ by' \in Configs /\ Consistent' /\ Position' /\ Progress'
    BY <1>1, <1>2, <1>3, <1>4 DEF RulesInv, RulesTyped
  <1>5. CASE phase = "clearing"
    <2> DEFINE k == c - t
    <2>1. t <= c /\ Swept(k) /\ cmd = Cleanup[k + 1] /\ LastOf(todo', Cleanup)
      BY <1>1, <1>5, Ahead
    <2>2. k \in Nat /\ k + 1 <= c
      BY <1>3, <2>1
    <2>3. FirewallTyped' /\ Less /\ by' = by /\ Swept(k + 1)'
      <3> HIDE DEF k
      <3> QED BY <1>1, <1>2, <2>1, <2>2, RemovalExecuted
    <2>4. Consistent'
      BY <1>1, <1>2, <2>3, LessConsistent
    <2>5. Position' /\ Progress'
      BY <1>1, <1>3, <1>5, <2>1, <2>3, ProgressNext
    <2> QED BY <1>2, <2>3, <2>4, <2>5
  <1>6. CASE phase = "making" /\ n < c
    <2>1. n \in Nat /\ Swept(n) /\ cmd = Cleanup[n + 1] /\ LastOf(todo', Setup(config))
      BY <1>1, <1>3, <1>6, Ahead
    <2>2. n + 1 <= c
      BY <1>3, <1>6, <2>1
    <2>3. FirewallTyped' /\ Less /\ by' = by /\ Swept(n + 1)'
      <3> HIDE DEF n
      <3> QED BY <1>1, <1>2, <2>1, <2>2, RemovalExecuted
    <2>4. Consistent'
      BY <1>1, <1>2, <2>3, LessConsistent
    <2>5. Position' /\ Progress'
      BY <1>1, <1>3, <1>6, <2>1, <2>3, ProgressNext
    <2> QED BY <1>2, <2>3, <2>4, <2>5
  <1>7. CASE phase = "making" /\ ~(n < c)
    <2> DEFINE m == n - c
    <2>1. /\ n \in Nat /\ m + 1 <= Len(Making(config)) /\ (n = c => Swept(c)) /\ (n > c => Made(m))
          /\ cmd = Making(config)[m + 1] /\ LastOf(todo', Setup(config))
      BY <1>1, <1>3, <1>7, Ahead
    <2>2. m \in Nat /\ (m = 0 => Swept(c)) /\ (m >= 1 => Made(m))
      BY <1>3, <1>7, <2>1
    <2>3. FirewallTyped' /\ by' = config /\ Made(m + 1)' /\ Consistent'
      <3>1. (tool = "iptables" => c = 8) /\ (tool = "nft" => c = 1)
        BY <1>2, CleanupIs DEF CleanupForm
      <3> HIDE DEF m
      <3>2. CASE tool = "iptables"
        BY <1>1, <1>2, <2>1, <2>2, <3>1, <3>2, IptMakes
      <3>3. CASE tool = "nft"
        BY <1>1, <1>2, <2>1, <2>2, <3>1, <3>3, NftMakes
      <3> QED BY <1>2, <3>2, <3>3 DEF World
    <2>4. Position' /\ Progress'
      BY <1>1, <1>3, <1>7, <2>1, <2>3, ProgressNext
    <2> QED BY <1>2, <2>3, <2>4
  <1>8. phase = "clearing" \/ phase = "making"
    BY <1>1, Ahead
  <1> QED BY <1>5, <1>6, <1>7, <1>8

LEMMA FailureKeeps ==
    ASSUME RulesInv, ExecuteFails
    PROVE  RulesInv'
  <1> SUFFICES ASSUME NEW c, c = Len(Cleanup), NEW s, s = Len(Setup(config)), NEW t, t = Len(todo)
               PROVE  RulesInv'
    OBVIOUS
  <1> DEFINE n == s - t
             cmd == Head(todo)
  <1>1. /\ UNCHANGED <<system, firewall, config>> /\ todo # <<>>
        /\ IF Must(cmd) THEN phase' = "clearing" /\ todo' = Cleanup ELSE phase' = phase /\ todo' = Tail(todo)
        /\ unremoved' = IF Possible(cmd) /\ cmd.op \in Removal THEN unremoved + 1 ELSE unremoved
    BY DEF ExecuteFails
  <1>2. World /\ FirewallTyped /\ Consistent /\ config \in Configs /\ by \in Configs /\ unremoved \in Nat
    BY DEF RulesInv, RulesTyped
  <1>3. /\ todo \in Seq(CmdSet) /\ Tail(todo) \in Seq(CmdSet) /\ Len(Tail(todo)) = t - 1 /\ phase \in {"making", "clearing"}
        /\ t \in Nat /\ t >= 1 /\ c \in Nat /\ Len(Making(config)) \in Nat /\ s \in Nat
    BY <1>1, <1>2, Ahead, SetupIs
  <1>4. CmdSet' = CmdSet /\ Cleanup' = Cleanup /\ Cleanup \in Seq(CmdSet)
    BY <1>1, <1>2, SameWorld, CleanupIs DEF CleanupForm
  <1>5. unremoved' \in {unremoved, unremoved + 1} /\ unremoved' \in Nat
    BY <1>1, <1>2
  <1>6. World' /\ FirewallTyped' /\ Consistent' /\ by' = by
    BY <1>1, <1>2, <1>5, SameFirewall
  <1>7. todo' \in Seq(CmdSet) /\ phase' \in {"making", "clearing"}
    BY <1>1, <1>3, <1>4
  <1> SUFFICES Position' /\ Progress'
    BY <1>1, <1>2, <1>4, <1>5, <1>6, <1>7 DEF RulesInv, RulesTyped
  <1>8. CASE Must(cmd)
    <2>1. phase' = "clearing" /\ todo' = Cleanup'
      BY <1>1, <1>4, <1>8
    <2>2. Position'
      <3>1. LastOf(Cleanup, Cleanup)
        BY <1>4, WholeIsLast
      <3> QED BY <1>4, <2>1, <3>1 DEF Position
    <2>3. Swept(0)'
      BY <1>5 DEF Swept, One
    <2>4. Len(Cleanup)' - Len(todo)' = 0
      BY <1>3, <1>4, <2>1
    <2> QED BY <2>1, <2>2, <2>3, <2>4 DEF Progress
  <1>9. CASE ~Must(cmd)
    <2>1. phase' = phase /\ todo' = Tail(todo) /\ Len(todo') = t - 1
      BY <1>1, <1>3, <1>9
    <2>2. CASE phase = "clearing"
      <3> DEFINE k == c - t
      <3>1. t <= c /\ Swept(k) /\ cmd = Cleanup[k + 1] /\ LastOf(todo', Cleanup)
        BY <1>1, <2>1, <2>2, Ahead
      <3>2. k \in Nat /\ k + 1 <= c
        BY <1>3, <3>1
      <3>3. cmd.op \in Removal
        <4>1. k + 1 \in 1..Len(Cleanup)
          BY <3>1, <3>2
        <4>2. \A i \in 1..Len(Cleanup) : Cleanup[i].op \in Removal
          BY <1>2, CleanupIs DEF CleanupForm
        <4> HIDE DEF k
        <4> QED BY <3>1, <4>1, <4>2
      <3>4. Swept(k + 1)'
        <4> HIDE DEF k
        <4> QED BY <1>1, <1>2, <3>1, <3>2, <3>3, RemovalFailed
      <3> QED BY <1>1, <1>3, <2>1, <2>2, <3>1, <3>4, ProgressNext
    <2>3. CASE phase = "making" /\ n < c
      <3>1. n \in Nat /\ Swept(n) /\ cmd = Cleanup[n + 1] /\ LastOf(todo', Setup(config))
        BY <1>1, <1>3, <2>1, <2>3, Ahead
      <3>2. n + 1 <= c
        BY <1>3, <2>3, <3>1
      <3>3. cmd.op \in Removal
        <4>1. n + 1 \in 1..Len(Cleanup)
          BY <3>1, <3>2
        <4>2. \A i \in 1..Len(Cleanup) : Cleanup[i].op \in Removal
          BY <1>2, CleanupIs DEF CleanupForm
        <4> HIDE DEF n
        <4> QED BY <3>1, <4>1, <4>2
      <3>4. Swept(n + 1)'
        <4> HIDE DEF n
        <4> QED BY <1>1, <1>2, <3>1, <3>2, <3>3, RemovalFailed
      <3> QED BY <1>1, <1>3, <2>1, <2>3, <3>1, <3>4, ProgressNext
    <2>4. CASE phase = "making" /\ ~(n < c)
      <3> DEFINE m == n - c
                 l == Making(config)
      <3>1. /\ n \in Nat /\ m + 1 <= Len(l) /\ (n > c => Made(m))
            /\ cmd = l[m + 1] /\ LastOf(todo', Setup(config))
        BY <1>1, <1>3, <2>1, <2>4, Ahead
      <3>2. m \in Nat /\ m + 1 \in 1..Len(l)
        BY <1>3, <2>4, <3>1
      <3>3. m + 1 > First /\ cmd.op \notin Removal /\ \A x, r : ~Provides(cmd, x, r)
        BY <1>2, <1>9, <3>1, <3>2, MakingOps
      <3>4. Made(m)
        BY <1>2, <3>1, <3>2, <3>3 DEF First, World
      <3>5. unremoved' = unremoved
        BY <1>1, <3>3
      <3>6. Made(m)'
        <4> HIDE DEF m
        <4> QED BY <1>1, <1>2, <1>5, <3>4, SameFirewall
      <3>7. Made(m + 1)'
        <4> HIDE DEF m, l
        <4>1. Brought(m)
          BY <3>4 DEF Made
        <4>2. \A x \in Chains : \A r : Have(x, r) \/ Provides(cmd, x, r) => Have(x, r)'
          BY <1>1, <3>3 DEF Have, firewall
        <4>3. Brought(m + 1)'
          BY <1>1, <3>1, <3>2, <4>1, <4>2, BroughtNext DEF l
        <4>4. (m >= 1)  /\ (tool' = "iptables" => m >= 5)
          BY <1>1, <1>2, <3>2, <3>3 DEF First, World, system
        <4>5. tool' = "iptables" => IptMade(m + 1)'
          BY <3>2, <3>6, <4>4 DEF Made, IptMade
        <4> QED BY <3>2, <3>6, <4>3, <4>4, <4>5 DEF Made
      <3> QED BY <1>1, <1>3, <2>1, <2>4, <3>1, <3>7, ProgressNext
    <2> QED BY <1>3, <2>2, <2>3, <2>4
  <1> QED BY <1>8, <1>9

LEMMA StartKeeps ==
    ASSUME RulesInv, NEW c \in Configs, Start(c)
    PROVE  RulesInv'
  <1>1. UNCHANGED <<system, firewall, unremoved>> /\ phase' = "making" /\ config' = c /\ todo' = Setup(c)
    BY DEF Start
  <1>2. World /\ FirewallTyped /\ Consistent /\ by \in Configs /\ unremoved \in Nat
    BY DEF RulesInv, RulesTyped
  <1>3. World' /\ FirewallTyped' /\ Consistent' /\ by' = by
    BY <1>1, <1>2, SameFirewall
  <1>4. /\ Setup(c) \in Seq(CmdSet) /\ Cleanup \in Seq(CmdSet) /\ CmdSet' = CmdSet
        /\ Cleanup' = Cleanup /\ Setup(c)' = Setup(c)
    BY <1>1, <1>2, SetupIs, CleanupIs, SameWorld DEF CleanupForm
  <1>5. Setup(config)' = Setup(c)
    BY <1>1, <1>4
  <1>6. Position'
    <2>1. LastOf(Setup(c), Setup(c))
      BY <1>4, WholeIsLast
    <2> QED BY <1>1, <1>5, <2>1 DEF Position
  <1>7. Progress'
    <2>1. Len(Setup(config))' - Len(todo)' = 0 /\ Len(Cleanup)' >= 0
      BY <1>1, <1>4, <1>5
    <2>2. Swept(0)'
      BY <1>1, <1>2 DEF Swept, One
    <2> QED BY <1>1, <2>1, <2>2 DEF Progress
  <1> QED BY <1>1, <1>2, <1>3, <1>4, <1>6, <1>7 DEF RulesInv, RulesTyped

LEMMA DoneKeeps ==
    ASSUME RulesInv, Done
    PROVE  RulesInv'
  <1>1. /\ UNCHANGED <<system, firewall, config, todo, unremoved>> /\ todo = <<>>
        /\ (phase = "making" /\ phase' = "ready") \/ (phase = "clearing" /\ phase' = "off")
    BY DEF Done
  <1>2. World /\ FirewallTyped /\ Consistent /\ by \in Configs /\ config \in Configs /\ unremoved \in Nat /\ todo \in Seq(CmdSet)
    BY DEF RulesInv, RulesTyped
  <1>3. /\ World' /\ FirewallTyped' /\ Consistent' /\ by' = by
        /\ \A m : Made(m) => Made(m)'
        /\ \A n : Swept(n) => Swept(n)'
    BY <1>1, <1>2, SameFirewall
  <1>4. Cleanup' = Cleanup /\ Setup(config)' = Setup(config) /\ CmdSet' = CmdSet
    BY <1>1, SameWorld
  <1>5. Position'
    BY <1>1, <1>4 DEF RulesInv, Position
  <1>6. Progress'
    <2> DEFINE c == Len(Cleanup)
               n == Len(Setup(config)) - Len(todo)
    <2>1. phase = "making" => IF n <= c THEN Swept(n) ELSE Made(n - c)
      BY DEF RulesInv, Progress
    <2>2. PICK i, d : i = n /\ d = c
      OBVIOUS
    <2>3. phase = "making" => IF i <= d THEN Swept(i)' ELSE Made(i - d)'
      BY <1>3, <2>1, <2>2
    <2>4. Len(Cleanup)' = d /\ Len(Setup(config))' - Len(todo)' = i
      BY <1>1, <1>4, <2>2
    <2> QED BY <1>1, <2>3, <2>4 DEF Progress
  <1> QED BY <1>1, <1>2, <1>3, <1>4, <1>5, <1>6 DEF RulesInv, RulesTyped

LEMMA QuitKeeps ==
    ASSUME RulesInv, Quit
    PROVE  RulesInv'
  <1>1. UNCHANGED <<system, firewall, config, unremoved>> /\ phase' = "clearing" /\ todo' = Cleanup
    BY DEF Quit
  <1>2. World /\ FirewallTyped /\ Consistent /\ by \in Configs /\ config \in Configs /\ unremoved \in Nat
    BY DEF RulesInv, RulesTyped
  <1>3. World' /\ FirewallTyped' /\ Consistent' /\ by' = by
    BY <1>1, <1>2, SameFirewall
  <1>4. Cleanup \in Seq(CmdSet) /\ CmdSet' = CmdSet /\ Cleanup' = Cleanup
    BY <1>1, <1>2, CleanupIs, SameWorld DEF CleanupForm
  <1>5. Position'
    <2>1. LastOf(Cleanup, Cleanup)
      BY <1>4, WholeIsLast
    <2> QED BY <1>1, <1>4, <2>1 DEF Position
  <1>6. Progress'
    <2>1. Len(Cleanup)' - Len(todo)' = 0
      BY <1>1, <1>4
    <2>2. Swept(0)'
      BY <1>1, <1>2 DEF Swept, One
    <2> QED BY <1>1, <2>1, <2>2 DEF Progress
  <1> QED BY <1>1, <1>2, <1>3, <1>4, <1>5, <1>6 DEF RulesInv, RulesTyped

LEMMA KillKeeps ==
    ASSUME RulesInv, Kill
    PROVE  RulesInv'
  <1>1. UNCHANGED <<system, firewall, config, unremoved>> /\ phase' = "off" /\ todo' = <<>>
    BY DEF Kill
  <1>2. World /\ FirewallTyped /\ Consistent /\ by \in Configs /\ config \in Configs /\ unremoved \in Nat
    BY DEF RulesInv, RulesTyped
  <1>3. World' /\ FirewallTyped' /\ Consistent' /\ by' = by
    BY <1>1, <1>2, SameFirewall
  <1>4. Position' /\ Progress'
    BY <1>1 DEF Position, Progress
  <1>5. todo' \in Seq(CmdSet')
    BY <1>1
  <1> QED BY <1>1, <1>2, <1>3, <1>4, <1>5 DEF RulesInv, RulesTyped

LEMMA StutterKeeps ==
    ASSUME RulesInv, UNCHANGED rulesVars
    PROVE  RulesInv'
  <1>1. UNCHANGED <<system, firewall, config, phase, todo, unremoved>>
    BY DEF rulesVars, process
  <1>2. World /\ FirewallTyped /\ Consistent /\ unremoved \in Nat
    BY DEF RulesInv, RulesTyped
  <1>3. /\ World' /\ FirewallTyped' /\ Consistent' /\ by' = by
        /\ \A m : Made(m) => Made(m)'
        /\ \A n : Swept(n) => Swept(n)'
    BY <1>1, <1>2, SameFirewall
  <1>4. Cleanup' = Cleanup /\ Setup(config)' = Setup(config) /\ CmdSet' = CmdSet
    BY <1>1, SameWorld
  <1>5. Position'
    BY <1>1, <1>4 DEF RulesInv, Position
  <1>6. Progress'
    <2> DEFINE c == Len(Cleanup)
               n == Len(Setup(config)) - Len(todo)
               k == c - Len(todo)
    <2>1. /\ phase = "clearing" => Swept(k)
          /\ phase \in {"making", "ready"} => IF n <= c THEN Swept(n) ELSE Made(n - c)
      BY DEF RulesInv, Progress
    <2>2. PICK i, d, j : i = n /\ d = c /\ j = k
      OBVIOUS
    <2>3. /\ phase = "clearing" => Swept(j)'
          /\ phase \in {"making", "ready"} => IF i <= d THEN Swept(i)' ELSE Made(i - d)'
      BY <1>3, <2>1, <2>2
    <2>4. Len(Cleanup)' = d /\ Len(Setup(config))' - Len(todo)' = i /\ Len(Cleanup)' - Len(todo)' = j
      BY <1>1, <1>4, <2>2
    <2> QED BY <1>1, <2>3, <2>4 DEF Progress
  <1> QED BY <1>1, <1>3, <1>4, <1>5, <1>6 DEF RulesInv, RulesTyped

LEMMA RulesInvInit ==
    RulesInit => RulesInv
  <1> SUFFICES ASSUME RulesInit
               PROVE  RulesInv
    OBVIOUS
  <1>1. /\ World /\ there = {} /\ phase = "off" /\ config \in Configs /\ todo = <<>> /\ by = config /\ unremoved = 0
        /\ hooked = [c \in {"S", "D"} |-> 0]
    BY DEF RulesInit, World
  <1> DEFINE e == <<>>
  <1>2. rules = [x \in Chains |-> e]
    BY DEF RulesInit
  <1>3. e \in Seq(RuleSet) /\ DOMAIN e = {}
    BY EmptyIs
  <1>4. rules \in [Chains -> Seq(RuleSet)] /\ \A x \in Chains : rules[x] = e
    <2> HIDE DEF e
    <2> QED BY ONLY <1>2, <1>3
  <1>5. \A x \in Chains : DOMAIN rules[x] = {}
    <2> HIDE DEF e
    <2> QED BY <1>3, <1>4
  <1>6. FirewallTyped
    BY <1>1, <1>4, <1>5 DEF FirewallTyped, Chains
  <1>7. todo \in Seq(CmdSet)
    BY <1>1
  <1>8. Consistent
    BY <1>5 DEF Consistent, Meant, Looks, Queues, Chains
  <1>9. Position /\ Progress
    BY <1>1 DEF Position, Progress
  <1> QED BY <1>1, <1>6, <1>7, <1>8, <1>9 DEF RulesInv, RulesTyped

LEMMA RulesInvNext ==
    RulesInv /\ [RulesNext]_rulesVars => RulesInv'
  <1> SUFFICES ASSUME RulesInv, [RulesNext]_rulesVars
               PROVE  RulesInv'
    OBVIOUS
  <1>1. ASSUME NEW c \in Configs, Start(c) PROVE RulesInv'
    BY <1>1, StartKeeps
  <1>2. CASE Execute
    BY <1>2, ExecuteKeeps
  <1>3. CASE ExecuteFails
    BY <1>3, FailureKeeps
  <1>4. CASE Done
    BY <1>4, DoneKeeps
  <1>5. CASE Quit
    BY <1>5, QuitKeeps
  <1>6. CASE Kill
    BY <1>6, KillKeeps
  <1>7. CASE UNCHANGED rulesVars
    BY <1>7, StutterKeeps
  <1> QED BY <1>1, <1>2, <1>3, <1>4, <1>5, <1>6, <1>7 DEF RulesNext

\* DpiRules!NeverBeyond (fh_nfrules_setup and the commands under it): whichever of the
\* commands have been run, failed or cut off, no packet is queued or dropped that the
\* complete rules of the last process to make one would leave alone, for every set of
\* configurations, packets and bounds.
THEOREM RulesNeverBeyond == RulesSpec => []NeverBeyond
  <1>1. RulesInv => NeverBeyond
    <2> SUFFICES ASSUME RulesInv, Removable, NEW p \in Packets[family]
                 PROVE  Decision(p) \in {"pass", Wanted(by, p)}
      BY DEF NeverBeyond
    <2>1. World /\ FirewallTyped /\ by \in Configs /\ (Meant(by) \/ Silent)
      BY DEF RulesInv, RulesTyped, Consistent
    <2>2. CASE Meant(by)
      BY <2>1, <2>2, MeantIsWithin
    <2>3. CASE Silent
      BY <2>1, <2>3, SilentPasses
    <2> QED BY <2>1, <2>2, <2>3
  <1> QED BY <1>1, RulesInvInit, RulesInvNext, PTL DEF RulesSpec

\* DpiRules!RulesMean: the rules that stand once a process is ready are, command by
\* command, all that its configuration means, for every configuration and packet.
THEOREM RulesAreMeant == RulesSpec => []RulesMean
  <1>1. RulesInv => RulesMean
    <2> SUFFICES ASSUME RulesInv, phase = "ready", tool = "nft" => unremoved = 0, NEW p \in Packets[family]
                 PROVE  Decision(p) = Wanted(config, p) \/ (p.kind = "ack 2-4" /\ Decision(p) = "pass")
      BY DEF RulesMean
    <2> DEFINE l == Making(config)
               c == Len(Cleanup)
               n == Len(Setup(config)) - Len(todo)
    <2>1. World /\ FirewallTyped /\ config \in Configs /\ Consistent /\ unremoved \in Nat
      BY DEF RulesInv, RulesTyped
    <2>2. c \in Nat /\ Len(l) \in Nat /\ Len(l) >= First /\ First >= 1 /\ Len(Setup(config)) = c + Len(l)
      <3>1. Cleanup \in Seq(CmdSet) /\ l \in Seq(CmdSet) /\ Len(l) >= First
        BY <2>1, CleanupIs, MakingFits DEF CleanupForm, MakingForm
      <3>2. Len(Setup(config)) = c + Len(l)
        BY <2>1, SetupIs
      <3>3. First >= 1
        BY DEF First
      <3> HIDE DEF l
      <3> QED BY <3>1, <3>2, <3>3
    <2>3. todo = <<>>
      BY DEF RulesInv, Position
    <2>4. n = c + Len(l)
      BY <2>2, <2>3
    <2>5. IF n <= c THEN Swept(n) ELSE Made(n - c)
      BY DEF RulesInv, Progress
    <2>6. ~(n <= c) /\ n - c = Len(l)
      <3> HIDE DEF n
      <3> QED BY <2>2, <2>4 DEF First
    <2>7. Made(Len(l))
      BY <2>5, <2>6
    <2>8. Len(l) >= 1 /\ (tool = "iptables" => Len(l) >= 5)
      BY <2>2 DEF First
    <2>9. hooked["S"] = 1 /\ hooked["D"] = 1 /\ by = config /\ Brought(Len(l))
      BY <2>1, <2>7, <2>8 DEF Made, IptMade, World
    <2>10. Meant(config)
      <3>1. CASE tool = "iptables"
        BY <2>7, <2>8, <3>1 DEF Made, IptMade
      <3>2. CASE tool = "nft"
        <4>1. Removable /\ ~Silent
          BY <3>2 DEF Removable, Silent
        <4> QED BY <2>1, <2>9, <4>1 DEF Consistent
      <3> QED BY <2>1, <3>1, <3>2 DEF World
    <2>11. \A x \in Chains, r \in RuleSet : Before(l, Len(l) + 1, x, r) => Have(x, r)
      <3>1. (Len(l) + 1) - 1 = Len(l)
        BY <2>2
      <3>2. \A x \in Chains, r \in RuleSet : (\E j \in 1..Len(l) : Provides(l[j], x, r)) => Have(x, r)
        BY <2>9 DEF Brought
      <3> HIDE DEF l
      <3> QED BY <3>1, <3>2 DEF Before
    <2>12. Complete(config)
      <3>1. (\A r \in Jumping(config) \cup Dropping(config) : r \in RuleSet) /\ Main \in RuleSet
        BY <2>1, RulesAre, MarkAndMain DEF RulesOf
      <3>2. /\ \A x \in {"S", "D"} : \A r \in Jumping(config) : Before(l, Len(l) + 1, x, r)
            /\ \A r \in Dropping(config) : Before(l, Len(l) + 1, "S", r)
            /\ Before(l, Len(l) + 1, "R", Main)
        BY <2>1, MakingFits DEF MakingForm
      <3> HIDE DEF l
      <3> QED BY <2>9, <2>11, <3>1, <3>2 DEF Complete, Chains
    <2> QED BY <2>1, <2>10, <2>12, CompleteMeans
  <1> QED BY <1>1, RulesInvInit, RulesInvNext, PTL DEF RulesSpec
====
