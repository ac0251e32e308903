---- MODULE DpiDaemon ----
(***************************************************************************)
(* The processes of a DPI daemon (fakehttp, fakesip: their set-up and      *)
(* tear-down are the same), the netfilter queue they compete for and the   *)
(* firewall rules that feed it.                                            *)
(*                                                                         *)
(* A process binds the queue, installs its rules by running nft or         *)
(* iptables commands one after another, and takes them away before it      *)
(* lets go of the queue.  The init script ends the process through procd,  *)
(* which does not wait for it, removes the rules by itself and may have    *)
(* procd start the next process while the last one still tears down.       *)
(*                                                                         *)
(* Operations of the init script exclude one another by procd_lock, which  *)
(* rc.common's start may not take, and by the service's flock, which a     *)
(* stop does not hold while it kills and cleans up and which a start of    *)
(* its own gives up before rc.common publishes what it has defined.  So    *)
(* they may cross; what is claimed of the rules is claimed from the next   *)
(* operation on that runs alone.                                           *)
(***************************************************************************)
EXTENDS Naturals, Sequences, FiniteSets

CONSTANTS
    Order,       \* the address families in the order of their set-up
    Tools,       \* the tools it may have found at work: one for all of its life
    MaxErrors,   \* recv() errors in a row that end the loop (20 in the code)
    MaxProcs,    \* bound: processes
    MaxScripts,  \* bound: operations of the init script at the same time
    MaxOrders,   \* bound: operations of the init script
    MaxCrashes,  \* bound: processes that are killed from outside
    MaxFails     \* bound: commands, system calls that fail

ASSUME DaemonAssumption ==
    /\ Order \in Seq({"ip", "ip6"}) /\ Order # <<>>
    /\ \A j, k \in DOMAIN Order : Order[j] = Order[k] => j = k
    /\ Tools \subseteq {"nft", "iptables"}
    /\ MaxErrors \in Nat \ {0} /\ MaxProcs \in Nat \ {0} /\ MaxScripts \in Nat \ {0}
    /\ MaxOrders \in Nat /\ MaxCrashes \in Nat /\ MaxFails \in Nat

VARIABLES
    tool,
    proc,      \* what each process is at
    child,     \* the command it waits for
    stray,     \* commands that nobody waits for any more
    queue,     \* the process that has bound the queue, 0 for none
    fw,        \* each family's part of the firewall
    wanted,    \* procd has an instance
    cur,       \* its process
    script,    \* what each operation of the init script still has to do
    orders, crashes, fails,
    spoiled,   \* history: which of the mishaps below have happened
    crossed    \* history: the script's last operations have run beside each other

\* A removal of a process failed or went on unobserved; one of the script failed;
\* a command that a process has abandoned ended later.
Mishaps == {"unremoved", "left", "made late", "removed late"}

Procs == 1..MaxProcs
Scripts == 1..MaxScripts
Families == {Order[k] : k \in DOMAIN Order}
Ended == {"returned", "killed"}

Clear == [chain |-> FALSE, jumps |-> 0, full |-> FALSE, hook |-> FALSE, by |-> 0]
Idle == [at |-> "idle", pos |-> 1]
None == [op |-> "none", fam |-> "none", by |-> 0]
New == [at |-> "none", pos |-> 1, handler |-> FALSE, exit |-> FALSE, errors |-> 0]

bounds == <<orders, crashes, fails>>
procd == <<wanted, cur>>
vars == <<tool, proc, child, stray, queue, fw, procd, script, bounds, spoiled, crossed>>

Init ==
    /\ tool \in Tools
    /\ proc = [i \in Procs |-> New] /\ child = [i \in Procs |-> None] /\ stray = {}
    /\ queue = 0 /\ fw = [f \in Families |-> Clear]
    /\ wanted = FALSE /\ cur = 0 /\ script = [s \in Scripts |-> Idle]
    /\ orders = 0 /\ crashes = 0 /\ fails = 0 /\ spoiled = {} /\ crossed = FALSE

Alive(i) == proc[i].at \notin Ended \cup {"none"}

---------------------------------------------------------------------------
(* Commands.  iptables builds with several what nft does at once, and does *)
(* not create a chain that is there.                                       *)

Removal == {"delete", "flush", "unjump", "unjump-all", "unchain"}
ClearOps == IF tool = "nft" THEN <<"delete">> ELSE <<"flush", "unjump", "unchain">>
MakeOps == IF tool = "nft" THEN <<"create", "hook">> ELSE <<"chain", "jump", "fill", "hook">>
ScriptOps == IF tool = "nft" THEN <<"delete">> ELSE <<"flush", "unjump-all", "unchain">>

\* The k-th command of a list that is run for every family.
Cmd(ops, k, i) == [op |-> ops[((k - 1) % Len(ops)) + 1],
                   fam |-> Order[(((k - 1) \div Len(ops)) % Len(Order)) + 1], by |-> i]
Total(ops) == Len(ops) * Len(Order)

Possible(c) ==
    LET s == fw[c.fam] IN
    CASE c.op \in {"create"} \cup Removal -> TRUE
      [] c.op = "chain" -> ~s.chain
      [] c.op = "fill"  -> s.chain /\ ~s.full
      [] c.op \in {"jump", "hook"} -> s.chain

Effect(c) ==
    LET s == fw[c.fam] IN
    CASE c.op = "delete"     -> Clear
      [] c.op = "create"     -> [s EXCEPT !.chain = TRUE, !.jumps = 1, !.full = TRUE, !.by = c.by]
      [] c.op = "chain"      -> [s EXCEPT !.chain = TRUE, !.by = c.by]
      [] c.op = "jump"       -> [s EXCEPT !.jumps = @ + 1]
      [] c.op = "fill"       -> [s EXCEPT !.full = TRUE]
      [] c.op = "hook"       -> [s EXCEPT !.hook = TRUE]
      [] c.op = "flush"      -> [s EXCEPT !.full = FALSE, !.hook = FALSE]
      [] c.op = "unjump"     -> [s EXCEPT !.jumps = IF @ = 0 THEN 0 ELSE @ - 1]
      [] c.op = "unjump-all" -> [s EXCEPT !.jumps = 0]
      [] c.op = "unchain"    -> IF s.jumps = 0 THEN Clear ELSE s

Run(c) == fw' = [fw EXCEPT ![c.fam] = Effect(c)]

Fail == fails < MaxFails /\ fails' = fails + 1

---------------------------------------------------------------------------
(* A process: main() *)

Goto(i, l) == proc' = [proc EXCEPT ![i].at = l, ![i].pos = 1, ![i].errors = IF l \in {"enter", "recv"} THEN @ ELSE 0]
Return(i) == proc' = [proc EXCEPT ![i] = [New EXCEPT !.at = "returned"]]

\* Logger, payloads, source table and raw socket: nothing that anybody else sees.
Prepare(i) ==
    /\ proc[i].at = "prepare"
    /\ \/ Goto(i, "queue") /\ UNCHANGED fails
       \/ Return(i) /\ Fail
    /\ UNCHANGED <<tool, child, stray, queue, fw, procd, script, orders, crashes, spoiled, crossed>>

\* fh_nfq_setup: a queue has one owner; EPERM for everybody else.
Bind(i) ==
    /\ proc[i].at = "queue"
    /\ \/ queue = 0 /\ queue' = i /\ Goto(i, "make") /\ UNCHANGED fails
       \/ queue # 0 /\ Return(i) /\ UNCHANGED <<queue, fails>>
       \/ Return(i) /\ Fail /\ UNCHANGED queue
    /\ UNCHANGED <<tool, child, stray, fw, procd, script, orders, crashes, spoiled, crossed>>

\* fh_nfrules_setup removes what is there, family by family, before it makes its own.
MakeAll == ClearOps \o MakeOps
List(i) == IF proc[i].at = "make" THEN MakeAll ELSE ClearOps

\* fh_execute_command, first half.
Fork(i) ==
    /\ proc[i].at \in {"make", "clear"} /\ child[i] = None
    /\ proc[i].pos <= Total(List(i))
    /\ child' = [child EXCEPT ![i] = Cmd(List(i), proc[i].pos, i)]
    /\ UNCHANGED <<tool, proc, stray, queue, fw, procd, script, bounds, spoiled, crossed>>

\* Variant: what is installed already is forgotten when the rest fails.
AfterMakeCloses(i) == Goto(i, "close")
\* When a command of the set-up fails; no one checks a removal.
AfterMake(i) == Goto(i, "clear")

\* fh_execute_command, second half: the command ends and its parent goes on.
Reap(i) ==
    /\ child[i] # None
    /\ \/ /\ Possible(child[i]) /\ Run(child[i]) /\ UNCHANGED <<fails, spoiled>>
          /\ proc' = [proc EXCEPT ![i].pos = @ + 1]
       \/ /\ UNCHANGED fw
          /\ \/ ~Possible(child[i]) /\ UNCHANGED fails
             \/ Possible(child[i]) /\ Fail
          /\ IF child[i].op \in Removal
             THEN proc' = [proc EXCEPT ![i].pos = @ + 1] /\ spoiled' = spoiled \cup {"unremoved"}
             ELSE AfterMake(i) /\ UNCHANGED spoiled
    /\ child' = [child EXCEPT ![i] = None]
    /\ UNCHANGED <<tool, stray, queue, procd, script, orders, crashes, crossed>>

Made(i) ==
    /\ proc[i].at = "make" /\ child[i] = None /\ proc[i].pos > Total(MakeAll)
    /\ Goto(i, "signals")
    /\ UNCHANGED <<tool, child, stray, queue, fw, procd, script, bounds, spoiled, crossed>>

SignalSetup(i) ==
    /\ proc[i].at = "signals"
    /\ \/ proc' = [proc EXCEPT ![i].at = "check", ![i].handler = TRUE] /\ UNCHANGED fails
       \/ Goto(i, "clear") /\ Fail
    /\ UNCHANGED <<tool, child, stray, queue, fw, procd, script, orders, crashes, spoiled, crossed>>

\* Variant: the loop never gives up.
CheckForever(i) ==
    /\ proc[i].at = "check"
    /\ IF proc[i].exit THEN Goto(i, "clear") ELSE Goto(i, "enter")
    /\ UNCHANGED <<tool, child, stray, queue, fw, procd, script, bounds, spoiled, crossed>>

\* fh_nfq_loop: the test of the flag and the call of recv() are two steps.
Check(i) ==
    /\ proc[i].at = "check"
    /\ IF proc[i].exit \/ proc[i].errors >= MaxErrors THEN Goto(i, "clear")
       ELSE Goto(i, "enter")
    /\ UNCHANGED <<tool, child, stray, queue, fw, procd, script, bounds, spoiled, crossed>>

Enter(i) ==
    /\ proc[i].at = "enter" /\ Goto(i, "recv")
    /\ UNCHANGED <<tool, child, stray, queue, fw, procd, script, bounds, spoiled, crossed>>

Packet(i) ==
    /\ proc[i].at = "recv"
    /\ proc' = [proc EXCEPT ![i].at = "check", ![i].errors = 0]
    /\ UNCHANGED <<tool, child, stray, queue, fw, procd, script, bounds, spoiled, crossed>>

\* ENOBUFS and the like are counted, anything else ends the loop.
RecvFails(i) ==
    /\ proc[i].at = "recv"
    /\ \/ proc' = [proc EXCEPT ![i].at = "check", ![i].errors = @ + 1]
       \/ Goto(i, "clear")
    /\ UNCHANGED <<tool, child, stray, queue, fw, procd, script, bounds, spoiled, crossed>>

\* Variant: the queue is given up before the rules are removed.
CloseFirst(i) ==
    /\ proc[i].at \in {"clear", "close"} /\ child[i] = None
    /\ IF proc[i].at = "clear" /\ proc[i].pos <= Total(ClearOps)
       THEN queue = i /\ queue' = 0 /\ UNCHANGED proc
       ELSE Return(i) /\ UNCHANGED queue
    /\ UNCHANGED <<tool, child, stray, fw, procd, script, bounds, spoiled, crossed>>

\* fh_nfrules_cleanup is done; fh_nfq_cleanup and the rest.
Close(i) ==
    /\ \/ proc[i].at = "clear" /\ child[i] = None /\ proc[i].pos > Total(ClearOps)
       \/ proc[i].at = "close"
    /\ queue' = IF queue = i THEN 0 ELSE queue
    /\ Return(i)
    /\ UNCHANGED <<tool, child, stray, fw, procd, script, bounds, spoiled, crossed>>

---------------------------------------------------------------------------
(* Signals *)

Abandon(i) ==
    /\ stray' = stray \cup ({child[i]} \ {None})
    /\ child' = [child EXCEPT ![i] = None]

Dies(i) ==
    /\ proc' = [proc EXCEPT ![i] = [New EXCEPT !.at = "killed"]]
    /\ queue' = IF queue = i THEN 0 ELSE queue
    /\ Abandon(i)

\* SIGTERM: ends a process that has not installed its handler; interrupts recv()
\* and waitpid(), which are not restarted, in one that has.
Term(i) ==
    IF ~Alive(i) THEN UNCHANGED <<proc, queue, child, stray, spoiled>>
    ELSE IF ~proc[i].handler THEN Dies(i) /\ UNCHANGED spoiled
    ELSE /\ proc' = [proc EXCEPT ![i].exit = TRUE,
                                 ![i].at = IF @ = "recv" THEN "check" ELSE @,
                                 ![i].errors = IF proc[i].at = "recv" THEN @ + 1 ELSE @,
                                 ![i].pos = IF child[i] # None THEN @ + 1 ELSE @]
         /\ Abandon(i) /\ UNCHANGED queue
         /\ spoiled' = IF child[i] = None THEN spoiled ELSE spoiled \cup {"unremoved"}

\* procd, term_timeout seconds after SIGTERM.
SigKill(i) ==
    /\ Alive(i) /\ proc[i].exit /\ Dies(i)
    /\ UNCHANGED <<tool, fw, procd, script, bounds, spoiled, crossed>>

Crash(i) ==
    /\ Alive(i) /\ crashes < MaxCrashes /\ crashes' = crashes + 1 /\ Dies(i)
    /\ UNCHANGED <<tool, fw, procd, script, orders, fails, spoiled, crossed>>

\* A command that nobody waits for ends at its own time.
StrayEnds(c) ==
    /\ c \in stray /\ stray' = stray \ {c}
    /\ IF Possible(c) THEN Run(c) ELSE UNCHANGED fw
    /\ spoiled' = spoiled \cup {IF c.op \in Removal THEN "removed late" ELSE "made late"}
    /\ UNCHANGED <<tool, proc, child, queue, procd, script, bounds, crossed>>

---------------------------------------------------------------------------
(* The init script and procd *)

Resting == \A s \in Scripts : script[s] = Idle
CleanDone(s) == script[s] # Idle /\ script[s].pos > Total(ScriptOps)

\* "clean" is the clean-up of a reload, a link event or the boot timer, "start" that of
\* a start of its own or of a restart, "stop" that of a stop (service_stopped).
HasFlock(s) == script[s].at = "clean" \/ (script[s].at = "start" /\ ~CleanDone(s))

SignalCur == IF cur = 0 THEN UNCHANGED <<proc, queue, child, stray, spoiled>> ELSE Term(cur)

\* procd forgets the instance and signals its process.
procd_kill == wanted' = FALSE /\ cur' = 0 /\ SignalCur

\* Each operation begins with procd_kill.  procd_lock keeps stops, reloads and link
\* events apart, the flock all but stops.
ScriptKill(s, at) ==
    /\ script[s] = Idle /\ \A r \in Scripts : r < s => script[r] # Idle
    /\ orders < MaxOrders /\ orders' = orders + 1
    /\ at # "start" => \A r \in Scripts : script[r].at \in {"idle", "start"}
    /\ at # "stop" => \A r \in Scripts : ~HasFlock(r)
    /\ procd_kill
    /\ script' = [script EXCEPT ![s] = [at |-> at, pos |-> 1]]
    /\ crossed' = ~Resting
    /\ UNCHANGED <<tool, fw, crashes, fails>>

\* Variant: only the instance is ended.
ScriptCleanNot(s) ==
    /\ script[s] # Idle /\ ~CleanDone(s)
    /\ script' = [script EXCEPT ![s].pos = @ + 1]
    /\ UNCHANGED <<tool, proc, child, stray, queue, fw, procd, bounds, spoiled, crossed>>

\* tf_cleanup_firewall_state: whether a command works is not looked at.
ScriptClean(s) ==
    /\ script[s] # Idle /\ ~CleanDone(s)
    /\ \/ Run(Cmd(ScriptOps, script[s].pos, 0)) /\ UNCHANGED <<fails, spoiled>>
       \/ Fail /\ spoiled' = spoiled \cup {"left"} /\ UNCHANGED fw
    /\ script' = [script EXCEPT ![s].pos = @ + 1]
    /\ UNCHANGED <<tool, proc, child, stray, queue, procd, orders, crashes, crossed>>

\* The start nested in a reload or a link event kills and cleans again.
ScriptAgain(s) ==
    /\ script[s].at = "clean" /\ CleanDone(s)
    /\ procd_kill
    /\ script' = [script EXCEPT ![s].pos = 1]
    /\ UNCHANGED <<tool, fw, bounds, crossed>>

\* rc.common closes the service: with an instance, which replaces one of another
\* command line, or with none (a disabled service, an invalid configuration).
ScriptPublish(s) ==
    /\ script[s].at \in {"clean", "start"} /\ CleanDone(s)
    /\ \/ wanted' = TRUE /\ UNCHANGED cur /\ SignalCur
       \/ wanted' = TRUE /\ UNCHANGED <<cur, proc, queue, child, stray, spoiled>>
       \/ procd_kill
    /\ script' = [script EXCEPT ![s] = Idle]
    /\ UNCHANGED <<tool, fw, bounds, crossed>>

\* A stop has no more to do.
ScriptStopped(s) ==
    /\ script[s].at = "stop" /\ CleanDone(s)
    /\ script' = [script EXCEPT ![s] = Idle]
    /\ UNCHANGED <<tool, proc, child, stray, queue, fw, procd, bounds, spoiled, crossed>>

\* The first process of an instance, or a respawn.
Start(i) ==
    /\ wanted /\ (cur # 0 => ~Alive(cur))
    /\ proc[i].at = "none" /\ \A j \in Procs : j < i => proc[j].at # "none"
    /\ proc' = [proc EXCEPT ![i].at = "prepare"]
    /\ cur' = i
    /\ UNCHANGED <<tool, child, stray, queue, fw, wanted, script, bounds, spoiled, crossed>>

Step(i) ==
    \/ Prepare(i) \/ Bind(i) \/ Fork(i) \/ Reap(i) \/ Made(i) \/ SignalSetup(i)
    \/ Check(i) \/ Enter(i) \/ Packet(i) \/ RecvFails(i) \/ Close(i)

Next ==
    \/ \E i \in Procs : Step(i) \/ SigKill(i) \/ Crash(i) \/ Start(i)
    \/ \E c \in stray : StrayEnds(c)
    \/ \E s \in Scripts, at \in {"stop", "clean", "start"} : ScriptKill(s, at)
    \/ \E s \in Scripts : ScriptClean(s) \/ ScriptAgain(s) \/ ScriptPublish(s) \/ ScriptStopped(s)

Spec == Init /\ [][Next]_vars

---------------------------------------------------------------------------
(* Properties *)

Places == {"none", "prepare", "queue", "make", "signals", "check", "enter", "recv", "clear", "close"} \cup Ended
Commands == [op : Removal \cup {"create", "hook", "chain", "jump", "fill"}, fam : Families, by : Procs]
Rules == [chain : BOOLEAN, jumps : Nat, full : BOOLEAN, hook : BOOLEAN, by : {0} \cup Procs]

TypeOK ==
    /\ tool \in Tools
    /\ proc \in [Procs -> [at : Places, pos : 1..Total(MakeAll) + 1, handler : BOOLEAN, exit : BOOLEAN,
                           errors : 0..MaxErrors]]
    /\ child \in [Procs -> Commands \cup {None}] /\ stray \subseteq Commands
    /\ \A i \in Procs : child[i] # None => Alive(i)
    /\ queue \in {0} \cup {i \in Procs : Alive(i)}
    /\ fw \in [Families -> Rules]
    /\ wanted \in BOOLEAN /\ cur \in {0} \cup Procs
    /\ script \in [Scripts -> {Idle} \cup [at : {"stop", "clean", "start"}, pos : 1..Total(ScriptOps) + 1]]
    /\ spoiled \subseteq Mishaps /\ crossed \in BOOLEAN
    /\ orders \in 0..MaxOrders /\ crashes \in 0..MaxCrashes /\ fails \in 0..MaxFails

Serving(i) == proc[i].at \in {"check", "enter", "recv"} /\ ~proc[i].exit /\ proc[i].errors < MaxErrors

\* A daemon in its loop has all of its rules, its own ones: neither a predecessor
\* that tears down late, nor a successor that could not start, nor the script's
\* clean-up takes them away, and what a killed one has left is no obstacle.  Only an
\* abandoned command or a failed removal is, and an operation that has run beside the
\* last one: its clean-up may meet the process that the other has just published, until
\* the next operation that runs alone.
RulesStand ==
    ~crossed /\ spoiled \subseteq {"left"} => \A i \in Procs : Serving(i) =>
        \A f \in Families : fw[f] = [chain |-> TRUE, jumps |-> 1, full |-> TRUE, hook |-> TRUE, by |-> i]

\* Nothing is sent to a queue that nobody reads: rules are made after the queue
\* has been bound and are gone before it is released, also when the set-up fails
\* half-way ("IPv4 may already be installed when the IPv6 half fails",
\* mainfun.c:417).  Only a killed process, a removal that fails or is interrupted
\* and a set-up command that ends late leave rules behind.
RulesHaveListener ==
    spoiled \subseteq {"removed late", "left"} => \A f \in Families : \A i \in Procs :
        fw[f].chain /\ fw[f].by = i /\ proc[i].at # "killed" => queue = i

\* After a stop nothing is left, however the process ended and whatever it was at,
\* unless a command of the script failed, or a set-up command was running when its
\* process was killed and ended after the clean-up, or the stop ran beside a start, whose
\* publication may end another process after the clean-up.
StopLeavesNothing ==
    ~crossed /\ spoiled \cap {"made late", "left"} = {} /\ ~wanted /\ Resting /\ (\A i \in Procs : ~Alive(i)) =>
        \A f \in Families : fw[f] = Clear
====
