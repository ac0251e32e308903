---- MODULE DpiDaemon_proofs ----
(***************************************************************************)
(* The processes of a DPI daemon, their queue and their rules: type        *)
(* correctness and the three safety properties, for any number of          *)
(* processes, orders, crashes and failures and either tool.                *)
(***************************************************************************)
EXTENDS DpiDaemon, Integers, TLAPS

---------------------------------------------------------------------------
(* The lists of commands *)

Fams == DOMAIN Order
CN == IF tool = "nft" THEN 1 ELSE 3      \* commands that clear a family
MN == IF tool = "nft" THEN 3 ELSE 7      \* commands that clear and make one

LEMMA Families1 ==
    /\ Len(Order) \in Nat \ {0} /\ Fams = 1..Len(Order)
    /\ \A g \in Fams : Order[g] \in Families
    /\ \A f \in Families : \E g \in Fams : f = Order[g]
  BY DaemonAssumption DEF Families, Fams

LEMMA Lengths ==
    ASSUME tool \in {"nft", "iptables"}
    PROVE  /\ Len(ClearOps) = CN /\ Len(ScriptOps) = CN /\ Len(MakeAll) = MN
           /\ Total(ClearOps) = CN * Len(Order) /\ Total(ScriptOps) = CN * Len(Order)
           /\ Total(MakeAll) = MN * Len(Order)
  <1>1. Len(ClearOps) = CN /\ Len(ScriptOps) = CN
    BY DEF ClearOps, ScriptOps, CN
  <1>2. Len(MakeAll) = MN
    BY DEF MakeAll, ClearOps, MakeOps, MN
  <1> QED BY <1>1, <1>2 DEF Total

LEMMA Remainder == \A m \in Nat \ {0} : \A a \in 0..m - 1 : a % m = a
  OBVIOUS

\* Of n commands for each of m families the k-th is the o-th of the g-th.
Split(n, m, k) == \E g \in 1..m, o \in 1..n :
    /\ k = n * (g - 1) + o
    /\ ((k - 1) % n) + 1 = o /\ (((k - 1) \div n) % m) + 1 = g

LEMMA Split1 ==
    ASSUME NEW n \in {1, 3, 7}, NEW m \in Nat \ {0}, NEW k \in 1..n * m
    PROVE  Split(n, m, k)
  <1> DEFINE g == ((k - 1) \div n) + 1
             o == ((k - 1) % n) + 1
  <1>1. g \in 1..m /\ o \in 1..n /\ k = n * (g - 1) + o
    <2>1. CASE n = 1
      <3>1. (k - 1) % 1 = 0 /\ (k - 1) \div 1 = k - 1
        OBVIOUS
      <3>2. o = 1 /\ g = k /\ k \in 1..m
        BY <2>1, <3>1
      <3> HIDE DEF g, o
      <3> QED BY <2>1, <3>2
    <2>2. CASE n = 3
      <3>1. o \in 1..3 /\ k = 3 * (g - 1) + o /\ g \in Int
        BY <2>2
      <3>2. g \in 1..m
        <4> HIDE DEF g, o
        <4> QED BY <2>2, <3>1
      <3> HIDE DEF g, o
      <3> QED BY <2>2, <3>1, <3>2
    <2>3. CASE n = 7
      <3>1. o \in 1..7 /\ k = 7 * (g - 1) + o /\ g \in Int
        BY <2>3
      <3>2. g \in 1..m
        <4> HIDE DEF g, o
        <4> QED BY <2>3, <3>1
      <3> HIDE DEF g, o
      <3> QED BY <2>3, <3>1, <3>2
    <2> QED BY <2>1, <2>2, <2>3
  <1>2. (k - 1) \div n = g - 1 /\ ((k - 1) % n) + 1 = o
    <2>1. (k - 1) \div n \in Int
      OBVIOUS
    <2> QED BY <2>1
  <1>3. (((k - 1) \div n) % m) + 1 = g
    <2>1. (g - 1) % m = g - 1
      BY <1>1, Remainder
    <2> QED BY <1>1, <1>2, <2>1
  <1> HIDE DEF g, o
  <1> QED BY <1>1, <1>2, <1>3 DEF Split

\* What a list runs for the families in turn.
Runs(ops, i) ==
    \A k \in 1..Total(ops) : \E g \in Fams, o \in 1..Len(ops) :
        k = Len(ops) * (g - 1) + o /\ Cmd(ops, k, i) = [op |-> ops[o], fam |-> Order[g], by |-> i]

LEMMA ListsRun ==
    ASSUME tool \in {"nft", "iptables"}, NEW i
    PROVE  Runs(ClearOps, i) /\ Runs(ScriptOps, i) /\ Runs(MakeAll, i)
  <1>1. ASSUME NEW ops, Len(ops) \in {1, 3, 7}, Total(ops) = Len(ops) * Len(Order)
        PROVE  Runs(ops, i)
    <2> SUFFICES ASSUME NEW k \in 1..Total(ops)
                 PROVE  \E g \in Fams, o \in 1..Len(ops) :
                           k = Len(ops) * (g - 1) + o /\ Cmd(ops, k, i) = [op |-> ops[o], fam |-> Order[g], by |-> i]
      BY DEF Runs
    <2>1. PICK g \in 1..Len(Order), o \in 1..Len(ops) :
             /\ k = Len(ops) * (g - 1) + o
             /\ ((k - 1) % Len(ops)) + 1 = o /\ (((k - 1) \div Len(ops)) % Len(Order)) + 1 = g
      <3>1. Len(ops) \in {1, 3, 7} /\ Len(Order) \in Nat \ {0} /\ k \in 1..Len(ops) * Len(Order)
        BY <1>1, Families1
      <3>2. Split(Len(ops), Len(Order), k)
        BY <3>1, Split1
      <3> QED BY <3>2 DEF Split
    <2>2. Cmd(ops, k, i) = [op |-> ops[o], fam |-> Order[g], by |-> i]
      BY <2>1 DEF Cmd
    <2> QED BY <2>1, <2>2, Families1
  <1>2. /\ Len(ClearOps) \in {1, 3, 7} /\ Len(ScriptOps) \in {1, 3, 7} /\ Len(MakeAll) \in {1, 3, 7}
        /\ Total(ClearOps) = Len(ClearOps) * Len(Order) /\ Total(ScriptOps) = Len(ScriptOps) * Len(Order)
        /\ Total(MakeAll) = Len(MakeAll) * Len(Order)
    BY Lengths DEF CN, MN, Total
  <1>3. Runs(ClearOps, i)
    BY <1>1, <1>2
  <1>4. Runs(ScriptOps, i)
    BY <1>1, <1>2
  <1>5. Runs(MakeAll, i)
    BY <1>1, <1>2
  <1> QED BY <1>3, <1>4, <1>5

MadeOps == {"create", "hook", "chain", "jump", "fill"}

LEMMA Operations ==
    ASSUME tool \in {"nft", "iptables"}
    PROVE  /\ \A o \in 1..Len(ClearOps) : ClearOps[o] \in Removal
           /\ \A o \in 1..Len(ScriptOps) : ScriptOps[o] \in Removal
           /\ \A o \in 1..Len(MakeAll) : MakeAll[o] \in Removal \cup MadeOps
  <1>1. CASE tool = "nft"
    BY <1>1 DEF ClearOps, ScriptOps, MakeOps, MakeAll, Removal, MadeOps
  <1>2. CASE tool = "iptables"
    BY <1>2 DEF ClearOps, ScriptOps, MakeOps, MakeAll, Removal, MadeOps
  <1> QED BY <1>1, <1>2

---------------------------------------------------------------------------
(* Processes and types *)

Holding == {"make", "signals", "check", "enter", "recv", "clear"}

\* A process is at work on the command of its position; it has bound the queue from its
\* set-up to its end, and nobody else has; its handler comes after its set-up.
ShapeOf(i) ==
    /\ proc[i].at # "close"
    /\ child[i] # None => /\ proc[i].at \in {"make", "clear"} /\ proc[i].pos <= Total(List(i))
                          /\ child[i] = Cmd(List(i), proc[i].pos, i)
    /\ proc[i].at = "clear" => proc[i].pos <= Total(ClearOps) + 1
    /\ proc[i].at \in {"enter", "recv"} => proc[i].errors < MaxErrors
    /\ proc[i].at \in {"none", "prepare", "queue", "make", "signals"} => ~proc[i].handler
    /\ proc[i].exit => proc[i].handler
    /\ proc[i].at \in Holding <=> queue = i
Shape == \A i \in Procs : ShapeOf(i)

Typed == TypeOK /\ Shape

LEMMA Tool == TypeOK => tool \in {"nft", "iptables"}
  BY DaemonAssumption DEF TypeOK

LEMMA CommandType ==
    ASSUME Typed, NEW i \in Procs, proc[i].at \in {"make", "clear"}, proc[i].pos <= Total(List(i))
    PROVE  Cmd(List(i), proc[i].pos, i) \in Commands
  <1>1. proc[i].pos \in 1..Total(List(i))
    <2>1. proc[i].pos \in 1..Total(MakeAll) + 1
      BY DEF Typed, TypeOK
    <2>2. Total(MakeAll) \in Nat /\ Total(ClearOps) \in Nat
      BY Lengths, Tool, Families1 DEF Typed, CN, MN
    <2> QED BY <2>1, <2>2 DEF List
  <1>2. Runs(List(i), i) /\ \A o \in 1..Len(List(i)) : List(i)[o] \in Removal \cup MadeOps
    BY ListsRun, Operations, Tool DEF List, Typed
  <1>3. PICK g \in Fams, o \in 1..Len(List(i)) : Cmd(List(i), proc[i].pos, i) = [op |-> List(i)[o], fam |-> Order[g], by |-> i]
    BY <1>1, <1>2 DEF Runs
  <1> QED BY <1>2, <1>3, Families1 DEF Commands, MadeOps

LEMMA EffectType ==
    ASSUME NEW c, fw[c.fam] \in Rules, c.op \in Removal \cup MadeOps, c.by \in {0} \cup Procs
    PROVE  Effect(c) \in Rules
  <1>1. Clear \in Rules
    BY DEF Clear, Rules
  <1>2. CASE c.op \in {"delete", "create", "chain", "jump"}
    <2>1. CASE c.op = "create"
      BY <2>1 DEF Effect, Rules
    <2>2. CASE c.op = "chain"
      BY <2>2 DEF Effect, Rules
    <2>3. CASE c.op \in {"delete", "jump"}
      BY <1>1, <2>3 DEF Effect, Rules
    <2> QED BY <1>2, <2>1, <2>2, <2>3
  <1>3. CASE c.op \in {"fill", "hook", "flush"}
    BY <1>3 DEF Effect, Rules
  <1>4. CASE c.op \in {"unjump", "unjump-all", "unchain"}
    BY <1>1, <1>4 DEF Effect, Rules
  <1> QED BY <1>2, <1>3, <1>4 DEF Removal, MadeOps

ProcType == [at : Places, pos : 1..Total(MakeAll) + 1, handler : BOOLEAN, exit : BOOLEAN, errors : 0..MaxErrors]
Free(i) == proc[i].at \notin Holding \cup {"close"}

LEMMA Totals ==
    ASSUME TypeOK
    PROVE  /\ Total(ClearOps) \in Nat \ {0} /\ Total(MakeAll) \in Nat \ {0} /\ Total(ScriptOps) \in Nat
           /\ Total(ClearOps) <= Total(MakeAll)
  <1>1. Len(Order) \in Nat \ {0}
    BY Families1
  <1> QED BY <1>1, Lengths, Tool DEF CN, MN

LEMMA SameTool ==
    ASSUME tool' = tool
    PROVE  ClearOps' = ClearOps /\ MakeAll' = MakeAll /\ ScriptOps' = ScriptOps
  BY DEF ClearOps, MakeAll, MakeOps, ScriptOps

\* What a step leaves of another process alone keeps its shape.
LEMMA ShapeStays ==
    ASSUME NEW j, ShapeOf(j), tool' = tool, proc'[j] = proc[j], child'[j] = child[j],
           queue' = j <=> queue = j
    PROVE  ShapeOf(j)'
  BY SameTool DEF ShapeOf, List, Cmd, Total

LEMMA GotoType ==
    ASSUME TypeOK, tool' = tool, NEW i \in Procs, NEW l \in Places, Goto(i, l)
    PROVE  /\ proc' \in [Procs -> ProcType]'
           /\ \A j \in Procs \ {i} : proc'[j] = proc[j]
           /\ proc'[i].at = l /\ proc'[i].pos = 1
           /\ proc'[i].handler = proc[i].handler /\ proc'[i].exit = proc[i].exit
           /\ proc'[i].errors = IF l \in {"enter", "recv"} THEN proc[i].errors ELSE 0
  <1>1. proc \in [Procs -> ProcType]
    BY DEF TypeOK, ProcType
  <1>2. ProcType' = ProcType
    BY SameTool DEF ProcType, Total
  <1>3. 1 \in 1..Total(MakeAll) + 1 /\ 0 \in 0..MaxErrors
    BY Totals, DaemonAssumption
  <1>4. /\ \A j \in Procs \ {i} : proc'[j] = proc[j]
        /\ proc'[i] = [proc[i] EXCEPT !.at = l, !.pos = 1,
                          !.errors = IF l \in {"enter", "recv"} THEN @ ELSE 0]
    BY <1>1 DEF Goto
  <1>5. proc'[i] \in ProcType
    BY <1>1, <1>3, <1>4 DEF ProcType
  <1>6. proc' \in [Procs -> ProcType]
    BY <1>1, <1>5 DEF Goto
  <1>7. proc[i] \in ProcType
    BY <1>1
  <1> QED BY <1>2, <1>4, <1>6, <1>7 DEF ProcType

LEMMA ReturnType ==
    ASSUME TypeOK, tool' = tool, NEW i \in Procs, NEW l \in Ended,
           proc' = [proc EXCEPT ![i] = [New EXCEPT !.at = l]]
    PROVE  /\ proc' \in [Procs -> ProcType]'
           /\ \A j \in Procs \ {i} : proc'[j] = proc[j]
           /\ proc'[i].at = l /\ ~proc'[i].handler /\ ~proc'[i].exit /\ proc'[i].pos = 1
  <1>1. proc \in [Procs -> ProcType]
    BY DEF TypeOK, ProcType
  <1>2. ProcType' = ProcType
    BY SameTool DEF ProcType, Total
  <1>3. 1 \in 1..Total(MakeAll) + 1 /\ 0 \in 0..MaxErrors
    BY Totals, DaemonAssumption
  <1>4. [New EXCEPT !.at = l] \in ProcType
    BY <1>3 DEF New, ProcType, Places
  <1> QED BY <1>1, <1>2, <1>4 DEF New

\* One process goes on; nothing but its place, the queue and the failures changes.
LEMMA ProcStep ==
    ASSUME Typed, NEW i \in Procs, child[i] = None,
           UNCHANGED <<tool, child, stray, fw, procd, script, orders, crashes, spoiled, crossed>>,
           proc' \in [Procs -> ProcType]', \A j \in Procs \ {i} : proc'[j] = proc[j],
           ShapeOf(i)', \A j \in Procs \ {i} : queue' = j <=> queue = j,
           queue' \in {0, queue, i}, fails' \in 0..MaxFails
    PROVE  Typed'
  <1>1. \A j \in Procs : ShapeOf(j)'
    BY ShapeStays DEF Typed, Shape
  <1>2. queue' \in {0} \cup {j \in Procs : Alive(j)'}
    <2>1. queue \in {0} \cup Procs
      BY DEF Typed, TypeOK
    <2>2. \A j \in Procs : queue' = j => Alive(j)'
      BY <1>1 DEF ShapeOf, Alive, Holding, Ended
    <2> QED BY <2>1, <2>2
  <1>3. \A j \in Procs : child'[j] # None => Alive(j)'
    BY DEF Typed, TypeOK, Alive
  <1>4. Total(MakeAll)' = Total(MakeAll) /\ Total(ScriptOps)' = Total(ScriptOps)
    BY SameTool DEF Total
  <1> QED BY <1>1, <1>2, <1>3, <1>4 DEF Typed, TypeOK, Shape, ProcType, procd

LEMMA Idle1 ==
    ASSUME Typed, NEW i \in Procs, proc[i].at \notin {"make", "clear"}
    PROVE  child[i] = None
  BY DEF Typed, Shape, ShapeOf

LEMMA Failing == TypeOK /\ Fail => fails' \in 0..MaxFails
  BY DaemonAssumption DEF TypeOK, Fail

\* A process that goes to another place with the queue as it was.
LEMMA GotoTyped ==
    ASSUME Typed, NEW i \in Procs, NEW l \in Places \ (Ended \cup {"close", "none"}), Goto(i, l), child[i] = None,
           UNCHANGED <<tool, child, stray, fw, procd, script, orders, crashes, spoiled, crossed>>,
           queue' \in {queue, i}, queue' = i <=> l \in Holding,
           l \in {"prepare", "queue", "make", "signals"} => ~proc[i].handler,
           l \in {"enter", "recv"} => proc[i].errors < MaxErrors,
           fails' \in 0..MaxFails,
           queue' = i => queue \in {0, i}
    PROVE  Typed'
  <1>1. /\ proc' \in [Procs -> ProcType]'
        /\ \A j \in Procs \ {i} : proc'[j] = proc[j]
        /\ proc'[i].at = l /\ proc'[i].pos = 1
        /\ proc'[i].handler = proc[i].handler /\ proc'[i].exit = proc[i].exit
        /\ proc'[i].errors = IF l \in {"enter", "recv"} THEN proc[i].errors ELSE 0
    BY GotoType DEF Typed
  <1>2. Total(ClearOps)' \in Nat
    BY Totals, SameTool DEF Typed, Total
  <1>3. ShapeOf(i)'
    <2>1. proc[i].exit => proc[i].handler
      BY DEF Typed, Shape, ShapeOf
    <2> QED BY <1>1, <1>2, <2>1 DEF ShapeOf
  <1>4. \A j \in Procs \ {i} : queue' = j <=> queue = j
    BY DEF Procs
  <1> QED BY <1>1, <1>3, <1>4, ProcStep

LEMMA ReturnTyped ==
    ASSUME Typed, NEW i \in Procs, Return(i), child[i] = None,
           UNCHANGED <<tool, child, stray, fw, procd, script, orders, crashes, spoiled, crossed>>,
           queue' = IF queue = i THEN 0 ELSE queue, fails' \in 0..MaxFails
    PROVE  Typed'
  <1>1. /\ proc' \in [Procs -> ProcType]'
        /\ \A j \in Procs \ {i} : proc'[j] = proc[j]
        /\ proc'[i].at = "returned" /\ ~proc'[i].handler /\ ~proc'[i].exit
    BY ReturnType DEF Typed, Return, Ended
  <1>2. ShapeOf(i)'
    BY <1>1 DEF ShapeOf, Holding, Procs
  <1>3. \A j \in Procs \ {i} : queue' = j <=> queue = j
    BY DEF Procs
  <1> QED BY <1>1, <1>2, <1>3, ProcStep

LEMMA QuietTyped ==
    ASSUME Typed, NEW i \in Procs,
           \/ Prepare(i) \/ Bind(i) \/ Made(i) \/ SignalSetup(i) \/ Check(i) \/ Enter(i)
           \/ Packet(i) \/ RecvFails(i) \/ Close(i)
    PROVE  Typed'
  <1>1. ShapeOf(i) /\ proc[i] \in ProcType /\ fails \in 0..MaxFails /\ proc \in [Procs -> ProcType]
    BY DEF Typed, Shape, TypeOK, ProcType
  <1>2. CASE Prepare(i)
    <2>1. fails' \in 0..MaxFails /\ child[i] = None
      BY <1>1, <1>2, Failing, Idle1 DEF Prepare, Typed
    <2>2. queue # i
      BY <1>1, <1>2 DEF Prepare, ShapeOf, Holding
    <2>3. CASE Goto(i, "queue")
      BY <1>1, <1>2, <2>1, <2>2, <2>3, GotoTyped DEF Prepare, ShapeOf, Holding, Places, Ended
    <2>4. CASE Return(i)
      BY <1>2, <2>1, <2>2, <2>4, ReturnTyped DEF Prepare
    <2> QED BY <1>2, <2>3, <2>4 DEF Prepare
  <1>3. CASE Bind(i)
    <2>1. fails' \in 0..MaxFails /\ child[i] = None
      BY <1>1, <1>3, Failing, Idle1 DEF Bind, Typed
    <2>2. queue # i
      BY <1>1, <1>3 DEF Bind, ShapeOf, Holding
    <2>3. CASE queue = 0 /\ queue' = i /\ Goto(i, "make")
      BY <1>1, <1>3, <2>1, <2>3, GotoTyped DEF Bind, ShapeOf, Holding, Places, Ended
    <2>4. CASE Return(i) /\ queue' = queue
      BY <1>3, <2>1, <2>2, <2>4, ReturnTyped DEF Bind
    <2> QED BY <1>3, <2>3, <2>4 DEF Bind
  <1>4. CASE Made(i)
    BY <1>1, <1>4, GotoTyped DEF Made, ShapeOf, Holding, Places, Ended, bounds
  <1>5. CASE Close(i)
    BY <1>1, <1>5, ReturnTyped DEF Close, ShapeOf, bounds
  <1>6. CASE SignalSetup(i)
    <2>1. fails' \in 0..MaxFails /\ child[i] = None /\ queue = i /\ queue' = i
      BY <1>1, <1>6, Failing, Idle1 DEF SignalSetup, Typed, ShapeOf, Holding
    <2>2. CASE Goto(i, "clear")
      BY <1>6, <2>1, <2>2, GotoTyped DEF SignalSetup, Holding, Places, Ended
    <2>3. CASE proc' = [proc EXCEPT ![i].at = "check", ![i].handler = TRUE]
      <3>1. proc'[i] = [proc[i] EXCEPT !.at = "check", !.handler = TRUE] /\ proc'[i] \in ProcType
        BY <1>1, <2>3 DEF ProcType, Places
      <3>2. ShapeOf(i)'
        BY <1>1, <1>6, <2>1, <3>1 DEF ShapeOf, SignalSetup, Holding, ProcType
      <3>3. proc' \in [Procs -> ProcType]'
        BY <1>1, <1>6, <2>3, <3>1, SameTool DEF SignalSetup, ProcType, Total
      <3> QED BY <1>1, <1>6, <2>1, <2>3, <3>2, <3>3, ProcStep DEF SignalSetup
    <2> QED BY <1>6, <2>2, <2>3 DEF SignalSetup
  <1>7. CASE Check(i) \/ Enter(i)
    <2>1. child[i] = None /\ queue = i /\ queue' = i
      BY <1>1, <1>7, Idle1 DEF Check, Enter, ShapeOf, Holding
    <2>2. CASE Goto(i, "clear")
      BY <1>1, <1>7, <2>1, <2>2, GotoTyped DEF Check, Enter, Holding, Places, Ended, bounds
    <2>3. CASE Goto(i, "enter") /\ proc[i].errors < MaxErrors
      BY <1>1, <1>7, <2>1, <2>3, GotoTyped DEF Check, Enter, Holding, Places, Ended, bounds
    <2>4. CASE Goto(i, "recv") /\ proc[i].errors < MaxErrors
      BY <1>1, <1>7, <2>1, <2>4, GotoTyped DEF Check, Enter, Holding, Places, Ended, bounds
    <2>5. proc[i].at = "check" /\ ~(proc[i].errors >= MaxErrors) => proc[i].errors < MaxErrors
      BY <1>1, DaemonAssumption DEF ProcType
    <2> QED BY <1>1, <1>7, <2>2, <2>3, <2>4, <2>5 DEF Check, Enter, ShapeOf
  <1>8. CASE Packet(i) \/ RecvFails(i)
    <2>1. child[i] = None /\ queue = i /\ queue' = i /\ proc[i].errors < MaxErrors
      BY <1>1, <1>8, Idle1 DEF Packet, RecvFails, ShapeOf, Holding
    <2>2. CASE Goto(i, "clear")
      BY <1>1, <1>8, <2>1, <2>2, GotoTyped DEF Packet, RecvFails, Holding, Places, Ended, bounds
    <2>3. ASSUME NEW n \in 0..MaxErrors, proc' = [proc EXCEPT ![i].at = "check", ![i].errors = n]
          PROVE  Typed'
      <3>1. proc'[i] = [proc[i] EXCEPT !.at = "check", !.errors = n] /\ proc'[i] \in ProcType
        BY <1>1, <2>3 DEF ProcType, Places
      <3>2. tool' = tool
        BY <1>8 DEF Packet, RecvFails
      <3>3. ShapeOf(i)'
        BY <1>1, <1>8, <2>1, <3>1 DEF ShapeOf, Packet, RecvFails, Holding, ProcType
      <3>4. proc' \in [Procs -> ProcType]'
        BY <1>1, <2>3, <3>1, <3>2, SameTool DEF ProcType, Total
      <3>5. UNCHANGED <<tool, child, stray, fw, procd, script, orders, crashes, spoiled, crossed>> /\ fails' = fails
        BY <1>8 DEF Packet, RecvFails, bounds
      <3> QED BY <1>1, <2>1, <2>3, <3>3, <3>4, <3>5, ProcStep
    <2>4. proc[i].errors + 1 \in 0..MaxErrors /\ 0 \in 0..MaxErrors
      BY <1>1, <2>1, DaemonAssumption DEF ProcType
    <2>5. \/ Goto(i, "clear")
          \/ \E n \in 0..MaxErrors : proc' = [proc EXCEPT ![i].at = "check", ![i].errors = n]
      <3>1. CASE Packet(i)
        BY <2>4, <3>1 DEF Packet
      <3>2. CASE RecvFails(i)
        <4>1. proc' = [proc EXCEPT ![i].at = "check", ![i].errors = @ + 1] => proc' = [proc EXCEPT ![i].at = "check", ![i].errors = proc[i].errors + 1]
          OBVIOUS
        <4> QED BY <2>4, <3>2, <4>1 DEF RecvFails
      <3> QED BY <1>8, <3>1, <3>2
    <2> QED BY <2>2, <2>3, <2>5
  <1> QED BY <1>2, <1>3, <1>4, <1>5, <1>6, <1>7, <1>8

LEMMA RunType ==
    ASSUME TypeOK, NEW c, c.fam \in Families, c.op \in Removal \cup MadeOps, c.by \in {0} \cup Procs, Run(c)
    PROVE  /\ fw' \in [Families -> Rules]
           /\ \A f \in Families : fw'[f] = IF f = c.fam THEN Effect(c) ELSE fw[f]
  BY EffectType DEF Run, TypeOK

LEMMA ForkTyped == ASSUME Typed, NEW i \in Procs, Fork(i) PROVE Typed'
  <1> DEFINE c == Cmd(List(i), proc[i].pos, i)
  <1>1. c \in Commands /\ child \in [Procs -> Commands \cup {None}] /\ proc[i].at \in {"make", "clear"}
    BY CommandType DEF Fork, Typed, TypeOK
  <1>2. child'[i] = c /\ \A j \in Procs \ {i} : child'[j] = child[j]
    BY <1>1 DEF Fork
  <1>3. child' \in [Procs -> Commands \cup {None}]
    <2> HIDE DEF c
    <2>1. child' = [child EXCEPT ![i] = c]
      BY DEF Fork, c
    <2> QED BY <1>1, <2>1
  <1>4. UNCHANGED <<tool, proc, stray, queue, fw, wanted, cur, script, orders, crashes, fails, spoiled, crossed>>
    BY SMTT(60) DEF Fork, procd, bounds
  <1>5. ShapeOf(i)'
    BY <1>2, <1>4, SameTool DEF Typed, Shape, ShapeOf, List, Cmd, Total, Fork
  <1>6. \A j \in Procs : ShapeOf(j)'
    BY <1>2, <1>4, <1>5, ShapeStays DEF Typed, Shape
  <1>7. TypeOK'
    <2>1. Total(MakeAll)' = Total(MakeAll) /\ Total(ScriptOps)' = Total(ScriptOps)
      BY <1>4, SameTool DEF Total
    <2>2. \A j \in Procs : Alive(j)' <=> Alive(j)
      BY <1>4 DEF Alive
    <2>3. Alive(i)
      BY <1>1 DEF Alive, Ended
    <2> HIDE DEF c
    <2> QED BY <1>2, <1>3, <1>4, <2>1, <2>2, <2>3 DEF Typed, TypeOK
  <1> QED BY <1>6, <1>7 DEF Typed, Shape

LEMMA ReapTyped == ASSUME Typed, NEW i \in Procs, Reap(i) PROVE Typed'
  <1> DEFINE c == child[i]
  <1>1. /\ child \in [Procs -> Commands \cup {None}] /\ c \in Commands /\ fails \in 0..MaxFails
        /\ proc[i] \in ProcType /\ proc \in [Procs -> ProcType] /\ ShapeOf(i) /\ fw \in [Families -> Rules]
    BY DEF Reap, Typed, TypeOK, ProcType, Shape
  <1>2. child' \in [Procs -> Commands \cup {None}] /\ child'[i] = None /\ \A j \in Procs \ {i} : child'[j] = child[j]
    BY <1>1 DEF Reap
  <1>3. UNCHANGED <<tool, stray, queue, wanted, cur, script, orders, crashes, crossed>>
    BY DEF Reap, procd
  <1>4. fw' \in [Families -> Rules]
    <2>1. c.fam \in Families /\ c.op \in Removal \cup MadeOps /\ c.by \in {0} \cup Procs
      BY <1>1 DEF Commands, MadeOps
    <2> QED BY <1>1, <2>1, RunType DEF Reap, Typed
  <1>5. fails' \in 0..MaxFails
    BY <1>1, Failing DEF Reap, Typed
  <1>6. spoiled' \subseteq Mishaps
    BY DEF Reap, Typed, TypeOK, Mishaps
  <1>7. /\ proc' \in [Procs -> ProcType]' /\ \A j \in Procs \ {i} : proc'[j] = proc[j]
        /\ ShapeOf(i)'
    <2>1. proc[i].pos + 1 \in 1..Total(MakeAll) + 1
      BY <1>1, Totals DEF ShapeOf, List, ProcType, Typed, Reap
    <2>2. CASE proc' = [proc EXCEPT ![i].pos = @ + 1]
      <3>1. proc'[i] = [proc[i] EXCEPT !.pos = proc[i].pos + 1] /\ proc'[i] \in ProcType
        BY <1>1, <2>1, <2>2 DEF ProcType
      <3>2. proc' \in [Procs -> ProcType]'
        <4>1. proc' = [proc EXCEPT ![i] = proc'[i]]
          BY <1>1, <2>2
        <4> QED BY <1>1, <1>3, <3>1, <4>1, SameTool DEF ProcType, Total
      <3>3. ShapeOf(i)'
        BY <1>1, <1>2, <1>3, <3>1, Totals, SameTool DEF Typed, ShapeOf, List, ProcType, Total, Reap
      <3> QED BY <1>1, <2>2, <3>2, <3>3
    <2>3. CASE AfterMake(i)
      <3>1. /\ proc' \in [Procs -> ProcType]' /\ \A j \in Procs \ {i} : proc'[j] = proc[j]
            /\ proc'[i].at = "clear" /\ proc'[i].pos = 1
            /\ proc'[i].handler = proc[i].handler /\ proc'[i].exit = proc[i].exit
        BY <1>3, <2>3, GotoType DEF AfterMake, Typed, Places
      <3>2. Total(ClearOps)' \in Nat
        BY <1>3, Totals, SameTool DEF Typed, Total
      <3> QED BY <1>1, <1>2, <1>3, <3>1, <3>2 DEF ShapeOf, Holding, Reap
    <2> QED BY <2>2, <2>3 DEF Reap
  <1>8. \A j \in Procs : ShapeOf(j)'
    BY <1>2, <1>3, <1>7, ShapeStays DEF Typed, Shape
  <1>9. queue' \in {0} \cup {j \in Procs : Alive(j)'}
    <2>1. queue \in {0} \cup Procs
      BY DEF Typed, TypeOK
    <2> QED BY <1>3, <1>8, <2>1 DEF ShapeOf, Alive, Holding, Ended
  <1>10. \A j \in Procs : child'[j] # None => Alive(j)'
    BY <1>8 DEF ShapeOf, Alive, Ended
  <1>11. Total(MakeAll)' = Total(MakeAll) /\ Total(ScriptOps)' = Total(ScriptOps)
    BY <1>3, SameTool DEF Total
  <1> HIDE DEF c
  <1> QED BY <1>2, <1>3, <1>4, <1>5, <1>6, <1>7, <1>8, <1>9, <1>10, <1>11 DEF Typed, TypeOK, Shape, ProcType

ScriptType == {Idle} \cup [at : {"stop", "clean", "start"}, pos : 1..Total(ScriptOps) + 1]

LEMMA ScriptAt ==
    ASSUME Typed, NEW s \in Scripts
    PROVE  /\ script \in [Scripts -> ScriptType] /\ script[s] \in ScriptType
           /\ script[s].pos \in 1..Total(ScriptOps) + 1 /\ script[s].pos \in Nat /\ Total(ScriptOps) \in Nat
           /\ script[s] # Idle => script[s] \in [at : {"stop", "clean", "start"}, pos : 1..Total(ScriptOps) + 1]
  <1>1. script \in [Scripts -> ScriptType] /\ script[s] \in ScriptType
    BY DEF Typed, TypeOK, ScriptType
  <1>2. Total(ScriptOps) \in Nat
    BY Totals DEF Typed
  <1> HIDE DEF Typed
  <1> QED BY <1>1, <1>2 DEF ScriptType, Idle

\* Where an operation of the script is after a step of its own.
LEMMA ScriptMoves ==
    ASSUME Typed, NEW s \in Scripts, ScriptClean(s) \/ ScriptAgain(s) \/ ScriptPublish(s) \/ ScriptStopped(s)
    PROVE  /\ script' \in [Scripts -> ScriptType] /\ script[s] # Idle
           /\ \A o \in Scripts \ {s} : script'[o] = script[o]
           /\ ScriptClean(s) => script'[s] # Idle /\ script'[s].pos = script[s].pos + 1
           /\ ~ScriptClean(s) => script[s].pos > Total(ScriptOps)
           /\ ScriptAgain(s) => script'[s] # Idle /\ script'[s].pos = 1
           /\ ScriptPublish(s) \/ ScriptStopped(s) => script'[s] = Idle
  <1>1. /\ script \in [Scripts -> ScriptType] /\ script[s].pos \in Nat /\ Total(ScriptOps) \in Nat
        /\ script[s] # Idle => script[s] \in [at : {"stop", "clean", "start"}, pos : 1..Total(ScriptOps) + 1]
    BY ScriptAt
  <1>2. script[s] # Idle /\ (~ScriptClean(s) => script[s].pos > Total(ScriptOps))
    BY DEF ScriptClean, ScriptAgain, ScriptPublish, ScriptStopped, CleanDone
  <1>3. PICK v \in ScriptType :
           /\ script' = [script EXCEPT ![s] = v]
           /\ ScriptClean(s) => v # Idle /\ v.pos = script[s].pos + 1
           /\ ScriptAgain(s) => v # Idle /\ v.pos = 1
           /\ ScriptPublish(s) \/ ScriptStopped(s) => v = Idle
    <2>1. CASE ScriptClean(s)
      <3> DEFINE v == [script[s] EXCEPT !.pos = script[s].pos + 1]
      <3>1. script' = [script EXCEPT ![s] = v] /\ script[s].pos <= Total(ScriptOps)
        BY <1>1, <2>1 DEF ScriptClean, CleanDone
      <3>2. v \in ScriptType /\ v # Idle /\ v.pos = script[s].pos + 1
        BY <1>1, <1>2, <3>1 DEF ScriptType, Idle
      <3>3. ~ScriptAgain(s) /\ ~ScriptPublish(s) /\ ~ScriptStopped(s)
        BY <2>1 DEF ScriptClean, ScriptAgain, ScriptPublish, ScriptStopped
      <3> HIDE DEF v
      <3> QED BY <3>1, <3>2, <3>3
    <2>2. CASE ScriptAgain(s)
      <3> DEFINE v == [script[s] EXCEPT !.pos = 1]
      <3>1. script' = [script EXCEPT ![s] = v]
        BY <1>1, <2>2 DEF ScriptAgain
      <3>2. v \in ScriptType /\ v # Idle /\ v.pos = 1
        BY <1>1, <1>2 DEF ScriptType, Idle
      <3>3. ~ScriptClean(s) /\ ~ScriptPublish(s) /\ ~ScriptStopped(s)
        <4>1. ~ScriptClean(s)
          BY <2>2 DEF ScriptClean, ScriptAgain
        <4>2. script'[s] # Idle
          BY <1>1, <3>1, <3>2
        <4> QED BY <1>1, <4>1, <4>2 DEF ScriptPublish, ScriptStopped
      <3> HIDE DEF v
      <3> QED BY <3>1, <3>2, <3>3
    <2>3. CASE ScriptPublish(s) \/ ScriptStopped(s)
      <3>1. script' = [script EXCEPT ![s] = Idle] /\ Idle \in ScriptType
        BY <2>3 DEF ScriptPublish, ScriptStopped, ScriptType
      <3>2. ~ScriptClean(s)
        BY <2>3 DEF ScriptClean, ScriptPublish, ScriptStopped
      <3>3. ~ScriptAgain(s)
        <4>1. script'[s] = Idle
          BY <1>1, <3>1
        <4>2. ScriptAgain(s) => script'[s].at = script[s].at
          BY <1>1 DEF ScriptAgain
        <4> QED BY <1>1, <1>2, <4>1, <4>2 DEF Idle
      <3> QED BY <3>1, <3>2, <3>3
    <2> QED BY <2>1, <2>2, <2>3
  <1> QED BY <1>1, <1>2, <1>3

LEMMA OthersTyped ==
    ASSUME Typed, (\E c \in stray : StrayEnds(c)) \/ (\E s \in Scripts : ScriptClean(s) \/ ScriptStopped(s))
    PROVE  Typed'
  <1>1. UNCHANGED <<tool, proc, child, queue, wanted, cur, orders, crashes, crossed>>
    BY DEF StrayEnds, ScriptClean, ScriptStopped, procd, bounds
  <1>2. \A j \in Procs : ShapeOf(j)'
    BY <1>1, ShapeStays DEF Typed, Shape
  <1>3. fw' \in [Families -> Rules]
    <2>1. ASSUME NEW c \in stray, StrayEnds(c) PROVE fw' \in [Families -> Rules]
      <3>1. c.fam \in Families /\ c.op \in Removal \cup MadeOps /\ c.by \in {0} \cup Procs
        BY DEF Typed, TypeOK, Commands, MadeOps
      <3> QED BY <2>1, <3>1, RunType DEF StrayEnds, Typed, TypeOK
    <2>2. ASSUME NEW s \in Scripts, ScriptClean(s) PROVE fw' \in [Families -> Rules]
      <3> DEFINE k == script[s].pos
      <3>1. k \in 1..Total(ScriptOps)
        BY <2>2, ScriptAt DEF ScriptClean, CleanDone
      <3>2. Runs(ScriptOps, 0) /\ \A o \in 1..Len(ScriptOps) : ScriptOps[o] \in Removal
        BY ListsRun, Operations, Tool DEF Typed
      <3>3. PICK g \in Fams, o \in 1..Len(ScriptOps) : Cmd(ScriptOps, k, 0) = [op |-> ScriptOps[o], fam |-> Order[g], by |-> 0]
        BY <3>1, <3>2 DEF Runs
      <3>4. /\ Cmd(ScriptOps, k, 0).fam \in Families /\ Cmd(ScriptOps, k, 0).op \in Removal
            /\ Cmd(ScriptOps, k, 0).by = 0
        BY <3>2, <3>3, Families1
      <3>5. Run(Cmd(ScriptOps, k, 0)) => fw' \in [Families -> Rules]
        BY <3>4, RunType DEF Typed
      <3> QED BY <2>2, <3>5 DEF ScriptClean, Typed, TypeOK
    <2>3. ASSUME NEW s \in Scripts, ScriptStopped(s) PROVE fw' \in [Families -> Rules]
      BY <2>3 DEF ScriptStopped, Typed, TypeOK
    <2> QED BY <2>1, <2>2, <2>3
  <1>4. script' \in [Scripts -> ScriptType]
    <2>1. ASSUME NEW c \in stray, StrayEnds(c) PROVE script' = script
      BY <2>1 DEF StrayEnds
    <2>2. script \in [Scripts -> ScriptType]
      BY DEF Typed, TypeOK, ScriptType
    <2> QED BY <2>1, <2>2, ScriptMoves
  <1>5. stray' \subseteq Commands /\ spoiled' \subseteq Mishaps
    BY DEF StrayEnds, ScriptClean, ScriptStopped, Typed, TypeOK, Mishaps
  <1>6. fails' \in 0..MaxFails
    <2>1. fails \in 0..MaxFails
      BY DEF Typed, TypeOK
    <2> QED BY <2>1, Failing DEF StrayEnds, ScriptClean, ScriptStopped, bounds, Typed
  <1>7. Total(MakeAll)' = Total(MakeAll) /\ Total(ScriptOps)' = Total(ScriptOps)
    BY <1>1, SameTool DEF Total
  <1>8. \A j \in Procs : Alive(j)' <=> Alive(j)
    BY <1>1 DEF Alive
  <1> QED BY <1>1, <1>2, <1>3, <1>4, <1>5, <1>6, <1>7, <1>8 DEF Typed, TypeOK, Shape, ScriptType

\* A process is killed: what holds for any signal that ends it.
LEMMA DiesTyped ==
    ASSUME Typed, NEW i \in Procs, Dies(i), tool' = tool
    PROVE  /\ proc' \in [Procs -> ProcType]' /\ Shape'
           /\ child' \in [Procs -> Commands \cup {None}] /\ stray' \subseteq Commands
           /\ \A j \in Procs : child'[j] # None => Alive(j)'
           /\ queue' \in {0} \cup {j \in Procs : Alive(j)'}
           /\ proc'[i].at = "killed" /\ \A j \in Procs \ {i} : proc'[j] = proc[j]
  <1>1. /\ child \in [Procs -> Commands \cup {None}] /\ stray \subseteq Commands
        /\ queue \in {0} \cup Procs
    BY DEF Typed, TypeOK
  <1>2. /\ proc' \in [Procs -> ProcType]'
        /\ \A j \in Procs \ {i} : proc'[j] = proc[j]
        /\ proc'[i].at = "killed" /\ ~proc'[i].handler /\ ~proc'[i].exit
    BY ReturnType DEF Typed, Dies, Ended
  <1>3. /\ child' \in [Procs -> Commands \cup {None}] /\ child'[i] = None
        /\ \A j \in Procs \ {i} : child'[j] = child[j]
    BY <1>1 DEF Dies, Abandon
  <1>4. stray' \subseteq Commands
    BY <1>1 DEF Dies, Abandon
  <1>5. queue' = IF queue = i THEN 0 ELSE queue
    BY DEF Dies
  <1>6. ShapeOf(i)'
    BY <1>2, <1>3, <1>5 DEF ShapeOf, Holding, Procs
  <1>7. \A j \in Procs \ {i} : queue' = j <=> queue = j
    BY <1>5 DEF Procs
  <1>8. \A j \in Procs : ShapeOf(j)'
    BY <1>2, <1>3, <1>6, <1>7, ShapeStays DEF Typed, Shape
  <1>9. queue' \in {0} \cup {j \in Procs : Alive(j)'}
    BY <1>1, <1>5, <1>8 DEF ShapeOf, Alive, Holding, Ended
  <1>10. \A j \in Procs : child'[j] # None => Alive(j)'
    BY <1>8 DEF ShapeOf, Alive, Ended
  <1> QED BY <1>2, <1>3, <1>4, <1>8, <1>9, <1>10 DEF Shape

LEMMA TermTyped ==
    ASSUME Typed, NEW i \in Procs, Term(i), tool' = tool
    PROVE  /\ proc' \in [Procs -> ProcType]' /\ Shape'
           /\ child' \in [Procs -> Commands \cup {None}] /\ stray' \subseteq Commands
           /\ \A j \in Procs : child'[j] # None => Alive(j)'
           /\ queue' \in {0} \cup {j \in Procs : Alive(j)'}
           /\ spoiled' \subseteq Mishaps
           /\ Alive(i)' => proc'[i].exit
           /\ \A j \in Procs \ {i} : proc'[j] = proc[j]
  <1>0. spoiled' \subseteq Mishaps
    BY DEF Term, Typed, TypeOK, Mishaps
  <1>1. /\ child \in [Procs -> Commands \cup {None}] /\ stray \subseteq Commands
        /\ queue \in {0} \cup Procs /\ proc \in [Procs -> ProcType] /\ proc[i] \in ProcType /\ ShapeOf(i)
    BY DEF Typed, TypeOK, ProcType, Shape
  <1>2. CASE ~Alive(i)
    <2>1. UNCHANGED <<proc, queue, child, stray>>
      BY <1>2 DEF Term
    <2>2. \A j \in Procs : ShapeOf(j)'
      BY <2>1, ShapeStays DEF Typed, Shape
    <2>3. Total(MakeAll)' = Total(MakeAll)
      BY SameTool DEF Total
    <2> QED BY <1>0, <1>1, <1>2, <2>1, <2>2, <2>3 DEF Typed, TypeOK, Shape, Alive, ProcType
  <1>3. CASE Alive(i) /\ ~proc[i].handler
    <2>1. Dies(i)
      BY <1>3 DEF Term
    <2>2. ~Alive(i)'
      BY <2>1, DiesTyped DEF Alive, Ended
    <2> QED BY <1>0, <2>1, <2>2, DiesTyped
  <1>4. CASE Alive(i) /\ proc[i].handler
    <2> DEFINE r == [proc[i] EXCEPT !.exit = TRUE,
                        !.at = IF @ = "recv" THEN "check" ELSE @,
                        !.errors = IF proc[i].at = "recv" THEN @ + 1 ELSE @,
                        !.pos = IF child[i] # None THEN @ + 1 ELSE @]
    <2>1. proc' = [proc EXCEPT ![i] = r] /\ queue' = queue /\ Abandon(i)
      BY <1>1, <1>4 DEF Term
    <2>2. proc[i].at = "recv" => proc[i].errors + 1 \in 0..MaxErrors
      BY <1>1, DaemonAssumption DEF ShapeOf, ProcType
    <2>3. child[i] # None => proc[i].pos + 1 \in 1..Total(MakeAll) + 1
      BY <1>1, Totals DEF ShapeOf, List, ProcType, Typed
    <2>4. r \in ProcType
      BY <1>1, <2>2, <2>3 DEF ProcType, Places
    <2>5. proc'[i] = r /\ \A j \in Procs \ {i} : proc'[j] = proc[j]
      BY <1>1, <2>1
    <2>6. proc' \in [Procs -> ProcType]'
      <3> HIDE DEF r
      <3> QED BY <1>1, <2>1, <2>4, SameTool DEF ProcType, Total
    <2>7. /\ child' \in [Procs -> Commands \cup {None}] /\ child'[i] = None
          /\ \A j \in Procs \ {i} : child'[j] = child[j]
          /\ stray' \subseteq Commands
      BY <1>1, <2>1 DEF Abandon
    <2>8. /\ r.at = (IF proc[i].at = "recv" THEN "check" ELSE proc[i].at) /\ r.exit /\ r.handler = proc[i].handler
          /\ r.pos = (IF child[i] # None THEN proc[i].pos + 1 ELSE proc[i].pos)
          /\ r.at # "recv" => r.errors = proc[i].errors \/ r.at = "check"
      BY <1>1 DEF ProcType
    <2>9. ShapeOf(i)'
      <3> HIDE DEF r
      <3>1. r.at = "clear" => r.pos <= Total(ClearOps) + 1
        BY <1>1, <2>8, Totals DEF ShapeOf, List, Typed, ProcType
      <3>2. Total(ClearOps)' = Total(ClearOps)
        BY SameTool DEF Total
      <3> QED BY <1>1, <1>4, <2>1, <2>5, <2>7, <2>8, <3>1, <3>2 DEF ShapeOf, Holding
    <2>10. \A j \in Procs : ShapeOf(j)'
      BY <2>1, <2>5, <2>7, <2>9, ShapeStays DEF Typed, Shape
    <2>11. queue' \in {0} \cup {j \in Procs : Alive(j)'}
      BY <1>1, <2>1, <2>10 DEF ShapeOf, Alive, Holding, Ended
    <2>12. \A j \in Procs : child'[j] # None => Alive(j)'
      BY <2>10 DEF ShapeOf, Alive, Ended
    <2> HIDE DEF r
    <2> QED BY <1>0, <2>5, <2>6, <2>7, <2>8, <2>10, <2>11, <2>12 DEF Shape
  <1> QED BY <1>2, <1>3, <1>4

\* procd's signal, whoever asks for it.
LEMMA SignalCurTyped ==
    ASSUME Typed, SignalCur, UNCHANGED <<tool, fw, crashes, fails>>,
           wanted' \in BOOLEAN, cur' \in {0} \cup Procs, crossed' \in BOOLEAN,
           script' \in [Scripts -> ScriptType], orders' \in 0..MaxOrders
    PROVE  Typed'
  <1>0. Total(MakeAll)' = Total(MakeAll) /\ Total(ScriptOps)' = Total(ScriptOps)
    BY SameTool DEF Total
  <1>1. CASE cur = 0
    <2>1. UNCHANGED <<proc, queue, child, stray, spoiled>>
      BY <1>1 DEF SignalCur
    <2>2. \A j \in Procs : ShapeOf(j)' /\ (Alive(j)' <=> Alive(j))
      BY <2>1, ShapeStays DEF Typed, Shape, Alive
    <2> QED BY <1>0, <2>1, <2>2 DEF Typed, TypeOK, Shape, ScriptType
  <1>2. CASE cur # 0
    <2>1. cur \in Procs /\ Term(cur)
      BY <1>2 DEF SignalCur, Typed, TypeOK
    <2> QED BY <1>0, <2>1, TermTyped DEF Typed, TypeOK, ProcType, ScriptType
  <1> QED BY <1>1, <1>2

LEMMA SignalTyped ==
    ASSUME Typed,
           \/ \E i \in Procs : SigKill(i) \/ Crash(i)
           \/ \E s \in Scripts, at \in {"stop", "clean", "start"} : ScriptKill(s, at)
           \/ \E s \in Scripts : ScriptAgain(s) \/ ScriptPublish(s)
    PROVE  Typed'
  <1>0. Total(MakeAll)' = Total(MakeAll) /\ Total(ScriptOps)' = Total(ScriptOps) /\ tool' = tool
    BY SameTool DEF Total, SigKill, Crash, ScriptKill, ScriptAgain, ScriptPublish
  <1>1. ASSUME NEW i \in Procs, SigKill(i) \/ Crash(i)
        PROVE  Typed'
    <2>1. Dies(i) /\ UNCHANGED <<fw, wanted, cur, script, orders, fails, spoiled, crossed>>
      BY <1>1 DEF SigKill, Crash, procd, bounds
    <2>2. crashes' \in 0..MaxCrashes
      BY <1>1, DaemonAssumption DEF SigKill, Crash, bounds, Typed, TypeOK
    <2> QED BY <1>0, <2>1, <2>2, DiesTyped DEF Typed, TypeOK, ProcType
  <1>2. ASSUME NEW s \in Scripts, NEW at \in {"stop", "clean", "start"}, ScriptKill(s, at)
        PROVE  Typed'
    <2>1. UNCHANGED <<tool, fw, crashes, fails>> /\ wanted' = FALSE /\ cur' = 0 /\ SignalCur
      BY <1>2 DEF ScriptKill, procd_kill
    <2>2. orders' \in 0..MaxOrders
      BY <1>2, DaemonAssumption DEF ScriptKill, Typed, TypeOK
    <2>3. script' \in [Scripts -> ScriptType]
      <3>1. [at |-> at, pos |-> 1] \in ScriptType /\ script \in [Scripts -> ScriptType]
        BY ScriptAt DEF ScriptType
      <3>2. script' = [script EXCEPT ![s] = [at |-> at, pos |-> 1]]
        BY <1>2 DEF ScriptKill
      <3> QED BY <3>1, <3>2
    <2>4. crossed' \in BOOLEAN
      BY <1>2 DEF ScriptKill, Resting
    <2>5. cur' \in {0} \cup Procs /\ wanted' \in BOOLEAN
      BY <2>1
    <2> QED BY <2>1, <2>2, <2>3, <2>4, <2>5, SignalCurTyped
  <1>3. ASSUME NEW s \in Scripts, ScriptAgain(s) \/ ScriptPublish(s)
        PROVE  Typed'
    <2>1. UNCHANGED <<tool, fw, orders, crashes, fails, crossed>>
      BY <1>3 DEF ScriptAgain, ScriptPublish, bounds
    <2>2. script' \in [Scripts -> ScriptType]
      BY <1>3, ScriptMoves
    <2>3. crossed' \in BOOLEAN /\ orders' \in 0..MaxOrders
      BY <2>1 DEF Typed, TypeOK
    <2>4. cur' \in {0} \cup Procs /\ wanted' \in BOOLEAN
      BY <1>3 DEF ScriptAgain, ScriptPublish, procd_kill, Typed, TypeOK
    <2>5. SignalCur \/ UNCHANGED <<cur, proc, queue, child, stray, spoiled>>
      BY <1>3 DEF ScriptAgain, ScriptPublish, procd_kill
    <2>6. CASE SignalCur
      BY <2>1, <2>2, <2>3, <2>4, <2>6, SignalCurTyped
    <2>7. CASE UNCHANGED <<cur, proc, queue, child, stray, spoiled>>
      <3>1. \A j \in Procs : ShapeOf(j)' /\ (Alive(j)' <=> Alive(j))
        BY <2>1, <2>7, ShapeStays DEF Typed, Shape, Alive
      <3> QED BY <1>0, <2>1, <2>2, <2>3, <2>4, <2>7, <3>1 DEF Typed, TypeOK, Shape, ScriptType
    <2> QED BY <2>5, <2>6, <2>7
  <1> QED BY <1>1, <1>2, <1>3

LEMMA StartTyped == ASSUME Typed, NEW i \in Procs, Start(i) PROVE Typed'
  <1>0. /\ UNCHANGED <<tool, child, stray, queue, fw, wanted, script, orders, crashes, fails, spoiled, crossed>>
        /\ cur' = i /\ proc' = [proc EXCEPT ![i].at = "prepare"] /\ proc[i].at = "none"
    BY DEF Start, bounds
  <1>1. proc \in [Procs -> ProcType] /\ proc[i] \in ProcType /\ ShapeOf(i) /\ queue \in {0} \cup Procs
    BY DEF Typed, TypeOK, ProcType, Shape
  <1>2. /\ proc'[i] = [proc[i] EXCEPT !.at = "prepare"] /\ proc'[i] \in ProcType
        /\ \A j \in Procs \ {i} : proc'[j] = proc[j]
    BY <1>0, <1>1 DEF ProcType, Places
  <1>3. proc' \in [Procs -> ProcType]
    <2>1. proc' = [proc EXCEPT ![i] = proc'[i]]
      BY <1>0, <1>1
    <2> QED BY <1>1, <1>2, <2>1
  <1>4. ShapeOf(i)'
    BY <1>0, <1>1, <1>2 DEF ShapeOf, Holding, ProcType
  <1>5. \A j \in Procs : ShapeOf(j)'
    BY <1>0, <1>2, <1>4, ShapeStays DEF Typed, Shape
  <1>6. queue' \in {0} \cup {j \in Procs : Alive(j)'}
    BY <1>0, <1>1, <1>5 DEF ShapeOf, Alive, Holding, Ended
  <1>7. \A j \in Procs : child'[j] # None => Alive(j)'
    BY <1>5 DEF ShapeOf, Alive, Ended
  <1>8. Total(MakeAll)' = Total(MakeAll) /\ Total(ScriptOps)' = Total(ScriptOps)
    BY <1>0, SameTool DEF Total
  <1> QED BY <1>0, <1>3, <1>5, <1>6, <1>7, <1>8 DEF Typed, TypeOK, Shape, ProcType

LEMMA TypedStep == Typed /\ [Next]_vars => Typed'
  <1>1. ASSUME Typed, UNCHANGED vars
        PROVE  Typed'
    <2>1. UNCHANGED <<tool, proc, child, stray, queue, fw, wanted, cur, script, orders, crashes, fails, spoiled, crossed>>
      BY <1>1 DEF vars, procd, bounds
    <2>2. \A j \in Procs : ShapeOf(j)' /\ (Alive(j)' <=> Alive(j))
      BY <1>1, <2>1, ShapeStays DEF Typed, Shape, Alive
    <2>3. Total(MakeAll)' = Total(MakeAll) /\ Total(ScriptOps)' = Total(ScriptOps)
      BY <2>1, SameTool DEF Total
    <2> QED BY <1>1, <2>1, <2>2, <2>3 DEF Typed, TypeOK, Shape
  <1> QED BY <1>1, QuietTyped, ForkTyped, ReapTyped, SignalTyped, StartTyped, OthersTyped DEF Next, Step

LEMMA InitTyped == Init => Typed
  <1> SUFFICES ASSUME Init
               PROVE  Typed
    OBVIOUS
  <1>1. tool \in {"nft", "iptables"} /\ Len(Order) \in Nat \ {0}
    BY Families1, DaemonAssumption DEF Init
  <1>2. Total(MakeAll) \in Nat \ {0}
    BY <1>1, Lengths DEF MN
  <1>3. New \in ProcType
    BY <1>2, DaemonAssumption DEF New, ProcType, Places
  <1>4. proc = [i \in Procs |-> New] /\ child = [i \in Procs |-> None] /\ queue = 0
    BY DEF Init
  <1>5. Shape
    BY <1>4 DEF Shape, ShapeOf, New, Holding, Procs
  <1>6. fw \in [Families -> Rules]
    BY DEF Init, Clear, Rules
  <1>7. orders \in 0..MaxOrders /\ crashes \in 0..MaxCrashes /\ fails \in 0..MaxFails
    BY DaemonAssumption DEF Init
  <1> QED BY <1>3, <1>4, <1>5, <1>6, <1>7 DEF Init, Typed, TypeOK, ProcType

\* Processes, commands and rules keep their form: no list of commands is run past its
\* end, no error count passes the limit of the loop in fh_nfq_loop, and only a live
\* process has the queue or waits for a command.
THEOREM TypeCorrect == Spec => []TypeOK
  <1>1. Typed => TypeOK
    BY DEF Typed
  <1> QED BY <1>1, InitTyped, TypedStep, PTL DEF Spec

---------------------------------------------------------------------------
(* The init script and the processes *)

\* An operation of the script is the only one, and while it is at work nothing is wanted,
\* unless it runs beside another.
Alone == \A s \in Scripts : script[s] # Idle => ~wanted /\ \A o \in Scripts : script[o] # Idle => o = s

\* Only the process that procd knows has not been told to exit.
Control ==
    /\ ~wanted => cur = 0
    /\ ~crossed => Alone
    /\ \A i \in Procs : Alive(i) /\ i # cur => proc[i].exit

\* procd's signal leaves no process that has not been told to exit.
LEMMA SignalExits ==
    ASSUME Typed, Control, SignalCur, tool' = tool
    PROVE  \A j \in Procs : Alive(j)' => proc'[j].exit
  <1> SUFFICES ASSUME NEW j \in Procs, Alive(j)' PROVE proc'[j].exit
    OBVIOUS
  <1>1. CASE cur = 0
    <2>1. proc' = proc /\ j # cur
      BY <1>1 DEF SignalCur, Procs
    <2> QED BY <2>1 DEF Control, Alive
  <1>2. CASE cur # 0
    <2>1. cur \in Procs /\ Term(cur)
      BY <1>2 DEF SignalCur, Typed, TypeOK
    <2> QED BY <2>1, TermTyped DEF Control, Alive
  <1> QED BY <1>1, <1>2

LEMMA ControlStep == Typed /\ Control /\ [Next]_vars => Control'
  <1> SUFFICES ASSUME Typed, Control, [Next]_vars
               PROVE  Control'
    OBVIOUS
  <1>1. proc \in [Procs -> ProcType] /\ wanted \in BOOLEAN /\ cur \in {0} \cup Procs
    BY DEF Typed, TypeOK, ProcType
  <1>2. ASSUME UNCHANGED <<wanted, cur, script, crossed>>,
               \A j \in Procs : Alive(j)' => Alive(j) /\ (proc[j].exit => proc'[j].exit)
        PROVE  Control'
    BY <1>1, <1>2 DEF Control, Alone
  <1>3. ASSUME NEW i \in Procs, Step(i)
        PROVE  Control'
    <2>1. UNCHANGED <<wanted, cur, script, crossed>>
      BY <1>3 DEF Step, Prepare, Bind, Fork, Reap, Made, SignalSetup, Check, Enter, Packet, RecvFails, Close, procd
    <2>2. ASSUME NEW j \in Procs PROVE Alive(j)' => Alive(j) /\ (proc[j].exit => proc'[j].exit)
      <3>1. CASE \E l : Goto(i, l)
        <4>1. proc[i].at \notin {"none", "returned", "killed"}
          BY <1>3, <3>1 DEF Step, Prepare, Bind, Fork, Reap, Made, SignalSetup, Check, Enter, Packet, RecvFails, Close,
             Typed, Shape, ShapeOf
        <4> QED BY <1>1, <3>1, <4>1 DEF Goto, Alive, Ended, ProcType
      <3>2. CASE Return(i)
        BY <1>1, <3>2 DEF Return, Alive, Ended, New
      <3>3. CASE ~Return(i) /\ ~\E l : Goto(i, l)
        <4>1. proc[i].at \notin {"none", "returned", "killed"}
          BY <1>3, <3>3 DEF Step, Prepare, Bind, Fork, Reap, Made, SignalSetup, Check, Enter, Packet, RecvFails, Close,
             Typed, Shape, ShapeOf, AfterMake
        <4>2. proc'[j].exit = proc[j].exit /\ \A k \in Procs \ {i} : proc'[k] = proc[k]
          BY <1>1, <1>3, <3>3 DEF Step, Prepare, Bind, Fork, Reap, Made, SignalSetup, Check, Enter, Packet, RecvFails,
             Close, AfterMake, ProcType
        <4> QED BY <4>1, <4>2 DEF Alive, Ended
      <3> QED BY <3>1, <3>2, <3>3
    <2> QED BY <1>2, <2>1, <2>2
  <1>4. ASSUME NEW i \in Procs, SigKill(i) \/ Crash(i)
        PROVE  Control'
    <2>1. UNCHANGED <<wanted, cur, script, crossed, tool>> /\ Dies(i)
      BY <1>4 DEF SigKill, Crash, procd
    <2>2. \A j \in Procs : Alive(j)' => Alive(j) /\ (proc[j].exit => proc'[j].exit)
      BY <2>1, DiesTyped DEF Alive, Ended
    <2> QED BY <1>2, <2>1, <2>2
  <1>5. ASSUME NEW i \in Procs, Start(i)
        PROVE  Control'
    <2>1. /\ wanted /\ wanted' = wanted /\ script' = script /\ crossed' = crossed /\ cur' = i
          /\ \A j \in Procs \ {i} : proc'[j] = proc[j]
          /\ cur # 0 => ~Alive(cur)
      BY <1>1, <1>5 DEF Start
    <2> QED BY <2>1 DEF Control, Alone, Alive, Procs
  <1>6. ASSUME NEW s \in Scripts, NEW at \in {"stop", "clean", "start"}, ScriptKill(s, at)
        PROVE  Control'
    <2>1. ~wanted' /\ cur' = 0 /\ tool' = tool /\ SignalCur
      BY <1>6 DEF ScriptKill, procd_kill
    <2>2. \A j \in Procs : Alive(j)' => proc'[j].exit
      BY <2>1, SignalExits
    <2>3. ASSUME ~crossed' PROVE Alone'
      <3>1. \A o \in Scripts : script[o] = Idle
        BY <1>6, <2>3 DEF ScriptKill, Resting
      <3>2. \A o \in Scripts \ {s} : script'[o] = script[o]
        BY <1>6, ScriptAt DEF ScriptKill
      <3> QED BY <2>1, <3>1, <3>2 DEF Alone
    <2> QED BY <2>1, <2>2, <2>3 DEF Control
  <1>7. ASSUME NEW s \in Scripts, ScriptClean(s) \/ ScriptAgain(s) \/ ScriptPublish(s) \/ ScriptStopped(s)
        PROVE  Control'
    <2>1. /\ script[s] # Idle /\ \A o \in Scripts \ {s} : script'[o] = script[o]
          /\ ScriptPublish(s) => script'[s] = Idle
      BY <1>7, ScriptMoves
    <2>2. crossed' = crossed /\ tool' = tool
      BY <1>7 DEF ScriptClean, ScriptAgain, ScriptPublish, ScriptStopped
    <2>3. wanted' => (wanted /\ cur' = cur) \/ ScriptPublish(s)
      BY <1>7 DEF ScriptClean, ScriptAgain, ScriptPublish, ScriptStopped, procd_kill, procd
    <2>4. ~crossed' => Alone'
      BY <2>1, <2>2, <2>3 DEF Control, Alone
    <2>5. cur' = 0 \/ (cur' = cur /\ (wanted => wanted'))
      BY <1>7 DEF ScriptClean, ScriptAgain, ScriptPublish, ScriptStopped, procd_kill, procd
    <2>6. ~wanted' => cur' = 0
      BY <1>7, <2>5 DEF Control, ScriptClean, ScriptAgain, ScriptPublish, ScriptStopped, procd_kill, procd
    <2>7. SignalCur \/ (proc' = proc /\ cur' = cur)
      BY <1>7 DEF ScriptClean, ScriptAgain, ScriptPublish, ScriptStopped, procd_kill, procd
    <2>8. \A i \in Procs : Alive(i)' /\ i # cur' => proc'[i].exit
      <3>1. CASE SignalCur
        BY <2>2, <3>1, SignalExits
      <3>2. CASE proc' = proc /\ cur' = cur
        BY <3>2 DEF Control, Alive
      <3> QED BY <2>7, <3>1, <3>2
    <2> QED BY <2>4, <2>6, <2>8 DEF Control
  <1>8. CASE (\E c \in stray : StrayEnds(c)) \/ UNCHANGED vars
    <2>1. UNCHANGED <<proc, wanted, cur, script, crossed>>
      BY <1>8 DEF StrayEnds, vars, procd
    <2> QED BY <2>1 DEF Control, Alone, Alive
  <1> QED BY <1>3, <1>4, <1>5, <1>6, <1>7, <1>8 DEF Next

\* A process that sets up its rules is procd's, and no operation of the script is alone.
LEMMA Maker ==
    ASSUME Typed, Control, NEW i \in Procs, Alive(i), ~proc[i].exit
    PROVE  wanted /\ cur = i /\ (~crossed => Resting)
  BY DEF Control, Alone, Resting, Typed, TypeOK, Procs

LEMMA MakerHasNoHandler ==
    ASSUME Typed, NEW i \in Procs, proc[i].at \in {"make", "signals"}
    PROVE  Alive(i) /\ ~proc[i].exit /\ queue = i
  BY DEF Typed, Shape, ShapeOf, Alive, Ended, Holding

---------------------------------------------------------------------------
(* What commands do *)

LEMMA RemovalEffect ==
    ASSUME NEW c, c.op \in Removal, fw[c.fam] \in Rules
    PROVE  /\ fw[c.fam] = Clear => Effect(c) = Clear
           /\ Effect(c).jumps <= fw[c.fam].jumps
           /\ Effect(c).chain => fw[c.fam].chain /\ Effect(c).by = fw[c.fam].by
           /\ Possible(c)
  <1> DEFINE s == fw[c.fam]
             e == Effect(c)
             Done == (s = Clear => e = Clear) /\ e.jumps <= s.jumps /\ (e.chain => s.chain /\ e.by = s.by)
  <1>0. Possible(c)
    BY DEF Possible, Removal
  <1>1. s \in Rules /\ Clear \in Rules /\ Clear.jumps = 0 /\ ~Clear.chain /\ s.jumps \in Nat
    BY DEF Clear, Rules
  <1>2. ASSUME c.op = "delete" PROVE Done
    <2>1. e = Clear
      BY <1>2 DEF Effect
    <2> HIDE DEF e, s
    <2> QED BY <1>1, <2>1
  <1>3. ASSUME c.op = "unchain" PROVE Done
    <2>1. e = IF s.jumps = 0 THEN Clear ELSE s
      BY <1>3 DEF Effect
    <2> HIDE DEF e, s
    <2> QED BY <1>1, <2>1
  <1>4. ASSUME c.op = "flush" PROVE Done
    <2>1. e = [s EXCEPT !.full = FALSE, !.hook = FALSE]
      BY <1>4 DEF Effect
    <2> HIDE DEF e, s
    <2>2. s = Clear => e = Clear
      <3>1. e \in Rules
        BY <1>1, <2>1 DEF Rules
      <3>2. s = Clear => ~e.chain /\ e.jumps = 0 /\ ~e.full /\ ~e.hook /\ e.by = 0
        BY <1>1, <2>1 DEF Clear, Rules
      <3> QED BY <3>1, <3>2 DEF Rules, Clear
    <2> QED BY <1>1, <2>1, <2>2 DEF Rules
  <1>5. ASSUME c.op = "unjump" PROVE Done
    <2>1. e = [s EXCEPT !.jumps = IF s.jumps = 0 THEN 0 ELSE s.jumps - 1]
      BY <1>5 DEF Effect
    <2> HIDE DEF e, s
    <2>2. s = Clear => e = Clear
      BY <2>1 DEF Clear
    <2> QED BY <1>1, <2>1, <2>2 DEF Rules
  <1>6. ASSUME c.op = "unjump-all" PROVE Done
    <2>1. e = [s EXCEPT !.jumps = 0]
      BY <1>6 DEF Effect
    <2> HIDE DEF e, s
    <2>2. s = Clear => e = Clear
      BY <2>1 DEF Clear
    <2> QED BY <1>1, <2>1, <2>2 DEF Rules
  <1> QED BY <1>0, <1>2, <1>3, <1>4, <1>5, <1>6 DEF Removal

\* The command of the script's position.
LEMMA ScriptCommand ==
    ASSUME Typed, NEW s \in Scripts, ScriptClean(s), NEW c, c = Cmd(ScriptOps, script[s].pos, 0)
    PROVE  \E g \in Fams, o \in 1..CN :
              /\ script[s].pos = CN * (g - 1) + o /\ script[s].pos \in Nat
              /\ c.op = ScriptOps[o] /\ c.fam = Order[g] /\ c.by = 0 /\ c.op \in Removal
  <1>1. script[s].pos \in 1..Total(ScriptOps)
    BY ScriptAt DEF ScriptClean, CleanDone
  <1>2. Runs(ScriptOps, 0) /\ \A o \in 1..Len(ScriptOps) : ScriptOps[o] \in Removal
    BY ListsRun, Operations, Tool DEF Typed
  <1>3. Len(ScriptOps) = CN
    BY Lengths, Tool DEF Typed
  <1>4. PICK g \in Fams, o \in 1..CN :
           script[s].pos = CN * (g - 1) + o /\ c = [op |-> ScriptOps[o], fam |-> Order[g], by |-> 0]
    BY <1>1, <1>2, <1>3 DEF Runs
  <1>5. c.op = ScriptOps[o] /\ c.fam = Order[g] /\ c.by = 0
    BY <1>4
  <1> QED BY <1>1, <1>2, <1>3, <1>4, <1>5

\* The command that a process waits for.
LEMMA ChildCommand ==
    ASSUME Typed, NEW i \in Procs, child[i] # None
    PROVE  \E g \in Fams :
              /\ child[i].fam = Order[g] /\ child[i].by = i
              /\ proc[i].at = "clear" => child[i].op \in Removal /\
                    \E o \in 1..CN : proc[i].pos = CN * (g - 1) + o /\ child[i].op = ClearOps[o]
              /\ proc[i].at = "make" => child[i].op \in Removal \cup MadeOps /\
                    \E o \in 1..MN : proc[i].pos = MN * (g - 1) + o /\ child[i].op = MakeAll[o]
  <1>1. /\ proc[i].at \in {"make", "clear"} /\ proc[i].pos <= Total(List(i))
        /\ child[i] = Cmd(List(i), proc[i].pos, i) /\ proc[i].pos \in 1..Total(MakeAll) + 1
    BY DEF Typed, TypeOK, Shape, ShapeOf
  <1>2. Len(ClearOps) = CN /\ Len(MakeAll) = MN
    BY Lengths, Tool DEF Typed
  <1>3. CASE proc[i].at = "clear"
    <2>1. List(i) = ClearOps /\ proc[i].pos \in 1..Total(ClearOps)
      BY <1>1, <1>3, Totals DEF List, Typed
    <2>2. Runs(ClearOps, i) /\ \A o \in 1..Len(ClearOps) : ClearOps[o] \in Removal
      BY ListsRun, Operations, Tool DEF Typed
    <2> QED BY <1>1, <1>2, <1>3, <2>1, <2>2 DEF Runs
  <1>4. CASE proc[i].at = "make"
    <2>1. List(i) = MakeAll /\ proc[i].pos \in 1..Total(MakeAll)
      BY <1>1, <1>4, Totals DEF List, Typed
    <2>2. Runs(MakeAll, i) /\ \A o \in 1..Len(MakeAll) : MakeAll[o] \in Removal \cup MadeOps
      BY ListsRun, Operations, Tool DEF Typed
    <2> QED BY <1>1, <1>2, <1>4, <2>1, <2>2 DEF Runs
  <1> QED BY <1>1, <1>3, <1>4

\* Clear families stay clear, and what nothing jumps to stays so.
Reduced == \A f \in Families :
    /\ fw[f] = Clear => fw'[f] = Clear
    /\ fw[f].jumps = 0 => fw'[f].jumps = 0

\* A removal, wherever it comes from, changes the rules of its family for the fewer.
LEMMA RemovalReduces ==
    ASSUME TypeOK, NEW c, c.op \in Removal, c.fam \in Families, c.by \in {0} \cup Procs,
           Run(c) \/ fw' = fw
    PROVE  /\ Reduced
           /\ \A f \in Families : /\ fw'[f] = fw[f] \/ (f = c.fam /\ fw'[f] = Effect(c))
                                  /\ fw'[f].jumps <= fw[f].jumps
                                  /\ fw'[f].chain => fw[f].chain /\ fw'[f].by = fw[f].by
  <1>0. fw \in [Families -> Rules] /\ \A f \in Families : fw[f] \in Rules /\ fw[f].jumps \in Nat
    BY DEF TypeOK, Rules
  <1>1. CASE fw' = fw
    BY <1>0, <1>1 DEF Reduced
  <1>2. CASE Run(c)
    <2>1. \A f \in Families : fw'[f] = IF f = c.fam THEN Effect(c) ELSE fw[f]
      BY <1>2, RunType
    <2>2. /\ fw[c.fam] = Clear => Effect(c) = Clear
          /\ Effect(c).jumps <= fw[c.fam].jumps
          /\ Effect(c).chain => fw[c.fam].chain /\ Effect(c).by = fw[c.fam].by
      BY <1>0, RemovalEffect
    <2>3. Effect(c).jumps \in Nat
      BY <1>0, EffectType DEF Rules
    <2> QED BY <1>0, <2>1, <2>2, <2>3 DEF Reduced
  <1> QED BY <1>1, <1>2

---------------------------------------------------------------------------
(* What a stop leaves *)

\* Where the clean-up of the init script has passed nothing is left, and nothing comes
\* after it as long as no instance is wanted.
Swept ==
    ~crossed /\ "made late" \notin spoiled /\ "left" \notin spoiled /\ ~wanted =>
        /\ Resting => \A f \in Families : fw[f] = Clear
        /\ \A s \in Scripts, g \in Fams : script[s] # Idle =>
              /\ script[s].pos > CN * g => fw[Order[g]] = Clear
              /\ tool # "nft" /\ script[s].pos = 3 * g => fw[Order[g]].jumps = 0

\* A command of the script that works.
LEMMA Cleaned ==
    ASSUME Typed, NEW g \in Fams, NEW o \in 1..CN, NEW c,
           c.op = ScriptOps[o], c.fam = Order[g], c.by = 0, c.op \in Removal,
           fw' = [fw EXCEPT ![c.fam] = Effect(c)]
    PROVE  /\ Reduced
           /\ \A f \in Families : f # Order[g] => fw'[f] = fw[f]
           /\ ScriptOps[o] = "delete" => fw'[Order[g]] = Clear
           /\ ScriptOps[o] = "unjump-all" => fw'[Order[g]].jumps = 0
           /\ ScriptOps[o] = "unchain" /\ fw[Order[g]].jumps = 0 => fw'[Order[g]] = Clear
  <1>1. Run(c)
    BY DEF Run
  <1>2. c.fam \in Families /\ c.by \in {0} \cup Procs /\ c.op \in Removal \cup MadeOps
    BY Families1
  <1>3. \A f \in Families : fw'[f] = IF f = c.fam THEN Effect(c) ELSE fw[f]
    BY <1>1, <1>2, RunType DEF Typed
  <1>4. Reduced
    BY <1>1, <1>2, RemovalReduces DEF Typed
  <1>5. fw[c.fam] \in Rules
    BY <1>2 DEF Typed, TypeOK
  <1>6. c.op = "delete" => Effect(c) = Clear
    BY DEF Effect
  <1>7. c.op = "unjump-all" => Effect(c).jumps = 0
    BY <1>5 DEF Effect, Rules
  <1>8. c.op = "unchain" /\ fw[c.fam].jumps = 0 => Effect(c) = Clear
    BY DEF Effect
  <1> QED BY <1>2, <1>3, <1>4, <1>6, <1>7, <1>8

LEMMA SweptScript ==
    ASSUME Typed, Control, Swept, NEW s \in Scripts, ScriptClean(s)
    PROVE  Swept'
  <1>0. /\ UNCHANGED <<tool, wanted, crossed>> /\ script[s] # Idle /\ script'[s] # Idle
        /\ script'[s].pos = script[s].pos + 1 /\ script[s].pos \in Nat
        /\ \A r \in Scripts \ {s} : script'[r] = script[r]
    BY ScriptMoves, ScriptAt DEF ScriptClean, procd
  <1>1. CASE "left" \in spoiled' \/ crossed \/ wanted
    BY <1>0, <1>1 DEF Swept
  <1>2. CASE "left" \notin spoiled' /\ ~crossed /\ ~wanted
    <2>1. PICK c : c = Cmd(ScriptOps, script[s].pos, 0)
      OBVIOUS
    <2>2. PICK g \in Fams, o \in 1..CN :
              /\ script[s].pos = CN * (g - 1) + o
              /\ c.op = ScriptOps[o] /\ c.fam = Order[g] /\ c.by = 0 /\ c.op \in Removal
      BY <2>1, ScriptCommand
    <2>3. fw' = [fw EXCEPT ![c.fam] = Effect(c)] /\ spoiled' = spoiled
      <3>1. \/ Run(c) /\ UNCHANGED <<fails, spoiled>>
            \/ spoiled' = spoiled \cup {"left"}
        BY <2>1 DEF ScriptClean
      <3>2. "left" \in spoiled \cup {"left"}
        OBVIOUS
      <3>3. spoiled' # spoiled \cup {"left"}
        BY <1>2, <3>2
      <3> QED BY <3>1, <3>3 DEF Run
    <2>4. /\ Reduced
          /\ \A f \in Families : f # Order[g] => fw'[f] = fw[f]
          /\ ScriptOps[o] = "delete" => fw'[Order[g]] = Clear
          /\ ScriptOps[o] = "unjump-all" => fw'[Order[g]].jumps = 0
          /\ ScriptOps[o] = "unchain" /\ fw[Order[g]].jumps = 0 => fw'[Order[g]] = Clear
      BY <2>2, <2>3, Cleaned
    <2>5. ASSUME "made late" \notin spoiled, "left" \notin spoiled, NEW h \in Fams
          PROVE  /\ script'[s].pos > CN * h => fw'[Order[h]] = Clear
                 /\ tool # "nft" /\ script'[s].pos = 3 * h => fw'[Order[h]].jumps = 0
      <3>1. /\ script[s].pos > CN * h => fw[Order[h]] = Clear
            /\ tool # "nft" /\ script[s].pos = 3 * h => fw[Order[h]].jumps = 0
        BY <1>0, <1>2, <2>5 DEF Swept
      <3>2. g \in Nat \ {0} /\ h \in Nat \ {0} /\ Order[h] \in Families /\ Order[g] \in Families
        BY Families1
      <3>3. Order[h] = Order[g] => h = g
        BY DaemonAssumption DEF Fams
      <3>4. /\ fw[Order[h]] = Clear => fw'[Order[h]] = Clear
            /\ fw[Order[h]].jumps = 0 => fw'[Order[h]].jumps = 0
        BY <2>4, <3>2 DEF Reduced
      <3>5. script'[s].pos = script[s].pos + 1 /\ script[s].pos \in Nat
        BY <1>0
      <3>6. CASE tool = "nft"
        <4>1. CN = 1 /\ ScriptOps[o] = "delete" /\ script[s].pos = g
          BY <2>2, <3>2, <3>6 DEF CN, ScriptOps
        <4>2. script'[s].pos > h => script[s].pos > h \/ h = g
          BY <3>2, <3>5, <4>1
        <4>3. script'[s].pos > h => fw'[Order[h]] = Clear
          BY <2>4, <3>1, <3>4, <4>1, <4>2, <3>2
        <4> QED BY <3>2, <3>6, <4>1, <4>3
      <3>7. CASE tool = "iptables"
        <4>1. CN = 3 /\ ScriptOps = <<"flush", "unjump-all", "unchain">>
          BY <3>7 DEF CN, ScriptOps
        <4>2. script[s].pos = 3 * (g - 1) + o /\ o \in 1..3
          BY <2>2, <4>1
        <4>3. script'[s].pos > 3 * h => script[s].pos > 3 * h \/ (script[s].pos = 3 * h /\ h = g /\ o = 3)
          BY <3>2, <3>5, <4>2
        <4>4. script'[s].pos = 3 * h => h = g /\ o = 2
          BY <3>2, <3>5, <4>2
        <4>5. script'[s].pos > 3 * h => fw'[Order[h]] = Clear
          BY <2>4, <3>1, <3>4, <4>1, <4>3, <3>7
        <4>6. script'[s].pos = 3 * h => fw'[Order[h]].jumps = 0
          BY <2>4, <4>1, <4>4
        <4> QED BY <4>1, <4>5, <4>6
      <3> QED BY <3>6, <3>7, Tool DEF Typed
    <2>6. CN' = CN /\ tool' = tool /\ ~Resting'
      BY <1>0 DEF CN, Resting
    <2>7. \A r \in Scripts : script'[r] # Idle => r = s
      BY <1>0, <1>2 DEF Control, Alone
    <2> QED BY <2>3, <2>5, <2>6, <2>7 DEF Swept
  <1> QED BY <1>1, <1>2

LEMMA SweptStep == Typed /\ Control /\ Swept /\ [Next]_vars => Swept'
  <1> SUFFICES ASSUME Typed, Control, Swept, [Next]_vars
               PROVE  Swept'
    OBVIOUS
  <1>0. \A g \in Fams : Order[g] \in Families
    BY Families1
  <1>1. ASSUME UNCHANGED <<tool, wanted, script, crossed>>, spoiled \subseteq spoiled', wanted \/ Reduced
        PROVE  Swept'
    BY <1>0, <1>1 DEF Swept, Resting, Reduced, CN
  <1>2. ASSUME UNCHANGED <<tool, wanted, script, crossed, fw>>, spoiled \subseteq spoiled'
        PROVE  Swept'
    BY <1>1, <1>2 DEF Reduced
  <1>3. ASSUME NEW i \in Procs, Reap(i)
        PROVE  Swept'
    <2>1. UNCHANGED <<tool, wanted, script, crossed>> /\ spoiled \subseteq spoiled'
      BY <1>3 DEF Reap, procd
    <2>2. ASSUME ~wanted PROVE Reduced
      <3>1. proc[i].at = "clear"
        <4>1. proc[i].at \in {"make", "clear"}
          BY <1>3 DEF Reap, Typed, Shape, ShapeOf
        <4> QED BY <2>2, <4>1, Maker, MakerHasNoHandler
      <3>2. child[i].op \in Removal /\ child[i].fam \in Families /\ child[i].by = i
        BY <1>3, <3>1, ChildCommand, Families1 DEF Reap
      <3> QED BY <1>3, <3>2, RemovalReduces DEF Reap, Typed
    <2> QED BY <1>1, <2>1, <2>2
  <1>4. ASSUME NEW i \in Procs, Step(i), ~Reap(i)
        PROVE  Swept'
    <2>1. UNCHANGED <<tool, wanted, script, crossed, fw, spoiled>>
      BY <1>4 DEF Step, Prepare, Bind, Fork, Made, SignalSetup, Check, Enter, Packet, RecvFails, Close, procd
    <2> QED BY <1>2, <2>1
  <1>5. ASSUME NEW i \in Procs, SigKill(i) \/ Crash(i) \/ Start(i)
        PROVE  Swept'
    BY <1>2, <1>5 DEF SigKill, Crash, Start, procd
  <1>6. ASSUME NEW c \in stray, StrayEnds(c)
        PROVE  Swept'
    <2>1. UNCHANGED <<tool, wanted, script, crossed>> /\ spoiled \subseteq spoiled'
      BY <1>6 DEF StrayEnds, procd
    <2>2. CASE c.op \in Removal
      <3>1. c.fam \in Families /\ c.by \in {0} \cup Procs /\ (Run(c) \/ fw' = fw)
        BY <1>6 DEF StrayEnds, Typed, TypeOK, Commands
      <3> QED BY <1>1, <2>1, <2>2, <3>1, RemovalReduces DEF Typed
    <2>3. CASE c.op \notin Removal
      BY <1>6, <2>3 DEF StrayEnds, Swept
    <2> QED BY <2>2, <2>3
  <1>7. ASSUME NEW s \in Scripts, NEW at \in {"stop", "clean", "start"}, ScriptKill(s, at), ~crossed'
        PROVE  Swept'
    <2>1. \A r \in Scripts \ {s} : script'[r] = Idle
      BY <1>7, ScriptAt DEF ScriptKill, Resting
    <2>2. script'[s] = [at |-> at, pos |-> 1] /\ tool' = tool
      BY <1>7, ScriptAt DEF ScriptKill
    <2>3. \A g \in Fams : ~(script'[s].pos > CN' * g) /\ script'[s].pos # 3 * g
      BY <2>2, Families1 DEF CN
    <2>4. script'[s] # Idle
      BY <2>2 DEF Idle
    <2> QED BY <2>1, <2>3, <2>4 DEF Swept, Resting
  <1>8. ASSUME NEW s \in Scripts, ScriptAgain(s) \/ ScriptPublish(s) \/ ScriptStopped(s),
               ~crossed', ~wanted', "made late" \notin spoiled', "left" \notin spoiled'
        PROVE  Swept'
    <2>1. ~ScriptClean(s)
      <3>1. script[s].pos \in Nat /\ Total(ScriptOps) \in Nat
        BY ScriptAt
      <3> QED BY <1>8, <3>1 DEF ScriptClean, ScriptAgain, ScriptPublish, ScriptStopped, CleanDone
    <2>2. /\ script[s] # Idle /\ \A o \in Scripts \ {s} : script'[o] = script[o]
          /\ script[s].pos > Total(ScriptOps) /\ script[s].pos \in Nat
          /\ ScriptAgain(s) => script'[s] # Idle /\ script'[s].pos = 1
          /\ ScriptPublish(s) \/ ScriptStopped(s) => script'[s] = Idle
      BY <1>8, <2>1, ScriptMoves, ScriptAt
    <2>3. UNCHANGED <<tool, fw>> /\ crossed' = crossed /\ spoiled \subseteq spoiled'
      BY <1>8 DEF ScriptAgain, ScriptPublish, ScriptStopped, procd_kill, SignalCur, Term
    <2>4. ~wanted /\ \A o \in Scripts : script[o] # Idle => o = s
      BY <1>8, <2>2, <2>3 DEF Control, Alone
    <2>5. \A g \in Fams : script[s].pos > CN * g
      BY <2>2, Lengths, Tool, Families1 DEF CN, Typed
    <2>6. ASSUME NEW f \in Families PROVE fw[f] = Clear
      <3>1. PICK g \in Fams : f = Order[g]
        BY Families1
      <3> QED BY <1>8, <2>2, <2>3, <2>4, <2>5, <3>1 DEF Swept
    <2>7. \A o \in Scripts : script'[o] # Idle => script'[o].pos = 1
      BY <1>8, <2>2, <2>4
    <2>8. \A g \in Fams : ~(1 > CN' * g) /\ 1 # 3 * g
      BY Families1 DEF CN
    <2> QED BY <2>3, <2>6, <2>7, <2>8 DEF Swept
  <1>9. CASE UNCHANGED vars
    BY <1>2, <1>9 DEF vars, procd
  <1>10. CASE crossed' \/ wanted' \/ "made late" \in spoiled' \/ "left" \in spoiled'
    BY <1>10 DEF Swept
  <1> QED BY <1>3, <1>4, <1>5, <1>6, <1>7, <1>8, <1>9, <1>10, SweptScript DEF Next

LEMMA InitControl == Init => Control
  BY DEF Init, Control, Alone, New, Alive, Ended, Idle

\* tf_cleanup_firewall_state of the init scripts: after a stop that no other operation ran
\* beside nothing is left of the rules, however many processes the script, procd and kills
\* have ended and whatever they were at, unless one of its commands failed or a killed
\* process's set-up command ended after it.
THEOREM NothingLeft == Spec => []StopLeavesNothing
  <1>1. Init => Swept
    BY DEF Init, Swept, Idle
  <1>2. Typed /\ Swept => StopLeavesNothing
    BY DEF Swept, StopLeavesNothing
  <1> QED BY <1>1, <1>2, InitTyped, InitControl, TypedStep, ControlStep, SweptStep, PTL DEF Spec

---------------------------------------------------------------------------
(* Who reads what the rules send *)

Sound == "unremoved" \notin spoiled /\ "made late" \notin spoiled

\* A chain is its maker's, who holds the queue until it has passed the chain in its
\* tear-down, and one jump is all that leads there, so that the tear-down removes it.
Fed(g) ==
    /\ ~fw[Order[g]].chain => fw[Order[g]] = Clear
    /\ fw[Order[g]].jumps <= 1
    /\ \A i \in Procs :
        /\ fw[Order[g]].chain /\ fw[Order[g]].by = i =>
              proc[i].at \in Holding \cup {"killed"} /\ (proc[i].at = "clear" => proc[i].pos <= CN * g)
        /\ tool # "nft" /\ proc[i].at = "make" /\ proc[i].pos = 7 * (g - 1) + 5 => fw[Order[g]].jumps = 0
        /\ tool # "nft" /\ proc[i].at = "clear" /\ proc[i].pos = 3 * g => fw[Order[g]].jumps = 0
Listener == Sound => \A g \in Fams : Fed(g)

\* Where a process may go while its rules stay as they are.
Moves(j) ==
    \/ proc'[j].at = proc[j].at /\ proc'[j].pos = proc[j].pos
    \/ /\ proc'[j].pos = 1 \/ proc'[j].at \notin {"make", "clear"}
       /\ \/ proc[j].at \notin Holding \cup {"killed"}
          \/ proc'[j].at \in Holding \cup {"killed"}
          \/ \A f \in Families : ~(fw[f].chain /\ fw[f].by = j)

LEMMA ListenerMoves ==
    ASSUME Typed, Listener, UNCHANGED <<tool, fw>>, spoiled \subseteq spoiled',
           Sound' => \A j \in Procs : Moves(j)
    PROVE  Listener'
  <1> SUFFICES ASSUME Sound', NEW g \in Fams PROVE Fed(g)'
    BY DEF Listener
  <1>1. Fed(g) /\ \A j \in Procs : Moves(j)
    BY DEF Listener, Sound
  <1>2. g \in Nat \ {0} /\ Order[g] \in Families /\ CN' = CN /\ CN \in {1, 3}
    BY Families1 DEF CN
  <1>3. ~fw'[Order[g]].chain => fw'[Order[g]] = Clear
    BY <1>1 DEF Fed
  <1>4. fw'[Order[g]].jumps <= 1
    BY <1>1 DEF Fed
  <1>5. ASSUME NEW i \in Procs
        PROVE  /\ fw'[Order[g]].chain /\ fw'[Order[g]].by = i =>
                    proc'[i].at \in Holding \cup {"killed"} /\ (proc'[i].at = "clear" => proc'[i].pos <= CN' * g)
               /\ tool' # "nft" /\ proc'[i].at = "make" /\ proc'[i].pos = 7 * (g - 1) + 5 => fw'[Order[g]].jumps = 0
               /\ tool' # "nft" /\ proc'[i].at = "clear" /\ proc'[i].pos = 3 * g => fw'[Order[g]].jumps = 0
    <2>1. Moves(i)
      BY <1>1, <1>5
    <2>2. 1 <= CN * g /\ 1 # 7 * (g - 1) + 5 /\ 1 # 3 * g
      BY <1>2
    <2>3. CASE proc'[i].at = proc[i].at /\ proc'[i].pos = proc[i].pos
      BY <1>1, <1>2, <1>5, <2>3 DEF Fed
    <2>4. CASE proc'[i].pos = 1 \/ proc'[i].at \notin {"make", "clear"}
      <3>1. CASE proc'[i].at \in Holding \cup {"killed"}
        BY <1>2, <2>2, <2>4, <3>1
      <3>2. CASE ~(fw[Order[g]].chain /\ fw[Order[g]].by = i)
        BY <1>2, <2>2, <2>4, <3>2
      <3>3. CASE proc[i].at \notin Holding \cup {"killed"}
        BY <1>1, <1>5, <3>2, <3>3 DEF Fed
      <3> QED BY <1>2, <2>1, <2>3, <3>1, <3>2, <3>3 DEF Moves
    <2> QED BY <2>1, <2>3, <2>4 DEF Moves
  <1> QED BY <1>3, <1>4, <1>5 DEF Fed

\* A removal that is not a process's own step.
LEMMA ListenerReduced ==
    ASSUME Typed, Listener, UNCHANGED <<tool, proc>>, spoiled \subseteq spoiled', Sound' => fw' \in [Families -> Rules],
           Sound' => Reduced,
           Sound' => \A f \in Families : /\ fw'[f].jumps <= fw[f].jumps
                                         /\ fw'[f].chain => fw[f].chain /\ fw'[f].by = fw[f].by
                                         /\ ~fw'[f].chain => fw'[f] = Clear \/ ~fw[f].chain
    PROVE  Listener'
  <1> SUFFICES ASSUME Sound', NEW g \in Fams PROVE Fed(g)'
    BY DEF Listener
  <1>1. Fed(g) /\ Order[g] \in Families /\ CN' = CN
    BY Families1 DEF Listener, Sound, CN
  <1>2. fw[Order[g]] \in Rules /\ fw'[Order[g]] \in Rules
    BY <1>1 DEF Typed, TypeOK
  <1>3. /\ fw'[Order[g]].jumps <= fw[Order[g]].jumps
        /\ fw'[Order[g]].chain => fw[Order[g]].chain /\ fw'[Order[g]].by = fw[Order[g]].by
        /\ fw[Order[g]].jumps = 0 => fw'[Order[g]].jumps = 0
        /\ fw[Order[g]] = Clear => fw'[Order[g]] = Clear
        /\ ~fw'[Order[g]].chain => fw'[Order[g]] = Clear \/ ~fw[Order[g]].chain
    BY <1>1 DEF Reduced
  <1>4. fw'[Order[g]].jumps <= 1
    BY <1>1, <1>2, <1>3 DEF Fed, Rules
  <1>5. ~fw'[Order[g]].chain => fw'[Order[g]] = Clear
    BY <1>1, <1>3 DEF Fed
  <1> QED BY <1>1, <1>3, <1>4, <1>5 DEF Fed

\* What the removals of a process do, one by one.
LEMMA Unmake ==
    ASSUME NEW c, c.op \in Removal, fw[c.fam] \in Rules
    PROVE  /\ ~Effect(c).chain => Effect(c) = Clear \/ ~fw[c.fam].chain
           /\ c.op = "delete" => Effect(c) = Clear
           /\ c.op = "unjump" /\ fw[c.fam].jumps <= 1 => Effect(c).jumps = 0
           /\ c.op = "unchain" /\ fw[c.fam].jumps = 0 => Effect(c) = Clear
  <1> DEFINE s == fw[c.fam]
             e == Effect(c)
  <1>1. c.op = "delete" => e = Clear
    BY DEF Effect
  <1>2. c.op = "unchain" => e = Clear \/ e = s
    BY DEF Effect
  <1>3. c.op = "unchain" /\ s.jumps = 0 => e = Clear
    BY DEF Effect
  <1>4. ASSUME c.op = "flush" PROVE e.chain = s.chain
    <2>1. e = [s EXCEPT !.full = FALSE, !.hook = FALSE]
      BY <1>4 DEF Effect
    <2> HIDE DEF e, s
    <2> QED BY <2>1 DEF Rules
  <1>5. ASSUME c.op = "unjump" PROVE e.chain = s.chain /\ (s.jumps <= 1 => e.jumps = 0)
    <2>1. e = [s EXCEPT !.jumps = IF s.jumps = 0 THEN 0 ELSE s.jumps - 1]
      BY <1>5 DEF Effect
    <2> HIDE DEF e, s
    <2> QED BY <2>1 DEF Rules, s
  <1>6. ASSUME c.op = "unjump-all" PROVE e.chain = s.chain
    <2>1. e = [s EXCEPT !.jumps = 0]
      BY <1>6 DEF Effect
    <2> HIDE DEF e, s
    <2> QED BY <2>1 DEF Rules, s
  <1>7. c.op = "unchain" => (~e.chain => e = Clear \/ ~s.chain)
    <2>1. c.op = "unchain" => e = Clear \/ e = s
      BY <1>2
    <2> HIDE DEF e, s
    <2> QED BY <2>1
  <1> HIDE DEF e, s
  <1>8. ~e.chain => e = Clear \/ ~s.chain
    BY <1>1, <1>4, <1>5, <1>6, <1>7 DEF Removal
  <1> QED BY <1>1, <1>3, <1>5, <1>8 DEF e, s

\* What the commands of a set-up do, one by one.
LEMMA Make ==
    ASSUME NEW c, c.op \in MadeOps, Possible(c), fw[c.fam] \in Rules
    PROVE  /\ Effect(c).chain
           /\ c.op = "create" => Effect(c).jumps = 1 /\ Effect(c).full /\ Effect(c).by = c.by
           /\ c.op = "chain" => ~fw[c.fam].chain /\ Effect(c).jumps = fw[c.fam].jumps /\ Effect(c).by = c.by
           /\ c.op # "chain" /\ c.op # "create" => fw[c.fam].chain /\ Effect(c).by = fw[c.fam].by
           /\ c.op = "jump" => Effect(c).jumps = fw[c.fam].jumps + 1
           /\ c.op = "fill" => Effect(c).jumps = fw[c.fam].jumps /\ Effect(c).full
           /\ c.op = "hook" => Effect(c).jumps = fw[c.fam].jumps /\ Effect(c).full = fw[c.fam].full /\ Effect(c).hook
  <1> DEFINE s == fw[c.fam]
             e == Effect(c)
  <1>0. s \in Rules
    OBVIOUS
  <1>1. ASSUME c.op = "create" PROVE e.chain /\ e.jumps = 1 /\ e.full /\ e.by = c.by
    <2>1. e = [s EXCEPT !.chain = TRUE, !.jumps = 1, !.full = TRUE, !.by = c.by]
      BY <1>1 DEF Effect
    <2> HIDE DEF e, s
    <2> QED BY <1>0, <2>1 DEF Rules
  <1>2. ASSUME c.op = "chain" PROVE ~s.chain /\ e.chain /\ e.jumps = s.jumps /\ e.by = c.by
    <2>1. e = [s EXCEPT !.chain = TRUE, !.by = c.by]
      BY <1>2 DEF Effect
    <2>2. ~s.chain
      BY <1>2 DEF Possible, Removal
    <2> HIDE DEF e, s
    <2> QED BY <1>0, <2>1, <2>2 DEF Rules
  <1>3. ASSUME c.op = "jump" PROVE s.chain /\ e.chain /\ e.jumps = s.jumps + 1 /\ e.by = s.by
    <2>1. e = [s EXCEPT !.jumps = s.jumps + 1]
      BY <1>3 DEF Effect
    <2>2. s.chain
      BY <1>3 DEF Possible, Removal
    <2> HIDE DEF e, s
    <2> QED BY <1>0, <2>1, <2>2 DEF Rules
  <1>4. ASSUME c.op = "fill" PROVE s.chain /\ e.chain /\ e.jumps = s.jumps /\ e.full /\ e.by = s.by
    <2>1. e = [s EXCEPT !.full = TRUE]
      BY <1>4 DEF Effect
    <2>2. s.chain
      BY <1>4 DEF Possible, Removal
    <2> HIDE DEF e, s
    <2> QED BY <1>0, <2>1, <2>2 DEF Rules
  <1>5. ASSUME c.op = "hook"
        PROVE  s.chain /\ e.chain /\ e.jumps = s.jumps /\ e.full = s.full /\ e.hook /\ e.by = s.by
    <2>1. e = [s EXCEPT !.hook = TRUE]
      BY <1>5 DEF Effect
    <2>2. s.chain
      BY <1>5 DEF Possible, Removal
    <2> HIDE DEF e, s
    <2> QED BY <1>0, <2>1, <2>2 DEF Rules
  <1> HIDE DEF e, s
  <1>6. e.chain /\ (c.op # "chain" /\ c.op # "create" => s.chain /\ e.by = s.by)
    BY <1>1, <1>2, <1>3, <1>4, <1>5 DEF MadeOps
  <1> QED BY <1>1, <1>2, <1>3, <1>4, <1>5, <1>6 DEF e, s

\* How a command ends for the process that waits for it, when no removal fails.
LEMMA Reaped ==
    ASSUME Typed, NEW i \in Procs, Reap(i), "unremoved" \notin spoiled'
    PROVE  \E g \in Fams, c \in {child[i]} :
        /\ c = child[i] /\ c.fam = Order[g] /\ c.by = i
        /\ UNCHANGED <<tool, wanted, script, crossed>> /\ spoiled' = spoiled /\ queue = i
        /\ \A j \in Procs \ {i} : proc'[j] = proc[j] /\ proc[j].at \notin Holding
        /\ proc'[i].handler = proc[i].handler /\ proc'[i].exit = proc[i].exit
        /\ \/ /\ proc[i].at = "make" /\ proc'[i].at = "clear" /\ proc'[i].pos = 1 /\ fw' = fw
           \/ /\ Possible(c) /\ \A f \in Families : fw'[f] = IF f = Order[g] THEN Effect(c) ELSE fw[f]
              /\ proc'[i].at = proc[i].at /\ proc'[i].pos = proc[i].pos + 1
              /\ \/ proc[i].at = "clear" /\ c.op \in Removal /\
                       \E o \in 1..CN : proc[i].pos = CN * (g - 1) + o /\ c.op = ClearOps[o]
                 \/ proc[i].at = "make" /\ c.op \in Removal \cup MadeOps /\
                       \E o \in 1..MN : proc[i].pos = MN * (g - 1) + o /\ c.op = MakeAll[o]
  <1>1. /\ child[i] # None /\ UNCHANGED <<tool, wanted, script, crossed>> /\ proc[i].at \in {"make", "clear"} /\ queue = i
        /\ \A j \in Procs \ {i} : proc[j].at \notin Holding
    BY DEF Reap, procd, Typed, Shape, ShapeOf, Holding
  <1>2. PICK c : c = child[i]
    OBVIOUS
  <1>3. PICK g \in Fams :
              /\ c.fam = Order[g] /\ c.by = i
              /\ proc[i].at = "clear" => c.op \in Removal /\
                    \E o \in 1..CN : proc[i].pos = CN * (g - 1) + o /\ c.op = ClearOps[o]
              /\ proc[i].at = "make" => c.op \in Removal \cup MadeOps /\
                    \E o \in 1..MN : proc[i].pos = MN * (g - 1) + o /\ c.op = MakeAll[o]
    BY <1>1, <1>2, ChildCommand
  <1>4. c.fam \in Families /\ c.by \in {0} \cup Procs /\ c.op \in Removal \cup MadeOps
    BY <1>1, <1>3, Families1
  <1>5. \/ Possible(c) /\ Run(c) /\ spoiled' = spoiled /\ proc' = [proc EXCEPT ![i].pos = @ + 1]
        \/ fw' = fw /\ c.op \notin Removal /\ AfterMake(i) /\ spoiled' = spoiled
    <2>1. \/ Possible(c) /\ Run(c) /\ spoiled' = spoiled /\ proc' = [proc EXCEPT ![i].pos = @ + 1]
          \/ fw' = fw /\ IF c.op \in Removal
                         THEN spoiled' = spoiled \cup {"unremoved"}
                         ELSE AfterMake(i) /\ spoiled' = spoiled
      BY <1>2 DEF Reap
    <2>2. "unremoved" \in spoiled \cup {"unremoved"}
      OBVIOUS
    <2>3. spoiled' # spoiled \cup {"unremoved"}
      BY <2>2
    <2> QED BY <2>1, <2>3
  <1>6. proc \in [Procs -> ProcType] /\ proc[i] \in ProcType
    BY DEF Typed, TypeOK, ProcType
  <1>7. CASE Possible(c) /\ Run(c) /\ spoiled' = spoiled /\ proc' = [proc EXCEPT ![i].pos = @ + 1]
    <2>1. \A f \in Families : fw'[f] = IF f = Order[g] THEN Effect(c) ELSE fw[f]
      BY <1>3, <1>4, <1>7, RunType DEF Typed
    <2>2. /\ \A j \in Procs \ {i} : proc'[j] = proc[j]
          /\ proc'[i].handler = proc[i].handler /\ proc'[i].exit = proc[i].exit
          /\ proc'[i].at = proc[i].at /\ proc'[i].pos = proc[i].pos + 1
      BY <1>6, <1>7 DEF ProcType
    <2> QED BY <1>1, <1>2, <1>3, <1>7, <2>1, <2>2
  <1>8. CASE fw' = fw /\ c.op \notin Removal /\ AfterMake(i) /\ spoiled' = spoiled
    <2>1. proc[i].at = "make"
      BY <1>1, <1>3, <1>8
    <2>2. /\ \A j \in Procs \ {i} : proc'[j] = proc[j]
          /\ proc'[i].at = "clear" /\ proc'[i].pos = 1
          /\ proc'[i].handler = proc[i].handler /\ proc'[i].exit = proc[i].exit
      BY <1>1, <1>8, GotoType DEF AfterMake, Typed, Places
    <2> QED BY <1>1, <1>2, <1>3, <1>8, <2>1, <2>2
  <1> QED BY <1>5, <1>7, <1>8

LEMMA ListForms ==
    /\ tool = "nft" =>
          /\ CN = 1 /\ MN = 3 /\ ClearOps = <<"delete">>
          /\ MakeAll[1] = "delete" /\ MakeAll[2] = "create" /\ MakeAll[3] = "hook"
    /\ tool = "iptables" =>
          /\ CN = 3 /\ MN = 7 /\ ClearOps = <<"flush", "unjump", "unchain">>
          /\ MakeAll[1] = "flush" /\ MakeAll[2] = "unjump" /\ MakeAll[3] = "unchain"
          /\ MakeAll[4] = "chain" /\ MakeAll[5] = "jump" /\ MakeAll[6] = "fill" /\ MakeAll[7] = "hook"
  <1>1. CASE tool = "nft"
    <2>1. ClearOps = <<"delete">> /\ MakeOps = <<"create", "hook">> /\ MakeAll = ClearOps \o MakeOps
      BY <1>1 DEF ClearOps, MakeOps, MakeAll
    <2>2. MakeAll = <<"delete">> \o <<"create", "hook">>
      BY <2>1
    <2>3. MakeAll[1] = "delete" /\ MakeAll[2] = "create" /\ MakeAll[3] = "hook"
      BY <2>2
    <2> QED BY <1>1, <2>1, <2>3 DEF CN, MN
  <1>2. CASE tool = "iptables"
    <2>1. /\ ClearOps = <<"flush", "unjump", "unchain">> /\ MakeOps = <<"chain", "jump", "fill", "hook">>
          /\ MakeAll = ClearOps \o MakeOps
      BY <1>2 DEF ClearOps, MakeOps, MakeAll
    <2>2. MakeAll = <<"flush", "unjump", "unchain">> \o <<"chain", "jump", "fill", "hook">>
      BY <2>1
    <2>3. MakeAll[1] = "flush" /\ MakeAll[2] = "unjump" /\ MakeAll[3] = "unchain"
      BY <2>2
    <2>4. MakeAll[4] = "chain" /\ MakeAll[5] = "jump" /\ MakeAll[6] = "fill" /\ MakeAll[7] = "hook"
      BY <2>2
    <2> QED BY <1>2, <2>1, <2>3, <2>4 DEF CN, MN
  <1> QED BY <1>1, <1>2

LEMMA ListenerReap == ASSUME Typed, Listener, NEW i \in Procs, Reap(i) PROVE Listener'
  <1> SUFFICES ASSUME Sound' PROVE Listener'
    BY DEF Listener
  <1>1. PICK g \in Fams, c \in {child[i]} :
        /\ c = child[i] /\ c.fam = Order[g] /\ c.by = i
        /\ UNCHANGED <<tool, wanted, script, crossed>> /\ spoiled' = spoiled /\ queue = i
        /\ \A j \in Procs \ {i} : proc'[j] = proc[j] /\ proc[j].at \notin Holding
        /\ proc'[i].handler = proc[i].handler /\ proc'[i].exit = proc[i].exit
        /\ \/ /\ proc[i].at = "make" /\ proc'[i].at = "clear" /\ proc'[i].pos = 1 /\ fw' = fw
           \/ /\ Possible(c) /\ \A f \in Families : fw'[f] = IF f = Order[g] THEN Effect(c) ELSE fw[f]
              /\ proc'[i].at = proc[i].at /\ proc'[i].pos = proc[i].pos + 1
              /\ \/ proc[i].at = "clear" /\ c.op \in Removal /\
                       \E o \in 1..CN : proc[i].pos = CN * (g - 1) + o /\ c.op = ClearOps[o]
                 \/ proc[i].at = "make" /\ c.op \in Removal \cup MadeOps /\
                       \E o \in 1..MN : proc[i].pos = MN * (g - 1) + o /\ c.op = MakeAll[o]
    BY Reaped DEF Sound
  <1>2. CASE proc[i].at = "make" /\ proc'[i].at = "clear" /\ proc'[i].pos = 1 /\ fw' = fw
    <2>1. \A j \in Procs : Moves(j)
      BY <1>1, <1>2 DEF Moves, Holding
    <2>2. UNCHANGED <<tool, fw>> /\ spoiled \subseteq spoiled'
      BY <1>1, <1>2
    <2> QED BY <2>1, <2>2, ListenerMoves
  <1>3. ASSUME Possible(c), \A f \in Families : fw'[f] = IF f = Order[g] THEN Effect(c) ELSE fw[f],
               proc'[i].at = proc[i].at, proc'[i].pos = proc[i].pos + 1,
               \/ proc[i].at = "clear" /\ c.op \in Removal /\
                       \E o \in 1..CN : proc[i].pos = CN * (g - 1) + o /\ c.op = ClearOps[o]
               \/ proc[i].at = "make" /\ c.op \in Removal \cup MadeOps /\
                       \E o \in 1..MN : proc[i].pos = MN * (g - 1) + o /\ c.op = MakeAll[o],
               NEW h \in Fams
        PROVE  Fed(h)'
    <2>1. Fed(g) /\ Fed(h)
      BY <1>1 DEF Listener, Sound
    <2>2. /\ g \in Nat \ {0} /\ h \in Nat \ {0} /\ Order[h] \in Families /\ Order[g] \in Families
          /\ CN' = CN /\ tool' = tool
      BY <1>1, Families1 DEF CN
    <2>3. Order[h] = Order[g] => h = g
      BY DaemonAssumption DEF Fams
    <2>4. fw[Order[g]] \in Rules /\ fw[Order[h]] \in Rules
      BY <2>2 DEF Typed, TypeOK
    <2>5. h # g => fw'[Order[h]] = fw[Order[h]]
      BY <1>3, <2>2, <2>3
    <2>6. fw'[Order[g]] = Effect(c)
      BY <1>3, <2>2
    <2>7. c.op \in Removal => /\ Effect(c).jumps <= fw[Order[g]].jumps
                              /\ Effect(c).chain => fw[Order[g]].chain /\ Effect(c).by = fw[Order[g]].by
                              /\ fw[Order[g]] = Clear => Effect(c) = Clear
                              /\ ~Effect(c).chain => Effect(c) = Clear \/ ~fw[Order[g]].chain
                              /\ c.op = "delete" => Effect(c) = Clear
                              /\ c.op = "unjump" /\ fw[Order[g]].jumps <= 1 => Effect(c).jumps = 0
                              /\ c.op = "unchain" /\ fw[Order[g]].jumps = 0 => Effect(c) = Clear
      BY <1>1, <2>4, RemovalEffect, Unmake
    <2>8. c.op \in MadeOps =>
             /\ Effect(c).chain
             /\ c.op = "create" => Effect(c).jumps = 1 /\ Effect(c).by = i
             /\ c.op = "chain" => ~fw[Order[g]].chain /\ Effect(c).jumps = fw[Order[g]].jumps /\ Effect(c).by = i
             /\ c.op # "chain" /\ c.op # "create" => fw[Order[g]].chain /\ Effect(c).by = fw[Order[g]].by
             /\ c.op = "jump" => Effect(c).jumps = fw[Order[g]].jumps + 1
             /\ c.op \in {"fill", "hook"} => Effect(c).jumps = fw[Order[g]].jumps
      BY <1>1, <1>3, <2>4, Make
    <2>9. c.op = "jump" => fw[Order[g]].jumps = 0
      <3>1. ASSUME c.op = "jump"
            PROVE  tool # "nft" /\ proc[i].at = "make" /\ proc[i].pos = 7 * (g - 1) + 5
        <4>1. proc[i].at = "make" /\ \E o \in 1..MN : proc[i].pos = MN * (g - 1) + o /\ c.op = MakeAll[o]
          BY <1>3, <3>1 DEF Removal
        <4> QED BY <3>1, <4>1, ListForms, Tool DEF Typed
      <3> QED BY <2>1, <3>1 DEF Fed
    <2>10. ~fw'[Order[h]].chain => fw'[Order[h]] = Clear
      BY <1>3, <2>1, <2>5, <2>6, <2>7, <2>8 DEF Fed
    <2>11. fw'[Order[h]].jumps <= 1
      <3>1. Clear.jumps = 0 /\ fw[Order[g]].jumps \in Nat /\ Effect(c).jumps \in Nat
        <4>1. c.fam \in Families /\ c.op \in Removal \cup MadeOps /\ c.by \in {0} \cup Procs
          BY <1>1, <1>3, <2>2
        <4>2. Effect(c) \in Rules
          BY <1>1, <2>4, <4>1, EffectType
        <4> QED BY <2>4, <4>2 DEF Clear, Rules
      <3>2. c.op = "chain" => fw[Order[g]].jumps = 0
        BY <2>1, <2>8, <3>1 DEF Fed, MadeOps
      <3>3. Effect(c).jumps <= 1
        BY <1>3, <2>1, <2>7, <2>8, <2>9, <3>1, <3>2 DEF Fed, MadeOps
      <3> QED BY <2>1, <2>5, <2>6, <3>3 DEF Fed
    <2>12. ASSUME NEW j \in Procs, fw'[Order[h]].chain, fw'[Order[h]].by = j, j # i
           PROVE  fw[Order[h]].chain /\ fw[Order[h]].by = j
      BY <1>3, <2>5, <2>6, <2>7, <2>8, <2>12 DEF MadeOps
    <2>13. proc[i].at \in {"make", "clear"}
      BY <1>3
    <2>14. ASSUME fw'[Order[h]].chain, fw'[Order[h]].by = i, proc[i].at = "clear"
           PROVE  proc'[i].pos <= CN * h
      <3>1. fw[Order[h]].chain /\ fw[Order[h]].by = i /\ c.op \in Removal
        BY <1>3, <2>5, <2>6, <2>7, <2>14
      <3>2. proc[i].pos <= CN * h
        BY <2>1, <2>14, <3>1 DEF Fed
      <3>3. PICK o \in 1..CN : proc[i].pos = CN * (g - 1) + o /\ c.op = ClearOps[o]
        BY <1>3, <2>14
      <3>4. CASE tool = "nft"
        <4>1. CN = 1 /\ c.op = "delete" /\ proc[i].pos = g
          BY <2>2, <3>3, <3>4, ListForms
        <4>2. h # g
          BY <2>6, <2>7, <2>14, <3>1, <4>1 DEF Clear
        <4> QED BY <1>3, <2>2, <3>2, <4>1, <4>2
      <3>5. CASE tool = "iptables"
        <4>1. CN = 3 /\ proc[i].pos = 3 * (g - 1) + o /\ o \in 1..3
          BY <3>3, <3>5, ListForms
        <4>2. ~(h = g /\ o = 3)
          <5> SUFFICES ASSUME h = g, o = 3 PROVE FALSE
            OBVIOUS
          <5>1. c.op = "unchain"
            BY <3>3, <3>5, ListForms
          <5>2. proc[i].pos = 3 * g
            BY <2>2, <4>1
          <5>3. fw[Order[g]].jumps = 0
            BY <2>1, <2>14, <3>5, <5>2 DEF Fed
          <5> QED BY <2>6, <2>7, <2>14, <3>1, <5>1, <5>3 DEF Clear
        <4> QED BY <1>3, <2>2, <3>2, <4>1, <4>2
      <3> QED BY <3>4, <3>5, Tool DEF Typed
    <2>15. ASSUME tool # "nft", proc[i].at = "make", proc'[i].pos = 7 * (h - 1) + 5
           PROVE  fw'[Order[h]].jumps = 0
      <3>1. PICK o \in 1..7 : proc[i].pos = 7 * (g - 1) + o /\ c.op = MakeAll[o]
        BY <1>3, <2>15, ListForms, Tool DEF Typed
      <3>2. h = g /\ o = 4
        BY <1>3, <2>2, <2>15, <3>1
      <3>3. c.op = "chain"
        BY <2>15, <3>1, <3>2, ListForms, Tool DEF Typed
      <3> QED BY <2>1, <2>6, <2>8, <3>2, <3>3 DEF Fed, MadeOps, Clear
    <2>16. ASSUME tool # "nft", proc[i].at = "clear", proc'[i].pos = 3 * h
           PROVE  fw'[Order[h]].jumps = 0
      <3>1. PICK o \in 1..3 : proc[i].pos = 3 * (g - 1) + o /\ c.op = ClearOps[o]
        BY <1>3, <2>16, ListForms, Tool DEF Typed
      <3>2. h = g /\ o = 2
        BY <1>3, <2>2, <2>16, <3>1
      <3>3. c.op = "unjump"
        BY <2>16, <3>1, <3>2, ListForms, Tool DEF Typed
      <3> QED BY <2>1, <2>6, <2>7, <3>2, <3>3 DEF Fed, Removal
    <2>17. ASSUME NEW j \in Procs
           PROVE  /\ fw'[Order[h]].chain /\ fw'[Order[h]].by = j =>
                        proc'[j].at \in Holding \cup {"killed"} /\ (proc'[j].at = "clear" => proc'[j].pos <= CN' * h)
                  /\ tool' # "nft" /\ proc'[j].at = "make" /\ proc'[j].pos = 7 * (h - 1) + 5 => fw'[Order[h]].jumps = 0
                  /\ tool' # "nft" /\ proc'[j].at = "clear" /\ proc'[j].pos = 3 * h => fw'[Order[h]].jumps = 0
      <3>1. CASE j = i
        BY <1>3, <2>2, <2>13, <2>14, <2>15, <2>16, <3>1 DEF Holding
      <3>2. CASE j # i
        <4>1. proc'[j] = proc[j] /\ proc[j].at \notin Holding
          BY <1>1, <2>17, <3>2
        <4> QED BY <2>1, <2>12, <2>17, <3>2, <4>1 DEF Fed, Holding
      <3> QED BY <3>1, <3>2
    <2> QED BY <2>10, <2>11, <2>17 DEF Fed
  <1> QED BY <1>1, <1>2, <1>3 DEF Listener

LEMMA GotoMoves ==
    ASSUME Typed, tool' = tool, NEW i \in Procs, NEW l \in Places, Goto(i, l),
           proc[i].at \notin Holding \cup {"killed"} \/ l \in Holding
    PROVE  \A j \in Procs : Moves(j)
  <1>1. (\A j \in Procs \ {i} : proc'[j] = proc[j]) /\ proc'[i].at = l /\ proc'[i].pos = 1
    BY GotoType DEF Typed
  <1> QED BY <1>1 DEF Moves

LEMMA EndMoves ==
    ASSUME Typed, tool' = tool, NEW i \in Procs, NEW l \in Ended, proc' = [proc EXCEPT ![i] = [New EXCEPT !.at = l]],
           \/ l = "killed"
           \/ proc[i].at \notin Holding \cup {"killed"}
           \/ \A f \in Families : ~(fw[f].chain /\ fw[f].by = i)
    PROVE  \A j \in Procs : Moves(j)
  <1>1. (\A j \in Procs \ {i} : proc'[j] = proc[j]) /\ proc'[i].at = l /\ proc'[i].pos = 1
    BY ReturnType DEF Typed
  <1> QED BY <1>1 DEF Moves

\* A process that only goes on from place to place.
LEMMA OnMoves ==
    ASSUME Typed, tool' = tool, NEW i \in Procs, NEW l \in Holding \ {"make", "clear"},
           \A j \in Procs \ {i} : proc'[j] = proc[j], proc'[i].at = l
    PROVE  \A j \in Procs : Moves(j)
  BY DEF Moves

LEMMA ListenerQuiet ==
    ASSUME Typed, Listener, NEW i \in Procs, Step(i), ~Reap(i)
    PROVE  Listener'
  <1>1. UNCHANGED <<tool, fw>> /\ spoiled \subseteq spoiled'
    BY DEF Step, Prepare, Bind, Fork, Made, SignalSetup, Check, Enter, Packet, RecvFails, Close
  <1> SUFFICES ASSUME Sound' PROVE \A j \in Procs : Moves(j)
    BY <1>1, ListenerMoves
  <1>3. proc \in [Procs -> ProcType] /\ proc[i] \in ProcType
    BY DEF Typed, TypeOK, ProcType
  <1>4. CASE Prepare(i) \/ Bind(i)
    <2>2. \/ Goto(i, "queue") /\ proc[i].at = "prepare"
          \/ Goto(i, "make")
          \/ Return(i) /\ proc[i].at \in {"prepare", "queue"}
      BY <1>4 DEF Prepare, Bind
    <2>3. {"queue", "make"} \subseteq Places /\ "make" \in Holding /\ "returned" \in Ended
          /\ "prepare" \notin Holding \cup {"killed"} /\ "queue" \notin Holding \cup {"killed"}
      BY DEF Places, Holding, Ended
    <2>4. CASE Goto(i, "queue") /\ proc[i].at = "prepare"
      BY <1>1, <2>3, <2>4, GotoMoves
    <2>5. CASE Goto(i, "make")
      BY <1>1, <2>3, <2>5, GotoMoves
    <2>6. CASE Return(i) /\ proc[i].at \in {"prepare", "queue"}
      BY <1>1, <2>3, <2>6, EndMoves DEF Return
    <2> QED BY <2>2, <2>4, <2>5, <2>6
  <1>5. CASE Fork(i)
    BY <1>5 DEF Fork, Moves
  <1>6. CASE Made(i) \/ Check(i) \/ Enter(i)
    <2>1. \E l \in Holding : Goto(i, l) /\ l \in Places
      BY <1>6 DEF Made, Check, Enter, Holding, Places
    <2> QED BY <1>1, <2>1, GotoMoves
  <1>7. CASE SignalSetup(i) \/ Packet(i) \/ RecvFails(i)
    <2>1. \/ Goto(i, "clear")
          \/ proc' = [proc EXCEPT ![i].at = "check", ![i].handler = TRUE]
          \/ proc' = [proc EXCEPT ![i].at = "check", ![i].errors = 0]
          \/ proc' = [proc EXCEPT ![i].at = "check", ![i].errors = @ + 1]
      BY <1>7 DEF SignalSetup, Packet, RecvFails
    <2>2. "clear" \in Holding /\ "clear" \in Places /\ "check" \in Holding \ {"make", "clear"}
      BY DEF Holding, Places
    <2>3. CASE Goto(i, "clear")
      BY <1>1, <2>2, <2>3, GotoMoves
    <2>4. CASE ~Goto(i, "clear")
      <3>1. (\A j \in Procs \ {i} : proc'[j] = proc[j]) /\ proc'[i].at = "check"
        BY <1>3, <2>1, <2>4 DEF ProcType
      <3> QED BY <1>1, <2>2, <3>1, OnMoves
    <2> QED BY <2>3, <2>4
  <1>8. CASE Close(i)
    <2>1. proc[i].at = "clear" /\ proc[i].pos > Total(ClearOps) /\ Return(i) /\ "returned" \in Ended
      BY <1>8 DEF Close, Typed, Shape, ShapeOf, Ended
    <2>2. ASSUME NEW f \in Families PROVE ~(fw[f].chain /\ fw[f].by = i)
      <3>1. PICK g \in Fams : f = Order[g]
        BY Families1
      <3>2. Fed(g)
        BY <1>1 DEF Listener, Sound
      <3>3. proc[i].pos \in Nat /\ proc[i].pos > CN * Len(Order) /\ g \in 1..Len(Order) /\ CN \in {1, 3}
            /\ Len(Order) \in Nat
        BY SMTT(60), <1>3, <2>1, Lengths, Tool, Families1, Totals DEF ProcType, CN, Typed
      <3>4. ~(proc[i].pos <= CN * g)
        BY <3>3
      <3> QED BY <2>1, <3>1, <3>2, <3>4 DEF Fed
    <2> QED BY <1>1, <2>1, <2>2, EndMoves DEF Return
  <1> QED BY <1>4, <1>5, <1>6, <1>7, <1>8 DEF Step

LEMMA ListenerRemoval ==
    ASSUME Typed, Typed', Listener, UNCHANGED <<tool, proc>>, spoiled \subseteq spoiled',
           NEW c, c.op \in Removal, c.fam \in Families, c.by \in {0} \cup Procs, Run(c) \/ fw' = fw
    PROVE  Listener'
  <1>1. fw' \in [Families -> Rules] /\ Reduced
    BY RemovalReduces DEF Typed, TypeOK, Rules
  <1>2. \A f \in Families : /\ fw'[f].jumps <= fw[f].jumps
                            /\ fw'[f].chain => fw[f].chain /\ fw'[f].by = fw[f].by
    BY RemovalReduces DEF Typed
  <1>3. ASSUME NEW f \in Families PROVE ~fw'[f].chain => fw'[f] = Clear \/ ~fw[f].chain
    <2>1. fw[c.fam] \in Rules /\ c.op \in Removal \cup MadeOps
      BY DEF Typed, TypeOK
    <2>2. fw' = fw \/ fw'[f] = IF f = c.fam THEN Effect(c) ELSE fw[f]
      BY <2>1, RunType DEF Typed
    <2>3. ~Effect(c).chain => Effect(c) = Clear \/ ~fw[c.fam].chain
      BY <2>1, Unmake
    <2> QED BY <2>2, <2>3
  <1> QED BY <1>1, <1>2, <1>3, ListenerReduced

LEMMA ListenerSignal ==
    ASSUME Typed, Listener, SignalCur, UNCHANGED <<tool, fw>>
    PROVE  Listener'
  <1>1. CASE UNCHANGED <<proc, spoiled>>
    BY <1>1, ListenerMoves DEF Moves
  <1>2. ASSUME cur # 0, Term(cur), Alive(cur)
        PROVE  Listener'
    <2>1. cur \in Procs
      BY <1>2 DEF Typed, TypeOK
    <2>2. CASE ~proc[cur].handler
      <3>1. spoiled' = spoiled /\ proc' = [proc EXCEPT ![cur] = [New EXCEPT !.at = "killed"]] /\ "killed" \in Ended
        BY <1>2, <2>2 DEF Term, Dies, Ended
      <3>2. \A j \in Procs : Moves(j)
        BY <2>1, <3>1, EndMoves
      <3> QED BY <3>1, <3>2, ListenerMoves
    <2>3. CASE proc[cur].handler
      <3>1. /\ spoiled' = IF child[cur] = None THEN spoiled ELSE spoiled \cup {"unremoved"}
            /\ proc' = [proc EXCEPT ![cur].exit = TRUE,
                               ![cur].at = IF @ = "recv" THEN "check" ELSE @,
                               ![cur].errors = IF proc[cur].at = "recv" THEN @ + 1 ELSE @,
                               ![cur].pos = IF child[cur] # None THEN @ + 1 ELSE @]
        BY <1>2, <2>3 DEF Term
      <3>2. proc \in [Procs -> ProcType]
        BY DEF Typed, TypeOK, ProcType
      <3>3. ASSUME child[cur] = None PROVE \A j \in Procs : Moves(j)
        <4>1. /\ \A j \in Procs \ {cur} : proc'[j] = proc[j]
              /\ proc'[cur].at = (IF proc[cur].at = "recv" THEN "check" ELSE proc[cur].at)
              /\ proc'[cur].pos = proc[cur].pos
          BY <2>1, <3>1, <3>2, <3>3 DEF ProcType
        <4> QED BY <4>1 DEF Moves, Holding
      <3>4. Sound' => child[cur] = None
        BY <3>1 DEF Sound
      <3>5. spoiled \subseteq spoiled'
        BY <3>1
      <3> QED BY <3>3, <3>4, <3>5, ListenerMoves
    <2> QED BY <2>2, <2>3
  <1> QED BY <1>1, <1>2 DEF SignalCur, Term

LEMMA ListenerStep == Typed /\ Typed' /\ Listener /\ [Next]_vars => Listener'
  <1> SUFFICES ASSUME Typed, Typed', Listener, [Next]_vars
               PROVE  Listener'
    OBVIOUS
  <1>3. ASSUME NEW i \in Procs, Step(i)
        PROVE  Listener'
    BY <1>3, ListenerReap, ListenerQuiet
  <1>4. ASSUME NEW i \in Procs, SigKill(i) \/ Crash(i)
        PROVE  Listener'
    <2>1. UNCHANGED <<tool, fw, spoiled>> /\ proc' = [proc EXCEPT ![i] = [New EXCEPT !.at = "killed"]]
      BY <1>4 DEF SigKill, Crash, Dies
    <2>2. "killed" \in Ended
      BY DEF Ended
    <2>3. \A j \in Procs : Moves(j)
      BY <2>1, <2>2, EndMoves
    <2> QED BY <2>1, <2>3, ListenerMoves
  <1>5. ASSUME NEW i \in Procs, Start(i)
        PROVE  Listener'
    <2>1. UNCHANGED <<tool, fw, spoiled>> /\ proc' = [proc EXCEPT ![i].at = "prepare"] /\ proc[i].at = "none"
      BY <1>5 DEF Start
    <2>2. proc \in [Procs -> ProcType]
      BY DEF Typed, TypeOK, ProcType
    <2>3. (\A j \in Procs \ {i} : proc'[j] = proc[j]) /\ proc'[i].at = "prepare"
      BY <2>1, <2>2 DEF ProcType
    <2>4. \A j \in Procs : Moves(j)
      BY <2>1, <2>3 DEF Moves, Holding
    <2> QED BY <2>1, <2>4, ListenerMoves
  <1>6. ASSUME NEW c \in stray, StrayEnds(c)
        PROVE  Listener'
    <2>1. UNCHANGED <<tool, proc>> /\ spoiled \subseteq spoiled'
      BY <1>6 DEF StrayEnds
    <2>2. CASE c.op \in Removal
      <3>1. c.fam \in Families /\ c.by \in {0} \cup Procs /\ (Run(c) \/ fw' = fw)
        BY <1>6 DEF StrayEnds, Typed, TypeOK, Commands
      <3> QED BY <2>1, <2>2, <3>1, ListenerRemoval
    <2>3. CASE c.op \notin Removal
      BY <1>6, <2>3 DEF StrayEnds, Listener, Sound
    <2> QED BY <2>2, <2>3
  <1>7. ASSUME NEW s \in Scripts, NEW at \in {"stop", "clean", "start"}, ScriptKill(s, at)
        PROVE  Listener'
    BY <1>7, ListenerSignal DEF ScriptKill, procd_kill
  <1>8. ASSUME NEW s \in Scripts, ScriptClean(s)
        PROVE  Listener'
    <2>1. PICK c : c = Cmd(ScriptOps, script[s].pos, 0)
      OBVIOUS
    <2>2. c.fam \in Families /\ c.by = 0 /\ c.op \in Removal
      BY <1>8, <2>1, ScriptCommand, Families1
    <2>3. UNCHANGED <<tool, proc>> /\ spoiled \subseteq spoiled' /\ (Run(c) \/ fw' = fw)
      BY <1>8, <2>1 DEF ScriptClean
    <2> QED BY <2>2, <2>3, ListenerRemoval
  <1>9. ASSUME UNCHANGED <<tool, fw, proc, spoiled>>
        PROVE  Listener'
    BY <1>9, ListenerMoves DEF Moves
  <1>10. ASSUME NEW s \in Scripts, ScriptAgain(s) \/ ScriptPublish(s) \/ ScriptStopped(s)
         PROVE  Listener'
    <2>1. UNCHANGED <<tool, fw>>
      BY <1>10 DEF ScriptAgain, ScriptPublish, ScriptStopped
    <2>2. SignalCur \/ UNCHANGED <<proc, spoiled>>
      BY <1>10 DEF ScriptAgain, ScriptPublish, ScriptStopped, procd_kill
    <2> QED BY <1>9, <2>1, <2>2, ListenerSignal
  <1>11. CASE UNCHANGED vars
    BY <1>9, <1>11 DEF vars
  <1> QED BY <1>3, <1>4, <1>5, <1>6, <1>7, <1>8, <1>10, <1>11 DEF Next

\* main() of the daemons: whatever ends a process but a kill, and at whichever command
\* of its set-up, there is no rule of its own left once it has let go of the queue, as
\* long as no removal of its own failed and no set-up command outlived its process.
THEOREM ListenerThere == Spec => []RulesHaveListener
  <1>1. Init => Listener
    BY Families1 DEF Init, Listener, Fed, Clear
  <1>2. Typed /\ Listener => RulesHaveListener
    <2> SUFFICES ASSUME Typed, Listener, spoiled \subseteq {"removed late", "left"}, NEW f \in Families, NEW i \in Procs,
                        fw[f].chain, fw[f].by = i, proc[i].at # "killed"
                 PROVE  queue = i
      BY DEF RulesHaveListener
    <2>1. PICK g \in Fams : f = Order[g]
      BY Families1
    <2>2. Fed(g)
      BY DEF Listener, Sound
    <2> QED BY <2>1, <2>2 DEF Fed, Typed, Shape, ShapeOf
  <1> QED BY <1>1, <1>2, InitTyped, TypedStep, ListenerStep, PTL DEF Spec

---------------------------------------------------------------------------
(* What a daemon in its loop has *)

Strict == Sound /\ "removed late" \notin spoiled /\ ~crossed
Making(i) == proc[i].at \in {"make", "signals", "check", "enter", "recv"} /\ ~proc[i].exit
Past(i, g, n) == proc[i].at # "make" \/ proc[i].pos > MN * (g - 1) + n

\* What process i has made of the g-th family.
Built(i, g) ==
    /\ tool = "nft" =>
          /\ Past(i, g, 2) => /\ fw[Order[g]].chain /\ fw[Order[g]].jumps = 1
                              /\ fw[Order[g]].full /\ fw[Order[g]].by = i
          /\ Past(i, g, 3) => fw[Order[g]].hook
    /\ tool = "iptables" =>
          /\ Past(i, g, 4) => fw[Order[g]].chain /\ fw[Order[g]].by = i
          /\ Past(i, g, 5) => fw[Order[g]].jumps = 1
          /\ Past(i, g, 6) => fw[Order[g]].full
          /\ Past(i, g, 7) => fw[Order[g]].hook
Stood == Strict => \A i \in Procs, g \in Fams : Making(i) => Built(i, g)

Keeps(j) == Making(j)' =>
    \/ proc'[j].at = "make" /\ proc'[j].pos = 1
    \/ Making(j) /\ proc'[j].at = proc[j].at /\ proc'[j].pos = proc[j].pos
    \/ Making(j) /\ proc'[j].at # "make" /\ (proc[j].at = "make" => proc[j].pos > Total(MakeAll))

LEMMA StoodKeeps ==
    ASSUME Typed, Stood, UNCHANGED <<tool, fw, crossed>>, spoiled \subseteq spoiled', \A j \in Procs : Keeps(j)
    PROVE  Stood'
  <1> SUFFICES ASSUME Strict', NEW i \in Procs, NEW g \in Fams, Making(i)' PROVE Built(i, g)'
    BY DEF Stood
  <1>0. Strict
    BY DEF Strict, Sound
  <1>1. Keeps(i) /\ (Making(i) => Built(i, g))
    BY <1>0 DEF Stood
  <1>2. g \in 1..Len(Order) /\ Len(Order) \in Nat /\ MN' = MN /\ MN \in {3, 7} /\ Total(MakeAll) = MN * Len(Order)
    BY Families1, Lengths, Tool DEF MN, Typed
  <1>3. tool = "nft" => MN = 3
    BY DEF MN
  <1>4. tool = "iptables" => MN = 7
    BY DEF MN
  <1>5. CASE proc'[i].at = "make" /\ proc'[i].pos = 1
    <2>1. tool = "nft" => ~Past(i, g, 2)' /\ ~Past(i, g, 3)'
      BY <1>2, <1>3, <1>5 DEF Past
    <2>2. tool = "iptables" => ~Past(i, g, 4)' /\ ~Past(i, g, 5)' /\ ~Past(i, g, 6)' /\ ~Past(i, g, 7)'
      BY <1>2, <1>4, <1>5 DEF Past
    <2> QED BY <2>1, <2>2 DEF Built
  <1>6. CASE Making(i) /\ proc'[i].at = proc[i].at /\ proc'[i].pos = proc[i].pos
    BY <1>1, <1>2, <1>6 DEF Built, Past
  <1>7. CASE Making(i) /\ proc'[i].at # "make" /\ (proc[i].at = "make" => proc[i].pos > Total(MakeAll))
    <2>1. proc[i].pos \in Nat
      BY Totals DEF Typed, TypeOK
    <2>2. tool = "nft" => Past(i, g, 2) /\ Past(i, g, 3)
      BY <1>2, <1>3, <1>7, <2>1 DEF Past
    <2>3. tool = "iptables" => Past(i, g, 4) /\ Past(i, g, 5) /\ Past(i, g, 6) /\ Past(i, g, 7)
      BY <1>2, <1>4, <1>7, <2>1 DEF Past
    <2> QED BY <1>1, <1>7, <2>2, <2>3 DEF Built
  <1> QED BY <1>1, <1>5, <1>6, <1>7 DEF Keeps

LEMMA StoodReap == ASSUME Typed, Listener, Stood, NEW i \in Procs, Reap(i) PROVE Stood'
  <1> SUFFICES ASSUME Strict' PROVE Stood'
    BY DEF Stood
  <1>1. PICK g \in Fams, c \in {child[i]} :
        /\ c = child[i] /\ c.fam = Order[g] /\ c.by = i
        /\ UNCHANGED <<tool, wanted, script, crossed>> /\ spoiled' = spoiled /\ queue = i
        /\ \A j \in Procs \ {i} : proc'[j] = proc[j] /\ proc[j].at \notin Holding
        /\ proc'[i].handler = proc[i].handler /\ proc'[i].exit = proc[i].exit
        /\ \/ /\ proc[i].at = "make" /\ proc'[i].at = "clear" /\ proc'[i].pos = 1 /\ fw' = fw
           \/ /\ Possible(c) /\ \A f \in Families : fw'[f] = IF f = Order[g] THEN Effect(c) ELSE fw[f]
              /\ proc'[i].at = proc[i].at /\ proc'[i].pos = proc[i].pos + 1
              /\ \/ proc[i].at = "clear" /\ c.op \in Removal /\
                       \E o \in 1..CN : proc[i].pos = CN * (g - 1) + o /\ c.op = ClearOps[o]
                 \/ proc[i].at = "make" /\ c.op \in Removal \cup MadeOps /\
                       \E o \in 1..MN : proc[i].pos = MN * (g - 1) + o /\ c.op = MakeAll[o]
    BY Reaped DEF Strict, Sound
  <1>2. ASSUME NEW j \in Procs, Making(j)'
        PROVE  j = i /\ proc'[i].at # "clear"
    BY <1>1, <1>2 DEF Making, Holding
  <1>3. ASSUME NEW h \in Fams, Making(i)'
        PROVE  Built(i, h)'
    <2>1. /\ Possible(c) /\ \A f \in Families : fw'[f] = IF f = Order[g] THEN Effect(c) ELSE fw[f]
          /\ proc'[i].at = "make" /\ proc[i].at = "make" /\ proc'[i].pos = proc[i].pos + 1
          /\ c.op \in Removal \cup MadeOps
          /\ \E o \in 1..MN : proc[i].pos = MN * (g - 1) + o /\ c.op = MakeAll[o]
      BY <1>1, <1>2, <1>3
    <2>2. PICK o \in 1..MN : proc[i].pos = MN * (g - 1) + o /\ c.op = MakeAll[o]
      BY <2>1
    <2>3. /\ g \in Nat \ {0} /\ h \in Nat \ {0} /\ Order[h] \in Families /\ Order[g] \in Families
          /\ MN' = MN /\ MN \in {3, 7} /\ tool' = tool
      BY <1>1, Families1 DEF MN
    <2>4. Order[h] = Order[g] => h = g
      BY DaemonAssumption DEF Fams
    <2>5. fw[Order[g]] \in Rules /\ fw'[Order[g]] = Effect(c)
      BY <2>1, <2>3 DEF Typed, TypeOK
    <2>6. Making(i) /\ Strict
      BY <1>1, <1>3, <2>1 DEF Making, Strict, Sound
    <2>7. Built(i, g) /\ Built(i, h) /\ Fed(g)
      BY <2>6 DEF Stood, Listener, Strict
    <2>8. CASE h # g
      <3>1. fw'[Order[h]] = fw[Order[h]]
        BY <2>1, <2>3, <2>4, <2>8
      <3>2. ASSUME NEW n \in 1..MN, Past(i, h, n)' PROVE Past(i, h, n)
        BY <2>1, <2>2, <2>3, <2>8, <3>2 DEF Past
      <3>3. CASE tool = "nft"
        <4>1. 2 \in 1..MN /\ 3 \in 1..MN
          BY <3>3 DEF MN
        <4> QED BY <2>3, <2>7, <3>1, <3>2, <3>3, <4>1 DEF Built
      <3>4. CASE tool = "iptables"
        <4>1. 4 \in 1..MN /\ 5 \in 1..MN /\ 6 \in 1..MN /\ 7 \in 1..MN
          BY <3>4 DEF MN
        <4> QED BY <2>3, <2>7, <3>1, <3>2, <3>4, <4>1 DEF Built
      <3> QED BY <3>3, <3>4, Tool DEF Typed
    <2>9. CASE h = g
      <3>1. ASSUME NEW n \in 1..MN
            PROVE  (Past(i, g, n)' <=> o >= n) /\ (Past(i, g, n) <=> o > n)
        BY <2>1, <2>2, <2>3 DEF Past
      <3>2. c.op \in MadeOps =>
             /\ Effect(c).chain
             /\ c.op = "create" => Effect(c).jumps = 1 /\ Effect(c).full /\ Effect(c).by = i
             /\ c.op = "chain" => Effect(c).by = i
             /\ c.op # "chain" /\ c.op # "create" => fw[Order[g]].chain /\ Effect(c).by = fw[Order[g]].by
             /\ c.op = "jump" => Effect(c).jumps = fw[Order[g]].jumps + 1
             /\ c.op = "fill" => Effect(c).jumps = fw[Order[g]].jumps /\ Effect(c).full
             /\ c.op = "hook" => Effect(c).jumps = fw[Order[g]].jumps /\ Effect(c).full = fw[Order[g]].full /\ Effect(c).hook
        BY <1>1, <2>1, <2>5, Make
      <3>3. CASE tool = "nft"
        <4>1. /\ MN = 3 /\ 2 \in 1..MN /\ 3 \in 1..MN /\ o \in 1..3
              /\ o = 1 => c.op = "delete"
              /\ o = 2 => c.op = "create"
              /\ o = 3 => c.op = "hook"
          BY <2>2, <3>3, ListForms
        <4>2. Past(i, g, 3)' => o = 3
          BY <3>1, <4>1
        <4>3. Past(i, g, 2)' => o = 2 \/ (o = 3 /\ Past(i, g, 2))
          BY <3>1, <4>1
        <4>4. Past(i, g, 3)' => fw'[Order[g]].hook
          BY <2>5, <3>2, <4>1, <4>2 DEF MadeOps
        <4>5. ASSUME o = 3, Past(i, g, 2)
              PROVE  fw'[Order[g]].chain /\ fw'[Order[g]].jumps = 1 /\ fw'[Order[g]].full /\ fw'[Order[g]].by = i
          BY <2>5, <2>7, <3>2, <3>3, <4>1, <4>5 DEF MadeOps, Built
        <4>6. ASSUME o = 2
              PROVE  fw'[Order[g]].chain /\ fw'[Order[g]].jumps = 1 /\ fw'[Order[g]].full /\ fw'[Order[g]].by = i
          BY <2>5, <3>2, <4>1, <4>6 DEF MadeOps
        <4> QED BY <2>3, <2>9, <3>3, <4>3, <4>4, <4>5, <4>6 DEF Built
      <3>4. CASE tool = "iptables"
        <4>1. /\ MN = 7 /\ 4 \in 1..MN /\ 5 \in 1..MN /\ 6 \in 1..MN /\ 7 \in 1..MN /\ o \in 1..7
              /\ o = 4 => c.op = "chain"
              /\ o = 5 => c.op = "jump"
              /\ o = 6 => c.op = "fill"
              /\ o = 7 => c.op = "hook"
          BY <2>2, <3>4, ListForms
        <4>2. Past(i, g, 4)' => fw'[Order[g]].chain /\ fw'[Order[g]].by = i
          <5>1. Past(i, g, 4)' => o = 4 \/ (o \in {5, 6, 7} /\ Past(i, g, 4))
            BY <3>1, <4>1
          <5>2. o = 4 => fw'[Order[g]].chain /\ fw'[Order[g]].by = i
            BY <2>5, <3>2, <4>1 DEF MadeOps
          <5>3. o \in {5, 6, 7} /\ Past(i, g, 4) => fw'[Order[g]].chain /\ fw'[Order[g]].by = i
            BY <2>5, <2>7, <3>2, <3>4, <4>1 DEF MadeOps, Built
          <5> QED BY <5>1, <5>2, <5>3
        <4>3. Past(i, g, 5)' => fw'[Order[g]].jumps = 1
          <5>1. Past(i, g, 5)' => o = 5 \/ (o \in {6, 7} /\ Past(i, g, 5))
            BY <3>1, <4>1
          <5>2. o = 5 => fw[Order[g]].jumps = 0
            BY <2>1, <2>2, <2>7, <3>4, <4>1 DEF Fed
          <5>3. o = 5 => fw'[Order[g]].jumps = 1
            BY <2>5, <3>2, <4>1, <5>2 DEF MadeOps
          <5>4. o \in {6, 7} /\ Past(i, g, 5) => fw'[Order[g]].jumps = 1
            BY <2>5, <2>7, <3>2, <3>4, <4>1 DEF MadeOps, Built
          <5> QED BY <5>1, <5>3, <5>4
        <4>4. Past(i, g, 6)' => fw'[Order[g]].full
          <5>1. Past(i, g, 6)' => o = 6 \/ (o = 7 /\ Past(i, g, 6))
            BY <3>1, <4>1
          <5>2. o = 6 => fw'[Order[g]].full
            BY <2>5, <3>2, <4>1 DEF MadeOps
          <5>3. o = 7 /\ Past(i, g, 6) => fw'[Order[g]].full
            BY <2>5, <2>7, <3>2, <3>4, <4>1 DEF MadeOps, Built
          <5> QED BY <5>1, <5>2, <5>3
        <4>5. Past(i, g, 7)' => fw'[Order[g]].hook
          <5>1. Past(i, g, 7)' => o = 7
            BY <3>1, <4>1
          <5> QED BY <2>5, <3>2, <4>1, <5>1 DEF MadeOps
        <4> QED BY <2>3, <2>9, <3>4, <4>2, <4>3, <4>4, <4>5 DEF Built
      <3> QED BY <3>3, <3>4, Tool DEF Typed
    <2> QED BY <2>8, <2>9
  <1> QED BY <1>2, <1>3 DEF Stood

LEMMA StoodStep == Typed /\ Control /\ Listener /\ Stood /\ [Next]_vars => Stood'
  <1> SUFFICES ASSUME Typed, Control, Listener, Stood, [Next]_vars
               PROVE  Stood'
    OBVIOUS
  <1>1. proc \in [Procs -> ProcType] /\ \A i \in Procs : proc[i] \in ProcType
    BY DEF Typed, TypeOK, ProcType
  <1>2. ASSUME UNCHANGED <<tool, fw, proc, crossed>>, spoiled \subseteq spoiled'
        PROVE  Stood'
    BY <1>2, StoodKeeps DEF Keeps, Making
  <1>3. ASSUME NEW i \in Procs, Step(i)
        PROVE  Stood'
    <2>1. CASE Reap(i)
      BY <2>1, StoodReap
    <2>2. CASE Fork(i)
      BY <1>2, <2>2 DEF Fork
    <2>3. CASE ~Reap(i) /\ ~Fork(i)
      <3>1. UNCHANGED <<tool, fw, spoiled, crossed>>
        BY <1>3, <2>3 DEF Step, Prepare, Bind, Made, SignalSetup, Check, Enter, Packet, RecvFails, Close
      <3>2. \/ Goto(i, "queue") \/ Goto(i, "make") \/ Goto(i, "clear") \/ Return(i)
            \/ Goto(i, "signals") /\ proc[i].at = "make" /\ proc[i].pos > Total(MakeAll)
            \/ Goto(i, "enter") /\ proc[i].at = "check"
            \/ Goto(i, "recv") /\ proc[i].at = "enter"
            \/ /\ proc[i].at \in {"signals", "recv"}
               /\ \/ proc' = [proc EXCEPT ![i].at = "check", ![i].handler = TRUE]
                  \/ proc' = [proc EXCEPT ![i].at = "check", ![i].errors = 0]
                  \/ proc' = [proc EXCEPT ![i].at = "check", ![i].errors = @ + 1]
        <4>1. CASE Prepare(i) \/ Bind(i) \/ Close(i)
          BY <4>1 DEF Prepare, Bind, Close
        <4>2. CASE Made(i)
          BY <4>2 DEF Made
        <4>3. CASE SignalSetup(i)
          BY <4>3 DEF SignalSetup
        <4>4. CASE Check(i)
          <5>1. proc[i].at = "check" /\ (Goto(i, "clear") \/ Goto(i, "enter"))
            BY <4>4 DEF Check
          <5> QED BY <5>1
        <4>6. CASE Enter(i)
          BY <4>6 DEF Enter
        <4>5. CASE Packet(i) \/ RecvFails(i)
          BY <4>5 DEF Packet, RecvFails
        <4> QED BY <1>3, <2>3, <4>1, <4>2, <4>3, <4>4, <4>5, <4>6 DEF Step
      <3>3. ASSUME NEW l \in Places, Goto(i, l)
            PROVE  /\ \A j \in Procs \ {i} : proc'[j] = proc[j]
                   /\ proc'[i].at = l /\ proc'[i].pos = 1 /\ proc'[i].exit = proc[i].exit
        BY <3>1, <3>3, GotoType DEF Typed
      <3>4. {"queue", "make", "clear", "signals", "enter", "recv"} \subseteq Places /\ "returned" \in Ended
        BY DEF Places, Ended
      <3>5. CASE Goto(i, "queue") \/ Goto(i, "make") \/ Goto(i, "clear")
        <4>1. /\ \A j \in Procs \ {i} : proc'[j] = proc[j]
              /\ proc'[i].at \in {"queue", "make", "clear"} /\ proc'[i].pos = 1
          BY <3>3, <3>4, <3>5
        <4>2. \A j \in Procs : Keeps(j)
          BY <4>1 DEF Keeps, Making
        <4> QED BY <3>1, <4>2, StoodKeeps
      <3>6. CASE Return(i)
        <4>1. (\A j \in Procs \ {i} : proc'[j] = proc[j]) /\ proc'[i].at = "returned"
          BY <3>1, <3>4, <3>6, ReturnType DEF Return, Typed
        <4>2. \A j \in Procs : Keeps(j)
          BY <4>1 DEF Keeps, Making
        <4> QED BY <3>1, <4>2, StoodKeeps
      <3>7. CASE Goto(i, "signals") /\ proc[i].at = "make" /\ proc[i].pos > Total(MakeAll)
        <4>1. /\ \A j \in Procs \ {i} : proc'[j] = proc[j]
              /\ proc'[i].at = "signals" /\ proc'[i].exit = proc[i].exit
          BY <3>3, <3>4, <3>7
        <4>2. \A j \in Procs : Keeps(j)
          BY <3>7, <4>1 DEF Keeps, Making
        <4> QED BY <3>1, <4>2, StoodKeeps
      <3>8. CASE (Goto(i, "enter") /\ proc[i].at = "check") \/ (Goto(i, "recv") /\ proc[i].at = "enter")
        <4>1. /\ \A j \in Procs \ {i} : proc'[j] = proc[j]
              /\ proc[i].at \in {"check", "enter"} /\ proc'[i].at \in {"enter", "recv"} /\ proc'[i].exit = proc[i].exit
          BY <3>3, <3>4, <3>8
        <4>2. \A j \in Procs : Keeps(j)
          BY <4>1 DEF Keeps, Making
        <4> QED BY <3>1, <4>2, StoodKeeps
      <3>9. CASE /\ proc[i].at \in {"signals", "recv"}
                 /\ \/ proc' = [proc EXCEPT ![i].at = "check", ![i].handler = TRUE]
                    \/ proc' = [proc EXCEPT ![i].at = "check", ![i].errors = 0]
                    \/ proc' = [proc EXCEPT ![i].at = "check", ![i].errors = @ + 1]
        <4>1. /\ \A j \in Procs \ {i} : proc'[j] = proc[j]
              /\ proc'[i].at = "check" /\ proc'[i].exit = proc[i].exit
          BY <1>1, <3>9 DEF ProcType
        <4>2. \A j \in Procs : Keeps(j)
          BY <3>9, <4>1 DEF Keeps, Making
        <4> QED BY <3>1, <4>2, StoodKeeps
      <3> QED BY <3>2, <3>5, <3>6, <3>7, <3>8, <3>9
    <2> QED BY <2>1, <2>2, <2>3
  <1>4. ASSUME NEW i \in Procs, SigKill(i) \/ Crash(i)
        PROVE  Stood'
    <2>1. UNCHANGED <<tool, fw, spoiled, crossed>> /\ proc' = [proc EXCEPT ![i] = [New EXCEPT !.at = "killed"]]
      BY <1>4 DEF SigKill, Crash, Dies
    <2>2. (\A j \in Procs \ {i} : proc'[j] = proc[j]) /\ proc'[i].at = "killed"
      BY <2>1, ReturnType DEF Ended, Typed
    <2>3. \A j \in Procs : Keeps(j)
      BY <2>2 DEF Keeps, Making
    <2> QED BY <2>1, <2>3, StoodKeeps
  <1>5. ASSUME NEW i \in Procs, Start(i)
        PROVE  Stood'
    <2>1. UNCHANGED <<tool, fw, spoiled, crossed>> /\ proc' = [proc EXCEPT ![i].at = "prepare"]
      BY <1>5 DEF Start
    <2>2. (\A j \in Procs \ {i} : proc'[j] = proc[j]) /\ proc'[i].at = "prepare"
      BY <1>1, <2>1 DEF ProcType
    <2>3. \A j \in Procs : Keeps(j)
      BY <2>2 DEF Keeps, Making
    <2> QED BY <2>1, <2>3, StoodKeeps
  <1>6. ASSUME NEW c \in stray, StrayEnds(c)
        PROVE  Stood'
    <2>1. "removed late" \in spoiled' \/ "made late" \in spoiled'
      BY <1>6 DEF StrayEnds
    <2> QED BY <2>1 DEF Stood, Strict, Sound
  <1>7. ASSUME SignalCur, tool' = tool
        PROVE  Stood'
    <2>1. \A i \in Procs : ~Making(i)'
      BY <1>7, SignalExits DEF Making, Alive, Ended
    <2> QED BY <2>1 DEF Stood
  <1>8. ASSUME NEW s \in Scripts, ScriptClean(s)
        PROVE  Stood'
    <2>1. script[s] # Idle /\ proc' = proc /\ crossed' = crossed
      BY <1>8 DEF ScriptClean
    <2>2. ~crossed => \A i \in Procs : ~Making(i)
      BY <2>1, Maker DEF Making, Alive, Ended, Resting
    <2> QED BY <2>1, <2>2 DEF Stood, Strict, Making
  <1>9. ASSUME NEW s \in Scripts, NEW at \in {"stop", "clean", "start"}, ScriptKill(s, at)
        PROVE  Stood'
    BY <1>7, <1>9 DEF ScriptKill, procd_kill
  <1>10. ASSUME NEW s \in Scripts, ScriptAgain(s) \/ ScriptPublish(s) \/ ScriptStopped(s)
         PROVE  Stood'
    <2>1. UNCHANGED <<tool, fw, crossed>>
      BY <1>10 DEF ScriptAgain, ScriptPublish, ScriptStopped
    <2>2. SignalCur \/ UNCHANGED <<proc, spoiled>>
      BY <1>10 DEF ScriptAgain, ScriptPublish, ScriptStopped, procd_kill
    <2> QED BY <1>2, <1>7, <2>1, <2>2
  <1>11. CASE UNCHANGED vars
    BY <1>2, <1>11 DEF vars
  <1> QED BY <1>3, <1>4, <1>5, <1>6, <1>8, <1>9, <1>10, <1>11 DEF Next

\* A daemon in its loop has all of its rules, its own ones, in every family, whatever
\* its predecessors and successors, the script and kills were at, unless a removal has
\* failed or an abandoned command ended later.  It is so while the init script's last
\* operation has run alone, whatever operations before it had crossed and left.
THEOREM RulesAreComplete == Spec => []RulesStand
  <1>1. Init => Listener /\ Stood
    <2>1. Init => Listener
      BY Families1 DEF Init, Listener, Fed, Clear
    <2>2. Init => Stood
      BY DEF Init, Stood, Making, New
    <2> QED BY <2>1, <2>2
  <1>2. Typed /\ Stood => RulesStand
    <2> SUFFICES ASSUME Typed, Stood, ~crossed, spoiled \subseteq {"left"}, NEW i \in Procs, Serving(i), NEW f \in Families
                 PROVE  fw[f] = [chain |-> TRUE, jumps |-> 1, full |-> TRUE, hook |-> TRUE, by |-> i]
      BY DEF RulesStand
    <2>1. PICK g \in Fams : f = Order[g]
      BY Families1
    <2>2. Strict /\ Making(i) /\ proc[i].at # "make"
      BY DEF Strict, Sound, Making, Serving
    <2>3. Built(i, g) /\ \A n \in 2..7 : Past(i, g, n)
      BY <2>2 DEF Stood, Past
    <2>4. fw[f].chain /\ fw[f].jumps = 1 /\ fw[f].full /\ fw[f].hook /\ fw[f].by = i
      BY <2>1, <2>3, Tool DEF Built, Typed
    <2>5. fw[f] \in Rules
      BY DEF Typed, TypeOK
    <2> QED BY <2>4, <2>5 DEF Rules
  <1> QED BY <1>1, <1>2, InitTyped, InitControl, TypedStep, ControlStep, ListenerStep, StoodStep, PTL DEF Spec
====
