---- MODULE DpiRules ----
(***************************************************************************)
(* The firewall rules of a DPI daemon, command by command: which packets   *)
(* are queued or dropped while the rules are made, when they stand, while  *)
(* they are removed, and after a process that was killed in between.       *)
(*                                                                         *)
(* A behaviour is about one program, tool and address family.  The two     *)
(* tools' hooks and chains have one form: S looks at what comes in, D at   *)
(* what goes out, both may jump to R.  DpiDaemon has the processes, their  *)
(* queue and the init script.                                              *)
(***************************************************************************)
EXTENDS Integers, Sequences

CONSTANTS
    Configs,    \* what a process may be started with: [all, ifaces, mark, mask]
    Packets,    \* of a family: [way, iface, far, mark, kind]; far is the other side's address
    MaxStarts,  \* bound: processes
    MaxKills,   \* bound: processes that are killed
    MaxFails    \* bound: commands that fail

VARIABLES
    prog, tool, family,
    there, rules, hooked,   \* the chains, their rules, the jumps from the hooks to them
    phase, config, todo,    \* the process, g_ctx, the commands ahead of it
    by,                     \* history: the configuration of the last rule's maker
    starts, kills, fails,
    unremoved               \* history: how many removals have failed

Chains == {"S", "D", "R"}

system == <<prog, tool, family>>
firewall == <<there, rules, hooked, by>>
process == <<phase, config, todo>>
rulesVars == <<system, firewall, process, starts, kills, fails, unremoved>>

---------------------------------------------------------------------------
(* Rules and commands *)

Rule(on, do) == [on |-> on, do |-> do]
NoRule == Rule({}, "none")
Cmd(op, chain, rule) == [op |-> op, chain |-> chain, rule |-> rule]

New(chain) == Cmd("new", chain, NoRule)
Hook(chain) == Cmd("hook", chain, NoRule)
Add(chain, rule) == Cmd("append", chain, rule)
Insert(chain, rule) == Cmd("insert", chain, rule)
Optional(chain, rule) == Cmd("try to append", chain, rule)
Undo(op, chain) == Cmd(op, chain, NoRule)

Removal == {"flush", "unhook", "delete", "delete table"}

\* A process looks at the result of the others.
Must(cmd) == cmd.op \notin Removal \cup {"try to append"}

Adds(chain, list) == [k \in DOMAIN list |-> Add(chain, list[k])]

\* nft -f -: the table, its chains, hooks and rules, all of it or nothing.
Batch(excluded, r) == <<Cmd("batch", "S", [x \in Chains |-> IF x = "R" THEN r ELSE excluded])>>

Local4 == <<"0.0.0.0/8", "10.0.0.0/8", "100.64.0.0/10", "127.0.0.0/8", "169.254.0.0/16",
            "172.16.0.0/12", "192.168.0.0/16", "224.0.0.0/3">>
Special6 == <<"::/127", "::ffff:0:0/96", "64:ff9b::/96", "64:ff9b:1::/48", "2002::/16", "fc00::/7",
              "fe80::/10">>

Exclude(prefixes) == [k \in DOMAIN prefixes |-> Rule({<<"addr", prefixes[k]>>}, "return")]
NotGlobal6 == <<Rule({<<"not addr", "2000::/3">>}, "return")>>

MarkRule(c) == Rule({<<"mark", c.mark, c.mask>>}, "return")
SynRule == Rule({<<"kind", "syn">>}, "queue")
UdpRule == Rule({<<"kind", "udp 1-5">>}, "queue")
EarlyAckRule == Rule({<<"kind", "ack 2-4">>}, "queue")
EarlyAck == <<Optional("R", EarlyAckRule)>>

\* Variant: the queue rule before the mark rule.
QueueThenMark(c, queue) == <<queue, MarkRule(c)>>
MarkThenQueue(c, queue) == <<MarkRule(c), queue>>

\* Every address that a packet may have is in one of these prefixes or is a global one;
\* TCP knows no multicast.
Addresses(f) ==
    {"global"} \cup IF f = "ip" THEN {Local4[k] : k \in DOMAIN Local4}
                    ELSE {"ff00::/8"} \cup {Special6[k] : k \in DOMAIN Special6}

ASSUME RulesAssumption ==
    /\ \A c \in Configs : c.all \in BOOLEAN /\ c.ifaces \in Seq(Nat) /\ c.mark # {} /\ c.mark \subseteq c.mask
    /\ \A f \in {"ip", "ip6"} : \A p \in Packets[f] :
          /\ p.way \in {"in", "out"} /\ p.far \in Addresses(f)
          /\ p.far = "ff00::/8" => p.kind \notin {"syn", "ack 2-4"}
    /\ MaxStarts \in Nat /\ MaxKills \in Nat /\ MaxFails \in Nat

---------------------------------------------------------------------------
(* iptables, ip6tables *)

IptTable(c, excluded, queue) ==
    <<New("S"), New("D"), Hook("S"), Hook("D"), New("R")>>
        \o Adds("S", excluded) \o Adds("D", excluded) \o Adds("R", MarkThenQueue(c, queue))

fh_ipt4_setup(c) == IptTable(c, Exclude(Local4), SynRule) \o EarlyAck
fh_ipt6_setup(c) == IptTable(c, Exclude(Special6), SynRule) \o EarlyAck
fs_ipt4_setup(c) == IptTable(c, Exclude(Local4), UdpRule)
fs_ipt6_setup(c) == IptTable(c, NotGlobal6, UdpRule)

\* Flushed, unhooked, deleted; R first, for the others refer to it until they are empty.
IptCleanup ==
    <<Undo("flush", "R"), Undo("flush", "S"), Undo("flush", "D"), Undo("unhook", "S"),
      Undo("unhook", "D"), Undo("delete", "R"), Undo("delete", "S"), Undo("delete", "D")>>

---------------------------------------------------------------------------
(* nft *)

NftTable(c, excluded, queue) == Batch(excluded, MarkThenQueue(c, queue))

fh_nft4_setup(c) == NftTable(c, Exclude(Local4), SynRule) \o EarlyAck
fh_nft6_setup(c) == NftTable(c, Exclude(Special6), SynRule) \o EarlyAck
fs_nft4_setup(c) == NftTable(c, Exclude(Local4), UdpRule)
fs_nft6_setup(c) == NftTable(c, NotGlobal6, UdpRule)

NftCleanup == <<Undo("delete table", "S")>>

---------------------------------------------------------------------------
(* ..._iface_setup: once for all interfaces or once for each.  fakesip puts *)
(* in front of S, with its exclusions, what drops "time exceeded".         *)

Scopes(c) == IF c.all THEN <<{}>> ELSE [k \in DOMAIN c.ifaces |-> {<<"iface", c.ifaces[k]>>}]

FhJumps(on) == <<Add("S", Rule(on, "jump")), Add("D", Rule(on, "jump"))>>
FsJumps(on) ==
    <<Insert("S", Rule(on \cup {<<"kind", "time exceeded">>}, "drop")),
      Add("S", Rule(on, "jump")), Add("D", Rule(on, "jump"))>>

fh_iface_setup(c) ==
    [k \in 1..2 * Len(Scopes(c)) |-> FhJumps(Scopes(c)[((k - 1) \div 2) + 1])[((k - 1) % 2) + 1]]
fs_iface_setup(c) ==
    [k \in 1..3 * Len(Scopes(c)) |-> FsJumps(Scopes(c)[((k - 1) \div 3) + 1])[((k - 1) % 3) + 1]]

Cleanup == IF tool = "nft" THEN NftCleanup ELSE IptCleanup

Making(c) ==
    (CASE prog = "fakehttp" /\ tool = "nft" /\ family = "ip"       -> fh_nft4_setup(c)
       [] prog = "fakehttp" /\ tool = "nft" /\ family = "ip6"      -> fh_nft6_setup(c)
       [] prog = "fakehttp" /\ tool = "iptables" /\ family = "ip"  -> fh_ipt4_setup(c)
       [] prog = "fakehttp" /\ tool = "iptables" /\ family = "ip6" -> fh_ipt6_setup(c)
       [] prog = "fakesip" /\ tool = "nft" /\ family = "ip"        -> fs_nft4_setup(c)
       [] prog = "fakesip" /\ tool = "nft" /\ family = "ip6"       -> fs_nft6_setup(c)
       [] prog = "fakesip" /\ tool = "iptables" /\ family = "ip"   -> fs_ipt4_setup(c)
       [] prog = "fakesip" /\ tool = "iptables" /\ family = "ip6"  -> fs_ipt6_setup(c))
    \o (IF prog = "fakehttp" THEN fh_iface_setup(c) ELSE fs_iface_setup(c))

\* Variant: what another process has left is not removed first.
SetupOnTop(c) == Making(c)
\* fh_nfrules_setup and its twin, for the one family.
Setup(c) == Cleanup \o Making(c)

---------------------------------------------------------------------------
(* What the tools do *)

Jumps(chain) == \E k \in DOMAIN rules[chain] : rules[chain][k].do = "jump"

Possible(cmd) ==
    CASE cmd.op = "new"                -> cmd.chain \notin there
      [] cmd.op \in {"hook", "flush"}  -> cmd.chain \in there
      [] cmd.op \in {"append", "insert", "try to append"} ->
            cmd.chain \in there /\ (cmd.rule.do = "jump" => "R" \in there)
      [] cmd.op = "unhook"             -> hooked[cmd.chain] > 0
      [] cmd.op = "delete"             ->
            /\ cmd.chain \in there /\ rules[cmd.chain] = <<>>
            /\ IF cmd.chain = "R" THEN ~Jumps("S") /\ ~Jumps("D") ELSE hooked[cmd.chain] = 0
      [] cmd.op = "delete table"       -> there # {}
      [] cmd.op = "batch"              -> TRUE

Effect(cmd) ==
    LET chain == cmd.chain IN
    /\ there' = CASE cmd.op = "new" -> there \cup {chain}   [] cmd.op = "delete" -> there \ {chain}
                  [] cmd.op = "delete table" -> {}          [] cmd.op = "batch" -> Chains
                  [] OTHER -> there
    /\ rules' = CASE cmd.op = "flush"  -> [rules EXCEPT ![chain] = <<>>]
                  [] cmd.op \in {"append", "try to append"} -> [rules EXCEPT ![chain] = Append(@, cmd.rule)]
                  [] cmd.op = "insert" -> [rules EXCEPT ![chain] = <<cmd.rule>> \o @]
                  [] cmd.op = "delete table" -> [c \in Chains |-> <<>>]
                  [] cmd.op = "batch"  -> [c \in Chains |-> rules[c] \o cmd.rule[c]]
                  [] OTHER -> rules
    /\ hooked' = CASE cmd.op = "hook"   -> [hooked EXCEPT ![chain] = @ + 1]
                   [] cmd.op = "unhook" -> [hooked EXCEPT ![chain] = @ - 1]
                   [] cmd.op = "delete table" -> [c \in {"S", "D"} |-> 0]
                   [] cmd.op = "batch"  -> [c \in {"S", "D"} |-> 1]
                   [] OTHER -> hooked
    /\ by' = IF cmd.op \in Removal THEN by ELSE config

---------------------------------------------------------------------------
(* Processes *)

RulesInit ==
    /\ prog \in {"fakehttp", "fakesip"} /\ tool \in {"nft", "iptables"} /\ family \in {"ip", "ip6"}
    /\ there = {} /\ rules = [c \in Chains |-> <<>>] /\ hooked = [c \in {"S", "D"} |-> 0]
    /\ phase = "off" /\ config \in Configs /\ todo = <<>> /\ by = config
    /\ starts = 0 /\ kills = 0 /\ fails = 0 /\ unremoved = 0

Start(c) ==
    /\ phase = "off" /\ starts < MaxStarts /\ starts' = starts + 1
    /\ phase' = "making" /\ config' = c /\ todo' = Setup(c)
    /\ UNCHANGED <<system, firewall, kills, fails, unremoved>>

\* fh_execute_command
Execute ==
    /\ todo # <<>> /\ Possible(Head(todo))
    /\ Effect(Head(todo)) /\ todo' = Tail(todo)
    /\ UNCHANGED <<system, phase, config, starts, kills, fails, unremoved>>

\* The command cannot be done, or fails: main() cleans up when it was one that must.
ExecuteFails ==
    /\ todo # <<>>
    /\ IF Possible(Head(todo)) THEN fails < MaxFails /\ fails' = fails + 1 ELSE UNCHANGED fails
    /\ IF Must(Head(todo)) THEN phase' = "clearing" /\ todo' = Cleanup
       ELSE phase' = phase /\ todo' = Tail(todo)
    /\ unremoved' = IF Possible(Head(todo)) /\ Head(todo).op \in Removal THEN unremoved + 1 ELSE unremoved
    /\ UNCHANGED <<system, firewall, config, starts, kills>>

Done ==
    /\ todo = <<>> /\ phase \in {"making", "clearing"}
    /\ phase' = IF phase = "making" THEN "ready" ELSE "off"
    /\ UNCHANGED <<system, firewall, config, todo, starts, kills, fails, unremoved>>

\* The loop has ended.
Quit ==
    /\ phase = "ready" /\ phase' = "clearing" /\ todo' = Cleanup
    /\ UNCHANGED <<system, firewall, config, starts, kills, fails, unremoved>>

Kill ==
    /\ phase # "off" /\ kills < MaxKills /\ kills' = kills + 1
    /\ phase' = "off" /\ todo' = <<>>
    /\ UNCHANGED <<system, firewall, config, starts, fails, unremoved>>

RulesNext == (\E c \in Configs : Start(c)) \/ Execute \/ ExecuteFails \/ Done \/ Quit \/ Kill

RulesSpec == RulesInit /\ [][RulesNext]_rulesVars

---------------------------------------------------------------------------
(* What becomes of a packet *)

\* An address goes by the narrowest of the prefixes it is in, or is "global".
In(addr, prefix) == addr = prefix \/ (prefix = "2000::/3" /\ addr \in {"global", "2002::/16"})

Matches(rule, p) ==
    \A m \in rule.on :
        CASE m[1] = "addr"     -> In(p.far, m[2])
          [] m[1] = "not addr" -> ~In(p.far, m[2])
          [] m[1] = "iface"    -> p.iface = m[2]
          [] m[1] = "mark"     -> p.mark \cap m[3] = m[2]
          [] m[1] = "kind"     -> p.kind = m[2]

\* The first rule that decides; a jump decides if R queues the packet.
Ruled(chain, p, jump) ==
    LET deciding == {k \in DOMAIN rules[chain] :
                        Matches(rules[chain][k], p) /\ (rules[chain][k].do = "jump" => jump = "queue")}
    IN  IF deciding = {} THEN "pass"
        ELSE LET do == rules[chain][CHOOSE k \in deciding : \A j \in deciding : k <= j].do
             IN  CASE do = "return" -> "pass" [] do = "jump" -> "queue" [] OTHER -> do

Decision(p) ==
    LET chain == IF p.way = "in" THEN "S" ELSE "D" IN
    IF hooked[chain] = 0 THEN "pass" ELSE Ruled(chain, p, Ruled("R", p, "pass"))

---------------------------------------------------------------------------
(* Properties *)

\* What a configuration means, whichever tool makes its rules: what is on its interfaces,
\* with an address on the other side that is a global one, not marked as the daemon's
\* own, and of the kind that the program answers with decoys, is queued; fakesip also
\* drops the "time exceeded" that its decoys cause.  2002::/16 is global for fakesip only.
Global(addr) == addr = "global" \/ (addr = "2002::/16" /\ prog = "fakesip")
Wanted(c, p) ==
    IF ~c.all /\ p.iface \notin {c.ifaces[k] : k \in DOMAIN c.ifaces} THEN "pass"
    ELSE IF prog = "fakesip" /\ p.way = "in" /\ p.kind = "time exceeded" THEN "drop"
    ELSE IF p.mark \cap c.mask # c.mark /\ Global(p.far)
            /\ p.kind \in (IF prog = "fakehttp" THEN {"syn", "ack 2-4"} ELSE {"udp 1-5"}) THEN "queue"
    ELSE "pass"

\* What was there can be taken away: nft's one command has not failed; two of iptables'
\* may, for only three that fail in one clean-up leave rules of the last process at work.
Removable == unremoved <= IF tool = "nft" THEN 0 ELSE 2

\* At no moment, however many of the commands have been run, failed or were cut off by
\* a kill, is a packet queued or dropped that the complete rules would leave alone: the
\* daemon's own decoys, local addresses, other interfaces.  (nft's second batch goes
\* behind a table that could not be deleted: then this may not hold.)
NeverBeyond ==
    Removable => \A p \in Packets[family] : Decision(p) \in {"pass", Wanted(by, p)}

\* Rules that stand are those of their configuration, whatever was there before and
\* whichever tool has made them; early ACKs are queued if the tool can do it.
RulesMean ==
    phase = "ready" /\ (tool = "nft" => unremoved = 0) =>
        \A p \in Packets[family] : \/ Decision(p) = Wanted(config, p)
                                   \/ p.kind = "ack 2-4" /\ Decision(p) = "pass"
====
