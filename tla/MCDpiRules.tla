---- MODULE MCDpiRules ----
EXTENDS DpiRules

MCConfigs ==
    {[all |-> FALSE, ifaces |-> <<1>>, mark |-> {15}, mask |-> {15}],
     [all |-> FALSE, ifaces |-> <<2, 1>>, mark |-> {14}, mask |-> {14, 15}],
     [all |-> TRUE, ifaces |-> <<>>, mark |-> {15}, mask |-> {14, 15}]}

\* With the addresses of every prefix, and of one that lies beside all of them.
Plain == [way : {"in", "out"}, iface : {1}, far : {"global"}, mark : {{}}, kind : {"syn", "udp 1-5"}]
MCPackets == [f \in {"ip", "ip6"} |->
    {[p EXCEPT !.far = a, !.kind = IF a = "ff00::/8" THEN "udp 1-5" ELSE @] : p \in Plain, a \in Addresses(f)}
    \cup [way : {"in", "out"}, iface : {1, 2}, far : {"global", IF f = "ip" THEN "10.0.0.0/8" ELSE "fe80::/10"}, mark : {{}, {14}, {15}, {3, 14}},
          kind : {"syn", "ack 2-4", "udp 1-5", "time exceeded", "other"}]]
====
