---- MODULE MCDpiPackets ----
EXTENDS DpiPackets, TLC

Near == [family |-> "ip", host |-> "a"]
Far == [family |-> "ip", host |-> "b"]
Six == [family |-> "ip6", host |-> "a"]
MCPeers == {Near, Far, Six}
MCInitial == (Near :> 64) @@ (Far :> 255) @@ (Six :> 128)

Eth(i) == [id |-> i, len |-> 4]
Row(on, type, id, len) == [enabled |-> on, type |-> type, info |-> [id |-> id, len |-> len]]

Tuning(direction, family, ttl, pct, hops) ==
    [interface_mode |-> "selected", interfaces |-> <<Eth(1), Eth(2), Eth(1)>>, wan4 |-> TRUE, wan6 |-> FALSE,
     direction |-> direction, family |-> family, repeat |-> 2, ttl |-> ttl, dynamic_ttl_pct |-> pct,
     hop_estimation |-> hops, fwmark |-> {15}, fwmask |-> {14, 15}]

Http(direction, family, ttl, pct, hops, rows) ==
    Tuning(direction, family, ttl, pct, hops) @@ [rows |-> rows]
Sip(direction, family, ttl, pct, hops, mode, ports, uri) ==
    Tuning(direction, family, ttl, pct, hops) @@
        [port_mode |-> mode, ports |-> ports, sip_uri |-> [id |-> "uri", len |-> uri],
         payload_mode |-> IF uri = 0 THEN "auto" ELSE "custom_uri"]

Three == <<Row(TRUE, "http", "x", 11), Row(FALSE, "http", "off", 5), Row(TRUE, "https", "y", 253),
           Row(TRUE, "binary", "z", 1199)>>

Plain == [byUci |-> TRUE, args |-> <<>>, uci |-> [none |-> 0], max |-> 0, dists |-> {20}, ifaces |-> {1},
          peers |-> {Near}, nft |-> {TRUE}, kinds |-> {"syn", "synack"}, options |-> {<<>>}, ports |-> {<<5060, 5060>>}, faults |-> {}]

FhScenario(uci, more) == more @@ [prog |-> "fakehttp", uci |-> uci] @@ Plain
FsScenario(uci, more) == more @@ [prog |-> "fakesip", uci |-> uci, kinds |-> {"udp"}] @@ Plain

\* Paths that change, a ring of two records, three peers, two interfaces.
Paths ==
    (<<"udp">> :> FsScenario(Sip("both", "ipv4", 3, 99, TRUE, "all", <<>>, 255),
                             [max |-> 3, dists |-> {3, 40}, ifaces |-> {1, 2}, peers |-> {Near, Far}]))
    @@ (<<"tcp">> :> FhScenario(Http("inbound", "dual", 3, 90, TRUE, Three),
                                  [max |-> 4, dists |-> {3, 40}, ifaces |-> {1, 2}, peers |-> {Near, Far}]))

\* Directions, families, rows.
Ways ==
    [k \in {"rows"} \X {"outbound", "both"} \X {0, 60} \X {1, 2, 3} |->
        FhScenario(Http(k[2], "dual", 2, k[3], TRUE, <<Three, Three \o Three, <<Three[1]>>>>[k[4]]),
                   [max |-> 3, dists |-> {2, 63}, nft |-> BOOLEAN, peers |-> {IF k[4] = 2 THEN Six ELSE Near}])]
    @@ (<<"auto">> :> FhScenario([Http("both", "dual", 5, 0, FALSE, Three) EXCEPT !.interface_mode = "auto"],
                                 [max |-> 2, peers |-> {Near, Six}, ifaces |-> {0, 1}, kinds |-> {"syn", "synack", "ack"},
                                  faults |-> {"cut", "offset", "protocol"}]))
    @@ [k \in {"exclude"} \X {"inbound", "outbound"} \X BOOLEAN \X {"auto", "selected"} |->
        FsScenario([Sip(k[2], "dual", 4, 0, k[3], "exclude", <<<<53, 53>>, <<8000, 8010>>>>, 0)
                        EXCEPT !.interface_mode = k[4]],
                   [max |-> 2, dists |-> {4, 5}, peers |-> {Far, Six}, faults |-> {"cut", "protocol"},
                    ports |-> {<<5060, 8010>>, <<53, 5060>>, <<8011, 7999>>}])]
    @@ (<<"include">> :> FsScenario(Sip("both", "ipv6", 4, 0, TRUE, "include", <<<<1, 1>>, <<65535, 65535>>>>, 0),
                                    [max |-> 2, peers |-> {Near, Six}, ports |-> {<<1, 2>>, <<65535, 65534>>, <<2, 65534>>}]))

\* All lists of option bytes of one word, and some of two.
Bytes == {0, 1, 2, 3, 34}
OptionLists ==
    [1..4 -> Bytes]
        \cup {<<2, 4, 5, 180>> \o o : o \in [1..4 -> {1, 34}]}
        \cup {<<34, 6, 9, 9, 9, 9, 34, 2>>, <<1, 34, 6, 9, 9, 9, 9, 0>>, <<34, 9, 9, 9, 9, 9, 9, 9>>,
              <<2, 4, 5, 180, 34, 5, 9, 9>>, <<2, 0, 34, 2, 1, 1, 1, 1>>, <<34, 8, 34, 2, 34, 3, 9, 9>>}
Bits ==
    [k \in {"bits"} \X {"inbound", "outbound"} |->
        FhScenario(Http(k[2], "dual", 3, 0, TRUE, <<Three[1]>>), [max |-> 1, options |-> OptionLists, kinds |-> {"syn"}])]

\* The edges of what the init scripts accept.
Edges ==
    [k \in {"payload"} \X {0, 1, 255, 256} \X {"http", "https", "binary"} \X {0, 1, 253, 254, 1199, 1200, 1201} |->
        FhScenario(Http("both", "ipv4", k[2], 0, TRUE, <<Row(TRUE, k[3], "x", k[4])>>), [max |-> 0])]
    @@ [k \in {"tuning"} \X BOOLEAN \X {0, 1, 10, 11} \X {{}, {15}, {16}} \X {"all", "selected"} |->
        FhScenario([Http("both", "ipv4", 1, 99, k[2], Three) EXCEPT !.repeat = k[3], !.fwmark = k[4], !.interface_mode = k[5]],
                   [max |-> 0])]
    @@ [k \in {"ports"} \X {"include", "exclude"} \X {0, 4, 255, 256} \X
              {<<>>, <<<<0, 1>>>>, <<<<2, 1>>>>, <<<<65000, 65535>>>>, <<<<7, 7>>, <<1, 65536>>>>} |->
        FsScenario(Sip("both", "ipv4", 1, 0, TRUE, k[2], k[4], k[3]), [max |-> 0])]
    @@ [k \in {"names"} \X {0, 1, 15, 16} |->
        FsScenario([Sip("both", "ipv4", 1, 0, TRUE, "all", <<>>, 0)
                        EXCEPT !.interfaces = IF k[2] = 0 THEN <<>> ELSE <<[id |-> 1, len |-> k[2]]>>], [max |-> 0])]

\* Command lines that the init scripts do not write.
Payload9 == <<"b", [id |-> "f", len |-> 9]>>
CommandLines ==
    <<<<>>, <<<<"a", 0>>>>, <<<<"a", 0>>, Payload9, <<"z", 0>>>>, <<<<"a", 0>>, Payload9, <<"g", 0>>, <<"y", 9>>>>,
      <<<<"a", 0>>, <<"k", 0>>>>, <<<<"i", Eth(1)>>, <<"f", 0>>, Payload9, Payload9, <<"m", {3}>>>>>>
Lines ==
    [k \in {"line"} \X {"fakehttp", "fakesip"} \X DOMAIN CommandLines |->
        [prog |-> k[2], byUci |-> FALSE, args |-> CommandLines[k[3]], max |-> 2] @@ Plain]

MCScenarios == Paths @@ Ways @@ Bits @@ Edges @@ Lines
====
