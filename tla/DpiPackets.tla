---- MODULE DpiPackets ----
(***************************************************************************)
(* What a DPI daemon does with the packets of its queue.  fakehttp answers *)
(* the SYN-ACK of a TCP connection with decoys, fakesip every UDP packet;  *)
(* the decoys' TTL takes them past the local network and, by what is known *)
(* of the distance to the peer, not as far as the peer.                    *)
(*                                                                         *)
(* A daemon is one thread: a packet is handled in one step, which may fail *)
(* at each of its sends.  Between two packets the peers, their distance    *)
(* and the interface change at will.  A scenario is a program with its UCI *)
(* section, or a command line, and the packets it meets.                   *)
(***************************************************************************)
EXTENDS DpiOptions, SourceTable

CONSTANTS
    Scenarios,    \* a function to records
    Peers,        \* addresses: [family, host]
    Initial,      \* the TTL that each peer's system starts from
    MaxFails,     \* bound: sends and binds that fail
    MaxReroutes   \* bound: changes of a distance

Listed(f) == f \in Seq({f[k] : k \in DOMAIN f})

ASSUME PacketsAssumption ==
    /\ Initial \in [Peers -> {64, 128, 255}]
    /\ \A a \in Peers : a.family \in {"ip", "ip6"}
    /\ MaxFails \in Nat /\ MaxReroutes \in Nat
    /\ \A k \in DOMAIN Scenarios : LET s == Scenarios[k] IN
          /\ s.prog \in {"fakehttp", "fakesip"}
          /\ s.dists \subseteq 1..63 /\ s.max \in Nat /\ s.nft \subseteq BOOLEAN /\ s.ifaces \subseteq Nat
          /\ s.peers \subseteq Peers /\ s.options \subseteq Seq(0..255) /\ s.ports \subseteq Nat \X Nat
          /\ s.byUci \in BOOLEAN /\ Listed(s.args)
          /\ s.byUci => /\ Listed(s.uci.interfaces)
                        /\ IF s.prog = "fakehttp" THEN Listed(s.uci.rows) ELSE s.uci.ports \in Seq(Nat \X Nat)

VARIABLES
    sc,             \* the scenario
    status,         \* "invalid": the script starts nothing; "refused": main() ends
    ctx,            \* g_ctx
    ring, current_node,
    bound,          \* fakesip: sock4if, sock6if
    dist,           \* the hops to each peer
    draws,          \* history: payloads taken so far
    out,            \* the last packet and what has become of it
    packets, fails, reroutes

daemon == <<table, ring, current_node, bound, draws>>
fixed == <<sc, status, ctx>>
vars == <<fixed, daemon, dist, out, packets, fails, reroutes>>

Scene == Scenarios[sc]

CommandLine(s) ==
    IF ~s.byUci THEN s.args ELSE IF s.prog = "fakehttp" THEN FhArgs(s.uci) ELSE FsArgs(s.uci)
Context(s) ==
    IF s.prog = "fakehttp" THEN FhParse(CommandLine(s)) ELSE FsParse(CommandLine(s))
Valid(s) == s.byUci => IF s.prog = "fakehttp" THEN fh_validate_config(s.uci) ELSE fs_validate_config(s.uci)
Builds(s, c) == IF s.prog = "fakehttp" THEN fh_payload_setup(c) ELSE fs_payload_setup(c)

\* fh_nfrules_setup: iptables when nft does not work.
FallBack(nft, c) == IF nft \/ c.skipfw THEN c ELSE [c EXCEPT !.use_iptables = TRUE]

NoPacket == [type |-> "none"]

Init ==
    /\ sc \in DOMAIN Scenarios
    /\ \E nft \in Scene.nft : ctx = FallBack(nft, IF Valid(Scene) THEN Context(Scene) ELSE FhContext)
    /\ status = CASE ~Valid(Scene) -> "invalid"
                  [] Valid(Scene) /\ ~(ctx.ok /\ Builds(Scene, ctx)) -> "refused"
                  [] OTHER -> "serving"
    /\ ring = Ring(ctx) /\ current_node = First(ring)
    /\ srcinfo_setup
    /\ bound = [f \in {"ip", "ip6"} |-> 0]
    /\ dist \in [Scene.peers -> Scene.dists]
    /\ draws = 0 /\ packets = 0 /\ fails = 0 /\ reroutes = 0
    /\ out = [pkt |-> NoPacket, verdict |-> "none", sent |-> <<>>, options |-> <<>>]

---------------------------------------------------------------------------
(* Hops and TTLs *)

hop_estimate(ttl) == IF ttl <= 64 THEN 64 - ttl ELSE IF ttl <= 128 THEN 128 - ttl ELSE 255 - ttl

calc_snd_ttl(hops) ==
    LET snd_ttl == (hops * ctx.dynamic_pct) \div 100 IN
    IF ctx.dynamic_pct # 0 /\ snd_ttl > ctx.ttl THEN snd_ttl ELSE ctx.ttl

\* Variant: a decoy for the neighbours as well.
LocalNever(ttl) == FALSE
\* The peer is so near that a decoy would arrive.
Local(ttl) == ~ctx.nohopest /\ hop_estimate(ttl) <= ctx.ttl
SndTtl(ttl) == IF ctx.nohopest THEN ctx.ttl ELSE calc_snd_ttl(hop_estimate(ttl))

---------------------------------------------------------------------------
(* TCP options, byte by byte *)

NOP == 1
Cookie == 34

\* Variant: one byte too many.
OptionBytesPast(o, i) == i..i + o[i + 1]
OptionBytes(o, i) == i..i + o[i + 1] - 1

\* The positions that become NOPs.
CookieBytes(o) ==
    LET scan[i \in 1..Len(o) + 1] ==
            IF i > Len(o) THEN {}
            ELSE IF o[i] \in {0, NOP} THEN scan[i + 1]
            ELSE IF i = Len(o) THEN {}
            ELSE IF o[i + 1] < 2 \/ i + o[i + 1] - 1 > Len(o) THEN {}
            ELSE (IF o[i] = Cookie THEN OptionBytes(o, i) ELSE {}) \cup scan[i + o[i + 1]]
    IN  scan[1]

remove_tfo_cookie(o) ==
    LET gone == CookieBytes(o) IN [i \in 1..Len(o) |-> IF i \in gone THEN NOP ELSE o[i]]

---------------------------------------------------------------------------
(* Packets.  .len is the whole length, .ihl and .doff the header lengths   *)
(* they claim, in words.                                                   *)

fh_pkt4_parse(p) ==
    /\ p.len >= 20 /\ p.ihl * 4 >= 20 /\ p.proto = "tcp" /\ p.len >= p.ihl * 4 + 20
    /\ p.doff >= 5 /\ p.len >= p.ihl * 4 + p.doff * 4

fh_pkt6_parse(p) ==
    /\ p.len >= 40 /\ p.proto = "tcp" /\ p.len >= 40 + 20
    /\ p.doff >= 5 /\ p.len >= 40 + p.doff * 4

fs_pkt4_parse(p) == p.len >= 20 /\ p.ihl * 4 >= 20 /\ p.proto = "udp" /\ p.len >= p.ihl * 4 + 8

fs_pkt6_parse(p) == p.len >= 40 /\ p.proto = "udp" /\ p.len >= 40 + 8

Parses(p) ==
    LET http == Scene.prog = "fakehttp" IN
    \/ /\ ctx.use_ipv4 /\ p.peer.family = "ip"
       /\ IF http THEN fh_pkt4_parse(p) ELSE fs_pkt4_parse(p)
    \/ /\ ctx.use_ipv6 /\ p.peer.family = "ip6"
       /\ IF http THEN fh_pkt6_parse(p) ELSE fs_pkt6_parse(p)

SEQ == 256    \* stands for 2^32

Payload == ctx.plinfo[current_node]

fh_pkt4_make(p, ttl, seq, ack) ==
    [what |-> "decoy", peer |-> p.peer, len |-> 20 + 20 + PayloadLen(Payload), ttl |-> ttl,
     seq |-> seq, ack |-> ack, payload |-> Payload]

fh_pkt6_make(p, ttl, seq, ack) ==
    [what |-> "decoy", peer |-> p.peer, len |-> 40 + 20 + PayloadLen(Payload), ttl |-> ttl,
     seq |-> seq, ack |-> ack, payload |-> Payload]

fs_pkt4_make(p, ttl) ==
    [what |-> "decoy", peer |-> p.peer, len |-> 20 + 8 + PayloadLen(Payload), ttl |-> ttl,
     payload |-> Payload]

fs_pkt6_make(p, ttl) ==
    [what |-> "decoy", peer |-> p.peer, len |-> 40 + 8 + PayloadLen(Payload), ttl |-> ttl,
     payload |-> Payload]

---------------------------------------------------------------------------
(* Sending.  The sockets bear the mark; a link socket needs the neighbour, *)
(* a raw socket goes through the router's own output and SNAT.             *)

ByLink(p, hw, pkt) == [pkt |-> pkt, ifindex |-> p.ifindex, hw |-> hw, mark |-> ctx.fwmark, snat |-> FALSE]
ByRaw(ifindex, pkt) == [pkt |-> pkt, ifindex |-> ifindex, hw |-> 0, mark |-> ctx.fwmark, snat |-> TRUE]

Fail(failed) == IF failed THEN fails < MaxFails /\ fails' = fails + 1 ELSE UNCHANGED fails

th_payload_get == current_node' = ring[current_node] /\ draws' = draws + 1

Verdict(p, verdict, sent, options) ==
    out' = [pkt |-> p, verdict |-> verdict, sent |-> sent, options |-> options]

\* Nothing of the daemon's changes.
Pass(p) ==
    /\ Verdict(p, "ACCEPT", <<>>, p.options)
    /\ UNCHANGED <<daemon, fails>>

Times(n, pkt) == [k \in 1..n |-> pkt]

---------------------------------------------------------------------------
(* fh_rawsend_handle *)

FhDecoy(p, ttl, seq, ack) ==
    IF p.peer.family = "ip" THEN fh_pkt4_make(p, ttl, seq, ack) ELSE fh_pkt6_make(p, ttl, seq, ack)

\* A peer accepts a connection of ours.
FhHostSynAck(p) ==
    /\ p.type = "host" /\ p.kind = "synack"
    /\ IF ~ctx.outbound \/ Local(p.ttl) THEN Pass(p)
       ELSE /\ th_payload_get
            /\ \E n \in 0..ctx.repeat :
                  /\ Fail(n < ctx.repeat)
                  /\ Verdict(p, "ACCEPT", Times(n, ByLink(p, p.hw,
                        FhDecoy(p, SndTtl(p.ttl), p.ack, (p.seq + 1) % SEQ))), p.options)
            /\ UNCHANGED <<table, ring, bound>>

\* The original follows the decoys by the same socket: a firewall rule of iptables
\* sees it before its source is translated.
FhSend(p, hw, pkt) == IF ctx.use_iptables THEN ByRaw(p.ifindex, pkt) ELSE ByLink(p, hw, pkt)

\* We accept a connection of a peer's: the decoys first, then the packet itself;
\* when one of them fails the packet goes its own way.
FhOutgoingSynAck(p) ==
    /\ p.type = "outgoing" /\ p.kind = "synack"
    /\ LET known == srcinfo_get(p.peer)
           decoy == FhSend(p, known.hw, FhDecoy(p, SndTtl(known.ttl), (p.seq + 1) % SEQ, p.ack))
           original == FhSend(p, known.hw, [what |-> "original", peer |-> p.peer])
       IN  IF ~ctx.inbound \/ ~srcinfo_available(p.peer) THEN Pass(p)
           ELSE IF Local(known.ttl) THEN Pass(p)
           ELSE /\ th_payload_get
                /\ \/ \E n \in 0..ctx.repeat :
                        Fail(TRUE) /\ Verdict(p, "ACCEPT", Times(n, decoy), p.options)
                   \/ Fail(FALSE) /\ Verdict(p, "DROP", Append(Times(ctx.repeat, decoy), original), p.options)
                /\ UNCHANGED <<table, ring, bound>>

\* A peer opens a connection.
FhHostSyn(p) ==
    /\ p.type = "host" /\ p.kind = "syn"
    /\ IF ~ctx.inbound THEN Pass(p)
       ELSE /\ srcinfo_put([initialized |-> TRUE, addr |-> p.peer, ttl |-> p.ttl, hw |-> p.hw,
                            dist |-> dist[p.peer], ifindex |-> p.ifindex])
            /\ Verdict(p, "ACCEPT", <<>>, remove_tfo_cookie(p.options))
            /\ UNCHANGED <<ring, current_node, bound, draws, fails>>

\* We open one.
FhOutgoingSyn(p) ==
    /\ p.type = "outgoing" /\ p.kind = "syn"
    /\ Verdict(p, "ACCEPT", <<>>, IF ctx.outbound THEN remove_tfo_cookie(p.options) ELSE p.options)
    /\ UNCHANGED <<daemon, fails>>

FhOther(p) == p.kind \notin {"syn", "synack"} /\ Pass(p)

---------------------------------------------------------------------------
(* fs_rawsend_handle *)

FsDecoy(p, ttl) == IF p.peer.family = "ip" THEN fs_pkt4_make(p, ttl) ELSE fs_pkt6_make(p, ttl)

Skipped(p) ==
    \/ ctx.port_white # {} /\ ~(portmap_get(ctx.port_white, p.sport) \/ portmap_get(ctx.port_white, p.dport))
    \/ ctx.port_black # {} /\ (portmap_get(ctx.port_black, p.sport) \/ portmap_get(ctx.port_black, p.dport))

FsSkip(p) == Skipped(p) /\ Pass(p)

\* The peer is remembered whatever the direction that is worked on.
FsHost(p) ==
    /\ p.type = "host" /\ ~Skipped(p)
    /\ srcinfo_put([initialized |-> TRUE, addr |-> p.peer, ttl |-> p.ttl, hw |-> p.hw,
                    dist |-> dist[p.peer], ifindex |-> p.ifindex])
    /\ IF ~ctx.outbound \/ Local(p.ttl)
       THEN Verdict(p, "ACCEPT", <<>>, p.options) /\ UNCHANGED <<current_node, draws, fails>>
       ELSE /\ th_payload_get
            /\ \E n \in 0..ctx.repeat :
                  /\ Fail(n < ctx.repeat)
                  /\ Verdict(p, "ACCEPT", Times(n, ByLink(p, p.hw, FsDecoy(p, SndTtl(p.ttl)))), p.options)
    /\ UNCHANGED <<ring, bound>>

\* sendto_snat: one socket per family, bound anew when the interface is another one.
FsBind(f, i) == bound' = [bound EXCEPT ![f] = i]

\* A peer that has not been heard counts as 64 hops away.  A decoy that a firewall
\* rule keeps back (EPERM) counts as sent; here it is one of those that are missing.
FsOutgoing(p) ==
    /\ p.type = "outgoing" /\ ~Skipped(p)
    /\ LET src_ttl == IF srcinfo_available(p.peer) THEN srcinfo_get(p.peer).ttl ELSE 0
           f == p.peer.family
       IN  IF ~ctx.inbound \/ Local(src_ttl) THEN Pass(p)
           ELSE /\ th_payload_get
                /\ \/ bound[f] # p.ifindex /\ Fail(TRUE) /\ Verdict(p, "ACCEPT", <<>>, p.options) /\ UNCHANGED bound
                   \/ /\ FsBind(f, p.ifindex)
                      /\ \E n \in 0..ctx.repeat :
                            /\ Fail(n < ctx.repeat)
                            /\ Verdict(p, "ACCEPT", Times(n, ByRaw(bound'[f], FsDecoy(p, SndTtl(src_ttl)))), p.options)
                /\ UNCHANGED <<table, ring>>

---------------------------------------------------------------------------

\* nfqueue's callback: a packet without an interface, or one that does not parse,
\* is let go as it is.
Unusable(p) == (p.ifindex = 0 \/ ~Parses(p)) /\ Pass(p)

FakeHttp(p) ==
    /\ Scene.prog = "fakehttp" /\ p.ifindex # 0 /\ Parses(p)
    /\ FhHostSynAck(p) \/ FhOutgoingSynAck(p) \/ FhHostSyn(p) \/ FhOutgoingSyn(p) \/ FhOther(p)

FakeSip(p) ==
    /\ Scene.prog = "fakesip" /\ p.ifindex # 0 /\ Parses(p)
    /\ FsSkip(p) \/ FsHost(p) \/ FsOutgoing(p)

callback(p) ==
    /\ packets' = packets + 1
    /\ Unusable(p) \/ FakeHttp(p) \/ FakeSip(p)
    /\ UNCHANGED <<fixed, dist, reroutes>>

\* What may arrive: the TTL tells the distance; faults are headers cut short, an
\* offset below the fixed header, another protocol.
Packet(type, peer, kind, ifindex, options, ports, fault) ==
    LET least == (IF peer.family = "ip" THEN 20 ELSE 40) + (IF kind = "udp" THEN 8 ELSE 20) IN
    [type |-> type, peer |-> peer, kind |-> kind, ifindex |-> ifindex, options |-> options,
     ttl |-> IF type = "host" THEN Initial[peer] - dist[peer] ELSE 64,
     hw |-> ifindex, seq |-> SEQ - 1, ack |-> 7, sport |-> ports[1], dport |-> ports[2],
     proto |-> IF (kind = "udp") # (fault = "protocol") THEN "udp" ELSE "tcp",
     ihl |-> 5, doff |-> IF fault = "offset" THEN 4 ELSE 5 + Len(options) \div 4,
     len |-> least + Len(options) - (IF fault = "cut" THEN 1 ELSE 0)]

Packets ==
    {Packet(type, peer, kind, ifindex, options, ports, fault) :
        type \in {"host", "outgoing"}, peer \in Scene.peers, kind \in Scene.kinds, ifindex \in Scene.ifaces,
        options \in Scene.options, ports \in Scene.ports, fault \in Scene.faults \cup {"none"}}

\* The way to a peer changes.
Reroute(peer) ==
    /\ reroutes < MaxReroutes /\ reroutes' = reroutes + 1
    /\ \E d \in Scene.dists : dist' = [dist EXCEPT ![peer] = d]
    /\ UNCHANGED <<fixed, daemon, out, packets, fails>>

Next ==
    /\ status = "serving" /\ packets < Scene.max
    /\ \/ \E p \in Packets : callback(p)
       \/ \E peer \in Scene.peers : Reroute(peer)

Spec == Init /\ [][Next]_vars

---------------------------------------------------------------------------
(* Properties *)

Decoys == {k \in DOMAIN out.sent : out.sent[k].pkt.what = "decoy"}

\* What the option parser lets through.
Tuned == ctx.ttl \in 1..255 /\ ctx.dynamic_pct \in 0..99 /\ ctx.repeat \in 1..10

TypeOK ==
    /\ status = "serving" => Tuned
    /\ sc \in DOMAIN Scenarios /\ status \in {"invalid", "refused", "serving"}
    /\ srci \in [0..CAPACITY - 1 -> {Unused} \cup {heard[k] : k \in DOMAIN heard}]
    /\ srci_end \in 0..CAPACITY - 1
    /\ status = "serving" => current_node \in DOMAIN ctx.plinfo /\ ring \in [DOMAIN ctx.plinfo -> DOMAIN ctx.plinfo]
    /\ bound \in [{"ip", "ip6"} -> Scene.ifaces \cup {0}]
    /\ dist \in [Scene.peers -> Scene.dists]
    /\ out.verdict \in {"none", "ACCEPT", "DROP"} /\ Len(out.sent) <= 11
    /\ draws \in 0..packets /\ packets \in 0..Scene.max /\ fails \in 0..MaxFails /\ reroutes \in 0..MaxReroutes

\* What the init script lets through the daemon starts with ("fwmark must fit inside
\* its mask", a URI of 255 characters in a buffer of 1200, the longest interface
\* name), but for one case: a file of exactly 1200 bytes fills the buffer of the
\* daemon and is refused as too long.
ValidStarts ==
    Scene.byUci /\ Valid(Scene) =>
        (status = "serving" <=> Scene.prog = "fakesip" \/ \A k \in DOMAIN Rows(Scene.uci) :
            Rows(Scene.uci)[k].type = "binary" => Rows(Scene.uci)[k].info.len # 1200)

\* The lookup walks from the newest record to the oldest: it finds what was last
\* heard of an address, for as long as the ring has not come round.
LookupNewest ==
    \A a \in Peers :
        /\ srcinfo_available(a) <=> \E k \in DOMAIN heard : NewestOf(a, k)
        /\ \A k \in DOMAIN heard : NewestOf(a, k) => srcinfo_get(a) = heard[k]

\* With hop estimation on, no decoy reaches the peer: its TTL is below the distance
\* that the packet itself, or the newest one heard of the peer, has come.
DecoyFallsShort ==
    \A k \in Decoys : ~ctx.nohopest =>
        LET p == out.pkt IN
        /\ p.type = "host" => out.sent[k].pkt.ttl < Initial[p.peer] - p.ttl
        /\ p.type = "outgoing" => \A m \in DOMAIN heard :
                NewestOf(p.peer, m) => out.sent[k].pkt.ttl < heard[m].dist

\* Whose packets are answered with decoys, in the words of the UCI section: fakehttp
\* goes by who opens the connection, fakesip by where the packet comes from.
Side(p) ==
    IF Scene.prog = "fakehttp" THEN IF p.type = "host" THEN "outbound" ELSE "inbound"
    ELSE IF p.type = "host" THEN "inbound" ELSE "outbound"

InRanges(ranges, port) == \E r \in {ranges[k] : k \in DOMAIN ranges} : r[1] <= port /\ port <= r[2]

Meant(p) ==
    LET u == Scene.uci IN
    /\ u.direction \in {Side(p), "both"}
    /\ IF u.interface_mode = "auto" THEN IF p.peer.family = "ip" THEN u.wan4 ELSE u.wan6
       ELSE u.family \in {"dual", IF p.peer.family = "ip" THEN "ipv4" ELSE "ipv6"}
    /\ IF Scene.prog = "fakehttp" THEN p.kind = "synack"
       ELSE /\ u.port_mode = "include" => InRanges(u.ports, p.sport) \/ InRanges(u.ports, p.dport)
            /\ u.port_mode = "exclude" => ~InRanges(u.ports, p.sport) /\ ~InRanges(u.ports, p.dport)

\* The peer is known to be beyond the TTL of the section.
Beyond(p) ==
    \/ ~Scene.uci.hop_estimation /\ (Scene.prog = "fakesip" \/ p.type = "host" \/ srcinfo_available(p.peer))
    \/ p.type = "host" /\ Initial[p.peer] - p.ttl > Scene.uci.ttl
    \/ p.type = "outgoing" /\ \E m \in DOMAIN heard : NewestOf(p.peer, m) /\ heard[m].dist > Scene.uci.ttl

\* Decoys go out for the packets that the UCI section asks for and for no others,
\* as many as it asks for unless a send fails, to the peer, out of the interface the
\* packet itself is on, marked, in the place of the data that the connection will carry
\* next.  Their payloads are the section's, "rotated in their LuCI order"
\* (README.md:513): the script turns the rows round and the ring turns them back; the
\* copies of one decoy have the same payload, and a row that is listed twice comes twice
\* as often.
DecoysAsConfigured ==
    LET p == out.pkt IN Scene.byUci /\ p # NoPacket =>
        /\ Decoys # {} => Meant(p)
        /\ p.ifindex # 0 /\ Parses(p) /\ Meant(p) /\ Beyond(p) /\ fails = 0 => Cardinality(Decoys) = Scene.uci.repeat
        /\ \A k \in Decoys :
              LET s == out.sent[k]
                  decoy == s.pkt
              IN
              /\ decoy.peer = p.peer /\ s.ifindex = p.ifindex /\ s.mark = Scene.uci.fwmark
              /\ decoy.ttl >= Scene.uci.ttl /\ decoy.len <= 1280
              /\ Scene.prog = "fakehttp" =>
                    <<decoy.seq, decoy.ack>> = IF p.type = "host" THEN <<7, 0>> ELSE <<0, 7>>
              /\ IF Scene.prog = "fakesip" THEN Scene.uci.payload_mode = "custom_uri" => decoy.payload.info = Scene.uci.sip_uri
                 ELSE decoy.payload.info = Rows(Scene.uci)[((draws - 1) % Len(Rows(Scene.uci))) + 1].info

\* The options that the receiver of a segment finds.
Options(o) ==
    LET find[i \in 1..Len(o) + 1] ==
            IF i > Len(o) \/ o[i] = 0 THEN <<>>
            ELSE IF o[i] = NOP THEN find[i + 1]
            ELSE IF i = Len(o) \/ o[i + 1] < 2 \/ i + o[i + 1] - 1 > Len(o) THEN <<>>
            ELSE <<SubSeq(o, i, i + o[i + 1] - 1)>> \o find[i + o[i + 1]]
    IN  find[1]

Worked(p) ==
    /\ Scene.prog = "fakehttp" /\ p.ifindex # 0 /\ Parses(p)
    /\ p.kind = "syn" /\ IF p.type = "host" THEN ctx.inbound ELSE ctx.outbound

\* Every packet goes on exactly once, also when sending fails half-way: by its verdict,
\* or sent by the daemon after its decoys, then to the neighbour from which the peer
\* was heard if that was on the same interface.  What the receiver finds in it is what
\* was sent, except that a SYN of the directions worked on has lost its Fast Open
\* cookie and nothing else.
DeliveredOnce ==
    LET p == out.pkt
        copies == {k \in DOMAIN out.sent : out.sent[k].pkt.what = "original"}
    IN  p # NoPacket =>
        /\ IF out.verdict = "ACCEPT" THEN copies = {} ELSE copies = {Len(out.sent)}
        /\ \A k \in copies : ~out.sent[k].snat => \A m \in DOMAIN heard :
              NewestOf(p.peer, m) /\ heard[m].ifindex = p.ifindex => out.sent[k].hw = heard[m].hw
        /\ Len(out.options) = Len(p.options)
        /\ IF Worked(p) THEN Options(out.options) = At(Options(p.options), {k \in DOMAIN Options(p.options) : Options(p.options)[k][1] # Cookie})
           ELSE out.options = p.options
====
