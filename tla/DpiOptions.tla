---- MODULE DpiOptions ----
(***************************************************************************)
(* From the UCI section of a DPI service to the context its daemon runs    *)
(* with: the init script validates the section and writes the command      *)
(* line, main() reads that and refuses what it cannot work with, and the   *)
(* payloads are built and put into a ring.                                 *)
(*                                                                         *)
(* A command line is a sequence of pairs <<option, argument>>.  A mark is  *)
(* its set of bits, an interface name its length and identity, a payload   *)
(* what it is and its length in bytes, a port list a sequence of ranges.   *)
(***************************************************************************)
EXTENDS Integers, Sequences, FiniteSets

IFNAMSIZ == 16
BUFFLEN == 1200

FhContext ==
    [inbound |-> FALSE, outbound |-> FALSE, use_ipv4 |-> FALSE, use_ipv6 |-> FALSE,
     alliface |-> FALSE, iface |-> <<>>, plinfo |-> <<>>, fwmark |-> {15}, fwmask |-> {},
     repeat |-> 2, ttl |-> 3, dynamic_pct |-> 0, nohopest |-> FALSE, use_iptables |-> FALSE,
     skipfw |-> FALSE, killproc |-> FALSE, port_white |-> {}, port_black |-> {}, ok |-> TRUE]

FsContext == [FhContext EXCEPT !.fwmark = {16}]

Refused(ctx) == [ctx EXCEPT !.ok = FALSE]
If(cond, ctx, new) == IF cond THEN new ELSE Refused(ctx)

---------------------------------------------------------------------------
(* main(): getopt *)

Switches == [o \in {"0", "1", "4", "6", "a", "f", "g", "k", "z"} |->
    CASE o = "0" -> "inbound"  [] o = "1" -> "outbound" [] o = "4" -> "use_ipv4"
      [] o = "6" -> "use_ipv6" [] o = "a" -> "alliface" [] o = "f" -> "skipfw"
      [] o = "g" -> "nohopest" [] o = "k" -> "killproc" [] o = "z" -> "use_iptables"]

Number(ctx, o, v) ==
    CASE o = "m" -> If(v # {}, ctx, [ctx EXCEPT !.fwmark = v])
      [] o = "x" -> If(v # {}, ctx, [ctx EXCEPT !.fwmask = v])
      [] o = "r" -> If(v \in 1..10, ctx, [ctx EXCEPT !.repeat = v])
      [] o = "t" -> If(v \in 1..255, ctx, [ctx EXCEPT !.ttl = v])
      [] o = "y" -> If(v \in 1..99, ctx, [ctx EXCEPT !.dynamic_pct = v])

\* The name fits the kernel's buffer.
Interface(ctx, v) == If(v.len \in 1..IFNAMSIZ - 1, ctx, [ctx EXCEPT !.iface = Append(@, v)])

\* The argument is not empty; the file that -b names may be.
FhPayload(ctx, o, v) ==
    If(o = "b" \/ v.len > 0, ctx, [ctx EXCEPT !.plinfo = Append(@,
        [type |-> CASE o = "b" -> "custom" [] o = "e" -> "https" [] o = "h" -> "http", info |-> v])])

FsPayload(ctx, o, v) ==
    If(o = "b" \/ v.len > 0, ctx, [ctx EXCEPT !.plinfo = Append(@,
        [type |-> IF o = "b" THEN "custom" ELSE "sip", info |-> v])])

\* portmap.c; no map at all stays {}: it filters nothing.
portmap_parse(map, spec) == map \cup UNION {spec[k][1]..spec[k][2] : k \in DOMAIN spec}
portmap_valid(spec) ==
    \A k \in DOMAIN spec : 1 <= spec[k][1] /\ spec[k][1] <= spec[k][2] /\ spec[k][2] <= 65535
portmap_get(map, port) == port \in map

Ports(ctx, o, spec) ==
    If(portmap_valid(spec), ctx,
       IF o = "p" THEN [ctx EXCEPT !.port_white = portmap_parse(@, spec)]
                  ELSE [ctx EXCEPT !.port_black = portmap_parse(@, spec)])

FhOption(ctx, arg) ==
    LET o == arg[1]
        v == arg[2]
    IN  CASE ~ctx.ok -> ctx
          [] o \in DOMAIN Switches -> [ctx EXCEPT ![Switches[o]] = TRUE]
          [] o \in {"b", "e", "h"} -> FhPayload(ctx, o, v)
          [] o = "i" -> Interface(ctx, v)
          [] o \in {"m", "r", "t", "x", "y"} -> Number(ctx, o, v)
          [] OTHER -> Refused(ctx)

FsOption(ctx, arg) ==
    LET o == arg[1]
        v == arg[2]
    IN  CASE ~ctx.ok -> ctx
          [] o \in DOMAIN Switches -> [ctx EXCEPT ![Switches[o]] = TRUE]
          [] o \in {"b", "u"} -> FsPayload(ctx, o, v)
          [] o = "i" -> Interface(ctx, v)
          [] o \in {"m", "r", "t", "x", "y"} -> Number(ctx, o, v)
          [] o \in {"p", "P"} -> Ports(ctx, o, v)
          [] OTHER -> Refused(ctx)

Option(prog, ctx, arg) == IF prog = "fakehttp" THEN FhOption(ctx, arg) ELSE FsOption(ctx, arg)

\* The loop around getopt: the context after the options, one by one.
Getopt(prog, ctx, args) ==
    LET after[n \in 0..Len(args)] == IF n = 0 THEN ctx ELSE Option(prog, after[n - 1], args[n])
    IN  after[Len(args)]

---------------------------------------------------------------------------
(* main(): the checks behind getopt.  With -k the process only signals the *)
(* others and ends.                                                        *)

Defaults(ctx) ==
    LET directed == IF ctx.inbound \/ ctx.outbound THEN ctx
                    ELSE [ctx EXCEPT !.inbound = TRUE, !.outbound = TRUE]
        families == IF ctx.use_ipv4 \/ ctx.use_ipv6 THEN directed
                    ELSE [directed EXCEPT !.use_ipv4 = TRUE, !.use_ipv6 = TRUE]
    IN  IF ctx.fwmask # {} THEN families ELSE [families EXCEPT !.fwmask = ctx.fwmark]

Consistent(ctx) ==
    /\ ~ctx.killproc /\ ctx.fwmark \subseteq ctx.fwmask
    /\ ctx.alliface \/ ctx.iface # <<>>
    /\ ctx.dynamic_pct = 0 \/ ~ctx.nohopest

FhChecks(ctx) ==
    If(Consistent(Defaults(ctx)) /\ ctx.plinfo # <<>>, ctx, Defaults(ctx))

\* Without a payload the daemon makes up a SIP URI.
FsChecks(ctx) ==
    LET made == [Defaults(ctx) EXCEPT !.plinfo =
                    IF @ = <<>> THEN <<[type |-> "sip", info |-> [id |-> "random", len |-> 22]]>> ELSE @]
    IN  If(Consistent(made), ctx, made)

FhParse(args) == FhChecks(Getopt("fakehttp", FhContext, args))
FsParse(args) == FsChecks(Getopt("fakesip", FsContext, args))

---------------------------------------------------------------------------
(* payload.c *)

HttpFixed == 164     \* bytes around the host name
HelloSpace == 262    \* of the SNI extension, the two heads taken off
SipFixed == 418      \* bytes around the URI, the random numbers at their longest

\* Variant: the file may fill the buffer.
make_custom_full(info) == info.len <= BUFFLEN
\* The read stops when the buffer is full, before the end of the file is seen.
make_custom(info) == info.len < BUFFLEN
make_http_get(info) == HttpFixed + info.len < BUFFLEN
make_tls_client_hello(info) == info.len <= HelloSpace
\* The URI stands in it twice, and once more without "sip:".
make_sip_invite(info) == SipFixed + 3 * info.len - 4 < BUFFLEN

PayloadLen(p) ==
    CASE p.type = "custom" -> p.info.len [] p.type = "http" -> HttpFixed + p.info.len
      [] p.type = "https" -> 390         [] p.type = "sip" -> SipFixed + 3 * p.info.len - 4

\* Every payload can be built.
fh_payload_setup(ctx) == \A k \in DOMAIN ctx.plinfo :
    LET p == ctx.plinfo[k] IN
    CASE p.type = "custom" -> make_custom(p.info)
      [] p.type = "http"   -> make_http_get(p.info)
      [] p.type = "https"  -> make_tls_client_hello(p.info)

fs_payload_setup(ctx) == \A k \in DOMAIN ctx.plinfo :
    LET p == ctx.plinfo[k] IN
    CASE p.type = "custom" -> make_custom(p.info)
      [] p.type = "sip"    -> make_sip_invite(p.info)

\* A new node goes behind the first one.
Link(next, k) == [i \in 1..k |-> CASE i = 1 -> k [] i = k /\ k > 1 -> next[1] [] OTHER -> next[i]]
Ring(ctx) ==
    LET next[n \in 0..Len(ctx.plinfo)] == IF n = 0 THEN <<>> ELSE Link(next[n - 1], n)
    IN  next[Len(ctx.plinfo)]
\* The setup goes one step further when all of them are in.
First(ring) == IF ring = <<>> THEN 0 ELSE ring[1]

---------------------------------------------------------------------------
(* The init scripts.  A row is [enabled, type, info]; .wan4 and .wan6 say  *)
(* for which families the resolver has found a device.                     *)

\* The members at the places that are kept.
At(s, places) ==
    LET kept[n \in 0..Len(s)] ==
            IF n = 0 THEN <<>> ELSE IF n \in places THEN Append(kept[n - 1], s[n]) ELSE kept[n - 1]
    IN  kept[Len(s)]

Distinct(ifaces) == At(ifaces, {k \in DOMAIN ifaces : \A j \in 1..k - 1 : ifaces[j] # ifaces[k]})

Args(o, vs) == [k \in DOMAIN vs |-> <<o, vs[k]>>]
Flag(o, set) == IF set THEN <<<<o, 0>>>> ELSE <<>>

FamilyArgs(uci) ==
    IF uci.interface_mode = "auto" THEN Flag("4", uci.wan4) \o Flag("6", uci.wan6)
    ELSE Flag("4", uci.family \in {"ipv4", "dual"}) \o Flag("6", uci.family \in {"ipv6", "dual"})

TuningArgs(uci) ==
    <<<<"r", uci.repeat>>, <<"t", uci.ttl>>, <<"m", uci.fwmark>>, <<"x", uci.fwmask>>>>
        \o Flag("g", ~uci.hop_estimation)
        \o (IF uci.dynamic_ttl_pct = 0 THEN <<>> ELSE <<<<"y", uci.dynamic_ttl_pct>>>>)

Rows(uci) == At(uci.rows, {k \in DOMAIN uci.rows : uci.rows[k].enabled})
RowOption == [http |-> "h", https |-> "e", binary |-> "b"]

\* Backwards, as the ring will turn them round.
FhRows(uci) == LET rows == Rows(uci) IN [k \in 1..Len(rows) |-> rows[Len(rows) + 1 - k]]

FhArgs(uci) ==
    (IF uci.interface_mode = "all" THEN Flag("a", TRUE) ELSE Args("i", Distinct(uci.interfaces)))
        \o Flag("0", uci.direction \in {"inbound", "both"}) \o Flag("1", uci.direction \in {"outbound", "both"})
        \o FamilyArgs(uci)
        \o [k \in DOMAIN Rows(uci) |-> <<RowOption[FhRows(uci)[k].type], FhRows(uci)[k].info>>]
        \o TuningArgs(uci)

\* Variant: a direction goes by its name.
FsDirectionByName(uci) ==
    Flag("0", uci.direction \in {"inbound", "both"}) \o Flag("1", uci.direction \in {"outbound", "both"})
\* The daemon takes PACKET_HOST for outbound and PACKET_OUTGOING for inbound.
FsDirection(uci) ==
    Flag("0", uci.direction \in {"outbound", "both"}) \o Flag("1", uci.direction \in {"inbound", "both"})

FsArgs(uci) ==
    Args("i", Distinct(uci.interfaces)) \o FsDirection(uci) \o FamilyArgs(uci)
        \o (CASE uci.port_mode = "include" -> <<<<"p", uci.ports>>>>
              [] uci.port_mode = "exclude" -> <<<<"P", uci.ports>>>>
              [] uci.port_mode = "all"     -> <<>>)
        \o (IF uci.payload_mode = "custom_uri" THEN <<<<"u", uci.sip_uri>>>> ELSE <<>>)
        \o TuningArgs(uci)

ValidTuning(uci) ==
    /\ uci.direction \in {"inbound", "outbound", "both"} /\ uci.family \in {"ipv4", "ipv6", "dual"}
    /\ uci.repeat \in 1..10 /\ uci.ttl \in 1..255 /\ uci.dynamic_ttl_pct \in 0..99
    /\ uci.hop_estimation \/ uci.dynamic_ttl_pct = 0
    /\ uci.fwmark # {} /\ uci.fwmark \subseteq uci.fwmask
    /\ uci.interface_mode = "auto" => uci.wan4 \/ uci.wan6
    /\ uci.interface_mode # "all" => uci.interfaces # <<>>
    /\ \A k \in DOMAIN uci.interfaces : uci.interfaces[k].len \in 1..15

\* A host name has at most 253 characters.
ValidRow(row) ==
    /\ row.type \in DOMAIN RowOption
    /\ row.info.len \in IF row.type = "binary" THEN 1..1200 ELSE 1..253

fh_validate_config(uci) ==
    /\ uci.interface_mode \in {"auto", "selected", "all"} /\ ValidTuning(uci)
    /\ Rows(uci) # <<>> /\ \A k \in DOMAIN Rows(uci) : ValidRow(Rows(uci)[k])

fs_validate_config(uci) ==
    /\ uci.interface_mode \in {"auto", "selected"} /\ ValidTuning(uci)
    /\ uci.port_mode \in {"include", "exclude"} => uci.ports # <<>> /\ portmap_valid(uci.ports)
    /\ uci.port_mode \in {"include", "exclude", "all"}
    /\ uci.payload_mode = "auto" \/ (uci.payload_mode = "custom_uri" /\ uci.sip_uri.len \in 5..255)
====
