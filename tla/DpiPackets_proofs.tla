---- MODULE DpiPackets_proofs ----
(***************************************************************************)
(* Proofs about modules DpiPackets, DpiOptions and SourceTable, for every  *)
(* capacity of the table, every set of peers and every scenario: command   *)
(* lines and UCI sections of any length included.                          *)
(*                                                                         *)
(*   The table      what a lookup finds                                    *)
(*   The parser     what gets through getopt, and the ring of payloads     *)
(*   The step       what a packet does; the types of the daemon            *)
(*   The distance   no decoy reaches the peer                              *)
(*   The script     what a valid section becomes; it starts the daemon     *)
(*   Delivery       every packet goes on once, with its options            *)
(*   The section    decoys go out as it asks for                           *)
(***************************************************************************)
EXTENDS DpiPackets, FiniteSetTheorems, WellFoundedInduction, TLAPS

---------------------------------------------------------------------------
(* The ring *)

\* A remainder by the capacity is never taken of more than one turn of the ring.
LEMMA Turn ==
    ASSUME NEW x \in 0..2 * CAPACITY - 1
    PROVE  x % CAPACITY = IF x < CAPACITY THEN x ELSE x - CAPACITY
  BY CapacityAssumption

\* What is put into the table.
Info == [initialized : {TRUE}, addr : Peers, ttl : Int, hw : Nat, dist : 1..63, ifindex : Nat]

\* The place of the record that is i records older than the newest one.
Back(end, i) == IF i < end THEN end - i - 1 ELSE end + CAPACITY - i - 1

\* The walk from the newest record backwards: the last CAPACITY that were put, each in
\* its place, and unused slots behind them.
RingHolds ==
    /\ heard \in Seq(Info)
    /\ srci_end \in 0..CAPACITY - 1
    /\ srci \in [0..CAPACITY - 1 -> Info \cup {Unused}]
    /\ \A i \in 0..CAPACITY - 1 :
          srci[Back(srci_end, i)] = IF i < Len(heard) THEN heard[Len(heard) - i] ELSE Unused

LEMMA SlotIs ==
    ASSUME RingHolds, NEW i \in 0..CAPACITY - 1
    PROVE  Slot(i) = IF i < Len(heard) THEN heard[Len(heard) - i] ELSE Unused
  <1> DEFINE x == srci_end + CAPACITY - i - 1
  <1>1. x \in 0..2 * CAPACITY - 1
    BY CapacityAssumption DEF RingHolds
  <1>2. x % CAPACITY = IF x < CAPACITY THEN x ELSE x - CAPACITY
    BY <1>1, Turn
  <1>3. x % CAPACITY = Back(srci_end, i)
    BY <1>2, CapacityAssumption DEF RingHolds, Back
  <1> QED BY <1>3 DEF RingHolds, Slot

\* Putting a record keeps the ring's form.
LEMMA PutKeepsRing ==
    ASSUME RingHolds, NEW info \in Info, srcinfo_put(info)
    PROVE  RingHolds'
  <1> DEFINE n == Len(heard)
  <1>1. n \in Nat /\ heard' \in Seq(Info) /\ Len(heard') = n + 1 /\ heard'[n + 1] = info
        /\ \A k \in 1..n : heard'[k] = heard[k]
    BY DEF RingHolds, srcinfo_put
  <1>2. srci_end' = IF srci_end + 1 < CAPACITY THEN srci_end + 1 ELSE 0
    <2> DEFINE x == srci_end + 1
    <2>1. x \in 0..2 * CAPACITY - 1 /\ x <= CAPACITY
      BY CapacityAssumption DEF RingHolds
    <2>2. x % CAPACITY = IF x < CAPACITY THEN x ELSE x - CAPACITY
      BY <2>1, Turn
    <2> QED BY <2>1, <2>2, CapacityAssumption DEF srcinfo_put
  <1>3. srci_end' \in 0..CAPACITY - 1 /\ srci' \in [0..CAPACITY - 1 -> Info \cup {Unused}]
    BY <1>2, CapacityAssumption DEF RingHolds, srcinfo_put
  <1>4. ASSUME NEW i \in 0..CAPACITY - 1
        PROVE  srci'[Back(srci_end', i)] = IF i < n + 1 THEN heard'[n + 1 - i] ELSE Unused
    <2>1. CASE i = 0
      <3>1. Back(srci_end', 0) = srci_end
        BY <1>2, CapacityAssumption DEF Back, RingHolds
      <3> QED BY <2>1, <3>1, <1>1 DEF RingHolds, srcinfo_put
    <2>2. CASE i # 0
      <3>1. i - 1 \in 0..CAPACITY - 1
        BY <2>2, CapacityAssumption
      <3>2. Back(srci_end', i) = Back(srci_end, i - 1)
        BY <1>2, <2>2, CapacityAssumption DEF Back, RingHolds
      <3>3. Back(srci_end, i - 1) # srci_end /\ Back(srci_end, i - 1) \in 0..CAPACITY - 1
        BY <2>2, CapacityAssumption DEF Back, RingHolds
      <3>4. srci'[Back(srci_end', i)] = srci[Back(srci_end, i - 1)]
        BY <3>2, <3>3 DEF RingHolds, srcinfo_put
      <3>5. srci[Back(srci_end, i - 1)] = IF i - 1 < n THEN heard[n - (i - 1)] ELSE Unused
        BY <3>1 DEF RingHolds
      <3>6. i - 1 < n => n - (i - 1) \in 1..n /\ n - (i - 1) = n + 1 - i
        BY <2>2, <1>1
      <3> QED BY <3>4, <3>5, <3>6, <1>1
    <2> QED BY <2>1, <2>2
  <1> QED BY <1>1, <1>3, <1>4 DEF RingHolds

\* A walk that ends after i others has found the newest record of the address.
LEMMA WalkFinds ==
    ASSUME RingHolds, NEW a, NEW i \in 0..CAPACITY - 1
    PROVE  FoundAt(a, i) <=> i < Len(heard) /\ NewestOf(a, Len(heard) - i)
  <1> DEFINE n == Len(heard)
  <1>1. n \in Nat /\ \A k \in 1..n : heard[k] \in Info
    BY DEF RingHolds
  <1>2. \A j \in 0..CAPACITY - 1 :
            /\ j < n => Slot(j) = heard[n - j] /\ Slot(j).initialized
            /\ j >= n => ~Slot(j).initialized
    <2> SUFFICES ASSUME NEW j \in 0..CAPACITY - 1
                 PROVE  /\ j < n => Slot(j) = heard[n - j] /\ Slot(j).initialized
                        /\ j >= n => ~Slot(j).initialized
      OBVIOUS
    <2>1. Slot(j) = IF j < n THEN heard[n - j] ELSE Unused
      BY SlotIs
    <2>2. j < n => heard[n - j] \in Info
      BY <1>1, CapacityAssumption
    <2>3. j < n => Slot(j) = heard[n - j] /\ Slot(j).initialized
      BY <2>1, <2>2 DEF Info
    <2>4. j >= n => Slot(j) = Unused
      BY <1>1, <2>1, CapacityAssumption
    <2> QED BY <2>3, <2>4 DEF Unused
  <1>3. ASSUME FoundAt(a, i)
        PROVE  i < n /\ NewestOf(a, n - i)
    <2>1. i < n /\ sameip(a, heard[n - i].addr)
      BY <1>1, <1>2, <1>3 DEF FoundAt
    <2>2. ASSUME NEW m \in n - i + 1..n
          PROVE  ~sameip(a, heard[m].addr)
      <3>1. n - m \in 0..i - 1 /\ n - m \in 0..CAPACITY - 1 /\ n - m < n /\ n - (n - m) = m
        BY <1>1, <2>1, CapacityAssumption
      <3> QED BY <3>1, <1>2, <1>3 DEF FoundAt
    <2> QED BY <2>1, <2>2, <1>1, CapacityAssumption DEF NewestOf
  <1>4. ASSUME i < n, NEW k, k = n - i, NewestOf(a, k)
        PROVE  FoundAt(a, i)
    <2>1. Slot(i).initialized /\ sameip(a, Slot(i).addr)
      BY <1>2, <1>4 DEF NewestOf
    <2>2. ASSUME NEW j \in 0..i - 1
          PROVE  Slot(j).initialized /\ ~sameip(a, Slot(j).addr)
      <3>1. j \in 0..CAPACITY - 1 /\ j < n /\ n - j \in k + 1..n
        BY <1>1, <1>4, CapacityAssumption
      <3> QED BY <3>1, <1>2, <1>4 DEF NewestOf
    <2> QED BY <2>1, <2>2 DEF FoundAt
  <1> QED BY <1>3, <1>4

LEMMA FoundOnce ==
    ASSUME NEW a, NEW i \in 0..CAPACITY - 1, NEW j \in 0..CAPACITY - 1, FoundAt(a, i), FoundAt(a, j)
    PROVE  i = j
  BY CapacityAssumption DEF FoundAt

LEMMA RingLooksUp == RingHolds => LookupNewest
  <1> SUFFICES ASSUME RingHolds, NEW a \in Peers
               PROVE  /\ srcinfo_available(a) <=> \E k \in DOMAIN heard : NewestOf(a, k)
                      /\ \A k \in DOMAIN heard : NewestOf(a, k) => srcinfo_get(a) = heard[k]
    BY DEF LookupNewest
  <1>1. Len(heard) \in Nat /\ DOMAIN heard = 1..Len(heard)
    BY DEF RingHolds
  <1>2. ASSUME NEW k \in DOMAIN heard, NewestOf(a, k)
        PROVE  /\ Len(heard) - k \in 0..CAPACITY - 1
               /\ FoundAt(a, Len(heard) - k)
               /\ Slot(Len(heard) - k) = heard[k]
    <2>1. Len(heard) - k \in 0..CAPACITY - 1 /\ Len(heard) - k < Len(heard) /\ Len(heard) - (Len(heard) - k) = k
      BY <1>1, <1>2, CapacityAssumption DEF NewestOf
    <2> QED BY <1>2, <2>1, WalkFinds, SlotIs
  <1>3. ASSUME srcinfo_available(a)
        PROVE  \E k \in DOMAIN heard : NewestOf(a, k)
    <2>1. PICK i \in 0..CAPACITY - 1 : FoundAt(a, i)
      BY <1>3 DEF srcinfo_available
    <2>2. i < Len(heard) /\ NewestOf(a, Len(heard) - i) /\ Len(heard) - i \in DOMAIN heard
      BY <2>1, <1>1, WalkFinds
    <2> QED BY <2>2
  <1>4. ASSUME NEW k \in DOMAIN heard, NewestOf(a, k)
        PROVE  srcinfo_available(a) /\ srcinfo_get(a) = heard[k]
    <2> DEFINE i == CHOOSE i \in 0..CAPACITY - 1 : FoundAt(a, i)
    <2>1. Len(heard) - k \in 0..CAPACITY - 1 /\ FoundAt(a, Len(heard) - k)
      BY <1>2, <1>4
    <2>2. i \in 0..CAPACITY - 1 /\ FoundAt(a, i)
      BY <2>1
    <2>3. i = Len(heard) - k
      BY <2>1, <2>2, FoundOnce
    <2> QED BY <2>1, <2>3, <1>2, <1>4 DEF srcinfo_available, srcinfo_get
  <1> QED BY <1>3, <1>4

---------------------------------------------------------------------------
(* The steps *)

LEMMA InitialTtls == Initial \in [Peers -> {64, 128, 255}]
  BY PacketsAssumption

\* Where a packet can come from.
World == sc \in DOMAIN Scenarios /\ dist \in [Scene.peers -> Scene.dists]

LEMMA SceneFacts ==
    ASSUME World
    PROVE  /\ Scene.dists \subseteq 1..63 /\ Scene.peers \subseteq Peers /\ Scene.ifaces \subseteq Nat
           /\ Scene.prog \in {"fakehttp", "fakesip"}
  BY PacketsAssumption DEF World, Scene

LEMMA PacketFacts ==
    ASSUME World, NEW p \in Packets
    PROVE  /\ p.peer \in Scene.peers /\ p.peer \in Peers /\ dist[p.peer] \in 1..63
           /\ p.ifindex \in Nat /\ p.hw \in Nat
           /\ p.type = "host" => p.ttl = Initial[p.peer] - dist[p.peer]
           /\ p.type \in {"host", "outgoing"}
  <1>1. PICK type \in {"host", "outgoing"}, peer \in Scene.peers, kind \in Scene.kinds,
             ifindex \in Scene.ifaces, options \in Scene.options, ports \in Scene.ports,
             fault \in Scene.faults \cup {"none"} :
          p = Packet(type, peer, kind, ifindex, options, ports, fault)
    BY DEF Packets
  <1>2. /\ p.type = type /\ p.peer = peer /\ p.ifindex = ifindex /\ p.hw = ifindex
        /\ p.ttl = IF type = "host" THEN Initial[peer] - dist[peer] ELSE 64
    BY <1>1 DEF Packet
  <1> QED BY <1>2, SceneFacts DEF World

\* The record of a packet that has come in, with the distance it has come.
Heard(p) == [initialized |-> TRUE, addr |-> p.peer, ttl |-> p.ttl, hw |-> p.hw,
             dist |-> dist[p.peer], ifindex |-> p.ifindex]

LEMMA HeardIsInfo ==
    ASSUME World, NEW p \in Packets, p.type = "host"
    PROVE  Heard(p) \in Info /\ Heard(p).ttl = Initial[Heard(p).addr] - Heard(p).dist
  <1>1. p.peer \in Peers /\ Initial[p.peer] \in Int /\ dist[p.peer] \in 1..63 /\ dist[p.peer] \in Int
    BY InitialTtls, PacketFacts
  <1>2. p.ttl = Initial[p.peer] - dist[p.peer] /\ p.ifindex \in Nat /\ p.hw \in Nat
    BY PacketFacts
  <1>3. p.ttl \in Int
    BY <1>1, <1>2
  <1> QED BY <1>1, <1>2, <1>3 DEF Heard, Info

\* A packet either leaves the table alone or adds what has been heard.
LEMMA CallbackTable ==
    ASSUME NEW p, callback(p)
    PROVE  UNCHANGED table \/ (p.type = "host" /\ srcinfo_put(Heard(p)))
  <1>1. CASE Unusable(p)
    BY <1>1 DEF Unusable, Pass, daemon
  <1>2. CASE FakeHttp(p)
    <2>1. CASE FhHostSynAck(p)
      BY <2>1 DEF FhHostSynAck, Pass, daemon
    <2>2. CASE FhOutgoingSynAck(p)
      BY <2>2 DEF FhOutgoingSynAck, Pass, daemon
    <2>3. CASE FhHostSyn(p)
      BY <2>3 DEF FhHostSyn, Pass, daemon, Heard
    <2>4. CASE FhOutgoingSyn(p)
      BY <2>4 DEF FhOutgoingSyn, daemon
    <2>5. CASE FhOther(p)
      BY <2>5 DEF FhOther, Pass, daemon
    <2> QED BY <1>2, <2>1, <2>2, <2>3, <2>4, <2>5 DEF FakeHttp
  <1>3. CASE FakeSip(p)
    <2>1. CASE FsSkip(p)
      BY <2>1 DEF FsSkip, Pass, daemon
    <2>2. CASE FsHost(p)
      BY <2>2 DEF FsHost, Heard
    <2>3. CASE FsOutgoing(p)
      BY <2>3 DEF FsOutgoing, Pass, daemon
    <2> QED BY <1>3, <2>1, <2>2, <2>3 DEF FakeSip
  <1> QED BY <1>1, <1>2, <1>3 DEF callback

\* The table is the ring of what has been heard, and each record tells the distance.
TableInv ==
    /\ World /\ RingHolds
    /\ \A k \in DOMAIN heard : heard[k].ttl = Initial[heard[k].addr] - heard[k].dist

LEMMA InitTable == Init => TableInv
  <1> SUFFICES ASSUME Init PROVE TableInv
    OBVIOUS
  <1>1. World
    BY DEF Init, World
  <1>2. heard = <<>> /\ srci_end = 0 /\ srci = [s \in 0..CAPACITY - 1 |-> Unused]
    BY DEF Init, srcinfo_setup
  <1>3. heard \in Seq(Info) /\ Len(heard) = 0 /\ DOMAIN heard = {}
    BY <1>2
  <1>4. \A i \in 0..CAPACITY - 1 : Back(srci_end, i) \in 0..CAPACITY - 1
    BY <1>2, CapacityAssumption DEF Back
  <1>5. RingHolds
    BY <1>2, <1>3, <1>4, CapacityAssumption DEF RingHolds
  <1> QED BY <1>1, <1>3, <1>5 DEF TableInv

\* The records that are added are true.
LEMMA PutIsTrue ==
    ASSUME heard \in Seq(Info), NEW info \in Info, srcinfo_put(info),
           info.ttl = Initial[info.addr] - info.dist,
           \A k \in DOMAIN heard : heard[k].ttl = Initial[heard[k].addr] - heard[k].dist
    PROVE  \A k \in DOMAIN heard' : heard'[k].ttl = Initial[heard'[k].addr] - heard'[k].dist
  <1>1. heard' = Append(heard, info)
    BY DEF srcinfo_put
  <1>2. DOMAIN heard' = 1..Len(heard) + 1 /\ DOMAIN heard = 1..Len(heard) /\ Len(heard) \in Nat
    BY <1>1
  <1>3. \A k \in DOMAIN heard' : heard'[k] = IF k <= Len(heard) THEN heard[k] ELSE info
    BY <1>1, <1>2
  <1>4. \A k \in DOMAIN heard' : k <= Len(heard) => k \in DOMAIN heard
    BY <1>2
  <1> QED BY <1>3, <1>4

LEMMA TableStep == TableInv /\ [Next]_vars => TableInv'
  <1> SUFFICES ASSUME TableInv, [Next]_vars PROVE TableInv'
    OBVIOUS
  <1>1. ASSUME NEW p \in Packets, callback(p)
        PROVE  TableInv'
    <2>1. World'
      BY <1>1 DEF TableInv, World, callback, fixed, Scene
    <2>2. CASE UNCHANGED table
      BY <2>1, <2>2 DEF TableInv, table, RingHolds
    <2>3. CASE p.type = "host" /\ srcinfo_put(Heard(p))
      <3>1. Heard(p) \in Info /\ Heard(p).ttl = Initial[Heard(p).addr] - Heard(p).dist
        BY <1>1, <2>3, HeardIsInfo DEF TableInv
      <3>2. RingHolds'
        BY <2>3, <3>1, PutKeepsRing DEF TableInv
      <3>3. \A k \in DOMAIN heard' : heard'[k].ttl = Initial[heard'[k].addr] - heard'[k].dist
        BY <2>3, <3>1, PutIsTrue DEF TableInv, RingHolds
      <3> QED BY <2>1, <3>2, <3>3 DEF TableInv
    <2> QED BY <1>1, <2>2, <2>3, CallbackTable
  <1>2. ASSUME NEW peer \in Scene.peers, Reroute(peer)
        PROVE  TableInv'
    <2>1. World'
      BY <1>2 DEF TableInv, World, Reroute, fixed, Scene
    <2>2. UNCHANGED table
      BY <1>2 DEF Reroute, daemon
    <2> QED BY <2>1, <2>2 DEF TableInv, table, RingHolds
  <1>3. ASSUME UNCHANGED vars
        PROVE  TableInv'
    BY <1>3 DEF TableInv, vars, fixed, daemon, table, RingHolds, World, Scene
  <1> QED BY <1>1, <1>2, <1>3 DEF Next

\* srcinfo.c: whatever the capacity of the table and in whatever order peers are heard,
\* the lookup finds the newest record of an address, and finds it for as long as no
\* CAPACITY others have been put behind it.
THEOREM LookupIsNewest == Spec => []LookupNewest
  <1>1. TableInv => LookupNewest
    BY RingLooksUp DEF TableInv
  <1> QED BY InitTable, TableStep, <1>1, PTL DEF Spec

---------------------------------------------------------------------------
(* TTLs *)

\* With the usual initial TTLs the hop estimate is the distance.
LEMMA HopsAreExact ==
    ASSUME NEW i \in {64, 128, 255}, NEW d \in 1..63
    PROVE  hop_estimate(i - d) = d
  BY DEF hop_estimate

\* A percentage below 100 of a distance is below it.
LEMMA PartOfHops ==
    ASSUME NEW hops \in 1..63, NEW pct \in 0..99
    PROVE  (hops * pct) \div 100 < hops
  <1>1. hops * pct \in Int /\ hops * pct >= 0 /\ hops * pct <= hops * 99
    OBVIOUS
  <1>2. hops * pct < hops * 100
    BY <1>1
  <1> QED BY <1>1, <1>2

\* A peer that is not too near is out of the decoy's reach.
LEMMA TtlFallsShort ==
    ASSUME Tuned, NEW ttl, hop_estimate(ttl) \in 1..63, ~ctx.nohopest, ~Local(ttl)
    PROVE  SndTtl(ttl) < hop_estimate(ttl)
  <1> DEFINE hops == hop_estimate(ttl)
             reach == ctx.ttl
  <1>a. reach \in Int /\ hops \in Int
    BY DEF Tuned
  <1>b. ~(hops <= reach)
    BY DEF Local
  <1> HIDE DEF hops, reach
  <1>c. reach < hops
    BY <1>a, <1>b
  <1>1. ctx.ttl < hop_estimate(ttl)
    BY <1>c DEF hops, reach
  <1> DEFINE pct == ctx.dynamic_pct
  <1>d. hops \in 1..63 /\ pct \in 0..99
    BY DEF Tuned, hops
  <1> HIDE DEF pct
  <1>e. (hops * pct) \div 100 < hops
    BY <1>d, PartOfHops
  <1>2. (hop_estimate(ttl) * ctx.dynamic_pct) \div 100 < hop_estimate(ttl)
    BY ONLY <1>e DEF hops, pct
  <1> QED BY <1>1, <1>2 DEF SndTtl, calc_snd_ttl

---------------------------------------------------------------------------
(* Induction.  The induction theorems of the library have an operator for a parameter;   *)
(* what they say of a set follows from the well-foundedness of <.                        *)

LEMMA Least ==
    ASSUME NEW T, T \subseteq Nat, T # {}
    PROVE  \E x \in T : \A y \in T : x <= y
  <1> DEFINE R == OpToRel(<, Nat)
  <1>1. IsWellFoundedOn(R, Nat)
    BY NatLessThanWellFounded
  <1>2. \A x, y \in Nat : <<x, y>> \in R <=> x < y
    BY DEF OpToRel
  <1> HIDE DEF R
  <1>3. PICK x \in T : \A y \in T : ~ (<<y, x>> \in R)
    BY <1>1, WFMin
  <1>4. \A y \in T : ~(y < x)
    BY <1>2, <1>3
  <1>5. \A y \in T : x <= y
    BY <1>4
  <1> QED BY <1>5

LEMMA Induct ==
    ASSUME NEW T, T \subseteq Nat, 0 \in T, \A n \in Nat : n \in T => n + 1 \in T
    PROVE  T = Nat
  <1> SUFFICES ASSUME T # Nat PROVE FALSE
    OBVIOUS
  <1>1. Nat \ T # {} /\ Nat \ T \subseteq Nat
    OBVIOUS
  <1>2. PICK x \in Nat \ T : \A y \in Nat \ T : x <= y
    BY <1>1, Least
  <1>3. x # 0 /\ x - 1 \in Nat /\ x - 1 + 1 = x
    BY <1>2
  <1>4. x - 1 \in T
    BY <1>2, <1>3
  <1> QED BY <1>2, <1>3, <1>4

---------------------------------------------------------------------------
(* The command line *)

\* A function on 0..n.
Over(f, n) == f = [k \in 0..n |-> f[k]]

\* f tells the context after each of the first n options.
Read(f, prog, c, args, n) ==
    /\ Over(f, n) /\ f[0] = c
    /\ \A k \in 1..n : f[k] = Option(prog, f[k - 1], args[k])

LEMMA CanBeRead ==
    ASSUME NEW prog, NEW c, NEW args
    PROVE  \A n \in Nat : \E f : Read(f, prog, c, args, n)
  <1> DEFINE T == {n \in Nat : \E f : Read(f, prog, c, args, n)}
  <1>1. 0 \in T
    <2> DEFINE f == [k \in 0..0 |-> c]
    <2>1. Read(f, prog, c, args, 0)
      BY DEF Read, Over
    <2> QED BY <2>1
  <1>2. ASSUME NEW n \in Nat, n \in T
        PROVE  n + 1 \in T
    <2>1. PICK f : Read(f, prog, c, args, n)
      BY <1>2
    <2> DEFINE g == [k \in 0..n + 1 |-> IF k <= n THEN f[k] ELSE Option(prog, f[n], args[n + 1])]
    <2>2. ASSUME NEW k \in 1..n + 1
          PROVE  g[k] = Option(prog, g[k - 1], args[k])
      <3>1. k - 1 \in 0..n + 1 /\ k - 1 <= n /\ g[k - 1] = f[k - 1]
        OBVIOUS
      <3>2. CASE k <= n
        <4>1. k \in 1..n /\ g[k] = f[k]
          BY <3>2
        <4> QED BY <2>1, <3>1, <4>1 DEF Read
      <3>3. CASE k = n + 1
        <4>1. ~(k <= n) /\ k - 1 = n
          BY <3>3
        <4> QED BY <3>1, <3>3, <4>1
      <3> QED BY <3>2, <3>3
    <2>3. Over(g, n + 1) /\ g[0] = c
      BY <2>1 DEF Read, Over
    <2> HIDE DEF g
    <2>4. Read(g, prog, c, args, n + 1)
      BY <2>2, <2>3 DEF Read
    <2> QED BY <2>4
  <1> HIDE DEF T
  <1>3. T = Nat
    <2>1. T \subseteq Nat
      BY DEF T
    <2> QED BY <1>1, <1>2, <2>1, Induct
  <1> QED BY <1>3 DEF T

\* Getopt is what one gets by reading the options one by one.
LEMMA GetoptReads ==
    ASSUME NEW prog, NEW c, NEW args, Len(args) \in Nat
    PROVE  \E f : Read(f, prog, c, args, Len(args)) /\ Getopt(prog, c, args) = f[Len(args)]
  <1> DEFINE N == Len(args)
             Body(f) == [n \in 0..N |-> IF n = 0 THEN c ELSE Option(prog, f[n - 1], args[n])]
             after == CHOOSE f : f = Body(f)
  <1>1. PICK f : Read(f, prog, c, args, N)
    BY CanBeRead
  <1>2. f = Body(f)
    <2>1. f = [n \in 0..N |-> f[n]]
      BY <1>1 DEF Read, Over
    <2> QED BY <1>1, <2>1 DEF Read
  <1>3. after = Body(after)
    BY <1>2
  <1>4. Getopt(prog, c, args) = after[N]
    BY DEF Getopt
  <1> HIDE DEF after
  <1>5. Read(after, prog, c, args, N)
    BY <1>3 DEF Read, Over
  <1> QED BY <1>4, <1>5

---------------------------------------------------------------------------
(* What main() keeps to *)

\* A context as the parser leaves it.
Sane(c) ==
    /\ DOMAIN c = DOMAIN FhContext
    /\ c.ttl \in 1..255 /\ c.dynamic_pct \in 0..99 /\ c.repeat \in 1..10
    /\ Listed(c.plinfo) /\ Listed(c.iface)

LEMMA ListedFromSeq ==
    ASSUME NEW S, NEW s \in Seq(S)
    PROVE  Listed(s)
  <1>1. DOMAIN s = 1..Len(s) /\ Len(s) \in Nat /\ s = [k \in 1..Len(s) |-> s[k]]
    OBVIOUS
  <1>2. [k \in 1..Len(s) |-> s[k]] \in Seq({s[k] : k \in DOMAIN s})
    BY <1>1
  <1> QED BY <1>1, <1>2 DEF Listed

LEMMA AppendListed ==
    ASSUME NEW s, NEW x, Listed(s)
    PROVE  Listed(Append(s, x))
  <1> DEFINE S == {s[k] : k \in DOMAIN s} \cup {x}
  <1>1. s \in Seq(S)
    BY DEF Listed
  <1>2. Append(s, x) \in Seq(S)
    BY <1>1
  <1> QED BY <1>2, ListedFromSeq

LEMMA AppendLonger ==
    ASSUME NEW s, NEW x, Listed(s)
    PROVE  /\ Len(Append(s, x)) = Len(s) + 1 /\ Len(s) \in Nat /\ Append(s, x) # <<>>
           /\ \A k \in 1..Len(s) : Append(s, x)[k] = s[k]
           /\ Append(s, x)[Len(s) + 1] = x
  <1> DEFINE S == {s[k] : k \in DOMAIN s} \cup {x}
  <1>1. s \in Seq(S) /\ x \in S
    BY DEF Listed
  <1> HIDE DEF S
  <1> QED BY <1>1

LEMMA JoinListed ==
    ASSUME NEW s, NEW t, Listed(s), Listed(t)
    PROVE  Listed(s \o t) /\ Len(s \o t) \in Nat
  <1> DEFINE S == {s[k] : k \in DOMAIN s} \cup {t[k] : k \in DOMAIN t}
  <1>1. s \in Seq(S) /\ t \in Seq(S)
    BY DEF Listed
  <1> HIDE DEF S
  <1>2. s \o t \in Seq(S) /\ Len(s \o t) \in Nat
    BY <1>1
  <1> QED BY <1>2, ListedFromSeq

LEMMA SaneStart == Sane(FhContext) /\ Sane(FsContext)
  <1>1. Listed(<<>>)
    BY DEF Listed
  <1>2. FsContext = [FhContext EXCEPT !.fwmark = {16}]
    BY DEF FsContext
  <1>3. Sane(FhContext)
    BY <1>1 DEF Sane, FhContext
  <1>4. DOMAIN FsContext = DOMAIN FhContext /\ FsContext.ttl = FhContext.ttl
        /\ FsContext.dynamic_pct = FhContext.dynamic_pct /\ FsContext.repeat = FhContext.repeat
        /\ FsContext.plinfo = FhContext.plinfo /\ FsContext.iface = FhContext.iface
    BY <1>2 DEF FhContext
  <1> QED BY <1>3, <1>4 DEF Sane

LEMMA OptionSane ==
    ASSUME NEW prog, NEW c, NEW arg, Sane(c)
    PROVE  Sane(Option(prog, c, arg))
  <1> DEFINE o == arg[1]
             v == arg[2]
  <1>1. Sane(Refused(c))
    BY DEF Sane, Refused, FhContext
  <1>2. ASSUME NEW w \in DOMAIN Switches
        PROVE  Sane([c EXCEPT ![Switches[w]] = TRUE])
    <2>1. Switches[w] \in
           {"inbound", "outbound", "use_ipv4", "use_ipv6", "alliface",
            "skipfw", "nohopest", "killproc", "use_iptables"}
      BY DEF Switches
    <2>2. ASSUME NEW x, x \notin {"ttl", "dynamic_pct", "repeat", "plinfo", "iface"}
          PROVE  Sane([c EXCEPT ![x] = TRUE])
      <3> DEFINE d == [c EXCEPT ![x] = TRUE]
      <3>1. DOMAIN d = DOMAIN c
        OBVIOUS
      <3>2. {"ttl", "dynamic_pct", "repeat", "plinfo", "iface"} \subseteq DOMAIN c
        BY DEF Sane, FhContext
      <3>3. d.ttl = c.ttl /\ d.dynamic_pct = c.dynamic_pct /\ d.repeat = c.repeat /\ d.plinfo = c.plinfo
            /\ d.iface = c.iface
        BY <2>2, <3>2
      <3> HIDE DEF d
      <3>4. Sane(d)
        BY <3>1, <3>3 DEF Sane
      <3> QED BY <3>4 DEF d
    <2> QED BY <2>1, <2>2
  <1>3. ASSUME o \in {"m", "r", "t", "x", "y"}
        PROVE  Sane(Number(c, o, v))
    <2> HIDE DEF o, v
    <2>1. CASE o = "m"
      <3>1. Sane([c EXCEPT !.fwmark = v])
        BY DEF Sane, FhContext
      <3>2. Number(c, o, v) = If(v # {}, c, [c EXCEPT !.fwmark = v])
        BY <2>1 DEF Number
      <3>3. Number(c, o, v) = Refused(c) \/ (v # {} /\ Number(c, o, v) = [c EXCEPT !.fwmark = v])
        BY <3>2 DEF If
      <3> QED BY <1>1, <3>1, <3>3
    <2>2. CASE o = "x"
      <3>1. Sane([c EXCEPT !.fwmask = v])
        BY DEF Sane, FhContext
      <3>2. Number(c, o, v) = If(v # {}, c, [c EXCEPT !.fwmask = v])
        BY <2>2 DEF Number
      <3>3. Number(c, o, v) = Refused(c) \/ (v # {} /\ Number(c, o, v) = [c EXCEPT !.fwmask = v])
        BY <3>2 DEF If
      <3> QED BY <1>1, <3>1, <3>3
    <2>3. CASE o = "r"
      <3>1. v \in 1..10 => Sane([c EXCEPT !.repeat = v])
        BY DEF Sane, FhContext
      <3>2. Number(c, o, v) = If(v \in 1..10, c, [c EXCEPT !.repeat = v])
        BY <2>3 DEF Number
      <3>3. Number(c, o, v) = Refused(c) \/ (v \in 1..10 /\ Number(c, o, v) = [c EXCEPT !.repeat = v])
        BY <3>2 DEF If
      <3> QED BY <1>1, <3>1, <3>3
    <2>4. CASE o = "t"
      <3>1. v \in 1..255 => Sane([c EXCEPT !.ttl = v])
        BY DEF Sane, FhContext
      <3>2. Number(c, o, v) = If(v \in 1..255, c, [c EXCEPT !.ttl = v])
        BY <2>4 DEF Number
      <3>3. Number(c, o, v) = Refused(c) \/ (v \in 1..255 /\ Number(c, o, v) = [c EXCEPT !.ttl = v])
        BY <3>2 DEF If
      <3> QED BY <1>1, <3>1, <3>3
    <2>5. CASE o = "y"
      <3>1. v \in 1..99 => Sane([c EXCEPT !.dynamic_pct = v])
        BY DEF Sane, FhContext
      <3>2. Number(c, o, v) = If(v \in 1..99, c, [c EXCEPT !.dynamic_pct = v])
        BY <2>5 DEF Number
      <3>3. Number(c, o, v) = Refused(c) \/ (v \in 1..99 /\ Number(c, o, v) = [c EXCEPT !.dynamic_pct = v])
        BY <3>2 DEF If
      <3> QED BY <1>1, <3>1, <3>3
    <2> QED BY <1>3, <2>1, <2>2, <2>3, <2>4, <2>5
  <1>4. Sane(Interface(c, v))
    <2>1. Listed(Append(c.iface, v))
      BY AppendListed DEF Sane
    <2> QED BY <1>1, <2>1 DEF Interface, If, Sane, FhContext
  <1>5. ASSUME NEW x
        PROVE  Sane([c EXCEPT !.plinfo = Append(@, x)])
    <2>1. Listed(Append(c.plinfo, x))
      BY AppendListed DEF Sane
    <2> QED BY <2>1 DEF Sane, FhContext
  <1>6. Sane(FhPayload(c, o, v)) /\ Sane(FsPayload(c, o, v))
    BY <1>1, <1>5 DEF FhPayload, FsPayload, If
  <1>7. Sane(Ports(c, o, v))
    BY <1>1 DEF Ports, If, Sane, FhContext
  <1> HIDE DEF o, v
  <1>8. Sane(FhOption(c, arg))
    BY <1>1, <1>2, <1>3, <1>4, <1>6 DEF FhOption, o, v
  <1>9. Sane(FsOption(c, arg))
    BY <1>1, <1>2, <1>3, <1>4, <1>6, <1>7 DEF FsOption, o, v
  <1> QED BY <1>8, <1>9 DEF Option

LEMMA GetoptSane ==
    ASSUME NEW prog, NEW c, NEW args, Sane(c), Len(args) \in Nat
    PROVE  Sane(Getopt(prog, c, args))
  <1>1. PICK f : Read(f, prog, c, args, Len(args)) /\ Getopt(prog, c, args) = f[Len(args)]
    BY GetoptReads
  <1> DEFINE T == {n \in Nat : n <= Len(args) => Sane(f[n])}
  <1>2. 0 \in T
    BY <1>1 DEF Read
  <1>3. ASSUME NEW n \in Nat, n \in T
        PROVE  n + 1 \in T
    <2>1. SUFFICES ASSUME n + 1 <= Len(args) PROVE Sane(f[n + 1])
      OBVIOUS
    <2>2. Sane(f[n]) /\ n + 1 \in 1..Len(args) /\ n + 1 - 1 = n
      BY <1>3, <2>1
    <2>3. f[n + 1] = Option(prog, f[n], args[n + 1])
      BY <1>1, <2>2 DEF Read
    <2> QED BY <2>2, <2>3, OptionSane
  <1> HIDE DEF T
  <1>4. T = Nat
    <2>1. T \subseteq Nat
      BY DEF T
    <2> QED BY <1>2, <1>3, <2>1, Induct
  <1> QED BY <1>1, <1>4 DEF T

LEMMA ParseSane ==
    ASSUME NEW args, Len(args) \in Nat
    PROVE  /\ Sane(FhParse(args)) /\ (FhParse(args).ok => FhParse(args).plinfo # <<>>)
           /\ Sane(FsParse(args)) /\ (FsParse(args).ok => FsParse(args).plinfo # <<>>)
  <1>1. ASSUME NEW c, Sane(c)
        PROVE  /\ Sane(Refused(c)) /\ ~Refused(c).ok
               /\ Sane(Defaults(c))
    BY <1>1 DEF Sane, Refused, FhContext, Defaults
  <1>2. ASSUME NEW c, Sane(c)
        PROVE  Sane(FhChecks(c)) /\ (FhChecks(c).ok => FhChecks(c).plinfo # <<>>)
    <2>1. Defaults(c).plinfo = c.plinfo
      BY <1>2 DEF Defaults, Sane, FhContext
    <2> QED BY <1>1, <1>2, <2>1 DEF FhChecks, If
  <1>3. ASSUME NEW c, Sane(c)
        PROVE  Sane(FsChecks(c)) /\ (FsChecks(c).ok => FsChecks(c).plinfo # <<>>)
    <2> DEFINE one == <<[type |-> "sip", info |-> [id |-> "random", len |-> 22]]>>
               made == [Defaults(c) EXCEPT !.plinfo = IF @ = <<>> THEN one ELSE @]
    <2>1. Listed(one) /\ one # <<>>
      BY DEF Listed
    <2>2. Sane(Defaults(c))
      BY <1>1, <1>3
    <2> HIDE DEF one
    <2>3. made.plinfo = IF Defaults(c).plinfo = <<>> THEN one ELSE Defaults(c).plinfo
      BY <2>2 DEF Sane, FhContext
    <2>4. Sane(made)
      BY <2>1, <2>2, <2>3 DEF Sane
    <2>5. FsChecks(c) = IF Consistent(made) THEN made ELSE Refused(c)
      BY DEF FsChecks, If, one
    <2> QED BY <1>1, <1>3, <2>1, <2>3, <2>4, <2>5
  <1> QED BY <1>2, <1>3, SaneStart, GetoptSane DEF FhParse, FsParse

---------------------------------------------------------------------------
(* The members of a sequence that are kept *)

Keeps(f, s, places, n) ==
    /\ Over(f, n) /\ f[0] = <<>>
    /\ \A k \in 1..n : f[k] = IF k \in places THEN Append(f[k - 1], s[k]) ELSE f[k - 1]

LEMMA CanKeep ==
    ASSUME NEW s, NEW places
    PROVE  \A n \in Nat : \E f : Keeps(f, s, places, n)
  <1> DEFINE T == {n \in Nat : \E f : Keeps(f, s, places, n)}
  <1>1. 0 \in T
    <2> DEFINE f == [k \in 0..0 |-> <<>>]
    <2>1. Keeps(f, s, places, 0)
      BY DEF Keeps, Over
    <2> QED BY <2>1
  <1>2. ASSUME NEW n \in Nat, n \in T
        PROVE  n + 1 \in T
    <2>1. PICK f : Keeps(f, s, places, n)
      BY <1>2
    <2> DEFINE last == IF n + 1 \in places THEN Append(f[n], s[n + 1]) ELSE f[n]
               g == [k \in 0..n + 1 |-> IF k <= n THEN f[k] ELSE last]
    <2>2. ASSUME NEW k \in 1..n + 1
          PROVE  g[k] = IF k \in places THEN Append(g[k - 1], s[k]) ELSE g[k - 1]
      <3> HIDE DEF last
      <3>1. k - 1 \in 0..n + 1 /\ k - 1 <= n /\ g[k - 1] = f[k - 1]
        OBVIOUS
      <3>2. CASE k <= n
        <4>1. k \in 1..n /\ g[k] = f[k]
          BY <3>2
        <4> QED BY <2>1, <3>1, <4>1 DEF Keeps
      <3>3. CASE k = n + 1
        <4>1. ~(k <= n) /\ k - 1 = n /\ g[k] = last
          BY <3>3
        <4> QED BY <3>1, <3>3, <4>1 DEF last
      <3> QED BY <3>2, <3>3
    <2>3. Over(g, n + 1) /\ g[0] = <<>>
      BY <2>1 DEF Keeps, Over
    <2> HIDE DEF g
    <2>4. Keeps(g, s, places, n + 1)
      BY <2>2, <2>3 DEF Keeps
    <2> QED BY <2>4
  <1> HIDE DEF T
  <1>3. T = Nat
    <2>1. T \subseteq Nat
      BY DEF T
    <2> QED BY <1>1, <1>2, <2>1, Induct
  <1> QED BY <1>3 DEF T

LEMMA AtKeeps ==
    ASSUME NEW s, NEW places, Len(s) \in Nat
    PROVE  \E f : Keeps(f, s, places, Len(s)) /\ At(s, places) = f[Len(s)]
  <1> DEFINE N == Len(s)
  <1>1. PICK f : Keeps(f, s, places, N)
    BY CanKeep
  <1> DEFINE Body(h) == [n \in 0..N |-> IF n = 0 THEN <<>>
                                        ELSE IF n \in places THEN Append(h[n - 1], s[n]) ELSE h[n - 1]]
             kept == CHOOSE h : h = Body(h)
  <1>2. f = Body(f)
    <2>1. f = [n \in 0..N |-> f[n]]
      BY <1>1 DEF Keeps, Over
    <2>2. \A n \in 0..N : f[n] = IF n = 0 THEN <<>>
                                 ELSE IF n \in places THEN Append(f[n - 1], s[n]) ELSE f[n - 1]
      BY <1>1 DEF Keeps
    <2>3. [n \in 0..N |-> f[n]] = Body(f)
      BY <2>2, SMTT(30)
    <2> QED BY <2>1, <2>3
  <1>3. kept = Body(kept)
    BY <1>2
  <1>4. At(s, places) = kept[N]
    BY DEF At
  <1> HIDE DEF kept
  <1>5. Keeps(kept, s, places, N)
    <2>1. Over(kept, N) /\ kept[0] = <<>>
      BY <1>3 DEF Over
    <2>2. ASSUME NEW k \in 1..N
          PROVE  kept[k] = IF k \in places THEN Append(kept[k - 1], s[k]) ELSE kept[k - 1]
      <3>1. k \in 0..N /\ k # 0
        OBVIOUS
      <3> QED BY <1>3, <3>1
    <2> QED BY <2>1, <2>2 DEF Keeps
  <1> QED BY <1>4, <1>5

\* Members only, and not none when a place is kept.
LEMMA AtMembers ==
    ASSUME NEW s, NEW places, Listed(s)
    PROVE  /\ At(s, places) \in Seq({s[k] : k \in DOMAIN s})
           /\ places \cap DOMAIN s # {} => At(s, places) # <<>>
  <1> DEFINE N == Len(s)
             S == {s[k] : k \in DOMAIN s}
  <1>1. N \in Nat /\ DOMAIN s = 1..N /\ \A k \in 1..N : s[k] \in S
    BY DEF Listed
  <1>2. PICK f : Keeps(f, s, places, N) /\ At(s, places) = f[N]
    BY <1>1, AtKeeps
  <1> HIDE DEF N, S
  <1> DEFINE Holds(n) == f[n] \in Seq(S) /\ (places \cap 1..n # {} => f[n] # <<>>)
             T == {n \in Nat : n <= N => Holds(n)}
  <1>3. 0 \in T
    <2>1. f[0] = <<>>
      BY <1>2 DEF Keeps
    <2>2. f[0] \in Seq(S) /\ 1..0 = {}
      BY <2>1
    <2> QED BY <2>2
  <1>4. ASSUME NEW n \in Nat, n \in T
        PROVE  n + 1 \in T
    <2>1. SUFFICES ASSUME n + 1 <= N PROVE Holds(n + 1)
      OBVIOUS
    <2>2. Holds(n) /\ n + 1 \in 1..N /\ n + 1 - 1 = n
      BY <1>1, <1>4, <2>1
    <2>3. f[n + 1] = IF n + 1 \in places THEN Append(f[n], s[n + 1]) ELSE f[n]
      BY <1>2, <2>2 DEF Keeps
    <2>4. CASE n + 1 \in places
      <3>1. s[n + 1] \in S /\ f[n] \in Seq(S)
        BY <1>1, <2>2
      <3>2. f[n + 1] \in Seq(S) /\ f[n + 1] # <<>>
        BY <2>3, <2>4, <3>1
      <3> QED BY <3>2
    <2>5. CASE n + 1 \notin places
      <3>1. places \cap 1..n + 1 \subseteq places \cap 1..n
        BY <2>5
      <3>2. f[n + 1] = f[n]
        BY <2>3, <2>5
      <3> QED BY <2>2, <3>1, <3>2
    <2> QED BY <2>4, <2>5
  <1> HIDE DEF T
  <1>5. T = Nat
    <2>1. T \subseteq Nat
      BY DEF T
    <2> QED BY <1>3, <1>4, <2>1, Induct
  <1>6. Holds(N)
    BY <1>1, <1>5 DEF T
  <1> QED BY <1>1, <1>2, <1>6 DEF N, S

---------------------------------------------------------------------------
(* The command lines are sequences *)

LEMMA FunctionListed ==
    ASSUME NEW n \in Nat, NEW f, f = [k \in 1..n |-> f[k]]
    PROVE  Listed(f)
  <1>1. f \in Seq({f[k] : k \in 1..n})
    <2>1. [k \in 1..n |-> f[k]] \in Seq({f[k] : k \in 1..n})
      OBVIOUS
    <2> QED BY <2>1
  <1> QED BY <1>1, ListedFromSeq

LEMMA ListedIs ==
    ASSUME NEW s, Listed(s)
    PROVE  Len(s) \in Nat /\ DOMAIN s = 1..Len(s) /\ s = [k \in 1..Len(s) |-> s[k]]
  BY DEF Listed

LEMMA ShortListed == Listed(<<>>) /\ \A x : Listed(<<x>>)
  <1>1. <<>> \in Seq({}) /\ \A x : <<x>> \in Seq({x})
    OBVIOUS
  <1> QED BY <1>1, ListedFromSeq

LEMMA FlagListed == ASSUME NEW o, NEW set PROVE Listed(Flag(o, set))
  BY FunctionListed DEF Flag, Listed

LEMMA ArgsListed ==
    ASSUME NEW o, NEW vs, Listed(vs)
    PROVE  Listed(Args(o, vs))
  <1>1. Len(vs) \in Nat /\ DOMAIN vs = 1..Len(vs)
    BY ListedIs
  <1> DEFINE a == Args(o, vs)
  <1>2. a = [k \in 1..Len(vs) |-> <<o, vs[k]>>]
    BY <1>1 DEF Args
  <1>3. a = [k \in 1..Len(vs) |-> a[k]]
    BY <1>2
  <1> QED BY <1>1, <1>3, FunctionListed

LEMMA AtListed ==
    ASSUME NEW s, NEW places, Listed(s)
    PROVE  Listed(At(s, places))
  BY AtMembers, ListedFromSeq

LEMMA FamilyListed == ASSUME NEW uci PROVE Listed(FamilyArgs(uci))
  BY FlagListed, JoinListed DEF FamilyArgs

LEMMA TuningListed == ASSUME NEW uci PROVE Listed(TuningArgs(uci))
  <1> DEFINE four == <<<<"r", uci.repeat>>, <<"t", uci.ttl>>, <<"m", uci.fwmark>>, <<"x", uci.fwmask>>>>
             pct == IF uci.dynamic_ttl_pct = 0 THEN <<>> ELSE <<<<"y", uci.dynamic_ttl_pct>>>>
  <1>1. Listed(four)
    <2>1. four \in Seq({<<"r", uci.repeat>>, <<"t", uci.ttl>>, <<"m", uci.fwmark>>, <<"x", uci.fwmask>>})
      OBVIOUS
    <2> QED BY ONLY <2>1, ListedFromSeq
  <1>a. Listed(pct)
    BY ShortListed
  <1>2. TuningArgs(uci) = four \o Flag("g", ~uci.hop_estimation) \o pct
    BY DEF TuningArgs
  <1> HIDE DEF four, pct
  <1> QED BY <1>1, <1>2, <1>a, FlagListed, JoinListed

RowArgs(uci) == [k \in DOMAIN Rows(uci) |-> <<RowOption[FhRows(uci)[k].type], FhRows(uci)[k].info>>]

LEMMA RowsListed ==
    ASSUME NEW uci, Listed(uci.rows)
    PROVE  Listed(Rows(uci)) /\ Listed(RowArgs(uci))
  <1>1. Listed(Rows(uci))
    BY AtListed DEF Rows
  <1> DEFINE n == Len(Rows(uci))
             a == RowArgs(uci)
  <1>2. n \in Nat /\ DOMAIN Rows(uci) = 1..n
    BY <1>1, ListedIs
  <1>3. a = [k \in 1..n |-> <<RowOption[FhRows(uci)[k].type], FhRows(uci)[k].info>>]
    BY <1>2 DEF RowArgs
  <1> HIDE DEF n, a
  <1>4. a = [k \in 1..n |-> a[k]]
    BY <1>3
  <1>5. Listed(a)
    BY <1>2, <1>4, FunctionListed
  <1> QED BY <1>1, <1>5 DEF a

LEMMA FhArgsListed ==
    ASSUME NEW uci, Listed(uci.rows), Listed(uci.interfaces)
    PROVE  Listed(FhArgs(uci))
  <1> DEFINE ifs == IF uci.interface_mode = "all" THEN Flag("a", TRUE) ELSE Args("i", Distinct(uci.interfaces))
  <1>1. Listed(ifs)
    BY AtListed, ArgsListed, FlagListed DEF Distinct
  <1> HIDE DEF ifs
  <1>2. FhArgs(uci) = ifs
        \o Flag("0", uci.direction \in {"inbound", "both"}) \o Flag("1", uci.direction \in {"outbound", "both"})
        \o FamilyArgs(uci) \o RowArgs(uci) \o TuningArgs(uci)
    BY DEF FhArgs, RowArgs, ifs
  <1> QED BY <1>1, <1>2, FlagListed, FamilyListed, RowsListed, TuningListed, JoinListed

LEMMA FsArgsListed ==
    ASSUME NEW uci, Listed(uci.interfaces), uci.port_mode \in {"include", "exclude", "all"}
    PROVE  Listed(FsArgs(uci))
  <1> DEFINE ports == CASE uci.port_mode = "include" -> <<<<"p", uci.ports>>>>
                        [] uci.port_mode = "exclude" -> <<<<"P", uci.ports>>>>
                        [] uci.port_mode = "all"     -> <<>>
             uri == IF uci.payload_mode = "custom_uri" THEN <<<<"u", uci.sip_uri>>>> ELSE <<>>
  <1>1. Listed(Args("i", Distinct(uci.interfaces)))
    BY AtListed, ArgsListed DEF Distinct
  <1>2. Listed(ports) /\ Listed(uri)
    BY ShortListed
  <1>3. Listed(FsDirection(uci))
    BY FlagListed, JoinListed DEF FsDirection
  <1>4. FsArgs(uci) = Args("i", Distinct(uci.interfaces)) \o FsDirection(uci) \o FamilyArgs(uci)
        \o ports \o uri \o TuningArgs(uci)
    BY DEF FsArgs
  <1> HIDE DEF ports, uri
  <1> QED BY <1>1, <1>2, <1>3, <1>4, FamilyListed, TuningListed, JoinListed

\* Whatever the command line, main() goes on with a context that is sane, and not
\* without a payload.
LEMMA ContextSane ==
    ASSUME NEW k \in DOMAIN Scenarios, NEW s, s = Scenarios[k], Valid(s)
    PROVE  Sane(Context(s)) /\ (Context(s).ok => Context(s).plinfo # <<>>)
  <1>1. /\ s.prog \in {"fakehttp", "fakesip"} /\ s.byUci \in BOOLEAN /\ Listed(s.args)
        /\ s.byUci => Listed(s.uci.interfaces) /\ (s.prog = "fakehttp" => Listed(s.uci.rows))
    BY PacketsAssumption
  <1>2. s.byUci /\ s.prog # "fakehttp" => s.uci.port_mode \in {"include", "exclude", "all"}
    BY DEF Valid, fs_validate_config
  <1>3. Listed(CommandLine(s))
    BY <1>1, <1>2, FhArgsListed, FsArgsListed DEF CommandLine
  <1>4. Len(CommandLine(s)) \in Nat
    BY <1>3, ListedIs
  <1> QED BY <1>4, ParseSane DEF Context

---------------------------------------------------------------------------
(* The ring of payloads *)

\* From the last to the first, and from there to the last.
Backwards(n) == [k \in 1..n |-> IF k = 1 THEN n ELSE k - 1]

LEMMA LinkTurns ==
    ASSUME NEW n \in Nat
    PROVE  Link(Backwards(n), n + 1) = Backwards(n + 1)
  <1> DEFINE old == Backwards(n)
  <1>1. n # 0 => old[1] = n
    BY DEF Backwards
  <1>2. \A i \in 2..n : old[i] = i - 1
    BY DEF Backwards
  <1> HIDE DEF old
  <1>3. \A i \in 1..n + 1 :
            (CASE i = 1 -> n + 1 [] i = n + 1 /\ n + 1 > 1 -> old[1] [] OTHER -> old[i])
                = IF i = 1 THEN n + 1 ELSE i - 1
    <2> SUFFICES ASSUME NEW i \in 1..n + 1
                 PROVE  (CASE i = 1 -> n + 1 [] i = n + 1 /\ n + 1 > 1 -> old[1] [] OTHER -> old[i])
                            = IF i = 1 THEN n + 1 ELSE i - 1
      OBVIOUS
    <2>1. CASE i = 1
      <3>1. ~(i = n + 1 /\ n + 1 > 1)
        BY <2>1
      <3> QED BY <2>1, <3>1
    <2>2. CASE i # 1 /\ i = n + 1
      BY <1>1, <2>2
    <2>3. CASE i # 1 /\ i # n + 1
      BY <1>2, <2>3
    <2> QED BY <2>1, <2>2, <2>3
  <1> QED BY <1>3 DEF Link, Backwards, old

LEMMA RingIs ==
    ASSUME NEW c, Len(c.plinfo) \in Nat
    PROVE  Ring(c) = Backwards(Len(c.plinfo))
  <1> DEFINE N == Len(c.plinfo)
             Body(f) == [n \in 0..N |-> IF n = 0 THEN <<>> ELSE Link(f[n - 1], n)]
             next == CHOOSE f : f = Body(f)
             g == [n \in 0..N |-> Backwards(n)]
  <1>0. Backwards(0) = <<>>
    BY DEF Backwards
  <1>1. g = Body(g)
    <2>1. ASSUME NEW n \in 0..N
          PROVE  Backwards(n) = IF n = 0 THEN <<>> ELSE Link(g[n - 1], n)
      <3>1. CASE n # 0
        <4>1. n - 1 \in Nat /\ n - 1 \in 0..N /\ n - 1 + 1 = n
          BY <3>1
        <4>2. Link(Backwards(n - 1), n) = Backwards(n)
          BY <4>1, LinkTurns
        <4> QED BY <3>1, <4>1, <4>2
      <3> QED BY <1>0, <3>1
    <2> QED BY <2>1
  <1>2. next = Body(next)
    BY <1>1
  <1>3. Ring(c) = next[N]
    BY DEF Ring
  <1> HIDE DEF next, g
  <1> DEFINE T == {n \in Nat : n <= N => next[n] = Backwards(n)}
  <1>4. 0 \in T
    BY <1>0, <1>2
  <1>5. ASSUME NEW n \in Nat, n \in T
        PROVE  n + 1 \in T
    <2>1. SUFFICES ASSUME n + 1 <= N PROVE next[n + 1] = Backwards(n + 1)
      OBVIOUS
    <2>2. next[n] = Backwards(n) /\ n + 1 \in 0..N /\ n + 1 # 0 /\ n + 1 - 1 = n
      BY <1>5, <2>1
    <2>3. next[n + 1] = Link(next[n], n + 1)
      BY <1>2, <2>2
    <2> QED BY <2>2, <2>3, LinkTurns
  <1> HIDE DEF T
  <1>6. T = Nat
    <2>1. T \subseteq Nat
      BY DEF T
    <2> QED BY <1>4, <1>5, <2>1, Induct
  <1> QED BY <1>3, <1>6 DEF T

---------------------------------------------------------------------------
(* What the step of a packet does *)

\* The TTL by which the distance to the peer is judged.
From(p) ==
    IF p.type = "host" THEN p.ttl
    ELSE IF srcinfo_available(p.peer) THEN srcinfo_get(p.peer).ttl ELSE 0

\* The packet is answered with decoys.
Wanted(p) ==
    /\ p.ifindex # 0 /\ Parses(p)
    /\ IF p.type = "host" THEN ctx.outbound ELSE ctx.inbound
    /\ IF Scene.prog = "fakehttp" THEN p.kind = "synack" /\ (p.type = "host" \/ srcinfo_available(p.peer))
       ELSE ~Skipped(p)
    /\ ~Local(From(p))

\* Among them is s.
IsDecoy(p, s) ==
    /\ s.ifindex = p.ifindex /\ s.mark = ctx.fwmark
    /\ s.pkt = IF Scene.prog = "fakesip" THEN FsDecoy(p, SndTtl(From(p)))
               ELSE IF p.type = "host" THEN FhDecoy(p, SndTtl(From(p)), p.ack, (p.seq + 1) % SEQ)
               ELSE FhDecoy(p, SndTtl(From(p)), (p.seq + 1) % SEQ, p.ack)

Original(p) == FhSend(p, srcinfo_get(p.peer).hw, [what |-> "original", peer |-> p.peer])

Silent(p) ==
    /\ ~Wanted(p) /\ out'.verdict = "ACCEPT" /\ out'.sent = <<>>
    /\ UNCHANGED <<current_node, draws, fails>>

Accepted(p, s) == \E n \in 0..ctx.repeat :
    /\ out'.verdict = "ACCEPT" /\ out'.sent = Times(n, s)
    /\ (fails < MaxFails /\ fails' = fails + 1) \/ (UNCHANGED fails /\ n = ctx.repeat)

Replaced(p, s) ==
    /\ p.type = "outgoing" /\ srcinfo_available(p.peer) /\ UNCHANGED fails
    /\ out'.verdict = "DROP" /\ out'.sent = Append(Times(ctx.repeat, s), Original(p))

Answered(p) ==
    /\ Wanted(p) /\ th_payload_get
    /\ \E s : IsDecoy(p, s) /\ (Accepted(p, s) \/ Replaced(p, s))

Does(p) ==
    /\ out'.pkt = p /\ out'.options = IF Worked(p) THEN remove_tfo_cookie(p.options) ELSE p.options
    /\ Silent(p) \/ Answered(p)
    /\ UNCHANGED ring /\ (UNCHANGED bound \/ FsBind(p.peer.family, p.ifindex))

LEMMA PassDoes ==
    ASSUME NEW p, Pass(p), ~Wanted(p), ~Worked(p)
    PROVE  Does(p)
  BY DEF Pass, Verdict, daemon, Does, Silent

LEMMA FailsOr ==
    ASSUME NEW n \in 0..ctx.repeat, Fail(n < ctx.repeat), ctx.repeat \in Nat
    PROVE  (fails < MaxFails /\ fails' = fails + 1) \/ (UNCHANGED fails /\ n = ctx.repeat)
  BY DEF Fail

LEMMA VerdictIs ==
    ASSUME NEW p, NEW verdict, NEW sent, NEW options, Verdict(p, verdict, sent, options)
    PROVE  out'.pkt = p /\ out'.verdict = verdict /\ out'.sent = sent /\ out'.options = options
  BY DEF Verdict

LEMMA HttpDoes ==
    ASSUME ctx.repeat \in Nat, NEW p, p.type \in {"host", "outgoing"}, FakeHttp(p)
    PROVE  Does(p)
  <1>1. Scene.prog = "fakehttp" /\ Scene.prog # "fakesip" /\ p.ifindex # 0 /\ Parses(p)
    BY DEF FakeHttp
  <1>2. CASE FhHostSynAck(p)
    <2> DEFINE s == ByLink(p, p.hw, FhDecoy(p, SndTtl(p.ttl), p.ack, (p.seq + 1) % SEQ))
    <2>1. p.type = "host" /\ p.kind = "synack" /\ From(p) = p.ttl /\ ~Worked(p)
      BY <1>2 DEF FhHostSynAck, From, Worked
    <2>2. CASE ~ctx.outbound \/ Local(p.ttl)
      <3>1. Pass(p) /\ ~Wanted(p)
        BY <1>2, <2>1, <2>2 DEF FhHostSynAck, Wanted
      <3> QED BY <2>1, <3>1, PassDoes
    <2>3. CASE ~(~ctx.outbound \/ Local(p.ttl))
      <3>1. Wanted(p)
        BY <1>1, <2>1, <2>3 DEF Wanted
      <3>2. IsDecoy(p, s)
        BY <1>1, <2>1 DEF IsDecoy, ByLink
      <3> HIDE DEF s
      <3>3. PICK n \in 0..ctx.repeat : Fail(n < ctx.repeat) /\ Verdict(p, "ACCEPT", Times(n, s), p.options)
        BY <1>2, <2>3 DEF FhHostSynAck, s
      <3>4. Accepted(p, s)
        BY <3>3, FailsOr, VerdictIs DEF Accepted
      <3>5. th_payload_get /\ UNCHANGED <<ring, bound>>
        BY <1>2, <2>3 DEF FhHostSynAck
      <3>6. Answered(p)
        BY <3>1, <3>2, <3>4, <3>5 DEF Answered
      <3> QED BY <2>1, <3>3, <3>5, <3>6, VerdictIs DEF Does
    <2> QED BY <2>2, <2>3
  <1>3. CASE FhOutgoingSynAck(p)
    <2> DEFINE known == srcinfo_get(p.peer)
               s == FhSend(p, known.hw, FhDecoy(p, SndTtl(known.ttl), (p.seq + 1) % SEQ, p.ack))
    <2>1. p.type = "outgoing" /\ p.type # "host" /\ p.kind = "synack" /\ ~Worked(p)
          /\ (srcinfo_available(p.peer) => From(p) = known.ttl)
      BY <1>3 DEF FhOutgoingSynAck, From, Worked
    <2>2. CASE ~ctx.inbound \/ ~srcinfo_available(p.peer) \/ Local(known.ttl)
      <3>1. Pass(p)
        BY <1>3, <2>2 DEF FhOutgoingSynAck
      <3>2. ~Wanted(p)
        BY <1>1, <2>1, <2>2 DEF Wanted
      <3> QED BY <2>1, <3>1, <3>2, PassDoes
    <2>3. CASE ~(~ctx.inbound \/ ~srcinfo_available(p.peer) \/ Local(known.ttl))
      <3>1. Wanted(p)
        BY <1>1, <2>1, <2>3 DEF Wanted
      <3>2. IsDecoy(p, s)
        BY <1>1, <2>1, <2>3 DEF IsDecoy, FhSend, ByRaw, ByLink
      <3>3. /\ th_payload_get /\ UNCHANGED <<ring, bound>>
            /\ \/ \E n \in 0..ctx.repeat : Fail(TRUE) /\ Verdict(p, "ACCEPT", Times(n, s), p.options)
               \/ Fail(FALSE) /\ Verdict(p, "DROP", Append(Times(ctx.repeat, s), Original(p)), p.options)
        BY <1>3, <2>3 DEF FhOutgoingSynAck, Original
      <3> HIDE DEF s, known
      <3>4. CASE \E n \in 0..ctx.repeat : Fail(TRUE) /\ Verdict(p, "ACCEPT", Times(n, s), p.options)
        <4>1. PICK n \in 0..ctx.repeat : Fail(TRUE) /\ Verdict(p, "ACCEPT", Times(n, s), p.options)
          BY <3>4
        <4>2. Accepted(p, s)
          BY <4>1, VerdictIs DEF Accepted, Fail
        <4>3. Answered(p)
          BY <3>1, <3>2, <3>3, <4>2 DEF Answered
        <4> QED BY <2>1, <3>3, <4>1, <4>3, VerdictIs DEF Does
      <3>5. CASE Fail(FALSE) /\ Verdict(p, "DROP", Append(Times(ctx.repeat, s), Original(p)), p.options)
        <4>1. Replaced(p, s)
          BY <2>1, <2>3, <3>5, VerdictIs DEF Replaced, Fail
        <4>2. Answered(p)
          BY <3>1, <3>2, <3>3, <4>1 DEF Answered
        <4> QED BY <2>1, <3>3, <3>5, <4>2, VerdictIs DEF Does
      <3> QED BY <3>3, <3>4, <3>5
    <2> QED BY <2>2, <2>3
  <1>4. CASE FhHostSyn(p)
    <2>1. p.type = "host" /\ p.kind = "syn" /\ ~Wanted(p)
      BY <1>1, <1>4 DEF FhHostSyn, Wanted
    <2>2. CASE ~ctx.inbound
      <3>1. Pass(p) /\ ~Worked(p)
        BY <1>4, <2>1, <2>2 DEF FhHostSyn, Worked
      <3> QED BY <2>1, <3>1, PassDoes
    <2>3. CASE ctx.inbound
      <3>1. Worked(p)
        BY <1>1, <2>1, <2>3 DEF Worked
      <3>2. Verdict(p, "ACCEPT", <<>>, remove_tfo_cookie(p.options)) /\ UNCHANGED <<ring, current_node, bound, draws, fails>>
        BY <1>4, <2>3 DEF FhHostSyn
      <3> QED BY <2>1, <3>1, <3>2, VerdictIs DEF Does, Silent
    <2> QED BY <2>2, <2>3
  <1>5. CASE FhOutgoingSyn(p)
    <2>1. p.type = "outgoing" /\ p.type # "host" /\ p.kind = "syn" /\ ~Wanted(p)
      BY <1>1, <1>5 DEF FhOutgoingSyn, Wanted
    <2>2. Verdict(p, "ACCEPT", <<>>, IF ctx.outbound THEN remove_tfo_cookie(p.options) ELSE p.options)
          /\ UNCHANGED <<ring, current_node, bound, draws, fails>>
      BY <1>5 DEF FhOutgoingSyn, daemon
    <2>3. Worked(p) <=> ctx.outbound
      BY <1>1, <2>1 DEF Worked
    <2> QED BY <2>1, <2>2, <2>3, VerdictIs DEF Does, Silent
  <1>6. CASE FhOther(p)
    <2>1. Pass(p) /\ ~Wanted(p) /\ ~Worked(p)
      BY <1>1, <1>6 DEF FhOther, Wanted, Worked
    <2> QED BY <2>1, PassDoes
  <1> QED BY <1>2, <1>3, <1>4, <1>5, <1>6 DEF FakeHttp

LEMMA SipDoes ==
    ASSUME ctx.repeat \in Nat, NEW p, p.type \in {"host", "outgoing"}, p.peer.family \in DOMAIN bound, FakeSip(p)
    PROVE  Does(p)
  <1>1. Scene.prog = "fakesip" /\ Scene.prog # "fakehttp" /\ p.ifindex # 0 /\ Parses(p) /\ ~Worked(p)
    BY DEF FakeSip, Worked
  <1>2. CASE FsSkip(p)
    <2>1. Pass(p) /\ ~Wanted(p)
      BY <1>1, <1>2 DEF FsSkip, Wanted
    <2> QED BY <1>1, <2>1, PassDoes
  <1>3. CASE FsHost(p)
    <2> DEFINE s == ByLink(p, p.hw, FsDecoy(p, SndTtl(p.ttl)))
    <2>1. p.type = "host" /\ From(p) = p.ttl /\ ~Skipped(p) /\ UNCHANGED <<ring, bound>>
      BY <1>3 DEF FsHost, From
    <2>2. CASE ~ctx.outbound \/ Local(p.ttl)
      <3>1. Verdict(p, "ACCEPT", <<>>, p.options) /\ UNCHANGED <<current_node, draws, fails>>
        BY <1>3, <2>2 DEF FsHost
      <3>2. ~Wanted(p)
        BY <2>1, <2>2 DEF Wanted
      <3> QED BY <1>1, <2>1, <3>1, <3>2, VerdictIs DEF Does, Silent
    <2>3. CASE ~(~ctx.outbound \/ Local(p.ttl))
      <3>1. Wanted(p)
        BY <1>1, <2>1, <2>3 DEF Wanted
      <3>2. IsDecoy(p, s)
        BY <1>1, <2>1 DEF IsDecoy, ByLink
      <3> HIDE DEF s
      <3>3. PICK n \in 0..ctx.repeat : Fail(n < ctx.repeat) /\ Verdict(p, "ACCEPT", Times(n, s), p.options)
        BY <1>3, <2>3 DEF FsHost, s
      <3>4. Accepted(p, s)
        BY <3>3, FailsOr, VerdictIs DEF Accepted
      <3>5. th_payload_get
        BY <1>3, <2>3 DEF FsHost
      <3>6. Answered(p)
        BY <3>1, <3>2, <3>4, <3>5 DEF Answered
      <3> QED BY <1>1, <2>1, <3>3, <3>6, VerdictIs DEF Does
    <2> QED BY <2>2, <2>3
  <1>4. CASE FsOutgoing(p)
    <2> DEFINE src_ttl == IF srcinfo_available(p.peer) THEN srcinfo_get(p.peer).ttl ELSE 0
               s(i) == ByRaw(i, FsDecoy(p, SndTtl(src_ttl)))
    <2>1. p.type = "outgoing" /\ p.type # "host" /\ From(p) = src_ttl /\ ~Skipped(p)
      BY <1>4 DEF FsOutgoing, From
    <2>2. CASE ~ctx.inbound \/ Local(src_ttl)
      <3>1. Pass(p) /\ ~Wanted(p)
        BY <1>4, <2>1, <2>2 DEF FsOutgoing, Wanted
      <3> QED BY <1>1, <3>1, PassDoes
    <2>3. CASE ~(~ctx.inbound \/ Local(src_ttl))
      <3>1. Wanted(p)
        BY <1>1, <2>1, <2>3 DEF Wanted
      <3>2. IsDecoy(p, s(p.ifindex))
        BY <1>1, <2>1 DEF IsDecoy, ByRaw
      <3>3. /\ th_payload_get /\ UNCHANGED ring
            /\ \/ bound[p.peer.family] # p.ifindex /\ Fail(TRUE) /\ Verdict(p, "ACCEPT", <<>>, p.options) /\ UNCHANGED bound
               \/ /\ FsBind(p.peer.family, p.ifindex)
                  /\ \E n \in 0..ctx.repeat :
                        /\ Fail(n < ctx.repeat)
                        /\ Verdict(p, "ACCEPT", Times(n, s(bound'[p.peer.family])), p.options)
        BY <1>4, <2>3 DEF FsOutgoing
      <3> HIDE DEF s, src_ttl
      <3>4. CASE /\ bound[p.peer.family] # p.ifindex /\ Fail(TRUE)
                 /\ Verdict(p, "ACCEPT", <<>>, p.options) /\ UNCHANGED bound
        <4>1. Times(0, s(p.ifindex)) = <<>>
          BY DEF Times
        <4>2. Accepted(p, s(p.ifindex))
          BY <3>4, <4>1, VerdictIs DEF Accepted, Fail
        <4>3. Answered(p)
          BY <3>1, <3>2, <3>3, <4>2 DEF Answered
        <4> QED BY <1>1, <3>3, <3>4, <4>3, VerdictIs DEF Does
      <3>5. CASE /\ FsBind(p.peer.family, p.ifindex)
                 /\ \E n \in 0..ctx.repeat :
                        /\ Fail(n < ctx.repeat)
                        /\ Verdict(p, "ACCEPT", Times(n, s(bound'[p.peer.family])), p.options)
        <4>1. PICK n \in 0..ctx.repeat :
                  Fail(n < ctx.repeat) /\ Verdict(p, "ACCEPT", Times(n, s(bound'[p.peer.family])), p.options)
          BY <3>5
        <4>2. bound'[p.peer.family] = p.ifindex
          BY <3>5 DEF FsBind
        <4>3. Accepted(p, s(p.ifindex))
          BY <4>1, <4>2, FailsOr, VerdictIs DEF Accepted
        <4>4. Answered(p)
          BY <3>1, <3>2, <3>3, <4>3 DEF Answered
        <4> QED BY <1>1, <3>3, <3>5, <4>1, <4>4, VerdictIs DEF Does
      <3> QED BY <3>3, <3>4, <3>5
    <2> QED BY <2>2, <2>3
  <1> QED BY <1>2, <1>3, <1>4 DEF FakeSip

\* A packet is let go as it is, but for the cookie of its options, or answered with
\* decoys that are all alike.
LEMMA CallbackDoes ==
    ASSUME ctx.repeat \in Nat, NEW p, p.type \in {"host", "outgoing"}, p.peer.family \in DOMAIN bound, callback(p)
    PROVE  Does(p)
  <1>1. CASE Unusable(p)
    <2>1. Pass(p) /\ ~Wanted(p) /\ ~Worked(p)
      BY <1>1 DEF Unusable, Wanted, Worked
    <2> QED BY <2>1, PassDoes
  <1> QED BY <1>1, HttpDoes, SipDoes DEF callback

---------------------------------------------------------------------------
(* Types *)

\* How the daemon began; nothing of it changes afterwards.
Begun ==
    /\ \E nft \in Scene.nft : ctx = FallBack(nft, IF Valid(Scene) THEN Context(Scene) ELSE FhContext)
    /\ status = CASE ~Valid(Scene) -> "invalid"
                  [] Valid(Scene) /\ ~(ctx.ok /\ Builds(Scene, ctx)) -> "refused"
                  [] OTHER -> "serving"
    /\ ring = Ring(ctx)

LEMMA FallsBack ==
    ASSUME NEW nft, NEW c, Sane(c)
    PROVE  /\ Sane(FallBack(nft, c))
           /\ \A field \in DOMAIN c \ {"use_iptables"} : FallBack(nft, c)[field] = c[field]
  <1>1. FallBack(nft, c) = c \/ FallBack(nft, c) = [c EXCEPT !.use_iptables = TRUE]
    BY DEF FallBack
  <1> DEFINE d == [c EXCEPT !.use_iptables = TRUE]
  <1>2. \A field \in DOMAIN c \ {"use_iptables"} : d[field] = c[field]
    OBVIOUS
  <1>3. d.ttl = c.ttl /\ d.dynamic_pct = c.dynamic_pct /\ d.repeat = c.repeat /\ d.plinfo = c.plinfo
        /\ d.iface = c.iface /\ DOMAIN d = DOMAIN c
    BY DEF Sane, FhContext
  <1>4. Sane(d)
    BY <1>3 DEF Sane
  <1> HIDE DEF d
  <1> QED BY <1>1, <1>2, <1>4 DEF d

LEMMA StatusIs ==
    ASSUME Begun
    PROVE  /\ status \in {"invalid", "refused", "serving"}
           /\ status = "serving" <=> Valid(Scene) /\ ctx.ok /\ Builds(Scene, ctx)
  BY DEF Begun

\* A serving daemon has got through its options and has a ring of payloads.
LEMMA ServingIs ==
    ASSUME World, Begun, status = "serving"
    PROVE  /\ Valid(Scene) /\ Sane(ctx) /\ ctx.ok /\ Builds(Scene, ctx)
           /\ Len(ctx.plinfo) \in Nat \ {0} /\ DOMAIN ctx.plinfo = 1..Len(ctx.plinfo)
           /\ ring = Backwards(Len(ctx.plinfo))
  <1>1. Valid(Scene) /\ ctx.ok /\ Builds(Scene, ctx)
    BY StatusIs
  <1> DEFINE c == Context(Scene)
  <1>2. Sane(c) /\ (c.ok => c.plinfo # <<>>)
    BY <1>1, ContextSane DEF World, Scene
  <1>3. PICK nft \in Scene.nft : ctx = FallBack(nft, c)
    BY <1>1 DEF Begun
  <1> HIDE DEF c
  <1>4. Sane(ctx) /\ ctx.ok = c.ok /\ ctx.plinfo = c.plinfo
    <2>1. {"ok", "plinfo"} \subseteq DOMAIN c \ {"use_iptables"}
      BY <1>2 DEF Sane, FhContext
    <2> QED BY <1>2, <1>3, <2>1, FallsBack
  <1>5. Listed(ctx.plinfo) /\ ctx.plinfo # <<>>
    BY <1>1, <1>2, <1>4 DEF Sane
  <1>6. Len(ctx.plinfo) \in Nat /\ DOMAIN ctx.plinfo = 1..Len(ctx.plinfo)
    BY <1>5, ListedIs
  <1>7. Len(ctx.plinfo) # 0
    BY <1>5, <1>6 DEF Listed
  <1>8. ring = Backwards(Len(ctx.plinfo))
    BY <1>6, RingIs DEF Begun
  <1> QED BY <1>1, <1>4, <1>6, <1>7, <1>8

LEMMA BackwardsStays ==
    ASSUME NEW n \in Nat \ {0}
    PROVE  /\ Backwards(n) \in [1..n -> 1..n] /\ First(Backwards(n)) \in 1..n
  <1>1. \A k \in 1..n : (IF k = 1 THEN n ELSE k - 1) \in 1..n
    OBVIOUS
  <1>2. Backwards(n) \in [1..n -> 1..n]
    BY <1>1 DEF Backwards
  <1>3. Backwards(n) # <<>>
    BY DEF Backwards
  <1> QED BY <1>2, <1>3 DEF First

\* The parts of TypeOK that a step has to keep.
Counted ==
    /\ draws \in 0..packets /\ packets \in 0..Scene.max
    /\ fails \in 0..MaxFails /\ reroutes \in 0..MaxReroutes
Linked == status = "serving" => current_node \in 1..Len(ctx.plinfo)
Bound == bound \in [{"ip", "ip6"} -> Scene.ifaces \cup {0}]
Last == out.verdict \in {"none", "ACCEPT", "DROP"} /\ Len(out.sent) <= 11

DaemonInv == TableInv /\ Begun /\ Counted /\ Linked /\ Bound /\ Last

LEMMA InitDaemon == Init => DaemonInv
  <1> SUFFICES ASSUME Init PROVE DaemonInv
    OBVIOUS
  <1>1. TableInv /\ World
    BY InitTable DEF TableInv
  <1>2. Begun
    BY DEF Init, Begun
  <1>3. Counted
    <2>1. Scene.max \in Nat /\ MaxFails \in Nat /\ MaxReroutes \in Nat
      BY <1>1, PacketsAssumption DEF World, Scene
    <2> QED BY <2>1 DEF Init, Counted
  <1>4. Linked
    <2>1. ASSUME status = "serving"
          PROVE  First(ring) \in 1..Len(ctx.plinfo)
      BY <1>1, <1>2, <2>1, ServingIs, BackwardsStays
    <2> QED BY <2>1 DEF Init, Linked
  <1>5. Bound
    BY DEF Init, Bound
  <1>6. Last
    BY DEF Init, Last
  <1> QED BY <1>1, <1>2, <1>3, <1>4, <1>5, <1>6 DEF DaemonInv

\* What is sent for a packet: up to ten decoys and the packet.
LEMMA SentIs ==
    ASSUME ctx.repeat \in 1..10, NEW p, Does(p)
    PROVE  out'.verdict \in {"ACCEPT", "DROP"} /\ Len(out'.sent) <= 11
  <1>1. CASE Silent(p)
    BY <1>1 DEF Silent
  <1>2. CASE Answered(p)
    <2>1. PICK s : Accepted(p, s) \/ Replaced(p, s)
      BY <1>2 DEF Answered
    <2>2. \A n \in 0..ctx.repeat : Times(n, s) \in Seq({s}) /\ Len(Times(n, s)) = n
      BY DEF Times
    <2>3. CASE Accepted(p, s)
      BY <2>2, <2>3 DEF Accepted
    <2>4. CASE Replaced(p, s)
      <3>1. Times(ctx.repeat, s) \in Seq({s}) /\ Len(Times(ctx.repeat, s)) = ctx.repeat
        BY <2>2
      <3>2. Len(Append(Times(ctx.repeat, s), Original(p))) = ctx.repeat + 1
        BY <3>1
      <3> QED BY <2>4, <3>2 DEF Replaced
    <2> QED BY <2>1, <2>3, <2>4
  <1> QED BY <1>1, <1>2 DEF Does

LEMMA DaemonStep == DaemonInv /\ [Next]_vars => DaemonInv'
  <1> SUFFICES ASSUME DaemonInv, [Next]_vars PROVE DaemonInv'
    OBVIOUS
  <1>1. TableInv'
    BY TableStep DEF DaemonInv
  <1>2. World
    BY DEF DaemonInv, TableInv
  <1>3. CASE status = "serving" /\ packets < Scene.max /\ \E p \in Packets : callback(p)
    <2>1. PICK p \in Packets : callback(p)
      BY <1>3
    <2>2. /\ p.type \in {"host", "outgoing"} /\ p.peer \in Peers /\ p.peer.family \in {"ip", "ip6"}
          /\ p.ifindex \in Scene.ifaces
      <3>1. p.type \in {"host", "outgoing"} /\ p.peer \in Peers
        BY <1>2, <2>1, PacketFacts
      <3>2. p.ifindex \in Scene.ifaces
        BY <2>1 DEF Packets, Packet
      <3> QED BY <3>1, <3>2, PacketsAssumption
    <2>3. Sane(ctx) /\ Len(ctx.plinfo) \in Nat \ {0} /\ ring = Backwards(Len(ctx.plinfo))
      BY <1>2, <1>3, ServingIs DEF DaemonInv
    <2>4. ctx.repeat \in 1..10 /\ ctx.repeat \in Nat
      BY <2>3 DEF Sane
    <2>5. Does(p)
      BY <2>1, <2>2, <2>4, CallbackDoes DEF DaemonInv, Bound
    <2>6. UNCHANGED <<sc, status, ctx, dist, reroutes, ring>> /\ packets' = packets + 1
      BY <2>1, <2>5 DEF callback, fixed, Does
    <2>7. UNCHANGED <<current_node, draws>> \/ th_payload_get
      BY <2>5 DEF Does, Silent, Answered
    <2>8. UNCHANGED fails \/ (fails < MaxFails /\ fails' = fails + 1)
      BY <2>5 DEF Does, Silent, Answered, Accepted, Replaced
    <2>9. Begun'
      BY <2>6 DEF DaemonInv, Begun, Scene
    <2>10. Counted'
      <3>1. Scene.max \in Nat /\ MaxFails \in Nat /\ Scene' = Scene
        BY <1>2, <2>6, PacketsAssumption DEF World, Scene
      <3>2. packets' \in 0..Scene.max
        BY <1>3, <2>6, <3>1 DEF DaemonInv, Counted
      <3>3. draws' \in 0..packets'
        BY <2>6, <2>7 DEF DaemonInv, Counted, th_payload_get
      <3>4. fails' \in 0..MaxFails
        BY <2>8, <3>1 DEF DaemonInv, Counted
      <3> QED BY <2>6, <3>1, <3>2, <3>3, <3>4 DEF DaemonInv, Counted
    <2>11. Linked'
      <3>1. current_node \in 1..Len(ctx.plinfo)
        BY <1>3 DEF DaemonInv, Linked
      <3>2. current_node' \in 1..Len(ctx.plinfo)
        BY <2>3, <2>7, <3>1, BackwardsStays DEF th_payload_get
      <3> QED BY <2>6, <3>2 DEF Linked
    <2>12. Bound'
      BY <2>2, <2>5, <2>6 DEF DaemonInv, Bound, Does, FsBind, Scene
    <2>13. Last'
      BY <2>4, <2>5, SentIs DEF Last
    <2> QED BY <1>1, <2>9, <2>10, <2>11, <2>12, <2>13 DEF DaemonInv
  <1>4. CASE \E peer \in Scene.peers : Reroute(peer)
    <2>1. UNCHANGED <<sc, status, ctx, ring, current_node, bound, draws, out, packets, fails>>
          /\ reroutes < MaxReroutes /\ reroutes' = reroutes + 1
      BY <1>4 DEF Reroute, fixed, daemon
    <2>2. Begun' /\ Linked' /\ Bound' /\ Last'
      BY <2>1 DEF DaemonInv, Begun, Linked, Bound, Last, Scene
    <2>3. Counted'
      BY <2>1, PacketsAssumption DEF DaemonInv, Counted, Scene
    <2> QED BY <1>1, <2>2, <2>3 DEF DaemonInv
  <1>5. CASE UNCHANGED vars
    <2>1. UNCHANGED <<sc, status, ctx, ring, current_node, bound, draws, out, packets, fails, reroutes>>
      BY <1>5 DEF vars, fixed, daemon
    <2>2. Begun' /\ Linked' /\ Bound' /\ Last' /\ Counted'
      BY <2>1 DEF DaemonInv, Begun, Linked, Bound, Last, Counted, Scene
    <2> QED BY <1>1, <2>2 DEF DaemonInv
  <1> QED BY <1>3, <1>4, <1>5 DEF Next

\* Every slot is on the walk.
LEMMA SlotsHoldHeard ==
    ASSUME RingHolds
    PROVE  srci \in [0..CAPACITY - 1 -> {Unused} \cup {heard[k] : k \in DOMAIN heard}]
  <1>1. srci_end \in 0..CAPACITY - 1 /\ Len(heard) \in Nat /\ DOMAIN heard = 1..Len(heard)
        /\ srci = [s \in 0..CAPACITY - 1 |-> srci[s]]
    BY DEF RingHolds
  <1>2. ASSUME NEW s \in 0..CAPACITY - 1
        PROVE  srci[s] \in {Unused} \cup {heard[k] : k \in DOMAIN heard}
    <2> DEFINE i == IF s < srci_end THEN srci_end - s - 1 ELSE srci_end + CAPACITY - s - 1
    <2>1. i \in 0..CAPACITY - 1 /\ Back(srci_end, i) = s
      <3>1. CASE s < srci_end
        BY <1>1, <3>1, CapacityAssumption DEF Back
      <3>2. CASE ~(s < srci_end)
        BY <1>1, <3>2, CapacityAssumption DEF Back
      <3> QED BY <3>1, <3>2
    <2> HIDE DEF i
    <2>2. srci[s] = IF i < Len(heard) THEN heard[Len(heard) - i] ELSE Unused
      BY <2>1 DEF RingHolds
    <2>3. i < Len(heard) => Len(heard) - i \in DOMAIN heard
      BY <1>1, <2>1
    <2> QED BY <2>2, <2>3
  <1> QED BY <1>1, <1>2

LEMMA TypesFollow == DaemonInv => TypeOK
  <1> SUFFICES ASSUME DaemonInv PROVE TypeOK
    OBVIOUS
  <1>1. World /\ RingHolds /\ Begun
    BY DEF DaemonInv, TableInv
  <1>2. ASSUME status = "serving"
        PROVE  Tuned /\ current_node \in DOMAIN ctx.plinfo /\ ring \in [DOMAIN ctx.plinfo -> DOMAIN ctx.plinfo]
    BY <1>1, <1>2, ServingIs, BackwardsStays DEF DaemonInv, Linked, Sane, Tuned
  <1>3. status \in {"invalid", "refused", "serving"}
    BY <1>1, StatusIs
  <1>4. srci \in [0..CAPACITY - 1 -> {Unused} \cup {heard[k] : k \in DOMAIN heard}]
    BY <1>1, SlotsHoldHeard
  <1> QED BY <1>1, <1>2, <1>3, <1>4 DEF TypeOK, World, RingHolds, DaemonInv, Counted, Bound, Last

\* The types of the daemon, for every command line and every UCI section: what gets
\* through getopt and the checks behind it is a TTL of one byte, a percentage below 100
\* and one to ten repetitions; the ring is a ring, and its current node one of it.
THEOREM TypeCorrect == Spec => []TypeOK
  BY InitDaemon, DaemonStep, TypesFollow, PTL DEF Spec

---------------------------------------------------------------------------
(* Decoys fall short *)

\* The decoys of a packet's step are those that it is answered with.
LEMMA DecoysAreMeant ==
    ASSUME ctx.repeat \in Nat, NEW p, Does(p), NEW k \in Decoys'
    PROVE  Wanted(p) /\ IsDecoy(p, out'.sent[k])
  <1>1. k \in DOMAIN out'.sent /\ out'.sent[k].pkt.what = "decoy"
    BY DEF Decoys
  <1>2. CASE Silent(p)
    BY <1>1, <1>2 DEF Silent
  <1>3. CASE Answered(p)
    <2>1. PICK s : IsDecoy(p, s) /\ (Accepted(p, s) \/ Replaced(p, s))
      BY <1>3 DEF Answered
    <2>2. CASE Accepted(p, s)
      <3>1. PICK n \in 0..ctx.repeat : out'.sent = Times(n, s)
        BY <2>2 DEF Accepted
      <3>2. out'.sent[k] = s
        BY <1>1, <3>1 DEF Times
      <3> QED BY <1>3, <2>1, <3>2 DEF Answered
    <2>3. CASE Replaced(p, s)
      <3>1. Times(ctx.repeat, s) \in Seq({s}) /\ Len(Times(ctx.repeat, s)) = ctx.repeat
        BY DEF Times
      <3>2. out'.sent = Append(Times(ctx.repeat, s), Original(p))
        BY <2>3 DEF Replaced
      <3>3. Original(p).pkt.what = "original"
        BY DEF Original, FhSend, ByRaw, ByLink
      <3>4. out'.sent[k] = s \/ out'.sent[k] = Original(p)
        BY <1>1, <3>1, <3>2
      <3>5. out'.sent[k] = s
        BY <1>1, <3>3, <3>4
      <3> QED BY <1>3, <2>1, <3>5 DEF Answered
    <2> QED BY <2>1, <2>2, <2>3
  <1> QED BY <1>2, <1>3 DEF Does

LEMMA DecoyTtl ==
    ASSUME NEW p, NEW s, IsDecoy(p, s)
    PROVE  s.pkt.ttl = SndTtl(From(p))
  BY DEF IsDecoy, FhDecoy, FsDecoy, fh_pkt4_make, fh_pkt6_make, fs_pkt4_make, fs_pkt6_make

\* What DecoyFallsShort says of one decoy.
Short(k) ==
    LET p == out.pkt IN
    /\ p.type = "host" => out.sent[k].pkt.ttl < Initial[p.peer] - p.ttl
    /\ p.type = "outgoing" => \A m \in DOMAIN heard :
            NewestOf(p.peer, m) => out.sent[k].pkt.ttl < heard[m].dist

LEMMA PacketFallsShort ==
    ASSUME TableInv, Tuned, NEW p \in Packets, callback(p), Does(p)
    PROVE  DecoyFallsShort'
  <1>1. SUFFICES ASSUME NEW k \in Decoys', ~ctx'.nohopest
                 PROVE  Short(k)'
    BY DEF DecoyFallsShort, Short
  <1>2. ~ctx.nohopest
    BY <1>1 DEF callback, fixed
  <1>3. p.type \in {"host", "outgoing"} /\ p.peer \in Peers /\ dist[p.peer] \in 1..63
        /\ (p.type = "host" => p.ttl = Initial[p.peer] - dist[p.peer])
    BY PacketFacts DEF TableInv
  <1>4. out'.pkt = p /\ out'.sent[k].pkt.ttl = SndTtl(From(p)) /\ ~Local(From(p))
    <2>1. ctx.repeat \in Nat
      BY DEF Tuned
    <2> QED BY <1>1, <2>1, DecoysAreMeant, DecoyTtl DEF Does, Wanted
  <1>5. ASSUME p.type = "host"
        PROVE  out'.sent[k].pkt.ttl < Initial[p.peer] - p.ttl
    <2>1. From(p) = p.ttl
      BY <1>5 DEF From
    <2>2. hop_estimate(p.ttl) = dist[p.peer]
      BY <1>3, <1>5, HopsAreExact, InitialTtls
    <2>3. SndTtl(p.ttl) < hop_estimate(p.ttl)
      BY <1>2, <1>3, <1>4, <2>1, <2>2, TtlFallsShort
    <2>4. Initial[p.peer] - p.ttl = dist[p.peer]
      BY <1>3, <1>5, InitialTtls
    <2> QED BY <1>4, <2>1, <2>2, <2>3, <2>4
  <1>6. ASSUME p.type = "outgoing", NEW m \in DOMAIN heard', NewestOf(p.peer, m)'
        PROVE  out'.sent[k].pkt.ttl < heard'[m].dist
    <2>1. UNCHANGED table
      BY <1>6, CallbackTable
    <2>2. m \in DOMAIN heard /\ NewestOf(p.peer, m)
      BY <1>6, <2>1 DEF table, NewestOf
    <2>3. srcinfo_available(p.peer) /\ srcinfo_get(p.peer) = heard[m]
      BY <1>3, <2>2, RingLooksUp DEF TableInv, LookupNewest
    <2>4. From(p) = heard[m].ttl
      BY <1>6, <2>3 DEF From
    <2>5. heard[m] \in Info /\ heard[m].ttl = Initial[heard[m].addr] - heard[m].dist
      BY <2>2 DEF TableInv, RingHolds
    <2>6. heard[m].dist \in 1..63 /\ heard[m].addr \in Peers
      BY <2>5 DEF Info
    <2>7. hop_estimate(heard[m].ttl) = heard[m].dist
      BY <2>5, <2>6, HopsAreExact, InitialTtls
    <2>8. SndTtl(heard[m].ttl) < heard[m].dist
      BY <1>2, <1>4, <2>4, <2>6, <2>7, TtlFallsShort
    <2> QED BY <1>4, <2>1, <2>4, <2>8 DEF table
  <1> QED BY <1>4, <1>5, <1>6 DEF Short, NewestOf

\* A packet's step in a state of the invariant.
LEMMA PacketDoes ==
    ASSUME DaemonInv, status = "serving", NEW p \in Packets, callback(p)
    PROVE  TableInv /\ Tuned /\ Does(p)
  <1>1. World /\ TableInv
    BY DEF DaemonInv, TableInv
  <1>2. Sane(ctx)
    BY <1>1, ServingIs DEF DaemonInv
  <1>3. p.type \in {"host", "outgoing"} /\ p.peer.family \in DOMAIN bound
    BY <1>1, PacketFacts, PacketsAssumption DEF DaemonInv, Bound
  <1> QED BY <1>1, <1>2, <1>3, CallbackDoes DEF Sane, Tuned

LEMMA StepFallsShort ==
    DaemonInv /\ DecoyFallsShort /\ [Next]_vars => DecoyFallsShort'
  <1> SUFFICES ASSUME DaemonInv, DecoyFallsShort, [Next]_vars
               PROVE  DecoyFallsShort'
    OBVIOUS
  <1>1. CASE status = "serving" /\ \E p \in Packets : callback(p)
    BY <1>1, PacketDoes, PacketFallsShort
  <1>2. CASE \E peer \in Scene.peers : Reroute(peer)
    BY <1>2 DEF Reroute, DecoyFallsShort, Decoys, NewestOf, fixed, daemon, table
  <1>3. CASE UNCHANGED vars
    BY <1>3 DEF DecoyFallsShort, Decoys, NewestOf, vars, fixed, daemon, table
  <1> QED BY <1>1, <1>2, <1>3 DEF Next

\* rawsend.c: with hop estimation on, no decoy of either program reaches a peer whose
\* system starts from one of the usual TTLs, as far away as the packet that is answered,
\* or the newest one heard of the peer, has come: for every command line and section,
\* every TTL, percentage, capacity and history.
THEOREM DecoysFallShort == Spec => []DecoyFallsShort
  <1>1. Init => DaemonInv /\ DecoyFallsShort
    <2>1. Init => DecoyFallsShort
      BY DEF Init, DecoyFallsShort, Decoys
    <2> QED BY <2>1, InitDaemon
  <1>2. DaemonInv /\ DecoyFallsShort /\ [Next]_vars => DaemonInv' /\ DecoyFallsShort'
    BY DaemonStep, StepFallsShort
  <1> QED BY <1>1, <1>2, PTL DEF Spec

---------------------------------------------------------------------------
(* A command line option by option *)

\* What has been read depends on the options read.
LEMMA ReadOnce ==
    ASSUME NEW prog, NEW c, NEW a, NEW b, NEW n \in Nat, NEW m \in Nat, n <= m, NEW f, NEW g,
           Read(f, prog, c, a, n), Read(g, prog, c, b, m), \A k \in 1..n : a[k] = b[k]
    PROVE  f[n] = g[n]
  <1> DEFINE T == {k \in Nat : k <= n => f[k] = g[k]}
  <1>1. 0 \in T
    BY DEF Read
  <1>2. ASSUME NEW k \in Nat, k \in T
        PROVE  k + 1 \in T
    <2>1. SUFFICES ASSUME k + 1 <= n PROVE f[k + 1] = g[k + 1]
      OBVIOUS
    <2>2. f[k] = g[k] /\ k + 1 \in 1..n /\ k + 1 \in 1..m /\ k + 1 - 1 = k
      BY <1>2, <2>1
    <2>3. f[k + 1] = Option(prog, f[k], a[k + 1]) /\ g[k + 1] = Option(prog, g[k], b[k + 1])
      BY <2>2 DEF Read
    <2> QED BY <2>2, <2>3
  <1> HIDE DEF T
  <1>3. T = Nat
    <2>1. T \subseteq Nat
      BY DEF T
    <2> QED BY <1>1, <1>2, <2>1, Induct
  <1> QED BY <1>3 DEF T

LEMMA GetoptJoin ==
    ASSUME NEW prog, NEW c, NEW a, NEW b, Listed(a), Listed(b)
    PROVE  Getopt(prog, c, a \o b) = Getopt(prog, Getopt(prog, c, a), b)
  <1> DEFINE n == Len(a)
             m == Len(b)
             d == Getopt(prog, c, a)
  <1>1. /\ n \in Nat /\ m \in Nat /\ Len(a \o b) = n + m
        /\ \A k \in 1..n : (a \o b)[k] = a[k]
        /\ \A k \in 1..m : (a \o b)[n + k] = b[k]
    BY DEF Listed
  <1>2. PICK f : Read(f, prog, c, a \o b, n + m) /\ Getopt(prog, c, a \o b) = f[n + m]
    <2> HIDE DEF n, m
    <2> DEFINE ab == a \o b
    <2>1. Len(ab) = n + m /\ Len(ab) \in Nat
      BY <1>1
    <2> HIDE DEF ab
    <2>2. \E f : Read(f, prog, c, ab, Len(ab)) /\ Getopt(prog, c, ab) = f[Len(ab)]
      BY <2>1, GetoptReads
    <2> QED BY <2>1, <2>2 DEF ab
  <1>3. PICK g : Read(g, prog, c, a, n) /\ d = g[n]
    BY <1>1, GetoptReads
  <1>4. PICK h : Read(h, prog, d, b, m) /\ Getopt(prog, d, b) = h[m]
    BY <1>1, GetoptReads
  <1> HIDE DEF n, m, d
  <1> DEFINE ab == a \o b
  <1>a. /\ \A k \in 1..n : a[k] = ab[k]
        /\ \A k \in 1..m : ab[n + k] = b[k]
    BY <1>1
  <1>b. Read(f, prog, c, ab, n + m) /\ Getopt(prog, c, ab) = f[n + m]
    BY <1>2
  <1> HIDE DEF ab
  <1>5. f[n] = d
    <2>1. n + m \in Nat /\ n <= n + m
      BY <1>1
    <2> QED BY <1>1, <1>a, <1>b, <1>3, <2>1, ReadOnce
  <1> DEFINE e == [k \in 0..m |-> f[n + k]]
  <1>6. Read(e, prog, d, b, m)
    <2>1. Over(e, m)
      BY DEF Over
    <2>2. e[0] = d
      BY <1>1, <1>5
    <2>3. ASSUME NEW k \in 1..m
          PROVE  e[k] = Option(prog, e[k - 1], b[k])
      <3>1. k \in 0..m /\ k - 1 \in 0..m /\ n + k \in 1..n + m /\ n + (k - 1) = n + k - 1
        BY <1>1
      <3>2. f[n + k] = Option(prog, f[n + k - 1], ab[n + k])
        <4> DEFINE j == n + k
        <4>1. j \in 1..n + m
          BY <3>1
        <4> HIDE DEF j
        <4>2. f[j] = Option(prog, f[j - 1], ab[j])
          BY <1>b, <4>1 DEF Read
        <4>3. j - 1 = n + k - 1
          BY <1>1 DEF j
        <4> QED BY <4>2, <4>3 DEF j
      <3>3. e[k] = f[n + k] /\ e[k - 1] = f[n + k - 1]
        BY <3>1
      <3> QED BY <1>a, <3>2, <3>3
    <2> HIDE DEF e
    <2> QED BY <2>1, <2>2, <2>3 DEF Read
  <1>7. e[m] = f[n + m]
    BY <1>1
  <1> HIDE DEF e
  <1>8. e[m] = h[m]
    BY <1>1, <1>4, <1>6, ReadOnce
  <1> QED BY <1>b, <1>4, <1>7, <1>8 DEF d, ab

LEMMA GetoptFew ==
    ASSUME NEW prog, NEW c
    PROVE  /\ Getopt(prog, c, <<>>) = c
           /\ \A x : Getopt(prog, c, <<x>>) = Option(prog, c, x)
  <1>1. PICK f : Read(f, prog, c, <<>>, 0) /\ Getopt(prog, c, <<>>) = f[0]
    <2>1. Len(<<>>) = 0
      OBVIOUS
    <2> QED BY <2>1, GetoptReads
  <1>2. ASSUME NEW x
        PROVE  Getopt(prog, c, <<x>>) = Option(prog, c, x)
    <2>1. Len(<<x>>) = 1 /\ <<x>>[1] = x
      OBVIOUS
    <2>2. PICK g : Read(g, prog, c, <<x>>, 1) /\ Getopt(prog, c, <<x>>) = g[1]
      BY <2>1, GetoptReads
    <2>3. g[0] = c /\ g[1] = Option(prog, g[0], <<x>>[1])
      <3>1. 1 \in 1..1 /\ 1 - 1 = 0
        OBVIOUS
      <3> QED BY <2>2, <3>1 DEF Read
    <2> QED BY <2>1, <2>2, <2>3
  <1> QED BY <1>1, <1>2 DEF Read

\* d is c with other values in the named fields, and the parser has nothing to object.
Sets(c, d, names) ==
    /\ Sane(d) /\ d.ok /\ DOMAIN c = DOMAIN d
    /\ \A field \in DOMAIN c \ names : d[field] = c[field]

LEMMA SetsNothing ==
    ASSUME NEW c, Sane(c), c.ok, NEW names
    PROVE  Sets(c, c, names)
  BY DEF Sets

LEMMA SetsMore ==
    ASSUME NEW c, NEW d, NEW e, NEW names, NEW more, Sets(c, d, names), Sets(d, e, more)
    PROVE  Sets(c, e, names \cup more)
  BY DEF Sets

\* What a field still is.
LEMMA SetsKeeps ==
    ASSUME NEW c, NEW d, NEW names, Sets(c, d, names)
    PROVE  \A field \in DOMAIN FhContext : field \notin names => d[field] = c[field]
  BY DEF Sets, Sane

LEMMA GetoptFlag ==
    ASSUME NEW prog, NEW c, Sane(c), c.ok, NEW o \in DOMAIN Switches, NEW a
    PROVE  /\ a = <<>> => Getopt(prog, c, a) = c /\ Sets(c, c, {Switches[o]})
           /\ a = <<<<o, 0>>>> => /\ Sets(c, Getopt(prog, c, a), {Switches[o]})
                                  /\ Getopt(prog, c, a)[Switches[o]] = TRUE
  <1> DEFINE e == [c EXCEPT ![Switches[o]] = TRUE]
             arg == <<o, 0>>
  <1>1. Switches[o] \in DOMAIN c /\ Switches[o] # "ok"
    BY DEF Switches, Sane, FhContext
  <1>2. Option(prog, c, arg) = e
    <2>1. arg[1] = o
      OBVIOUS
    <2>2. o \notin {"b", "e", "h", "u", "i", "m", "r", "t", "x", "y", "p", "P"}
      BY DEF Switches
    <2> HIDE DEF arg, e
    <2>3. FhOption(c, arg) = e
      BY <2>1, <2>2 DEF FhOption, e
    <2>4. FsOption(c, arg) = e
      BY <2>1, <2>2 DEF FsOption, e
    <2> QED BY <2>3, <2>4 DEF Option
  <1>3. Sets(c, e, {Switches[o]}) /\ e[Switches[o]] = TRUE
    <2>1. Sane(e)
      BY <1>2, OptionSane
    <2>2. "ok" \in DOMAIN c
      BY DEF Sane, FhContext
    <2> QED BY <1>1, <2>1, <2>2 DEF Sets
  <1>4. Getopt(prog, c, <<arg>>) = e
    <2> HIDE DEF arg, e
    <2>1. Getopt(prog, c, <<arg>>) = Option(prog, c, arg)
      BY GetoptFew
    <2> QED BY <1>2, <2>1
  <1>5. Getopt(prog, c, <<>>) = c
    BY GetoptFew
  <1>6. Sets(c, c, {Switches[o]})
    BY SetsNothing
  <1> HIDE DEF e
  <1> QED BY <1>3, <1>4, <1>5, <1>6

\* A flag that is set or not.
LEMMA FlagIs ==
    ASSUME NEW o, NEW set
    PROVE  (set => Flag(o, set) = <<<<o, 0>>>>) /\ (~set => Flag(o, set) = <<>>)
  BY DEF Flag

\* An option with a number or a mark that is within its range.
LEMMA GetoptNumber ==
    ASSUME NEW prog, NEW c, Sane(c), c.ok, NEW o \in {"m", "x", "r", "t", "y"}, NEW v, Number(c, o, v).ok
    PROVE  LET d == Getopt(prog, c, <<<<o, v>>>>)
               name == CASE o = "m" -> "fwmark" [] o = "x" -> "fwmask" [] o = "r" -> "repeat"
                         [] o = "t" -> "ttl" [] o = "y" -> "dynamic_pct"
           IN  Sets(c, d, {name}) /\ d[name] = v
  <1> DEFINE arg == <<o, v>>
             name == CASE o = "m" -> "fwmark" [] o = "x" -> "fwmask" [] o = "r" -> "repeat"
                         [] o = "t" -> "ttl" [] o = "y" -> "dynamic_pct"
             e == [c EXCEPT ![name] = v]
  <1>1. Option(prog, c, arg) = Number(c, o, v)
    <2>1. arg[1] = o /\ arg[2] = v
      OBVIOUS
    <2>2. o \notin DOMAIN Switches /\ o \notin {"b", "e", "h", "u", "i", "p", "P"}
      BY DEF Switches
    <2> HIDE DEF arg
    <2>3. FhOption(c, arg) = Number(c, o, v)
      BY <2>1, <2>2 DEF FhOption
    <2>4. FsOption(c, arg) = Number(c, o, v)
      BY <2>1, <2>2 DEF FsOption
    <2> QED BY <2>3, <2>4 DEF Option
  <1>2. ~Refused(c).ok
    BY DEF Refused, Sane, FhContext
  <1>3. Number(c, o, v) = e
    BY <1>2 DEF Number, If
  <1>4. Getopt(prog, c, <<arg>>) = e
    <2> HIDE DEF arg, e
    <2>1. Getopt(prog, c, <<arg>>) = Option(prog, c, arg)
      BY GetoptFew
    <2> QED BY <1>1, <1>3, <2>1
  <1>5. name \in DOMAIN c /\ name # "ok" /\ "ok" \in DOMAIN c
    BY DEF Sane, FhContext
  <1>6. Sane(e)
    <2> HIDE DEF e, arg
    <2>1. Sane(Option(prog, c, arg))
      BY OptionSane
    <2> QED BY <1>1, <1>3, <2>1
  <1>7. Sets(c, e, {name}) /\ e[name] = v
    <2> HIDE DEF name
    <2> QED BY <1>5, <1>6 DEF Sets
  <1> HIDE DEF e, arg
  <1> QED BY <1>4, <1>7 DEF arg

---------------------------------------------------------------------------
(* The command line of a valid section, part by part *)

LEMMA NumberTaken ==
    ASSUME NEW c, Sane(c), c.ok, NEW uci, ValidTuning(uci)
    PROVE  /\ Number(c, "r", uci.repeat).ok /\ Number(c, "t", uci.ttl).ok
           /\ Number(c, "m", uci.fwmark).ok /\ Number(c, "x", uci.fwmask).ok
           /\ uci.dynamic_ttl_pct # 0 => Number(c, "y", uci.dynamic_ttl_pct).ok
  <1>1. /\ uci.repeat \in 1..10 /\ uci.ttl \in 1..255 /\ uci.dynamic_ttl_pct \in 0..99
        /\ uci.fwmark # {} /\ uci.fwmask # {}
    BY DEF ValidTuning
  <1>2. \A name \in {"repeat", "ttl", "fwmark", "fwmask", "dynamic_pct"} : \A v : [c EXCEPT ![name] = v].ok
    BY DEF Sane, FhContext
  <1>3. uci.dynamic_ttl_pct # 0 => uci.dynamic_ttl_pct \in 1..99
    BY <1>1
  <1> QED BY <1>1, <1>2, <1>3 DEF Number, If

\* What both programs take from the tuning of a section.
TunedBy(c, uci) ==
    /\ c.repeat = uci.repeat /\ c.ttl = uci.ttl /\ c.fwmark = uci.fwmark /\ c.fwmask = uci.fwmask
    /\ c.nohopest = (IF uci.hop_estimation THEN FALSE ELSE TRUE) /\ c.dynamic_pct = uci.dynamic_ttl_pct

LEMMA TuningSets ==
    ASSUME NEW prog, NEW c, Sane(c), c.ok, c.nohopest = FALSE, c.dynamic_pct = 0, NEW uci, ValidTuning(uci)
    PROVE  LET d == Getopt(prog, c, TuningArgs(uci)) IN
           /\ Sets(c, d, {"repeat", "ttl", "fwmark", "fwmask", "nohopest", "dynamic_pct"})
           /\ TunedBy(d, uci)
  <1> DEFINE r == <<<<"r", uci.repeat>>>>
             t == <<<<"t", uci.ttl>>>>
             m == <<<<"m", uci.fwmark>>>>
             x == <<<<"x", uci.fwmask>>>>
             g == Flag("g", ~uci.hop_estimation)
             y == IF uci.dynamic_ttl_pct = 0 THEN <<>> ELSE <<<<"y", uci.dynamic_ttl_pct>>>>
             four == <<<<"r", uci.repeat>>, <<"t", uci.ttl>>, <<"m", uci.fwmark>>, <<"x", uci.fwmask>>>>
             c1 == Getopt(prog, c, r)
             c2 == Getopt(prog, c1, t)
             c3 == Getopt(prog, c2, m)
             c4 == Getopt(prog, c3, x)
             c5 == Getopt(prog, c4, g)
             c6 == Getopt(prog, c5, y)
  <1>1. Sets(c, c1, {"repeat"}) /\ c1.repeat = uci.repeat
    BY NumberTaken, GetoptNumber
  <1> HIDE DEF c1
  <1>2. Sets(c1, c2, {"ttl"}) /\ c2.ttl = uci.ttl
    <2>1. Sane(c1) /\ c1.ok
      BY <1>1 DEF Sets
    <2> QED BY <2>1, NumberTaken, GetoptNumber
  <1> HIDE DEF c2
  <1>3. Sets(c2, c3, {"fwmark"}) /\ c3.fwmark = uci.fwmark
    <2>1. Sane(c2) /\ c2.ok
      BY <1>2 DEF Sets
    <2> QED BY <2>1, NumberTaken, GetoptNumber
  <1> HIDE DEF c3
  <1>4. Sets(c3, c4, {"fwmask"}) /\ c4.fwmask = uci.fwmask
    <2>1. Sane(c3) /\ c3.ok
      BY <1>3 DEF Sets
    <2> QED BY <2>1, NumberTaken, GetoptNumber
  <1> HIDE DEF c4
  <1>5. Sets(c4, c5, {"nohopest"}) /\ c5.nohopest = IF ~uci.hop_estimation THEN TRUE ELSE c4.nohopest
    <2>1. Sane(c4) /\ c4.ok
      BY <1>4 DEF Sets
    <2>2. "g" \in DOMAIN Switches /\ Switches["g"] = "nohopest"
      BY DEF Switches
    <2>3. (~uci.hop_estimation => g = <<<<"g", 0>>>>) /\ (uci.hop_estimation => g = <<>>)
      BY DEF Flag
    <2> HIDE DEF g
    <2>c. c5 = Getopt(prog, c4, g)
      OBVIOUS
    <2> HIDE DEF c5
    <2> DEFINE o == "g"
    <2>o. o \in DOMAIN Switches /\ Switches[o] = "nohopest"
      BY <2>2
    <2>4. CASE ~uci.hop_estimation
      <3>1. g = <<<<o, 0>>>>
        BY <2>3, <2>4
      <3> HIDE DEF o
      <3>2. Sets(c4, c5, {Switches[o]}) /\ c5[Switches[o]] = TRUE
        BY <2>1, <2>c, <2>o, <3>1, GetoptFlag
      <3>3. Sets(c4, c5, {"nohopest"}) /\ c5["nohopest"] = TRUE
        BY <2>o, <3>2
      <3> QED BY <2>4, <3>3
    <2>5. CASE uci.hop_estimation
      <3>1. c5 = c4
        BY <2>3, <2>5, <2>c, GetoptFew
      <3>2. Sets(c4, c4, {"nohopest"})
        BY <2>1, SetsNothing
      <3> QED BY <2>5, <3>1, <3>2
    <2> QED BY <2>4, <2>5
  <1> HIDE DEF c5
  <1>6. Sets(c5, c6, {"dynamic_pct"})
        /\ c6.dynamic_pct = IF uci.dynamic_ttl_pct = 0 THEN c5.dynamic_pct ELSE uci.dynamic_ttl_pct
    <2>1. Sane(c5) /\ c5.ok
      BY <1>5 DEF Sets
    <2>2. CASE uci.dynamic_ttl_pct = 0
      BY <2>1, <2>2, GetoptFew, SetsNothing
    <2>3. CASE uci.dynamic_ttl_pct # 0
      BY <2>1, <2>3, NumberTaken, GetoptNumber
    <2> QED BY <2>2, <2>3
  <1> HIDE DEF c6
  <1>7. Getopt(prog, c, TuningArgs(uci)) = c6
    <2>1. TuningArgs(uci) = four \o g \o y
      BY DEF TuningArgs
    <2>2. four = r \o t \o m \o x
      OBVIOUS
    <2>3. Listed(r) /\ Listed(t) /\ Listed(m) /\ Listed(x) /\ Listed(y) /\ Listed(g)
      BY ShortListed, FlagListed
    <2> HIDE DEF r, t, m, x, y, g, four
    <2>4. Getopt(prog, c, r \o t \o m \o x) = c4
      BY <2>3, JoinListed, GetoptJoin DEF c1, c2, c3, c4
    <2>5. Listed(four)
      BY <2>2, <2>3, JoinListed
    <2>6. Getopt(prog, c, four \o g \o y) = c6
      BY <2>2, <2>3, <2>4, <2>5, JoinListed, GetoptJoin DEF c5, c6
    <2> QED BY <2>1, <2>6
  <1>8. Sets(c, c6, {"repeat", "ttl", "fwmark", "fwmask", "nohopest", "dynamic_pct"})
    <2>1. Sets(c, c2, {"repeat", "ttl"})
      BY <1>1, <1>2, SetsMore DEF Sets
    <2>2. Sets(c, c3, {"repeat", "ttl", "fwmark"})
      BY <1>3, <2>1, SetsMore DEF Sets
    <2>3. Sets(c, c4, {"repeat", "ttl", "fwmark", "fwmask"})
      BY <1>4, <2>2, SetsMore DEF Sets
    <2>4. Sets(c, c5, {"repeat", "ttl", "fwmark", "fwmask", "nohopest"})
      BY <1>5, <2>3, SetsMore DEF Sets
    <2> QED BY <1>6, <2>4, SetsMore DEF Sets
  <1> DEFINE F == {"repeat", "ttl", "fwmark", "fwmask", "nohopest", "dynamic_pct"}
  <1>9. F \subseteq DOMAIN FhContext
    BY DEF FhContext
  <1>10. c6.repeat = c1.repeat
    BY <1>2, <1>3, <1>4, <1>5, <1>6, <1>9, SetsKeeps
  <1>11. c6.ttl = c2.ttl
    BY <1>3, <1>4, <1>5, <1>6, <1>9, SetsKeeps
  <1>12. c6.fwmark = c3.fwmark /\ c6.fwmask = c4.fwmask
    BY <1>4, <1>5, <1>6, <1>9, SetsKeeps
  <1>13. c6.nohopest = c5.nohopest /\ c4.nohopest = c.nohopest
    BY <1>1, <1>2, <1>3, <1>4, <1>6, <1>9, SetsKeeps
  <1>14. c5.dynamic_pct = c.dynamic_pct
    BY <1>1, <1>2, <1>3, <1>4, <1>5, <1>9, SetsKeeps
  <1>15. c6.nohopest = IF uci.hop_estimation THEN FALSE ELSE TRUE
    BY <1>5, <1>13
  <1>16. c6.dynamic_pct = uci.dynamic_ttl_pct
    BY <1>6, <1>14
  <1>17. TunedBy(c6, uci)
    BY <1>1, <1>2, <1>3, <1>4, <1>10, <1>11, <1>12, <1>15, <1>16 DEF TunedBy
  <1> QED BY <1>7, <1>8, <1>17

\* The part of a command line that sets a flag.
One(o) == <<<<o, 0>>>>

LEMMA TwoFlags ==
    ASSUME NEW prog, NEW c, Sane(c), c.ok, NEW o \in DOMAIN Switches, NEW u \in DOMAIN Switches,
           Switches[o] # Switches[u], c[Switches[o]] = FALSE, c[Switches[u]] = FALSE,
           NEW a, a = <<>> \/ a = One(o), NEW b, b = <<>> \/ b = One(u)
    PROVE  /\ Sets(c, Getopt(prog, c, a \o b), {Switches[o], Switches[u]})
           /\ Getopt(prog, c, a \o b)[Switches[o]] = IF a = <<>> THEN FALSE ELSE TRUE
           /\ Getopt(prog, c, a \o b)[Switches[u]] = IF b = <<>> THEN FALSE ELSE TRUE
  <1> DEFINE d == Getopt(prog, c, a)
             e == Getopt(prog, d, b)
             S == Switches[o]
             T == Switches[u]
  <1>1. Listed(a) /\ Listed(b)
    BY ShortListed DEF One
  <1>2. Getopt(prog, c, a \o b) = e
    BY <1>1, GetoptJoin
  <1>3. S \in DOMAIN FhContext /\ T \in DOMAIN FhContext
    BY DEF Switches, FhContext
  <1>a. One(o) # <<>> /\ One(u) # <<>>
    BY DEF One
  <1>4. Sets(c, d, {S}) /\ d[S] = IF a = <<>> THEN FALSE ELSE TRUE
    <2>1. CASE a = <<>>
      <3>1. Getopt(prog, c, a) = c /\ Sets(c, c, {Switches[o]})
        BY <2>1, GetoptFew, SetsNothing
      <3> QED BY <2>1, <3>1
    <2>2. CASE a = One(o)
      BY <1>a, <2>2, GetoptFlag DEF One
    <2> QED BY <2>1, <2>2
  <1> HIDE DEF d, S, T
  <1>5. d[T] = FALSE
    BY <1>3, <1>4, SetsKeeps DEF S, T
  <1>6. Sane(d) /\ d.ok
    BY <1>4 DEF Sets
  <1>7. Sets(d, e, {T}) /\ e[T] = IF b = <<>> THEN FALSE ELSE TRUE
    <2>1. CASE b = <<>>
      <3>1. Getopt(prog, d, b) = d /\ Sets(d, d, {Switches[u]})
        BY <1>6, <2>1, GetoptFew, SetsNothing
      <3> QED BY <1>5, <2>1, <3>1 DEF T
    <2>2. CASE b = One(u)
      BY <1>a, <1>6, <2>2, GetoptFlag DEF T, One
    <2> QED BY <2>1, <2>2
  <1> HIDE DEF e
  <1>8. e[S] = d[S]
    BY <1>3, <1>7, SetsKeeps DEF S, T
  <1>9. Sets(c, e, {S, T})
    BY <1>4, <1>7, SetsMore DEF Sets
  <1> QED BY <1>2, <1>4, <1>7, <1>8, <1>9 DEF S, T

\* The families that the daemon works on.
OnFour(uci) == IF uci.interface_mode = "auto" THEN uci.wan4 ELSE uci.family \in {"ipv4", "dual"}
OnSix(uci) == IF uci.interface_mode = "auto" THEN uci.wan6 ELSE uci.family \in {"ipv6", "dual"}

LEMMA FamilySets ==
    ASSUME NEW prog, NEW c, Sane(c), c.ok, c.use_ipv4 = FALSE, c.use_ipv6 = FALSE, NEW uci
    PROVE  LET d == Getopt(prog, c, FamilyArgs(uci)) IN
           /\ Sets(c, d, {"use_ipv4", "use_ipv6"})
           /\ d.use_ipv4 = (IF OnFour(uci) THEN TRUE ELSE FALSE)
           /\ d.use_ipv6 = (IF OnSix(uci) THEN TRUE ELSE FALSE)
  <1> DEFINE a == IF OnFour(uci) THEN One("4") ELSE <<>>
             b == IF OnSix(uci) THEN One("6") ELSE <<>>
  <1>1. FamilyArgs(uci) = a \o b
    BY DEF FamilyArgs, Flag, OnFour, OnSix, One
  <1>2. /\ "4" \in DOMAIN Switches /\ Switches["4"] = "use_ipv4"
        /\ "6" \in DOMAIN Switches /\ Switches["6"] = "use_ipv6"
    BY DEF Switches
  <1>3. (a = <<>> \/ a = One("4")) /\ (b = <<>> \/ b = One("6"))
    OBVIOUS
  <1>4. (a = <<>> <=> ~OnFour(uci)) /\ (b = <<>> <=> ~OnSix(uci))
    BY DEF One
  <1> HIDE DEF a, b
  <1>5. LET d == Getopt(prog, c, a \o b) IN
           /\ Sets(c, d, {"use_ipv4", "use_ipv6"})
           /\ d.use_ipv4 = (IF a = <<>> THEN FALSE ELSE TRUE)
           /\ d.use_ipv6 = (IF b = <<>> THEN FALSE ELSE TRUE)
    <2> DEFINE d == Getopt(prog, c, a \o b)
               o == "4"
               u == "6"
    <2>1. /\ o \in DOMAIN Switches /\ u \in DOMAIN Switches /\ Switches[o] # Switches[u]
          /\ c[Switches[o]] = FALSE /\ c[Switches[u]] = FALSE
          /\ (a = <<>> \/ a = One(o)) /\ (b = <<>> \/ b = One(u))
      BY <1>2, <1>3
    <2> HIDE DEF o, u
    <2>2. /\ Sets(c, d, {Switches[o], Switches[u]})
          /\ d[Switches[o]] = IF a = <<>> THEN FALSE ELSE TRUE
          /\ d[Switches[u]] = IF b = <<>> THEN FALSE ELSE TRUE
      BY <2>1, TwoFlags
    <2> USE DEF o, u
    <2> HIDE DEF d
    <2>3. /\ Sets(c, d, {"use_ipv4", "use_ipv6"})
          /\ d.use_ipv4 = (IF a = <<>> THEN FALSE ELSE TRUE)
          /\ d.use_ipv6 = (IF b = <<>> THEN FALSE ELSE TRUE)
      BY <1>2, <2>2
    <2> QED BY <2>3 DEF d
  <1> QED BY <1>1, <1>4, <1>5

\* The directions that the two programs take a section's direction for.

LEMMA DirectionSets ==
    ASSUME NEW prog, NEW c, Sane(c), c.ok, c.inbound = FALSE, c.outbound = FALSE, NEW one, NEW two,
           one = <<>> \/ one = One("0"), two = <<>> \/ two = One("1")
    PROVE  LET d == Getopt(prog, c, one \o two) IN
           /\ Sets(c, d, {"inbound", "outbound"})
           /\ d.inbound = (IF one = <<>> THEN FALSE ELSE TRUE)
           /\ d.outbound = (IF two = <<>> THEN FALSE ELSE TRUE)
  <1>1. /\ "0" \in DOMAIN Switches /\ Switches["0"] = "inbound"
        /\ "1" \in DOMAIN Switches /\ Switches["1"] = "outbound"
    BY DEF Switches
  <1> DEFINE d == Getopt(prog, c, one \o two)
  <1> DEFINE o == "0"
             u == "1"
  <1>2. /\ o \in DOMAIN Switches /\ u \in DOMAIN Switches /\ Switches[o] # Switches[u]
        /\ c[Switches[o]] = FALSE /\ c[Switches[u]] = FALSE
        /\ (one = <<>> \/ one = One(o)) /\ (two = <<>> \/ two = One(u))
    BY <1>1
  <1> HIDE DEF o, u
  <1>3. /\ Sets(c, d, {Switches[o], Switches[u]})
        /\ d[Switches[o]] = IF one = <<>> THEN FALSE ELSE TRUE
        /\ d[Switches[u]] = IF two = <<>> THEN FALSE ELSE TRUE
    BY <1>2, TwoFlags
  <1> USE DEF o, u
  <1> HIDE DEF d
  <1>4. /\ Sets(c, d, {"inbound", "outbound"})
        /\ d.inbound = (IF one = <<>> THEN FALSE ELSE TRUE)
        /\ d.outbound = (IF two = <<>> THEN FALSE ELSE TRUE)
    BY <1>1, <1>3
  <1> QED BY <1>4 DEF d

\* Interfaces with names that fit.
LEMMA InterfacesSet ==
    ASSUME NEW prog, NEW c, Sane(c), c.ok, NEW vs, Listed(vs), vs # <<>>,
           \A k \in DOMAIN vs : vs[k].len \in 1..15
    PROVE  /\ Sets(c, Getopt(prog, c, Args("i", vs)), {"iface"})
           /\ Getopt(prog, c, Args("i", vs)).iface # <<>>
  <1> DEFINE a == Args("i", vs)
             n == Len(vs)
  <1>1. n \in Nat /\ n # 0 /\ DOMAIN vs = 1..n
    BY DEF Listed
  <1>2. Len(a) = n /\ \A k \in 1..n : a[k] = <<"i", vs[k]>>
    <2>1. a = [k \in 1..n |-> <<"i", vs[k]>>]
      BY <1>1 DEF Args
    <2> QED BY <1>1, <2>1
  <1> HIDE DEF a, n
  <1>3. PICK f : Read(f, prog, c, a, n) /\ Getopt(prog, c, a) = f[n]
    <2>1. Len(a) \in Nat
      BY <1>1, <1>2
    <2>2. \E f : Read(f, prog, c, a, Len(a)) /\ Getopt(prog, c, a) = f[Len(a)]
      BY <2>1, GetoptReads
    <2> QED BY <1>2, <2>2
  <1> DEFINE Holds(k) == Sets(c, f[k], {"iface"}) /\ (k # 0 => f[k].iface # <<>>)
             T == {k \in Nat : k <= n => Holds(k)}
  <1>4. 0 \in T
    <2>1. f[0] = c
      BY <1>3 DEF Read
    <2> QED BY <2>1, SetsNothing
  <1>5. ASSUME NEW k \in Nat, k \in T
        PROVE  k + 1 \in T
    <2>1. SUFFICES ASSUME k + 1 <= n PROVE Holds(k + 1)
      OBVIOUS
    <2>2. Holds(k) /\ k + 1 \in 1..n /\ k + 1 - 1 = k
      BY <1>1, <1>5, <2>1
    <2> DEFINE d == f[k]
               v == vs[k + 1]
               e == [d EXCEPT !.iface = Append(@, v)]
    <2>3. f[k + 1] = Option(prog, d, <<"i", v>>)
      BY <1>2, <1>3, <2>2 DEF Read
    <2>4. Sane(d) /\ d.ok /\ v.len \in 1..15
      BY <1>1, <2>2 DEF Sets
    <2> HIDE DEF d, v
    <2>5. Option(prog, d, <<"i", v>>) = Interface(d, v)
      <3> DEFINE arg == <<"i", v>>
      <3>1. arg[1] = "i" /\ arg[2] = v /\ "i" \notin DOMAIN Switches
        BY DEF Switches
      <3> HIDE DEF arg
      <3>2. FhOption(d, arg) = Interface(d, v) /\ FsOption(d, arg) = Interface(d, v)
        BY <2>4, <3>1 DEF FhOption, FsOption
      <3> QED BY <3>2 DEF Option, arg
    <2>6. Interface(d, v) = e
      BY <2>4 DEF Interface, If, IFNAMSIZ
    <2>7. Sane(e)
      BY <2>4, <2>5, <2>6, OptionSane
    <2>8. e.iface = Append(d.iface, v) /\ \A field \in DOMAIN d \ {"iface"} : e[field] = d[field]
      BY <2>4 DEF Sane, FhContext
    <2>9. Append(d.iface, v) # <<>>
      <3>1. Listed(d.iface)
        BY <2>4 DEF Sane
      <3> QED BY <3>1, AppendLonger
    <2>10. DOMAIN e = DOMAIN d /\ "ok" \in DOMAIN d
      BY <2>4 DEF Sane, FhContext
    <2> HIDE DEF e
    <2>11. Sets(d, e, {"iface"}) /\ e.iface # <<>>
      BY <2>4, <2>7, <2>8, <2>9, <2>10 DEF Sets
    <2>12. Sets(c, e, {"iface"})
      <3>1. Sets(c, d, {"iface"})
        BY <2>2 DEF d
      <3> QED BY <2>11, <3>1, SetsMore DEF Sets
    <2> QED BY <2>3, <2>5, <2>6, <2>11, <2>12
  <1> HIDE DEF T
  <1>6. T = Nat
    <2>1. T \subseteq Nat
      BY DEF T
    <2> QED BY <1>4, <1>5, <2>1, Induct
  <1>7. Holds(n)
    BY <1>1, <1>6 DEF T
  <1> QED BY <1>1, <1>3, <1>7 DEF a

\* The payload that a row asks for.
Shown(row) == [type |-> IF row.type = "binary" THEN "custom" ELSE row.type, info |-> row.info]

LEMMA RowTaken ==
    ASSUME NEW c, Sane(c), c.ok, NEW row, ValidRow(row)
    PROVE  LET d == Option("fakehttp", c, <<RowOption[row.type], row.info>>) IN
           /\ Sets(c, d, {"plinfo"}) /\ d.plinfo = Append(c.plinfo, Shown(row))
  <1> DEFINE o == RowOption[row.type]
             v == row.info
             arg == <<o, v>>
             p == [type |-> CASE o = "b" -> "custom" [] o = "e" -> "https" [] o = "h" -> "http", info |-> v]
             e == [c EXCEPT !.plinfo = Append(@, p)]
  <1>1. row.type \in {"http", "https", "binary"}
    BY DEF ValidRow, RowOption
  <1>2. v.len > 0
    <2>1. v.len \in IF row.type = "binary" THEN 1..1200 ELSE 1..253
      BY DEF ValidRow
    <2> DEFINE l == v.len
    <2> HIDE DEF l
    <2>2. l \in 1..1200 \/ l \in 1..253
      BY <2>1 DEF l
    <2>3. l > 0
      BY <2>2
    <2> QED BY <2>3 DEF l
  <1>3. /\ o \in {"b", "e", "h"}
        /\ (CASE o = "b" -> "custom" [] o = "e" -> "https" [] o = "h" -> "http")
             = IF row.type = "binary" THEN "custom" ELSE row.type
    BY <1>1 DEF RowOption
  <1>4. p = Shown(row)
    BY <1>3 DEF Shown
  <1>5. o \notin DOMAIN Switches /\ arg[1] = o /\ arg[2] = v
    BY <1>3 DEF Switches
  <1> HIDE DEF o, arg
  <1>6. Option("fakehttp", c, arg) = FhPayload(c, o, v)
    BY <1>3, <1>5 DEF Option, FhOption
  <1>7. FhPayload(c, o, v) = e
    BY <1>2 DEF FhPayload, If
  <1> HIDE DEF p, e, v
  <1>8. Sane(e)
    <2>1. Sane(Option("fakehttp", c, arg))
      BY OptionSane
    <2> QED BY <1>6, <1>7, <2>1
  <1> USE DEF e
  <1>9. Sets(c, e, {"plinfo"}) /\ e.plinfo = Append(c.plinfo, p)
    <2>1. {"ok", "plinfo"} \subseteq DOMAIN c
      BY DEF Sane, FhContext
    <2> QED BY <1>8, <2>1 DEF Sets
  <1> HIDE DEF e
  <1> QED BY <1>4, <1>6, <1>7, <1>9 DEF arg, o, v

LEMMA RowsSet ==
    ASSUME NEW c, Sane(c), c.ok, c.plinfo = <<>>, NEW uci, Listed(uci.rows),
           \A k \in DOMAIN Rows(uci) : ValidRow(Rows(uci)[k])
    PROVE  LET d == Getopt("fakehttp", c, RowArgs(uci))
               n == Len(Rows(uci))
           IN  /\ Sets(c, d, {"plinfo"}) /\ Len(d.plinfo) = n
               /\ \A j \in 1..n : d.plinfo[j] = Shown(Rows(uci)[n + 1 - j])
  <1> DEFINE a == RowArgs(uci)
             rows == Rows(uci)
             n == Len(rows)
  <1>1. n \in Nat /\ DOMAIN rows = 1..n
    BY RowsListed, ListedIs
  <1>2. Len(a) = n /\ \A k \in 1..n : a[k] = <<RowOption[rows[n + 1 - k].type], rows[n + 1 - k].info>>
    <2>1. a = [k \in 1..n |-> <<RowOption[FhRows(uci)[k].type], FhRows(uci)[k].info>>]
      BY <1>1 DEF RowArgs
    <2>2. \A k \in 1..n : FhRows(uci)[k] = rows[n + 1 - k]
      BY DEF FhRows
    <2> HIDE DEF a, rows, n
    <2> QED BY <1>1, <2>1, <2>2
  <1>a. \A k \in 1..n : ValidRow(rows[k])
    BY <1>1
  <1> HIDE DEF a, n, rows
  <1>3. PICK f : Read(f, "fakehttp", c, a, n) /\ Getopt("fakehttp", c, a) = f[n]
    <2>1. Len(a) \in Nat
      BY <1>1, <1>2
    <2>2. \E f : Read(f, "fakehttp", c, a, Len(a)) /\ Getopt("fakehttp", c, a) = f[Len(a)]
      BY <2>1, GetoptReads
    <2> QED BY <1>2, <2>2
  <1> DEFINE Holds(k) == /\ Sets(c, f[k], {"plinfo"}) /\ Len(f[k].plinfo) = k
                         /\ \A j \in 1..k : f[k].plinfo[j] = Shown(rows[n + 1 - j])
             T == {k \in Nat : k <= n => Holds(k)}
  <1>4. 0 \in T
    <2>1. f[0] = c
      BY <1>3 DEF Read
    <2>2. Len(c.plinfo) = 0
      OBVIOUS
    <2> QED BY <2>1, <2>2, SetsNothing
  <1>5. ASSUME NEW k \in Nat, k \in T
        PROVE  k + 1 \in T
    <2>1. SUFFICES ASSUME k + 1 <= n PROVE Holds(k + 1)
      OBVIOUS
    <2>2. Holds(k) /\ k + 1 \in 1..n /\ k + 1 - 1 = k
      BY <1>1, <1>5, <2>1
    <2> DEFINE d == f[k]
               e == f[k + 1]
               row == rows[n + 1 - (k + 1)]
    <2>3. e = Option("fakehttp", d, <<RowOption[row.type], row.info>>)
      <3>1. e = Option("fakehttp", d, a[k + 1])
        BY <1>3, <2>2 DEF Read
      <3>2. a[k + 1] = <<RowOption[row.type], row.info>>
        BY <1>2, <2>2
      <3> QED BY <3>1, <3>2
    <2>4. Sane(d) /\ d.ok /\ ValidRow(row) /\ Listed(d.plinfo)
      <3>1. n + 1 - (k + 1) \in 1..n
        BY <1>1, <2>2
      <3> QED BY <1>a, <2>2, <3>1 DEF Sets, Sane
    <2>5. Sets(c, d, {"plinfo"}) /\ Len(d.plinfo) = k
          /\ \A j \in 1..k : d.plinfo[j] = Shown(rows[n + 1 - j])
      BY <2>2
    <2> HIDE DEF d, e
    <2>6. Sets(d, e, {"plinfo"}) /\ e.plinfo = Append(d.plinfo, Shown(row))
      BY <2>3, <2>4, RowTaken
    <2>7. Sets(c, e, {"plinfo"})
      BY <2>5, <2>6, SetsMore DEF Sets
    <2>8. Len(e.plinfo) = k + 1 /\ e.plinfo[k + 1] = Shown(row) /\ \A j \in 1..k : e.plinfo[j] = d.plinfo[j]
      BY <2>4, <2>5, <2>6, AppendLonger
    <2>9. \A j \in 1..k + 1 : e.plinfo[j] = Shown(rows[n + 1 - j])
      <3>1. \A j \in 1..k + 1 : j \in 1..k \/ j = k + 1
        OBVIOUS
      <3> QED BY <2>5, <2>8, <3>1
    <2> QED BY <2>7, <2>8, <2>9 DEF e
  <1> HIDE DEF T
  <1>6. T = Nat
    <2>1. T \subseteq Nat
      BY DEF T
    <2> QED BY <1>4, <1>5, <2>1, Induct
  <1>7. Holds(n)
    BY <1>1, <1>6 DEF T
  <1> QED BY <1>1, <1>3, <1>7 DEF a, n, rows

LEMMA PortsSet ==
    ASSUME NEW c, Sane(c), c.ok, NEW o \in {"p", "P"}, NEW spec, portmap_valid(spec)
    PROVE  LET d == Getopt("fakesip", c, <<<<o, spec>>>>)
               name == IF o = "p" THEN "port_white" ELSE "port_black"
           IN  Sets(c, d, {name}) /\ d[name] = portmap_parse(c[name], spec)
  <1> DEFINE arg == <<o, spec>>
             name == IF o = "p" THEN "port_white" ELSE "port_black"
             e == [c EXCEPT ![name] = portmap_parse(@, spec)]
  <1>1. o \notin DOMAIN Switches /\ o \notin {"b", "u", "i", "m", "r", "t", "x", "y"}
        /\ arg[1] = o /\ arg[2] = spec
    BY DEF Switches
  <1>a. name \in DOMAIN c /\ name # "ok" /\ "ok" \in DOMAIN c
    BY DEF Sane, FhContext
  <1>b. Ports(c, o, spec) = e
    BY DEF Ports, If
  <1> HIDE DEF arg, e, name
  <1>2. Option("fakesip", c, arg) = Ports(c, o, spec)
    BY <1>1 DEF Option, FsOption
  <1>3. Getopt("fakesip", c, <<arg>>) = e
    BY <1>b, <1>2, GetoptFew
  <1>4. Sane(e)
    BY <1>b, <1>2, OptionSane
  <1>5. Sets(c, e, {name}) /\ e[name] = portmap_parse(c[name], spec)
    BY <1>a, <1>4 DEF Sets, e
  <1> QED BY <1>3, <1>5 DEF arg, name

LEMMA UriSet ==
    ASSUME NEW c, Sane(c), c.ok, c.plinfo = <<>>, NEW uri, uri.len > 0
    PROVE  LET d == Getopt("fakesip", c, <<<<"u", uri>>>>) IN
           Sets(c, d, {"plinfo"}) /\ d.plinfo = <<[type |-> "sip", info |-> uri]>>
  <1> DEFINE arg == <<"u", uri>>
             p == [type |-> "sip", info |-> uri]
             e == [c EXCEPT !.plinfo = Append(@, p)]
  <1>1. arg[1] = "u" /\ arg[2] = uri /\ "u" \notin DOMAIN Switches
    BY DEF Switches
  <1>2. FsPayload(c, "u", uri) = e
    BY DEF FsPayload, If
  <1>3. "plinfo" \in DOMAIN c /\ "ok" \in DOMAIN c
    BY DEF Sane, FhContext
  <1>4. Append(<<>>, p) = <<p>>
    OBVIOUS
  <1> HIDE DEF arg, e, p
  <1>5. Option("fakesip", c, arg) = e
    BY <1>1, <1>2 DEF Option, FsOption
  <1>6. Getopt("fakesip", c, <<arg>>) = e
    BY <1>5, GetoptFew
  <1>7. Sane(e)
    BY <1>5, OptionSane
  <1>8. Sets(c, e, {"plinfo"}) /\ e.plinfo = <<p>>
    BY <1>3, <1>4, <1>7 DEF Sets, e
  <1> QED BY <1>6, <1>8 DEF arg, p

LEMMA BlankIs ==
    ASSUME NEW c \in {FhContext, FsContext}
    PROVE  /\ Sane(c) /\ c.ok /\ c.inbound = FALSE /\ c.outbound = FALSE /\ c.use_ipv4 = FALSE /\ c.use_ipv6 = FALSE
           /\ c.alliface = FALSE /\ c.iface = <<>> /\ c.plinfo = <<>> /\ c.dynamic_pct = 0 /\ c.nohopest = FALSE
           /\ c.killproc = FALSE /\ c.port_white = {} /\ c.port_black = {}
  <1>1. CASE c = FhContext
    BY <1>1, SaneStart DEF FhContext
  <1>2. CASE c = FsContext
    <2>1. c = [FhContext EXCEPT !.fwmark = {16}]
      BY <1>2 DEF FsContext
    <2> QED BY <1>2, <2>1, SaneStart DEF FhContext
  <1> QED BY <1>1, <1>2

\* The interfaces that a valid section names.
LEMMA NamedInterfaces ==
    ASSUME NEW uci, ValidTuning(uci), Listed(uci.interfaces), uci.interface_mode # "all"
    PROVE  LET vs == Distinct(uci.interfaces) IN
           Listed(vs) /\ vs # <<>> /\ \A k \in DOMAIN vs : vs[k].len \in 1..15
  <1> DEFINE s == uci.interfaces
             places == {k \in DOMAIN s : \A j \in 1..k - 1 : s[j] # s[k]}
             vs == At(s, places)
  <1>1. s # <<>> /\ \A k \in DOMAIN s : s[k].len \in 1..15
    BY DEF ValidTuning
  <1>2. DOMAIN s = 1..Len(s) /\ Len(s) \in Nat
    BY ListedIs
  <1>3. 1 \in places
    <2>1. Len(s) # 0
      BY <1>1 DEF Listed
    <2>2. 1 \in DOMAIN s /\ 1..1 - 1 = {}
      BY <1>2, <2>1
    <2> QED BY <2>2
  <1>4. places \cap DOMAIN s # {}
    BY <1>3
  <1> HIDE DEF places
  <1>5. vs \in Seq({s[k] : k \in DOMAIN s}) /\ vs # <<>> /\ Listed(vs)
    BY <1>4, AtMembers, AtListed
  <1>6. Distinct(s) = vs
    BY DEF Distinct, places
  <1> HIDE DEF vs, s
  <1>7. \A k \in DOMAIN vs : vs[k] \in {s[i] : i \in DOMAIN s}
    BY <1>5
  <1>8. \A k \in DOMAIN vs : vs[k].len \in 1..15
    BY <1>1, <1>7
  <1> QED BY <1>5, <1>6, <1>8 DEF s

\* What both programs take from a valid section.
AsAsked(c, uci) ==
    /\ Sane(c) /\ c.ok /\ c.killproc = FALSE
    /\ c.alliface \/ c.iface # <<>>
    /\ c.use_ipv4 = (IF OnFour(uci) THEN TRUE ELSE FALSE)
    /\ c.use_ipv6 = (IF OnSix(uci) THEN TRUE ELSE FALSE)
    /\ TunedBy(c, uci)

\* Where the section's direction goes.
Directed(c, in, to) ==
    c.inbound = (IF in THEN TRUE ELSE FALSE) /\ c.outbound = (IF to THEN TRUE ELSE FALSE)

LEMMA HttpOptions ==
    ASSUME NEW uci, fh_validate_config(uci), Listed(uci.interfaces), Listed(uci.rows)
    PROVE  LET c == Getopt("fakehttp", FhContext, FhArgs(uci))
               n == Len(Rows(uci))
           IN  /\ AsAsked(c, uci)
               /\ Directed(c, uci.direction \in {"inbound", "both"}, uci.direction \in {"outbound", "both"})
               /\ n \in Nat \ {0} /\ Len(c.plinfo) = n
               /\ \A j \in 1..n : c.plinfo[j] = Shown(Rows(uci)[n + 1 - j])
  <1> DEFINE ifs == IF uci.interface_mode = "all" THEN Flag("a", TRUE) ELSE Args("i", Distinct(uci.interfaces))
             zero == Flag("0", uci.direction \in {"inbound", "both"})
             one == Flag("1", uci.direction \in {"outbound", "both"})
             fam == FamilyArgs(uci)
             rows == RowArgs(uci)
             tune == TuningArgs(uci)
             n == Len(Rows(uci))
             c0 == FhContext
             c1 == Getopt("fakehttp", c0, ifs)
             c2 == Getopt("fakehttp", c1, zero \o one)
             c3 == Getopt("fakehttp", c2, fam)
             c4 == Getopt("fakehttp", c3, rows)
             c5 == Getopt("fakehttp", c4, tune)
  <1>v. ValidTuning(uci) /\ Rows(uci) # <<>> /\ \A k \in DOMAIN Rows(uci) : ValidRow(Rows(uci)[k])
    BY DEF fh_validate_config
  <1>0. /\ Sane(c0) /\ c0.ok /\ c0.inbound = FALSE /\ c0.outbound = FALSE /\ c0.use_ipv4 = FALSE /\ c0.use_ipv6 = FALSE
        /\ c0.plinfo = <<>> /\ c0.dynamic_pct = 0 /\ c0.nohopest = FALSE /\ c0.killproc = FALSE
    BY BlankIs
  <1>f. {"inbound", "outbound", "use_ipv4", "use_ipv6", "alliface", "iface", "plinfo", "dynamic_pct", "nohopest",
         "killproc", "repeat", "ttl", "fwmark", "fwmask"} \subseteq DOMAIN FhContext
    BY DEF FhContext
  <1>l. Listed(ifs) /\ Listed(zero) /\ Listed(one) /\ Listed(fam) /\ Listed(rows) /\ Listed(tune) /\ Listed(Rows(uci))
    BY AtListed, ArgsListed, FlagListed, FamilyListed, RowsListed, TuningListed DEF Distinct
  <1>n. n \in Nat \ {0}
    BY <1>v, <1>l DEF Listed
  <1>1. Sets(c0, c1, {"alliface", "iface"}) /\ (c1.alliface \/ c1.iface # <<>>)
    <2> HIDE DEF c0
    <2>1. CASE uci.interface_mode = "all"
      <3>1. ifs = <<<<"a", 0>>>> /\ "a" \in DOMAIN Switches /\ Switches["a"] = "alliface"
        BY <2>1 DEF Flag, Switches
      <3> HIDE DEF ifs
      <3>2. Sets(c0, c1, {"alliface"}) /\ c1.alliface = TRUE
        BY <1>0, <3>1, GetoptFlag
      <3> QED BY <3>2 DEF Sets
    <2>2. CASE uci.interface_mode # "all"
      <3> DEFINE vs == Distinct(uci.interfaces)
      <3>1. Listed(vs) /\ vs # <<>> /\ \A k \in DOMAIN vs : vs[k].len \in 1..15
        BY <1>v, <2>2, NamedInterfaces
      <3>2. ifs = Args("i", vs)
        BY <2>2
      <3> HIDE DEF ifs, vs
      <3>3. Sets(c0, c1, {"iface"}) /\ c1.iface # <<>>
        BY <1>0, <3>1, <3>2, InterfacesSet
      <3> QED BY <3>3 DEF Sets
    <2> QED BY <2>1, <2>2
  <1> HIDE DEF c0, c1, ifs
  <1>b. \A field \in DOMAIN FhContext : field \notin {"alliface", "iface"} => c1[field] = c0[field]
    BY <1>1, SetsKeeps
  <1>2. Sets(c1, c2, {"inbound", "outbound"})
        /\ Directed(c2, uci.direction \in {"inbound", "both"}, uci.direction \in {"outbound", "both"})
    <2>1. Sane(c1) /\ c1.ok /\ c1.inbound = FALSE /\ c1.outbound = FALSE
      BY <1>0, <1>1, <1>b, <1>f DEF Sets
    <2>2. (zero = <<>> \/ zero = One("0")) /\ (one = <<>> \/ one = One("1"))
      BY DEF Flag, One
    <2>3. /\ zero = <<>> <=> ~(uci.direction \in {"inbound", "both"})
          /\ one = <<>> <=> ~(uci.direction \in {"outbound", "both"})
      BY DEF Flag
    <2> HIDE DEF zero, one
    <2>4. /\ Sets(c1, c2, {"inbound", "outbound"})
          /\ c2.inbound = (IF zero = <<>> THEN FALSE ELSE TRUE)
          /\ c2.outbound = (IF one = <<>> THEN FALSE ELSE TRUE)
      BY <2>1, <2>2, DirectionSets
    <2> QED BY <2>3, <2>4 DEF Directed
  <1> HIDE DEF c2, zero, one
  <1>c. \A field \in DOMAIN FhContext : field \notin {"inbound", "outbound"} => c2[field] = c1[field]
    BY <1>2, SetsKeeps
  <1>3. /\ Sets(c2, c3, {"use_ipv4", "use_ipv6"})
        /\ c3.use_ipv4 = (IF OnFour(uci) THEN TRUE ELSE FALSE)
        /\ c3.use_ipv6 = (IF OnSix(uci) THEN TRUE ELSE FALSE)
    <2>1. Sane(c2) /\ c2.ok /\ c2.use_ipv4 = FALSE /\ c2.use_ipv6 = FALSE
      BY <1>0, <1>2, <1>b, <1>c, <1>f DEF Sets
    <2> QED BY <2>1, FamilySets
  <1> HIDE DEF c3, fam
  <1>d. \A field \in DOMAIN FhContext : field \notin {"use_ipv4", "use_ipv6"} => c3[field] = c2[field]
    BY <1>3, SetsKeeps
  <1>4. /\ Sets(c3, c4, {"plinfo"}) /\ Len(c4.plinfo) = n
        /\ \A j \in 1..n : c4.plinfo[j] = Shown(Rows(uci)[n + 1 - j])
    <2>1. Sane(c3) /\ c3.ok /\ c3.plinfo = <<>>
      BY <1>0, <1>3, <1>b, <1>c, <1>d, <1>f DEF Sets
    <2> QED BY <1>v, <2>1, RowsSet
  <1> HIDE DEF c4, rows, n
  <1>e. \A field \in DOMAIN FhContext : field \notin {"plinfo"} => c4[field] = c3[field]
    BY <1>4, SetsKeeps
  <1>5. /\ Sets(c4, c5, {"repeat", "ttl", "fwmark", "fwmask", "nohopest", "dynamic_pct"})
        /\ TunedBy(c5, uci)
    <2>1. Sane(c4) /\ c4.ok /\ c4.nohopest = FALSE /\ c4.dynamic_pct = 0
      BY <1>0, <1>4, <1>b, <1>c, <1>d, <1>e, <1>f DEF Sets
    <2> HIDE DEF tune
    <2>2. tune = TuningArgs(uci) /\ ValidTuning(uci)
      BY <1>v DEF tune
    <2> QED BY <2>1, <2>2, TuningSets
  <1> HIDE DEF c5, tune
  <1>g. \A field \in DOMAIN FhContext :
            field \notin {"repeat", "ttl", "fwmark", "fwmask", "nohopest", "dynamic_pct"} => c5[field] = c4[field]
    BY <1>5, SetsKeeps
  <1>6. Getopt("fakehttp", FhContext, FhArgs(uci)) = c5
    <2>1. FhArgs(uci) = ifs \o zero \o one \o fam \o rows \o tune
      BY DEF FhArgs, RowArgs, ifs, zero, one, fam, rows, tune
    <2>2. Getopt("fakehttp", c0, ifs \o zero \o one) = c2
      <3> DEFINE d == Getopt("fakehttp", c1, zero)
      <3>1. Getopt("fakehttp", c0, ifs \o zero) = d
        BY <1>l, GetoptJoin DEF c1
      <3>2. Getopt("fakehttp", c0, ifs \o zero \o one) = Getopt("fakehttp", d, one)
        BY <1>l, <3>1, JoinListed, GetoptJoin
      <3>3. c2 = Getopt("fakehttp", d, one)
        BY <1>l, GetoptJoin DEF c2
      <3> QED BY <3>2, <3>3
    <2>3. Getopt("fakehttp", c0, ifs \o zero \o one \o fam \o rows \o tune) = c5
      BY <1>l, <2>2, JoinListed, GetoptJoin DEF c3, c4, c5
    <2> QED BY <2>1, <2>3 DEF c0
  <1>7. Sane(c5) /\ c5.ok /\ c5.killproc = FALSE
    BY <1>0, <1>5, <1>b, <1>c, <1>d, <1>e, <1>f, <1>g DEF Sets
  <1>8. c5.alliface = c1.alliface /\ c5.iface = c1.iface /\ c5.inbound = c2.inbound /\ c5.outbound = c2.outbound
        /\ c5.use_ipv4 = c3.use_ipv4 /\ c5.use_ipv6 = c3.use_ipv6 /\ c5.plinfo = c4.plinfo
    BY <1>c, <1>d, <1>e, <1>f, <1>g
  <1>9. AsAsked(c5, uci)
    BY <1>1, <1>3, <1>5, <1>7, <1>8 DEF AsAsked
  <1>10. Directed(c5, uci.direction \in {"inbound", "both"}, uci.direction \in {"outbound", "both"})
    BY <1>2, <1>8 DEF Directed
  <1> QED BY <1>n, <1>4, <1>6, <1>8, <1>9, <1>10 DEF n

\* What fakesip takes besides.
Payloads(c, uci) ==
    c.plinfo = IF uci.payload_mode = "custom_uri" THEN <<[type |-> "sip", info |-> uci.sip_uri]>> ELSE <<>>
Filters(c, uci) ==
    /\ c.port_white = IF uci.port_mode = "include" THEN portmap_parse({}, uci.ports) ELSE {}
    /\ c.port_black = IF uci.port_mode = "exclude" THEN portmap_parse({}, uci.ports) ELSE {}

LEMMA SipOptions ==
    ASSUME NEW uci, fs_validate_config(uci), Listed(uci.interfaces)
    PROVE  LET c == Getopt("fakesip", FsContext, FsArgs(uci)) IN
           /\ AsAsked(c, uci)
           /\ Directed(c, uci.direction \in {"outbound", "both"}, uci.direction \in {"inbound", "both"})
           /\ Payloads(c, uci) /\ Filters(c, uci)
  <1> DEFINE ifs == Args("i", Distinct(uci.interfaces))
             zero == Flag("0", uci.direction \in {"outbound", "both"})
             one == Flag("1", uci.direction \in {"inbound", "both"})
             fam == FamilyArgs(uci)
             ports == CASE uci.port_mode = "include" -> <<<<"p", uci.ports>>>>
                        [] uci.port_mode = "exclude" -> <<<<"P", uci.ports>>>>
                        [] uci.port_mode = "all"     -> <<>>
             uri == IF uci.payload_mode = "custom_uri" THEN <<<<"u", uci.sip_uri>>>> ELSE <<>>
             tune == TuningArgs(uci)
             c0 == FsContext
             c1 == Getopt("fakesip", c0, ifs)
             c2 == Getopt("fakesip", c1, zero \o one)
             c3 == Getopt("fakesip", c2, fam)
             c4 == Getopt("fakesip", c3, ports)
             c5 == Getopt("fakesip", c4, uri)
             c6 == Getopt("fakesip", c5, tune)
  <1>v. /\ ValidTuning(uci) /\ uci.interface_mode # "all"
        /\ uci.port_mode \in {"include", "exclude", "all"}
        /\ uci.port_mode \in {"include", "exclude"} => portmap_valid(uci.ports)
        /\ uci.payload_mode = "custom_uri" => uci.sip_uri.len \in 5..255
    BY DEF fs_validate_config
  <1>0. /\ Sane(c0) /\ c0.ok /\ c0.inbound = FALSE /\ c0.outbound = FALSE /\ c0.use_ipv4 = FALSE /\ c0.use_ipv6 = FALSE
        /\ c0.plinfo = <<>> /\ c0.dynamic_pct = 0 /\ c0.nohopest = FALSE /\ c0.killproc = FALSE
        /\ c0.port_white = {} /\ c0.port_black = {}
    BY BlankIs
  <1>f. {"inbound", "outbound", "use_ipv4", "use_ipv6", "alliface", "iface", "plinfo", "dynamic_pct", "nohopest",
         "killproc", "port_white", "port_black", "repeat", "ttl", "fwmark", "fwmask"} \subseteq DOMAIN FhContext
    BY DEF FhContext
  <1>l. Listed(ifs) /\ Listed(zero) /\ Listed(one) /\ Listed(fam) /\ Listed(ports) /\ Listed(uri) /\ Listed(tune)
    BY <1>v, AtListed, ArgsListed, FlagListed, FamilyListed, ShortListed, TuningListed DEF Distinct
  <1>1. Sets(c0, c1, {"iface"}) /\ c1.iface # <<>>
    <2> DEFINE vs == Distinct(uci.interfaces)
    <2>1. Listed(vs) /\ vs # <<>> /\ \A k \in DOMAIN vs : vs[k].len \in 1..15
      BY <1>v, NamedInterfaces
    <2>2. ifs = Args("i", vs)
      OBVIOUS
    <2> HIDE DEF c0, ifs, vs
    <2> QED BY <1>0, <2>1, <2>2, InterfacesSet
  <1> HIDE DEF c0, c1, ifs
  <1>b. \A field \in DOMAIN FhContext : field \notin {"iface"} => c1[field] = c0[field]
    BY <1>1, SetsKeeps
  <1>2. Sets(c1, c2, {"inbound", "outbound"})
        /\ Directed(c2, uci.direction \in {"outbound", "both"}, uci.direction \in {"inbound", "both"})
    <2>1. Sane(c1) /\ c1.ok /\ c1.inbound = FALSE /\ c1.outbound = FALSE
      BY <1>0, <1>1, <1>b, <1>f DEF Sets
    <2>2. (zero = <<>> \/ zero = One("0")) /\ (one = <<>> \/ one = One("1"))
      BY DEF Flag, One
    <2>3. /\ zero = <<>> <=> ~(uci.direction \in {"outbound", "both"})
          /\ one = <<>> <=> ~(uci.direction \in {"inbound", "both"})
      BY DEF Flag
    <2> HIDE DEF zero, one
    <2>4. /\ Sets(c1, c2, {"inbound", "outbound"})
          /\ c2.inbound = (IF zero = <<>> THEN FALSE ELSE TRUE)
          /\ c2.outbound = (IF one = <<>> THEN FALSE ELSE TRUE)
      BY <2>1, <2>2, DirectionSets
    <2> QED BY <2>3, <2>4 DEF Directed
  <1> HIDE DEF c2, zero, one
  <1>c. \A field \in DOMAIN FhContext : field \notin {"inbound", "outbound"} => c2[field] = c1[field]
    BY <1>2, SetsKeeps
  <1>3. /\ Sets(c2, c3, {"use_ipv4", "use_ipv6"})
        /\ c3.use_ipv4 = (IF OnFour(uci) THEN TRUE ELSE FALSE)
        /\ c3.use_ipv6 = (IF OnSix(uci) THEN TRUE ELSE FALSE)
    <2>1. Sane(c2) /\ c2.ok /\ c2.use_ipv4 = FALSE /\ c2.use_ipv6 = FALSE
      BY <1>0, <1>2, <1>b, <1>c, <1>f DEF Sets
    <2> QED BY <2>1, FamilySets
  <1> HIDE DEF c3, fam
  <1>d. \A field \in DOMAIN FhContext : field \notin {"use_ipv4", "use_ipv6"} => c3[field] = c2[field]
    BY <1>3, SetsKeeps
  <1>4. /\ Sets(c3, c4, {"port_white", "port_black"}) /\ Filters(c4, uci)
    <2>1. Sane(c3) /\ c3.ok /\ c3.port_white = {} /\ c3.port_black = {}
      BY <1>0, <1>3, <1>b, <1>c, <1>d, <1>f DEF Sets
    <2>2. CASE uci.port_mode = "include"
      <3>1. ports = <<<<"p", uci.ports>>>> /\ portmap_valid(uci.ports)
        BY <1>v, <2>2
      <3> HIDE DEF ports
      <3>2. Sets(c3, c4, {"port_white"}) /\ c4.port_white = portmap_parse({}, uci.ports)
        BY <2>1, <3>1, PortsSet
      <3> HIDE DEF c4
      <3>3. Sets(c3, c4, {"port_white", "port_black"}) /\ c4.port_black = {}
        BY <1>f, <2>1, <3>2, SetsKeeps DEF Sets
      <3> QED BY <2>2, <3>2, <3>3 DEF Filters
    <2>3. CASE uci.port_mode = "exclude"
      <3>1. ports = <<<<"P", uci.ports>>>> /\ portmap_valid(uci.ports)
        BY <1>v, <2>3
      <3> HIDE DEF ports
      <3>2. Sets(c3, c4, {"port_black"}) /\ c4.port_black = portmap_parse({}, uci.ports)
        BY <2>1, <3>1, PortsSet
      <3> HIDE DEF c4
      <3>3. Sets(c3, c4, {"port_white", "port_black"}) /\ c4.port_white = {}
        BY <1>f, <2>1, <3>2, SetsKeeps DEF Sets
      <3> QED BY <2>3, <3>2, <3>3 DEF Filters
    <2>4. CASE uci.port_mode = "all"
      <3>1. ports = <<>>
        BY <2>4
      <3> HIDE DEF ports
      <3>2. c4 = c3
        BY <3>1, GetoptFew
      <3> HIDE DEF c4
      <3>3. Sets(c3, c4, {"port_white", "port_black"})
        BY <2>1, <3>2, SetsNothing
      <3> QED BY <2>1, <2>4, <3>2, <3>3 DEF Filters
    <2> QED BY <1>v, <2>2, <2>3, <2>4
  <1> HIDE DEF c4, ports
  <1>e. \A field \in DOMAIN FhContext : field \notin {"port_white", "port_black"} => c4[field] = c3[field]
    BY <1>4, SetsKeeps
  <1>5. Sets(c4, c5, {"plinfo"}) /\ Payloads(c5, uci)
    <2>1. Sane(c4) /\ c4.ok /\ c4.plinfo = <<>>
      BY <1>0, <1>4, <1>b, <1>c, <1>d, <1>e, <1>f DEF Sets
    <2>2. CASE uci.payload_mode = "custom_uri"
      <3>1. uri = <<<<"u", uci.sip_uri>>>> /\ uci.sip_uri.len > 0
        BY <1>v, <2>2
      <3> HIDE DEF uri
      <3> QED BY <2>1, <2>2, <3>1, UriSet DEF Payloads
    <2>3. CASE uci.payload_mode # "custom_uri"
      <3>1. uri = <<>>
        BY <2>3
      <3> HIDE DEF uri
      <3>2. c5 = c4
        BY <3>1, GetoptFew
      <3> HIDE DEF c5
      <3> QED BY <2>1, <2>3, <3>2, SetsNothing DEF Payloads
    <2> QED BY <2>2, <2>3
  <1> HIDE DEF c5, uri
  <1>h. \A field \in DOMAIN FhContext : field \notin {"plinfo"} => c5[field] = c4[field]
    BY <1>5, SetsKeeps
  <1>6. Sets(c5, c6, {"repeat", "ttl", "fwmark", "fwmask", "nohopest", "dynamic_pct"}) /\ TunedBy(c6, uci)
    <2>1. Sane(c5) /\ c5.ok /\ c5.nohopest = FALSE /\ c5.dynamic_pct = 0
      BY <1>0, <1>5, <1>b, <1>c, <1>d, <1>e, <1>h, <1>f DEF Sets
    <2> HIDE DEF tune
    <2>2. tune = TuningArgs(uci) /\ ValidTuning(uci)
      BY <1>v DEF tune
    <2> QED BY <2>1, <2>2, TuningSets
  <1> HIDE DEF c6, tune
  <1>g. \A field \in DOMAIN FhContext :
            field \notin {"repeat", "ttl", "fwmark", "fwmask", "nohopest", "dynamic_pct"} => c6[field] = c5[field]
    BY <1>6, SetsKeeps
  <1>7. Getopt("fakesip", FsContext, FsArgs(uci)) = c6
    <2>1. FsArgs(uci) = ifs \o (zero \o one) \o fam \o ports \o uri \o tune
      BY DEF FsArgs, FsDirection, ifs, zero, one, fam, ports, uri, tune
    <2>2. Listed(zero \o one)
      BY <1>l, JoinListed
    <2>3. Getopt("fakesip", c0, ifs \o (zero \o one) \o fam \o ports \o uri \o tune) = c6
      BY <1>l, <2>2, JoinListed, GetoptJoin DEF c1, c2, c3, c4, c5, c6
    <2> QED BY <2>1, <2>3 DEF c0
  <1>8. Sane(c6) /\ c6.ok /\ c6.killproc = FALSE
    BY <1>0, <1>6, <1>b, <1>c, <1>d, <1>e, <1>f, <1>g, <1>h DEF Sets
  <1>9. c6.iface = c1.iface /\ c6.inbound = c2.inbound /\ c6.outbound = c2.outbound
        /\ c6.use_ipv4 = c3.use_ipv4 /\ c6.use_ipv6 = c3.use_ipv6
        /\ c6.port_white = c4.port_white /\ c6.port_black = c4.port_black /\ c6.plinfo = c5.plinfo
    BY <1>c, <1>d, <1>e, <1>f, <1>g, <1>h
  <1>10. AsAsked(c6, uci)
    BY <1>1, <1>3, <1>6, <1>8, <1>9 DEF AsAsked
  <1>11. Directed(c6, uci.direction \in {"outbound", "both"}, uci.direction \in {"inbound", "both"})
    BY <1>2, <1>9 DEF Directed
  <1>12. Payloads(c6, uci) /\ Filters(c6, uci)
    BY <1>4, <1>5, <1>9 DEF Payloads, Filters
  <1> QED BY <1>7, <1>10, <1>11, <1>12

---------------------------------------------------------------------------
(* What the script lets through the daemon starts with *)

\* The checks behind getopt find nothing to add and nothing to refuse.
LEMMA NothingMissing ==
    ASSUME NEW uci, ValidTuning(uci), NEW c, AsAsked(c, uci), c.inbound \/ c.outbound
    PROVE  Defaults(c) = c /\ Consistent(c)
  <1>1. OnFour(uci) \/ OnSix(uci)
    BY DEF ValidTuning, OnFour, OnSix
  <1>2. c.use_ipv4 \/ c.use_ipv6
    BY <1>1 DEF AsAsked
  <1>3. c.fwmask = uci.fwmask /\ c.fwmark = uci.fwmark /\ uci.fwmark # {} /\ uci.fwmark \subseteq uci.fwmask
    BY DEF AsAsked, TunedBy, ValidTuning
  <1>4. c.fwmask # {}
    BY <1>3
  <1>5. Defaults(c) = c
    BY <1>2, <1>3 DEF Defaults
  <1>6. c.dynamic_pct = 0 \/ ~c.nohopest
    BY DEF AsAsked, TunedBy, ValidTuning
  <1>7. ~c.killproc /\ (c.alliface \/ c.iface # <<>>)
    BY DEF AsAsked
  <1> QED BY <1>3, <1>5, <1>6, <1>7 DEF Consistent

\* The context that fakehttp has got from a valid section.
HttpContext(c, uci) ==
    LET n == Len(Rows(uci)) IN
    /\ AsAsked(c, uci)
    /\ Directed(c, uci.direction \in {"inbound", "both"}, uci.direction \in {"outbound", "both"})
    /\ n \in Nat \ {0} /\ Len(c.plinfo) = n
    /\ \A j \in 1..n : c.plinfo[j] = Shown(Rows(uci)[n + 1 - j])

LEMMA FhParsed ==
    ASSUME NEW uci, fh_validate_config(uci), Listed(uci.interfaces), Listed(uci.rows)
    PROVE  HttpContext(FhParse(FhArgs(uci)), uci)
  <1> DEFINE c == Getopt("fakehttp", FhContext, FhArgs(uci))
  <1>1. HttpContext(c, uci)
    BY HttpOptions DEF HttpContext
  <1>2. FhParse(FhArgs(uci)) = FhChecks(c)
    BY DEF FhParse
  <1> HIDE DEF c
  <1>3. ValidTuning(uci)
    BY DEF fh_validate_config
  <1>4. c.inbound \/ c.outbound
    BY <1>1, <1>3 DEF HttpContext, Directed, ValidTuning
  <1>5. Defaults(c) = c /\ Consistent(c)
    BY <1>1, <1>3, <1>4, NothingMissing DEF HttpContext
  <1>6. c.plinfo # <<>>
    BY <1>1 DEF HttpContext
  <1>7. FhChecks(c) = c
    BY <1>5, <1>6 DEF FhChecks, If
  <1> QED BY <1>1, <1>2, <1>7

\* The context that fakesip has got: without a URI of the section's it makes one up.
SipContext(c, uci) ==
    /\ AsAsked(c, uci)
    /\ Directed(c, uci.direction \in {"outbound", "both"}, uci.direction \in {"inbound", "both"})
    /\ Filters(c, uci)
    /\ c.plinfo = <<[type |-> "sip",
                     info |-> IF uci.payload_mode = "custom_uri" THEN uci.sip_uri ELSE [id |-> "random", len |-> 22]]>>

LEMMA FsParsed ==
    ASSUME NEW uci, fs_validate_config(uci), Listed(uci.interfaces)
    PROVE  SipContext(FsParse(FsArgs(uci)), uci)
  <1> DEFINE c == Getopt("fakesip", FsContext, FsArgs(uci))
             random == <<[type |-> "sip", info |-> [id |-> "random", len |-> 22]]>>
             d == [c EXCEPT !.plinfo = IF @ = <<>> THEN random ELSE @]
  <1>1. AsAsked(c, uci) /\ Payloads(c, uci) /\ Filters(c, uci)
        /\ Directed(c, uci.direction \in {"outbound", "both"}, uci.direction \in {"inbound", "both"})
    BY SipOptions
  <1>2. FsParse(FsArgs(uci)) = FsChecks(c)
    BY DEF FsParse
  <1> HIDE DEF c
  <1>3. ValidTuning(uci)
    BY DEF fs_validate_config
  <1>4. c.inbound \/ c.outbound
    BY <1>1, <1>3 DEF Directed, ValidTuning
  <1>5. Defaults(c) = c /\ Consistent(c)
    BY <1>1, <1>3, <1>4, NothingMissing
  <1>6. Sane(c)
    BY <1>1 DEF AsAsked
  <1>7. \A field \in DOMAIN c \ {"plinfo"} : d[field] = c[field]
    OBVIOUS
  <1>8. DOMAIN d = DOMAIN c /\ d.plinfo = IF c.plinfo = <<>> THEN random ELSE c.plinfo
    BY <1>6 DEF Sane, FhContext
  <1> HIDE DEF random
  <1>9. {"inbound", "outbound", "use_ipv4", "use_ipv6", "alliface", "iface", "dynamic_pct", "nohopest",
         "killproc", "port_white", "port_black", "repeat", "ttl", "fwmark", "fwmask", "ok"} \subseteq DOMAIN c \ {"plinfo"}
    BY <1>6 DEF Sane, FhContext
  <1> HIDE DEF d
  <1>10. Listed(d.plinfo)
    <2>1. Listed(random)
      BY ShortListed DEF random
    <2> QED BY <1>6, <1>8, <2>1 DEF Sane
  <1>k. /\ d.inbound = c.inbound /\ d.outbound = c.outbound /\ d.use_ipv4 = c.use_ipv4 /\ d.use_ipv6 = c.use_ipv6
        /\ d.alliface = c.alliface /\ d.iface = c.iface /\ d.dynamic_pct = c.dynamic_pct /\ d.nohopest = c.nohopest
        /\ d.killproc = c.killproc /\ d.port_white = c.port_white /\ d.port_black = c.port_black
        /\ d.repeat = c.repeat /\ d.ttl = c.ttl /\ d.fwmark = c.fwmark /\ d.fwmask = c.fwmask /\ d.ok = c.ok
    BY <1>7, <1>9
  <1>11. Sane(d) /\ Consistent(d)
    <2>1. Sane(d)
      BY <1>6, <1>8, <1>10, <1>k DEF Sane
    <2>2. Consistent(d)
      BY <1>5, <1>k DEF Consistent
    <2> QED BY <2>1, <2>2
  <1>12. FsChecks(c) = d
    BY <1>5, <1>11 DEF FsChecks, If, d, random
  <1>13. AsAsked(d, uci) /\ Filters(d, uci)
         /\ Directed(d, uci.direction \in {"outbound", "both"}, uci.direction \in {"inbound", "both"})
    BY <1>1, <1>k, <1>11 DEF AsAsked, TunedBy, Filters, Directed
  <1>14. d.plinfo = <<[type |-> "sip",
                info |-> IF uci.payload_mode = "custom_uri" THEN uci.sip_uri ELSE [id |-> "random", len |-> 22]]>>
    <2>1. CASE uci.payload_mode = "custom_uri"
      BY <1>1, <1>8, <2>1 DEF Payloads
    <2>2. CASE uci.payload_mode # "custom_uri"
      BY <1>1, <1>8, <2>2 DEF Payloads, random
    <2> QED BY <2>1, <2>2
  <1> QED BY <1>2, <1>12, <1>13, <1>14 DEF SipContext

\* Every valid row fits the payload that it is built into, but for a file of 1200 bytes.
LEMMA HttpBuilds ==
    ASSUME NEW uci, fh_validate_config(uci), NEW c, HttpContext(c, uci)
    PROVE  fh_payload_setup(c) <=>
               \A k \in DOMAIN Rows(uci) : Rows(uci)[k].type = "binary" => Rows(uci)[k].info.len # 1200
  <1> DEFINE rows == Rows(uci)
             n == Len(rows)
             fits(p) == CASE p.type = "custom" -> make_custom(p.info)
                          [] p.type = "http"   -> make_http_get(p.info)
                          [] p.type = "https"  -> make_tls_client_hello(p.info)
  <1>1. n \in Nat \ {0} /\ DOMAIN c.plinfo = 1..n
    BY ListedIs DEF HttpContext, AsAsked, Sane
  <1>2. DOMAIN rows = 1..n
    BY <1>1
  <1>3. ASSUME NEW k \in DOMAIN rows
        PROVE  fits(Shown(rows[k])) <=> (rows[k].type = "binary" => rows[k].info.len # 1200)
    <2>1. ValidRow(rows[k])
      BY DEF fh_validate_config
    <2> DEFINE row == rows[k]
    <2> HIDE DEF row
    <2>2. row.type \in {"http", "https", "binary"}
          /\ row.info.len \in IF row.type = "binary" THEN 1..1200 ELSE 1..253
      BY <2>1 DEF ValidRow, RowOption, row
    <2>3. Shown(row).info = row.info /\ Shown(row).type = IF row.type = "binary" THEN "custom" ELSE row.type
      BY DEF Shown
    <2>4. fits(Shown(row)) <=> (row.type = "binary" => row.info.len # 1200)
      <3> DEFINE p == Shown(row)
      <3> HIDE DEF p
      <3> SUFFICES fits(p) <=> (row.type = "binary" => row.info.len # 1200)
        BY DEF p
      <3>1. p.info = row.info /\ p.type = IF row.type = "binary" THEN "custom" ELSE row.type
        BY <2>3 DEF p
      <3>2. CASE row.type = "binary"
        <4>1. fits(p) <=> make_custom(p.info)
          BY <3>1, <3>2
        <4> HIDE DEF fits
        <4>2. row.info.len \in 1..1200
          BY <2>2, <3>2
        <4>3. make_custom(p.info) <=> row.info.len < 1200
          BY <3>1 DEF make_custom, BUFFLEN
        <4>4. make_custom(p.info) <=> row.info.len # 1200
          BY <4>2, <4>3, SMTT(30)
        <4> QED BY <3>2, <4>1, <4>4
      <3>3. CASE row.type = "http"
        <4>1. fits(p) <=> make_http_get(p.info)
          BY <3>1, <3>3
        <4> HIDE DEF fits
        <4> QED BY <2>2, <3>1, <3>3, <4>1 DEF make_http_get, HttpFixed, BUFFLEN
      <3>4. CASE row.type = "https"
        <4>1. fits(p) <=> make_tls_client_hello(p.info)
          BY <3>1, <3>4
        <4> HIDE DEF fits
        <4> QED BY <2>2, <3>1, <3>4, <4>1 DEF make_tls_client_hello, HelloSpace
      <3> QED BY <2>2, <3>2, <3>3, <3>4
    <2> QED BY <2>4 DEF row
  <1>4. fh_payload_setup(c) <=> \A j \in 1..n : fits(c.plinfo[j])
    BY <1>1 DEF fh_payload_setup
  <1>5. \A j \in 1..n : c.plinfo[j] = Shown(rows[n + 1 - j])
    BY DEF HttpContext
  <1> HIDE DEF fits, n, rows
  <1>6. \A j \in 1..n : n + 1 - j \in 1..n /\ n + 1 - (n + 1 - j) = j
    BY <1>1
  <1>7. (\A j \in 1..n : fits(c.plinfo[j])) <=> \A k \in 1..n : fits(Shown(rows[k]))
    BY <1>5, <1>6
  <1>8. fh_payload_setup(c) <=> \A k \in DOMAIN rows : rows[k].type = "binary" => rows[k].info.len # 1200
    BY <1>2, <1>3, <1>4, <1>7
  <1> QED BY <1>8 DEF rows

\* A URI of 255 characters fits, and the one that is made up.
LEMMA SipBuilds ==
    ASSUME NEW uci, fs_validate_config(uci), NEW c, SipContext(c, uci)
    PROVE  fs_payload_setup(c)
  <1> DEFINE info == IF uci.payload_mode = "custom_uri" THEN uci.sip_uri ELSE [id |-> "random", len |-> 22]
             p == [type |-> "sip", info |-> info]
  <1>1. c.plinfo = <<p>>
    BY DEF SipContext
  <1>2. info.len \in 5..255
    <2>1. CASE uci.payload_mode = "custom_uri"
      BY <2>1 DEF fs_validate_config
    <2>2. CASE uci.payload_mode # "custom_uri"
      BY <2>2
    <2> QED BY <2>1, <2>2
  <1> HIDE DEF info
  <1>3. p.type = "sip" /\ p.info = info
    OBVIOUS
  <1> HIDE DEF p
  <1>4. make_sip_invite(p.info)
    BY <1>2, <1>3 DEF make_sip_invite, SipFixed, BUFFLEN
  <1>5. DOMAIN c.plinfo = {1} /\ c.plinfo[1] = p
    BY <1>1
  <1> QED BY <1>3, <1>4, <1>5 DEF fs_payload_setup

\* The context that the daemon runs with.
LEMMA StartContext ==
    ASSUME World, Begun, Scene.byUci, Valid(Scene)
    PROVE  /\ ctx.ok /\ \A field \in DOMAIN FhContext \ {"use_iptables"} : ctx[field] = Context(Scene)[field]
           /\ Scene.prog = "fakehttp" => HttpContext(ctx, Scene.uci) /\ fh_validate_config(Scene.uci)
           /\ Scene.prog = "fakesip" => SipContext(ctx, Scene.uci) /\ fs_validate_config(Scene.uci)
  <1> DEFINE c == Context(Scene)
             u == Scene.uci
  <1>1. /\ Scene.prog \in {"fakehttp", "fakesip"} /\ Listed(u.interfaces)
        /\ Scene.prog = "fakehttp" => Listed(u.rows)
    BY PacketsAssumption DEF World, Scene
  <1>2. Scene.prog = "fakehttp" => HttpContext(c, u) /\ fh_validate_config(u)
    BY <1>1, FhParsed DEF Context, CommandLine, Valid
  <1>3. Scene.prog = "fakesip" => SipContext(c, u) /\ fs_validate_config(u)
    BY <1>1, FsParsed DEF Context, CommandLine, Valid
  <1>4. AsAsked(c, u) /\ Sane(c) /\ c.ok
    BY <1>1, <1>2, <1>3 DEF HttpContext, SipContext, AsAsked
  <1>5. PICK nft \in Scene.nft : ctx = FallBack(nft, c)
    BY DEF Begun
  <1> HIDE DEF c, u
  <1>6. Sane(ctx) /\ \A field \in DOMAIN FhContext \ {"use_iptables"} : ctx[field] = c[field]
    BY <1>4, <1>5, FallsBack DEF Sane
  <1>7. {"inbound", "outbound", "use_ipv4", "use_ipv6", "alliface", "iface", "dynamic_pct", "nohopest", "plinfo",
         "killproc", "port_white", "port_black", "repeat", "ttl", "fwmark", "fwmask", "ok"}
            \subseteq DOMAIN FhContext \ {"use_iptables"}
    BY DEF FhContext
  <1>8. /\ ctx.inbound = c.inbound /\ ctx.outbound = c.outbound /\ ctx.use_ipv4 = c.use_ipv4
        /\ ctx.use_ipv6 = c.use_ipv6 /\ ctx.alliface = c.alliface /\ ctx.iface = c.iface
        /\ ctx.dynamic_pct = c.dynamic_pct /\ ctx.nohopest = c.nohopest /\ ctx.plinfo = c.plinfo
        /\ ctx.killproc = c.killproc /\ ctx.port_white = c.port_white /\ ctx.port_black = c.port_black
        /\ ctx.repeat = c.repeat /\ ctx.ttl = c.ttl /\ ctx.fwmark = c.fwmark /\ ctx.fwmask = c.fwmask /\ ctx.ok = c.ok
    BY <1>6, <1>7
  <1>9. AsAsked(ctx, u)
    BY <1>4, <1>6, <1>8 DEF AsAsked, TunedBy
  <1>10. Scene.prog = "fakehttp" => HttpContext(ctx, u)
    BY <1>2, <1>8, <1>9 DEF HttpContext, Directed
  <1>11. Scene.prog = "fakesip" => SipContext(ctx, u)
    BY <1>3, <1>8, <1>9 DEF SipContext, Directed, Filters
  <1> QED BY <1>2, <1>3, <1>4, <1>6, <1>8, <1>10, <1>11 DEF c, u

LEMMA StartsFollow == DaemonInv => ValidStarts
  <1> SUFFICES ASSUME DaemonInv, Scene.byUci, Valid(Scene)
               PROVE  status = "serving" <=> Scene.prog = "fakesip" \/ \A k \in DOMAIN Rows(Scene.uci) :
                          Rows(Scene.uci)[k].type = "binary" => Rows(Scene.uci)[k].info.len # 1200
    BY DEF ValidStarts
  <1>1. World /\ Begun
    BY DEF DaemonInv, TableInv
  <1>2. status = "serving" <=> Builds(Scene, ctx)
    BY <1>1, StatusIs, StartContext
  <1>3. Scene.prog \in {"fakehttp", "fakesip"}
    BY <1>1, PacketsAssumption DEF World, Scene
  <1>4. CASE Scene.prog = "fakehttp"
    <2>1. Builds(Scene, ctx) <=> fh_payload_setup(ctx)
      BY <1>4 DEF Builds
    <2> QED BY <1>1, <1>2, <1>4, <2>1, StartContext, HttpBuilds
  <1>5. CASE Scene.prog = "fakesip"
    <2>1. Builds(Scene, ctx) <=> fs_payload_setup(ctx)
      BY <1>5 DEF Builds
    <2> QED BY <1>1, <1>2, <1>5, <2>1, StartContext, SipBuilds
  <1> QED BY <1>3, <1>4, <1>5

\* What the init script lets through the daemon starts with, for every UCI section: the
\* parser takes every option the script writes, the checks find nothing missing, and
\* each payload fits its buffer, with the exception of a file of exactly 1200 bytes.
THEOREM StartsWhatIsValid == Spec => []ValidStarts
  BY InitDaemon, DaemonStep, StartsFollow, PTL DEF Spec

---------------------------------------------------------------------------
(* The bytes of TCP options *)

Byte == 0..255

\* There is no whole option at i.
Cut(o, i) == i = Len(o) \/ o[i + 1] < 2 \/ i + o[i + 1] - 1 > Len(o)

\* What remove_tfo_cookie and a receiver make of place i, f telling what they make of
\* the places behind it.
Scanned(f, o, i) ==
    IF i > Len(o) THEN {}
    ELSE IF o[i] \in {0, NOP} THEN f[i + 1]
    ELSE IF i = Len(o) THEN {}
    ELSE IF o[i + 1] < 2 \/ i + o[i + 1] - 1 > Len(o) THEN {}
    ELSE (IF o[i] = Cookie THEN OptionBytes(o, i) ELSE {}) \cup f[i + o[i + 1]]

Found(f, o, i) ==
    IF i > Len(o) \/ o[i] = 0 THEN <<>>
    ELSE IF o[i] = NOP THEN f[i + 1]
    ELSE IF i = Len(o) \/ o[i + 1] < 2 \/ i + o[i + 1] - 1 > Len(o) THEN <<>>
    ELSE <<SubSeq(o, i, i + o[i + 1] - 1)>> \o f[i + o[i + 1]]

Step(receiver, f, o, i) == IF receiver THEN Found(f, o, i) ELSE Scanned(f, o, i)

Walks(receiver, f, o, i) ==
    /\ f = [j \in i..Len(o) + 1 |-> f[j]]
    /\ \A j \in i..Len(o) + 1 : f[j] = Step(receiver, f, o, j)

LEMMA BytesAre ==
    ASSUME NEW o \in Seq(Byte)
    PROVE  /\ Len(o) \in Nat /\ DOMAIN o = 1..Len(o)
           /\ \A j \in 1..Len(o) : o[j] \in Int /\ o[j] >= 0
  <1>1. \A b \in Byte : b \in Int /\ b >= 0
    BY DEF Byte
  <1>2. \A j \in 1..Len(o) : o[j] \in Byte
    OBVIOUS
  <1> QED BY <1>1, <1>2

LEMMA StepLooksAhead ==
    ASSUME NEW receiver, NEW o \in Seq(Byte), NEW i \in 1..Len(o) + 1, NEW f, NEW g,
           \A j \in i + 1..Len(o) + 1 : f[j] = g[j]
    PROVE  Step(receiver, f, o, i) = Step(receiver, g, o, i)
  <1>1. Len(o) \in Nat /\ \A j \in 1..Len(o) : o[j] \in Int /\ o[j] >= 0
    BY BytesAre
  <1>2. CASE i > Len(o)
    BY <1>2 DEF Step, Found, Scanned
  <1>3. CASE i <= Len(o)
    <2>1. i + 1 \in i + 1..Len(o) + 1
      BY <1>1, <1>3
    <2>2. f[i + 1] = g[i + 1]
      BY <2>1
    <2>3. ASSUME ~Cut(o, i)
          PROVE  f[i + o[i + 1]] = g[i + o[i + 1]]
      <3>1. i + 1 \in 1..Len(o) /\ ~(o[i + 1] < 2) /\ ~(i + o[i + 1] - 1 > Len(o))
        BY <1>1, <1>3, <2>3 DEF Cut
      <3>2. i + o[i + 1] \in i + 1..Len(o) + 1
        BY <1>1, <3>1
      <3> QED BY <3>2
    <2>4. Found(f, o, i) = Found(g, o, i)
      BY <2>2, <2>3 DEF Found, Cut
    <2>5. Scanned(f, o, i) = Scanned(g, o, i)
      BY <2>2, <2>3 DEF Scanned, Cut
    <2> QED BY <2>4, <2>5 DEF Step
  <1> QED BY <1>1, <1>2, <1>3

LEMMA CanWalk ==
    ASSUME NEW receiver, NEW o \in Seq(Byte)
    PROVE  \E f : Walks(receiver, f, o, 1)
  <1> DEFINE L == Len(o)
             T == {n \in Nat : n <= L => \E f : Walks(receiver, f, o, L + 1 - n)}
  <1>0. L \in Nat
    OBVIOUS
  <1>1. 0 \in T
    <2> DEFINE f == [j \in L + 1..L + 1 |-> IF receiver THEN <<>> ELSE {}]
    <2>1. \A j \in L + 1..L + 1 : f[j] = Step(receiver, f, o, j)
      BY <1>0 DEF Step, Found, Scanned
    <2>2. f = [j \in L + 1..L + 1 |-> f[j]]
      OBVIOUS
    <2> HIDE DEF f
    <2>3. Walks(receiver, f, o, L + 1 - 0)
      <3>1. L + 1 - 0 = L + 1
        BY <1>0
      <3> QED BY <2>1, <2>2, <3>1 DEF Walks
    <2> QED BY <2>3
  <1>2. ASSUME NEW n \in Nat, n \in T
        PROVE  n + 1 \in T
    <2>1. SUFFICES ASSUME n + 1 <= L PROVE \E f : Walks(receiver, f, o, L + 1 - (n + 1))
      OBVIOUS
    <2> DEFINE i == L - n
    <2>2. i \in 1..L /\ L + 1 - n = i + 1 /\ L + 1 - (n + 1) = i
      BY <1>0, <2>1
    <2>3. PICK f : Walks(receiver, f, o, i + 1)
      BY <1>0, <1>2, <2>1, <2>2
    <2> HIDE DEF i
    <2> DEFINE g == [j \in i..L + 1 |-> IF j = i THEN Step(receiver, f, o, i) ELSE f[j]]
    <2>4. ASSUME NEW j \in i..L + 1
          PROVE  g[j] = Step(receiver, g, o, j)
      <3>1. \A k \in j + 1..L + 1 : f[k] = g[k]
        BY <1>0, <2>2
      <3>2. Step(receiver, f, o, j) = Step(receiver, g, o, j)
        <4>1. j \in 1..L + 1
          BY <1>0, <2>2
        <4> HIDE DEF g
        <4> QED BY <3>1, <4>1, StepLooksAhead
      <3>3. g[j] = Step(receiver, f, o, j)
        <4>1. CASE j = i
          BY <4>1
        <4>2. CASE j # i
          <5>1. j \in i + 1..L + 1
            BY <1>0, <2>2, <4>2
          <5> QED BY <2>3, <4>2, <5>1 DEF Walks
        <4> QED BY <4>1, <4>2
      <3> QED BY <3>2, <3>3
    <2>5. g = [j \in i..L + 1 |-> g[j]]
      OBVIOUS
    <2> HIDE DEF g
    <2>6. Walks(receiver, g, o, i)
      BY <2>4, <2>5 DEF Walks
    <2> QED BY <2>2, <2>6
  <1> HIDE DEF T
  <1>3. T = Nat
    <2>1. T \subseteq Nat
      BY DEF T
    <2> QED BY <1>1, <1>2, <2>1, Induct
  <1>4. L + 1 - L = 1
    BY <1>0
  <1> QED BY <1>0, <1>3, <1>4 DEF T

LEMMA CookieBytesWalks ==
    ASSUME NEW o \in Seq(Byte)
    PROVE  \E f : Walks(FALSE, f, o, 1) /\ CookieBytes(o) = f[1]
  <1> DEFINE Body(h) == [i \in 1..Len(o) + 1 |->
                            IF i > Len(o) THEN {}
                            ELSE IF o[i] \in {0, NOP} THEN h[i + 1]
                            ELSE IF i = Len(o) THEN {}
                            ELSE IF o[i + 1] < 2 \/ i + o[i + 1] - 1 > Len(o) THEN {}
                            ELSE (IF o[i] = Cookie THEN OptionBytes(o, i) ELSE {}) \cup h[i + o[i + 1]]]
             scan == CHOOSE h : h = Body(h)
  <1>1. PICK f : Walks(FALSE, f, o, 1)
    BY CanWalk
  <1>2. \A h : Body(h) = [i \in 1..Len(o) + 1 |-> Step(FALSE, h, o, i)]
    BY DEF Step, Scanned
  <1>3. CookieBytes(o) = scan[1]
    BY DEF CookieBytes
  <1> HIDE DEF Body
  <1>4. f = Body(f)
    <2>1. [i \in 1..Len(o) + 1 |-> f[i]] = [i \in 1..Len(o) + 1 |-> Step(FALSE, f, o, i)]
      BY <1>1 DEF Walks
    <2> QED BY <1>1, <1>2, <2>1 DEF Walks
  <1>5. scan = Body(scan)
    BY <1>4
  <1> HIDE DEF scan
  <1>6. scan = [i \in 1..Len(o) + 1 |-> Step(FALSE, scan, o, i)]
    BY <1>2, <1>5
  <1>7. Walks(FALSE, scan, o, 1)
    <2>1. \A i \in 1..Len(o) + 1 : scan[i] = Step(FALSE, scan, o, i)
      BY <1>6
    <2>2. scan = [i \in 1..Len(o) + 1 |-> scan[i]]
      BY <1>6, <2>1
    <2> QED BY <2>1, <2>2 DEF Walks
  <1> QED BY <1>3, <1>7

LEMMA OptionsWalks ==
    ASSUME NEW o \in Seq(Byte)
    PROVE  \E f : Walks(TRUE, f, o, 1) /\ Options(o) = f[1]
  <1> DEFINE Body(h) == [i \in 1..Len(o) + 1 |->
                            IF i > Len(o) \/ o[i] = 0 THEN <<>>
                            ELSE IF o[i] = NOP THEN h[i + 1]
                            ELSE IF i = Len(o) \/ o[i + 1] < 2 \/ i + o[i + 1] - 1 > Len(o) THEN <<>>
                            ELSE <<SubSeq(o, i, i + o[i + 1] - 1)>> \o h[i + o[i + 1]]]
             find == CHOOSE h : h = Body(h)
  <1>1. PICK f : Walks(TRUE, f, o, 1)
    BY CanWalk
  <1>2. \A h : Body(h) = [i \in 1..Len(o) + 1 |-> Step(TRUE, h, o, i)]
    BY DEF Step, Found
  <1>3. Options(o) = find[1]
    BY DEF Options
  <1> HIDE DEF Body
  <1>4. f = Body(f)
    <2>1. [i \in 1..Len(o) + 1 |-> f[i]] = [i \in 1..Len(o) + 1 |-> Step(TRUE, f, o, i)]
      BY <1>1 DEF Walks
    <2> QED BY <1>1, <1>2, <2>1 DEF Walks
  <1>5. find = Body(find)
    BY <1>4
  <1> HIDE DEF find
  <1>6. find = [i \in 1..Len(o) + 1 |-> Step(TRUE, find, o, i)]
    BY <1>2, <1>5
  <1>7. Walks(TRUE, find, o, 1)
    <2>1. \A i \in 1..Len(o) + 1 : find[i] = Step(TRUE, find, o, i)
      BY <1>6
    <2>2. find = [i \in 1..Len(o) + 1 |-> find[i]]
      BY <1>6, <2>1
    <2> QED BY <2>1, <2>2 DEF Walks
  <1> QED BY <1>3, <1>7

\* From the last place backwards.
LEMMA Down ==
    ASSUME NEW L \in Nat, NEW T, \A i \in 1..L + 1 : (\A j \in i + 1..L + 1 : j \in T) => i \in T
    PROVE  \A i \in 1..L + 1 : i \in T
  <1> SUFFICES ASSUME NEW k \in 1..L + 1, k \notin T PROVE FALSE
    OBVIOUS
  <1> DEFINE U == {n \in 0..L : L + 1 - n \notin T}
  <1>1. U \subseteq Nat /\ U # {}
    <2>1. L + 1 - k \in 0..L /\ L + 1 - (L + 1 - k) = k
      OBVIOUS
    <2> QED BY <2>1
  <1>2. PICK n \in U : \A m \in U : n <= m
    <2> HIDE DEF U
    <2> QED BY <1>1, Least
  <1>3. n \in 0..L /\ L + 1 - n \notin T /\ L + 1 - n \in 1..L + 1
    BY <1>2
  <1>4. ASSUME NEW j \in L + 1 - n + 1..L + 1
        PROVE  j \in T
    <2>1. L + 1 - j \in 0..L /\ L + 1 - j < n /\ L + 1 - (L + 1 - j) = j
      BY <1>3
    <2> QED BY <1>2, <1>3, <2>1
  <1> QED BY <1>3, <1>4

\* A place's scan touches nothing before it.
LEMMA ScanStaysBehind ==
    ASSUME NEW o \in Seq(Byte), NEW f, Walks(FALSE, f, o, 1)
    PROVE  \A i \in 1..Len(o) + 1 : f[i] \subseteq i..Len(o)
  <1> DEFINE L == Len(o)
             T == {i \in 1..L + 1 : f[i] \subseteq i..L}
  <1>1. L \in Nat /\ \A j \in 1..L : o[j] \in Int /\ o[j] >= 0
    BY BytesAre
  <1>2. ASSUME NEW i \in 1..L + 1, \A j \in i + 1..L + 1 : j \in T
        PROVE  i \in T
    <2>1. f[i] = Scanned(f, o, i)
      BY DEF Walks, Step
    <2>2. CASE i > L
      BY <2>1, <2>2 DEF Scanned
    <2>3. CASE i <= L /\ o[i] \in {0, NOP}
      <3>1. f[i] = f[i + 1] /\ i + 1 \in i + 1..L + 1
        BY <1>1, <2>1, <2>3 DEF Scanned
      <3>2. f[i + 1] \subseteq i + 1..L
        BY <1>2, <3>1
      <3> QED BY <1>1, <3>1, <3>2
    <2>4. CASE i <= L /\ o[i] \notin {0, NOP} /\ Cut(o, i)
      <3>1. f[i] = {}
        BY <1>1, <2>1, <2>4 DEF Scanned, Cut
      <3> QED BY <3>1
    <2>5. CASE i <= L /\ o[i] \notin {0, NOP} /\ ~Cut(o, i)
      <3> DEFINE e == i + o[i + 1]
      <3>1. i + 1 \in 1..L /\ e \in i + 1..L + 1
        BY <1>1, <2>5 DEF Cut
      <3>2. f[i] = (IF o[i] = Cookie THEN OptionBytes(o, i) ELSE {}) \cup f[e]
        BY <1>1, <2>1, <2>5 DEF Scanned, Cut
      <3>3. OptionBytes(o, i) = i..e - 1
        BY <1>1, <3>1 DEF OptionBytes
      <3> HIDE DEF e
      <3>4. f[e] \subseteq e..L
        BY <1>2, <3>1
      <3>5. f[e] \subseteq i..L /\ i..e - 1 \subseteq i..L
        BY <1>1, <3>1, <3>4
      <3> QED BY <3>2, <3>3, <3>5
    <2> QED BY <1>1, <2>2, <2>3, <2>4, <2>5
  <1> HIDE DEF T
  <1>3. \A i \in 1..L + 1 : i \in T
    BY <1>1, <1>2, Down
  <1> QED BY <1>3 DEF T

Nops(r, i, e) == \A j \in i..e - 1 : r[j] = NOP

\* A run of NOPs is walked over.
LEMMA OverNops ==
    ASSUME NEW r \in Seq(Byte), NEW h, Walks(TRUE, h, r, 1), NEW i \in 1..Len(r) + 1,
           NEW e \in i..Len(r) + 1, Nops(r, i, e)
    PROVE  h[i] = h[e]
  <1> DEFINE T == {n \in Nat : i + n <= e => h[i + n] = h[i]}
  <1>1. Len(r) \in Nat
    OBVIOUS
  <1>2. 0 \in T
    <2>1. i + 0 = i
      OBVIOUS
    <2> QED BY <2>1
  <1>3. ASSUME NEW n \in Nat, n \in T
        PROVE  n + 1 \in T
    <2>1. SUFFICES ASSUME i + (n + 1) <= e PROVE h[i + (n + 1)] = h[i]
      OBVIOUS
    <2> DEFINE j == i + n
    <2>2. j \in i..e - 1 /\ j \in 1..Len(r) + 1 /\ j <= Len(r) /\ i + (n + 1) = j + 1 /\ i + n <= e
      BY <1>1, <2>1
    <2>3. h[j] = h[i]
      BY <1>3, <2>2
    <2> HIDE DEF j
    <2>4. r[j] = NOP /\ h[j] = Found(h, r, j)
      BY <2>2 DEF Walks, Step, Nops
    <2>5. h[j] = h[j + 1]
      BY <1>1, <2>2, <2>4 DEF Found, NOP
    <2> QED BY <2>2, <2>3, <2>5
  <1> HIDE DEF T
  <1>4. T = Nat
    <2>1. T \subseteq Nat
      BY DEF T
    <2> QED BY <1>2, <1>3, <2>1, Induct
  <1>5. e - i \in Nat /\ i + (e - i) = e /\ e <= e
    BY <1>1
  <1>6. i + (e - i) <= e => h[i + (e - i)] = h[i]
    BY <1>4, <1>5 DEF T
  <1> QED BY <1>5, <1>6

Shifted(P, rest, n) == \A k \in 1..n : k \in rest <=> k + 1 \in P

\* The members that are kept, one more in front.
LEMMA AtFront ==
    ASSUME NEW x, NEW t, Listed(t), NEW P, NEW rest, Shifted(P, rest, Len(t))
    PROVE  At(<<x>> \o t, P) = (IF 1 \in P THEN <<x>> ELSE <<>>) \o At(t, rest)
  <1> DEFINE s == <<x>> \o t
             front == IF 1 \in P THEN <<x>> ELSE <<>>
             S == {x} \cup {t[k] : k \in DOMAIN t}
             N == Len(t)
  <1>1. t \in Seq(S) /\ <<x>> \in Seq(S) /\ x \in S
    BY DEF Listed
  <1>2. N \in Nat /\ DOMAIN t = 1..N /\ \A k \in 1..N : t[k] \in S
    BY <1>1, ListedIs
  <1>3. Len(s) = N + 1 /\ s[1] = x /\ \A k \in 1..N : s[k + 1] = t[k]
    <2> HIDE DEF S
    <2> QED BY <1>1, <1>2
  <1>4. front \in Seq(S)
    <2> HIDE DEF S
    <2>1. <<>> \in Seq(S)
      OBVIOUS
    <2> QED BY <1>1, <2>1
  <1>f. front = IF 1 \in P THEN <<x>> ELSE <<>>
    OBVIOUS
  <1> HIDE DEF s, S, front
  <1>5. PICK f : Keeps(f, s, P, N + 1) /\ At(s, P) = f[N + 1]
    BY <1>2, <1>3, AtKeeps
  <1>6. PICK g : Keeps(g, t, rest, N) /\ At(t, rest) = g[N]
    BY <1>2, AtKeeps
  <1> DEFINE Holds(n) == g[n] \in Seq(S) /\ f[n + 1] = front \o g[n]
             T == {n \in Nat : n <= N => Holds(n)}
  <1>7. 0 \in T
    <2>1. g[0] = <<>> /\ f[0] = <<>> /\ 0 + 1 = 1 /\ 1 \in 1..N + 1 /\ 1 - 1 = 0
      BY <1>2, <1>5, <1>6 DEF Keeps
    <2>2. f[1] = IF 1 \in P THEN Append(<<>>, x) ELSE <<>>
      BY <1>3, <1>5, <2>1 DEF Keeps
    <2>3. Append(<<>>, x) = <<x>>
      OBVIOUS
    <2>4. f[1] = front
      BY <1>f, <2>2, <2>3
    <2>5. g[0] \in Seq(S) /\ front \o <<>> = front
      BY <1>4, <2>1
    <2> QED BY <2>1, <2>4, <2>5
  <1>c. \A k \in 1..N : k \in rest <=> k + 1 \in P
    BY DEF Shifted
  <1> HIDE DEF Holds, N
  <1>8. ASSUME NEW n \in Nat, n \in T
        PROVE  n + 1 \in T
    <2>1. SUFFICES ASSUME n + 1 <= N PROVE Holds(n + 1)
      OBVIOUS
    <2>2. Holds(n) /\ n + 1 \in 1..N /\ n + 1 - 1 = n
      BY <1>2, <1>8, <2>1
    <2>3. n + 1 + 1 \in 1..N + 1 /\ n + 1 + 1 - 1 = n + 1
      BY <1>2, <2>1
    <2>4. f[n + 1 + 1] = IF n + 1 + 1 \in P THEN Append(f[n + 1], s[n + 1 + 1]) ELSE f[n + 1]
      BY <1>5, <2>3 DEF Keeps
    <2>5. g[n + 1] = IF n + 1 \in rest THEN Append(g[n], t[n + 1]) ELSE g[n]
      BY <1>6, <2>2 DEF Keeps
    <2>h. g[n] \in Seq(S) /\ f[n + 1] = front \o g[n]
      BY <2>2 DEF Holds
    <2>6. s[n + 1 + 1] = t[n + 1] /\ t[n + 1] \in S
      BY <1>2, <1>3, <2>2
    <2>7. n + 1 \in rest <=> n + 1 + 1 \in P
      BY <1>c, <2>2
    <2>8. CASE n + 1 \in rest
      <3>1. g[n + 1] = Append(g[n], t[n + 1]) /\ f[n + 1 + 1] = Append(front \o g[n], t[n + 1])
        BY <2>h, <2>4, <2>5, <2>6, <2>7, <2>8
      <3>2. Append(front \o g[n], t[n + 1]) = front \o Append(g[n], t[n + 1]) /\ Append(g[n], t[n + 1]) \in Seq(S)
        <4> DEFINE b == g[n]
                   y == t[n + 1]
        <4>1. front \in Seq(S) /\ b \in Seq(S) /\ y \in S
          BY <1>4, <2>h, <2>6
        <4> HIDE DEF b, y, T
        <4>2. Append(front \o b, y) = front \o Append(b, y) /\ Append(b, y) \in Seq(S)
          BY <4>1
        <4> QED BY <4>2 DEF b, y
      <3> QED BY <3>1, <3>2 DEF Holds
    <2>9. CASE n + 1 \notin rest
      BY <2>h, <2>4, <2>5, <2>7, <2>9 DEF Holds
    <2> QED BY <2>8, <2>9
  <1> HIDE DEF T
  <1>9. T = Nat
    <2>1. T \subseteq Nat
      BY DEF T
    <2> QED BY <1>7, <1>8, <2>1, Induct
  <1>10. Holds(N)
    <2>1. N \in T /\ N <= N
      BY <1>2, <1>9
    <2> QED BY <2>1 DEF T
  <1>11. At(s, P) = front \o At(t, rest)
    BY <1>5, <1>6, <1>10 DEF Holds
  <1> QED BY <1>11 DEF s, front

\* The options that are no Fast Open cookie.
Others(s) == {k \in DOMAIN s : s[k][1] # Cookie}

LEMMA OthersFront ==
    ASSUME NEW x, NEW t, Listed(t)
    PROVE  At(<<x>> \o t, Others(<<x>> \o t)) =
               (IF x[1] # Cookie THEN <<x>> ELSE <<>>) \o At(t, Others(t))
  <1> DEFINE s == <<x>> \o t
             S == {x} \cup {t[k] : k \in DOMAIN t}
             N == Len(t)
  <1>1. t \in Seq(S) /\ <<x>> \in Seq(S) /\ N \in Nat /\ DOMAIN t = 1..N
    BY ListedIs DEF Listed
  <1>2. DOMAIN s = 1..N + 1 /\ s[1] = x /\ \A k \in 1..N : s[k + 1] = t[k]
    <2> HIDE DEF S
    <2> QED BY <1>1
  <1> HIDE DEF s, N
  <1>3. 1 \in Others(s) <=> x[1] # Cookie
    BY <1>1, <1>2 DEF Others
  <1>4. \A k \in 1..N : k \in Others(t) <=> k + 1 \in Others(s)
    BY <1>1, <1>2 DEF Others
  <1> DEFINE P == Others(s)
             rest == Others(t)
  <1>6. Shifted(P, rest, N)
    BY <1>4 DEF Shifted
  <1>5. 1 \in P <=> x[1] # Cookie
    BY <1>3
  <1> HIDE DEF P, rest
  <1>7. At(s, P) = (IF 1 \in P THEN <<x>> ELSE <<>>) \o At(t, rest)
    BY <1>6, AtFront DEF s, N
  <1>8. At(s, P) = (IF x[1] # Cookie THEN <<x>> ELSE <<>>) \o At(t, rest)
    BY <1>5, <1>7
  <1> QED BY <1>8 DEF P, rest, s

LEMMA NoneKept == At(<<>>, Others(<<>>)) = <<>>
  <1>1. Len(<<>>) = 0 /\ 0 \in Nat
    OBVIOUS
  <1>2. PICK f : Keeps(f, <<>>, Others(<<>>), 0) /\ At(<<>>, Others(<<>>)) = f[0]
    BY <1>1, AtKeeps
  <1> QED BY <1>2 DEF Keeps

\* A whole option.
LEMMA WholeFound ==
    ASSUME NEW o, NEW f, NEW i, ~(i > Len(o)), o[i] \notin {0, NOP}, ~Cut(o, i)
    PROVE  /\ Found(f, o, i) = <<SubSeq(o, i, i + o[i + 1] - 1)>> \o f[i + o[i + 1]]
           /\ Scanned(f, o, i) = (IF o[i] = Cookie THEN OptionBytes(o, i) ELSE {}) \cup f[i + o[i + 1]]
  BY DEF Found, Scanned, Cut

\* A receiver finds a list.
LEMMA FoundListed ==
    ASSUME NEW o \in Seq(Byte), NEW g, Walks(TRUE, g, o, 1)
    PROVE  \A i \in 1..Len(o) + 1 : Listed(g[i])
  <1> DEFINE L == Len(o)
             T == {i \in 1..L + 1 : Listed(g[i])}
  <1>1. L \in Nat /\ \A j \in 1..L : o[j] \in Int /\ o[j] >= 0
    BY BytesAre
  <1>2. ASSUME NEW i \in 1..L + 1, \A j \in i + 1..L + 1 : j \in T
        PROVE  i \in T
    <2>1. g[i] = Found(g, o, i)
      BY DEF Walks, Step
    <2>2. CASE i > L \/ o[i] = 0
      BY <2>1, <2>2, ShortListed DEF Found
    <2>3. CASE i <= L /\ o[i] = NOP
      <3>1. g[i] = g[i + 1] /\ i + 1 \in i + 1..L + 1
        BY <1>1, <2>1, <2>3 DEF Found, NOP
      <3> QED BY <1>2, <3>1
    <2>4. CASE i <= L /\ o[i] \notin {0, NOP} /\ Cut(o, i)
      <3>1. g[i] = <<>>
        BY <1>1, <2>1, <2>4 DEF Found, Cut
      <3> QED BY <3>1, ShortListed
    <2>5. CASE i <= L /\ o[i] \notin {0, NOP} /\ ~Cut(o, i)
      <3> DEFINE e == i + o[i + 1]
      <3>1. i + 1 \in 1..L /\ e \in i + 1..L + 1
        BY <1>1, <2>5 DEF Cut
      <3>2. \E x : g[i] = <<x>> \o g[e]
        <4>1. ~(i > Len(o))
          BY <1>1, <2>5
        <4> QED BY <2>1, <2>5, <4>1, WholeFound
      <3> HIDE DEF e
      <3>3. PICK x : g[i] = <<x>> \o g[e]
        BY <3>2
      <3>4. Listed(g[e]) /\ Listed(<<x>>)
        BY <1>2, <3>1, ShortListed
      <3>5. Listed(<<x>> \o g[e])
        BY <3>4, JoinListed
      <3> QED BY <3>3, <3>5
    <2> QED BY <1>1, <2>2, <2>3, <2>4, <2>5
  <1> HIDE DEF T
  <1>3. \A i \in 1..L + 1 : i \in T
    BY <1>1, <1>2, Down
  <1> QED BY <1>3 DEF T

LEMMA RemovedBytes ==
    ASSUME NEW o \in Seq(Byte)
    PROVE  LET r == remove_tfo_cookie(o) IN
           /\ r \in Seq(Byte) /\ Len(r) = Len(o)
           /\ \A i \in 1..Len(o) : r[i] = IF i \in CookieBytes(o) THEN NOP ELSE o[i]
  <1> DEFINE gone == CookieBytes(o)
             r == [i \in 1..Len(o) |-> IF i \in gone THEN NOP ELSE o[i]]
  <1>1. remove_tfo_cookie(o) = r
    BY DEF remove_tfo_cookie
  <1> HIDE DEF gone
  <1>2. NOP \in Byte
    BY DEF NOP, Byte
  <1>3. Len(o) \in Nat /\ \A i \in 1..Len(o) : (IF i \in gone THEN NOP ELSE o[i]) \in Byte
    BY <1>2
  <1>4. r \in Seq(Byte) /\ Len(r) = Len(o)
    BY <1>3
  <1>5. \A i \in 1..Len(o) : r[i] = IF i \in gone THEN NOP ELSE o[i]
    OBVIOUS
  <1> HIDE DEF r
  <1> QED BY <1>1, <1>4, <1>5 DEF gone

LEMMA SameBytes ==
    ASSUME NEW o \in Seq(Byte), NEW r \in Seq(Byte), Len(r) = Len(o), NEW i \in 1..Len(o),
           NEW e \in i + 1..Len(o) + 1, \A j \in i..e - 1 : r[j] = o[j]
    PROVE  SubSeq(r, i, e - 1) = SubSeq(o, i, e - 1) /\ SubSeq(o, i, e - 1)[1] = o[i]
  OBVIOUS

\* What a receiver finds behind the removal is what it would have found, without the cookie.
LEMMA CookieGoes ==
    ASSUME NEW o \in Seq(Byte)
    PROVE  Options(remove_tfo_cookie(o)) = At(Options(o), Others(Options(o)))
  <1> DEFINE L == Len(o)
             gone == CookieBytes(o)
             r == remove_tfo_cookie(o)
  <1>1. /\ r \in Seq(Byte) /\ Len(r) = L
        /\ \A i \in 1..L : r[i] = IF i \in gone THEN NOP ELSE o[i]
    BY RemovedBytes
  <1>2. L \in Nat /\ \A j \in 1..L : o[j] \in Int /\ o[j] >= 0
    BY BytesAre
  <1>3. PICK f : Walks(FALSE, f, o, 1) /\ gone = f[1]
    BY CookieBytesWalks
  <1>4. PICK g : Walks(TRUE, g, o, 1) /\ Options(o) = g[1]
    BY OptionsWalks
  <1> HIDE DEF r, gone
  <1>5. PICK h : Walks(TRUE, h, r, 1) /\ Options(r) = h[1]
    BY <1>1, OptionsWalks
  <1>6. /\ \A i \in 1..L + 1 : f[i] \subseteq i..L
        /\ \A i \in 1..L + 1 : Listed(g[i])
    BY <1>3, <1>4, ScanStaysBehind, FoundListed
  <1> HIDE DEF L
  <1> DEFINE Goes(i) == gone \cap i..L = f[i] => h[i] = At(g[i], Others(g[i]))
             T == {i \in 1..L + 1 : Goes(i)}
  <1>7. ASSUME NEW i \in 1..L + 1, \A j \in i + 1..L + 1 : j \in T
        PROVE  i \in T
    <2>g. SUFFICES ASSUME gone \cap i..L = f[i] PROVE h[i] = At(g[i], Others(g[i]))
      OBVIOUS
    <2>0. \A j \in i + 1..L + 1 : gone \cap j..L = f[j] => h[j] = At(g[j], Others(g[j]))
      BY <1>7
    <2> HIDE DEF T
    <2>1. f[i] = Scanned(f, o, i) /\ g[i] = Found(g, o, i) /\ h[i] = Found(h, r, i)
      BY <1>1, <1>3, <1>4, <1>5 DEF Walks, Step, L
    <2>2. CASE i > L
      <3>1. g[i] = <<>> /\ h[i] = <<>>
        BY <1>1, <2>1, <2>2 DEF Found, L
      <3> QED BY <3>1, NoneKept
    <2>3. CASE i <= L /\ o[i] = 0
      <3>1. f[i] = f[i + 1] /\ i + 1 \in 1..L + 1
        BY <1>2, <2>1, <2>3 DEF Scanned, L
      <3>2. i \notin gone /\ i \in 1..L
        BY <1>2, <1>6, <2>g, <2>3, <3>1
      <3>3. r[i] = 0
        BY <1>1, <2>3, <3>2
      <3>4. g[i] = <<>> /\ h[i] = <<>>
        BY <2>1, <2>3, <3>3 DEF Found
      <3> QED BY <3>4, NoneKept
    <2>4. CASE i <= L /\ o[i] = NOP
      <3>1. f[i] = f[i + 1] /\ g[i] = g[i + 1] /\ i + 1 \in i + 1..L + 1
        BY <1>2, <2>1, <2>4 DEF Scanned, Found, NOP, L
      <3>2. r[i] = NOP
        BY <1>1, <2>4
      <3>3. h[i] = h[i + 1]
        BY <1>1, <1>2, <2>1, <2>4, <3>2 DEF Found, NOP
      <3>4. gone \cap i + 1..L = f[i + 1]
        <4>1. f[i + 1] \subseteq i + 1..L
          BY <1>2, <1>6, <3>1
        <4> QED BY <1>2, <2>g, <3>1, <4>1
      <3> QED BY <2>0, <3>1, <3>3, <3>4
    <2>5. CASE i <= L /\ o[i] \notin {0, NOP} /\ Cut(o, i)
      <3>1. f[i] = {} /\ g[i] = <<>>
        BY <1>2, <2>1, <2>5 DEF Scanned, Found, Cut, L
      <3>2. r[i] = o[i] /\ (i < L => r[i + 1] = o[i + 1])
        <4>1. gone \cap i..L = {}
          BY <2>g, <3>1
        <4>2. i \in i..L /\ i \in 1..L /\ (i < L => i + 1 \in i..L /\ i + 1 \in 1..L)
          BY <1>2, <2>5
        <4>3. i \notin gone /\ (i < L => i + 1 \notin gone)
          BY <4>1, <4>2
        <4> QED BY <1>1, <4>2, <4>3
      <3>3. h[i] = <<>>
        BY <1>1, <1>2, <2>1, <2>5, <3>2 DEF Found, Cut, L
      <3> QED BY <3>1, <3>3, NoneKept
    <2>6. CASE i <= L /\ o[i] \notin {0, NOP} /\ ~Cut(o, i)
      <3> DEFINE e == i + o[i + 1]
                 x == SubSeq(o, i, e - 1)
      <3>1. i + 1 \in 1..L /\ e \in i + 2..L + 1
        BY <1>2, <2>6 DEF Cut, L
      <3>2. /\ f[i] = (IF o[i] = Cookie THEN OptionBytes(o, i) ELSE {}) \cup f[e]
            /\ g[i] = <<x>> \o g[e]
        <4>1. i + o[i + 1] - 1 = e - 1
          BY <1>2, <3>1
        <4>2. ~(i > Len(o))
          BY <1>2, <2>6 DEF L
        <4> QED BY <2>1, <2>6, <4>1, <4>2, WholeFound
      <3>3. OptionBytes(o, i) = i..e - 1
        BY <1>2, <3>1 DEF OptionBytes
      <3>e. e = i + o[i + 1]
        OBVIOUS
      <3> HIDE DEF e, x
      <3>4. f[e] \subseteq e..L /\ e \in i + 1..L + 1 /\ e \in 1..L + 1
        BY <1>2, <1>6, <3>1
      <3>5. gone \cap e..L = f[e]
        <4>1. e..L \subseteq i..L /\ (i..e - 1) \cap (e..L) = {}
          BY <1>2, <3>4
        <4> QED BY <2>g, <3>2, <3>3, <3>4, <4>1
      <3>6. h[e] = At(g[e], Others(g[e])) /\ Listed(g[e])
        BY <1>6, <2>0, <3>4, <3>5
      <3>7. CASE o[i] = Cookie
        <4>1. \A j \in i..e - 1 : j \in gone /\ j \in 1..L
          BY <1>2, <2>g, <3>2, <3>3, <3>4, <3>7
        <4>2. \A j \in i..e - 1 : r[j] = NOP
          BY <1>1, <4>1
        <4>3. h[i] = h[e]
          <5>1. i \in 1..Len(r) + 1 /\ e \in i..Len(r) + 1
            BY <1>1, <1>2, <3>4
          <5>2. r \in Seq(Byte) /\ Walks(TRUE, h, r, 1)
            BY <1>1, <1>5
          <5>3. Nops(r, i, e)
            BY <4>2 DEF Nops
          <5> QED BY <5>1, <5>2, <5>3, OverNops
        <4>4. x[1] = Cookie
          <5>1. i \in 1..Len(o) /\ e \in i + 1..Len(o) + 1 /\ \A j \in i..e - 1 : o[j] = o[j]
            BY <1>2, <3>1, <3>4 DEF L
          <5> QED BY <3>7, <5>1, SameBytes DEF x
        <4>5. At(g[i], Others(g[i])) = <<>> \o At(g[e], Others(g[e]))
          BY <3>2, <3>6, <4>4, OthersFront
        <4>6. Listed(At(g[e], Others(g[e])))
          BY <3>6, AtListed
        <4>7. \A s : Listed(s) => <<>> \o s = s
          BY DEF Listed
        <4> QED BY <3>6, <4>3, <4>5, <4>6, <4>7
      <3>8. CASE o[i] # Cookie
        <4>1. f[i] = f[e]
          BY <3>2, <3>8
        <4>2. \A j \in i..e - 1 : j \notin gone /\ j \in 1..L
          BY <1>2, <2>g, <3>4, <4>1
        <4>3. \A j \in i..e - 1 : r[j] = o[j]
          BY <1>1, <4>2
        <4>4. r[i] = o[i] /\ r[i + 1] = o[i + 1]
          BY <1>2, <3>1, <4>3
        <4>5. h[i] = <<SubSeq(r, i, e - 1)>> \o h[e]
          <5>1. i + r[i + 1] - 1 = e - 1 /\ i + r[i + 1] = e
            BY <1>2, <3>1, <3>e, <4>4
          <5>2. ~(i > Len(r)) /\ r[i] \notin {0, NOP} /\ ~Cut(r, i)
            BY <1>1, <1>2, <2>6, <4>4 DEF Cut, L
          <5> QED BY <2>1, <5>1, <5>2, WholeFound
        <4>6. SubSeq(r, i, e - 1) = x /\ x[1] = o[i]
          <5>1. i \in 1..Len(o) /\ e \in i + 1..Len(o) + 1 /\ Len(r) = Len(o)
            BY <1>1, <1>2, <3>1, <3>4 DEF L
          <5> QED BY <1>1, <4>3, <5>1, SameBytes DEF x
        <4>7. At(g[i], Others(g[i])) = <<x>> \o At(g[e], Others(g[e]))
          BY <3>2, <3>6, <3>8, <4>6, OthersFront
        <4> QED BY <3>6, <4>5, <4>6, <4>7
      <3> QED BY <3>7, <3>8
    <2> QED BY <1>2, <2>2, <2>3, <2>4, <2>5, <2>6
  <1> HIDE DEF Goes, T
  <1>8. \A i \in 1..L + 1 : i \in T
    BY <1>2, <1>7, Down
  <1>9. gone \cap 1..L = f[1] /\ 1 \in 1..L + 1
    BY <1>2, <1>3, <1>6
  <1>10. h[1] = At(g[1], Others(g[1]))
    BY <1>8, <1>9 DEF T, Goes
  <1> QED BY <1>4, <1>5, <1>10 DEF r

---------------------------------------------------------------------------
(* Delivery *)

LEMMA PacketOptions ==
    ASSUME World, NEW p \in Packets
    PROVE  p.options \in Seq(Byte)
  <1>1. Scene.options \subseteq Seq(Byte)
    BY PacketsAssumption DEF World, Scene, Byte
  <1>2. p.options \in Scene.options
    BY DEF Packets, Packet
  <1> QED BY <1>1, <1>2

LEMMA DecoyIsDecoy ==
    ASSUME NEW p, NEW s, IsDecoy(p, s)
    PROVE  s.pkt.what = "decoy"
  BY DEF IsDecoy, FsDecoy, FhDecoy, fs_pkt4_make, fs_pkt6_make, fh_pkt4_make, fh_pkt6_make

Copies(sent) == {k \in DOMAIN sent : sent[k].pkt.what = "original"}

\* The packet itself goes by its verdict or, once, after the decoys.
LEMMA CopiesAre ==
    ASSUME ctx.repeat \in 1..10, NEW p, Does(p)
    PROVE  \/ out'.verdict = "ACCEPT" /\ Copies(out'.sent) = {}
           \/ /\ out'.verdict = "DROP" /\ Copies(out'.sent) = {Len(out'.sent)}
              /\ out'.sent[Len(out'.sent)] = Original(p)
              /\ p.type = "outgoing" /\ srcinfo_available(p.peer)
  <1>1. CASE Silent(p)
    <2>1. DOMAIN <<>> = {}
      OBVIOUS
    <2> QED BY <1>1, <2>1 DEF Silent, Copies
  <1>2. CASE Answered(p)
    <2>1. PICK s : IsDecoy(p, s) /\ (Accepted(p, s) \/ Replaced(p, s))
      BY <1>2 DEF Answered
    <2>2. s.pkt.what = "decoy"
      BY <2>1, DecoyIsDecoy
    <2>3. ASSUME NEW n \in 0..ctx.repeat
          PROVE  Times(n, s) \in Seq({s}) /\ Len(Times(n, s)) = n /\ \A k \in 1..n : Times(n, s)[k] = s
      BY DEF Times
    <2>4. CASE Accepted(p, s)
      <3>1. PICK n \in 0..ctx.repeat : out'.verdict = "ACCEPT" /\ out'.sent = Times(n, s)
        BY <2>4 DEF Accepted
      <3>2. DOMAIN out'.sent = 1..n /\ \A k \in 1..n : out'.sent[k] = s
        BY <3>1 DEF Times
      <3> QED BY <2>2, <3>1, <3>2 DEF Copies
    <2>5. CASE Replaced(p, s)
      <3> DEFINE t == Times(ctx.repeat, s)
                 last == Original(p)
      <3>1. t \in Seq({s}) /\ Len(t) = ctx.repeat /\ \A k \in 1..ctx.repeat : t[k] = s
        <4>1. ctx.repeat \in 0..ctx.repeat
          OBVIOUS
        <4> QED BY <2>3, <4>1
      <3>2. last.pkt.what = "original"
        BY DEF Original, FhSend, ByRaw, ByLink
      <3>3. out'.verdict = "DROP" /\ out'.sent = Append(t, last)
        BY <2>5 DEF Replaced
      <3> HIDE DEF t, last
      <3>4. Len(out'.sent) = ctx.repeat + 1 /\ DOMAIN out'.sent = 1..ctx.repeat + 1
            /\ out'.sent[ctx.repeat + 1] = last /\ \A k \in 1..ctx.repeat : out'.sent[k] = s
        BY <3>1, <3>3
      <3>5. \A k \in 1..ctx.repeat + 1 : out'.sent[k].pkt.what = "original" <=> k = ctx.repeat + 1
        BY <2>2, <3>2, <3>4
      <3>6. Copies(out'.sent) = {ctx.repeat + 1}
        BY <3>4, <3>5 DEF Copies
      <3> QED BY <2>5, <3>3, <3>4, <3>6 DEF Replaced, last
    <2> QED BY <2>1, <2>4, <2>5
  <1> QED BY <1>1, <1>2 DEF Does

\* It goes to the neighbour from which the peer was heard.
LEMMA GoesWhereHeard ==
    ASSUME RingHolds, NEW p, p.peer \in Peers, ~Original(p).snat, NEW m \in DOMAIN heard, NewestOf(p.peer, m)
    PROVE  Original(p).hw = heard[m].hw
  <1>1. srcinfo_get(p.peer) = heard[m]
    BY RingLooksUp DEF LookupNewest
  <1>2. Original(p).hw = srcinfo_get(p.peer).hw
    BY DEF Original, FhSend, ByRaw, ByLink
  <1> QED BY <1>1, <1>2

\* What is found in it.
LEMMA FoundInIt ==
    ASSUME NEW o \in Seq(Byte), NEW r, NEW worked \in BOOLEAN, r = IF worked THEN remove_tfo_cookie(o) ELSE o
    PROVE  /\ Len(r) = Len(o)
           /\ IF worked THEN Options(r) = At(Options(o), {k \in DOMAIN Options(o) : Options(o)[k][1] # Cookie})
              ELSE r = o
  BY RemovedBytes, CookieGoes DEF Others

LEMMA InitDelivered == Init => DeliveredOnce
  BY DEF Init, DeliveredOnce

LEMMA DeliveredStep == DaemonInv /\ DeliveredOnce /\ [Next]_vars => DeliveredOnce'
  <1> SUFFICES ASSUME DaemonInv, DeliveredOnce, [Next]_vars PROVE DeliveredOnce'
    OBVIOUS
  <1>1. World /\ RingHolds
    BY DEF DaemonInv, TableInv
  <1>2. CASE status = "serving" /\ packets < Scene.max /\ \E p \in Packets : callback(p)
    <2>1. PICK p \in Packets : callback(p)
      BY <1>2
    <2>2. p.type \in {"host", "outgoing"} /\ p.peer \in Peers /\ p.peer.family \in {"ip", "ip6"}
          /\ p.options \in Seq(Byte)
      BY <1>1, <2>1, PacketFacts, PacketOptions, PacketsAssumption
    <2>3. ctx.repeat \in 1..10 /\ ctx.repeat \in Nat
      <3>1. Sane(ctx)
        BY <1>1, <1>2, ServingIs DEF DaemonInv
      <3> QED BY <3>1 DEF Sane
    <2>4. Does(p)
      BY <2>1, <2>2, <2>3, CallbackDoes DEF DaemonInv, Bound
    <2>5. UNCHANGED <<sc, status, ctx>> /\ out'.pkt = p
          /\ out'.options = IF Worked(p) THEN remove_tfo_cookie(p.options) ELSE p.options
      BY <2>1, <2>4 DEF callback, fixed, Does
    <2>6. /\ IF out'.verdict = "ACCEPT" THEN Copies(out'.sent) = {} ELSE Copies(out'.sent) = {Len(out'.sent)}
          /\ \A k \in Copies(out'.sent) : out'.sent[k] = Original(p) /\ p.type = "outgoing"
      BY <2>3, <2>4, CopiesAre
    <2>7. ASSUME NEW k \in Copies(out'.sent), ~out'.sent[k].snat, NEW m \in DOMAIN heard', NewestOf(p.peer, m)'
          PROVE  out'.sent[k].hw = heard'[m].hw
      <3>1. UNCHANGED table
        BY <2>1, <2>6, CallbackTable
      <3>2. heard' = heard
        BY <3>1 DEF table
      <3>3. NewestOf(p.peer, m)
        BY <2>7, <3>2 DEF NewestOf
      <3>4. Original(p).hw = heard[m].hw
        BY <1>1, <2>2, <2>6, <2>7, <3>2, <3>3, GoesWhereHeard
      <3> QED BY <2>6, <3>2, <3>4
    <2>8. Worked(p)' <=> Worked(p)
      BY <2>5 DEF Worked, Parses, Scene
    <2> DEFINE r == out'.options
               worked == Worked(p)
    <2>9. worked \in BOOLEAN
      BY DEF Worked
    <2>10. /\ Len(r) = Len(p.options)
           /\ IF worked
              THEN Options(r) = At(Options(p.options),
                                   {k \in DOMAIN Options(p.options) : Options(p.options)[k][1] # Cookie})
              ELSE r = p.options
      <3>1. r = IF worked THEN remove_tfo_cookie(p.options) ELSE p.options
        BY <2>5
      <3> HIDE DEF r, worked
      <3> QED BY <2>2, <2>9, <3>1, FoundInIt
    <2>11. Copies(out'.sent) = {k \in DOMAIN out'.sent : out'.sent[k].pkt.what = "original"}
      BY DEF Copies
    <2> QED BY <2>5, <2>6, <2>7, <2>8, <2>10, <2>11 DEF DeliveredOnce
  <1>3. CASE \E peer \in Scene.peers : Reroute(peer)
    <2>1. UNCHANGED <<sc, ctx, out, heard>>
      BY <1>3 DEF Reroute, fixed, daemon, table
    <2> QED BY <2>1 DEF DeliveredOnce, NewestOf, Worked, Parses, Scene
  <1>4. CASE UNCHANGED vars
    <2>1. UNCHANGED <<sc, ctx, out, heard>>
      BY <1>4 DEF vars, fixed, daemon, table
    <2> QED BY <2>1 DEF DeliveredOnce, NewestOf, Worked, Parses, Scene
  <1> QED BY <1>2, <1>3, <1>4 DEF Next

\* Every packet goes on exactly once, however many sends fail and whatever bytes its
\* options are: by its verdict, or by the daemon after its decoys, then to the neighbour
\* from which the peer was heard; a SYN of the directions worked on has lost the cookie,
\* and a receiver finds all its other options, in their order.
THEOREM DeliversOnce == Spec => []DeliveredOnce
  BY InitDaemon, DaemonStep, InitDelivered, DeliveredStep, PTL DEF Spec

---------------------------------------------------------------------------
(* Decoys as configured *)

LEMMA Remainder ==
    ASSUME NEW n \in Nat \ {0}, NEW q \in Int, NEW r \in 0..n - 1
    PROVE  (n * q + r) % n = r
  OBVIOUS

\* The payloads are taken from the last to the first, turn by turn.
Rotates == status = "serving" =>
    \E q \in Nat : draws = Len(ctx.plinfo) * q + (Len(ctx.plinfo) - current_node)

LEMMA InitRotates == Init => Rotates
  <1> SUFFICES ASSUME Init, status = "serving"
               PROVE  \E q \in Nat : draws = Len(ctx.plinfo) * q + (Len(ctx.plinfo) - current_node)
    BY DEF Rotates
  <1> DEFINE n == Len(ctx.plinfo)
  <1>1. World /\ Begun
    BY InitDaemon DEF DaemonInv, TableInv
  <1>2. n \in Nat \ {0} /\ ring = Backwards(n)
    BY <1>1, ServingIs
  <1> HIDE DEF n
  <1>3. Backwards(n) # <<>> /\ Backwards(n)[1] = n
    BY <1>2 DEF Backwards
  <1>4. draws = 0 /\ current_node = n
    BY <1>2, <1>3 DEF Init, First
  <1>5. 0 = n * 0 + (n - n)
    BY <1>2
  <1>6. \E q \in Nat : draws = n * q + (n - current_node)
    BY <1>4, <1>5
  <1> QED BY <1>6 DEF n

LEMMA RotatesStep == DaemonInv /\ Rotates /\ [Next]_vars => Rotates'
  <1> SUFFICES ASSUME DaemonInv, Rotates, [Next]_vars, status' = "serving"
               PROVE  \E q \in Nat : draws' = Len(ctx'.plinfo) * q + (Len(ctx'.plinfo) - current_node')
    BY DEF Rotates
  <1> DEFINE n == Len(ctx.plinfo)
  <1>1. UNCHANGED <<status, ctx>>
    BY DEF Next, callback, Reroute, vars, fixed
  <1>2. n \in Nat \ {0} /\ ring = Backwards(n) /\ current_node \in 1..n
    BY <1>1, ServingIs DEF DaemonInv, TableInv, Linked
  <1>3. UNCHANGED <<current_node, draws>> \/ th_payload_get
    <2>1. CASE \E p \in Packets : callback(p)
      BY <1>1, <2>1, PacketDoes DEF Does, Silent, Answered
    <2>2. CASE \E peer \in Scene.peers : Reroute(peer)
      BY <2>2 DEF Reroute, daemon
    <2>3. CASE UNCHANGED vars
      BY <2>3 DEF vars, daemon
    <2> QED BY <2>1, <2>2, <2>3 DEF Next
  <1>4. PICK q \in Nat : draws = n * q + (n - current_node)
    BY <1>1 DEF Rotates
  <1>5. n' = n
    BY <1>1
  <1> HIDE DEF n
  <1>6. \E k \in Nat : draws' = n * k + (n - current_node')
    <2>1. CASE UNCHANGED <<current_node, draws>>
      BY <1>4, <2>1
    <2>2. CASE th_payload_get
      <3>1. draws' = draws + 1 /\ current_node' = IF current_node = 1 THEN n ELSE current_node - 1
        BY <1>2, <2>2 DEF th_payload_get, Backwards
      <3>2. n * q \in Int /\ n * (q + 1) = n * q + n /\ q + 1 \in Nat
        BY <1>2
      <3>3. CASE current_node = 1
        <4>1. draws' = n * (q + 1) + (n - current_node')
          BY <1>2, <1>4, <3>1, <3>2, <3>3
        <4> QED BY <3>2, <4>1
      <3>4. CASE current_node # 1
        <4>1. draws' = n * q + (n - current_node')
          BY <1>2, <1>4, <3>1, <3>2, <3>4
        <4> QED BY <4>1
      <3> QED BY <3>3, <3>4
    <2> QED BY <1>3, <2>1, <2>2
  <1> QED BY <1>5, <1>6 DEF n

LEMMA PacketFields ==
    ASSUME World, NEW p \in Packets
    PROVE  p.seq = SEQ - 1 /\ p.ack = 7 /\ p.sport \in Nat /\ p.dport \in Nat
  <1>1. PICK type \in {"host", "outgoing"}, peer \in Scene.peers, kind \in Scene.kinds,
             ifindex \in Scene.ifaces, options \in Scene.options, ports \in Scene.ports,
             fault \in Scene.faults \cup {"none"} :
          p = Packet(type, peer, kind, ifindex, options, ports, fault)
    BY DEF Packets
  <1>2. p.seq = SEQ - 1 /\ p.ack = 7 /\ p.sport = ports[1] /\ p.dport = ports[2]
    BY <1>1 DEF Packet
  <1>3. Scene.ports \subseteq Nat \X Nat
    BY PacketsAssumption DEF World, Scene
  <1>4. ports[1] \in Nat /\ ports[2] \in Nat
    BY <1>3
  <1> QED BY <1>2, <1>4

\* A port map holds the ports of its ranges.
LEMMA MapHolds ==
    ASSUME NEW spec \in Seq(Nat \X Nat), NEW port \in Nat
    PROVE  portmap_get(portmap_parse({}, spec), port) <=> InRanges(spec, port)
  <1>1. \A k \in DOMAIN spec : spec[k][1] \in Nat /\ spec[k][2] \in Nat
    <2>1. \A k \in DOMAIN spec : spec[k] \in Nat \X Nat
      OBVIOUS
    <2> QED BY <2>1
  <1>2. \A k \in DOMAIN spec : port \in spec[k][1]..spec[k][2] <=> spec[k][1] <= port /\ port <= spec[k][2]
    BY <1>1
  <1>3. portmap_get(portmap_parse({}, spec), port) <=> \E k \in DOMAIN spec : port \in spec[k][1]..spec[k][2]
    BY DEF portmap_get, portmap_parse
  <1>4. InRanges(spec, port) <=> \E k \in DOMAIN spec : spec[k][1] <= port /\ port <= spec[k][2]
    BY DEF InRanges
  <1> QED BY <1>2, <1>3, <1>4

LEMMA MapNotEmpty ==
    ASSUME NEW spec \in Seq(Nat \X Nat), spec # <<>>, portmap_valid(spec)
    PROVE  portmap_parse({}, spec) # {}
  <1>1. 1 \in DOMAIN spec
    OBVIOUS
  <1>2. spec[1] \in Nat \X Nat
    BY <1>1
  <1>3. spec[1][1] \in Nat /\ spec[1][2] \in Nat /\ spec[1][1] <= spec[1][2]
    BY <1>1, <1>2 DEF portmap_valid
  <1>4. spec[1][1] \in spec[1][1]..spec[1][2]
    BY <1>3
  <1>5. spec[1][1] \in UNION {spec[k][1]..spec[k][2] : k \in DOMAIN spec}
    BY <1>1, <1>4
  <1> QED BY <1>5 DEF portmap_parse

\* What Meant says of the ports.
PortsMeant(p, u) ==
    /\ u.port_mode = "include" => InRanges(u.ports, p.sport) \/ InRanges(u.ports, p.dport)
    /\ u.port_mode = "exclude" => ~InRanges(u.ports, p.sport) /\ ~InRanges(u.ports, p.dport)

LEMMA SkipsTheRest ==
    ASSUME NEW u, fs_validate_config(u), u.ports \in Seq(Nat \X Nat), Filters(ctx, u),
           NEW p, p.sport \in Nat, p.dport \in Nat
    PROVE  ~Skipped(p) <=> PortsMeant(p, u)
  <1> DEFINE map == portmap_parse({}, u.ports)
  <1>1. /\ portmap_get(map, p.sport) <=> InRanges(u.ports, p.sport)
        /\ portmap_get(map, p.dport) <=> InRanges(u.ports, p.dport)
    BY MapHolds
  <1>2. u.port_mode \in {"include", "exclude"} => map # {}
    BY MapNotEmpty DEF fs_validate_config
  <1>3. /\ ctx.port_white = IF u.port_mode = "include" THEN map ELSE {}
        /\ ctx.port_black = IF u.port_mode = "exclude" THEN map ELSE {}
    BY DEF Filters
  <1> HIDE DEF map
  <1>4. CASE u.port_mode = "include"
    BY <1>1, <1>2, <1>3, <1>4 DEF Skipped, PortsMeant
  <1>5. CASE u.port_mode = "exclude"
    BY <1>1, <1>2, <1>3, <1>5 DEF Skipped, PortsMeant
  <1>6. CASE u.port_mode \notin {"include", "exclude"}
    BY <1>3, <1>6 DEF Skipped, PortsMeant
  <1> QED BY <1>4, <1>5, <1>6

\* What Meant says of the family.
FamilyMeant(p, u) ==
    IF u.interface_mode = "auto" THEN IF p.peer.family = "ip" THEN u.wan4 ELSE u.wan6
    ELSE u.family \in {"dual", IF p.peer.family = "ip" THEN "ipv4" ELSE "ipv6"}

LEMMA ParsesWhatIsMeant ==
    ASSUME NEW u, AsAsked(ctx, u), NEW p, Parses(p)
    PROVE  FamilyMeant(p, u) /\ p.peer.family \in {"ip", "ip6"}
  <1>1. CASE ctx.use_ipv4 /\ p.peer.family = "ip"
    <2>1. OnFour(u)
      BY <1>1 DEF AsAsked
    <2> QED BY <1>1, <2>1 DEF OnFour, FamilyMeant
  <1>2. CASE ctx.use_ipv6 /\ p.peer.family = "ip6"
    <2>1. OnSix(u)
      BY <1>2 DEF AsAsked
    <2> QED BY <1>2, <2>1 DEF OnSix, FamilyMeant
  <1> QED BY <1>1, <1>2 DEF Parses

\* A daemon that a section has started.
Configured == World /\ Begun /\ Scene.byUci /\ Valid(Scene)

LEMMA ConfiguredIs ==
    ASSUME Configured
    PROVE  /\ ctx.ok /\ AsAsked(ctx, Scene.uci) /\ ValidTuning(Scene.uci)
           /\ Scene.prog = "fakehttp" => HttpContext(ctx, Scene.uci) /\ fh_validate_config(Scene.uci)
           /\ Scene.prog = "fakesip" => /\ SipContext(ctx, Scene.uci) /\ fs_validate_config(Scene.uci)
                                        /\ Scene.uci.ports \in Seq(Nat \X Nat)
           /\ Scene.prog \in {"fakehttp", "fakesip"}
  <1>1. Scene.prog \in {"fakehttp", "fakesip"} /\ (Scene.prog = "fakesip" => Scene.uci.ports \in Seq(Nat \X Nat))
    BY PacketsAssumption DEF Configured, World, Scene
  <1>2. /\ Scene.prog = "fakehttp" => HttpContext(ctx, Scene.uci) /\ fh_validate_config(Scene.uci)
        /\ Scene.prog = "fakesip" => SipContext(ctx, Scene.uci) /\ fs_validate_config(Scene.uci)
        /\ ctx.ok
    BY StartContext DEF Configured
  <1> QED BY <1>1, <1>2 DEF HttpContext, SipContext, fh_validate_config, fs_validate_config

\* The way a packet goes, in the words of the program.
Way(p) == IF p.type = "host" THEN ctx.outbound ELSE ctx.inbound

LEMMA WayIsMeant ==
    ASSUME Configured, NEW p
    PROVE  Way(p) <=> Scene.uci.direction \in {Side(p), "both"}
  <1>1. Scene.uci.direction \in {"inbound", "outbound", "both"}
    BY ConfiguredIs DEF ValidTuning
  <1>2. CASE Scene.prog = "fakehttp"
    <2>1. Directed(ctx, Scene.uci.direction \in {"inbound", "both"}, Scene.uci.direction \in {"outbound", "both"})
      BY <1>2, ConfiguredIs DEF HttpContext
    <2> QED BY <1>1, <1>2, <2>1 DEF Directed, Side, Way
  <1>3. CASE Scene.prog = "fakesip"
    <2>1. Directed(ctx, Scene.uci.direction \in {"outbound", "both"}, Scene.uci.direction \in {"inbound", "both"})
      BY <1>3, ConfiguredIs DEF SipContext
    <2> QED BY <1>1, <1>3, <2>1 DEF Directed, Side, Way
  <1> QED BY <1>2, <1>3, ConfiguredIs

\* The kind of packet that is answered.
Answerable(p) == IF Scene.prog = "fakehttp" THEN p.kind = "synack" ELSE ~Skipped(p)

LEMMA MeantIs ==
    ASSUME Configured, NEW p \in Packets, Parses(p)
    PROVE  Meant(p) <=> Way(p) /\ Answerable(p)
  <1> DEFINE u == Scene.uci
  <1>1. Way(p) <=> u.direction \in {Side(p), "both"}
    BY WayIsMeant
  <1>2. FamilyMeant(p, u)
    BY ConfiguredIs, ParsesWhatIsMeant
  <1>3. Meant(p) <=> /\ u.direction \in {Side(p), "both"} /\ FamilyMeant(p, u)
                     /\ IF Scene.prog = "fakehttp" THEN p.kind = "synack" ELSE PortsMeant(p, u)
    BY DEF Meant, FamilyMeant, PortsMeant
  <1>4. ASSUME Scene.prog # "fakehttp"
        PROVE  ~Skipped(p) <=> PortsMeant(p, u)
    <2>1. fs_validate_config(u) /\ u.ports \in Seq(Nat \X Nat) /\ Filters(ctx, u)
      BY <1>4, ConfiguredIs DEF SipContext
    <2>2. p.sport \in Nat /\ p.dport \in Nat
      BY PacketFields DEF Configured
    <2> HIDE DEF u
    <2> QED BY <2>1, <2>2, SkipsTheRest
  <1> HIDE DEF u
  <1> QED BY <1>1, <1>2, <1>3, <1>4 DEF Answerable

\* A peer beyond the section's TTL is not local.
LEMMA BeyondIsFar ==
    ASSUME Configured, TableInv, NEW p \in Packets, Beyond(p)
    PROVE  ~Local(From(p)) /\ (Scene.prog = "fakesip" \/ p.type = "host" \/ srcinfo_available(p.peer))
  <1>1. /\ ctx.ttl = Scene.uci.ttl /\ ctx.nohopest = (IF Scene.uci.hop_estimation THEN FALSE ELSE TRUE)
        /\ Scene.uci.ttl \in 1..255
    BY ConfiguredIs DEF AsAsked, TunedBy, ValidTuning
  <1>t. ctx.ttl = Scene.uci.ttl /\ ctx.ttl \in Int
    BY <1>1
  <1>2. /\ p.type \in {"host", "outgoing"} /\ p.peer \in Peers /\ dist[p.peer] \in 1..63
        /\ p.type = "host" => p.ttl = Initial[p.peer] - dist[p.peer]
    BY PacketFacts DEF TableInv
  <1>g. \A d, t \in Int : d > t => ~(d <= t)
    OBVIOUS
  <1>3. CASE ~Scene.uci.hop_estimation /\ (Scene.prog = "fakesip" \/ p.type = "host" \/ srcinfo_available(p.peer))
    <2>1. ctx.nohopest
      BY <1>1, <1>3
    <2> QED BY <1>3, <2>1 DEF Local
  <1>4. CASE p.type = "host" /\ Initial[p.peer] - p.ttl > Scene.uci.ttl
    <2>1. From(p) = p.ttl
      BY <1>4 DEF From
    <2>2. hop_estimate(p.ttl) = dist[p.peer]
      BY <1>2, <1>4, HopsAreExact, InitialTtls
    <2>3. Initial[p.peer] - p.ttl = dist[p.peer]
      BY <1>2, <1>4, InitialTtls
    <2>4. ~(dist[p.peer] <= ctx.ttl)
      <3>1. dist[p.peer] > ctx.ttl
        BY <1>t, <1>4, <2>3
      <3>2. dist[p.peer] \in Int
        BY <1>2
      <3> QED BY <1>t, <1>g, <3>1, <3>2
    <2>5. ~(hop_estimate(From(p)) <= ctx.ttl)
      BY ONLY <2>1, <2>2, <2>4
    <2> QED BY <1>4, <2>5 DEF Local
  <1>5. CASE p.type = "outgoing" /\ \E m \in DOMAIN heard : NewestOf(p.peer, m) /\ heard[m].dist > Scene.uci.ttl
    <2>1. PICK m \in DOMAIN heard : NewestOf(p.peer, m) /\ heard[m].dist > Scene.uci.ttl
      BY <1>5
    <2>2. srcinfo_available(p.peer) /\ srcinfo_get(p.peer) = heard[m]
      BY <1>2, <2>1, RingLooksUp DEF TableInv, LookupNewest
    <2>3. From(p) = heard[m].ttl
      BY <1>5, <2>2 DEF From
    <2>4. heard[m] \in Info /\ heard[m].ttl = Initial[heard[m].addr] - heard[m].dist
      BY DEF TableInv, RingHolds
    <2>5. heard[m].dist \in 1..63 /\ heard[m].addr \in Peers
      BY <2>4 DEF Info
    <2>6. hop_estimate(heard[m].ttl) = heard[m].dist
      BY <2>4, <2>5, HopsAreExact, InitialTtls
    <2>7. ~(heard[m].dist <= ctx.ttl)
      <3>1. heard[m].dist > ctx.ttl
        BY <1>t, <2>1
      <3>2. heard[m].dist \in Int
        BY <2>5
      <3> QED BY <1>t, <1>g, <3>1, <3>2
    <2>8. ~(hop_estimate(From(p)) <= ctx.ttl)
      BY ONLY <2>3, <2>6, <2>7
    <2> QED BY <2>2, <2>8 DEF Local
  <1> QED BY <1>3, <1>4, <1>5 DEF Beyond

\* Decoys for whom the section means and, beyond its TTL, for all of them.
LEMMA AnswersAsMeant ==
    ASSUME Configured, TableInv, NEW p \in Packets
    PROVE  /\ Wanted(p) => Meant(p)
           /\ p.ifindex # 0 /\ Parses(p) /\ Meant(p) /\ Beyond(p) => Wanted(p)
  <1>1. Parses(p) => (Meant(p) <=> Way(p) /\ Answerable(p))
    BY MeantIs
  <1>2. Beyond(p) => ~Local(From(p)) /\ (Scene.prog = "fakesip" \/ p.type = "host" \/ srcinfo_available(p.peer))
    BY BeyondIsFar
  <1>3. "fakehttp" # "fakesip"
    OBVIOUS
  <1> QED BY <1>1, <1>2, <1>3 DEF Wanted, Way, Answerable

\* What is asked of each decoy of a packet.
AsConfigured(p, s) ==
    LET decoy == s.pkt IN
    /\ decoy.peer = p.peer /\ s.ifindex = p.ifindex /\ s.mark = Scene.uci.fwmark
    /\ decoy.ttl >= Scene.uci.ttl /\ decoy.len <= 1280
    /\ Scene.prog = "fakehttp" =>
          <<decoy.seq, decoy.ack>> = IF p.type = "host" THEN <<7, 0>> ELSE <<0, 7>>
    /\ IF Scene.prog = "fakesip" THEN Scene.uci.payload_mode = "custom_uri" => decoy.payload.info = Scene.uci.sip_uri
       ELSE decoy.payload.info = Rows(Scene.uci)[(draws % Len(Rows(Scene.uci))) + 1].info

\* A TTL is never lowered.
LEMMA TtlReaches ==
    ASSUME ctx.ttl \in Nat, ctx.dynamic_pct \in Int, NEW ttl \in Int
    PROVE  SndTtl(ttl) >= ctx.ttl
  <1> DEFINE hops == hop_estimate(ttl)
             part == (hops * ctx.dynamic_pct) \div 100
  <1>1. hops \in Int
    BY DEF hop_estimate
  <1>2. part \in Int
    BY <1>1
  <1> HIDE DEF part
  <1>3. (IF ctx.dynamic_pct # 0 /\ part > ctx.ttl THEN part ELSE ctx.ttl) >= ctx.ttl
    BY <1>2
  <1>4. calc_snd_ttl(hops) = IF ctx.dynamic_pct # 0 /\ part > ctx.ttl THEN part ELSE ctx.ttl
    BY DEF calc_snd_ttl, part
  <1> HIDE DEF hops
  <1>5. SndTtl(ttl) = ctx.ttl \/ SndTtl(ttl) = calc_snd_ttl(hops)
    BY DEF SndTtl, hops
  <1> QED BY <1>3, <1>4, <1>5

LEMMA FromIsTtl ==
    ASSUME TableInv, NEW p \in Packets
    PROVE  From(p) \in Int
  <1>1. /\ p.type \in {"host", "outgoing"} /\ p.peer \in Peers /\ dist[p.peer] \in 1..63
        /\ p.type = "host" => p.ttl = Initial[p.peer] - dist[p.peer]
    BY PacketFacts DEF TableInv
  <1>2. CASE p.type = "host"
    BY <1>1, <1>2, InitialTtls DEF From
  <1>3. CASE p.type # "host" /\ srcinfo_available(p.peer)
    <2>1. PICK k \in DOMAIN heard : NewestOf(p.peer, k)
      BY <1>1, <1>3, RingLooksUp DEF TableInv, LookupNewest
    <2>2. srcinfo_get(p.peer) = heard[k]
      BY <1>1, <2>1, RingLooksUp DEF TableInv, LookupNewest
    <2>3. heard[k] \in Info
      BY <2>1 DEF TableInv, RingHolds
    <2> QED BY <1>3, <2>2, <2>3 DEF From, Info
  <1>4. CASE p.type # "host" /\ ~srcinfo_available(p.peer)
    BY <1>4 DEF From
  <1> QED BY <1>2, <1>3, <1>4

\* The payload of a valid row takes a buffer at most.
LEMMA RowFits ==
    ASSUME NEW row, ValidRow(row)
    PROVE  PayloadLen(Shown(row)) \in 0..1200 /\ Shown(row).info = row.info
  <1> DEFINE p == Shown(row)
  <1>1. /\ row.type \in {"http", "https", "binary"}
        /\ row.info.len \in IF row.type = "binary" THEN 1..1200 ELSE 1..253
    BY DEF ValidRow, RowOption
  <1>2. p.info = row.info /\ p.type = IF row.type = "binary" THEN "custom" ELSE row.type
    BY DEF Shown
  <1> HIDE DEF p
  <1>3. CASE row.type = "binary"
    <2>1. p.type = "custom"
      BY <1>2, <1>3
    <2>2. PayloadLen(p) = row.info.len
      BY <1>2, <2>1 DEF PayloadLen
    <2> QED BY <1>1, <1>2, <1>3, <2>2 DEF p
  <1>4. CASE row.type = "http"
    <2>1. p.type = "http"
      BY <1>2, <1>4
    <2>2. PayloadLen(p) = HttpFixed + row.info.len
      BY <1>2, <2>1 DEF PayloadLen
    <2> QED BY <1>1, <1>2, <1>4, <2>2 DEF p, HttpFixed
  <1>5. CASE row.type = "https"
    <2>1. p.type = "https"
      BY <1>2, <1>5
    <2>2. PayloadLen(p) = 390
      BY <2>1 DEF PayloadLen
    <2> QED BY <1>2, <2>2 DEF p
  <1> QED BY <1>1, <1>3, <1>4, <1>5

\* The payload that is taken next.
LEMMA PayloadIs ==
    ASSUME Configured, status = "serving", draws \in Nat, current_node \in 1..Len(ctx.plinfo), Rotates
    PROVE  /\ PayloadLen(Payload) \in 0..1200
           /\ Scene.prog = "fakehttp" =>
                 Payload.info = Rows(Scene.uci)[(draws % Len(Rows(Scene.uci))) + 1].info
           /\ Scene.prog = "fakesip" /\ Scene.uci.payload_mode = "custom_uri" => Payload.info = Scene.uci.sip_uri
  <1>1. CASE Scene.prog = "fakehttp"
    <2> DEFINE rows == Rows(Scene.uci)
               n == Len(rows)
    <2>1. HttpContext(ctx, Scene.uci) /\ fh_validate_config(Scene.uci)
      BY <1>1, ConfiguredIs
    <2>2. /\ n \in Nat \ {0} /\ Len(ctx.plinfo) = n
          /\ \A j \in 1..n : ctx.plinfo[j] = Shown(rows[n + 1 - j])
      BY <2>1 DEF HttpContext
    <2>3. PICK q \in Nat : draws = n * q + (n - current_node)
      BY <2>2 DEF Rotates
    <2>4. n - current_node \in 0..n - 1 /\ current_node \in 1..n /\ n + 1 - current_node = (n - current_node) + 1
      BY <2>2
    <2>5. DOMAIN rows = 1..n
      <3>1. Scene.prog = "fakehttp" /\ Listed(Scene.uci.rows)
        BY <1>1, PacketsAssumption DEF Configured, World, Scene
      <3> QED BY <3>1, AtListed, ListedIs DEF Rows
    <2>v. \A k \in DOMAIN rows : ValidRow(rows[k])
      BY <2>1 DEF fh_validate_config
    <2> HIDE DEF n, rows
    <2>6. draws % n = n - current_node
      <3> DEFINE r == n - current_node
      <3>1. draws = n * q + r /\ r \in 0..n - 1 /\ q \in Int
        BY <2>3, <2>4
      <3> HIDE DEF r
      <3>2. (n * q + r) % n = r
        BY <2>2, <3>1, Remainder
      <3> QED BY <3>1, <3>2 DEF r
    <2>7. Payload = Shown(rows[(draws % n) + 1])
      BY <2>2, <2>4, <2>6 DEF Payload
    <2>8. (draws % n) + 1 \in DOMAIN rows
      BY <2>2, <2>4, <2>5, <2>6
    <2>9. ValidRow(rows[(draws % n) + 1])
      BY <2>8, <2>v
    <2>10. PayloadLen(Payload) \in 0..1200 /\ Payload.info = rows[(draws % n) + 1].info
      <3> DEFINE row == rows[(draws % n) + 1]
      <3>1. ValidRow(row) /\ Payload = Shown(row)
        BY <2>7, <2>9
      <3> HIDE DEF row
      <3>2. PayloadLen(Payload) \in 0..1200 /\ Payload.info = row.info
        BY ONLY <3>1, RowFits
      <3> QED BY <3>2 DEF row
    <2> QED BY <1>1, <2>10 DEF n, rows
  <1>2. CASE Scene.prog = "fakesip"
    <2> DEFINE info == IF Scene.uci.payload_mode = "custom_uri" THEN Scene.uci.sip_uri ELSE [id |-> "random", len |-> 22]
               p == [type |-> "sip", info |-> info]
    <2>1. ctx.plinfo = <<p>> /\ fs_validate_config(Scene.uci)
      BY <1>2, ConfiguredIs DEF SipContext
    <2>2. info.len \in 5..255
      <3>1. CASE Scene.uci.payload_mode = "custom_uri"
        BY <2>1, <3>1 DEF fs_validate_config
      <3>2. CASE Scene.uci.payload_mode # "custom_uri"
        BY <3>2
      <3> QED BY <3>1, <3>2
    <2>3. Scene.uci.payload_mode = "custom_uri" => info = Scene.uci.sip_uri
      OBVIOUS
    <2>4. p.type = "sip" /\ p.info = info
      OBVIOUS
    <2> HIDE DEF info, p
    <2>5. current_node = 1 /\ Payload = p
      <3>1. Len(ctx.plinfo) = 1 /\ ctx.plinfo[1] = p
        BY <2>1
      <3>2. current_node = 1
        BY <3>1
      <3> QED BY <3>1, <3>2 DEF Payload
    <2>6. PayloadLen(p) = SipFixed + 3 * p.info.len - 4
      BY <2>4 DEF PayloadLen
    <2>7. PayloadLen(p) \in 0..1200
      <3>1. SipFixed + 3 * info.len - 4 \in 0..1200
        <4> DEFINE length == info.len
        <4>1. length \in 5..255
          BY <2>2
        <4> HIDE DEF length
        <4>2. 418 + 3 * length - 4 \in 0..1200
          BY <4>1
        <4> QED BY <4>2 DEF length, SipFixed
      <3> QED BY <2>4, <2>6, <3>1
    <2> QED BY <1>2, <2>3, <2>4, <2>5, <2>7
  <1> QED BY <1>1, <1>2, ConfiguredIs

LEMMA DecoyAsConfigured ==
    ASSUME Configured, TableInv, status = "serving", draws \in Nat, current_node \in 1..Len(ctx.plinfo), Rotates,
           NEW p \in Packets, NEW s, IsDecoy(p, s)
    PROVE  AsConfigured(p, s)
  <1>1. p.seq = 255 /\ p.ack = 7
    BY PacketFields DEF Configured, SEQ
  <1>2. (p.seq + 1) % SEQ = 0
    BY <1>1 DEF SEQ
  <1>3. s.ifindex = p.ifindex /\ s.mark = Scene.uci.fwmark
    BY ConfiguredIs DEF IsDecoy, AsAsked, TunedBy
  <1>4. s.pkt.ttl >= Scene.uci.ttl
    <2>0. ctx.ttl = Scene.uci.ttl /\ ctx.dynamic_pct = Scene.uci.dynamic_ttl_pct
      BY ConfiguredIs DEF AsAsked, TunedBy
    <2>a. Scene.uci.ttl \in 1..255 /\ Scene.uci.dynamic_ttl_pct \in 0..99
      BY ConfiguredIs DEF ValidTuning
    <2>1. ctx.ttl \in Nat /\ ctx.dynamic_pct \in Int /\ ctx.ttl = Scene.uci.ttl
      BY ONLY <2>0, <2>a
    <2>2. s.pkt.ttl = SndTtl(From(p))
      BY DecoyTtl
    <2>3. SndTtl(From(p)) >= ctx.ttl
      BY <2>1, FromIsTtl, TtlReaches
    <2> QED BY <2>1, <2>2, <2>3
  <1>p. PayloadLen(Payload) \in 0..1200
    BY PayloadIs
  <1>5. /\ s.pkt.peer = p.peer /\ s.pkt.payload = Payload
        /\ \E head \in {28, 40, 48, 60} : s.pkt.len = head + PayloadLen(Payload)
    <2> DEFINE len == PayloadLen(Payload)
    <2>1. len \in Int
      BY ONLY <1>p
    <2> HIDE DEF len
    <2>2. 20 + 20 + len = 40 + len /\ 40 + 20 + len = 60 + len /\ 20 + 8 + len = 28 + len /\ 40 + 8 + len = 48 + len
      BY <2>1
    <2> QED BY <2>2 DEF IsDecoy, FhDecoy, FsDecoy, fh_pkt4_make, fh_pkt6_make, fs_pkt4_make, fs_pkt6_make, len
  <1>6. s.pkt.len <= 1280
    BY ONLY <1>p, <1>5
  <1>7. ASSUME Scene.prog = "fakehttp"
        PROVE  <<s.pkt.seq, s.pkt.ack>> = IF p.type = "host" THEN <<7, 0>> ELSE <<0, 7>>
    BY <1>1, <1>2, <1>7 DEF IsDecoy, FhDecoy, fh_pkt4_make, fh_pkt6_make
  <1>8. Scene.prog \in {"fakehttp", "fakesip"}
    BY ConfiguredIs
  <1> QED BY <1>3, <1>4, <1>5, <1>6, <1>7, <1>8, PayloadIs DEF AsConfigured

\* Unless a send fails, all the copies of the decoy go out.
LEMMA AllSent ==
    ASSUME ctx.repeat \in 1..10, fails \in Nat, NEW p, Does(p), Wanted(p), fails' = 0
    PROVE  Cardinality(Decoys') = ctx.repeat
  <1> DEFINE n == ctx.repeat
  <1>1. PICK s : IsDecoy(p, s) /\ (Accepted(p, s) \/ Replaced(p, s))
    BY DEF Does, Silent, Answered
  <1>2. s.pkt.what = "decoy"
    BY <1>1, DecoyIsDecoy
  <1> DEFINE t == Times(n, s)
  <1>3. t \in Seq({s}) /\ Len(t) = n /\ \A k \in 1..n : t[k] = s
    BY DEF Times
  <1>4. out'.sent = t \/ out'.sent = Append(t, Original(p))
    <2>1. ~(fails' = fails + 1)
      OBVIOUS
    <2> QED BY <1>1, <2>1 DEF Accepted, Replaced
  <1>5. Original(p).pkt.what = "original"
    BY DEF Original, FhSend, ByRaw, ByLink
  <1>6. Decoys' = {k \in DOMAIN out'.sent : out'.sent[k].pkt.what = "decoy"}
    BY DEF Decoys
  <1>n. n \in Nat /\ n \in Int /\ 1 \in Int /\ n >= 1
    OBVIOUS
  <1> HIDE DEF t, n
  <1>7. Decoys' = 1..n
    <2>1. CASE out'.sent = t
      <3>1. DOMAIN t = 1..n
        BY <1>3
      <3> QED BY <1>2, <1>3, <1>6, <2>1, <3>1
    <2>2. CASE out'.sent = Append(t, Original(p))
      <3> DEFINE last == Original(p)
                 a == Append(t, last)
      <3>0. last.pkt.what # "decoy"
        BY <1>5
      <3> HIDE DEF last
      <3>1. DOMAIN a = 1..n + 1 /\ a[n + 1] = last /\ \A k \in 1..n : a[k] = s
        BY <1>3, <1>n
      <3>2. Decoys' = {k \in DOMAIN a : a[k].pkt.what = "decoy"}
        BY <1>6, <2>2 DEF last
      <3> HIDE DEF a
      <3>3. \A k \in 1..n + 1 : a[k].pkt.what = "decoy" <=> k \in 1..n
        <4>1. \A k \in 1..n + 1 : k \in 1..n \/ k = n + 1
          BY <1>n
        <4>2. n + 1 \notin 1..n
          BY <1>n
        <4> QED BY <1>2, <3>0, <3>1, <4>1, <4>2
      <3>4. 1..n \subseteq 1..n + 1
        BY <1>n
      <3> QED BY <3>1, <3>2, <3>3, <3>4
    <2> QED BY <1>4, <2>1, <2>2
  <1>8. Cardinality(1..n) = n
    BY <1>n, FS_Interval
  <1> QED BY <1>7, <1>8 DEF n

LEMMA InitAsConfigured == Init => DecoysAsConfigured
  BY DEF Init, DecoysAsConfigured

\* Nothing of what DecoysAsConfigured tells of changes without a packet.
LEMMA RestsAsConfigured ==
    ASSUME DecoysAsConfigured, UNCHANGED <<sc, ctx, srci, srci_end, heard, out, draws, fails>>
    PROVE  DecoysAsConfigured'
  <1>1. /\ Decoys' = Decoys /\ Scene' = Scene
        /\ \A p : /\ Meant(p)' <=> Meant(p)
                  /\ Beyond(p)' <=> Beyond(p)
                  /\ Parses(p)' <=> Parses(p)
    BY DEF Decoys, Scene, Meant, Side, Beyond, Parses, NewestOf, srcinfo_available, FoundAt, Slot
  <1> QED BY <1>1 DEF DecoysAsConfigured

LEMMA PacketAsConfigured ==
    ASSUME DaemonInv, Rotates, status = "serving", NEW p \in Packets, callback(p), Scene.byUci
    PROVE  DecoysAsConfigured'
  <1>1. TableInv /\ Tuned /\ Does(p) /\ Configured
    BY PacketDoes, ServingIs DEF DaemonInv, TableInv, Configured
  <1>2. UNCHANGED <<sc, ctx>> /\ out'.pkt = p
    BY <1>1 DEF callback, fixed, Does
  <1>3. draws \in Nat /\ fails \in Nat /\ current_node \in 1..Len(ctx.plinfo) /\ ctx.repeat \in 1..10
    <2>1. draws \in 0..packets /\ packets \in 0..Scene.max /\ fails \in 0..MaxFails
      BY DEF DaemonInv, Counted
    <2> QED BY <1>1, <2>1 DEF DaemonInv, Linked, Tuned
  <1>4. Wanted(p) => Meant(p)
    BY <1>1, AnswersAsMeant
  <1>5. p.ifindex # 0 /\ Parses(p) /\ Meant(p) /\ Beyond(p) => Wanted(p)
    BY <1>1, AnswersAsMeant
  <1>6. Scene' = Scene /\ (Meant(p)' <=> Meant(p)) /\ (Parses(p)' <=> Parses(p))
    BY <1>2 DEF Scene, Meant, Side, Parses
  <1>7. Beyond(p)' => Beyond(p)
    <2>1. CASE p.type = "host"
      BY <1>6, <2>1 DEF Beyond
    <2>2. CASE p.type # "host"
      <3>1. UNCHANGED table
        BY <2>2, CallbackTable
      <3> QED BY <1>6, <3>1 DEF Beyond, table, NewestOf, srcinfo_available, FoundAt, Slot
    <2> QED BY <2>1, <2>2
  <1>8. ASSUME NEW k \in Decoys'
        PROVE  Wanted(p) /\ IsDecoy(p, out'.sent[k]) /\ AsConfigured(p, out'.sent[k])
    <2>1. Wanted(p) /\ IsDecoy(p, out'.sent[k])
      BY <1>1, <1>3, <1>8, DecoysAreMeant
    <2> QED BY <1>1, <1>3, <2>1, DecoyAsConfigured
  <1>9. Decoys' # {} => Meant(p)
    BY <1>4, <1>8
  <1>10. ASSUME p.ifindex # 0, Parses(p), Meant(p), Beyond(p)', fails' = 0
         PROVE  Cardinality(Decoys') = Scene.uci.repeat
    <2>1. Wanted(p)
      BY <1>5, <1>7, <1>10
    <2>2. Cardinality(Decoys') = ctx.repeat
      BY <1>1, <1>3, <1>10, <2>1, AllSent
    <2>3. ctx.repeat = Scene.uci.repeat
      BY <1>1, ConfiguredIs DEF AsAsked, TunedBy
    <2> QED BY <2>2, <2>3
  <1>11. ASSUME NEW k \in Decoys'
         PROVE  draws' - 1 = draws
    <2>1. Answered(p)
      BY <1>1, <1>8 DEF Does, Silent
    <2> QED BY <1>3, <2>1 DEF Answered, th_payload_get
  <1> QED BY <1>2, <1>6, <1>8, <1>9, <1>10, <1>11 DEF DecoysAsConfigured, AsConfigured

LEMMA StepAsConfigured ==
    DaemonInv /\ Rotates /\ DecoysAsConfigured /\ [Next]_vars => DecoysAsConfigured'
  <1> SUFFICES ASSUME DaemonInv, Rotates, DecoysAsConfigured, [Next]_vars
               PROVE  DecoysAsConfigured'
    OBVIOUS
  <1>1. CASE status = "serving" /\ \E p \in Packets : callback(p)
    <2>1. PICK p \in Packets : callback(p)
      BY <1>1
    <2>2. CASE Scene.byUci
      BY <1>1, <2>1, <2>2, PacketAsConfigured
    <2>3. CASE ~Scene.byUci
      <3>1. sc' = sc
        BY <2>1 DEF callback, fixed
      <3> QED BY <2>3, <3>1 DEF DecoysAsConfigured, Scene
    <2> QED BY <2>2, <2>3
  <1>2. CASE \E peer \in Scene.peers : Reroute(peer)
    <2>1. UNCHANGED <<sc, ctx, srci, srci_end, heard, out, draws, fails>>
      BY <1>2 DEF Reroute, fixed, daemon, table
    <2> QED BY <2>1, RestsAsConfigured
  <1>3. CASE UNCHANGED vars
    <2>1. UNCHANGED <<sc, ctx, srci, srci_end, heard, out, draws, fails>>
      BY <1>3 DEF vars, fixed, daemon, table
    <2> QED BY <2>1, RestsAsConfigured
  <1> QED BY <1>1, <1>2, <1>3 DEF Next

\* What a valid section asks for is what goes out, for every section, of any number of
\* rows, interfaces and port ranges: decoys for the packets of its directions, families
\* and ports and for no others, as many as it says, with its mark and at least its TTL,
\* in the place of the next data, and their payloads its rows, in their order.
THEOREM SendsWhatIsConfigured == Spec => []DecoysAsConfigured
  <1>1. Init => DaemonInv /\ Rotates /\ DecoysAsConfigured
    BY InitDaemon, InitRotates, InitAsConfigured
  <1>2. DaemonInv /\ Rotates /\ DecoysAsConfigured /\ [Next]_vars => DaemonInv' /\ Rotates' /\ DecoysAsConfigured'
    BY DaemonStep, RotatesStep, StepAsConfigured
  <1> QED BY <1>1, <1>2, PTL DEF Spec

====
