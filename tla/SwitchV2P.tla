----------------------------- MODULE SwitchV2P -----------------------------
(***************************************************************************)
(* The in-network translation cache: senders that know only virtual        *)
(* addresses, gateways that hold the directory, switches that learn        *)
(* translations from the packets they forward and answer in the gateways'  *)
(* place, and the migration of one container while packets are in flight.  *)
(*                                                                         *)
(*   P4SwitchApp    switchv2p/p4-switch-app.cc   one action per branch of  *)
(*                                               ReceivePacket             *)
(*   GatewayApp     switchv2p/gateway-app.cc     GatewayReceive, ...Send   *)
(*   SocketHelper   switchv2p/socket-helper.cc   ClientSend, HostReceive,  *)
(*                                               Misdelivered, HostResend  *)
(*   Migration      switchv2p/trace-sim.cc       Migration                 *)
(*                                                                         *)
(* Packets in flight form a set, so any two may overtake each other:       *)
(* equal-cost routes are picked per packet under RandomRouting, and the    *)
(* delays of gateways and hosts reorder packets on every routing mode.     *)
(* A simulator event is one step.                                          *)
(***************************************************************************)
EXTENDS Topology, P4Cache, Sequences, FiniteSets

CONSTANTS
  VIP,                  \* virtual addresses: container ids
  Placement,            \* [VIP -> Host], the initial placement
  Gateways,             \* m_gws: the sequence of gateway hosts
  PerFlowGateways,      \* m_gatewayPerFlowLoadBalancing
  Flows,                \* <<src, dst>> pairs of virtual addresses
  Slot,                 \* slots of a cache (m_memorySize of them)
  Index,                \* [Switch -> [VIP -> Slot]], P4Cache::GetIndex
  CacheApp,             \* the cache a switch runs, see AppOf
  SourceLearning,       \* m_sourceLearning
  AccessBit,            \* m_accessBit
  BloomFilter,          \* m_bloomFilterEnabled
  GenerateInvalidation, \* m_generateInvalidation
  LearningDraws,        \* outcomes of the draw against m_generateProb
  Migrated,             \* the container that migrates, or None
  NewHost,              \* the host it migrates to
  None,                 \* no tag, no migration
  MaxSends,             \* bound on the packets the clients send
  MaxInFlight,          \* bound on the data packets under way at a time
  Lossy                 \* whether links may drop packets

Gateway == {Gateways[i] : i \in 1 .. Len(Gateways)}

\* A translation: a virtual address and the physical address of a host
Entry == [key : VIP, val : Host]

ASSUME SwitchV2PAssumption ==
  /\ VIP \subseteq Nat /\ IsFiniteSet(VIP)
  /\ Placement \in [VIP -> Host]
  /\ Gateways \in Seq(Host) /\ Gateways # <<>>
  /\ Flows \subseteq {f \in VIP \X VIP : f[1] # f[2]}
  /\ Index \in [Switch -> [VIP -> Slot]]
  /\ CacheApp \in {"SwitchV2P", "LocalLearning", "GwCache"}
  /\ PerFlowGateways \in BOOLEAN
  /\ SourceLearning \in BOOLEAN /\ AccessBit \in BOOLEAN
  /\ BloomFilter \in BOOLEAN /\ GenerateInvalidation \in BOOLEAN
  /\ LearningDraws \in (SUBSET BOOLEAN) \ {{}}
  /\ Migrated \in VIP \cup {None} /\ None \notin VIP
  /\ NewHost \in Host
  /\ MaxSends \in Nat /\ MaxInFlight \in Nat \ {0} /\ Lossy \in BOOLEAN
  /\ NoAddr \notin Host /\ None \notin Switch \cup Entry

\* Servers are never placed on gateway hosts, and the client of the migrating
\* container is not part of a migration experiment: it only receives.
ASSUME ServersAssumption ==
  /\ \A v \in VIP : Placement[v] \notin Gateway
  /\ NewHost \notin Gateway
  /\ \A f \in Flows : f[1] # Migrated

VARIABLES
  cache,      \* m_cache of every switch
  bloom,      \* m_bloomFilter of every switch: the ids put so far
  packets,    \* data packets, each about to be processed at its node "at"
  control,    \* learning and invalidation packets between switches
  gwPending,  \* packets a gateway translated and sends 40us later
  resends,    \* misdelivered packets a host sends again 10us later
  directory,  \* m_virtualToPhysical
  local,      \* the host whose interface carries a virtual address
  sent,       \* packets sent so far
  delivered   \* ids of the packets that reached their container

vars == <<cache, bloom, packets, control, gwPending, resends, directory, local,
          sent, delivered>>

-----------------------------------------------------------------------------
(* Set-up (TraceSimulation::SetupApplications)                             *)

\* Mutant: the spines of a gateway's pod are spines like any other.
TypeWithoutGwSpine(s) ==
  CASE s.kind = "core"  -> "CORE"
    [] s.kind = "leaf"  -> IF \E g \in Gateway : LeafOf(g) = s
                           THEN "GW_LEAF" ELSE "LEAF"
    [] s.kind = "spine" -> "SPINE"

Type(s) ==
  CASE s.kind = "core"  -> "CORE"
    [] s.kind = "leaf"  -> IF \E g \in Gateway : LeafOf(g) = s
                           THEN "GW_LEAF" ELSE "LEAF"
    [] s.kind = "spine" -> IF \E g \in Gateway : g.pod = s.pod
                           THEN "GW_SPINE" ELSE "SPINE"

\* The application on a switch: the full protocol, the purely local cache, or
\* SwitchApp without a cache.
AppOf(s) ==
  CASE CacheApp = "SwitchV2P"     -> "SwitchV2P"
    [] CacheApp = "LocalLearning" -> "LocalLearning"
    [] CacheApp = "GwCache"       -> IF Type(s) = "GW_LEAF"
                                     THEN "LocalLearning" ELSE "NoCache"

-----------------------------------------------------------------------------
(* Packets                                                                 *)

PacketId == 1 .. MaxSends

\* src, dst   outer header, physical addresses
\* isrc, idst inner header, virtual addresses
\* age        hops since a socket sent it, 64 minus the outer TTL, capped:
\*            the code only asks whether TTL < m_defaultTtl - 1
\* origin     SourceTag, the physical address of the sending client
\* hit        HitTag, the switch whose cache rewrote dst
\* evict      EvictionTag, an entry looking for a cache
\* inval      InvalidationTag, the entry that led the packet astray
\* strays     misdeliveries so far, 64 minus the inner TTL
\* spawned    protocol packets generated so far, to number them
MaxAge == 2

Age == 0 .. MaxAge

Packet ==
  [id : PacketId, at : Node, src : Host, dst : Host, age : Age,
   isrc : VIP, idst : VIP, origin : Host,
   hit : Switch \cup {None}, evict : Entry \cup {None}, inval : Entry \cup {None},
   strays : Nat, spawned : Nat]

ControlKind == {"learn", "invalidate"}

ControlPacket ==
  [kind : ControlKind, id : PacketId, seq : Nat, at : Switch, dst : Switch,
   entry : Entry]

InFlight == packets \cup gwPending \cup resends

GatewayBound(p) == p.dst \in Gateway

\* Where a host's socket sends a packet: to its leaf, unless it is its own.
FirstHop(h, d) == IF d = h THEN h ELSE LeafOf(h)

\* The switch passes the packet on: it may take any equal-cost route.
Forwarded(s, p) ==
  {[p EXCEPT !.at = n, !.age = IF @ < MaxAge THEN @ + 1 ELSE @] :
     n \in NextHops(s, p.dst)}

\* Mutant: invalidations are built and not sent.
GeneratedLearning(kind, p, e, s, d) ==
  IF d = s \/ kind = "invalidate" THEN {{}}
  ELSE {{[kind |-> kind, id |-> p.id, seq |-> p.spawned, at |-> n, dst |-> d,
          entry |-> e]} : n \in NextHops(s, d)}

\* GeneratePacketToAddress: a switch does not send to itself.
Generated(kind, p, e, s, d) ==
  IF d = s THEN {{}}
  ELSE {{[kind |-> kind, id |-> p.id, seq |-> p.spawned, at |-> n, dst |-> d,
          entry |-> e]} : n \in NextHops(s, d)}

-----------------------------------------------------------------------------
(* The branches of P4SwitchApp::ReceivePacket                              *)

SlotOf(s, k) == Index[s][k]

Spawn(p) == [p EXCEPT !.spawned = @ + 1]

\* p has been processed at s, leaving cache c, as q.
Forward(s, c, p, q) ==
  /\ cache' = [cache EXCEPT ![s] = c]
  /\ \E r \in Forwarded(s, q) : packets' = (packets \ {p}) \cup {r}
  /\ UNCHANGED <<gwPending, resends, directory, local, sent, delivered>>

\* Lines 576-589: a packet bound for a gateway is redirected on a hit.
Lookup(s, c, p) ==
  IF GatewayBound(p) THEN Get(c, SlotOf(s, p.idst), p.idst) ELSE c

LookedUp(s, c, p) ==
  LET i == SlotOf(s, p.idst)
  IN  IF GatewayBound(p) /\ Find(c, i, p.idst)
      THEN [p EXCEPT !.hit = s, !.dst = Value(c, i)]
      ELSE p

\* Mutant: an empty slot is reported as an eviction.
EvictionTagOfEmpty(c, i, k) == IF c[i].key # k THEN Evicted(c, i) ELSE None

\* An entry is offered to cache c: an eviction turns into the packet's tag.
EvictionTag(c, i, k) == IF Evicts(c, i, k) THEN Evicted(c, i) ELSE None

\* Mutant: the tag's value is taken for the packet's own destination.
LearnMixed(p) ==
  [key |-> p.idst, val |-> IF p.evict # None THEN p.evict.val ELSE p.dst]

\* What a switch that is not a leaf learns: the tag, or the packet's own pair.  The code
\* takes a tag (0, 0) for an order to forget, but no switch makes one: what is promoted
\* has a value, and the eviction of key 0 is not reported (p4-cache.h:54, 119).  That
\* branch (lines 489-499) is left out.
Learn(p) ==
  IF p.evict # None THEN p.evict ELSE [key |-> p.idst, val |-> p.dst]

\* Mutant: the address of a gateway is learnt like any other.
LearnsFromAny(p) == TRUE

LearnsFrom(p) == p.evict # None \/ ~GatewayBound(p)

\* Mutants: the value is not compared.
ConfirmsKey(c, i, e)    == Find(c, i, e.key)
ContradictsKey(c, i, e) == Find(c, i, e.key)

\* Whether slot i of cache c holds exactly the entry e, or another value for its key.
Confirms(c, i, e)    == Find(c, i, e.key) /\ Value(c, i) = e.val
Contradicts(c, i, e) == Find(c, i, e.key) /\ Value(c, i) # e.val

\* Lines 406-453.  A packet that strayed removes the entry that misled it, or
\* follows a newer one; the first leaf tells the switch that misled it.
ReceiveInvalidating(s, p) ==
  LET i == SlotOf(s, p.inval.key)
      c == IF Confirms(cache[s], i, p.inval)
           THEN Remove(Get(cache[s], i, p.inval.key), i)
           ELSE Get(cache[s], i, p.inval.key)
      q == IF Contradicts(cache[s], i, p.inval)
           THEN [p EXCEPT !.dst = Value(cache[s], i)] ELSE p
      tells == Type(s) = "LEAF" /\ p.hit # None
      generate == /\ GenerateInvalidation
                  /\ ~(BloomFilter /\ p.hit \in bloom[s])
  IN  /\ p.inval # None
      /\ bloom' = IF tells /\ BloomFilter
                  THEN [bloom EXCEPT ![s] = @ \cup {p.hit}] ELSE bloom
      /\ IF tells
         THEN IF generate
              THEN /\ \E g \in Generated("invalidate", p,
                                 [key |-> p.idst, val |-> p.inval.val], s, p.hit) :
                        control' = control \cup g
                   /\ Forward(s, c, p, Spawn([q EXCEPT !.hit = None]))
              ELSE /\ UNCHANGED control
                   /\ Forward(s, c, p, [q EXCEPT !.hit = None])
         ELSE UNCHANGED control /\ Forward(s, c, p, q)

\* Lines 457-468.  A spine that knows the answer does not use it: it attaches the
\* entry to the packet, for the core to take.
ReceivePromoting(s, p) ==
  LET i == SlotOf(s, p.idst)
      e == [key |-> p.idst, val |-> Value(cache[s], i)]
  IN  /\ p.inval = None
      /\ Type(s) = "SPINE" /\ GatewayBound(p) /\ Find(cache[s], i, p.idst)
      /\ Forward(s, Get(cache[s], i, p.idst), p, [p EXCEPT !.evict = e])
      /\ UNCHANGED <<bloom, control>>

\* Lines 470-480
ReceiveAtLeaf(s, p) ==
  LET learnSource == SourceLearning /\ p.age > 1
      c == IF learnSource
           THEN Put(cache[s], SlotOf(s, p.isrc), p.isrc, p.src)
           ELSE IF ~GatewayBound(p)
           THEN PutIfNotEvict(cache[s], SlotOf(s, p.idst), p.idst, p.dst)
           ELSE cache[s]
  IN  /\ p.inval = None
      /\ Type(s) = "LEAF"
      /\ Forward(s, Lookup(s, c, p), p, LookedUp(s, c, p))
      /\ UNCHANGED <<bloom, control>>

\* Lines 505-529.  A core takes a tag only if it is about the packet's own
\* destination and the slot is not in use.
ReceiveAtCore(s, p) ==
  LET e == Learn(p)
      i == SlotOf(s, e.key)
      takes == /\ e.key = p.idst
               /\ GetBit(cache[s], i) = 0
               /\ ~Find(cache[s], i, e.key)
      c == IF p.evict # None
           THEN IF takes THEN Put(cache[s], i, e.key, e.val) ELSE cache[s]
           ELSE IF LearnsFrom(p)
           THEN PutIfNotEvict(cache[s], i, e.key, e.val)
           ELSE cache[s]
      q == IF p.evict # None /\ takes
           THEN [p EXCEPT !.evict = EvictionTag(cache[s], i, e.key)]
           ELSE p
  IN  /\ p.inval = None
      /\ Type(s) = "CORE"
      /\ Forward(s, Lookup(s, c, q), p, LookedUp(s, c, q))
      /\ UNCHANGED <<bloom, control>>

\* Lines 457-468 on a miss, then 532-553 or, without access bits, 566-571.  The
\* failed promotion of a SPINE has already cleared the access bit of the slot.
ReceiveAtSpine(s, p) ==
  LET c0 == IF Type(s) = "SPINE" THEN Lookup(s, cache[s], p) ELSE cache[s]
      e == Learn(p)
      i == SlotOf(s, e.key)
      keeps == AccessBit /\ GetBit(c0, i) = 1 /\ ~Find(c0, i, e.key)
      puts == LearnsFrom(p) /\ ~keeps
      c == IF puts THEN Put(c0, i, e.key, e.val) ELSE c0
      q == IF puts THEN [p EXCEPT !.evict = EvictionTag(c0, i, e.key)] ELSE p
  IN  /\ p.inval = None
      /\ Type(s) \in {"SPINE", "GW_SPINE"}
      /\ Type(s) = "SPINE" /\ GatewayBound(p) =>
           ~Find(cache[s], SlotOf(s, p.idst), p.idst)
      /\ Forward(s, Lookup(s, c, q), p, LookedUp(s, c, q))
      /\ UNCHANGED <<bloom, control>>

\* Lines 554-572.  A gateway's leaf may tell the sender's leaf what it learns.
ReceiveAtGwLeaf(s, p) ==
  LET e == Learn(p)
      i == SlotOf(s, e.key)
      puts == LearnsFrom(p)
      c == IF puts THEN Put(cache[s], i, e.key, e.val) ELSE cache[s]
      q == IF puts THEN [p EXCEPT !.evict = EvictionTag(cache[s], i, e.key)] ELSE p
  IN  /\ p.inval = None
      /\ Type(s) = "GW_LEAF"
      /\ \E draw \in LearningDraws :
           IF puts /\ draw
           THEN /\ \E g \in Generated("learn", p, e, s, LeafOf(p.origin)) :
                     control' = control \cup g
                /\ Forward(s, Lookup(s, c, q), p, Spawn(LookedUp(s, c, q)))
           ELSE /\ UNCHANGED control
                /\ Forward(s, Lookup(s, c, q), p, LookedUp(s, c, q))
      /\ UNCHANGED bloom

\* LocalP4CacheLogic
ReceiveLocalLearning(s, p) ==
  LET i == SlotOf(s, p.idst)
      q == IF GatewayBound(p) /\ Find(cache[s], i, p.idst)
           THEN [p EXCEPT !.dst = Value(cache[s], i)] ELSE p
      c == IF GatewayBound(p)
           THEN Get(cache[s], i, p.idst)
           ELSE Put(cache[s], i, p.idst, p.dst)
  IN  /\ Forward(s, c, p, q)
      /\ UNCHANGED <<bloom, control>>

\* SwitchApp with an empty cache: the packet is only forwarded.
ReceiveNoCache(s, p) ==
  /\ Forward(s, cache[s], p, p)
  /\ UNCHANGED <<bloom, control>>

SwitchReceive ==
  \E p \in packets :
    /\ p.at \in Switch
    /\ \/ /\ AppOf(p.at) = "SwitchV2P"
          /\ \/ ReceiveInvalidating(p.at, p)
             \/ ReceivePromoting(p.at, p)
             \/ ReceiveAtLeaf(p.at, p)
             \/ ReceiveAtCore(p.at, p)
             \/ ReceiveAtSpine(p.at, p)
             \/ ReceiveAtGwLeaf(p.at, p)
       \/ AppOf(p.at) = "LocalLearning" /\ ReceiveLocalLearning(p.at, p)
       \/ AppOf(p.at) = "NoCache" /\ ReceiveNoCache(p.at, p)

\* HandleProtocolPacket: an invalidation is applied at every switch it crosses,
\* a learning packet only where it is addressed to.
HandleProtocolPacket ==
  \E m \in control :
    LET s == m.at
        i == SlotOf(s, m.entry.key)
        c == Get(cache[s], i, m.entry.key)
    IN  /\ cache' = [cache EXCEPT ![s] =
             CASE m.kind = "invalidate" ->
                    IF Confirms(cache[s], i, m.entry) THEN Remove(c, i) ELSE c
               [] m.kind = "learn" /\ m.dst = s ->
                    Put(cache[s], i, m.entry.key, m.entry.val)
               [] OTHER -> cache[s]]
        /\ IF m.dst = s
           THEN control' = control \ {m}
           ELSE \E n \in NextHops(s, m.dst) :
                  control' = (control \ {m}) \cup {[m EXCEPT !.at = n]}
        /\ UNCHANGED <<bloom, packets, gwPending, resends, directory, local, sent,
                       delivered>>

-----------------------------------------------------------------------------
(* Gateways                                                                *)

\* GatewayApp::ReceivePacket: the directory is read now, the packet sent later.
GatewayReceive ==
  \E p \in packets :
    /\ p.at \in Gateway
    /\ packets' = packets \ {p}
    /\ gwPending' = gwPending \cup {[p EXCEPT !.dst = directory[p.idst]]}
    /\ UNCHANGED <<cache, bloom, control, resends, directory, local, sent, delivered>>

\* Mutant: packets with an InvalidationTag are lost.
GatewaySendLosesStrays ==
  \E p \in gwPending :
    /\ gwPending' = gwPending \ {p}
    /\ packets' = IF p.inval # None THEN packets ELSE packets \cup
         {[p EXCEPT !.at = FirstHop(p.at, p.dst), !.evict = None]}
    /\ UNCHANGED <<cache, bloom, control, resends, directory, local, sent, delivered>>

\* Mutant: the packet stays scheduled and is sent again.
GatewaySendRepeats ==
  \E p \in gwPending :
    /\ packets' = packets \cup
         {[p EXCEPT !.at = FirstHop(p.at, p.dst), !.evict = None, !.inval = None]}
    /\ UNCHANGED <<cache, bloom, control, gwPending, resends, directory, local, sent,
                   delivered>>

\* GatewayApp::SendPacket: through a raw socket, so the outer source and TTL
\* survive; the HitTag does too.
GatewaySend ==
  \E p \in gwPending :
    /\ gwPending' = gwPending \ {p}
    /\ packets' = packets \cup
         {[p EXCEPT !.at = FirstHop(p.at, p.dst), !.evict = None, !.inval = None]}
    /\ UNCHANGED <<cache, bloom, control, resends, directory, local, sent, delivered>>

-----------------------------------------------------------------------------
(* Hosts                                                                   *)

\* GetGatewayIdx.  Gateways are containers too and count in m_containerToId, so the
\* range is never 0.
ContainerCount == Cardinality(VIP) + Len(Gateways)
GatewayRange   == ContainerCount \div Len(Gateways)
GatewayFor(v)  ==
  LET q == v \div GatewayRange
  IN  Gateways[IF q < Len(Gateways) THEN q + 1 ELSE Len(Gateways)]

\* With per-flow load balancing a hash of the flow id picks any of them.
GatewayChoices(v) == IF PerFlowGateways THEN Gateway ELSE {GatewayFor(v)}

\* ClientApp::SendPacket and VirtualSend: the sender knows no physical address.
\* A container on the sender's own host is reached without the network.
ClientSend(f) ==
  LET h == Placement[f[1]]
  IN  /\ sent < MaxSends /\ Cardinality(InFlight) < MaxInFlight
      /\ local[f[2]] # h
      /\ sent' = sent + 1
      /\ \E g \in GatewayChoices(f[2]) :
           packets' = packets \cup
             {[id |-> sent + 1, at |-> FirstHop(h, g), src |-> h, dst |-> g,
               age |-> 0, isrc |-> f[1], idst |-> f[2], origin |-> h,
               hit |-> None, evict |-> None, inval |-> None,
               strays |-> 0, spawned |-> 0]}
      /\ UNCHANGED <<cache, bloom, control, gwPending, resends, directory, local,
                     delivered>>

\* SocketRecv, at the host whose interface carries the inner destination
HostReceive ==
  \E p \in packets :
    /\ p.at \in Host \ Gateway
    /\ local[p.idst] = p.at
    /\ packets' = packets \ {p}
    /\ delivered' = delivered \cup {p.id}
    /\ UNCHANGED <<cache, bloom, control, gwPending, resends, directory, local, sent>>

\* SocketRecv at any other host: the IP stack routes the packet back into
\* VirtualSend with a decremented inner TTL, which tags it as misdelivered.
Misdelivered ==
  \E p \in packets :
    /\ p.at \in Host \ Gateway
    /\ local[p.idst] # p.at
    /\ packets' = packets \ {p}
    /\ resends' = resends \cup
         {[p EXCEPT !.inval = [key |-> p.idst, val |-> p.at], !.strays = @ + 1]}
    /\ UNCHANGED <<cache, bloom, control, gwPending, directory, local, sent, delivered>>

\* SendToGateway, or SendFollowMeRule, whose destination is the new host of the
\* one migration whichever container the packet is for.
ResendChoices(p) == IF p.hit # None THEN GatewayChoices(p.idst) ELSE {NewHost}

HostResend ==
  \E p \in resends :
    /\ resends' = resends \ {p}
    /\ \E d \in ResendChoices(p) :
         packets' = packets \cup
           {[p EXCEPT !.src = p.at, !.dst = d, !.at = FirstHop(p.at, d), !.age = 0]}
    /\ UNCHANGED <<cache, bloom, control, gwPending, directory, local, sent,
                   delivered>>

-----------------------------------------------------------------------------
(* Migration and loss                                                      *)

\* Mutant: UpdateMappings is not called.
MigrationUnannounced ==
  /\ Migrated # None
  /\ local[Migrated] # NewHost
  /\ local' = [local EXCEPT ![Migrated] = NewHost]
  /\ UNCHANGED <<cache, bloom, packets, control, gwPending, resends, directory, sent,
                 delivered>>

\* TraceSimulation::Migration.  UpdateMappings follows at the same simulated
\* time; no event between the two reads both what each of them changes.
Migration ==
  /\ Migrated # None
  /\ local[Migrated] # NewHost
  /\ local' = [local EXCEPT ![Migrated] = NewHost]
  /\ directory' = [directory EXCEPT ![Migrated] = NewHost]
  /\ UNCHANGED <<cache, bloom, packets, control, gwPending, resends, sent, delivered>>

\* A device or queue discipline drops a packet (RecordDropQueue).
Drop ==
  /\ Lossy
  /\ \/ \E p \in packets : packets' = packets \ {p} /\ UNCHANGED control
     \/ \E m \in control : control' = control \ {m} /\ UNCHANGED packets
  /\ UNCHANGED <<cache, bloom, gwPending, resends, directory, local, sent, delivered>>

\* The trace is over and every packet has left the network.
Done ==
  /\ sent = MaxSends
  /\ packets = {} /\ control = {} /\ gwPending = {} /\ resends = {}
  /\ UNCHANGED vars

Init ==
  /\ cache = [s \in Switch |-> EmptyCache(Slot)]
  /\ bloom = [s \in Switch |-> {}]
  /\ packets = {} /\ control = {} /\ gwPending = {} /\ resends = {}
  /\ directory = Placement
  /\ local = Placement
  /\ sent = 0
  /\ delivered = {}

System ==
  \/ SwitchReceive \/ HandleProtocolPacket
  \/ GatewayReceive \/ GatewaySend
  \/ HostReceive \/ Misdelivered \/ HostResend

Next ==
  \/ System
  \/ \E f \in Flows : ClientSend(f)
  \/ Migration
  \/ Drop
  \/ Done

Spec == Init /\ [][Next]_vars

\* Every event in the simulator's queue is executed; clients, the migration and
\* losses are not owed.
FairSpec == Spec /\ WF_vars(System)

-----------------------------------------------------------------------------
(* Properties                                                              *)

TypeOK ==
  /\ cache \in [Switch -> [Slot -> SlotType(VIP, Host)]]
  /\ bloom \in [Switch -> SUBSET Switch]
  /\ packets \subseteq Packet
  /\ control \subseteq ControlPacket
  /\ gwPending \subseteq Packet
  /\ resends \subseteq Packet
  /\ directory \in [VIP -> Host]
  /\ local \in [VIP -> Host]
  /\ sent \in 0 .. MaxSends
  /\ delivered \subseteq PacketId

\* The host the migrated container has left.
Abandoned ==
  IF Migrated # None /\ local[Migrated] # Placement[Migrated]
  THEN {Placement[Migrated]} ELSE {}

\* The hosts a container has lived on so far.
Homes(v) == {Placement[v], local[v]}

\* Where a translation of v may point.  A packet that strayed is sent again from the
\* abandoned host, and source learning takes that for its sender's address.
Believable(v) ==
  Homes(v) \cup IF CacheApp = "SwitchV2P" /\ SourceLearning THEN Abandoned ELSE {}

Sound(e) == e.key \in VIP /\ e.val \in Believable(e.key)

\* A live entry names a host its container is on, or was on before it migrated; with
\* source learning the one other host it may name is the abandoned one.  Entries
\* reach a cache from outer headers, from tags evicted elsewhere and from learning
\* packets, all of which may be read long after they were written
\* (p4-switch-app.cc:219, 474-478, 514-571).
CacheSound ==
  \A s \in Switch, i \in Slot :
    cache[s][i].val # NoAddr =>
      Sound([key |-> cache[s][i].key, val |-> cache[s][i].val])

\* The same for the entries in transit, in eviction tags, in protocol packets, and
\* for where packets are going.
TransitSound ==
  /\ \A p \in InFlight : /\ p.evict # None => Sound(p.evict)
                         /\ p.dst \in Gateway \cup Believable(p.idst)
  /\ \A m \in control : Sound(m.entry)

\* A packet that strayed is never sent back to a host its container has left: its
\* tag makes switches forget or outvote what misled it (p4-switch-app.cc:406-421).
StrayGoesHome ==
  \A p \in packets : p.inval # None => p.dst \in Gateway \cup {local[p.idst]}

\* ns-3 refuses a second tag of a kind.  A packet that can still be redirected by a
\* cache has no HitTag (p4-switch-app.cc:584), and one at a host that is not its
\* destination has no InvalidationTag (socket-helper.cc:82).
NoSecondTag ==
  \A p \in packets :
    /\ GatewayBound(p) /\ p.inval = None => p.hit = None
    /\ p.at \in Host \ Gateway /\ local[p.idst] # p.at => p.inval = None

\* One migration costs a packet at most one detour (socket-helper.cc:77-101).
AtMostOneStray == \A p \in InFlight : p.strays <= 1

\* Neither an invalidation packet nor a strayed packet makes a switch forget where
\* a container is now: what they remove is the value that misled them
\* (p4-switch-app.cc:206, 413).
FreshNeverInvalidated ==
  [][\A s \in Switch, i \in Slot :
       /\ cache[s][i].val # NoAddr
       /\ cache[s][i].val = local[cache[s][i].key]
       => cache'[s][i] # EmptySlot]_vars

\* Where access bits are used, an entry that served the last packet of its slot is
\* not displaced by what other packets carry (p4-switch-app.cc:512, 532-543).  The
\* lookup that precedes the test in a spine clears the bit, so this rests on no tag
\* ever reaching a spine on the way to a gateway.
InUseNotDisplaced ==
  [][\A s \in Switch, i \in Slot :
       /\ AppOf(s) = "SwitchV2P" /\ AccessBit /\ Type(s) \notin {"LEAF", "GW_LEAF"}
       /\ cache[s][i].key # EmptyKey /\ cache[s][i].bit = 1
       => cache'[s][i].key \in {cache[s][i].key, EmptyKey}]_vars

\* A spine that attaches its entry to a packet throws away the tag the packet has
\* (p4-switch-app.cc:463), and one that only looks clears the access bit of the slot where
\* the tag is stored next.  Neither happens: what spines outside the gateways' pods see
\* on its way to a gateway carries no spilled entry that could be lost or displace one.
PromotesUntagged ==
  \A p \in packets :
    p.at \in Switch /\ Type(p.at) = "SPINE" /\ GatewayBound(p) /\ p.inval = None =>
      p.evict = None

Misleads(s) ==
  \E i \in Slot : /\ cache[s][i].key = Migrated
                  /\ cache[s][i].val # NoAddr
                  /\ cache[s][i].val # local[Migrated]

\* A switch whose stale entry led a packet astray is rid of that entry in the end: the
\* leaf of the abandoned host names it in an invalidation, if it is a LEAF; a GW_LEAF
\* tells nobody (p4-switch-app.cc:423-444).  Spines outside the gateways' pods only
\* promote, they lead nobody astray themselves.
MisleaderForgets ==
  \A s \in {t \in Switch : Type(t) # "SPINE"} :
    (\E p \in resends : p.hit = s /\ Type(LeafOf(p.at)) = "LEAF") ~> ~Misleads(s)

\* Source learning stores addresses of sources: an entry of a container that never
\* moved names its only host (p4-switch-app.cc:472-475).
LearnsSourceAddress ==
  \A s \in Switch, i \in Slot :
    cache[s][i].val # NoAddr /\ cache[s][i].key # Migrated =>
      cache[s][i].val = Placement[cache[s][i].key]

\* What has become of packet n: copies of a packet, or one still under way after its
\* delivery, have no counterpart in Delivery.
StatusOf(n) ==
  LET copies == {p \in InFlight : p.id = n}
  IN  CASE n \in delivered /\ copies = {} -> "delivered"
        [] n \notin delivered /\ Cardinality(copies) = 1 ->
             IF \E p \in copies : p.strays = 0 THEN "underway" ELSE "detour"
        [] n \notin delivered /\ copies = {} ->
             IF n <= sent THEN "lost" ELSE "unsent"
        [] OTHER -> "duplicated"

Network == INSTANCE Delivery
  WITH MayLose <- Lossy, MayMove <- Migrated # None,
       status <- [n \in PacketId |-> StatusOf(n)],
       moved <- Migrated # None /\ local[Migrated] # Placement[Migrated]

\* Rewriting headers, tagging, resending and the gateways' detour add up to what
\* Delivery promises: nothing is duplicated or lost on the way, only the migration
\* makes a packet stray, once, and every packet arrives in the end unless a link drops
\* it (socket-helper.cc:61-144, gateway-app.cc:58-95).
ImplementsDelivery == Network!FairSpec

-----------------------------------------------------------------------------
(* The inductive invariant behind the safety properties                    *)

\* The directory and the interfaces agree, and only one container ever moves.
MigrationInv ==
  /\ directory = local
  /\ \A v \in VIP : v # Migrated => local[v] = Placement[v]
  /\ Migrated # None => local[Migrated] \in {Placement[Migrated], NewHost}

\* A cache without half-written slots.
CacheOK(c) ==
  /\ c \in [Slot -> SlotType(VIP, Host)]
  /\ \A i \in Slot :
       /\ c[i].key # EmptyKey => c[i].val # NoAddr
       /\ c[i].val # NoAddr => Sound([key |-> c[i].key, val |-> c[i].val])

CacheInv == \A s \in Switch : CacheOK(cache[s])

\* A packet comes from its sender's host or, sent again, from the abandoned one;
\* it has strayed only if there is an abandoned host.  Only the full protocol leaves
\* HitTags.
HeadersOK(p) ==
  /\ p.evict # None => Sound(p.evict)
  /\ p.src \in {Placement[p.isrc]} \cup Abandoned
  /\ p.strays = 1 => Abandoned # {}
  /\ p.hit # None => CacheApp = "SwitchV2P"

\* A packet nothing has gone wrong with is going to a gateway, or to a host; if to
\* one that never had its container, then because a cache sent it there.  Once it
\* has strayed and been through a gateway it cannot be misled again.
OnCourse(p) ==
  /\ p.strays \in {0, 1}
  /\ p.dst \in Gateway => p.hit = None /\ p.strays = 0
  /\ p.dst \notin Gateway => /\ p.dst \in Believable(p.idst)
                             /\ p.dst \notin Homes(p.idst) => p.hit # None
                             /\ p.strays = 1 => p.dst = local[p.idst]

\* A packet that strayed carries the entry that misled it, which is out of date, and
\* is going home or, where caches leave HitTags, to a gateway.
Strayed(p) ==
  /\ p.strays = 1
  /\ p.inval.key = p.idst
  /\ p.inval.val \in (Abandoned \cap Believable(p.idst)) \ {local[p.idst]}
  /\ p.dst \in Gateway \cup {local[p.idst]}
  /\ p.dst \in Gateway => CacheApp = "SwitchV2P"

PacketOK(p) ==
  /\ HeadersOK(p)
  /\ IF p.inval = None THEN OnCourse(p) ELSE Strayed(p)

PacketInv ==
  \A p \in packets : PacketOK(p) /\ (p.at \in Host => p.at = p.dst)

PendingOK(p) ==
  /\ HeadersOK(p)
  /\ p.strays \in {0, 1}
  /\ p.at \in Host
  /\ p.dst \in Homes(p.idst)
  /\ p.strays = 1 => p.dst = local[p.idst]

GatewayInv == \A p \in gwPending : PendingOK(p)

ResendOK(p) ==
  /\ HeadersOK(p)
  /\ p.strays = 1
  /\ p.at \in Abandoned \ {local[p.idst]}
  /\ p.inval = [key |-> p.idst, val |-> p.at]
  /\ p.dst = p.at /\ p.at \in Believable(p.idst)
  /\ p.hit = None => p.idst = Migrated

ResendInv == \A p \in resends : ResendOK(p)

ControlInv == \A m \in control : Sound(m.entry)

IInv ==
  /\ TypeOK
  /\ MigrationInv
  /\ CacheInv
  /\ PacketInv
  /\ GatewayInv
  /\ ResendInv
  /\ ControlInv
=============================================================================
