----------------------------- MODULE Baselines -----------------------------
(***************************************************************************)
(* The ways of translating addresses that SwitchV2P is compared with, in   *)
(* which every switch runs SwitchApp (switchv2p/trace-sim.cc:582-586):     *)
(*                                                                         *)
(*   NoCache      every packet goes through its gateway                    *)
(*   Direct       senders know the directory                               *)
(*   OnDemand     a host knows the containers it has heard from; its first *)
(*                packet that needs no gateway waits 40us                  *)
(*   Controller   packets go to the gateway, and switches answer from      *)
(*                caches the ILP controller fills now and then             *)
(*                                                                         *)
(*   SocketHelper      socket-helper.cc        Send..., HostReceive, Leave *)
(*   SwitchApp         switch-app.cc           SwitchReceive               *)
(*   IlpControllerApp  ilp-controller-app.cc   QuerySwitches               *)
(*   GatewayApp        gateway-app.cc          GatewayReceive, GatewaySend *)
(*   TraceSimulation   trace-sim.cc            Migration, UpdateMappings   *)
(*                                                                         *)
(* Routes are fixed per flow here (ECMP_PER_FLOW), so packets of one       *)
(* sender that go the same way stay in order.  SwitchApp acts on packets   *)
(* for a gateway only: these go from switch to switch, all others travel   *)
(* to their host as over one link.                                         *)
(***************************************************************************)
EXTENDS IlpController, LRUCache

CONSTANTS
  Modes,          \* the modes simMode may have
  VIP,            \* containers that are not gateways
  Migrated,       \* the container that migrates, or None
  NewHost,        \* the host it migrates to
  None,           \* no migration
  MaxSends,       \* bound on the packets the clients send
  MaxQueries,     \* bound on the queries of the controller
  MaxInFlight     \* bounds on the packets under way at a time, for every mode

Gateway == {GatewayOf[f] : f \in Flow}

ASSUME BaselinesAssumption ==
  /\ Modes \subseteq {"NoCache", "Direct", "OnDemand", "Controller"}
  /\ VIP \subseteq Nat /\ Placement \in [VIP -> Host]
  /\ Flow \subseteq [id : Nat, src : VIP, dst : VIP] /\ IsFiniteSet(Flow)
  /\ GatewayOf \in [Flow -> Host] /\ FlowHash \in [Flow -> Nat]
  /\ MemorySize \in Nat \ {0} /\ GatewayCost \in Nat /\ GatewayCost > 8
  /\ Migrated \in VIP \cup {None} /\ NewHost \in Host
  /\ \A v \in VIP : Placement[v] \notin Gateway
  /\ NewHost \notin Gateway
  /\ \A f \in Flow : f.src # f.dst /\ f.src # Migrated
  /\ MaxSends \in Nat /\ MaxQueries \in Nat /\ MaxInFlight \in [Modes -> Nat]

VARIABLES
  simMode,        \* m_simParams.SimMode
  cache,          \* m_cache of every SwitchApp
  matrix,         \* m_trafficMatrix of every leaf: packets per flow
  net,            \* packets on links
  waiting,        \* packets a host has scheduled to send
  gwPending,      \* packets the gateways send 40us after they came, in order
  directory,      \* m_virtualToPhysical
  local,          \* the host whose interface carries a virtual address
  updating,       \* UpdateMappings is scheduled
  onDemandCache,  \* m_onDemandCache of every host
  firstPacket,    \* m_firstPacket of every host
  sent,           \* packets sent so far
  arrived,        \* packets delivered, in the order of their arrival
  queries,        \* queries so far
  expected        \* flows the last solution answers before their gateway

hosts   == <<onDemandCache, firstPacket>>
control == <<queries, expected>>
vars == <<simMode, cache, matrix, net, waiting, gwPending, directory, local, updating,
          onDemandCache, firstPacket, sent, arrived, queries, expected>>

-----------------------------------------------------------------------------
(* Links.  A packet is on the link <<from, to>>; those of one sender leave *)
(* it in the order they entered, which pos counts.                         *)

Lane(p)  == <<p.from, p.to, p.src>>
Ahead(p) == {q \in net : Lane(q) = Lane(p) /\ q.pos < p.pos}
Heads    == {p \in net : Ahead(p) = {}}

\* Packet p enters the link from n towards its outer destination.
Entering(packets, p, n) ==
  LET q == [p EXCEPT !.from = n,
                     !.to = IF p.dst \in Gateway THEN EcmpNextHop(n, p.dst, FlowHash[p.f])
                            ELSE p.dst]
      ahead == {r \in packets : Lane(r) = Lane(q)}
  IN  packets \cup {[q EXCEPT !.pos = Cardinality(ahead)]}

Leaving(packets, p) ==
  {IF Lane(q) = Lane(p) THEN [q EXCEPT !.pos = @ - 1] ELSE q : q \in packets \ {p}}

-----------------------------------------------------------------------------
(* Hosts: SocketHelper                                                     *)

\* The way a packet takes and whether it leaves its host after UpdateMappings are
\* recorded for the properties, and so is the last query before it.
NewPacket(f, h, d, way) ==
  [n |-> sent + 1, f |-> f, src |-> h, dst |-> d, from |-> h, to |-> h, pos |-> 0,
   way |-> way, late |-> directory # Placement, epoch |-> queries]

InFlight == Cardinality(net) + Cardinality(waiting) + Len(gwPending)

\* What the host of f knows in OnDemand mode: with a migration to come the migrating
\* container is known from the first call of VirtualSend on.
Knows(h) == onDemandCache[h] \cup
              IF simMode = "OnDemand" /\ Migrated # None THEN {Migrated} ELSE {}

\* ClientApp::SendPacket calls VirtualSend, which sends in one of the ways below.  A
\* container on the sender's own host is reached without the network.
Sending(f) ==
  /\ sent < MaxSends /\ InFlight < MaxInFlight[simMode]
  /\ local[f.dst] # Placement[f.src]
  /\ sent' = sent + 1
  /\ onDemandCache' = [onDemandCache EXCEPT ![Placement[f.src]] = Knows(Placement[f.src])]
  /\ UNCHANGED <<simMode, cache, matrix, gwPending, directory, local, updating, arrived,
                 control>>

UsesDirectory(f) ==
  \/ simMode = "Direct"
  \/ simMode = "OnDemand" /\ f.dst \in Knows(Placement[f.src])

\* SendFollowMeRule at once
SendDirect(f) ==
  LET h == Placement[f.src]
  IN  /\ Sending(f)
      /\ UsesDirectory(f) /\ (simMode = "OnDemand" => ~firstPacket[h])
      /\ net' = Entering(net, NewPacket(f, h, directory[f.dst], "direct"), h)
      /\ UNCHANGED <<waiting, firstPacket>>

\* Mutant: nothing is scheduled.
SendFirstForgotten(f) ==
  LET h == Placement[f.src]
  IN  /\ Sending(f)
      /\ simMode = "OnDemand" /\ UsesDirectory(f) /\ firstPacket[h]
      /\ firstPacket' = [firstPacket EXCEPT ![h] = FALSE]
      /\ UNCHANGED <<net, waiting>>

\* SendFollowMeRule 40us later, for the first packet of a host that takes this way
SendFirst(f) ==
  LET h == Placement[f.src]
  IN  /\ Sending(f)
      /\ simMode = "OnDemand" /\ UsesDirectory(f) /\ firstPacket[h]
      /\ waiting' = waiting \cup {NewPacket(f, h, h, "first")}
      /\ firstPacket' = [firstPacket EXCEPT ![h] = FALSE]
      /\ UNCHANGED net

SendToGateway(f) ==
  LET h == Placement[f.src]
  IN  /\ Sending(f)
      /\ ~UsesDirectory(f)
      /\ net' = Entering(net, NewPacket(f, h, GatewayOf[f], "gateway"), h)
      /\ UNCHANGED <<waiting, firstPacket>>

\* Mutant: the destination is fixed before the packet waits.
FollowMeAsBefore(p) == IF p.way = "stray" THEN NewHost ELSE Placement[p.f.dst]

\* SendFollowMeRule: a first packet goes where the directory says when it leaves, a
\* misdelivered one to the destination of the migration.
FollowMe(p) == IF p.way = "stray" THEN NewHost ELSE directory[p.f.dst]

\* A packet that waited, 40us as the first or 10us as a stray, leaves its host.
Leave ==
  \E p \in waiting :
    /\ waiting' = waiting \ {p}
    /\ net' = Entering(net, [p EXCEPT !.dst = FollowMe(p), !.src = p.to,
                                      !.late = @ \/ directory # Placement], p.to)
    /\ UNCHANGED <<simMode, cache, matrix, gwPending, directory, local, updating, hosts,
                   sent, arrived, control>>

\* SocketRecv.  A host that does not carry the inner destination routes the packet back
\* into VirtualSend, with a TTL that shows it has been here before.
HostReceive ==
  \E p \in Heads :
    LET h == p.to
        heard == IF simMode = "OnDemand" THEN {p.f.src, p.f.dst} ELSE {}
    IN  /\ h \in Host \ Gateway
        /\ net' = Leaving(net, p)
        /\ IF local[p.f.dst] = h
           THEN /\ arrived' = Append(arrived, [n |-> p.n, f |-> p.f, way |-> p.way])
                /\ onDemandCache' = [onDemandCache EXCEPT ![h] = @ \cup heard]
                /\ UNCHANGED waiting
           ELSE /\ waiting' = waiting \cup {[p EXCEPT !.way = "stray"]}
                /\ onDemandCache' = [onDemandCache EXCEPT ![h] = Knows(h) \cup heard]
                /\ UNCHANGED arrived
        /\ UNCHANGED <<simMode, cache, matrix, gwPending, directory, local, updating,
                       firstPacket, sent, control>>

-----------------------------------------------------------------------------
(* Switches, gateways and the controller                                   *)

\* SwitchApp::ReceivePacket for a packet that goes to a gateway: it is counted, then
\* looked up.
SwitchReceive ==
  \E p \in Heads :
    LET s == p.to
        hit == Has(cache[s], p.f.dst)
    IN  /\ s \in Switch
        /\ matrix' = IF simMode = "Controller" /\ s \in Leaf
                     THEN [matrix EXCEPT ![s][p.f] = @ + 1] ELSE matrix
        /\ cache' = [cache EXCEPT ![s] = LRUGet(@, p.f.dst)]
        /\ net' = Entering(Leaving(net, p),
                           IF hit THEN [p EXCEPT !.dst = cache[s].map[p.f.dst]] ELSE p, s)
        /\ UNCHANGED <<simMode, waiting, gwPending, directory, local, updating, hosts,
                       sent, arrived, control>>

GatewayReceive ==
  \E p \in Heads :
    /\ p.to \in Gateway
    /\ net' = Leaving(net, p)
    /\ gwPending' = Append(gwPending, [p EXCEPT !.dst = directory[p.f.dst]])
    /\ UNCHANGED <<simMode, cache, matrix, waiting, directory, local, updating, hosts,
                   sent, arrived, control>>

\* Mutant: the packet that came last leaves first.
GatewaySendLast ==
  /\ gwPending # <<>>
  /\ LET p == gwPending[Len(gwPending)] IN net' = Entering(net, p, p.to)
  /\ gwPending' = Front(gwPending)
  /\ UNCHANGED <<simMode, cache, matrix, waiting, directory, local, updating, hosts, sent,
                 arrived, control>>

\* Every packet is scheduled 40us ahead, so they leave in the order they came.
GatewaySend ==
  /\ gwPending # <<>>
  /\ LET p == Head(gwPending) IN net' = Entering(net, p, p.to)
  /\ gwPending' = Tail(gwPending)
  /\ UNCHANGED <<simMode, cache, matrix, waiting, directory, local, updating, hosts, sent,
                 arrived, control>>

\* Mutant: a full cache takes nothing.
BulkInsertIfRoom(c, containers) ==
  MapThenFoldSet(LAMBDA v, acc : IF Len(acc.dq) < MemorySize \/ Has(acc, v)
                                 THEN LRUPut(acc, MemorySize, v, directory[v]) ELSE acc,
                 c, LAMBDA v : v, Max, containers)

\* BulkInsertToCache, in the order of the container ids
BulkInsert(c, containers) ==
  MapThenFoldSet(LAMBDA v, acc : LRUPut(acc, MemorySize, v, directory[v]),
                 c, LAMBDA v : v, Max, containers)

\* What the entries of a solution make of the caches; nothing is removed.
Installed(solution) ==
  [s \in Switch |-> BulkInsert(cache[s], {e[2] : e \in {x \in solution : x[1] = s}})]

\* IlpControllerApp::QuerySwitches.  Only the leaves' matrices are used, and of each
\* only the flows of sources attached to that leaf.
QuerySwitches ==
  LET count == [f \in Flow |-> matrix[LeafOf(Placement[f.src])][f]]
      seen  == {f \in Flow : count[f] > 0}
  IN  /\ simMode = "Controller" /\ queries < MaxQueries
      /\ \E solution \in Solutions(seen, count) :
           /\ cache' = Installed(solution)
           /\ expected' = {f \in seen : AnsweredBy(solution, f)}
      /\ matrix' = [l \in Leaf |-> [f \in Flow |-> 0]]
      /\ queries' = queries + 1
      /\ UNCHANGED <<simMode, net, waiting, gwPending, directory, local, updating, hosts,
                     sent, arrived>>

-----------------------------------------------------------------------------
(* Migration (TraceSimulation).  UpdateMappings is an event of its own,    *)
(* 1000us later in OnDemand mode and later in the same instant in others.  *)

Migration ==
  /\ Migrated # None /\ local[Migrated] # NewHost
  /\ local' = [local EXCEPT ![Migrated] = NewHost]
  /\ updating' = TRUE
  /\ UNCHANGED <<simMode, cache, matrix, net, waiting, gwPending, directory, hosts, sent,
                 arrived, control>>

UpdateMappings ==
  /\ updating
  /\ directory' = [directory EXCEPT ![Migrated] = NewHost]
  /\ updating' = FALSE
  /\ UNCHANGED <<simMode, cache, matrix, net, waiting, gwPending, local, hosts, sent,
                 arrived, control>>

Done ==
  /\ sent = MaxSends /\ InFlight = 0 /\ ~updating
  /\ UNCHANGED vars

Init ==
  /\ simMode \in Modes
  /\ cache = [s \in Switch |-> EmptyLRU]
  /\ matrix = [l \in Leaf |-> [f \in Flow |-> 0]]
  /\ net = {} /\ waiting = {} /\ gwPending = <<>>
  /\ directory = Placement /\ local = Placement /\ updating = FALSE
  /\ onDemandCache = [h \in Host |-> {}]
  /\ firstPacket = [h \in Host |-> TRUE]
  /\ sent = 0 /\ arrived = <<>>
  /\ queries = 0 /\ expected = {}

System ==
  \/ Leave \/ HostReceive \/ SwitchReceive \/ GatewayReceive \/ GatewaySend
  \/ UpdateMappings

Next ==
  \/ System
  \/ \E f \in Flow : SendDirect(f) \/ SendFirst(f) \/ SendToGateway(f)
  \/ QuerySwitches
  \/ Migration
  \/ Done

Spec == Init /\ [][Next]_vars

\* Every event in the simulator's queue is executed; clients, queries and the migration
\* are not owed.
FairSpec == Spec /\ WF_vars(System)

-----------------------------------------------------------------------------
UnderWay == net \cup waiting \cup ToSet(gwPending)

\* What has become of packet n; a second copy, delivery or detour has no counterpart in
\* Delivery.
StatusOf(n) ==
  LET copies   == {p \in UnderWay : p.n = n}
      arrivals == {i \in DOMAIN arrived : arrived[i].n = n}
      misled   == {p \in net : p.way = "stray" /\ p.to # local[p.f.dst]}
  IN  CASE n > sent -> "unsent"
        [] n <= sent /\ copies = {} /\ Cardinality(arrivals) = 1 -> "delivered"
        [] n <= sent /\ copies = {} /\ arrivals = {} -> "lost"
        [] n <= sent /\ Cardinality(copies) = 1 /\ arrivals = {} /\ copies \cap misled = {} ->
             IF \E p \in copies : p.way = "stray" THEN "detour" ELSE "underway"
        [] OTHER -> "wrong"

Abstract == INSTANCE Delivery
  WITH PacketId <- 1 .. MaxSends, MayLose <- FALSE, MayMove <- Migrated # None,
       moved <- local # Placement,
       status <- [n \in 1 .. MaxSends |-> StatusOf(n)]

\* Hosts, gateways and SwitchApps implement the service: a packet is delivered once, in
\* the end it is, also when it strays to the host its container left while the directory
\* still names that host for 1000us, and it strays at most once (socket-helper.cc:77-101,
\* trace-sim.cc:377-383).
ImplementsDelivery == Abstract!FairSpec

\* The controller knows the routes: a flow its solution answers before the gateway
\* does not reach its gateway until the next query, whatever was in the caches before
\* (ilp-controller-app.cc:232-365 against sim-base.cc's routes and switch-app.cc:120).
AnsweredAsExpected ==
  \A i \in DOMAIN gwPending :
    gwPending[i].epoch = queries => gwPending[i].f \notin expected

\* Without caches in the network only the wait of a host's first packet and the change
\* from the gateway's way to the direct one put a flow out of order
\* (socket-helper.cc:109-126): packets that took the same way arrive as they were sent,
\* and no packet overtakes one that left directly.
SameWayInOrder ==
  simMode # "Controller" =>
    \A i, j \in DOMAIN arrived :
      i < j /\ arrived[i].f = arrived[j].f /\ arrived[j].n < arrived[i].n =>
        \/ "stray" \in {arrived[i].way, arrived[j].way}
        \/ arrived[j].way # arrived[i].way /\ arrived[j].way # "direct"

\* Where nothing is cached in switches, UpdateMappings ends the detours: a packet that
\* leaves its host after it does not stray, the one that waited 40us included, whose
\* destination is read when it leaves (socket-helper.cc:32, 114).
UpdateEndsStrays ==
  simMode # "Controller" => \A p \in waiting : p.way = "stray" => ~p.late
=============================================================================
