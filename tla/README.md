# SwitchV2P: models, checks and proofs

SwitchV2P lets the switches of a virtualised data centre answer in the place of
translation gateways. Containers have virtual addresses, hosts physical ones.
A sender that does not know where a container is sends its packet to a gateway, which
holds the directory; switches learn translations from the packets they forward, keep
them in small direct-mapped caches, and redirect later packets before they reach the
gateway. When a container migrates the caches are out of date, and packets that reach
the wrong host are sent again with tags that make switches forget.

The repository has two programs: an ns-3 simulation (`switchv2p/`, C++) and a prototype
of the switch for Tofino (`p4-prototype/`, P4). This directory models the logic of both.

## 1. The system

| Part | Source | State | Operations |
|---|---|---|---|
| Cache | `include/p4-cache.h` | array of (key, value), array of access bits; key 0 marks an empty slot | Get, GetBit, Find, Put, PutIfNotEvict, Remove |
| Topology and routes | `sim-base.cc`, `ip-utils.cc` | fat tree; static routes; addresses computed from positions | next hop per destination, address conversions |
| Switch | `p4-switch-app.cc` | cache, Bloom filter of switch ids | ReceivePacket (by switch type), HandleProtocolPacket, GeneratePacketTo... |
| Bluebird leaf | `p4-switch-app.cc`, `lru-cache.h` | LRU cache, bounded queue, transmitter, map from packets to sockets | ReceiveRawPacket, TxStart, TxComplete, ProcessPacket, PopulateBluebirdCache |
| Gateway | `gateway-app.cc` | directory; packets on hold for 40us | ReceivePacket, SendPacket |
| Host tunnel | `socket-helper.cc` | follow-me rule; packets on hold for 10us or 40us; in OnDemand mode the containers heard from | VirtualSend, SocketRecv, SendToGateway, SendFollowMeRule |
| SwitchApp | `switch-app.cc`, `lru-cache.h` | LRU cache, traffic matrix | ReceivePacket, GetTrafficMatrix, BulkInsertToCache |
| ILP controller | `ilp-controller-app.cc` | the placement of containers | QuerySwitches, GetPacketCost |
| UDP client | `client-app.cc` | flows still to send, the event that sends the next | StartApplication, ScheduleNext, SendPacket, StopApplication |
| TCP client | `tcp-client-app.cc` | bytes sent, the packet the socket refused, connected or not | StartApplication, SendData, ConnectionSucceeded, ConnectionFailed, DataSend |
| Migration | `trace-sim.cc` | interfaces of containers, directory | Migration, UpdateMappings |
| Trace and statistics | `trace-sim.cc` | flows by sender, stop time; per flow first and last times and counts | ParseTrace, CalculateDestinations, ClientTx, SinkRx, RecordCongState, RecordDrop..., StopSimulation |
| Prototype switch | `p4-prototype/p4/*.p4` | registers keys, vals, bf | Cache.apply, parser, egress of mirrored packets |
| Placement parsing, counters per switch, the prototype's control plane | | | not modelled, see section 7 |

*Interaction.* Parts talk by packets only, except that gateways and hosts read the one
directory `m_virtualToPhysical`. A data packet has an outer header (physical addresses), an
inner header (virtual addresses) and tags that switches and hosts add and remove: HitTag
(which switch redirected it), EvictionTag (an entry looking for a cache), InvalidationTag
(the entry that misled it), SourceTag. Switches also send each other learning and invalidation
packets, which every switch on the way looks at.

*What is hard.* Packets overtake one another (equal-cost routes, delays in gateways and
hosts), so tags, learning packets and invalidations are read long after they were written. The
directory is read 40us before the packet leaves. ns-3 aborts on a second tag of a type, so
each tagging relies on a history no single function sees; where the code removes a tag first, what it
carried is lost instead. Misdelivered packets are re-sent by
a host that is not their sender, and leaves learn from source addresses. Links lose packets.
Address 0 is both a container and the empty slot. Bluebird's flag, queue and map are
maintained by four separately scheduled callbacks. The controller predicts routes it does not
choose, and its answers stay in caches for good. A TCP socket takes packets apart and calls back
when it likes. Statistics are updated by packets out of order. The prototype keeps an entry in two
registers and compares times on a clock that wraps. `PROJECT.json` lists these hazards with
their lines.

*What makes each part correct.* A cache returns what was stored last. Every packet has a
route, and no route loops. No switch believes a translation that was never true; packets that
strayed go home, and stray only once; the switch that misled them forgets; what is fresh is
not forgotten; no tag is added twice; every packet arrives, exactly once. A Bluebird leaf
keeps its packets in order and loses none it accepted. The controller's placement answers the
flows it was computed for. Flows leave at their time, and TCP clients send each byte once and
close once. The statistics say what happened, whatever the order. A prototype switch says only what it
was told.

## 2. Modules

| Module | Models | Composes |
|---|---|---|
| `P4Cache` | the cache as operators on `[Slot -> [key, val, bit]]` | |
| `P4CacheSpec` | any sequence of calls to one cache | `P4Cache` |
| `Topology` | nodes, links, addresses, route tables | |
| `Routing` | a packet walking the route tables | `Topology` |
| `SwitchV2P` | switches, gateways, hosts, clients, migration, loss | `Topology`, `P4Cache` |
| `Delivery` | abstract: what the whole promises to a packet | implemented by `SwitchV2P` and `Baselines` |
| `LRUCache`, `Bluebird` | the Bluebird leaf | |
| `IlpController` | the controller's integer program as operators, the solver external | `Topology` |
| `Baselines` | the NoCache, Direct, OnDemand and Controller modes: hosts, gateways, SwitchApps, controller, migration | `IlpController`, `LRUCache` |
| `TcpClientApp` | a TCP client and its socket as operators on a record | |
| `Clients` | a client working off its trace over UDP or TCP, and the statistics | `TcpClientApp` |
| `TofinoSwitch` | one prototype switch of any type | |
| `P4CacheProofs`, `RoutingProofs`, `SwitchV2PProofs`, `LRUCacheProofs`, `BluebirdProofs`, `BaselinesProofs`, `ClientsProofs`, `TofinoProofs` | theorems; `LRUCacheProofs` has the lemmas about the LRU cache that `Bluebird` and `Baselines` share | |
| `MC...` | the instances for TLC | |

Definitions named in a comment as *mutants* are not part of a specification: each is a
plausible mistake in the definition that follows it. Substituting it makes the property that
`PROJECT.json` pairs it with fail.

### SwitchV2P

The simulator executes one event at a time and an event is one step. `packets` holds data
packets, each about to be handled at its node `at`; since it is a set, any packet may be
next. `ReceivePacket` is split by its branches: `ReceiveInvalidating` (a packet with an
InvalidationTag), `ReceivePromoting` (a spine attaches the answer instead of using it),
`ReceiveAtLeaf`, `ReceiveAtSpine`, `ReceiveAtCore`, `ReceiveAtGwLeaf`. Each includes the
final lookup that all but the first two fall through to, and the choice of the next hop.
`ReceiveLocalLearning` and `ReceiveNoCache` are what the LocalLearning and GwCache
configurations run. `GatewayReceive` and `GatewaySend` are the two halves of the gateway around
its delay, `Misdelivered` and `HostResend` those of the host.
`Migration` includes UpdateMappings: the two events have the same time in the modelled modes
and nothing between them reads both interface and directory.

Abstractions. A physical address is the host itself. The outer TTL is kept as `age`, up to 2,
because the code only asks whether it is below 63; the inner TTL is kept as `strays`. The Bloom
filter is a set, its index being the id itself. The draw against `m_generateProb` and the
choice among equal-cost routes are nondeterministic. Time is left out.

### Bluebird

Events of one kind have equal delays and keep their order; events of different kinds
interleave freely, because the delays are attributes. `recency`, `left` and `dropped` are
history. The queue counts packets.

### Baselines and IlpController

`simMode` is chosen in the initial state. Every switch runs SwitchApp, which looks only at packets
for a gateway: these walk from switch to switch along the route ECMP_PER_FLOW picks
(`EcmpNextHop`), others travel to their host as over one link. A link is a queue per sender. A host
that wants to send has three ways, one action each: `SendDirect`, `SendFirst` (the packet that waits
40us) and `SendToGateway`. `Leave` ends a wait; `FollowMe` is the destination read then.
`Migration` and `UpdateMappings` are two steps here, since in OnDemand mode 1000us lie between
them.

`QuerySwitches` is the controller's whole handler: `PathOf` repeats the code's arithmetic on hash
and switch numbers, `Cost` its relaxed cost, `Feasible` the limit on memory, and `Installed` puts
any of the cheapest `Solutions` into the caches. The solver may return entries besides that save
nothing; they are left out, as they answer no flow of the query that is not answered anyway.
`way`, `late`, `epoch`, `expected` and `arrived` are history.

### Clients and TcpClientApp

`now` is simulated time. It advances only when no event is due, and events of one instant come in
any order. `Parsed` is what `std::sort`, which is not stable, may make of the trace.
`TcpClientApp` is a record per line of the trace; a handler of the application runs to its end
before another event (`Sending`), in rounds of the loop of `SendData`, each with any result `Send`
may have. The network is external: it loses and reorders. A loss is reported to the counter of
drops once, twice or not at all (`RecordDrop`), and losses of protocol packets are reported to it as
well (`DropOther`), which no other statistic may notice. Replies of sinks carry the flow id the
socket inherited but are reported as flow 0, as in the code. `departed`, `transmitted`, `arrived`
and `disorders` are history.

### TofinoSwitch

The environment sends any header the prototype's own switches, hosts and gateways may produce
(`Data`, `Protocol`); one `Receive` action per branch of `Cache.apply`. `Data` limits one thing: a
gateway-bound packet has a tag about another container only if a host sent it back as misdelivered
(`Misdelivering`), and then not at a SPINE: a TOR has replaced the tag, and from a GW_TOR the way leads
through gateway pods and cores. A mirrored packet is
modelled as it leaves egress. `elapsed` is true time, and the pipeline sees it modulo
`ClockMod`, in the code 2^32 units of 65.5us. `heard`, `looked`, `generated` and `quiet` are
history. `l3_forwarding`, which changes no register, is left out.

## 3. Runs

| Run | Instance | What it shows |
|---|---|---|
| `p4cache` | 4 keys (0 among them), 2 slots, 2 values | `CoherentWithStored`: the cache agrees with what was stored last under a key; `DisplacedOnlyWithReport`: an entry goes unreported only where key 0 is involved |
| `routing` | 2 pods, 2 spines, 2 cores per spine | a route exists at every node on the way, every hop is closer to the destination, at most six links, addresses resolve to one node |
| `migration` | 3 pods, 2 packets in flight, one migration, Bloom filter, every learning draw succeeds | the safety properties |
| `live` | 3 packets one after the other, one migration, within the rack | `IInv`, the invariant of the proofs; `MisleaderForgets`, and `ImplementsDelivery`: delivered once, in the end, with at most one detour |
| `spillover` | 5 packets within a pod and into it, spines with two slots | `InUseNotDisplaced`, `PromotesUntagged` |
| `multipath` | caches in the gateways' leaves only; 2 pods of 2x2, 2 gateways, loss, container 0 migrates | `ImplementsDelivery` where no HitTags exist and strays follow the container |
| `bluebird` | 5 packets, queue and cache of 2 | LRU order, transmitter, no leak, order, delivery |
| `tofino` | 2 containers in one slot, every switch type, times 1 to 3, timeout 1 | registers stay paired, only what was heard is said, access bits protect, invalidations are spaced by the timeout and by no more |
| `baselines` | 2 pods of 2x2 under 4 cores, 3 flows (from the gateway's rack, its pod and the other pod), 3 packets, 2 queries, one migration, caches of 1 | `AnsweredAsExpected`: a flow the solution answers does not reach its gateway; `SameWayInOrder`: what may pass what; `UpdateEndsStrays`; `ImplementsDelivery` |
| `clients` | a trace of 3 lines out of order, two at one instant; packets and buffer of 2 bytes, flows of 4 and 1 bytes and one without end; a disorder per flow, losses reported not at all, once and twice | `OnTime`, `TcpExact`, `TcpEnds`, `StatsAgree` |
| `poison`, `tofino_wrap` | | violations, section 6 |

*Why the bounds are enough to be interesting.* Three pods separate sender, receivers and
gateway, so every switch type acts. With one slot per cache any two containers collide, so
evictions, tags and displacement happen from the second packet on. A stale entry, a strayed
packet, its invalidation and a packet that teaches the new location need two packets in flight
and one migration; a packet before, during and after the migration needs the sequence of three. In `migration` the container
moves to the sender's rack; in `live` it moves within its own, where a packet that strayed never
passes the sender's leaf again, so that only the invalidation packet can make that leaf forget. Five packets are what it takes until a spine knows an entry whose key the core
has displaced, so that promotion and spilling meet. In `bluebird`, five packets fill the
queue of two and the transmitter twice over. In `tofino`, packets are not counted: the run covers
sequences of any length; three instants allow an invalidation, one held back and the next one.
In `baselines` three packets are in flight together where the switches cache nothing. With the
controller there is one at a time (`MaxInFlight`): the caches change only in queries, which come
between any two of its hops, and the three flows have no two destinations in common, so that with
one entry per switch their placements compete. In `clients` the flow of four bytes needs two full
buffers, so that packets are refused, split and taken up again; `MaxSegments` bounds the packets
the sockets send, `MaxOpen` the open connections, `MaxStream` the bytes of the flow without end,
`MaxDisorder` the disorders of a flow and `MaxDropped` the counter of drops; losses that nobody
reports are not bounded.

*Fairness.* `FairSpec` has weak fairness of `System`: the simulator executes every event in
its queue, and handling a packet always schedules another or ends it. Clients, the migration and losses
are owed nothing. The specification of `Bluebird` assumes the same of its three
scheduled callbacks, and `Baselines` of its `System`. In `Clients`, handlers end
and the data of an open socket is acknowledged while the sinks run; that time passes is not assumed.
Except for `Clients` the models have no clock, so the liveness results bound no delay.

## 4. Proofs

Checked by TLAPS for all values of the constants.

`P4CacheProofs`: for every hash, key and value set a cache is coherent (`CacheCoherent`), its slots
are well formed (`SlotsStayWellFormed`) and it reports what it displaces (`DisplacedReported`). The
invariant says that a slot is either empty in all fields or live; without it a removed key could
reappear with a value of another.

`RoutingProofs`: for every number of pods, spines, cores and hosts, packets have routes
(`AlwaysRouted`), take at most six links (`ShortWay`) and come closer with every hop
(`NoLoops`). The distance to the destination, as a function of the kinds and positions of two
nodes, is the variant; the invariant is that links taken plus distance left is at most six.
`AddressesUnique`: an address is four bytes that name one node. The first byte tells the kinds of
nodes apart and the pods within a kind, which needs `PodCount * 3 < 255`; that the number of a core
names its group and its place in it is the uniqueness of quotient and remainder.

`SwitchV2PProofs`: `IInv` holds (`Invariance`), for every topology, placement, hash, number of
packets and configuration, and with it `TypeCorrect`, `CachesSound`, `InTransitSound`,
`StraysGoHome`, `TagsOnce` and `OneDetour`. The properties are not inductive by themselves. A
cache is sound only if tags, protocol packets and headers are, since they feed it
(`PacketInv`, `ControlInv`). A packet strays once because, after it strayed, it is going home or to a
gateway (`Strayed`), the gateway's answer is right (`PendingOK`: what a gateway holds for a strayed
packet is the current location, as there is one migration and it has happened), and what switches may
do to it afterwards keeps it on course (`OnCourse`). A packet without a HitTag that is misdelivered
must be for the migrated container (`ResendOK`), which makes the follow-me rule right although it does
not look at the packet.

`FreshKept` adds `InvalidationInv`: an invalidation on its way names a value that is out of date, and
stays so, since only one container moves, and once. Whatever else a switch does to its cache keeps
its live slots live, so that only invalidations have to be looked at.

`RefinesDelivery`: every step of `SwitchV2P` sends, delivers, loses or detours one packet in the sense
of `Delivery`, moves the container, or is not seen from outside. The invariant `OneCopy` says that a
packet number is in one place only and not both under way and delivered; the status of a packet is
then a function (`Fate`) of where its number is. A branch of `ReceivePacket` is a step of this kind
because it edits headers and tags of one packet and no identity (`SamePacket`). That a detour is the
first one is `ResendOK` of `IInv`.

Promotion never meets a tag (`PromotionUntagged`), which it would throw away with the spilled entry in
it. The invariant `TagInv` is about the topology: on its way to a gateway a packet carries a tag only at cores and in pods with a gateway. A
tag is added there, or by a spine outside those pods, which passes the packet up to a core; a core
passes it down into the gateway's pod, whose spines do not promote. `UsedEntriesStay`: with that, and
because learning packets are addressed to leaves (`LearnInv`), a spine or core that stores an
entry it was offered looks at the access bit first.

`LRUCacheProofs`: the deque and the map of an LRU cache stay in step (`LRUOK`), a lookup changes the
order only (`LRUGetKeeps`), an insertion puts its key in front and keeps what was in front behind it as long as
there is room (`LRUPutLeads`), and stores its value and no other (`LRUPutValue`, `LRUPutOthers`). It also has
induction over the numbers in a form the provers can use: a set that holds 0 and every successor holds them
all (`InductiveSet`, from `WFMin`), with a set in the place of the predicate.

`BluebirdProofs`: the invariant has four parts. `LRUInv`: the deque holds, in order, the addresses
used last, as many as there is room for (`Latest`), none twice, and the map has exactly these keys; with the
lemmas of `LRUCacheProofs` it gives `CacheHoldsMostRecent`.
`TxInv`: the transmitter is busy exactly while one `TxComplete` is due, and while packets are queued
(`Transmitter`). `FlowInv`: processor and queue form one line in order of arrival (`InLine`), and what has
left the slow path came before all that is still inside (`NoneOvertaken`); from these follow
`KeepsOrder` and, with the counts of packets, `SwitchKeepsAll`. `FreshInv`: only
the migrating container has an entry out of date, made before it moved (`NoLateStaleEntry`).

`BaselinesProofs` is about all four modes, for every topology, placement, set of flows, hash, memory, and
number of packets and queries.

* *Where packets go* (`Inv`). `EcmpFollowsRoutes`: the hash always picks one of the routes, as there are as
  many as the modulus. Packets are dated: what left late left after UpdateMappings, what strayed did so after
  the migration (`Dated`); a packet goes where its container was or is, and where it is if it strayed, or
  left late in a mode without a controller (`Course`). Caches hold where a container was or is, and nothing
  without a controller (`CacheInv`). So only a packet that has not strayed is misdelivered
  (`Misdelivery`), it strays once, and `UpdateEndsStrays` holds (`UpdateEnds`).
* *What a query leaves in the caches.* `BulkInsert` is a recursion over the set of a switch's
  containers. By induction on its size, what it put is in front of the deque in as many places as there are
  containers (`BulkInsertHolds`), so that nothing it put is evicted while it works: the integer program
  allows a switch no more containers than it has room for (`SolutionFits`).
* *Delivery* (`BaselinesDeliver`). Links renumber the packets behind one that leaves, so `OneCopy` is about the
  numbers in a place (`Numbers`) and which of them strayed (`Strays`), which each action changes for one packet.
* *The controller's answers* (`ControllerAnswers`). The controller computes the switches of a flow by
  arithmetic on the hash and on switch numbers; the network finds its way hop by hop. `PathIs` and
  `RouteHops` evaluate both, and `RouteStep` says that the next hop of a switch on the path is the next
  switch of the path, or the gateway (`Idx` numbers them). `AnswerInv`: a packet of an expected flow
  sent since the last query has a switch ahead of it, or is about to enter one, that knows its destination
  (`WillHit`). A switch that misses is not that one, hits leave for the host, lookups move entries but drop
  none, and a query dates all packets under way, so none gets to the queue of a gateway.
* *Order* (`SameWayOrder`). `OrderInv` has three parts. Ways (`WayInv`): one packet of a host waits, and once
  a packet of a flow left directly its sender needs the gateway no more (`Settled`). Lanes (`LaneOK`): `pos`
  is less than the number of packets in the lane, so one that enters is last; this
  needs that packets stay apart when they move up (`LaneLeaving`, an injection). Order (`Ordered`): of two
  packets of one flow and way the later one is not further on its route (`Stage`), and is behind in its lane
  if they share it; it is not before the other in a gateway's queue; and it has arrived first only if the
  other is on its way to the host its container left. The last clause is what makes the invariant
  survive a migration: before it, no packet has been passed at all (`MigrationOrder`).

`ClientsProofs`: for every trace, in any order, flows leave on time (`FlowsOnTime`), and for every
size of flows, packets and buffers a socket is given each byte once and is closed once
(`StreamExact`). For the first, the invariant relates the scheduled event to the flow it will send:
flows before `currentIdx` have left, each at its timestamp, the event is due at the timestamp of the
next, which is not in the past, and timestamps are sorted; time does not advance past a due event.
Stopping cancels nothing because the stop time lies after the last timestamp. For the second, what
the socket took and what is cached never exceed the flow's size, and an application is connected
exactly while its socket is open, so that no late callback resumes the loop.
`StatisticsAgree`: the invariant `StatInv` has for every entry a packet that attains each first and
last time (`Summary`), although packets arrive out of order and replies are reported under flow 0:
whatever is under way was sent no earlier than the entry's `firstTx` (`Told`), and numbers tell
packets apart, so that sets of packets can be counted (`Counted`). Of the counter of drops nothing is
proved, see section 6.

`TofinoProofs`: `RegistersMeanWhatTheySay` is the invariant `RegisterInv`; from it `PairsWereHeard`,
`SaysWhatItHeard` and `BitsMeanUse`, which support one another: a tag is true
because its two registers were paired, and they stay paired because tags are true when they
are stored. What `SaysWhatItHeard` says of destinations has one exception, a stray that still has its tag
(`ToGwKey`): the switch looks up the tag's container and sends the packet to that one's
host. `OnlyLearningDisplaces`: of all branches only that of learning packets puts another
key into a slot in use. `QuietPeriod` and `HeldBackWithinTimeout` hold as long as the clock has not wrapped
(`NoWrap`: the bound on time plus the timeout is less than `ClockMod`): each register of `bf` is
then the end of the quiet period of its switch (`ClockInv`). After that they are false, see `tofino_wrap`.

Assumptions. `TopologyAssumption`: the numbers are positive and addresses fit their bytes. `SwitchV2PAssumption`,
`BluebirdAssumption`, `BaselinesAssumption`: types of
the constants; in the last also what `ServersAssumption` says of `SwitchV2P`, that no container lives
on, or moves to, a gateway's host and that the migrating container sends nothing, as in the
repository's migration experiment, and that a flow has two ends. `CacheAssumption`,
`TofinoAssumption`: the hash is a function into the slots; the invalid addresses 0 and 1 are not
used in the prototype. `ClientsAssumption`, `TcpAssumption`: a packet fits into the buffer, no
timestamp is greater than the greatest.

## 5. Only model-checked

Every invariant and every action property of the runs is proved. What is left to TLC:

* Liveness: `MisleaderForgets`, `AcceptedLeave`, `TcpEnds`, and the part of `ImplementsDelivery`
  that says packets arrive; TLAPS does not reason about ENABLED. `MisleaderForgets` is checked
  without the Bloom filter, which is never cleared and may hold an invalidation back for good. It is
  about abandoned hosts under a LEAF. Only a LEAF generates the invalidation (`p4-switch-app.cc:423`);
  `ParsePlacement` puts gateways into racks with servers (`trace-sim.cc:209-218`), and under a GW_LEAF
  a stray goes to its gateway without anybody telling the switch that misled it, which keeps its entry until
  another packet displaces or contradicts it. The safety properties hold there too: the proofs
  assume nothing about where gateways are, except that no container is on their hosts.
* The bounds of the instances are not needed for anything proved; they matter for liveness only.

## 6. Disagreements between code and documentation

* `poison`: a misdelivered packet is sent again from the host its container left, and after a
  gateway has removed its tag the next leaf learns that host as the *sender's* address.
  `CacheSound` states what remains true: no other wrong address is ever learnt.
* `tofino_wrap`: once the clock has wrapped, invalidations are held back until it passes the stored
  time again, for up to a whole turn of the clock.

Two more, each of one step and stated without a run:

* Spines "do not overwrite entries with set access bits" (`ptf-tests/test.py:295`), but a
  learning packet that crosses a spine does: it is handled before the switch's type and the bit are
  looked at (`switchv2p_cache.p4:143-145`). `ActiveDisplacedByLearning` states what remains true: nothing
  else does.
* `total_dropped_packets` is not "the total number of packets dropped" (`README.md:67`).
  It counts reports: two for a packet that does not fit into a device's queue
  (`trace-sim.cc:631, 634`), none for one that does not fit into Bluebird's (`p4-switch-app.cc:321-325`).
  It includes protocol packets, so it cannot be compared with the packets sent. `StatsAgree`
  says nothing of it.

Seen in the model, without a run of their own, since no text of the repository says otherwise:

* In the prototype a new value for a cached key sends the old value of the same key on in a tag as if
  it had been evicted (`switchv2p_cache.p4:191`); `SaysOnlyHeard` states what remains true of such tags.
* In the prototype a misdelivered packet that a host under a GW_TOR sends back keeps its EvictionTag, as
  only a TOR looks at `misdelivered` (`switchv2p_cache.p4:149`). The parser takes the key from the tag,
  so the GW_TOR, and GW_SPINEs and cores after it, look up another container and may send the packet to that
  container's host. This is the second case of `SaysOnlyHeard`.
* A switch that misled a packet is not told of it when the abandoned host is under a GW_LEAF (section 5).

## 7. Not modelled

* `ParsePlacement` and the CSV and JSON readers: their results are the constants `Placement`,
  `Gateways` and `Trace`. The read past the end of `GatewayLeaves` and the size of the Bloom filter
  belong here, and so does the size of the prototype's `bf`, which the packet's `switch_id` may exceed.
* Counters per switch and of protocol packets, hop counts, the JSON file. The count of misdeliveries, which
  is never initialised (`sim-base.h:54`).
* Link speeds, queue lengths and real delays. The serialisation of tags.
* What the solver may return besides an irredundant placement.
* TCP itself: the socket's results and callbacks and the network's packets are any the interface
  allows. Acknowledgements after the client's stop time.
* The ns-3 patch, apart from the choice of routes and what its changes let the applications do.
* Checksums, mirror sessions and ports of the prototype, and its control plane.

## 8. Plan

1. `ParsePlacement` as an algorithm against a reference definition, with the read past the
   end as a nondeterministic choice.
2. A composition of `TofinoSwitch`es along one path, to follow a spilled stale value end to end.
