------------------------------ MODULE Clients ------------------------------
(***************************************************************************)
(* A client, its flows and the statistics kept of them, in simulated time. *)
(*                                                                         *)
(*   ClientApp        client-app.cc      Start, SendPacket, Stop           *)
(*   TcpClientApp     tcp-client-app.cc  the actions on apps               *)
(*   TraceSimulation  trace-sim.cc       Parsed, RecordTx, RecordRx, ...   *)
(*                                                                         *)
(* The network between the client and the sinks is external: it delivers   *)
(* packets in any order and loses some.  Time advances when no event is    *)
(* due, as in ns-3's simulator; events of one instant come in any order.   *)
(***************************************************************************)
EXTENDS TcpClientApp, FiniteSets, FiniteSetsExt, Functions

CONSTANTS
  Lines,         \* number of lines of the trace
  Trace,         \* [1 .. Lines -> Line], as in the file
  LastTs,        \* the greatest timestamp
  Minute,        \* what ParseTrace adds to it
  Never,         \* no event
  MaxSegments,   \* bound on the packets of TCP connections
  MaxOpen,       \* bound on the TCP connections open at a time
  MaxStream,     \* bound on the bytes acknowledged of a flow without end
  MaxDisorder,   \* bound on the changes to the state CA_DISORDER
  MaxDropped     \* bound on the counter of drops

Line == [ts : Nat, flowId : Nat, size : Nat]
Idx  == 1 .. Lines

ASSUME ClientsAssumption ==
  /\ Lines \in Nat \ {0}
  /\ Trace \in [Idx -> Line]
  /\ LastTs \in Nat /\ \A i \in Idx : Trace[i].ts <= LastTs
  /\ Minute \in Nat \ {0}
  /\ Never \notin Nat
  /\ MaxSegments \in Nat /\ MaxOpen \in Nat /\ MaxStream \in Nat /\ MaxDisorder \in Nat
  /\ MaxDropped \in Nat

FlowId == {Trace[i].flowId : i \in Idx}

VARIABLES
  udpMode,       \* m_udpMode, true also when there is a migration
  flows,         \* m_flows, sorted
  now,           \* Simulator::Now
  running,       \* m_running; "before" Start, "yes", "no" after Stop
  currentIdx,    \* m_currentIdx, counted from 1
  sendEvent,     \* when SendPacket is scheduled
  apps,          \* the TcpClientApp of every line
  network,       \* packets under way
  flowStats,     \* m_flowStats
  sentPackets, receivedPackets, droppedPackets, totalPacketLatency,
  departed,      \* when SendPacket was called for a line
  transmitted,   \* flows and times of the clients' packets
  arrived,       \* packets that reached an open socket, with the time
  disorders      \* reports of disorder, by flow

client  == <<running, currentIdx, sendEvent, departed>>
stats   == <<flowStats, sentPackets, receivedPackets, totalPacketLatency, transmitted, arrived,
             disorders>>
vars == <<udpMode, flows, now, running, currentIdx, sendEvent, apps, network, flowStats,
          sentPackets, receivedPackets, droppedPackets, totalPacketLatency, departed,
          transmitted, arrived, disorders>>

-----------------------------------------------------------------------------
(* TraceSimulation: the trace                                              *)

StopTime == LastTs + Minute

\* Mutant: flows in the order of the file.
ParsedUnsorted == {Trace}

\* What ParseTrace and CalculateDestinations may make of the trace: std::sort leaves
\* flows with the same timestamp in any order.
Parsed ==
  {s \in {[i \in Idx |-> Trace[p[i]]] : p \in Injection(Idx, Idx)} :
     \A i, j \in Idx : i <= j => s[i].ts <= s[j].ts}

-----------------------------------------------------------------------------
(* TraceSimulation: statistics                                             *)

\* ClientTx.  A flow that has not been heard of yet is taken to arrive when the
\* simulation stops and to end at once.
RecordTx(id) ==
  /\ sentPackets' = sentPackets + 1
  /\ flowStats' =
       IF id = 0 \/ id \in DOMAIN flowStats THEN flowStats
       ELSE [g \in DOMAIN flowStats \cup {id} |->
              IF g # id THEN flowStats[g]
              ELSE [firstTx |-> now, firstRx |-> StopTime, lastTx |-> now, lastRx |-> now,
                    count |-> 0, disorder |-> 0]]

\* Mutant: the number of disorders is not carried over.
RecordRxForgetful(p) ==
  /\ receivedPackets' = receivedPackets + 1
  /\ totalPacketLatency' = totalPacketLatency + (now - p.tx)
  /\ flowStats' = [flowStats EXCEPT ![p.flowId] =
       [firstTx |-> Min({@.firstTx, p.tx}), firstRx |-> Min({@.firstRx, now}),
        lastTx  |-> Max({@.lastTx, p.tx}),  lastRx  |-> Max({@.lastRx, now}),
        count   |-> @.count + 1,            disorder |-> 0]]

\* SinkRx for a flow with an entry.
RecordRx(p) ==
  /\ receivedPackets' = receivedPackets + 1
  /\ totalPacketLatency' = totalPacketLatency + (now - p.tx)
  /\ flowStats' = [flowStats EXCEPT ![p.flowId] =
       [firstTx |-> Min({@.firstTx, p.tx}), firstRx |-> Min({@.firstRx, now}),
        lastTx  |-> Max({@.lastTx, p.tx}),  lastRx  |-> Max({@.lastRx, now}),
        count   |-> @.count + 1,            disorder |-> @.disorder]]

\* A packet of flow id enters the network; reply: sent by the sink, which reports flow 0
\* but tags the packet with the flow it inherited.
Transmit(id, reply) ==
  /\ RecordTx(IF reply THEN 0 ELSE id)
  /\ network' = network \cup {[n |-> sentPackets + 1, flowId |-> id, tx |-> now, reply |-> reply]}
  /\ transmitted' = IF reply THEN transmitted
                     ELSE transmitted \cup {[flowId |-> id, tx |-> now]}
  /\ UNCHANGED <<receivedPackets, droppedPackets, totalPacketLatency, arrived, disorders>>

-----------------------------------------------------------------------------
(* ClientApp                                                               *)

\* ScheduleNext for line i.  The difference is unsigned: a smaller timestamp would be
\* scheduled centuries ahead.
ScheduleNext(i) ==
  LET before == IF i = 1 THEN 0 ELSE flows[i - 1].ts
  IN  IF flows[i].ts >= before THEN now + (flows[i].ts - before) ELSE Never

Start ==
  /\ running = "before"
  /\ running' = "yes"
  /\ sendEvent' = ScheduleNext(1)
  /\ UNCHANGED <<udpMode, flows, now, currentIdx, departed, apps, network, droppedPackets, stats>>

\* The part of SendPacket both modes share.
NextFlow ==
  /\ sendEvent = now
  /\ departed' = [departed EXCEPT ![currentIdx] = now]
  /\ currentIdx' = currentIdx + 1
  /\ sendEvent' = IF currentIdx < Lines THEN ScheduleNext(currentIdx + 1) ELSE Never
  /\ UNCHANGED <<udpMode, flows, now, running>>

SendPacketUdp ==
  /\ udpMode
  /\ NextFlow
  /\ Transmit(flows[currentIdx].flowId, FALSE)
  /\ UNCHANGED apps

\* A TcpClientApp is installed and starts in the same instant.
SendPacketTcp ==
  /\ ~udpMode
  /\ NextFlow
  /\ apps' = [apps EXCEPT ![currentIdx] = Install(@)]
  /\ UNCHANGED <<network, droppedPackets, stats>>

\* StopApplication of the client and of the sinks, which close their sockets.
Stop ==
  /\ running = "yes" /\ now = StopTime
  /\ running' = "no"
  /\ sendEvent' = Never
  /\ UNCHANGED <<udpMode, flows, now, currentIdx, departed, apps, network, droppedPackets, stats>>

-----------------------------------------------------------------------------
(* TcpClientApp.  Its handlers run to their end before any other event.    *)

Sending == {i \in Idx : apps[i].sending}

AppStep(i, a) ==
  /\ apps' = [apps EXCEPT ![i] = a]
  /\ UNCHANGED <<udpMode, flows, now, client, network, droppedPackets, stats>>

StartTcp(i) ==
  /\ apps[i].state = "installed"
  /\ AppStep(i, StartApplication(apps[i]))

\* The handshake ends well, which takes a packet of the client at least.
Connected(i) ==
  /\ apps[i].state = "connecting"
  /\ Cardinality({j \in Idx : apps[j].state = "open"}) < MaxOpen
  /\ \E p \in transmitted : p.flowId = flows[i].flowId
  /\ AppStep(i, ConnectionSucceeded(apps[i]))

Refused(i) ==
  /\ apps[i].state = "connecting"
  /\ AppStep(i, ConnectionFailed(apps[i]))

SendRound(i) ==
  /\ apps[i].sending /\ MoreToSend(apps[i], flows[i].size)
  /\ \E r \in SendResults(apps[i], ToSend(apps[i], flows[i].size)) :
       AppStep(i, Send(apps[i], flows[i].size, r))

SendEnds(i) ==
  /\ apps[i].sending /\ ~MoreToSend(apps[i], flows[i].size)
  /\ AppStep(i, SendDone(apps[i], flows[i].size))

\* An acknowledgement reaches the socket.
Acknowledged(i) ==
  /\ running = "yes" /\ apps[i].state \in {"open", "closed"}
  /\ flows[i].size = 0 => apps[i].stream < MaxStream
  /\ \E k \in 1 .. apps[i].buffered : AppStep(i, DataSend(apps[i], k))

-----------------------------------------------------------------------------
(* The network (external)                                                  *)

\* The socket of a TCP client sends a segment, for the first time or again.
Segment(i) ==
  /\ apps[i].state \in {"connecting", "open", "closed"}
  /\ sentPackets < MaxSegments
  /\ Transmit(flows[i].flowId, FALSE)
  /\ UNCHANGED <<udpMode, flows, now, client, apps>>

\* A sink answers a segment that has arrived.
Reply ==
  \E p \in arrived :
    /\ ~udpMode /\ ~p.reply /\ p.rx = now
    /\ sentPackets < MaxSegments
    /\ Transmit(p.flowId, TRUE)
    /\ UNCHANGED <<udpMode, flows, now, client, apps>>

\* A packet reaches its socket: PacketSink::RxEvent and HandleRead, ClientApp::RxEvent.
Arrive ==
  \E p \in network :
    /\ running = "yes"
    /\ network' = network \ {p}
    /\ arrived' = arrived \cup {[n |-> p.n, flowId |-> p.flowId, tx |-> p.tx,
                                 reply |-> p.reply, rx |-> now]}
    /\ IF p.flowId \in DOMAIN flowStats THEN RecordRx(p)
       ELSE UNCHANGED <<receivedPackets, totalPacketLatency, flowStats>>
    /\ UNCHANGED <<udpMode, flows, now, client, apps, sentPackets, droppedPackets,
                   transmitted, disorders>>

\* RecordDropQueue, RecordDropQueueDisc and RecordDropIp, which count reports: a loss is
\* reported once, twice by a device whose queue is full (TxQueue/Drop and MacTxDrop), or
\* by nobody where Bluebird's own queue refuses a packet.
RecordDrop(reports) ==
  \E k \in reports :
    /\ droppedPackets + k <= MaxDropped
    /\ droppedPackets' = droppedPackets + k

Drop ==
  \E p \in network :
    /\ network' = network \ {p}
    /\ RecordDrop({0, 1, 2})
    /\ UNCHANGED <<udpMode, flows, now, client, apps, stats>>

\* The same handlers hear of learning and invalidation packets, which no counter of sent
\* packets has and Bluebird does not queue.
DropOther ==
  /\ sentPackets > 0
  /\ RecordDrop({1, 2})
  /\ UNCHANGED <<udpMode, flows, now, client, apps, network, stats>>

\* RecordCongState with CA_DISORDER as the new state
Disorder(i) ==
  LET id == flows[i].flowId
  IN  /\ apps[i].state \in {"open", "closed"}
      /\ disorders[id] < MaxDisorder
      /\ disorders' = [disorders EXCEPT ![id] = @ + 1]
      /\ flowStats' = IF id # 0 /\ id \in DOMAIN flowStats
                      THEN [flowStats EXCEPT ![id].disorder = @ + 1] ELSE flowStats
      /\ UNCHANGED <<udpMode, flows, now, client, apps, network, sentPackets, receivedPackets,
                     droppedPackets, totalPacketLatency, transmitted, arrived>>

-----------------------------------------------------------------------------
\* No event is due: time goes on to the next one.
Tick ==
  /\ now < StopTime
  /\ running = "yes" /\ sendEvent # now
  /\ \A i \in Idx : apps[i].state # "installed"
  /\ now' = now + 1
  /\ UNCHANGED <<udpMode, flows, client, apps, network, droppedPackets, stats>>

Done ==
  /\ running = "no"
  /\ UNCHANGED vars

Init ==
  /\ udpMode \in BOOLEAN
  /\ flows \in Parsed
  /\ now = 0 /\ running = "before" /\ currentIdx = 1 /\ sendEvent = Never
  /\ apps = [i \in Idx |-> NoApp]
  /\ network = {}
  /\ flowStats = [g \in {} |-> 0]
  /\ sentPackets = 0 /\ receivedPackets = 0 /\ droppedPackets = 0 /\ totalPacketLatency = 0
  /\ departed = [i \in Idx |-> Never]
  /\ transmitted = {} /\ arrived = {}
  /\ disorders = [g \in FlowId |-> 0]

TcpHandler(i) == SendRound(i) \/ SendEnds(i)

Event ==
  \/ Start \/ SendPacketUdp \/ SendPacketTcp \/ Stop
  \/ \E i \in Idx : StartTcp(i) \/ Connected(i) \/ Refused(i) \/ Acknowledged(i)
                    \/ Segment(i) \/ Disorder(i)
  \/ Reply \/ Arrive \/ Drop \/ DropOther \/ Tick \/ Done

Next == \/ \E i \in Idx : TcpHandler(i)
        \/ Sending = {} /\ Event

Spec == Init /\ [][Next]_vars

\* Handlers end, and a socket's data is acknowledged while the sinks are open.  Nothing
\* makes time pass.
FairSpec ==
  /\ Spec
  /\ \A i \in Idx : /\ WF_vars(TcpHandler(i))
                    /\ WF_vars(Sending = {} /\ Acknowledged(i))

-----------------------------------------------------------------------------
TypeOK ==
  /\ udpMode \in BOOLEAN /\ flows \in [Idx -> Line]
  /\ now \in Nat /\ running \in {"before", "yes", "no"} /\ currentIdx \in Nat \ {0}
  /\ sendEvent \in Nat \cup {Never} /\ departed \in [Idx -> Nat \cup {Never}]
  /\ apps \in [Idx -> App]

\* Every flow leaves at its timestamp, whatever order the trace is in and although each is
\* scheduled only from the one before it, and none is cancelled by the end
\* (client-app.cc:73-96, trace-sim.cc:48-61, 92-96).
OnTime ==
  \A i \in Idx :
    /\ departed[i] \in {Never, flows[i].ts}
    /\ now > flows[i].ts \/ running = "no" => departed[i] # Never

\* However the socket takes a flow's bytes apart, it is given each of them once and is
\* closed once, after the last (tcp-client-app.cc:143-213).
TcpExact ==
  \A i \in Idx :
    LET a == apps[i]
    IN  /\ a.stream = a.totBytes
        /\ flows[i].size > 0 => a.stream + a.unsent <= flows[i].size
        /\ a.closes = IF a.state = "closed" THEN 1 ELSE 0
        /\ a.state = "closed" => a.stream = flows[i].size /\ a.unsent = 0

\* A client is never left waiting for a callback that does not come: an open connection
\* is closed in the end, unless its flow has no size or the simulation stops first.
TcpEnds ==
  \A i \in Idx :
    apps[i].state = "open" /\ flows[i].size > 0 ~>
      apps[i].state = "closed" \/ running = "no"

\* StopSimulation
Fpl(g) == flowStats[g].firstRx - flowStats[g].firstTx
Fct(g) == flowStats[g].lastRx - flowStats[g].firstTx

\* What the statistics say of a flow, in whatever order its packets and their replies
\* arrive: from its first packet to the first arrival, or to the end of the simulation,
\* and to the last arrival.  Of a flow that lost every packet they say that it took no
\* time.  Packets of flow 0 are received and not counted, and no packet is received that
\* was not counted when it was sent (trace-sim.cc:145-155, 228-315).
StatsAgree ==
  /\ DOMAIN flowStats = {p.flowId : p \in transmitted} \ {0}
  /\ \A g \in DOMAIN flowStats :
       LET start == Min({p.tx : p \in {q \in transmitted : q.flowId = g}})
           got   == {q \in arrived : q.flowId = g}
       IN  /\ Fpl(g) = Min({p.rx : p \in got} \cup {StopTime}) - start
           /\ Fct(g) = Max({p.rx : p \in got} \cup {start}) - start
           /\ flowStats[g].count = Cardinality(got)
           /\ flowStats[g].disorder = disorders[g]
  /\ receivedPackets = Cardinality({p \in arrived : p.flowId # 0})
  /\ Cardinality(network) + Cardinality(arrived) <= sentPackets
=============================================================================
