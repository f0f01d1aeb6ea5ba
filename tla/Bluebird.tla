------------------------------ MODULE Bluebird ------------------------------
(***************************************************************************)
(* A leaf in Bluebird mode (switchv2p/p4-switch-app.cc:156-173, 250-331).  *)
(* A packet for a gateway whose translation is cached is redirected at     *)
(* once.  Any other goes through the switch's processor: a bounded queue,  *)
(* a transmitter that serves it one packet at a time, a delay, the         *)
(* directory, and after a further delay a new cache entry.                 *)
(*                                                                         *)
(* Events of a kind have the same delay, so they happen in the order in    *)
(* which they were scheduled; the delays are attributes of the switch, so  *)
(* events of different kinds interleave freely.                            *)
(***************************************************************************)
EXTENDS LRUCache, FiniteSets

CONSTANTS
  VIP,          \* virtual addresses
  Host,         \* physical addresses
  Placement,    \* [VIP -> Host], the directory at the start
  Migrated,     \* the container that migrates
  NewHost,      \* the host it migrates to
  Capacity,     \* m_memorySize
  QueueLimit,   \* m_bluebirdQueueSize, in packets
  MaxPackets    \* bound on the packets that arrive

\* With a capacity of 0 the first Put reads the back of an empty deque.
ASSUME BluebirdAssumption ==
  /\ Placement \in [VIP -> Host]
  /\ Migrated \in VIP /\ NewHost \in Host
  /\ Capacity \in Nat \ {0} /\ QueueLimit \in Nat \ {0} /\ MaxPackets \in Nat

VARIABLES
  cache,        \* m_bluebirdCache
  queue,        \* m_bluebirdQueue
  busy,         \* m_bluebirdBusy
  completions,  \* scheduled BluebirdTxComplete events
  processing,   \* packets whose BluebirdProcessPacket is scheduled
  programming,  \* addresses whose PopulateBluebirdCache is scheduled
  sockets,      \* keys of m_packetToSocket
  directory,    \* m_virtualToPhysical
  arrived,      \* packets received so far
  recency,      \* history: addresses looked up or stored, the latest first
  left,         \* history: packets sent on, in order, as [id, vip, to, slow]
  dropped       \* history: ids the full queue refused

vars == <<cache, queue, busy, completions, processing, programming, sockets, directory,
          arrived, recency, left, dropped>>

PacketId == 1 .. MaxPackets
Packet   == [id : PacketId, vip : VIP]

Init ==
  /\ cache = EmptyLRU
  /\ queue = <<>> /\ busy = FALSE /\ completions = 0
  /\ processing = <<>> /\ programming = <<>>
  /\ sockets = {}
  /\ directory = Placement
  /\ arrived = 0 /\ recency = <<>> /\ left = <<>> /\ dropped = {}

Leaves(p, to, slow) == left' = Append(left, [id |-> p.id, vip |-> p.vip, to |-> to, slow |-> slow])

\* Mutant: the packet that came last is served first.
TxStartLast(q) ==
  /\ busy' = TRUE
  /\ queue' = Front(q)
  /\ processing' = Append(processing, Last(q))

\* BluebirdTxStart on the head of q
TxStart(q) ==
  /\ busy' = TRUE
  /\ queue' = Tail(q)
  /\ processing' = Append(processing, Head(q))

\* A packet for a gateway arrives on one of the raw sockets: ReceiveRawPacket, then
\* BluebirdLogic.  Other packets are passed on and change nothing.
Hit(p) ==
  /\ Has(cache, p.vip)
  /\ cache' = LRUGet(cache, p.vip)
  /\ recency' = ToFront(recency, p.vip)
  /\ Leaves(p, cache.map[p.vip], FALSE)
  /\ UNCHANGED <<queue, busy, completions, processing, sockets, dropped>>

\* Mutant: the transmitter is started also when it is busy.
EnqueueAlwaysStarts(p) ==
  /\ ~Has(cache, p.vip)
  /\ Len(queue) < QueueLimit
  /\ sockets' = sockets \cup {p.id}
  /\ TxStart(Append(queue, p)) /\ completions' = completions + 1
  /\ UNCHANGED <<cache, recency, left, dropped>>

Enqueue(p) ==
  /\ ~Has(cache, p.vip)
  /\ Len(queue) < QueueLimit
  /\ sockets' = sockets \cup {p.id}
  /\ IF busy
     THEN /\ queue' = Append(queue, p)
          /\ UNCHANGED <<busy, completions, processing>>
     ELSE TxStart(Append(queue, p)) /\ completions' = completions + 1
  /\ UNCHANGED <<cache, recency, left, dropped>>

\* Mutant: the dropped packet's socket is remembered.
RefuseLeaking(p) ==
  /\ ~Has(cache, p.vip)
  /\ Len(queue) = QueueLimit
  /\ dropped' = dropped \cup {p.id}
  /\ sockets' = sockets \cup {p.id}
  /\ UNCHANGED <<cache, queue, busy, completions, processing, recency, left>>

Refuse(p) ==
  /\ ~Has(cache, p.vip)
  /\ Len(queue) = QueueLimit
  /\ dropped' = dropped \cup {p.id}
  /\ UNCHANGED <<cache, queue, busy, completions, processing, sockets, recency, left>>

Receive ==
  /\ arrived < MaxPackets
  /\ arrived' = arrived + 1
  /\ \E v \in VIP : LET p == [id |-> arrived + 1, vip |-> v]
                    IN  Hit(p) \/ Enqueue(p) \/ Refuse(p)
  /\ UNCHANGED <<programming, directory>>

\* Mutant: the transmitter stops after every packet.
TxCompleteStops ==
  /\ completions > 0
  /\ completions' = completions - 1 /\ busy' = FALSE
  /\ UNCHANGED <<queue, processing, cache, programming, sockets, directory, arrived,
                 recency, left, dropped>>

BluebirdTxComplete ==
  /\ completions > 0
  /\ IF queue = <<>>
     THEN busy' = FALSE /\ completions' = completions - 1 /\ UNCHANGED <<queue, processing>>
     ELSE TxStart(queue) /\ UNCHANGED completions
  /\ UNCHANGED <<cache, programming, sockets, directory, arrived, recency, left, dropped>>

BluebirdProcessPacket ==
  LET p == Head(processing)
  IN  /\ processing # <<>>
      /\ processing' = Tail(processing)
      /\ Leaves(p, directory[p.vip], TRUE)
      /\ sockets' = sockets \ {p.id}
      /\ programming' = Append(programming, p.vip)
      /\ UNCHANGED <<cache, queue, busy, completions, directory, arrived, recency, dropped>>

\* Mutant: the new entry is the translation at the start of the simulation.
PopulateFromPlacement ==
  LET v == Head(programming)
  IN  /\ programming # <<>>
      /\ programming' = Tail(programming)
      /\ cache' = LRUPut(cache, Capacity, v, Placement[v])
      /\ recency' = ToFront(recency, v)
      /\ UNCHANGED <<queue, busy, completions, processing, sockets, directory, arrived,
                     left, dropped>>

PopulateBluebirdCache ==
  LET v == Head(programming)
  IN  /\ programming # <<>>
      /\ programming' = Tail(programming)
      /\ cache' = LRUPut(cache, Capacity, v, directory[v])
      /\ recency' = ToFront(recency, v)
      /\ UNCHANGED <<queue, busy, completions, processing, sockets, directory, arrived,
                     left, dropped>>

\* TraceSimulation::UpdateMappings
UpdateMappings ==
  /\ directory[Migrated] # NewHost
  /\ directory' = [directory EXCEPT ![Migrated] = NewHost]
  /\ UNCHANGED <<cache, queue, busy, completions, processing, programming, sockets,
                 arrived, recency, left, dropped>>

Done ==
  /\ arrived = MaxPackets
  /\ queue = <<>> /\ completions = 0 /\ processing = <<>> /\ programming = <<>>
  /\ UNCHANGED vars

Next ==
  \/ Receive \/ BluebirdTxComplete \/ BluebirdProcessPacket
  \/ PopulateBluebirdCache \/ UpdateMappings \/ Done

\* The simulator executes every scheduled event.
Spec ==
  /\ Init /\ [][Next]_vars
  /\ WF_vars(BluebirdTxComplete)
  /\ WF_vars(BluebirdProcessPacket)
  /\ WF_vars(PopulateBluebirdCache)

-----------------------------------------------------------------------------
Ids(s) == {s[i].id : i \in 1 .. Len(s)}

\* The cache holds the addresses used last, in that order, and deque and map agree: no
\* sequence of hits, repeated insertions and evictions makes it forget a more recent
\* one, and every loop that looks for a key of the map in the deque ends
\* (lru-cache.h:27-45, 91-123).
HoldsMostRecent ==
  /\ cache.dq = SubSeq(recency, 1, IF Len(recency) < Capacity THEN Len(recency) ELSE Capacity)
  /\ DOMAIN cache.map = ToSet(cache.dq)

\* The transmitter is busy exactly while one completion is due, and never idle while
\* packets wait: m_bluebirdBusy is cleared and set again in several callbacks
\* (p4-switch-app.cc:280-297, 316).
TransmitterConsistent ==
  /\ busy <=> completions = 1
  /\ completions <= 1
  /\ queue # <<>> => busy

\* Every packet that arrived is in one place, and m_packetToSocket remembers exactly
\* the ones inside the switch (p4-switch-app.cc:164-171, 266, 323).
NothingLeaks ==
  /\ sockets = Ids(queue) \cup Ids(processing)
  /\ 1 .. arrived = sockets \cup Ids(left) \cup dropped
  /\ Len(queue) + Len(processing) + Len(left) + Cardinality(dropped) = arrived

\* The processor keeps the order of the packets it translates, also across the
\* moments at which the queue is empty and the transmitter idle.
SlowPathInOrder ==
  \A i, j \in 1 .. Len(left) :
    i < j /\ left[i].slow /\ left[j].slow => left[i].id < left[j].id

\* The only entry that is ever out of date is one made before its container moved: an
\* entry made later is right, also if it was requested before the move
\* (PopulateBluebirdCache reads the directory when it runs, p4-switch-app.cc:274).
StaleOnlyFromBefore ==
  [][\A v \in DOMAIN cache'.map :
       cache'.map[v] # directory'[v] =>
         /\ v = Migrated
         /\ v \in DOMAIN cache.map /\ cache'.map[v] = cache.map[v]]_vars

\* Every packet the queue accepts leaves the switch.
AcceptedLeave == \A n \in PacketId : (n \in sockets) ~> (n \in Ids(left))
=============================================================================
