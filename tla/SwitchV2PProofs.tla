-------------------------- MODULE SwitchV2PProofs --------------------------
(***************************************************************************)
(* Safety of SwitchV2P for every topology, placement, hash function, set   *)
(* of flows and combination of the switches' options.                      *)
(***************************************************************************)
EXTENDS SwitchV2P, FiniteSetTheorems, TLAPS

-----------------------------------------------------------------------------
(* Topology and gateways                                                   *)

\* The routes lead to nodes; the only host a switch hands a packet to is the one it
\* is addressed to, and packets for switches stay among switches.
LEMMA NextHopsType ==
  ASSUME NEW s \in Switch, NEW d \in Node, NEW n \in NextHops(s, d)
  PROVE  /\ n \in Node
         /\ n \in Host => n = d
         /\ d \in Switch => n \in Switch
<1>1. CASE s \in Leaf
  BY <1>1, TopologyAssumption
     DEF NextHops, LeafNextHops, Node, Switch, Host, Leaf, Spine, Core, LeafOf, MkLeaf, MkSpine
<1>2. CASE s \in Spine
  BY <1>2, TopologyAssumption
     DEF NextHops, SpineNextHops, CoreGroup, Node, Switch, Host, Leaf, Spine, Core, MkLeaf, MkSpine
<1>3. CASE s \in Core
  BY <1>3, TopologyAssumption
     DEF NextHops, CoreNextHops, Node, Switch, Host, Leaf, Spine, Core, MkSpine
<1>4. QED
  BY <1>1, <1>2, <1>3 DEF Switch

\* A host's packets start at its leaf, or stay where they are.
LEMMA FirstHopType ==
  ASSUME NEW h \in Host, NEW d \in Host
  PROVE  /\ FirstHop(h, d) \in Node
         /\ FirstHop(h, d) \in Host => FirstHop(h, d) = d
  BY DEF FirstHop, LeafOf, MkLeaf, Node, Switch, Host, Leaf

LEMMA LeafOfType ==
  ASSUME NEW h \in Host
  PROVE  LeafOf(h) \in Switch
  BY DEF LeafOf, MkLeaf, Switch, Host, Leaf

LEMMA GatewayType == Gateway \subseteq Host
  BY SwitchV2PAssumption DEF Gateway

\* Gateways count as containers, so every gateway serves a range of at least one
\* virtual address and the division in GetGatewayIdx is by a positive number.
LEMMA GatewayRangeType == GatewayRange \in Nat \ {0}
<1>1. Cardinality(VIP) \in Nat
  BY SwitchV2PAssumption, FS_CardinalityType
<1>2. Len(Gateways) \in Nat \ {0}
  BY SwitchV2PAssumption
<1>3. ASSUME NEW a \in Nat, NEW b \in Nat \ {0}
      PROVE  (a + b) \div b \in Nat \ {0}
  BY <1>3
<1>4. QED
  BY <1>1, <1>2, <1>3 DEF GatewayRange, ContainerCount

\* Whichever gateway a sender picks, it is one.
LEMMA GatewayChoicesType ==
  ASSUME NEW v \in VIP
  PROVE  GatewayChoices(v) \subseteq Gateway
<1> DEFINE q == v \div GatewayRange
<1>1. q \in Nat
  BY GatewayRangeType, SwitchV2PAssumption
<1>2. Len(Gateways) \in Nat \ {0}
  BY SwitchV2PAssumption
<1>3. (IF q < Len(Gateways) THEN q + 1 ELSE Len(Gateways)) \in 1 .. Len(Gateways)
  BY <1>1, <1>2
<1>4. QED
  BY <1>3 DEF GatewayChoices, GatewayFor, Gateway

-----------------------------------------------------------------------------
(* Caches                                                                  *)

\* Storing a sound pair keeps a cache sound.
LEMMA PutOK ==
  ASSUME NEW c, CacheOK(c), NEW i \in Slot, NEW e, Sound(e), e.val \in Host
  PROVE  CacheOK(Put(c, i, e.key, e.val))
  BY SwitchV2PAssumption DEF CacheOK, Put, SlotType, Sound

LEMMA PutIfNotEvictOK ==
  ASSUME NEW c, CacheOK(c), NEW i \in Slot, NEW e, Sound(e), e.val \in Host
  PROVE  CacheOK(PutIfNotEvict(c, i, e.key, e.val))
  BY SwitchV2PAssumption DEF CacheOK, PutIfNotEvict, SlotType, Sound

\* A lookup changes nothing but an access bit.
LEMMA GetOK ==
  ASSUME NEW c, CacheOK(c), NEW i \in Slot, NEW k
  PROVE  CacheOK(Get(c, i, k))
  BY DEF CacheOK, Get, SlotType

LEMMA RemoveOK ==
  ASSUME NEW c, CacheOK(c), NEW i \in Slot
  PROVE  CacheOK(Remove(c, i))
  BY DEF CacheOK, Remove, EmptySlot, SlotType

\* What a cache finds, and what it evicts, is sound.
LEMMA FindOK ==
  ASSUME NEW c, CacheOK(c), NEW i \in Slot, NEW k, Find(c, i, k)
  PROVE  /\ Sound([key |-> k, val |-> Value(c, i)])
         /\ Value(c, i) \in Host
  BY DEF CacheOK, Find, Value, SlotType

LEMMA EvictionTagOK ==
  ASSUME NEW c, CacheOK(c), NEW i \in Slot, NEW k
  PROVE  /\ EvictionTag(c, i, k) \in Entry \cup {None}
         /\ EvictionTag(c, i, k) # None => Sound(EvictionTag(c, i, k))
  BY DEF CacheOK, EvictionTag, Evicts, Evicted, SlotType, Sound, Entry

-----------------------------------------------------------------------------
(* Where containers live                                                   *)

\* Translations point to server hosts; the abandoned host, and the home of every
\* container that did not move, are what they are.
LEMMA HomesFacts ==
  ASSUME TypeOK, MigrationInv, NEW v \in VIP
  PROVE  /\ Believable(v) \subseteq Host
         /\ Believable(v) \cap Gateway = {}
         /\ Homes(v) \subseteq Believable(v)
         /\ local[v] \in Homes(v)
         /\ Homes(v) \subseteq {local[v]} \cup Abandoned
         /\ Believable(v) \subseteq {local[v]} \cup Abandoned
         /\ Abandoned \subseteq Host
         /\ Abandoned # {} => Migrated \in VIP /\ local[Migrated] = NewHost
         /\ \A h \in Abandoned : h \in Homes(v) /\ h # local[v] => v = Migrated
  BY SwitchV2PAssumption, ServersAssumption
     DEF TypeOK, MigrationInv, Believable, Homes, Abandoned

\* What the invariant says of a packet depends on the state only through local.
LEMMA LocalSame ==
  ASSUME local' = local
  PROVE  /\ \A e : Sound(e)' <=> Sound(e)
         /\ \A c : CacheOK(c)' <=> CacheOK(c)
         /\ \A p : PacketOK(p)' <=> PacketOK(p)
         /\ \A p : PendingOK(p)' <=> PendingOK(p)
         /\ \A p : ResendOK(p)' <=> ResendOK(p)
<1>1. \A v : Homes(v)' = Homes(v) /\ Believable(v)' = Believable(v)
  BY DEF Homes, Believable, Abandoned
<1>2. Abandoned' = Abandoned
  BY DEF Abandoned
<1>3. \A e : Sound(e)' <=> Sound(e)
  BY <1>1 DEF Sound
<1>4. \A p : HeadersOK(p)' <=> HeadersOK(p)
  BY <1>2, <1>3 DEF HeadersOK
<1>5. QED
  BY <1>1, <1>2, <1>3, <1>4
     DEF CacheOK, PacketOK, OnCourse, Strayed, PendingOK, ResendOK

-----------------------------------------------------------------------------
(* Forwarding                                                              *)

\* A switch that leaves a sound cache behind and passes on a packet in order keeps
\* the invariant: the case every branch of ReceivePacket comes down to.
LEMMA ForwardInv ==
  ASSUME IInv, NEW p \in packets, NEW s \in Switch, NEW c, NEW q \in Packet,
         CacheOK(c), PacketOK(q), Forward(s, c, p, q),
         bloom' \in [Switch -> SUBSET Switch],
         control' \subseteq ControlPacket, \A m \in control' : Sound(m.entry)
  PROVE  IInv'
<1>1. PICK n \in NextHops(s, q.dst) :
        packets' = (packets \ {p}) \cup
          {[q EXCEPT !.at = n, !.age = IF @ < MaxAge THEN @ + 1 ELSE @]}
  BY DEF Forward, Forwarded
<1> DEFINE r == [q EXCEPT !.at = n, !.age = IF @ < MaxAge THEN @ + 1 ELSE @]
<1>2. n \in Node /\ (n \in Host => n = q.dst)
  BY NextHopsType DEF Packet, Node
<1>3. r \in Packet
  <2>1. (IF q.age < MaxAge THEN q.age + 1 ELSE q.age) \in Age
    BY DEF Packet, Age, MaxAge
  <2>2. QED
    BY <1>2, <2>1 DEF Packet
<1>4. PacketOK(r) /\ (r.at \in Host => r.at = r.dst)
  BY <1>2 DEF PacketOK, HeadersOK, OnCourse, Strayed, Packet
<1>5. TypeOK'
  BY <1>1, <1>3 DEF IInv, TypeOK, Forward, CacheOK
<1>6. CacheInv'
  BY LocalSame DEF IInv, CacheInv, Forward, TypeOK
<1>7. PacketInv'
  <2> SUFFICES ASSUME NEW x \in packets'
               PROVE  PacketOK(x)' /\ (x.at \in Host => x.at = x.dst)
    BY DEF PacketInv
  <2>1. PacketOK(x) /\ (x.at \in Host => x.at = x.dst)
    BY <1>1, <1>4 DEF IInv, PacketInv
  <2>2. QED
    BY <2>1, LocalSame DEF Forward
<1>8. MigrationInv' /\ GatewayInv' /\ ResendInv' /\ ControlInv'
  BY LocalSame DEF IInv, MigrationInv, GatewayInv, ResendInv, ControlInv, Forward
<1>9. QED
  BY <1>5, <1>6, <1>7, <1>8 DEF IInv

-----------------------------------------------------------------------------
(* The stages of ReceivePacket                                             *)

\* Slots are slots.
LEMMA SlotOfType ==
  ASSUME NEW s \in Switch, NEW k \in VIP
  PROVE  SlotOf(s, k) \in Slot
  BY SwitchV2PAssumption DEF SlotOf

\* Changing the eviction tag, or counting a generated packet, leaves a packet in order.
LEMMA RetagOK ==
  ASSUME NEW p \in Packet, PacketOK(p), p.inval = None, NEW e \in Entry \cup {None},
         e # None => Sound(e)
  PROVE  /\ [p EXCEPT !.evict = e] \in Packet
         /\ PacketOK([p EXCEPT !.evict = e])
         /\ [p EXCEPT !.evict = e].inval = None
  BY DEF Packet, PacketOK, HeadersOK, OnCourse

LEMMA SpawnOK ==
  ASSUME NEW p \in Packet, PacketOK(p)
  PROVE  Spawn(p) \in Packet /\ PacketOK(Spawn(p))
  BY DEF Spawn, Packet, PacketOK, HeadersOK, OnCourse, Strayed

\* What a switch learns from a packet in order is sound.
LEMMA LearnOK ==
  ASSUME TypeOK, MigrationInv, NEW p \in Packet, PacketOK(p), p.inval = None, LearnsFrom(p)
  PROVE  Sound(Learn(p)) /\ Learn(p) \in Entry
<1>1. CASE p.evict # None
  BY <1>1 DEF Learn, Packet, PacketOK, HeadersOK
<1>2. CASE p.evict = None
  <2>1. p.dst \in Believable(p.idst) /\ p.idst \in VIP /\ p.dst \in Host
    BY <1>2 DEF LearnsFrom, GatewayBound, PacketOK, OnCourse, Packet
  <2>2. QED
    BY <1>2, <2>1 DEF Learn, Sound, Entry
<1>3. QED
  BY <1>1, <1>2

\* A switch runs the full protocol only in the mode in which all of them do.
LEMMA FullProtocol ==
  ASSUME NEW s \in Switch, AppOf(s) = "SwitchV2P"
  PROVE  CacheApp = "SwitchV2P"
  BY SwitchV2PAssumption DEF AppOf

\* The final lookup: a redirected packet carries a HitTag and goes where a container
\* is, was, or is wrongly believed to be, never to a gateway.
LEMMA LookupOK ==
  ASSUME TypeOK, MigrationInv, NEW s \in Switch, NEW c, CacheOK(c),
         NEW p \in Packet, PacketOK(p), p.inval = None, AppOf(s) = "SwitchV2P"
  PROVE  /\ CacheOK(Lookup(s, c, p))
         /\ LookedUp(s, c, p) \in Packet
         /\ PacketOK(LookedUp(s, c, p))
<1> DEFINE i == SlotOf(s, p.idst)
<1>0. p.idst \in VIP /\ i \in Slot
  BY SlotOfType DEF Packet
<1>1. CacheOK(Lookup(s, c, p))
  BY <1>0, GetOK DEF Lookup
<1>2. CASE GatewayBound(p) /\ Find(c, i, p.idst)
  <2> DEFINE q == [p EXCEPT !.hit = s, !.dst = Value(c, i)]
  <2>1. Value(c, i) \in Host /\ Value(c, i) \in Believable(p.idst)
    BY <1>0, <1>2, FindOK DEF Sound
  <2>2. Value(c, i) \notin Gateway
    BY <1>0, <2>1, HomesFacts
  <2>3. q \in Packet
    BY <2>1 DEF Packet
  <2>4. PacketOK(q)
    BY <1>2, <2>1, <2>2, SwitchV2PAssumption, FullProtocol
       DEF Packet, PacketOK, HeadersOK, OnCourse, GatewayBound
  <2>5. LookedUp(s, c, p) = q
    BY <1>2 DEF LookedUp
  <2>6. QED
    BY <1>1, <2>3, <2>4, <2>5
<1>3. CASE ~(GatewayBound(p) /\ Find(c, i, p.idst))
  BY <1>1, <1>3 DEF LookedUp
<1>4. QED
  BY <1>2, <1>3

\* Generated protocol packets are well formed and carry what they are given.
LEMMA GeneratedOK ==
  ASSUME NEW kind \in ControlKind, NEW p \in Packet, NEW e \in Entry, Sound(e),
         NEW s \in Switch, NEW d \in Switch, NEW g \in Generated(kind, p, e, s, d)
  PROVE  g \subseteq ControlPacket /\ \A m \in g : Sound(m.entry)
<1>1. CASE d = s
  BY <1>1 DEF Generated
<1>2. CASE d # s
  <2>1. PICK n \in NextHops(s, d) :
          g = {[kind |-> kind, id |-> p.id, seq |-> p.spawned, at |-> n, dst |-> d,
                entry |-> e]}
    BY <1>2 DEF Generated
  <2>2. n \in Switch
    BY NextHopsType DEF Node
  <2>3. QED
    BY <2>1, <2>2 DEF ControlPacket, Packet
<1>3. QED
  BY <1>1, <1>2

-----------------------------------------------------------------------------
(* The branches of ReceivePacket                                           *)

\* What the invariant gives the switch that handles a packet.
LEMMA AtSwitch ==
  ASSUME IInv, NEW p \in packets, NEW s \in Switch
  PROVE  /\ TypeOK /\ MigrationInv
         /\ CacheOK(cache[s])
         /\ p \in Packet /\ PacketOK(p)
         /\ p.idst \in VIP /\ p.isrc \in VIP
         /\ bloom \in [Switch -> SUBSET Switch]
         /\ control \subseteq ControlPacket
         /\ \A m \in control : Sound(m.entry)
  BY DEF IInv, TypeOK, CacheInv, PacketInv, ControlInv, Packet

LEMMA PromotingInv ==
  ASSUME IInv, NEW p \in packets, NEW s \in Switch, ReceivePromoting(s, p)
  PROVE  IInv'
<1> DEFINE i == SlotOf(s, p.idst)
           e == [key |-> p.idst, val |-> Value(cache[s], i)]
           q == [p EXCEPT !.evict = e]
<1>1. i \in Slot /\ p.inval = None /\ Find(cache[s], i, p.idst)
  BY AtSwitch, SlotOfType DEF ReceivePromoting
<1>2. Sound(e) /\ e \in Entry
  BY <1>1, AtSwitch, FindOK DEF Entry
<1>3. q \in Packet /\ PacketOK(q)
  BY <1>1, <1>2, AtSwitch, RetagOK
<1>4. CacheOK(Get(cache[s], i, p.idst))
  BY <1>1, AtSwitch, GetOK
<1>5. Forward(s, Get(cache[s], i, p.idst), p, q) /\ UNCHANGED <<bloom, control>>
  BY DEF ReceivePromoting
<1>6. QED
  BY <1>3, <1>4, <1>5, AtSwitch, ForwardInv

LEMMA AtLeafInv ==
  ASSUME IInv, NEW p \in packets, NEW s \in Switch, ReceiveAtLeaf(s, p),
         AppOf(s) = "SwitchV2P"
  PROVE  IInv'
<1> DEFINE learnSource == SourceLearning /\ p.age > 1
           src == [key |-> p.isrc, val |-> p.src]
           dst == [key |-> p.idst, val |-> p.dst]
           c == IF learnSource
                THEN Put(cache[s], SlotOf(s, p.isrc), p.isrc, p.src)
                ELSE IF ~GatewayBound(p)
                THEN PutIfNotEvict(cache[s], SlotOf(s, p.idst), p.idst, p.dst)
                ELSE cache[s]
<1>1. p.inval = None /\ SlotOf(s, p.isrc) \in Slot /\ SlotOf(s, p.idst) \in Slot
  BY AtSwitch, SlotOfType DEF ReceiveAtLeaf
<1>2. CacheOK(c)
  <2>1. CASE learnSource
    <3>1. Sound(src) /\ src.val \in Host
      BY FullProtocol, <2>1, AtSwitch
         DEF PacketOK, HeadersOK, Sound, Believable, Homes, Packet
    <3>2. CacheOK(Put(cache[s], SlotOf(s, p.isrc), src.key, src.val))
      BY <1>1, <3>1, AtSwitch, PutOK
    <3>3. QED
      BY <2>1, <3>2
  <2>2. CASE ~learnSource /\ ~GatewayBound(p)
    <3>1. Sound(dst) /\ dst.val \in Host
      BY <1>1, <2>2, AtSwitch DEF PacketOK, OnCourse, GatewayBound, Sound, Packet
    <3>2. CacheOK(PutIfNotEvict(cache[s], SlotOf(s, p.idst), dst.key, dst.val))
      BY <1>1, <3>1, AtSwitch, PutIfNotEvictOK
    <3>3. QED
      BY <2>2, <3>2
  <2>3. CASE ~learnSource /\ GatewayBound(p)
    BY <2>3, AtSwitch
  <2>4. QED
    BY <2>1, <2>2, <2>3
<1>3. /\ CacheOK(Lookup(s, c, p))
      /\ LookedUp(s, c, p) \in Packet
      /\ PacketOK(LookedUp(s, c, p))
  BY <1>1, <1>2, AtSwitch, LookupOK
<1>4. Forward(s, Lookup(s, c, p), p, LookedUp(s, c, p)) /\ UNCHANGED <<bloom, control>>
  BY DEF ReceiveAtLeaf
<1>5. QED
  BY <1>3, <1>4, AtSwitch, ForwardInv

LEMMA AtCoreInv ==
  ASSUME IInv, NEW p \in packets, NEW s \in Switch, ReceiveAtCore(s, p),
         AppOf(s) = "SwitchV2P"
  PROVE  IInv'
<1> DEFINE e == Learn(p)
           i == SlotOf(s, e.key)
           takes == /\ e.key = p.idst
                    /\ GetBit(cache[s], i) = 0
                    /\ ~Find(cache[s], i, e.key)
           c == IF p.evict # None
                THEN IF takes THEN Put(cache[s], i, e.key, e.val) ELSE cache[s]
                ELSE IF LearnsFrom(p)
                THEN PutIfNotEvict(cache[s], i, e.key, e.val)
                ELSE cache[s]
           q == IF p.evict # None /\ takes
                THEN [p EXCEPT !.evict = EvictionTag(cache[s], i, e.key)]
                ELSE p
<1>1. p.inval = None
  BY DEF ReceiveAtCore
<1>2. /\ CacheOK(c)
      /\ q \in Packet /\ PacketOK(q) /\ q.inval = None
  <2>1. CASE ~LearnsFrom(p)
    BY <1>1, <2>1, AtSwitch DEF LearnsFrom
  <2>2. CASE LearnsFrom(p)
    <3>1. Sound(e) /\ e \in Entry /\ e.val \in Host
      BY <1>1, <2>2, AtSwitch, LearnOK DEF Entry
    <3>2. i \in Slot
      BY <3>1, SlotOfType DEF Sound
    <3>3. CacheOK(c)
      BY <2>2, <3>1, <3>2, AtSwitch, PutOK, PutIfNotEvictOK
    <3>4. q \in Packet /\ PacketOK(q) /\ q.inval = None
      BY <1>1, <3>2, AtSwitch, EvictionTagOK, RetagOK
    <3>5. QED
      BY <3>3, <3>4
  <2>3. QED
    BY <2>1, <2>2
<1>3. /\ CacheOK(Lookup(s, c, q))
      /\ LookedUp(s, c, q) \in Packet
      /\ PacketOK(LookedUp(s, c, q))
  BY <1>2, AtSwitch, LookupOK
<1>4. Forward(s, Lookup(s, c, q), p, LookedUp(s, c, q)) /\ UNCHANGED <<bloom, control>>
  BY DEF ReceiveAtCore
<1>5. QED
  BY <1>3, <1>4, AtSwitch, ForwardInv

LEMMA AtSpineInv ==
  ASSUME IInv, NEW p \in packets, NEW s \in Switch, ReceiveAtSpine(s, p),
         AppOf(s) = "SwitchV2P"
  PROVE  IInv'
<1> DEFINE c0 == IF Type(s) = "SPINE" THEN Lookup(s, cache[s], p) ELSE cache[s]
           e == Learn(p)
           i == SlotOf(s, e.key)
           keeps == AccessBit /\ GetBit(c0, i) = 1 /\ ~Find(c0, i, e.key)
           puts == LearnsFrom(p) /\ ~keeps
           c == IF puts THEN Put(c0, i, e.key, e.val) ELSE c0
           q == IF puts THEN [p EXCEPT !.evict = EvictionTag(c0, i, e.key)] ELSE p
<1>1. p.inval = None
  BY DEF ReceiveAtSpine
<1>2. CacheOK(c0)
  BY <1>1, AtSwitch, LookupOK
<1>3. /\ CacheOK(c)
      /\ q \in Packet /\ PacketOK(q) /\ q.inval = None
  <2>1. CASE ~puts
    BY <1>1, <1>2, <2>1, AtSwitch
  <2>2. CASE puts
    <3>1. Sound(e) /\ e \in Entry /\ e.val \in Host
      BY <1>1, <2>2, AtSwitch, LearnOK DEF Entry
    <3>2. i \in Slot
      BY <3>1, SlotOfType DEF Sound
    <3>3. CacheOK(c)
      BY <1>2, <2>2, <3>1, <3>2, PutOK
    <3>4. q \in Packet /\ PacketOK(q) /\ q.inval = None
      BY <1>1, <1>2, <2>2, <3>2, AtSwitch, EvictionTagOK, RetagOK
    <3>5. QED
      BY <3>3, <3>4
  <2>3. QED
    BY <2>1, <2>2
<1>4. /\ CacheOK(Lookup(s, c, q))
      /\ LookedUp(s, c, q) \in Packet
      /\ PacketOK(LookedUp(s, c, q))
  BY <1>3, AtSwitch, LookupOK
<1>5. Forward(s, Lookup(s, c, q), p, LookedUp(s, c, q)) /\ UNCHANGED <<bloom, control>>
  BY DEF ReceiveAtSpine
<1>6. QED
  BY <1>4, <1>5, AtSwitch, ForwardInv

LEMMA AtGwLeafInv ==
  ASSUME IInv, NEW p \in packets, NEW s \in Switch, ReceiveAtGwLeaf(s, p),
         AppOf(s) = "SwitchV2P"
  PROVE  IInv'
<1> DEFINE e == Learn(p)
           i == SlotOf(s, e.key)
           puts == LearnsFrom(p)
           c == IF puts THEN Put(cache[s], i, e.key, e.val) ELSE cache[s]
           q == IF puts THEN [p EXCEPT !.evict = EvictionTag(cache[s], i, e.key)] ELSE p
<1>1. p.inval = None
  BY DEF ReceiveAtGwLeaf
<1>2. puts => Sound(e) /\ e \in Entry /\ e.val \in Host /\ i \in Slot
  BY <1>1, AtSwitch, LearnOK, SlotOfType DEF Entry, Sound
<1>3. CacheOK(c)
  BY <1>2, AtSwitch, PutOK
<1>4. q \in Packet /\ PacketOK(q) /\ q.inval = None
  BY <1>1, <1>2, AtSwitch, EvictionTagOK, RetagOK
<1>5. /\ CacheOK(Lookup(s, c, q))
      /\ LookedUp(s, c, q) \in Packet
      /\ PacketOK(LookedUp(s, c, q))
  BY <1>3, <1>4, AtSwitch, LookupOK
<1>6. bloom' \in [Switch -> SUBSET Switch]
  BY AtSwitch DEF ReceiveAtGwLeaf
<1>7. CASE /\ UNCHANGED control
           /\ Forward(s, Lookup(s, c, q), p, LookedUp(s, c, q))
  BY <1>5, <1>6, <1>7, AtSwitch, ForwardInv
<1>8. CASE /\ puts
           /\ \E g \in Generated("learn", p, e, s, LeafOf(p.origin)) :
                control' = control \cup g
           /\ Forward(s, Lookup(s, c, q), p, Spawn(LookedUp(s, c, q)))
  <2>1. PICK g \in Generated("learn", p, e, s, LeafOf(p.origin)) :
          control' = control \cup g
    BY <1>8
  <2>2. LeafOf(p.origin) \in Switch /\ "learn" \in ControlKind
    BY AtSwitch, LeafOfType DEF Packet, ControlKind
  <2>3. g \subseteq ControlPacket /\ \A m \in g : Sound(m.entry)
    BY <1>2, <1>8, <2>2, AtSwitch, GeneratedOK
  <2>4. control' \subseteq ControlPacket /\ \A m \in control' : Sound(m.entry)
    BY <2>1, <2>3, AtSwitch
  <2>5. Spawn(LookedUp(s, c, q)) \in Packet /\ PacketOK(Spawn(LookedUp(s, c, q)))
    BY <1>5, SpawnOK
  <2>6. QED
    BY <1>5, <1>6, <1>8, <2>4, <2>5, ForwardInv
<1>9. QED
  BY <1>7, <1>8 DEF ReceiveAtGwLeaf

\* A strayed packet only removes its own out-of-date entry, follows only the
\* container's present home, and tells the truth about what misled it.
LEMMA InvalidatingInv ==
  ASSUME IInv, NEW p \in packets, NEW s \in Switch, ReceiveInvalidating(s, p),
         AppOf(s) = "SwitchV2P"
  PROVE  IInv'
<1> DEFINE k == p.inval.key
           i == SlotOf(s, k)
           c == IF Confirms(cache[s], i, p.inval)
                THEN Remove(Get(cache[s], i, k), i)
                ELSE Get(cache[s], i, k)
           follows == Contradicts(cache[s], i, p.inval)
           q == IF follows THEN [p EXCEPT !.dst = Value(cache[s], i)] ELSE p
           e == [key |-> p.idst, val |-> p.inval.val]
<1>1. p.inval # None /\ p \in Packet /\ HeadersOK(p) /\ Strayed(p) /\ CacheApp = "SwitchV2P"
  BY AtSwitch, FullProtocol DEF ReceiveInvalidating, PacketOK
<1>2. k = p.idst /\ k \in VIP /\ i \in Slot
  BY <1>1, AtSwitch, SlotOfType DEF Strayed
<1>3. CacheOK(c)
  BY <1>2, AtSwitch, GetOK, RemoveOK
<1>4. q \in Packet /\ HeadersOK(q) /\ Strayed(q) /\ q.inval # None
  <2>1. CASE follows
    <3>1. /\ Value(cache[s], i) \in Host
          /\ Value(cache[s], i) \in Believable(p.idst)
      BY <1>2, <2>1, AtSwitch, FindOK DEF Sound, Contradicts
    <3>2. Value(cache[s], i) = local[p.idst]
      BY <1>1, <1>2, <2>1, <3>1, AtSwitch, HomesFacts DEF Strayed, Abandoned, Contradicts
    <3>3. QED
      BY <1>1, <2>1, <3>1, <3>2 DEF Packet, HeadersOK, Strayed
  <2>2. CASE ~follows
    BY <1>1, <2>2
  <2>3. QED
    BY <2>1, <2>2
<1>5. q \in Packet /\ PacketOK(q)
  BY <1>4 DEF PacketOK
<1> DEFINE q0 == [q EXCEPT !.hit = None]
<1>6. q0 \in Packet /\ PacketOK(q0)
  BY <1>4 DEF Packet, PacketOK, HeadersOK, Strayed
<1>7. Spawn(q0) \in Packet /\ PacketOK(Spawn(q0))
  BY <1>6, SpawnOK
<1>8. bloom' \in [Switch -> SUBSET Switch]
  BY <1>1, AtSwitch DEF ReceiveInvalidating, Packet
<1>9. CASE UNCHANGED control /\ Forward(s, c, p, q)
  BY <1>3, <1>5, <1>8, <1>9, AtSwitch, ForwardInv
<1>10. CASE UNCHANGED control /\ Forward(s, c, p, q0)
  BY <1>3, <1>6, <1>8, <1>10, AtSwitch, ForwardInv
<1>11. CASE /\ p.hit # None
            /\ \E g \in Generated("invalidate", p, e, s, p.hit) : control' = control \cup g
            /\ Forward(s, c, p, Spawn(q0))
  <2>1. PICK g \in Generated("invalidate", p, e, s, p.hit) : control' = control \cup g
    BY <1>11
  <2>2. p.hit \in Switch /\ "invalidate" \in ControlKind
    BY <1>1, <1>11 DEF Packet, ControlKind
  <2>3. e \in Entry /\ Sound(e)
    BY <1>1, <1>2, AtSwitch DEF Packet, Entry, Strayed, Sound
  <2>4. g \subseteq ControlPacket /\ \A m \in g : Sound(m.entry)
    BY <1>1, <2>2, <2>3, GeneratedOK
  <2>5. control' \subseteq ControlPacket /\ \A m \in control' : Sound(m.entry)
    BY <2>1, <2>4, AtSwitch
  <2>6. QED
    BY <1>3, <1>7, <1>8, <1>11, <2>5, ForwardInv
<1>12. QED
  BY <1>9, <1>10, <1>11 DEF ReceiveInvalidating

\* The local cache knows nothing of tags: strayed packets are already going home
\* when they meet it.
LEMMA LocalLearningInv ==
  ASSUME IInv, NEW p \in packets, NEW s \in Switch, ReceiveLocalLearning(s, p),
         AppOf(s) = "LocalLearning"
  PROVE  IInv'
<1> DEFINE i == SlotOf(s, p.idst)
           q == IF GatewayBound(p) /\ Find(cache[s], i, p.idst)
                THEN [p EXCEPT !.dst = Value(cache[s], i)] ELSE p
           e == [key |-> p.idst, val |-> p.dst]
           c == IF GatewayBound(p)
                THEN Get(cache[s], i, p.idst)
                ELSE Put(cache[s], i, p.idst, p.dst)
<1>1. i \in Slot /\ CacheApp # "SwitchV2P"
  BY AtSwitch, SlotOfType, SwitchV2PAssumption DEF AppOf
<1>2. GatewayBound(p) => p.inval = None
  BY <1>1, AtSwitch DEF PacketOK, Strayed, GatewayBound
<1>3. ~GatewayBound(p) => Sound(e) /\ e.val \in Host
  BY AtSwitch, HomesFacts DEF PacketOK, OnCourse, Strayed, GatewayBound, Sound, Packet
<1>4. CacheOK(c)
  BY <1>1, <1>3, AtSwitch, GetOK, PutOK
<1>5. q \in Packet /\ PacketOK(q)
  <2>1. CASE GatewayBound(p) /\ Find(cache[s], i, p.idst)
    <3>1. /\ Value(cache[s], i) \in Host
          /\ Value(cache[s], i) \in Believable(p.idst)
      BY <1>1, <2>1, AtSwitch, FindOK DEF Sound
    <3>2. Value(cache[s], i) \notin Gateway /\ Believable(p.idst) = Homes(p.idst)
      BY <1>1, <3>1, AtSwitch, HomesFacts DEF Believable
    <3>3. QED
      BY <1>2, <2>1, <3>1, <3>2, AtSwitch
         DEF Packet, PacketOK, HeadersOK, OnCourse, GatewayBound
  <2>2. CASE ~(GatewayBound(p) /\ Find(cache[s], i, p.idst))
    BY <2>2, AtSwitch
  <2>3. QED
    BY <2>1, <2>2
<1>6. Forward(s, c, p, q) /\ UNCHANGED <<bloom, control>>
  BY DEF ReceiveLocalLearning
<1>7. QED
  BY <1>4, <1>5, <1>6, AtSwitch, ForwardInv

LEMMA SwitchReceiveInv == IInv /\ SwitchReceive => IInv'
<1> SUFFICES ASSUME IInv, SwitchReceive PROVE IInv'
  OBVIOUS
<1>1. PICK p \in packets :
        /\ p.at \in Switch
        /\ \/ /\ AppOf(p.at) = "SwitchV2P"
              /\ \/ ReceiveInvalidating(p.at, p)
                 \/ ReceivePromoting(p.at, p)
                 \/ ReceiveAtLeaf(p.at, p)
                 \/ ReceiveAtCore(p.at, p)
                 \/ ReceiveAtSpine(p.at, p)
                 \/ ReceiveAtGwLeaf(p.at, p)
           \/ AppOf(p.at) = "LocalLearning" /\ ReceiveLocalLearning(p.at, p)
           \/ AppOf(p.at) = "NoCache" /\ ReceiveNoCache(p.at, p)
  BY DEF SwitchReceive
<1>2. CASE ReceiveNoCache(p.at, p)
  BY <1>1, <1>2, AtSwitch, ForwardInv DEF ReceiveNoCache
<1>3. QED
  BY <1>1, <1>2, InvalidatingInv, PromotingInv, AtLeafInv, AtCoreInv, AtSpineInv,
     AtGwLeafInv, LocalLearningInv

-----------------------------------------------------------------------------
(* The other actions                                                       *)

LEMMA HandleProtocolPacketInv == IInv /\ HandleProtocolPacket => IInv'
<1> SUFFICES ASSUME IInv, NEW m \in control,
                    LET s == m.at
                        i == SlotOf(s, m.entry.key)
                        c == Get(cache[s], i, m.entry.key)
                    IN  /\ cache' = [cache EXCEPT ![s] =
                             CASE m.kind = "invalidate" ->
                                    IF Confirms(cache[s], i, m.entry) THEN Remove(c, i) ELSE c
                               [] m.kind = "learn" /\ m.dst = s ->
                                    Put(cache[s], i, m.entry.key, m.entry.val)
                               [] OTHER -> cache[s]]
                        /\ IF m.dst = s
                           THEN control' = control \ {m}
                           ELSE \E n \in NextHops(s, m.dst) :
                                  control' = (control \ {m}) \cup {[m EXCEPT !.at = n]},
                    UNCHANGED <<bloom, packets, gwPending, resends, directory, local,
                                sent, delivered>>
             PROVE  IInv'
  BY DEF HandleProtocolPacket
<1> DEFINE s == m.at
           i == SlotOf(s, m.entry.key)
           c == Get(cache[s], i, m.entry.key)
           d == CASE m.kind = "invalidate" ->
                       IF Confirms(cache[s], i, m.entry) THEN Remove(c, i) ELSE c
                  [] m.kind = "learn" /\ m.dst = s ->
                       Put(cache[s], i, m.entry.key, m.entry.val)
                  [] OTHER -> cache[s]
<1>1. /\ m \in ControlPacket /\ Sound(m.entry)
      /\ s \in Switch /\ m.dst \in Switch /\ m.entry \in Entry
      /\ m.entry.key \in VIP /\ m.entry.val \in Host
      /\ CacheOK(cache[s])
  BY DEF IInv, TypeOK, ControlInv, CacheInv, ControlPacket, Entry
<1>2. i \in Slot
  BY <1>1, SlotOfType
<1>3. CacheOK(c) /\ CacheOK(Remove(c, i)) /\ CacheOK(Put(cache[s], i, m.entry.key, m.entry.val))
  BY <1>1, <1>2, GetOK, RemoveOK, PutOK
<1>4. CacheOK(d)
  BY <1>1, <1>3
<1>5. cache' = [cache EXCEPT ![s] = d]
  OBVIOUS
<1>6. control' \subseteq ControlPacket /\ \A x \in control' : Sound(x.entry)
  <2>1. CASE m.dst = s
    BY <2>1 DEF IInv, TypeOK, ControlInv
  <2>2. CASE m.dst # s
    <3>1. PICK n \in NextHops(s, m.dst) :
            control' = (control \ {m}) \cup {[m EXCEPT !.at = n]}
      BY <2>2
    <3>2. n \in Switch
      BY <1>1, NextHopsType DEF Node
    <3>3. [m EXCEPT !.at = n] \in ControlPacket /\ [m EXCEPT !.at = n].entry = m.entry
      BY <1>1, <3>2 DEF ControlPacket
    <3>4. QED
      BY <1>1, <3>1, <3>3 DEF IInv, TypeOK, ControlInv
  <2>3. QED
    BY <2>1, <2>2
<1>7. TypeOK'
  <2> HIDE DEF d
  <2>1. cache' \in [Switch -> [Slot -> SlotType(VIP, Host)]]
    BY <1>1, <1>4, <1>5 DEF IInv, TypeOK, CacheOK
  <2>2. QED
    BY <1>6, <2>1 DEF IInv, TypeOK
<1>8. CacheInv'
  BY <1>1, <1>4, <1>5, LocalSame DEF IInv, CacheInv, TypeOK
<1>9. ControlInv'
  BY <1>6, LocalSame DEF ControlInv
<1>10. MigrationInv' /\ PacketInv' /\ GatewayInv' /\ ResendInv'
  BY LocalSame DEF IInv, MigrationInv, PacketInv, GatewayInv, ResendInv
<1>11. QED
  BY <1>7, <1>8, <1>9, <1>10 DEF IInv

\* Every action of hosts and gateways keeps caches, protocol packets and places.
LEMMA EndpointInv ==
  ASSUME IInv, UNCHANGED <<cache, bloom, control, directory, local>>,
         packets' \subseteq Packet, gwPending' \subseteq Packet, resends' \subseteq Packet,
         sent' \in 0 .. MaxSends, delivered' \subseteq PacketId,
         \A p \in packets' : PacketOK(p) /\ (p.at \in Host => p.at = p.dst),
         \A p \in gwPending' : PendingOK(p),
         \A p \in resends' : ResendOK(p)
  PROVE  IInv'
<1>1. TypeOK' /\ MigrationInv'
  BY DEF IInv, TypeOK, MigrationInv
<1>2. CacheInv' /\ PacketInv' /\ GatewayInv' /\ ResendInv' /\ ControlInv'
  BY LocalSame DEF IInv, CacheInv, PacketInv, GatewayInv, ResendInv, ControlInv
<1>3. QED
  BY <1>1, <1>2 DEF IInv

LEMMA GatewayReceiveInv == IInv /\ GatewayReceive => IInv'
<1> SUFFICES ASSUME IInv, NEW p \in packets, p.at \in Gateway,
                    packets' = packets \ {p},
                    gwPending' = gwPending \cup {[p EXCEPT !.dst = directory[p.idst]]},
                    UNCHANGED <<cache, bloom, control, resends, directory, local, sent,
                                delivered>>
             PROVE  IInv'
  BY DEF GatewayReceive
<1> DEFINE q == [p EXCEPT !.dst = directory[p.idst]]
<1>1. p \in Packet /\ PacketOK(p) /\ directory = local /\ local[p.idst] \in Host
  BY DEF IInv, TypeOK, PacketInv, MigrationInv, Packet
<1>2. q \in Packet
  BY <1>1 DEF Packet
<1>3. local[p.idst] \in Homes(p.idst) /\ p.at \in Host
  BY GatewayType DEF Homes
<1>4. PendingOK(q)
  BY <1>1, <1>3 DEF Packet, PacketOK, HeadersOK, OnCourse, Strayed, PendingOK
<1>5. QED
  BY <1>2, <1>4, EndpointInv DEF IInv, TypeOK, PacketInv, GatewayInv, ResendInv

LEMMA GatewaySendInv == IInv /\ GatewaySend => IInv'
<1> SUFFICES ASSUME IInv, NEW p \in gwPending,
                    gwPending' = gwPending \ {p},
                    packets' = packets \cup
                      {[p EXCEPT !.at = FirstHop(p.at, p.dst), !.evict = None,
                                 !.inval = None]},
                    UNCHANGED <<cache, bloom, control, resends, directory, local, sent,
                                delivered>>
             PROVE  IInv'
  BY DEF GatewaySend
<1> DEFINE q == [p EXCEPT !.at = FirstHop(p.at, p.dst), !.evict = None, !.inval = None]
<1>1. /\ p \in Packet /\ PendingOK(p) /\ p.at \in Host /\ p.dst \in Host
      /\ p.idst \in VIP /\ TypeOK /\ MigrationInv
  BY DEF IInv, TypeOK, GatewayInv, PendingOK, Packet
<1>2. FirstHop(p.at, p.dst) \in Node /\ (FirstHop(p.at, p.dst) \in Host => FirstHop(p.at, p.dst) = p.dst)
  BY <1>1, FirstHopType
<1>3. q \in Packet
  BY <1>1, <1>2 DEF Packet
<1>4. p.dst \in Believable(p.idst) /\ p.dst \notin Gateway
  BY <1>1, HomesFacts DEF PendingOK
<1>5. PacketOK(q) /\ (q.at \in Host => q.at = q.dst)
  BY <1>1, <1>2, <1>4 DEF Packet, PendingOK, PacketOK, HeadersOK, OnCourse
<1>6. QED
  BY <1>3, <1>5, EndpointInv DEF IInv, TypeOK, PacketInv, GatewayInv, ResendInv

LEMMA ClientSendInv ==
  ASSUME IInv, NEW f \in Flows, ClientSend(f)
  PROVE  IInv'
<1> DEFINE h == Placement[f[1]]
<1>1. PICK g \in GatewayChoices(f[2]) :
        packets' = packets \cup
          {[id |-> sent + 1, at |-> FirstHop(h, g), src |-> h, dst |-> g,
            age |-> 0, isrc |-> f[1], idst |-> f[2], origin |-> h,
            hit |-> None, evict |-> None, inval |-> None,
            strays |-> 0, spawned |-> 0]}
  BY DEF ClientSend
<1> DEFINE q == [id |-> sent + 1, at |-> FirstHop(h, g), src |-> h, dst |-> g,
                 age |-> 0, isrc |-> f[1], idst |-> f[2], origin |-> h,
                 hit |-> None, evict |-> None, inval |-> None,
                 strays |-> 0, spawned |-> 0]
<1>2. f[1] \in VIP /\ f[2] \in VIP /\ h \in Host /\ g \in Gateway /\ g \in Host
  BY SwitchV2PAssumption, GatewayChoicesType, GatewayType
<1>3. FirstHop(h, g) \in Node /\ (FirstHop(h, g) \in Host => FirstHop(h, g) = g)
  BY <1>2, FirstHopType
<1>4. sent + 1 \in PacketId /\ sent' \in 0 .. MaxSends
  BY SwitchV2PAssumption DEF IInv, TypeOK, ClientSend, PacketId
<1>5. 0 \in Age /\ 0 \in Nat
  BY DEF Age, MaxAge
<1>6. q \in Packet
  BY <1>2, <1>3, <1>4, <1>5 DEF Packet
<1>7. PacketOK(q) /\ (q.at \in Host => q.at = q.dst)
  BY <1>2, <1>3 DEF PacketOK, HeadersOK, OnCourse
<1>8. QED
  BY <1>1, <1>4, <1>6, <1>7, EndpointInv
     DEF ClientSend, IInv, TypeOK, PacketInv, GatewayInv, ResendInv

LEMMA HostReceiveInv == IInv /\ HostReceive => IInv'
<1> SUFFICES ASSUME IInv, NEW p \in packets,
                    packets' = packets \ {p}, delivered' = delivered \cup {p.id},
                    UNCHANGED <<cache, bloom, control, gwPending, resends, directory,
                                local, sent>>
             PROVE  IInv'
  BY DEF HostReceive
<1>1. p.id \in PacketId
  BY DEF IInv, TypeOK, Packet
<1>2. QED
  BY <1>1, EndpointInv DEF IInv, TypeOK, PacketInv, GatewayInv, ResendInv

\* Only a packet that never strayed is misdelivered, to the abandoned host, and
\* without a HitTag only if it is for the container that left.
LEMMA MisdeliveredInv == IInv /\ Misdelivered => IInv'
<1> SUFFICES ASSUME IInv, NEW p \in packets, p.at \in Host \ Gateway,
                    local[p.idst] # p.at, packets' = packets \ {p},
                    resends' = resends \cup
                      {[p EXCEPT !.inval = [key |-> p.idst, val |-> p.at],
                                 !.strays = @ + 1]},
                    UNCHANGED <<cache, bloom, control, gwPending, directory, local, sent,
                                delivered>>
             PROVE  IInv'
  BY DEF Misdelivered
<1> DEFINE e == [key |-> p.idst, val |-> p.at]
           q == [p EXCEPT !.inval = e, !.strays = @ + 1]
<1>1. /\ p \in Packet /\ PacketOK(p) /\ p.at = p.dst /\ p.idst \in VIP
      /\ TypeOK /\ MigrationInv
  BY DEF IInv, TypeOK, PacketInv, Packet
<1>2. p.inval = None /\ OnCourse(p) /\ HeadersOK(p)
  BY <1>1 DEF PacketOK, Strayed
<1>3. p.strays = 0 /\ p.at \in Believable(p.idst)
  BY <1>1, <1>2 DEF OnCourse
<1>4. p.at \in Abandoned \ {local[p.idst]}
  BY <1>1, <1>3, HomesFacts
<1>5. p.hit = None => p.idst = Migrated
  BY <1>1, <1>2, <1>4, HomesFacts DEF OnCourse
<1>6. q \in Packet
  <2>1. e \in Entry /\ p.strays + 1 \in Nat
    BY <1>1, <1>3 DEF Entry
  <2>2. QED
    BY <1>1, <2>1 DEF Packet
<1>7. ResendOK(q)
  BY <1>1, <1>2, <1>3, <1>4, <1>5 DEF ResendOK, HeadersOK, Packet
<1>8. QED
  BY <1>6, <1>7, EndpointInv DEF IInv, TypeOK, PacketInv, GatewayInv, ResendInv

\* The follow-me rule names the present home of the only container that has left.
LEMMA HostResendInv == IInv /\ HostResend => IInv'
<1> SUFFICES ASSUME IInv, NEW p \in resends, resends' = resends \ {p},
                    NEW d \in ResendChoices(p),
                    packets' = packets \cup
                      {[p EXCEPT !.src = p.at, !.dst = d, !.at = FirstHop(p.at, d),
                                 !.age = 0]},
                    UNCHANGED <<cache, bloom, control, gwPending, directory, local, sent,
                                delivered>>
             PROVE  IInv'
  BY DEF HostResend
<1> DEFINE q == [p EXCEPT !.src = p.at, !.dst = d, !.at = FirstHop(p.at, d), !.age = 0]
<1>1. /\ p \in Packet /\ ResendOK(p) /\ p.idst \in VIP /\ TypeOK /\ MigrationInv
  BY DEF IInv, TypeOK, ResendInv, Packet
<1>2. p.at \in Host /\ p.at \in Abandoned \ {local[p.idst]}
  BY <1>1, HomesFacts DEF ResendOK
<1>3. d \in Gateway \cup {local[p.idst]} /\ (d \in Gateway => CacheApp = "SwitchV2P")
  <2>1. CASE p.hit # None
    BY <1>1, <2>1, GatewayChoicesType DEF ResendOK, HeadersOK, ResendChoices
  <2>2. CASE p.hit = None
    BY <1>1, <1>2, <2>2, HomesFacts, ServersAssumption DEF ResendOK, ResendChoices
  <2>3. QED
    BY <2>1, <2>2
<1>4. d \in Host
  BY <1>1, <1>3, GatewayType DEF TypeOK
<1>5. FirstHop(p.at, d) \in Node /\ (FirstHop(p.at, d) \in Host => FirstHop(p.at, d) = d)
  BY <1>2, <1>4, FirstHopType
<1>6. 0 \in Age
  BY DEF Age, MaxAge
<1>7. q \in Packet
  BY <1>1, <1>2, <1>4, <1>5, <1>6 DEF Packet
<1>8. p.inval # None /\ p.inval.val \in (Abandoned \cap Believable(p.idst)) \ {local[p.idst]}
  BY <1>1, <1>2, SwitchV2PAssumption DEF ResendOK, Entry
<1>9. PacketOK(q) /\ (q.at \in Host => q.at = q.dst)
  BY <1>1, <1>2, <1>3, <1>5, <1>8 DEF Packet, PacketOK, ResendOK, HeadersOK, Strayed
<1>10. QED
  BY <1>7, <1>9, EndpointInv DEF IInv, TypeOK, PacketInv, GatewayInv, ResendInv

\* Until the migration nothing has strayed; afterwards whatever was sound still is.
LEMMA MigrationPreserves == IInv /\ Migration => IInv'
<1> SUFFICES ASSUME IInv, Migration PROVE IInv'
  OBVIOUS
<1>1. /\ Migrated \in VIP /\ local[Migrated] = Placement[Migrated]
      /\ local[Migrated] # NewHost /\ NewHost \in Host
  BY SwitchV2PAssumption DEF IInv, MigrationInv, Migration
<1>2. Abandoned = {}
  BY <1>1 DEF Abandoned
<1>3. local' = [local EXCEPT ![Migrated] = NewHost] /\ directory' = local'
  BY DEF IInv, MigrationInv, Migration
<1>4. TypeOK'
  BY <1>1, <1>3 DEF IInv, TypeOK, Migration
<1>5. MigrationInv'
  BY <1>1, <1>3 DEF IInv, TypeOK, MigrationInv
<1>6. \A v \in VIP : Homes(v) = {local[v]} /\ Homes(v) \subseteq Homes(v)'
                     /\ Believable(v) \subseteq Believable(v)'
  BY <1>1, <1>2, <1>3 DEF IInv, TypeOK, MigrationInv, Homes, Believable
<1>7. \A e : Sound(e) => Sound(e)'
  BY <1>6 DEF Sound
<1>8. \A p : HeadersOK(p) => HeadersOK(p)'
  BY <1>2, <1>7 DEF HeadersOK
<1>9. CacheInv'
  BY <1>7 DEF IInv, CacheInv, CacheOK, Migration
<1>10. ControlInv'
  BY <1>7 DEF IInv, ControlInv, Migration
<1>11. PacketInv'
  <2> SUFFICES ASSUME NEW p \in packets
               PROVE  PacketOK(p)' /\ (p.at \in Host => p.at = p.dst)
    BY DEF PacketInv, Migration
  <2>1. /\ HeadersOK(p) /\ OnCourse(p) /\ p.inval = None /\ p.strays = 0
        /\ p.idst \in VIP /\ (p.at \in Host => p.at = p.dst)
    BY <1>2 DEF IInv, TypeOK, PacketInv, PacketOK, HeadersOK, OnCourse, Strayed, Packet
  <2>2. QED
    BY <1>6, <1>8, <2>1 DEF PacketOK, OnCourse
<1>12. GatewayInv'
  <2> SUFFICES ASSUME NEW p \in gwPending
               PROVE  PendingOK(p)'
    BY DEF GatewayInv, Migration
  <2>1. HeadersOK(p) /\ PendingOK(p) /\ p.strays = 0 /\ p.idst \in VIP
    BY <1>2 DEF IInv, TypeOK, GatewayInv, PendingOK, HeadersOK, Packet
  <2>2. QED
    BY <1>6, <1>8, <2>1 DEF PendingOK
<1>13. ResendInv'
  BY <1>2 DEF IInv, ResendInv, ResendOK, Migration
<1>14. QED
  BY <1>4, <1>5, <1>9, <1>10, <1>11, <1>12, <1>13 DEF IInv

LEMMA DropInv == IInv /\ Drop => IInv'
<1> SUFFICES ASSUME IInv, Drop PROVE IInv'
  OBVIOUS
<1>1. packets' \subseteq packets /\ control' \subseteq control
  BY DEF Drop
<1>2. TypeOK' /\ MigrationInv'
  BY <1>1 DEF IInv, TypeOK, MigrationInv, Drop
<1>3. CacheInv' /\ PacketInv' /\ GatewayInv' /\ ResendInv' /\ ControlInv'
  BY <1>1, LocalSame DEF IInv, CacheInv, PacketInv, GatewayInv, ResendInv, ControlInv, Drop
<1>4. QED
  BY <1>2, <1>3 DEF IInv

LEMMA StutterInv == IInv /\ UNCHANGED vars => IInv'
<1> SUFFICES ASSUME IInv, UNCHANGED vars PROVE IInv'
  OBVIOUS
<1>1. TypeOK' /\ MigrationInv'
  BY DEF IInv, TypeOK, MigrationInv, vars
<1>2. CacheInv' /\ PacketInv' /\ GatewayInv' /\ ResendInv' /\ ControlInv'
  BY LocalSame DEF IInv, CacheInv, PacketInv, GatewayInv, ResendInv, ControlInv, vars
<1>3. QED
  BY <1>1, <1>2 DEF IInv

-----------------------------------------------------------------------------
(* Theorems                                                                *)

LEMMA InitInv == Init => IInv
<1> SUFFICES ASSUME Init PROVE IInv
  OBVIOUS
<1>1. TypeOK
  BY SwitchV2PAssumption DEF Init, TypeOK, EmptyCache, EmptySlot, SlotType
<1>2. MigrationInv
  BY SwitchV2PAssumption DEF Init, MigrationInv
<1>3. CacheInv
  BY DEF Init, CacheInv, CacheOK, EmptyCache, EmptySlot, SlotType
<1>4. PacketInv /\ GatewayInv /\ ResendInv /\ ControlInv
  BY DEF Init, PacketInv, GatewayInv, ResendInv, ControlInv
<1>5. QED
  BY <1>1, <1>2, <1>3, <1>4 DEF IInv

\* The invariant holds in every state of every instance of the specification.
THEOREM Invariance == Spec => []IInv
<1>1. IInv /\ [Next]_vars => IInv'
  BY SwitchReceiveInv, HandleProtocolPacketInv, GatewayReceiveInv, GatewaySendInv,
     ClientSendInv, HostReceiveInv, MisdeliveredInv, HostResendInv, MigrationPreserves,
     DropInv, StutterInv
     DEF Next, System, Done
<1>2. QED
  BY InitInv, <1>1, PTL DEF Spec

\* Every header, tag, cache slot and protocol packet is of its type.
THEOREM TypeCorrect == Spec => []TypeOK
<1>1. IInv => TypeOK
  BY DEF IInv
<1>2. QED
  BY <1>1, Invariance, PTL

\* Whatever the hash functions, the options and the order of events, a cache never
\* holds a translation to a host that the container did not live on, up to the one
\* exception source learning makes (p4-switch-app.cc:195-589).
THEOREM CachesSound == Spec => []CacheSound
<1>1. IInv => CacheSound
  BY DEF IInv, CacheInv, CacheOK, CacheSound
<1>2. QED
  BY <1>1, Invariance, PTL

\* Nor does a tag, a protocol packet or an outer header carry one.
THEOREM InTransitSound == Spec => []TransitSound
<1>1. IInv => TransitSound
  <2> SUFFICES ASSUME IInv PROVE TransitSound
    OBVIOUS
  <2>1. \A m \in control : Sound(m.entry)
    BY DEF IInv, ControlInv
  <2> SUFFICES ASSUME NEW p \in InFlight
               PROVE  (p.evict # None => Sound(p.evict))
                      /\ p.dst \in Gateway \cup Believable(p.idst)
    BY <2>1 DEF TransitSound
  <2>2. p.idst \in VIP /\ TypeOK /\ MigrationInv
    BY DEF IInv, TypeOK, InFlight, Packet
  <2>3. CASE p \in packets
    BY <2>2, <2>3, HomesFacts DEF IInv, PacketInv, PacketOK, HeadersOK, OnCourse, Strayed
  <2>4. CASE p \in gwPending
    BY <2>2, <2>4, HomesFacts DEF IInv, GatewayInv, PendingOK, HeadersOK
  <2>5. CASE p \in resends
    BY <2>5 DEF IInv, ResendInv, ResendOK, HeadersOK
  <2>6. QED
    BY <2>3, <2>4, <2>5 DEF InFlight
<1>2. QED
  BY <1>1, Invariance, PTL

\* A misdelivered packet is going to a gateway or to the container's present host,
\* whatever it meets on the way (p4-switch-app.cc:406-421).
THEOREM StraysGoHome == Spec => []StrayGoesHome
<1>1. IInv => StrayGoesHome
  BY DEF IInv, PacketInv, PacketOK, Strayed, StrayGoesHome
<1>2. QED
  BY <1>1, Invariance, PTL

\* The simulator never meets the second tag it aborts on (p4-switch-app.cc:584,
\* socket-helper.cc:82).
THEOREM TagsOnce == Spec => []NoSecondTag
<1>1. IInv => NoSecondTag
  BY DEF IInv, PacketInv, PacketOK, OnCourse, Strayed, NoSecondTag, GatewayBound
<1>2. QED
  BY <1>1, Invariance, PTL

\* No packet is misdelivered twice (socket-helper.cc:77-101).
THEOREM OneDetour == Spec => []AtMostOneStray
<1>1. IInv => AtMostOneStray
  <2>1. IInv => \A p \in InFlight : p.strays \in {0, 1}
    BY DEF IInv, PacketInv, PacketOK, OnCourse, Strayed, GatewayInv, PendingOK,
           ResendInv, ResendOK, InFlight
  <2>2. QED
    BY <2>1 DEF AtMostOneStray
<1>2. QED
  BY <1>1, Invariance, PTL

-----------------------------------------------------------------------------
(* What a step may do to a slot                                            *)

\* An invalidation names a value that is out of date, from before it is sent until
\* long after: only one container moves, and once.
InvalidationInv ==
  \A m \in control :
    m.kind = "invalidate" => m.entry.val \in Abandoned \ {local[m.entry.key]}

\* The slots of a cache that hold an address.
Live(c) == {i \in Slot : c[i].val # NoAddr}

IsCache(c) == c \in [Slot -> SlotType(VIP, Host)]

LEMMA PutLive ==
  ASSUME NEW c, IsCache(c), NEW i \in Slot, NEW k \in VIP, NEW v \in Host
  PROVE  /\ IsCache(Put(c, i, k, v)) /\ Live(c) \subseteq Live(Put(c, i, k, v))
         /\ IsCache(PutIfNotEvict(c, i, k, v))
         /\ Live(c) \subseteq Live(PutIfNotEvict(c, i, k, v))
  BY SwitchV2PAssumption DEF IsCache, Live, Put, PutIfNotEvict, SlotType

LEMMA GetLive ==
  ASSUME NEW c, IsCache(c), NEW i, NEW k
  PROVE  IsCache(Get(c, i, k)) /\ Live(Get(c, i, k)) = Live(c)
  BY DEF IsCache, Live, Get, SlotType

\* Every branch but the one for strayed packets leaves the slots in use in use.
LEMMA LearningLive ==
  ASSUME TypeOK, NEW p \in packets, NEW s \in Switch,
         \/ ReceivePromoting(s, p) \/ ReceiveAtLeaf(s, p) \/ ReceiveAtCore(s, p)
         \/ ReceiveAtSpine(s, p) \/ ReceiveAtGwLeaf(s, p)
         \/ ReceiveLocalLearning(s, p) \/ ReceiveNoCache(s, p)
  PROVE  \E c : cache' = [cache EXCEPT ![s] = c] /\ Live(cache[s]) \subseteq Live(c)
<1> DEFINE Out(c) == IsCache(c) /\ Live(cache[s]) \subseteq Live(c)
           e == Learn(p)
           i == SlotOf(s, e.key)
<1>1. /\ p.idst \in VIP /\ p.isrc \in VIP /\ p.dst \in Host /\ p.src \in Host
      /\ e.key \in VIP /\ e.val \in Host
  BY DEF TypeOK, Packet, Learn, Entry
<1>2. SlotOf(s, p.idst) \in Slot /\ SlotOf(s, p.isrc) \in Slot /\ i \in Slot
  BY <1>1, SlotOfType
<1>3. Out(cache[s])
  BY DEF TypeOK, IsCache
<1> HIDE DEF i, e
<1>4. \A c : Out(c) => /\ Out(Put(c, i, e.key, e.val))
                       /\ Out(PutIfNotEvict(c, i, e.key, e.val))
                       /\ Out(Put(c, SlotOf(s, p.idst), p.idst, p.dst))
                       /\ Out(PutIfNotEvict(c, SlotOf(s, p.idst), p.idst, p.dst))
                       /\ Out(Put(c, SlotOf(s, p.isrc), p.isrc, p.src))
  <2> SUFFICES ASSUME NEW c, Out(c)
               PROVE  /\ Out(Put(c, i, e.key, e.val))
                      /\ Out(PutIfNotEvict(c, i, e.key, e.val))
                      /\ Out(Put(c, SlotOf(s, p.idst), p.idst, p.dst))
                      /\ Out(PutIfNotEvict(c, SlotOf(s, p.idst), p.idst, p.dst))
                      /\ Out(Put(c, SlotOf(s, p.isrc), p.isrc, p.src))
    OBVIOUS
  <2>1. ASSUME NEW j \in Slot, NEW k \in VIP, NEW v \in Host
        PROVE  Out(Put(c, j, k, v)) /\ Out(PutIfNotEvict(c, j, k, v))
    BY PutLive
  <2> QED BY <1>1, <1>2, <2>1
<1>5. \A c, j, k : Out(c) => Out(Get(c, j, k))
  BY GetLive
<1>6. \A c, q : Out(c) => Out(Lookup(s, c, q))
  BY <1>5 DEF Lookup
<1> HIDE DEF Out
<1>7. \A c, q : Forward(s, c, p, q) => cache' = [cache EXCEPT ![s] = c]
  BY DEF Forward
<1>8. CASE ReceivePromoting(s, p)
  BY <1>3, <1>5, <1>7, <1>8 DEF ReceivePromoting, Out
<1>9. CASE ReceiveAtLeaf(s, p)
  <2>1. PICK c : Out(c) /\ Forward(s, Lookup(s, c, p), p, LookedUp(s, c, p))
    BY <1>3, <1>4, <1>9 DEF ReceiveAtLeaf
  <2> QED BY <1>6, <1>7, <2>1 DEF Out
<1>10. CASE ReceiveAtCore(s, p)
  <2>1. \E c, q : Out(c) /\ Forward(s, Lookup(s, c, q), p, LookedUp(s, c, q))
    BY <1>3, <1>4, <1>10 DEF ReceiveAtCore, i, e
  <2> QED BY <1>6, <1>7, <2>1 DEF Out
<1>11. CASE ReceiveAtSpine(s, p)
  <2>1. \E c, q : Out(c) /\ Forward(s, Lookup(s, c, q), p, LookedUp(s, c, q))
    BY <1>3, <1>4, <1>6, <1>11 DEF ReceiveAtSpine, i, e
  <2> QED BY <1>6, <1>7, <2>1 DEF Out
<1>12. CASE ReceiveAtGwLeaf(s, p)
  <2>1. \E c, q, r : Out(c) /\ Forward(s, Lookup(s, c, q), p, r)
    BY <1>3, <1>4, <1>12 DEF ReceiveAtGwLeaf, i, e
  <2> QED BY <1>6, <1>7, <2>1 DEF Out
<1>13. CASE ReceiveLocalLearning(s, p) \/ ReceiveNoCache(s, p)
  <2>1. \E c, q : Out(c) /\ Forward(s, c, p, q)
    BY <1>3, <1>4, <1>5, <1>13 DEF ReceiveLocalLearning, ReceiveNoCache
  <2> QED BY <1>7, <2>1 DEF Out
<1> QED BY <1>8, <1>9, <1>10, <1>11, <1>12, <1>13

\* What removes an entry, a strayed packet or an invalidation, holds a value that is
\* out of date, and removes nothing but that value.
LEMMA ConfirmedIsStale ==
  ASSUME NEW s \in Switch, IsCache(cache[s]), NEW e, NEW i \in Slot,
         e.val # local[e.key],
         cache' = [cache EXCEPT ![s] =
           IF Confirms(cache[s], i, e) THEN Remove(Get(cache[s], i, e.key), i)
           ELSE Get(cache[s], i, e.key)],
         cache \in [Switch -> [Slot -> SlotType(VIP, Host)]],
         NEW t \in Switch, NEW j \in Slot,
         cache[t][j].val # NoAddr, cache[t][j].val = local[cache[t][j].key]
  PROVE  cache'[t][j] # EmptySlot
<1>1. CASE t # s
  BY <1>1 DEF EmptySlot
<1>2. CASE t = s
  <2>1. CASE Confirms(cache[s], i, e)
    <3>1. j # i
      BY <1>2, <2>1 DEF Confirms, Find, Value
    <3>2. cache'[t][j].val = cache[t][j].val
      BY <1>2, <2>1, <3>1 DEF Remove, Get, SlotType
    <3> QED BY <3>2 DEF EmptySlot
  <2>2. CASE ~Confirms(cache[s], i, e)
    <3>1. j \in Live(Get(cache[s], i, e.key))
      BY <1>2, GetLive DEF Live
    <3> QED BY <1>2, <2>2, <3>1 DEF Live, EmptySlot
  <2> QED BY <2>1, <2>2
<1> QED BY <1>1, <1>2

LEMMA InvalidationNext == IInv /\ InvalidationInv /\ [Next]_vars => InvalidationInv'
<1> SUFFICES ASSUME IInv, InvalidationInv, [Next]_vars PROVE InvalidationInv'
  OBVIOUS
<1> DEFINE Stale(m) == m.kind = "invalidate" => m.entry.val \in Abandoned \ {local[m.entry.key]}
<1>1. ASSUME local' = local, \A m \in control' : Stale(m) PROVE InvalidationInv'
  BY <1>1 DEF InvalidationInv, Abandoned
<1>2. ASSUME NEW p \in packets, p.at \in Switch, ReceiveInvalidating(p.at, p)
      PROVE  InvalidationInv'
  <2> DEFINE e == [key |-> p.idst, val |-> p.inval.val]
  <2>1. local' = local
    BY <1>2 DEF ReceiveInvalidating, Forward
  <2>2. p.inval.val \in Abandoned \ {local[p.idst]}
    BY <1>2 DEF IInv, PacketInv, PacketOK, Strayed, ReceiveInvalidating
  <2>3. \/ control' = control
        \/ \E g \in Generated("invalidate", p, e, p.at, p.hit) : control' = control \cup g
    BY <1>2 DEF ReceiveInvalidating
  <2>4. \A g \in Generated("invalidate", p, e, p.at, p.hit) : \A m \in g : m.entry = e
    BY DEF Generated
  <2>5. \A m \in control' : Stale(m)
    BY <2>2, <2>3, <2>4 DEF InvalidationInv
  <2> QED BY <1>1, <2>1, <2>5
<1>3. ASSUME NEW p \in packets, NEW s \in Switch,
             \/ ReceivePromoting(s, p) \/ ReceiveAtLeaf(s, p) \/ ReceiveAtCore(s, p)
             \/ ReceiveAtSpine(s, p) \/ ReceiveAtGwLeaf(s, p)
             \/ ReceiveLocalLearning(s, p) \/ ReceiveNoCache(s, p)
      PROVE  InvalidationInv'
  <2>1. local' = local
    BY <1>3 DEF ReceivePromoting, ReceiveAtLeaf, ReceiveAtCore, ReceiveAtSpine,
       ReceiveAtGwLeaf, ReceiveLocalLearning, ReceiveNoCache, Forward
  <2>2. \/ control' = control
        \/ \E e, d : \E g \in Generated("learn", p, e, s, d) : control' = control \cup g
    BY <1>3 DEF ReceivePromoting, ReceiveAtLeaf, ReceiveAtCore, ReceiveAtSpine,
       ReceiveAtGwLeaf, ReceiveLocalLearning, ReceiveNoCache
  <2>3. \A e, d : \A g \in Generated("learn", p, e, s, d) : \A m \in g : m.kind = "learn"
    BY DEF Generated
  <2>4. \A m \in control' : Stale(m)
    BY <2>2, <2>3 DEF InvalidationInv
  <2> QED BY <1>1, <2>1, <2>4
<1>4. CASE HandleProtocolPacket
  <2>1. PICK m \in control :
          \/ control' = control \ {m}
          \/ \E n : control' = (control \ {m}) \cup {[m EXCEPT !.at = n]}
    BY <1>4 DEF HandleProtocolPacket
  <2>2. \A n : [m EXCEPT !.at = n].kind = m.kind /\ [m EXCEPT !.at = n].entry = m.entry
    BY DEF IInv, TypeOK, ControlPacket
  <2>3. local' = local
    BY <1>4 DEF HandleProtocolPacket
  <2>4. Stale(m) /\ \A n : Stale([m EXCEPT !.at = n])
    BY <2>2 DEF InvalidationInv
  <2>5. \A x \in control' : Stale(x)
    BY <2>1, <2>4 DEF InvalidationInv
  <2> QED BY <1>1, <2>3, <2>5
<1>5. CASE Migration
  <2>1. Abandoned = {}
    BY <1>5 DEF IInv, MigrationInv, Migration, Abandoned
  <2>2. \A m \in control : m.kind # "invalidate"
    BY <2>1 DEF InvalidationInv
  <2> QED BY <1>5, <2>2 DEF InvalidationInv, Migration
<1>6. CASE \/ GatewayReceive \/ GatewaySend \/ HostReceive \/ Misdelivered \/ HostResend
           \/ (\E f \in Flows : ClientSend(f)) \/ Drop \/ Done \/ UNCHANGED vars
  <2>1. local' = local /\ control' \subseteq control
    BY <1>6 DEF GatewayReceive, GatewaySend, HostReceive, Misdelivered, HostResend,
       ClientSend, Drop, Done, vars
  <2> QED BY <1>1, <2>1 DEF InvalidationInv
<1>7. CASE SwitchReceive
  BY <1>2, <1>3, <1>7 DEF SwitchReceive
<1> QED BY <1>4, <1>5, <1>6, <1>7 DEF Next, System

\* However late invalidations and strayed packets arrive, they leave alone every
\* entry that is right by then (p4-switch-app.cc:206, 413).
THEOREM FreshKept == Spec => FreshNeverInvalidated
<1> DEFINE Fresh(t, j) ==
             cache[t][j].val # NoAddr /\ cache[t][j].val = local[cache[t][j].key]
           Kept == \A t \in Switch, j \in Slot : Fresh(t, j) => cache'[t][j] # EmptySlot
<1>1. ASSUME IInv, InvalidationInv, [Next]_vars PROVE Kept
  <2> SUFFICES ASSUME NEW t \in Switch, NEW j \in Slot, Fresh(t, j)
               PROVE  cache'[t][j] # EmptySlot
    OBVIOUS
  <2>0. TypeOK /\ \A s \in Switch : IsCache(cache[s])
    BY <1>1 DEF IInv, TypeOK, IsCache
  <2>1. ASSUME NEW s \in Switch, NEW c, cache' = [cache EXCEPT ![s] = c],
               Live(cache[s]) \subseteq Live(c)
        PROVE  cache'[t][j] # EmptySlot
    BY <2>0, <2>1 DEF TypeOK, Live, EmptySlot
  <2>2. ASSUME NEW p \in packets, p.at \in Switch, ReceiveInvalidating(p.at, p)
        PROVE  cache'[t][j] # EmptySlot
    <3> DEFINE i == SlotOf(p.at, p.inval.key)
    <3>1. p.inval.key = p.idst /\ p.inval.val # local[p.inval.key] /\ p.idst \in VIP
      BY <1>1, <2>2
         DEF IInv, TypeOK, PacketInv, PacketOK, Strayed, ReceiveInvalidating, Packet
    <3>2. cache' = [cache EXCEPT ![p.at] =
                      IF Confirms(cache[p.at], i, p.inval)
                      THEN Remove(Get(cache[p.at], i, p.inval.key), i)
                      ELSE Get(cache[p.at], i, p.inval.key)]
      BY <2>2 DEF ReceiveInvalidating, Forward
    <3>3. i \in Slot
      BY <2>2, <3>1, SlotOfType
    <3> QED BY <2>0, <2>2, <3>1, <3>2, <3>3, ConfirmedIsStale DEF TypeOK
  <2>3. CASE SwitchReceive
    <3>1. PICK p \in packets :
            /\ p.at \in Switch
            /\ \/ ReceiveInvalidating(p.at, p) \/ ReceivePromoting(p.at, p)
               \/ ReceiveAtLeaf(p.at, p) \/ ReceiveAtCore(p.at, p)
               \/ ReceiveAtSpine(p.at, p) \/ ReceiveAtGwLeaf(p.at, p)
               \/ ReceiveLocalLearning(p.at, p) \/ ReceiveNoCache(p.at, p)
      BY <2>3 DEF SwitchReceive
    <3> QED BY <2>0, <2>1, <2>2, <3>1, LearningLive
  <2>4. CASE HandleProtocolPacket
    <3>1. PICK m \in control :
            LET s == m.at
                i == SlotOf(s, m.entry.key)
                c == Get(cache[s], i, m.entry.key)
            IN  cache' = [cache EXCEPT ![s] =
                  CASE m.kind = "invalidate" ->
                         IF Confirms(cache[s], i, m.entry) THEN Remove(c, i) ELSE c
                    [] m.kind = "learn" /\ m.dst = s ->
                         Put(cache[s], i, m.entry.key, m.entry.val)
                    [] OTHER -> cache[s]]
      BY <2>4 DEF HandleProtocolPacket
    <3> DEFINE s == m.at
               i == SlotOf(s, m.entry.key)
    <3>2. /\ m.kind \in {"learn", "invalidate"} /\ s \in Switch
          /\ m.entry.key \in VIP /\ m.entry.val \in Host /\ i \in Slot
      BY <2>0, SlotOfType DEF TypeOK, ControlPacket, ControlKind, Entry
    <3>3. CASE m.kind = "invalidate"
      <4>1. m.entry.val # local[m.entry.key]
        BY <1>1, <3>3 DEF InvalidationInv
      <4>2. cache' = [cache EXCEPT ![s] =
                        IF Confirms(cache[s], i, m.entry)
                        THEN Remove(Get(cache[s], i, m.entry.key), i)
                        ELSE Get(cache[s], i, m.entry.key)]
        BY <3>1, <3>3
      <4> QED BY <2>0, <3>2, <4>1, <4>2, ConfirmedIsStale DEF TypeOK
    <3>4. CASE m.kind = "learn"
      <4>1. \/ cache' = [cache EXCEPT ![s] = Put(cache[s], i, m.entry.key, m.entry.val)]
            \/ cache' = [cache EXCEPT ![s] = cache[s]]
        BY <3>1, <3>4
      <4> QED BY <2>0, <2>1, <3>2, <4>1, PutLive
    <3> QED BY <3>2, <3>3, <3>4
  <2>5. CASE cache' = cache
    BY <2>5 DEF EmptySlot
  <2> QED BY <1>1, <2>3, <2>4, <2>5
          DEF Next, System, GatewayReceive, GatewaySend, HostReceive, Misdelivered,
              HostResend, ClientSend, Migration, Drop, Done, vars
<1>2. Init => InvalidationInv
  BY DEF Init, InvalidationInv
<1>3. IInv /\ InvalidationInv /\ [Next]_vars =>
        [\A s \in Switch, i \in Slot :
           /\ cache[s][i].val # NoAddr
           /\ cache[s][i].val = local[cache[s][i].key]
           => cache'[s][i] # EmptySlot]_vars
  BY <1>1
<1> QED BY <1>2, <1>3, InvalidationNext, Invariance, PTL DEF Spec, FreshNeverInvalidated

-----------------------------------------------------------------------------
(* Every step of the network is one of Delivery, or none                   *)

\* A packet is in one place, as one copy, was sent, and has not arrived yet.
OneCopy ==
  /\ \A p, q \in InFlight : p.id = q.id => p = q
  /\ packets \cap gwPending = {} /\ packets \cap resends = {} /\ gwPending \cap resends = {}
  /\ \A p \in InFlight : p.id <= sent /\ p.id \notin delivered
  /\ delivered \subseteq 1 .. sent

Carried(n) == \E p \in InFlight : p.id = n
Straying(n) == \E p \in InFlight : p.id = n /\ p.strays # 0

\* What StatusOf comes down to as long as there is one copy of every packet.
Fate(n) ==
  IF n \in delivered THEN "delivered"
  ELSE IF Carried(n) THEN IF Straying(n) THEN "detour" ELSE "underway"
  ELSE IF n <= sent THEN "lost" ELSE "unsent"

LEMMA StatusIsFate == OneCopy => \A n \in PacketId : StatusOf(n) = Fate(n)
<1> SUFFICES ASSUME OneCopy, NEW n \in PacketId PROVE StatusOf(n) = Fate(n)
  OBVIOUS
<1> DEFINE copies == {p \in InFlight : p.id = n}
<1>1. CASE Carried(n)
  <2>1. PICK p \in InFlight : p.id = n
    BY <1>1 DEF Carried
  <2>2. copies = {p}
    BY <2>1 DEF OneCopy
  <2>3. Cardinality(copies) = 1
    BY <2>2, FS_Singleton
  <2>4. n \notin delivered
    BY <2>1 DEF OneCopy
  <2>5. StatusOf(n) = IF \E q \in copies : q.strays = 0 THEN "underway" ELSE "detour"
    BY <2>2, <2>3, <2>4 DEF StatusOf
  <2> QED BY <1>1, <2>1, <2>2, <2>4, <2>5 DEF Fate, Straying
<1>2. CASE ~Carried(n)
  <2>1. copies = {}
    BY <1>2 DEF Carried
  <2>2. Cardinality(copies) = 0
    BY <2>1, FS_EmptySet
  <2>3. CASE n \in delivered
    BY <2>1, <2>2, <2>3 DEF StatusOf, Fate
  <2>4. CASE n \notin delivered
    <3>1. StatusOf(n) = IF n <= sent THEN "lost" ELSE "unsent"
      BY <2>1, <2>2, <2>4 DEF StatusOf
    <3> QED BY <1>2, <2>4, <3>1 DEF Fate
  <2> QED BY <2>3, <2>4
<1> QED BY <1>1, <1>2

\* A packet under way is replaced by what has become of it, here or elsewhere.
Passes(p, r) ==
  /\ r.id = p.id
  /\ InFlight' = (InFlight \ {p}) \cup {r}
  /\ \/ p \in packets /\ packets' = (packets \ {p}) \cup {r} /\ UNCHANGED <<gwPending, resends>>
     \/ /\ p \in packets /\ packets' = packets \ {p}
        /\ gwPending' = gwPending \cup {r} /\ UNCHANGED resends
     \/ /\ p \in packets /\ packets' = packets \ {p}
        /\ resends' = resends \cup {r} /\ UNCHANGED gwPending
     \/ /\ p \in gwPending /\ gwPending' = gwPending \ {p}
        /\ packets' = packets \cup {r} /\ UNCHANGED resends
     \/ /\ p \in resends /\ resends' = resends \ {p}
        /\ packets' = packets \cup {r} /\ UNCHANGED gwPending
  /\ UNCHANGED <<sent, delivered>>

LEMMA PassesOneCopy ==
  ASSUME OneCopy, NEW p \in InFlight, NEW r, Passes(p, r)
  PROVE  /\ OneCopy'
         /\ \A n \in PacketId : n # p.id => Fate(n)' = Fate(n)
         /\ Fate(p.id) = IF p.strays # 0 THEN "detour" ELSE "underway"
         /\ Fate(p.id)' = IF r.strays # 0 THEN "detour" ELSE "underway"
<1>1. \A q \in InFlight : q.id = r.id => q = p
  BY DEF OneCopy, Passes
<1>2. /\ packets' \cap gwPending' = {} /\ packets' \cap resends' = {}
      /\ gwPending' \cap resends' = {}
  BY <1>1 DEF Passes, OneCopy, InFlight
<1>3. \A x, y \in InFlight' : x.id = y.id => x = y
  BY <1>1 DEF Passes, OneCopy
<1>4. /\ \A x \in InFlight' : x.id <= sent' /\ x.id \notin delivered'
      /\ delivered' \subseteq 1 .. sent'
  BY DEF Passes, OneCopy
<1>5. OneCopy'
  BY <1>2, <1>3, <1>4 DEF OneCopy
<1>6. \A n : n # p.id => (Carried(n)' <=> Carried(n)) /\ (Straying(n)' <=> Straying(n))
  BY DEF Carried, Straying, Passes
<1>7. /\ Carried(p.id) /\ Carried(p.id)'
      /\ Straying(p.id) <=> p.strays # 0
      /\ Straying(p.id)' <=> r.strays # 0
  BY <1>1 DEF Carried, Straying, Passes
<1>8. \A n : n # p.id => Fate(n)' = Fate(n)
  BY <1>6 DEF Fate, Passes
<1>9. p.id \notin delivered /\ p.id \notin delivered'
  BY DEF OneCopy, Passes
<1>10. Fate(p.id) = IF p.strays # 0 THEN "detour" ELSE "underway"
  BY <1>7, <1>9 DEF Fate
<1>11. Fate(p.id)' = IF r.strays # 0 THEN "detour" ELSE "underway"
  BY <1>7, <1>9 DEF Fate
<1> QED BY <1>5, <1>8, <1>10, <1>11

\* A packet is taken out of the network: delivered or dropped.
LEMMA RemovedOneCopy ==
  ASSUME OneCopy, NEW p \in packets, packets' = packets \ {p}, p.id \in PacketId,
         delivered' = delivered \/ delivered' = delivered \cup {p.id},
         UNCHANGED <<gwPending, resends, sent>>
  PROVE  /\ OneCopy'
         /\ \A n \in PacketId : n # p.id => Fate(n)' = Fate(n)
         /\ Fate(p.id) = IF p.strays # 0 THEN "detour" ELSE "underway"
         /\ Fate(p.id)' = IF delivered' = delivered THEN "lost" ELSE "delivered"
<1>1. InFlight' = InFlight \ {p} /\ p \in InFlight
  BY DEF InFlight, OneCopy
<1>2. p.id \in 1 .. sent /\ p.id \notin delivered
  BY <1>1 DEF OneCopy, PacketId
<1>3. OneCopy'
  <2>1. \A x \in InFlight' : x.id # p.id
    BY <1>1 DEF OneCopy
  <2>2. delivered' \subseteq 1 .. sent'
    BY <1>2 DEF OneCopy
  <2>3. \A x \in InFlight' : x.id <= sent' /\ x.id \notin delivered'
    BY <1>1, <2>1 DEF OneCopy
  <2>4. \A x, y \in InFlight' : x.id = y.id => x = y
    BY <1>1 DEF OneCopy
  <2> QED BY <2>2, <2>3, <2>4 DEF OneCopy
<1>4. \A n : n # p.id => (Carried(n)' <=> Carried(n)) /\ (Straying(n)' <=> Straying(n))
  BY <1>1 DEF Carried, Straying
<1>5. Carried(p.id) /\ ~Carried(p.id)' /\ (Straying(p.id) <=> p.strays # 0)
  BY <1>1 DEF Carried, Straying, OneCopy
<1>6. \A n : n # p.id => Fate(n)' = Fate(n)
  BY <1>4 DEF Fate
<1>7. Fate(p.id) = IF p.strays # 0 THEN "detour" ELSE "underway"
  BY <1>2, <1>5 DEF Fate
<1>8. Fate(p.id)' = IF delivered' = delivered THEN "lost" ELSE "delivered"
  BY <1>2, <1>5 DEF Fate
<1> QED BY <1>3, <1>6, <1>7, <1>8

\* A packet leaves the switch as itself, whatever the branch has done to its headers.
Hop(q, n) == [q EXCEPT !.at = n, !.age = IF @ < MaxAge THEN @ + 1 ELSE @]

SamePacket(p, q) ==
  \A n : Hop(q, n).id = p.id /\ Hop(q, n).strays = p.strays

LEMMA EditsKeepPacket ==
  ASSUME NEW p \in Packet
  PROVE  /\ SamePacket(p, p) /\ SamePacket(p, Spawn(p))
         /\ \A v : /\ SamePacket(p, [p EXCEPT !.dst = v])
                   /\ SamePacket(p, [p EXCEPT !.evict = v])
         /\ \A v : /\ SamePacket(p, [[p EXCEPT !.dst = v] EXCEPT !.hit = None])
                   /\ SamePacket(p, Spawn([[p EXCEPT !.dst = v] EXCEPT !.hit = None]))
         /\ SamePacket(p, [p EXCEPT !.hit = None])
         /\ SamePacket(p, Spawn([p EXCEPT !.hit = None]))
  BY DEF SamePacket, Hop, Spawn, Packet

LEMMA LookedUpKeepsPacket ==
  ASSUME NEW p \in Packet, NEW q, q = p \/ \E e : q = [p EXCEPT !.evict = e],
         NEW s, NEW c
  PROVE  SamePacket(p, LookedUp(s, c, q)) /\ SamePacket(p, Spawn(LookedUp(s, c, q)))
<1>1. PICK r : \/ LookedUp(s, c, q) = q
               \/ LookedUp(s, c, q) = [q EXCEPT !.hit = s, !.dst = r]
  BY DEF LookedUp
<1>2. CASE q = p
  BY <1>1, <1>2 DEF SamePacket, Hop, Spawn, Packet
<1>3. CASE \E e : q = [p EXCEPT !.evict = e]
  <2>1. PICK e : q = [p EXCEPT !.evict = e]
    BY <1>3
  <2> QED BY <1>1, <2>1 DEF SamePacket, Hop, Spawn, Packet
<1> QED BY <1>2, <1>3

LEMMA SwitchPasses ==
  ASSUME TypeOK, OneCopy, NEW p \in packets, NEW s \in Switch,
         \/ ReceiveInvalidating(s, p) \/ ReceivePromoting(s, p) \/ ReceiveAtLeaf(s, p)
         \/ ReceiveAtCore(s, p) \/ ReceiveAtSpine(s, p) \/ ReceiveAtGwLeaf(s, p)
         \/ ReceiveLocalLearning(s, p) \/ ReceiveNoCache(s, p)
  PROVE  local' = local /\ \E r : Passes(p, r) /\ r.strays = p.strays
<1>0. p \in Packet
  BY DEF TypeOK
<1>1. \E c, q : Forward(s, c, p, q) /\ SamePacket(p, q)
  <2>1. CASE ReceiveInvalidating(s, p)
    BY <1>0, <2>1, EditsKeepPacket DEF ReceiveInvalidating
  <2>2. CASE ReceivePromoting(s, p)
    BY <1>0, <2>2, EditsKeepPacket DEF ReceivePromoting
  <2>3. CASE ReceiveAtLeaf(s, p)
    BY <1>0, <2>3, LookedUpKeepsPacket DEF ReceiveAtLeaf
  <2>4. CASE ReceiveAtCore(s, p)
    BY <1>0, <2>4, LookedUpKeepsPacket DEF ReceiveAtCore
  <2>5. CASE ReceiveAtSpine(s, p)
    BY <1>0, <2>5, LookedUpKeepsPacket DEF ReceiveAtSpine
  <2>6. CASE ReceiveAtGwLeaf(s, p)
    BY <1>0, <2>6, LookedUpKeepsPacket DEF ReceiveAtGwLeaf
  <2>7. CASE ReceiveLocalLearning(s, p) \/ ReceiveNoCache(s, p)
    BY <1>0, <2>7, EditsKeepPacket DEF ReceiveLocalLearning, ReceiveNoCache
  <2> QED BY <2>1, <2>2, <2>3, <2>4, <2>5, <2>6, <2>7
<1>2. PICK c, q : Forward(s, c, p, q) /\ SamePacket(p, q)
  BY <1>1
<1>3. PICK n : packets' = (packets \ {p}) \cup {Hop(q, n)}
  BY <1>2 DEF Forward, Forwarded, Hop
<1>4. InFlight' = (InFlight \ {p}) \cup {Hop(q, n)}
  BY <1>2, <1>3 DEF Forward, InFlight, OneCopy
<1>5. Passes(p, Hop(q, n)) /\ Hop(q, n).strays = p.strays
  BY <1>2, <1>3, <1>4 DEF Passes, Forward, SamePacket
<1> QED BY <1>2, <1>5 DEF Forward

\* The steps of gateways and hosts that pass a packet on.
LEMMA EndpointPasses ==
  ASSUME IInv, OneCopy, GatewayReceive \/ GatewaySend \/ Misdelivered \/ HostResend
  PROVE  /\ local' = local
         /\ \E p \in InFlight : \E r :
              /\ Passes(p, r)
              /\ \/ r.strays = p.strays
                 \/ p.strays = 0 /\ r.strays = 1 /\ Abandoned # {}
<1>0. packets \subseteq Packet /\ gwPending \subseteq Packet /\ resends \subseteq Packet
  BY DEF IInv, TypeOK
<1>1. CASE GatewayReceive
  <2>1. PICK p \in packets :
          /\ packets' = packets \ {p}
          /\ gwPending' = gwPending \cup {[p EXCEPT !.dst = directory[p.idst]]}
    BY <1>1 DEF GatewayReceive
  <2> DEFINE r == [p EXCEPT !.dst = directory[p.idst]]
  <2>2. r.id = p.id /\ r.strays = p.strays
    BY <1>0 DEF Packet
  <2> HIDE DEF r
  <2>3. InFlight' = (InFlight \ {p}) \cup {r}
    BY <1>1, <2>1 DEF GatewayReceive, InFlight, OneCopy, r
  <2>4. Passes(p, r)
    BY <1>1, <2>1, <2>2, <2>3 DEF Passes, GatewayReceive, r
  <2> QED BY <1>1, <2>2, <2>4 DEF GatewayReceive, InFlight
<1>2. CASE GatewaySend
  <2>1. PICK p \in gwPending :
          /\ gwPending' = gwPending \ {p} /\ UNCHANGED resends
          /\ packets' = packets \cup
               {[p EXCEPT !.at = FirstHop(p.at, p.dst), !.evict = None, !.inval = None]}
    BY <1>2 DEF GatewaySend
  <2> DEFINE r == [p EXCEPT !.at = FirstHop(p.at, p.dst), !.evict = None, !.inval = None]
  <2>2. r.id = p.id /\ r.strays = p.strays
    BY <1>0 DEF Packet
  <2>3. packets' = packets \cup {r}
    BY <2>1
  <2> HIDE DEF r
  <2>4. InFlight' = (InFlight \ {p}) \cup {r}
    BY <2>1, <2>3 DEF InFlight, OneCopy
  <2>5. Passes(p, r)
    BY <1>2, <2>1, <2>2, <2>3, <2>4 DEF Passes, GatewaySend
  <2> QED BY <1>2, <2>2, <2>5 DEF GatewaySend, InFlight
<1>3. CASE Misdelivered
  <2>1. PICK p \in packets :
          /\ packets' = packets \ {p}
          /\ resends' = resends \cup
               {[p EXCEPT !.inval = [key |-> p.idst, val |-> p.at], !.strays = @ + 1]}
    BY <1>3 DEF Misdelivered
  <2> DEFINE r == [p EXCEPT !.inval = [key |-> p.idst, val |-> p.at], !.strays = @ + 1]
  <2>2. r.id = p.id /\ r.strays = p.strays + 1 /\ p.strays \in Nat
    BY <1>0 DEF Packet
  <2>3. r \in resends' /\ local' = local
    BY <1>3, <2>1 DEF Misdelivered
  <2> HIDE DEF r
  <2>4. r.strays = 1 /\ Abandoned # {}
    <3>1. ResendOK(r)'
      BY <1>3, <2>3, MisdeliveredInv DEF IInv, ResendInv
    <3> QED BY <2>3, <3>1, LocalSame DEF ResendOK
  <2>5. InFlight' = (InFlight \ {p}) \cup {r}
    BY <1>3, <2>1 DEF Misdelivered, InFlight, OneCopy, r
  <2>6. Passes(p, r)
    BY <1>3, <2>1, <2>2, <2>5 DEF Passes, Misdelivered, r
  <2> QED BY <2>2, <2>3, <2>4, <2>6 DEF InFlight
<1>4. CASE HostResend
  <2>1. PICK p, d :
          /\ p \in resends
          /\ resends' = resends \ {p} /\ UNCHANGED gwPending
          /\ packets' = packets \cup
               {[p EXCEPT !.src = p.at, !.dst = d, !.at = FirstHop(p.at, d), !.age = 0]}
    BY <1>4 DEF HostResend
  <2> DEFINE r == [p EXCEPT !.src = p.at, !.dst = d, !.at = FirstHop(p.at, d), !.age = 0]
  <2>2. r.id = p.id /\ r.strays = p.strays
    BY <1>0, <2>1 DEF Packet
  <2>3. packets' = packets \cup {r}
    BY <2>1
  <2> HIDE DEF r
  <2>4. InFlight' = (InFlight \ {p}) \cup {r}
    BY <2>1, <2>3 DEF InFlight, OneCopy
  <2>5. Passes(p, r)
    BY <1>4, <2>1, <2>2, <2>3, <2>4 DEF Passes, HostResend
  <2> QED BY <1>4, <2>1, <2>2, <2>5 DEF HostResend, InFlight
<1> QED BY <1>1, <1>2, <1>3, <1>4

LEMMA SendsOneCopy ==
  ASSUME IInv, OneCopy, NEW f \in Flows, ClientSend(f)
  PROVE  /\ OneCopy' /\ local' = local
         /\ \E m \in PacketId :
              /\ \A n \in PacketId : n # m => Fate(n)' = Fate(n)
              /\ Fate(m) = "unsent" /\ Fate(m)' = "underway"
<1>1. PICK r : /\ packets' = packets \cup {r}
               /\ r.id = sent + 1 /\ r.strays = 0
  <2> DEFINE New(g) ==
        [id |-> sent + 1, at |-> FirstHop(Placement[f[1]], g), src |-> Placement[f[1]],
         dst |-> g, age |-> 0, isrc |-> f[1], idst |-> f[2], origin |-> Placement[f[1]],
         hit |-> None, evict |-> None, inval |-> None, strays |-> 0, spawned |-> 0]
  <2>1. PICK g : packets' = packets \cup {New(g)}
    BY DEF ClientSend
  <2>2. New(g).id = sent + 1 /\ New(g).strays = 0
    OBVIOUS
  <2> HIDE DEF New
  <2> QED BY <2>1, <2>2
<1>2. /\ sent \in Nat /\ sent' = sent + 1 /\ sent + 1 \in PacketId
      /\ UNCHANGED <<gwPending, resends, delivered, local>>
  BY SwitchV2PAssumption DEF ClientSend, IInv, TypeOK, PacketId
<1>3. PICK m \in PacketId : m = sent + 1
  BY <1>2
<1>4. InFlight' = InFlight \cup {r}
  BY <1>1, <1>2 DEF InFlight
<1>5. \A p \in InFlight : p.id \in Nat /\ p.id <= sent /\ p.id # m
  <2>1. \A p \in InFlight : p.id \in Nat /\ p.id <= sent
    BY DEF IInv, TypeOK, Packet, PacketId, InFlight, OneCopy
  <2> QED BY <1>2, <1>3, <2>1
<1>6. OneCopy'
  <2>1. r \notin InFlight
    BY <1>1, <1>3, <1>5
  <2>2. /\ packets' \cap gwPending' = {} /\ packets' \cap resends' = {}
        /\ gwPending' \cap resends' = {}
    BY <1>1, <1>2, <2>1 DEF OneCopy, InFlight
  <2>3. \A x, y \in InFlight' : x.id = y.id => x = y
    BY <1>1, <1>3, <1>4, <1>5 DEF OneCopy
  <2>4. delivered' \subseteq 1 .. sent'
    BY <1>2 DEF OneCopy
  <2>5. m \notin delivered
    BY <1>2, <1>3 DEF OneCopy
  <2>6. \A x \in InFlight' : x.id <= sent' /\ x.id \notin delivered'
    BY <1>1, <1>2, <1>3, <1>4, <1>5, <2>5 DEF OneCopy
  <2> QED BY <2>2, <2>3, <2>4, <2>6 DEF OneCopy
<1>7. \A n : n # m => (Carried(n)' <=> Carried(n)) /\ (Straying(n)' <=> Straying(n))
  BY <1>1, <1>3, <1>4 DEF Carried, Straying
<1>8. \A n \in PacketId : n # m => (n <= sent <=> n <= sent')
  BY <1>2, <1>3 DEF PacketId
<1>9. \A n \in PacketId : n # m => Fate(n)' = Fate(n)
  BY <1>2, <1>7, <1>8 DEF Fate
<1>10. ~Carried(m) /\ Carried(m)' /\ ~Straying(m)'
  BY <1>1, <1>3, <1>4, <1>5 DEF Carried, Straying
<1>11. m \notin delivered /\ m \notin delivered' /\ ~(m <= sent)
  BY <1>2, <1>3 DEF OneCopy
<1>12. Fate(m) = "unsent" /\ Fate(m)' = "underway"
  BY <1>10, <1>11 DEF Fate
<1> QED BY <1>2, <1>6, <1>9, <1>12

\* The abstract status of one packet changes, or of none.
LEMMA FateStep ==
  ASSUME OneCopy, OneCopy', local' = local, NEW m \in PacketId,
         \A n \in PacketId : n # m => Fate(n)' = Fate(n)
  PROVE  /\ Fate(m)' = Fate(m) => UNCHANGED Network!vars
         /\ \A old, new : Fate(m) \in old /\ Fate(m)' = new => Network!Becomes(m, old, new)
<1> DEFINE status == [n \in PacketId |-> StatusOf(n)]
<1>1. status = [n \in PacketId |-> Fate(n)]
  BY StatusIsFate
<1>2. (OneCopy => \A n \in PacketId : StatusOf(n) = Fate(n))'
  BY StatusIsFate, PTL
<1>3. status' = [n \in PacketId |-> Fate(n)']
  BY <1>2
<1>4. UNCHANGED (Migrated # None /\ local[Migrated] # Placement[Migrated])
  OBVIOUS
<1> HIDE DEF status
<1>5. status' = [status EXCEPT ![m] = Fate(m)'] /\ status[m] = Fate(m) /\ status'[m] = Fate(m)'
  BY <1>1, <1>3
<1>6. Fate(m)' = Fate(m) => status' = status
  BY <1>1, <1>3
<1> QED BY <1>4, <1>5, <1>6 DEF Network!vars, Network!Becomes, status

LEMMA NextDelivers ==
  ASSUME IInv, OneCopy, [Next]_vars
  PROVE  OneCopy' /\ [Network!Next]_(Network!vars)
<1>1. ASSUME NEW p \in InFlight, NEW r, Passes(p, r), local' = local,
             \/ r.strays = p.strays
             \/ p.strays = 0 /\ r.strays = 1 /\ Abandoned # {}
      PROVE  OneCopy' /\ [Network!Next]_(Network!vars)
  <2>1. p.id \in PacketId
    BY DEF IInv, TypeOK, InFlight, Packet
  <2>2. /\ OneCopy'
        /\ \A n \in PacketId : n # p.id => Fate(n)' = Fate(n)
        /\ Fate(p.id) = IF p.strays # 0 THEN "detour" ELSE "underway"
        /\ Fate(p.id)' = IF r.strays # 0 THEN "detour" ELSE "underway"
    BY <1>1, PassesOneCopy
  <2>3. CASE r.strays = p.strays
    <3>1. UNCHANGED Network!vars
      BY <1>1, <2>1, <2>2, <2>3, FateStep
    <3> QED BY <2>2, <3>1
  <2>4. CASE p.strays = 0 /\ r.strays = 1 /\ Abandoned # {}
    <3>1. Network!Becomes(p.id, {"underway"}, "detour")
      <4>1. Fate(p.id) = "underway" /\ Fate(p.id)' = "detour"
        BY <2>2, <2>4
      <4> QED BY <1>1, <2>1, <2>2, <4>1, FateStep
    <3>2. Network!Stray(p.id)
      BY <2>4, <3>1 DEF Network!Stray, Abandoned
    <3> QED BY <2>1, <2>2, <3>2 DEF Network!Next
  <2> QED BY <1>1, <2>3, <2>4
<1>2. CASE SwitchReceive
  <2>1. PICK p \in packets : local' = local /\ \E r : Passes(p, r) /\ r.strays = p.strays
    BY <1>2, SwitchPasses DEF SwitchReceive, IInv
  <2> QED BY <1>1, <2>1 DEF InFlight
<1>3. CASE GatewayReceive \/ GatewaySend \/ Misdelivered \/ HostResend
  BY <1>1, <1>3, EndpointPasses
<1>4. ASSUME NEW p \in packets, packets' = packets \ {p}, local' = local,
             \/ delivered' = delivered /\ Lossy
             \/ delivered' = delivered \cup {p.id},
             UNCHANGED <<gwPending, resends, sent>>
      PROVE  OneCopy' /\ [Network!Next]_(Network!vars)
  <2>1. p.id \in PacketId /\ p.id \notin delivered
    BY DEF IInv, TypeOK, Packet, OneCopy, InFlight
  <2>2. /\ OneCopy'
        /\ \A n \in PacketId : n # p.id => Fate(n)' = Fate(n)
        /\ Fate(p.id) \in {"underway", "detour"}
        /\ Fate(p.id)' = IF delivered' = delivered THEN "lost" ELSE "delivered"
    BY <1>4, <2>1, RemovedOneCopy
  <2>3. \A new : Fate(p.id)' = new => Network!Becomes(p.id, {"underway", "detour"}, new)
    BY <1>4, <2>1, <2>2, FateStep
  <2>4. CASE delivered' = delivered
    <3>1. Network!Lose(p.id)
      BY <1>4, <2>1, <2>2, <2>3, <2>4 DEF Network!Lose
    <3> QED BY <2>1, <2>2, <3>1 DEF Network!Next
  <2>5. CASE delivered' # delivered
    <3>1. Network!Deliver(p.id)
      BY <2>2, <2>3, <2>5 DEF Network!Deliver
    <3> QED BY <2>1, <2>2, <3>1 DEF Network!Next
  <2> QED BY <2>4, <2>5
<1>5. CASE HostReceive
  BY <1>4, <1>5 DEF HostReceive
<1>6. ASSUME UNCHANGED <<packets, gwPending, resends, sent, delivered>>
      PROVE  OneCopy' /\ UNCHANGED [n \in PacketId |-> StatusOf(n)]
  BY <1>6 DEF OneCopy, InFlight, StatusOf
<1>7. CASE Drop
  <2>1. CASE \E p \in packets : packets' = packets \ {p} /\ UNCHANGED control
    BY <1>4, <1>7, <2>1 DEF Drop
  <2>2. CASE UNCHANGED packets
    BY <1>6, <1>7, <2>2 DEF Drop, Network!vars
  <2> QED BY <1>7, <2>1, <2>2 DEF Drop
<1>8. CASE HandleProtocolPacket \/ Done \/ UNCHANGED vars
  BY <1>6, <1>8 DEF HandleProtocolPacket, Done, vars, Network!vars
<1>9. CASE Migration
  <2>1. Migrated # None /\ local[Migrated] = Placement[Migrated] /\ NewHost # local[Migrated]
    BY <1>9 DEF Migration, IInv, MigrationInv
  <2>2. local'[Migrated] = NewHost
    BY <1>9, <2>1, SwitchV2PAssumption DEF Migration, IInv, TypeOK
  <2>3. Network!Move
    BY <1>6, <1>9, <2>1, <2>2 DEF Network!Move, Migration
  <2> QED BY <1>6, <1>9, <2>3 DEF Network!Next, Migration
<1>10. ASSUME NEW f \in Flows, ClientSend(f)
       PROVE  OneCopy' /\ [Network!Next]_(Network!vars)
  <2>1. PICK m \in PacketId :
          /\ \A n \in PacketId : n # m => Fate(n)' = Fate(n)
          /\ Fate(m) = "unsent" /\ Fate(m)' = "underway"
    BY <1>10, SendsOneCopy
  <2>2. OneCopy' /\ local' = local
    BY <1>10, SendsOneCopy
  <2>3. Network!Becomes(m, {"unsent"}, "underway")
    BY <2>1, <2>2, FateStep
  <2>4. Network!Send(m)
    BY <2>3 DEF Network!Send
  <2> QED BY <2>2, <2>4 DEF Network!Next
<1> QED BY <1>2, <1>3, <1>5, <1>7, <1>8, <1>9, <1>10 DEF Next, System

\* Whatever switches, gateways and hosts do to headers and tags on the way, a packet
\* stays one packet: each step of the system sends, delivers, drops or detours one
\* packet, moves the container, or is not seen from outside
\* (p4-switch-app.cc:364-589, gateway-app.cc:58-95, socket-helper.cc:61-144).
THEOREM RefinesDelivery == Spec => Network!Spec
<1>1. Init => OneCopy
  BY DEF Init, OneCopy, InFlight
<1>2. Init => Network!Init
  <2> SUFFICES ASSUME Init PROVE Network!Init
    OBVIOUS
  <2>1. \A n \in PacketId : Fate(n) = "unsent"
    BY DEF Init, Fate, Carried, InFlight, PacketId
  <2>2. [n \in PacketId |-> StatusOf(n)] = [n \in PacketId |-> "unsent"]
    BY <1>1, <2>1, StatusIsFate
  <2> QED BY <2>2 DEF Network!Init, Init
<1>3. IInv /\ OneCopy /\ [Next]_vars => OneCopy' /\ [Network!Next]_(Network!vars)
  BY NextDelivers
<1> QED BY <1>1, <1>2, <1>3, Invariance, PTL DEF Spec, Network!Spec

-----------------------------------------------------------------------------
(***************************************************************************)
(* A spine that promotes an entry throws away the tag the packet carries.  *)
(* That there is none, and no spilled entry is lost, rests on the          *)
(* topology: on the way to a gateway a tag is added only where the next    *)
(* hop is a core, and from a core it is carried only into the pod of the   *)
(* gateway, whose spines do not promote.  The same fact keeps a spine from *)
(* clearing the access bit of an entry and then displacing it.             *)
(***************************************************************************)

\* Where packets for a gateway may carry tags.
Near(n) == n.kind = "core" \/ \E g \in Gateway : g.pod = n.pod

TagOK(p) == GatewayBound(p) /\ p.inval = None /\ p.evict # None => Near(p.at)

TagInv == \A p \in packets : TagOK(p)

-----------------------------------------------------------------------------
(* The topology                                                            *)

LEMMA StaysNear ==
  ASSUME NEW s \in Switch, NEW g \in Gateway, NEW n \in NextHops(s, g),
         Near(s) \/ Type(s) = "SPINE"
  PROVE  Near(n)
<1>0. g \in Host
  BY GatewayType
<1>1. CASE s \in Leaf
  BY <1>0, <1>1 DEF NextHops, LeafNextHops, Near, Type, Leaf, Host, MkSpine, LeafOf, MkLeaf
<1>2. CASE s \in Spine
  BY <1>0, <1>2 DEF NextHops, SpineNextHops, Near, Type, Spine, Host, MkLeaf, CoreGroup, Core
<1>3. CASE s \in Core
  BY <1>0, <1>3 DEF NextHops, CoreNextHops, Near, Core, Host, MkSpine
<1> QED BY <1>1, <1>2, <1>3 DEF Switch

LEMMA TypeNear ==
  ASSUME NEW s \in Switch, Type(s) \in {"CORE", "GW_LEAF", "GW_SPINE"}
  PROVE  Near(s)
BY DEF Type, Near, Switch, Leaf, Spine, Core, LeafOf, MkLeaf

-----------------------------------------------------------------------------
(* Steps of switches                                                       *)

\* Where a packet may be given the tag it has as it leaves.
Carries(s, q) == GatewayBound(q) /\ q.inval = None /\ q.evict # None =>
                   Near(s) \/ Type(s) = "SPINE"

\* q has the fields of a packet.
IsPacket(q) ==
  \A n : /\ Hop(q, n).dst = q.dst /\ Hop(q, n).inval = q.inval
         /\ Hop(q, n).evict = q.evict /\ Hop(q, n).at = n

LEMMA ForwardTag ==
  ASSUME TagInv, NEW p \in packets, NEW s \in Switch, NEW c, NEW q,
         Forward(s, c, p, q), IsPacket(q), Carries(s, q)
  PROVE  TagInv'
<1>1. PICK n \in NextHops(s, q.dst) : packets' = (packets \ {p}) \cup {Hop(q, n)}
  BY DEF Forward, Forwarded, Hop
<1>2. TagOK(Hop(q, n))
  BY StaysNear DEF TagOK, IsPacket, Carries, GatewayBound
<1> QED BY <1>1, <1>2 DEF TagInv, TagOK

Retags(p, q) == q = p \/ \E e : q = [p EXCEPT !.evict = e]

\* The final lookup leaves tags alone and sends nothing to a gateway that was not
\* going to one.
LEMMA LookedUpTag ==
  ASSUME NEW s, NEW c, NEW p \in Packet, NEW q, Retags(p, q)
  PROVE  /\ LookedUp(s, c, q).evict = q.evict /\ LookedUp(s, c, q).inval = p.inval
         /\ GatewayBound(LookedUp(s, c, q)) => GatewayBound(p)
         /\ IsPacket(LookedUp(s, c, q)) /\ IsPacket(Spawn(LookedUp(s, c, q)))
         /\ Spawn(LookedUp(s, c, q)).evict = q.evict
         /\ Spawn(LookedUp(s, c, q)).inval = p.inval
         /\ Spawn(LookedUp(s, c, q)).dst = LookedUp(s, c, q).dst
<1> DEFINE i == SlotOf(s, q.idst)
<1>1. CASE GatewayBound(q) /\ Find(c, i, q.idst)
  <2> DEFINE v == Value(c, i)
  <2>1. LookedUp(s, c, q) = [q EXCEPT !.hit = s, !.dst = v]
    BY <1>1 DEF LookedUp
  <2> HIDE DEF v
  <2>2. q.dst = p.dst
    BY DEF Packet, Retags
  <2> QED BY <1>1, <2>1, <2>2 DEF Retags, Packet, IsPacket, Hop, Spawn, GatewayBound
<1>2. CASE ~(GatewayBound(q) /\ Find(c, i, q.idst))
  <2>1. LookedUp(s, c, q) = q
    BY <1>2 DEF LookedUp
  <2> QED BY <2>1 DEF Retags, Packet, IsPacket, Hop, Spawn, GatewayBound
<1> QED BY <1>1, <1>2

LEMMA ReceiveTag ==
  ASSUME TypeOK, TagInv, NEW p \in packets, NEW s \in Switch, s = p.at,
         \/ ReceiveInvalidating(s, p) \/ ReceivePromoting(s, p) \/ ReceiveAtLeaf(s, p)
         \/ ReceiveAtCore(s, p) \/ ReceiveAtSpine(s, p) \/ ReceiveAtGwLeaf(s, p)
         \/ ReceiveLocalLearning(s, p) \/ ReceiveNoCache(s, p)
  PROVE  TagInv'
<1>0. p \in Packet /\ TagOK(p)
  BY DEF TypeOK, TagInv
<1>1. CASE ReceiveInvalidating(s, p)
  <2> DEFINE Out(q) == q.inval # None /\ IsPacket(q)
  <2>1. \A v : /\ Out([[p EXCEPT !.dst = v] EXCEPT !.hit = None])
               /\ Out(Spawn([[p EXCEPT !.dst = v] EXCEPT !.hit = None]))
               /\ Out([p EXCEPT !.dst = v])
    BY <1>0, <1>1 DEF ReceiveInvalidating, Packet, IsPacket, Hop, Spawn
  <2>2. Out([p EXCEPT !.hit = None]) /\ Out(Spawn([p EXCEPT !.hit = None])) /\ Out(p)
    BY <1>0, <1>1 DEF ReceiveInvalidating, Packet, IsPacket, Hop, Spawn
  <2>3. \E c, q : Forward(s, c, p, q) /\ Out(q)
    BY <1>1, <2>1, <2>2 DEF ReceiveInvalidating
  <2> QED BY <2>3, ForwardTag DEF Carries
<1>2. CASE ReceivePromoting(s, p)
  <2>1. \A e : IsPacket([p EXCEPT !.evict = e])
    BY <1>0 DEF Packet, IsPacket, Hop
  <2> QED BY <1>2, <2>1, ForwardTag DEF ReceivePromoting, Carries
<1>3. CASE ReceiveAtLeaf(s, p)
  <2>1. PICK c : Forward(s, Lookup(s, c, p), p, LookedUp(s, c, p))
    BY <1>3 DEF ReceiveAtLeaf
  <2> DEFINE r == LookedUp(s, c, p)
  <2>2. /\ r.evict = p.evict /\ r.inval = p.inval /\ IsPacket(r)
        /\ GatewayBound(r) => GatewayBound(p)
    <3>1. Retags(p, p)
      BY DEF Retags
    <3> QED BY <1>0, <3>1, LookedUpTag
  <2>3. Carries(s, r)
    BY <1>0, <2>2 DEF Carries, TagOK
  <2> QED BY <2>1, <2>2, <2>3, ForwardTag
<1>4. CASE ReceiveAtCore(s, p) \/ ReceiveAtGwLeaf(s, p)
  <2>1. Near(s)
    BY <1>4, TypeNear DEF ReceiveAtCore, ReceiveAtGwLeaf
  <2>2. PICK d, c, q : /\ Retags(p, q)
                       /\ \/ Forward(s, d, p, LookedUp(s, c, q))
                          \/ Forward(s, d, p, Spawn(LookedUp(s, c, q)))
    <3>1. CASE ReceiveAtCore(s, p)
      BY <3>1 DEF ReceiveAtCore, Retags
    <3>2. CASE ReceiveAtGwLeaf(s, p)
      BY <3>2 DEF ReceiveAtGwLeaf, Retags
    <3> QED BY <1>4, <3>1, <3>2
  <2>3. IsPacket(LookedUp(s, c, q)) /\ IsPacket(Spawn(LookedUp(s, c, q)))
    BY <1>0, <2>2, LookedUpTag
  <2>4. \A r : Carries(s, r)
    BY <2>1 DEF Carries
  <2> QED BY <2>2, <2>3, <2>4, ForwardTag
<1>5. CASE ReceiveAtSpine(s, p)
  <2>1. Near(s) \/ Type(s) = "SPINE"
    BY <1>5, TypeNear DEF ReceiveAtSpine
  <2>2. PICK d, c, q : /\ Retags(p, q)
                       /\ Forward(s, d, p, LookedUp(s, c, q))
    BY <1>5 DEF ReceiveAtSpine, Retags
  <2>3. IsPacket(LookedUp(s, c, q))
    BY <1>0, <2>2, LookedUpTag
  <2>4. \A r : Carries(s, r)
    BY <2>1 DEF Carries
  <2> QED BY <2>2, <2>3, <2>4, ForwardTag
<1>6. CASE ReceiveLocalLearning(s, p) \/ ReceiveNoCache(s, p)
  <2>1. \E c, q : /\ Forward(s, c, p, q)
                  /\ q = p \/ (GatewayBound(p) /\ \E v : q = [p EXCEPT !.dst = v])
    BY <1>6 DEF ReceiveLocalLearning, ReceiveNoCache
  <2>2. \A q : q = p \/ (GatewayBound(p) /\ \E v : q = [p EXCEPT !.dst = v]) =>
          IsPacket(q) /\ Carries(s, q)
    BY <1>0 DEF Packet, IsPacket, Hop, Carries, TagOK, GatewayBound
  <2> QED BY <2>1, <2>2, ForwardTag
<1> QED BY <1>1, <1>2, <1>3, <1>4, <1>5, <1>6

-----------------------------------------------------------------------------
(* Other steps                                                             *)

LEMMA TagNext == IInv /\ TagInv /\ [Next]_vars => TagInv'
<1> SUFFICES ASSUME IInv, TagInv, [Next]_vars PROVE TagInv'
  OBVIOUS
<1>0. TypeOK /\ GatewayInv /\ ResendInv /\ MigrationInv
  BY DEF IInv
<1>1. CASE SwitchReceive
  BY <1>0, <1>1, ReceiveTag DEF SwitchReceive
<1>2. CASE GatewaySend
  <2>1. PICK p \in gwPending : packets' = packets \cup
          {[p EXCEPT !.at = FirstHop(p.at, p.dst), !.evict = None, !.inval = None]}
    BY <1>2 DEF GatewaySend
  <2>2. TagOK([p EXCEPT !.at = FirstHop(p.at, p.dst), !.evict = None, !.inval = None])
    BY <1>0 DEF TypeOK, Packet, TagOK
  <2> QED BY <2>1, <2>2 DEF TagInv, TagOK
<1>3. CASE HostResend
  <2>1. PICK p \in resends : \E d : packets' = packets \cup
          {[p EXCEPT !.src = p.at, !.dst = d, !.at = FirstHop(p.at, d), !.age = 0]}
    BY <1>3 DEF HostResend
  <2>2. p.inval # None
    <3>1. p.idst \in VIP /\ ResendOK(p)
      BY <1>0 DEF ResendInv, TypeOK, Packet
    <3>2. p.at \in Host
      BY <1>0, <3>1, HomesFacts DEF ResendOK
    <3> QED BY <3>1, <3>2, SwitchV2PAssumption DEF ResendOK, Entry
  <2>3. \A d : TagOK([p EXCEPT !.src = p.at, !.dst = d, !.at = FirstHop(p.at, d), !.age = 0])
    BY <1>0, <2>2 DEF TypeOK, Packet, TagOK
  <2> QED BY <2>1, <2>3 DEF TagInv, TagOK
<1>4. ASSUME NEW f \in Flows, ClientSend(f) PROVE TagInv'
  <2>1. \A q \in packets' : q \in packets \/ q.evict = None
    BY <1>4 DEF ClientSend
  <2> QED BY <2>1 DEF TagInv, TagOK
<1>5. CASE \/ HandleProtocolPacket \/ GatewayReceive \/ HostReceive \/ Misdelivered
           \/ Migration \/ Drop \/ Done \/ UNCHANGED vars
  <2>1. packets' \subseteq packets
    BY <1>5 DEF HandleProtocolPacket, GatewayReceive, HostReceive, Misdelivered, Migration,
       Drop, Done, vars
  <2> QED BY <2>1 DEF TagInv, TagOK
<1> QED BY <1>1, <1>2, <1>3, <1>4, <1>5 DEF Next, System

\* In every fat tree and for every placement of gateways, promotion never meets a tag, so
\* it loses no spilled entry (p4-switch-app.cc:457-468).
THEOREM PromotionUntagged == Spec => []PromotesUntagged
<1>1. Init => TagInv
  BY DEF Init, TagInv
<1>2. ASSUME TypeOK, TagInv PROVE PromotesUntagged
  <2> SUFFICES ASSUME NEW p \in packets, p.at \in Switch, Type(p.at) = "SPINE",
                      GatewayBound(p), p.inval = None, p.evict # None
               PROVE  FALSE
    BY DEF PromotesUntagged
  <2>1. Near(p.at)
    BY <1>2 DEF TagInv, TagOK
  <2> QED BY <2>1 DEF Near, Type, Switch, Leaf, Spine, Core
<1>3. IInv => TypeOK
  BY DEF IInv
<1> QED BY <1>1, <1>2, <1>3, TagNext, Invariance, PTL DEF Spec

-----------------------------------------------------------------------------
(* Entries in use                                                          *)

\* Learning packets are addressed to leaves, where no access bit is looked at.
LearnInv == \A m \in control : m.kind = "learn" => m.dst \in Leaf

LEMMA LearnNext == IInv /\ LearnInv /\ [Next]_vars => LearnInv'
<1> SUFFICES ASSUME IInv, LearnInv, [Next]_vars PROVE LearnInv'
  OBVIOUS
<1>1. ASSUME NEW p \in packets, NEW s \in Switch, ReceiveAtGwLeaf(s, p) PROVE LearnInv'
  <2>1. p.origin \in Host
    BY DEF IInv, TypeOK, Packet
  <2>2. LeafOf(p.origin) \in Leaf
    BY <2>1 DEF LeafOf, MkLeaf, Leaf, Host
  <2>3. \/ control' = control
        \/ \E e : \E g \in Generated("learn", p, e, s, LeafOf(p.origin)) :
             control' = control \cup g
    BY <1>1 DEF ReceiveAtGwLeaf
  <2>4. \A e, d : \A g \in Generated("learn", p, e, s, d) : \A m \in g : m.dst = d
    BY DEF Generated
  <2> QED BY <2>2, <2>3, <2>4 DEF LearnInv
<1>2. ASSUME NEW p \in packets, NEW s \in Switch, ReceiveInvalidating(s, p) PROVE LearnInv'
  <2>1. \/ control' = control
        \/ \E e, d : \E g \in Generated("invalidate", p, e, s, d) : control' = control \cup g
    BY <1>2 DEF ReceiveInvalidating
  <2>2. \A e, d : \A g \in Generated("invalidate", p, e, s, d) : \A m \in g :
          m.kind = "invalidate"
    BY DEF Generated
  <2> QED BY <2>1, <2>2 DEF LearnInv
<1>3. ASSUME control' \subseteq control PROVE LearnInv'
  BY <1>3 DEF LearnInv
<1>4. CASE SwitchReceive
  <2>1. PICK p \in packets :
          /\ p.at \in Switch
          /\ \/ ReceiveInvalidating(p.at, p) \/ ReceiveAtGwLeaf(p.at, p) \/ control' = control
    BY <1>4 DEF SwitchReceive, ReceivePromoting, ReceiveAtLeaf, ReceiveAtCore,
       ReceiveAtSpine, ReceiveLocalLearning, ReceiveNoCache
  <2> QED BY <1>1, <1>2, <1>3, <2>1
<1>5. CASE HandleProtocolPacket
  <2>1. PICK m \in control :
          \/ control' = control \ {m}
          \/ \E n : control' = (control \ {m}) \cup {[m EXCEPT !.at = n]}
    BY <1>5 DEF HandleProtocolPacket
  <2>2. \A n : [m EXCEPT !.at = n].kind = m.kind /\ [m EXCEPT !.at = n].dst = m.dst
    BY DEF IInv, TypeOK, ControlPacket
  <2>3. \A n : [m EXCEPT !.at = n].kind = "learn" => [m EXCEPT !.at = n].dst \in Leaf
    BY <2>2 DEF LearnInv
  <2> QED BY <2>1, <2>3 DEF LearnInv
<1>6. CASE \/ GatewayReceive \/ GatewaySend \/ HostReceive \/ Misdelivered \/ HostResend
           \/ (\E f \in Flows : ClientSend(f)) \/ Migration \/ Drop \/ Done \/ UNCHANGED vars
  BY <1>3, <1>6 DEF GatewayReceive, GatewaySend, HostReceive, Misdelivered, HostResend,
     ClientSend, Migration, Drop, Done, vars
<1> QED BY <1>4, <1>5, <1>6 DEF Next, System

\* From cache c to cache d no entry in use has given way to another.
KeepsUsed(c, d) ==
  \A i \in Slot : c[i].key # EmptyKey /\ c[i].bit = 1 => d[i].key \in {c[i].key, EmptyKey}

\* Lookups, removals and refusals displace nothing.
LEMMA GetKeys ==
  ASSUME NEW c, IsCache(c), NEW i, NEW k
  PROVE  /\ IsCache(Get(c, i, k))
         /\ \A j \in Slot : Get(c, i, k)[j].key = c[j].key
  BY DEF IsCache, Get, SlotType

LEMMA RemoveKeys ==
  ASSUME NEW c, IsCache(c), NEW i
  PROVE  \A j \in Slot : Remove(c, i)[j].key \in {c[j].key, EmptyKey}
  BY DEF IsCache, Remove, EmptySlot

LEMMA PutKeys ==
  ASSUME NEW c, IsCache(c), NEW i, NEW k, NEW v
  PROVE  /\ \A j \in Slot : j # i => Put(c, i, k, v)[j].key = c[j].key
         /\ \A j \in Slot : Put(c, i, k, v)[j].key \in {c[j].key, k}
         /\ KeepsUsed(c, PutIfNotEvict(c, i, k, v))
  BY DEF IsCache, Put, PutIfNotEvict, Evicts, KeepsUsed

LEMMA LookupKeys ==
  ASSUME NEW c, IsCache(c), NEW s, NEW q
  PROVE  \A j \in Slot : Lookup(s, c, q)[j].key = c[j].key
  BY GetKeys DEF Lookup

\* A spine that has just cleared the bit of a slot does not go on to learn: the packet
\* it looked up is on its way to a gateway and brings no tag.
LEMMA ReceiveKeepsUsed ==
  ASSUME IInv, PromotesUntagged, AccessBit, NEW p \in packets, NEW s \in Switch,
         s = p.at, Type(s) \notin {"LEAF", "GW_LEAF"},
         \/ ReceiveInvalidating(s, p) \/ ReceivePromoting(s, p) \/ ReceiveAtLeaf(s, p)
         \/ ReceiveAtCore(s, p) \/ ReceiveAtSpine(s, p) \/ ReceiveAtGwLeaf(s, p)
  PROVE  \E c : cache' = [cache EXCEPT ![s] = c] /\ KeepsUsed(cache[s], c)
<1> DEFINE e == Learn(p)
           i == SlotOf(s, e.key)
<1>0. p \in Packet /\ IsCache(cache[s])
  BY DEF IInv, TypeOK, IsCache
<1>1. /\ e.key \in VIP /\ e.val \in Host /\ i \in Slot
  <2>1. e.key \in VIP /\ e.val \in Host
    BY <1>0 DEF Packet, Learn, Entry
  <2> QED BY <2>1, SlotOfType
<1>2. \A c, q : Forward(s, c, p, q) => cache' = [cache EXCEPT ![s] = c]
  BY DEF Forward
<1>3. ASSUME NEW c, IsCache(c), KeepsUsed(cache[s], c), NEW q
      PROVE  KeepsUsed(cache[s], Lookup(s, c, q))
  BY <1>3, LookupKeys DEF KeepsUsed
<1>4. CASE ReceiveInvalidating(s, p)
  <2> DEFINE j == SlotOf(s, p.inval.key)
             g == Get(cache[s], j, p.inval.key)
  <2>1. IsCache(g) /\ KeepsUsed(cache[s], g)
    BY <1>0, GetKeys DEF KeepsUsed
  <2>2. KeepsUsed(cache[s], Remove(g, j))
    BY <1>0, <2>1, GetKeys, RemoveKeys DEF KeepsUsed
  <2>3. \E q : Forward(s, g, p, q) \/ Forward(s, Remove(g, j), p, q)
    BY <1>4 DEF ReceiveInvalidating
  <2> QED BY <1>2, <2>1, <2>2, <2>3
<1>5. CASE ReceivePromoting(s, p)
  <2>1. \E k, j, q : Forward(s, Get(cache[s], j, k), p, q)
    BY <1>5 DEF ReceivePromoting
  <2> QED BY <1>0, <1>2, <2>1, GetKeys DEF KeepsUsed
<1>6. CASE ReceiveAtCore(s, p)
  <2> DEFINE takes == /\ e.key = p.idst
                      /\ GetBit(cache[s], i) = 0
                      /\ ~Find(cache[s], i, e.key)
             c == IF p.evict # None
                  THEN IF takes THEN Put(cache[s], i, e.key, e.val) ELSE cache[s]
                  ELSE IF LearnsFrom(p)
                  THEN PutIfNotEvict(cache[s], i, e.key, e.val)
                  ELSE cache[s]
  <2>1. IsCache(c)
    BY <1>0, <1>1, PutLive
  <2>2. KeepsUsed(cache[s], c)
    <3>1. CASE p.evict # None /\ takes
      <4>1. cache[s][i].bit = 0
        BY <3>1 DEF GetBit
      <4> QED BY <1>0, <3>1, <4>1, PutKeys DEF KeepsUsed
    <3>2. CASE ~(p.evict # None /\ takes)
      <4>1. c = cache[s] \/ c = PutIfNotEvict(cache[s], i, e.key, e.val)
        BY <3>2
      <4>2. KeepsUsed(cache[s], cache[s])
        BY DEF KeepsUsed
      <4> QED BY <1>0, <4>1, <4>2, PutKeys
    <3> QED BY <3>1, <3>2
  <2>3. \E q : Forward(s, Lookup(s, c, q), p, LookedUp(s, c, q))
    BY <1>6 DEF ReceiveAtCore
  <2> HIDE DEF c
  <2> QED BY <1>2, <1>3, <2>1, <2>2, <2>3
<1>7. CASE ReceiveAtSpine(s, p)
  <2> DEFINE c0 == IF Type(s) = "SPINE" THEN Lookup(s, cache[s], p) ELSE cache[s]
             puts == LearnsFrom(p) /\ ~(AccessBit /\ GetBit(c0, i) = 1 /\ ~Find(c0, i, e.key))
             c == IF puts THEN Put(c0, i, e.key, e.val) ELSE c0
  <2>1. \E q : Forward(s, Lookup(s, c, q), p, LookedUp(s, c, q))
    BY <1>7 DEF ReceiveAtSpine
  <2>2. IsCache(c0) /\ KeepsUsed(cache[s], c0)
    BY <1>0, GetKeys DEF Lookup, KeepsUsed
  <2>3. IsCache(c)
    BY <1>1, <2>2, PutLive
  <2>4. KeepsUsed(cache[s], c)
    <3>1. CASE ~puts
      BY <2>2, <3>1
    <3>2. CASE puts
      <4>1. c0 = cache[s]
        <5>1. Type(s) = "SPINE" => ~GatewayBound(p)
          BY <1>7, <3>2 DEF ReceiveAtSpine, PromotesUntagged, LearnsFrom
        <5> QED BY <5>1 DEF Lookup
      <4>2. cache[s][i].bit # 1 \/ cache[s][i].key = e.key
        BY <3>2, <4>1 DEF GetBit, Find
      <4> QED BY <1>0, <3>2, <4>1, <4>2, PutKeys DEF KeepsUsed
    <3> QED BY <3>1, <3>2
  <2> HIDE DEF c
  <2> QED BY <1>2, <1>3, <2>1, <2>3, <2>4
<1>8. CASE ReceiveAtLeaf(s, p) \/ ReceiveAtGwLeaf(s, p)
  BY <1>8 DEF ReceiveAtLeaf, ReceiveAtGwLeaf
<1> QED BY <1>4, <1>5, <1>6, <1>7, <1>8

\* In every fat tree, whatever the hash functions make collide, an entry of a core or
\* spine that answered the last packet of its slot keeps the slot until it is missed
\* or invalidated (p4-switch-app.cc:512, 532-543).
THEOREM UsedEntriesStay == Spec => InUseNotDisplaced
<1>1. ASSUME IInv, LearnInv, PromotesUntagged, [Next]_vars,
             NEW t \in Switch, AppOf(t) = "SwitchV2P", AccessBit,
             Type(t) \notin {"LEAF", "GW_LEAF"}
      PROVE  KeepsUsed(cache[t], cache'[t])
  <2>0. TypeOK /\ \A s \in Switch : IsCache(cache[s])
    BY <1>1 DEF IInv, TypeOK, IsCache
  <2>1. ASSUME NEW s \in Switch, NEW c, cache' = [cache EXCEPT ![s] = c],
               s = t => KeepsUsed(cache[s], c)
        PROVE  KeepsUsed(cache[t], cache'[t])
    BY <2>0, <2>1 DEF TypeOK, KeepsUsed
  <2>2. CASE SwitchReceive
    <3>1. PICK p \in packets :
            /\ p.at \in Switch
            /\ \/ /\ AppOf(p.at) = "SwitchV2P"
                  /\ \/ ReceiveInvalidating(p.at, p) \/ ReceivePromoting(p.at, p)
                     \/ ReceiveAtLeaf(p.at, p) \/ ReceiveAtCore(p.at, p)
                     \/ ReceiveAtSpine(p.at, p) \/ ReceiveAtGwLeaf(p.at, p)
               \/ /\ AppOf(p.at) # "SwitchV2P"
                  /\ ReceiveLocalLearning(p.at, p) \/ ReceiveNoCache(p.at, p)
      BY <2>2 DEF SwitchReceive
    <3>2. CASE p.at = t
      BY <1>1, <2>1, <3>1, <3>2, ReceiveKeepsUsed
    <3>3. CASE p.at # t
      <4>1. \E c : cache' = [cache EXCEPT ![p.at] = c]
        BY <3>1 DEF ReceiveInvalidating, ReceivePromoting, ReceiveAtLeaf, ReceiveAtCore,
           ReceiveAtSpine, ReceiveAtGwLeaf, ReceiveLocalLearning, ReceiveNoCache, Forward
      <4> QED BY <2>1, <3>1, <3>3, <4>1
    <3> QED BY <3>2, <3>3
  <2>3. CASE HandleProtocolPacket
    <3>1. PICK m \in control :
            LET s == m.at
                i == SlotOf(s, m.entry.key)
                c == Get(cache[s], i, m.entry.key)
            IN  cache' = [cache EXCEPT ![s] =
                  CASE m.kind = "invalidate" ->
                         IF Confirms(cache[s], i, m.entry) THEN Remove(c, i) ELSE c
                    [] m.kind = "learn" /\ m.dst = s ->
                         Put(cache[s], i, m.entry.key, m.entry.val)
                    [] OTHER -> cache[s]]
      BY <2>3 DEF HandleProtocolPacket
    <3> DEFINE s == m.at
               i == SlotOf(s, m.entry.key)
               c == Get(cache[s], i, m.entry.key)
    <3>2. m.kind \in {"learn", "invalidate"} /\ s \in Switch
      BY <2>0 DEF TypeOK, ControlPacket, ControlKind
    <3>3. IsCache(c) /\ KeepsUsed(cache[s], c) /\ KeepsUsed(cache[s], Remove(c, i))
      BY <2>0, <3>2, GetKeys, RemoveKeys DEF KeepsUsed
    <3>4. CASE m.kind = "invalidate"
      <4>1. cache' = [cache EXCEPT ![s] =
                        IF Confirms(cache[s], i, m.entry) THEN Remove(c, i) ELSE c]
        BY <3>1, <3>4
      <4> HIDE DEF c
      <4> QED BY <2>1, <3>2, <3>3, <4>1
    <3>5. CASE m.kind = "learn"
      <4>1. m.dst = s => s # t
        BY <1>1, <3>5 DEF LearnInv, Type, Leaf
      <4>2. \/ m.dst = s /\ \E d : cache' = [cache EXCEPT ![s] = d]
            \/ cache' = [cache EXCEPT ![s] = cache[s]]
        BY <3>1, <3>5
      <4>3. KeepsUsed(cache[s], cache[s])
        BY DEF KeepsUsed
      <4> QED BY <2>1, <3>2, <4>1, <4>2, <4>3
    <3> QED BY <3>2, <3>4, <3>5
  <2>4. CASE cache' = cache
    BY <2>4 DEF KeepsUsed
  <2> QED BY <1>1, <2>2, <2>3, <2>4
          DEF Next, System, GatewayReceive, GatewaySend, HostReceive, Misdelivered,
              HostResend, ClientSend, Migration, Drop, Done, vars
<1>2. Init => LearnInv
  BY DEF Init, LearnInv
<1>3. IInv /\ LearnInv /\ PromotesUntagged /\ [Next]_vars =>
        [\A s \in Switch, i \in Slot :
           /\ AppOf(s) = "SwitchV2P" /\ AccessBit /\ Type(s) \notin {"LEAF", "GW_LEAF"}
           /\ cache[s][i].key # EmptyKey /\ cache[s][i].bit = 1
           => cache'[s][i].key \in {cache[s][i].key, EmptyKey}]_vars
  BY <1>1 DEF KeepsUsed
<1> QED BY <1>2, <1>3, LearnNext, PromotionUntagged, Invariance, PTL
        DEF Spec, InUseNotDisplaced
=============================================================================
