-------------------------- MODULE BaselinesProofs --------------------------
(***************************************************************************)
(* Proofs about Baselines in all its modes, for every topology, placement, *)
(* set of flows, hash, memory and number of packets and queries:           *)
(*                                                                         *)
(*   UpdateEnds          Inv                         UpdateEndsStrays      *)
(*   BaselinesDeliver    Inv, OneCopy                implements Delivery   *)
(*   ControllerAnswers   Inv, AnswerInv              AnsweredAsExpected    *)
(*   SameWayOrder        all of these and OrderInv   SameWayInOrder        *)
(*                                                                         *)
(* Inv says where a packet may be and go, and what the caches hold: they   *)
(* are filled by BulkInsert, a recursion over a set of containers, whose   *)
(* result follows by induction on the size of the set (LRUCacheProofs).    *)
(***************************************************************************)
EXTENDS Baselines, LRUCacheProofs, FiniteSetTheorems

-----------------------------------------------------------------------------
(* Packets and where they may be.                                          *)

Way == {"direct", "first", "gateway", "stray"}

Packet ==
  [n : Nat, f : Flow, src : Host, dst : Host, from : Node, to : Node, pos : Int,
   way : Way, late : BOOLEAN, epoch : Nat]

TypeInv ==
  /\ simMode \in Modes
  /\ net \subseteq Packet /\ IsFiniteSet(net)
  /\ waiting \subseteq Packet /\ gwPending \in Seq(Packet)
  /\ directory \in [VIP -> Host] /\ local \in [VIP -> Host] /\ updating \in BOOLEAN
  /\ sent \in 0 .. MaxSends /\ queries \in Nat
  /\ arrived \in Seq([n : Nat, f : Flow, way : Way])

\* The migration has taken place.
HasMoved == Migrated \in VIP /\ Migrated # None /\ local[Migrated] = NewHost

\* The interfaces change once, and the directory follows them.
MapInv ==
  /\ \A v \in VIP : directory[v] = Placement[v] \/ v = Migrated
  /\ \A v \in VIP : local[v] = Placement[v] \/ (v = Migrated /\ HasMoved)
  /\ directory = Placement \/ (directory = local /\ HasMoved)
  /\ updating => HasMoved

\* The switches' caches hold where containers were or are, and nothing where no
\* controller fills them.
CacheInv ==
  /\ cache = [s \in Switch |-> cache[s]]
  /\ \A s \in Switch : LRUOK(cache[s], VIP, MemorySize)
  /\ \A s \in Switch : \A v \in DOMAIN cache[s].map :
       cache[s].map[v] = Placement[v] \/ cache[s].map[v] = local[v]
  /\ simMode # "Controller" => \A s \in Switch : cache[s] = EmptyLRU

\* d is where a packet for container v was or is to be sent, and where it is now if
\* the packet strayed, or left late and was not sent by what a switch had cached.
Course(p, d) ==
  /\ d = Placement[p.f.dst] \/ d = local[p.f.dst]
  /\ (p.late /\ simMode # "Controller") \/ p.way = "stray" => d = local[p.f.dst]

\* What is late left after UpdateMappings, and what strayed did so after the migration.
Dated(p) ==
  /\ p.late => directory # Placement
  /\ p.way = "stray" => HasMoved /\ p.f.dst = Migrated

OnLink(p) ==
  /\ Dated(p)
  /\ p.dst \notin Gateway => p.to = p.dst /\ Course(p, p.dst)
  /\ p.dst \in Gateway => p.to \in Switch \cup {p.dst} /\ p.way # "stray"

AtHost(p) ==
  Dated(p) /\ p.to \in Host /\ (p.way = "stray" => ~p.late \/ simMode = "Controller")
AtGateway(p) == Dated(p) /\ p.to \in Gateway /\ p.way # "stray" /\ Course(p, p.dst)

PacketInv ==
  /\ \A p \in net : OnLink(p)
  /\ \A p \in waiting : AtHost(p)
  /\ \A p \in ToSet(gwPending) : AtGateway(p)

\* A packet is in one place, once.
Numbers(S) == {p.n : p \in S}
Distinct(S) == \A p, q \in S : p.n = q.n => p = q
DistinctSeq(s) == \A i, j \in DOMAIN s : s[i].n = s[j].n => i = j

Arrived == Numbers(ToSet(arrived))

Apart(N, W, G, A, k) ==
  /\ N \cap W = {} /\ N \cap G = {} /\ N \cap A = {}
  /\ W \cap G = {} /\ W \cap A = {} /\ G \cap A = {}
  /\ N \cup W \cup G \cup A \subseteq 1 .. k

OneCopy ==
  /\ Distinct(net) /\ Distinct(waiting) /\ DistinctSeq(gwPending) /\ DistinctSeq(arrived)
  /\ Apart(Numbers(net), Numbers(waiting), Numbers(ToSet(gwPending)), Arrived, sent)

Inv == TypeInv /\ MapInv /\ CacheInv /\ PacketInv

-----------------------------------------------------------------------------
(* Routes: the hash picks one of the equal-cost routes.                    *)

LEMMA NumberedCardinality ==
  ASSUME NEW k \in Nat, NEW S, NEW f \in [0 .. k - 1 -> S],
         \A i, j \in 0 .. k - 1 : f[i] = f[j] => i = j,
         \A x \in S : \E i \in 0 .. k - 1 : f[i] = x
  PROVE  Cardinality(S) = k
<1>1. f \in Surjection(0 .. k - 1, S) /\ f \in Injection(0 .. k - 1, S)
  BY DEF Surjection, Injection, IsInjective
<1>2. IsFiniteSet(0 .. k - 1) /\ Cardinality(0 .. k - 1) = k
  <2>1. k - 1 \in Int /\ (0 > k - 1 <=> k = 0) /\ (k - 1) - 0 + 1 = k
    OBVIOUS
  <2> QED BY <2>1, FS_Interval
<1> QED BY <1>1, <1>2, FS_Surjection

LEMMA SpinesOfPod ==
  ASSUME NEW pod
  PROVE  Cardinality({MkSpine(pod, o) : o \in Offset}) = PodWidth
<1> DEFINE S == {MkSpine(pod, o) : o \in Offset}
           f == [o \in 0 .. PodWidth - 1 |-> MkSpine(pod, o)]
<1>1. PodWidth \in Nat
  BY TopologyAssumption
<1>2. f \in [0 .. PodWidth - 1 -> S]
  BY DEF Offset
<1>3. \A i, j \in 0 .. PodWidth - 1 : f[i] = f[j] => i = j
  BY DEF MkSpine
<1>4. \A x \in S : \E i \in 0 .. PodWidth - 1 : f[i] = x
  BY DEF Offset
<1> HIDE DEF S, f
<1>5. Cardinality(S) = PodWidth
  BY <1>1, <1>2, <1>3, <1>4, NumberedCardinality
<1> QED BY <1>5 DEF S

LEMMA CoresOfGroup ==
  ASSUME NEW off \in Offset
  PROVE  Cardinality(CoreGroup(off)) = CoresPerSpine
<1> DEFINE c(i) == [kind |-> "core", pod |-> 0, off |-> off, id |-> i]
           f == [i \in 0 .. CoresPerSpine - 1 |-> c(i)]
<1>1. CoresPerSpine \in Nat
  BY TopologyAssumption
<1>2. f \in [0 .. CoresPerSpine - 1 -> CoreGroup(off)]
  BY DEF CoreGroup, Core
<1>3. \A i, j \in 0 .. CoresPerSpine - 1 : f[i] = f[j] => i = j
  OBVIOUS
<1>4. \A x \in CoreGroup(off) : \E i \in 0 .. CoresPerSpine - 1 : f[i] = x
  BY DEF CoreGroup, Core
<1> HIDE DEF f
<1> QED BY <1>1, <1>2, <1>3, <1>4, NumberedCardinality

\* Every choice by hash exists and is a switch, or the destination itself.
LEMMA EcmpFollowsRoutes ==
  ASSUME NEW n \in Node, NEW d \in Host, NEW hash \in Nat
  PROVE  /\ EcmpNextHop(n, d, hash) \in NextHops(n, d)
         /\ EcmpNextHop(n, d, hash) \in Switch \cup {d}
<1> DEFINE N == NextHops(n, d)
           Picked(m) == \/ Cardinality(N) = 1
                        \/ hash % Cardinality(N) = IF m.kind = "core" THEN m.id ELSE m.off
<1>0. \A x : Cardinality({x}) = 1
  BY FS_Singleton
<1>1. N \subseteq Switch \cup {d} /\ \E m \in N : Picked(m)
  <2>1. CASE n \in Host
    <3>1. N = {LeafOf(n)} /\ LeafOf(n) \in Leaf
      BY <2>1 DEF NextHops, LeafOf, MkLeaf, Host, Leaf
    <3> QED BY <1>0, <3>1 DEF Switch
  <2>2. CASE n \in Leaf
    <3>1. N = LeafNextHops(n, d)
      BY <2>2 DEF NextHops, Leaf
    <3>2. CASE LeafOf(d) = n
      <4>1. N = {d}
        BY <3>1, <3>2 DEF LeafNextHops, Host
      <4> QED BY <1>0, <4>1
    <3>3. CASE LeafOf(d) # n
      <4>1. N = {MkSpine(n.pod, o) : o \in Offset}
        BY <3>1, <3>3 DEF LeafNextHops, Host
      <4>2. \A o \in Offset : MkSpine(n.pod, o) \in Spine /\ MkSpine(n.pod, o).off = o
                              /\ MkSpine(n.pod, o).kind = "spine"
        BY <2>2 DEF MkSpine, Spine, Leaf
      <4>3. Cardinality(N) = PodWidth
        BY <4>1, SpinesOfPod
      <4>4. hash % PodWidth \in Offset
        BY TopologyAssumption DEF Offset
      <4> QED BY <4>1, <4>2, <4>3, <4>4 DEF Switch
    <3> QED BY <3>2, <3>3
  <2>3. CASE n \in Spine
    <3>1. N = SpineNextHops(n, d)
      BY <2>3 DEF NextHops, Spine
    <3>2. CASE d.pod = n.pod
      <4>1. N = {MkLeaf(n.pod, d.off)} /\ MkLeaf(n.pod, d.off) \in Leaf
        BY <2>3, <3>1, <3>2 DEF SpineNextHops, Host, MkLeaf, Leaf, Spine
      <4> QED BY <1>0, <4>1 DEF Switch
    <3>3. CASE d.pod # n.pod
      <4>1. N = CoreGroup(n.off) /\ n.off \in Offset
        BY <2>3, <3>1, <3>3 DEF SpineNextHops, Host, Spine
      <4>2. Cardinality(N) = CoresPerSpine
        BY <4>1, CoresOfGroup
      <4>3. CoresPerSpine \in Nat \ {0}
        BY <2>3, <3>3, TopologyAssumption DEF Host, Spine, Pod
      <4>4. hash % CoresPerSpine \in 0 .. CoresPerSpine - 1
        BY <4>3
      <4> DEFINE c == [kind |-> "core", pod |-> 0, off |-> n.off, id |-> hash % CoresPerSpine]
      <4>5. c \in CoreGroup(n.off) /\ c.kind = "core" /\ c.id = hash % CoresPerSpine
        BY <4>1, <4>4 DEF CoreGroup, Core
      <4> HIDE DEF c
      <4> QED BY <4>1, <4>2, <4>5 DEF CoreGroup, Switch
    <3> QED BY <3>2, <3>3
  <2>4. CASE n \in Core
    <3>1. N = {MkSpine(d.pod, n.off)} /\ MkSpine(d.pod, n.off) \in Spine
      BY <2>4 DEF NextHops, CoreNextHops, Core, Host, MkSpine, Spine
    <3> QED BY <1>0, <3>1 DEF Switch
  <2> QED BY <2>1, <2>2, <2>3, <2>4 DEF Node, Switch
<1>2. EcmpNextHop(n, d, hash) = CHOOSE m \in N : Picked(m)
  BY DEF EcmpNextHop
<1> HIDE DEF Picked, N
<1>3. EcmpNextHop(n, d, hash) \in N
  BY <1>1, <1>2
<1> QED BY <1>1, <1>3 DEF N

-----------------------------------------------------------------------------
(* Links: a packet enters and leaves as itself.                            *)

\* q is p on another link or in another place of one.
Same(q, p) ==
  /\ q.n = p.n /\ q.f = p.f /\ q.src = p.src /\ q.dst = p.dst
  /\ q.way = p.way /\ q.late = p.late /\ q.epoch = p.epoch

\* q is p after one packet has left the lane of l.
MovedUp(q, p, l) ==
  /\ Same(q, p) /\ q.from = p.from /\ q.to = p.to
  /\ q.pos = IF Lane(p) = Lane(l) THEN p.pos - 1 ELSE p.pos

\* How many of the packets S are in the lane of p.
LaneSize(S, p) == Cardinality({r \in S : Lane(r) = Lane(p)})

\* The link that p takes from n.
NextOf(p, n) == IF p.dst \in Gateway THEN EcmpNextHop(n, p.dst, FlowHash[p.f]) ELSE p.dst

LEMMA NextOfProps ==
  ASSUME NEW p \in Packet, NEW n \in Node
  PROVE  /\ NextOf(p, n) \in Node
         /\ p.dst \notin Gateway => NextOf(p, n) = p.dst
         /\ p.dst \in Gateway => NextOf(p, n) \in Switch \cup {p.dst}
<1>1. p.dst \in Host /\ FlowHash[p.f] \in Nat
  BY BaselinesAssumption DEF Packet
<1>2. EcmpNextHop(n, p.dst, FlowHash[p.f]) \in Switch \cup {p.dst}
  BY <1>1, EcmpFollowsRoutes
<1> QED BY <1>1, <1>2 DEF NextOf, Node

LEMMA EnteringIs ==
  ASSUME NEW S, S \subseteq Packet, IsFiniteSet(S), NEW p \in Packet, NEW n \in Node
  PROVE  /\ Entering(S, p, n) \subseteq Packet /\ IsFiniteSet(Entering(S, p, n))
         /\ \E q \in Packet : /\ Entering(S, p, n) = S \cup {q}
                              /\ Same(q, p) /\ q.from = n /\ q.to = NextOf(p, n)
                              /\ q.pos = LaneSize(S, q)
<1> DEFINE q == [p EXCEPT !.from = n, !.to = NextOf(p, n)]
           ahead == {r \in S : Lane(r) = Lane(q)}
           e == [q EXCEPT !.pos = Cardinality(ahead)]
<1>1. Entering(S, p, n) = S \cup {e}
  BY DEF Entering, NextOf
<1>2. Cardinality(ahead) \in Int
  <2>1. ahead \in SUBSET S
    OBVIOUS
  <2> HIDE DEF ahead
  <2> QED BY <2>1, FS_Subset, FS_CardinalityType
<1>3. NextOf(p, n) \in Node
  BY NextOfProps
<1>4. /\ e \in Packet /\ Same(e, p) /\ e.from = n /\ e.to = NextOf(p, n)
      /\ e.pos = Cardinality(ahead)
  <2> HIDE DEF ahead
  <2>1. PICK k \in Node : k = NextOf(p, n)
    BY <1>3
  <2>2. PICK c \in Int : c = Cardinality(ahead)
    BY <1>2
  <2>3. e = [[p EXCEPT !.from = n, !.to = k] EXCEPT !.pos = c]
    BY <2>1, <2>2
  <2> HIDE DEF e
  <2>4. e \in Packet
    BY <2>3 DEF Packet
  <2>5. Same(e, p)
    BY <2>3 DEF Packet, Same
  <2>6. e.to = k /\ e.from = n /\ e.pos = c
    BY <2>3 DEF Packet
  <2> QED BY <2>1, <2>2, <2>4, <2>5, <2>6
<1>5. ahead = {r \in S : Lane(r) = Lane(e)}
  <2>1. Lane(q) = <<n, NextOf(p, n), p.src>>
    <3>1. q.from = n /\ q.to = NextOf(p, n) /\ q.src = p.src
      BY DEF Packet
    <3> HIDE DEF q
    <3> QED BY <3>1 DEF Lane
  <2> HIDE DEF e, q
  <2>2. Lane(e) = Lane(q)
    BY <1>4, <2>1 DEF Lane, Same
  <2> QED BY <2>2
<1>6. e.pos = LaneSize(S, e)
  BY <1>4, <1>5 DEF LaneSize
<1> HIDE DEF e, ahead
<1>7. IsFiniteSet(S \cup {e})
  BY FS_AddElement
<1>8. \E x \in Packet : /\ Entering(S, p, n) = S \cup {x}
                       /\ Same(x, p) /\ x.from = n /\ x.to = NextOf(p, n)
                       /\ x.pos = LaneSize(S, x)
  BY <1>1, <1>4, <1>6, Zenon
<1> QED BY <1>1, <1>4, <1>7, <1>8

LEMMA LeavingIs ==
  ASSUME NEW S, S \subseteq Packet, IsFiniteSet(S), NEW p \in S
  PROVE  /\ Leaving(S, p) \subseteq Packet /\ IsFiniteSet(Leaving(S, p))
         /\ \A x \in Leaving(S, p) : \E q \in S \ {p} : MovedUp(x, q, p)
         /\ \A q \in S \ {p} : \E x \in Leaving(S, p) : MovedUp(x, q, p)
         /\ Distinct(S) => Distinct(Leaving(S, p))
<1> DEFINE up(q) == IF Lane(q) = Lane(p) THEN [q EXCEPT !.pos = @ - 1] ELSE q
           f == [q \in S \ {p} |-> up(q)]
           L == Leaving(S, p)
<1>1. L = {up(q) : q \in S \ {p}}
  BY DEF Leaving
<1>2. \A q \in S : up(q) \in Packet /\ MovedUp(up(q), q, p)
  <2> SUFFICES ASSUME NEW q \in S PROVE up(q) \in Packet /\ MovedUp(up(q), q, p)
    OBVIOUS
  <2>1. q \in Packet
    OBVIOUS
  <2>2. CASE Lane(q) = Lane(p)
    BY <2>1, <2>2 DEF Packet, Same, MovedUp
  <2>3. CASE Lane(q) # Lane(p)
    BY <2>1, <2>3 DEF Same, MovedUp
  <2> QED BY <2>2, <2>3
<1>3. f \in Surjection(S \ {p}, L)
  BY <1>1 DEF Surjection
<1> HIDE DEF f
<1>4. IsFiniteSet(L)
  BY <1>3, FS_RemoveElement, FS_Surjection
<1> HIDE DEF up, L
<1>5. Distinct(S) => Distinct(L)
  BY <1>1, <1>2 DEF Distinct, MovedUp, Same
<1> QED BY <1>1, <1>2, <1>4, <1>5 DEF L

\* What an invariant says of a packet on a link depends on where it goes, not on the
\* place it has there.
LEMMA SameOnLink ==
  ASSUME NEW x, NEW q, Same(x, q), x.to = q.to, OnLink(q)
  PROVE  OnLink(x)
  BY DEF Same, OnLink, Dated, Course

LEMMA LeavingOnLink ==
  ASSUME TypeInv, NEW p \in net, \A q \in net : OnLink(q)
  PROVE  \A x \in Leaving(net, p) : OnLink(x)
<1>0. net \subseteq Packet /\ IsFiniteSet(net)
  BY DEF TypeInv
<1>1. \A x \in Leaving(net, p) : \E q \in net \ {p} : MovedUp(x, q, p)
  BY <1>0, LeavingIs, Zenon
<1>2. \A x \in Leaving(net, p) : \E q \in net : Same(x, q) /\ x.to = q.to
  BY <1>1 DEF MovedUp
<1> QED BY <1>2, SameOnLink

\* A packet enters a link with a host on its course as destination, or a gateway.
LEMMA EnteringOnLink ==
  ASSUME NEW S, S \subseteq Packet, IsFiniteSet(S), \A q \in S : OnLink(q),
         NEW p \in Packet, NEW n \in Node, Dated(p),
         p.dst \notin Gateway => Course(p, p.dst), p.dst \in Gateway => p.way # "stray"
  PROVE  \A x \in Entering(S, p, n) : OnLink(x)
<1>1. PICK q \in Packet : /\ Entering(S, p, n) = S \cup {q}
                          /\ Same(q, p) /\ q.to = NextOf(p, n)
  BY EnteringIs
<1>2. OnLink(q)
  <2>1. Dated(q) /\ (p.dst \notin Gateway => Course(q, q.dst))
    BY <1>1 DEF Dated, Course, Same
  <2> QED BY <1>1, <2>1, NextOfProps DEF OnLink, Same
<1> QED BY <1>1, <1>2

-----------------------------------------------------------------------------
(* Sequences of packets.                                                   *)

LEMMA AppendElements ==
  ASSUME NEW S, NEW s \in Seq(S), NEW x \in S
  PROVE  /\ Append(s, x) \in Seq(S)
         /\ ToSet(Append(s, x)) = ToSet(s) \cup {x}
         /\ DistinctSeq(s) /\ x.n \notin Numbers(ToSet(s)) => DistinctSeq(Append(s, x))
<1> DEFINE t == Append(s, x)
<1>1. /\ t \in Seq(S) /\ Len(s) \in Nat /\ DOMAIN s = 1 .. Len(s)
      /\ DOMAIN t = 1 .. Len(s) + 1
      /\ \A i \in 1 .. Len(s) : t[i] = s[i]
      /\ t[Len(s) + 1] = x
  BY LenProperties, AppendProperties
<1> HIDE DEF t
<1>2. ToSet(t) = ToSet(s) \cup {x}
  <2>1. \A i \in DOMAIN t : t[i] \in ToSet(s) \cup {x}
    BY <1>1 DEF ToSet
  <2>2. \A i \in DOMAIN s : s[i] \in ToSet(t)
    BY <1>1 DEF ToSet
  <2>3. x \in ToSet(t)
    BY <1>1 DEF ToSet
  <2> QED BY <2>1, <2>2, <2>3 DEF ToSet
<1>3. ASSUME DistinctSeq(s), x.n \notin Numbers(ToSet(s)) PROVE DistinctSeq(t)
  <2>1. \A i \in 1 .. Len(s) : s[i].n # x.n
    BY <1>1, <1>3 DEF Numbers, ToSet
  <2> SUFFICES ASSUME NEW i \in DOMAIN t, NEW j \in DOMAIN t, t[i].n = t[j].n
               PROVE  i = j
    BY DEF DistinctSeq
  <2> QED BY <1>1, <1>3, <2>1 DEF DistinctSeq
<1> QED BY <1>1, <1>2, <1>3 DEF t

LEMMA TailElements ==
  ASSUME NEW S, NEW s \in Seq(S), s # <<>>
  PROVE  /\ Tail(s) \in Seq(S) /\ Head(s) \in S
         /\ ToSet(s) = ToSet(Tail(s)) \cup {Head(s)}
         /\ DistinctSeq(s) =>
              DistinctSeq(Tail(s)) /\ Head(s).n \notin Numbers(ToSet(Tail(s)))
<1> DEFINE t == Tail(s)
           x == Head(s)
<1>1. /\ t \in Seq(S) /\ Len(s) \in Nat \ {0} /\ DOMAIN s = 1 .. Len(s) /\ x \in S
      /\ DOMAIN t = 1 .. Len(s) - 1 /\ x = s[1]
      /\ \A i \in 1 .. Len(s) - 1 : t[i] = s[i + 1]
  BY LenProperties, HeadTailProperties
<1> HIDE DEF t, x
<1>2. \A i \in 2 .. Len(s) : s[i] = t[i - 1] /\ i - 1 \in DOMAIN t
  BY <1>1
<1>3. ToSet(s) = ToSet(t) \cup {x}
  <2>1. \A i \in DOMAIN s : s[i] \in ToSet(t) \cup {x}
    <3> SUFFICES ASSUME NEW i \in DOMAIN s PROVE s[i] \in ToSet(t) \cup {x}
      OBVIOUS
    <3>1. CASE i = 1
      BY <1>1, <3>1
    <3>2. CASE i \in 2 .. Len(s)
      BY <1>2, <3>2 DEF ToSet
    <3> QED BY <1>1, <3>1, <3>2
  <2>2. \A i \in DOMAIN t : t[i] \in ToSet(s)
    BY <1>1 DEF ToSet
  <2>3. x \in ToSet(s)
    BY <1>1 DEF ToSet
  <2> QED BY <2>1, <2>2, <2>3 DEF ToSet
<1>4. ASSUME DistinctSeq(s) PROVE DistinctSeq(t) /\ x.n \notin Numbers(ToSet(t))
  <2>1. \A i \in DOMAIN t : t[i] = s[i + 1] /\ i + 1 \in DOMAIN s /\ i \in Nat /\ i + 1 # 1
    BY <1>1
  <2>2. \A i, j \in DOMAIN t : t[i].n = t[j].n => i = j
    <3> SUFFICES ASSUME NEW i \in DOMAIN t, NEW j \in DOMAIN t, t[i].n = t[j].n PROVE i = j
      OBVIOUS
    <3>1. i + 1 = j + 1
      BY <1>4, <2>1 DEF DistinctSeq
    <3> QED BY <2>1, <3>1
  <2>3. \A i \in DOMAIN t : t[i].n # x.n
    <3> SUFFICES ASSUME NEW i \in DOMAIN t, t[i].n = x.n PROVE FALSE
      OBVIOUS
    <3>1. i + 1 = 1
      BY <1>1, <1>4, <2>1 DEF DistinctSeq
    <3> QED BY <2>1, <3>1
  <2> QED BY <2>2, <2>3 DEF DistinctSeq, Numbers, ToSet
<1> QED BY <1>1, <1>3, <1>4 DEF t, x

-----------------------------------------------------------------------------
(* Every step keeps the invariant.                                         *)

LEMMA GatewayHosts == Gateway \subseteq Host /\ Switch \cap Host = {} /\ Host \subseteq Node
  BY BaselinesAssumption DEF Gateway, Switch, Leaf, Spine, Core, Host, Node

LEMMA FlowProps ==
  ASSUME NEW f \in Flow
  PROVE  /\ f.src \in VIP /\ f.dst \in VIP
         /\ Placement[f.src] \in Host /\ Placement[f.src] \in Node
         /\ GatewayOf[f] \in Host /\ GatewayOf[f] \in Gateway
<1>1. f.src \in VIP /\ f.dst \in VIP
  BY BaselinesAssumption
<1> QED BY <1>1, BaselinesAssumption, GatewayHosts DEF Gateway

\* No container is on a gateway's host, before or after it migrates.
LEMMA MapProps ==
  ASSUME TypeInv, MapInv, NEW v \in VIP
  PROVE  /\ directory[v] \notin Gateway /\ local[v] \notin Gateway
         /\ directory[v] = Placement[v] \/ directory[v] = local[v]
         /\ directory # Placement => directory[v] = local[v] /\ HasMoved
         /\ local[v] # Placement[v] => v = Migrated /\ HasMoved
<1>1. local[v] = Placement[v] \/ local[v] = NewHost
  BY DEF MapInv, HasMoved
<1>2. Placement[v] \notin Gateway /\ NewHost \notin Gateway
  BY BaselinesAssumption
<1>3. directory[v] = Placement[v] \/ directory[v] = local[v]
  BY DEF MapInv
<1> QED BY <1>1, <1>2, <1>3 DEF MapInv

LEMMA MapsSame ==
  ASSUME UNCHANGED <<simMode, directory, local>>
  PROVE  \A p : /\ OnLink(p)' <=> OnLink(p)
                /\ AtHost(p)' <=> AtHost(p)
                /\ AtGateway(p)' <=> AtGateway(p)
  BY DEF OnLink, AtHost, AtGateway, Dated, Course, HasMoved

\* The part of the state that a packet's step leaves alone.
Steady == UNCHANGED <<simMode, directory, local, updating>>

LEMMA SteadyMaps ==
  ASSUME MapInv, Steady
  PROVE  MapInv'
  BY DEF MapInv, Steady, HasMoved

LEMMA CachesSame ==
  ASSUME CacheInv, Steady, cache' = cache
  PROVE  CacheInv'
  BY DEF CacheInv, Steady

\* Packets stay what they are where they are, and the three places may gain one each.
LEMMA SteadyInv ==
  ASSUME Inv, Steady, CacheInv',
         net' \subseteq Packet, IsFiniteSet(net'), \A p \in net' : OnLink(p),
         waiting' \subseteq Packet, \A p \in waiting' : AtHost(p),
         gwPending' \in Seq(Packet), \A p \in ToSet(gwPending)' : AtGateway(p),
         sent' \in 0 .. MaxSends, queries' \in Nat,
         arrived' \in Seq([n : Nat, f : Flow, way : Way])
  PROVE  Inv'
<1>1. TypeInv'
  BY DEF Inv, TypeInv, Steady
<1>2. MapInv'
  BY SteadyMaps DEF Inv
<1>3. PacketInv'
  BY MapsSame DEF PacketInv, Steady
<1> QED BY <1>1, <1>2, <1>3 DEF Inv

LEMMA FreshPacket ==
  ASSUME Inv, NEW f \in Flow, NEW d \in Host, NEW way \in Way \ {"stray"},
         d \notin Gateway => d = directory[f.dst]
  PROVE  LET p == NewPacket(f, Placement[f.src], d, way)
         IN  /\ p \in Packet /\ Dated(p) /\ p.n = sent + 1 /\ p.way = way /\ p.dst = d
             /\ p.to = Placement[f.src]
             /\ d \notin Gateway => Course(p, d)
<1> DEFINE p == NewPacket(f, Placement[f.src], d, way)
<1>0. sent \in Nat /\ queries \in Nat
  BY BaselinesAssumption DEF Inv, TypeInv
<1>1. /\ p.f = f /\ p.way = way /\ p.dst = d /\ p.n = sent + 1 /\ p.to = Placement[f.src]
      /\ p.late = (directory # Placement)
  BY DEF NewPacket
<1>2. p \in Packet
  BY <1>0, FlowProps DEF NewPacket, Packet
<1> HIDE DEF p
<1>3. Dated(p)
  BY <1>1 DEF Dated
<1>4. d \notin Gateway => Course(p, d)
  <2>1. \/ directory[f.dst] = Placement[f.dst]
        \/ directory[f.dst] = local[f.dst]
    BY FlowProps, MapProps DEF Inv
  <2>2. directory # Placement => directory[f.dst] = local[f.dst]
    BY FlowProps, MapProps DEF Inv
  <2> QED BY <1>1, <2>1, <2>2 DEF Course
<1> QED BY <1>1, <1>2, <1>3, <1>4 DEF p

LEMMA SendDirectInv ==
  ASSUME Inv, NEW f \in Flow, SendDirect(f)
  PROVE  Inv'
<1> DEFINE h == Placement[f.src]
           d == directory[f.dst]
           p == NewPacket(f, h, d, "direct")
<1>1. d \in Host
  BY FlowProps DEF Inv, TypeInv
<1>2. p \in Packet /\ Dated(p) /\ p.way = "direct" /\ p.dst = d /\ (d \notin Gateway => Course(p, d))
  BY <1>1, FreshPacket DEF Way
<1>3. net' = Entering(net, p, h) /\ h \in Node
  BY FlowProps DEF SendDirect
<1> HIDE DEF p, h, d
<1>4. net' \subseteq Packet /\ IsFiniteSet(net')
  BY <1>2, <1>3, EnteringIs DEF Inv, TypeInv
<1>5. \A x \in net' : OnLink(x)
  BY <1>2, <1>3, EnteringOnLink DEF Inv, TypeInv, PacketInv
<1>6. sent' \in 0 .. MaxSends
  BY BaselinesAssumption DEF SendDirect, Sending, Inv, TypeInv
<1>7. Steady /\ UNCHANGED <<cache, waiting, gwPending, queries, arrived>>
  BY DEF SendDirect, Sending, Steady, control
<1> QED BY <1>4, <1>5, <1>6, <1>7, CachesSame, SteadyInv DEF Inv, TypeInv, PacketInv

LEMMA SendToGatewayInv ==
  ASSUME Inv, NEW f \in Flow, SendToGateway(f)
  PROVE  Inv'
<1> DEFINE h == Placement[f.src]
           d == GatewayOf[f]
           p == NewPacket(f, h, d, "gateway")
<1>1. d \in Host /\ d \in Gateway
  BY FlowProps
<1>2. p \in Packet /\ Dated(p) /\ p.way = "gateway" /\ p.dst = d
  BY <1>1, FreshPacket DEF Way
<1>3. net' = Entering(net, p, h) /\ h \in Node
  BY FlowProps DEF SendToGateway
<1> HIDE DEF p, h, d
<1>4. net' \subseteq Packet /\ IsFiniteSet(net')
  BY <1>2, <1>3, EnteringIs DEF Inv, TypeInv
<1>5. \A x \in net' : OnLink(x)
  BY <1>1, <1>2, <1>3, EnteringOnLink DEF Inv, TypeInv, PacketInv
<1>6. sent' \in 0 .. MaxSends
  BY BaselinesAssumption DEF SendToGateway, Sending, Inv, TypeInv
<1>7. Steady /\ UNCHANGED <<cache, waiting, gwPending, queries, arrived>>
  BY DEF SendToGateway, Sending, Steady, control
<1> QED BY <1>4, <1>5, <1>6, <1>7, CachesSame, SteadyInv DEF Inv, TypeInv, PacketInv

\* The destination of a packet that waits is not read.
LEMMA SendFirstInv ==
  ASSUME Inv, NEW f \in Flow, SendFirst(f)
  PROVE  Inv'
<1> DEFINE h == Placement[f.src]
           p == NewPacket(f, h, h, "first")
<1>0. sent \in Nat /\ queries \in Nat
  BY BaselinesAssumption DEF Inv, TypeInv
<1>1. p \in Packet
  BY <1>0, FlowProps DEF NewPacket, Packet, Way
<1>2. AtHost(p)
  BY FlowProps DEF NewPacket, AtHost, Dated
<1>3. waiting' = waiting \cup {p}
  BY DEF SendFirst
<1> HIDE DEF p, h
<1>4. waiting' \subseteq Packet /\ \A x \in waiting' : AtHost(x)
  BY <1>1, <1>2, <1>3 DEF Inv, TypeInv, PacketInv
<1>6. sent' \in 0 .. MaxSends
  BY BaselinesAssumption DEF SendFirst, Sending, Inv, TypeInv
<1>7. Steady /\ UNCHANGED <<cache, net, gwPending, queries, arrived>>
  BY DEF SendFirst, Sending, Steady, control
<1> QED BY <1>4, <1>6, <1>7, CachesSame, SteadyInv DEF Inv, TypeInv, PacketInv

\* A first packet leaves for where the directory says now, a stray for where its
\* container went.
LEMMA LeavesAsItself ==
  ASSUME Inv, NEW p \in waiting
  PROVE  LET q == [p EXCEPT !.dst = FollowMe(p), !.src = p.to,
                            !.late = @ \/ directory # Placement]
         IN  /\ q \in Packet /\ q.n = p.n /\ q.f = p.f /\ q.way = p.way /\ q.epoch = p.epoch
             /\ p.to \in Node /\ Dated(q) /\ Course(q, q.dst) /\ q.dst \notin Gateway
<1> DEFINE q == [p EXCEPT !.dst = FollowMe(p), !.src = p.to, !.late = @ \/ directory # Placement]
<1>2. p \in Packet /\ AtHost(p) /\ p.f \in Flow /\ p.f.dst \in VIP
  BY FlowProps DEF Inv, TypeInv, PacketInv, Packet
<1>3. p.to \in Host /\ p.to \in Node
  BY <1>2, GatewayHosts DEF AtHost
<1>4. /\ FollowMe(p) \in Host \ Gateway
      /\ FollowMe(p) = Placement[p.f.dst] \/ FollowMe(p) = local[p.f.dst]
      /\ p.late \/ directory # Placement \/ p.way = "stray" => FollowMe(p) = local[p.f.dst]
  <2>1. CASE p.way = "stray"
    <3>1. HasMoved /\ p.f.dst = Migrated
      BY <1>2, <2>1 DEF AtHost, Dated
    <3> QED BY <2>1, <3>1, BaselinesAssumption DEF FollowMe, HasMoved
  <2>2. CASE p.way # "stray"
    <3>1. directory[p.f.dst] \in Host \ Gateway
      BY <1>2, MapProps DEF Inv, TypeInv
    <3>2. p.late => directory # Placement
      BY <1>2 DEF AtHost, Dated
    <3> QED BY <1>2, <2>2, <3>1, <3>2, MapProps DEF Inv, FollowMe
  <2> QED BY <2>1, <2>2
<1>5. /\ q \in Packet /\ q.dst = FollowMe(p) /\ q.f = p.f /\ q.way = p.way /\ q.n = p.n
      /\ q.epoch = p.epoch
      /\ q.late <=> p.late \/ directory # Placement
  <2>1. PICK b \in BOOLEAN : b = (p.late \/ directory # Placement)
    <3>1. \E b \in BOOLEAN : b = (p.late \/ directory # Placement)
      OBVIOUS
    <3> QED BY <3>1
  <2>2. PICK d \in Host : d = FollowMe(p)
    BY <1>4
  <2>3. PICK s \in Host : s = p.to
    BY <1>3
  <2>4. q = [p EXCEPT !.dst = d, !.src = s, !.late = b]
    BY <1>2, <2>1, <2>2, <2>3 DEF Packet
  <2> HIDE DEF q
  <2>5. /\ q \in Packet /\ q.dst = d /\ q.f = p.f /\ q.way = p.way /\ q.n = p.n
        /\ q.epoch = p.epoch /\ q.late = b
    BY <1>2, <2>4 DEF Packet
  <2> QED BY <2>1, <2>2, <2>5
<1> HIDE DEF q
<1>6. Dated(q) /\ Course(q, q.dst) /\ q.dst \notin Gateway
  BY <1>2, <1>4, <1>5 DEF Dated, Course, AtHost
<1> QED BY <1>3, <1>5, <1>6 DEF q

LEMMA LeaveInv ==
  ASSUME Inv, Leave
  PROVE  Inv'
<1>1. PICK p \in waiting :
        /\ waiting' = waiting \ {p}
        /\ net' = Entering(net, [p EXCEPT !.dst = FollowMe(p), !.src = p.to,
                                          !.late = @ \/ directory # Placement], p.to)
  BY DEF Leave
<1> DEFINE q == [p EXCEPT !.dst = FollowMe(p), !.src = p.to, !.late = @ \/ directory # Placement]
<1>2. /\ q \in Packet /\ p.to \in Node
      /\ Dated(q) /\ Course(q, q.dst) /\ q.dst \notin Gateway
  BY LeavesAsItself
<1>3. net' = Entering(net, q, p.to)
  BY <1>1
<1> HIDE DEF q
<1>4. net' \subseteq Packet /\ IsFiniteSet(net')
  BY <1>2, <1>3, EnteringIs DEF Inv, TypeInv
<1>5. \A x \in net' : OnLink(x)
  BY <1>2, <1>3, EnteringOnLink DEF Inv, TypeInv, PacketInv
<1>6. Steady /\ UNCHANGED <<cache, gwPending, sent, queries, arrived>>
  BY DEF Leave, Steady, control
<1> QED BY <1>1, <1>4, <1>5, <1>6, CachesSame, SteadyInv DEF Inv, TypeInv, PacketInv

\* Only a packet that has not strayed yet is misdelivered, and where caches are empty only
\* one that left before UpdateMappings.
LEMMA Misdelivery ==
  ASSUME Inv, NEW p \in net, p.to \in Host \ Gateway, local[p.f.dst] # p.to
  PROVE  /\ HasMoved /\ p.f.dst = Migrated /\ p.way # "stray"
         /\ ~p.late \/ simMode = "Controller"
<1>1. OnLink(p) /\ p.f.dst \in VIP
  BY FlowProps DEF Inv, TypeInv, PacketInv, Packet
<1>2. p.to = p.dst /\ Course(p, p.dst)
  BY <1>1, GatewayHosts DEF OnLink
<1>3. /\ local[p.f.dst] # Placement[p.f.dst] /\ p.way # "stray"
      /\ ~p.late \/ simMode = "Controller"
  BY <1>2 DEF Course
<1> QED BY <1>1, <1>3, MapProps DEF Inv

LEMMA HostReceiveInv ==
  ASSUME Inv, HostReceive
  PROVE  Inv'
<1>1. PICK p \in net :
        /\ p.to \in Host \ Gateway
        /\ net' = Leaving(net, p)
        /\ \/ /\ arrived' = Append(arrived, [n |-> p.n, f |-> p.f, way |-> p.way])
              /\ UNCHANGED waiting
           \/ /\ local[p.f.dst] # p.to
              /\ waiting' = waiting \cup {[p EXCEPT !.way = "stray"]}
              /\ UNCHANGED arrived
  BY DEF HostReceive, Heads
<1>2. p \in Packet
  BY DEF Inv, TypeInv
<1>3. net' \subseteq Packet /\ IsFiniteSet(net')
  BY <1>1, LeavingIs DEF Inv, TypeInv
<1>4. \A x \in net' : OnLink(x)
  BY <1>1, LeavingOnLink DEF Inv, PacketInv
<1>5. arrived' \in Seq([n : Nat, f : Flow, way : Way])
  <2> DEFINE S == [n : Nat, f : Flow, way : Way]
             x == [n |-> p.n, f |-> p.f, way |-> p.way]
  <2>1. x \in S
    BY <1>2 DEF Packet
  <2>2. arrived \in Seq(S)
    BY DEF Inv, TypeInv
  <2>3. arrived' = Append(arrived, x) \/ arrived' = arrived
    BY <1>1
  <2> HIDE DEF S, x
  <2>4. Append(arrived, x) \in Seq(S)
    BY <2>1, <2>2, AppendElements
  <2>5. arrived' \in Seq(S)
    BY <2>2, <2>3, <2>4
  <2> QED BY <2>5 DEF S
<1>6. waiting' \subseteq Packet /\ \A x \in waiting' : AtHost(x)
  <2>1. CASE waiting' = waiting
    BY <2>1 DEF Inv, TypeInv, PacketInv
  <2>2. CASE local[p.f.dst] # p.to /\ waiting' = waiting \cup {[p EXCEPT !.way = "stray"]}
    <3> DEFINE q == [p EXCEPT !.way = "stray"]
    <3>1. q \in Packet /\ q.to = p.to /\ q.f = p.f /\ q.late = p.late /\ q.way = "stray"
      BY <1>2 DEF Packet, Way
    <3> HIDE DEF q
    <3>2. HasMoved /\ p.f.dst = Migrated /\ (~p.late \/ simMode = "Controller")
      BY <1>1, <2>2, Misdelivery
    <3>3. Dated(p)
      BY DEF Inv, PacketInv, OnLink
    <3>4. AtHost(q)
      BY <1>1, <3>1, <3>2, <3>3 DEF AtHost, Dated
    <3> QED BY <2>2, <3>1, <3>4 DEF Inv, TypeInv, PacketInv, q
  <2> QED BY <1>1, <2>1, <2>2
<1>7. Steady /\ UNCHANGED <<cache, gwPending, sent, queries>>
  BY DEF HostReceive, Steady, control
<1> QED BY <1>3, <1>4, <1>5, <1>6, <1>7, CachesSame, SteadyInv DEF Inv, TypeInv, PacketInv

\* A switch passes a packet on along its route, or to a host its cache names.
LEMMA SwitchPasses ==
  ASSUME Inv, SwitchReceive
  PROVE  /\ Steady /\ CacheInv' /\ UNCHANGED <<waiting, gwPending, sent, queries, expected, arrived>>
         /\ \A s \in Switch : cache'[s].map = cache[s].map
         /\ \E p \in Heads : \E q \in Packet :
              /\ p.to \in Switch /\ p.dst \in Gateway /\ p.way # "stray"
              /\ net' = Entering(Leaving(net, p), q, p.to)
              /\ q = p \/ (simMode = "Controller" /\ Has(cache[p.to], p.f.dst))
              /\ Has(cache[p.to], p.f.dst) => q.dst \notin Gateway /\ Course(q, q.dst)
              /\ \E d \in Host : q = [p EXCEPT !.dst = d]
<1>1. PICK p \in Heads :
        /\ p.to \in Switch
        /\ cache' = [cache EXCEPT ![p.to] = LRUGet(@, p.f.dst)]
        /\ net' = Entering(Leaving(net, p),
                           IF Has(cache[p.to], p.f.dst)
                           THEN [p EXCEPT !.dst = cache[p.to].map[p.f.dst]] ELSE p, p.to)
  BY DEF SwitchReceive
<1> DEFINE c == cache[p.to]
           v == p.f.dst
<1>2. p \in net /\ p \in Packet /\ OnLink(p) /\ v \in VIP
  BY FlowProps DEF Heads, Inv, TypeInv, PacketInv, Packet
<1>3. p.dst \in Gateway /\ p.way # "stray"
  BY <1>1, <1>2, GatewayHosts DEF OnLink, Packet
<1>4. LRUOK(c, VIP, MemorySize) /\ MemorySize \in Nat
  BY <1>1, BaselinesAssumption DEF Inv, CacheInv
<1>5. LRUOK(LRUGet(c, v), VIP, MemorySize) /\ LRUGet(c, v).map = c.map
  BY <1>4, LRUGetKeeps
<1>6. Has(c, v) => simMode = "Controller"
  <2>1. DOMAIN EmptyLRU.map = {}
    BY <1>4, EmptyLRUOK
  <2> QED BY <1>1, <2>1 DEF Inv, CacheInv, Has
<1>7. Steady /\ UNCHANGED <<waiting, gwPending, sent, queries, expected, arrived>>
  BY DEF SwitchReceive, Steady, control
<1>8. \A s \in Switch : cache'[s] = IF s = p.to THEN LRUGet(c, v) ELSE cache[s]
  BY <1>1 DEF Inv, CacheInv
<1>9. \A s \in Switch : cache'[s].map = cache[s].map
  BY <1>5, <1>8
<1>10. CacheInv'
  <2>1. cache' = [s \in Switch |-> cache'[s]]
    BY <1>1 DEF Inv, CacheInv
  <2>2. \A s \in Switch : LRUOK(cache'[s], VIP, MemorySize)
    BY <1>5, <1>8 DEF Inv, CacheInv
  <2>3. simMode # "Controller" => \A s \in Switch : cache'[s] = EmptyLRU
    <3> SUFFICES ASSUME simMode # "Controller", NEW s \in Switch PROVE cache'[s] = EmptyLRU
      OBVIOUS
    <3>1. cache'[s] = cache[s]
      BY <1>6, <1>8 DEF LRUGet
    <3> QED BY <3>1 DEF Inv, CacheInv
  <2> QED BY <1>7, <1>9, <2>1, <2>2, <2>3 DEF Inv, CacheInv, Steady
<1>11. CASE ~Has(c, v)
  <2>1. p = [p EXCEPT !.dst = p.dst] /\ p.dst \in Host
    BY <1>2 DEF Packet
  <2>2. net' = Entering(Leaving(net, p), p, p.to)
    BY <1>1, <1>11
  <2> QED BY <1>1, <1>2, <1>3, <1>7, <1>9, <1>10, <1>11, <2>1, <2>2
<1>12. CASE Has(c, v)
  <2> DEFINE d == c.map[v]
             q == [p EXCEPT !.dst = d]
  <2>1. d = Placement[v] \/ d = local[v]
    BY <1>1, <1>12 DEF Inv, CacheInv, Has
  <2>2. d \in Host /\ d \notin Gateway
    <3>1. Placement[v] \in Host /\ local[v] \in Host
      BY <1>2, BaselinesAssumption DEF Inv, TypeInv
    <3>2. Placement[v] \notin Gateway /\ local[v] \notin Gateway
      BY <1>2, MapProps, BaselinesAssumption DEF Inv
    <3> QED BY <2>1, <3>1, <3>2
  <2> HIDE DEF d
  <2>3. q \in Packet /\ q.dst = d /\ q.f = p.f /\ q.way = p.way
    BY <1>2, <2>2 DEF Packet
  <2>4. net' = Entering(Leaving(net, p), q, p.to)
    BY <1>1, <1>12 DEF d
  <2>5. q = [p EXCEPT !.dst = d]
    OBVIOUS
  <2> HIDE DEF q
  <2>6. Course(q, q.dst)
    BY <1>3, <1>6, <1>12, <2>1, <2>3 DEF Course
  <2>7. \E e \in Host : q = [p EXCEPT !.dst = e]
    BY <2>2, <2>5
  <2>8. /\ q \in Packet /\ q.dst \notin Gateway /\ p.to \in Switch /\ p.dst \in Gateway
        /\ p.way # "stray" /\ simMode = "Controller" /\ Has(cache[p.to], p.f.dst)
    BY <1>1, <1>3, <1>6, <1>12, <2>2, <2>3
  <2>9. \E r \in Packet :
          /\ p.to \in Switch /\ p.dst \in Gateway /\ p.way # "stray"
          /\ net' = Entering(Leaving(net, p), r, p.to)
          /\ r = p \/ (simMode = "Controller" /\ Has(cache[p.to], p.f.dst))
          /\ Has(cache[p.to], p.f.dst) => r.dst \notin Gateway /\ Course(r, r.dst)
          /\ \E e \in Host : r = [p EXCEPT !.dst = e]
    BY <2>4, <2>6, <2>7, <2>8, Zenon
  <2> QED BY <1>7, <1>9, <1>10, <2>9, Zenon
<1> QED BY <1>11, <1>12

LEMMA SwitchReceiveInv ==
  ASSUME Inv, SwitchReceive
  PROVE  Inv'
<1>1. PICK p \in net, q \in Packet :
        /\ p.to \in Switch /\ p.dst \in Gateway /\ p.way # "stray"
        /\ net' = Entering(Leaving(net, p), q, p.to)
        /\ q = p \/ (simMode = "Controller" /\ Has(cache[p.to], p.f.dst))
        /\ Has(cache[p.to], p.f.dst) => q.dst \notin Gateway /\ Course(q, q.dst)
        /\ \E d \in Host : q = [p EXCEPT !.dst = d]
  BY SwitchPasses DEF Heads
<1>2. p \in Packet /\ OnLink(p) /\ p.to \in Node
  BY <1>1 DEF Inv, TypeInv, PacketInv, Node
<1>3. /\ Dated(q) /\ q.way # "stray"
      /\ q.dst \notin Gateway => Course(q, q.dst)
  <2>1. q.f = p.f /\ q.way = p.way /\ q.late = p.late
    BY <1>1, <1>2 DEF Packet
  <2>2. q.dst \notin Gateway => Course(q, q.dst)
    BY <1>1
  <2> QED BY <1>1, <1>2, <2>1, <2>2 DEF OnLink, Dated
<1> DEFINE L == Leaving(net, p)
<1>4. L \subseteq Packet /\ IsFiniteSet(L) /\ \A x \in L : OnLink(x)
  BY LeavingIs, LeavingOnLink DEF Inv, TypeInv, PacketInv
<1> HIDE DEF L
<1>5. net' = Entering(L, q, p.to)
  BY <1>1 DEF L
<1>6. net' \subseteq Packet /\ IsFiniteSet(net')
  BY <1>2, <1>4, <1>5, EnteringIs
<1>7. \A x \in net' : OnLink(x)
  BY <1>2, <1>3, <1>4, <1>5, EnteringOnLink
<1>8. Steady /\ CacheInv' /\ UNCHANGED <<waiting, gwPending, sent, queries, arrived>>
  BY SwitchPasses
<1> QED BY <1>6, <1>7, <1>8, SteadyInv DEF Inv, TypeInv, PacketInv

LEMMA GatewayReceiveInv ==
  ASSUME Inv, GatewayReceive
  PROVE  Inv'
<1>1. PICK p \in net :
        /\ p.to \in Gateway
        /\ net' = Leaving(net, p)
        /\ gwPending' = Append(gwPending, [p EXCEPT !.dst = directory[p.f.dst]])
  BY DEF GatewayReceive, Heads
<1> DEFINE q == [p EXCEPT !.dst = directory[p.f.dst]]
<1>2. p \in Packet /\ OnLink(p) /\ p.f.dst \in VIP
  BY FlowProps DEF Inv, TypeInv, PacketInv, Packet
<1>3. p.way # "stray"
  <2>1. p.dst \in Gateway
    BY <1>1, <1>2 DEF OnLink
  <2> QED BY <1>2, <2>1 DEF OnLink
<1>4. directory[p.f.dst] \in Host
  BY <1>2 DEF Inv, TypeInv
<1>5. /\ q \in Packet /\ q.to = p.to /\ q.f = p.f /\ q.way = p.way /\ q.late = p.late
      /\ q.dst = directory[p.f.dst]
  BY <1>2, <1>4 DEF Packet
<1>6. gwPending' = Append(gwPending, q)
  BY <1>1
<1> HIDE DEF q
<1>7. AtGateway(q)
  <2>1. Dated(q)
    BY <1>2, <1>5 DEF OnLink, Dated
  <2>2. Course(q, q.dst)
    BY <1>2, <1>3, <1>5, <2>1, MapProps DEF Course, Dated, Inv
  <2> QED BY <1>1, <1>3, <1>5, <2>1, <2>2 DEF AtGateway
<1>8. gwPending' \in Seq(Packet) /\ ToSet(gwPending') = ToSet(gwPending) \cup {q}
  BY <1>5, <1>6, AppendElements DEF Inv, TypeInv
<1>9. \A x \in ToSet(gwPending)' : AtGateway(x)
  BY <1>7, <1>8 DEF Inv, PacketInv
<1>10. net' \subseteq Packet /\ IsFiniteSet(net') /\ \A x \in net' : OnLink(x)
  BY <1>1, LeavingIs, LeavingOnLink DEF Inv, TypeInv, PacketInv
<1>11. Steady /\ UNCHANGED <<cache, waiting, sent, queries, arrived>>
  BY DEF GatewayReceive, Steady, control
<1> QED BY <1>8, <1>9, <1>10, <1>11, CachesSame, SteadyInv DEF Inv, TypeInv, PacketInv

LEMMA GatewaySendInv ==
  ASSUME Inv, GatewaySend
  PROVE  Inv'
<1> DEFINE p == Head(gwPending)
<1>1. gwPending # <<>> /\ net' = Entering(net, p, p.to) /\ gwPending' = Tail(gwPending)
  BY DEF GatewaySend
<1>2. /\ gwPending' \in Seq(Packet) /\ p \in Packet
      /\ ToSet(gwPending) = ToSet(gwPending') \cup {p}
  BY <1>1, TailElements DEF Inv, TypeInv
<1> HIDE DEF p
<1>3. AtGateway(p) /\ p.f.dst \in VIP
  BY <1>2, FlowProps DEF Inv, PacketInv, Packet
<1>4. p.to \in Node /\ p.dst \notin Gateway
  <2>1. p.dst \notin Gateway
    BY <1>3, MapProps, BaselinesAssumption DEF AtGateway, Course, Inv
  <2> QED BY <1>3, <2>1, GatewayHosts DEF AtGateway
<1>5. net' \subseteq Packet /\ IsFiniteSet(net')
  BY <1>1, <1>2, <1>4, EnteringIs DEF Inv, TypeInv
<1>6. \A x \in net' : OnLink(x)
  BY <1>1, <1>2, <1>3, <1>4, EnteringOnLink DEF Inv, TypeInv, PacketInv, AtGateway
<1>7. \A x \in ToSet(gwPending)' : AtGateway(x)
  BY <1>2 DEF Inv, PacketInv
<1>8. Steady /\ UNCHANGED <<cache, waiting, sent, queries, arrived>>
  BY DEF GatewaySend, Steady, control
<1> QED BY <1>2, <1>5, <1>6, <1>7, <1>8, CachesSame, SteadyInv DEF Inv, TypeInv, PacketInv

-----------------------------------------------------------------------------
(* BulkInsert: the recursion ends, and leaves all that it put in front.    *)

LEMMA MaxOfFinite ==
  ASSUME NEW S \in SUBSET Nat, IsFiniteSet(S), S # {}
  PROVE  Max(S) \in S
<1> DEFINE Bounded(X) == \E x \in X : \A y \in X : x >= y
           T == {k \in Nat : \A X \in SUBSET Nat :
                   IsFiniteSet(X) /\ Cardinality(X) = k + 1 => Bounded(X)}
<1>1. 0 \in T
  <2> SUFFICES ASSUME NEW X \in SUBSET Nat, IsFiniteSet(X), Cardinality(X) = 1 PROVE Bounded(X)
    OBVIOUS
  <2>1. PICK x : X = {x}
    BY FS_Singleton
  <2> QED BY <2>1
<1>2. ASSUME NEW k \in Nat, k \in T PROVE k + 1 \in T
  <2> SUFFICES ASSUME NEW X \in SUBSET Nat, IsFiniteSet(X), Cardinality(X) = (k + 1) + 1
               PROVE  Bounded(X)
    OBVIOUS
  <2>1. X # {}
    BY FS_EmptySet
  <2>2. PICK x \in X : TRUE
    BY <2>1
  <2>3. IsFiniteSet(X \ {x}) /\ Cardinality(X \ {x}) = Cardinality(X) - 1
    BY <2>2, FS_RemoveElement
  <2>4. Cardinality(X \ {x}) = k + 1
    BY <2>3
  <2>5. PICK y \in X \ {x} : \A z \in X \ {x} : y >= z
    BY <1>2, <2>3, <2>4
  <2>6. x \in Nat /\ y \in Nat /\ \A z \in X : z \in Nat
    BY <2>2
  <2>7. CASE x <= y
    BY <2>5, <2>6, <2>7
  <2>8. CASE y < x
    BY <2>5, <2>6, <2>8
  <2> QED BY <2>6, <2>7, <2>8
<1> HIDE DEF T, Bounded
<1>3. Nat \subseteq T
  BY <1>1, <1>2, InductiveSet
<1>4. Cardinality(S) \in Nat /\ Cardinality(S) # 0
  BY FS_CardinalityType, FS_EmptySet
<1>5. Cardinality(S) - 1 \in T /\ (Cardinality(S) - 1) + 1 = Cardinality(S)
  BY <1>3, <1>4
<1>6. Bounded(S)
  BY <1>5 DEF T
<1> QED BY <1>6 DEF Max, Bounded

\* What the recursion of BulkInsert makes of the containers S.
InsertStep(c, S, g) ==
  IF S = {} THEN c ELSE LRUPut(g[S \ {Max(S)}], MemorySize, Max(S), directory[Max(S)])

LEMMA BulkInsertUnfolds ==
  ASSUME NEW c, NEW K \in SUBSET VIP, IsFiniteSet(K)
  PROVE  \E g : /\ g = [S \in SUBSET K |-> InsertStep(c, S, g)]
                /\ BulkInsert(c, K) = g[K]
<1> DEFINE Upto(k) == {S \in SUBSET K : Cardinality(S) <= k}
           T == {k \in Nat : \E g : g = [S \in Upto(k) |-> InsertStep(c, S, g)]}
<1>0. \A S \in SUBSET K : S \in SUBSET Nat /\ IsFiniteSet(S) /\ Cardinality(S) \in Nat
  BY FS_Subset, FS_CardinalityType, BaselinesAssumption
<1>1. 0 \in T
  <2> DEFINE g == [S \in Upto(0) |-> c]
  <2>1. \A S \in Upto(0) : S = {}
    BY <1>0, FS_EmptySet
  <2>2. g = [S \in Upto(0) |-> InsertStep(c, S, g)]
    BY <2>1 DEF InsertStep
  <2> QED BY <2>2
<1>2. ASSUME NEW k \in Nat, k \in T PROVE k + 1 \in T
  <2>1. PICK g : g = [S \in Upto(k) |-> InsertStep(c, S, g)]
    BY <1>2
  <2> DEFINE h == [S \in Upto(k + 1) |-> InsertStep(c, S, g)]
  <2>2. \A S \in Upto(k) : S \in Upto(k + 1) /\ h[S] = g[S]
    <3>1. \A S \in Upto(k) : S \in Upto(k + 1)
      BY <1>0
    <3> QED BY <2>1, <3>1
  <2>3. \A S \in Upto(k + 1) : S # {} => S \ {Max(S)} \in Upto(k)
    <3> SUFFICES ASSUME NEW S \in Upto(k + 1), S # {} PROVE S \ {Max(S)} \in Upto(k)
      OBVIOUS
    <3>1. Max(S) \in S
      BY <1>0, MaxOfFinite
    <3>2. Cardinality(S \ {Max(S)}) = Cardinality(S) - 1
      BY <1>0, <3>1, FS_RemoveElement
    <3> QED BY <1>0, <3>2
  <2>4. \A S \in Upto(k + 1) : InsertStep(c, S, h) = InsertStep(c, S, g)
    BY <2>2, <2>3 DEF InsertStep
  <2>5. h = [S \in Upto(k + 1) |-> InsertStep(c, S, h)]
    BY <2>4
  <2> HIDE DEF h, Upto
  <2> QED BY <2>5
<1>3. Nat \subseteq T
  <2> HIDE DEF T
  <2> QED BY <1>1, <1>2, InductiveSet
<1>4. Upto(Cardinality(K)) = SUBSET K
  <2>1. \A S \in SUBSET K : Cardinality(S) <= Cardinality(K)
    BY FS_Subset
  <2> QED BY <2>1
<1>5. PICK h : h = [S \in SUBSET K |-> InsertStep(c, S, h)]
  <2>1. Cardinality(K) \in T
    BY <1>0, <1>3
  <2> HIDE DEF Upto
  <2> QED BY <1>4, <2>1
<1>6. BulkInsert(c, K) = (CHOOSE g : g = [S \in SUBSET K |-> InsertStep(c, S, g)])[K]
  BY DEF BulkInsert, MapThenFoldSet, InsertStep
<1> DEFINE f == CHOOSE g : g = [S \in SUBSET K |-> InsertStep(c, S, g)]
<1>7. f = [S \in SUBSET K |-> InsertStep(c, S, f)]
  BY <1>5
<1> QED BY <1>6, <1>7

\* As many containers as there is room for: all of them are in the cache afterwards, with
\* the addresses of the directory, and what else is there was there before.
LEMMA BulkInsertHolds ==
  ASSUME NEW c, LRUOK(c, VIP, MemorySize), NEW K \in SUBSET VIP, IsFiniteSet(K),
         Cardinality(K) <= MemorySize
  PROVE  LET b == BulkInsert(c, K)
         IN  /\ LRUOK(b, VIP, MemorySize)
             /\ K \subseteq DOMAIN b.map
             /\ \A x \in K : b.map[x] = directory[x]
             /\ \A x \in DOMAIN b.map \ K : x \in DOMAIN c.map /\ b.map[x] = c.map[x]
<1>0. /\ \A S \in SUBSET K : S \in SUBSET Nat /\ IsFiniteSet(S) /\ Cardinality(S) \in Nat
      /\ MemorySize \in Nat
  BY FS_Subset, FS_CardinalityType, BaselinesAssumption
<1>1. PICK g : g = [S \in SUBSET K |-> InsertStep(c, S, g)] /\ BulkInsert(c, K) = g[K]
  BY BulkInsertUnfolds
<1> DEFINE Holds(S) ==
             /\ LRUOK(g[S], VIP, MemorySize) /\ Leads(g[S].dq, S, Cardinality(S))
             /\ \A x \in S : g[S].map[x] = directory[x]
             /\ \A x \in DOMAIN g[S].map \ S : x \in DOMAIN c.map /\ g[S].map[x] = c.map[x]
           T == {k \in Nat : \A S \in SUBSET K :
                   Cardinality(S) = k /\ k <= MemorySize => Holds(S)}
<1>2. 0 \in T
  <2> SUFFICES ASSUME NEW S \in SUBSET K, Cardinality(S) = 0 PROVE Holds(S)
    OBVIOUS
  <2>1. S = {}
    BY <1>0, FS_EmptySet
  <2>2. g[S] = c
    BY <1>1, <2>1 DEF InsertStep
  <2>3. Leads(c.dq, {}, 0)
    BY LenProperties DEF Leads, LRUOK
  <2> QED BY <2>1, <2>2, <2>3
<1>3. ASSUME NEW k \in Nat, k \in T PROVE k + 1 \in T
  <2> SUFFICES ASSUME NEW S \in SUBSET K, Cardinality(S) = k + 1, k + 1 <= MemorySize
               PROVE  Holds(S)
    OBVIOUS
  <2> DEFINE v == Max(S)
             R == S \ {v}
  <2>1. S # {}
    BY FS_EmptySet
  <2>2. v \in S /\ v \in VIP
    BY <1>0, <2>1, MaxOfFinite
  <2> HIDE DEF v
  <2>3. R \in SUBSET K /\ v \notin R /\ S = R \cup {v}
    BY <2>2
  <2>4. Cardinality(R) = Cardinality(S) - 1
    BY <1>0, <2>2, FS_RemoveElement
  <2>5. Cardinality(R) = k /\ k <= MemorySize /\ k < MemorySize
    BY <1>0, <2>4
  <2>6. Holds(R)
    BY <1>3, <2>3, <2>5
  <2>7. g[S] = LRUPut(g[R], MemorySize, v, directory[v])
    BY <1>1, <2>1 DEF InsertStep, v
  <2> HIDE DEF R
  <2> DEFINE e == LRUPut(g[R], MemorySize, v, directory[v])
  <2>8. k < MemorySize /\ Leads(g[R].dq, R, k) /\ LRUOK(g[R], VIP, MemorySize)
    BY <2>5, <2>6
  <2>9. /\ LRUOK(e, VIP, MemorySize) /\ Leads(e.dq, R \cup {v}, k + 1)
        /\ e.map[v] = directory[v]
        /\ \A x \in DOMAIN e.map : x # v => x \in DOMAIN g[R].map /\ e.map[x] = g[R].map[x]
    <3>1. MemorySize \in Nat /\ v \in VIP /\ v \notin R
      BY <1>0, <2>2, <2>3
    <3> HIDE DEF T, Holds
    <3>2. e = LRUPut(g[R], MemorySize, v, directory[v])
      OBVIOUS
    <3> HIDE DEF e
    <3>3. LRUOK(e, VIP, MemorySize) /\ Leads(e.dq, R \cup {v}, k + 1) /\ e.map[v] = directory[v]
      <4> DEFINE b == g[R]
                 w == directory[v]
      <4>1. e = LRUPut(b, MemorySize, v, w) /\ Leads(b.dq, R, k) /\ LRUOK(b, VIP, MemorySize)
            /\ k < MemorySize
        BY <2>8, <3>2
      <4> HIDE DEF b, w
      <4>2. LRUOK(e, VIP, MemorySize) /\ Leads(e.dq, R \cup {v}, k + 1) /\ e.map[v] = w
        <5>1. e.map[v] = w
          BY <4>1, LRUPutValue
        <5>2. LRUOK(e, VIP, MemorySize) /\ Leads(e.dq, R \cup {v}, k + 1)
          BY <3>1, <4>1, LRUPutLeads, Zenon
        <5> QED BY <5>1, <5>2
      <4> QED BY <4>2 DEF w
    <3>4. \A x \in DOMAIN e.map : x # v => x \in DOMAIN g[R].map /\ e.map[x] = g[R].map[x]
      BY <3>2, LRUPutOthers
    <3> QED BY <3>3, <3>4
  <2>10. DOMAIN e.map = ToSet(e.dq) /\ R \cup {v} \subseteq ToSet(e.dq)
    <3>1. ToSet(e.dq) = {e.dq[i] : i \in 1 .. Len(e.dq)} /\ DOMAIN e.map = ToSet(e.dq)
          /\ Len(e.dq) \in Nat
      BY <2>9, ToSetProps, LenProperties DEF LRUOK
    <3> HIDE DEF e
    <3>2. \A i \in 1 .. k + 1 : i \in 1 .. Len(e.dq)
      BY <2>9, <3>1 DEF Leads
    <3> QED BY <2>9, <3>1, <3>2 DEF Leads
  <2>11. g[S] = e
    BY <2>7
  <2> HIDE DEF e
  <2>12. \A x \in S : e.map[x] = directory[x]
    BY <2>3, <2>6, <2>9, <2>10
  <2>13. \A x \in DOMAIN e.map \ S : x \in DOMAIN c.map /\ e.map[x] = c.map[x]
    BY <2>3, <2>6, <2>9
  <2> QED BY <2>3, <2>9, <2>11, <2>12, <2>13
<1> HIDE DEF T
<1>4. Nat \subseteq T
  BY <1>2, <1>3, InductiveSet
<1>5. Holds(K)
  <2>1. Cardinality(K) \in T /\ K \in SUBSET K
    BY <1>0, <1>4
  <2> QED BY <2>1 DEF T
<1>6. K \subseteq DOMAIN g[K].map
  <2> DEFINE b == g[K]
  <2>1. /\ b.dq \in Seq(VIP) /\ DOMAIN b.map = ToSet(b.dq)
        /\ Leads(b.dq, K, Cardinality(K))
    BY <1>5 DEF LRUOK
  <2> HIDE DEF b
  <2>2. ToSet(b.dq) = {b.dq[i] : i \in 1 .. Len(b.dq)} /\ Len(b.dq) \in Nat
    BY <2>1, ToSetProps, LenProperties
  <2>3. \A i \in 1 .. Cardinality(K) : i \in 1 .. Len(b.dq)
    BY <1>0, <2>1, <2>2 DEF Leads
  <2> QED BY <2>1, <2>2, <2>3 DEF Leads, b
<1> QED BY <1>1, <1>5, <1>6

\* A solution fits: the containers it has for a switch are no more than there is room for.
LEMMA SolutionFits ==
  ASSUME NEW flows \in SUBSET Flow, NEW solution \in Feasible(flows), NEW s
  PROVE  LET K == {e[2] : e \in {x \in solution : x[1] = s}}
         IN  K \subseteq VIP /\ IsFiniteSet(K) /\ Cardinality(K) <= MemorySize
<1> DEFINE E == {x \in solution : x[1] = s}
           K == {e[2] : e \in E}
<1>1. PICK g \in [flows -> UNION {PathOf(f) : f \in flows}], some \in SUBSET flows :
        solution = {<<g[f], f.dst>> : f \in some}
  BY DEF Feasible
<1>2. \A e \in solution : Cardinality({x \in solution : x[1] = e[1]}) <= MemorySize
  BY DEF Feasible
<1>3. IsFiniteSet(some)
  BY FS_Subset, BaselinesAssumption
<1>4. IsFiniteSet(solution)
  <2> DEFINE h == [f \in some |-> <<g[f], f.dst>>]
  <2>1. h \in Surjection(some, solution)
    BY <1>1 DEF Surjection
  <2> HIDE DEF h
  <2> QED BY <1>3, <2>1, FS_Surjection
<1>5. IsFiniteSet(E) /\ Cardinality(E) \in Nat
  BY <1>4, FS_Subset, FS_CardinalityType
<1>6. Cardinality(E) <= MemorySize
  <2>1. CASE E = {}
    <3>1. Cardinality({}) = 0 /\ MemorySize \in Nat
      BY FS_EmptySet, BaselinesAssumption
    <3> HIDE DEF E
    <3> QED BY <2>1, <3>1
  <2>2. CASE E # {}
    <3>1. PICK e \in solution : e[1] = s
      BY <2>2
    <3> QED BY <1>2, <3>1
  <2> QED BY <2>1, <2>2
<1>7. IsFiniteSet(K) /\ Cardinality(K) <= Cardinality(E)
  <2> DEFINE h == [e \in E |-> e[2]]
  <2>1. h \in Surjection(E, K)
    BY DEF Surjection
  <2> HIDE DEF h, E, K
  <2> QED BY <1>5, <2>1, FS_Surjection
<1>8. K \subseteq VIP
  BY <1>1, FlowProps
<1>9. Cardinality(K) \in Nat /\ MemorySize \in Nat
  BY <1>7, FS_CardinalityType, BaselinesAssumption
<1> HIDE DEF E, K
<1>10. Cardinality(K) <= MemorySize
  BY <1>5, <1>6, <1>7, <1>9
<1> QED BY <1>7, <1>8, <1>10 DEF E, K

\* A query fills the caches from the directory: what it installs is all there afterwards.
LEMMA QueryInstalls ==
  ASSUME Inv, NEW flows \in SUBSET Flow, NEW solution \in Feasible(flows),
         cache' = Installed(solution), local' = local, simMode' = simMode, simMode = "Controller"
  PROVE  /\ CacheInv'
         /\ \A s \in Switch : \A v : <<s, v>> \in solution => Has(cache'[s], v)
<1>1. \A s \in Switch :
        /\ LRUOK(cache'[s], VIP, MemorySize)
        /\ \A v : <<s, v>> \in solution => Has(cache'[s], v)
        /\ \A v \in DOMAIN cache'[s].map :
             cache'[s].map[v] = Placement[v] \/ cache'[s].map[v] = local[v]
  <2> SUFFICES ASSUME NEW s \in Switch
               PROVE  /\ LRUOK(cache'[s], VIP, MemorySize)
                      /\ \A v : <<s, v>> \in solution => Has(cache'[s], v)
                      /\ \A v \in DOMAIN cache'[s].map :
                           cache'[s].map[v] = Placement[v] \/ cache'[s].map[v] = local[v]
    OBVIOUS
  <2> DEFINE K == {e[2] : e \in {x \in solution : x[1] = s}}
             c == cache[s]
             b == BulkInsert(c, K)
  <2>1. K \subseteq VIP /\ IsFiniteSet(K) /\ Cardinality(K) <= MemorySize
    BY SolutionFits
  <2>2. /\ LRUOK(c, VIP, MemorySize)
        /\ \A v \in DOMAIN c.map : c.map[v] = Placement[v] \/ c.map[v] = local[v]
    BY DEF Inv, CacheInv
  <2>3. cache'[s] = b
    BY DEF Installed
  <2>4. \A v : <<s, v>> \in solution => v \in K
    <3> SUFFICES ASSUME NEW v, <<s, v>> \in solution PROVE v \in K
      OBVIOUS
    <3>1. <<s, v>>[1] = s /\ <<s, v>>[2] = v
      OBVIOUS
    <3> QED BY <3>1
  <2> HIDE DEF K, c
  <2>5. /\ LRUOK(b, VIP, MemorySize)
        /\ K \subseteq DOMAIN b.map
        /\ \A x \in K : b.map[x] = directory[x]
        /\ \A x \in DOMAIN b.map \ K : x \in DOMAIN c.map /\ b.map[x] = c.map[x]
    BY <2>1, <2>2, BulkInsertHolds
  <2> HIDE DEF b
  <2>6. \A v \in DOMAIN b.map : b.map[v] = Placement[v] \/ b.map[v] = local[v]
    <3> SUFFICES ASSUME NEW v \in DOMAIN b.map
                 PROVE  b.map[v] = Placement[v] \/ b.map[v] = local[v]
      OBVIOUS
    <3>1. CASE v \in K
      <4>1. directory[v] = Placement[v] \/ directory[v] = local[v]
        BY <2>1, <3>1, MapProps DEF Inv
      <4> QED BY <2>5, <3>1, <4>1
    <3>2. CASE v \notin K
      <4>1. v \in DOMAIN c.map /\ b.map[v] = c.map[v]
        BY <2>5, <3>2
      <4> QED BY <2>2, <4>1
    <3> QED BY <3>1, <3>2
  <2> QED BY <2>3, <2>4, <2>5, <2>6 DEF Has
<1>2. cache' = [s \in Switch |-> cache'[s]]
  BY DEF Installed
<1> QED BY <1>1, <1>2 DEF CacheInv

LEMMA QuerySteps ==
  ASSUME Inv, QuerySwitches
  PROVE  /\ Steady /\ simMode = "Controller" /\ CacheInv' /\ queries' = queries + 1
         /\ UNCHANGED <<net, waiting, gwPending, sent, arrived, hosts>>
         /\ expected' \subseteq Flow
         /\ \A f \in expected' : \E s \in PathOf(f) : s \in Switch => Has(cache'[s], f.dst)
<1> DEFINE count == [f \in Flow |-> matrix[LeafOf(Placement[f.src])][f]]
           seen  == {f \in Flow : count[f] > 0}
<1>1. PICK solution \in Solutions(seen, count) :
        /\ cache' = Installed(solution)
        /\ expected' = {f \in seen : AnsweredBy(solution, f)}
  BY DEF QuerySwitches
<1>2. solution \in Feasible(seen)
  BY DEF Solutions
<1>3. /\ Steady /\ simMode = "Controller" /\ queries' = queries + 1
      /\ UNCHANGED <<net, waiting, gwPending, sent, arrived, hosts>>
  BY DEF QuerySwitches, Steady, hosts
<1>4. seen \in SUBSET Flow
  OBVIOUS
<1> HIDE DEF seen, count
<1>5. /\ CacheInv'
      /\ \A s \in Switch : \A v : <<s, v>> \in solution => Has(cache'[s], v)
  BY <1>1, <1>2, <1>3, <1>4, QueryInstalls DEF Steady
<1>6. \A f \in expected' : \E s \in PathOf(f) : s \in Switch => Has(cache'[s], f.dst)
  BY <1>1, <1>5 DEF AnsweredBy
<1> QED BY <1>1, <1>3, <1>4, <1>5, <1>6

LEMMA QuerySwitchesInv ==
  ASSUME Inv, QuerySwitches
  PROVE  Inv'
<1>1. /\ Steady /\ CacheInv' /\ queries' \in Nat
      /\ UNCHANGED <<net, waiting, gwPending, sent, arrived>>
  BY QuerySteps DEF Inv, TypeInv
<1> QED BY <1>1, SteadyInv DEF Inv, TypeInv, PacketInv

-----------------------------------------------------------------------------
\* Nothing has strayed or left late when the container moves.
LEMMA MigrationInv ==
  ASSUME Inv, Migration
  PROVE  Inv' /\ local = Placement /\ local' # Placement
<1>1. Migrated # None /\ local[Migrated] # NewHost /\ Migrated \in VIP /\ NewHost \in Host
  BY BaselinesAssumption DEF Migration
<1>2. ~HasMoved
  BY <1>1 DEF HasMoved
<1>3. local = Placement /\ directory = Placement
  <2>1. \A v \in VIP : local[v] = Placement[v]
    BY <1>2 DEF Inv, MapInv
  <2>2. local \in [VIP -> Host] /\ Placement \in [VIP -> Host]
    BY BaselinesAssumption DEF Inv, TypeInv
  <2>3. local = Placement
    BY <2>1, <2>2
  <2> QED BY <1>2, <2>3 DEF Inv, MapInv
<1>4. /\ local' = [local EXCEPT ![Migrated] = NewHost] /\ updating' = TRUE
      /\ UNCHANGED <<simMode, cache, net, waiting, gwPending, directory, sent, arrived, queries>>
  BY DEF Migration, control
<1>5. local' \in [VIP -> Host] /\ local'[Migrated] = NewHost
  BY <1>1, <1>4 DEF Inv, TypeInv
<1>6. TypeInv'
  BY <1>4, <1>5 DEF Inv, TypeInv
<1>7. HasMoved'
  BY <1>1, <1>5 DEF HasMoved
<1>8. MapInv'
  <2>1. \A v \in VIP : v = Migrated \/ local'[v] = Placement[v]
    BY <1>3, <1>4, <1>5
  <2> QED BY <1>3, <1>4, <1>7, <2>1 DEF MapInv
<1>9. \A p : Dated(p) => ~p.late /\ p.way # "stray" /\ Dated(p)'
  BY <1>2, <1>3 DEF Dated
<1>10. \A p, d : Course(p, d) /\ Dated(p) => Course(p, d)'
  BY <1>3, <1>4, <1>9 DEF Course
<1>11. PacketInv'
  BY <1>4, <1>9, <1>10 DEF Inv, PacketInv, OnLink, AtHost, AtGateway
<1>12. CacheInv'
  BY <1>3, <1>4 DEF Inv, CacheInv
<1> QED BY <1>1, <1>3, <1>5, <1>6, <1>8, <1>11, <1>12 DEF Inv

LEMMA UpdateMappingsInv ==
  ASSUME Inv, UpdateMappings
  PROVE  Inv' /\ local' = local
<1>1. HasMoved
  BY DEF UpdateMappings, Inv, MapInv
<1>2. /\ directory' = [directory EXCEPT ![Migrated] = NewHost] /\ updating' = FALSE
      /\ UNCHANGED <<simMode, cache, net, waiting, gwPending, local, sent, arrived, queries>>
  BY DEF UpdateMappings, control
<1>3. directory' = local
  <2>1. \A v \in VIP : directory'[v] = local[v]
    BY <1>1, <1>2 DEF Inv, TypeInv, MapInv, HasMoved
  <2> QED BY <1>2, <2>1 DEF Inv, TypeInv
<1>4. TypeInv'
  BY <1>2, <1>3 DEF Inv, TypeInv
<1>5. MapInv'
  BY <1>1, <1>2, <1>3 DEF Inv, MapInv, HasMoved
<1>6. directory # Placement => directory' # Placement
  BY <1>3 DEF Inv, MapInv
<1>7. \A p : Dated(p) => Dated(p)'
  BY <1>2, <1>6 DEF Dated, HasMoved
<1>8. \A p, d : Course(p, d) => Course(p, d)'
  BY <1>2 DEF Course
<1>9. PacketInv'
  BY <1>2, <1>7, <1>8 DEF Inv, PacketInv, OnLink, AtHost, AtGateway
<1>10. CacheInv'
  BY <1>2 DEF Inv, CacheInv
<1> QED BY <1>2, <1>4, <1>5, <1>9, <1>10 DEF Inv

LEMMA NextInv ==
  ASSUME Inv, [Next]_vars
  PROVE  Inv' /\ simMode' = simMode
<1>1. CASE Leave \/ HostReceive \/ SwitchReceive \/ GatewayReceive \/ GatewaySend
  BY <1>1, LeaveInv, HostReceiveInv, SwitchReceiveInv, GatewayReceiveInv, GatewaySendInv
     DEF Leave, HostReceive, SwitchReceive, GatewayReceive, GatewaySend
<1>2. CASE UpdateMappings \/ Migration
  BY <1>2, UpdateMappingsInv, MigrationInv DEF UpdateMappings, Migration
<1>3. CASE \E f \in Flow : SendDirect(f) \/ SendFirst(f) \/ SendToGateway(f)
  BY <1>3, SendDirectInv, SendFirstInv, SendToGatewayInv
     DEF SendDirect, SendFirst, SendToGateway, Sending
<1>4. CASE QuerySwitches
  BY <1>4, QuerySwitchesInv DEF QuerySwitches
<1>5. CASE UNCHANGED vars
  <2>1. Steady /\ UNCHANGED <<cache, net, waiting, gwPending, sent, queries, arrived>>
    BY <1>5 DEF vars, Steady
  <2>2. Inv'
    BY <2>1, CachesSame, SteadyInv DEF Inv, TypeInv, PacketInv
  <2> QED BY <2>1, <2>2 DEF Steady
<1> QED BY <1>1, <1>2, <1>3, <1>4, <1>5 DEF Next, System, Done

LEMMA InitInv ==
  ASSUME Init PROVE Inv
<1>1. net = {} /\ waiting = {} /\ gwPending = <<>> /\ arrived = <<>> /\ ToSet(gwPending) = {}
  BY DEF Init, ToSet
<1>2. TypeInv
  <2>1. 0 \in 0 .. MaxSends /\ Placement \in [VIP -> Host]
    BY BaselinesAssumption
  <2>2. <<>> \in Seq(Packet) /\ <<>> \in Seq([n : Nat, f : Flow, way : Way])
    OBVIOUS
  <2>3. net \subseteq Packet /\ IsFiniteSet(net) /\ waiting \subseteq Packet
    BY <1>1, FS_EmptySet
  <2> QED BY <1>1, <2>1, <2>2, <2>3 DEF Init, TypeInv
<1>3. MapInv
  BY DEF Init, MapInv
<1>4. PacketInv
  BY <1>1 DEF PacketInv
<1>5. CacheInv
  <2>1. LRUOK(EmptyLRU, VIP, MemorySize) /\ DOMAIN EmptyLRU.map = {}
    BY BaselinesAssumption, EmptyLRUOK
  <2>2. cache = [s \in Switch |-> EmptyLRU]
    BY DEF Init
  <2> QED BY <2>1, <2>2 DEF CacheInv
<1> QED BY <1>2, <1>3, <1>4, <1>5 DEF Inv

\* Without a controller, packets that leave their host after UpdateMappings do not stray,
\* in every network and with any number of packets: all that a host, a gateway or a
\* switch may still hold from before is dated (socket-helper.cc:32, 77-126,
\* gateway-app.cc:58-95, trace-sim.cc:377-383).
THEOREM UpdateEnds == Spec => []UpdateEndsStrays
<1>1. Init => Inv
  BY InitInv
<1>2. Inv /\ [Next]_vars => Inv'
  BY NextInv
<1>3. Inv => UpdateEndsStrays
  BY DEF Inv, PacketInv, AtHost, UpdateEndsStrays
<1> QED BY <1>1, <1>2, <1>3, PTL DEF Spec

-----------------------------------------------------------------------------
(* Identities.  Where the packets are, by number, is all that Delivery sees. *)

Strays(S) == {p.n : p \in {q \in S : q.way = "stray"}}

LEMMA NumbersEntering ==
  ASSUME TypeInv, NEW S, S \subseteq Packet, IsFiniteSet(S), NEW p \in Packet, NEW n \in Node
  PROVE  LET E == Entering(S, p, n)
         IN  /\ Numbers(E) = Numbers(S) \cup {p.n}
             /\ Strays(E) = Strays(S) \cup (IF p.way = "stray" THEN {p.n} ELSE {})
             /\ Distinct(S) /\ p.n \notin Numbers(S) => Distinct(E)
<1>1. PICK q \in Packet : Entering(S, p, n) = S \cup {q} /\ Same(q, p)
  BY EnteringIs
<1>2. Numbers(S \cup {q}) = Numbers(S) \cup {p.n}
  BY <1>1 DEF Numbers, Same
<1>3. Strays(S \cup {q}) = Strays(S) \cup (IF p.way = "stray" THEN {p.n} ELSE {})
  BY <1>1 DEF Strays, Same
<1>4. Distinct(S) /\ p.n \notin Numbers(S) => Distinct(S \cup {q})
  BY <1>1 DEF Distinct, Numbers, Same
<1> QED BY <1>1, <1>2, <1>3, <1>4

LEMMA NumbersRemoving ==
  ASSUME NEW S, NEW p \in S, Distinct(S)
  PROVE  /\ Numbers(S \ {p}) = Numbers(S) \ {p.n}
         /\ Strays(S \ {p}) = Strays(S) \ {p.n}
         /\ Distinct(S \ {p})
         /\ p.n \in Numbers(S) /\ (p.n \in Strays(S) <=> p.way = "stray")
  BY DEF Numbers, Strays, Distinct

LEMMA NumbersAdding ==
  ASSUME NEW S, NEW p, p.n \notin Numbers(S)
  PROVE  /\ Numbers(S \cup {p}) = Numbers(S) \cup {p.n}
         /\ Strays(S \cup {p}) = Strays(S) \cup (IF p.way = "stray" THEN {p.n} ELSE {})
         /\ Distinct(S) => Distinct(S \cup {p})
<1>1. Numbers(S \cup {p}) = Numbers(S) \cup {p.n}
  BY DEF Numbers
<1>2. Strays(S \cup {p}) = Strays(S) \cup (IF p.way = "stray" THEN {p.n} ELSE {})
  BY DEF Strays
<1>3. Distinct(S) => Distinct(S \cup {p})
  BY DEF Distinct, Numbers
<1> QED BY <1>1, <1>2, <1>3

LEMMA NumbersLeaving ==
  ASSUME TypeInv, NEW p \in net, Distinct(net)
  PROVE  /\ Numbers(Leaving(net, p)) = Numbers(net) \ {p.n}
         /\ Strays(Leaving(net, p)) = Strays(net) \ {p.n}
         /\ Distinct(Leaving(net, p))
<1> DEFINE L == Leaving(net, p)
           R == net \ {p}
<1>1. /\ \A x \in L : \E q \in R : Same(x, q)
      /\ \A q \in R : \E x \in L : Same(x, q)
      /\ Distinct(L)
  BY LeavingIs DEF TypeInv, MovedUp
<1>2. Numbers(R) = Numbers(net) \ {p.n} /\ Strays(R) = Strays(net) \ {p.n}
  BY NumbersRemoving
<1> HIDE DEF L, R
<1>3. Numbers(L) = Numbers(R)
  BY <1>1 DEF Numbers, Same
<1>4. Strays(L) = Strays(R)
  <2>1. \A x \in L : x.way = "stray" => \E q \in R : q.way = "stray" /\ q.n = x.n
    BY <1>1 DEF Same
  <2>2. \A q \in R : q.way = "stray" => \E x \in L : x.way = "stray" /\ x.n = q.n
    BY <1>1 DEF Same
  <2> QED BY <2>1, <2>2 DEF Strays
<1> QED BY <1>1, <1>2, <1>3, <1>4 DEF L

LEMMA DistinctElements ==
  ASSUME NEW s, DistinctSeq(s)
  PROVE  Distinct(ToSet(s))
  BY DEF DistinctSeq, Distinct, ToSet

-----------------------------------------------------------------------------
(* What Delivery sees of a packet.                                         *)

Carried(n)  == n \in Numbers(net) \cup Numbers(waiting) \cup Numbers(ToSet(gwPending))
Straying(n) == n \in Strays(net) \cup Strays(waiting) \cup Strays(ToSet(gwPending))

Fate(n) ==
  IF n > sent THEN "unsent"
  ELSE IF Carried(n) THEN IF Straying(n) THEN "detour" ELSE "underway"
  ELSE IF n \in Arrived THEN "delivered" ELSE "lost"

LEMMA StatusIsFate == Inv /\ OneCopy => \A n \in 1 .. MaxSends : StatusOf(n) = Fate(n)
<1> SUFFICES ASSUME Inv, OneCopy, NEW n \in 1 .. MaxSends PROVE StatusOf(n) = Fate(n)
  OBVIOUS
<1> DEFINE copies   == {p \in UnderWay : p.n = n}
           arrivals == {i \in DOMAIN arrived : arrived[i].n = n}
           misled   == {p \in net : p.way = "stray" /\ p.to # local[p.f.dst]}
<1>0. n \in Nat /\ sent \in Nat
  BY BaselinesAssumption DEF Inv, TypeInv
<1>1. misled = {}
  <2> SUFFICES ASSUME NEW p \in net, p.way = "stray" PROVE p.to = local[p.f.dst]
    OBVIOUS
  <2>1. OnLink(p)
    BY DEF Inv, PacketInv
  <2> QED BY <2>1 DEF OnLink, Course
<1>2. Carried(n) <=> copies # {}
  BY DEF Carried, UnderWay, Numbers
<1>3. Straying(n) <=> \E p \in copies : p.way = "stray"
  BY DEF Straying, UnderWay, Strays
<1>4. Distinct(ToSet(gwPending))
  BY DistinctElements DEF OneCopy
<1>5. \A p, q \in copies : p = q
  BY <1>4 DEF OneCopy, Apart, Distinct, Numbers, UnderWay
<1>6. n \in Arrived <=> arrivals # {}
  BY DEF Arrived, Numbers, ToSet
<1>7. \A i, j \in arrivals : i = j
  BY DEF OneCopy, DistinctSeq
<1>8. copies # {} => arrivals = {}
  BY <1>2, <1>6 DEF Carried, OneCopy, Apart
<1> HIDE DEF copies, arrivals, misled
<1>9. copies # {} => Cardinality(copies) = 1
  <2>1. copies # {} => \E p : copies = {p}
    BY <1>5
  <2> QED BY <2>1, FS_Singleton
<1>10. arrivals # {} => Cardinality(arrivals) = 1
  <2>1. arrivals # {} => \E i : arrivals = {i}
    BY <1>7
  <2> QED BY <2>1, FS_Singleton
<1>11. Cardinality({}) = 0
  BY FS_EmptySet
<1>12. StatusOf(n) =
         CASE n > sent -> "unsent"
           [] n <= sent /\ copies = {} /\ Cardinality(arrivals) = 1 -> "delivered"
           [] n <= sent /\ copies = {} /\ arrivals = {} -> "lost"
           [] n <= sent /\ Cardinality(copies) = 1 /\ arrivals = {} /\ copies \cap misled = {} ->
                IF \E p \in copies : p.way = "stray" THEN "detour" ELSE "underway"
           [] OTHER -> "wrong"
  BY DEF StatusOf, copies, arrivals, misled
<1>13. CASE n > sent
  BY <1>0, <1>12, <1>13 DEF Fate
<1>14. CASE n <= sent /\ copies = {}
  BY <1>0, <1>2, <1>6, <1>10, <1>11, <1>12, <1>14 DEF Fate
<1>15. CASE n <= sent /\ copies # {}
  BY <1>0, <1>1, <1>2, <1>3, <1>8, <1>9, <1>12, <1>15 DEF Fate
<1> QED BY <1>0, <1>13, <1>14, <1>15

-----------------------------------------------------------------------------
(* The steps, as Delivery sees them.                                       *)

\* The packets other than m fare as before.
OthersSame(m) == \A n \in 1 .. MaxSends : n # m => Fate(n)' = Fate(n)

LEMMA SendCopies ==
  ASSUME Inv, OneCopy, NEW f \in Flow, SendDirect(f) \/ SendFirst(f) \/ SendToGateway(f)
  PROVE  /\ OneCopy'
         /\ \E m \in 1 .. MaxSends :
              OthersSame(m) /\ Fate(m) = "unsent" /\ Fate(m)' = "underway"
<1>1. /\ sent \in Nat /\ sent + 1 <= MaxSends /\ sent' = sent + 1
      /\ UNCHANGED <<gwPending, arrived>>
  BY BaselinesAssumption DEF Inv, TypeInv, SendDirect, SendFirst, SendToGateway, Sending
<1>2. PICK m \in 1 .. MaxSends : m = sent + 1
  BY <1>1, BaselinesAssumption
<1>3. /\ m \notin Numbers(net) /\ m \notin Numbers(waiting) /\ m \notin Numbers(ToSet(gwPending))
      /\ m \notin Arrived
  BY <1>1, <1>2 DEF OneCopy, Apart
<1>4. \A d \in Host : \A way \in Way \ {"stray"} :
        net' = Entering(net, NewPacket(f, Placement[f.src], d, way), Placement[f.src])
        /\ (d \notin Gateway => d = directory[f.dst])
        => /\ Numbers(net)' = Numbers(net) \cup {m} /\ Strays(net)' = Strays(net)
           /\ Distinct(net')
  <2> SUFFICES ASSUME NEW d \in Host, NEW way \in Way \ {"stray"},
                      net' = Entering(net, NewPacket(f, Placement[f.src], d, way), Placement[f.src]),
                      d \notin Gateway => d = directory[f.dst]
               PROVE  /\ Numbers(net)' = Numbers(net) \cup {m} /\ Strays(net)' = Strays(net)
                      /\ Distinct(net')
    OBVIOUS
  <2> DEFINE p == NewPacket(f, Placement[f.src], d, way)
  <2>1. p \in Packet /\ p.n = m /\ p.way # "stray"
    BY <1>2, FreshPacket
  <2>2. net' = Entering(net, p, Placement[f.src]) /\ Placement[f.src] \in Node
    BY FlowProps
  <2> HIDE DEF p
  <2> DEFINE E == Entering(net, p, Placement[f.src])
  <2>3. /\ Numbers(E) = Numbers(net) \cup {p.n}
        /\ Strays(E) = Strays(net) \cup (IF p.way = "stray" THEN {p.n} ELSE {})
        /\ Distinct(net) /\ p.n \notin Numbers(net) => Distinct(E)
    BY <2>1, <2>2, NumbersEntering DEF Inv, TypeInv
  <2>4. net' = E
    BY <2>2
  <2> HIDE DEF E
  <2>5. Strays(E) = Strays(net) /\ Distinct(E) /\ Numbers(E) = Numbers(net) \cup {m}
    BY <1>3, <2>1, <2>3 DEF OneCopy
  <2> QED BY <2>4, <2>5
<1>5. ASSUME SendDirect(f) \/ SendToGateway(f)
      PROVE  /\ OneCopy'
             /\ \A n : /\ Carried(n)' <=> Carried(n) \/ n = m
                       /\ Straying(n)' <=> Straying(n)
                       /\ n \in Arrived' <=> n \in Arrived
  <2>1. /\ Numbers(net)' = Numbers(net) \cup {m} /\ Strays(net)' = Strays(net)
        /\ Distinct(net')
    <3>1. directory[f.dst] \in Host /\ GatewayOf[f] \in Host /\ GatewayOf[f] \in Gateway
      BY FlowProps DEF Inv, TypeInv
    <3>2. CASE SendDirect(f)
      <4>1. net' = Entering(net, NewPacket(f, Placement[f.src], directory[f.dst], "direct"),
                            Placement[f.src])
        BY <3>2 DEF SendDirect
      <4> QED BY <1>4, <3>1, <4>1 DEF Way
    <3>3. CASE SendToGateway(f)
      <4>1. net' = Entering(net, NewPacket(f, Placement[f.src], GatewayOf[f], "gateway"),
                            Placement[f.src])
        BY <3>3 DEF SendToGateway
      <4> QED BY <1>4, <3>1, <4>1 DEF Way
    <3> QED BY <1>5, <3>2, <3>3
  <2>2. waiting' = waiting
    BY <1>5 DEF SendDirect, SendToGateway
  <2>3. OneCopy'
    BY <1>1, <1>2, <1>3, <2>1, <2>2 DEF OneCopy, Apart, Arrived
  <2>4. \A n : /\ Carried(n)' <=> Carried(n) \/ n = m
               /\ Straying(n)' <=> Straying(n)
               /\ n \in Arrived' <=> n \in Arrived
    BY <1>1, <2>1, <2>2 DEF Carried, Straying, Arrived
  <2> QED BY <2>3, <2>4
<1>6. ASSUME SendFirst(f)
      PROVE  /\ OneCopy'
             /\ \A n : /\ Carried(n)' <=> Carried(n) \/ n = m
                       /\ Straying(n)' <=> Straying(n)
                       /\ n \in Arrived' <=> n \in Arrived
  <2>1. PICK p : waiting' = waiting \cup {p} /\ p.n = m /\ p.way # "stray"
    <3>1. waiting' = waiting \cup {NewPacket(f, Placement[f.src], Placement[f.src], "first")}
      BY <1>6 DEF SendFirst
    <3>2. /\ NewPacket(f, Placement[f.src], Placement[f.src], "first").n = m
          /\ NewPacket(f, Placement[f.src], Placement[f.src], "first").way # "stray"
      BY <1>2 DEF NewPacket
    <3> QED BY <3>1, <3>2
  <2>2. /\ Numbers(waiting)' = Numbers(waiting) \cup {m}
        /\ Strays(waiting)' = Strays(waiting) /\ Distinct(waiting')
    <3> DEFINE W == waiting \cup {p}
    <3>1. /\ Numbers(W) = Numbers(waiting) \cup {p.n}
          /\ Strays(W) = Strays(waiting) \cup (IF p.way = "stray" THEN {p.n} ELSE {})
          /\ Distinct(waiting) => Distinct(W)
      BY <1>3, <2>1, NumbersAdding
    <3>2. waiting' = W
      BY <2>1
    <3> HIDE DEF W
    <3>3. Strays(W) = Strays(waiting) /\ Distinct(W) /\ Numbers(W) = Numbers(waiting) \cup {m}
      BY <2>1, <3>1 DEF OneCopy
    <3> QED BY <3>2, <3>3
  <2>3. net' = net
    BY <1>6 DEF SendFirst
  <2>4. OneCopy'
    BY <1>1, <1>2, <1>3, <2>2, <2>3 DEF OneCopy, Apart, Arrived
  <2>5. \A n : /\ Carried(n)' <=> Carried(n) \/ n = m
               /\ Straying(n)' <=> Straying(n)
               /\ n \in Arrived' <=> n \in Arrived
    BY <1>1, <2>2, <2>3 DEF Carried, Straying, Arrived
  <2> QED BY <2>4, <2>5
<1>7. /\ OneCopy'
      /\ \A n : /\ Carried(n)' <=> Carried(n) \/ n = m
                /\ Straying(n)' <=> Straying(n)
                /\ n \in Arrived' <=> n \in Arrived
  BY <1>5, <1>6
<1>8. \A n \in 1 .. MaxSends : n # m => (n > sent <=> n > sent')
  BY <1>1, <1>2
<1>9. OthersSame(m)
  BY <1>7, <1>8 DEF OthersSame, Fate
<1>10. ~Straying(m)
  <2>1. \A S : Strays(S) \subseteq Numbers(S)
    BY DEF Strays, Numbers
  <2> QED BY <1>3, <2>1 DEF Straying
<1>11. m > sent /\ ~(m > sent')
  BY <1>1, <1>2
<1>12. Fate(m) = "unsent" /\ Fate(m)' = "underway"
  BY <1>7, <1>10, <1>11 DEF Fate
<1> QED BY <1>7, <1>9, <1>12

\* A packet goes from one place to another, unchanged or as a stray.
LEMMA MovedFate ==
  ASSUME OneCopy, sent \in Nat, NEW m, Carried(m), sent' = sent, Arrived' = Arrived,
         \A n : Carried(n)' <=> Carried(n),
         \A n : n # m => (Straying(n)' <=> Straying(n))
  PROVE  /\ OthersSame(m)
         /\ Fate(m) = IF Straying(m) THEN "detour" ELSE "underway"
         /\ Fate(m)' = IF Straying(m)' THEN "detour" ELSE "underway"
<1>1. ~(m > sent)
  BY DEF Carried, OneCopy, Apart
<1>2. OthersSame(m)
  BY DEF OthersSame, Fate
<1> QED BY <1>1, <1>2 DEF Fate

LEMMA LeaveCopies ==
  ASSUME Inv, OneCopy, Leave
  PROVE  OneCopy' /\ \A n \in 1 .. MaxSends : Fate(n)' = Fate(n)
<1>1. PICK p \in waiting :
        /\ waiting' = waiting \ {p}
        /\ net' = Entering(net, [p EXCEPT !.dst = FollowMe(p), !.src = p.to,
                                          !.late = @ \/ directory # Placement], p.to)
  BY DEF Leave
<1> DEFINE q == [p EXCEPT !.dst = FollowMe(p), !.src = p.to, !.late = @ \/ directory # Placement]
           E == Entering(net, q, p.to)
<1>2. p \in Packet /\ AtHost(p) /\ p.to \in Node
  BY GatewayHosts DEF Inv, TypeInv, PacketInv, AtHost
<1>3. q \in Packet /\ q.n = p.n /\ q.way = p.way
  BY <1>2, LeavesAsItself DEF Inv
<1>4. net' = E
  BY <1>1
<1> HIDE DEF q
<1>5. /\ Numbers(waiting)' = Numbers(waiting) \ {p.n}
      /\ Strays(waiting)' = Strays(waiting) \ {p.n} /\ Distinct(waiting')
      /\ p.n \in Numbers(waiting) /\ (p.n \in Strays(waiting) <=> p.way = "stray")
  BY <1>1, NumbersRemoving DEF OneCopy
<1>6. p.n \notin Numbers(net)
  BY <1>5 DEF OneCopy, Apart
<1>7. /\ Numbers(E) = Numbers(net) \cup {p.n}
      /\ Strays(E) = Strays(net) \cup (IF p.way = "stray" THEN {p.n} ELSE {})
      /\ Distinct(E)
  BY <1>2, <1>3, <1>6, NumbersEntering DEF Inv, TypeInv, OneCopy
<1> HIDE DEF E
<1>8. UNCHANGED <<gwPending, sent, arrived>>
  BY DEF Leave
<1>9. OneCopy'
  BY <1>4, <1>5, <1>7, <1>8 DEF OneCopy, Apart, Arrived
<1>10. \A n : (Carried(n)' <=> Carried(n)) /\ (Straying(n)' <=> Straying(n))
  BY <1>4, <1>5, <1>7, <1>8 DEF Carried, Straying
<1> QED BY <1>8, <1>9, <1>10 DEF Fate, Arrived

LEMMA SwitchCopies ==
  ASSUME Inv, OneCopy, SwitchReceive
  PROVE  OneCopy' /\ \A n \in 1 .. MaxSends : Fate(n)' = Fate(n)
<1>1. PICK p \in net, q \in Packet :
        /\ p.to \in Switch /\ net' = Entering(Leaving(net, p), q, p.to)
        /\ \E d \in Host : q = [p EXCEPT !.dst = d]
  BY SwitchPasses DEF Heads
<1> DEFINE L == Leaving(net, p)
           E == Entering(L, q, p.to)
<1>2. p \in Packet /\ p.to \in Node
  BY <1>1 DEF Inv, TypeInv, Node
<1>3. q.n = p.n /\ q.way = p.way
  BY <1>1, <1>2 DEF Packet
<1>4. /\ Numbers(L) = Numbers(net) \ {p.n} /\ Strays(L) = Strays(net) \ {p.n}
      /\ Distinct(L)
  BY NumbersLeaving DEF Inv, OneCopy
<1>5. p.n \in Numbers(net) /\ (p.n \in Strays(net) <=> p.way = "stray")
  BY NumbersRemoving DEF OneCopy
<1>6. L \subseteq Packet /\ IsFiniteSet(L)
  BY LeavingIs DEF Inv, TypeInv
<1>7. net' = E
  BY <1>1
<1> HIDE DEF L
<1>8. /\ Numbers(E) = Numbers(L) \cup {p.n}
      /\ Strays(E) = Strays(L) \cup (IF p.way = "stray" THEN {p.n} ELSE {})
      /\ Distinct(E)
  <2>1. /\ Numbers(E) = Numbers(L) \cup {q.n}
        /\ Strays(E) = Strays(L) \cup (IF q.way = "stray" THEN {q.n} ELSE {})
        /\ Distinct(L) /\ q.n \notin Numbers(L) => Distinct(E)
    BY <1>2, <1>6, NumbersEntering DEF Inv
  <2> HIDE DEF E
  <2> QED BY <1>3, <1>4, <2>1
<1> HIDE DEF E
<1>9. Numbers(net') = Numbers(net) /\ Strays(net') = Strays(net) /\ Distinct(net')
  BY <1>4, <1>5, <1>7, <1>8
<1>10. UNCHANGED <<waiting, gwPending, sent, arrived>>
  BY SwitchPasses
<1>11. OneCopy'
  BY <1>9, <1>10 DEF OneCopy, Apart, Arrived
<1>12. \A n : (Carried(n)' <=> Carried(n)) /\ (Straying(n)' <=> Straying(n))
  BY <1>9, <1>10 DEF Carried, Straying
<1> QED BY <1>10, <1>11, <1>12 DEF Fate, Arrived

LEMMA GatewayReceiveCopies ==
  ASSUME Inv, OneCopy, GatewayReceive
  PROVE  OneCopy' /\ \A n \in 1 .. MaxSends : Fate(n)' = Fate(n)
<1>1. PICK p \in net :
        /\ net' = Leaving(net, p)
        /\ gwPending' = Append(gwPending, [p EXCEPT !.dst = directory[p.f.dst]])
  BY DEF GatewayReceive, Heads
<1> DEFINE q == [p EXCEPT !.dst = directory[p.f.dst]]
           s == Append(gwPending, q)
<1>2. p \in Packet /\ p.f.dst \in VIP
  BY FlowProps DEF Inv, TypeInv, Packet
<1>3. q \in Packet /\ q.n = p.n /\ q.way = p.way
  <2>1. directory[p.f.dst] \in Host
    BY <1>2 DEF Inv, TypeInv
  <2> QED BY <1>2, <2>1 DEF Packet
<1>4. gwPending' = s
  BY <1>1
<1> HIDE DEF q
<1>5. /\ Numbers(net)' = Numbers(net) \ {p.n} /\ Strays(net)' = Strays(net) \ {p.n}
      /\ Distinct(net')
  BY <1>1, NumbersLeaving DEF Inv, OneCopy
<1>6. p.n \in Numbers(net) /\ (p.n \in Strays(net) <=> p.way = "stray")
  BY NumbersRemoving DEF OneCopy
<1>7. p.n \notin Numbers(ToSet(gwPending))
  BY <1>6 DEF OneCopy, Apart
<1>8. ToSet(s) = ToSet(gwPending) \cup {q} /\ DistinctSeq(s)
  BY <1>3, <1>7, AppendElements DEF Inv, TypeInv, OneCopy
<1> HIDE DEF s
<1>9. /\ Numbers(ToSet(s)) = Numbers(ToSet(gwPending)) \cup {p.n}
      /\ Strays(ToSet(s)) =
           Strays(ToSet(gwPending)) \cup (IF p.way = "stray" THEN {p.n} ELSE {})
  <2>1. q.n \notin Numbers(ToSet(gwPending))
    BY <1>3, <1>7
  <2> QED BY <1>3, <1>8, <2>1, NumbersAdding
<1>10. UNCHANGED <<waiting, sent, arrived>>
  BY DEF GatewayReceive
<1>11. OneCopy'
  BY <1>4, <1>5, <1>6, <1>8, <1>9, <1>10 DEF OneCopy, Apart, Arrived
<1>12. \A n : (Carried(n)' <=> Carried(n)) /\ (Straying(n)' <=> Straying(n))
  BY <1>4, <1>5, <1>6, <1>9, <1>10 DEF Carried, Straying
<1> QED BY <1>10, <1>11, <1>12 DEF Fate, Arrived

LEMMA GatewaySendCopies ==
  ASSUME Inv, OneCopy, GatewaySend
  PROVE  OneCopy' /\ \A n \in 1 .. MaxSends : Fate(n)' = Fate(n)
<1> DEFINE p == Head(gwPending)
           s == Tail(gwPending)
           E == Entering(net, p, p.to)
<1>1. gwPending # <<>> /\ net' = E /\ gwPending' = s
  BY DEF GatewaySend
<1>2. /\ p \in Packet /\ ToSet(gwPending) = ToSet(s) \cup {p}
      /\ DistinctSeq(s) /\ p.n \notin Numbers(ToSet(s))
  BY <1>1, TailElements DEF Inv, TypeInv, OneCopy
<1> HIDE DEF p, s
<1>3. /\ Numbers(ToSet(gwPending)) = Numbers(ToSet(s)) \cup {p.n}
      /\ Strays(ToSet(gwPending)) = Strays(ToSet(s)) \cup (IF p.way = "stray" THEN {p.n} ELSE {})
  <2> DEFINE G == ToSet(s)
  <2>1. p.n \notin Numbers(G) /\ ToSet(gwPending) = G \cup {p}
    BY <1>2
  <2> HIDE DEF G
  <2>2. /\ Numbers(ToSet(gwPending)) = Numbers(G) \cup {p.n}
        /\ Strays(ToSet(gwPending)) = Strays(G) \cup (IF p.way = "stray" THEN {p.n} ELSE {})
    BY <2>1, NumbersAdding
  <2> QED BY <2>2 DEF G
<1>4. p.n \notin Numbers(net) /\ p.to \in Node
  <2>1. p \in ToSet(gwPending)
    BY <1>2
  <2> QED BY <1>3, <2>1, GatewayHosts DEF OneCopy, Apart, Inv, PacketInv, AtGateway
<1>5. /\ Numbers(E) = Numbers(net) \cup {p.n}
      /\ Strays(E) = Strays(net) \cup (IF p.way = "stray" THEN {p.n} ELSE {})
      /\ Distinct(E)
  BY <1>2, <1>4, NumbersEntering DEF Inv, TypeInv, OneCopy
<1> HIDE DEF E
<1>6. UNCHANGED <<waiting, sent, arrived>>
  BY DEF GatewaySend
<1>7. OneCopy'
  BY <1>1, <1>2, <1>3, <1>4, <1>5, <1>6 DEF OneCopy, Apart, Arrived
<1>8. \A n : (Carried(n)' <=> Carried(n)) /\ (Straying(n)' <=> Straying(n))
  BY <1>1, <1>3, <1>5, <1>6 DEF Carried, Straying
<1> QED BY <1>6, <1>7, <1>8 DEF Fate, Arrived

\* A host delivers the packet or finds that it has strayed, for the first time.
LEMMA HostReceiveCopies ==
  ASSUME Inv, OneCopy, HostReceive
  PROVE  /\ OneCopy'
         /\ \E m \in 1 .. MaxSends :
              /\ OthersSame(m)
              /\ \/ Fate(m) \in {"underway", "detour"} /\ Fate(m)' = "delivered"
                 \/ Fate(m) = "underway" /\ Fate(m)' = "detour" /\ local # Placement
<1>1. PICK p \in net :
        /\ p.to \in Host \ Gateway
        /\ net' = Leaving(net, p)
        /\ \/ /\ arrived' = Append(arrived, [n |-> p.n, f |-> p.f, way |-> p.way])
              /\ waiting' = waiting
           \/ /\ local[p.f.dst] # p.to
              /\ waiting' = waiting \cup {[p EXCEPT !.way = "stray"]}
              /\ arrived' = arrived
  BY DEF HostReceive, Heads
<1>2. p \in Packet /\ sent \in Nat /\ sent <= MaxSends /\ MaxSends \in Nat
  BY BaselinesAssumption DEF Inv, TypeInv
<1>3. /\ Numbers(net)' = Numbers(net) \ {p.n} /\ Strays(net)' = Strays(net) \ {p.n}
      /\ Distinct(net')
  BY <1>1, NumbersLeaving DEF Inv, OneCopy
<1>4. p.n \in Numbers(net) /\ (p.n \in Strays(net) <=> p.way = "stray")
  BY NumbersRemoving DEF OneCopy
<1>5. /\ p.n \notin Numbers(waiting) /\ p.n \notin Numbers(ToSet(gwPending))
      /\ p.n \notin Arrived /\ p.n \in 1 .. sent /\ p.n \in 1 .. MaxSends
  <2>1. p.n \in 1 .. sent
    BY <1>4 DEF OneCopy, Apart
  <2> QED BY <1>2, <1>4, <2>1 DEF OneCopy, Apart
<1>6. UNCHANGED <<gwPending, sent>>
  BY DEF HostReceive
<1>7. Fate(p.n) = IF p.way = "stray" THEN "detour" ELSE "underway"
  <2>1. \A S : Strays(S) \subseteq Numbers(S)
    BY DEF Strays, Numbers
  <2>2. Carried(p.n) /\ (Straying(p.n) <=> p.way = "stray")
    BY <1>4, <1>5, <2>1 DEF Carried, Straying
  <2>3. ~(p.n > sent)
    BY <1>2, <1>5
  <2> QED BY <2>2, <2>3 DEF Fate
<1>8. CASE /\ arrived' = Append(arrived, [n |-> p.n, f |-> p.f, way |-> p.way])
           /\ waiting' = waiting
  <2> DEFINE S == [n : Nat, f : Flow, way : Way]
             x == [n |-> p.n, f |-> p.f, way |-> p.way]
             s == Append(arrived, x)
  <2>1. x \in S /\ x.n = p.n
    BY <1>2 DEF Packet
  <2>2. arrived \in Seq(S)
    BY DEF Inv, TypeInv
  <2>3. arrived' = s
    BY <1>8
  <2> HIDE DEF S, x
  <2>4. ToSet(s) = ToSet(arrived) \cup {x} /\ DistinctSeq(s)
    BY <1>5, <2>1, <2>2, AppendElements DEF OneCopy, Arrived
  <2>5. Numbers(ToSet(s)) = Numbers(ToSet(arrived)) \cup {p.n}
    BY <2>1, <2>4 DEF Numbers
  <2> HIDE DEF s
  <2>6. Arrived' = Arrived \cup {p.n}
    BY <2>3, <2>5 DEF Arrived
  <2>7. OneCopy'
    BY <1>3, <1>4, <1>5, <1>6, <1>8, <2>3, <2>4, <2>6 DEF OneCopy, Apart
  <2>8. \A n : /\ n # p.n => (Carried(n)' <=> Carried(n)) /\ (Straying(n)' <=> Straying(n))
               /\ n # p.n => (n \in Arrived' <=> n \in Arrived)
    BY <1>3, <1>6, <1>8, <2>6 DEF Carried, Straying
  <2>9. OthersSame(p.n)
    BY <1>6, <2>8 DEF OthersSame, Fate
  <2>10. ~Carried(p.n)' /\ p.n \in Arrived'
    BY <1>3, <1>5, <1>6, <1>8, <2>6 DEF Carried
  <2>11. Fate(p.n)' = "delivered"
    <3>1. ~(p.n > sent')
      BY <1>2, <1>5, <1>6
    <3> QED BY <2>10, <3>1 DEF Fate
  <2> QED BY <1>5, <1>7, <2>7, <2>9, <2>11
<1>9. CASE /\ local[p.f.dst] # p.to
           /\ waiting' = waiting \cup {[p EXCEPT !.way = "stray"]}
           /\ arrived' = arrived
  <2> DEFINE q == [p EXCEPT !.way = "stray"]
             W == waiting \cup {q}
  <2>1. q.n = p.n /\ q.way = "stray"
    BY <1>2 DEF Packet
  <2>2. waiting' = W
    BY <1>9
  <2> HIDE DEF q
  <2>3. /\ Numbers(W) = Numbers(waiting) \cup {p.n}
        /\ Strays(W) = Strays(waiting) \cup {p.n}
        /\ Distinct(W)
    BY <1>5, <2>1, NumbersAdding DEF OneCopy
  <2> HIDE DEF W
  <2>4. HasMoved /\ p.f.dst = Migrated /\ p.way # "stray"
    BY <1>1, <1>9, Misdelivery
  <2>5. local # Placement
    <3>1. OnLink(p)
      BY DEF Inv, PacketInv
    <3>2. p.to = p.dst /\ Course(p, p.dst)
      BY <1>1, <1>2, <3>1, GatewayHosts DEF OnLink
    <3> QED BY <1>9, <3>2 DEF Course
  <2>6. OneCopy'
    BY <1>3, <1>4, <1>5, <1>6, <1>9, <2>2, <2>3 DEF OneCopy, Apart, Arrived
  <2>7. \A n : Carried(n)' <=> Carried(n)
    BY <1>3, <1>4, <1>6, <2>2, <2>3 DEF Carried
  <2>8. \A n : n # p.n => (Straying(n)' <=> Straying(n))
    BY <1>3, <1>6, <2>2, <2>3 DEF Straying
  <2>9. Straying(p.n)' /\ Carried(p.n)
    BY <1>4, <2>2, <2>3 DEF Straying, Carried
  <2>10. OthersSame(p.n) /\ Fate(p.n)' = "detour"
    BY <1>2, <1>6, <1>9, <2>7, <2>8, <2>9, MovedFate DEF Arrived
  <2> QED BY <1>5, <1>7, <2>4, <2>5, <2>6, <2>10
<1> QED BY <1>1, <1>8, <1>9

\* The abstract status of one packet changes, or of none.
LEMMA FateStep ==
  ASSUME Inv, Inv', OneCopy, OneCopy', local' = local, NEW m \in 1 .. MaxSends, OthersSame(m)
  PROVE  /\ Fate(m)' = Fate(m) => UNCHANGED Abstract!vars
         /\ \A old, new : Fate(m) \in old /\ Fate(m)' = new => Abstract!Becomes(m, old, new)
<1> DEFINE status == [n \in 1 .. MaxSends |-> StatusOf(n)]
<1>1. status = [n \in 1 .. MaxSends |-> Fate(n)]
  BY StatusIsFate
<1>3. (Inv /\ OneCopy => \A n \in 1 .. MaxSends : StatusOf(n) = Fate(n))'
  BY StatusIsFate, PTL
<1>4. status' = [n \in 1 .. MaxSends |-> Fate(n)']
  BY <1>3
<1>5. UNCHANGED (local # Placement)
  OBVIOUS
<1> HIDE DEF status
<1>6. status' = [status EXCEPT ![m] = Fate(m)'] /\ status[m] = Fate(m) /\ status'[m] = Fate(m)'
  BY <1>1, <1>4 DEF OthersSame
<1>7. Fate(m)' = Fate(m) => status' = status
  BY <1>1, <1>4 DEF OthersSame
<1> QED BY <1>5, <1>6, <1>7 DEF Abstract!vars, Abstract!Becomes, status

LEMMA StatusSame ==
  ASSUME Inv, Inv', OneCopy, OneCopy', local' = local,
         \A n \in 1 .. MaxSends : Fate(n)' = Fate(n)
  PROVE  UNCHANGED Abstract!vars
<1>1. [n \in 1 .. MaxSends |-> StatusOf(n)] = [n \in 1 .. MaxSends |-> Fate(n)]
  BY StatusIsFate
<1>2. (Inv /\ OneCopy => \A n \in 1 .. MaxSends : StatusOf(n) = Fate(n))'
  BY StatusIsFate, PTL
<1>3. [n \in 1 .. MaxSends |-> StatusOf(n)]' = [n \in 1 .. MaxSends |-> Fate(n)]
  BY <1>2
<1> QED BY <1>1, <1>3 DEF Abstract!vars

LEMMA NextDelivers ==
  ASSUME Inv, Inv', OneCopy, [Next]_vars
  PROVE  OneCopy' /\ [Abstract!Next]_(Abstract!vars)
<1>1. CASE Leave \/ SwitchReceive \/ GatewayReceive \/ GatewaySend
  <2>1. OneCopy' /\ \A n \in 1 .. MaxSends : Fate(n)' = Fate(n)
    BY <1>1, LeaveCopies, SwitchCopies, GatewayReceiveCopies, GatewaySendCopies
  <2>2. local' = local
    BY <1>1 DEF Leave, SwitchReceive, GatewayReceive, GatewaySend
  <2> QED BY <2>1, <2>2, StatusSame
<1>2. CASE HostReceive
  <2>1. PICK m \in 1 .. MaxSends :
          /\ OthersSame(m)
          /\ \/ Fate(m) \in {"underway", "detour"} /\ Fate(m)' = "delivered"
             \/ Fate(m) = "underway" /\ Fate(m)' = "detour" /\ local # Placement
    BY <1>2, HostReceiveCopies
  <2>2. OneCopy' /\ local' = local
    BY <1>2, HostReceiveCopies DEF HostReceive
  <2>3. \A old, new : Fate(m) \in old /\ Fate(m)' = new => Abstract!Becomes(m, old, new)
    BY <2>1, <2>2, FateStep
  <2>4. Abstract!Deliver(m) \/ Abstract!Stray(m)
    BY <2>1, <2>3 DEF Abstract!Deliver, Abstract!Stray
  <2> QED BY <2>2, <2>4 DEF Abstract!Next
<1>3. ASSUME NEW f \in Flow, SendDirect(f) \/ SendFirst(f) \/ SendToGateway(f)
      PROVE  OneCopy' /\ [Abstract!Next]_(Abstract!vars)
  <2>1. PICK m \in 1 .. MaxSends :
          OthersSame(m) /\ Fate(m) = "unsent" /\ Fate(m)' = "underway"
    BY <1>3, SendCopies
  <2>2. OneCopy' /\ local' = local
    BY <1>3, SendCopies DEF SendDirect, SendFirst, SendToGateway, Sending
  <2>3. \A old, new : Fate(m) \in old /\ Fate(m)' = new => Abstract!Becomes(m, old, new)
    BY <2>1, <2>2, FateStep
  <2>4. Abstract!Send(m)
    BY <2>1, <2>3 DEF Abstract!Send
  <2> QED BY <2>2, <2>4 DEF Abstract!Next
<1>4. ASSUME UNCHANGED <<net, waiting, gwPending, sent, arrived>>
      PROVE  /\ OneCopy' /\ \A n \in 1 .. MaxSends : Fate(n)' = Fate(n)
             /\ UNCHANGED [n \in 1 .. MaxSends |-> StatusOf(n)]
  <2>1. OneCopy'
    BY <1>4 DEF OneCopy, Arrived
  <2>2. \A n : Fate(n)' = Fate(n)
    BY <1>4 DEF Fate, Carried, Straying, Arrived
  <2>3. [n \in 1 .. MaxSends |-> StatusOf(n)] = [n \in 1 .. MaxSends |-> Fate(n)]
    BY StatusIsFate
  <2>4. (Inv /\ OneCopy => \A n \in 1 .. MaxSends : StatusOf(n) = Fate(n))'
    BY StatusIsFate, PTL
  <2>5. [n \in 1 .. MaxSends |-> StatusOf(n)]' = [n \in 1 .. MaxSends |-> Fate(n)]
    BY <2>1, <2>2, <2>4
  <2> QED BY <2>1, <2>2, <2>3, <2>5
<1>5. CASE Migration
  <2>1. local = Placement /\ local' # Placement /\ Migrated # None
    BY <1>5, MigrationInv DEF Migration
  <2>2. OneCopy' /\ UNCHANGED [n \in 1 .. MaxSends |-> StatusOf(n)]
    BY <1>4, <1>5 DEF Migration
  <2>3. Abstract!Move
    BY <2>1, <2>2 DEF Abstract!Move
  <2> QED BY <2>2, <2>3 DEF Abstract!Next
<1>6. CASE UpdateMappings \/ QuerySwitches \/ UNCHANGED vars
  <2>1. UNCHANGED <<net, waiting, gwPending, sent, arrived, local>>
    BY <1>6 DEF UpdateMappings, QuerySwitches, vars
  <2>2. OneCopy' /\ UNCHANGED [n \in 1 .. MaxSends |-> StatusOf(n)]
    BY <1>4, <2>1
  <2> QED BY <2>1, <2>2 DEF Abstract!vars
<1> QED BY <1>1, <1>2, <1>3, <1>5, <1>6 DEF Next, System, Done

LEMMA InitCopies ==
  ASSUME Init PROVE OneCopy /\ Abstract!Init
<1>1. /\ net = {} /\ waiting = {} /\ ToSet(gwPending) = {} /\ ToSet(arrived) = {}
      /\ gwPending = <<>> /\ arrived = <<>> /\ sent = 0 /\ local = Placement
  BY DEF Init, ToSet
<1>2. OneCopy
  BY <1>1 DEF OneCopy, Distinct, DistinctSeq, Numbers, Apart, Arrived
<1>3. \A n \in 1 .. MaxSends : Fate(n) = "unsent"
  BY <1>1, BaselinesAssumption DEF Fate
<1>4. [n \in 1 .. MaxSends |-> StatusOf(n)] = [n \in 1 .. MaxSends |-> "unsent"]
  BY <1>2, <1>3, InitInv, StatusIsFate
<1> QED BY <1>1, <1>2, <1>4 DEF Abstract!Init

\* Hosts, gateways and switches deliver in every mode, whatever the controller, the hosts'
\* caches and the directory say meanwhile: a packet is in one place, arrives once, and is on
\* a detour only after the container has moved, once (socket-helper.cc:61-144,
\* gateway-app.cc:58-95, switch-app.cc:91-130, ilp-controller-app.cc:232-365,
\* trace-sim.cc:359-383).
THEOREM BaselinesDeliver == Spec => Abstract!Spec
<1>1. Init => Inv /\ OneCopy /\ Abstract!Init
  BY InitInv, InitCopies
<1>2. Inv /\ OneCopy /\ [Next]_vars =>
        /\ (Inv /\ OneCopy)'
        /\ [Abstract!Next]_(Abstract!vars)
  BY NextInv, NextDelivers
<1> QED BY <1>1, <1>2, PTL DEF Spec, Abstract!Spec

-----------------------------------------------------------------------------
(* The way of a flow to its gateway, as the routes lead and as the         *)
(* controller computes it.                                                 *)

RLeaf(f)  == LeafOf(Placement[f.src])
RSpine(f) == MkSpine(Placement[f.src].pod, FlowHash[f] % PodWidth)
RCore(f)  == [kind |-> "core", pod |-> 0, off |-> FlowHash[f] % PodWidth,
              id |-> FlowHash[f] % CoresPerSpine]
GSpine(f) == MkSpine(GatewayOf[f].pod, FlowHash[f] % PodWidth)
GLeaf(f)  == LeafOf(GatewayOf[f])

\* The place of a node on the way; a flow that needs fewer switches skips some.
Idx(f, n) ==
  IF n = GatewayOf[f] THEN 6 ELSE IF n = GLeaf(f) THEN 5 ELSE IF n = GSpine(f) THEN 4
  ELSE IF n = RCore(f) THEN 3 ELSE IF n = RSpine(f) THEN 2 ELSE IF n = RLeaf(f) THEN 1 ELSE 0

OnRoute(f, n) == n = Placement[f.src] \/ n \in PathOf(f)

\* The next node on the way.
Hop(f, n) == EcmpNextHop(n, GatewayOf[f], FlowHash[f])

LEMMA Division ==
  ASSUME NEW a \in Nat, NEW w \in Nat \ {0}, NEW o \in 0 .. w - 1
  PROVE  (a * w + o) \div w = a /\ (a * w + o) % w = o
<1> DEFINE x == a * w + o
           q == x \div w
           r == x % w
<1>0. a * w \in Nat /\ x \in Nat /\ o \in Nat /\ o < w
  OBVIOUS
<1>1. x = w * q + r /\ r \in Nat /\ r < w /\ q \in Int
  <2> HIDE DEF x
  <2> QED BY <1>0
<1>2. x = a * w + o
  OBVIOUS
<1> HIDE DEF x, q, r
<1>3. \A i, j \in Int : i + 1 <= j => i * w + w <= j * w
  <2> SUFFICES ASSUME NEW i \in Int, NEW j \in Int, i + 1 <= j PROVE i * w + w <= j * w
    OBVIOUS
  <2> DEFINE k == j - (i + 1)
  <2>1. k \in Nat /\ j = i + 1 + k
    OBVIOUS
  <2> HIDE DEF k
  <2>2. j * w = i * w + w + k * w
    BY <2>1
  <2>3. k * w \in Nat /\ i * w \in Int
    BY <2>1
  <2> QED BY <2>2, <2>3
<1>4. w * q = q * w /\ q * w \in Int
  BY <1>1
<1>5. ~(q + 1 <= a)
  <2> SUFFICES ASSUME q + 1 <= a PROVE FALSE
    OBVIOUS
  <2>1. q * w + w <= a * w
    BY <1>1, <1>3
  <2> QED BY <1>0, <1>1, <1>2, <1>4, <2>1
<1>6. ~(a + 1 <= q)
  <2> SUFFICES ASSUME a + 1 <= q PROVE FALSE
    OBVIOUS
  <2>1. a * w + w <= q * w
    BY <1>1, <1>3
  <2> QED BY <1>0, <1>1, <1>2, <1>4, <2>1
<1>7. q = a
  BY <1>1, <1>5, <1>6
<1>8. r = o
  BY <1>0, <1>1, <1>2, <1>4, <1>7
<1> QED BY <1>7, <1>8 DEF q, r, x

LEMMA FlowHosts ==
  ASSUME NEW f \in Flow
  PROVE  /\ Placement[f.src].pod \in Pod /\ Placement[f.src].off \in Offset
         /\ GatewayOf[f].pod \in Pod /\ GatewayOf[f].off \in Offset
         /\ FlowHash[f] \in Nat /\ FlowHash[f] % PodWidth \in Offset
         /\ PodWidth \in Nat \ {0} /\ CoresPerSpine \in Nat
         /\ Placement[f.src].pod # GatewayOf[f].pod =>
              CoresPerSpine # 0 /\ FlowHash[f] % CoresPerSpine \in 0 .. CoresPerSpine - 1
<1>1. Placement[f.src] \in Host /\ GatewayOf[f] \in Host /\ FlowHash[f] \in Nat
  BY FlowProps, BaselinesAssumption
<1>2. PodWidth \in Nat \ {0} /\ CoresPerSpine \in Nat /\ (CoresPerSpine = 0 => PodCount = 1)
  BY TopologyAssumption
<1>3. /\ Placement[f.src].pod \in Pod /\ Placement[f.src].off \in Offset
      /\ GatewayOf[f].pod \in Pod /\ GatewayOf[f].off \in Offset
  BY <1>1 DEF Host
<1>4. FlowHash[f] % PodWidth \in Offset
  BY <1>1, <1>2 DEF Offset
<1>5. Placement[f.src].pod # GatewayOf[f].pod => CoresPerSpine # 0
  BY <1>2, <1>3 DEF Pod
<1>6. CoresPerSpine # 0 => FlowHash[f] % CoresPerSpine \in 0 .. CoresPerSpine - 1
  BY <1>1, <1>2
<1> QED BY <1>1, <1>2, <1>3, <1>4, <1>5, <1>6

\* The controller's arithmetic on the numbers of leaves, spines and cores.
LEMMA PathIs ==
  ASSUME NEW f \in Flow
  PROVE  PathOf(f) =
           IF RLeaf(f) = GLeaf(f) THEN {RLeaf(f)}
           ELSE IF Placement[f.src].pod = GatewayOf[f].pod THEN {RLeaf(f), RSpine(f), GLeaf(f)}
           ELSE {RLeaf(f), RSpine(f), RCore(f), GSpine(f), GLeaf(f)}
<1> DEFINE p == Placement[f.src].pod
           o == Placement[f.src].off
           gp == GatewayOf[f].pod
           go == GatewayOf[f].off
           hash == FlowHash[f]
           w == PodWidth
           c == CoresPerSpine
           hw == hash % w
           hc == hash % c
           leaf == p * w + o
           gwLeaf == gp * w + go
           spineId == p * w + hw
           coreId == hw * c + hc
           spine2 == hw + w * gp
<1>1. /\ p \in Nat /\ o \in 0 .. w - 1 /\ gp \in Nat /\ go \in 0 .. w - 1 /\ hash \in Nat
      /\ hw \in 0 .. w - 1 /\ w \in Nat \ {0} /\ c \in Nat
      /\ p # gp => c \in Nat \ {0} /\ hc \in 0 .. c - 1
  BY FlowHosts DEF Pod, Offset
<1> HIDE DEF p, o, gp, go, hash, w, c, hw, hc
<1>2. leaf \div w = p /\ leaf % w = o
  BY <1>1, Division
<1>3. gwLeaf \div w = gp /\ gwLeaf % w = go
  BY <1>1, Division
<1>4. spineId \div w = p /\ spineId % w = hw
  BY <1>1, Division
<1>5. p # gp => coreId \div c = hw /\ coreId % c = hc
  <2> SUFFICES ASSUME p # gp PROVE coreId \div c = hw /\ coreId % c = hc
    OBVIOUS
  <2>1. hw \in Nat /\ c \in Nat \ {0} /\ hc \in 0 .. c - 1
    BY <1>1
  <2> QED BY <2>1, Division
<1>6. spine2 \div w = gp /\ spine2 % w = hw
  <2>1. spine2 = gp * w + hw
    BY <1>1
  <2> QED BY <1>1, <2>1, Division
<1>7. leaf = gwLeaf <=> p = gp /\ o = go
  <2>1. p = gp /\ o = go => leaf = gwLeaf
    OBVIOUS
  <2> HIDE DEF leaf, gwLeaf
  <2> QED BY <1>2, <1>3, <2>1
<1> HIDE DEF leaf, gwLeaf, spineId, coreId, spine2
<1>8. LeafAt(leaf) = MkLeaf(p, o) /\ LeafAt(gwLeaf) = MkLeaf(gp, go) /\ SpineAt(spineId) = MkSpine(p, hw)
      /\ SpineAt(spine2) = MkSpine(gp, hw)
  BY <1>2, <1>3, <1>4, <1>6 DEF LeafAt, SpineAt, w
<1>9. p # gp => CoreAt(coreId) = [kind |-> "core", pod |-> 0, off |-> hw, id |-> hc]
  BY <1>5 DEF CoreAt, c
<1>10. PathOf(f) =
         IF leaf = gwLeaf THEN {LeafAt(leaf)}
         ELSE IF p = gp THEN {LeafAt(leaf), SpineAt(spineId), LeafAt(gwLeaf)}
         ELSE {LeafAt(leaf), SpineAt(spineId), CoreAt(coreId), SpineAt(spine2), LeafAt(gwLeaf)}
  <2>1. LeafId(Placement[f.src]) = leaf /\ LeafId(GatewayOf[f]) = gwLeaf
    BY DEF LeafId, leaf, gwLeaf, p, o, gp, go, w
  <2>2. p # gp => (spineId % w) * c + hc = coreId /\ coreId \div c + w * gp = spine2
    BY <1>4, <1>5 DEF coreId, spine2
  <2>3. PathOf(f) =
         IF leaf = gwLeaf THEN {LeafAt(leaf)}
         ELSE IF leaf \div w = gwLeaf \div w
         THEN {LeafAt(leaf), SpineAt((leaf \div w) * w + hw), LeafAt(gwLeaf)}
         ELSE {LeafAt(leaf), SpineAt((leaf \div w) * w + hw),
               CoreAt((((leaf \div w) * w + hw) % w) * c + hc),
               SpineAt(((((leaf \div w) * w + hw) % w) * c + hc) \div c + w * (gwLeaf \div w)),
               LeafAt(gwLeaf)}
    BY <2>1 DEF PathOf, w, c, hw, hc, hash
  <2>4. (leaf \div w) * w + hw = spineId
    BY <1>2 DEF spineId
  <2> QED BY <1>2, <1>3, <2>2, <2>3, <2>4
<1>11. RLeaf(f) = GLeaf(f) <=> leaf = gwLeaf
  BY <1>7 DEF RLeaf, GLeaf, LeafOf, MkLeaf, p, o, gp, go
<1> QED BY <1>8, <1>9, <1>10, <1>11
        DEF RLeaf, GLeaf, RSpine, GSpine, RCore, LeafOf, p, o, gp, go, hw, hc, hash, w, c

LEMMA EcmpOnly ==
  ASSUME NEW n, NEW d, NEW hash, NEW m, NextHops(n, d) = {m}
  PROVE  EcmpNextHop(n, d, hash) = m
<1>1. Cardinality({m}) = 1
  BY FS_Singleton
<1> QED BY <1>1 DEF EcmpNextHop

\* The hash picks the same spine in every pod, and the same core of a spine's.
LEMMA EcmpPicks ==
  ASSUME NEW d \in Host, NEW hash \in Nat
  PROVE  /\ \A n \in Leaf : LeafOf(d) # n =>
              EcmpNextHop(n, d, hash) = MkSpine(n.pod, hash % PodWidth)
         /\ \A n \in Spine : d.pod # n.pod =>
              EcmpNextHop(n, d, hash) =
                [kind |-> "core", pod |-> 0, off |-> n.off, id |-> hash % CoresPerSpine]
<1>1. ASSUME NEW n \in Leaf, LeafOf(d) # n
      PROVE  EcmpNextHop(n, d, hash) = MkSpine(n.pod, hash % PodWidth)
  <2> DEFINE N == NextHops(n, d)
             m == EcmpNextHop(n, d, hash)
             Picked(x) == \/ Cardinality(N) = 1
                          \/ hash % Cardinality(N) = IF x.kind = "core" THEN x.id ELSE x.off
  <2>1. N = {MkSpine(n.pod, o) : o \in Offset}
    <3>1. N = LeafNextHops(n, d)
      BY DEF NextHops, Leaf
    <3> QED BY <1>1, <3>1 DEF LeafNextHops, Host
  <2>2. Cardinality(N) = PodWidth /\ PodWidth \in Nat \ {0}
    BY <2>1, SpinesOfPod, TopologyAssumption
  <2>3. hash % PodWidth \in Offset
    BY <2>2 DEF Offset
  <2>4. m = CHOOSE x \in N : Picked(x)
    BY DEF EcmpNextHop
  <2>5. \A o \in Offset : MkSpine(n.pod, o).kind = "spine" /\ MkSpine(n.pod, o).off = o
    BY DEF MkSpine
  <2>6. \E x \in N : Picked(x)
    BY <2>1, <2>2, <2>3, <2>5
  <2> HIDE DEF N, m
  <2>7. m \in N /\ Picked(m)
    BY <2>4, <2>6
  <2>8. PICK o \in Offset : m = MkSpine(n.pod, o)
    BY <2>1, <2>7
  <2>9. CASE PodWidth = 1
    <3>1. o = hash % PodWidth
      BY <2>3, <2>9 DEF Offset
    <3> QED BY <2>8, <3>1 DEF m
  <2>10. CASE PodWidth # 1
    <3>1. o = hash % PodWidth
      BY <2>2, <2>5, <2>7, <2>8, <2>10
    <3> QED BY <2>8, <3>1 DEF m
  <2> QED BY <2>9, <2>10
<1>2. ASSUME NEW n \in Spine, d.pod # n.pod
      PROVE  EcmpNextHop(n, d, hash) =
               [kind |-> "core", pod |-> 0, off |-> n.off, id |-> hash % CoresPerSpine]
  <2> DEFINE N == NextHops(n, d)
             m == EcmpNextHop(n, d, hash)
             k == hash % CoresPerSpine
             Picked(x) == \/ Cardinality(N) = 1
                          \/ hash % Cardinality(N) = IF x.kind = "core" THEN x.id ELSE x.off
  <2>1. N = CoreGroup(n.off) /\ n.off \in Offset
    <3>1. N = SpineNextHops(n, d)
      BY DEF NextHops, Spine
    <3> QED BY <1>2, <3>1 DEF SpineNextHops, Host, Spine
  <2>2. Cardinality(N) = CoresPerSpine /\ CoresPerSpine \in Nat \ {0}
    <3>1. CoresPerSpine \in Nat \ {0}
      BY <1>2, TopologyAssumption DEF Host, Spine, Pod
    <3> QED BY <2>1, <3>1, CoresOfGroup
  <2>3. k \in 0 .. CoresPerSpine - 1
    BY <2>2
  <2>4. m = CHOOSE x \in N : Picked(x)
    BY DEF EcmpNextHop
  <2>5. \A x \in N : /\ x.kind = "core" /\ x.id \in 0 .. CoresPerSpine - 1
                     /\ x = [kind |-> "core", pod |-> 0, off |-> n.off, id |-> x.id]
    BY <2>1 DEF CoreGroup, Core
  <2>6. \E x \in N : Picked(x)
    <3> DEFINE c == [kind |-> "core", pod |-> 0, off |-> n.off, id |-> k]
    <3>1. c \in CoreGroup(n.off) /\ c.kind = "core" /\ c.id = k
      BY <2>1, <2>3 DEF CoreGroup, Core
    <3> HIDE DEF c
    <3> QED BY <2>1, <2>2, <3>1
  <2> HIDE DEF N, m
  <2>7. m \in N /\ Picked(m)
    BY <2>4, <2>6
  <2>8. m.id = k
    <3>1. CASE CoresPerSpine = 1
      <4>1. m.id \in 0 .. 0 /\ k \in 0 .. 0
        BY <2>3, <2>5, <2>7, <3>1
      <4> HIDE DEF k
      <4> QED BY <4>1
    <3>2. CASE CoresPerSpine # 1
      BY <2>2, <2>5, <2>7, <3>2
    <3> QED BY <3>1, <3>2
  <2> QED BY <2>5, <2>7, <2>8 DEF m
<1> QED BY <1>1, <1>2

\* The switches of a way, and where the routes lead from each.
LEMMA RouteHops ==
  ASSUME NEW f \in Flow
  PROVE  /\ RLeaf(f) \in Leaf /\ GLeaf(f) \in Leaf /\ RSpine(f) \in Spine /\ GSpine(f) \in Spine
         /\ Placement[f.src].pod # GatewayOf[f].pod => RCore(f) \in Core
         /\ Hop(f, Placement[f.src]) = RLeaf(f)
         /\ Hop(f, GLeaf(f)) = GatewayOf[f]
         /\ Hop(f, GSpine(f)) = GLeaf(f)
         /\ RLeaf(f) # GLeaf(f) => Hop(f, RLeaf(f)) = RSpine(f)
         /\ Placement[f.src].pod = GatewayOf[f].pod => RSpine(f) = GSpine(f)
         /\ Placement[f.src].pod # GatewayOf[f].pod =>
              Hop(f, RSpine(f)) = RCore(f) /\ Hop(f, RCore(f)) = GSpine(f)
<1> DEFINE s == Placement[f.src]
           g == GatewayOf[f]
           h == FlowHash[f]
<1>1. s \in Host /\ g \in Host /\ h \in Nat
  BY FlowProps, FlowHosts
<1>2. /\ s.pod \in Pod /\ s.off \in Offset /\ g.pod \in Pod /\ g.off \in Offset
      /\ h % PodWidth \in Offset
      /\ s.pod # g.pod => h % CoresPerSpine \in 0 .. CoresPerSpine - 1
  BY FlowHosts
<1>3. RLeaf(f) \in Leaf /\ GLeaf(f) \in Leaf /\ RSpine(f) \in Spine /\ GSpine(f) \in Spine
  BY <1>2 DEF RLeaf, GLeaf, RSpine, GSpine, LeafOf, MkLeaf, MkSpine, Leaf, Spine
<1>4. s.pod # g.pod => RCore(f) \in Core
  BY <1>2 DEF RCore, Core
<1>5. Hop(f, s) = RLeaf(f)
  <2>1. NextHops(s, g) = {LeafOf(s)}
    BY <1>1 DEF NextHops, Host
  <2> QED BY <2>1, EcmpOnly DEF Hop, RLeaf
<1>6. Hop(f, GLeaf(f)) = g
  <2>1. NextHops(GLeaf(f), g) = LeafNextHops(GLeaf(f), g)
    BY <1>3 DEF NextHops, Leaf
  <2>2. LeafNextHops(GLeaf(f), g) = {g}
    BY <1>1 DEF LeafNextHops, GLeaf, Host
  <2> QED BY <2>1, <2>2, EcmpOnly DEF Hop
<1>7. Hop(f, GSpine(f)) = GLeaf(f)
  <2>1. NextHops(GSpine(f), g) = SpineNextHops(GSpine(f), g)
    BY <1>3 DEF NextHops, Spine
  <2>2. GSpine(f).pod = g.pod
    BY DEF GSpine, MkSpine
  <2>3. SpineNextHops(GSpine(f), g) = {MkLeaf(g.pod, g.off)}
    BY <1>1, <2>2 DEF SpineNextHops, Host
  <2> QED BY <2>1, <2>3, EcmpOnly DEF Hop, GLeaf, LeafOf
<1>8. RLeaf(f) # GLeaf(f) => Hop(f, RLeaf(f)) = RSpine(f)
  <2>1. RLeaf(f).pod = s.pod /\ GLeaf(f) = LeafOf(g)
    BY DEF RLeaf, GLeaf, LeafOf, MkLeaf
  <2> QED BY <1>1, <1>3, <2>1, EcmpPicks DEF Hop, RSpine
<1>9. s.pod = g.pod => RSpine(f) = GSpine(f)
  BY DEF RSpine, GSpine
<1>10. s.pod # g.pod => Hop(f, RSpine(f)) = RCore(f)
  <2>1. RSpine(f).pod = s.pod /\ RSpine(f).off = h % PodWidth
    BY DEF RSpine, MkSpine
  <2> QED BY <1>1, <1>3, <2>1, EcmpPicks DEF Hop, RCore
<1>11. s.pod # g.pod => Hop(f, RCore(f)) = GSpine(f)
  <2> SUFFICES ASSUME s.pod # g.pod PROVE Hop(f, RCore(f)) = GSpine(f)
    OBVIOUS
  <2>1. NextHops(RCore(f), g) = CoreNextHops(RCore(f), g)
    BY <1>4 DEF NextHops, Core
  <2>2. CoreNextHops(RCore(f), g) = {GSpine(f)}
    BY <1>1 DEF CoreNextHops, RCore, GSpine, Host
  <2> QED BY <2>1, <2>2, EcmpOnly DEF Hop
<1> QED BY <1>3, <1>4, <1>5, <1>6, <1>7, <1>8, <1>9, <1>10, <1>11

\* The switches the controller takes a flow to pass are those it passes, in their order.
LEMMA RouteStep ==
  ASSUME NEW f \in Flow, NEW n, OnRoute(f, n)
  PROVE  /\ \/ OnRoute(f, Hop(f, n)) /\ Hop(f, n) \in Switch
            \/ Hop(f, n) = GatewayOf[f]
         /\ Idx(f, n) \in 0 .. 5 /\ Idx(f, n) < Idx(f, Hop(f, n))
         /\ (Idx(f, n) = 0) <=> (n = Placement[f.src])
         /\ \A k : OnRoute(f, k) /\ Idx(f, n) < Idx(f, k) => Idx(f, Hop(f, n)) <= Idx(f, k)
         /\ \A k : OnRoute(f, k) /\ Idx(f, n) = Idx(f, k) => k = n
<1> DEFINE s == Placement[f.src]
           g == GatewayOf[f]
           a == RLeaf(f)
           b == RSpine(f)
           c == RCore(f)
           d == GSpine(f)
           e == GLeaf(f)
<1>1. /\ s.kind = "host" /\ g.kind = "host" /\ s # g
      /\ a.kind = "leaf" /\ e.kind = "leaf" /\ b.kind = "spine" /\ d.kind = "spine"
      /\ c.kind = "core" /\ a \in Switch /\ e \in Switch /\ b \in Switch /\ d \in Switch
  <2>1. s \in Host /\ g \in Host /\ g \in Gateway /\ s \notin Gateway
    BY FlowProps, BaselinesAssumption
  <2> QED BY <2>1, RouteHops DEF Host, Leaf, Spine, RCore, Switch
<1>2. b = d => s.pod = g.pod
  BY DEF RSpine, GSpine, MkSpine
<1>3. a = e => s.pod = g.pod
  BY DEF RLeaf, GLeaf, LeafOf, MkLeaf
<1>4. /\ Hop(f, s) = a /\ Hop(f, e) = g /\ Hop(f, d) = e
      /\ a # e => Hop(f, a) = b
      /\ s.pod = g.pod => b = d
      /\ s.pod # g.pod => Hop(f, b) = c /\ Hop(f, c) = d /\ c \in Switch
  BY RouteHops DEF Switch
<1>5. PathOf(f) = IF a = e THEN {a} ELSE IF s.pod = g.pod THEN {a, b, e} ELSE {a, b, c, d, e}
  BY PathIs
<1>6. \A k : Idx(f, k) = IF k = g THEN 6 ELSE IF k = e THEN 5 ELSE IF k = d THEN 4
                         ELSE IF k = c THEN 3 ELSE IF k = b THEN 2 ELSE IF k = a THEN 1 ELSE 0
  BY DEF Idx
<1>7. \A k : OnRoute(f, k) <=> k = s \/ k \in PathOf(f)
  BY DEF OnRoute
<1> HIDE DEF s, g, a, b, c, d, e
<1>8. CASE a = e
  <2>1. \A k : OnRoute(f, k) <=> k = s \/ k = a
    BY <1>5, <1>7, <1>8
  <2>2. Idx(f, s) = 0 /\ Idx(f, a) = 5 /\ Idx(f, g) = 6
    BY <1>1, <1>6, <1>8
  <2>3. Hop(f, s) = a /\ Hop(f, a) = g
    BY <1>4, <1>8
  <2> QED BY <1>1, <2>1, <2>2, <2>3 DEF s, g, a
<1>9. CASE a # e /\ s.pod = g.pod
  <2>1. \A k : OnRoute(f, k) <=> k = s \/ k = a \/ k = b \/ k = e
    BY <1>5, <1>7, <1>9
  <2>2. Idx(f, s) = 0 /\ Idx(f, a) = 1 /\ Idx(f, b) = 4 /\ Idx(f, e) = 5 /\ Idx(f, g) = 6
    BY <1>1, <1>4, <1>6, <1>9
  <2>3. Hop(f, s) = a /\ Hop(f, a) = b /\ Hop(f, b) = e /\ Hop(f, e) = g
    BY <1>4, <1>9
  <2> QED BY <1>1, <2>1, <2>2, <2>3 DEF s, g, a, b, e
<1>10. CASE s.pod # g.pod
  <2>1. \A k : OnRoute(f, k) <=> k = s \/ k = a \/ k = b \/ k = c \/ k = d \/ k = e
    BY <1>3, <1>5, <1>7, <1>10
  <2>2. /\ Idx(f, s) = 0 /\ Idx(f, a) = 1 /\ Idx(f, b) = 2 /\ Idx(f, c) = 3 /\ Idx(f, d) = 4
        /\ Idx(f, e) = 5 /\ Idx(f, g) = 6
    BY <1>1, <1>2, <1>3, <1>6, <1>10
  <2>3. /\ Hop(f, s) = a /\ Hop(f, a) = b /\ Hop(f, b) = c /\ Hop(f, c) = d /\ Hop(f, d) = e
        /\ Hop(f, e) = g
    BY <1>3, <1>4, <1>10
  <2> QED BY <1>1, <1>4, <1>10, <2>1, <2>2, <2>3 DEF s, g, a, b, c, d, e
<1> QED BY <1>3, <1>8, <1>9, <1>10

-----------------------------------------------------------------------------
(* The controller's answers: what it expects to be answered before the     *)
(* gateway meets an answer further on.                                     *)

\* A packet for a gateway is on the way of its flow.
ToGateway(p) ==
  /\ p.dst = GatewayOf[p.f] /\ p.way = "gateway" /\ p.src = Placement[p.f.src]
  /\ OnRoute(p.f, p.from) /\ p.to = Hop(p.f, p.from)

\* A switch that p has yet to pass knows its destination.
WillHit(p) ==
  \E s \in PathOf(p.f) : Idx(p.f, s) >= Idx(p.f, p.to) /\ Has(cache[s], p.f.dst)

LinkAnswer(p) ==
  /\ p.epoch <= queries
  /\ p.dst \in Gateway =>
       ToGateway(p) /\ (p.epoch = queries /\ p.f \in expected => WillHit(p))

QueueAnswer(p) ==
  p.epoch <= queries /\ (p.epoch = queries => p.f \notin expected)

AnswerInv ==
  /\ expected \subseteq Flow
  /\ \A f \in expected : \E s \in PathOf(f) : Has(cache[s], f.dst)
  /\ \A p \in net : LinkAnswer(p)
  /\ \A p \in waiting : p.epoch <= queries
  /\ \A p \in ToSet(gwPending) : QueueAnswer(p)

LEMMA PathSwitches ==
  ASSUME NEW f \in Flow, NEW s \in PathOf(f)
  PROVE  s \in Switch /\ Idx(f, s) \in 1 .. 5 /\ OnRoute(f, s)
<1>1. OnRoute(f, s)
  BY DEF OnRoute
<1>2. s \in Switch
  BY PathIs, RouteHops DEF Switch
<1>3. s # Placement[f.src]
  BY <1>2, FlowProps, GatewayHosts
<1>4. Idx(f, s) \in 0 .. 5
  BY <1>1, RouteStep
<1>5. Idx(f, s) # 0
  BY <1>1, <1>3, RouteStep
<1> QED BY <1>1, <1>2, <1>4, <1>5

LEMMA GatewayIdx ==
  ASSUME NEW f \in Flow
  PROVE  Idx(f, GatewayOf[f]) = 6
  BY DEF Idx

\* The caches keep what they hold, so what is ahead of a packet stays there.
LEMMA AnswersSame ==
  ASSUME AnswerInv, TypeInv, UNCHANGED <<queries, expected>>,
         \A s \in Switch : cache'[s].map = cache[s].map
  PROVE  /\ expected' \subseteq Flow
         /\ \A f \in expected' : \E s \in PathOf(f) : Has(cache'[s], f.dst)
         /\ \A p \in Packet : LinkAnswer(p) => LinkAnswer(p)'
         /\ \A p : QueueAnswer(p) => QueueAnswer(p)'
<1>1. \A f \in Flow : \A s \in PathOf(f) : Has(cache[s], f.dst) => Has(cache'[s], f.dst)
  BY PathSwitches DEF Has
<1>2. \A f \in expected' : \E s \in PathOf(f) : Has(cache'[s], f.dst)
  BY <1>1 DEF AnswerInv
<1>3. \A p \in Packet : WillHit(p) => WillHit(p)'
  BY <1>1 DEF WillHit, Packet
<1>4. \A p \in Packet : LinkAnswer(p) => LinkAnswer(p)'
  BY <1>3 DEF LinkAnswer, ToGateway
<1>5. \A p : QueueAnswer(p) => QueueAnswer(p)'
  BY DEF QueueAnswer
<1> QED BY <1>2, <1>4, <1>5 DEF AnswerInv

LEMMA AnswerStep ==
  ASSUME AnswerInv, Inv, Inv', UNCHANGED <<queries, expected>>,
         \A s \in Switch : cache'[s].map = cache[s].map,
         \A p \in net' : LinkAnswer(p), \A p \in waiting' : p.epoch <= queries,
         \A p \in ToSet(gwPending') : QueueAnswer(p)
  PROVE  AnswerInv'
<1>1. /\ expected' \subseteq Flow
      /\ \A f \in expected' : \E s \in PathOf(f) : Has(cache'[s], f.dst)
      /\ \A p \in Packet : LinkAnswer(p) => LinkAnswer(p)'
      /\ \A p : QueueAnswer(p) => QueueAnswer(p)'
  BY AnswersSame DEF Inv
<1>2. net' \subseteq Packet
  BY DEF Inv, TypeInv
<1> QED BY <1>1, <1>2 DEF AnswerInv

LEMMA LeavingAnswers ==
  ASSUME AnswerInv, TypeInv, NEW p \in net
  PROVE  \A x \in Leaving(net, p) : LinkAnswer(x)
<1>1. \A x \in Leaving(net, p) : \E q \in net \ {p} : MovedUp(x, q, p)
  BY LeavingIs DEF TypeInv
<1>2. \A x, q : MovedUp(x, q, p) /\ LinkAnswer(q) => LinkAnswer(x)
  BY DEF MovedUp, Same, LinkAnswer, ToGateway, WillHit
<1> QED BY <1>1, <1>2 DEF AnswerInv

\* A packet that leaves for a host is of no concern.
LEMMA HostBoundAnswers ==
  ASSUME NEW S, S \subseteq Packet, IsFiniteSet(S), \A x \in S : LinkAnswer(x),
         NEW p \in Packet, NEW n \in Node, p.epoch <= queries, p.dst \notin Gateway
  PROVE  \A x \in Entering(S, p, n) : LinkAnswer(x)
<1>1. PICK q \in Packet : Entering(S, p, n) = S \cup {q} /\ Same(q, p)
  BY EnteringIs
<1>2. LinkAnswer(q)
  BY <1>1 DEF LinkAnswer, Same
<1> QED BY <1>1, <1>2

\* A packet takes the next link of its way.
LEMMA GatewayBoundAnswers ==
  ASSUME NEW S, S \subseteq Packet, IsFiniteSet(S), \A x \in S : LinkAnswer(x),
         NEW p \in Packet, NEW n \in Node, p.epoch <= queries,
         p.dst = GatewayOf[p.f], p.way = "gateway", p.src = Placement[p.f.src],
         OnRoute(p.f, n),
         p.epoch = queries /\ p.f \in expected =>
           \E s \in PathOf(p.f) : Idx(p.f, s) > Idx(p.f, n) /\ Has(cache[s], p.f.dst)
  PROVE  \A x \in Entering(S, p, n) : LinkAnswer(x)
<1>0. p.f \in Flow /\ p.dst \in Gateway
  BY FlowProps DEF Packet
<1>1. PICK q \in Packet : /\ Entering(S, p, n) = S \cup {q}
                          /\ Same(q, p) /\ q.from = n /\ q.to = NextOf(p, n)
  BY EnteringIs
<1>2. q.to = Hop(p.f, n)
  BY <1>0, <1>1 DEF NextOf, Hop
<1>3. \A s \in PathOf(p.f) : Idx(p.f, s) > Idx(p.f, n) => Idx(p.f, s) >= Idx(p.f, Hop(p.f, n))
  <2> SUFFICES ASSUME NEW s \in PathOf(p.f), Idx(p.f, s) > Idx(p.f, n)
               PROVE  Idx(p.f, s) >= Idx(p.f, Hop(p.f, n))
    OBVIOUS
  <2>1. OnRoute(p.f, s) /\ Idx(p.f, s) \in Int
    BY <1>0, PathSwitches
  <2>2. Idx(p.f, n) \in Int /\ Idx(p.f, Hop(p.f, n)) \in Int
    <3>1. \A k : Idx(p.f, k) \in Int
      BY DEF Idx
    <3> QED BY <3>1
  <2>3. Idx(p.f, n) < Idx(p.f, s)
    BY <2>1, <2>2
  <2>4. Idx(p.f, Hop(p.f, n)) <= Idx(p.f, s)
    BY <1>0, <2>1, <2>3, RouteStep
  <2> QED BY <2>1, <2>2, <2>4
<1>4. p.epoch = queries /\ p.f \in expected => WillHit(q)
  BY <1>1, <1>2, <1>3 DEF WillHit, Same
<1>5. LinkAnswer(q)
  BY <1>1, <1>2, <1>4 DEF LinkAnswer, ToGateway, Same
<1> QED BY <1>1, <1>5

LEMMA SendAnswers ==
  ASSUME AnswerInv, Inv, Inv', NEW f \in Flow, SendDirect(f) \/ SendFirst(f) \/ SendToGateway(f)
  PROVE  AnswerInv'
<1> DEFINE h == Placement[f.src]
<1>0. h \in Node /\ queries \in Nat /\ net \subseteq Packet /\ IsFiniteSet(net)
  BY FlowProps DEF Inv, TypeInv
<1>1. UNCHANGED <<cache, queries, expected, gwPending>>
  BY DEF SendDirect, SendFirst, SendToGateway, Sending, control
<1>2. CASE SendDirect(f)
  <2> DEFINE d == directory[f.dst]
             p == NewPacket(f, h, d, "direct")
  <2>1. d \in Host /\ d \notin Gateway
    BY FlowProps, MapProps DEF Inv, TypeInv
  <2>2. p \in Packet /\ p.dst = d
    BY <2>1, FreshPacket DEF Way
  <2>3. p.epoch = queries
    BY DEF NewPacket
  <2>4. net' = Entering(net, p, h) /\ waiting' = waiting
    BY <1>2 DEF SendDirect
  <2> HIDE DEF p, d, h
  <2>5. \A x \in net' : LinkAnswer(x)
    BY <1>0, <2>1, <2>2, <2>3, <2>4, HostBoundAnswers DEF AnswerInv
  <2> QED BY <1>1, <2>4, <2>5, AnswerStep DEF AnswerInv
<1>3. CASE SendToGateway(f)
  <2> DEFINE d == GatewayOf[f]
             p == NewPacket(f, h, d, "gateway")
  <2>1. d \in Host /\ d \in Gateway
    BY FlowProps
  <2>2. p \in Packet /\ p.dst = d /\ p.way = "gateway"
    BY <2>1, FreshPacket DEF Way
  <2>3. p.epoch = queries /\ p.f = f /\ p.src = h
    BY DEF NewPacket
  <2>4. net' = Entering(net, p, h) /\ waiting' = waiting
    BY <1>3 DEF SendToGateway
  <2>5. OnRoute(f, h) /\ Idx(f, h) = 0
    <3>1. OnRoute(f, h)
      BY DEF OnRoute
    <3> QED BY <3>1, RouteStep
  <2>6. f \in expected =>
          \E s \in PathOf(f) : Idx(f, s) > Idx(f, h) /\ Has(cache[s], f.dst)
    <3> SUFFICES ASSUME f \in expected
                 PROVE  \E s \in PathOf(f) : Idx(f, s) > Idx(f, h) /\ Has(cache[s], f.dst)
      OBVIOUS
    <3>1. PICK s \in PathOf(f) : Has(cache[s], f.dst)
      BY DEF AnswerInv
    <3>2. Idx(f, s) \in 1 .. 5
      BY PathSwitches
    <3> QED BY <2>5, <3>1, <3>2
  <2> HIDE DEF p, d
  <2>7. \A x \in net' : LinkAnswer(x)
    BY <1>0, <2>2, <2>3, <2>4, <2>5, <2>6, GatewayBoundAnswers DEF AnswerInv, d
  <2> QED BY <1>1, <2>4, <2>7, AnswerStep DEF AnswerInv
<1>4. CASE SendFirst(f)
  <2> DEFINE p == NewPacket(f, h, h, "first")
  <2>1. net' = net /\ waiting' = waiting \cup {p}
    BY <1>4 DEF SendFirst
  <2>2. p.epoch = queries
    BY DEF NewPacket
  <2> HIDE DEF p
  <2>3. \A x \in waiting' : x.epoch <= queries
    BY <1>0, <2>1, <2>2 DEF AnswerInv
  <2> QED BY <1>1, <2>1, <2>3, AnswerStep DEF AnswerInv
<1> QED BY <1>2, <1>3, <1>4

LEMMA LeaveAnswers ==
  ASSUME AnswerInv, Inv, Inv', Leave
  PROVE  AnswerInv'
<1>1. PICK p \in waiting :
        /\ waiting' = waiting \ {p}
        /\ net' = Entering(net, [p EXCEPT !.dst = FollowMe(p), !.src = p.to,
                                          !.late = @ \/ directory # Placement], p.to)
  BY DEF Leave
<1> DEFINE q == [p EXCEPT !.dst = FollowMe(p), !.src = p.to, !.late = @ \/ directory # Placement]
<1>2. q \in Packet /\ p.to \in Node /\ q.epoch = p.epoch /\ q.dst \notin Gateway
  BY LeavesAsItself
<1>3. net' = Entering(net, q, p.to)
  BY <1>1
<1> HIDE DEF q
<1>4. \A x \in net' : LinkAnswer(x)
  BY <1>2, <1>3, HostBoundAnswers DEF AnswerInv, Inv, TypeInv
<1>5. UNCHANGED <<cache, queries, expected, gwPending>>
  BY DEF Leave, control
<1> QED BY <1>1, <1>4, <1>5, AnswerStep DEF AnswerInv

LEMMA HostReceiveAnswers ==
  ASSUME AnswerInv, Inv, Inv', HostReceive
  PROVE  AnswerInv'
<1>1. PICK p \in net :
        /\ net' = Leaving(net, p)
        /\ waiting' = waiting \/ waiting' = waiting \cup {[p EXCEPT !.way = "stray"]}
  BY DEF HostReceive, Heads
<1> DEFINE q == [p EXCEPT !.way = "stray"]
<1>2. q.epoch = p.epoch /\ p.epoch <= queries
  BY DEF AnswerInv, LinkAnswer, Inv, TypeInv, Packet
<1> HIDE DEF q
<1>3. \A x \in waiting' : x.epoch <= queries
  BY <1>1, <1>2 DEF AnswerInv, q
<1>4. \A x \in net' : LinkAnswer(x)
  BY <1>1, LeavingAnswers DEF Inv
<1>5. UNCHANGED <<cache, queries, expected, gwPending>>
  BY DEF HostReceive, control
<1> QED BY <1>3, <1>4, <1>5, AnswerStep DEF AnswerInv

\* A miss leaves the answer ahead.
LEMMA SwitchAnswers ==
  ASSUME AnswerInv, Inv, Inv', SwitchReceive
  PROVE  AnswerInv'
<1>1. PICK p \in net, q \in Packet :
        /\ p.to \in Switch /\ p.dst \in Gateway
        /\ net' = Entering(Leaving(net, p), q, p.to)
        /\ q = p \/ (simMode = "Controller" /\ Has(cache[p.to], p.f.dst))
        /\ Has(cache[p.to], p.f.dst) => q.dst \notin Gateway
        /\ \E d \in Host : q = [p EXCEPT !.dst = d]
  BY SwitchPasses DEF Heads
<1>2. /\ UNCHANGED <<waiting, gwPending, queries, expected>>
      /\ \A s \in Switch : cache'[s].map = cache[s].map
  BY SwitchPasses
<1>3. p \in Packet /\ p.to \in Node /\ p.f \in Flow
  BY <1>1 DEF Inv, TypeInv, Node, Packet
<1> DEFINE L == Leaving(net, p)
<1>4. L \subseteq Packet /\ IsFiniteSet(L) /\ \A x \in L : LinkAnswer(x)
  BY LeavingIs, LeavingAnswers DEF Inv, TypeInv
<1> HIDE DEF L
<1>5. net' = Entering(L, q, p.to)
  BY <1>1 DEF L
<1>6. LinkAnswer(p) /\ ToGateway(p)
  BY <1>1 DEF AnswerInv, LinkAnswer
<1>7. CASE Has(cache[p.to], p.f.dst)
  <2>1. q.epoch = p.epoch /\ q.dst \notin Gateway
    BY <1>1, <1>3, <1>7 DEF Packet
  <2>2. \A x \in net' : LinkAnswer(x)
    BY <1>3, <1>4, <1>5, <1>6, <2>1, HostBoundAnswers DEF LinkAnswer
  <2> QED BY <1>2, <2>2, AnswerStep DEF AnswerInv
<1>8. CASE ~Has(cache[p.to], p.f.dst)
  <2>1. q = p
    BY <1>1, <1>8
  <2>2. OnRoute(p.f, p.to)
    <3>1. p.to # GatewayOf[p.f]
      BY <1>1, <1>3, FlowProps, GatewayHosts
    <3> QED BY <1>3, <1>6, <3>1, RouteStep DEF ToGateway
  <2>3. p.epoch = queries /\ p.f \in expected =>
          \E s \in PathOf(p.f) : Idx(p.f, s) > Idx(p.f, p.to) /\ Has(cache[s], p.f.dst)
    <3> SUFFICES ASSUME p.epoch = queries, p.f \in expected
                 PROVE  \E s \in PathOf(p.f) : Idx(p.f, s) > Idx(p.f, p.to) /\ Has(cache[s], p.f.dst)
      OBVIOUS
    <3>1. PICK s \in PathOf(p.f) : Idx(p.f, s) >= Idx(p.f, p.to) /\ Has(cache[s], p.f.dst)
      BY <1>1, <1>6 DEF LinkAnswer, WillHit
    <3>2. s # p.to
      BY <1>8, <3>1
    <3>3. OnRoute(p.f, s) /\ Idx(p.f, s) \in 1 .. 5
      BY <1>3, PathSwitches
    <3>4. Idx(p.f, p.to) \in 0 .. 5
      BY <1>3, <2>2, RouteStep
    <3>5. Idx(p.f, s) # Idx(p.f, p.to)
      BY <1>3, <2>2, <3>2, <3>3, RouteStep
    <3> QED BY <3>1, <3>3, <3>4, <3>5
  <2>4. \A x \in net' : LinkAnswer(x)
    BY <1>3, <1>4, <1>5, <1>6, <2>1, <2>2, <2>3, GatewayBoundAnswers DEF LinkAnswer, ToGateway
  <2> QED BY <1>2, <2>4, AnswerStep DEF AnswerInv
<1> QED BY <1>7, <1>8

\* No answer is left for a packet that has come to its gateway.
LEMMA GatewayReceiveAnswers ==
  ASSUME AnswerInv, Inv, Inv', GatewayReceive
  PROVE  AnswerInv'
<1>1. PICK p \in net :
        /\ p.to \in Gateway
        /\ net' = Leaving(net, p)
        /\ gwPending' = Append(gwPending, [p EXCEPT !.dst = directory[p.f.dst]])
  BY DEF GatewayReceive, Heads
<1> DEFINE q == [p EXCEPT !.dst = directory[p.f.dst]]
<1>2. p \in Packet /\ OnLink(p) /\ p.f \in Flow /\ p.f.dst \in VIP /\ LinkAnswer(p)
  BY FlowProps DEF Inv, TypeInv, PacketInv, Packet, AnswerInv
<1>3. q \in Packet /\ q.f = p.f /\ q.epoch = p.epoch
  <2>1. directory[p.f.dst] \in Host
    BY <1>2 DEF Inv, TypeInv
  <2> QED BY <1>2, <2>1 DEF Packet
<1>4. gwPending' = Append(gwPending, q)
  BY <1>1
<1> HIDE DEF q
<1>5. p.dst \in Gateway
  BY <1>1, <1>2 DEF OnLink
<1>6. ToGateway(p)
  BY <1>2, <1>5 DEF LinkAnswer
<1>7. p.to = GatewayOf[p.f]
  BY <1>1, <1>2, <1>6, RouteStep, GatewayHosts DEF ToGateway
<1>8. ~WillHit(p)
  <2> SUFFICES ASSUME NEW s \in PathOf(p.f), Idx(p.f, s) >= Idx(p.f, p.to) PROVE FALSE
    BY DEF WillHit
  <2>1. Idx(p.f, s) \in 1 .. 5
    BY <1>2, PathSwitches
  <2>2. Idx(p.f, p.to) = 6
    BY <1>2, <1>7, GatewayIdx
  <2> QED BY <2>1, <2>2
<1>9. QueueAnswer(q)
  BY <1>2, <1>3, <1>5, <1>8 DEF LinkAnswer, QueueAnswer
<1>10. ToSet(gwPending') = ToSet(gwPending) \cup {q}
  BY <1>3, <1>4, AppendElements DEF Inv, TypeInv
<1>11. \A x \in net' : LinkAnswer(x)
  BY <1>1, LeavingAnswers DEF Inv
<1>12. UNCHANGED <<cache, queries, expected, waiting>>
  BY DEF GatewayReceive, control
<1> QED BY <1>9, <1>10, <1>11, <1>12, AnswerStep DEF AnswerInv

LEMMA GatewaySendAnswers ==
  ASSUME AnswerInv, Inv, Inv', GatewaySend
  PROVE  AnswerInv'
<1> DEFINE p == Head(gwPending)
<1>1. gwPending # <<>> /\ net' = Entering(net, p, p.to) /\ gwPending' = Tail(gwPending)
  BY DEF GatewaySend
<1>2. p \in Packet /\ ToSet(gwPending) = ToSet(gwPending') \cup {p}
  BY <1>1, TailElements DEF Inv, TypeInv
<1> HIDE DEF p
<1>3. AtGateway(p) /\ p.f.dst \in VIP /\ QueueAnswer(p)
  BY <1>2, FlowProps DEF Inv, PacketInv, Packet, AnswerInv
<1>4. p.to \in Node /\ p.dst \notin Gateway
  <2>1. p.dst \notin Gateway
    BY <1>3, MapProps, BaselinesAssumption DEF AtGateway, Course, Inv
  <2> QED BY <1>3, <2>1, GatewayHosts DEF AtGateway
<1>5. \A x \in net' : LinkAnswer(x)
  BY <1>1, <1>2, <1>3, <1>4, HostBoundAnswers DEF Inv, TypeInv, AnswerInv, QueueAnswer
<1>6. UNCHANGED <<cache, queries, expected, waiting>>
  BY DEF GatewaySend, control
<1> QED BY <1>2, <1>5, <1>6, AnswerStep DEF AnswerInv

\* A query dates all that is under way.
LEMMA QueryAnswers ==
  ASSUME AnswerInv, Inv, Inv', QuerySwitches
  PROVE  AnswerInv'
<1>1. /\ queries' = queries + 1 /\ UNCHANGED <<net, waiting, gwPending>> /\ expected' \subseteq Flow
      /\ \A f \in expected' : \E s \in PathOf(f) : s \in Switch => Has(cache'[s], f.dst)
  BY QuerySteps
<1>2. \A f \in expected' : \E s \in PathOf(f) : Has(cache'[s], f.dst)
  BY <1>1, PathSwitches
<1>3. queries \in Nat /\ net \subseteq Packet /\ waiting \subseteq Packet
  BY DEF Inv, TypeInv
<1>4. \A p \in Packet : p.epoch <= queries => p.epoch <= queries' /\ p.epoch # queries'
  BY <1>1, <1>3 DEF Packet
<1>5. \A p \in net : LinkAnswer(p)'
  BY <1>3, <1>4 DEF AnswerInv, LinkAnswer, ToGateway
<1>6. \A p \in ToSet(gwPending) : p \in Packet
  BY DEF Inv, TypeInv, ToSet
<1>7. \A p \in ToSet(gwPending) : QueueAnswer(p)'
  BY <1>4, <1>6 DEF AnswerInv, QueueAnswer
<1>8. \A p \in waiting : p.epoch <= queries'
  BY <1>3, <1>4 DEF AnswerInv
<1> QED BY <1>1, <1>2, <1>5, <1>7, <1>8 DEF AnswerInv

LEMMA NextAnswers ==
  ASSUME AnswerInv, Inv, Inv', [Next]_vars
  PROVE  AnswerInv'
<1>1. CASE Leave \/ HostReceive \/ SwitchReceive \/ GatewayReceive \/ GatewaySend
  BY <1>1, LeaveAnswers, HostReceiveAnswers, SwitchAnswers, GatewayReceiveAnswers,
     GatewaySendAnswers
<1>2. CASE \E f \in Flow : SendDirect(f) \/ SendFirst(f) \/ SendToGateway(f)
  BY <1>2, SendAnswers
<1>3. CASE QuerySwitches
  BY <1>3, QueryAnswers
<1>4. CASE Migration \/ UpdateMappings \/ UNCHANGED vars
  <2>1. UNCHANGED <<cache, net, waiting, gwPending, queries, expected>>
    BY <1>4 DEF Migration, UpdateMappings, vars, control
  <2> QED BY <2>1, AnswerStep DEF AnswerInv
<1> QED BY <1>1, <1>2, <1>3, <1>4 DEF Next, System, Done

\* The controller computes the way of every flow as the routes and hashes of the network
\* have it: whatever the topology, the flows and the memory of the switches, what it expects
\* a switch to answer is answered before the gateway until the next query, in caches that
\* lookups reorder and full ones included (ilp-controller-app.cc:232-365 against
\* sim-base.cc's routes, switch-app.cc:91-130 and lru-cache.h).
THEOREM ControllerAnswers == Spec => []AnsweredAsExpected
<1>1. Init => Inv /\ AnswerInv
  <2> SUFFICES ASSUME Init PROVE Inv /\ AnswerInv
    OBVIOUS
  <2>1. net = {} /\ waiting = {} /\ ToSet(gwPending) = {} /\ expected = {}
    BY DEF Init, ToSet
  <2> QED BY <2>1, InitInv DEF AnswerInv
<1>2. Inv /\ AnswerInv /\ [Next]_vars => (Inv /\ AnswerInv)'
  BY NextInv, NextAnswers
<1>3. AnswerInv => AnsweredAsExpected
  BY DEF AnswerInv, QueueAnswer, AnsweredAsExpected, ToSet
<1> QED BY <1>1, <1>2, <1>3, PTL DEF Spec

-----------------------------------------------------------------------------
(* Order.  Without a controller, packets of a flow that take the same way  *)
(* stay in order on it.                                                    *)

\* What the properties know of a packet, and of which packets they know it.
Brief(p)  == [n |-> p.n, f |-> p.f, way |-> p.way]
Briefs(S) == {Brief(p) : p \in S}
Known == Briefs(net) \cup Briefs(waiting) \cup Briefs(ToSet(gwPending)) \cup ToSet(arrived)

\* The sender of f needs no gateway, and its first packet has waited.
Settled(f) ==
  \/ simMode = "Direct"
  \/ /\ simMode = "OnDemand" /\ f.dst \in Knows(Placement[f.src])
     /\ ~firstPacket[Placement[f.src]]

\* A host that has begun to send directly goes on to, after one packet that waits.
WayInv ==
  /\ \A b \in Known : b.way = "direct" => Settled(b.f)
  /\ \A b \in Known :
       b.way = "first" => simMode = "OnDemand" /\ ~firstPacket[Placement[b.f.src]]
  /\ \A b, c \in Known : b.f = c.f /\ b.way = "first" /\ c.way = "first" => b.n = c.n
  /\ \A b, c \in Known :
       b.f = c.f /\ b.way = "direct" /\ c.way \in {"first", "gateway"} => c.n < b.n

HostType ==
  /\ onDemandCache = [h \in Host |-> onDemandCache[h]]
  /\ firstPacket \in [Host -> BOOLEAN]

\* Packets of one flow that take the same way, x the one sent first.
Peers(x, y) == x.f = y.f /\ x.way = y.way /\ x.way \in {"direct", "gateway"} /\ x.n < y.n

\* How far a packet on a link has come, and where those for a host set out.
Stage(p)  == IF p.dst \in Gateway THEN Idx(p.f, p.from) ELSE 7
Origin(p) == IF p.way = "direct" THEN Placement[p.f.src] ELSE GatewayOf[p.f]

\* Packets on links come from their sender, and packets in a queue are in their gateway's.
LinkPlaced(p) ==
  p.way \in {"direct", "gateway"} =>
    p.src = Placement[p.f.src] /\ (p.dst \notin Gateway => p.from = Origin(p))
QueuePlaced(p) == p.way = "gateway" /\ p.src = Placement[p.f.src] /\ p.to = GatewayOf[p.f]

Placed ==
  /\ \A p \in net : LinkPlaced(p)
  /\ \A p \in waiting : p.way \in {"first", "stray"}
  /\ \A p \in ToSet(gwPending) : QueuePlaced(p)

\* pos numbers the packets of a lane.
LaneOK(S) == \A p \in S : p.pos < LaneSize(S, p)

LinkOrder(S) ==
  \A x, y \in S : Peers(x, y) =>
    Stage(y) <= Stage(x) /\ (Lane(x) = Lane(y) => x.pos < y.pos)

\* Of the packets S on links, g in the gateways' queues and a arrived, none has passed one
\* of its way but those that will stray.
QueueOrder(S, g) ==
  /\ \A x \in S : \A i \in DOMAIN g : Peers(x, g[i]) => x.dst \notin Gateway
  /\ \A y \in S : \A i \in DOMAIN g : Peers(g[i], y) => y.dst \in Gateway
  /\ \A i, j \in DOMAIN g : Peers(g[i], g[j]) => i < j

ArrivalOrder(S, g, a) ==
  /\ \A x \in S : \A k \in DOMAIN a : Peers(x, a[k]) =>
       x.dst \notin Gateway /\ x.dst # local[x.f.dst]
  /\ \A i \in DOMAIN g : \A k \in DOMAIN a : ~Peers(g[i], a[k])
  /\ \A i, j \in DOMAIN a : i < j => ~Peers(a[j], a[i])

Ordered(S, g, a) == LinkOrder(S) /\ QueueOrder(S, g) /\ ArrivalOrder(S, g, a)

OrderInv ==
  simMode # "Controller" =>
    HostType /\ WayInv /\ Placed /\ LaneOK(net) /\ Ordered(net, gwPending, arrived)

-----------------------------------------------------------------------------
(* Lanes.                                                                  *)

LEMMA LaneFinite ==
  ASSUME NEW S, IsFiniteSet(S), NEW p
  PROVE  IsFiniteSet({r \in S : Lane(r) = Lane(p)}) /\ LaneSize(S, p) \in Nat
<1> DEFINE A == {r \in S : Lane(r) = Lane(p)}
<1>1. A \in SUBSET S
  OBVIOUS
<1>2. LaneSize(S, p) = Cardinality(A)
  BY DEF LaneSize
<1> HIDE DEF A
<1> QED BY <1>1, <1>2, FS_Subset, FS_CardinalityType DEF A

\* A packet that enters a link is the last of its lane.
LEMMA LaneEntering ==
  ASSUME NEW S, S \subseteq Packet, IsFiniteSet(S), LaneOK(S),
         NEW e \in Packet, e.pos = LaneSize(S, e)
  PROVE  /\ LaneOK(S \cup {e})
         /\ \A r \in S : Lane(r) = Lane(e) => r.pos < e.pos
<1> DEFINE T == S \cup {e}
           A == {r \in S : Lane(r) = Lane(e)}
<1>1. IsFiniteSet(A) /\ LaneSize(S, e) = Cardinality(A) /\ LaneSize(S, e) \in Nat
  BY LaneFinite DEF LaneSize
<1>2. \A r \in S : Lane(r) = Lane(e) => LaneSize(S, r) = LaneSize(S, e)
  BY DEF LaneSize
<1>3. \A r \in S : Lane(r) = Lane(e) => r.pos < e.pos
  BY <1>2 DEF LaneOK
<1>4. e \notin A
  <2>1. ~(e.pos < e.pos)
    BY DEF Packet
  <2> QED BY <1>3, <2>1
<1>5. {r \in T : Lane(r) = Lane(e)} = A \cup {e}
  OBVIOUS
<1>6. LaneSize(T, e) = Cardinality(A \cup {e})
  BY <1>5 DEF LaneSize
<1> HIDE DEF A
<1>7. LaneSize(T, e) = LaneSize(S, e) + 1
  BY <1>1, <1>4, <1>6, FS_AddElement
<1>8. \A r \in S : r.pos < LaneSize(T, r)
  <2> SUFFICES ASSUME NEW r \in S PROVE r.pos < LaneSize(T, r)
    OBVIOUS
  <2>1. r.pos \in Int
    BY DEF Packet
  <2>2. CASE Lane(r) = Lane(e)
    <3>1. LaneSize(T, r) = LaneSize(T, e)
      BY <2>2 DEF LaneSize
    <3> QED BY <1>1, <1>3, <1>7, <2>1, <2>2, <3>1
  <2>3. CASE Lane(r) # Lane(e)
    <3>1. {q \in T : Lane(q) = Lane(r)} = {q \in S : Lane(q) = Lane(r)}
      BY <2>3
    <3>2. LaneSize(T, r) = LaneSize(S, r)
      BY <3>1 DEF LaneSize
    <3> QED BY <3>2 DEF LaneOK
  <2> QED BY <2>2, <2>3
<1>9. e.pos < LaneSize(T, e)
  BY <1>1, <1>7
<1>10. LaneOK(T)
  BY <1>8, <1>9 DEF LaneOK
<1> QED BY <1>3, <1>10

\* When one leaves, the others of its lane move up.
LEMMA LaneLeaving ==
  ASSUME NEW S, S \subseteq Packet, IsFiniteSet(S), LaneOK(S), Distinct(S), NEW p \in S
  PROVE  LaneOK(Leaving(S, p))
<1> DEFINE L == Leaving(S, p)
<1>1. /\ L \subseteq Packet /\ IsFiniteSet(L)
      /\ \A x \in L : \E q \in S \ {p} : MovedUp(x, q, p)
      /\ \A q \in S \ {p} : \E x \in L : MovedUp(x, q, p)
  BY LeavingIs
<1> HIDE DEF L
<1> SUFFICES ASSUME NEW x \in L PROVE x.pos < LaneSize(L, x)
  BY DEF LaneOK, L
<1>2. PICK q \in S \ {p} : MovedUp(x, q, p)
  BY <1>1
<1> DEFINE A == {r \in S : Lane(r) = Lane(q)}
           B == {r \in L : Lane(r) = Lane(x)}
           F == [r \in A \ {p} |-> CHOOSE y \in L : MovedUp(y, r, p)]
<1>3. \A y, r : MovedUp(y, r, p) => Lane(y) = Lane(r) /\ y.n = r.n
  BY DEF MovedUp, Same, Lane
<1>4. \A r \in A \ {p} : F[r] \in L /\ MovedUp(F[r], r, p)
  BY <1>1
<1>5. F \in Injection(A \ {p}, B)
  <2>1. \A r \in A \ {p} : F[r] \in B /\ F[r].n = r.n
    BY <1>2, <1>3, <1>4
  <2>2. F = [r \in A \ {p} |-> F[r]]
    OBVIOUS
  <2> HIDE DEF F
  <2>3. F \in [A \ {p} -> B]
    BY <2>1, <2>2
  <2>4. \A r, s \in A \ {p} : F[r] = F[s] => r = s
    BY <2>1 DEF Distinct
  <2> QED BY <2>3, <2>4 DEF Injection, IsInjective
<1>6. /\ IsFiniteSet(A) /\ LaneSize(S, q) = Cardinality(A) /\ LaneSize(S, q) \in Nat
      /\ IsFiniteSet(B) /\ LaneSize(L, x) = Cardinality(B) /\ LaneSize(L, x) \in Nat
  BY <1>1, LaneFinite DEF LaneSize
<1>7. p \in A <=> Lane(p) = Lane(q)
  OBVIOUS
<1> HIDE DEF A, B, F
<1>8. Cardinality(A \ {p}) <= Cardinality(B)
  BY <1>5, <1>6, FS_Injection
<1>9. Cardinality(A \ {p}) = IF p \in A THEN LaneSize(S, q) - 1 ELSE LaneSize(S, q)
  BY <1>6, FS_RemoveElement
<1>10. q.pos \in Int /\ q.pos < LaneSize(S, q)
  BY DEF LaneOK, Packet
<1>11. x.pos = IF Lane(q) = Lane(p) THEN q.pos - 1 ELSE q.pos
  BY <1>2 DEF MovedUp
<1> QED BY <1>6, <1>7, <1>8, <1>9, <1>10, <1>11

-----------------------------------------------------------------------------
(* Order on links, in queues and of arrivals.                              *)

LEMMA StageType ==
  ASSUME NEW p
  PROVE  /\ Stage(p) \in 0 .. 7
         /\ p.dst \in Gateway => Stage(p) <= 6
         /\ p.dst \notin Gateway => Stage(p) = 7
<1>1. Idx(p.f, p.from) \in 0 .. 6
  BY DEF Idx
<1> QED BY <1>1 DEF Stage

\* The order of packets is one of their numbers, flows, ways, links and places.
LEMMA MovedPeers ==
  ASSUME NEW p, NEW x, NEW q, MovedUp(x, q, p)
  PROVE  /\ Stage(x) = Stage(q) /\ Lane(x) = Lane(q) /\ Brief(x) = Brief(q)
         /\ x.dst = q.dst /\ x.f = q.f
         /\ LinkPlaced(q) => LinkPlaced(x)
         /\ \A y : (Peers(x, y) <=> Peers(q, y)) /\ (Peers(y, x) <=> Peers(y, q))
<1>1. Stage(x) = Stage(q) /\ Lane(x) = Lane(q) /\ Brief(x) = Brief(q)
  BY DEF MovedUp, Same, Stage, Lane, Brief
<1>2. x.dst = q.dst /\ x.f = q.f /\ (LinkPlaced(q) => LinkPlaced(x))
  BY DEF MovedUp, Same, LinkPlaced, Origin
<1>3. \A y : (Peers(x, y) <=> Peers(q, y)) /\ (Peers(y, x) <=> Peers(y, q))
  BY DEF MovedUp, Same, Peers
<1> QED BY <1>1, <1>2, <1>3

\* It stays when a packet leaves.
LEMMA OrderedLeaving ==
  ASSUME NEW S, S \subseteq Packet, IsFiniteSet(S), NEW p \in S, NEW g, NEW a, Ordered(S, g, a)
  PROVE  Ordered(Leaving(S, p), g, a)
<1> DEFINE L == Leaving(S, p)
<1>1. \A x \in L : \E q \in S \ {p} : MovedUp(x, q, p)
  BY LeavingIs
<1> HIDE DEF L
<1>2. LinkOrder(L)
  <2> SUFFICES ASSUME NEW x \in L, NEW y \in L, Peers(x, y)
               PROVE  Stage(y) <= Stage(x) /\ (Lane(x) = Lane(y) => x.pos < y.pos)
    BY DEF LinkOrder
  <2>1. PICK u \in S \ {p} : MovedUp(x, u, p)
    BY <1>1
  <2>2. PICK v \in S \ {p} : MovedUp(y, v, p)
    BY <1>1
  <2>3. Peers(u, v)
    BY <2>1, <2>2, MovedPeers
  <2>4. Stage(v) <= Stage(u) /\ (Lane(u) = Lane(v) => u.pos < v.pos)
    BY <2>3 DEF Ordered, LinkOrder
  <2>5. Stage(x) = Stage(u) /\ Lane(x) = Lane(u) /\ Stage(y) = Stage(v) /\ Lane(y) = Lane(v)
    BY <2>1, <2>2, MovedPeers
  <2>6. Lane(u) = Lane(v) /\ u.pos < v.pos => x.pos < y.pos
    <3>1. u.pos \in Int /\ v.pos \in Int
      BY DEF Packet
    <3>2. /\ x.pos = IF Lane(u) = Lane(p) THEN u.pos - 1 ELSE u.pos
          /\ y.pos = IF Lane(v) = Lane(p) THEN v.pos - 1 ELSE v.pos
      BY <2>1, <2>2 DEF MovedUp
    <3> QED BY <3>1, <3>2
  <2> QED BY <2>4, <2>5, <2>6
<1>3. QueueOrder(L, g)
  <2> SUFFICES ASSUME NEW x \in L, NEW i \in DOMAIN g
               PROVE  /\ Peers(x, g[i]) => x.dst \notin Gateway
                      /\ Peers(g[i], x) => x.dst \in Gateway
    BY DEF QueueOrder, Ordered
  <2>1. PICK u \in S \ {p} : MovedUp(x, u, p)
    BY <1>1
  <2>2. /\ Peers(u, g[i]) => u.dst \notin Gateway
        /\ Peers(g[i], u) => u.dst \in Gateway
    BY DEF Ordered, QueueOrder
  <2> QED BY <2>1, <2>2, MovedPeers
<1>4. ArrivalOrder(L, g, a)
  <2> SUFFICES ASSUME NEW x \in L, NEW k \in DOMAIN a, Peers(x, a[k])
               PROVE  x.dst \notin Gateway /\ x.dst # local[x.f.dst]
    BY DEF ArrivalOrder, Ordered
  <2>1. PICK u \in S \ {p} : MovedUp(x, u, p)
    BY <1>1
  <2>2. Peers(u, a[k])
    BY <2>1, MovedPeers
  <2>3. u.dst \notin Gateway /\ u.dst # local[u.f.dst]
    BY <2>2 DEF Ordered, ArrivalOrder
  <2> QED BY <2>1, <2>3, MovedPeers
<1> QED BY <1>2, <1>3, <1>4 DEF Ordered, L

\* It stays when a packet enters that is behind those of its way sent before it, and
\* before those sent after it.
LEMMA OrderedEntering ==
  ASSUME NEW S, S \subseteq Packet, NEW e \in Packet, NEW g, NEW a, Ordered(S, g, a),
         \A r \in S : Lane(r) = Lane(e) => r.pos < e.pos,
         \A x \in S : Peers(x, e) => Stage(e) <= Stage(x),
         \A y \in S : Peers(e, y) => Stage(y) <= Stage(e) /\ Lane(e) # Lane(y),
         \A i \in DOMAIN g : /\ Peers(e, g[i]) => e.dst \notin Gateway
                             /\ Peers(g[i], e) => e.dst \in Gateway,
         \A k \in DOMAIN a : Peers(e, a[k]) => e.dst \notin Gateway /\ e.dst # local[e.f.dst]
  PROVE  Ordered(S \cup {e}, g, a)
<1>1. ~Peers(e, e)
  BY DEF Peers, Packet
<1>2. LinkOrder(S \cup {e})
  <2> SUFFICES ASSUME NEW x \in S \cup {e}, NEW y \in S \cup {e}, Peers(x, y)
               PROVE  Stage(y) <= Stage(x) /\ (Lane(x) = Lane(y) => x.pos < y.pos)
    BY DEF LinkOrder
  <2>1. CASE x \in S /\ y \in S
    BY <2>1 DEF Ordered, LinkOrder
  <2>2. CASE x \in S /\ y = e
    BY <2>2
  <2>3. CASE x = e /\ y \in S
    BY <2>3
  <2> QED BY <1>1, <2>1, <2>2, <2>3
<1>3. QueueOrder(S \cup {e}, g)
  BY DEF Ordered, QueueOrder
<1>4. ArrivalOrder(S \cup {e}, g, a)
  BY DEF Ordered, ArrivalOrder
<1> QED BY <1>2, <1>3, <1>4 DEF Ordered

-----------------------------------------------------------------------------
(* Ways: what a host sends once it needs no gateway.                       *)

LEMMA KnownNumbers ==
  ASSUME OneCopy
  PROVE  \A b \in Known : b.n \in 1 .. sent
<1>1. \A S : \A b \in Briefs(S) : b.n \in Numbers(S)
  BY DEF Briefs, Brief, Numbers
<1>2. \A b \in ToSet(arrived) : b.n \in Arrived
  BY DEF Arrived, Numbers
<1> QED BY <1>1, <1>2 DEF Known, OneCopy, Apart

\* A step that sends nothing adds strays only.
LEMMA WaysSame ==
  ASSUME WayInv, HostType, UNCHANGED <<simMode, firstPacket>>,
         \A h \in Host : onDemandCache[h] \subseteq onDemandCache'[h],
         \A b \in Known : b.f \in Flow,
         \A b \in Known' : b.way = "stray" \/ b \in Known
  PROVE  WayInv'
<1>1. \A f \in Flow : Settled(f) => Settled(f)'
  BY FlowProps DEF Settled, Knows
<1>2. \A b \in Known' : b.way = "direct" => Settled(b.f)'
  BY <1>1 DEF WayInv
<1> QED BY <1>2 DEF WayInv

LEMMA SendWays ==
  ASSUME WayInv, HostType, TypeInv, OneCopy, simMode # "Controller",
         \A b \in Known : b.f \in Flow,
         NEW f \in Flow, NEW way,
         \/ SendDirect(f) /\ way = "direct"
         \/ SendFirst(f) /\ way = "first"
         \/ SendToGateway(f) /\ way = "gateway",
         Known' = Known \cup {[n |-> sent + 1, f |-> f, way |-> way]}
  PROVE  WayInv' /\ HostType'
<1> DEFINE h == Placement[f.src]
           c == [n |-> sent + 1, f |-> f, way |-> way]
<1>0. h \in Host /\ sent \in Nat
  BY FlowProps, BaselinesAssumption DEF TypeInv
<1>1. /\ simMode' = simMode
      /\ onDemandCache' = [onDemandCache EXCEPT ![h] = Knows(h)]
      /\ firstPacket' = IF SendFirst(f) THEN [firstPacket EXCEPT ![h] = FALSE] ELSE firstPacket
  BY DEF SendDirect, SendFirst, SendToGateway, Sending
<1>2. HostType'
  BY <1>0, <1>1 DEF HostType
<1>3. \A i \in Host : onDemandCache[i] \subseteq onDemandCache'[i]
  BY <1>0, <1>1 DEF HostType, Knows
<1>4. \A i \in Host : ~firstPacket[i] => ~firstPacket'[i]
  BY <1>0, <1>1 DEF HostType
<1>5. \A g \in Flow : Settled(g) => Settled(g)'
  BY <1>1, <1>3, <1>4, FlowProps DEF Settled, Knows
<1>6. c.n = sent + 1 /\ c.f = f /\ c.way = way /\ Known' = Known \cup {c}
  OBVIOUS
<1>7. \A b \in Known : b.n \in Nat /\ b.n < sent + 1
  BY <1>0, KnownNumbers
<1> HIDE DEF c
<1>8. way = "direct" => Settled(f)'
  <2> SUFFICES ASSUME way = "direct" PROVE Settled(f)'
    OBVIOUS
  <2>1. SendDirect(f) /\ UsesDirectory(f) /\ (simMode = "OnDemand" => ~firstPacket[h])
    BY DEF SendDirect
  <2>2. Settled(f)
    BY <2>1 DEF UsesDirectory, Settled
  <2> QED BY <1>5, <2>2
<1>9. way = "first" => simMode = "OnDemand" /\ firstPacket[h] /\ ~firstPacket'[h]
  BY <1>0, <1>1 DEF SendFirst, HostType
<1>10. way \in {"first", "gateway"} => ~Settled(f)
  <2>1. CASE way = "first"
    BY <1>9, <2>1 DEF Settled
  <2>2. CASE way = "gateway"
    BY <2>2 DEF Settled, SendToGateway, UsesDirectory
  <2> QED BY <2>1, <2>2
<1>11. \A b \in Known' : b.way = "direct" => Settled(b.f)'
  BY <1>5, <1>6, <1>8 DEF WayInv
<1>12. \A b \in Known' :
         b.way = "first" => simMode' = "OnDemand" /\ ~firstPacket'[Placement[b.f.src]]
  <2>1. \A b \in Known : Placement[b.f.src] \in Host
    BY FlowProps
  <2> QED BY <1>1, <1>4, <1>6, <1>9, <2>1 DEF WayInv
<1>13. \A b, d \in Known' : b.f = d.f /\ b.way = "first" /\ d.way = "first" => b.n = d.n
  BY <1>6, <1>9 DEF WayInv
<1>14. \A b, d \in Known' :
         b.f = d.f /\ b.way = "direct" /\ d.way \in {"first", "gateway"} => d.n < b.n
  BY <1>6, <1>7, <1>10 DEF WayInv
<1>15. WayInv'
  BY <1>11, <1>12, <1>13, <1>14 DEF WayInv
<1> QED BY <1>2, <1>15

-----------------------------------------------------------------------------
(* Every step without a controller keeps the order.                        *)

LEMMA ElementsIn ==
  ASSUME NEW S, NEW s \in Seq(S)
  PROVE  ToSet(s) \subseteq S
  BY DEF ToSet

LEMMA KnownFlows ==
  ASSUME TypeInv
  PROVE  \A b \in Known : b.f \in Flow
<1>1. \A S : S \subseteq Packet => \A b \in Briefs(S) : b.f \in Flow
  BY DEF Briefs, Brief, Packet
<1>2. ToSet(gwPending) \subseteq Packet /\ ToSet(arrived) \subseteq [n : Nat, f : Flow, way : Way]
  BY ElementsIn DEF TypeInv
<1> QED BY <1>1, <1>2 DEF Known, TypeInv

LEMMA BriefOf ==
  ASSUME NEW q, NEW p, q.n = p.n, q.f = p.f, q.way = p.way
  PROVE  /\ Brief(q) = Brief(p)
         /\ \A y : (Peers(q, y) <=> Peers(p, y)) /\ (Peers(y, q) <=> Peers(y, p))
  BY DEF Brief, Peers

LEMMA BriefsOf ==
  ASSUME NEW S, NEW p
  PROVE  /\ p \in S => Brief(p) \in Briefs(S)
         /\ Briefs(S \cup {p}) = Briefs(S) \cup {Brief(p)}
         /\ \A T : T \subseteq S => Briefs(T) \subseteq Briefs(S)
  BY DEF Briefs

LEMMA BriefsLeaving ==
  ASSUME NEW S, S \subseteq Packet, IsFiniteSet(S), NEW p \in S
  PROVE  Briefs(Leaving(S, p)) \subseteq Briefs(S)
<1>1. \A x \in Leaving(S, p) : \E q \in S \ {p} : MovedUp(x, q, p)
  BY LeavingIs
<1>2. \A x \in Leaving(S, p) : \E q \in S : Brief(x) = Brief(q)
  BY <1>1, MovedPeers
<1> QED BY <1>2 DEF Briefs

\* A packet enters a lane behind all others.
LEMMA EntersLast ==
  ASSUME NEW S, S \subseteq Packet, IsFiniteSet(S), LaneOK(S), NEW p \in Packet, NEW n \in Node
  PROVE  \E e \in Packet :
           /\ Entering(S, p, n) = S \cup {e}
           /\ Same(e, p) /\ e.from = n /\ e.to = NextOf(p, n)
           /\ LaneOK(S \cup {e})
           /\ \A r \in S : Lane(r) = Lane(e) => r.pos < e.pos
<1>1. PICK e \in Packet : /\ Entering(S, p, n) = S \cup {e}
                          /\ Same(e, p) /\ e.from = n /\ e.to = NextOf(p, n)
                          /\ e.pos = LaneSize(S, e)
  BY EnteringIs
<1>2. LaneOK(S \cup {e}) /\ \A r \in S : Lane(r) = Lane(e) => r.pos < e.pos
  BY <1>1, LaneEntering
<1> QED BY <1>1, <1>2, Zenon

LEMMA OrderStep ==
  ASSUME Steady, HostType', WayInv', Placed', LaneOK(net'), Ordered(net', gwPending', arrived')
  PROVE  OrderInv'
<1>1. Ordered(net, gwPending, arrived)'
  BY DEF Ordered, LinkOrder, QueueOrder, ArrivalOrder, Steady
<1>2. LaneOK(net)'
  BY DEF LaneOK
<1> QED BY <1>1, <1>2 DEF OrderInv

\* The latest packet has all others of its flow before it.
LEMMA NoneLater ==
  ASSUME Inv, OneCopy, NEW e, e.n = sent + 1
  PROVE  /\ \A y \in net : ~Peers(e, y)
         /\ \A i \in DOMAIN gwPending : ~Peers(e, gwPending[i])
         /\ \A k \in DOMAIN arrived : ~Peers(e, arrived[k])
<1>1. \A m \in 1 .. sent : ~(sent + 1 < m)
  BY BaselinesAssumption DEF Inv, TypeInv
<1>2. \A y \in net : y.n \in 1 .. sent
  BY DEF OneCopy, Apart, Numbers
<1>3. \A i \in DOMAIN gwPending : gwPending[i].n \in 1 .. sent
  BY DEF OneCopy, Apart, Numbers, ToSet
<1>4. \A k \in DOMAIN arrived : arrived[k].n \in 1 .. sent
  BY DEF OneCopy, Apart, Numbers, Arrived, ToSet
<1> QED BY <1>1, <1>2, <1>3, <1>4 DEF Peers

\* What is on the way to a gateway takes the gateway's way, and has not come to it.
LEMMA BoundForGateway ==
  ASSUME Inv, AnswerInv, NEW p \in net, p.dst \in Gateway
  PROVE  /\ ToGateway(p) /\ p.f \in Flow /\ Stage(p) = Idx(p.f, p.from)
         /\ Stage(p) \in 0 .. 5
<1>1. ToGateway(p) /\ p.f \in Flow
  BY DEF AnswerInv, LinkAnswer, Inv, TypeInv, Packet
<1> QED BY <1>1, RouteStep DEF ToGateway, Stage

LEMMA SendOrder ==
  ASSUME Inv, OneCopy, AnswerInv, OrderInv, simMode # "Controller",
         NEW f \in Flow, SendDirect(f) \/ SendToGateway(f)
  PROVE  OrderInv'
<1> DEFINE h == Placement[f.src]
           way == IF SendDirect(f) THEN "direct" ELSE "gateway"
           d == IF SendDirect(f) THEN directory[f.dst] ELSE GatewayOf[f]
           p == NewPacket(f, h, d, way)
<1>0. HostType /\ WayInv /\ Placed /\ LaneOK(net) /\ Ordered(net, gwPending, arrived)
  BY DEF OrderInv
<1>1. net \subseteq Packet /\ IsFiniteSet(net) /\ h \in Node
  BY FlowProps DEF Inv, TypeInv
<1>2. ~(SendDirect(f) /\ SendToGateway(f))
  BY DEF SendDirect, SendToGateway
<1>3. /\ net' = Entering(net, p, h) /\ Steady
      /\ UNCHANGED <<waiting, gwPending, arrived>>
  BY <1>2 DEF SendDirect, SendToGateway, Sending, Steady, control
<1>4. d \in Host /\ (d \in Gateway <=> ~SendDirect(f)) /\ (d \notin Gateway => d = directory[f.dst])
  BY FlowProps, MapProps DEF Inv, TypeInv
<1>5. p \in Packet /\ p.n = sent + 1 /\ p.way = way /\ p.dst = d
  BY <1>4, FreshPacket DEF Way
<1>6. p.f = f /\ p.src = h
  BY DEF NewPacket
<1> HIDE DEF p
<1>7. PICK e \in Packet :
        /\ Entering(net, p, h) = net \cup {e}
        /\ Same(e, p) /\ e.from = h /\ e.to = NextOf(p, h)
        /\ LaneOK(net \cup {e})
        /\ \A r \in net : Lane(r) = Lane(e) => r.pos < e.pos
  <2> HIDE DEF h, d, way
  <2>1. LaneOK(net) /\ p \in Packet
    BY <1>0, <1>5
  <2> QED BY <1>1, <2>1, EntersLast
<1>8. e.n = sent + 1 /\ e.f = f /\ e.way = way /\ e.dst = d /\ e.src = h
  BY <1>5, <1>6, <1>7 DEF Same
<1>9. LinkPlaced(e)
  BY <1>4, <1>7, <1>8 DEF LinkPlaced, Origin
<1>10. \A x \in net : Peers(x, e) => Stage(e) <= Stage(x)
  <2> SUFFICES ASSUME NEW x \in net, Peers(x, e) PROVE Stage(e) <= Stage(x)
    OBVIOUS
  <2>1. Stage(x) \in 0 .. 7 /\ Stage(e) \in 0 .. 7
    BY StageType
  <2>2. CASE SendDirect(f)
    <3>1. x.way = "direct"
      BY <1>8, <2>2 DEF Peers
    <3>2. x.dst \notin Gateway
      BY <3>1, BoundForGateway DEF ToGateway
    <3>3. Stage(x) = 7
      BY <3>2, StageType
    <3> QED BY <2>1, <3>3
  <2>3. CASE ~SendDirect(f)
    <3>1. OnRoute(f, h)
      BY DEF OnRoute
    <3>2. Idx(f, h) = 0
      BY <3>1, RouteStep
    <3>3. Stage(e) = 0
      BY <1>4, <1>7, <1>8, <2>3, <3>2 DEF Stage
    <3> QED BY <2>1, <3>3
  <2> QED BY <2>2, <2>3
<1>11. \A i \in DOMAIN gwPending : Peers(gwPending[i], e) => e.dst \in Gateway
  <2>1. \A i \in DOMAIN gwPending : gwPending[i].way = "gateway"
    BY <1>0 DEF Placed, QueuePlaced, ToSet
  <2> QED BY <1>4, <1>8, <2>1 DEF Peers
<1>12. Ordered(net \cup {e}, gwPending, arrived)
  <2>1. /\ \A y \in net : ~Peers(e, y)
        /\ \A i \in DOMAIN gwPending : ~Peers(e, gwPending[i])
        /\ \A k \in DOMAIN arrived : ~Peers(e, arrived[k])
    BY <1>8, NoneLater
  <2> QED BY <1>0, <1>1, <1>7, <1>10, <1>11, <2>1, OrderedEntering
<1>13. Placed'
  BY <1>0, <1>3, <1>7, <1>9 DEF Placed
<1>14. Known' = Known \cup {[n |-> sent + 1, f |-> f, way |-> way]}
  <2>1. Brief(e) = [n |-> sent + 1, f |-> f, way |-> way]
    BY <1>8 DEF Brief
  <2>2. Briefs(net') = Briefs(net) \cup {Brief(e)}
    BY <1>3, <1>7, BriefsOf
  <2> QED BY <1>3, <2>1, <2>2 DEF Known
<1>15. WayInv' /\ HostType'
  <2>1. \/ SendDirect(f) /\ way = "direct"
        \/ SendToGateway(f) /\ way = "gateway"
    OBVIOUS
  <2> HIDE DEF way
  <2> QED BY <1>0, <1>14, <2>1, SendWays, KnownFlows DEF Inv
<1> QED BY <1>3, <1>7, <1>12, <1>13, <1>15, OrderStep

LEMMA SendFirstOrder ==
  ASSUME Inv, OneCopy, OrderInv, simMode # "Controller", NEW f \in Flow, SendFirst(f)
  PROVE  OrderInv'
<1> DEFINE h == Placement[f.src]
           p == NewPacket(f, h, h, "first")
<1>0. HostType /\ WayInv /\ Placed /\ LaneOK(net) /\ Ordered(net, gwPending, arrived)
  BY DEF OrderInv
<1>1. waiting' = waiting \cup {p} /\ Steady /\ UNCHANGED <<net, gwPending, arrived>>
  BY DEF SendFirst, Sending, Steady, control
<1>2. p.n = sent + 1 /\ p.f = f /\ p.way = "first"
  BY DEF NewPacket
<1> HIDE DEF p
<1>3. Placed'
  BY <1>0, <1>1, <1>2 DEF Placed
<1>4. Known' = Known \cup {[n |-> sent + 1, f |-> f, way |-> "first"]}
  <2>1. Brief(p) = [n |-> sent + 1, f |-> f, way |-> "first"]
    BY <1>2 DEF Brief
  <2>2. Briefs(waiting') = Briefs(waiting) \cup {Brief(p)}
    BY <1>1, BriefsOf
  <2> QED BY <1>1, <2>1, <2>2 DEF Known
<1>5. WayInv' /\ HostType'
  BY <1>0, <1>4, SendWays, KnownFlows DEF Inv
<1> QED BY <1>0, <1>1, <1>3, <1>5, OrderStep

\* What has waited takes no part in the order.
LEMMA LeaveOrder ==
  ASSUME Inv, OrderInv, simMode # "Controller", Leave
  PROVE  OrderInv'
<1>0. HostType /\ WayInv /\ Placed /\ LaneOK(net) /\ Ordered(net, gwPending, arrived)
  BY DEF OrderInv
<1>1. PICK p \in waiting :
        /\ waiting' = waiting \ {p}
        /\ net' = Entering(net, [p EXCEPT !.dst = FollowMe(p), !.src = p.to,
                                          !.late = @ \/ directory # Placement], p.to)
  BY DEF Leave
<1> DEFINE q == [p EXCEPT !.dst = FollowMe(p), !.src = p.to, !.late = @ \/ directory # Placement]
<1>2. q \in Packet /\ q.n = p.n /\ q.f = p.f /\ q.way = p.way /\ p.to \in Node
  BY LeavesAsItself
<1>3. net' = Entering(net, q, p.to)
  BY <1>1
<1> HIDE DEF q
<1>4. net \subseteq Packet /\ IsFiniteSet(net)
  BY DEF Inv, TypeInv
<1>5. PICK e \in Packet :
        /\ Entering(net, q, p.to) = net \cup {e}
        /\ Same(e, q) /\ e.from = p.to /\ e.to = NextOf(q, p.to)
        /\ LaneOK(net \cup {e})
        /\ \A r \in net : Lane(r) = Lane(e) => r.pos < e.pos
  <2>1. LaneOK(net)
    BY <1>0
  <2> QED BY <1>2, <1>4, <2>1, EntersLast
<1>6. e.n = p.n /\ e.f = p.f /\ e.way = p.way
  BY <1>2, <1>5 DEF Same
<1>7. e.way \in {"first", "stray"}
  BY <1>0, <1>6 DEF Placed
<1>8. \A x : ~Peers(x, e) /\ ~Peers(e, x)
  BY <1>7 DEF Peers
<1>9. Ordered(net \cup {e}, gwPending, arrived)
  BY <1>0, <1>4, <1>5, <1>8, OrderedEntering
<1>10. Steady /\ UNCHANGED <<gwPending, arrived, onDemandCache, firstPacket>>
  BY DEF Leave, Steady, hosts
<1>11. Placed'
  <2>1. LinkPlaced(e)
    BY <1>7 DEF LinkPlaced
  <2> QED BY <1>0, <1>1, <1>3, <1>5, <1>10, <2>1 DEF Placed
<1>12. \A b \in Known' : b \in Known
  <2>1. Briefs(net') = Briefs(net) \cup {Brief(e)} /\ Briefs(waiting') \subseteq Briefs(waiting)
    BY <1>1, <1>3, <1>5, BriefsOf
  <2>2. Brief(e) \in Briefs(waiting)
    BY <1>6, BriefOf, BriefsOf
  <2> QED BY <1>10, <2>1, <2>2 DEF Known
<1>13. HostType' /\ WayInv'
  <2>1. HostType'
    BY <1>0, <1>10 DEF HostType
  <2>2. WayInv'
    BY <1>0, <1>10, <1>12, WaysSame, KnownFlows DEF Steady, Inv
  <2> QED BY <2>1, <2>2
<1> QED BY <1>3, <1>5, <1>9, <1>10, <1>11, <1>13, OrderStep

\* What is left on the links when p has left them.
LEMMA LeavingKeeps ==
  ASSUME Inv, OneCopy, OrderInv, simMode # "Controller", NEW p \in net
  PROVE  LET L == Leaving(net, p)
         IN  /\ L \subseteq Packet /\ IsFiniteSet(L) /\ LaneOK(L)
             /\ Ordered(L, gwPending, arrived)
             /\ \A x \in L : LinkPlaced(x)
             /\ Briefs(L) \subseteq Briefs(net)
<1>1. net \subseteq Packet /\ IsFiniteSet(net) /\ Distinct(net)
  BY DEF Inv, TypeInv, OneCopy
<1>2. LaneOK(net) /\ Ordered(net, gwPending, arrived) /\ Placed
  BY DEF OrderInv
<1>3. /\ Leaving(net, p) \subseteq Packet /\ IsFiniteSet(Leaving(net, p))
      /\ \A x \in Leaving(net, p) : \E q \in net \ {p} : MovedUp(x, q, p)
  BY <1>1, LeavingIs
<1>4. LaneOK(Leaving(net, p))
  BY <1>1, <1>2, LaneLeaving
<1>5. Ordered(Leaving(net, p), gwPending, arrived)
  BY <1>1, <1>2, OrderedLeaving
<1>6. \A x \in Leaving(net, p) : LinkPlaced(x)
  BY <1>2, <1>3, MovedPeers DEF Placed
<1>7. Briefs(Leaving(net, p)) \subseteq Briefs(net)
  BY <1>1, BriefsLeaving
<1> QED BY <1>3, <1>4, <1>5, <1>6, <1>7

\* A head has no peer that was sent earlier in its lane.
LEMMA HeadIsFirst ==
  ASSUME OrderInv, simMode # "Controller", NEW p \in Heads, NEW x \in net, Peers(x, p)
  PROVE  Stage(p) <= Stage(x) /\ Lane(x) # Lane(p)
<1>1. p \in net /\ Ahead(p) = {}
  BY DEF Heads
<1>2. Stage(p) <= Stage(x) /\ (Lane(x) = Lane(p) => x.pos < p.pos)
  BY <1>1 DEF OrderInv, Ordered, LinkOrder
<1> QED BY <1>1, <1>2 DEF Ahead

\* On the way to the gateway it has none before the next node.
LEMMA HeadLeadsTo ==
  ASSUME Inv, AnswerInv, OrderInv, simMode # "Controller",
         NEW p \in Heads, p.dst \in Gateway, NEW x \in net, Peers(x, p), x.dst \in Gateway
  PROVE  Idx(p.f, p.to) <= Stage(x)
<1>1. p \in net
  BY DEF Heads
<1>2. /\ ToGateway(p) /\ p.f \in Flow /\ Stage(p) = Idx(p.f, p.from)
      /\ ToGateway(x) /\ Stage(x) = Idx(x.f, x.from)
      /\ Stage(p) \in 0 .. 5 /\ Stage(x) \in 0 .. 5
  BY <1>1, BoundForGateway
<1>3. x.f = p.f
  BY DEF Peers
<1>4. Stage(p) <= Stage(x) /\ Lane(x) # Lane(p)
  BY HeadIsFirst
<1>5. CASE Stage(p) = Stage(x)
  <2>1. OnRoute(p.f, p.from) /\ OnRoute(p.f, x.from) /\ Idx(p.f, p.from) = Idx(p.f, x.from)
    BY <1>2, <1>3, <1>5 DEF ToGateway
  <2>2. x.from = p.from
    BY <1>2, <2>1, RouteStep
  <2>3. x.to = p.to /\ x.src = p.src
    BY <1>2, <1>3, <2>2 DEF ToGateway
  <2> QED BY <1>4, <2>2, <2>3 DEF Lane
<1>6. CASE Stage(p) < Stage(x)
  <2>1. OnRoute(p.f, p.from) /\ OnRoute(p.f, x.from) /\ Idx(p.f, p.from) < Idx(p.f, x.from)
    BY <1>2, <1>3, <1>6 DEF ToGateway
  <2>2. Idx(p.f, Hop(p.f, p.from)) <= Idx(p.f, x.from)
    BY <1>2, <2>1, RouteStep
  <2> QED BY <1>2, <1>3, <2>2 DEF ToGateway
<1> QED BY <1>2, <1>4, <1>5, <1>6

\* A packet that has reached its host has passed only packets that will stray.
LEMMA PassedStray ==
  ASSUME Inv, OrderInv, simMode # "Controller", NEW p \in Heads, p.to \in Host \ Gateway,
         local[p.f.dst] = p.to, NEW x \in net, Peers(x, p)
  PROVE  x.dst \notin Gateway /\ x.dst # local[x.f.dst]
<1>1. p \in net /\ OnLink(p) /\ OnLink(x) /\ LinkPlaced(p) /\ LinkPlaced(x)
  BY DEF Heads, Inv, PacketInv, OrderInv, Placed
<1>2. p.dst \notin Gateway /\ p.to = p.dst
  BY <1>1, GatewayHosts DEF OnLink
<1>3. Stage(p) <= Stage(x) /\ Lane(x) # Lane(p) /\ x.f = p.f /\ x.way = p.way
  BY HeadIsFirst DEF Peers
<1>4. x.dst \notin Gateway
  BY <1>2, <1>3, StageType
<1>5. x.from = p.from /\ x.src = p.src
  BY <1>1, <1>2, <1>3, <1>4 DEF LinkPlaced, Origin, Peers
<1>6. x.to = x.dst
  BY <1>1, <1>4 DEF OnLink
<1> QED BY <1>2, <1>3, <1>4, <1>5, <1>6 DEF Lane

LEMMA AppendAt ==
  ASSUME NEW S, NEW s \in Seq(S), NEW x \in S
  PROVE  /\ \A i \in DOMAIN Append(s, x) :
              \/ i \in DOMAIN s /\ Append(s, x)[i] = s[i]
              \/ i = Len(s) + 1 /\ Append(s, x)[i] = x
         /\ \A i \in DOMAIN s : i \in Nat /\ i < Len(s) + 1
         /\ Len(s) \in Nat
<1>1. /\ Len(s) \in Nat /\ DOMAIN s = 1 .. Len(s)
      /\ DOMAIN Append(s, x) = 1 .. Len(s) + 1
      /\ \A i \in 1 .. Len(s) : Append(s, x)[i] = s[i]
      /\ Append(s, x)[Len(s) + 1] = x
  BY LenProperties, AppendProperties
<1> QED BY <1>1

LEMMA ArrivalsAppended ==
  ASSUME NEW S, NEW g, NEW T, NEW a \in Seq(T), NEW b \in T, ArrivalOrder(S, g, a),
         \A x \in S : Peers(x, b) => x.dst \notin Gateway /\ x.dst # local[x.f.dst],
         \A i \in DOMAIN g : ~Peers(g[i], b),
         \A k \in DOMAIN a : ~Peers(b, a[k])
  PROVE  ArrivalOrder(S, g, Append(a, b))
<1> DEFINE c == Append(a, b)
<1>1. /\ \A i \in DOMAIN c : \/ i \in DOMAIN a /\ c[i] = a[i]
                             \/ i = Len(a) + 1 /\ c[i] = b
      /\ \A i \in DOMAIN a : i \in Nat /\ i < Len(a) + 1
      /\ Len(a) \in Nat
  BY AppendAt
<1> HIDE DEF c
<1>2. \A x \in S : \A k \in DOMAIN c : Peers(x, c[k]) =>
        x.dst \notin Gateway /\ x.dst # local[x.f.dst]
  BY <1>1 DEF ArrivalOrder
<1>3. \A i \in DOMAIN g : \A k \in DOMAIN c : ~Peers(g[i], c[k])
  BY <1>1 DEF ArrivalOrder
<1>4. \A i, j \in DOMAIN c : i < j => ~Peers(c[j], c[i])
  <2> SUFFICES ASSUME NEW i \in DOMAIN c, NEW j \in DOMAIN c, i < j PROVE ~Peers(c[j], c[i])
    OBVIOUS
  <2>1. i \in DOMAIN a /\ c[i] = a[i]
    BY <1>1
  <2>2. CASE j \in DOMAIN a /\ c[j] = a[j]
    BY <2>1, <2>2 DEF ArrivalOrder
  <2>3. CASE c[j] = b
    BY <2>1, <2>3
  <2> QED BY <1>1, <2>2, <2>3
<1> QED BY <1>2, <1>3, <1>4 DEF ArrivalOrder, c

LEMMA QueueAppended ==
  ASSUME NEW S, NEW T, NEW g \in Seq(T), NEW q \in T, NEW a, q.n \in Nat,
         QueueOrder(S, g), ArrivalOrder(S, g, a),
         \A x \in S : /\ Peers(x, q) => x.dst \notin Gateway
                      /\ Peers(q, x) => x.dst \in Gateway,
         \A i \in DOMAIN g : ~Peers(q, g[i]),
         \A k \in DOMAIN a : ~Peers(q, a[k])
  PROVE  QueueOrder(S, Append(g, q)) /\ ArrivalOrder(S, Append(g, q), a)
<1> DEFINE c == Append(g, q)
<1>1. /\ \A i \in DOMAIN c : \/ i \in DOMAIN g /\ c[i] = g[i]
                             \/ i = Len(g) + 1 /\ c[i] = q
      /\ \A i \in DOMAIN g : i \in Nat /\ i < Len(g) + 1
      /\ Len(g) \in Nat
  BY AppendAt
<1> HIDE DEF c
<1>2. ~Peers(q, q)
  BY DEF Peers
<1>3. \A i, j \in DOMAIN c : Peers(c[i], c[j]) => i < j
  <2> SUFFICES ASSUME NEW i \in DOMAIN c, NEW j \in DOMAIN c, Peers(c[i], c[j]) PROVE i < j
    OBVIOUS
  <2>1. CASE c[i] = q
    BY <1>1, <1>2, <2>1
  <2>2. CASE i \in DOMAIN g /\ c[i] = g[i]
    <3>1. CASE j \in DOMAIN g /\ c[j] = g[j]
      BY <2>2, <3>1 DEF QueueOrder
    <3>2. CASE j = Len(g) + 1
      BY <1>1, <2>2, <3>2
    <3> QED BY <1>1, <3>1, <3>2
  <2> QED BY <1>1, <2>1, <2>2
<1>4. \A x \in S : \A i \in DOMAIN c : /\ Peers(x, c[i]) => x.dst \notin Gateway
                                       /\ Peers(c[i], x) => x.dst \in Gateway
  BY <1>1 DEF QueueOrder
<1>5. \A i \in DOMAIN c : \A k \in DOMAIN a : ~Peers(c[i], a[k])
  BY <1>1 DEF ArrivalOrder
<1> QED BY <1>3, <1>4, <1>5 DEF QueueOrder, ArrivalOrder, c

LEMMA HostReceiveOrder ==
  ASSUME Inv, OneCopy, OrderInv, simMode # "Controller", HostReceive
  PROVE  OrderInv'
<1>0. HostType /\ WayInv /\ Placed /\ Ordered(net, gwPending, arrived)
  BY DEF OrderInv
<1>1. PICK p \in Heads :
        /\ p.to \in Host \ Gateway
        /\ net' = Leaving(net, p)
        /\ \/ /\ local[p.f.dst] = p.to
              /\ arrived' = Append(arrived, [n |-> p.n, f |-> p.f, way |-> p.way])
              /\ waiting' = waiting
           \/ /\ waiting' = waiting \cup {[p EXCEPT !.way = "stray"]}
              /\ arrived' = arrived
        /\ \E heard : \/ onDemandCache' = [onDemandCache EXCEPT ![p.to] = @ \cup heard]
                      \/ onDemandCache' = [onDemandCache EXCEPT ![p.to] = Knows(p.to) \cup heard]
  BY DEF HostReceive
<1>2. p \in net /\ p \in Packet /\ OnLink(p)
  BY DEF Heads, Inv, TypeInv, PacketInv
<1>3. p.dst \notin Gateway /\ p.to = p.dst
  BY <1>1, <1>2, GatewayHosts DEF OnLink
<1> DEFINE L == Leaving(net, p)
<1>4. /\ LaneOK(L) /\ Ordered(L, gwPending, arrived)
      /\ \A x \in L : LinkPlaced(x)
      /\ Briefs(L) \subseteq Briefs(net)
  BY <1>2, LeavingKeeps
<1>5. \A x \in L : \E q \in net \ {p} : MovedUp(x, q, p)
  BY <1>2, LeavingIs DEF Inv, TypeInv
<1> HIDE DEF L
<1>6. Steady /\ UNCHANGED <<gwPending, firstPacket>>
  BY DEF HostReceive, Steady
<1>7. HostType' /\ \A h \in Host : onDemandCache[h] \subseteq onDemandCache'[h]
  <2>1. PICK heard : \/ onDemandCache' = [onDemandCache EXCEPT ![p.to] = @ \cup heard]
                     \/ onDemandCache' = [onDemandCache EXCEPT ![p.to] = Knows(p.to) \cup heard]
    BY <1>1
  <2>2. onDemandCache' = [h \in Host |-> onDemandCache'[h]]
    BY <1>0, <2>1 DEF HostType
  <2>3. \A h \in Host : onDemandCache[h] \subseteq onDemandCache'[h]
    BY <1>0, <2>1 DEF HostType, Knows
  <2> QED BY <1>0, <1>6, <2>2, <2>3 DEF HostType
<1>8. CASE /\ local[p.f.dst] = p.to
           /\ arrived' = Append(arrived, [n |-> p.n, f |-> p.f, way |-> p.way])
           /\ waiting' = waiting
  <2> DEFINE b == Brief(p)
             T == [n : Nat, f : Flow, way : Way]
  <2>1. arrived' = Append(arrived, b) /\ b \in T /\ arrived \in Seq(T)
    BY <1>2, <1>8 DEF Brief, Packet, Inv, TypeInv
  <2>2. b.n = p.n /\ b.f = p.f /\ b.way = p.way
    BY DEF Brief
  <2>3. \A y : (Peers(b, y) <=> Peers(p, y)) /\ (Peers(y, b) <=> Peers(y, p))
    BY <2>2, BriefOf
  <2> HIDE DEF b
  <2>4. \A x \in L : Peers(x, b) => x.dst \notin Gateway /\ x.dst # local[x.f.dst]
    <3> SUFFICES ASSUME NEW x \in L, Peers(x, b)
                 PROVE  x.dst \notin Gateway /\ x.dst # local[x.f.dst]
      OBVIOUS
    <3>1. PICK u \in net \ {p} : MovedUp(x, u, p)
      BY <1>5
    <3>2. Peers(u, p)
      BY <2>3, <3>1, MovedPeers
    <3>3. u.dst \notin Gateway /\ u.dst # local[u.f.dst]
      BY <1>1, <1>8, <3>2, PassedStray
    <3> QED BY <3>1, <3>3, MovedPeers
  <2>5. \A i \in DOMAIN gwPending : ~Peers(gwPending[i], b)
    BY <1>0, <1>2, <1>3, <2>3 DEF Ordered, QueueOrder
  <2>6. \A k \in DOMAIN arrived : ~Peers(b, arrived[k])
    BY <1>0, <1>2, <1>3, <1>8, <2>3 DEF Ordered, ArrivalOrder
  <2> HIDE DEF T
  <2>7. ArrivalOrder(L, gwPending, Append(arrived, b))
    BY <1>4, <2>1, <2>4, <2>5, <2>6, ArrivalsAppended DEF Ordered
  <2>8. Ordered(net', gwPending', arrived')
    BY <1>1, <1>4, <1>6, <2>1, <2>7 DEF Ordered, L
  <2>9. Placed'
    BY <1>0, <1>1, <1>4, <1>6, <1>8 DEF Placed, L
  <2>10. \A c \in Known' : c \in Known
    <3>1. ToSet(arrived') = ToSet(arrived) \cup {b}
      BY <2>1, AppendElements
    <3>2. b \in Briefs(net)
      BY <1>2, BriefsOf DEF b
    <3> QED BY <1>1, <1>4, <1>6, <1>8, <3>1, <3>2 DEF Known, L
  <2>11. WayInv'
    BY <1>0, <1>6, <1>7, <2>10, WaysSame, KnownFlows DEF Inv, Steady
  <2> QED BY <1>1, <1>4, <1>6, <1>7, <2>8, <2>9, <2>11, OrderStep DEF L
<1>9. CASE waiting' = waiting \cup {[p EXCEPT !.way = "stray"]} /\ arrived' = arrived
  <2> DEFINE q == [p EXCEPT !.way = "stray"]
  <2>1. q.way = "stray" /\ waiting' = waiting \cup {q}
    BY <1>2, <1>9 DEF Packet
  <2> HIDE DEF q
  <2>2. Ordered(net', gwPending', arrived')
    BY <1>1, <1>4, <1>6, <1>9 DEF L
  <2>3. Placed'
    BY <1>0, <1>1, <1>4, <1>6, <2>1 DEF Placed, L
  <2>4. \A c \in Known' : c.way = "stray" \/ c \in Known
    <3>1. Briefs(waiting') = Briefs(waiting) \cup {Brief(q)} /\ Brief(q).way = "stray"
      BY <2>1, BriefsOf DEF Brief
    <3> QED BY <1>1, <1>4, <1>6, <1>9, <3>1 DEF Known, L
  <2>5. WayInv'
    BY <1>0, <1>6, <1>7, <2>4, WaysSame, KnownFlows DEF Inv, Steady
  <2> QED BY <1>1, <1>4, <1>6, <1>7, <2>2, <2>3, <2>5, OrderStep DEF L
<1> QED BY <1>1, <1>8, <1>9

LEMMA SwitchOrder ==
  ASSUME Inv, OneCopy, AnswerInv, OrderInv, simMode # "Controller", SwitchReceive
  PROVE  OrderInv'
<1>0. HostType /\ WayInv /\ Placed /\ Ordered(net, gwPending, arrived)
  BY DEF OrderInv
<1>1. PICK p \in Heads :
        /\ p.to \in Switch /\ p.dst \in Gateway
        /\ net' = Entering(Leaving(net, p), p, p.to)
  <2>1. \E p \in Heads : \E q \in Packet :
          /\ p.to \in Switch /\ p.dst \in Gateway
          /\ net' = Entering(Leaving(net, p), q, p.to)
          /\ q = p \/ (simMode = "Controller" /\ Has(cache[p.to], p.f.dst))
    BY SwitchPasses
  <2> QED BY <2>1
<1>2. p \in net /\ p \in Packet /\ p.to \in Node
  BY <1>1 DEF Heads, Inv, TypeInv, Node
<1>3. ToGateway(p) /\ p.f \in Flow /\ Stage(p) = Idx(p.f, p.from) /\ Stage(p) \in 0 .. 5
  BY <1>1, <1>2, BoundForGateway
<1>4. OnRoute(p.f, p.to) /\ Idx(p.f, p.from) < Idx(p.f, p.to) /\ Idx(p.f, p.to) \in 0 .. 5
  <2>1. p.to # GatewayOf[p.f]
    BY <1>1, <1>3, FlowProps, GatewayHosts
  <2>2. OnRoute(p.f, p.to) /\ Idx(p.f, p.from) < Idx(p.f, p.to)
    BY <1>3, <2>1, RouteStep DEF ToGateway
  <2> QED BY <1>3, <2>2, RouteStep
<1> DEFINE L == Leaving(net, p)
<1>5. /\ L \subseteq Packet /\ IsFiniteSet(L) /\ LaneOK(L)
      /\ Ordered(L, gwPending, arrived)
      /\ \A x \in L : LinkPlaced(x)
      /\ Briefs(L) \subseteq Briefs(net)
  BY <1>2, LeavingKeeps
<1>6. \A x \in L : \E q \in net \ {p} : MovedUp(x, q, p)
  BY <1>2, LeavingIs DEF Inv, TypeInv
<1> HIDE DEF L
<1>7. PICK e \in Packet :
        /\ Entering(L, p, p.to) = L \cup {e}
        /\ Same(e, p) /\ e.from = p.to /\ e.to = NextOf(p, p.to)
        /\ LaneOK(L \cup {e})
        /\ \A r \in L : Lane(r) = Lane(e) => r.pos < e.pos
  BY <1>2, <1>5, EntersLast
<1>8. net' = L \cup {e}
  BY <1>1, <1>7 DEF L
<1>9. e.n = p.n /\ e.f = p.f /\ e.way = p.way /\ e.dst = p.dst /\ e.src = p.src
  BY <1>7 DEF Same
<1>10. \A y : (Peers(e, y) <=> Peers(p, y)) /\ (Peers(y, e) <=> Peers(y, p))
  BY <1>9, BriefOf
<1>11. Stage(e) = Idx(p.f, p.to)
  BY <1>1, <1>7, <1>9 DEF Stage
<1>12. \A x \in L : Peers(x, e) => Stage(e) <= Stage(x)
  <2> SUFFICES ASSUME NEW x \in L, Peers(x, e) PROVE Stage(e) <= Stage(x)
    OBVIOUS
  <2>1. PICK u \in net \ {p} : MovedUp(x, u, p)
    BY <1>6
  <2>2. Peers(u, p) /\ Stage(x) = Stage(u)
    BY <1>10, <2>1, MovedPeers
  <2>3. CASE u.dst \in Gateway
    BY <1>1, <1>11, <2>2, <2>3, HeadLeadsTo
  <2>4. CASE u.dst \notin Gateway
    BY <1>4, <1>11, <2>2, <2>4, StageType
  <2> QED BY <2>3, <2>4
<1>13. \A y \in L : Peers(e, y) => Stage(y) <= Stage(e) /\ Lane(e) # Lane(y)
  <2> SUFFICES ASSUME NEW y \in L, Peers(e, y)
               PROVE  Stage(y) <= Stage(e) /\ Lane(e) # Lane(y)
    OBVIOUS
  <2>1. PICK v \in net \ {p} : MovedUp(y, v, p)
    BY <1>6
  <2>2. Peers(p, v) /\ Stage(y) = Stage(v) /\ Lane(y) = Lane(v) /\ v.f = p.f
    <3>1. Peers(p, v)
      BY <1>10, <2>1, MovedPeers
    <3> QED BY <2>1, <3>1, MovedPeers DEF Peers
  <2>3. Stage(v) <= Stage(p) /\ Stage(v) \in 0 .. 7
    BY <1>0, <1>2, <2>2, StageType DEF Ordered, LinkOrder
  <2>4. Stage(v) < Stage(e)
    BY <1>3, <1>4, <1>11, <2>3
  <2>5. v.dst \in Gateway
    BY <1>3, <2>3, StageType
  <2>6. Stage(v) = Idx(p.f, v.from)
    BY <2>2, <2>5, BoundForGateway
  <2>7. v.from # e.from
    BY <1>3, <1>4, <1>7, <1>11, <2>3, <2>4, <2>6
  <2>8. Lane(e) # Lane(v)
    BY <2>7 DEF Lane
  <2> QED BY <1>4, <1>11, <2>2, <2>3, <2>4, <2>8
<1>14. \A i \in DOMAIN gwPending : /\ Peers(e, gwPending[i]) => e.dst \notin Gateway
                                   /\ Peers(gwPending[i], e) => e.dst \in Gateway
  BY <1>0, <1>1, <1>2, <1>9, <1>10 DEF Ordered, QueueOrder
<1>15. \A k \in DOMAIN arrived : ~Peers(e, arrived[k])
  BY <1>0, <1>1, <1>2, <1>10 DEF Ordered, ArrivalOrder
<1>16. Ordered(L \cup {e}, gwPending, arrived)
  BY <1>5, <1>7, <1>12, <1>13, <1>14, <1>15, OrderedEntering
<1>17. Steady /\ UNCHANGED <<waiting, gwPending, arrived, onDemandCache, firstPacket>>
  BY DEF SwitchReceive, Steady, hosts
<1>18. Placed'
  <2>1. LinkPlaced(e)
    BY <1>1, <1>3, <1>9 DEF LinkPlaced, ToGateway
  <2> QED BY <1>0, <1>5, <1>8, <1>17, <2>1 DEF Placed
<1>19. \A b \in Known' : b \in Known
  <2>1. Briefs(net') = Briefs(L) \cup {Brief(e)}
    BY <1>8, BriefsOf
  <2>2. Brief(e) \in Briefs(net)
    BY <1>2, <1>9, BriefOf, BriefsOf
  <2> QED BY <1>5, <1>17, <2>1, <2>2 DEF Known
<1>20. HostType' /\ WayInv'
  <2>1. HostType'
    BY <1>0, <1>17 DEF HostType
  <2>2. WayInv'
    BY <1>0, <1>17, <1>19, WaysSame, KnownFlows DEF Steady, Inv
  <2> QED BY <2>1, <2>2
<1> QED BY <1>7, <1>8, <1>16, <1>17, <1>18, <1>20, OrderStep

LEMMA GatewayReceiveOrder ==
  ASSUME Inv, OneCopy, AnswerInv, OrderInv, simMode # "Controller", GatewayReceive
  PROVE  OrderInv'
<1>0. HostType /\ WayInv /\ Placed /\ Ordered(net, gwPending, arrived)
  BY DEF OrderInv
<1>1. PICK p \in Heads :
        /\ p.to \in Gateway
        /\ net' = Leaving(net, p)
        /\ gwPending' = Append(gwPending, [p EXCEPT !.dst = directory[p.f.dst]])
  BY DEF GatewayReceive
<1> DEFINE q == [p EXCEPT !.dst = directory[p.f.dst]]
           L == Leaving(net, p)
<1>2. p \in net /\ p \in Packet /\ OnLink(p) /\ p.f.dst \in VIP
  BY FlowProps DEF Heads, Inv, TypeInv, PacketInv, Packet
<1>3. p.dst \in Gateway
  BY <1>1, <1>2 DEF OnLink
<1>4. ToGateway(p) /\ p.f \in Flow /\ Stage(p) \in 0 .. 5
  BY <1>2, <1>3, BoundForGateway
<1>5. p.to = GatewayOf[p.f] /\ Idx(p.f, p.to) = 6
  <2>1. p.to = GatewayOf[p.f]
    BY <1>1, <1>4, RouteStep, GatewayHosts DEF ToGateway
  <2> QED BY <1>4, <2>1, GatewayIdx
<1>6. directory[p.f.dst] \in Host
  BY <1>2 DEF Inv, TypeInv
<1>7. /\ q \in Packet /\ q.n = p.n /\ q.f = p.f /\ q.way = p.way /\ q.src = p.src /\ q.to = p.to
      /\ q.n \in Nat
  BY <1>2, <1>6 DEF Packet
<1>8. /\ LaneOK(L) /\ Ordered(L, gwPending, arrived)
      /\ \A x \in L : LinkPlaced(x)
      /\ Briefs(L) \subseteq Briefs(net)
  BY <1>2, LeavingKeeps
<1>9. \A x \in L : \E r \in net \ {p} : MovedUp(x, r, p)
  BY <1>2, LeavingIs DEF Inv, TypeInv
<1>10. net' = L /\ gwPending' = Append(gwPending, q) /\ gwPending \in Seq(Packet)
  BY <1>1 DEF Inv, TypeInv
<1> HIDE DEF q, L
<1>11. \A y : (Peers(q, y) <=> Peers(p, y)) /\ (Peers(y, q) <=> Peers(y, p))
  BY <1>7, BriefOf
<1>12. \A x \in L : /\ Peers(x, q) => x.dst \notin Gateway
                    /\ Peers(q, x) => x.dst \in Gateway
  <2> SUFFICES ASSUME NEW x \in L
               PROVE  /\ Peers(x, q) => x.dst \notin Gateway
                      /\ Peers(q, x) => x.dst \in Gateway
    OBVIOUS
  <2>1. PICK u \in net \ {p} : MovedUp(x, u, p)
    BY <1>9
  <2>2. (Peers(x, q) <=> Peers(u, p)) /\ (Peers(q, x) <=> Peers(p, u)) /\ x.dst = u.dst
    BY <1>11, <2>1, MovedPeers
  <2>3. ~(Peers(u, p) /\ u.dst \in Gateway)
    <3> SUFFICES ASSUME Peers(u, p), u.dst \in Gateway PROVE FALSE
      OBVIOUS
    <3>1. Idx(p.f, p.to) <= Stage(u)
      BY <1>3, HeadLeadsTo
    <3>2. Stage(u) \in 0 .. 5
      BY BoundForGateway
    <3> QED BY <1>5, <3>1, <3>2
  <2>4. Peers(p, u) => u.dst \in Gateway
    <3> SUFFICES ASSUME Peers(p, u) PROVE u.dst \in Gateway
      OBVIOUS
    <3>1. Stage(u) <= Stage(p)
      BY <1>0, <1>2 DEF Ordered, LinkOrder
    <3> QED BY <1>4, <3>1, StageType
  <2> QED BY <2>2, <2>3, <2>4
<1>13. /\ \A i \in DOMAIN gwPending : ~Peers(q, gwPending[i])
       /\ \A k \in DOMAIN arrived : ~Peers(q, arrived[k])
  BY <1>0, <1>2, <1>3, <1>11 DEF Ordered, QueueOrder, ArrivalOrder
<1>14. QueueOrder(L, Append(gwPending, q)) /\ ArrivalOrder(L, Append(gwPending, q), arrived)
  BY <1>7, <1>8, <1>10, <1>12, <1>13, QueueAppended DEF Ordered
<1>15. Steady /\ UNCHANGED <<waiting, arrived, onDemandCache, firstPacket>>
  BY DEF GatewayReceive, Steady, hosts
<1>16. Ordered(net', gwPending', arrived')
  BY <1>8, <1>10, <1>14, <1>15 DEF Ordered
<1>17. ToSet(gwPending') = ToSet(gwPending) \cup {q}
  BY <1>7, <1>10, AppendElements
<1>18. Placed'
  <2>1. QueuePlaced(q)
    BY <1>4, <1>5, <1>7 DEF QueuePlaced, ToGateway
  <2> QED BY <1>0, <1>8, <1>10, <1>15, <1>17, <2>1 DEF Placed
<1>19. \A b \in Known' : b \in Known
  <2>1. Briefs(ToSet(gwPending')) = Briefs(ToSet(gwPending)) \cup {Brief(q)}
    BY <1>17, BriefsOf
  <2>2. Brief(q) \in Briefs(net)
    BY <1>2, <1>7, BriefOf, BriefsOf
  <2> QED BY <1>8, <1>10, <1>15, <2>1, <2>2 DEF Known
<1>20. HostType' /\ WayInv'
  <2>1. HostType'
    BY <1>0, <1>15 DEF HostType
  <2>2. WayInv'
    BY <1>0, <1>15, <1>19, WaysSame, KnownFlows DEF Steady, Inv
  <2> QED BY <2>1, <2>2
<1> QED BY <1>8, <1>10, <1>15, <1>16, <1>18, <1>20, OrderStep

LEMMA TailOrdered ==
  ASSUME NEW S, NEW T, NEW g \in Seq(T), g # <<>>, NEW a, Ordered(S, g, a)
  PROVE  /\ Ordered(S, Tail(g), a)
         /\ Head(g) = g[1] /\ 1 \in DOMAIN g
         /\ \A i \in DOMAIN Tail(g) : ~Peers(Tail(g)[i], Head(g))
<1> DEFINE t == Tail(g)
<1>1. /\ Len(g) \in Nat \ {0} /\ DOMAIN g = 1 .. Len(g) /\ Head(g) = g[1]
      /\ DOMAIN t = 1 .. Len(g) - 1
      /\ \A i \in 1 .. Len(g) - 1 : t[i] = g[i + 1]
  BY LenProperties, HeadTailProperties
<1>2. \A i \in DOMAIN t : i \in Nat /\ i + 1 \in DOMAIN g /\ t[i] = g[i + 1]
  BY <1>1
<1>3. 1 \in DOMAIN g
  BY <1>1
<1> HIDE DEF t
<1>4. \A i, j \in DOMAIN t : Peers(t[i], t[j]) => i < j
  <2> SUFFICES ASSUME NEW i \in DOMAIN t, NEW j \in DOMAIN t, Peers(t[i], t[j]) PROVE i < j
    OBVIOUS
  <2>1. i + 1 < j + 1
    BY <1>2 DEF Ordered, QueueOrder
  <2> QED BY <1>2, <2>1
<1>5. QueueOrder(S, t)
  BY <1>2, <1>4 DEF Ordered, QueueOrder
<1>6. ArrivalOrder(S, t, a)
  BY <1>2 DEF Ordered, ArrivalOrder
<1>7. \A i \in DOMAIN t : ~Peers(t[i], g[1])
  <2> SUFFICES ASSUME NEW i \in DOMAIN t, Peers(t[i], g[1]) PROVE FALSE
    OBVIOUS
  <2>1. i + 1 < 1
    BY <1>2, <1>3 DEF Ordered, QueueOrder
  <2> QED BY <1>2, <2>1
<1> QED BY <1>1, <1>3, <1>5, <1>6, <1>7 DEF Ordered, t

LEMMA GatewaySendOrder ==
  ASSUME Inv, OneCopy, AnswerInv, OrderInv, simMode # "Controller", GatewaySend
  PROVE  OrderInv'
<1> DEFINE p == Head(gwPending)
<1>0. HostType /\ WayInv /\ Placed /\ LaneOK(net) /\ Ordered(net, gwPending, arrived)
  BY DEF OrderInv
<1>1. gwPending # <<>> /\ net' = Entering(net, p, p.to) /\ gwPending' = Tail(gwPending)
  BY DEF GatewaySend
<1>2. p \in Packet /\ ToSet(gwPending) = ToSet(gwPending') \cup {p} /\ gwPending \in Seq(Packet)
  BY <1>1, TailElements DEF Inv, TypeInv
<1>3. /\ Ordered(net, gwPending', arrived) /\ p = gwPending[1] /\ 1 \in DOMAIN gwPending
      /\ \A i \in DOMAIN gwPending' : ~Peers(gwPending'[i], p)
  BY <1>0, <1>1, <1>2, TailOrdered
<1> HIDE DEF p
<1>4. QueuePlaced(p) /\ AtGateway(p) /\ p.f \in Flow /\ p.f.dst \in VIP
  BY <1>0, <1>2, FlowProps DEF Placed, Inv, PacketInv, Packet
<1>5. p.to \in Node /\ p.dst \notin Gateway
  <2>1. p.dst \notin Gateway
    BY <1>4, MapProps, BaselinesAssumption DEF AtGateway, Course, Inv
  <2> QED BY <1>4, <2>1, GatewayHosts DEF AtGateway
<1>6. net \subseteq Packet /\ IsFiniteSet(net)
  BY DEF Inv, TypeInv
<1>7. PICK e \in Packet :
        /\ Entering(net, p, p.to) = net \cup {e}
        /\ Same(e, p) /\ e.from = p.to /\ e.to = NextOf(p, p.to)
        /\ LaneOK(net \cup {e})
        /\ \A r \in net : Lane(r) = Lane(e) => r.pos < e.pos
  <2>1. LaneOK(net)
    BY <1>0
  <2> QED BY <1>2, <1>5, <1>6, <2>1, EntersLast
<1>8. e.n = p.n /\ e.f = p.f /\ e.way = p.way /\ e.dst = p.dst /\ e.src = p.src
  BY <1>7 DEF Same
<1>9. \A y : (Peers(e, y) <=> Peers(p, y)) /\ (Peers(y, e) <=> Peers(y, p))
  BY <1>8, BriefOf
<1>10. Stage(e) = 7
  BY <1>5, <1>8, StageType
<1>11. \A x \in net : Peers(x, e) => Stage(e) <= Stage(x)
  <2> SUFFICES ASSUME NEW x \in net, Peers(x, e) PROVE Stage(e) <= Stage(x)
    OBVIOUS
  <2>1. x.dst \notin Gateway
    BY <1>0, <1>3, <1>9 DEF Ordered, QueueOrder
  <2> QED BY <1>10, <2>1, StageType
<1>12. \A y \in net : Peers(e, y) => Stage(y) <= Stage(e) /\ Lane(e) # Lane(y)
  <2> SUFFICES ASSUME NEW y \in net, Peers(e, y)
               PROVE  Stage(y) <= Stage(e) /\ Lane(e) # Lane(y)
    OBVIOUS
  <2>1. y.dst \in Gateway /\ y.f = p.f
    BY <1>0, <1>3, <1>8, <1>9 DEF Ordered, QueueOrder, Peers
  <2>2. Stage(y) = Idx(p.f, y.from) /\ Stage(y) \in 0 .. 5
    BY <2>1, BoundForGateway
  <2>3. Idx(p.f, p.to) = 6
    BY <1>4, GatewayIdx DEF QueuePlaced
  <2>4. y.from # e.from
    BY <1>7, <2>2, <2>3
  <2> QED BY <1>10, <2>2, <2>4 DEF Lane
<1>13. \A i \in DOMAIN gwPending' : /\ Peers(e, gwPending'[i]) => e.dst \notin Gateway
                                    /\ Peers(gwPending'[i], e) => e.dst \in Gateway
  BY <1>3, <1>5, <1>8, <1>9
<1>14. \A k \in DOMAIN arrived : ~Peers(e, arrived[k])
  BY <1>0, <1>3, <1>9 DEF Ordered, ArrivalOrder
<1>15. Ordered(net \cup {e}, gwPending', arrived)
  BY <1>3, <1>6, <1>7, <1>11, <1>12, <1>13, <1>14, OrderedEntering
<1>16. Steady /\ UNCHANGED <<waiting, arrived, onDemandCache, firstPacket>>
  BY DEF GatewaySend, Steady, hosts
<1>17. Placed'
  <2>1. LinkPlaced(e)
    BY <1>4, <1>7, <1>8 DEF LinkPlaced, QueuePlaced, Origin
  <2> QED BY <1>0, <1>1, <1>2, <1>7, <1>16, <2>1 DEF Placed
<1>18. \A b \in Known' : b \in Known
  <2>1. Briefs(net') = Briefs(net) \cup {Brief(e)}
    BY <1>1, <1>7, BriefsOf
  <2>2. Briefs(ToSet(gwPending)) = Briefs(ToSet(gwPending')) \cup {Brief(e)}
    BY <1>2, <1>8, BriefOf, BriefsOf
  <2> QED BY <1>16, <2>1, <2>2 DEF Known
<1>19. HostType' /\ WayInv'
  <2>1. HostType'
    BY <1>0, <1>16 DEF HostType
  <2>2. WayInv'
    BY <1>0, <1>16, <1>18, WaysSame, KnownFlows DEF Steady, Inv
  <2> QED BY <2>1, <2>2
<1> QED BY <1>1, <1>7, <1>15, <1>16, <1>17, <1>19, OrderStep

\* Before the migration nothing is overtaken.
LEMMA MigrationOrder ==
  ASSUME Inv, OrderInv, simMode # "Controller", Migration
  PROVE  OrderInv'
<1>0. HostType /\ WayInv /\ Placed /\ LaneOK(net) /\ Ordered(net, gwPending, arrived)
  BY DEF OrderInv
<1>1. UNCHANGED <<simMode, net, waiting, gwPending, arrived, onDemandCache, firstPacket>>
  BY DEF Migration, hosts
<1>2. ~HasMoved
  BY DEF Migration, HasMoved
<1>3. \A x \in net : \A k \in DOMAIN arrived : ~Peers(x, arrived[k])
  <2> SUFFICES ASSUME NEW x \in net, NEW k \in DOMAIN arrived, Peers(x, arrived[k]) PROVE FALSE
    OBVIOUS
  <2>1. x.dst \notin Gateway /\ x.dst # local[x.f.dst]
    BY <1>0 DEF Ordered, ArrivalOrder
  <2>2. x.f.dst \in VIP /\ OnLink(x)
    BY FlowProps DEF Inv, TypeInv, PacketInv, Packet
  <2>3. local[x.f.dst] = Placement[x.f.dst]
    BY <1>2, <2>2 DEF Inv, MapInv
  <2> QED BY <2>1, <2>2, <2>3 DEF OnLink, Course
<1>4. ArrivalOrder(net, gwPending, arrived)'
  BY <1>0, <1>1, <1>3 DEF Ordered, ArrivalOrder
<1>5. LinkOrder(net)' /\ QueueOrder(net, gwPending)' /\ LaneOK(net)'
  BY <1>0, <1>1 DEF Ordered, LinkOrder, QueueOrder, LaneOK
<1>6. HostType' /\ Placed'
  BY <1>0, <1>1 DEF HostType, Placed
<1>7. WayInv'
  BY <1>0, <1>1 DEF WayInv, Known, Settled, Knows
<1> QED BY <1>4, <1>5, <1>6, <1>7 DEF OrderInv, Ordered

LEMMA NextOrder ==
  ASSUME Inv, OneCopy, AnswerInv, OrderInv, [Next]_vars
  PROVE  OrderInv'
<1>1. simMode' = simMode
  BY NextInv
<1>2. CASE simMode = "Controller"
  BY <1>1, <1>2 DEF OrderInv
<1>3. CASE simMode # "Controller"
  <2>1. CASE Leave \/ HostReceive \/ SwitchReceive \/ GatewayReceive \/ GatewaySend
    BY <1>3, <2>1, LeaveOrder, HostReceiveOrder, SwitchOrder, GatewayReceiveOrder,
       GatewaySendOrder
  <2>2. CASE \E f \in Flow : SendDirect(f) \/ SendFirst(f) \/ SendToGateway(f)
    BY <1>3, <2>2, SendOrder, SendFirstOrder
  <2>3. CASE Migration
    BY <1>3, <2>3, MigrationOrder
  <2>4. CASE UpdateMappings \/ UNCHANGED vars
    <3>1. UNCHANGED <<simMode, net, waiting, gwPending, local, arrived, onDemandCache, firstPacket>>
      BY <2>4 DEF UpdateMappings, vars, hosts
    <3>2. HostType /\ WayInv /\ Placed /\ LaneOK(net) /\ Ordered(net, gwPending, arrived)
      BY <1>3 DEF OrderInv
    <3>3. HostType' /\ Placed'
      BY <3>1, <3>2 DEF HostType, Placed
    <3>4. WayInv'
      BY <3>1, <3>2 DEF WayInv, Known, Settled, Knows
    <3>5. LaneOK(net)' /\ Ordered(net, gwPending, arrived)'
      BY <3>1, <3>2 DEF LaneOK, Ordered, LinkOrder, QueueOrder, ArrivalOrder
    <3> QED BY <3>3, <3>4, <3>5 DEF OrderInv
  <2>5. CASE QuerySwitches
    BY <1>3, <2>5 DEF QuerySwitches
  <2> QED BY <2>1, <2>2, <2>3, <2>4, <2>5 DEF Next, System, Done
<1> QED BY <1>2, <1>3

LEMMA InitOrder ==
  ASSUME Init PROVE Inv /\ OneCopy /\ AnswerInv /\ OrderInv
<1>1. /\ net = {} /\ waiting = {} /\ ToSet(gwPending) = {} /\ ToSet(arrived) = {}
      /\ expected = {} /\ DOMAIN gwPending = {} /\ DOMAIN arrived = {}
  BY DEF Init, ToSet
<1>2. AnswerInv
  BY <1>1 DEF AnswerInv
<1>3. Known = {}
  BY <1>1 DEF Known, Briefs
<1>4. HostType /\ WayInv /\ Placed
  BY <1>1, <1>3 DEF Init, HostType, WayInv, Placed
<1>5. LaneOK(net) /\ Ordered(net, gwPending, arrived)
  BY <1>1 DEF LaneOK, Ordered, LinkOrder, QueueOrder, ArrivalOrder
<1> QED BY <1>2, <1>4, <1>5, InitInv, InitCopies DEF OrderInv

LEMMA OrderedArrivals ==
  ASSUME Inv, OrderInv PROVE SameWayInOrder
<1> SUFFICES ASSUME simMode # "Controller", NEW i \in DOMAIN arrived, NEW j \in DOMAIN arrived,
                    i < j, arrived[i].f = arrived[j].f, arrived[j].n < arrived[i].n,
                    arrived[i].way # "stray", arrived[j].way # "stray"
             PROVE  arrived[j].way # arrived[i].way /\ arrived[j].way # "direct"
  BY DEF SameWayInOrder
<1> DEFINE b == arrived[i]
           c == arrived[j]
           T == [n : Nat, f : Flow, way : Way]
<1>1. b \in Known /\ c \in Known
  BY DEF Known, ToSet
<1>2. b \in T /\ c \in T
  <2>1. arrived \in Seq(T)
    BY DEF Inv, TypeInv
  <2> HIDE DEF T
  <2> QED BY <2>1
<1>3. WayInv /\ ~Peers(c, b)
  BY DEF OrderInv, Ordered, ArrivalOrder
<1> HIDE DEF b, c
<1>4. b.n \in Nat /\ c.n \in Nat /\ b.way \in Way /\ c.way \in Way
  BY <1>2
<1>5. /\ b.f = c.f /\ c.n < b.n /\ b.way # "stray" /\ c.way # "stray"
  BY DEF b, c
<1>6. c.way # b.way
  <2>1. b.way = c.way => b.way = "first"
    BY <1>3, <1>4, <1>5 DEF Peers, Way
  <2>2. b.way = "first" /\ c.way = "first" => b.n = c.n
    BY <1>1, <1>3, <1>5 DEF WayInv
  <2> QED BY <1>4, <1>5, <2>1, <2>2
<1>7. c.way # "direct"
  <2> SUFFICES ASSUME c.way = "direct" PROVE FALSE
    OBVIOUS
  <2>1. b.way \in {"first", "gateway"}
    BY <1>4, <1>5, <1>6 DEF Way
  <2>2. b.n < c.n
    BY <1>1, <1>3, <1>5, <2>1 DEF WayInv
  <2> QED BY <1>4, <1>5, <2>2
<1> QED BY <1>6, <1>7 DEF b, c

\* Where no controller fills caches, packets of a flow that take the same way arrive as
\* they were sent, and none overtakes one that left directly, in every network and with
\* any number of packets and flows: links, the routes the hash picks and the gateways'
\* queues keep the order, a host that has begun to send directly does not go back to the
\* gateway, and what the migration lets pass is a packet that will stray
\* (socket-helper.cc:77-144, gateway-app.cc:58-95, switch-app.cc:91-130,
\* trace-sim.cc:359-383).
THEOREM SameWayOrder == Spec => []SameWayInOrder
<1>1. Init => Inv /\ OneCopy /\ AnswerInv /\ OrderInv
  BY InitOrder
<1>2. Inv /\ OneCopy /\ AnswerInv /\ OrderInv /\ [Next]_vars =>
        (Inv /\ OneCopy /\ AnswerInv /\ OrderInv)'
  BY NextInv, NextDelivers, NextAnswers, NextOrder
<1>3. Inv /\ OrderInv => SameWayInOrder
  BY OrderedArrivals
<1> QED BY <1>1, <1>2, <1>3, PTL DEF Spec
=============================================================================
