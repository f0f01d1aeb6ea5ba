--------------------------- MODULE RoutingProofs ---------------------------
(***************************************************************************)
(* The static routes lead every packet to its destination without loops,   *)
(* in every fat tree the simulator accepts.                                *)
(***************************************************************************)
EXTENDS Routing, TLAPS

\* A packet for a core is only ever at a spine of that core's group, and no packet
\* for a core reaches another one.
OnItsWay ==
  /\ at.kind = "spine" /\ dst.kind = "core" => dst.off = at.off
  /\ at.kind = "core" /\ dst.kind = "core" => at = dst
  /\ at.kind = "host" /\ at # dst => dst.kind = "host"

RouteIInv == at \in Node /\ dst \in Node /\ hops \in Nat /\ OnItsWay /\ AtMostSixLinks

USE TopologyAssumption

LEMMA NodeKinds ==
  /\ \A n \in Host : n.kind = "host" /\ n.pod \in Pod /\ n.off \in Offset
  /\ \A n \in Leaf : n.kind = "leaf" /\ n.pod \in Pod /\ n.off \in Offset
                     /\ n = MkLeaf(n.pod, n.off)
  /\ \A n \in Spine : n.kind = "spine" /\ n.pod \in Pod /\ n.off \in Offset
                      /\ n = MkSpine(n.pod, n.off)
  /\ \A n \in Core : n.kind = "core" /\ n.off \in Offset
  BY DEF Host, Leaf, Spine, Core, MkLeaf, MkSpine

LEMMA Made ==
  ASSUME NEW p \in Pod, NEW o \in Offset
  PROVE  /\ MkLeaf(p, o) \in Leaf /\ MkLeaf(p, o).pod = p /\ MkLeaf(p, o).off = o
         /\ MkSpine(p, o) \in Spine /\ MkSpine(p, o).pod = p /\ MkSpine(p, o).off = o
  BY DEF Leaf, Spine, MkLeaf, MkSpine

LEMMA Kinds == Node = Host \cup Leaf \cup Spine \cup Core
  BY DEF Node, Switch

\* The measure by the kind of the node
LEMMA Measure ==
  ASSUME NEW d \in Node
  PROVE  /\ \A n \in Leaf : Distance(n, d) = LeafDistance(n, d)
         /\ \A n \in Spine : Distance(n, d) = SpineDistance(n, d)
         /\ \A n \in Core : Distance(n, d) = CoreDistance(n, d)
         /\ \A n \in Host : n # d => Distance(n, d) = 1 + LeafDistance(LeafOf(n), d)
         /\ d \in Host => Distance(d, d) = 0
  BY NodeKinds DEF Distance

LEMMA LeafMeasure ==
  ASSUME NEW n \in Leaf
  PROVE  /\ \A d \in Host : LeafDistance(n, d) = IF LeafOf(d) = n THEN 1
                                                 ELSE IF d.pod = n.pod THEN 3 ELSE 5
         /\ \A d \in Leaf : LeafDistance(n, d) = IF d = n THEN 0
                                                 ELSE IF d.pod = n.pod THEN 2 ELSE 4
         /\ \A d \in Spine : LeafDistance(n, d) = IF d.pod = n.pod THEN 1 ELSE 5
         /\ \A d \in Core : LeafDistance(n, d) = 2
  BY NodeKinds DEF LeafDistance

LEMMA SpineMeasure ==
  ASSUME NEW n \in Spine
  PROVE  /\ \A d \in Host : SpineDistance(n, d) = IF d.pod = n.pod THEN 2 ELSE 4
         /\ \A d \in Leaf : SpineDistance(n, d) = IF d.pod = n.pod THEN 1 ELSE 3
         /\ \A d \in Spine : SpineDistance(n, d) = IF d = n THEN 0
                               ELSE IF d.pod = n.pod \/ d.off = n.off THEN 2 ELSE 4
         /\ \A d \in Core : SpineDistance(n, d) = 1
  BY NodeKinds DEF SpineDistance

LEMMA CoreMeasure ==
  ASSUME NEW n \in Core
  PROVE  /\ \A d \in Host : CoreDistance(n, d) = 3
         /\ \A d \in Leaf : CoreDistance(n, d) = 2
         /\ \A d \in Spine : CoreDistance(n, d) = IF d.off = n.off THEN 1 ELSE 3
         /\ \A d \in Core : CoreDistance(n, d) = 0
  BY NodeKinds DEF CoreDistance

\* A next hop is in order if it is a closer node from which the way goes on.
Onward(m, n, d) ==
  /\ m \in Node
  /\ Distance(m, d) \in Nat /\ Distance(m, d) < Distance(n, d)
  /\ m.kind = "spine" /\ d.kind = "core" => d.off = m.off
  /\ m.kind = "core" /\ d.kind = "core" => m = d
  /\ m.kind = "host" => m = d

\* There is a next hop, and all next hops are in order.
LEMMA LeafStep ==
  ASSUME NEW n \in Leaf, NEW d \in Node, n # d
  PROVE  LeafNextHops(n, d) # {} /\ \A m \in LeafNextHops(n, d) : Onward(m, n, d)
<1> DEFINE up == {MkSpine(n.pod, o) : o \in Offset}
<1>0. up # {} /\ n.pod \in Pod
  BY NodeKinds DEF Offset
<1>1. CASE d \in Host /\ LeafOf(d) = n
  <2>1. LeafNextHops(n, d) = {d}
    BY <1>1, NodeKinds DEF LeafNextHops
  <2>2. QED
    BY <1>1, <2>1, Measure, LeafMeasure, NodeKinds DEF Onward
<1>2. CASE (d \in Host /\ LeafOf(d) # n) \/ d \in Leaf \/ (d \in Spine /\ d.pod # n.pod)
  <2>1. LeafNextHops(n, d) = up
    BY <1>2, NodeKinds DEF LeafNextHops
  <2>2. ASSUME NEW o \in Offset PROVE Onward(MkSpine(n.pod, o), n, d)
    <3>1. MkSpine(n.pod, o) \in Spine /\ MkSpine(n.pod, o).pod = n.pod
      BY <1>0, Made
    <3>2. Distance(n, d) = LeafDistance(n, d)
          /\ Distance(MkSpine(n.pod, o), d) = SpineDistance(MkSpine(n.pod, o), d)
      BY <3>1, Measure
    <3>3. SpineDistance(MkSpine(n.pod, o), d) \in Nat
          /\ SpineDistance(MkSpine(n.pod, o), d) < LeafDistance(n, d)
      BY <1>2, <3>1, LeafMeasure, SpineMeasure
    <3>4. QED
      BY <1>2, <3>1, <3>2, <3>3, NodeKinds, Kinds DEF Onward
  <2>3. QED
    BY <1>0, <2>1, <2>2
<1>3. CASE d \in Spine /\ d.pod = n.pod
  <2>1. LeafNextHops(n, d) = {d}
    BY <1>3, NodeKinds DEF LeafNextHops
  <2>2. QED
    BY <1>3, <2>1, Measure, LeafMeasure, SpineMeasure, NodeKinds DEF Onward
<1>4. CASE d \in Core
  <2>1. LeafNextHops(n, d) = {MkSpine(n.pod, d.off)} /\ d.off \in Offset
    BY <1>4, NodeKinds DEF LeafNextHops
  <2>2. MkSpine(n.pod, d.off) \in Spine /\ MkSpine(n.pod, d.off).off = d.off
    BY <1>0, <2>1, Made
  <2>3. QED
    BY <1>4, <2>1, <2>2, Measure, LeafMeasure, SpineMeasure, NodeKinds, Kinds DEF Onward
<1>5. QED
  BY <1>1, <1>2, <1>3, <1>4, Kinds

LEMMA SpineStep ==
  ASSUME NEW n \in Spine, NEW d \in Node, n # d,
         d.kind = "core" => d.off = n.off
  PROVE  SpineNextHops(n, d) # {} /\ \A m \in SpineNextHops(n, d) : Onward(m, n, d)
<1>0. n.pod \in Pod /\ n.off \in Offset
  BY NodeKinds
<1>1. CASE d \in Host \cup Leaf /\ d.pod = n.pod
  <2>1. SpineNextHops(n, d) = {MkLeaf(n.pod, d.off)} /\ d.off \in Offset
    BY <1>1, NodeKinds DEF SpineNextHops
  <2>2. MkLeaf(n.pod, d.off) \in Leaf /\ MkLeaf(n.pod, d.off).pod = n.pod
    BY <1>0, <2>1, Made
  <2>3. /\ d \in Host => LeafOf(d) = MkLeaf(n.pod, d.off)
        /\ d \in Leaf => d = MkLeaf(n.pod, d.off)
    BY <1>1, NodeKinds DEF LeafOf
  <2>4. QED
    BY <1>1, <2>1, <2>2, <2>3, Measure, LeafMeasure, SpineMeasure, NodeKinds, Kinds DEF Onward
<1>2. CASE d \in Spine /\ d.pod = n.pod
  <2>1. SpineNextHops(n, d) = {MkLeaf(n.pod, o) : o \in Offset}
    BY <1>2, NodeKinds DEF SpineNextHops
  <2>2. ASSUME NEW o \in Offset PROVE Onward(MkLeaf(n.pod, o), n, d)
    <3>1. MkLeaf(n.pod, o) \in Leaf /\ MkLeaf(n.pod, o).pod = n.pod
      BY <1>0, Made
    <3>2. QED
      BY <1>2, <3>1, Measure, LeafMeasure, SpineMeasure, NodeKinds, Kinds DEF Onward
  <2>3. QED
    BY <1>0, <2>1, <2>2
<1>3. CASE d \in Core
  <2>1. SpineNextHops(n, d) = {d}
    BY <1>3, NodeKinds DEF SpineNextHops, CoreGroup
  <2>2. QED
    BY <1>3, <2>1, Measure, CoreMeasure, SpineMeasure, NodeKinds DEF Onward
<1>4. CASE d \in Host \cup Leaf \cup Spine /\ d.pod # n.pod
  <2>1. SpineNextHops(n, d) = CoreGroup(n.off)
    BY <1>4, NodeKinds DEF SpineNextHops
  <2>2. CoreGroup(n.off) # {}
    <3>1. d.pod \in Pod
      BY <1>4, NodeKinds
    <3>2. CoresPerSpine # 0
      BY <1>0, <1>4, <3>1 DEF Pod
    <3>3. 0 \in 0 .. CoresPerSpine - 1
      BY <3>2
    <3>4. [kind |-> "core", pod |-> 0, off |-> n.off, id |-> 0] \in CoreGroup(n.off)
      BY <1>0, <3>3 DEF CoreGroup, Core
    <3>5. QED
      BY <3>4
  <2>3. ASSUME NEW m \in CoreGroup(n.off) PROVE Onward(m, n, d)
    <3>1. m \in Core /\ m.off = n.off
      BY DEF CoreGroup
    <3>2. Distance(n, d) = SpineDistance(n, d) /\ Distance(m, d) = CoreDistance(m, d)
      BY <3>1, Measure
    <3>3. CoreDistance(m, d) \in Nat /\ CoreDistance(m, d) < SpineDistance(n, d)
      BY <1>4, <3>1, CoreMeasure, SpineMeasure
    <3>4. QED
      BY <1>4, <3>1, <3>2, <3>3, NodeKinds, Kinds DEF Onward
  <2>4. QED
    BY <2>1, <2>2, <2>3
<1>5. QED
  BY <1>1, <1>2, <1>3, <1>4, Kinds

LEMMA CoreStep ==
  ASSUME NEW n \in Core, NEW d \in Node, d.kind # "core"
  PROVE  CoreNextHops(n, d) # {} /\ \A m \in CoreNextHops(n, d) : Onward(m, n, d)
<1>1. d \in Host \cup Leaf \cup Spine /\ d.pod \in Pod /\ n.off \in Offset
  BY NodeKinds, Kinds
<1>2. CoreNextHops(n, d) = {MkSpine(d.pod, n.off)}
  BY DEF CoreNextHops
<1> DEFINE m == MkSpine(d.pod, n.off)
<1>3. m \in Spine /\ m.pod = d.pod /\ m.off = n.off
  BY <1>1, Made
<1>4. Distance(n, d) = CoreDistance(n, d) /\ Distance(m, d) = SpineDistance(m, d)
  BY <1>3, Measure
<1>5. d \in Spine => (d.off = n.off <=> d = m)
  BY <1>1, <1>3, NodeKinds
<1>6. SpineDistance(m, d) \in Nat /\ SpineDistance(m, d) < CoreDistance(n, d)
  BY <1>1, <1>3, <1>5, CoreMeasure, SpineMeasure
<1>7. Onward(m, n, d)
  BY <1>3, <1>4, <1>6, NodeKinds, Kinds DEF Onward
<1>8. QED
  BY <1>2, <1>7

LEMMA HostStep ==
  ASSUME NEW n \in Host, NEW d \in Host, n # d
  PROVE  Onward(LeafOf(n), n, d)
<1>1. LeafOf(n) \in Leaf
  BY NodeKinds, Made DEF LeafOf
<1>2. QED
  BY <1>1, Measure, LeafMeasure, NodeKinds, Kinds DEF Onward

LEMMA Step ==
  ASSUME RouteIInv, at # dst
  PROVE  NextHops(at, dst) # {} /\ \A m \in NextHops(at, dst) : Onward(m, at, dst)
<1>1. CASE at \in Host
  <2>1. NextHops(at, dst) = {LeafOf(at)} /\ dst \in Host
    BY <1>1, NodeKinds, Kinds DEF NextHops, RouteIInv, OnItsWay
  <2>2. QED
    BY <1>1, <2>1, HostStep
<1>2. CASE at \in Leaf
  BY <1>2, NodeKinds, LeafStep DEF NextHops, RouteIInv
<1>3. CASE at \in Spine
  BY <1>3, NodeKinds, SpineStep DEF NextHops, RouteIInv, OnItsWay
<1>4. CASE at \in Core
  BY <1>4, NodeKinds, CoreStep DEF NextHops, RouteIInv, OnItsWay
<1>5. QED
  BY <1>1, <1>2, <1>3, <1>4, Kinds DEF RouteIInv

LEMMA RouteInit == Init => RouteIInv
<1> SUFFICES ASSUME Init PROVE RouteIInv
  OBVIOUS
<1>1. PICK e \in Endpoints : at = e[1] /\ dst = e[2]
  BY DEF Init
<1>2. /\ at \in Host \cup Leaf /\ dst \in Node /\ at # dst /\ hops = 0
      /\ at.kind = "host" => dst.kind = "host"
      /\ at.kind = "leaf" => dst.kind # "host"
  BY <1>1 DEF Endpoints, Init
<1>3. OnItsWay
  BY <1>2, NodeKinds DEF OnItsWay
<1>4. CASE at \in Host
  <2>1. dst \in Host /\ LeafOf(at) \in Leaf
    BY <1>2, <1>4, NodeKinds, Kinds, Made DEF LeafOf
  <2>2. Distance(at, dst) = 1 + LeafDistance(LeafOf(at), dst)
    BY <1>2, <1>4, Measure
  <2>3. LeafDistance(LeafOf(at), dst) \in {1, 3, 5}
    BY <2>1, LeafMeasure
  <2>4. QED
    BY <1>2, <1>3, <2>2, <2>3 DEF RouteIInv, AtMostSixLinks, Node, Switch
<1>5. CASE at \in Leaf
  <2>1. Distance(at, dst) = LeafDistance(at, dst)
    BY <1>2, <1>5, Measure
  <2>2. LeafDistance(at, dst) \in {0, 1, 2, 3, 4, 5}
    BY <1>2, <1>5, LeafMeasure, Kinds
  <2>3. QED
    BY <1>2, <1>3, <2>1, <2>2 DEF RouteIInv, AtMostSixLinks, Node, Switch
<1>6. QED
  BY <1>2, <1>4, <1>5

LEMMA DistanceType == ASSUME RouteIInv PROVE Distance(at, dst) \in Nat
<1>1. CASE at \in Host /\ at # dst
  <2>1. dst \in Host /\ LeafOf(at) \in Leaf
    BY <1>1, NodeKinds, Kinds, Made DEF LeafOf, RouteIInv, OnItsWay
  <2>2. LeafDistance(LeafOf(at), dst) \in {1, 3, 5}
    BY <2>1, LeafMeasure
  <2>3. QED
    BY <1>1, <2>1, <2>2, Measure DEF RouteIInv
<1>2. CASE at \in Host /\ at = dst
  BY <1>2, Measure DEF RouteIInv
<1>3. CASE at \in Leaf
  BY <1>3, Measure, LeafMeasure, Kinds DEF RouteIInv
<1>4. CASE at \in Spine
  BY <1>4, Measure, SpineMeasure, Kinds DEF RouteIInv
<1>5. CASE at \in Core
  BY <1>5, Measure, CoreMeasure, Kinds DEF RouteIInv
<1>6. QED
  BY <1>1, <1>2, <1>3, <1>4, <1>5, Kinds DEF RouteIInv

LEMMA RouteNext == RouteIInv /\ [Next]_vars => RouteIInv'
<1> SUFFICES ASSUME RouteIInv, [Next]_vars PROVE RouteIInv'
  OBVIOUS
<1>1. CASE Forward
  <2>1. PICK m \in NextHops(at, dst) : at' = m
    BY <1>1 DEF Forward
  <2>2. Onward(m, at, dst) /\ dst' = dst /\ hops' = hops + 1
    BY <1>1, <2>1, Step DEF Forward
  <2>3. OnItsWay'
    BY <2>1, <2>2 DEF OnItsWay, Onward
  <2>4. hops' + Distance(m, dst) <= 6
    BY <2>2, DistanceType DEF RouteIInv, AtMostSixLinks, Onward
  <2>5. QED
    BY <2>1, <2>2, <2>3, <2>4 DEF RouteIInv, AtMostSixLinks, Onward
<1>2. CASE UNCHANGED vars
  BY <1>2 DEF RouteIInv, OnItsWay, AtMostSixLinks, vars
<1>3. QED
  BY <1>1, <1>2 DEF Next, Arrived

\* In every fat tree, and in a CLOS network, a packet under way always has a route
\* (sim-base.cc:226-422).
THEOREM AlwaysRouted == Spec => []RouteExists
<1>1. RouteIInv => RouteExists
  BY Step DEF RouteExists
<1>2. QED
  BY RouteInit, RouteNext, <1>1, PTL DEF Spec

\* It crosses at most six links, whichever equal-cost routes are picked.
THEOREM ShortWay == Spec => []AtMostSixLinks
<1>1. RouteIInv => AtMostSixLinks
  BY DEF RouteIInv
<1>2. QED
  BY RouteInit, RouteNext, <1>1, PTL DEF Spec

\* Every link crossed brings it closer: the routes have no loops, so a protocol packet
\* that every switch sends on with a fresh TTL cannot circle (p4-switch-app.cc:224).
THEOREM NoLoops == Spec => EveryHopCloser
<1>1. RouteIInv /\ [Next]_vars => [Distance(at', dst) < Distance(at, dst)]_vars
  <2> SUFFICES ASSUME RouteIInv, Forward PROVE Distance(at', dst) < Distance(at, dst)
    BY DEF Next, Arrived
  <2>1. PICK m \in NextHops(at, dst) : at' = m
    BY DEF Forward
  <2>2. QED
    BY <2>1, Step DEF Forward, Onward
<1>2. QED
  BY RouteInit, RouteNext, <1>1, PTL DEF Spec, EveryHopCloser

-----------------------------------------------------------------------------
(* Addresses                                                               *)

\* The four bytes of every address, spelled out.
LEMMA Bytes ==
  /\ \A n \in Host : NodeAddress(n) = <<n.pod + 1, n.off, n.id, 1>>
  /\ \A n \in Leaf : NodeAddress(n) = <<PodCount + n.pod + 1, 0, n.off, 2>>
  /\ \A n \in Spine : NodeAddress(n) = <<2 * PodCount + n.pod + 1, n.off, 0, 1>>
  /\ \A n \in Core : NodeAddress(n) = <<255, n.off * CoresPerSpine + n.id, 0, 1>>
<1>1. \A n \in Host : NodeAddress(n) = <<n.pod + 1, n.off, n.id, 1>>
  BY NodeKinds DEF NodeAddress, GetNodePhysicalAddress
<1>2. \A n \in Leaf : NodeAddress(n) = <<PodCount + n.pod + 1, 0, n.off, 2>>
  BY NodeKinds DEF NodeAddress, GetLeafAddress, GetSwitchBaseAddress
<1>3. \A n \in Spine : NodeAddress(n) = <<2 * PodCount + n.pod + 1, n.off, 0, 1>>
  BY NodeKinds DEF NodeAddress, GetSpineFromLeafAddress, GetSwitchBaseAddress
<1>4. \A n \in Core : NodeAddress(n) = <<255, n.off * CoresPerSpine + n.id, 0, 1>>
  BY NodeKinds DEF NodeAddress, GetCoreAddress
<1> QED BY <1>1, <1>2, <1>3, <1>4

\* off * CoresPerSpine + id numbers the cores without gaps or repetitions.
LEMMA CoreNumber ==
  ASSUME NEW o \in Offset, NEW c \in 0 .. CoresPerSpine - 1
  PROVE  /\ o * CoresPerSpine + c \in 0 .. PodWidth * CoresPerSpine - 1
         /\ \A p \in Offset : \A d \in 0 .. CoresPerSpine - 1 :
              o < p => o * CoresPerSpine + c < p * CoresPerSpine + d
<1> DEFINE C == CoresPerSpine
<1>0. C \in Nat /\ o \in Nat /\ c \in Nat /\ c < C /\ PodWidth \in Nat /\ o + 1 <= PodWidth
  BY DEF Offset
<1> HIDE DEF C
<1>1. ASSUME NEW p \in Nat, o + 1 <= p PROVE o * C + c < p * C
  <2> DEFINE k == p - (o + 1)
  <2>1. k \in Nat /\ p = o + 1 + k
    BY <1>0, <1>1
  <2> HIDE DEF k
  <2>2. p * C = o * C + C + k * C
    BY <1>0, <2>1
  <2>3. k * C \in Nat /\ o * C \in Nat
    BY <1>0, <2>1
  <2> QED BY <1>0, <2>2, <2>3
<1>2. o * C \in Nat /\ PodWidth * C \in Nat
  BY <1>0
<1>3. o * C + c < PodWidth * C
  BY <1>0, <1>1
<1>4. o * C + c \in 0 .. PodWidth * C - 1
  BY <1>0, <1>2, <1>3
<1>5. ASSUME NEW p \in Offset, NEW d \in 0 .. C - 1, o < p
      PROVE  o * C + c < p * C + d
  <2>1. p \in Nat /\ o + 1 <= p /\ d \in Nat
    BY <1>0, <1>5 DEF Offset
  <2>2. o * C + c < p * C /\ p * C \in Nat
    BY <1>0, <1>1, <2>1
  <2> QED BY <1>0, <1>2, <2>1, <2>2
<1> QED BY <1>4, <1>5 DEF C

\* Hosts, leaves, spines and cores have the first bytes 1 .. PodCount, PodCount + 1 ..
\* 2 * PodCount, 2 * PodCount + 1 .. 3 * PodCount and 255.
LEMMA FirstByte ==
  /\ \A n \in Host : NodeAddress(n)[1] \in 1 .. PodCount
  /\ \A n \in Leaf : NodeAddress(n)[1] \in PodCount + 1 .. 2 * PodCount
  /\ \A n \in Spine : NodeAddress(n)[1] \in 2 * PodCount + 1 .. 3 * PodCount
  /\ \A n \in Core : NodeAddress(n)[1] = 255
<1>1. \A p \in Pod : p \in Int /\ 0 <= p /\ p <= PodCount - 1
  BY DEF Pod
<1> QED BY <1>1, Bytes, NodeKinds

LEMMA Injective ==
  ASSUME NEW m \in Node, NEW n \in Node, NodeAddress(m) = NodeAddress(n)
  PROVE  m = n
<1>0. \A p \in Pod : p \in Int
  BY DEF Pod
<1>1. CASE m \in Host /\ n \in Host
  <2>1. m.pod + 1 = n.pod + 1 /\ m.off = n.off /\ m.id = n.id
    BY <1>1, Bytes
  <2>2. m.pod = n.pod
    BY <1>0, <1>1, <2>1, NodeKinds
  <2> QED BY <1>1, <2>1, <2>2 DEF Host
<1>2. CASE m \in Leaf /\ n \in Leaf
  <2>1. PodCount + m.pod + 1 = PodCount + n.pod + 1 /\ m.off = n.off
    BY <1>2, Bytes
  <2>2. m.pod = n.pod
    BY <1>0, <1>2, <2>1, NodeKinds
  <2> QED BY <1>2, <2>1, <2>2 DEF Leaf
<1>3. CASE m \in Spine /\ n \in Spine
  <2>1. 2 * PodCount + m.pod + 1 = 2 * PodCount + n.pod + 1 /\ m.off = n.off
    BY <1>3, Bytes
  <2>2. m.pod = n.pod
    BY <1>0, <1>3, <2>1, NodeKinds
  <2> QED BY <1>3, <2>1, <2>2 DEF Spine
<1>4. CASE m \in Core /\ n \in Core
  <2>1. m.off * CoresPerSpine + m.id = n.off * CoresPerSpine + n.id
    BY <1>4, Bytes
  <2>2. /\ m.off \in Offset /\ n.off \in Offset
        /\ m.id \in 0 .. CoresPerSpine - 1 /\ n.id \in 0 .. CoresPerSpine - 1
    BY <1>4 DEF Core
  <2> DEFINE a == m.off * CoresPerSpine + m.id
             b == n.off * CoresPerSpine + n.id
  <2>3. (m.off < n.off => a < b) /\ (n.off < m.off => b < a) /\ a \in Nat
    <3>1. a \in 0 .. PodWidth * CoresPerSpine - 1
      BY <2>2, CoreNumber
    <3>2. (m.off < n.off => a < b) /\ (n.off < m.off => b < a)
      BY <2>2, CoreNumber
    <3> HIDE DEF a, b
    <3> QED BY <3>1, <3>2
  <2>4. m.off = n.off
    <3>1. a = b
      BY <2>1
    <3> HIDE DEF a, b
    <3>2. ~(m.off < n.off) /\ ~(n.off < m.off)
      BY <2>3, <3>1
    <3> QED BY <2>2, <3>2 DEF Offset
  <2>5. m.id = n.id
    <3> DEFINE x == m.off * CoresPerSpine
    <3>1. x \in Int /\ x + m.id = x + n.id
      BY <2>1, <2>2, <2>4 DEF Offset
    <3> HIDE DEF x
    <3> QED BY <2>2, <3>1
  <2> QED BY <1>4, <2>4, <2>5 DEF Core
<1>5. /\ m \in Host => n \in Host
      /\ m \in Leaf => n \in Leaf
      /\ m \in Spine => n \in Spine
      /\ m \in Core => n \in Core
  <2>1. NodeAddress(m)[1] = NodeAddress(n)[1]
    OBVIOUS
  <2> QED BY <2>1, FirstByte, Kinds
<1> QED BY <1>1, <1>2, <1>3, <1>4, <1>5, Kinds

LEMMA IsByte ==
  ASSUME NEW n \in Node
  PROVE  \A i \in 1 .. 4 : NodeAddress(n)[i] \in 0 .. 255
<1>0. /\ \A p \in Pod : p \in Int /\ 0 <= p /\ p <= PodCount - 1
      /\ \A o \in Offset : o \in 0 .. 255
  BY DEF Pod, Offset
<1>1. \A i \in 1 .. 4 : i \in {1, 2, 3, 4}
  OBVIOUS
<1>2. ASSUME NEW a, NEW b, NEW c, NEW d, NodeAddress(n) = <<a, b, c, d>>,
             a \in 0 .. 255, b \in 0 .. 255, c \in 0 .. 255, d \in 0 .. 255
      PROVE  \A i \in 1 .. 4 : NodeAddress(n)[i] \in 0 .. 255
  BY <1>1, <1>2
<1>3. CASE n \in Host
  <2>0. n.pod \in Pod /\ n.off \in Offset
    BY <1>3, NodeKinds
  <2>1. n.pod + 1 \in 0 .. 255 /\ n.off \in 0 .. 255
    BY <1>0, <2>0
  <2>2. n.id \in 0 .. 255
    BY <1>3 DEF Host
  <2> QED BY <1>2, <1>3, <2>1, <2>2, Bytes
<1>4. CASE n \in Leaf
  <2>0. n.pod \in Int /\ 0 <= n.pod /\ n.pod <= PodCount - 1 /\ n.off \in 0 .. 255
    BY <1>0, <1>4, NodeKinds
  <2>1. PodCount + n.pod + 1 \in 0 .. 255 /\ n.off \in 0 .. 255
    BY <2>0
  <2> QED BY <1>2, <1>4, <2>1, Bytes
<1>5. CASE n \in Spine
  <2>0. n.pod \in Int /\ 0 <= n.pod /\ n.pod <= PodCount - 1 /\ n.off \in 0 .. 255
    BY <1>0, <1>5, NodeKinds
  <2>1. 2 * PodCount + n.pod + 1 \in 0 .. 255
    <3>1. PodCount \in Nat /\ PodCount * 3 < 255
      OBVIOUS
    <3>2. 2 * PodCount + n.pod + 1 <= 3 * PodCount /\ 2 * PodCount + n.pod + 1 \in Nat
      BY <2>0, <3>1
    <3> QED BY <3>1, <3>2
  <2> QED BY <1>2, <1>5, <2>0, <2>1, Bytes
<1>6. CASE n \in Core
  <2> DEFINE a == n.off * CoresPerSpine + n.id
             w == PodWidth * CoresPerSpine
  <2>1. n.off \in Offset /\ n.id \in 0 .. CoresPerSpine - 1
    BY <1>6 DEF Core
  <2>2. a \in 0 .. w - 1
    BY <2>1, CoreNumber
  <2>3. w <= 256 /\ w \in Int
    OBVIOUS
  <2>4. NodeAddress(n) = <<255, a, 0, 1>>
    BY <1>6, Bytes
  <2> HIDE DEF a, w
  <2>5. a \in 0 .. 255
    BY <2>2, <2>3
  <2> QED BY <1>2, <2>4, <2>5
<1> QED BY <1>3, <1>4, <1>5, <1>6, Kinds

\* In every fat tree the simulator accepts an address is four bytes that name one node,
\* and what GeneratePacketToLeaf computes from the address of a host is the address of
\* its leaf (p4-switch-app.cc:333-341, ip-utils.cc).
THEOREM AddressesUnique == Spec => []AddressesResolve
<1>1. RouteIInv => AddressesResolve
  <2> SUFFICES ASSUME dst \in Node PROVE AddressesResolve
    BY DEF RouteIInv
  <2>1. ASSUME dst \in Host
        PROVE  LeafAddressOfHostAddress(NodeAddress(dst)) = NodeAddress(LeafOf(dst))
    <3>1. /\ dst.pod \in Pod /\ dst.off \in Offset
          /\ NodeAddress(dst) = <<dst.pod + 1, dst.off, dst.id, 1>>
      BY <2>1, NodeKinds, Bytes
    <3>2. NodeAddress(LeafOf(dst)) = GetLeafAddress(dst.pod, 0, dst.off)
      BY DEF NodeAddress, LeafOf, MkLeaf
    <3>3. (dst.pod + 1) - 1 = dst.pod
      BY <3>1 DEF Pod
    <3> QED BY <3>1, <3>2, <3>3 DEF LeafAddressOfHostAddress
  <2> QED BY <2>1, Injective, IsByte DEF AddressesResolve
<1> QED BY <1>1, RouteInit, RouteNext, PTL DEF Spec
=============================================================================
