------------------------------ MODULE Routing ------------------------------
(***************************************************************************)
(* One packet walking the static routes of the fat tree from a node to an  *)
(* address (switchv2p/sim-base.cc, AssignPhysicalIps).  A switch that only *)
(* relays a protocol packet sends it from its own socket, with a fresh TTL *)
(* (p4-switch-app.cc:224), so nothing but the routes themselves keeps such *)
(* a packet from circling for ever.                                        *)
(***************************************************************************)
EXTENDS Topology

VARIABLES
  at,     \* the node holding the packet
  dst,    \* the node it is addressed to
  hops    \* links crossed so far

vars == <<at, dst, hops>>

\* The pairs the applications use: hosts and gateways send to hosts; a
\* gateway's leaf sends learning packets to leaves; a leaf sends invalidations
\* to any switch.
Endpoints ==
  {e \in (Host \cup Leaf) \X Node :
     /\ e[1] # e[2]
     /\ e[1].kind = "host" => e[2].kind = "host"
     /\ e[1].kind = "leaf" => e[2].kind # "host"}

Init ==
  /\ \E e \in Endpoints : at = e[1] /\ dst = e[2]
  /\ hops = 0

Forward ==
  /\ at # dst
  /\ \E n \in NextHops(at, dst) : at' = n
  /\ hops' = hops + 1
  /\ UNCHANGED dst

Arrived == at = dst /\ UNCHANGED vars

Next == Forward \/ Arrived

Spec == Init /\ [][Next]_vars

-----------------------------------------------------------------------------
\* The links left to cross from n to d, whichever equal-cost route is taken;
\* the measure the routes must decrease.
LeafDistance(n, d) ==
  CASE d.kind = "host"  -> IF LeafOf(d) = n THEN 1
                           ELSE IF d.pod = n.pod THEN 3 ELSE 5
    [] d.kind = "leaf"  -> IF d = n THEN 0
                           ELSE IF d.pod = n.pod THEN 2 ELSE 4
    [] d.kind = "spine" -> IF d.pod = n.pod THEN 1 ELSE 5
    [] d.kind = "core"  -> 2

SpineDistance(n, d) ==
  CASE d.kind = "host"  -> IF d.pod = n.pod THEN 2 ELSE 4
    [] d.kind = "leaf"  -> IF d.pod = n.pod THEN 1 ELSE 3
    [] d.kind = "spine" -> IF d = n THEN 0
                           ELSE IF d.pod = n.pod THEN 2
                           ELSE IF d.off = n.off THEN 2 ELSE 4
    [] d.kind = "core"  -> 1

CoreDistance(n, d) ==
  CASE d.kind = "host"  -> 3
    [] d.kind = "leaf"  -> 2
    [] d.kind = "spine" -> IF d.off = n.off THEN 1 ELSE 3
    [] d.kind = "core"  -> 0

Distance(n, d) ==
  CASE n.kind = "host"  -> IF n = d THEN 0 ELSE 1 + LeafDistance(LeafOf(n), d)
    [] n.kind = "leaf"  -> LeafDistance(n, d)
    [] n.kind = "spine" -> SpineDistance(n, d)
    [] n.kind = "core"  -> CoreDistance(n, d)

\* A spine asked for a core it is not connected to has no route; no packet ever
\* gets there, because leaves route to a core through the one spine of its group.
RouteExists == at # dst => NextHops(at, dst) # {}

\* Whatever equal-cost routes are picked, every link crossed brings the packet
\* closer, so no choice of routes makes a loop.
EveryHopCloser == [][Distance(at', dst) < Distance(at, dst)]_vars

\* A packet crosses at most six links.
AtMostSixLinks == hops + Distance(at, dst) <= 6

\* An address names one node, and the leaf that GeneratePacketToLeaf computes from
\* the address of a host is the host's (p4-switch-app.cc:333-341): no byte overflows
\* and the ranges of hosts, leaves, spines and cores do not meet.
AddressesResolve ==
  /\ \A i \in 1 .. 4 : NodeAddress(dst)[i] \in 0 .. 255
  /\ \A n \in Node : NodeAddress(n) = NodeAddress(dst) => n = dst
  /\ dst \in Host =>
       LeafAddressOfHostAddress(NodeAddress(dst)) = NodeAddress(LeafOf(dst))
=============================================================================
