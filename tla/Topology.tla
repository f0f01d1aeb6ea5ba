------------------------------ MODULE Topology ------------------------------
(***************************************************************************)
(* The simulated network: the fat tree built by SimulationBase             *)
(* (switchv2p/sim-base.cc), the addresses of IpUtils (ip-utils.cc) and the *)
(* static routes AssignPhysicalIps installs in every node.                 *)
(*                                                                         *)
(* A pod has PodWidth leaves and PodWidth spines, all connected.  Spine s  *)
(* of every pod is connected to the CoresPerSpine cores of group s.  A     *)
(* CLOS network is one pod without cores.  Nodes are records; a node's     *)
(* record also stands for its physical address, which NodeAddress spells   *)
(* out.                                                                    *)
(***************************************************************************)
EXTENDS Integers

CONSTANTS
  PodCount,        \* m_podCount
  PodWidth,        \* m_podWidth: leaves, and spines, per pod
  CoresPerSpine,   \* m_coreCount / m_podWidth
  HostsPerLeaf     \* the size of the container groups of a leaf

\* The assertions of the SimulationBase constructor, and the ranges that keep
\* every byte of an address a byte.
ASSUME TopologyAssumption ==
  /\ PodCount \in Nat \ {0} /\ PodCount * 3 < 255
  /\ PodWidth \in Nat \ {0} /\ PodWidth <= 256
  /\ CoresPerSpine \in Nat /\ PodWidth * CoresPerSpine <= 256
  /\ HostsPerLeaf \in 0 .. 255
  /\ CoresPerSpine = 0 => PodCount = 1

Pod    == 0 .. PodCount - 1
Offset == 0 .. PodWidth - 1

Host  == [kind : {"host"},  pod : Pod, off : Offset, id : 0 .. HostsPerLeaf - 1]
Leaf  == [kind : {"leaf"},  pod : Pod, off : Offset, id : {0}]
Spine == [kind : {"spine"}, pod : Pod, off : Offset, id : {0}]
\* Core id of group off: m_cores.Get (off * CoresPerSpine + id)
Core  == [kind : {"core"},  pod : {0}, off : Offset, id : 0 .. CoresPerSpine - 1]

Switch == Leaf \cup Spine \cup Core
Node   == Host \cup Switch

MkLeaf(pod, off)  == [kind |-> "leaf",  pod |-> pod, off |-> off, id |-> 0]
MkSpine(pod, off) == [kind |-> "spine", pod |-> pod, off |-> off, id |-> 0]
CoreGroup(off)    == {c \in Core : c.off = off}

\* The leaf a host is connected to (CreateTopology)
LeafOf(h) == MkLeaf(h.pod, h.off)

-----------------------------------------------------------------------------
(* Addresses: the four bytes of the strings IpUtils builds.                *)

GetNodePhysicalAddress(pod, off, id) == <<pod + 1, off, id, 1>>
GetSwitchBaseAddress(podCount, pod, spineOff, leafOff) ==
  <<podCount + pod + 1, spineOff, leafOff, 0>>
GetLeafAddress(pod, spineOff, leafOff) ==
  [GetSwitchBaseAddress(PodCount, pod, spineOff, leafOff) EXCEPT ![4] = 2]
GetSpineFromLeafAddress(pod, spineOff, leafOff) ==
  [GetSwitchBaseAddress(2 * PodCount, pod, spineOff, leafOff) EXCEPT ![4] = 1]
GetCoreAddress(pod, core) == <<255, core, pod, 1>>

\* The address a node is reached at: the physical address of a host, and the
\* switchAddress TraceSimulation::SetupApplications gives every P4SwitchApp.
NodeAddress(n) ==
  CASE n.kind = "host"  -> GetNodePhysicalAddress(n.pod, n.off, n.id)
    [] n.kind = "leaf"  -> GetLeafAddress(n.pod, 0, n.off)
    [] n.kind = "spine" -> GetSpineFromLeafAddress(n.pod, n.off, 0)
    [] n.kind = "core"  -> GetCoreAddress(0, n.off * CoresPerSpine + n.id)

\* Mutant: the pod byte of a host's address is not its pod.
LeafAddressWithoutOffset(a) == GetLeafAddress(a[1], 0, a[2])

\* GeneratePacketToLeaf recovers the leaf of a host from the host's address.
LeafAddressOfHostAddress(a) == GetLeafAddress(a[1] - 1, 0, a[2])

-----------------------------------------------------------------------------
(* Routes.  NextHops(n, d) holds the neighbours on the equal-cost routes   *)
(* of n towards d; the empty set means n has no route.                     *)

\* Mutant: a core is sought through any spine.
LeafNextHopsAnySpine(n, d) ==
  CASE d.kind = "host" /\ LeafOf(d) = n      -> {d}
    [] d.kind = "spine" /\ d.pod = n.pod     -> {d}
    [] OTHER                                 -> {MkSpine(n.pod, o) : o \in Offset}

LeafNextHops(n, d) ==
  CASE d.kind = "host" /\ LeafOf(d) = n      -> {d}
    [] d.kind = "spine" /\ d.pod = n.pod     -> {d}
    [] d.kind = "core"                       -> {MkSpine(n.pod, d.off)}
    [] OTHER                                 -> {MkSpine(n.pod, o) : o \in Offset}

\* Mutant: a pod's own hosts are sought through the cores.
SpineNextHopsUp(n, d) ==
  IF d.kind = "leaf" /\ d.pod = n.pod THEN {MkLeaf(n.pod, d.off)} ELSE CoreGroup(n.off)

SpineNextHops(n, d) ==
  CASE d.kind \in {"host", "leaf"} /\ d.pod = n.pod -> {MkLeaf(n.pod, d.off)}
    [] d.kind = "spine" /\ d.pod = n.pod     -> {MkLeaf(n.pod, o) : o \in Offset}
    [] d.kind = "core"                       -> {d} \cap CoreGroup(n.off)
    [] OTHER                                 -> CoreGroup(n.off)

\* Mutant: pods are numbered from 1.
CoreNextHopsShifted(n, d) == {MkSpine((d.pod + 1) % PodCount, n.off)}

CoreNextHops(n, d) ==
  IF d.kind = "core" THEN {} ELSE {MkSpine(d.pod, n.off)}

NextHops(n, d) ==
  CASE n.kind = "host"  -> {LeafOf(n)}
    [] n.kind = "leaf"  -> LeafNextHops(n, d)
    [] n.kind = "spine" -> SpineNextHops(n, d)
    [] n.kind = "core"  -> CoreNextHops(n, d)
=============================================================================
