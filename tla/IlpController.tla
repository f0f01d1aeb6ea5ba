--------------------------- MODULE IlpController ---------------------------
(***************************************************************************)
(* The integer program of the controller (switchv2p/ilp-controller-app.cc, *)
(* QuerySwitches): which switches a flow will pass on its way to its       *)
(* gateway, what a translation placed in one of them saves, and the        *)
(* placements that cost least.  The solver (z3) is external: it returns    *)
(* any placement of least cost.                                            *)
(*                                                                         *)
(* Leaves, spines and cores are numbered as in the code, so that the       *)
(* controller's arithmetic on these numbers is kept; LeafAt, SpineAt and   *)
(* CoreAt are the containers m_leaves, m_spines and m_cores.               *)
(***************************************************************************)
EXTENDS Topology, FiniteSets, FiniteSetsExt

CONSTANTS
  Flow,          \* flows of the trace: [id, src, dst], containers as numbers
  Placement,     \* m_containerToPhysicalLocation: the host of every container
  GatewayOf,     \* [Flow -> Host], the gateway GetGatewayIdx picks for a flow
  FlowHash,      \* [Flow -> Nat], GetFlowHash of its outer header
  MemorySize,    \* entries per switch
  GatewayCost    \* the cost of a packet that a gateway translates

LeafAt(i)  == MkLeaf(i \div PodWidth, i % PodWidth)
SpineAt(i) == MkSpine(i \div PodWidth, i % PodWidth)
CoreAt(i)  == [kind |-> "core", pod |-> 0, off |-> i \div CoresPerSpine,
               id |-> i % CoresPerSpine]
LeafId(h)  == h.pod * PodWidth + h.off

\* ns-3's choice among equal-cost routes (ns3-3.36.1.patch, LookupGlobal): the hash
\* of the outer header modulo their number, routes in the order they were installed.
EcmpNextHop(n, d, hash) ==
  CHOOSE m \in NextHops(n, d) :
    \/ Cardinality(NextHops(n, d)) = 1
    \/ hash % Cardinality(NextHops(n, d)) = IF m.kind = "core" THEN m.id ELSE m.off

\* GetPacketCost: the links a packet crosses that the switch at the given step of its
\* way to the gateway redirects.
GetPacketCost(src, dst, steps, gwLeaf, gwPod) ==
  LET srcLeaf == LeafId(Placement[src])
      srcPod  == srcLeaf \div PodWidth
      dstLeaf == LeafId(Placement[dst])
      dstPod  == dstLeaf \div PodWidth
  IN  CASE steps = 1 -> IF srcLeaf = dstLeaf THEN 2 ELSE IF srcPod = dstPod THEN 4 ELSE 6
        [] steps = 2 -> IF srcPod = dstPod THEN 4 ELSE 6
        [] steps = 3 -> IF CoresPerSpine = 0 /\ dstLeaf = gwLeaf THEN 4 ELSE 6
        [] steps = 4 -> IF dstPod = gwPod THEN 6 ELSE 8
        [] OTHER     -> IF gwLeaf = dstLeaf THEN 6 ELSE IF gwPod = dstPod THEN 8 ELSE 10

\* The switches the controller takes a flow to pass, leaf first.
PathOf(f) ==
  LET leaf    == LeafId(Placement[f.src])
      srcPod  == leaf \div PodWidth
      gwLeaf  == LeafId(GatewayOf[f])
      gwPod   == gwLeaf \div PodWidth
      hash    == FlowHash[f]
      spineId == srcPod * PodWidth + (hash % PodWidth)
      coreId  == (spineId % PodWidth) * CoresPerSpine + (hash % CoresPerSpine)
  IN  IF leaf = gwLeaf THEN {LeafAt(leaf)}
      ELSE IF srcPod = gwPod THEN {LeafAt(leaf), SpineAt(spineId), LeafAt(gwLeaf)}
      ELSE {LeafAt(leaf), SpineAt(spineId), CoreAt(coreId),
            SpineAt(coreId \div CoresPerSpine + PodWidth * gwPod), LeafAt(gwLeaf)}

\* A placement is a set of <<switch, container>> pairs.
AnsweredBy(placement, f) == \E s \in PathOf(f) : <<s, f.dst>> \in placement

\* The relaxed cost: a hit anywhere but in the leaf of the gateway itself counts 8.
HitCost(f) ==
  LET gwLeaf == LeafId(GatewayOf[f])
  IN  IF LeafId(Placement[f.src]) = gwLeaf
      THEN GetPacketCost(f.src, f.dst, 1, gwLeaf, gwLeaf \div PodWidth)
      ELSE 8

\* count[f]: the packets of f its own leaf has seen.
Cost(placement, flows, count) ==
  MapThenSumSet(LAMBDA f : count[f] * IF AnsweredBy(placement, f)
                                      THEN HitCost(f) ELSE GatewayCost, flows)

\* Placements within the switches' memory: every flow adds nothing or one entry on its
\* way, as further ones save nothing.
Feasible(flows) ==
  LET choices == [flows -> UNION {PathOf(f) : f \in flows}]
      onTheWay == {g \in choices : \A f \in flows : g[f] \in PathOf(f)}
      placements == {{<<g[f], f.dst>> : f \in some} : g \in onTheWay, some \in SUBSET flows}
  IN  {p \in placements :
         \A e \in p : Cardinality({x \in p : x[1] = e[1]}) <= MemorySize}

\* What optimize::minimize may return.  Its solutions may also hold entries that save
\* nothing, which are left out here: they fit beside the others, answer no flow of this
\* query that is not answered anyway, and displace only entries of earlier queries.
Solutions(flows, count) ==
  LET feasible == Feasible(flows)
      least == Min({Cost(p, flows, count) : p \in feasible})
  IN  {p \in feasible : /\ Cost(p, flows, count) = least
                        /\ \A e \in p : Cost(p \ {e}, flows, count) > least}
=============================================================================
