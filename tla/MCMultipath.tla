---------------------------- MODULE MCMultipath ----------------------------
(***************************************************************************)
(* Two pods of two leaves and two spines, so that every packet between     *)
(* racks has a choice of routes.  Pod 1 has two gateways, shared by flow,  *)
(* with caches in the gateways' leaves only; pod 0 the servers, with       *)
(* packets for container 0, which migrates within its rack, over links     *)
(* that lose packets.                                                      *)
(***************************************************************************)
EXTENDS SwitchV2P, TLC

H(pod, off) == [kind |-> "host", pod |-> pod, off |-> off, id |-> 0]

MCGateways  == <<H(1, 0), H(1, 1)>>
MCPlacement == (0 :> H(0, 0)) @@ (1 :> H(0, 1))
MCFlows     == {<<1, 0>>}
MCIndex     == [s \in Switch |-> [v \in VIP |-> 0]]
MCNewHost   == [H(0, 0) EXCEPT !.id = 1]
=============================================================================
