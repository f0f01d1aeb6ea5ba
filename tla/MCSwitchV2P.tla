---------------------------- MODULE MCSwitchV2P ----------------------------
(***************************************************************************)
(* Three pods of one leaf and one spine under one core: pod 0 has the      *)
(* gateway, pod 1 the sender, pod 2 the receivers.  One slot per cache, so *)
(* the containers compete for it.                                          *)
(***************************************************************************)
EXTENDS SwitchV2P, TLC

H(pod, id) == [kind |-> "host", pod |-> pod, off |-> 0, id |-> id]

MCGateways  == <<H(0, 0)>>
MCPlacement == (1 :> H(1, 0)) @@ (2 :> H(2, 0)) @@ (3 :> H(2, 1))
MCFlows     == {<<1, 2>>, <<1, 3>>}
\* Traffic within a pod and into it, and spines with a slot for each container of
\* it, so that they know what the core has no room for.
MCFlowsPod  == {<<3, 2>>, <<2, 3>>, <<1, 2>>}
MCIndexPod  == [s \in Switch |-> [v \in VIP |-> IF s.kind = "spine" THEN v % 2 ELSE 0]]
MCIndex     == [s \in Switch |-> [v \in VIP |-> 0]]

\* Across pods, to the sender's rack; and within the rack of the receivers, where no
\* packet that strayed passes the sender's leaf.
MCNewHost     == H(1, 1)
MCNewHostRack == H(2, 1)
=============================================================================
