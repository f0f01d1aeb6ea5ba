---------------------------- MODULE MCBaselines ----------------------------
(***************************************************************************)
(* Two pods of two leaves and two spines under four cores.  The gateway is *)
(* in pod 1, with one sender in its rack, one in its pod and one in the    *)
(* other pod, so that the controller meets each of its three cases.        *)
(***************************************************************************)
EXTENDS Baselines, TLC

H(pod, off, id) == [kind |-> "host", pod |-> pod, off |-> off, id |-> id]
F(id, src, dst) == [id |-> id, src |-> src, dst |-> dst]

MCPlacement == (1 :> H(0, 0, 0)) @@ (2 :> H(1, 0, 0)) @@ (3 :> H(1, 1, 1)) @@ (4 :> H(1, 0, 1))
MCFlow      == {F(1, 1, 2), F(2, 2, 1), F(3, 3, 4)}
MCGatewayOf == [f \in MCFlow |-> H(1, 1, 0)]
MCFlowHash  == [f \in MCFlow |-> f.id]
MCNewHost   == H(0, 1, 0)
MCInFlight  == [m \in Modes |-> IF m = "Controller" THEN 1 ELSE 3]
=============================================================================
