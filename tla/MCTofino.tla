------------------------------ MODULE MCTofino ------------------------------
(***************************************************************************)
(* One slot that two containers compete for, a host that strayed packets   *)
(* come from and one they do not.                                          *)
(***************************************************************************)
EXTENDS TofinoSwitch

MCIndex == [v \in VIP |-> 0]
=============================================================================
