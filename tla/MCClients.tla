----------------------------- MODULE MCClients -----------------------------
(***************************************************************************)
(* A trace of three lines out of order, two of them at one instant, whose  *)
(* flows are longer than the socket's buffer, unlimited, and one packet.   *)
(***************************************************************************)
EXTENDS Clients

MCTrace == <<[ts |-> 1, flowId |-> 1, size |-> 4],
             [ts |-> 0, flowId |-> 0, size |-> 0],
             [ts |-> 1, flowId |-> 1, size |-> 1]>>
=============================================================================
