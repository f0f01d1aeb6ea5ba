------------------------------ MODULE Delivery ------------------------------
(***************************************************************************)
(* What the network promises the containers, whatever caches it has: a     *)
(* packet is delivered at most once, in the end it is delivered unless a   *)
(* link drops it, and only the migration sends it on a detour, once.       *)
(***************************************************************************)
CONSTANTS
  PacketId,     \* the packets that may be sent
  MayLose,      \* whether links drop packets
  MayMove       \* whether there is a migration

VARIABLES
  status,       \* what has become of every packet
  moved         \* whether the migration has taken place

vars == <<status, moved>>

Status == {"unsent", "underway", "detour", "delivered", "lost"}

TypeOK == status \in [PacketId -> Status] /\ moved \in BOOLEAN

Init == status = [n \in PacketId |-> "unsent"] /\ moved = FALSE

\* The second conjunct follows from the third; it lets TLC reject a step early.
Becomes(n, old, new) ==
  /\ status[n] \in old
  /\ status'[n] = new
  /\ status' = [status EXCEPT ![n] = new]
  /\ UNCHANGED moved

Send(n)    == Becomes(n, {"unsent"}, "underway")
Stray(n)   == moved /\ Becomes(n, {"underway"}, "detour")
Deliver(n) == Becomes(n, {"underway", "detour"}, "delivered")
Lose(n)    == MayLose /\ Becomes(n, {"underway", "detour"}, "lost")

Move == MayMove /\ ~moved /\ moved' = TRUE /\ UNCHANGED status

Next ==
  \/ \E n \in PacketId : Send(n) \/ Stray(n) \/ Deliver(n) \/ Lose(n)
  \/ Move

Spec == Init /\ [][Next]_vars

\* Again and again no packet is under way: each of the packets is settled in the end.
Settled == \A n \in PacketId : status[n] \notin {"underway", "detour"}

FairSpec == Spec /\ []<>Settled
=============================================================================
