----------------------------- MODULE MCBluebird -----------------------------
(* Three containers compete for two entries; one of them moves.            *)
EXTENDS Bluebird, TLC

CONSTANTS h1, h2, h3

MCPlacement == (1 :> h1) @@ (2 :> h2) @@ (3 :> h2)
=============================================================================
