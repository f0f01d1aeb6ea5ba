------------------------------ MODULE MCP4Cache ----------------------------
(* Four keys on two slots: 0, 1 and 2 share slot 0, key 3 has slot 1.  *)
EXTENDS P4CacheSpec, TLC

MCIndex == (0 :> 0) @@ (1 :> 0) @@ (2 :> 0) @@ (3 :> 1)
=============================================================================
