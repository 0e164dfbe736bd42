---------------------------- MODULE MCHashCache ----------------------------
(* Instances of HashCache for TLC: contents good and bad are the same size. *)
EXTENDS HashCache, TLC

CONSTANTS good, bad, long

Sizes == (good :> 1) @@ (bad :> 1) @@ (long :> 2)
============================================================================
