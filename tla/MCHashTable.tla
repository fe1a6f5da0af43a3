---------------------------- MODULE MCHashTable ----------------------------
(***************************************************************************)
(* HashTable on a small instance: four keys, three of which share a home   *)
(* bucket in an array of four (the last one, so that probing wraps) and    *)
(* two of which still share one in an array of eight.                      *)
(***************************************************************************)
EXTENDS HashTable, TLC

CONSTANTS k1, k2, k3, k4

MCHash == (k1 :> 3) @@ (k2 :> 11) @@ (k3 :> 7) @@ (k4 :> 0)
NoDeletes == {}

=============================================================================
