---------------------------- MODULE MCStringPool ----------------------------
(***************************************************************************)
(* StringPool on a small instance: three strings that share the last       *)
(* bucket of an array of four, and one whose home is the bucket after it.  *)
(***************************************************************************)
EXTENDS StringPool, TLC

CONSTANTS k1, k2, k3, k4

MCHash == (k1 :> 3) @@ (k2 :> 11) @@ (k3 :> 7) @@ (k4 :> 0)

=============================================================================
