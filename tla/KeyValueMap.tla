----------------------------- MODULE KeyValueMap -----------------------------
(***************************************************************************)
(* What a HashTable promises its callers: "Associates a set of Keys to a   *)
(* set of Values" (src/hash_table.c).  A finite map, and for each          *)
(* operation the answer the caller receives.                               *)
(***************************************************************************)
CONSTANTS
  Keys,    (* the keys                                                     *)
  Values,  (* the values                                                   *)
  Absent   (* the answer of a lookup that finds nothing, not a value       *)

VARIABLES
  map,     (* the value of every key, Absent where there is none           *)
  reply    (* the last operation that finished, its key and its answer     *)

vars == <<map, reply>>

Answer(op, k, result) == [op |-> op, key |-> k, result |-> result]

Init ==
  /\ map = [k \in Keys |-> Absent]
  /\ reply = Answer("none", Absent, Absent)

(* The answer of a write says whether the key is new.                      *)
Set(k, v) ==
  /\ map' = [map EXCEPT ![k] = v]
  /\ reply' = Answer("set", k, map[k] = Absent)

Get(k) ==
  /\ reply' = Answer("get", k, map[k])
  /\ UNCHANGED map

Lookup(k) ==
  /\ reply' = Answer("lookup", k, map[k] # Absent)
  /\ UNCHANGED map

(* The answer of a deletion says whether there was something to delete.    *)
Delete(k) ==
  /\ map' = [map EXCEPT ![k] = Absent]
  /\ reply' = Answer("delete", k, map[k] # Absent)

Free ==
  /\ map' = [k \in Keys |-> Absent]
  /\ reply' = Answer("free", Absent, Absent)

Next ==
  \/ \E k \in Keys, v \in Values : Set(k, v)
  \/ \E k \in Keys : Get(k) \/ Lookup(k) \/ Delete(k)
  \/ Free

Spec == Init /\ [][Next]_vars

=============================================================================
