----------------------------- MODULE HashEntries -----------------------------
(***************************************************************************)
(* The open-addressing array behind a HashTable (src/hash_table.c): its    *)
(* buckets, the probe sequence of a key, and the three searches the        *)
(* operations are built from.  No state here: HashTable owns the array of  *)
(* one table, StringPool the array of the table of interned strings.       *)
(*                                                                         *)
(* An array of `cap` entries is a function e \in [0..cap-1 -> Bucket].     *)
(* Keys stand for interned strings, so two keys are equal exactly when     *)
(* their characters are: entry->key == key and "same length, hash and      *)
(* characters" are one test here.                                          *)
(***************************************************************************)
EXTENDS FiniteSetsExt

CONSTANTS
  Keys,      (* interned strings                                           *)
  Values,    (* Kriolu values a table can hold                             *)
  Hash,      (* ObjectString.hash of each key                              *)
  NoKey,     (* entry->key == NULL                                         *)
  Nil,       (* the value nulo, which marks an empty entry                 *)
  True       (* the value verdadi, which marks a tombstone                 *)

ASSUME KeysAssumption ==
  /\ NoKey \notin Keys
  /\ Hash \in [Keys -> Nat]
  /\ Nil # True

-----------------------------------------------------------------------------

Empty     == [key |-> NoKey, value |-> Nil]
Tombstone == [key |-> NoKey, value |-> True]

Bucket == [key : Keys, value : Values] \cup {Empty, Tombstone}

EmptyArray(cap) == [i \in 0..cap-1 |-> Empty]

(* The buckets that hold a key, and those the load counter has to cover.   *)
Live(e)    == {i \in DOMAIN e : e[i].key # NoKey}
NonEmpty(e) == {i \in DOMAIN e : e[i] # Empty}

(* The n-th bucket a search for k visits.                                  *)
Slot(k, cap, n) == ((Hash[k] % cap) + n) % cap

(* The distances at which a search for k may stop.                         *)
Stops(e, cap, k) ==
  {n \in 0..cap-1 : \/ e[Slot(k, cap, n)] = Empty
                    \/ e[Slot(k, cap, n)].key = k}

Distance(e, cap, k) == Min(Stops(e, cap, k))

(* The tombstones a search for k walks over.                               *)
Passed(e, cap, k) ==
  {n \in 0..Distance(e, cap, k) - 1 : e[Slot(k, cap, n)] = Tombstone}

(* hash_table_probing: the key's bucket, or else the last tombstone passed *)
(* on the way to the first empty bucket, or else that empty bucket.        *)
Probing(e, cap, k) ==
  LET stop == Distance(e, cap, k)
      last == Max(Passed(e, cap, k))
  IN  IF e[Slot(k, cap, stop)] = Empty /\ Passed(e, cap, k) # {}
      THEN Slot(k, cap, last)
      ELSE Slot(k, cap, stop)

(* hash_table_find_entry_by_key: the search every keyed operation uses.    *)
(* It takes the home bucket when that holds the key, a tombstone or        *)
(* nothing, and probes only when another key is there.                     *)
FindEntry(e, cap, k) ==
  LET home == Slot(k, cap, 0)
  IN  IF e[home].key = k \/ e[home] \in {Tombstone, Empty}
      THEN home
      ELSE Probing(e, cap, k)

(* hash_table_get_key: the search by characters that interning uses.  It   *)
(* always starts by probing, and walks over tombstones.                    *)
HasKey(e, cap, k) ==
  e[Slot(k, cap, Distance(e, cap, k))].key = k

=============================================================================
