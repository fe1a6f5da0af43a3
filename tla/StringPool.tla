------------------------------ MODULE StringPool ------------------------------
(***************************************************************************)
(* The table of interned strings, vm->string_database: ObjectString_       *)
(* allocate looks a string up by its characters and allocates and stores   *)
(* it only when it is not there (src/object.c); the collector deletes the  *)
(* strings it is about to free (src/memory.c).  The table is a HashTable;  *)
(* a key stands for the characters of a string, and `alive` holds the keys *)
(* for which a string object is allocated.                                 *)
(*                                                                         *)
(* A table that still refers to a freed string is read through a dangling  *)
(* pointer by the next operation: the model ends there.                    *)
(***************************************************************************)
EXTENDS HashTable

(* The value every string is stored with.                                  *)
ASSUME PoolAssumption == Nil \in Values

VARIABLES
  alive,    (* the strings that are allocated                              *)
  marked,   (* the strings the collector has marked, while it sweeps       *)
  swept     (* the next bucket Memory_sweep_string_database looks at, or   *)
            (* NotSweeping                                                 *)

poolVars == <<items, capacity, count, fresh, newcap, next, pending, reply,
              alive, marked, swept>>

NotSweeping == -1
Sweeping == swept # NotSweeping

PoolInit == Init /\ alive = {} /\ marked = {} /\ swept = NotSweeping

StoredKeys == {items[i].key : i \in Live(items)}
Dangling == ~Sweeping /\ ~ (StoredKeys \subseteq alive)
Ready == ~Growing /\ ~Sweeping /\ ~Dangling

-----------------------------------------------------------------------------
(* What hash_table_get_key answers.                                        *)
IsStored(k) == count # 0 /\ HasKey(items, capacity, k)

(* The string is there: nothing is allocated.                              *)
FindString(k) ==
  /\ Ready
  /\ IsStored(k)
  /\ reply' = Answer("lookup", k, TRUE)
  /\ UNCHANGED <<table, growth, alive, marked, swept>>

(* A new string is stored, which may make the table grow first.            *)
NewString(k) ==
  /\ Ready
  /\ ~IsStored(k)
  /\ SetValue(k, Nil) \/ BeginGrow(k, Nil)
  /\ alive' = alive \cup {k}
  /\ UNCHANGED <<marked, swept>>

Grow ==
  /\ Rehash \/ Put
  /\ UNCHANGED <<alive, marked, swept>>

(* A collection has marked some of the strings, whichever are in use, and  *)
(* turns to the table.                                                     *)
BeginSweep(used) ==
  /\ Ready
  /\ marked' = used /\ swept' = 0
  /\ UNCHANGED <<table, growth, reply, alive>>

(* One turn of Memory_sweep_string_database.                               *)
MarkedOnly(k) == k \in marked
Doomed(k) == k \notin marked

SweepBucket ==
  /\ Sweeping /\ swept < capacity
  /\ swept' = swept + 1
  /\ LET k == items[swept].key
     IN  IF k # NoKey /\ Doomed(k)
         THEN Delete(k)
         ELSE UNCHANGED <<table, growth, reply>>
  /\ UNCHANGED <<alive, marked>>

(* Memory_sweep frees the strings that are not marked.                     *)
FreeStrings ==
  /\ Sweeping /\ swept = capacity
  /\ alive' = alive \cap marked
  /\ marked' = {} /\ swept' = NotSweeping
  /\ UNCHANGED <<table, growth, reply>>

PoolNext ==
  \/ \E k \in Keys : FindString(k) \/ NewString(k)
  \/ Grow
  \/ \E used \in SUBSET alive : BeginSweep(used)
  \/ SweepBucket
  \/ FreeStrings

PoolSpec == PoolInit /\ [][PoolNext]_poolVars

-----------------------------------------------------------------------------

PoolTypeOK ==
  /\ TypeOK
  /\ alive \in SUBSET Keys /\ marked \in SUBSET alive
  /\ swept \in {NotSweeping} \cup (0..capacity)

(* A string that is allocated is found by its characters, so two strings   *)
(* of the same characters are one object, which OpCode_Equal_To and the    *)
(* keys of every other table rely on.                                      *)
StringsAreUnique ==
  Ready => \A k \in alive : IsStored(k)

(* Sweeping the table takes no string out of it that is in use, whatever   *)
(* else shares its probe sequence.                                         *)
MarkedStringsStay ==
  [][Sweeping => marked \cap StoredKeys \subseteq {items'[i].key : i \in Live(items')}]_poolVars

(* "Stores all unique string allocated during Compilation and Runtime"     *)
(* (kriolu.h, string_database): it refers to no string that was freed.     *)
StoredStringsAreAllocated ==
  ~Growing /\ ~Sweeping => StoredKeys \subseteq alive

=============================================================================
