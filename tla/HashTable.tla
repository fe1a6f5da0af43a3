------------------------------ MODULE HashTable ------------------------------
(***************************************************************************)
(* One HashTable (src/hash_table.c): globals, the fields of an instance,   *)
(* the methods of a class, the interned strings.  Each action is one call  *)
(* of an operation, except that growing the array is taken bucket by       *)
(* bucket: BeginGrow allocates the new array, Rehash moves one old bucket, *)
(* and Put, once all are moved, installs the array and stores the entry    *)
(* whose insertion made the table grow.                                    *)
(***************************************************************************)
EXTENDS HashEntries

CONSTANTS
  Absent,       (* the answer of a get that finds nothing                  *)
  Deletable,    (* the keys the owner of the table may delete              *)
  MinCapacity,  (* capacity of the first array, 8 in the code              *)
  MaxCapacity   (* bound on the arrays the model allocates                 *)

ASSUME CapacityAssumption ==
  /\ Absent \notin Values
  /\ Deletable \subseteq Keys
  /\ MinCapacity \in Nat /\ MinCapacity >= 2
  /\ MaxCapacity \in Nat

VARIABLES
  items,     (* table->items                                               *)
  capacity,  (* table->capacity                                            *)
  count,     (* table->count                                               *)
  fresh,     (* the array hash_table_adjust_capacity is filling            *)
  newcap,    (* its capacity; 0 while no array is being filled             *)
  next,      (* the old bucket it moves next                               *)
  pending,   (* the entry whose insertion made the table grow              *)
  reply      (* the last operation that finished, its key and its answer   *)

table  == <<items, capacity, count>>
growth == <<fresh, newcap, next, pending>>
vars   == <<items, capacity, count, fresh, newcap, next, pending, reply>>

Growing == newcap # 0

Answer(op, k, result) == [op |-> op, key |-> k, result |-> result]

NoArray == EmptyArray(0)

Init ==
  /\ items = NoArray /\ capacity = 0 /\ count = 0
  /\ fresh = NoArray /\ newcap = 0 /\ next = 0 /\ pending = Empty
  /\ reply = Answer("none", Absent, Absent)

-----------------------------------------------------------------------------
(* The load a table may reach before a write: TABLE_MAX_LOAD is 0.75.      *)

OverloadedWhenFull(cnt, cap) == cnt + 1 > cap
Overloaded(cnt, cap) == 4 * (cnt + 1) > 3 * cap

GrownByOne(cap) == IF cap < MinCapacity THEN MinCapacity ELSE cap + 1
GrownCapacity(cap) == IF cap < MinCapacity THEN MinCapacity ELSE 2 * cap

(* The end of hash_table_set_value: the entry goes where the search for    *)
(* its key ends, and the counter moves only if that bucket was empty.      *)
CountOf(e, i, cnt) == IF e[i] = Empty THEN cnt + 1 ELSE cnt

Store(e, cap, cnt, entry) ==
  LET i == FindEntry(e, cap, entry.key)
  IN  /\ items' = [e EXCEPT ![i] = entry]
      /\ capacity' = cap
      /\ count' = CountOf(e, i, cnt)
      /\ reply' = Answer("set", entry.key, e[i].key = NoKey)

SetValue(k, v) ==
  /\ ~Growing
  /\ ~Overloaded(count, capacity)
  /\ Store(items, capacity, count, [key |-> k, value |-> v])
  /\ UNCHANGED growth

BeginGrow(k, v) ==
  /\ ~Growing
  /\ Overloaded(count, capacity)
  /\ GrownCapacity(capacity) <= MaxCapacity
  /\ newcap' = GrownCapacity(capacity)
  /\ fresh' = EmptyArray(newcap')
  /\ next' = 0
  /\ pending' = [key |-> k, value |-> v]
  /\ count' = 0
  /\ UNCHANGED <<items, capacity, reply>>

(* One turn of the loop of hash_table_adjust_capacity.                     *)
RehashInPlace ==
  /\ Growing /\ next < capacity
  /\ next' = next + 1
  /\ fresh' = [fresh EXCEPT ![next] = items[next]]
  /\ count' = IF items[next].key = NoKey THEN count ELSE count + 1
  /\ UNCHANGED <<items, capacity, newcap, pending, reply>>

Rehash ==
  /\ Growing /\ next < capacity
  /\ next' = next + 1
  /\ IF items[next].key = NoKey
     THEN UNCHANGED <<fresh, count>>
     ELSE /\ fresh' = [fresh EXCEPT ![FindEntry(fresh, newcap, items[next].key)] = items[next]]
          /\ count' = count + 1
  /\ UNCHANGED <<items, capacity, newcap, pending, reply>>

PutAtStaleSlot ==
  LET i == IF capacity = 0 THEN 0 ELSE FindEntry(items, capacity, pending.key)
  IN  /\ Growing /\ next = capacity
      /\ items' = [fresh EXCEPT ![i] = pending]
      /\ capacity' = newcap /\ count' = count + 1
      /\ fresh' = NoArray /\ newcap' = 0 /\ next' = 0 /\ pending' = Empty
      /\ reply' = Answer("set", pending.key, TRUE)

Put ==
  /\ Growing /\ next = capacity
  /\ Store(fresh, newcap, count, pending)
  /\ fresh' = NoArray /\ newcap' = 0 /\ next' = 0 /\ pending' = Empty

GetValue(k) ==
  /\ ~Growing
  /\ reply' = Answer("get", k,
       IF count = 0 THEN Absent
       ELSE LET found == items[FindEntry(items, capacity, k)]
            IN  IF found.key = NoKey THEN Absent ELSE found.value)
  /\ UNCHANGED <<table, growth>>

GetKey(k) ==
  /\ ~Growing
  /\ reply' = Answer("lookup", k, count # 0 /\ HasKey(items, capacity, k))
  /\ UNCHANGED <<table, growth>>

(* What a deletion leaves behind.                                          *)
ErasedBucket == Empty
DeletedBucket == Tombstone

DeleteDiscounting(k) ==
  /\ ~Growing /\ count # 0
  /\ LET i == FindEntry(items, capacity, k)
     IN  /\ items[i] \notin {Tombstone, Empty}
         /\ items' = [items EXCEPT ![i] = DeletedBucket]
  /\ count' = count - 1
  /\ reply' = Answer("delete", k, TRUE)
  /\ UNCHANGED <<capacity, growth>>

DeleteCopyOnly(k) ==
  /\ ~Growing /\ count # 0
  /\ items[FindEntry(items, capacity, k)] \notin {Tombstone, Empty}
  /\ reply' = Answer("delete", k, TRUE)
  /\ UNCHANGED <<table, growth>>

Delete(k) ==
  /\ ~Growing
  /\ IF count = 0
     THEN /\ reply' = Answer("delete", k, FALSE)
          /\ UNCHANGED items
     ELSE LET i == FindEntry(items, capacity, k)
          IN  /\ reply' = Answer("delete", k, items[i] \notin {Tombstone, Empty})
              /\ items' = IF items[i] \in {Tombstone, Empty} THEN items
                          ELSE [items EXCEPT ![i] = DeletedBucket]
  /\ UNCHANGED <<capacity, count, growth>>

(* hash_table_free, then hash_table_init.                                  *)
Free ==
  /\ ~Growing
  /\ items' = NoArray /\ capacity' = 0 /\ count' = 0
  /\ reply' = Answer("free", Absent, Absent)
  /\ UNCHANGED growth

Next ==
  \/ \E k \in Keys, v \in Values : SetValue(k, v) \/ BeginGrow(k, v)
  \/ Rehash
  \/ Put
  \/ \E k \in Keys : GetValue(k) \/ GetKey(k)
  \/ \E k \in Deletable : Delete(k)
  \/ Free

Spec == Init /\ [][Next]_vars

-----------------------------------------------------------------------------

Array(cap) == [0..cap-1 -> Bucket]

(* Every variable has its type, and an array being filled is at least      *)
(* twice the size of the one it replaces.                                  *)
TypeOK ==
  /\ capacity \in Nat /\ items \in Array(capacity)
  /\ count \in Nat
  /\ newcap \in Nat /\ fresh \in Array(newcap)
  /\ next \in 0..capacity
  /\ pending \in Bucket /\ (Growing => pending.key \in Keys)
  /\ Growing => newcap >= MinCapacity /\ newcap >= 2 * capacity

(* table->count never loses track of a used bucket, tombstones included:   *)
(* it bounds the non-empty buckets of the array writes go to, so the load  *)
(* check of hash_table_set_value is a check of the array.                  *)
CountCoversBuckets ==
  IF Growing THEN Cardinality(NonEmpty(fresh)) <= count
             ELSE Cardinality(NonEmpty(items)) <= count

(* "This guarantees that there'll always be an empty entry in the entries  *)
(* array, which prevents inifinite loop when probing" (hash_table.c, at    *)
(* TABLE_MAX_LOAD): every search, for whatever key, meets an empty bucket. *)
AlwaysAnEmptyEntry ==
  /\ capacity > 0 => \E i \in 0..capacity-1 : items[i] = Empty
  /\ Growing => \E i \in 0..newcap-1 : fresh[i] = Empty

(* A key that sits in the array is found by the search by characters, even *)
(* behind tombstones, so interning never makes a second string of the same *)
(* characters: the loop of hash_table_get_key stops at it.                 *)
StoredKeysAreFound ==
  ~Growing => \A i \in Live(items) : HasKey(items, capacity, items[i].key)

(* Whatever was deleted before, the search that follows a write answers    *)
(* with the entry just written, its value and not that of a copy left      *)
(* behind, and the search by characters finds the key too: "Expected value *)
(* '%s' for key '%s', but instead got '%s'" (tests/hash_table/main.c) is   *)
(* never seen right after an update.                                       *)
SearchFinds(k, v) ==
  /\ count # 0
  /\ items[FindEntry(items, capacity, k)] = [key |-> k, value |-> v]
  /\ HasKey(items, capacity, k)

LastWriteVisible ==
  [][\A k \in Keys, v \in Values :
       SetValue(k, v) \/ (Put /\ pending = [key |-> k, value |-> v]) => SearchFinds(k, v)']_vars

(* A deleted key is not found by the search that follows: "Expected a      *)
(* tombstone, but instead got a diferent value" (tests/hash_table/main.c)  *)
(* is never seen right after the deletion.                                 *)
Findable(k) == count # 0 /\ items[FindEntry(items, capacity, k)].key = k

DeletedIsGone ==
  ~Growing /\ reply.op = "delete" => ~Findable(reply.key)

(* The table is the map it is used as: it implements KeyValueMap, each     *)
(* key's value being the value of a bucket that holds it.                  *)
Holding(e, k) == {i \in DOMAIN e : e[i].key = k}

Contents ==
  [k \in Keys |-> IF Holding(items, k) = {} THEN Absent
                  ELSE items[CHOOSE i \in Holding(items, k) : TRUE].value]

Map == INSTANCE KeyValueMap WITH map <- Contents
ImplementsMap == Map!Spec

=============================================================================
