--------------------------- MODULE HashTableProofs ---------------------------
(***************************************************************************)
(* HashTable for every set of keys, hash function, minimum capacity and    *)
(* growth bound: types, the load factor and what it buys (every search     *)
(* ends), and what searches find in spite of deletions.                    *)
(*                                                                         *)
(* StringPool for every order of interning and collecting: a string that   *)
(* is allocated is found by its characters, and a collection takes no      *)
(* string in use out of the table.                                         *)
(***************************************************************************)
EXTENDS StringPool, NaturalExtremes, FiniteSetTheorems, TLAPS

-----------------------------------------------------------------------------
(* The geometry of a probe sequence.                                       *)

(* Every bucket is on the probe sequence of every key, exactly once.       *)
LEMMA SlotRange ==
  ASSUME NEW cap \in Nat \ {0}, NEW k \in Keys, NEW n \in Nat
  PROVE  Slot(k, cap, n) \in 0..cap-1
<1>1. Hash[k] \in Nat
  BY KeysAssumption
<1>2. Hash[k] % cap \in Nat
  BY <1>1
<1>3. QED
  BY <1>2 DEF Slot

LEMMA SlotReachesAll ==
  ASSUME NEW cap \in Nat \ {0}, NEW k \in Keys, NEW i \in 0..cap-1
  PROVE  \E n \in 0..cap-1 : Slot(k, cap, n) = i
<1> DEFINE h == Hash[k] % cap
           d == IF i >= h THEN i - h ELSE cap + i - h
<1>1. Hash[k] \in Nat
  BY KeysAssumption
<1>2. h \in 0..cap-1
  BY <1>1
<1> HIDE DEF h
<1>3. d \in 0..cap-1 /\ (h + d = i \/ h + d = cap + i)
  BY <1>2
<1>4. (h + d) % cap = i
  <2>1. CASE h + d = i
    BY <2>1
  <2>2. CASE h + d = cap + i
    <3>1. (cap + i) % cap = i
      OBVIOUS
    <3>2. QED
      BY <2>2, <3>1
  <2>3. QED
    BY <1>3, <2>1, <2>2
<1>5. Slot(k, cap, d) = i
  BY <1>4 DEF Slot, h
<1>6. QED
  BY <1>3, <1>5

LEMMA SlotInjective ==
  ASSUME NEW cap \in Nat \ {0}, NEW k \in Keys,
         NEW m \in 0..cap-1, NEW n \in 0..cap-1,
         Slot(k, cap, m) = Slot(k, cap, n)
  PROVE  m = n
<1> DEFINE h == Hash[k] % cap
<1>1. Hash[k] \in Nat
  BY KeysAssumption
<1>2. h \in 0..cap-1
  BY <1>1
<1>3. (h + m) % cap = (h + n) % cap
  BY DEF Slot
<1> HIDE DEF h
<1>4. QED
  BY <1>2, <1>3

-----------------------------------------------------------------------------
(* Searches in an array with an empty bucket.                              *)

HasEmpty(e, cap) == \E i \in 0..cap-1 : e[i] = Empty

(* An array with fewer used buckets than buckets has an empty one.         *)
LEMMA RoomLeft ==
  ASSUME NEW cap \in Nat, NEW e \in Array(cap), Cardinality(NonEmpty(e)) < cap
  PROVE  HasEmpty(e, cap)
<1>1. DOMAIN e = 0..cap-1
  BY DEF Array
<1>2. SUFFICES ASSUME ~ HasEmpty(e, cap) PROVE FALSE
  OBVIOUS
<1>3. NonEmpty(e) = 0..cap-1
  BY <1>1, <1>2 DEF NonEmpty, HasEmpty
<1>4. Cardinality(0..cap-1) = cap
  <2>1. Cardinality(0..cap-1) = IF 0 > cap-1 THEN 0 ELSE (cap-1)-0+1
    BY FS_Interval
  <2>2. QED
    BY <2>1
<1>5. QED
  BY <1>3, <1>4

(* The used buckets of an array are finitely many.                         *)
LEMMA NonEmptyFinite ==
  ASSUME NEW cap \in Nat, NEW e \in Array(cap)
  PROVE  IsFiniteSet(NonEmpty(e)) /\ Cardinality(NonEmpty(e)) \in Nat
<1>1. NonEmpty(e) \in SUBSET (0..cap-1)
  BY DEF Array, NonEmpty
<1>2. IsFiniteSet(0..cap-1)
  BY FS_Interval
<1>3. IsFiniteSet(NonEmpty(e))
  BY <1>1, <1>2, FS_Subset
<1>4. QED
  BY <1>3, FS_CardinalityType

(* A search ends: there is a first stop, and it is the key or empty.       *)
LEMMA SearchEnds ==
  ASSUME NEW cap \in Nat \ {0}, NEW e \in Array(cap), NEW k \in Keys,
         HasEmpty(e, cap)
  PROVE  /\ Distance(e, cap, k) \in 0..cap-1
         /\ \/ e[Slot(k, cap, Distance(e, cap, k))] = Empty
            \/ e[Slot(k, cap, Distance(e, cap, k))].key = k
         /\ \A n \in 0..cap-1 :
              n < Distance(e, cap, k) => /\ e[Slot(k, cap, n)] # Empty
                                         /\ e[Slot(k, cap, n)].key # k
<1>1. Stops(e, cap, k) # {}
  <2>1. PICK i \in 0..cap-1 : e[i] = Empty
    BY DEF HasEmpty
  <2>2. PICK n \in 0..cap-1 : Slot(k, cap, n) = i
    BY SlotReachesAll
  <2>3. QED
    BY <2>1, <2>2 DEF Stops
<1>2. Stops(e, cap, k) \subseteq Nat
  BY DEF Stops
<1>3. /\ Distance(e, cap, k) \in Stops(e, cap, k)
      /\ \A n \in Stops(e, cap, k) : Distance(e, cap, k) <= n
  BY <1>1, <1>2, MinOfNaturals DEF Distance
<1>4. Distance(e, cap, k) \in 0..cap-1
  BY <1>3 DEF Stops
<1>5. ASSUME NEW n \in 0..cap-1, n < Distance(e, cap, k)
      PROVE  n \notin Stops(e, cap, k)
  BY <1>3, <1>4, <1>5
<1>6. QED
  BY <1>3, <1>4, <1>5 DEF Stops

(* The entry a search returns is in the array, and it is free or the       *)
(* key's own: a write never overwrites another key.                        *)
LEMMA FoundEntry ==
  ASSUME NEW cap \in Nat \ {0}, NEW e \in Array(cap), NEW k \in Keys,
         HasEmpty(e, cap)
  PROVE  /\ FindEntry(e, cap, k) \in 0..cap-1
         /\ \/ e[FindEntry(e, cap, k)] \in {Empty, Tombstone}
            \/ e[FindEntry(e, cap, k)].key = k
<1> DEFINE d == Distance(e, cap, k)
<1>1. /\ d \in 0..cap-1
      /\ e[Slot(k, cap, d)] = Empty \/ e[Slot(k, cap, d)].key = k
  BY SearchEnds
<1>2. Slot(k, cap, 0) \in 0..cap-1 /\ Slot(k, cap, d) \in 0..cap-1
  BY <1>1, SlotRange
<1>3. ASSUME Passed(e, cap, k) # {}
      PROVE  /\ Slot(k, cap, Max(Passed(e, cap, k))) \in 0..cap-1
             /\ e[Slot(k, cap, Max(Passed(e, cap, k)))] = Tombstone
  <2>1. Passed(e, cap, k) \subseteq 0..d
    BY <1>1 DEF Passed
  <2>2. Max(Passed(e, cap, k)) \in Passed(e, cap, k)
    BY <1>1, <1>3, <2>1, MaxOfNaturals
  <2>3. QED
    BY <1>1, <2>1, <2>2, SlotRange DEF Passed
<1>4. /\ Probing(e, cap, k) \in 0..cap-1
      /\ \/ e[Probing(e, cap, k)] \in {Empty, Tombstone}
         \/ e[Probing(e, cap, k)].key = k
  BY <1>1, <1>2, <1>3 DEF Probing
<1>5. QED
  BY <1>2, <1>4 DEF FindEntry

(* Writing an entry with a key uses one more bucket exactly when the       *)
(* bucket was empty.                                                       *)
LEMMA StoreCounts ==
  ASSUME NEW cap \in Nat, NEW e \in Array(cap), NEW i \in 0..cap-1,
         NEW b \in Bucket, b # Empty
  PROVE  /\ [e EXCEPT ![i] = b] \in Array(cap)
         /\ Cardinality(NonEmpty([e EXCEPT ![i] = b])) =
              IF e[i] = Empty THEN Cardinality(NonEmpty(e)) + 1
                              ELSE Cardinality(NonEmpty(e))
<1>1. [e EXCEPT ![i] = b] \in Array(cap)
  BY DEF Array
<1>2. NonEmpty([e EXCEPT ![i] = b]) = NonEmpty(e) \cup {i}
  BY DEF Array, NonEmpty
<1>3. i \in NonEmpty(e) <=> e[i] # Empty
  BY DEF Array, NonEmpty
<1>4. QED
  BY <1>1, <1>2, <1>3, NonEmptyFinite, FS_AddElement

(* A new array has only empty buckets.                                     *)
LEMMA EmptyArrayFacts ==
  ASSUME NEW cap \in Nat
  PROVE  /\ EmptyArray(cap) \in Array(cap)
         /\ NonEmpty(EmptyArray(cap)) = {}
         /\ Cardinality(NonEmpty(EmptyArray(cap))) = 0
         /\ cap > 0 => HasEmpty(EmptyArray(cap), cap)
<1>1. EmptyArray(cap) \in Array(cap)
  BY DEF EmptyArray, Array, Bucket
<1>2. NonEmpty(EmptyArray(cap)) = {}
  BY DEF EmptyArray, NonEmpty
<1>3. cap > 0 => HasEmpty(EmptyArray(cap), cap)
  <2>1. cap > 0 => 0 \in 0..cap-1
    OBVIOUS
  <2>2. QED
    BY <2>1 DEF EmptyArray, HasEmpty
<1>4. QED
  BY <1>1, <1>2, <1>3, FS_EmptySet
-----------------------------------------------------------------------------
(* The load invariant.                                                     *)

(* What makes the two properties below inductive: while no array is being  *)
(* filled the counter respects the load factor, so the array has room; and *)
(* while one is, the counter is at most the number of old buckets visited, *)
(* which is less than half of the new array.                               *)
Load ==
  /\ capacity = 0 \/ capacity >= MinCapacity
  /\ ~Growing => next = 0
  /\ ~Growing => 4 * count <= 3 * capacity
  /\ Growing => count <= next

LoadInv == TypeOK /\ Load /\ CountCoversBuckets /\ AlwaysAnEmptyEntry

(* A table that was just written to: shared by the two ways a write ends.  *)
LEMMA StoreKeepsLoad ==
  ASSUME NEW cap \in Nat \ {0}, NEW e \in Array(cap), NEW cnt \in Nat,
         NEW b \in Bucket, b.key \in Keys,
         Cardinality(NonEmpty(e)) <= cnt, 4 * (cnt + 1) <= 3 * cap,
         Store(e, cap, cnt, b)
  PROVE  /\ capacity' = cap
         /\ items' \in Array(cap)
         /\ count' \in Nat
         /\ 4 * count' <= 3 * cap
         /\ Cardinality(NonEmpty(items')) <= count'
         /\ HasEmpty(items', cap)
<1> DEFINE i == FindEntry(e, cap, b.key)
<1>0. Cardinality(NonEmpty(e)) \in Nat
  BY NonEmptyFinite
<1>1. HasEmpty(e, cap)
  BY <1>0, RoomLeft
<1>2. i \in 0..cap-1
  BY <1>1, FoundEntry
<1>3. b # Empty
  BY KeysAssumption DEF Empty
<1> HIDE DEF i
<1>4. /\ items' \in Array(cap)
      /\ Cardinality(NonEmpty(items')) =
           IF e[i] = Empty THEN Cardinality(NonEmpty(e)) + 1
                           ELSE Cardinality(NonEmpty(e))
  <2> DEFINE f == [e EXCEPT ![i] = b]
  <2>1. /\ f \in Array(cap)
        /\ Cardinality(NonEmpty(f)) =
             IF e[i] = Empty THEN Cardinality(NonEmpty(e)) + 1
                             ELSE Cardinality(NonEmpty(e))
    BY <1>2, <1>3, StoreCounts
  <2>2. items' = f
    BY DEF Store, i
  <2> HIDE DEF f
  <2>3. QED
    BY <2>1, <2>2
<1>5. count' = IF e[i] = Empty THEN cnt + 1 ELSE cnt
  BY DEF Store, CountOf, i
<1>6. count' \in Nat /\ 4 * count' <= 3 * cap
  BY <1>5
<1>7. Cardinality(NonEmpty(items')) <= count'
  BY <1>0, <1>4, <1>5
<1>8. Cardinality(NonEmpty(items')) < cap
  BY <1>0, <1>4, <1>6, <1>7
<1>9. HasEmpty(items', cap)
  BY <1>4, <1>8, RoomLeft
<1>10. QED
  BY <1>4, <1>6, <1>7, <1>9 DEF Store

LEMMA InitLoad == Init => LoadInv
<1> SUFFICES ASSUME Init PROVE LoadInv
  OBVIOUS
<1>1. /\ EmptyArray(0) \in Array(0)
      /\ Cardinality(NonEmpty(EmptyArray(0))) = 0
  BY EmptyArrayFacts
<1>2. Empty \in Bucket
  BY DEF Bucket
<1>3. QED
  BY <1>1, <1>2, CapacityAssumption
     DEF Init, LoadInv, TypeOK, Load, CountCoversBuckets, AlwaysAnEmptyEntry,
         Growing, NoArray

LEMMA SetValueKeepsLoad ==
  ASSUME LoadInv, NEW k \in Keys, NEW v \in Values, SetValue(k, v)
  PROVE  LoadInv'
<1> DEFINE b == [key |-> k, value |-> v]
<1>1. /\ ~Growing /\ 4 * (count + 1) <= 3 * capacity
      /\ Store(items, capacity, count, b)
      /\ UNCHANGED growth
  BY DEF SetValue, Overloaded, LoadInv, TypeOK
<1>2. /\ capacity \in Nat \ {0} /\ items \in Array(capacity) /\ count \in Nat
      /\ Cardinality(NonEmpty(items)) <= count
  BY <1>1 DEF LoadInv, TypeOK, CountCoversBuckets
<1>3. b \in Bucket /\ b.key \in Keys
  BY DEF Bucket
<1> HIDE DEF b
<1>4. /\ capacity' = capacity
      /\ items' \in Array(capacity)
      /\ count' \in Nat
      /\ 4 * count' <= 3 * capacity
      /\ Cardinality(NonEmpty(items')) <= count'
      /\ HasEmpty(items', capacity)
  BY <1>1, <1>2, <1>3, StoreKeepsLoad
<1>5. QED
  BY <1>1, <1>2, <1>4
     DEF LoadInv, TypeOK, Load, CountCoversBuckets, AlwaysAnEmptyEntry, Growing,
         growth, HasEmpty

LEMMA BeginGrowKeepsLoad ==
  ASSUME LoadInv, NEW k \in Keys, NEW v \in Values, BeginGrow(k, v)
  PROVE  LoadInv'
<1> DEFINE nc == GrownCapacity(capacity)
<1>1. capacity \in Nat /\ (capacity = 0 \/ capacity >= MinCapacity)
  BY DEF LoadInv, TypeOK, Load
<1>2. /\ nc \in Nat /\ nc >= 2 /\ nc >= MinCapacity /\ nc >= 2 * capacity
  BY <1>1, CapacityAssumption DEF GrownCapacity
<1> HIDE DEF nc
<1>3. newcap' = nc /\ fresh' = EmptyArray(nc) /\ next' = 0 /\ count' = 0
      /\ pending' = [key |-> k, value |-> v]
      /\ items' = items /\ capacity' = capacity
  BY DEF BeginGrow, nc
<1>4. /\ EmptyArray(nc) \in Array(nc)
      /\ Cardinality(NonEmpty(EmptyArray(nc))) = 0
      /\ HasEmpty(EmptyArray(nc), nc)
  BY <1>2, EmptyArrayFacts
<1>5. pending' \in Bucket /\ pending'.key \in Keys
  BY <1>3 DEF Bucket
<1>6. TypeOK'
  BY <1>1, <1>2, <1>3, <1>4, <1>5 DEF LoadInv, TypeOK, Growing
<1>7. QED
  BY <1>1, <1>2, <1>3, <1>4, <1>6
     DEF LoadInv, Load, CountCoversBuckets, AlwaysAnEmptyEntry, Growing, HasEmpty

LEMMA RehashKeepsLoad ==
  ASSUME LoadInv, Rehash
  PROVE  LoadInv'
<1>1. /\ Growing /\ next < capacity /\ next' = next + 1
      /\ UNCHANGED <<items, capacity, newcap, pending>>
  BY DEF Rehash
<1>2. /\ newcap \in Nat \ {0} /\ fresh \in Array(newcap)
      /\ newcap >= 2 * capacity /\ capacity \in Nat /\ next \in 0..capacity
      /\ count \in Nat /\ count <= next
      /\ Cardinality(NonEmpty(fresh)) <= count
      /\ HasEmpty(fresh, newcap)
      /\ items \in Array(capacity)
  BY <1>1 DEF LoadInv, TypeOK, Load, CountCoversBuckets, AlwaysAnEmptyEntry,
              Growing, HasEmpty
<1>3. CASE items[next].key = NoKey
  BY <1>1, <1>2, <1>3
     DEF Rehash, LoadInv, TypeOK, Load, CountCoversBuckets, AlwaysAnEmptyEntry,
         Growing
<1>4. CASE items[next].key # NoKey
  <2> DEFINE b == items[next]
             i == FindEntry(fresh, newcap, b.key)
  <2>1. b \in Bucket /\ b.key \in Keys /\ b # Empty
    BY <1>1, <1>2, <1>4 DEF Array, Bucket, Empty, Tombstone
  <2>2. fresh' = [fresh EXCEPT ![i] = b] /\ count' = count + 1
    BY <1>4 DEF Rehash
  <2> HIDE DEF b
  <2>3. i \in 0..newcap-1
    BY <1>2, <2>1, FoundEntry
  <2> HIDE DEF i
  <2>4. /\ fresh' \in Array(newcap)
        /\ Cardinality(NonEmpty(fresh')) =
             IF fresh[i] = Empty THEN Cardinality(NonEmpty(fresh)) + 1
                                 ELSE Cardinality(NonEmpty(fresh))
    <3> DEFINE f == [fresh EXCEPT ![i] = b]
    <3>1. /\ f \in Array(newcap)
          /\ Cardinality(NonEmpty(f)) =
               IF fresh[i] = Empty THEN Cardinality(NonEmpty(fresh)) + 1
                                   ELSE Cardinality(NonEmpty(fresh))
      BY <1>2, <2>1, <2>3, StoreCounts
    <3>2. fresh' = f
      BY <2>2
    <3> HIDE DEF f
    <3>3. QED
      BY <3>1, <3>2
  <2>5. Cardinality(NonEmpty(fresh)) \in Nat
    BY <1>2, NonEmptyFinite
  <2>6. Cardinality(NonEmpty(fresh')) <= count' /\ count' <= next'
    BY <1>1, <1>2, <2>2, <2>4, <2>5
  <2>7. Cardinality(NonEmpty(fresh')) < newcap
    BY <1>1, <1>2, <2>2, <2>4, <2>5, <2>6
  <2>8. HasEmpty(fresh', newcap)
    BY <1>2, <2>4, <2>7, RoomLeft
  <2>9. QED
    BY <1>1, <1>2, <2>2, <2>4, <2>6, <2>8
       DEF LoadInv, TypeOK, Load, CountCoversBuckets, AlwaysAnEmptyEntry,
           Growing, HasEmpty
<1>5. QED
  BY <1>3, <1>4

LEMMA PutKeepsLoad ==
  ASSUME LoadInv, Put
  PROVE  LoadInv'
<1>1. /\ Growing /\ next = capacity
      /\ Store(fresh, newcap, count, pending)
      /\ fresh' = EmptyArray(0) /\ newcap' = 0 /\ next' = 0 /\ pending' = Empty
  BY DEF Put, NoArray
<1>2. /\ newcap \in Nat \ {0} /\ newcap >= MinCapacity /\ fresh \in Array(newcap)
      /\ count \in Nat /\ Cardinality(NonEmpty(fresh)) <= count
      /\ pending \in Bucket /\ pending.key \in Keys
  BY <1>1, CapacityAssumption DEF LoadInv, TypeOK, CountCoversBuckets, Growing
<1>3. 4 * (count + 1) <= 3 * newcap
  <2>1. count <= capacity /\ capacity \in Nat /\ newcap >= 2 * capacity
        /\ (capacity = 0 \/ capacity >= 2) /\ newcap >= 2
    BY <1>1, <1>2, CapacityAssumption DEF LoadInv, TypeOK, Load
  <2>2. QED
    BY <1>2, <2>1
<1>4. /\ capacity' = newcap
      /\ items' \in Array(newcap)
      /\ count' \in Nat
      /\ 4 * count' <= 3 * newcap
      /\ Cardinality(NonEmpty(items')) <= count'
      /\ HasEmpty(items', newcap)
  BY <1>1, <1>2, <1>3, StoreKeepsLoad
<1>5. EmptyArray(0) \in Array(0) /\ Empty \in Bucket
  BY EmptyArrayFacts DEF Bucket
<1>6. TypeOK'
  BY <1>1, <1>2, <1>4, <1>5 DEF TypeOK, Growing
<1>7. QED
  BY <1>1, <1>2, <1>4, <1>6
     DEF LoadInv, Load, CountCoversBuckets, AlwaysAnEmptyEntry, Growing, HasEmpty

LEMMA DeleteKeepsLoad ==
  ASSUME LoadInv, NEW k \in Keys, Delete(k)
  PROVE  LoadInv'
<1>1. ~Growing /\ UNCHANGED <<capacity, count, growth>>
  BY DEF Delete
<1>2. CASE items' = items
  BY <1>1, <1>2
     DEF LoadInv, TypeOK, Load, CountCoversBuckets, AlwaysAnEmptyEntry, Growing,
         growth
<1>3. CASE items' # items
  <2> DEFINE i == FindEntry(items, capacity, k)
  <2>1. /\ count # 0 /\ items[i] \notin {Tombstone, Empty}
        /\ items' = [items EXCEPT ![i] = Tombstone]
    BY <1>3 DEF Delete, DeletedBucket
  <2>2. /\ capacity \in Nat \ {0} /\ items \in Array(capacity) /\ count \in Nat
        /\ Cardinality(NonEmpty(items)) <= count /\ 4 * count <= 3 * capacity
        /\ HasEmpty(items, capacity)
    BY <1>1, <2>1
       DEF LoadInv, TypeOK, Load, CountCoversBuckets, AlwaysAnEmptyEntry, HasEmpty
  <2>3. i \in 0..capacity-1
    BY <2>2, FoundEntry
  <2>4. Tombstone \in Bucket /\ Tombstone # Empty
    BY KeysAssumption DEF Bucket, Tombstone, Empty
  <2> HIDE DEF i
  <2>5. /\ items' \in Array(capacity)
        /\ Cardinality(NonEmpty(items')) = Cardinality(NonEmpty(items))
    <3> DEFINE f == [items EXCEPT ![i] = Tombstone]
    <3>1. /\ f \in Array(capacity)
          /\ Cardinality(NonEmpty(f)) =
               IF items[i] = Empty THEN Cardinality(NonEmpty(items)) + 1
                                   ELSE Cardinality(NonEmpty(items))
      BY <2>2, <2>3, <2>4, StoreCounts
    <3>2. items' = f /\ items[i] # Empty
      BY <2>1
    <3> HIDE DEF f
    <3>3. QED
      BY <3>1, <3>2
  <2>6. Cardinality(NonEmpty(items')) \in Nat
    BY <2>2, <2>5, NonEmptyFinite
  <2>7. HasEmpty(items', capacity)
    BY <2>2, <2>5, <2>6, RoomLeft
  <2>8. QED
    BY <1>1, <2>2, <2>5, <2>7
       DEF LoadInv, TypeOK, Load, CountCoversBuckets, AlwaysAnEmptyEntry, Growing,
           growth, HasEmpty
<1>4. QED
  BY <1>2, <1>3

(* A step preserves the load invariant: one case per action.               *)
LEMMA StepLoad == LoadInv /\ [Next]_vars => LoadInv'
<1> SUFFICES ASSUME LoadInv, [Next]_vars PROVE LoadInv'
  OBVIOUS
<1>1. ASSUME NEW k \in Keys, NEW v \in Values, SetValue(k, v) PROVE LoadInv'
  BY <1>1, SetValueKeepsLoad
<1>2. ASSUME NEW k \in Keys, NEW v \in Values, BeginGrow(k, v) PROVE LoadInv'
  BY <1>2, BeginGrowKeepsLoad
<1>3. CASE Rehash
  BY <1>3, RehashKeepsLoad
<1>4. CASE Put
  BY <1>4, PutKeepsLoad
<1>5. ASSUME NEW k \in Keys, GetValue(k) \/ GetKey(k) PROVE LoadInv'
  BY <1>5
     DEF GetValue, GetKey, table, growth, LoadInv, TypeOK, Load,
         CountCoversBuckets, AlwaysAnEmptyEntry, Growing
<1>6. ASSUME NEW k \in Deletable, Delete(k) PROVE LoadInv'
  BY <1>6, DeleteKeepsLoad, CapacityAssumption
<1>7. CASE Free
  <2>1. /\ EmptyArray(0) \in Array(0)
        /\ Cardinality(NonEmpty(EmptyArray(0))) = 0
    BY EmptyArrayFacts
  <2>2. /\ ~Growing /\ items' = EmptyArray(0) /\ capacity' = 0 /\ count' = 0
        /\ UNCHANGED growth
    BY <1>7 DEF Free, NoArray
  <2>3. QED
    BY <2>1, <2>2
       DEF LoadInv, TypeOK, Load, CountCoversBuckets, AlwaysAnEmptyEntry,
           Growing, growth
<1>8. CASE UNCHANGED vars
  BY <1>8
     DEF vars, LoadInv, TypeOK, Load, CountCoversBuckets, AlwaysAnEmptyEntry,
         Growing
<1>9. QED
  BY <1>1, <1>2, <1>3, <1>4, <1>5, <1>6, <1>7, <1>8 DEF Next

(* The types hold in every state, for all constants.                       *)
THEOREM TypeCorrect == Spec => []TypeOK
<1>1. LoadInv => TypeOK
  BY DEF LoadInv
<1>2. QED
  BY <1>1, InitLoad, StepLoad, PTL DEF Spec

(* However writes, deletions and growths follow each other, the array that *)
(* is searched keeps an empty bucket, so no probe loop runs for ever: the  *)
(* comment at TABLE_MAX_LOAD is right, for every hash function.            *)
THEOREM ProbingTerminates == Spec => []AlwaysAnEmptyEntry
<1>1. LoadInv => AlwaysAnEmptyEntry
  BY DEF LoadInv
<1>2. QED
  BY <1>1, InitLoad, StepLoad, PTL DEF Spec

(* The counter covers the used buckets in every state.                     *)
THEOREM CountCovers == Spec => []CountCoversBuckets
<1>1. LoadInv => CountCoversBuckets
  BY DEF LoadInv
<1>2. QED
  BY <1>1, InitLoad, StepLoad, PTL DEF Spec

-----------------------------------------------------------------------------
(* What searches find.                                                     *)

(* No bucket between the home of a key and the one it sits in is empty,    *)
(* though it may be a tombstone: a search for it gets that far.            *)
InReach(e, cap, i) ==
  \E n \in 0..cap-1 :
    /\ Slot(e[i].key, cap, n) = i
    /\ \A m \in 0..n-1 : e[Slot(e[i].key, cap, m)] # Empty

Reached(e, cap) == \A i \in Live(e) : InReach(e, cap, i)

(* A key that is written again after its home has become a tombstone goes  *)
(* there, and the bucket it had stays behind; but of the buckets away from *)
(* its home only one ever holds it.                                        *)
SingleAway(e, cap) ==
  \A k \in Keys, i, j \in 0..cap-1 :
    e[i].key = k /\ e[j].key = k /\ i # Slot(k, cap, 0) /\ j # Slot(k, cap, 0) => i = j

Probed(e, cap) == Reached(e, cap) /\ SingleAway(e, cap)

(* A bucket that is not free holds a key.                                  *)
LEMMA LiveBuckets ==
  ASSUME NEW cap \in Nat, NEW e \in Array(cap)
  PROVE  /\ DOMAIN e = 0..cap-1
         /\ \A i \in 0..cap-1 : /\ e[i] \in Bucket
                                /\ i \in Live(e) <=> e[i].key \in Keys
                                /\ e[i] \in {Empty, Tombstone} <=> e[i].key = NoKey
                                /\ e[i].key \in Keys \/ e[i].key = NoKey
<1>1. DOMAIN e = 0..cap-1 /\ \A i \in 0..cap-1 : e[i] \in Bucket
  BY DEF Array
<1>2. QED
  BY <1>1, KeysAssumption DEF Bucket, Empty, Tombstone, Live

(* A key in reach is found by the search by characters.                    *)
LEMMA ReachedIsFound ==
  ASSUME NEW cap \in Nat \ {0}, NEW e \in Array(cap), HasEmpty(e, cap),
         NEW i \in Live(e), InReach(e, cap, i)
  PROVE  HasKey(e, cap, e[i].key)
<1>1. PICK k \in Keys : k = e[i].key
  BY LiveBuckets DEF Live
<1>2. PICK n \in 0..cap-1 : Slot(k, cap, n) = i /\ \A m \in 0..n-1 : e[Slot(k, cap, m)] # Empty
  BY <1>1 DEF InReach
<1>3. PICK d \in 0..cap-1 :
        /\ d = Distance(e, cap, k)
        /\ e[Slot(k, cap, d)] = Empty \/ e[Slot(k, cap, d)].key = k
        /\ \A m \in 0..cap-1 : m < d => e[Slot(k, cap, m)].key # k
  BY SearchEnds
<1>4. d <= n
  BY <1>1, <1>2, <1>3
<1>5. e[Slot(k, cap, d)].key = k
  <2>1. CASE d = n
    BY <1>1, <1>2, <2>1
  <2>2. CASE d < n
    <3>1. d \in 0..n-1
      BY <2>2
    <3>2. QED
      BY <1>2, <1>3, <3>1
  <2>3. QED
    BY <1>4, <2>1, <2>2
<1>6. QED
  BY <1>1, <1>3, <1>5 DEF HasKey

(* Where the search of the keyed operations ends: at the home bucket, or   *)
(* past one that is another key's; and it walks over no empty bucket.      *)
LEMMA FoundPlace ==
  ASSUME NEW cap \in Nat \ {0}, NEW e \in Array(cap), NEW k \in Keys, HasEmpty(e, cap)
  PROVE  \E n \in 0..cap-1 :
           /\ FindEntry(e, cap, k) = Slot(k, cap, n)
           /\ \A m \in 0..n-1 : e[Slot(k, cap, m)] # Empty /\ e[Slot(k, cap, m)].key # k
           /\ n # 0 => e[Slot(k, cap, 0)] \notin {Empty, Tombstone}
<1>1. PICK d \in 0..cap-1 :
        /\ d = Distance(e, cap, k)
        /\ e[Slot(k, cap, d)] = Empty \/ e[Slot(k, cap, d)].key = k
        /\ \A m \in 0..cap-1 : m < d => e[Slot(k, cap, m)] # Empty /\ e[Slot(k, cap, m)].key # k
  BY SearchEnds
<1>2. CASE e[Slot(k, cap, 0)].key = k \/ e[Slot(k, cap, 0)] \in {Tombstone, Empty}
  <2>1. FindEntry(e, cap, k) = Slot(k, cap, 0)
    BY <1>2 DEF FindEntry
  <2>2. 0 \in 0..cap-1
    OBVIOUS
  <2>3. QED
    BY <2>1, <2>2
<1>3. CASE ~(e[Slot(k, cap, 0)].key = k \/ e[Slot(k, cap, 0)] \in {Tombstone, Empty})
  <2>1. FindEntry(e, cap, k) = Probing(e, cap, k)
    BY <1>3 DEF FindEntry
  <2>2. PICK n \in 0..d : Probing(e, cap, k) = Slot(k, cap, n)
    <3>1. CASE e[Slot(k, cap, d)] = Empty /\ Passed(e, cap, k) # {}
      <4>1. Passed(e, cap, k) \subseteq 0..d
        BY <1>1 DEF Passed
      <4>2. Max(Passed(e, cap, k)) \in Passed(e, cap, k)
        BY <1>1, <3>1, <4>1, MaxOfNaturals
      <4>3. Probing(e, cap, k) = Slot(k, cap, Max(Passed(e, cap, k)))
        BY <1>1, <3>1 DEF Probing
      <4>4. QED
        BY <4>1, <4>2, <4>3
    <3>2. CASE ~(e[Slot(k, cap, d)] = Empty /\ Passed(e, cap, k) # {})
      BY <1>1, <3>2 DEF Probing
    <3>3. QED
      BY <3>1, <3>2
  <2>3. n \in 0..cap-1 /\ \A m \in 0..n-1 : m \in 0..cap-1 /\ m < d
    BY <2>2
  <2>4. QED
    BY <1>1, <1>3, <2>1, <2>2, <2>3
<1>4. QED
  BY <1>2, <1>3

(* Past a home bucket that is another key's, the search finds a key that   *)
(* is in reach.                                                            *)
LEMMA SearchMeetsKey ==
  ASSUME NEW cap \in Nat \ {0}, NEW e \in Array(cap), NEW k \in Keys, HasEmpty(e, cap),
         HasKey(e, cap, k), e[Slot(k, cap, 0)] \notin {Empty, Tombstone}
  PROVE  e[FindEntry(e, cap, k)].key = k
<1>1. CASE e[Slot(k, cap, 0)].key = k
  BY <1>1 DEF FindEntry
<1>2. CASE e[Slot(k, cap, 0)].key # k
  <2>1. FindEntry(e, cap, k) = Probing(e, cap, k)
    BY <1>2 DEF FindEntry
  <2>2. e[Slot(k, cap, Distance(e, cap, k))].key = k
    BY DEF HasKey
  <2>3. e[Slot(k, cap, Distance(e, cap, k))] # Empty
    BY <2>2, KeysAssumption DEF Empty
  <2>4. Probing(e, cap, k) = Slot(k, cap, Distance(e, cap, k))
    BY <2>3 DEF Probing
  <2>5. QED
    BY <2>1, <2>2, <2>4
<1>3. QED
  BY <1>1, <1>2

(* Another bucket keeps its key in reach when one that does not become     *)
(* empty is written.                                                       *)
LEMMA ReachStays ==
  ASSUME NEW cap \in Nat, NEW e \in Array(cap), NEW i \in 0..cap-1, NEW b \in Bucket, b # Empty,
         NEW j \in 0..cap-1, j # i, InReach(e, cap, j)
  PROVE  InReach([e EXCEPT ![i] = b], cap, j)
<1>1. PICK f : f = [e EXCEPT ![i] = b]
  OBVIOUS
<1>2. f[j] = e[j] /\ \A x \in 0..cap-1 : f[x] = IF x = i THEN b ELSE e[x]
  BY <1>1 DEF Array
<1>3. DOMAIN e = 0..cap-1 /\ DOMAIN f = 0..cap-1
  BY <1>1 DEF Array
<1>4. \A x : e[x] # Empty => f[x] # Empty
  BY <1>1, <1>3
<1>5. InReach(f, cap, j)
  BY <1>2, <1>4 DEF InReach
<1>6. QED
  BY <1>1, <1>5

(* A write where the search for its key ends keeps all keys in reach, and  *)
(* makes no second copy away from home.                                    *)
LEMMA StoreKeepsProbed ==
  ASSUME NEW cap \in Nat \ {0}, NEW e \in Array(cap), HasEmpty(e, cap), Probed(e, cap),
         NEW b \in Bucket, b.key \in Keys
  PROVE  Probed([e EXCEPT ![FindEntry(e, cap, b.key)] = b], cap)
<1>1. PICK k \in Keys : k = b.key
  OBVIOUS
<1>2. PICK i : i = FindEntry(e, cap, k)
  OBVIOUS
<1>3. i \in 0..cap-1 /\ (e[i] \in {Empty, Tombstone} \/ e[i].key = k)
  BY <1>2, FoundEntry
<1>4. PICK f : f = [e EXCEPT ![i] = b]
  OBVIOUS
<1>5. /\ b # Empty /\ DOMAIN e = 0..cap-1 /\ DOMAIN f = 0..cap-1
      /\ f[i] = b /\ \A j \in 0..cap-1 : j # i => f[j] = e[j]
  BY <1>1, <1>3, <1>4, KeysAssumption DEF Array, Empty
<1>6. PICK n \in 0..cap-1 :
        /\ i = Slot(k, cap, n)
        /\ \A m \in 0..n-1 : e[Slot(k, cap, m)] # Empty /\ e[Slot(k, cap, m)].key # k
        /\ n # 0 => e[Slot(k, cap, 0)] \notin {Empty, Tombstone}
  BY <1>2, FoundPlace
<1>7. Reached(f, cap)
  <2>1. ASSUME NEW j \in Live(f) PROVE InReach(f, cap, j)
    <3>1. j \in 0..cap-1
      BY <1>5 DEF Live
    <3>2. CASE j = i
      <4>1. \A m \in 0..n-1 : Slot(k, cap, m) \in 0..cap-1 /\ Slot(k, cap, m) # i
        BY <1>6, <1>3, SlotRange, SlotInjective
      <4>2. \A m \in 0..n-1 : f[Slot(k, cap, m)] # Empty
        BY <1>5, <1>6, <4>1
      <4>3. QED
        BY <1>1, <1>5, <1>6, <3>2, <4>2 DEF InReach
    <3>3. CASE j # i
      <4>1. j \in Live(e)
        BY <1>5, <3>1, <3>3 DEF Live
      <4>2. InReach(e, cap, j)
        BY <4>1 DEF Probed, Reached
      <4>3. QED
        BY <1>3, <1>4, <1>5, <3>1, <3>3, <4>2, ReachStays
    <3>4. QED
      BY <3>2, <3>3
  <2>2. QED
    BY <2>1 DEF Reached
<1>8. SingleAway(f, cap)
  <2>1. SUFFICES ASSUME NEW c \in Keys, NEW x \in 0..cap-1, NEW y \in 0..cap-1,
                        f[x].key = c, f[y].key = c, x # Slot(c, cap, 0), y # Slot(c, cap, 0)
                 PROVE  x = y
    BY DEF SingleAway
  <2>2. CASE e[x].key = c /\ e[y].key = c
    BY <2>1, <2>2 DEF Probed, SingleAway
  <2>3. CASE ~(e[x].key = c /\ e[y].key = c)
    <3>1. (x = i \/ y = i) /\ c = k /\ e[i].key # k
      BY <1>1, <1>5, <2>1, <2>3
    <3>2. e[Slot(k, cap, 0)] \notin {Empty, Tombstone}
      BY <1>6, <2>1, <3>1
    <3>3. ~HasKey(e, cap, k)
      BY <1>2, <3>1, <3>2, SearchMeetsKey
    <3>4. \A j \in 0..cap-1 : e[j].key # k
      <4>1. SUFFICES ASSUME NEW j \in 0..cap-1, e[j].key = k PROVE FALSE
        OBVIOUS
      <4>2. j \in Live(e)
        BY <4>1, LiveBuckets
      <4>3. InReach(e, cap, j)
        BY <4>2 DEF Probed, Reached
      <4>4. QED
        BY <3>3, <4>1, <4>2, <4>3, ReachedIsFound
    <3>5. QED
      BY <1>5, <2>1, <3>1, <3>4
  <2>4. QED
    BY <2>2, <2>3
<1>9. QED
  BY <1>1, <1>2, <1>4, <1>7, <1>8 DEF Probed

(* The next search finds what was written.                                 *)
LEMMA StoredIsFound ==
  ASSUME NEW cap \in Nat \ {0}, NEW e \in Array(cap), HasEmpty(e, cap),
         NEW b \in Bucket, b.key \in Keys, NEW f \in Array(cap), HasEmpty(f, cap),
         f = [e EXCEPT ![FindEntry(e, cap, b.key)] = b], Probed(f, cap)
  PROVE  f[FindEntry(f, cap, b.key)] = b /\ HasKey(f, cap, b.key)
<1>1. PICK k \in Keys : k = b.key
  OBVIOUS
<1>2. PICK i : i = FindEntry(e, cap, k)
  OBVIOUS
<1>3. i \in 0..cap-1 /\ f[i] = b /\ \A j \in 0..cap-1 : j # i => f[j] = e[j]
  BY <1>1, <1>2, FoundEntry DEF Array
<1>4. PICK n \in 0..cap-1 :
        /\ i = Slot(k, cap, n)
        /\ \A m \in 0..n-1 : e[Slot(k, cap, m)] # Empty /\ e[Slot(k, cap, m)].key # k
        /\ n # 0 => e[Slot(k, cap, 0)] \notin {Empty, Tombstone}
  BY <1>2, FoundPlace
<1>5. \A m \in 0..n-1 : Slot(k, cap, m) \in 0..cap-1 /\ Slot(k, cap, m) # i
  BY <1>4, <1>3, SlotRange, SlotInjective
<1>6. i \in Live(f) /\ f[i].key = k
  BY <1>1, <1>3, LiveBuckets
<1>7. InReach(f, cap, i)
  <2>1. \A m \in 0..n-1 : f[Slot(k, cap, m)] # Empty
    BY <1>3, <1>4, <1>5
  <2>2. QED
    BY <1>4, <1>6, <2>1 DEF InReach
<1>8. HasKey(f, cap, k)
  BY <1>6, <1>7, ReachedIsFound
<1>9. CASE n = 0
  <2>1. FindEntry(f, cap, k) = i
    BY <1>4, <1>6, <1>9 DEF FindEntry
  <2>2. QED
    BY <1>1, <1>3, <1>8, <2>1
<1>10. CASE n # 0
  <2>1. /\ f[Slot(k, cap, 0)] \notin {Empty, Tombstone}
        /\ f[Slot(k, cap, 0)].key # k /\ Slot(k, cap, 0) # i
    <3>1. 0 \in 0..n-1
      BY <1>10
    <3>2. QED
      BY <1>3, <1>4, <1>5, <1>10, <3>1
  <2>2. PICK j : j = FindEntry(f, cap, k)
    OBVIOUS
  <2>3. j \in 0..cap-1
    BY <2>2, FoundEntry
  <2>4. f[j].key = k
    BY <1>8, <2>1, <2>2, SearchMeetsKey
  <2>5. j = i
    BY <1>3, <1>6, <2>1, <2>3, <2>4 DEF Probed, SingleAway
  <2>6. QED
    BY <1>1, <1>3, <1>8, <2>2, <2>5
<1>11. QED
  BY <1>9, <1>10

(* A deletion keeps all other keys in reach, because it leaves a           *)
(* tombstone.                                                              *)
LEMMA DeletionKeepsProbed ==
  ASSUME NEW cap \in Nat, NEW e \in Array(cap), Probed(e, cap), NEW i \in 0..cap-1
  PROVE  Probed([e EXCEPT ![i] = Tombstone], cap)
<1>1. PICK f : f = [e EXCEPT ![i] = Tombstone]
  OBVIOUS
<1>2. Tombstone \in Bucket /\ Tombstone # Empty /\ Tombstone.key = NoKey
  BY KeysAssumption DEF Bucket, Tombstone, Empty
<1>3. /\ DOMAIN e = 0..cap-1 /\ DOMAIN f = 0..cap-1
      /\ f[i] = Tombstone /\ \A j \in 0..cap-1 : j # i => f[j] = e[j]
  BY <1>1 DEF Array
<1>4. Reached(f, cap)
  <2>1. ASSUME NEW j \in Live(f) PROVE InReach(f, cap, j)
    <3>1. j \in 0..cap-1 /\ j # i
      BY <1>2, <1>3 DEF Live
    <3>2. j \in Live(e)
      BY <1>3, <3>1 DEF Live
    <3>3. InReach(e, cap, j)
      BY <3>2 DEF Probed, Reached
    <3>4. QED
      BY <1>1, <1>2, <3>1, <3>3, ReachStays
  <2>2. QED
    BY <2>1 DEF Reached
<1>5. SingleAway(f, cap)
  <2>1. \A k \in Keys : k # NoKey
    BY KeysAssumption
  <2>2. \A k \in Keys, x \in 0..cap-1 : f[x].key = k => e[x].key = k
    BY <1>2, <1>3, <2>1
  <2>3. QED
    BY <2>2 DEF Probed, SingleAway
<1>6. QED
  BY <1>1, <1>4, <1>5 DEF Probed

(* The next search does not find what was deleted: away from home there    *)
(* was no other copy, and at home the tombstone ends the search.           *)
LEMMA DeletedIsNotFound ==
  ASSUME NEW cap \in Nat \ {0}, NEW e \in Array(cap), HasEmpty(e, cap), Probed(e, cap),
         NEW k \in Keys, NEW f \in Array(cap), HasEmpty(f, cap),
         f = [e EXCEPT ![FindEntry(e, cap, k)] = Tombstone],
         e[FindEntry(e, cap, k)] \notin {Empty, Tombstone}
  PROVE  f[FindEntry(f, cap, k)].key # k
<1>1. PICK i : i = FindEntry(e, cap, k)
  OBVIOUS
<1>2. i \in 0..cap-1 /\ e[i].key = k
  BY <1>1, FoundEntry
<1>3. f[i] = Tombstone /\ (\A j \in 0..cap-1 : j # i => f[j] = e[j]) /\ Tombstone.key # k
  BY <1>1, <1>2, KeysAssumption DEF Array, Tombstone
<1>4. PICK n \in 0..cap-1 :
        /\ i = Slot(k, cap, n)
        /\ \A m \in 0..n-1 : e[Slot(k, cap, m)] # Empty /\ e[Slot(k, cap, m)].key # k
  BY <1>1, FoundPlace
<1>5. CASE n = 0
  BY <1>3, <1>4, <1>5 DEF FindEntry
<1>6. CASE n # 0
  <2>1. Slot(k, cap, 0) \in 0..cap-1 /\ e[Slot(k, cap, 0)].key # k
    <3>1. 0 \in 0..n-1
      BY <1>6
    <3>2. QED
      BY <1>4, <3>1, SlotRange
  <2>2. i # Slot(k, cap, 0)
    BY <1>2, <2>1
  <2>3. \A j \in 0..cap-1 : f[j].key # k
    <3>1. SUFFICES ASSUME NEW j \in 0..cap-1, f[j].key = k PROVE FALSE
      OBVIOUS
    <3>2. j # i /\ e[j].key = k
      BY <1>3, <3>1
    <3>3. j # Slot(k, cap, 0)
      BY <2>1, <3>2
    <3>4. QED
      BY <1>2, <2>2, <3>2, <3>3 DEF Probed, SingleAway
  <2>4. FindEntry(f, cap, k) \in 0..cap-1
    BY FoundEntry
  <2>5. QED
    BY <2>3, <2>4
<1>7. QED
  BY <1>5, <1>6

-----------------------------------------------------------------------------
(* The search invariant: what is stated of all keys below, of the array    *)
(* that is searched or of the one that is being filled, and what the last  *)
(* write or deletion left behind.                                          *)
Replied == reply.op \in {"set", "delete"} => reply.key \in Keys

SearchInv ==
  /\ LoadInv /\ Replied
  /\ Probed(items, capacity)
  /\ Growing => Probed(fresh, newcap)
  /\ DeletedIsGone

(* In a new array there is nothing to be found.                            *)
LEMMA EmptyIsProbed == \A cap \in Nat : Probed(EmptyArray(cap), cap)
<1>1. ASSUME NEW cap \in Nat PROVE Probed(EmptyArray(cap), cap)
  <2>1. \A i \in 0..cap-1 : EmptyArray(cap)[i].key = NoKey
    BY DEF EmptyArray, Empty
  <2>2. DOMAIN EmptyArray(cap) = 0..cap-1
    BY DEF EmptyArray
  <2>3. QED
    BY <2>1, <2>2, KeysAssumption DEF Probed, Reached, SingleAway, Live
<1>2. QED
  BY <1>1

(* Nothing is stored at first.                                             *)
LEMMA InitSearch == Init => SearchInv
<1> SUFFICES ASSUME Init PROVE SearchInv
  OBVIOUS
<1>1. LoadInv
  BY InitLoad
<1>2. Probed(items, capacity) /\ ~Growing /\ reply.op = "none"
  BY EmptyIsProbed DEF Init, NoArray, Growing, Answer
<1>3. QED
  BY <1>1, <1>2 DEF SearchInv, Replied, DeletedIsGone

(* A write into an array of which the same holds.                          *)
LEMMA StoreKeepsSearch ==
  ASSUME NEW cap \in Nat \ {0}, NEW e \in Array(cap), NEW cnt \in Nat,
         NEW b \in Bucket, b.key \in Keys,
         Cardinality(NonEmpty(e)) <= cnt, 4 * (cnt + 1) <= 3 * cap,
         Probed(e, cap), Store(e, cap, cnt, b), LoadInv', ~Growing'
  PROVE  SearchInv' /\ SearchFinds(b.key, b.value)'
<1>1. /\ capacity' = cap /\ items' \in Array(cap) /\ count' \in Nat
      /\ Cardinality(NonEmpty(items')) <= count' /\ HasEmpty(items', cap)
  BY StoreKeepsLoad
<1>2. HasEmpty(e, cap)
  <2>1. Cardinality(NonEmpty(e)) \in Nat
    BY NonEmptyFinite
  <2>2. QED
    BY <2>1, RoomLeft
<1>3. items' = [e EXCEPT ![FindEntry(e, cap, b.key)] = b]
  BY DEF Store
<1>4. Probed(items', cap)
  BY <1>2, <1>3, StoreKeepsProbed
<1>5. items'[FindEntry(items', cap, b.key)] = b /\ HasKey(items', cap, b.key)
  BY <1>1, <1>2, <1>3, <1>4, StoredIsFound
<1>6. count' # 0
  <2>1. FindEntry(items', cap, b.key) \in NonEmpty(items')
    <3>1. FindEntry(items', cap, b.key) \in DOMAIN items'
      BY <1>1, FoundEntry DEF Array
    <3>2. QED
      BY <1>5, <3>1, KeysAssumption DEF NonEmpty, Empty
  <2>2. IsFiniteSet(NonEmpty(items'))
    BY <1>1, NonEmptyFinite
  <2>3. Cardinality(NonEmpty(items')) # 0
    BY <2>1, <2>2, FS_EmptySet
  <2>4. Cardinality(NonEmpty(items')) \in Nat
    BY <1>1, NonEmptyFinite
  <2>5. QED
    BY <1>1, <2>3, <2>4
<1>7. reply'.op = "set" /\ reply'.key = b.key
  BY DEF Store, Answer
<1>8. DeletedIsGone' /\ Replied'
  BY <1>7 DEF DeletedIsGone, Replied
<1>9. SearchFinds(b.key, b.value)'
  <2>1. b = [key |-> b.key, value |-> b.value]
    BY DEF Bucket, Empty, Tombstone
  <2>2. QED
    BY <1>1, <1>5, <1>6, <2>1 DEF SearchFinds
<1>10. QED
  BY <1>1, <1>4, <1>8, <1>9 DEF SearchInv

(* A write that fits into the array.                                       *)
LEMMA SetValueKeepsSearch ==
  ASSUME SearchInv, NEW k \in Keys, NEW v \in Values, SetValue(k, v)
  PROVE  SearchInv' /\ SearchFinds(k, v)'
<1>1. LoadInv /\ LoadInv'
  BY SetValueKeepsLoad DEF SearchInv
<1>2. PICK b \in Bucket : b = [key |-> k, value |-> v]
  BY DEF Bucket
<1>3. /\ ~Growing /\ ~Growing' /\ 4 * (count + 1) <= 3 * capacity
      /\ Store(items, capacity, count, b) /\ b.key \in Keys
  BY <1>1, <1>2 DEF SetValue, Overloaded, LoadInv, TypeOK, growth, Growing
<1>4. /\ capacity \in Nat \ {0} /\ items \in Array(capacity) /\ count \in Nat
      /\ Cardinality(NonEmpty(items)) <= count
  BY <1>1, <1>3 DEF LoadInv, TypeOK, CountCoversBuckets
<1>5. Probed(items, capacity)
  BY DEF SearchInv
<1>6. SearchInv' /\ SearchFinds(b.key, b.value)'
  BY <1>1, <1>3, <1>4, <1>5, StoreKeepsSearch
<1>7. QED
  BY <1>2, <1>6

(* A write that does not: the new array is empty.                          *)
LEMMA BeginGrowKeepsSearch ==
  ASSUME SearchInv, NEW k \in Keys, NEW v \in Values, BeginGrow(k, v)
  PROVE  SearchInv'
<1>1. LoadInv' /\ newcap' \in Nat
  <2>1. LoadInv'
    BY BeginGrowKeepsLoad DEF SearchInv
  <2>2. QED
    BY <2>1 DEF LoadInv, TypeOK
<1>2. fresh' = EmptyArray(newcap') /\ UNCHANGED <<items, capacity, reply>>
  BY DEF BeginGrow
<1>3. Probed(fresh', newcap')
  BY <1>1, <1>2, EmptyIsProbed
<1>4. Growing'
  BY CapacityAssumption DEF BeginGrow, GrownCapacity, Growing, SearchInv, LoadInv, TypeOK
<1>5. QED
  BY <1>1, <1>2, <1>3, <1>4 DEF SearchInv, Replied, DeletedIsGone

(* Moving a bucket is a write into the new array.                          *)
LEMMA RehashKeepsSearch ==
  ASSUME SearchInv, Rehash
  PROVE  SearchInv'
<1>1. LoadInv /\ LoadInv'
  BY RehashKeepsLoad DEF SearchInv
<1>2. /\ Growing /\ Growing' /\ next < capacity
      /\ UNCHANGED <<items, capacity, newcap, reply>>
  BY DEF Rehash, Growing
<1>3. /\ newcap \in Nat \ {0} /\ fresh \in Array(newcap) /\ HasEmpty(fresh, newcap)
      /\ next \in 0..capacity-1 /\ items \in Array(capacity) /\ capacity \in Nat
  BY <1>1, <1>2 DEF LoadInv, TypeOK, AlwaysAnEmptyEntry, Growing, HasEmpty
<1>4. Probed(fresh, newcap)
  BY <1>2 DEF SearchInv
<1>5. Probed(fresh', newcap)
  <2>1. CASE items[next].key = NoKey
    BY <1>4, <2>1 DEF Rehash
  <2>2. CASE items[next].key # NoKey
    <3>1. PICK b \in Bucket : b = items[next] /\ b.key \in Keys
      BY <1>3, <2>2, LiveBuckets
    <3>2. fresh' = [fresh EXCEPT ![FindEntry(fresh, newcap, b.key)] = b]
      BY <2>2, <3>1 DEF Rehash
    <3>3. QED
      BY <1>3, <1>4, <3>1, <3>2, StoreKeepsProbed
  <2>3. QED
    BY <2>1, <2>2
<1>6. QED
  BY <1>1, <1>2, <1>5 DEF SearchInv, Replied, DeletedIsGone

(* So is the write that made the array grow.                               *)
LEMMA PutKeepsSearch ==
  ASSUME SearchInv, Put
  PROVE  SearchInv' /\ \A k \in Keys, v \in Values :
                         pending = [key |-> k, value |-> v] => SearchFinds(k, v)'
<1>1. LoadInv /\ LoadInv'
  BY PutKeepsLoad DEF SearchInv
<1>2. /\ Growing /\ ~Growing' /\ next = capacity /\ Store(fresh, newcap, count, pending)
  BY DEF Put, Growing
<1>3. /\ newcap \in Nat \ {0} /\ newcap >= MinCapacity /\ fresh \in Array(newcap)
      /\ count \in Nat /\ Cardinality(NonEmpty(fresh)) <= count
      /\ pending \in Bucket /\ pending.key \in Keys
  BY <1>1, <1>2, CapacityAssumption DEF LoadInv, TypeOK, CountCoversBuckets, Growing
<1>4. 4 * (count + 1) <= 3 * newcap
  <2>1. count <= capacity /\ capacity \in Nat /\ newcap >= 2 * capacity
        /\ (capacity = 0 \/ capacity >= 2) /\ newcap >= 2
    BY <1>1, <1>2, <1>3, CapacityAssumption DEF LoadInv, TypeOK, Load
  <2>2. QED
    BY <1>3, <2>1
<1>5. Probed(fresh, newcap)
  BY <1>2 DEF SearchInv
<1>6. PICK b \in Bucket : b = pending
  BY <1>3
<1>7. SearchInv' /\ SearchFinds(b.key, b.value)'
  BY <1>1, <1>2, <1>3, <1>4, <1>5, <1>6, StoreKeepsSearch
<1>8. QED
  BY <1>6, <1>7

(* A deletion.                                                             *)
LEMMA DeleteKeepsSearch ==
  ASSUME SearchInv, NEW k \in Keys, Delete(k)
  PROVE  SearchInv'
<1>1. LoadInv /\ LoadInv' /\ Probed(items, capacity)
  BY DeleteKeepsLoad DEF SearchInv
<1>2. ~Growing /\ ~Growing' /\ UNCHANGED <<capacity, count>>
  BY DEF Delete, growth, Growing
<1>3. reply'.op = "delete" /\ reply'.key = k
  BY DEF Delete, Answer
<1>4. CASE count = 0
  <2>1. items' = items
    BY <1>4 DEF Delete
  <2>2. QED
    BY <1>1, <1>2, <1>3, <1>4, <2>1
       DEF SearchInv, Replied, DeletedIsGone, Findable
<1>5. CASE count # 0
  <2>1. /\ capacity \in Nat \ {0} /\ items \in Array(capacity) /\ HasEmpty(items, capacity)
        /\ items' \in Array(capacity) /\ HasEmpty(items', capacity)
    BY <1>1, <1>2, <1>5 DEF LoadInv, TypeOK, Load, AlwaysAnEmptyEntry, HasEmpty
  <2>2. PICK i : i = FindEntry(items, capacity, k)
    OBVIOUS
  <2>3. i \in 0..capacity-1
    BY <2>1, <2>2, FoundEntry
  <2>4. Probed(items', capacity) /\ items'[FindEntry(items', capacity, k)].key # k
    <3>1. CASE items[i] \in {Tombstone, Empty}
      <4>1. items' = items
        BY <1>5, <2>2, <3>1 DEF Delete
      <4>2. items[i].key # k
        BY <3>1, KeysAssumption DEF Tombstone, Empty
      <4>3. QED
        BY <1>1, <2>2, <4>1, <4>2
    <3>2. CASE items[i] \notin {Tombstone, Empty}
      <4>1. items' = [items EXCEPT ![i] = Tombstone]
        BY <1>5, <2>2, <3>2 DEF Delete, DeletedBucket
      <4>2. Probed(items', capacity)
        BY <1>1, <2>1, <2>3, <4>1, DeletionKeepsProbed
      <4>3. items'[FindEntry(items', capacity, k)].key # k
        BY <1>1, <2>1, <2>2, <3>2, <4>1, DeletedIsNotFound
      <4>4. QED
        BY <4>2, <4>3
    <3>3. QED
      BY <3>1, <3>2
  <2>5. QED
    BY <1>1, <1>2, <1>3, <2>4
       DEF SearchInv, Replied, DeletedIsGone, Findable
<1>6. QED
  BY <1>4, <1>5

(* Reads, and the end of the table.                                        *)
LEMMA OthersKeepSearch ==
  ASSUME SearchInv, LoadInv',
         \/ \E k \in Keys : GetValue(k) \/ GetKey(k)
         \/ Free
         \/ UNCHANGED vars
  PROVE  SearchInv'
<1>1. CASE \E k \in Keys : GetValue(k) \/ GetKey(k)
  <2>1. UNCHANGED <<items, capacity, newcap, fresh>> /\ reply'.op \in {"get", "lookup"}
    BY <1>1 DEF GetValue, GetKey, table, growth, Answer
  <2>2. QED
    BY <2>1 DEF SearchInv, Replied, DeletedIsGone, Growing
<1>2. CASE Free
  <2>1. items' = EmptyArray(0) /\ capacity' = 0 /\ ~Growing' /\ reply'.op = "free"
    BY <1>2 DEF Free, NoArray, Answer, growth, Growing
  <2>2. Probed(items', capacity')
    BY <2>1, EmptyIsProbed
  <2>3. QED
    BY <2>1, <2>2 DEF SearchInv, Replied, DeletedIsGone
<1>3. CASE UNCHANGED vars
  BY <1>3 DEF vars, SearchInv, Replied, DeletedIsGone, Findable, Growing
<1>4. QED
  BY <1>1, <1>2, <1>3

(* Every step keeps the search invariant.                                  *)
LEMMA StepSearch == SearchInv /\ [Next]_vars => SearchInv'
<1> SUFFICES ASSUME SearchInv, [Next]_vars PROVE SearchInv'
  OBVIOUS
<1>1. ASSUME NEW k \in Keys, NEW v \in Values, SetValue(k, v) PROVE SearchInv'
  BY <1>1, SetValueKeepsSearch
<1>2. ASSUME NEW k \in Keys, NEW v \in Values, BeginGrow(k, v) PROVE SearchInv'
  BY <1>2, BeginGrowKeepsSearch
<1>3. CASE Rehash
  BY <1>3, RehashKeepsSearch
<1>4. CASE Put
  BY <1>4, PutKeepsSearch
<1>5. ASSUME NEW k \in Deletable, Delete(k) PROVE SearchInv'
  BY <1>5, DeleteKeepsSearch, CapacityAssumption
<1>6. LoadInv'
  BY StepLoad DEF SearchInv
<1>7. QED
  BY <1>1, <1>2, <1>3, <1>4, <1>5, <1>6, OthersKeepSearch DEF Next

(* So it holds in every state.                                             *)
LEMMA SearchHolds == Spec => []SearchInv
  BY InitSearch, StepSearch, PTL DEF Spec

(* A key that sits in the array is found by the search by characters,      *)
(* however many deletions left tombstones before it, for every hash        *)
(* function: the loop of hash_table_get_key stops at it.                   *)
THEOREM StoredAreFound == Spec => []StoredKeysAreFound
<1>1. SearchInv => StoredKeysAreFound
  <2>1. SUFFICES ASSUME SearchInv, ~Growing, NEW i \in Live(items)
                 PROVE  HasKey(items, capacity, items[i].key)
    BY DEF StoredKeysAreFound
  <2>2. capacity \in Nat /\ items \in Array(capacity) /\ InReach(items, capacity, i)
    BY <2>1 DEF SearchInv, LoadInv, TypeOK, Probed, Reached
  <2>3. i \in 0..capacity-1
    BY <2>1, <2>2, LiveBuckets DEF Live
  <2>4. capacity # 0 /\ HasEmpty(items, capacity)
    <3>1. AlwaysAnEmptyEntry
      BY <2>1 DEF SearchInv, LoadInv
    <3>2. capacity > 0
      BY <2>2, <2>3
    <3>3. QED
      BY <3>1, <3>2 DEF AlwaysAnEmptyEntry, HasEmpty
  <2>5. QED
    BY <2>1, <2>2, <2>4, ReachedIsFound
<1>2. QED
  BY <1>1, SearchHolds, PTL

(* The search that follows a write finds the entry just written and not a  *)
(* second copy of the key that stayed behind, and the search by characters *)
(* finds the key, for every set of keys, of values and every hash function.*)
THEOREM WritesAreVisible == Spec => LastWriteVisible
<1> DEFINE Seen == \A k \in Keys, v \in Values :
                     SetValue(k, v) \/ (Put /\ pending = [key |-> k, value |-> v]) => SearchFinds(k, v)'
<1>1. SearchInv /\ [Next]_vars => [Seen]_vars
  <2>1. SUFFICES ASSUME SearchInv, NEW k \in Keys, NEW v \in Values,
                        SetValue(k, v) \/ (Put /\ pending = [key |-> k, value |-> v])
                 PROVE  SearchFinds(k, v)'
    OBVIOUS
  <2>2. CASE SetValue(k, v)
    BY <2>1, <2>2, SetValueKeepsSearch
  <2>3. CASE Put /\ pending = [key |-> k, value |-> v]
    BY <2>1, <2>3, PutKeepsSearch
  <2>4. QED
    BY <2>1, <2>2, <2>3
<1>2. QED
  BY <1>1, SearchHolds, PTL DEF Spec, LastWriteVisible

(* The search that follows a deletion does not find the key, second copies *)
(* included.  A later write of another key may bring one back into reach.  *)
THEOREM DeletedAreGone == Spec => []DeletedIsGone
<1>1. SearchInv => DeletedIsGone
  BY DEF SearchInv
<1>2. QED
  BY <1>1, SearchHolds, PTL

-----------------------------------------------------------------------------
(* A table whose owner never deletes implements the abstract map, for      *)
(* every set of keys and values and every hash function: what the fields   *)
(* of instances, the methods of classes and the globals of a program that  *)
(* makes no error rely on.                                                 *)

(* Arrays without tombstones in which every key is where its search ends.  *)

NoTombstone(e) == \A i \in DOMAIN e : e[i] = Empty \/ e[i].key \in Keys

FirstStop(e, cap, k) == Slot(k, cap, Distance(e, cap, k))

Placed(e, cap) ==
  \A i \in 0..cap-1 : e[i].key \in Keys => i = FirstStop(e, cap, e[i].key)

Good(e, cap) ==
  e \in Array(cap) /\ NoTombstone(e) /\ Placed(e, cap) /\ HasEmpty(e, cap)

(* The first stop is the only distance with its defining property.         *)
LEMMA DistanceIs ==
  ASSUME NEW cap \in Nat \ {0}, NEW e \in Array(cap), NEW k \in Keys,
         NEW d \in 0..cap-1,
         e[Slot(k, cap, d)] = Empty \/ e[Slot(k, cap, d)].key = k,
         \A n \in 0..cap-1 : n < d => /\ e[Slot(k, cap, n)] # Empty
                                     /\ e[Slot(k, cap, n)].key # k
  PROVE  Distance(e, cap, k) = d
<1>1. d \in Stops(e, cap, k) /\ Stops(e, cap, k) \subseteq Nat
  BY DEF Stops
<1>2. /\ Distance(e, cap, k) \in Stops(e, cap, k)
      /\ Distance(e, cap, k) <= d
  BY <1>1, MinOfNaturals DEF Distance
<1>3. ~ (Distance(e, cap, k) < d)
  BY <1>2 DEF Stops
<1>4. QED
  BY <1>1, <1>2, <1>3

(* Without tombstones every operation's search ends at the first stop.     *)
LEMMA FindIsFirstStop ==
  ASSUME NEW cap \in Nat \ {0}, NEW e, Good(e, cap), NEW k \in Keys
  PROVE  /\ FindEntry(e, cap, k) = FirstStop(e, cap, k)
         /\ FirstStop(e, cap, k) \in 0..cap-1
         /\ \/ e[FirstStop(e, cap, k)] = Empty
            \/ e[FirstStop(e, cap, k)].key = k
<1> DEFINE d == Distance(e, cap, k)
<1>1. e \in Array(cap) /\ HasEmpty(e, cap)
  BY DEF Good
<1>2. /\ d \in 0..cap-1
      /\ e[Slot(k, cap, d)] = Empty \/ e[Slot(k, cap, d)].key = k
      /\ \A n \in 0..cap-1 : n < d => /\ e[Slot(k, cap, n)] # Empty
                                      /\ e[Slot(k, cap, n)].key # k
  BY <1>1, SearchEnds
<1>3. \A n \in 0..cap-1 : Slot(k, cap, n) \in 0..cap-1
  BY SlotRange
<1>4. \A i \in 0..cap-1 : e[i] # Tombstone
  BY KeysAssumption DEF Good, Array, NoTombstone, Tombstone, Empty
<1>5. Passed(e, cap, k) = {}
  <2>1. \A n \in 0..d-1 : n \in 0..cap-1
    BY <1>2
  <2>2. QED
    BY <1>3, <1>4, <2>1 DEF Passed
<1>6. Probing(e, cap, k) = Slot(k, cap, d)
  BY <1>5 DEF Probing
<1>7. CASE e[Slot(k, cap, 0)] = Empty \/ e[Slot(k, cap, 0)].key = k
  <2>1. d = 0
    BY <1>2, <1>7
  <2>2. FindEntry(e, cap, k) = Slot(k, cap, 0)
    BY <1>7 DEF FindEntry
  <2>3. QED
    BY <1>2, <1>3, <2>1, <2>2 DEF FirstStop
<1>8. CASE ~ (e[Slot(k, cap, 0)] = Empty \/ e[Slot(k, cap, 0)].key = k)
  <2>1. e[Slot(k, cap, 0)] # Tombstone
    BY <1>3, <1>4
  <2>2. FindEntry(e, cap, k) = Slot(k, cap, d)
    BY <1>6, <1>8, <2>1 DEF FindEntry
  <2>3. QED
    BY <1>2, <1>3, <2>2 DEF FirstStop
<1>9. QED
  BY <1>7, <1>8

(* A key is in the array exactly when its first stop holds it, and only    *)
(* there.                                                                  *)
LEMMA HoldingIs ==
  ASSUME NEW cap \in Nat \ {0}, NEW e, Good(e, cap), NEW k \in Keys
  PROVE  Holding(e, k) = IF e[FirstStop(e, cap, k)] = Empty THEN {}
                         ELSE {FirstStop(e, cap, k)}
<1>1. /\ FirstStop(e, cap, k) \in 0..cap-1
      /\ e[FirstStop(e, cap, k)] = Empty \/ e[FirstStop(e, cap, k)].key = k
  BY FindIsFirstStop
<1>2. DOMAIN e = 0..cap-1
  BY DEF Good, Array
<1>3. Empty.key # k
  BY KeysAssumption DEF Empty
<1>4. \A i \in 0..cap-1 : e[i].key = k => i = FirstStop(e, cap, k)
  BY DEF Good, Placed
<1>5. QED
  BY <1>1, <1>2, <1>3, <1>4 DEF Holding

(* Writing an entry where its search ends keeps every key where its own    *)
(* search ends.                                                            *)
LEMMA StoreKeepsGood ==
  ASSUME NEW cap \in Nat \ {0}, NEW e, Good(e, cap),
         NEW b \in Bucket, b.key \in Keys,
         NEW f, f = [e EXCEPT ![FindEntry(e, cap, b.key)] = b],
         HasEmpty(f, cap)
  PROVE  Good(f, cap)
<1> DEFINE k == b.key
           d == Distance(e, cap, k)
           i == FirstStop(e, cap, k)
<1>1. /\ i \in 0..cap-1 /\ FindEntry(e, cap, k) = i
      /\ e[i] = Empty \/ e[i].key = k
  BY FindIsFirstStop
<1>2. e \in Array(cap) /\ HasEmpty(e, cap) /\ DOMAIN e = 0..cap-1
  BY DEF Good, Array
<1>3. /\ f \in Array(cap) /\ DOMAIN f = 0..cap-1 /\ f[i] = b
      /\ \A j \in 0..cap-1 : j # i => f[j] = e[j]
  BY <1>1, <1>2 DEF Array
<1>4. b # Empty
  BY KeysAssumption DEF Empty
<1>5. NoTombstone(f)
  BY <1>1, <1>2, <1>3 DEF Good, NoTombstone
<1>6. ASSUME NEW j \in 0..cap-1, f[j].key \in Keys
      PROVE  j = FirstStop(f, cap, f[j].key)
  <2> DEFINE q  == f[j].key
             dq == Distance(e, cap, q)
  <2>1. j = FirstStop(e, cap, q)
    <3>1. CASE j = i
      BY <1>3, <3>1
    <3>2. CASE j # i
      BY <1>2, <1>3, <1>6, <3>2 DEF Good, Placed
    <3>3. QED
      BY <3>1, <3>2
  <2>2. /\ dq \in 0..cap-1 /\ j = Slot(q, cap, dq)
        /\ \A n \in 0..cap-1 : n < dq => /\ e[Slot(q, cap, n)] # Empty
                                         /\ e[Slot(q, cap, n)].key # q
    BY <1>2, <1>6, <2>1, SearchEnds DEF FirstStop
  <2>3. f[Slot(q, cap, dq)].key = q
    BY <2>2
  <2>4. ASSUME NEW n \in 0..cap-1, n < dq
        PROVE  f[Slot(q, cap, n)] # Empty /\ f[Slot(q, cap, n)].key # q
    <3>1. Slot(q, cap, n) \in 0..cap-1
      BY <1>6, SlotRange
    <3>2. Slot(q, cap, n) # j
      BY <1>6, <2>2, <2>4, SlotInjective
    <3>3. CASE Slot(q, cap, n) # i
      BY <1>3, <2>2, <2>4, <3>1, <3>3
    <3>4. CASE Slot(q, cap, n) = i
      <4>1. q # k
        <5>1. SUFFICES ASSUME q = k PROVE FALSE
          OBVIOUS
        <5>2. j = i
          BY <2>1, <5>1
        <5>3. QED
          BY <3>2, <3>4, <5>2
      <4>2. QED
        BY <1>3, <1>4, <3>4, <4>1
    <3>5. QED
      BY <3>3, <3>4
  <2> HIDE DEF dq, q
  <2>5. q \in Keys
    BY <1>6 DEF q
  <2>6. Distance(f, cap, q) = dq
    <3>1. f \in Array(cap) /\ dq \in 0..cap-1
      BY <1>3, <2>2
    <3>2. f[Slot(q, cap, dq)] = Empty \/ f[Slot(q, cap, dq)].key = q
      BY <2>3
    <3>3. \A n \in 0..cap-1 : n < dq => /\ f[Slot(q, cap, n)] # Empty
                                       /\ f[Slot(q, cap, n)].key # q
      BY <2>4
    <3>4. QED
      BY ZenonT(40), <2>5, <3>1, <3>2, <3>3, DistanceIs
  <2>7. QED
    BY <2>2, <2>6 DEF FirstStop, q
<1>7. Placed(f, cap)
  BY <1>6 DEF Placed
<1>8. QED
  BY <1>3, <1>5, <1>7 DEF Good

-----------------------------------------------------------------------------
(* The value an array gives a key.                                         *)

ValueIn(e, k) == IF Holding(e, k) = {} THEN Absent
                 ELSE e[CHOOSE i \in Holding(e, k) : TRUE].value

(* The value of a key is that of its first stop.                           *)
LEMMA ValueIs ==
  ASSUME NEW cap \in Nat \ {0}, NEW e, Good(e, cap), NEW k \in Keys
  PROVE  /\ e[FirstStop(e, cap, k)].key = k =>
              /\ ValueIn(e, k) = e[FirstStop(e, cap, k)].value
              /\ ValueIn(e, k) \in Values
              /\ ValueIn(e, k) # Absent
         /\ e[FirstStop(e, cap, k)].key # k =>
              ValueIn(e, k) = Absent /\ e[FirstStop(e, cap, k)] = Empty
<1> DEFINE i == FirstStop(e, cap, k)
<1>1. i \in 0..cap-1 /\ (e[i] = Empty \/ e[i].key = k)
  BY FindIsFirstStop
<1>2. Holding(e, k) = IF e[i] = Empty THEN {} ELSE {i}
  BY HoldingIs
<1>3. Empty.key # k
  BY KeysAssumption DEF Empty
<1>4. e[i] \in Bucket
  BY <1>1 DEF Good, Array
<1>5. ASSUME e[i].key = k PROVE e[i].value \in Values
  BY <1>3, <1>4, <1>5, KeysAssumption DEF Bucket, Empty, Tombstone
<1> HIDE DEF i
<1>6. CASE e[i].key = k
  <2>1. Holding(e, k) = {i}
    BY <1>2, <1>3, <1>6
  <2>2. ValueIn(e, k) = e[i].value
    BY <2>1 DEF ValueIn
  <2>3. QED
    BY <1>5, <1>6, <2>2, CapacityAssumption DEF i
<1>7. CASE e[i].key # k
  BY <1>1, <1>2, <1>7 DEF ValueIn, i
<1>8. QED
  BY <1>6, <1>7 DEF i

(* A write changes the value of its key and of no other.                   *)
LEMMA StoreValue ==
  ASSUME NEW cap \in Nat \ {0}, NEW e, Good(e, cap),
         NEW b \in Bucket, b.key \in Keys,
         NEW f, f = [e EXCEPT ![FindEntry(e, cap, b.key)] = b],
         NEW q \in Keys
  PROVE  ValueIn(f, q) = IF q = b.key THEN b.value ELSE ValueIn(e, q)
<1> DEFINE i == FirstStop(e, cap, b.key)
<1>1. /\ i \in 0..cap-1 /\ FindEntry(e, cap, b.key) = i
      /\ e[i] = Empty \/ e[i].key = b.key
  BY FindIsFirstStop
<1>2. DOMAIN e = 0..cap-1
  BY DEF Good, Array
<1>3. /\ DOMAIN f = 0..cap-1 /\ f[i] = b
      /\ \A j \in 0..cap-1 : j # i => f[j] = e[j]
  BY <1>1, <1>2
<1>4. Holding(e, b.key) \subseteq {i}
  BY HoldingIs
<1>5. Empty.key # q
  BY KeysAssumption DEF Empty
<1> HIDE DEF i
<1>6. CASE q = b.key
  <2>1. Holding(f, q) = {i}
    BY <1>1, <1>2, <1>3, <1>4, <1>6 DEF Holding
  <2>2. ValueIn(f, q) = f[i].value
    BY <2>1 DEF ValueIn
  <2>3. QED
    BY <1>3, <1>6, <2>2
<1>7. CASE q # b.key
  <2>1. i \notin Holding(e, q) /\ i \notin Holding(f, q)
    BY <1>1, <1>3, <1>5, <1>7 DEF Holding
  <2>2. Holding(f, q) = Holding(e, q)
    BY <1>2, <1>3, <2>1 DEF Holding
  <2>3. \A j \in Holding(e, q) : f[j] = e[j]
    BY <1>2, <1>3, <2>1 DEF Holding
  <2>4. CASE Holding(e, q) = {}
    BY <1>7, <2>2, <2>4 DEF ValueIn
  <2>5. CASE Holding(e, q) # {}
    <3> DEFINE c == CHOOSE j \in Holding(e, q) : TRUE
    <3>1. c \in Holding(e, q)
      BY <2>5
    <3>2. ValueIn(e, q) = e[c].value
      BY <2>5 DEF ValueIn
    <3>3. ValueIn(f, q) = f[c].value
      BY <2>2, <2>5 DEF ValueIn
    <3> HIDE DEF c
    <3>4. QED
      BY <1>7, <2>3, <3>1, <3>2, <3>3
  <2>6. QED
    BY <2>4, <2>5
<1>8. QED
  BY <1>6, <1>7

(* Two arrays with the same entries give every key the same value.         *)
LEMMA SameEntriesSameValue ==
  ASSUME NEW cap \in Nat \ {0}, NEW f, Good(f, cap), NEW n \in Nat, NEW e \in Array(n),
         \A i \in 0..n-1 : e[i].key \in Keys => \E j \in 0..cap-1 : f[j] = e[i],
         \A j \in 0..cap-1 : f[j].key \in Keys => \E i \in 0..n-1 : e[i] = f[j],
         NEW q \in Keys
  PROVE  ValueIn(f, q) = ValueIn(e, q)
<1> DEFINE s == FirstStop(f, cap, q)
<1>1. Holding(f, q) \subseteq {s}
  BY HoldingIs
<1> HIDE DEF s
<1>2. DOMAIN f = 0..cap-1 /\ DOMAIN e = 0..n-1
  BY DEF Good, Array
<1>3. CASE Holding(e, q) = {}
  <2>1. Holding(f, q) = {}
    BY <1>2, <1>3 DEF Holding
  <2>2. QED
    BY <1>3, <2>1 DEF ValueIn
<1>4. CASE Holding(e, q) # {}
  <2> DEFINE i == CHOOSE i \in Holding(e, q) : TRUE
  <2>1. i \in Holding(e, q)
    BY <1>4
  <2> HIDE DEF i
  <2>2. PICK j \in 0..cap-1 : f[j] = e[i]
    BY <1>2, <2>1 DEF Holding
  <2>3. Holding(f, q) = {j}
    <3>1. e[i].key = q
      BY <2>1 DEF Holding
    <3>2. j \in Holding(f, q)
      BY <1>2, <2>2, <3>1 DEF Holding
    <3>3. QED
      BY <1>1, <3>2
  <2>4. ValueIn(f, q) = f[j].value
    BY <2>3 DEF ValueIn
  <2>5. ValueIn(e, q) = e[i].value
    BY <1>4 DEF ValueIn, i
  <2>6. QED
    BY <2>2, <2>4, <2>5
<1>5. QED
  BY <1>3, <1>4

LEMMA ContentsValue == \A k \in Keys : Contents[k] = ValueIn(items, k)
BY DEF Contents, ValueIn

(* Of an empty table every value is Absent.                                *)
LEMMA NothingInEmptyArray ==
  ASSUME NEW k \in Keys
  PROVE  ValueIn(EmptyArray(0), k) = Absent
<1>1. Holding(EmptyArray(0), k) = {}
  BY DEF Holding, EmptyArray
<1>2. QED
  BY <1>1 DEF ValueIn

-----------------------------------------------------------------------------
(* The refinement.                                                         *)

(* While the new array is being filled it holds exactly the entries of the *)
(* old buckets already visited.                                            *)
Moved ==
  /\ \A i \in 0..next-1 :
       items[i].key \in Keys => \E j \in 0..newcap-1 : fresh[j] = items[i]
  /\ \A j \in 0..newcap-1 :
       fresh[j].key \in Keys => \E i \in 0..next-1 : items[i] = fresh[j]

MapInv ==
  /\ LoadInv
  /\ capacity > 0 => Good(items, capacity)
  /\ Growing => Good(fresh, newcap) /\ Moved

(* New arrays are in order.                                                *)
LEMMA EmptyArrayGood ==
  ASSUME NEW cap \in Nat \ {0}
  PROVE  Good(EmptyArray(cap), cap)
<1>1. EmptyArray(cap) \in Array(cap) /\ HasEmpty(EmptyArray(cap), cap)
  BY EmptyArrayFacts
<1>2. \A i \in 0..cap-1 : EmptyArray(cap)[i] = Empty
  BY DEF EmptyArray
<1>3. Empty.key \notin Keys
  BY KeysAssumption DEF Empty
<1>4. QED
  BY <1>1, <1>2, <1>3 DEF Good, NoTombstone, Placed, EmptyArray

(* A write step of the table: the new contents and the answer are those of *)
(* the abstract Set, when the array written to agrees with the contents.   *)
LEMMA StoreImplementsSet ==
  ASSUME NEW cap \in Nat \ {0}, NEW e, Good(e, cap), NEW cnt,
         NEW b \in Bucket, b.key \in Keys,
         Store(e, cap, cnt, b), HasEmpty(items', cap),
         \A q \in Keys : Contents[q] = ValueIn(e, q)
  PROVE  Map!Set(b.key, b.value) /\ Good(items', cap)
<1> DEFINE i == FindEntry(e, cap, b.key)
<1>1. items' = [e EXCEPT ![i] = b] /\ reply' = Answer("set", b.key, e[i].key = NoKey)
  BY DEF Store
<1>2. Good(items', cap)
  BY <1>1, StoreKeepsGood
<1>3. \A q \in Keys : ValueIn(items', q) = IF q = b.key THEN b.value ELSE ValueIn(e, q)
  <2> DEFINE f == [e EXCEPT ![i] = b]
  <2>1. \A q \in Keys : ValueIn(f, q) = IF q = b.key THEN b.value ELSE ValueIn(e, q)
    BY StoreValue
  <2>2. items' = f
    BY <1>1
  <2> HIDE DEF f
  <2>3. QED
    BY <2>1, <2>2
<1>4. Contents' = [Contents EXCEPT ![b.key] = b.value]
  <2>1. \A q \in Keys : Contents'[q] = ValueIn(items', q)
    BY DEF Contents, ValueIn
  <2>2. /\ Contents' = [q \in Keys |-> Contents'[q]]
        /\ Contents = [q \in Keys |-> Contents[q]]
    BY DEF Contents
  <2>3. QED
    BY <1>3, <2>1, <2>2
<1>5. (e[i].key = NoKey) <=> (Contents[b.key] = Absent)
  <2>1. i = FirstStop(e, cap, b.key)
    BY FindIsFirstStop
  <2>2. NoKey # b.key /\ Empty.key = NoKey
    BY KeysAssumption DEF Empty
  <2>3. QED
    BY <2>1, <2>2, ValueIs
<1>6. reply' = Map!Answer("set", b.key, Contents[b.key] = Absent)
  BY <1>1, <1>5 DEF Answer, Map!Answer
<1>7. QED
  BY <1>2, <1>4, <1>6 DEF Map!Set

LEMMA SetValueImplements ==
  ASSUME MapInv, NEW k \in Keys, NEW v \in Values, SetValue(k, v)
  PROVE  MapInv' /\ Map!Set(k, v)
<1> DEFINE b == [key |-> k, value |-> v]
<1>1. /\ ~Growing /\ 4 * (count + 1) <= 3 * capacity
      /\ Store(items, capacity, count, b)
      /\ newcap' = newcap
  BY DEF SetValue, Overloaded, MapInv, LoadInv, TypeOK, growth
<1>2. /\ capacity \in Nat \ {0} /\ Good(items, capacity)
      /\ LoadInv'
  BY <1>1, SetValueKeepsLoad DEF MapInv, LoadInv, TypeOK
<1>3. b \in Bucket /\ b.key = k /\ b.value = v
  BY DEF Bucket
<1> HIDE DEF b
<1>4. capacity' = capacity /\ HasEmpty(items', capacity)
  BY <1>1, <1>2 DEF Store, LoadInv, AlwaysAnEmptyEntry, HasEmpty
<1>5. Map!Set(k, v) /\ Good(items', capacity)
  BY <1>1, <1>2, <1>3, <1>4, StoreImplementsSet, ContentsValue
<1>6. QED
  BY <1>1, <1>2, <1>4, <1>5 DEF MapInv, Growing

LEMMA BeginGrowImplements ==
  ASSUME MapInv, NEW k \in Keys, NEW v \in Values, BeginGrow(k, v)
  PROVE  MapInv' /\ UNCHANGED <<Contents, reply>>
<1>1. /\ UNCHANGED <<items, capacity, reply>> /\ next' = 0
      /\ fresh' = EmptyArray(newcap') /\ LoadInv'
  BY BeginGrowKeepsLoad DEF BeginGrow, MapInv
<1>2. Contents' = Contents
  BY <1>1 DEF Contents
<1>3. ASSUME Growing' PROVE Good(fresh', newcap') /\ Moved'
  <2>1. newcap' \in Nat \ {0}
    BY <1>1, <1>3 DEF LoadInv, TypeOK, Growing
  <2>2. Good(fresh', newcap')
    BY <1>1, <2>1, EmptyArrayGood
  <2>3. \A j \in 0..newcap'-1 : fresh'[j].key \notin Keys
    BY <1>1, KeysAssumption DEF EmptyArray, Empty
  <2>4. QED
    BY <1>1, <2>2, <2>3 DEF Moved
<1>4. QED
  BY <1>1, <1>2, <1>3 DEF MapInv

LEMMA RehashImplements ==
  ASSUME MapInv, Rehash
  PROVE  MapInv' /\ UNCHANGED <<Contents, reply>>
<1>1. /\ Growing /\ next < capacity /\ next' = next + 1
      /\ UNCHANGED <<items, capacity, newcap, pending, reply>>
      /\ LoadInv'
  BY RehashKeepsLoad DEF Rehash, MapInv
<1>2. Contents' = Contents
  BY <1>1 DEF Contents
<1>3. /\ newcap \in Nat \ {0} /\ capacity \in Nat \ {0} /\ next \in Nat
      /\ Good(fresh, newcap) /\ Good(items, capacity) /\ Moved
  BY <1>1 DEF MapInv, LoadInv, TypeOK, Growing
<1>4. items[next] = Empty \/ items[next].key \in Keys
  BY <1>1, <1>3 DEF Good, Array, NoTombstone
<1>5. next \in 0..capacity-1 /\ 0..next'-1 = (0..next-1) \cup {next}
  BY <1>1, <1>3
<1>6. CASE items[next].key = NoKey
  <2>1. fresh' = fresh
    BY <1>6 DEF Rehash
  <2>2. Moved'
    BY <1>1, <1>3, <1>5, <1>6, <2>1, KeysAssumption DEF Moved
  <2>3. QED
    BY <1>1, <1>2, <1>3, <2>1, <2>2 DEF MapInv, Growing
<1>7. CASE items[next].key # NoKey
  <2> DEFINE b == items[next]
             i == FindEntry(fresh, newcap, b.key)
  <2>1. b \in Bucket /\ b.key \in Keys
    BY <1>3, <1>4, <1>5, <1>7 DEF Good, Array, Empty
  <2>2. fresh' = [fresh EXCEPT ![i] = b]
    BY <1>7 DEF Rehash
  <2>3. HasEmpty(fresh', newcap)
    BY <1>1 DEF LoadInv, AlwaysAnEmptyEntry, HasEmpty, Growing
  <2>4. Good(fresh', newcap)
    BY <1>3, <2>1, <2>2, <2>3, StoreKeepsGood
  <2>5. i \in 0..newcap-1 /\ (fresh[i] = Empty \/ fresh[i].key = b.key)
    BY <1>3, <2>1, FindIsFirstStop
  <2>6. fresh[i].key \notin Keys
    <3>1. SUFFICES ASSUME fresh[i].key \in Keys PROVE FALSE
      OBVIOUS
    <3>2. fresh[i].key = b.key
      BY <2>5, <3>1, KeysAssumption DEF Empty
    <3>3. PICK m \in 0..next-1 : items[m] = fresh[i]
      BY <1>3, <2>5, <3>1 DEF Moved
    <3>4. m \in 0..capacity-1 /\ items[m].key = b.key /\ m # next
      BY <1>3, <1>5, <3>2, <3>3
    <3>5. /\ m = FirstStop(items, capacity, b.key)
          /\ next = FirstStop(items, capacity, b.key)
      BY <1>3, <1>5, <2>1, <3>4 DEF Good, Placed
    <3>6. QED
      BY <3>4, <3>5
  <2>7. /\ DOMAIN fresh = 0..newcap-1 /\ fresh'[i] = b
        /\ \A j \in 0..newcap-1 : j # i => fresh'[j] = fresh[j]
    BY <1>3, <2>2, <2>5 DEF Good, Array
  <2> HIDE DEF b, i
  <2>8. Moved'
    <3>1. ASSUME NEW m \in 0..next'-1, items[m].key \in Keys
          PROVE  \E j \in 0..newcap-1 : fresh'[j] = items[m]
      <4>1. CASE m = next
        BY <2>5, <2>7, <4>1 DEF b
      <4>2. CASE m \in 0..next-1
        <5>1. PICK j \in 0..newcap-1 : fresh[j] = items[m]
          BY <1>3, <3>1, <4>2 DEF Moved
        <5>2. j # i
          BY <2>6, <3>1, <5>1
        <5>3. QED
          BY <2>7, <5>1, <5>2
      <4>3. QED
        BY <1>5, <4>1, <4>2
    <3>2. ASSUME NEW j \in 0..newcap-1, fresh'[j].key \in Keys
          PROVE  \E m \in 0..next'-1 : items[m] = fresh'[j]
      <4>1. CASE j = i
        BY <1>5, <2>7, <4>1 DEF b
      <4>2. CASE j # i
        <5>1. fresh'[j] = fresh[j]
          BY <2>7, <4>2
        <5>2. PICK m \in 0..next-1 : items[m] = fresh[j]
          BY <1>3, <3>2, <5>1 DEF Moved
        <5>3. QED
          BY <1>5, <5>1, <5>2
      <4>3. QED
        BY <4>1, <4>2
    <3>3. QED
      BY <1>1, <3>1, <3>2 DEF Moved
  <2>9. QED
    BY <1>1, <1>2, <1>3, <2>4, <2>8 DEF MapInv, Growing
<1>8. QED
  BY <1>6, <1>7

LEMMA PutImplements ==
  ASSUME MapInv, Put
  PROVE  MapInv' /\ Map!Set(pending.key, pending.value)
<1>1. /\ Growing /\ next = capacity /\ newcap' = 0
      /\ Store(fresh, newcap, count, pending)
      /\ LoadInv'
  BY PutKeepsLoad DEF Put, MapInv
<1>2. /\ newcap \in Nat \ {0} /\ capacity \in Nat /\ items \in Array(capacity)
      /\ Good(fresh, newcap) /\ Moved
      /\ pending \in Bucket /\ pending.key \in Keys
  BY <1>1 DEF MapInv, LoadInv, TypeOK, Growing
<1>3. capacity' = newcap /\ HasEmpty(items', newcap)
  BY <1>1, <1>2 DEF Store, LoadInv, AlwaysAnEmptyEntry, HasEmpty
<1>4. \A q \in Keys : Contents[q] = ValueIn(fresh, q)
  <2>1. \A q \in Keys : ValueIn(fresh, q) = ValueIn(items, q)
    BY <1>1, <1>2, SameEntriesSameValue DEF Moved
  <2>2. QED
    BY <2>1, ContentsValue
<1>5. Map!Set(pending.key, pending.value) /\ Good(items', newcap)
  BY <1>1, <1>2, <1>3, <1>4, StoreImplementsSet
<1>6. QED
  BY <1>1, <1>3, <1>5 DEF MapInv, Growing

(* The counter is zero only for a table that holds nothing.                *)
LEMMA NothingCounted ==
  ASSUME LoadInv, ~Growing, count = 0, NEW k \in Keys
  PROVE  Contents[k] = Absent
<1>1. items \in Array(capacity) /\ capacity \in Nat /\ Cardinality(NonEmpty(items)) <= 0
  BY DEF LoadInv, TypeOK, CountCoversBuckets
<1>2. NonEmpty(items) = {}
  BY <1>1, NonEmptyFinite, FS_EmptySet
<1>3. Holding(items, k) = {}
  BY <1>2, KeysAssumption DEF Holding, NonEmpty, Empty
<1>4. QED
  BY <1>3, ContentsValue DEF ValueIn

LEMMA GetValueImplements ==
  ASSUME MapInv, NEW k \in Keys, GetValue(k)
  PROVE  Map!Get(k)
<1>1. /\ ~Growing /\ UNCHANGED <<items, capacity, count>>
      /\ reply' = Answer("get", k,
           IF count = 0 THEN Absent
           ELSE LET found == items[FindEntry(items, capacity, k)]
                IN  IF found.key = NoKey THEN Absent ELSE found.value)
  BY DEF GetValue, table
<1>2. Contents' = Contents
  BY <1>1 DEF Contents
<1>3. CASE count = 0
  <2>1. Contents[k] = Absent
    BY <1>1, <1>3, NothingCounted DEF MapInv
  <2>2. QED
    BY <1>1, <1>2, <1>3, <2>1 DEF Map!Get, Map!Answer, Answer
<1>4. CASE count # 0
  <2> DEFINE i == FirstStop(items, capacity, k)
  <2>1. capacity \in Nat \ {0} /\ Good(items, capacity)
    BY <1>1, <1>4 DEF MapInv, LoadInv, TypeOK, Load
  <2>2. FindEntry(items, capacity, k) = i /\ (items[i] = Empty \/ items[i].key = k)
    BY <2>1, FindIsFirstStop
  <2>3. Empty.key = NoKey /\ NoKey # k
    BY KeysAssumption DEF Empty
  <2>4. Contents[k] = IF items[i].key = NoKey THEN Absent ELSE items[i].value
    BY <2>1, <2>2, <2>3, ValueIs, ContentsValue
  <2> HIDE DEF i
  <2>5. reply' = Answer("get", k, Contents[k])
    BY <1>1, <1>4, <2>2, <2>4
  <2>6. QED
    BY <1>2, <2>5 DEF Map!Get, Map!Answer, Answer
<1>5. QED
  BY <1>3, <1>4

LEMMA GetKeyImplements ==
  ASSUME MapInv, NEW k \in Keys, GetKey(k)
  PROVE  Map!Lookup(k)
<1>1. /\ ~Growing /\ UNCHANGED <<items, capacity, count>>
      /\ reply' = Answer("lookup", k, count # 0 /\ HasKey(items, capacity, k))
  BY DEF GetKey, table
<1>2. Contents' = Contents
  BY <1>1 DEF Contents
<1>3. (count # 0 /\ HasKey(items, capacity, k)) <=> (Contents[k] # Absent)
  <2>1. CASE count = 0
    BY <1>1, <2>1, NothingCounted DEF MapInv
  <2>2. CASE count # 0
    <3>1. capacity \in Nat \ {0} /\ Good(items, capacity)
      BY <1>1, <2>2 DEF MapInv, LoadInv, TypeOK, Load
    <3>2. HasKey(items, capacity, k) <=> items[FirstStop(items, capacity, k)].key = k
      BY DEF HasKey, FirstStop
    <3>3. QED
      BY <2>2, <3>1, <3>2, ValueIs, ContentsValue
  <2>3. QED
    BY <2>1, <2>2
<1>4. reply' = Answer("lookup", k, Contents[k] # Absent)
  BY <1>1, <1>3
<1>5. QED
  BY <1>2, <1>4 DEF Map!Lookup, Map!Answer, Answer

LEMMA FreeImplements ==
  ASSUME MapInv, Free
  PROVE  MapInv' /\ Map!Free
<1>1. /\ ~Growing /\ items' = EmptyArray(0) /\ capacity' = 0 /\ newcap' = newcap
      /\ reply' = Answer("free", Absent, Absent)
  BY DEF Free, NoArray, growth
<1>2. LoadInv'
  BY StepLoad DEF MapInv, Next
<1>3. Contents' = [k \in Keys |-> Absent]
  <2>1. Contents' = [k \in Keys |-> ValueIn(EmptyArray(0), k)]
    BY <1>1 DEF Contents, ValueIn
  <2>2. QED
    BY <2>1, NothingInEmptyArray
<1>4. QED
  BY <1>1, <1>2, <1>3 DEF MapInv, Growing, Map!Free, Map!Answer, Answer

LEMMA InitImplements == Init => MapInv /\ Map!Init
<1> SUFFICES ASSUME Init PROVE MapInv /\ Map!Init
  OBVIOUS
<1>1. LoadInv /\ capacity = 0 /\ ~Growing
  BY InitLoad DEF Init, Growing
<1>2. Contents = [k \in Keys |-> Absent]
  <2>1. Contents = [k \in Keys |-> ValueIn(EmptyArray(0), k)]
    BY DEF Init, NoArray, Contents, ValueIn
  <2>2. QED
    BY <2>1, NothingInEmptyArray
<1>3. QED
  BY <1>1, <1>2 DEF MapInv, Init, Map!Init, Map!Answer, Answer

(* Every step is a step of the map or leaves the map alone: one case per   *)
(* action.                                                                 *)
LEMMA StepImplements ==
  ASSUME Deletable = {}, MapInv, [Next]_vars
  PROVE  MapInv' /\ [Map!Next]_(Map!vars)
<1>1. ASSUME NEW k \in Keys, NEW v \in Values, SetValue(k, v)
      PROVE  MapInv' /\ [Map!Next]_(Map!vars)
  BY <1>1, SetValueImplements DEF Map!Next
<1>2. ASSUME NEW k \in Keys, NEW v \in Values, BeginGrow(k, v)
      PROVE  MapInv' /\ [Map!Next]_(Map!vars)
  BY <1>2, BeginGrowImplements DEF Map!vars
<1>3. CASE Rehash
  BY <1>3, RehashImplements DEF Map!vars
<1>4. CASE Put
  <2>1. MapInv' /\ Map!Set(pending.key, pending.value)
    BY <1>4, PutImplements
  <2>2. pending.key \in Keys /\ pending.value \in Values
    BY <1>4, KeysAssumption
       DEF Put, MapInv, LoadInv, TypeOK, Bucket, Empty, Tombstone
  <2>3. QED
    BY <2>1, <2>2 DEF Map!Next
<1>5. ASSUME NEW k \in Keys, GetValue(k) \/ GetKey(k)
      PROVE  MapInv' /\ [Map!Next]_(Map!vars)
  <2>1. MapInv'
    <3>1. LoadInv'
      BY <1>5, StepLoad DEF MapInv, Next
    <3>2. QED
      BY <1>5, <3>1 DEF GetValue, GetKey, table, growth, MapInv, Growing, Moved
  <2>2. Map!Get(k) \/ Map!Lookup(k)
    BY <1>5, GetValueImplements, GetKeyImplements
  <2>3. QED
    BY <2>1, <2>2 DEF Map!Next
<1>6. CASE Free
  BY <1>6, FreeImplements DEF Map!Next
<1>7. CASE UNCHANGED vars
  <2>1. LoadInv'
    BY <1>7, StepLoad DEF MapInv
  <2>2. MapInv'
    BY <1>7, <2>1 DEF vars, MapInv, Growing, Moved
  <2>3. UNCHANGED <<Contents, reply>>
    BY <1>7 DEF vars, Contents
  <2>4. QED
    BY <2>2, <2>3 DEF Map!vars
<1>8. QED
  BY <1>1, <1>2, <1>3, <1>4, <1>5, <1>6, <1>7 DEF Next

(* A table nobody deletes from is the map of its callers, for all keys,    *)
(* values, hash functions and capacities: a get answers the last value     *)
(* set, whatever collided and however often the array grew in between.     *)
THEOREM TableImplementsMap ==
  ASSUME Deletable = {}
  PROVE  Spec => ImplementsMap
<1>1. MapInv /\ [Next]_vars => MapInv' /\ [Map!Next]_(Map!vars)
  BY StepImplements
<1>2. Init => MapInv /\ Map!Init
  BY InitImplements
<1>3. QED
  BY <1>1, <1>2, PTL DEF Spec, ImplementsMap, Map!Spec

-----------------------------------------------------------------------------
(* The pool of strings.  What it rests on is the search invariant above,   *)
(* which deletions keep, and that growing and sweeping lose no string in   *)
(* use.                                                                    *)

KeysIn(e) == {e[i].key : i \in Live(e)}

(* The keys that have still to be moved into the new array.                *)
KeysFrom(e, n) == {e[i].key : i \in {j \in Live(e) : j >= n}}

(* The inductive invariant: where the strings in use are.                  *)
InUseAreStored ==
  /\ Growing => alive \subseteq KeysIn(fresh) \cup KeysFrom(items, next) \cup {pending.key}
  /\ ~Growing /\ ~Sweeping => alive \subseteq KeysIn(items)
  /\ Sweeping => marked \subseteq KeysIn(items)

PoolInv ==
  /\ SearchInv
  /\ alive \in SUBSET Keys /\ marked \in SUBSET alive
  /\ swept \in {NotSweeping} \cup (0..capacity)
  /\ ~(Growing /\ Sweeping)
  /\ InUseAreStored

-----------------------------------------------------------------------------
(* A write loses no key, and adds its own.                                 *)
LEMMA StoreKeepsKeys ==
  ASSUME NEW cap \in Nat \ {0}, NEW e \in Array(cap), HasEmpty(e, cap),
         NEW b \in Bucket, b.key \in Keys
  PROVE  KeysIn(e) \cup {b.key} \subseteq KeysIn([e EXCEPT ![FindEntry(e, cap, b.key)] = b])
<1>1. PICK i : i = FindEntry(e, cap, b.key)
  OBVIOUS
<1>2. PICK f : f = [e EXCEPT ![i] = b]
  OBVIOUS
<1>3. i \in 0..cap-1 /\ (e[i] \in {Empty, Tombstone} \/ e[i].key = b.key)
  BY <1>1, FoundEntry
<1>4. /\ DOMAIN e = 0..cap-1 /\ DOMAIN f = 0..cap-1
      /\ f[i] = b /\ \A j \in 0..cap-1 : j # i => f[j] = e[j]
  BY <1>2, <1>3 DEF Array
<1>5. b.key # NoKey /\ Empty.key = NoKey /\ Tombstone.key = NoKey
  BY KeysAssumption DEF Empty, Tombstone
<1>6. b.key \in KeysIn(f)
  BY <1>3, <1>4, <1>5 DEF KeysIn, Live
<1>7. ASSUME NEW j \in Live(e) PROVE e[j].key \in KeysIn(f)
  <2>1. CASE j = i
    BY <1>3, <1>5, <1>6, <1>7, <2>1 DEF Live
  <2>2. CASE j # i
    BY <1>4, <1>7, <2>2 DEF KeysIn, Live
  <2>3. QED
    BY <2>1, <2>2
<1>8. KeysIn(e) \cup {b.key} \subseteq KeysIn(f)
  BY <1>6, <1>7 DEF KeysIn
<1>9. QED
  BY <1>1, <1>2, <1>8

(* A deletion loses no key but its own.                                    *)
LEMMA DeleteKeepsOthers ==
  ASSUME SearchInv, NEW k \in Keys, Delete(k)
  PROVE  KeysIn(items) \ {k} \subseteq KeysIn(items')
<1>1. CASE items' = items
  BY <1>1
<1>2. CASE items' # items
  <2>1. PICK i : i = FindEntry(items, capacity, k)
    OBVIOUS
  <2>2. /\ ~Growing /\ count # 0 /\ items[i] \notin {Tombstone, Empty}
        /\ items' = [items EXCEPT ![i] = Tombstone]
    BY <1>2, <2>1 DEF Delete, DeletedBucket
  <2>3. /\ capacity \in Nat \ {0} /\ items \in Array(capacity) /\ HasEmpty(items, capacity)
    BY <2>2 DEF SearchInv, LoadInv, TypeOK, Load, AlwaysAnEmptyEntry, HasEmpty
  <2>4. i \in 0..capacity-1 /\ items[i].key = k
    BY <2>1, <2>2, <2>3, FoundEntry
  <2>5. /\ DOMAIN items = 0..capacity-1 /\ DOMAIN items' = 0..capacity-1
        /\ \A j \in 0..capacity-1 : j # i => items'[j] = items[j]
    BY <2>2, <2>3 DEF Array
  <2>6. ASSUME NEW j \in Live(items), items[j].key # k PROVE items[j].key \in KeysIn(items')
    BY <2>4, <2>5, <2>6 DEF KeysIn, Live
  <2>7. QED
    BY <2>6 DEF KeysIn
<1>3. QED
  BY <1>1, <1>2

-----------------------------------------------------------------------------
(* Nothing is interned at first.                                           *)
LEMMA InitPool == PoolInit => PoolInv
<1> SUFFICES ASSUME PoolInit PROVE PoolInv
  OBVIOUS
<1>1. Init /\ alive = {} /\ marked = {} /\ swept = NotSweeping
  BY DEF PoolInit
<1>2. SearchInv
  BY <1>1, InitSearch
<1>3. QED
  BY <1>1, <1>2 DEF PoolInv, InUseAreStored, Sweeping

(* Finding a string changes nothing but the answer.                        *)
LEMMA FindKeepsPool ==
  ASSUME PoolInv, NEW k \in Keys, FindString(k)
  PROVE  PoolInv'
<1>1. UNCHANGED <<items, capacity, count, fresh, newcap, next, pending, alive, marked, swept>>
  BY DEF FindString, table, growth
<1>2. GetKey(k)
  BY DEF FindString, GetKey, IsStored, Ready
<1>3. SearchInv'
  BY <1>2, StepSearch DEF PoolInv, Next
<1>4. QED
  BY <1>1, <1>3 DEF PoolInv, InUseAreStored, Growing, Sweeping

(* A new string is stored at once, or waits for the array to grow.         *)
LEMMA NewKeepsPool ==
  ASSUME PoolInv, NEW k \in Keys, NewString(k)
  PROVE  PoolInv'
<1>1. /\ ~Growing /\ ~Sweeping /\ alive' = alive \cup {k} /\ UNCHANGED <<marked, swept>>
      /\ SetValue(k, Nil) \/ BeginGrow(k, Nil)
  BY DEF NewString, Ready
<1>2. SearchInv'
  BY <1>1, PoolAssumption, SetValueKeepsSearch, BeginGrowKeepsSearch DEF PoolInv
<1>3. alive \subseteq KeysIn(items)
  BY <1>1 DEF PoolInv, InUseAreStored
<1>4. CASE SetValue(k, Nil)
  <2>1. PICK b \in Bucket : b = [key |-> k, value |-> Nil]
    BY PoolAssumption DEF Bucket
  <2>2. /\ items' = [items EXCEPT ![FindEntry(items, capacity, k)] = b]
        /\ capacity' = capacity /\ ~Growing' /\ b.key = k
    BY <1>1, <1>4, <2>1 DEF SetValue, Store, growth, Growing
  <2>3. /\ capacity \in Nat \ {0} /\ items \in Array(capacity) /\ HasEmpty(items, capacity)
    <3>1. LoadInv /\ 4 * (count + 1) <= 3 * capacity
      BY <1>4 DEF PoolInv, SearchInv, SetValue, Overloaded, LoadInv, TypeOK
    <3>2. capacity \in Nat /\ count \in Nat /\ items \in Array(capacity)
      BY <3>1 DEF LoadInv, TypeOK
    <3>3. capacity > 0
      BY <3>1, <3>2
    <3>4. QED
      BY <3>1, <3>2, <3>3 DEF LoadInv, AlwaysAnEmptyEntry, HasEmpty
  <2>4. alive' \subseteq KeysIn(items')
    BY <1>1, <1>3, <2>2, <2>3, StoreKeepsKeys
  <2>5. QED
    BY <1>1, <1>2, <2>2, <2>4 DEF PoolInv, InUseAreStored, Sweeping
<1>5. CASE BeginGrow(k, Nil)
  <2>1. /\ items' = items /\ capacity' = capacity /\ next' = 0
        /\ pending'.key = k /\ newcap' # 0
    BY <1>5, CapacityAssumption DEF BeginGrow, GrownCapacity, PoolInv, SearchInv, LoadInv, TypeOK
  <2>2. KeysFrom(items, 0) = KeysIn(items)
    <3>1. DOMAIN items = 0..capacity-1 /\ capacity \in Nat
      BY DEF PoolInv, SearchInv, LoadInv, TypeOK, Array
    <3>2. \A j \in Live(items) : j >= 0
      BY <3>1 DEF Live
    <3>3. QED
      BY <3>2 DEF KeysFrom, KeysIn
  <2>3. alive' \subseteq KeysFrom(items', next') \cup {pending'.key}
    BY <1>1, <1>3, <2>1, <2>2
  <2>4. Growing' /\ ~Sweeping'
    BY <1>1, <2>1 DEF Growing, Sweeping
  <2>5. QED
    BY <1>1, <1>2, <2>1, <2>3, <2>4 DEF PoolInv, InUseAreStored
<1>6. QED
  BY <1>1, <1>4, <1>5

(* A bucket that is moved into the new array takes its string with it.     *)
LEMMA RehashKeepsPool ==
  ASSUME PoolInv, Rehash, UNCHANGED <<alive, marked, swept>>
  PROVE  PoolInv'
<1>1. SearchInv /\ SearchInv' /\ LoadInv
  BY RehashKeepsSearch DEF PoolInv, SearchInv
<1>2. /\ Growing /\ Growing' /\ next < capacity /\ next' = next + 1
      /\ UNCHANGED <<items, capacity, newcap, pending>>
  BY DEF Rehash, Growing
<1>3. /\ newcap \in Nat \ {0} /\ fresh \in Array(newcap) /\ HasEmpty(fresh, newcap)
      /\ next \in 0..capacity-1 /\ items \in Array(capacity) /\ capacity \in Nat
      /\ DOMAIN items = 0..capacity-1
  BY <1>1, <1>2 DEF LoadInv, TypeOK, AlwaysAnEmptyEntry, Growing, HasEmpty, Array
<1>4. KeysFrom(items, next) \subseteq KeysFrom(items, next + 1) \cup {items[next].key}
  <2>1. \A j \in Live(items) : j >= next => j = next \/ j >= next + 1
    BY <1>3 DEF Live
  <2>2. QED
    BY <2>1 DEF KeysFrom
<1>5. alive \subseteq KeysIn(fresh) \cup KeysFrom(items, next) \cup {pending.key} /\ ~Sweeping
  BY <1>2 DEF PoolInv, InUseAreStored
<1>6. alive \subseteq KeysIn(fresh') \cup KeysFrom(items, next + 1) \cup {pending.key}
  <2>1. CASE items[next].key = NoKey
    <3>1. fresh' = fresh
      BY <2>1 DEF Rehash
    <3>2. NoKey \notin alive
      BY KeysAssumption DEF PoolInv
    <3>3. QED
      BY <1>4, <1>5, <2>1, <3>1, <3>2
  <2>2. CASE items[next].key # NoKey
    <3>1. PICK b \in Bucket : b = items[next] /\ b.key \in Keys
      BY <1>3, <2>2, LiveBuckets
    <3>2. fresh' = [fresh EXCEPT ![FindEntry(fresh, newcap, b.key)] = b]
      BY <2>2, <3>1 DEF Rehash
    <3>3. KeysIn(fresh) \cup {b.key} \subseteq KeysIn(fresh')
      BY <1>3, <3>1, <3>2, StoreKeepsKeys
    <3>4. QED
      BY <1>4, <1>5, <3>1, <3>3
  <2>3. QED
    BY <2>1, <2>2
<1>7. ~Sweeping'
  BY <1>5 DEF Sweeping
<1>8. QED
  BY <1>1, <1>2, <1>6, <1>7 DEF PoolInv, InUseAreStored

(* So does the string that made the array grow.                            *)
LEMMA PutKeepsPool ==
  ASSUME PoolInv, Put, UNCHANGED <<alive, marked, swept>>
  PROVE  PoolInv'
<1>1. SearchInv /\ SearchInv' /\ LoadInv
  BY PutKeepsSearch DEF PoolInv, SearchInv
<1>2. /\ Growing /\ ~Growing' /\ next = capacity /\ capacity' = newcap
      /\ items' = [fresh EXCEPT ![FindEntry(fresh, newcap, pending.key)] = pending]
  BY DEF Put, Growing, Store
<1>3. /\ newcap \in Nat \ {0} /\ fresh \in Array(newcap) /\ HasEmpty(fresh, newcap)
      /\ pending \in Bucket /\ pending.key \in Keys
      /\ DOMAIN items = 0..capacity-1 /\ capacity \in Nat
  BY <1>1, <1>2 DEF LoadInv, TypeOK, AlwaysAnEmptyEntry, Growing, HasEmpty, Array
<1>4. KeysFrom(items, next) = {}
  BY <1>2, <1>3 DEF KeysFrom, Live
<1>5. KeysIn(fresh) \cup {pending.key} \subseteq KeysIn(items')
  BY <1>2, <1>3, StoreKeepsKeys
<1>6. alive \subseteq KeysIn(items') /\ ~Sweeping
  BY <1>2, <1>4, <1>5 DEF PoolInv, InUseAreStored
<1>7. ~Sweeping' /\ swept' = NotSweeping
  BY <1>6 DEF Sweeping
<1>8. QED
  BY <1>1, <1>2, <1>6, <1>7 DEF PoolInv, InUseAreStored

(* The sweep of the table takes out a string that is not marked.           *)
LEMMA SweepKeepsPool ==
  ASSUME PoolInv, SweepBucket
  PROVE  PoolInv' /\ marked \cap KeysIn(items) \subseteq KeysIn(items')
<1>1. /\ Sweeping /\ swept < capacity /\ swept' = swept + 1 /\ UNCHANGED <<alive, marked>>
      /\ ~Growing /\ SearchInv
  BY DEF SweepBucket, PoolInv
<1>2. PICK k : k = items[swept].key
  OBVIOUS
<1>3. capacity \in Nat /\ items \in Array(capacity) /\ swept \in 0..capacity-1
  BY <1>1 DEF PoolInv, SearchInv, LoadInv, TypeOK, NotSweeping, Sweeping
<1>4. /\ SearchInv' /\ UNCHANGED <<capacity, newcap>>
      /\ marked \cap KeysIn(items) \subseteq KeysIn(items')
  <2>1. CASE k # NoKey /\ Doomed(k)
    <3>1. k \in Keys
      BY <1>2, <1>3, <2>1, LiveBuckets
    <3>2. Delete(k) /\ k \notin marked
      BY <1>2, <2>1 DEF SweepBucket, Doomed
    <3>3. KeysIn(items) \ {k} \subseteq KeysIn(items')
      BY <1>1, <3>1, <3>2, DeleteKeepsOthers
    <3>4. SearchInv'
      BY <1>1, <3>1, <3>2, DeleteKeepsSearch
    <3>5. UNCHANGED <<capacity, newcap>>
      BY <3>2 DEF Delete, growth
    <3>6. QED
      BY <3>2, <3>3, <3>4, <3>5
  <2>2. CASE ~(k # NoKey /\ Doomed(k))
    <3>1. UNCHANGED <<table, growth, reply>>
      BY <1>2, <2>2 DEF SweepBucket
    <3>2. UNCHANGED vars
      BY <3>1 DEF table, growth, vars
    <3>3. SearchInv'
      BY <1>1, <3>2, StepSearch
    <3>4. QED
      BY <3>1, <3>3 DEF table, growth
  <2>3. QED
    BY <2>1, <2>2
<1>5. Sweeping' /\ ~Growing' /\ swept' \in 0..capacity
  BY <1>1, <1>3, <1>4 DEF Sweeping, NotSweeping, Growing
<1>6. marked \subseteq KeysIn(items)
  BY <1>1 DEF PoolInv, InUseAreStored
<1>7. QED
  BY <1>1, <1>4, <1>5, <1>6 DEF PoolInv, InUseAreStored

(* A collection begins with strings that are stored, and frees the others  *)
(* once the table has been swept.                                          *)
LEMMA CollectionKeepsPool ==
  ASSUME PoolInv, (\E used \in SUBSET alive : BeginSweep(used)) \/ FreeStrings \/ UNCHANGED poolVars
  PROVE  PoolInv' /\ KeysIn(items') = KeysIn(items)
<1>1. UNCHANGED <<items, capacity, count, fresh, newcap, next, pending, reply>>
  BY DEF BeginSweep, FreeStrings, poolVars, table, growth
<1>2. SearchInv'
  BY <1>1, StepSearch DEF PoolInv, vars
<1>3. CASE \E used \in SUBSET alive : BeginSweep(used)
  <2>1. PICK used \in SUBSET alive : BeginSweep(used)
    BY <1>3
  <2>2. /\ ~Growing /\ ~Sweeping /\ marked' = used /\ swept' = 0 /\ alive' = alive
    BY <2>1 DEF BeginSweep, Ready
  <2>3. alive \subseteq KeysIn(items) /\ capacity \in Nat
    BY <2>2 DEF PoolInv, InUseAreStored, SearchInv, LoadInv, TypeOK
  <2>4. Sweeping' /\ ~Growing' /\ swept' \in 0..capacity
    BY <1>1, <2>2, <2>3 DEF Sweeping, NotSweeping, Growing
  <2>5. QED
    BY <1>1, <1>2, <2>1, <2>2, <2>3, <2>4 DEF PoolInv, InUseAreStored
<1>4. CASE FreeStrings
  <2>1. /\ Sweeping /\ alive' = alive \cap marked /\ marked' = {} /\ swept' = NotSweeping
    BY <1>4 DEF FreeStrings
  <2>2. ~Growing /\ marked \subseteq KeysIn(items)
    BY <2>1 DEF PoolInv, InUseAreStored
  <2>3. ~Sweeping' /\ ~Growing'
    BY <1>1, <2>1, <2>2 DEF Sweeping, Growing
  <2>4. QED
    BY <1>1, <1>2, <2>1, <2>2, <2>3 DEF PoolInv, InUseAreStored
<1>5. CASE UNCHANGED poolVars
  BY <1>1, <1>2, <1>5 DEF poolVars, PoolInv, InUseAreStored, Growing, Sweeping
<1>6. QED
  BY <1>1, <1>3, <1>4, <1>5

(* Every step of the program and of the collector keeps the invariant.     *)
LEMMA StepPool == PoolInv /\ [PoolNext]_poolVars => PoolInv'
<1> SUFFICES ASSUME PoolInv, [PoolNext]_poolVars PROVE PoolInv'
  OBVIOUS
<1>1. ASSUME NEW k \in Keys, FindString(k) \/ NewString(k) PROVE PoolInv'
  BY <1>1, FindKeepsPool, NewKeepsPool
<1>2. CASE Grow
  BY <1>2, RehashKeepsPool, PutKeepsPool DEF Grow
<1>3. CASE SweepBucket
  BY <1>3, SweepKeepsPool
<1>4. CASE (\E used \in SUBSET alive : BeginSweep(used)) \/ FreeStrings \/ UNCHANGED poolVars
  BY <1>4, CollectionKeepsPool
<1>5. QED
  BY <1>1, <1>2, <1>3, <1>4 DEF PoolNext

LEMMA PoolHolds == PoolSpec => []PoolInv
  BY InitPool, StepPool, PTL DEF PoolSpec

(* The table and the sets of strings have their types.                     *)
THEOREM PoolIsTyped == PoolSpec => []PoolTypeOK
<1>1. PoolInv => PoolTypeOK
  BY DEF PoolInv, PoolTypeOK, SearchInv, LoadInv
<1>2. QED
  BY <1>1, PoolHolds, PTL

(* Whatever was interned and collected before, and whatever the hash       *)
(* function: a string that is allocated is found by its characters, so     *)
(* ObjectString_allocate never makes a second one.                         *)
THEOREM InternedAreUnique == PoolSpec => []StringsAreUnique
<1>1. PoolInv => StringsAreUnique
  <2>1. SUFFICES ASSUME PoolInv, Ready, NEW k \in alive PROVE IsStored(k)
    BY DEF StringsAreUnique
  <2>2. ~Growing /\ ~Sweeping /\ LoadInv /\ Probed(items, capacity)
    BY <2>1 DEF Ready, PoolInv, SearchInv
  <2>3. PICK i \in Live(items) : k = items[i].key
    BY <2>1, <2>2 DEF PoolInv, InUseAreStored, KeysIn
  <2>4. capacity \in Nat /\ items \in Array(capacity) /\ count \in Nat
        /\ Cardinality(NonEmpty(items)) <= count
    BY <2>2 DEF LoadInv, TypeOK, CountCoversBuckets
  <2>5. capacity \in Nat \ {0} /\ HasEmpty(items, capacity)
    <3>1. i \in 0..capacity-1
      BY <2>4 DEF Live, Array
    <3>2. capacity > 0
      BY <2>4, <3>1
    <3>3. QED
      BY <2>2, <2>4, <3>2 DEF LoadInv, AlwaysAnEmptyEntry, HasEmpty
  <2>6. HasKey(items, capacity, k)
    BY <2>2, <2>3, <2>4, <2>5, ReachedIsFound DEF Probed, Reached
  <2>7. count # 0
    <3>1. i \in NonEmpty(items)
      BY <2>3 DEF Live, NonEmpty, Empty
    <3>2. IsFiniteSet(NonEmpty(items)) /\ Cardinality(NonEmpty(items)) \in Nat
      BY <2>4, NonEmptyFinite
    <3>3. Cardinality(NonEmpty(items)) # 0
      BY <3>1, <3>2, FS_EmptySet
    <3>4. QED
      BY <2>4, <3>2, <3>3
  <2>8. QED
    BY <2>6, <2>7 DEF IsStored
<1>2. QED
  BY <1>1, PoolHolds, PTL

(* A collection takes no string in use out of the table, even where the    *)
(* strings it takes out share the probe sequence or left a copy behind.    *)
THEOREM MarkedAreKept == PoolSpec => MarkedStringsStay
<1>1. PoolInv /\ [PoolNext]_poolVars =>
        [Sweeping => marked \cap StoredKeys \subseteq {items'[i].key : i \in Live(items')}]_poolVars
  <2>1. SUFFICES ASSUME PoolInv, [PoolNext]_poolVars, Sweeping
                 PROVE  marked \cap KeysIn(items) \subseteq KeysIn(items')
    BY DEF StoredKeys, KeysIn
  <2>2. ~Growing
    BY <2>1 DEF PoolInv
  <2>3. CASE SweepBucket
    BY <2>1, <2>3, SweepKeepsPool
  <2>4. CASE (\E used \in SUBSET alive : BeginSweep(used)) \/ FreeStrings \/ UNCHANGED poolVars
    BY <2>1, <2>4, CollectionKeepsPool
  <2>5. ~Grow /\ \A k \in Keys : ~FindString(k) /\ ~NewString(k)
    BY <2>1, <2>2 DEF Grow, Rehash, Put, FindString, NewString, Ready
  <2>6. QED
    BY <2>1, <2>3, <2>4, <2>5 DEF PoolNext
<1>2. QED
  BY <1>1, PoolHolds, PTL DEF PoolSpec, MarkedStringsStay

===============================================================================
