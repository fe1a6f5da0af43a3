--------------------------- MODULE CollectorProofs ---------------------------
(***************************************************************************)
(* Collector for every heap, every set of sources and every order in which *)
(* objects refer to one another: what the program can get at is never      *)
(* freed, what it cannot is freed by the time a collection ends, and       *)
(* vm->objects is the list of what is allocated.                           *)
(***************************************************************************)
EXTENDS Collector, NaturalExtremes, TLAPS

-----------------------------------------------------------------------------
(* Reachable is the least closed set.                                      *)

(* What the program can get at includes the roots and what its members     *)
(* refer to.                                                               *)
LEMMA ReachableIsClosed ==
  ASSUME TypeOK
  PROVE  Closed(Reachable) /\ Reachable \subseteq Objects
<1>1. Roots \subseteq Objects
  BY DEF TypeOK, Roots, RootsIn
<1>2. Roots \subseteq Reachable
  BY <1>1 DEF Reachable, Closed
<1>3. ASSUME NEW o \in Reachable, NEW p \in refs[o] PROVE p \in Reachable
  <2>1. o \in Objects /\ p \in Objects
    BY <1>3 DEF Reachable, TypeOK
  <2>2. ASSUME NEW S \in SUBSET Objects, Closed(S) PROVE p \in S
    BY <1>3, <2>2 DEF Reachable, Closed
  <2>3. QED
    BY <2>1, <2>2 DEF Reachable
<1>4. QED
  BY <1>2, <1>3 DEF Closed, Reachable

(* A closed set contains everything the program can get at.                *)
LEMMA ReachableIsLeast ==
  ASSUME NEW S \in SUBSET Objects, Closed(S)
  PROVE  Reachable \subseteq S
BY DEF Reachable

-----------------------------------------------------------------------------
(* The list as the order of allocation.                                    *)

(* Newest names the greatest member of a set of objects, Null for none.    *)
LEMMA NewestFacts ==
  ASSUME NEW b \in Nat, NEW S \in SUBSET (1..b)
  PROVE  /\ Newest(S) \in Nat
         /\ \A o \in S : o <= Newest(S)
         /\ S = {} => Newest(S) = Null
         /\ S # {} => Newest(S) \in S
<1>1. CASE S = {}
  BY <1>1 DEF Newest, Null
<1>2. CASE S # {}
  <2>1. S \subseteq 0..b
    OBVIOUS
  <2>2. Max(S) \in S /\ \A n \in S : n <= Max(S)
    BY <1>2, <2>1, MaxOfNaturals
  <2>3. Newest(S) = Max(S)
    BY <1>2 DEF Newest
  <2>4. \A n \in S : n \in Nat
    OBVIOUS
  <2>5. QED
    BY <1>2, <2>2, <2>3, <2>4
<1>3. QED
  BY <1>1, <1>2

(* The newest object is the one that no other is newer than.               *)
LEMMA NewestIs ==
  ASSUME NEW b \in Nat, NEW S \in SUBSET (1..b), NEW o \in S,
         \A p \in S : p <= o
  PROVE  Newest(S) = o
<1> DEFINE m == Newest(S)
<1>1. m \in S /\ o <= m
  BY NewestFacts
<1> HIDE DEF m
<1>2. m <= o /\ o \in Nat /\ m \in Nat
  BY <1>1
<1>3. m = o
  BY <1>1, <1>2
<1>4. QED
  BY <1>3 DEF m

(* The list links every object to the newest of those before it.           *)
ListInOrder ==
  /\ head = Newest(allocated)
  /\ \A o \in allocated : next[o] = Newest(Before(o))

(* A new object goes to the front of the list.                             *)
LEMMA AllocateKeepsOrder ==
  ASSUME TypeOK, ListInOrder, Allocate
  PROVE  /\ last' \in Objects /\ last' \notin allocated
         /\ last' \in Nat /\ allocated' = allocated \cup {last'}
         /\ head' \in Linked /\ next' \in [Objects -> Linked]
         /\ last' \in 0..MaxObjects /\ allocated' \in SUBSET (1..last')
         /\ ListInOrder'
<1> DEFINE n == last + 1
<1>1. n \in Objects /\ n \notin allocated /\ last' = n
  BY BoundAssumption DEF TypeOK, Allocate, Objects
<1>2. /\ last \in Nat /\ n \in Nat /\ allocated \subseteq 1..last
      /\ \A p \in allocated : p \in Nat /\ p >= 1 /\ p < n
  BY DEF TypeOK
<1>3. /\ allocated' = allocated \cup {n} /\ allocated' \in SUBSET (1..n)
      /\ \A p \in allocated' : p \in Nat /\ p <= n
  BY <1>1, <1>2 DEF Allocate
<1>4. next' = [next EXCEPT ![n] = head] /\ head' = n
  BY <1>1 DEF Allocate
<1> HIDE DEF n
<1>5. Newest(allocated') = n
  <2>1. n \in allocated' /\ \A p \in allocated' : p <= n
    BY <1>2, <1>3
  <2>2. QED
    BY <1>2, <1>3, <2>1, NewestIs
<1>6. ASSUME NEW o \in allocated' PROVE next'[o] = Newest({p \in allocated' : p < o})
  <2>1. CASE o = n
    <3>1. \A p \in allocated' : p < o <=> p \in allocated
      BY <1>2, <1>3, <2>1
    <3>2. {p \in allocated' : p < o} = allocated
      BY <1>3, <3>1
    <3>3. next'[o] = head
      BY <1>1, <1>4, <2>1 DEF TypeOK
    <3>4. QED
      BY <3>2, <3>3 DEF ListInOrder
  <2>2. CASE o # n
    <3>1. o \in allocated
      BY <1>3, <2>2
    <3>2. {p \in allocated' : p < o} = Before(o)
      BY <1>2, <1>3, <3>1 DEF Before
    <3>3. next'[o] = next[o]
      BY <1>4, <2>2, <3>1 DEF TypeOK
    <3>4. QED
      BY <3>1, <3>2, <3>3 DEF ListInOrder
  <2>3. QED
    BY <2>1, <2>2
<1>7. ListInOrder'
  BY <1>4, <1>5, <1>6 DEF ListInOrder, Before
<1>8. /\ head' \in Linked /\ next' \in [Objects -> Linked]
      /\ last' \in 0..MaxObjects /\ allocated' \in SUBSET (1..last')
  <2>1. n \in 0..MaxObjects
    BY <1>1, BoundAssumption DEF Objects
  <2>2. QED
    BY <1>1, <1>3, <1>4, <2>1 DEF TypeOK, Linked
<1>9. QED
  BY <1>1, <1>2, <1>3, <1>7, <1>8

-----------------------------------------------------------------------------
(* The inductive invariant.                                                *)

(* An object not allocated yet refers to nothing.                          *)
Unborn == \A o \in Objects : o > last => refs[o] = {}

(* Marking: every marked object is reachable, and an object that is marked *)
(* but no longer grey has had what it refers to marked.                    *)
MarksInOrder ==
  /\ phase = "program" => marked = {} /\ greys = {}
  /\ phase = "mark" => /\ marked \subseteq Reachable
                       /\ Roots \subseteq marked /\ greys \subseteq marked
                       /\ \A o \in marked \ greys : refs[o] \subseteq marked

(* Sweeping: what is ahead of the iterator is marked exactly if it is      *)
(* reachable; what is behind it has lost its mark and is reachable.        *)
SweepInOrder ==
  phase = "sweep" =>
    /\ greys = {} /\ marked \subseteq Reachable
    /\ curr = IF prev = Null THEN Newest(allocated) ELSE Newest(Before(prev))
    /\ \A o \in Reachable : o <= curr => o \in marked
    /\ \A o \in marked : o <= curr
    /\ \A o \in allocated : o > curr => o \in Reachable

CInv ==
  /\ TypeOK
  /\ Unborn
  /\ ReachableIsAllocated
  /\ phase # "lost" => ListInOrder
  /\ MarksInOrder
  /\ SweepInOrder

(* The collector starts with an empty heap.                                *)
LEMMA InitCInv == Init => CInv
<1> SUFFICES ASSUME Init PROVE CInv
  OBVIOUS
<1>1. TypeOK
  BY BoundAssumption DEF Init, TypeOK, Linked, Null
<1>2. Roots = {}
  BY DEF Init, Roots, RootsIn
<1>3. Reachable \subseteq {}
  <2>1. Closed({}) /\ {} \in SUBSET Objects
    BY <1>2 DEF Closed
  <2>2. QED
    BY <2>1, ReachableIsLeast
<1>4. Newest(allocated) = Null
  BY DEF Init, Newest
<1>5. QED
  BY <1>1, <1>3, <1>4 DEF Init, CInv, Unborn, ReachableIsAllocated,
     ListInOrder, MarksInOrder, SweepInOrder

(* After a step, a set that is closed for the new roots and references     *)
(* contains everything the program can get at.                             *)
LEMMA ReachableAfter ==
  ASSUME NEW S \in SUBSET Objects,
         Roots' \subseteq S, \A o \in S : refs'[o] \subseteq S
  PROVE  Reachable' \subseteq S
BY DEF Reachable, Closed

(* While the program runs, the invariant is about the heap alone.          *)
LEMMA ProgramInv ==
  ASSUME CInv, TypeOK', phase = "program", phase' = "program",
         UNCHANGED <<marked, greys>>, ListInOrder', Unborn',
         NEW S \in SUBSET Objects, S \subseteq allocated',
         Roots' \subseteq S, \A o \in S : refs'[o] \subseteq S
  PROVE  CInv'
<1>1. ReachableIsAllocated'
  BY ReachableAfter DEF ReachableIsAllocated
<1>2. MarksInOrder' /\ SweepInOrder'
  BY DEF CInv, MarksInOrder, SweepInOrder
<1>3. QED
  BY <1>1, <1>2 DEF CInv

(* The roots of one source grow by a set.                                  *)
LEMMA MoreRoots ==
  ASSUME TypeOK, NEW s \in Sources, NEW o,
         roots' = [roots EXCEPT ![s] = @ \cup {o}]
  PROVE  Roots' = Roots \cup {o}
BY DEF TypeOK, Roots, RootsIn

-----------------------------------------------------------------------------
(* Steps of the program.                                                   *)

(* Facts every program step starts from.                                   *)
LEMMA ProgramStart ==
  ASSUME CInv, phase = "program"
  PROVE  /\ TypeOK /\ Unborn /\ ListInOrder
         /\ Reachable \subseteq allocated /\ allocated \subseteq Objects
         /\ Roots \subseteq Reachable /\ \A o \in Reachable : refs[o] \subseteq Reachable
         /\ \A o \in allocated : o <= last
<1>1. allocated \subseteq Objects /\ \A o \in allocated : o <= last
  BY BoundAssumption DEF CInv, TypeOK, Objects
<1>2. QED
  BY <1>1, ReachableIsClosed DEF CInv, ReachableIsAllocated, Closed

LEMMA NewObjectStep ==
  ASSUME CInv, NEW s \in Sources, NEW children \in SUBSET Objects,
         NewObject(s, children)
  PROVE  CInv'
<1> USE DEF NewObject, Idle
<1>1. phase = "program" /\ phase' = "program" /\ UNCHANGED <<marked, greys>>
  BY DEF marking
<1>2. /\ TypeOK /\ Unborn /\ ListInOrder
      /\ Reachable \subseteq allocated /\ allocated \subseteq Objects
      /\ Roots \subseteq Reachable /\ \A o \in Reachable : refs[o] \subseteq Reachable
      /\ \A o \in allocated : o <= last
  BY <1>1, ProgramStart
<1>3. /\ last' \in Objects /\ last' \notin allocated
      /\ last' \in Nat /\ allocated' = allocated \cup {last'}
      /\ head' \in Linked /\ next' \in [Objects -> Linked]
      /\ last' \in 0..MaxObjects /\ allocated' \in SUBSET (1..last')
      /\ ListInOrder'
  BY <1>2, AllocateKeepsOrder
<1>4. refs' = [refs EXCEPT ![last'] = children]
  OBVIOUS
<1>5. TypeOK'
  BY <1>1, <1>2, <1>3, <1>4 DEF TypeOK, walk, Linked
<1>6. Unborn'
  <2>1. last' = last + 1 /\ last \in Nat
    BY <1>2 DEF Allocate, TypeOK
  <2>2. QED
    BY <1>2, <1>3, <1>4, <2>1 DEF Unborn, TypeOK, Objects
<1>7. Roots' = Roots \cup {last'}
  BY <1>2, MoreRoots
<1> DEFINE S == Reachable \cup {last'}
<1>8. S \in SUBSET Objects /\ S \subseteq allocated' /\ Roots' \subseteq S
  BY <1>2, <1>3, <1>7
<1>9. \A o \in S : refs'[o] \subseteq S
  <2>1. refs'[last'] = children /\ children \subseteq Reachable
    BY <1>2, <1>3, <1>4 DEF TypeOK
  <2>2. \A o \in Reachable : refs'[o] = refs[o]
    BY <1>2, <1>3, <1>4 DEF TypeOK
  <2>3. QED
    BY <1>2, <2>1, <2>2
<1> HIDE DEF S
<1>10. QED
  BY <1>1, <1>3, <1>5, <1>6, <1>8, <1>9, ProgramInv

LEMMA FindStringStep ==
  ASSUME CInv, NEW s \in Sources, NEW o \in Objects, FindString(s, o)
  PROVE  CInv'
<1> USE DEF FindString, Idle
<1>1. phase = "program" /\ phase' = "program" /\ UNCHANGED <<marked, greys>>
  BY DEF marking
<1>2. /\ TypeOK /\ Unborn /\ ListInOrder
      /\ Reachable \subseteq allocated /\ allocated \subseteq Objects
      /\ Roots \subseteq Reachable /\ \A p \in Reachable : refs[p] \subseteq Reachable
  BY <1>1, ProgramStart
<1>3. TypeOK' /\ Unborn' /\ ListInOrder'
  BY <1>1, <1>2 DEF TypeOK, Unborn, ListInOrder, Before, list, walk
<1>4. Roots' = Roots \cup {o}
  BY <1>2, MoreRoots
<1> DEFINE S == Reachable \cup {o}
<1>5. /\ S \in SUBSET Objects /\ S \subseteq allocated' /\ Roots' \subseteq S
      /\ \A p \in S : refs'[p] \subseteq S
  BY <1>2, <1>4 DEF list
<1> HIDE DEF S
<1>6. QED
  BY <1>1, <1>3, <1>5, ProgramInv

(* Steps that only move references among reachable objects.                *)
LEMMA AddRootStep ==
  ASSUME CInv, NEW s \in Sources, NEW o \in Objects, AddRoot(s, o)
  PROVE  CInv'
<1> USE DEF AddRoot, Idle
<1>1. phase = "program" /\ phase' = "program" /\ UNCHANGED <<marked, greys>>
  BY DEF marking
<1>2. /\ TypeOK /\ Unborn /\ ListInOrder
      /\ Reachable \subseteq allocated /\ allocated \subseteq Objects
      /\ Roots \subseteq Reachable /\ \A p \in Reachable : refs[p] \subseteq Reachable
  BY <1>1, ProgramStart
<1>3. TypeOK' /\ Unborn' /\ ListInOrder'
  BY <1>1, <1>2 DEF TypeOK, Unborn, ListInOrder, Before, list, walk
<1>4. Roots' = Roots \cup {o}
  BY <1>2, MoreRoots
<1> DEFINE S == Reachable
<1>5. /\ S \in SUBSET Objects /\ S \subseteq allocated' /\ Roots' \subseteq S
      /\ \A p \in S : refs'[p] \subseteq S
  BY <1>2, <1>4 DEF list
<1> HIDE DEF S
<1>6. QED
  BY <1>1, <1>3, <1>5, ProgramInv

LEMMA DropRootStep ==
  ASSUME CInv, NEW s \in Sources, NEW o \in Objects, DropRoot(s, o)
  PROVE  CInv'
<1> USE DEF DropRoot, Idle
<1>1. phase = "program" /\ phase' = "program" /\ UNCHANGED <<marked, greys>>
  BY DEF marking
<1>2. /\ TypeOK /\ Unborn /\ ListInOrder
      /\ Reachable \subseteq allocated /\ allocated \subseteq Objects
      /\ Roots \subseteq Reachable /\ \A p \in Reachable : refs[p] \subseteq Reachable
  BY <1>1, ProgramStart
<1>3. TypeOK' /\ Unborn' /\ ListInOrder'
  BY <1>1, <1>2 DEF TypeOK, Unborn, ListInOrder, Before, list, walk
<1>4. Roots' \subseteq Roots
  BY <1>2 DEF TypeOK, Roots, RootsIn
<1> DEFINE S == Reachable
<1>5. /\ S \in SUBSET Objects /\ S \subseteq allocated' /\ Roots' \subseteq S
      /\ \A p \in S : refs'[p] \subseteq S
  BY <1>2, <1>4 DEF list
<1> HIDE DEF S
<1>6. QED
  BY <1>1, <1>3, <1>5, ProgramInv

LEMMA RefStep ==
  ASSUME CInv, NEW o \in Objects, NEW p \in Objects, SetRef(o, p) \/ ClearRef(o, p)
  PROVE  CInv'
<1> USE DEF SetRef, ClearRef, Idle
<1>1. phase = "program" /\ phase' = "program" /\ UNCHANGED <<marked, greys, list, roots>>
  BY DEF marking
<1>2. /\ TypeOK /\ Unborn /\ ListInOrder
      /\ Reachable \subseteq allocated /\ allocated \subseteq Objects
      /\ Roots \subseteq Reachable /\ \A q \in Reachable : refs[q] \subseteq Reachable
      /\ \A q \in allocated : q <= last
  BY <1>1, ProgramStart
<1>3. o \in Reachable /\ (refs' = [refs EXCEPT ![o] = @ \cup {p}] \/ refs' = [refs EXCEPT ![o] = @ \ {p}])
  OBVIOUS
<1>4. TypeOK' /\ ListInOrder'
  BY <1>1, <1>2, <1>3 DEF TypeOK, ListInOrder, Before, list, walk
<1>5. Unborn'
  <2>1. o <= last /\ o \in Nat /\ last \in Nat
    BY <1>2, <1>3 DEF TypeOK, Objects
  <2>2. ASSUME NEW q \in Objects, q > last PROVE refs'[q] = {}
    BY <1>2, <1>3, <2>1, <2>2 DEF TypeOK, Unborn
  <2>3. QED
    BY <1>1, <2>2 DEF Unborn, list
<1>6. Roots' \subseteq Roots
  BY <1>1 DEF Roots, RootsIn
<1> DEFINE S == Reachable
<1>7. S \in SUBSET Objects /\ S \subseteq allocated' /\ Roots' \subseteq S
  BY <1>1, <1>2, <1>6 DEF list
<1>8. ASSUME NEW q \in S PROVE refs'[q] \subseteq S
  <2>1. CASE q = o
    <3>1. refs'[q] \subseteq refs[q] \cup {p}
      BY <1>2, <1>3, <2>1 DEF TypeOK
    <3>2. refs[q] \subseteq Reachable /\ (SetRef(o, p) => p \in Reachable)
      BY <1>2
    <3>3. SetRef(o, p) \/ refs'[q] \subseteq refs[q]
      BY <1>2, <2>1 DEF TypeOK
    <3>4. QED
      BY <3>1, <3>2, <3>3
  <2>2. CASE q # o
    BY <1>2, <1>3, <2>2 DEF TypeOK
  <2>3. QED
    BY <2>1, <2>2
<1> HIDE DEF S
<1>9. QED
  BY <1>1, <1>4, <1>5, <1>7, <1>8, ProgramInv

LEMMA BeginFunctionStep ==
  ASSUME CInv, BeginFunction
  PROVE  CInv'
<1> USE DEF BeginFunction, Idle
<1>1. phase = "program" /\ phase' = "program" /\ UNCHANGED <<marked, greys, refs, roots>>
  BY DEF marking
<1>2. /\ TypeOK /\ Unborn /\ ListInOrder
      /\ Reachable \subseteq allocated /\ allocated \subseteq Objects
      /\ Roots \subseteq Reachable /\ \A q \in Reachable : refs[q] \subseteq Reachable
  BY <1>1, ProgramStart
<1>3. /\ last' \in Objects /\ last' \notin allocated
      /\ last' \in Nat /\ allocated' = allocated \cup {last'}
      /\ head' \in Linked /\ next' \in [Objects -> Linked]
      /\ last' \in 0..MaxObjects /\ allocated' \in SUBSET (1..last')
      /\ ListInOrder'
  BY <1>2, AllocateKeepsOrder
<1>4. TypeOK'
  BY <1>1, <1>2, <1>3 DEF TypeOK, walk, Linked
<1>5. Unborn'
  <2>1. last' = last + 1 /\ last \in Nat
    BY <1>2 DEF Allocate, TypeOK
  <2>2. QED
    BY <1>1, <1>2, <2>1 DEF Unborn, Objects
<1>6. Roots' = Roots
  BY <1>1 DEF Roots, RootsIn
<1> DEFINE S == Reachable
<1>7. /\ S \in SUBSET Objects /\ S \subseteq allocated' /\ Roots' \subseteq S
      /\ \A q \in S : refs'[q] \subseteq S
  BY <1>1, <1>2, <1>3, <1>6
<1> HIDE DEF S
<1>8. QED
  BY <1>1, <1>3, <1>4, <1>5, <1>7, ProgramInv

(* The function and its name become reachable; the name refers to nothing. *)
LEMMA NameFunctionStep ==
  ASSUME CInv, NEW s \in Sources, NameFunction(s)
  PROVE  CInv'
<1> USE DEF NameFunction
<1>1. /\ phase = "program" /\ phase' = "program" /\ UNCHANGED <<marked, greys>>
      /\ held \in allocated /\ held' = Null /\ UNCHANGED <<prev, curr>>
  BY DEF marking, walk
<1>2. /\ TypeOK /\ Unborn /\ ListInOrder
      /\ Reachable \subseteq allocated /\ allocated \subseteq Objects
      /\ Roots \subseteq Reachable /\ \A q \in Reachable : refs[q] \subseteq Reachable
      /\ \A q \in allocated : q <= last
  BY <1>1, ProgramStart
<1>3. Roots' = Roots \cup {held} /\ roots' \in [Sources -> SUBSET Objects]
  <2>1. roots' = [roots EXCEPT ![s] = @ \cup {held}]
    OBVIOUS
  <2>2. Roots' = Roots \cup {held}
    BY <1>2, <2>1, MoreRoots
  <2>3. held \in Objects
    BY <1>1, <1>2
  <2>4. roots' \in [Sources -> SUBSET Objects]
    BY <1>2, <2>1, <2>3 DEF TypeOK
  <2>5. QED
    BY <2>2, <2>4
<1>4. \E name \in Objects :
        /\ name \in allocated' /\ refs[name] = {} /\ name # held
        /\ refs' = [refs EXCEPT ![held] = {name}]
        /\ allocated \subseteq allocated' /\ last' \in Nat /\ last <= last'
        /\ head' \in Linked /\ next' \in [Objects -> Linked]
        /\ last' \in 0..MaxObjects /\ allocated' \in SUBSET (1..last')
        /\ ListInOrder'
  <2>1. CASE /\ \E name \in allocated \ {held} :
                   refs[name] = {} /\ refs' = [refs EXCEPT ![held] = {name}]
             /\ UNCHANGED list
    <3>1. PICK name \in allocated \ {held} :
            refs[name] = {} /\ refs' = [refs EXCEPT ![held] = {name}]
      BY <2>1
    <3>2. ListInOrder' /\ UNCHANGED <<head, next, last, allocated>>
      BY <1>2, <2>1 DEF ListInOrder, Before, list
    <3>3. /\ name \in Objects /\ last' \in Nat /\ last <= last'
          /\ head' \in Linked /\ next' \in [Objects -> Linked]
          /\ last' \in 0..MaxObjects /\ allocated' \in SUBSET (1..last')
      BY <1>2, <3>1, <3>2 DEF TypeOK
    <3>4. QED
      BY <3>1, <3>2, <3>3
  <2>2. CASE Allocate /\ refs' = [refs EXCEPT ![held] = {last'}]
    <3>1. /\ last' \in Objects /\ last' \notin allocated
          /\ last' \in Nat /\ allocated' = allocated \cup {last'}
          /\ head' \in Linked /\ next' \in [Objects -> Linked]
          /\ last' \in 0..MaxObjects /\ allocated' \in SUBSET (1..last')
          /\ ListInOrder'
      BY <1>2, <2>2, AllocateKeepsOrder
    <3>2. last' = last + 1 /\ last \in Nat
      BY <1>2, <2>2 DEF Allocate, TypeOK
    <3>3. refs[last'] = {}
      BY <1>2, <3>1, <3>2 DEF Unborn
    <3>4. last' # held /\ last <= last' /\ last' \in allocated'
      BY <1>1, <3>1, <3>2
    <3>5. /\ last' \in allocated' /\ refs[last'] = {} /\ last' # held
          /\ refs' = [refs EXCEPT ![held] = {last'}]
          /\ allocated \subseteq allocated' /\ last' \in Nat /\ last <= last'
      BY <2>2, <3>1, <3>3, <3>4
    <3>6. QED
      BY <3>1, <3>5
  <2>3. QED
    BY <2>1, <2>2
<1>5. PICK name \in Objects :
        /\ name \in allocated' /\ refs[name] = {} /\ name # held
        /\ refs' = [refs EXCEPT ![held] = {name}]
        /\ allocated \subseteq allocated' /\ last' \in Nat /\ last <= last'
        /\ head' \in Linked /\ next' \in [Objects -> Linked]
        /\ last' \in 0..MaxObjects /\ allocated' \in SUBSET (1..last')
        /\ ListInOrder'
  BY <1>4
<1>6. TypeOK'
  BY <1>1, <1>2, <1>3, <1>5 DEF TypeOK, Linked
<1>7. Unborn'
  <2>1. held <= last /\ held \in Nat /\ last \in Nat
    BY <1>1, <1>2 DEF TypeOK, Objects
  <2>2. ASSUME NEW q \in Objects, q > last' PROVE refs'[q] = {}
    <3>1. q \in Nat /\ q > last /\ q # held
      BY <1>5, <2>1, <2>2 DEF Objects
    <3>2. QED
      BY <1>2, <1>5, <3>1 DEF Unborn, TypeOK
  <2>3. QED
    BY <2>2 DEF Unborn
<1> DEFINE S == Reachable \cup {held, name}
<1>8. S \in SUBSET Objects /\ S \subseteq allocated' /\ Roots' \subseteq S
  BY <1>1, <1>2, <1>3, <1>5
<1>9. \A q \in S : refs'[q] \subseteq S
  <2>1. refs'[held] = {name} /\ refs'[name] = {}
    BY <1>1, <1>2, <1>5 DEF TypeOK
  <2>2. \A q \in Reachable : q # held => refs'[q] = refs[q]
    BY <1>2, <1>5 DEF TypeOK
  <2>3. QED
    BY <1>2, <2>1, <2>2
<1> HIDE DEF S
<1>10. QED
  BY <1>1, <1>5, <1>6, <1>7, <1>8, <1>9, ProgramInv

(* Once the program is lost only what was true of the heap is kept.        *)
LEMMA NameFreedFunctionStep ==
  ASSUME CInv, NameFreedFunction
  PROVE  CInv'
<1>1. /\ UNCHANGED <<head, next, allocated, last, refs, roots, held, marked, greys, prev, curr>>
      /\ phase' = "lost"
  BY DEF NameFreedFunction, list, program, marking, walk
<1>2. Reachable' = Reachable
  BY <1>1 DEF Reachable, Closed, Roots, RootsIn
<1>3. QED
  BY <1>1, <1>2 DEF CInv, TypeOK, Unborn, ReachableIsAllocated, MarksInOrder, SweepInOrder

-----------------------------------------------------------------------------
(* Steps of the collector.                                                 *)

(* A step of the collector that leaves references alone leaves what the    *)
(* program can get at alone.                                               *)
LEMMA SameReachable ==
  ASSUME UNCHANGED <<refs, roots>>
  PROVE  Reachable' = Reachable /\ Roots' = Roots
<1>1. Roots' = Roots
  BY DEF Roots, RootsIn
<1>2. QED
  BY <1>1 DEF Reachable, Closed

LEMMA MarkRootsStep ==
  ASSUME CInv, MarkRoots
  PROVE  CInv'
<1>1. /\ phase = "program" /\ phase' = "mark"
      /\ UNCHANGED <<head, next, allocated, last, refs, roots, held, prev, curr>>
  BY DEF MarkRoots, list, program, walk
<1>2. TypeOK /\ marked = {} /\ greys = {}
  BY <1>1 DEF CInv, MarksInOrder
<1>3. marked' = Roots /\ greys' = Roots
  BY <1>2 DEF MarkRoots, MarkGray, NotYetMarked, RootsMarked, Roots
<1>4. Reachable' = Reachable /\ Roots' = Roots
  BY <1>1, SameReachable
<1>5. Roots \subseteq Reachable /\ Reachable \subseteq Objects
  BY <1>2, ReachableIsClosed DEF Closed
<1>6. TypeOK'
  BY <1>1, <1>2, <1>3, <1>5 DEF TypeOK
<1>7. MarksInOrder' /\ SweepInOrder'
  BY <1>1, <1>3, <1>4, <1>5 DEF MarksInOrder, SweepInOrder
<1>8. QED
  BY <1>1, <1>4, <1>6, <1>7
     DEF CInv, Unborn, ReachableIsAllocated, ListInOrder, Before

LEMMA BlackenStep ==
  ASSUME CInv, Blacken
  PROVE  CInv'
<1>1. /\ phase = "mark" /\ phase' = "mark"
      /\ UNCHANGED <<head, next, allocated, last, refs, roots, held, prev, curr>>
  BY DEF Blacken, list, program, walk
<1>2. PICK o \in greys : /\ marked' = marked \cup refs[o]
                         /\ greys' = (greys \ {o}) \cup (refs[o] \ marked)
  BY DEF Blacken, MarkGray, NotYetMarked
<1>3. /\ TypeOK /\ marked \subseteq Reachable /\ Roots \subseteq marked
      /\ greys \subseteq marked /\ \A p \in marked \ greys : refs[p] \subseteq marked
  BY <1>1 DEF CInv, MarksInOrder
<1>4. Reachable' = Reachable /\ Roots' = Roots
  BY <1>1, SameReachable
<1>5. refs[o] \subseteq Reachable /\ Reachable \subseteq Objects
  BY <1>2, <1>3, ReachableIsClosed DEF Closed
<1>6. TypeOK'
  BY <1>1, <1>2, <1>3, <1>5 DEF TypeOK
<1>7. \A p \in marked' \ greys' : refs'[p] \subseteq marked'
  BY <1>1, <1>2, <1>3
<1>8. MarksInOrder' /\ SweepInOrder'
  BY <1>1, <1>2, <1>3, <1>4, <1>5, <1>7 DEF MarksInOrder, SweepInOrder
<1>9. QED
  BY <1>1, <1>4, <1>6, <1>8
     DEF CInv, Unborn, ReachableIsAllocated, ListInOrder, Before

LEMMA BeginSweepStep ==
  ASSUME CInv, BeginSweep
  PROVE  CInv'
<1>1. /\ phase = "mark" /\ phase' = "sweep" /\ greys = {}
      /\ UNCHANGED <<head, next, allocated, last, refs, roots, held, marked, greys>>
      /\ prev' = Null /\ curr' = head
  BY DEF BeginSweep, list, program, marking
<1>2. /\ TypeOK /\ marked \subseteq Reachable /\ Roots \subseteq marked
      /\ \A p \in marked : refs[p] \subseteq marked
      /\ Reachable \subseteq allocated /\ head = Newest(allocated)
  BY <1>1 DEF CInv, MarksInOrder, ReachableIsAllocated, ListInOrder
<1>3. Reachable' = Reachable /\ Roots' = Roots
  BY <1>1, SameReachable
<1>4. Reachable \subseteq marked
  <2>1. Closed(marked) /\ marked \in SUBSET Objects
    BY <1>2 DEF Closed, TypeOK
  <2>2. QED
    BY <2>1, ReachableIsLeast
<1>5. last \in Nat /\ allocated \in SUBSET (1..last) /\ \A o \in allocated : o \in Nat
  BY <1>2, BoundAssumption DEF TypeOK
<1> DEFINE m == Newest(allocated)
<1>6. m \in Nat /\ \A o \in allocated : o <= m
  BY <1>5, NewestFacts
<1>7. curr' = m /\ allocated' = allocated
  BY <1>1, <1>2
<1> HIDE DEF m
<1>8. \A o \in allocated : ~ (o > m)
  BY <1>5, <1>6
<1>9. TypeOK'
  BY <1>1, <1>2 DEF TypeOK, Linked, Null
<1>10. SweepInOrder'
  BY <1>1, <1>2, <1>3, <1>4, <1>6, <1>7, <1>8 DEF SweepInOrder, m
<1>11. QED
  BY <1>1, <1>2, <1>3, <1>9, <1>10
     DEF CInv, Unborn, ReachableIsAllocated, ListInOrder, Before, MarksInOrder

(* While the sweep runs the iterator stands on an allocated object, with   *)
(* nothing allocated between it and the one it came from.                  *)
LEMMA SweepStart ==
  ASSUME CInv, phase = "sweep"
  PROVE  /\ TypeOK /\ ListInOrder /\ SweepInOrder
         /\ Reachable \subseteq allocated
         /\ last \in Nat /\ allocated \in SUBSET (1..last)
         /\ \A o \in allocated : o \in Nat /\ o > 0
         /\ curr \in Nat /\ prev \in Nat
         /\ curr # Null => curr \in allocated
         /\ prev = Null => \A o \in allocated : o <= curr
         /\ prev # Null => /\ curr < prev
                           /\ \A o \in allocated : o < prev => o <= curr
<1>1. /\ TypeOK /\ ListInOrder /\ SweepInOrder /\ Reachable \subseteq allocated
  BY DEF CInv, ReachableIsAllocated
<1>2. /\ last \in Nat /\ allocated \in SUBSET (1..last)
      /\ \A o \in allocated : o \in Nat /\ o > 0
      /\ curr \in Nat /\ prev \in Nat
  BY <1>1, BoundAssumption DEF TypeOK, Linked, Objects, Null
<1> DEFINE S == IF prev = Null THEN allocated ELSE Before(prev)
<1>3. S \in SUBSET (1..last) /\ S \subseteq allocated
  BY <1>2 DEF Before
<1>4. curr = Newest(S)
  BY <1>1 DEF SweepInOrder
<1>5. \A o \in S : o <= curr
  BY <1>2, <1>3, <1>4, NewestFacts
<1>6. (S = {} /\ curr = Null) \/ curr \in S
  BY <1>2, <1>3, <1>4, NewestFacts
<1>7. prev # Null => curr < prev
  BY <1>2, <1>6 DEF Before, Null
<1>8. QED
  BY <1>1, <1>2, <1>3, <1>5, <1>6, <1>7 DEF Before

(* From an allocated object the iterator goes on to the newest before it.  *)
LEMMA NextInSweep ==
  ASSUME CInv, phase = "sweep", curr # Null
  PROVE  /\ curr \in allocated /\ next[curr] = Newest(Before(curr))
         /\ next[curr] \in Linked /\ next[curr] \in Nat /\ next[curr] < curr
         /\ \A o \in allocated : o < curr => o <= next[curr]
<1>1. /\ TypeOK /\ ListInOrder /\ curr \in allocated /\ curr \in Nat
      /\ last \in Nat /\ allocated \in SUBSET (1..last)
      /\ \A o \in allocated : o \in Nat /\ o > 0
  BY SweepStart
<1> DEFINE S == Before(curr)  m == Newest(S)
<1>2. S \in SUBSET (1..last) /\ \A o \in allocated : o < curr <=> o \in S
  BY <1>1 DEF Before
<1>3. \A o \in S : o < curr
  BY DEF Before
<1>4. next[curr] = m
  BY <1>1 DEF ListInOrder
<1> HIDE DEF S
<1>5. m \in Nat /\ (\A o \in S : o <= m) /\ ((S = {} /\ m = Null) \/ m \in S)
  BY <1>1, <1>2, NewestFacts
<1> HIDE DEF m
<1>6. m < curr
  BY <1>1, <1>3, <1>5 DEF Null
<1>7. next[curr] \in Linked
  BY <1>1, BoundAssumption DEF TypeOK, Objects
<1>8. QED
  BY <1>1, <1>2, <1>4, <1>5, <1>6, <1>7 DEF S, m

(* Taking away an object that is not the newest does not change which is.  *)
LEMMA NewestWithout ==
  ASSUME NEW b \in Nat, NEW S \in SUBSET (1..b), NEW c \in S, NEW q \in S, c < q
  PROVE  Newest(S \ {c}) = Newest(S)
<1> DEFINE m == Newest(S)  T == S \ {c}
<1>1. m \in S /\ \A o \in S : o <= m
  BY NewestFacts
<1> HIDE DEF m
<1>2. \A o \in S : o \in Nat
  OBVIOUS
<1>3. m # c
  BY <1>1, <1>2
<1>4. T \in SUBSET (1..b) /\ m \in T /\ \A o \in T : o <= m
  BY <1>1, <1>3
<1> HIDE DEF T
<1>5. Newest(T) = m
  BY <1>4, NewestIs
<1>6. QED
  BY <1>5 DEF T, m

(* A reachable object loses its mark and stays.                            *)
LEMMA KeepStep ==
  ASSUME CInv, Keep
  PROVE  CInv'
<1>1. /\ phase = "sweep" /\ phase' = "sweep" /\ curr \in marked
      /\ UNCHANGED <<head, next, allocated, last, refs, roots, held, greys>>
      /\ marked' = marked \ {curr} /\ prev' = curr /\ curr' = next[curr]
  BY DEF Keep, list, program
<1>2. /\ TypeOK /\ ListInOrder /\ SweepInOrder /\ Reachable \subseteq allocated
      /\ curr \in Nat /\ \A o \in allocated : o \in Nat /\ o > 0
  BY <1>1, SweepStart
<1>3. marked \subseteq Objects /\ curr \in Objects /\ curr # Null
  BY <1>1, <1>2 DEF TypeOK, Objects, Null
<1>4. /\ curr \in allocated /\ curr' = Newest(Before(curr))
      /\ curr' \in Linked /\ curr' \in Nat /\ curr' < curr
      /\ \A o \in allocated : o < curr => o <= curr'
  BY <1>1, <1>3, NextInSweep
<1>5. Reachable' = Reachable /\ Roots' = Roots
  BY <1>1, SameReachable
<1>6. TypeOK'
  <2>1. greys = {}
    BY <1>1, <1>2 DEF SweepInOrder
  <2>2. QED
    BY <1>1, <1>2, <1>3, <1>4, <2>1 DEF TypeOK, Linked
<1>7. /\ greys' = {} /\ marked' \subseteq Reachable'
      /\ curr' = IF prev' = Null THEN Newest(allocated') ELSE Newest(Before(prev)')
  BY <1>1, <1>2, <1>3, <1>4, <1>5 DEF SweepInOrder, Before
<1>8. \A o \in Reachable : o <= curr' => o \in marked'
  BY <1>1, <1>2, <1>4 DEF SweepInOrder
<1>9. \A o \in marked' : o <= curr'
  BY <1>1, <1>2, <1>4 DEF SweepInOrder
<1>10. \A o \in allocated' : o > curr' => o \in Reachable
  <2>1. \A o \in allocated : o > curr => o \in Reachable
    BY <1>1, <1>2 DEF SweepInOrder
  <2>2. curr \in Reachable
    BY <1>1, <1>2 DEF SweepInOrder
  <2>3. QED
    BY <1>1, <1>2, <1>4, <2>1, <2>2
<1>11. SweepInOrder'
  BY <1>5, <1>7, <1>8, <1>9, <1>10 DEF SweepInOrder
<1>12. QED
  BY <1>1, <1>2, <1>5, <1>6, <1>11
     DEF CInv, Unborn, ReachableIsAllocated, ListInOrder, Before, MarksInOrder

(* Unlinking the object the iterator stands on takes it out of the list,   *)
(* provided the one the iterator came from is still allocated.             *)
LEMMA UnlinkKeepsOrder ==
  ASSUME CInv, phase = "sweep", curr # Null, prev = Null \/ prev \in allocated,
         Unlink, allocated' = allocated \ {curr}
  PROVE  ListInOrder' /\ head' \in Linked /\ next' \in [Objects -> Linked]
<1>1. /\ TypeOK /\ ListInOrder /\ SweepInOrder
      /\ last \in Nat /\ allocated \in SUBSET (1..last)
      /\ \A o \in allocated : o \in Nat /\ o > 0
      /\ curr \in Nat /\ prev \in Nat
      /\ prev = Null => \A o \in allocated : o <= curr
      /\ prev # Null => /\ curr < prev
                        /\ \A o \in allocated : o < prev => o <= curr
  BY SweepStart
<1>2. /\ curr \in allocated /\ next[curr] = Newest(Before(curr))
      /\ next[curr] \in Linked
  BY NextInSweep
<1>3. \A o : Before(o)' = Before(o) \ {curr}
  BY DEF Before
<1>4. head' \in Linked /\ next' \in [Objects -> Linked]
  BY <1>1, <1>2 DEF Unlink, TypeOK
<1>5. CASE prev = Null
  <2>1. head' = next[curr] /\ next' = next
    BY <1>5 DEF Unlink
  <2>2. allocated' = Before(curr)
    <3>1. \A o \in allocated : o < curr <=> o # curr
      BY <1>1, <1>5
    <3>2. QED
      BY <3>1 DEF Before
  <2>3. ASSUME NEW o \in allocated' PROVE next'[o] = Newest(Before(o)')
    <3>1. o \in allocated /\ o <= curr
      BY <1>1, <1>5, <2>3
    <3>2. curr \notin Before(o)
      BY <1>1, <3>1 DEF Before
    <3>3. Before(o)' = Before(o)
      BY <1>3, <3>2
    <3>4. QED
      BY <1>1, <2>1, <3>1, <3>3 DEF ListInOrder
  <2>4. QED
    BY <1>2, <1>4, <2>1, <2>2, <2>3 DEF ListInOrder
<1>6. CASE prev # Null
  <2>1. prev \in allocated /\ head' = head /\ next' = [next EXCEPT ![prev] = next[curr]]
    BY <1>6 DEF Unlink
  <2>2. curr < prev /\ \A o \in allocated : o < prev => o <= curr
    BY <1>1, <1>6
  <2>3. head' = Newest(allocated')
    BY <1>1, <1>2, <2>1, <2>2, NewestWithout DEF ListInOrder
  <2>4. ASSUME NEW o \in allocated' PROVE next'[o] = Newest(Before(o)')
    <3>1. o \in allocated /\ o # curr /\ o \in Nat
      BY <1>1, <2>4
    <3>2. CASE o = prev
      <4>1. \A p \in allocated : p < prev /\ p # curr <=> p < curr
        BY <1>1, <2>2
      <4>2. Before(prev) \ {curr} = Before(curr)
        BY <4>1 DEF Before
      <4>3. next'[o] = next[curr]
        BY <1>1, <2>1, <3>2, BoundAssumption DEF TypeOK, Objects
      <4>4. QED
        BY <1>2, <1>3, <3>2, <4>2, <4>3
    <3>3. CASE o # prev
      <4>1. next'[o] = Newest(Before(o))
        BY <1>1, <2>1, <3>1, <3>3 DEF TypeOK, ListInOrder
      <4>2. CASE o < curr
        <5>1. curr \notin Before(o)
          BY <1>1, <3>1, <4>2 DEF Before
        <5>2. QED
          BY <1>3, <4>1, <5>1
      <4>3. CASE o > curr
        <5>1. prev < o
          BY <1>1, <2>1, <2>2, <3>1, <3>3, <4>3
        <5>2. curr \in Before(o) /\ prev \in Before(o)
          BY <1>2, <2>1, <4>3, <5>1 DEF Before
        <5>3. Before(o) \in SUBSET (1..last)
          BY <1>1 DEF Before
        <5>4. QED
          BY <1>1, <1>3, <2>2, <4>1, <5>2, <5>3, NewestWithout
      <4>4. QED
        BY <1>1, <3>1, <4>2, <4>3
    <3>4. QED
      BY <3>2, <3>3
  <2>5. QED
    BY <1>4, <2>3, <2>4 DEF ListInOrder
<1>7. QED
  BY <1>5, <1>6

(* What is freed is unmarked, so the program could not get at it.          *)
LEMMA FreeObjectStep ==
  ASSUME CInv, FreeObject
  PROVE  CInv'
<1>1. /\ phase = "sweep" /\ curr # Null /\ curr \notin marked
      /\ allocated' = allocated \ {curr} /\ prev' = curr
      /\ UNCHANGED <<last, refs, roots, held, marked, greys>>
  BY DEF FreeObject, program, marking
<1>2. /\ TypeOK /\ ListInOrder /\ SweepInOrder /\ Reachable \subseteq allocated
      /\ curr \in Nat /\ prev \in Nat /\ \A o \in allocated : o \in Nat /\ o > 0
  BY <1>1, SweepStart
<1>3. /\ curr \in allocated /\ next[curr] = Newest(Before(curr))
      /\ next[curr] \in Linked /\ next[curr] \in Nat /\ next[curr] < curr
      /\ \A o \in allocated : o < curr => o <= next[curr]
  BY <1>1, NextInSweep
<1>4. Reachable' = Reachable /\ Roots' = Roots
  BY <1>1, SameReachable
<1>5. curr \notin Reachable
  BY <1>1, <1>2 DEF SweepInOrder
<1>6. ReachableIsAllocated' /\ Unborn'
  BY <1>1, <1>2, <1>4, <1>5 DEF CInv, Unborn, ReachableIsAllocated
<1>7. /\ last' \in 0..MaxObjects /\ allocated' \in SUBSET (1..last')
      /\ refs' \in [Objects -> SUBSET Objects]
      /\ roots' \in [Sources -> SUBSET Objects] /\ held' \in Linked
      /\ marked' \in SUBSET Objects /\ greys' \in SUBSET marked' /\ prev' \in Linked
  BY <1>1, <1>2 DEF TypeOK, Linked
<1>8. CASE prev # Null /\ prev \notin allocated
  <2>1. phase' = "lost" /\ UNCHANGED <<head, next, curr>>
    BY <1>8 DEF FreeObject
  <2>2. TypeOK'
    BY <1>2, <1>7, <2>1 DEF TypeOK, Linked
  <2>3. QED
    BY <1>6, <2>1, <2>2 DEF CInv, MarksInOrder, SweepInOrder
<1>9. CASE prev = Null \/ prev \in allocated
  <2>1. Unlink /\ ((curr' = next[curr] /\ phase' = phase) \/ (phase' = "lost" /\ curr' = curr))
    BY <1>9 DEF FreeObject
  <2>2. ListInOrder' /\ head' \in Linked /\ next' \in [Objects -> Linked]
    BY <1>1, <1>9, <2>1, UnlinkKeepsOrder
  <2>3. TypeOK'
    BY <1>1, <1>2, <1>3, <1>7, <2>1, <2>2 DEF TypeOK, Linked
  <2>4. MarksInOrder'
    BY <1>1, <2>1 DEF MarksInOrder
  <2>5. CASE phase' = "lost"
    BY <1>6, <2>2, <2>3, <2>4, <2>5 DEF CInv, SweepInOrder
  <2>6. CASE curr' = next[curr] /\ phase' = phase
    <3>1. Before(curr) = {p \in allocated' : p < curr}
      BY <1>1, <1>2 DEF Before
    <3>2. curr' = IF prev' = Null THEN Newest(allocated') ELSE Newest(Before(prev)')
      BY <1>1, <1>3, <2>6, <3>1 DEF Before
    <3>3. \A o \in Reachable : o <= curr' => o \in marked
      BY <1>1, <1>2, <1>3, <2>6 DEF SweepInOrder
    <3>4. \A o \in marked : o <= curr'
      <4>1. \A o \in marked : o \in allocated /\ o <= curr /\ o # curr
        <5>1. marked \subseteq Reachable /\ \A o \in marked : o <= curr
          BY <1>1, <1>2 DEF SweepInOrder
        <5>2. QED
          BY <1>1, <1>2, <5>1
      <4>2. \A o \in marked : o < curr
        BY <1>2, <4>1
      <4>3. QED
        BY <1>2, <1>3, <2>6, <4>1, <4>2
    <3>5. \A o \in allocated' : o > curr' => o \in Reachable
      <4>1. \A o \in allocated : o > curr => o \in Reachable
        BY <1>1, <1>2 DEF SweepInOrder
      <4>2. QED
        BY <1>1, <1>2, <1>3, <2>6, <4>1
    <3>6. SweepInOrder'
      BY <1>1, <1>2, <1>4, <3>2, <3>3, <3>4, <3>5 DEF SweepInOrder
    <3>7. QED
      BY <1>6, <2>2, <2>3, <2>4, <3>6 DEF CInv
  <2>7. QED
    BY <2>1, <2>5, <2>6
<1>10. QED
  BY <1>8, <1>9

(* At the end of the list no mark is left and no garbage.                  *)
LEMMA EndSweepStep ==
  ASSUME CInv, EndSweep
  PROVE  CInv' /\ allocated' \subseteq Reachable
<1>1. /\ phase = "sweep" /\ phase' = "program" /\ curr = Null /\ prev' = Null
      /\ UNCHANGED <<head, next, allocated, last, refs, roots, held, marked, greys, curr>>
  BY DEF EndSweep, list, program, marking
<1>2. /\ TypeOK /\ ListInOrder /\ SweepInOrder /\ Reachable \subseteq allocated
      /\ \A o \in allocated : o \in Nat /\ o > 0
  BY <1>1, SweepStart
<1>3. Reachable' = Reachable /\ Roots' = Roots
  BY <1>1, SameReachable
<1>4. marked = {} /\ greys = {}
  <2>1. marked \subseteq allocated /\ \A o \in marked : o <= Null
    BY <1>1, <1>2 DEF SweepInOrder
  <2>2. QED
    BY <1>1, <1>2, <2>1 DEF SweepInOrder, Null
<1>5. allocated \subseteq Reachable
  BY <1>1, <1>2 DEF SweepInOrder, Null
<1>6. TypeOK'
  BY <1>1, <1>2 DEF TypeOK, Linked
<1>7. QED
  BY <1>1, <1>2, <1>3, <1>4, <1>5, <1>6
     DEF CInv, Unborn, ReachableIsAllocated, ListInOrder, Before, MarksInOrder, SweepInOrder

-----------------------------------------------------------------------------
(* Every step keeps the invariant.                                         *)

LEMMA NextCInv == CInv /\ [Next]_vars => CInv'
<1> SUFFICES ASSUME CInv, [Next]_vars PROVE CInv'
  OBVIOUS
<1>1. CASE \E s \in Sources, children \in SUBSET Objects : NewObject(s, children)
  BY <1>1, NewObjectStep
<1>2. CASE \E s \in Sources, o \in Objects :
             FindString(s, o) \/ AddRoot(s, o) \/ DropRoot(s, o)
  BY <1>2, FindStringStep, AddRootStep, DropRootStep
<1>3. CASE \E o, p \in Objects : SetRef(o, p) \/ ClearRef(o, p)
  BY <1>3, RefStep
<1>4. CASE BeginFunction
  BY <1>4, BeginFunctionStep
<1>5. CASE \E s \in Sources : NameFunction(s)
  BY <1>5, NameFunctionStep
<1>6. CASE NameFreedFunction
  BY <1>6, NameFreedFunctionStep
<1>7. CASE Collect
  BY <1>7, MarkRootsStep, BlackenStep, BeginSweepStep, KeepStep, FreeObjectStep,
     EndSweepStep DEF Collect
<1>8. CASE UNCHANGED vars
  <2>1. Reachable' = Reachable /\ Roots' = Roots
    BY <1>8, SameReachable DEF vars
  <2>2. QED
    BY <1>8, <2>1 DEF vars, CInv, TypeOK, Unborn, ReachableIsAllocated,
       ListInOrder, Before, MarksInOrder, SweepInOrder
<1>9. QED
  BY <1>1, <1>2, <1>3, <1>4, <1>5, <1>6, <1>7, <1>8 DEF Next, Program

LEMMA CInvHolds == Spec => []CInv
<1>1. QED
  BY InitCInv, NextCInv, PTL DEF Spec

(* Every variable of the collector and of its list keeps its type.         *)
THEOREM CollectorTypes == Spec => []TypeOK
<1>1. CInv => TypeOK
  BY DEF CInv
<1>2. QED
  BY <1>1, CInvHolds, PTL

(* Memory_sweep frees nothing the program can get at, for any number of    *)
(* objects, of references and of sources.                                  *)
THEOREM ReachableNeverFreed == Spec => []ReachableIsAllocated
<1>1. CInv => ReachableIsAllocated
  BY DEF CInv
<1>2. QED
  BY <1>1, CInvHolds, PTL

(* Whenever the program runs, vm->objects is exactly the allocated objects *)
(* from the newest to the oldest, whatever collections came before.        *)
THEOREM ListIsHeap == Spec => []ListHoldsHeap
<1>1. CInv => ListHoldsHeap
  BY DEF CInv, ListHoldsHeap, ListInOrder
<1>2. QED
  BY <1>1, CInvHolds, PTL

(* The collection that just ended left no garbage.                         *)
THEOREM AllGarbageFreed == Spec => GarbageIsFreed
<1>1. CInv /\ [Next]_vars => [phase = "sweep" /\ phase' = "program" => allocated' \subseteq Reachable]_vars
  <2> SUFFICES ASSUME CInv, Next, phase = "sweep", phase' = "program"
               PROVE  allocated' \subseteq Reachable
    BY DEF vars
  <2>1. EndSweep
    BY DEF Next, Program, Idle, NewObject, FindString, AddRoot, DropRoot, SetRef,
       ClearRef, BeginFunction, NameFunction, NameFreedFunction, Collect, MarkRoots,
       Blacken, BeginSweep, Keep, FreeObject
  <2>2. QED
    BY <2>1, EndSweepStep
<1>2. QED
  BY <1>1, CInvHolds, PTL DEF Spec, GarbageIsFreed

=============================================================================
