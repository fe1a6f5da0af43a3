--------------------------- MODULE OpenValuesProofs ---------------------------
(***************************************************************************)
(* OpenValues for every stack, every set of cells and every order of       *)
(* captures, scope ends, calls and returns: the list of open cells holds   *)
(* exactly the cells that point into the stack, and variables that stay in *)
(* scope keep their cells.  When variables are captured pairwise, closures *)
(* share them as SharedVariables says.                                     *)
(***************************************************************************)
EXTENDS OpenValues, NaturalExtremes, SequenceTheorems, FiniteSetTheorems

-----------------------------------------------------------------------------
(* Sequences.                                                              *)

(* What InsertAt returns: e at place p, the rest of q around it.           *)
LEMMA InsertAtFacts ==
  ASSUME NEW T, NEW q \in Seq(T), NEW p \in 1..Len(q)+1, NEW e \in T
  PROVE  /\ InsertAt(q, p, e) \in Seq(T)
         /\ Len(InsertAt(q, p, e)) = Len(q) + 1
         /\ \A i \in 1..Len(q)+1 :
              InsertAt(q, p, e)[i] = IF i < p THEN q[i] ELSE IF i = p THEN e ELSE q[i-1]
<1> DEFINE a == SubSeq(q, 1, p-1)  b == SubSeq(q, p, Len(q))  c == a \o <<e>>
<1>0. Len(q) \in Nat /\ p \in Nat /\ p >= 1 /\ p <= Len(q) + 1
  OBVIOUS
<1>1. Len(q) \in Nat /\ p \in Nat /\ p >= 1 /\ p <= Len(q) + 1
      /\ \A i \in 1..Len(q) : q[i] \in T
  OBVIOUS
<1>2. a \in Seq(T) /\ Len(a) = p-1 /\ \A i \in 1..p-1 : a[i] = q[i]
  <2>1. p-1 \in Int /\ \A i \in 1..p-1 : q[i] \in T
    BY <1>1
  <2>2. /\ a \in Seq(T) /\ Len(a) = (IF 1 <= p-1 THEN p-1-1+1 ELSE 0)
        /\ \A i \in 1..p-1-1+1 : a[i] = q[1+i-1]
    BY <2>1, SubSeqProperties
  <2>3. QED
    BY <1>1, <2>2
<1>3. b \in Seq(T) /\ Len(b) = Len(q)-p+1 /\ \A i \in 1..Len(q)-p+1 : b[i] = q[p+i-1]
  <2>1. p \in Int /\ Len(q) \in Int /\ \A i \in p..Len(q) : q[i] \in T
    BY <1>1
  <2>2. /\ b \in Seq(T) /\ Len(b) = (IF p <= Len(q) THEN Len(q)-p+1 ELSE 0)
        /\ \A i \in 1..Len(q)-p+1 : b[i] = q[p+i-1]
    BY <2>1, SubSeqProperties
  <2>3. QED
    BY <1>1, <2>2
<1>4. InsertAt(q, p, e) = c \o b
  BY DEF InsertAt
<1>5. <<e>> \in Seq(T) /\ Len(<<e>>) = 1 /\ <<e>>[1] = e
  OBVIOUS
<1> HIDE DEF a, b
<1>6. /\ c \in Seq(T) /\ Len(c) = p
      /\ \A i \in 1..p : c[i] = IF i <= p-1 THEN a[i] ELSE <<e>>[i-(p-1)]
  <2>1. /\ c \in Seq(T) /\ Len(c) = Len(a) + Len(<<e>>)
        /\ \A i \in 1..Len(a)+Len(<<e>>) :
             c[i] = IF i <= Len(a) THEN a[i] ELSE <<e>>[i-Len(a)]
    BY <1>2, <1>5, ConcatProperties
  <2>2. QED
    BY <1>1, <1>2, <1>5, <2>1
<1>7. \A i \in 1..p : c[i] = IF i < p THEN q[i] ELSE e
  <2>1. \A i \in 1..p : i = p => c[i] = <<e>>[1]
    BY <1>1, <1>6
  <2>2. QED
    BY <1>1, <1>2, <1>5, <1>6, <2>1
<1> HIDE DEF c
<1>8. /\ c \o b \in Seq(T) /\ Len(c \o b) = p + Len(b)
      /\ \A i \in 1..p+Len(b) : (c \o b)[i] = IF i <= p THEN c[i] ELSE b[i-p]
  BY <1>3, <1>6, ConcatProperties
<1>9. Len(c \o b) = Len(q) + 1
  BY <1>1, <1>3, <1>8
<1>10. ASSUME NEW i \in 1..Len(q)+1
       PROVE  (c \o b)[i] = IF i < p THEN q[i] ELSE IF i = p THEN e ELSE q[i-1]
  <2>1. i \in 1..p+Len(b)
    BY <1>1, <1>3
  <2>2. CASE i <= p
    <3>1. i \in 1..p /\ (c \o b)[i] = c[i]
      BY <1>0, <1>8, <2>1, <2>2
    <3>2. QED
      BY <1>0, <1>7, <2>2, <3>1
  <2>3. CASE i > p
    <3>1. (c \o b)[i] = b[i-p] /\ i-p \in 1..Len(q)-p+1
      BY <1>1, <1>8, <2>1, <2>3
    <3>2. b[i-p] = q[p+(i-p)-1]
      BY <1>3, <3>1
    <3>3. p+(i-p)-1 = i-1
      BY <1>1
    <3>4. QED
      BY <1>1, <2>3, <3>1, <3>2, <3>3
  <2>4. i <= p \/ i > p
    BY <1>0
  <2>5. QED
    BY <2>2, <2>3, <2>4
<1>11. QED
  BY <1>4, <1>8, <1>9, <1>10

(* r is q with e at place p.                                               *)
OneInserted(r, q, p, e) ==
  /\ Len(r) = Len(q) + 1
  /\ \A i \in 1..Len(q)+1 : r[i] = IF i < p THEN q[i] ELSE IF i = p THEN e ELSE q[i-1]

(* A list without repetitions into which something new is inserted.        *)
LEMMA OneMore ==
  ASSUME NEW T, NEW q \in Seq(T), NEW p \in 1..Len(q)+1, NEW e \in T, NEW r \in Seq(T),
         OneInserted(r, q, p, e),
         IsInjective(q), e \notin ToSet(q)
  PROVE  /\ IsInjective(r)
         /\ ToSet(r) = ToSet(q) \cup {e}
<1> DEFINE n == Len(q)
<1>1. /\ r \in Seq(T) /\ Len(r) = n + 1
      /\ \A i \in 1..n+1 : r[i] = IF i < p THEN q[i] ELSE IF i = p THEN e ELSE q[i-1]
  BY DEF OneInserted
<1>2. n \in Nat /\ p \in 1..n+1 /\ DOMAIN q = 1..n
  OBVIOUS
<1> HIDE DEF n
<1>3. DOMAIN r = 1..n+1
  BY <1>1
<1>4. \A i \in 1..n : q[i] # e
  BY <1>2 DEF ToSet
<1>5. \A i, j \in 1..n : q[i] = q[j] => i = j
  BY <1>2 DEF IsInjective
<1>6. IsInjective(r)
  <2> SUFFICES ASSUME NEW i \in 1..n+1, NEW j \in 1..n+1, r[i] = r[j]
               PROVE  i = j
    BY <1>3 DEF IsInjective
  <2>1. CASE i = p \/ j = p
    BY <1>1, <1>2, <1>4, <2>1
  <2>2. CASE i # p /\ j # p
    <3> DEFINE u == IF i < p THEN i ELSE i-1  v == IF j < p THEN j ELSE j-1
    <3>1. u \in 1..n /\ v \in 1..n
      BY <1>2, <2>2
    <3>2. r[i] = q[u] /\ r[j] = q[v]
      BY <1>1, <1>2, <2>2
    <3>3. u = v
      BY <1>5, <3>1, <3>2
    <3>4. QED
      BY <1>2, <2>2, <3>3
  <2>3. QED
    BY <2>1, <2>2
<1>7. ASSUME NEW x \in ToSet(r) PROVE x \in ToSet(q) \cup {e}
  <2>1. PICK i \in 1..n+1 : x = r[i]
    BY <1>3 DEF ToSet
  <2>2. i < p => i \in 1..n /\ x = q[i]
    BY <1>1, <1>2, <2>1
  <2>3. i > p => i-1 \in 1..n /\ x = q[i-1]
    BY <1>1, <1>2, <2>1
  <2>4. i = p => x = e
    BY <1>1, <2>1
  <2>5. QED
    BY <1>2, <2>2, <2>3, <2>4 DEF ToSet
<1>8. ASSUME NEW x \in ToSet(q) \cup {e} PROVE x \in ToSet(r)
  <2>1. CASE x = e
    BY <1>1, <1>2, <1>3, <2>1 DEF ToSet
  <2>2. CASE x # e
    <3>1. PICK i \in 1..n : x = q[i]
      BY <1>2, <2>2 DEF ToSet
    <3>2. \E k \in 1..n+1 : r[k] = x
      <4>1. CASE i < p
        BY <1>1, <1>2, <3>1, <4>1
      <4>2. CASE i >= p
        <5>1. i+1 \in 1..n+1 /\ r[i+1] = q[i+1-1] /\ i+1-1 = i
          BY <1>1, <1>2, <4>2
        <5>2. QED
          BY <3>1, <5>1
      <4>3. QED
        BY <1>2, <4>1, <4>2
    <3>3. QED
      BY <1>3, <3>2 DEF ToSet
  <2>3. QED
    BY <2>1, <2>2
<1>9. QED
  BY <1>6, <1>7, <1>8

LEMMA InsertNew ==
  ASSUME NEW T, NEW q \in Seq(T), NEW p \in 1..Len(q)+1, NEW e \in T,
         IsInjective(q), e \notin ToSet(q)
  PROVE  /\ InsertAt(q, p, e) \in Seq(T)
         /\ IsInjective(InsertAt(q, p, e))
         /\ ToSet(InsertAt(q, p, e)) = ToSet(q) \cup {e}
<1> DEFINE r == InsertAt(q, p, e)
<1>0. p \in 1..Len(q)+1 /\ e \in T /\ q \in Seq(T)
  OBVIOUS
<1>1. r \in Seq(T) /\ Len(r) = Len(q) + 1
  BY ONLY InsertAtFacts, <1>0
<1>2. ASSUME NEW i \in 1..Len(q)+1
      PROVE  r[i] = IF i < p THEN q[i] ELSE IF i = p THEN e ELSE q[i-1]
  BY ONLY InsertAtFacts, <1>0, i \in 1..Len(q)+1
<1> HIDE DEF r
<1>3. OneInserted(r, q, p, e)
  BY <1>1, <1>2 DEF OneInserted
<1>5. IsInjective(r) /\ ToSet(r) = ToSet(q) \cup {e}
  BY <1>1, <1>3, OneMore
<1>6. QED
  BY <1>1, <1>5 DEF r

LEMMA PushNew ==
  ASSUME NEW T, NEW q \in Seq(T), NEW e \in T, IsInjective(q), e \notin ToSet(q)
  PROVE  /\ <<e>> \o q \in Seq(T)
         /\ IsInjective(<<e>> \o q)
         /\ ToSet(<<e>> \o q) = ToSet(q) \cup {e}
<1> DEFINE r == <<e>> \o q
<1>0. q \in Seq(T) /\ e \in T /\ Len(q) \in Nat /\ 1 \in 1..Len(q)+1
  OBVIOUS
<1>1. <<e>> \in Seq(T) /\ Len(<<e>>) = 1 /\ <<e>>[1] = e
  OBVIOUS
<1>2. /\ r \in Seq(T) /\ Len(r) = Len(<<e>>) + Len(q)
      /\ \A i \in 1..Len(<<e>>)+Len(q) :
           r[i] = IF i <= Len(<<e>>) THEN <<e>>[i] ELSE q[i-Len(<<e>>)]
  BY <1>1, ConcatProperties
<1> HIDE DEF r
<1>3. r \in Seq(T) /\ Len(r) = Len(q) + 1
  BY <1>0, <1>1, <1>2
<1>p. PICK p \in 1..Len(q)+1 : p = 1
  BY <1>0
<1>4. ASSUME NEW i \in 1..Len(q)+1
      PROVE  r[i] = IF i < p THEN q[i] ELSE IF i = p THEN e ELSE q[i-1]
  <2>1. i \in 1..Len(<<e>>)+Len(q) /\ ~ (i < 1) /\ (i <= 1 <=> i = 1)
    BY <1>0, <1>1
  <2>2. r[i] = IF i <= 1 THEN <<e>>[i] ELSE q[i-1]
    BY <1>1, <1>2, <2>1
  <2>3. QED
    BY <1>1, <1>p, <2>1, <2>2
<1>5. OneInserted(r, q, p, e)
  BY <1>3, <1>4 DEF OneInserted
<1>6. IsInjective(r) /\ ToSet(r) = ToSet(q) \cup {e}
  BY <1>3, <1>5, OneMore
<1>7. QED
  BY <1>3, <1>6 DEF r

(* What is left of a list without repetitions when its first k elements    *)
(* are taken away.                                                         *)
LEMMA DropFirst ==
  ASSUME NEW T, NEW q \in Seq(T), NEW k \in 0..Len(q), IsInjective(q)
  PROVE  /\ SubSeq(q, k+1, Len(q)) \in Seq(T)
         /\ IsInjective(SubSeq(q, k+1, Len(q)))
         /\ ToSet(SubSeq(q, k+1, Len(q))) = ToSet(q) \ {q[i] : i \in 1..k}
<1> DEFINE r == SubSeq(q, k+1, Len(q))  n == Len(q)
<1>0. n \in Nat /\ k \in Nat /\ k <= n
  OBVIOUS
<1>1. n \in Nat /\ k \in Nat /\ k <= n /\ DOMAIN q = 1..n /\ \A i \in 1..n : q[i] \in T
  OBVIOUS
<1>2. r \in Seq(T) /\ Len(r) = n-k /\ \A i \in 1..n-k : r[i] = q[k+i]
  <2>1. k+1 \in Int /\ n \in Int /\ \A i \in k+1..n : q[i] \in T
    BY <1>1
  <2>2. /\ r \in Seq(T) /\ Len(r) = (IF k+1 <= n THEN n-(k+1)+1 ELSE 0)
        /\ \A i \in 1..n-(k+1)+1 : r[i] = q[(k+1)+i-1]
    BY <2>1, SubSeqProperties
  <2>3. n-(k+1)+1 = n-k /\ (~ (k+1 <= n) => n-k = 0)
    BY <1>0
  <2>4. \A i \in 1..n-k : (k+1)+i-1 = k+i
    BY <1>0
  <2> HIDE DEF r, n
  <2>5. Len(r) = n-k
    BY <2>2, <2>3
  <2>6. \A i \in 1..n-k : r[i] = q[k+i]
    BY <2>2, <2>3, <2>4
  <2>7. QED
    BY <2>2, <2>5, <2>6
<1> HIDE DEF r, n
<1>3. DOMAIN r = 1..n-k
  BY <1>2
<1>4. \A i, j \in 1..n : q[i] = q[j] => i = j
  BY <1>1 DEF IsInjective
<1>5. IsInjective(r)
  <2> SUFFICES ASSUME NEW i \in 1..n-k, NEW j \in 1..n-k, r[i] = r[j]
               PROVE  i = j
    BY <1>3 DEF IsInjective
  <2>1. k+i \in 1..n /\ k+j \in 1..n
    BY <1>1
  <2>2. k+i = k+j
    BY <1>2, <1>4, <2>1
  <2>3. QED
    BY <1>1, <2>2
<1>6. ASSUME NEW x \in ToSet(r) PROVE x \in ToSet(q) \ {q[i] : i \in 1..k}
  <2>1. PICK i \in 1..n-k : x = r[i]
    BY <1>3 DEF ToSet
  <2>2. k+i \in 1..n /\ x = q[k+i]
    BY <1>1, <1>2, <2>1
  <2>3. \A j \in 1..k : q[j] # x
    BY <1>1, <1>4, <2>2
  <2>4. QED
    BY <1>1, <2>2, <2>3 DEF ToSet
<1>7. ASSUME NEW x \in ToSet(q) \ {q[i] : i \in 1..k} PROVE x \in ToSet(r)
  <2>1. PICK i \in 1..n : x = q[i]
    BY <1>1 DEF ToSet
  <2>2. i > k
    BY <1>1, <2>1
  <2>3. i-k \in 1..n-k /\ k+(i-k) = i
    BY <1>1, <2>2
  <2>4. r[i-k] = x
    BY <1>2, <2>1, <2>3
  <2>5. QED
    BY <1>3, <2>3, <2>4 DEF ToSet
<1>8. QED
  BY <1>2, <1>5, <1>6, <1>7 DEF r, n

-----------------------------------------------------------------------------
(* The frames and the stack.                                               *)

(* Each call starts above the one it was made from.                        *)
FramesRise == \A i \in 1..Len(frames)-1 : frames[i] < frames[i+1]

LEMMA StackBounds ==
  ASSUME TypeOK, Running
  PROVE  /\ Len(frames) \in Nat \ {0}
         /\ FrameStart = frames[Len(frames)] /\ FrameStart \in Slots
         /\ FrameStart \in Nat /\ FrameStart < top
         /\ top \in Nat /\ top - 1 \in Slots /\ top - 1 \in Nat
<1>1. frames \in Seq(Slots) /\ frames # <<>> /\ top \in 0..StackSize /\ FrameStart < top
  BY DEF TypeOK, Running
<1>2. StackSize \in Nat
  BY StackAssumption
<1>3. Len(frames) \in Nat \ {0}
  BY <1>1
<1>4. FrameStart = frames[Len(frames)]
  BY DEF FrameStart, Last
<1>5. FrameStart \in Slots
  BY <1>1, <1>3, <1>4
<1>6. QED
  BY <1>1, <1>2, <1>3, <1>4, <1>5 DEF Slots

LEMMA NoSlot == Unused \notin Slots /\ Own \notin Slots
BY StackAssumption DEF Slots

-----------------------------------------------------------------------------
(* The list of open cells.                                                 *)

(* The cells that leave the list are its first ones.                       *)
LEMMA MovedFirst ==
  ASSUME heap_values \in Seq(Cells), NEW first
  PROVE  \E k \in 0..Len(heap_values) :
           Moved(first) = 1..k /\ Cardinality(Moved(first)) = k
<1> DEFINE n == Len(heap_values)  M == Moved(first)  U == (1..n) \ M
<1>1. n \in Nat /\ DOMAIN heap_values = 1..n
  OBVIOUS
<1>2. M \subseteq 1..n
  BY <1>1 DEF Moved
<1>3. \A i \in M : \A j \in 1..i : j \in M
  <2> SUFFICES ASSUME NEW i \in M, NEW j \in 1..i PROVE j \in M
    OBVIOUS
  <2>1. i \in 1..n
    BY <1>2
  <2>2. j \in 1..n /\ \A l \in 1..j : l \in 1..i
    BY <1>1, <2>1
  <2>3. QED
    BY <1>1, <2>2 DEF Moved
<1> HIDE DEF n, M
<1>4. \E k \in 0..n : M = 1..k
  <2>1. CASE U = {}
    <3>1. M = 1..n
      BY <1>2, <2>1
    <3>2. n \in 0..n
      BY <1>1
    <3>3. QED
      BY <3>1, <3>2
  <2>2. CASE U # {}
    <3>1. U \subseteq Nat
      BY <1>1
    <3>2. Min(U) \in U /\ \A u \in U : Min(U) <= u
      BY <2>2, <3>1, MinOfNaturals
    <3>3. PICK m \in U : \A u \in U : m <= u
      BY <3>2
    <3>4. m \in 1..n /\ m \notin M /\ m-1 \in 0..n
      BY <1>1, <3>3
    <3>5. ASSUME NEW i \in M PROVE i \in 1..m-1
      <4>1. i \in 1..n /\ m \notin 1..i
        BY <1>2, <1>3, <3>4
      <4>2. QED
        BY <1>1, <3>4, <4>1
    <3>6. ASSUME NEW i \in 1..m-1 PROVE i \in M
      <4>1. i \in 1..n /\ ~ (m <= i)
        BY <1>1, <3>4
      <4>2. QED
        BY <3>3, <4>1
    <3>7. QED
      BY <3>4, <3>5, <3>6
  <2>3. QED
    BY <2>1, <2>2
<1>5. PICK k \in 0..n : M = 1..k
  BY <1>4
<1>6. Cardinality(1..k) = k
  <2>1. k \in Nat
    BY <1>1, <1>5
  <2>2. Cardinality(1..k) = IF 1 > k THEN 0 ELSE k-1+1
    BY <2>1, FS_Interval
  <2>3. QED
    BY <2>1, <2>2
<1>7. QED
  BY <1>5, <1>6 DEF n, M

(* move_value_from_stack_to_heap keeps the list and the cells together,    *)
(* and touches no cell below `first`.                                      *)
LEMMA MoveToHeapFacts ==
  ASSUME TypeOK, OpenCellsAreListed, NEW first \in Int, MoveToHeap(first)
  PROVE  /\ heap_values' \in Seq(Cells)
         /\ address' \in [Cells -> Slots \cup {Unused, Own}]
         /\ value' \in [Cells -> Values]
         /\ OpenCellsAreListed'
         /\ \A c \in Cells : address[c] < first => address'[c] = address[c]
<1> DEFINE n == Len(heap_values)  moving == {heap_values[i] : i \in Moved(first)}
<1>1. /\ heap_values \in Seq(Cells) /\ address \in [Cells -> Slots \cup {Unused, Own}]
      /\ value \in [Cells -> Values] /\ slots \in [Slots -> Values]
  BY DEF TypeOK
<1>2. ToSet(heap_values) = {c \in Cells : address[c] \in Slots} /\ IsInjective(heap_values)
  BY DEF OpenCellsAreListed, Attached
<1>3. PICK k \in 0..n : Moved(first) = 1..k /\ Cardinality(Moved(first)) = k
  BY <1>1, MovedFirst
<1>4. /\ heap_values' = SubSeq(heap_values, k + 1, n)
      /\ value' = [c \in Cells |-> IF c \in moving THEN slots[address[c]] ELSE value[c]]
      /\ address' = [c \in Cells |-> IF c \in moving THEN Own ELSE address[c]]
  BY <1>3 DEF MoveToHeap
<1>5. ASSUME NEW c \in moving
      PROVE  c \in Cells /\ address[c] \in Slots /\ address[c] >= first
  <2>1. PICK i \in DOMAIN heap_values :
              c = heap_values[i] /\ \A j \in 1..i : address[heap_values[j]] >= first
    BY DEF Moved
  <2>2. c \in ToSet(heap_values) /\ i \in 1..i
    BY <1>1, <2>1 DEF ToSet
  <2>3. QED
    BY <1>2, <2>1, <2>2
<1>6. /\ heap_values' \in Seq(Cells) /\ IsInjective(heap_values')
      /\ ToSet(heap_values') = ToSet(heap_values) \ moving
  <2>1. /\ SubSeq(heap_values, k+1, n) \in Seq(Cells)
        /\ IsInjective(SubSeq(heap_values, k+1, n))
        /\ ToSet(SubSeq(heap_values, k+1, n)) = ToSet(heap_values) \ {heap_values[i] : i \in 1..k}
    BY <1>1, <1>2, <1>3, DropFirst
  <2>2. QED
    BY <1>3, <1>4, <2>1
<1> HIDE DEF moving, n
<1>7. address' \in [Cells -> Slots \cup {Unused, Own}]
  BY <1>1, <1>4
<1>8. value' \in [Cells -> Values]
  BY <1>1, <1>4, <1>5
<1>9. \A c \in Cells : address'[c] \in Slots <=> address[c] \in Slots /\ c \notin moving
  BY <1>4, NoSlot
<1>10. OpenCellsAreListed'
  BY <1>2, <1>6, <1>9 DEF OpenCellsAreListed, Attached, Slots
<1>11. ASSUME NEW c \in Cells, address[c] < first PROVE address'[c] = address[c]
  <2>1. CASE c \in moving
    <3>1. address[c] \in Int /\ address[c] >= first
      BY <1>5, <2>1, StackAssumption DEF Slots
    <3>2. QED
      BY <1>11, <3>1
  <2>2. CASE c \notin moving
    BY <1>4, <2>2
  <2>3. QED
    BY <2>1, <2>2
<1>12. QED
  BY <1>6, <1>7, <1>8, <1>10, <1>11

(* create_heap_value puts a new cell on the list and drops none.           *)
LEMMA CaptureFacts ==
  ASSUME TypeOK, OpenCellsAreListed, NEW s \in Slots, NEW c \in Cells,
         address[c] = Unused,
         heap_values' = Inserted(s, c),
         address' = [address EXCEPT ![c] = s]
  PROVE  /\ heap_values' \in Seq(Cells)
         /\ address' \in [Cells -> Slots \cup {Unused, Own}]
         /\ OpenCellsAreListed'
<1>1. heap_values \in Seq(Cells) /\ address \in [Cells -> Slots \cup {Unused, Own}]
  BY DEF TypeOK
<1>2. ToSet(heap_values) = {d \in Cells : address[d] \in Slots} /\ IsInjective(heap_values)
  BY DEF OpenCellsAreListed, Attached
<1>3. c \notin ToSet(heap_values)
  BY <1>2, NoSlot
<1>4. /\ Inserted(s, c) \in Seq(Cells) /\ IsInjective(Inserted(s, c))
      /\ ToSet(Inserted(s, c)) = ToSet(heap_values) \cup {c}
  <2>1. CASE Reached(s) = {} \/ Min(Reached(s)) = Len(heap_values)
    <3>1. Inserted(s, c) = <<c>> \o heap_values
      BY <2>1 DEF Inserted
    <3>2. QED
      BY <1>1, <1>2, <1>3, <3>1, PushNew
  <2>2. CASE ~ (Reached(s) = {} \/ Min(Reached(s)) = Len(heap_values))
    <3>1. Inserted(s, c) = InsertAt(heap_values, Min(Reached(s)) + 2, c)
      BY <2>2 DEF Inserted
    <3>2. Reached(s) \subseteq 1..Len(heap_values) /\ Len(heap_values) \in Nat
      BY <1>1 DEF Reached
    <3>3. Min(Reached(s)) \in Reached(s)
      <4>1. Reached(s) \subseteq Nat /\ Reached(s) # {}
        BY <2>2, <3>2
      <4>2. QED
        BY <4>1, MinOfNaturals
    <3>4. Min(Reached(s)) + 2 \in 1..Len(heap_values)+1
      BY <2>2, <3>2, <3>3
    <3>5. QED
      BY <1>1, <1>2, <1>3, <3>1, <3>4, InsertNew
  <2>3. QED
    BY <2>1, <2>2
<1>5. address' \in [Cells -> Slots \cup {Unused, Own}]
  BY <1>1
<1>6. \A d \in Cells : address'[d] \in Slots <=> address[d] \in Slots \/ d = c
  BY <1>1
<1>7. OpenCellsAreListed'
  <2>1. ToSet(heap_values') = {d \in Cells : address'[d] \in Slots}
    BY <1>2, <1>4, <1>6
  <2>2. QED
    BY <1>4, <2>1 DEF OpenCellsAreListed, Attached, Slots
<1>8. QED
  BY <1>4, <1>5, <1>7

-----------------------------------------------------------------------------
(* The inductive invariant.                                                *)

IInv == TypeOK /\ FramesRise /\ OpenCellsAreListed

(* Instructions that leave the frames, the captured slots and the cells'   *)
(* addresses alone.                                                        *)
LEMMA SameCells ==
  ASSUME OpenCellsAreListed, UNCHANGED <<heap_values, address>>
  PROVE  OpenCellsAreListed'
BY DEF OpenCellsAreListed, Attached, Slots

LEMMA SameFrames == ASSUME FramesRise, UNCHANGED frames PROVE FramesRise'
BY DEF FramesRise

LEMMA InitInv == Init => IInv
<1> SUFFICES ASSUME Init PROVE IInv
  OBVIOUS
<1>0. StackSize \in Nat /\ StackSize >= 2
  BY StackAssumption
<1>1. TypeOK
  <2>1. frames = <<0>> /\ 0 \in Slots
    BY <1>0 DEF Init, Slots
  <2>2. frames \in Seq(Slots) /\ FrameStart = 0
    BY <2>1 DEF FrameStart, Last
  <2>3. top = 1 /\ top \in 0..StackSize
    BY <1>0 DEF Init
  <2>4. heap_values \in Seq(Cells) /\ captured \in SUBSET (0..top-1)
    BY DEF Init
  <2>5. /\ slots \in [Slots -> Values] /\ value \in [Cells -> Values]
        /\ address \in [Cells -> Slots \cup {Unused, Own}]
    BY DEF Init
  <2>6. QED
    BY <2>2, <2>3, <2>4, <2>5 DEF TypeOK
<1>2. FramesRise
  BY DEF Init, FramesRise
<1>3. OpenCellsAreListed
  <2>1. heap_values = <<>> /\ \A c \in Cells : address[c] \notin Slots
    BY NoSlot DEF Init
  <2>2. ToSet(heap_values) = {} /\ IsInjective(heap_values)
    BY <2>1 DEF ToSet, IsInjective
  <2>3. QED
    BY <2>1, <2>2 DEF OpenCellsAreListed, Attached
<1>4. QED
  BY <1>1, <1>2, <1>3 DEF IInv

LEMMA NextInv == IInv /\ [Next]_vars => IInv'
<1> SUFFICES ASSUME IInv, [Next]_vars PROVE IInv'
  OBVIOUS
<1> USE DEF IInv
<1>0. /\ slots \in [Slots -> Values] /\ top \in 0..StackSize /\ frames \in Seq(Slots)
      /\ captured \in SUBSET (0..top-1) /\ heap_values \in Seq(Cells)
      /\ address \in [Cells -> Slots \cup {Unused, Own}] /\ value \in [Cells -> Values]
      /\ StackSize \in Nat
  BY StackAssumption DEF TypeOK
<1>1. ASSUME NEW s \in Slots, Call(s) PROVE IInv'
  <2>1. /\ s \in FrameStart+1..top-1 /\ frames' = Append(frames, s)
        /\ UNCHANGED <<slots, top, captured, heap_values, address, value>>
        /\ Running
    BY <1>1 DEF Call, cells
  <2>2. /\ Len(frames) \in Nat \ {0} /\ FrameStart = frames[Len(frames)]
        /\ FrameStart \in Nat /\ top \in Nat
    BY <2>1, StackBounds
  <2>3. /\ frames' \in Seq(Slots) /\ Len(frames') = Len(frames) + 1
        /\ frames'[Len(frames) + 1] = s
        /\ \A i \in 1..Len(frames) : frames'[i] = frames[i]
    BY <1>0, <2>1
  <2>4. Last(frames') = s
    BY <2>3 DEF Last
  <2>5. s \in Nat /\ FrameStart < s /\ s < top
    BY <2>1, <2>2
  <2>6. TypeOK'
    BY <1>0, <2>1, <2>3, <2>4, <2>5 DEF TypeOK, FrameStart, Slots
  <2>7. FramesRise'
    <3> SUFFICES ASSUME NEW i \in 1..Len(frames')-1 PROVE frames'[i] < frames'[i+1]
      BY DEF FramesRise
    <3>1. i \in 1..Len(frames) /\ i + 1 <= Len(frames) + 1
      BY <2>2, <2>3
    <3>2. CASE i = Len(frames)
      BY <2>2, <2>3, <2>5, <3>1, <3>2
    <3>3. CASE i # Len(frames)
      <4>1. i \in 1..Len(frames)-1 /\ i+1 \in 1..Len(frames)
        BY <2>2, <3>1, <3>3
      <4>2. frames[i] < frames[i+1]
        BY <4>1 DEF FramesRise
      <4>3. QED
        BY <2>3, <3>1, <4>1, <4>2
    <3>4. QED
      BY <3>2, <3>3
  <2>8. QED
    BY <2>1, <2>6, <2>7, SameCells
<1>2. ASSUME NEW s \in Slots, Assign(s) PROVE IInv'
  <2>1. /\ slots' = [slots EXCEPT ![s] = slots[top - 1]]
        /\ UNCHANGED <<top, frames, captured, heap_values, address, value>>
        /\ Running
    BY <1>2 DEF Assign, cells
  <2>2. slots' \in [Slots -> Values]
    BY <1>0, <2>1, StackBounds
  <2>3. TypeOK'
    BY <2>1, <2>2 DEF TypeOK, Running, FrameStart, Slots
  <2>4. QED
    BY <2>1, <2>3, SameCells, SameFrames
<1>3. ASSUME NEW v \in Values, Push(v) PROVE IInv'
  <2>1. /\ slots' = [slots EXCEPT ![top] = v] /\ top' = top + 1 /\ top < StackSize
        /\ UNCHANGED <<frames, captured, heap_values, address, value>>
        /\ Running
    BY <1>3 DEF Push, cells
  <2>2. slots' \in [Slots -> Values]
    BY <1>0, <2>1
  <2>3. top' \in 0..StackSize /\ FrameStart < top' /\ captured \in SUBSET (0..top'-1)
    <3>1. FrameStart \in Nat /\ FrameStart < top /\ top \in Nat
      BY <2>1, StackBounds
    <3>2. 0..top-1 \subseteq 0..top'-1
      BY <2>1, <3>1
    <3>3. QED
      BY <1>0, <2>1, <3>1, <3>2
  <2>4. TypeOK'
    BY <1>0, <2>1, <2>2, <2>3 DEF TypeOK, FrameStart, Slots
  <2>5. QED
    BY <2>1, <2>4, SameCells, SameFrames
<1>4. ASSUME NEW c \in Cells, AssignThrough(c) PROVE IInv'
  <2>1. /\ UNCHANGED <<top, frames, captured, heap_values, address>> /\ Running
        /\ address[c] # Unused
    BY <1>4 DEF AssignThrough
  <2>2. slots[top - 1] \in Values
    BY <1>0, <2>1, StackBounds
  <2>3. slots' \in [Slots -> Values] /\ value' \in [Cells -> Values]
    <3>1. CASE address[c] = Own
      BY <1>0, <1>4, <2>2, <3>1 DEF AssignThrough
    <3>2. CASE address[c] # Own
      <4>1. /\ slots' = [slots EXCEPT ![address[c]] = slots[top - 1]] /\ value' = value
        BY <1>4, <3>2 DEF AssignThrough
      <4>2. QED
        BY <1>0, <2>2, <4>1
    <3>3. QED
      BY <3>1, <3>2
  <2>4. TypeOK'
    BY <2>1, <2>3 DEF TypeOK, Running, FrameStart, Slots
  <2>5. QED
    BY <2>1, <2>4, SameCells, SameFrames
<1>5. CASE EndCapturedLocal
  <2>1. /\ Running /\ top - 1 > FrameStart /\ MoveToHeap(top - 1) /\ top' = top - 1
        /\ captured' = captured \ {top - 1} /\ UNCHANGED <<slots, frames>>
    BY <1>5 DEF EndCapturedLocal
  <2>2. FrameStart \in Nat /\ top \in Nat
    BY <2>1, StackBounds
  <2>3. /\ heap_values' \in Seq(Cells) /\ address' \in [Cells -> Slots \cup {Unused, Own}]
        /\ value' \in [Cells -> Values] /\ OpenCellsAreListed'
    <3>1. top - 1 \in Int
      BY <2>2
    <3>2. QED
      BY <2>1, <3>1, MoveToHeapFacts
  <2>4. top' \in 0..StackSize /\ FrameStart < top' /\ captured' \in SUBSET (0..top'-1)
    <3>1. \A i \in 0..top-1 : i # top-1 => i \in 0..top'-1
      BY <2>1, <2>2
    <3>2. top' \in 0..StackSize /\ FrameStart < top'
      BY <1>0, <2>1, <2>2
    <3>3. QED
      BY <1>0, <2>1, <3>1, <3>2
  <2>5. TypeOK'
    BY <1>0, <2>1, <2>3, <2>4 DEF TypeOK, FrameStart, Slots
  <2>6. QED
    BY <2>1, <2>3, <2>5, SameFrames
<1>6. CASE PopTemporary
  <2>1. /\ Running /\ top - 1 > FrameStart /\ top - 1 \notin captured /\ top' = top - 1
        /\ UNCHANGED <<slots, frames, captured, heap_values, address, value>>
    BY <1>6 DEF PopTemporary, cells
  <2>2. FrameStart \in Nat /\ top \in Nat
    BY <2>1, StackBounds
  <2>3. top' \in 0..StackSize /\ FrameStart < top' /\ captured \in SUBSET (0..top'-1)
    <3>1. \A i \in 0..top-1 : i # top-1 => i \in 0..top'-1
      BY <2>1, <2>2
    <3>2. top' \in 0..StackSize /\ FrameStart < top'
      BY <1>0, <2>1, <2>2
    <3>3. QED
      BY <1>0, <2>1, <3>1, <3>2
  <2>4. TypeOK'
    BY <1>0, <2>1, <2>3 DEF TypeOK, FrameStart, Slots
  <2>5. QED
    BY <2>1, <2>4, SameCells, SameFrames
<1>7. CASE Return
  <2>1. /\ Running /\ top - 1 > FrameStart /\ MoveToHeap(FrameStart)
        /\ frames' = Front(frames) /\ captured' = {s \in captured : s < FrameStart}
    BY <1>7 DEF Return, FramesLeft
  <2>2. /\ Len(frames) \in Nat \ {0} /\ FrameStart = frames[Len(frames)]
        /\ FrameStart \in Nat /\ FrameStart \in Slots /\ FrameStart < top /\ top \in Nat
        /\ top - 1 \in Slots
    BY <2>1, StackBounds
  <2>a. PICK n \in Nat : n = Len(frames) /\ n >= 1
    BY <2>2
  <2>3. /\ heap_values' \in Seq(Cells) /\ address' \in [Cells -> Slots \cup {Unused, Own}]
        /\ value' \in [Cells -> Values] /\ OpenCellsAreListed'
    <3>1. FrameStart \in Int
      BY <2>2
    <3>2. QED
      BY <2>1, <3>1, MoveToHeapFacts
  <2>4. /\ frames' \in Seq(Slots) /\ Len(frames') = Len(frames) - 1
        /\ \A i \in 1..Len(frames)-1 : frames'[i] = frames[i]
    <3>1. frames' = SubSeq(frames, 1, Len(frames)-1)
      BY <2>1 DEF Front
    <3>2. Len(frames)-1 \in Nat /\ \A i \in 1..Len(frames)-1 : frames[i] \in Slots
      BY <1>0, <2>2
    <3>3. /\ SubSeq(frames, 1, Len(frames)-1) \in Seq(Slots)
          /\ Len(SubSeq(frames, 1, Len(frames)-1))
               = (IF 1 <= Len(frames)-1 THEN Len(frames)-1-1+1 ELSE 0)
          /\ \A i \in 1..Len(frames)-1-1+1 :
               SubSeq(frames, 1, Len(frames)-1)[i] = frames[1+i-1]
      BY <3>2, SubSeqProperties
    <3>4. /\ n-1-1+1 = n-1
          /\ (~ (1 <= n-1) => n-1 = 0)
          /\ \A i \in 1..n-1 : 1+i-1 = i
      BY <2>a
    <3>5. QED
      BY <2>a, <3>1, <3>3, <3>4
  <2>5. FramesRise'
    <3> SUFFICES ASSUME NEW i \in 1..Len(frames')-1 PROVE frames'[i] < frames'[i+1]
      BY DEF FramesRise
    <3>1. i \in 1..Len(frames)-1 /\ i+1 \in 1..Len(frames)-1
      BY <2>2, <2>4
    <3>2. frames[i] < frames[i+1]
      BY <3>1 DEF FramesRise
    <3>3. QED
      BY <2>4, <3>1, <3>2
  <2>6. /\ slots' \in [Slots -> Values] /\ top' \in 0..StackSize
        /\ (frames' # <<>> => Last(frames') < top')
        /\ captured' \in SUBSET (0..top'-1)
    <3>1. CASE Len(frames) = 1
      <4>1. top = 2 /\ top' = 0 /\ slots' = slots
        BY <1>7, <3>1 DEF Return
      <4>2. frames' = <<>>
        BY <2>4, <3>1
      <4>3. FrameStart = 0
        BY <2>1, <2>2, <4>1
      <4>4. captured' = {}
        <5>1. \A s \in 0..top-1 : ~ (s < 0)
          BY <2>2
        <5>2. QED
          BY <1>0, <2>1, <4>3, <5>1
      <4>5. QED
        BY <1>0, <4>1, <4>2, <4>4
    <3>2. CASE Len(frames) # 1
      <4>1. /\ slots' = [slots EXCEPT ![FrameStart] = slots[top - 1]]
            /\ top' = FrameStart + 1
        BY <1>7, <3>2 DEF Return
      <4>2. slots' \in [Slots -> Values]
        BY <1>0, <2>2, <4>1
      <4>3. top' \in 0..StackSize
        BY <1>0, <2>2, <4>1
      <4>a. n-1 \in 1..n-1 /\ (n-1)+1 = n
        BY <2>a, <3>2
      <4>4. Len(frames)-1 \in 1..Len(frames)-1 /\ (Len(frames)-1)+1 = Len(frames)
        BY <2>a, <4>a
      <4>5. frames[Len(frames)-1] < FrameStart
        <5>1. frames[Len(frames)-1] < frames[(Len(frames)-1)+1]
          BY <4>4 DEF FramesRise
        <5>2. QED
          BY <2>2, <4>4, <5>1
      <4>6. Last(frames') = frames[Len(frames)-1]
        BY <2>4, <4>4 DEF Last
      <4>7. frames[Len(frames)-1] \in Nat
        BY <1>0, <4>4 DEF Slots
      <4>8. Last(frames') < top'
        BY <2>2, <4>1, <4>5, <4>6, <4>7
      <4>9. \A s \in 0..top-1 : s < FrameStart => s \in 0..top'-1
        BY <2>2, <4>1
      <4>10. QED
        BY <1>0, <2>1, <4>2, <4>3, <4>8, <4>9
    <3>3. QED
      BY <3>1, <3>2
  <2>7. TypeOK'
    BY <2>3, <2>4, <2>6 DEF TypeOK, Running, FrameStart, Slots
  <2>8. QED
    BY <2>3, <2>5, <2>7
<1>8. ASSUME NEW s \in Slots, Capture(s) PROVE IInv'
  <2>1. /\ Running /\ s \in Locals /\ captured' = captured \cup {s}
        /\ UNCHANGED <<slots, top, frames, value>>
    BY <1>8 DEF Capture
  <2>2. captured' \in SUBSET (0..top-1)
    <3>1. s \in 0..top-1
      BY <2>1, StackBounds DEF Locals
    <3>2. QED
      BY <1>0, <2>1, <3>1
  <2>3. /\ heap_values' \in Seq(Cells) /\ address' \in [Cells -> Slots \cup {Unused, Own}]
        /\ OpenCellsAreListed'
    <3>1. CASE Found(s)
      <4>1. UNCHANGED <<heap_values, address>>
        BY <1>8, <3>1 DEF Capture
      <4>2. QED
        BY <1>0, <4>1, SameCells
    <3>2. CASE ~Found(s)
      <4>1. PICK c \in Cells : /\ address[c] = Unused /\ heap_values' = Inserted(s, c)
                               /\ address' = [address EXCEPT ![c] = s]
        BY <1>8, <3>2 DEF Capture
      <4>2. QED
        BY <4>1, CaptureFacts
    <3>3. QED
      BY <3>1, <3>2
  <2>4. TypeOK'
    BY <1>0, <2>1, <2>2, <2>3 DEF TypeOK, Running, FrameStart, Slots
  <2>5. QED
    BY <2>1, <2>3, <2>4, SameFrames
<1>9. CASE UNCHANGED vars
  <2>1. UNCHANGED <<slots, top, frames, captured, heap_values, address, value>>
    BY <1>9 DEF vars
  <2>2. TypeOK'
    BY <2>1 DEF TypeOK, Running, FrameStart, Slots
  <2>3. QED
    BY <2>1, <2>2, SameCells, SameFrames
<1>10. QED
  BY <1>1, <1>2, <1>3, <1>4, <1>5, <1>6, <1>7, <1>8, <1>9 DEF Next, Others

THEOREM Invariant == Spec => []IInv
BY InitInv, NextInv, PTL DEF Spec

-----------------------------------------------------------------------------

(* Slots, frames and cells keep their types: every call's frame lies on    *)
(* the stack, below its top, and no captured variable is off the stack.    *)
THEOREM OpenValuesTypes == Spec => []TypeOK
<1>1. IInv => TypeOK
  BY DEF IInv
<1>2. QED
  BY <1>1, Invariant, PTL

(* Whatever the order of captures, create_heap_value drops no open cell    *)
(* off vm->heap_values and lists none twice, and what                      *)
(* move_value_from_stack_to_heap takes off the list owns its value.        *)
THEOREM OpenCellsListed == Spec => []OpenCellsAreListed
<1>1. IInv => OpenCellsAreListed
  BY DEF IInv
<1>2. QED
  BY <1>1, Invariant, PTL

(* Ends of scopes, returns and captures detach no cell of a variable that  *)
(* stays in scope.                                                         *)
THEOREM LiveCellsAttached == Spec => LiveCellsStayAttached
<1> DEFINE Kept == \A c \in Cells :
                     address[c] \in captured \cap captured' => address'[c] = address[c]
<1>1. IInv /\ [Next]_vars => [Kept]_vars
  <2> SUFFICES ASSUME IInv, Next, NEW c \in Cells, address[c] \in captured,
                      address[c] \in captured'
               PROVE  address'[c] = address[c]
    OBVIOUS
  <2>0. /\ TypeOK /\ OpenCellsAreListed
        /\ address \in [Cells -> Slots \cup {Unused, Own}]
        /\ address[c] \in 0..top-1 /\ top \in 0..StackSize /\ StackSize \in Nat
    BY StackAssumption DEF IInv, TypeOK
  <2>1. address[c] \in Slots
    BY <2>0 DEF Slots
  <2>2. CASE EndCapturedLocal
    <3>1. MoveToHeap(top - 1) /\ captured' = captured \ {top - 1}
      BY <2>2 DEF EndCapturedLocal
    <3>2. top - 1 \in Int /\ (address[c] # top - 1 => address[c] < top - 1)
      BY <2>0
    <3>3. QED
      BY <2>0, <3>1, <3>2, MoveToHeapFacts
  <2>3. CASE Return
    <3>1. MoveToHeap(FrameStart) /\ captured' = {s \in captured : s < FrameStart} /\ Running
      BY <2>3 DEF Return
    <3>2. FrameStart \in Int
      BY <2>0, <3>1, StackBounds
    <3>3. address[c] < FrameStart
      BY <3>1
    <3>4. QED
      BY <2>0, <3>1, <3>2, <3>3, MoveToHeapFacts
  <2>4. ASSUME NEW s \in Slots, Capture(s) PROVE address'[c] = address[c]
    <3>1. CASE Found(s)
      BY <2>4, <3>1 DEF Capture
    <3>2. CASE ~Found(s)
      <4>1. PICK d \in Cells : address[d] = Unused /\ address' = [address EXCEPT ![d] = s]
        BY <2>4, <3>2 DEF Capture
      <4>2. d # c
        BY <2>1, <4>1, NoSlot
      <4>3. QED
        BY <2>0, <4>1, <4>2
    <3>3. QED
      BY <3>1, <3>2
  <2>5. CASE Others /\ ~ EndCapturedLocal /\ ~ Return
    <3>1. address' = address
      BY <2>5 DEF Others, Call, Assign, Push, AssignThrough, PopTemporary, cells
    <3>2. QED
      BY <3>1
  <2>6. QED
    BY <2>2, <2>3, <2>4, <2>5 DEF Next
<1>2. QED
  BY <1>1, Invariant, PTL DEF Spec, LiveCellsStayAttached

-----------------------------------------------------------------------------
(* Sharing.  When variables are captured pairwise, the list is in the      *)
(* order that create_heap_value and move_value_from_stack_to_heap count    *)
(* on, and the slots of its cells are captured variables: with these two   *)
(* the invariant is inductive.                                             *)

AttachedAreCaptured == \A c \in Cells : Attached(c) => address[c] \in captured

SharingInv == IInv /\ HighestFirst /\ AttachedAreCaptured

(* What the invariant says of one cell.                                    *)
LEMMA AttachedFacts ==
  ASSUME SharingInv
  PROVE  /\ Len(heap_values) \in Nat /\ DOMAIN heap_values = 1..Len(heap_values)
         /\ \A i \in 1..Len(heap_values) : /\ heap_values[i] \in Cells /\ Attached(heap_values[i])
                                           /\ address[heap_values[i]] \in Nat
         /\ \A c \in Cells : Attached(c) => /\ \E i \in 1..Len(heap_values) : c = heap_values[i]
                                            /\ address[c] \in 0..top-1 /\ address[c] \in Nat
         /\ top \in Nat /\ top <= StackSize /\ StackSize \in Nat
<1>1. /\ heap_values \in Seq(Cells) /\ top \in 0..StackSize /\ StackSize \in Nat
      /\ captured \in SUBSET (0..top-1)
      /\ ToSet(heap_values) = {c \in Cells : Attached(c)}
  BY StackAssumption DEF SharingInv, IInv, TypeOK, OpenCellsAreListed
<1>2. Len(heap_values) \in Nat /\ DOMAIN heap_values = 1..Len(heap_values)
  BY <1>1
<1>3. \A c \in Cells : Attached(c) => address[c] \in Nat /\ address[c] \in 0..top-1
  BY <1>1 DEF Attached, Slots, SharingInv, AttachedAreCaptured
<1>4. \A i \in 1..Len(heap_values) : heap_values[i] \in ToSet(heap_values)
  BY <1>2 DEF ToSet
<1>5. \A c \in ToSet(heap_values) : \E i \in 1..Len(heap_values) : c = heap_values[i]
  BY <1>2 DEF ToSet
<1>6. QED
  BY <1>1, <1>2, <1>3, <1>4, <1>5

(* So the cells that leave the list are all of those at `first` or above,  *)
(* not only the ones that come before a lower one.                         *)
LEMMA MovedAreAllAbove ==
  ASSUME SharingInv, NEW first \in Nat
  PROVE  {heap_values[i] : i \in Moved(first)} = {c \in Cells : address[c] \in first..top-1}
<1>1. ASSUME NEW i \in Moved(first) PROVE heap_values[i] \in Cells /\ address[heap_values[i]] \in first..top-1
  <2>1. i \in 1..Len(heap_values) /\ \A j \in 1..i : address[heap_values[j]] >= first
    BY AttachedFacts DEF Moved
  <2>2. i \in 1..i
    BY <2>1
  <2>3. heap_values[i] \in Cells /\ address[heap_values[i]] \in 0..top-1
    BY <2>1, AttachedFacts
  <2>4. address[heap_values[i]] >= first
    BY <2>1, <2>2
  <2>5. QED
    BY <2>3, <2>4, AttachedFacts
<1>2. ASSUME NEW c \in Cells, address[c] \in first..top-1 PROVE \E i \in Moved(first) : c = heap_values[i]
  <2>1. Attached(c)
    BY <1>2, AttachedFacts DEF Attached, Slots
  <2>2. PICK i \in 1..Len(heap_values) : c = heap_values[i]
    BY <2>1, AttachedFacts
  <2>3. ASSUME NEW j \in 1..i PROVE address[heap_values[j]] >= first
    <3>1. j \in 1..Len(heap_values) /\ (j = i \/ j < i)
      BY <2>2, AttachedFacts
    <3>2. address[heap_values[j]] \in Nat /\ address[c] \in Nat /\ address[c] >= first
      BY <1>2, <2>1, <3>1, AttachedFacts
    <3>3. CASE j = i
      BY <2>2, <3>2, <3>3
    <3>4. CASE j < i
      <4>1. address[heap_values[j]] > address[c]
        BY <2>2, <3>1, <3>4 DEF SharingInv, HighestFirst
      <4>2. QED
        BY <3>2, <4>1
    <3>5. QED
      BY <3>1, <3>3, <3>4
  <2>4. i \in Moved(first)
    BY <2>2, <2>3, AttachedFacts DEF Moved
  <2>5. QED
    BY <2>2, <2>4
<1>3. QED
  BY <1>1, <1>2

(* create_heap_value finds the cell of a slot whenever there is one.       *)
LEMMA FoundIsAttached ==
  ASSUME SharingInv, NEW s \in Slots
  PROVE  Found(s) <=> \E c \in Cells : address[c] = s
<1>1. s \in Nat
  BY StackAssumption DEF Slots
<1>2. Reached(s) \subseteq 1..Len(heap_values) /\ Reached(s) \subseteq Nat
  BY AttachedFacts DEF Reached
<1>3. Reached(s) # {} => Min(Reached(s)) \in Reached(s) /\ \A i \in Reached(s) : Min(Reached(s)) <= i
  BY <1>2, MinOfNaturals
<1>4. ASSUME Found(s) PROVE \E c \in Cells : address[c] = s
  <2>1. Reached(s) # {} /\ address[heap_values[Min(Reached(s))]] = s
    BY <1>4 DEF Found
  <2>2. Min(Reached(s)) \in 1..Len(heap_values)
    BY <1>2, <1>3, <2>1
  <2>3. QED
    BY <2>1, <2>2, AttachedFacts
<1>5. ASSUME NEW c \in Cells, address[c] = s PROVE Found(s)
  <2>1. PICK i \in 1..Len(heap_values) : c = heap_values[i]
    BY <1>5, AttachedFacts DEF Attached
  <2>2. i \in Reached(s)
    BY <1>1, <1>5, <2>1, AttachedFacts DEF Reached
  <2>3. PICK m \in 1..Len(heap_values) : m = Min(Reached(s)) /\ m \in Reached(s) /\ m <= i
    BY <1>2, <1>3, <2>2
  <2>4. address[heap_values[m]] <= s
    BY <2>3 DEF Reached
  <2>5. m = i
    <3>1. SUFFICES ASSUME m < i PROVE FALSE
      BY <2>3
    <3>2. address[heap_values[m]] > s
      BY <1>5, <2>1, <3>1 DEF SharingInv, HighestFirst
    <3>3. address[heap_values[m]] \in Nat
      BY AttachedFacts
    <3>4. QED
      BY <1>1, <2>4, <3>2, <3>3
  <2>6. QED
    BY <1>5, <2>1, <2>2, <2>3, <2>5 DEF Found
<1>6. QED
  BY <1>4, <1>5

(* At first no cell is open.                                               *)
LEMMA InitSharing == Init => SharingInv
<1> SUFFICES ASSUME Init PROVE SharingInv
  OBVIOUS
<1>1. IInv
  BY InitInv
<1>2. heap_values = <<>> /\ \A c \in Cells : ~Attached(c)
  BY NoSlot DEF Init, Attached
<1>3. QED
  BY <1>1, <1>2 DEF SharingInv, HighestFirst, AttachedAreCaptured

(* What is left of the list stays in order, and is below `first`.          *)
LEMMA MoveKeepsSharing ==
  ASSUME SharingInv, NEW first \in Nat, MoveToHeap(first), IInv',
         captured' = {s \in captured : s < first}
  PROVE  SharingInv'
<1> DEFINE n == Len(heap_values)  moving == {heap_values[i] : i \in Moved(first)}
<1>1. heap_values \in Seq(Cells) /\ address \in [Cells -> Slots \cup {Unused, Own}]
  BY DEF SharingInv, IInv, TypeOK
<1>2. PICK k \in 0..n : Moved(first) = 1..k /\ Cardinality(Moved(first)) = k
  BY <1>1, MovedFirst
<1>3. /\ heap_values' = SubSeq(heap_values, k + 1, n)
      /\ address' = [c \in Cells |-> IF c \in moving THEN Own ELSE address[c]]
  BY <1>2 DEF MoveToHeap
<1>4. n \in Nat /\ k \in Nat /\ k <= n
  BY <1>2, AttachedFacts
<1>5. moving = {c \in Cells : address[c] \in first..top-1}
  BY MovedAreAllAbove
<1>6. Len(heap_values') = n - k /\ \A i \in 1..n-k : heap_values'[i] = heap_values[k+i]
  <2>1. k+1 \in Int /\ n \in Int /\ \A i \in k+1..n : heap_values[i] \in Cells
    BY <1>4, AttachedFacts
  <2>2. /\ Len(SubSeq(heap_values, k+1, n)) = (IF k+1 <= n THEN n-(k+1)+1 ELSE 0)
        /\ \A i \in 1..n-(k+1)+1 : SubSeq(heap_values, k+1, n)[i] = heap_values[(k+1)+i-1]
    BY <2>1, SubSeqProperties
  <2> HIDE DEF n
  <2>3. n-(k+1)+1 = n-k /\ (~ (k+1 <= n) => n-k = 0) /\ \A i \in 1..n-k : (k+1)+i-1 = k+i
    BY <1>4
  <2>4. Len(heap_values') = n - k
    BY <1>3, <2>2, <2>3
  <2>5. \A i \in 1..n-k : heap_values'[i] = heap_values[k+i]
    BY <1>3, <2>2, <2>3
  <2>6. QED
    BY <2>4, <2>5
<1> HIDE DEF n, moving
<1>7. ASSUME NEW c \in Cells, Attached(c)' PROVE c \notin moving /\ address'[c] = address[c] /\ Attached(c)
  BY <1>3, <1>7, NoSlot DEF Attached, Slots
<1>8. AttachedAreCaptured'
  <2>1. ASSUME NEW c \in Cells, Attached(c)' PROVE address'[c] \in captured'
    <3>1. c \notin moving /\ address'[c] = address[c] /\ Attached(c)
      BY <2>1, <1>7
    <3>2. address[c] \in captured /\ address[c] \in 0..top-1 /\ top \in Nat
      BY <3>1, AttachedFacts DEF SharingInv, AttachedAreCaptured
    <3>3. address[c] < first
      BY <1>5, <3>1, <3>2
    <3>4. QED
      BY <3>1, <3>2, <3>3
  <2>2. QED
    BY <2>1 DEF AttachedAreCaptured
<1>9. HighestFirst'
  <2>1. ASSUME NEW i \in 1..n-k, NEW j \in 1..n-k, i < j
        PROVE  address'[heap_values'[i]] > address'[heap_values'[j]]
    <3>1. /\ k+i \in 1..n /\ k+j \in 1..n /\ k+i < k+j
      BY <1>4, <2>1
    <3>2. address[heap_values[k+i]] > address[heap_values[k+j]]
      BY <3>1 DEF SharingInv, HighestFirst, n
    <3>3. \A x \in 1..n-k : heap_values'[x] \in Cells /\ address'[heap_values'[x]] = address[heap_values[k+x]]
      <4>1. SUFFICES ASSUME NEW x \in 1..n-k
                     PROVE  heap_values'[x] \in Cells /\ address'[heap_values'[x]] = address[heap_values[k+x]]
        OBVIOUS
      <4>2. heap_values'[x] \in ToSet(heap_values')
        <5>1. heap_values' \in Seq(Cells)
          BY DEF IInv, TypeOK
        <5>2. QED
          BY <1>6, <5>1 DEF ToSet
      <4>3. PICK c : c = heap_values'[x] /\ c = heap_values[k+x]
        BY <1>6
      <4>4. ToSet(heap_values') = {d \in Cells : address'[d] \in Slots}
        BY DEF IInv, OpenCellsAreListed, Attached, Slots
      <4>5. c \in Cells /\ Attached(c)'
        BY <4>2, <4>3, <4>4 DEF Attached, Slots
      <4>6. address'[c] = address[c]
        BY <1>7, <4>5
      <4>7. QED
        BY <4>3, <4>5, <4>6
    <3>4. QED
      BY <2>1, <3>2, <3>3
  <2>2. QED
    BY <1>6, <2>1 DEF HighestFirst
<1>10. QED
  BY <1>8, <1>9 DEF SharingInv

(* A variable that is captured anew is above the one that is open, so its  *)
(* cell belongs at the front, where Inserted puts it.                      *)
LEMMA CaptureKeepsSharing ==
  ASSUME SharingInv, NEW s \in Slots, PairwiseCapture(s), IInv'
  PROVE  SharingInv'
<1>1. captured' = captured \cup {s} /\ s \in Nat /\ address \in [Cells -> Slots \cup {Unused, Own}]
  BY StackAssumption DEF PairwiseCapture, Capture, SharingInv, IInv, TypeOK, Slots
<1>2. CASE Found(s)
  <2>1. UNCHANGED <<heap_values, address>>
    BY <1>2 DEF PairwiseCapture, Capture
  <2>2. QED
    BY <1>1, <2>1 DEF SharingInv, HighestFirst, AttachedAreCaptured, Attached, Slots
<1>3. CASE ~Found(s)
  <2>1. PICK c \in Cells : /\ address[c] = Unused /\ heap_values' = Inserted(s, c)
                           /\ address' = [address EXCEPT ![c] = s]
    BY <1>3 DEF PairwiseCapture, Capture
  <2>2. \A d \in Cells : d # c => address'[d] = address[d]
    BY <1>1, <2>1
  <2>3. address'[c] = s
    BY <1>1, <2>1
  <2>4. AttachedAreCaptured'
    <3>1. ASSUME NEW d \in Cells, address'[d] \in Slots PROVE address'[d] \in captured'
      <4>1. CASE d = c
        BY <1>1, <2>3, <4>1
      <4>2. CASE d # c
        BY <1>1, <2>2, <3>1, <4>2 DEF SharingInv, AttachedAreCaptured, Attached
      <4>3. QED
        BY <4>1, <4>2
    <3>2. QED
      BY <3>1 DEF AttachedAreCaptured, Attached, Slots
  <2>5. HighestFirst'
    <3>1. CASE heap_values = <<>>
      <4>1. Reached(s) = {}
        BY <3>1 DEF Reached
      <4>2. heap_values' = <<c>>
        BY <2>1, <3>1, <4>1 DEF Inserted
      <4>3. QED
        BY <4>2 DEF HighestFirst
    <3>2. CASE Len(heap_values) = 1 /\ address[heap_values[1]] < s
      <4>1. PICK d \in Cells : d = heap_values[1] /\ Attached(d) /\ address[d] \in Nat
        BY <3>2, AttachedFacts
      <4>2. Reached(s) = {1}
        <5>1. DOMAIN heap_values = 1..1
          BY <3>2, AttachedFacts
        <5>2. 1..1 = {1} /\ address[heap_values[1]] <= s
          BY <1>1, <3>2, <4>1
        <5>3. QED
          BY <5>1, <5>2 DEF Reached
      <4>3. Min({1}) = 1
        BY MinOfNaturals
      <4>4. heap_values' = <<c>> \o heap_values
        BY <2>1, <3>2, <4>2, <4>3 DEF Inserted
      <4>5. heap_values = <<d>>
        <5>1. heap_values \in Seq(Cells)
          BY DEF SharingInv, IInv, TypeOK
        <5>2. QED
          BY <3>2, <4>1, <5>1
      <4>6. Len(heap_values') = 2 /\ heap_values'[1] = c /\ heap_values'[2] = d
        <5>1. /\ <<c>> \in Seq(Cells) /\ Len(<<c>>) = 1 /\ <<c>>[1] = c
              /\ <<d>> \in Seq(Cells) /\ Len(<<d>>) = 1 /\ <<d>>[1] = d
          OBVIOUS
        <5>2. PICK x \in Seq(Cells), y \in Seq(Cells) : x = <<c>> /\ y = <<d>>
          BY <5>1
        <5>3. /\ Len(x \o y) = Len(x) + Len(y)
              /\ \A i \in 1..Len(x)+Len(y) : (x \o y)[i] = IF i <= Len(x) THEN x[i] ELSE y[i - Len(x)]
          BY <5>2, ConcatProperties
        <5>4. heap_values' = x \o y
          BY <4>4, <4>5, <5>2
        <5>5. Len(x) = 1 /\ Len(y) = 1 /\ x[1] = c /\ y[1] = d
          BY <5>1, <5>2
        <5>6. QED
          BY <5>3, <5>4, <5>5
      <4>7. d # c
        BY <2>1, <4>1, NoSlot DEF Attached
      <4>8. address'[c] > address'[d]
        BY <2>2, <2>3, <3>2, <4>1, <4>7
      <4>9. QED
        BY <4>6, <4>8 DEF HighestFirst
    <3>3. QED
      BY <1>3, <3>1, <3>2 DEF PairwiseCapture
  <2>6. QED
    BY <2>4, <2>5 DEF SharingInv
<1>4. QED
  BY <1>2, <1>3

-----------------------------------------------------------------------------
(* Each instruction keeps the invariant and is a step of SharedVariables.  *)
View == [i \in 0..top-1 |-> slots[i]]

(* The types of the variables, and of the slots of the running call.       *)
LEMMA SharingFacts ==
  ASSUME SharingInv
  PROVE  /\ slots \in [Slots -> Values] /\ top \in 0..StackSize /\ top \in Nat /\ StackSize \in Nat
         /\ frames \in Seq(Slots) /\ captured \in SUBSET (0..top-1)
         /\ address \in [Cells -> Slots \cup {Unused, Own}] /\ value \in [Cells -> Values]
         /\ 0..top-1 \subseteq Slots
         /\ Running => /\ FrameStart \in Nat /\ FrameStart < top /\ FrameStart \in Slots
                       /\ top - 1 \in Slots /\ top - 1 \in 0..top-1
                       /\ slots[top - 1] \in Values
<1>1. TypeOK /\ StackSize \in Nat
  BY StackAssumption DEF SharingInv, IInv
<1>2. top \in 0..StackSize /\ top \in Nat /\ 0..top-1 \subseteq Slots
  BY <1>1 DEF TypeOK, Slots
<1>3. Running => /\ FrameStart \in Nat /\ FrameStart < top /\ FrameStart \in Slots
                 /\ top - 1 \in Slots /\ top - 1 \in 0..top-1
  BY <1>1, StackBounds
<1>4. QED
  BY <1>1, <1>2, <1>3 DEF TypeOK

(* Steps that leave the cells and the captured slots alone.                *)
LEMMA SameSharing ==
  ASSUME SharingInv, IInv', UNCHANGED <<heap_values, address, captured>>
  PROVE  SharingInv'
  BY DEF SharingInv, HighestFirst, AttachedAreCaptured, Attached, Slots

(* What leaves the stack is detached, with the values it had.              *)
LEMMA MoveDetaches ==
  ASSUME SharingInv, NEW first \in Nat, MoveToHeap(first)
  PROVE  Shared!Detach(first)
<1> DEFINE moving == {heap_values[i] : i \in Moved(first)}
<1>1. moving = {c \in Cells : address[c] \in first..top-1}
  BY MovedAreAllAbove
<1>2. /\ value' = [c \in Cells |-> IF c \in moving THEN slots[address[c]] ELSE value[c]]
      /\ address' = [c \in Cells |-> IF c \in moving THEN Own ELSE address[c]]
  BY DEF MoveToHeap
<1> HIDE DEF moving
<1>3. moving = Shared!Leaving(first)
  BY <1>1 DEF Shared!Leaving
<1>4. \A c \in moving : address[c] \in 0..top-1
  BY <1>1, SharingFacts
<1>5. \A c \in moving : slots[address[c]] = View[address[c]]
  BY <1>4 DEF View
<1>6. value' = [c \in Cells |-> IF c \in moving THEN View[address[c]] ELSE value[c]]
  BY <1>2, <1>5
<1>7. QED
  BY <1>2, <1>3, <1>6 DEF Shared!Detach, View

(* A call moves no variable.                                               *)
LEMMA CallShares ==
  ASSUME SharingInv, NEW s \in Slots, Call(s), IInv'
  PROVE  SharingInv' /\ UNCHANGED Shared!vars
<1>1. UNCHANGED <<slots, top, captured, heap_values, address, value>>
  BY DEF Call, cells
<1>2. SharingInv'
  BY <1>1, SameSharing
<1>3. QED
  BY <1>1, <1>2 DEF Shared!vars

(* An assignment is one to the variable of the slot.                       *)
LEMMA AssignShares ==
  ASSUME SharingInv, NEW s \in Slots, Assign(s), IInv'
  PROVE  SharingInv' /\ Shared!Next
<1>1. /\ UNCHANGED <<top, captured, heap_values, address, value>> /\ Running /\ s \in Locals
      /\ slots' = [slots EXCEPT ![s] = slots[top - 1]]
  BY DEF Assign, cells
<1>2. SharingInv'
  BY <1>1, SameSharing
<1>3. PICK v \in Values : v = slots[top - 1]
  BY <1>1, SharingFacts
<1>4. s \in 0..top-1
  BY <1>1, SharingFacts DEF Locals
<1>5. View' = [View EXCEPT ![s] = v]
  BY <1>1, <1>3, <1>4, SharingFacts DEF View
<1>6. Shared!Assign(s, v)
  BY <1>1, <1>5 DEF Shared!Assign, View
<1>7. QED
  BY <1>2, <1>4, <1>6 DEF Shared!Next, Shared!Slots

(* A push is a new variable on top.                                        *)
LEMMA PushShares ==
  ASSUME SharingInv, NEW v \in Values, Push(v), IInv'
  PROVE  SharingInv' /\ Shared!Next
<1>1. /\ UNCHANGED <<captured, heap_values, address, value>> /\ Running /\ top < StackSize
      /\ slots' = [slots EXCEPT ![top] = v] /\ top' = top + 1
  BY DEF Push, cells
<1>2. SharingInv'
  BY <1>1, SameSharing
<1>3. View' = [i \in 0..top |-> IF i = top THEN v ELSE View[i]]
  <2>1. 0..top'-1 = 0..top /\ top \in Slots /\ \A i \in 0..top : i # top => i \in 0..top-1 /\ i \in Slots
    BY <1>1, SharingFacts DEF Slots
  <2>2. \A i \in 0..top : slots'[i] = IF i = top THEN v ELSE View[i]
    BY <1>1, <2>1, SharingFacts DEF View
  <2>3. View' = [i \in 0..top |-> slots'[i]]
    BY <2>1 DEF View
  <2>4. QED
    BY <2>2, <2>3
<1>4. Shared!Push(v)
  BY <1>1, <1>3 DEF Shared!Push, Shared!Placed, View
<1>5. QED
  BY <1>2, <1>4 DEF Shared!Next

(* An assignment through a cell is one to its variable, in its slot or in  *)
(* the cell.                                                               *)
LEMMA AssignThroughShares ==
  ASSUME SharingInv, NEW c \in Cells, AssignThrough(c), IInv'
  PROVE  SharingInv' /\ Shared!Next
<1>1. /\ UNCHANGED <<top, captured, heap_values, address>> /\ Running /\ address[c] # Unused
  BY DEF AssignThrough
<1>2. SharingInv'
  BY <1>1, SameSharing
<1>3. PICK v \in Values : v = slots[top - 1]
  BY <1>1, SharingFacts
<1>4. Shared!AssignThrough(c, v)
  <2>1. CASE address[c] = Own
    <3>1. value' = [value EXCEPT ![c] = v] /\ slots' = slots
      BY <1>3, <2>1 DEF AssignThrough
    <3>2. QED
      BY <1>1, <2>1, <3>1 DEF Shared!AssignThrough
  <2>2. CASE address[c] # Own
    <3>1. slots' = [slots EXCEPT ![address[c]] = v] /\ value' = value
      BY <1>3, <2>2 DEF AssignThrough
    <3>2. PICK s \in 0..top-1 : s = address[c]
      BY <1>1, <2>2, SharingFacts, AttachedFacts DEF Attached
    <3>3. View' = [View EXCEPT ![s] = v]
      BY <1>1, <3>1, <3>2, SharingFacts DEF View
    <3>4. QED
      BY <1>1, <2>2, <3>1, <3>2, <3>3 DEF Shared!AssignThrough, View
  <2>3. QED
    BY <2>1, <2>2
<1>5. QED
  BY <1>2, <1>4 DEF Shared!Next

(* The view of what stays on the stack.                                    *)
LEMMA ViewBelow ==
  ASSUME SharingInv, NEW n \in Nat, n < top, top' = n, slots' = slots
  PROVE  View' = [i \in 0..n-1 |-> View[i]]
<1>1. \A i \in 0..n-1 : i \in 0..top-1
  BY SharingFacts
<1>2. QED
  BY <1>1 DEF View

(* The end of a captured variable takes its slot away and leaves the       *)
(* variable to its cell.                                                   *)
LEMMA EndShares ==
  ASSUME SharingInv, EndCapturedLocal, IInv'
  PROVE  SharingInv' /\ Shared!Next
<1>1. /\ Running /\ MoveToHeap(top - 1) /\ top' = top - 1 /\ slots' = slots
      /\ captured' = captured \ {top - 1}
  BY DEF EndCapturedLocal
<1>2. PICK n \in Nat : n = top - 1 /\ n < top /\ n \in 0..top-1
  BY <1>1, SharingFacts
<1>3. captured' = {s \in captured : s < n}
  <2>1. \A s \in 0..top-1 : s < n <=> s # n
    BY <1>2, SharingFacts
  <2>2. QED
    BY <1>1, <1>2, <2>1, SharingFacts
<1>4. SharingInv'
  BY <1>1, <1>2, <1>3, MoveKeepsSharing
<1>5. Shared!Detach(n)
  BY <1>1, <1>2, MoveDetaches
<1>6. Shared!Pop(n)
  BY <1>1, <1>2, <1>5, ViewBelow DEF Shared!Pop, View
<1>7. QED
  BY <1>2, <1>4, <1>6 DEF Shared!Next, Shared!Slots

(* No cell points at a slot that no closure captured.                      *)
LEMMA PopShares ==
  ASSUME SharingInv, PopTemporary, IInv'
  PROVE  SharingInv' /\ Shared!Next
<1>1. /\ Running /\ top - 1 \notin captured /\ top' = top - 1
      /\ UNCHANGED <<slots, captured, heap_values, address, value>>
  BY DEF PopTemporary, cells
<1>2. PICK n \in Nat : n = top - 1 /\ n < top /\ n \in 0..top-1 /\ n \in Slots
  BY <1>1, SharingFacts
<1>3. SharingInv'
  BY <1>1, SameSharing
<1>4. Shared!Leaving(n) = {}
  <2>1. n..top-1 = {n}
    BY <1>2, SharingFacts
  <2>2. \A c \in Cells : address[c] # n
    BY <1>1, <1>2 DEF SharingInv, AttachedAreCaptured, Attached
  <2>3. QED
    BY <2>1, <2>2 DEF Shared!Leaving
<1>5. Shared!Detach(n)
  <2>1. address = [c \in Cells |-> address[c]] /\ value = [c \in Cells |-> value[c]]
    BY SharingFacts
  <2>2. QED
    BY <1>1, <1>4, <2>1 DEF Shared!Detach
<1>6. Shared!Pop(n)
  BY <1>1, <1>2, <1>5, ViewBelow DEF Shared!Pop, View
<1>7. QED
  BY <1>2, <1>3, <1>6 DEF Shared!Next, Shared!Slots

(* A return takes the slots of the call away and puts the result on top;   *)
(* that of the script leaves nothing.                                      *)
LEMMA ReturnShares ==
  ASSUME SharingInv, Return, IInv'
  PROVE  SharingInv' /\ Shared!Next
<1>1. /\ Running /\ MoveToHeap(FrameStart) /\ captured' = {s \in captured : s < FrameStart}
  BY DEF Return
<1>2. PICK n \in Nat : n = FrameStart /\ n < top /\ n \in Slots /\ n \in 0..top-1
  BY <1>1, SharingFacts
<1>3. SharingInv'
  BY <1>1, <1>2, MoveKeepsSharing
<1>4. Shared!Detach(n)
  BY <1>1, <1>2, MoveDetaches
<1>5. PICK v \in Values : v = slots[top - 1]
  BY <1>1, SharingFacts
<1>6. CASE Len(frames) = 1
  <2>1. top = 2 /\ top' = 0 /\ slots' = slots /\ top - 1 > FrameStart
    BY <1>6 DEF Return
  <2>2. n = 0
    BY <1>2, <2>1
  <2>3. Shared!Pop(n)
    BY <1>2, <1>4, <2>1, <2>2, ViewBelow DEF Shared!Pop, View
  <2>4. QED
    BY <1>2, <1>3, <2>3 DEF Shared!Next, Shared!Slots
<1>7. CASE Len(frames) # 1
  <2>1. slots' = [slots EXCEPT ![n] = v] /\ top' = n + 1
    BY <1>2, <1>5, <1>7 DEF Return
  <2>2. View' = [i \in 0..n |-> IF i = n THEN v ELSE View[i]]
    <3>1. 0..top'-1 = 0..n /\ \A i \in 0..n : i \in 0..top-1 /\ i \in Slots
      BY <1>2, <2>1, SharingFacts
    <3>2. \A i \in 0..n : slots'[i] = IF i = n THEN v ELSE View[i]
      BY <1>2, <2>1, <3>1, SharingFacts DEF View
    <3>3. View' = [i \in 0..n |-> slots'[i]]
      BY <3>1 DEF View
    <3>4. QED
      BY <3>2, <3>3
  <2>3. Shared!Return(n, v)
    BY <1>4, <2>1, <2>2 DEF Shared!Return, Shared!Placed, View
  <2>4. QED
    BY <1>2, <1>3, <2>3 DEF Shared!Next, Shared!Slots
<1>8. QED
  BY <1>6, <1>7

(* There is one cell for a captured variable, whoever captured it first.   *)
LEMMA CaptureShares ==
  ASSUME SharingInv, NEW s \in Slots, PairwiseCapture(s), IInv'
  PROVE  SharingInv' /\ Shared!Next
<1>1. SharingInv'
  BY CaptureKeepsSharing
<1>2. Capture(s) /\ Running /\ s \in Locals /\ UNCHANGED <<slots, top, value>>
  BY DEF PairwiseCapture, Capture
<1>3. s \in 0..top-1
  BY <1>2, SharingFacts DEF Locals
<1>4. Shared!Capture(s)
  <2>1. CASE Found(s)
    <3>1. address' = address
      BY <1>2, <2>1 DEF Capture
    <3>2. \E c \in Cells : address[c] = s
      BY <2>1, FoundIsAttached
    <3>3. QED
      BY <1>2, <3>1, <3>2 DEF Shared!Capture
  <2>2. CASE ~Found(s)
    <3>1. \E c \in Cells : address[c] = Unused /\ address' = [address EXCEPT ![c] = s]
      BY <1>2, <2>2 DEF Capture
    <3>2. ~ \E c \in Cells : address[c] = s
      BY <2>2, FoundIsAttached
    <3>3. QED
      BY <1>2, <3>1, <3>2 DEF Shared!Capture
  <2>3. QED
    BY <2>1, <2>2
<1>5. QED
  BY <1>1, <1>3, <1>4 DEF Shared!Next, Shared!Slots

(* Every step keeps the invariant and is one of SharedVariables, or none.  *)
LEMMA StepShares == SharingInv /\ [PairwiseNext]_vars => SharingInv' /\ [Shared!Next]_(Shared!vars)
<1> SUFFICES ASSUME SharingInv, [PairwiseNext]_vars PROVE SharingInv' /\ [Shared!Next]_(Shared!vars)
  OBVIOUS
<1>1. IInv'
  <2>1. [Next]_vars
    BY DEF PairwiseNext, PairwiseCapture, Next
  <2>2. QED
    BY <2>1, NextInv DEF SharingInv
<1>2. CASE \E s \in Slots : Call(s)
  BY <1>1, <1>2, CallShares
<1>3. CASE \E s \in Slots : Assign(s)
  BY <1>1, <1>3, AssignShares
<1>4. CASE \E v \in Values : Push(v)
  BY <1>1, <1>4, PushShares
<1>5. CASE \E c \in Cells : AssignThrough(c)
  BY <1>1, <1>5, AssignThroughShares
<1>6. CASE EndCapturedLocal
  BY <1>1, <1>6, EndShares
<1>7. CASE PopTemporary
  BY <1>1, <1>7, PopShares
<1>8. CASE Return
  BY <1>1, <1>8, ReturnShares
<1>9. CASE \E s \in Slots : PairwiseCapture(s)
  BY <1>1, <1>9, CaptureShares
<1>10. CASE UNCHANGED vars
  <2>1. UNCHANGED <<slots, top, captured, heap_values, address, value>>
    BY <1>10 DEF vars
  <2>2. SharingInv'
    BY <1>1, <2>1, SameSharing
  <2>3. QED
    BY <2>1, <2>2 DEF Shared!vars
<1>11. QED
  BY <1>2, <1>3, <1>4, <1>5, <1>6, <1>7, <1>8, <1>9, <1>10 DEF PairwiseNext, Others

(* For every stack and every set of cells, in the runs of PairwiseSpec: no *)
(* open cell points at a popped slot.                                      *)
THEOREM NoneAboveTop == PairwiseSpec => []NoCellAboveTop
<1>1. SharingInv => NoCellAboveTop
  <2>1. SUFFICES ASSUME SharingInv, NEW c \in Cells, Attached(c) PROVE address[c] < top
    BY DEF NoCellAboveTop
  <2>2. QED
    BY <2>1, AttachedFacts
<1>2. QED
  BY <1>1, InitSharing, StepShares, PTL DEF PairwiseSpec

(* And closures share variables as they promise to: in those runs          *)
(* capturing, popping, returning and assigning implement SharedVariables.  *)
THEOREM VariablesAreShared == PairwiseSpec => SharesVariables
<1>1. Init => Shared!Init
  <2>1. SUFFICES ASSUME Init PROVE Shared!Init
    OBVIOUS
  <2>2. SharingInv /\ top = 1 /\ address = [c \in Cells |-> Unused]
    BY <2>1, InitSharing DEF Init
  <2>3. View \in [0..top-1 -> Values] /\ value \in [Cells -> Values]
    BY <2>2, SharingFacts DEF View
  <2>4. QED
    BY <2>2, <2>3 DEF Shared!Init, Shared!Slots, View
<1>2. QED
  BY <1>1, InitSharing, StepShares, PTL DEF PairwiseSpec, SharesVariables, Shared!Spec

-----------------------------------------------------------------------------
(* What PairwiseSpec asks of a run.  A run in which every capture leaves   *)
(* the list in order never has three open cells: the third one would go to *)
(* the end of the list, or to its head, and belong elsewhere.              *)
OrderedCapture(s) == Capture(s) /\ HighestFirst'

OrderedNext == Others \/ \E s \in Slots : OrderedCapture(s)
OrderedSpec == Init /\ [][OrderedNext]_vars

AtMostTwo == Len(heap_values) <= 2

(* Where the walk of create_heap_value ends in a list of at most two cells.*)
LEMMA WalkEnds ==
  ASSUME SharingInv, AtMostTwo, NEW s \in Slots, ~Found(s), NEW c \in Cells, address[c] = Unused,
         heap_values' = Inserted(s, c), address' = [address EXCEPT ![c] = s], HighestFirst'
  PROVE  /\ heap_values = <<>> \/ (Len(heap_values) = 1 /\ address[heap_values[1]] < s)
         /\ Len(heap_values') <= 2
<1> DEFINE n == Len(heap_values)
<1>1. /\ heap_values \in Seq(Cells) /\ n \in {0, 1, 2} /\ s \in Nat
      /\ address \in [Cells -> Slots \cup {Unused, Own}]
      /\ \A i \in 1..n : heap_values[i] \in Cells /\ Attached(heap_values[i]) /\ address[heap_values[i]] \in Nat
  <2>1. heap_values \in Seq(Cells) /\ address \in [Cells -> Slots \cup {Unused, Own}]
    BY DEF SharingInv, IInv, TypeOK
  <2>2. n \in Nat /\ n <= 2
    BY AttachedFacts DEF AtMostTwo
  <2>3. s \in Nat
    BY StackAssumption DEF Slots
  <2>4. QED
    BY <2>1, <2>2, <2>3, AttachedFacts
<1>2. \A i \in 1..n : heap_values[i] # c /\ address'[heap_values[i]] = address[heap_values[i]]
  <2>1. SUFFICES ASSUME NEW i \in 1..n PROVE heap_values[i] # c /\ address'[heap_values[i]] = address[heap_values[i]]
    OBVIOUS
  <2>2. heap_values[i] # c
    BY <1>1, NoSlot DEF Attached
  <2>3. QED
    BY <1>1, <2>2
<1>3. address'[c] = s
  BY <1>1
<1>4. Reached(s) = {i \in 1..n : address[heap_values[i]] <= s}
  BY <1>1 DEF Reached
<1>5. ASSUME heap_values' = <<c>> \o heap_values PROVE /\ Len(heap_values') = n + 1
                                                       /\ \A i \in 1..n : s > address[heap_values[i]]
  <2>0. <<c>> \in Seq(Cells) /\ Len(<<c>>) = 1 /\ <<c>>[1] = c
    OBVIOUS
  <2>1. PICK x \in Seq(Cells) : x = <<c>> /\ Len(x) = 1 /\ x[1] = c
    BY <2>0
  <2>2. PICK y \in Seq(Cells) : y = heap_values
    BY <1>1
  <2>3. /\ Len(x \o y) = Len(x) + Len(y)
        /\ \A i \in 1..Len(x)+Len(y) : (x \o y)[i] = IF i <= Len(x) THEN x[i] ELSE y[i - Len(x)]
    BY ConcatProperties
  <2>4. heap_values' = x \o y /\ Len(x) = 1 /\ Len(y) = n /\ n \in Nat
    BY <1>1, <1>5, <2>1, <2>2
  <2>5. Len(heap_values') = n + 1 /\ heap_values'[1] = c
        /\ \A i \in 1..n : heap_values'[i + 1] = heap_values[i]
    <3>0. PICK z : z = x \o y
      OBVIOUS
    <3>1. \A i \in 1..1+n : z[i] = IF i <= 1 THEN x[i] ELSE y[i - 1]
      BY <2>3, <2>4, <3>0
    <3>2. z[1] = c
      BY <2>1, <2>4, <3>1
    <3>3. ASSUME NEW i \in 1..n PROVE z[i + 1] = heap_values[i]
      <4>1. i + 1 \in 1..1+n /\ ~(i + 1 <= 1) /\ i + 1 - 1 = i
        BY <2>4
      <4>2. z[i + 1] = y[i]
        BY ONLY <3>1, <4>1
      <4>3. QED
        BY <2>2, <4>1, <4>2
    <3>4. QED
      BY <2>3, <2>4, <3>0, <3>2, <3>3
  <2>6. ASSUME NEW i \in 1..n PROVE s > address[heap_values[i]]
    <3>1. 1 \in 1..Len(heap_values') /\ i + 1 \in 1..Len(heap_values') /\ 1 < i + 1
      BY <2>4, <2>5
    <3>2. address'[heap_values'[1]] > address'[heap_values'[i + 1]]
      BY <3>1 DEF HighestFirst
    <3>3. QED
      BY <1>2, <1>3, <2>5, <3>2
  <2>7. QED
    BY <2>5, <2>6
<1>6. CASE n = 0
  <2>1. heap_values = <<>> /\ Reached(s) = {}
    BY <1>1, <1>4, <1>6
  <2>2. heap_values' = <<c>> \o heap_values
    BY <2>1 DEF Inserted
  <2>3. Len(heap_values') = n + 1
    BY <1>5, <2>2
  <2>4. Len(heap_values') <= 2
    BY <1>6, <2>3
  <2>5. QED
    BY <2>1, <2>4
<1>7. CASE n = 1
  <2>1. Reached(s) = {} \/ Reached(s) = {1}
    <3>1. 1..n = {1}
      BY <1>7
    <3>2. QED
      BY <1>4, <3>1
  <2>2. Min({1}) = 1
    BY MinOfNaturals
  <2>3. Reached(s) = {} \/ Min(Reached(s)) = n
    BY <1>7, <2>1, <2>2
  <2>4. heap_values' = <<c>> \o heap_values
    BY <2>3 DEF Inserted
  <2>5. 1 \in 1..n
    BY <1>7
  <2>6. s > address[heap_values[1]] /\ Len(heap_values') = 2
    BY <1>5, <1>7, <2>4, <2>5
  <2>7. address[heap_values[1]] < s
    BY <1>1, <2>5, <2>6
  <2>8. QED
    BY <1>7, <2>6, <2>7
<1>8. CASE n = 2
  <2>1. 1 \in 1..n /\ 2 \in 1..n /\ 1..n = {1, 2}
    BY <1>8
  <2>2. address[heap_values[1]] > address[heap_values[2]]
    BY <2>1, <1>8 DEF SharingInv, HighestFirst
  <2>3. PICK a \in Nat, b \in Nat : a = address[heap_values[1]] /\ b = address[heap_values[2]]
    BY <1>1, <2>1
  <2>4. Reached(s) # {} => Min(Reached(s)) \in Reached(s) /\ \A i \in Reached(s) : Min(Reached(s)) <= i
    <3>1. Reached(s) \subseteq Nat
      BY <1>4, <2>1
    <3>2. QED
      BY <3>1, MinOfNaturals
  <2>5. CASE Reached(s) = {} \/ Min(Reached(s)) = n
    <3>1. heap_values' = <<c>> \o heap_values
      BY <2>5 DEF Inserted
    <3>2. s > a
      BY <1>5, <2>1, <2>3, <3>1
    <3>3. 1 \in Reached(s)
      BY <1>1, <1>4, <2>1, <2>3, <3>2
    <3>4. Min(Reached(s)) <= 1
      BY <2>4, <3>3
    <3>5. FALSE
      BY <1>8, <2>5, <3>3, <3>4
    <3>6. QED
      BY <3>5
  <2>6. CASE ~ (Reached(s) = {} \/ Min(Reached(s)) = n)
    <3>1. Min(Reached(s)) = 1 /\ 1 \in Reached(s)
      <4>1. Min(Reached(s)) \in {1, 2} /\ Min(Reached(s)) # 2 /\ Min(Reached(s)) \in Reached(s)
        BY <1>4, <1>8, <2>1, <2>4, <2>6
      <4>2. QED
        BY <4>1
    <3>2. heap_values' = InsertAt(heap_values, 3, c)
      BY <2>6, <3>1 DEF Inserted
    <3>3. /\ Len(heap_values') = 3 /\ heap_values'[1] = heap_values[1] /\ heap_values'[3] = c
      <4>1. PICK q \in Seq(Cells) : q = heap_values /\ Len(q) = 2
        BY <1>1, <1>8
      <4>2. 3 \in 1..Len(q)+1 /\ 1 \in 1..Len(q)+1 /\ Len(q) + 1 = 3
        BY <4>1
      <4>3. PICK p \in 1..Len(q)+1 : p = 3
        BY <4>2
      <4>4. /\ Len(InsertAt(q, p, c)) = Len(q) + 1
            /\ \A i \in 1..Len(q)+1 :
                 InsertAt(q, p, c)[i] = IF i < p THEN q[i] ELSE IF i = p THEN c ELSE q[i-1]
        BY InsertAtFacts
      <4>5. QED
        BY <3>2, <4>1, <4>2, <4>3, <4>4
    <3>4. address'[heap_values'[2]] > address'[heap_values'[3]] /\ address'[heap_values'[1]] > address'[heap_values'[3]]
      BY <3>3 DEF HighestFirst
    <3>5. a > s
      BY <1>2, <1>3, <2>1, <2>3, <3>3, <3>4
    <3>6. a <= s
      BY <1>4, <2>3, <3>1
    <3>7. FALSE
      BY <1>1, <2>3, <3>5, <3>6
    <3>8. QED
      BY <3>7
  <2>7. QED
    BY <2>5, <2>6
<1>9. QED
  BY <1>1, <1>6, <1>7, <1>8

LEMMA MoveShortens ==
  ASSUME SharingInv, AtMostTwo, NEW first, MoveToHeap(first)
  PROVE  AtMostTwo'
<1>1. heap_values \in Seq(Cells) /\ Len(heap_values) \in Nat
  BY DEF SharingInv, IInv, TypeOK
<1>2. PICK k \in 0..Len(heap_values) : Cardinality(Moved(first)) = k
  BY <1>1, MovedFirst
<1>3. heap_values' = SubSeq(heap_values, k + 1, Len(heap_values))
  BY <1>2 DEF MoveToHeap
<1>4. PICK q \in Seq(Cells), m \in Nat, n \in Nat : q = heap_values /\ m = k + 1 /\ n = Len(heap_values)
  BY <1>1, <1>2
<1>5. m \in 1..n+1
  BY <1>2, <1>4
<1>6. Len(SubSeq(q, m, n)) = IF m <= n THEN n - m + 1 ELSE 0
  BY <1>4, <1>5, SubSeqProperties
<1>7. QED
  BY <1>1, <1>2, <1>3, <1>4, <1>5, <1>6 DEF AtMostTwo

LEMMA OrderedStep ==
  SharingInv /\ AtMostTwo /\ [OrderedNext]_vars => AtMostTwo' /\ [PairwiseNext]_vars
<1>1. SUFFICES ASSUME SharingInv, AtMostTwo, [OrderedNext]_vars PROVE AtMostTwo' /\ [PairwiseNext]_vars
  OBVIOUS
<1>2. CASE UNCHANGED vars
  BY <1>1, <1>2 DEF AtMostTwo, vars
<1>3. CASE Others
  <2>1. [PairwiseNext]_vars
    BY <1>3 DEF PairwiseNext
  <2>2. CASE EndCapturedLocal
    BY <1>1, <2>1, <2>2, MoveShortens DEF EndCapturedLocal
  <2>3. CASE Return
    BY <1>1, <2>1, <2>3, MoveShortens DEF Return
  <2>4. CASE ~ EndCapturedLocal /\ ~ Return
    <3>1. heap_values' = heap_values
      BY <1>3, <2>4 DEF Others, Call, Assign, Push, AssignThrough, PopTemporary, cells
    <3>2. QED
      BY <1>1, <2>1, <3>1 DEF AtMostTwo
  <2>5. QED
    BY <2>2, <2>3, <2>4
<1>4. ASSUME NEW s \in Slots, OrderedCapture(s) PROVE AtMostTwo' /\ [PairwiseNext]_vars
  <2>1. CASE Found(s)
    <3>1. heap_values' = heap_values
      BY <1>4, <2>1 DEF OrderedCapture, Capture
    <3>2. PairwiseCapture(s)
      BY <1>4, <2>1 DEF OrderedCapture, PairwiseCapture
    <3>3. QED
      BY <1>1, <3>1, <3>2 DEF AtMostTwo, PairwiseNext
  <2>2. CASE ~Found(s)
    <3>1. PICK c \in Cells : /\ address[c] = Unused /\ heap_values' = Inserted(s, c)
                             /\ address' = [address EXCEPT ![c] = s]
      BY <1>4, <2>2 DEF OrderedCapture, Capture
    <3>2. HighestFirst' /\ Capture(s)
      BY <1>4 DEF OrderedCapture
    <3>3. /\ heap_values = <<>> \/ (Len(heap_values) = 1 /\ address[heap_values[1]] < s)
          /\ Len(heap_values') <= 2
      BY <1>1, <2>2, <3>1, <3>2, WalkEnds
    <3>4. PairwiseCapture(s)
      BY <3>2, <3>3 DEF PairwiseCapture
    <3>5. QED
      BY <3>3, <3>4 DEF AtMostTwo, PairwiseNext
  <2>3. QED
    BY <2>1, <2>2
<1>5. QED
  BY <1>1, <1>2, <1>3, <1>4 DEF OrderedNext

LEMMA PairwiseStep ==
  HighestFirst' /\ [PairwiseNext]_vars => [OrderedNext]_vars
BY DEF PairwiseNext, OrderedNext, PairwiseCapture, OrderedCapture

(* For every stack and every set of cells: the runs of PairwiseSpec are    *)
(* exactly those in which every capture leaves the list of open cells with *)
(* the highest slot first.  A run that captures a variable anew while two  *)
(* are open, or below the one that is, puts the list out of order, and     *)
(* NoneAboveTop and VariablesAreShared say nothing of it.                  *)
THEOREM PairwiseIsOrdered == PairwiseSpec <=> OrderedSpec
<1>1. Init => SharingInv /\ AtMostTwo
  BY InitSharing DEF Init, AtMostTwo
<1>2. SharingInv => HighestFirst
  BY DEF SharingInv
<1>3. SharingInv /\ [PairwiseNext]_vars => SharingInv'
  BY StepShares
<1>4. QED
  BY <1>1, <1>2, <1>3, OrderedStep, PairwiseStep, PTL DEF PairwiseSpec, OrderedSpec

=============================================================================
