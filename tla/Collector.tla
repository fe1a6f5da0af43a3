------------------------------ MODULE Collector ------------------------------
(***************************************************************************)
(* The mark and sweep collector (src/memory.c) and the program it works    *)
(* for.  Any allocation may start a collection; nothing else runs until it *)
(* ends.  Objects are numbered in the order of their allocation, which is  *)
(* the order LinkedList_push leaves them in on vm->objects, newest first.  *)
(*                                                                         *)
(* The program is any sequence of the things the interpreter and the       *)
(* compiler do to the heap: an object stands for every ObjectKind, its     *)
(* refs for the objects Memory_blacken_objects finds in it.                *)
(***************************************************************************)
EXTENDS FiniteSetsExt, Integers

CONSTANTS
  Sources,     (* where Memory_mark_roots looks: the value stack, the      *)
               (* globals, the frames, the open heap values, the functions *)
               (* being compiled, and the constructor's name               *)
  MaxObjects,  (* bound on the objects the model allocates                 *)
  MaxRefs      (* bound on the references in an object                     *)

ASSUME BoundAssumption == MaxObjects \in Nat /\ MaxRefs \in Nat \ {0}

VARIABLES
  head,        (* vm->objects; 0 is NULL                                   *)
  next,        (* object->next of every object                             *)
  allocated,   (* the objects that have not been freed                     *)
  last,        (* how many objects were ever allocated                     *)
  refs,        (* the objects each object refers to                        *)
  roots,       (* the objects each source refers to                        *)
  held,        (* an ObjectFunction no source refers to yet, 0 for none    *)
  phase,       (* "program", "mark", "sweep"; "lost" after undefined       *)
               (* behaviour, about what happens then nothing is claimed    *)
  marked,      (* the objects whose is_marked is set                       *)
  greys,       (* M_Greys                                                  *)
  prev, curr   (* the iterator of Memory_sweep                             *)

list    == <<head, next, allocated, last>>
program == <<refs, roots, held>>
marking == <<marked, greys>>
walk    == <<prev, curr>>
vars == <<head, next, allocated, last, refs, roots, held, phase, marked, greys, prev, curr>>

Objects == 1..MaxObjects
Null == 0

RootsIn(S) == UNION {roots[s] : s \in S}
Roots == RootsIn(Sources)

(* What the program can still get at: the least set that contains the      *)
(* roots and whatever its members refer to.                                *)
Closed(S) == Roots \subseteq S /\ \A o \in S : refs[o] \subseteq S
Reachable == {o \in Objects : \A S \in SUBSET Objects : Closed(S) => o \in S}

Init ==
  /\ head = Null /\ next = [o \in Objects |-> Null]
  /\ allocated = {} /\ last = 0
  /\ refs = [o \in Objects |-> {}] /\ roots = [s \in Sources |-> {}] /\ held = Null
  /\ phase = "program"
  /\ marked = {} /\ greys = {}
  /\ prev = Null /\ curr = Null

-----------------------------------------------------------------------------
(* The program.                                                            *)

Idle == phase = "program" /\ held = Null

(* Object_allocate, once Memory_allocate has returned.                     *)
Allocate ==
  /\ last < MaxObjects
  /\ last' = last + 1
  /\ allocated' = allocated \cup {last'}
  /\ next' = [next EXCEPT ![last'] = head]
  /\ head' = last'

(* A new object that refers to objects the program has at hand and is      *)
(* stored where the collector finds it before anything else is allocated.  *)
NewObject(s, children) ==
  /\ Idle
  /\ children \subseteq Reachable /\ Cardinality(children) <= MaxRefs
  /\ Allocate
  /\ refs' = [refs EXCEPT ![last'] = children]
  /\ roots' = [roots EXCEPT ![s] = @ \cup {last'}]
  /\ UNCHANGED <<held, phase, marking, walk>>

(* ObjectString_allocate finds its string in the string database, which    *)
(* refers to strings without keeping them: a string has no refs.           *)
FindString(s, o) ==
  /\ Idle /\ o \in allocated /\ refs[o] = {}
  /\ roots' = [roots EXCEPT ![s] = @ \cup {o}]
  /\ UNCHANGED <<list, refs, held, phase, marking, walk>>

(* Stack pushes, global definitions and calls; pops and returns.           *)
AddRoot(s, o) ==
  /\ Idle /\ o \in Reachable
  /\ roots' = [roots EXCEPT ![s] = @ \cup {o}]
  /\ UNCHANGED <<list, refs, held, phase, marking, walk>>

DropRoot(s, o) ==
  /\ Idle /\ o \in roots[s]
  /\ roots' = [roots EXCEPT ![s] = @ \ {o}]
  /\ UNCHANGED <<list, refs, held, phase, marking, walk>>

(* A field, a method, a captured or constant value is stored, overwritten. *)
SetRef(o, p) ==
  /\ Idle /\ o \in Reachable /\ p \in Reachable
  /\ Cardinality(refs[o] \cup {p}) <= MaxRefs
  /\ refs' = [refs EXCEPT ![o] = @ \cup {p}]
  /\ UNCHANGED <<list, roots, held, phase, marking, walk>>

ClearRef(o, p) ==
  /\ Idle /\ o \in Reachable /\ p \in refs[o]
  /\ refs' = [refs EXCEPT ![o] = @ \ {p}]
  /\ UNCHANGED <<list, roots, held, phase, marking, walk>>

(* parser_init_function allocates the ObjectFunction; only a C variable    *)
(* refers to it while its name is interned, which may allocate.            *)
BeginFunction ==
  /\ Idle
  /\ Allocate
  /\ held' = last'
  /\ UNCHANGED <<refs, roots, phase, marking, walk>>

(* Its name, a string that is found or allocated, is stored in it and it   *)
(* joins the functions being compiled.                                     *)
NameFunction(s) ==
  /\ phase = "program" /\ held \in allocated
  /\ \/ /\ \E name \in allocated \ {held} :
             refs[name] = {} /\ refs' = [refs EXCEPT ![held] = {name}]
        /\ UNCHANGED list
     \/ /\ Allocate
        /\ refs' = [refs EXCEPT ![held] = {last'}]
  /\ roots' = [roots EXCEPT ![s] = @ \cup {held}]
  /\ held' = Null
  /\ UNCHANGED <<phase, marking, walk>>

(* The same, had a collection freed the function meanwhile: undefined.     *)
NameFreedFunction ==
  /\ phase = "program" /\ held # Null /\ held \notin allocated
  /\ phase' = "lost"
  /\ UNCHANGED <<list, program, marking, walk>>

-----------------------------------------------------------------------------
(* Memory_collect_garbage.                                                 *)

(* Memory_mark_object_gray of each object of S: a marked one is left alone.*)
EvenIfMarked(S) == S
NotYetMarked(S) == S \ marked

UnmarkedGray(S, pending) ==
  /\ greys' = pending \cup NotYetMarked(S)
  /\ UNCHANGED marked

MarkGray(S, pending) ==
  /\ marked' = marked \cup S
  /\ greys' = pending \cup NotYetMarked(S)

(* Memory_mark_roots.                                                      *)
RootsOfOneSource == RootsIn({CHOOSE s \in Sources : TRUE})
RootsMarked == RootsIn(Sources)

MarkRoots ==
  /\ phase = "program"
  /\ phase' = "mark"
  /\ MarkGray(RootsMarked, greys)
  /\ UNCHANGED <<list, program, walk>>

(* One turn of Memory_blacken_objects.  Which grey object is popped makes  *)
(* no difference to what ends up marked.                                   *)
Blacken ==
  /\ phase = "mark"
  /\ \E o \in greys : MarkGray(refs[o], greys \ {o})
  /\ UNCHANGED <<list, program, phase, walk>>

BeginSweep ==
  /\ phase = "mark" /\ greys = {}
  /\ phase' = "sweep"
  /\ prev' = Null /\ curr' = head
  /\ UNCHANGED <<list, program, marking>>

(* One turn of Memory_sweep.  The iterator steps to the next object after  *)
(* the body has run, so also from an object it has just freed: what it     *)
(* reads there may be what next was, or no longer be an object.            *)
KeepMarked ==
  /\ phase = "sweep" /\ curr \in marked
  /\ prev' = curr /\ curr' = next[curr]
  /\ UNCHANGED <<list, program, phase, marking>>

Keep ==
  /\ phase = "sweep" /\ curr \in marked
  /\ marked' = marked \ {curr}
  /\ prev' = curr /\ curr' = next[curr]
  /\ UNCHANGED <<list, program, phase, greys>>

UnlinkLater == next' = [o \in Objects |-> IF o = prev THEN next[curr] ELSE next[o]]
               /\ UNCHANGED head

Unlink ==
  IF prev = Null THEN head' = next[curr] /\ UNCHANGED next
                 ELSE next' = [next EXCEPT ![prev] = next[curr]] /\ UNCHANGED head

(* `prev` may be an object freed by the turn before: writing into it is    *)
(* undefined.                                                              *)
FreeObject ==
  /\ phase = "sweep" /\ curr # Null /\ curr \notin marked
  /\ allocated' = allocated \ {curr}
  /\ prev' = curr
  /\ IF prev # Null /\ prev \notin allocated
     THEN phase' = "lost" /\ UNCHANGED <<head, next, curr>>
     ELSE /\ Unlink
          /\ \/ curr' = next[curr] /\ UNCHANGED phase
             \/ phase' = "lost" /\ UNCHANGED curr
  /\ UNCHANGED <<last, program, marking>>

EndSweep ==
  /\ phase = "sweep" /\ curr = Null
  /\ phase' = "program"
  /\ prev' = Null
  /\ UNCHANGED <<list, program, marking, curr>>

Collect == MarkRoots \/ Blacken \/ BeginSweep \/ Keep \/ FreeObject \/ EndSweep

Program ==
  \/ \E s \in Sources, children \in SUBSET Objects : NewObject(s, children)
  \/ \E s \in Sources, o \in Objects :
       FindString(s, o) \/ AddRoot(s, o) \/ DropRoot(s, o)
  \/ \E o, p \in Objects : SetRef(o, p) \/ ClearRef(o, p)
  \/ BeginFunction
  \/ \E s \in Sources : NameFunction(s)
  \/ NameFreedFunction

Next == Program \/ Collect

Spec == Init /\ [][Next]_vars

(* One thread runs the collector: it never stops in the middle.            *)
FairSpec == Spec /\ WF_vars(Collect /\ phase # "program")

-----------------------------------------------------------------------------

Linked == Objects \cup {Null}

(* Every variable has its type, and an object waiting on M_Greys is marked.*)
TypeOK ==
  /\ head \in Linked /\ next \in [Objects -> Linked]
  /\ last \in 0..MaxObjects /\ allocated \in SUBSET (1..last)
  /\ refs \in [Objects -> SUBSET Objects]
  /\ roots \in [Sources -> SUBSET Objects]
  /\ held \in Linked
  /\ phase \in {"program", "mark", "sweep", "lost"}
  /\ marked \in SUBSET Objects /\ greys \in SUBSET marked
  /\ prev \in Linked /\ curr \in Linked

(* Memory_sweep never frees an object the program can still get at through *)
(* the stack, the globals, the frames or the other sources, whatever the   *)
(* order in which objects refer to one another.                            *)
ReachableIsAllocated == Reachable \subseteq allocated

(* When Memory_sweep is done, everything the program could not get at is   *)
(* freed: no mark of an earlier collection keeps garbage alive.            *)
GarbageIsFreed ==
  [][phase = "sweep" /\ phase' = "program" => allocated' \subseteq Reachable]_vars

(* Between collections vm->objects links the objects that are allocated,   *)
(* newest first, and nothing else.                                         *)
Before(o) == {p \in allocated : p < o}
Newest(S) == IF S = {} THEN Null ELSE Max(S)

ListHoldsHeap ==
  phase = "program" =>
    /\ head = Newest(allocated)
    /\ \A o \in allocated : next[o] = Newest(Before(o))

(* A collection ends, however objects refer to one another: each object    *)
(* turns grey once (Memory_mark_object_gray) and the sweep comes to the    *)
(* end of the list, or meets undefined behaviour.                          *)
CollectionEnds == phase # "program" ~> phase \in {"program", "lost"}

(* "To avoid Collecting Object, Memory has pushed values onto stack while  *)
(* parsing" (main.c): an object that is being compiled is not collected.   *)
HeldIsAllocated == held # Null => held \in allocated

=============================================================================
