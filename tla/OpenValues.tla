------------------------------ MODULE OpenValues ------------------------------
(***************************************************************************)
(* How the virtual machine shares a stack slot between the function that   *)
(* declared a variable and the closures that captured it                   *)
(* (src/virtual_machine.c).  An ObjectValue is a cell: while the variable  *)
(* is on the stack the cell's value_address points to its slot and the     *)
(* cell is on the list vm->heap_values; when the slot is popped the value  *)
(* moves into the cell, which then points to itself.                       *)
(*                                                                         *)
(* Each action is one instruction.  Which slot an instruction may touch is *)
(* what the compiler guarantees; frames hold their frame_start only.       *)
(***************************************************************************)
EXTENDS SequencesExt

CONSTANTS
  Cells,      (* ObjectValues                                              *)
  Values,     (* values of variables                                       *)
  Unused,     (* value_address of an ObjectValue not allocated yet         *)
  Own,        (* value_address of a cell that points to its own value      *)
  StackSize   (* slots of the value stack, STACK_MAX in the code           *)

ASSUME StackAssumption ==
  /\ StackSize \in Nat /\ StackSize >= 2
  /\ {Unused, Own} \cap (0..StackSize-1) = {}
  /\ Unused # Own

VARIABLES
  slots,       (* vm->stack_value.items, what lies above top included      *)
  top,         (* vm->stack_value.top                                      *)
  frames,      (* frame_start of every call, the running one last          *)
  captured,    (* slots whose variable has LocalAction_Move_Heap           *)
  heap_values, (* the list of open cells, its head first                   *)
  address,     (* value_address of every cell                              *)
  value        (* value of every cell                                      *)

stack == <<slots, top, frames, captured>>
cells == <<heap_values, address, value>>
vars  == <<slots, top, frames, captured, heap_values, address, value>>

Slots == 0..StackSize-1

(* The script's closure fills slot 0, the frame_start of the first call.   *)
Init ==
  /\ slots \in {[i \in Slots |-> v] : v \in Values}
  /\ top = 1
  /\ frames = <<0>>
  /\ captured = {}
  /\ heap_values = <<>>
  /\ address = [c \in Cells |-> Unused]
  /\ value \in {[c \in Cells |-> v] : v \in Values}

Running    == frames # <<>>
FrameStart == Last(frames)
Locals     == FrameStart..top-1

-----------------------------------------------------------------------------
(* VirtualMachine_create_heap_value.  The walk stops at the first cell     *)
(* whose slot is not above s.                                              *)

Reached(s) == {i \in DOMAIN heap_values : address[heap_values[i]] <= s}
Found(s)   == Reached(s) # {} /\ address[heap_values[Min(Reached(s))]] = s

(* `next` is the cell after the one the walk stopped at, and the new cell  *)
(* is inserted after `next`; with no such cell it goes to the front.       *)
InsertedAlone(s, c) ==
  IF Reached(s) = {} \/ Min(Reached(s)) = Len(heap_values)
  THEN <<c>>
  ELSE InsertAt(heap_values, Min(Reached(s)) + 2, c)

Inserted(s, c) ==
  IF Reached(s) = {} \/ Min(Reached(s)) = Len(heap_values)
  THEN <<c>> \o heap_values
  ELSE InsertAt(heap_values, Min(Reached(s)) + 2, c)

(* OpCode_Stack_Push_Closure captures a local of the running function.     *)
CaptureAnew(s) ==
  /\ Running /\ s \in Locals
  /\ captured' = captured \cup {s}
  /\ \E c \in Cells :
       /\ address[c] = Unused
       /\ heap_values' = Inserted(s, c)
       /\ address' = [address EXCEPT ![c] = s]
  /\ UNCHANGED <<slots, top, frames, value>>

Capture(s) ==
  /\ Running /\ s \in Locals
  /\ captured' = captured \cup {s}
  /\ IF Found(s)
     THEN UNCHANGED <<heap_values, address>>
     ELSE \E c \in Cells :
            /\ address[c] = Unused
            /\ heap_values' = Inserted(s, c)
            /\ address' = [address EXCEPT ![c] = s]
  /\ UNCHANGED <<slots, top, frames, value>>

-----------------------------------------------------------------------------
(* VirtualMachine_move_value_from_stack_to_heap(first): cells leave the    *)
(* head of the list while they point to slot `first` or above.             *)

MovedAll(first) == DOMAIN heap_values

MovedAbove(first) ==
  {i \in DOMAIN heap_values : \A j \in 1..i : address[heap_values[j]] > first}

Moved(first) ==
  {i \in DOMAIN heap_values : \A j \in 1..i : address[heap_values[j]] >= first}

MoveToHeap(first) ==
  LET moving == {heap_values[i] : i \in Moved(first)}
  IN  /\ heap_values' = SubSeq(heap_values, Cardinality(Moved(first)) + 1, Len(heap_values))
      /\ value' = [c \in Cells |-> IF c \in moving THEN slots[address[c]] ELSE value[c]]
      /\ address' = [c \in Cells |-> IF c \in moving THEN Own ELSE address[c]]

(* OpCode_Stack_Move_Value_To_Heap: the end of the scope of a variable     *)
(* that some closure, somewhere in its scope, captures.                    *)
EndCapturedLocal ==
  /\ Running /\ top - 1 > FrameStart
  /\ MoveToHeap(top - 1)
  /\ top' = top - 1
  /\ captured' = captured \ {top - 1}
  /\ UNCHANGED <<slots, frames>>

(* OpCode_Stack_Pop: a temporary, or a variable no closure captures.       *)
PopTemporary ==
  /\ Running /\ top - 1 > FrameStart
  /\ top - 1 \notin captured
  /\ top' = top - 1
  /\ UNCHANGED <<slots, frames, captured, cells>>

Push(v) ==
  /\ Running /\ top < StackSize
  /\ slots' = [slots EXCEPT ![top] = v]
  /\ top' = top + 1
  /\ UNCHANGED <<frames, captured, cells>>

(* OpCode_Stack_Copy_Top_To_Idx.                                           *)
Assign(s) ==
  /\ Running /\ s \in Locals
  /\ slots' = [slots EXCEPT ![s] = slots[top - 1]]
  /\ UNCHANGED <<top, frames, captured, cells>>

(* OpCode_Stack_Move_Top_To_Heap: an assignment through value_address,     *)
(* wherever that points.                                                   *)
AssignThrough(c) ==
  /\ Running /\ address[c] # Unused
  /\ IF address[c] = Own
     THEN value' = [value EXCEPT ![c] = slots[top - 1]] /\ UNCHANGED slots
     ELSE slots' = [slots EXCEPT ![address[c]] = slots[top - 1]] /\ UNCHANGED value
  /\ UNCHANGED <<top, frames, captured, heap_values, address>>

(* VirtualMachine_call_closure: the callee and its arguments are on top of *)
(* the stack, and none of them is a variable of the caller.                *)
Call(start) ==
  /\ Running /\ start \in FrameStart+1..top-1
  /\ \A s \in captured : s < start
  /\ frames' = Append(frames, start)
  /\ UNCHANGED <<slots, top, captured, cells>>

(* StackFunctionCall_pop.                                                  *)
FramesKept == frames
FramesLeft == Front(frames)

(* OpCode_Return: the result is popped, the frame's open cells leave the   *)
(* list, and the result takes the place of the callee.  The script returns *)
(* from its outermost scope, and that ends the run.                        *)
Return ==
  /\ Running /\ top - 1 > FrameStart
  /\ top - 1 \notin captured
  /\ MoveToHeap(FrameStart)
  /\ frames' = FramesLeft
  /\ captured' = {s \in captured : s < FrameStart}
  /\ IF Len(frames) = 1
     THEN top = 2 /\ top' = 0 /\ UNCHANGED slots
     ELSE /\ slots' = [slots EXCEPT ![FrameStart] = slots[top - 1]]
          /\ top' = FrameStart + 1

Others ==
  \/ \E s \in Slots : Call(s) \/ Assign(s)
  \/ \E v \in Values : Push(v)
  \/ \E c \in Cells : AssignThrough(c)
  \/ EndCapturedLocal
  \/ PopTemporary
  \/ Return

Next == Others \/ \E s \in Slots : Capture(s)

Spec == Init /\ [][Next]_vars

(* Runs in which a variable is captured anew only while no other is open,  *)
(* or a single one, lower on the stack.                                    *)
PairwiseCapture(s) ==
  /\ ~Found(s) => \/ heap_values = <<>>
                  \/ Len(heap_values) = 1 /\ address[heap_values[1]] < s
  /\ Capture(s)

PairwiseNext == Others \/ \E s \in Slots : PairwiseCapture(s)
PairwiseSpec == Init /\ [][PairwiseNext]_vars

-----------------------------------------------------------------------------

Attached(c) == address[c] \in Slots

(* Every variable has its type, the running call has a frame that lies on  *)
(* the stack, and only slots on the stack are captured variables.          *)
TypeOK ==
  /\ slots \in [Slots -> Values]
  /\ top \in 0..StackSize
  /\ frames \in Seq(Slots)
  /\ Running => FrameStart < top
  /\ captured \in SUBSET (0..top-1)
  /\ heap_values \in Seq(Cells)
  /\ address \in [Cells -> Slots \cup {Unused, Own}]
  /\ value \in [Cells -> Values]

(* vm->heap_values holds exactly the cells that point into the stack, each *)
(* once: wherever create_heap_value inserts, no open cell drops off the    *)
(* list, where the collector and move_value_from_stack_to_heap look for it,*)
(* and no cell that owns its value stays on it.                            *)
OpenCellsAreListed ==
  /\ ToSet(heap_values) = {c \in Cells : Attached(c)}
  /\ IsInjective(heap_values)

(* "vm->openValues -> v_a: 3 -> v_a: 2 -> v_a: 1" (tests/parser/closures.k,*)
(* line 113): the cell of the highest slot comes first in the list, which  *)
(* is what move_value_from_stack_to_heap and the walk of create_heap_value *)
(* count on.                                                               *)
HighestFirst ==
  \A i, j \in 1..Len(heap_values) : i < j => address[heap_values[i]] > address[heap_values[j]]

(* A step detaches no cell of a variable that stays in scope: closures go  *)
(* on sharing it with the frame that is still using it.                    *)
LiveCellsStayAttached ==
  [][\A c \in Cells :
       address[c] \in captured \cap captured' => address'[c] = address[c]]_vars

(* No open cell points at a popped slot, so no closure can see or change a *)
(* later use of that slot.                                                 *)
NoCellAboveTop == \A c \in Cells : Attached(c) => address[c] < top

(* Closures share variables as they promise to: create_heap_value,         *)
(* move_value_from_stack_to_heap and the instructions that use them        *)
(* implement SharedVariables.                                              *)
Shared == INSTANCE SharedVariables
            WITH Handles <- Cells, Detached <- Own,
                 height <- top, locals <- [i \in 0..top-1 |-> slots[i]], bound <- address
SharesVariables == Shared!Spec

=============================================================================
