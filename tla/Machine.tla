------------------------------ MODULE Machine ------------------------------
(***************************************************************************)
(* The interpreter loop (src/virtual_machine.c) on the instructions that   *)
(* Compiler emits: the value stack, the calls, the captured variables, the *)
(* globals and what classes and instances need of them.                    *)
(*                                                                         *)
(* What a condition evaluates to is left open.  A slot of the stack        *)
(* remembers the variable it was pushed as.                                *)
(***************************************************************************)
EXTENDS Compiler

CONSTANTS
  StackSize, (* slots of the value stack, STACK_MAX in the code            *)
  MaxFrames, (* calls at a time, FRAME_STACK_MAX in the code               *)
  MaxCells,  (* variables captured during a run                            *)
  MaxClasses, (* classes created during a run                              *)
  MaxInstances, (* instances likewise                                      *)
  Native     (* the name of a native function, `rilogio` in the code       *)

ASSUME MachineAssumption == {StackSize, MaxFrames} \subseteq Nat \ {0} /\ {MaxCells, MaxClasses, MaxInstances} \subseteq Nat

VARIABLES
  stack,     (* vm->stack_value                                            *)
  frames,    (* vm->function_calls                                         *)
  cells,     (* ObjectValues in the order they were allocated              *)
  heap_values, (* vm->heap_values: the cells on the stack, its head first  *)
  ordered,   (* for the properties: so far the highest cell came first in  *)
             (* it, as tests/parser/closures.k:113 expects                 *)
  classes,   (* ObjectClasses likewise: their methods and, for the         *)
             (* properties, which are their own and the class they inherit *)
             (* from                                                       *)
  instances, (* ObjectInstances likewise: their class and fields           *)
  globals    (* vm->global_database                                        *)

captures == <<cells, heap_values, ordered>>
objects == <<captures, classes, instances, globals>>
machine == <<stack, frames, objects>>

(* Values: one that is no object, and objects of six kinds.                *)
Plain       == [kind |-> "plain"]
NativeFunction == [kind |-> "native"]
ClosureOf(f, captured) == [kind |-> "closure", function |-> f, cells |-> captured]
ClassOf(i)  == [kind |-> "class", class |-> i]
Instance(i) == [kind |-> "instance", instance |-> i]
Bound(instance, closure) == [kind |-> "method", instance |-> instance, closure |-> closure]
Slot(of, value) == [of |-> of, value |-> value]
Konstrutor == "konstrutor"

(* hash_table_set_value and hash_table_copy.                               *)
Set(table, n, value) == [k \in DOMAIN table \cup {n} |-> IF k = n THEN value ELSE table[k]]
Copied(from, to) == [k \in DOMAIN from \cup DOMAIN to |-> IF k \in DOMAIN from THEN from[k] ELSE to[k]]

MachineInit ==
  /\ stack = <<>> /\ frames = <<>> /\ classes = <<>> /\ instances = <<>>
  /\ cells = <<>> /\ heap_values = <<>> /\ ordered = TRUE
  /\ globals = [n \in {Native} |-> NativeFunction]

Frame    == Last(frames)
Code     == compiled[Frame.function].code
Instr    == Code[Frame.ip]
Top      == Last(stack)
Peek(n)  == stack[Len(stack) - n]
(* A local's place in the stack: frame_start is slot 0 of the frame.       *)
Place(i) == Frame.start + i

Captured(i) == cells[Frame.cells[i + 1]]
CellSlot(c) == IF c.at = 0 THEN c.slot ELSE stack[c.at]

(* The instructions that push a slot, that use slots from the top, and     *)
(* that access a local or a captured variable.                             *)
Pushing  == {"Push_Literal", "Push_Condition", "Push_Nil", "Push_Closure", "Copy_From_Idx",
             "Copy_From_Heap", "Read_Global", "Class"}
OfLocal  == {"Copy_From_Idx", "Copy_Top_To_Idx"}
OfHeap   == {"Copy_From_Heap", "Move_Top_To_Heap"}
Needs(i) == CASE i.op \in Pushing \cup {"Jump", "Loop"} -> 0
              [] i.op \in {"Call_Function", "Call_Class"} -> i.x + 1
              [] i.op \in {"Method", "Inheritance", "Set_Property", "Get_Super", "Call_Super_Method"} -> 2
              [] i.op = "Return" -> IF Len(frames) = 1 THEN 2 ELSE 1
              [] OTHER -> 1

(* VirtualMachine_move_value_from_stack_to_heap: cells leave the head of   *)
(* the list while they are at this place or above.                         *)
OpenAt(i)    == cells[heap_values[i]].at
Moved(place) == {i \in DOMAIN heap_values : \A j \in 1..i : OpenAt(j) >= place}
FirstMoved   == IF Instr.op = "Return" THEN Frame.start ELSE Len(stack)

MoveToHeap(place) ==
  LET moved == {heap_values[i] : i \in Moved(place)}
  IN  /\ cells' = [c \in DOMAIN cells |-> IF c \in moved THEN [at |-> 0, slot |-> stack[cells[c].at]] ELSE cells[c]]
      /\ heap_values' = SubSeq(heap_values, Max(Moved(place) \cup {0}) + 1, Len(heap_values))
      /\ UNCHANGED ordered

(* Where code, a local, a captured variable, a class or the name of a      *)
(* method is not there, C uses what it finds in its place.                 *)
(* stack_value_push and _pop assert.                                       *)
OnTrack ==
  /\ Frame.ip \in DOMAIN Code
  /\ Instr.op \in OfLocal => Place(Instr.x) \in DOMAIN stack
  /\ Instr.op \in OfHeap => Captured(Instr.x).at <= Len(stack)
  /\ Instr.op \in {"Return", "Move_Value_To_Heap"} => \A i \in Moved(FirstMoved) : OpenAt(i) <= Len(stack)
  /\ Instr.op = "Return" => Frame.start <= Len(stack)
  /\ Instr.op = "Method" /\ Len(stack) > 1 => Peek(1).value.kind = "class"
  /\ Instr.op \in {"Get_Super", "Call_Super_Method"} /\ Len(stack) > 0 => Top.value.kind = "class" /\ Instr.x # Elsewhere
  /\ Instr.op = "Inheritance" /\ Len(stack) > 1 => Peek(0).value.kind = "class" /\ Peek(1).value.kind = "class"
Astray     == ~OnTrack
Overflows  == Instr.op \in Pushing /\ Len(stack) = StackSize
Underflows == Needs(Instr) > Len(stack)

Execute(op) ==
  /\ status = "running"
  /\ ~Astray /\ ~Overflows /\ ~Underflows
  /\ Instr.op = op

Stop(how) == status' = how /\ UNCHANGED <<compiled, machine>>

GoesAstray == status = "running" /\ Astray /\ Stop("undefined")
Asserts    == status = "running" /\ ~Astray /\ (Overflows \/ Underflows) /\ Stop("aborted")

(* VirtualMachine_runtime_error and the return of the interpreter.         *)
RuntimeError ==
  /\ status' = "error"
  /\ stack' = <<>>
  /\ UNCHANGED <<compiled, frames, objects>>

At(ip)  == frames' = [frames EXCEPT ![Len(frames)].ip = ip]
Advance == At(Frame.ip + 1) /\ UNCHANGED <<compiled, status>>

PushValue(v) == stack' = Append(stack, Slot(Instr.as, v))

-----------------------------------------------------------------------------
(* Values, locals and globals.                                             *)

PushLiteral ==
  /\ \E op \in {"Push_Literal", "Push_Condition", "Push_Nil"} : Execute(op)
  /\ PushValue(Plain)
  /\ Advance
  /\ UNCHANGED objects

CopyFromIdx ==
  /\ Execute("Copy_From_Idx")
  /\ PushValue(stack[Place(Instr.x)].value)
  /\ Advance
  /\ UNCHANGED objects

CopyTopToIdx ==
  /\ Execute("Copy_Top_To_Idx")
  /\ stack' = [stack EXCEPT ![Place(Instr.x)].value = Top.value]
  /\ Advance
  /\ UNCHANGED objects

CopyFromHeap ==
  /\ Execute("Copy_From_Heap")
  /\ PushValue(CellSlot(Captured(Instr.x)).value)
  /\ Advance
  /\ UNCHANGED objects

MoveTopToHeap ==
  LET c == Frame.cells[Instr.x + 1]
  IN  /\ Execute("Move_Top_To_Heap")
      /\ IF cells[c].at = 0
         THEN cells' = [cells EXCEPT ![c].slot.value = Top.value] /\ UNCHANGED stack
         ELSE stack' = [stack EXCEPT ![cells[c].at].value = Top.value] /\ UNCHANGED cells
      /\ Advance
      /\ UNCHANGED <<heap_values, ordered, classes, instances, globals>>

MoveValueToHeap ==
  /\ Execute("Move_Value_To_Heap")
  /\ MoveToHeap(FirstMoved)
  /\ stack' = Front(stack)
  /\ Advance
  /\ UNCHANGED <<classes, instances, globals>>

Pop ==
  /\ Execute("Pop") \/ Execute("Print")
  /\ stack' = Front(stack)
  /\ Advance
  /\ UNCHANGED objects

DefineGlobal ==
  /\ Execute("Define_Global")
  /\ globals' = Set(globals, Instr.x, Top.value)
  /\ stack' = Front(stack)
  /\ Advance
  /\ UNCHANGED <<captures, classes, instances>>

(* An assignment defines the global and, when it was not there, deletes it *)
(* and reports.                                                            *)
IsDefined == Instr.x \in DOMAIN globals

ReadGlobal ==
  /\ Execute("Read_Global")
  /\ IF IsDefined
     THEN PushValue(globals[Instr.x]) /\ Advance /\ UNCHANGED objects
     ELSE RuntimeError

AssignGlobal ==
  /\ Execute("Assign_Global")
  /\ IF IsDefined
     THEN globals' = [globals EXCEPT ![Instr.x] = Top.value] /\ Advance /\ UNCHANGED <<stack, captures, classes, instances>>
     ELSE RuntimeError

-----------------------------------------------------------------------------
(* Jumps.  The operand is the place in the code.                           *)

Jump ==
  /\ \/ Execute("Jump") /\ At(Instr.x)
     \/ Execute("Loop") /\ At(Instr.x)
     \/ Execute("Jump_If_False") /\ \E ip \in {Instr.x, Frame.ip + 1} : At(ip)
  /\ UNCHANGED <<compiled, status, stack, objects>>

-----------------------------------------------------------------------------
(* Closures and calls.                                                     *)

(* For the properties, the variable in this place once the closure is on   *)
(* the stack.                                                              *)
VariableAt(place) == IF place <= Len(stack) THEN stack[place].of ELSE Instr.as

(* VirtualMachine_create_heap_value.  The walk stops at the first cell that *)
(* is not above the place, or at the end; a new cell comes after the one   *)
(* after that, or else first.                                              *)
Walk(c, place) == Min({i \in DOMAIN c.list : c.cells[c.list[i]].at <= place} \cup {Len(c.list)})

WithNewCell(list, stop, new) == IF stop = Len(list) THEN <<new>> \o list ELSE InsertAt(list, stop + 2, new)

InOrder(all, list) == \A i, j \in DOMAIN list : i < j => all[list[i]].at > all[list[j]].at

NewHeapValue(c, place, stop) ==
  LET new  == Len(c.cells) + 1
      all  == Append(c.cells, [at |-> place, slot |-> Slot(VariableAt(place), Plain)])
      list == WithNewCell(c.list, stop, new)
  IN  [cells |-> all, list |-> list, ordered |-> c.ordered /\ InOrder(all, list), captured |-> Append(c.captured, new)]

HeapValue(c, place) ==
  LET stop == Walk(c, place)
  IN  IF stop # 0 /\ c.cells[c.list[stop]].at = place
      THEN [c EXCEPT !.captured = Append(@, c.list[stop])]
      ELSE NewHeapValue(c, place, stop)

(* OpCode_Stack_Push_Closure: the closure is on the stack before its       *)
(* captured variables are found or created, one after the other.           *)
Capture(c, outsider) ==
  IF outsider.location = "Stack" THEN HeapValue(c, Place(outsider.index))
  ELSE [c EXCEPT !.captured = Append(@, Frame.cells[outsider.index + 1])]

Capturing(outsiders) ==
  LET capturing[i \in 0..Len(outsiders)] ==
        IF i = 0 THEN [cells |-> cells, list |-> heap_values, ordered |-> ordered, captured |-> <<>>]
        ELSE Capture(capturing[i - 1], outsiders[i])
  IN  capturing[Len(outsiders)]

PushClosure ==
  LET c == Capturing(compiled[Instr.x].outsiders)
  IN  /\ Execute("Push_Closure")
      /\ Len(c.cells) <= MaxCells
      /\ cells' = c.cells /\ heap_values' = c.list /\ ordered' = c.ordered
      /\ PushValue(ClosureOf(Instr.x, c.captured))
      /\ Advance
      /\ UNCHANGED <<classes, instances, globals>>

(* VirtualMachine_call_closure: the callee and the arguments, whatever     *)
(* they were pushed as, become the first locals of the function.           *)
CallClosure(callee, arguments, s, all) ==
  LET parameters == compiled[callee.function].parameters
      start == Len(s) - arguments
  IN  IF Len(parameters) # arguments + 1 \/ Len(frames) = MaxFrames
      THEN RuntimeError
      ELSE /\ stack' = [i \in DOMAIN s |->
                          IF i < start THEN s[i] ELSE Slot(parameters[i - start + 1], s[i].value)]
           /\ frames' = Append([frames EXCEPT ![Len(frames)].ip = @ + 1],
                [function |-> callee.function, ip |-> 1, start |-> start, cells |-> callee.cells])
           /\ instances' = all
           /\ UNCHANGED <<compiled, status, captures, classes, globals>>

(* The native function takes no arguments; its value takes the place of    *)
(* the callee.                                                             *)
CallNative(arguments) ==
  IF arguments # 0 THEN RuntimeError
  ELSE stack' = Append(Front(stack), Slot(Instr.as, Plain)) /\ Advance /\ UNCHANGED objects

(* The instance takes the place of the class and `konstrutor`, if there is *)
(* one, is called on it.                                                   *)
Construct(class, arguments) ==
  LET s == [stack EXCEPT ![Len(stack) - arguments] = Slot(Instr.as, Instance(Len(instances) + 1))]
      all == Append(instances, [class |-> class, fields |-> <<>>])
      methods == classes[class].methods
  IN  /\ Len(instances) < MaxInstances
      /\ IF Konstrutor \in DOMAIN methods
         THEN CallClosure(methods[Konstrutor], arguments, s, all)
         ELSE IF arguments # 0 THEN RuntimeError
              ELSE /\ stack' = s /\ instances' = all
                   /\ Advance /\ UNCHANGED <<captures, classes, globals>>

(* The instance a method is bound to takes the place of the callee.        *)
WithCallee(s, arguments, instance) == s
WithReceiver(s, arguments, instance) == [s EXCEPT ![Len(s) - arguments].value = instance]

(* VirtualMachine_call_value.                                              *)
CallValue(callee, arguments, s) ==
  CASE callee.kind = "closure" -> CallClosure(callee, arguments, s, instances)
    [] callee.kind = "native"  -> CallNative(arguments)
    [] callee.kind = "class"   -> Construct(callee.class, arguments)
    [] callee.kind = "method"  ->
         CallClosure(callee.closure, arguments, WithReceiver(s, arguments, callee.instance), instances)
    [] callee.kind \in {"plain", "instance"} -> RuntimeError

(* OpCode_Call_Function and OpCode_Call_Class tell classes apart before;   *)
(* what is no object they take for one.                                    *)
CallFunction ==
  LET callee == Peek(Instr.x).value
  IN  /\ Execute("Call_Function")
      /\ CASE callee.kind = "plain" -> Stop("undefined")
           [] callee.kind = "class" -> RuntimeError
           [] callee.kind \notin {"plain", "class"} -> CallValue(callee, Instr.x, stack)

CallClass ==
  LET callee == Peek(Instr.x).value
  IN  /\ Execute("Call_Class")
      /\ CASE callee.kind = "plain" -> Stop("undefined")
           [] callee.kind = "class" -> CallValue(callee, Instr.x, stack)
           [] callee.kind \notin {"plain", "class"} -> RuntimeError

(* VirtualMachine_call_from_class, without arguments.                      *)
CallFromClass(class, m, s) ==
  IF m \in DOMAIN classes[class].methods
  THEN CallClosure(classes[class].methods[m], 0, s, instances)
  ELSE RuntimeError

(* OpCode_Call_Method: a field comes before a method, and takes the place  *)
(* of the instance.                                                        *)
CallMethod ==
  LET object == instances[Top.value.instance]
  IN  /\ Execute("Call_Method")
      /\ IF Top.value.kind # "instance" THEN RuntimeError
         ELSE IF Instr.x \in DOMAIN object.fields
              THEN CallValue(object.fields[Instr.x], 0, [stack EXCEPT ![Len(stack)].value = object.fields[Instr.x]])
              ELSE CallFromClass(object.class, Instr.x, stack)

CallSuperMethod ==
  /\ Execute("Call_Super_Method")
  /\ CallFromClass(Top.value.class, Instr.x, Front(stack))

(* OpCode_Return: the script's ends the run.  The value returned becomes   *)
(* what the call in the caller is pushed as.                               *)
Return_ ==
  /\ Execute("Return")
  /\ MoveToHeap(FirstMoved)
  /\ frames' = Front(frames)
  /\ IF Len(frames) = 1
     THEN stack' = SubSeq(stack, 1, Len(stack) - 2) /\ status' = "ended"
     ELSE LET caller == frames[Len(frames) - 1]
              as == compiled[caller.function].code[caller.ip - 1].as
          IN  stack' = Append(SubSeq(stack, 1, Frame.start - 1), Slot(as, Top.value)) /\ UNCHANGED status
  /\ UNCHANGED <<compiled, classes, instances, globals>>

-----------------------------------------------------------------------------
(* Classes and instances.                                                  *)

Class ==
  /\ Execute("Class")
  /\ Len(classes) < MaxClasses
  /\ classes' = Append(classes, [methods |-> <<>>, own |-> <<>>, super |-> 0])
  /\ PushValue(ClassOf(Len(classes) + 1))
  /\ Advance
  /\ UNCHANGED <<captures, instances, globals>>

(* hash_table_copy: the methods of the class are those of the superclass   *)
(* until it has its own.                                                   *)
MethodsUncopied(sub, super) == classes[sub].methods
InheritedMethods(sub, super) == Copied(classes[super].methods, classes[sub].methods)

Inheritance ==
  LET sub == Top.value.class
      super == Peek(1).value.class
  IN  /\ Execute("Inheritance")
      /\ classes' = [classes EXCEPT ![sub].methods = InheritedMethods(sub, super), ![sub].super = super]
      /\ stack' = Front(stack)
      /\ Advance
      /\ UNCHANGED <<captures, instances, globals>>

Method ==
  LET c == Peek(1).value.class
  IN  /\ Execute("Method")
      /\ classes' = [classes EXCEPT ![c].methods = Set(@, Instr.x, Top.value), ![c].own = Set(@, Instr.x, Top.value)]
      /\ stack' = Front(stack)
      /\ Advance
      /\ UNCHANGED <<captures, instances, globals>>

(* OpCode_Object_Get_Property: a field, or else a method bound to the      *)
(* instance.                                                               *)
Property(object, m) ==
  IF m \in DOMAIN instances[object.instance].fields
  THEN instances[object.instance].fields[m]
  ELSE Bound(object, classes[instances[object.instance].class].methods[m])

Has(object, m) ==
  object.kind = "instance" /\ m \in DOMAIN instances[object.instance].fields
                                  \cup DOMAIN classes[instances[object.instance].class].methods

GetProperty ==
  /\ Execute("Get_Property")
  /\ IF Has(Top.value, Instr.x)
     THEN /\ stack' = Append(Front(stack), Slot(Instr.as, Property(Top.value, Instr.x)))
          /\ Advance
          /\ UNCHANGED objects
     ELSE RuntimeError

GetSuper ==
  LET methods == classes[Top.value.class].methods
  IN  /\ Execute("Get_Super")
      /\ IF Instr.x \in DOMAIN methods
         THEN /\ stack' = Append(SubSeq(stack, 1, Len(stack) - 2), Slot(Instr.as, Bound(Peek(1).value, methods[Instr.x])))
              /\ Advance
              /\ UNCHANGED objects
         ELSE RuntimeError

SetProperty ==
  LET object == Peek(1).value
  IN  /\ Execute("Set_Property")
      /\ IF object.kind = "instance"
         THEN /\ instances' = [instances EXCEPT ![object.instance].fields = Set(@, Instr.x, Top.value)]
              /\ stack' = Append(SubSeq(stack, 1, Len(stack) - 2), Slot(Instr.as, Top.value))
              /\ Advance
              /\ UNCHANGED <<captures, classes, globals>>
         ELSE RuntimeError

-----------------------------------------------------------------------------
(* VirtualMachine_interpret up to its loop: the script is local 0.         *)
Start ==
  /\ stack' = <<Slot(0, ClosureOf(Len(compiled'), <<>>))>>
  /\ frames' = <<[function |-> Len(compiled'), ip |-> 1, start |-> 1, cells |-> <<>>]>>
  /\ UNCHANGED objects

Interpret ==
  \/ PushLiteral \/ CopyFromIdx \/ CopyTopToIdx \/ CopyFromHeap \/ MoveTopToHeap \/ MoveValueToHeap
  \/ Pop \/ DefineGlobal \/ ReadGlobal \/ AssignGlobal
  \/ Jump
  \/ PushClosure \/ CallFunction \/ CallClass \/ CallMethod \/ CallSuperMethod \/ Return_
  \/ Class \/ Inheritance \/ Method \/ GetProperty \/ GetSuper \/ SetProperty
  \/ GoesAstray \/ Asserts

=============================================================================
