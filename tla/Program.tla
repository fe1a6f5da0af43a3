------------------------------ MODULE Program ------------------------------
(***************************************************************************)
(* A program from its first token to the end of its run: the parser's      *)
(* handlers (Compiler) and, when the script is compiled, the interpreter   *)
(* loop (Machine), which is how main composes them (src/main.c).           *)
(***************************************************************************)
EXTENDS Machine

Init == ParserInit /\ MachineInit

vars == <<parser, compiled, status, machine>>

Compiling ==
  /\ Parse
  /\ IF status' = "running" THEN Start ELSE UNCHANGED machine

Running == Interpret /\ UNCHANGED parser

Next == Compiling \/ Running

Spec == Init /\ [][Next]_vars

-----------------------------------------------------------------------------
Statuses == {"parsing", "rejected", "running", "ended", "error", "aborted", "undefined"}

(* Every variable has its type: the limits of locals and of the stack are  *)
(* kept, and what runs is a function that was compiled.  A local's slot    *)
(* lies above the stack only where a jump of an irregular program led.     *)
TypeOK ==
  /\ status \in Statuses
  /\ regular \in BOOLEAN
  /\ dialect \in Dialects
  /\ status = "parsing" => functions # <<>>
  /\ \A i \in DOMAIN functions : functions[i].depth \in Nat /\ Len(functions[i].locals) \in 1..MaxLocals
  /\ \A i \in DOMAIN breakpoints : breakpoints[i].operand \in Nat
  /\ Len(stack) <= StackSize /\ Len(frames) <= MaxFrames
  /\ \A i \in DOMAIN frames : frames[i].function \in DOMAIN compiled
  /\ \A i \in DOMAIN cells : cells[i].at \in 0..StackSize+MaxLocals-1
  /\ ToSet(heap_values) \subseteq DOMAIN cells /\ ordered \in BOOLEAN
  /\ \A i \in DOMAIN instances : instances[i].class \in DOMAIN classes

AtStatement == status = "running" /\ Frame.ip \in DOMAIN Code /\ Instr.height # -1

LocalsAreTheStack == Len(stack) = Frame.start - 1 + Instr.height

(* At the start of a statement what is on the stack of the function is its *)
(* locals, as the compiler counts them, whichever jumps led here: what the *)
(* index of every local rests on (parser.c:849: "a statement leaves NO     *)
(* value in the stack").  Of the programs whose jumps leave no locals      *)
(* behind and which declare nothing in a bare branch or after a 'sai' of   *)
(* the same block.                                                         *)
RegularStatementsLeaveNoValue == regular /\ AtStatement => LocalsAreTheStack

(* A name denotes the variable that its scope says, in the frame of the    *)
(* call or captured: shadowed, declared again, in a nested function whose  *)
(* enclosing call has ended or in the next iteration of a loop.  This and  *)
(* what follows from it is of the runs in which the list of captured       *)
(* variables is in order: out of it, create_heap_value misses the cell a   *)
(* variable has and the end of its scope leaves cells behind.              *)
Accessed ==
  IF Instr.op \in OfLocal THEN stack[Place(Instr.x)].of ELSE CellSlot(Captured(Instr.x)).of

NamesDenoteTheirVariables ==
  regular /\ ordered /\ status = "running" /\ ~Astray /\ Instr.op \in OfLocal \cup OfHeap
    => Accessed = Instr.of

(* The run of a program the compiler gets right never uses what is not     *)
(* there but for calling or inheriting from what is no object, of which    *)
(* the interpreter takes the kind without asking (virtual_machine.c:265,   *)
(* 280, 340).                                                              *)
Unchecked ==
  \/ Instr.op \in {"Call_Function", "Call_Class"} /\ Peek(Instr.x).value.kind = "plain"
  \/ Instr.op = "Inheritance" /\ Peek(1).value.kind # "class"

RunsAreDefined == regular /\ ordered /\ status = "undefined" => Unchecked

(* A captured variable that is still on the stack is below its top: the    *)
(* instruction that pops the last use of its slot moves it to the heap     *)
(* ("Generates the instruction to move the variable, acessed by the        *)
(* closure, from the Stack to the Heap", parser.c:1083).                   *)
CapturedAreOnTheStack ==
  regular /\ ordered /\ status = "running" => \A i \in DOMAIN cells : cells[i].at <= Len(stack)

(* A class answers for a method as the nearest class it descends from that *)
(* declares it, though it only copied what its superclass had: in regular  *)
(* programs, since another may read a class with methods of its own from   *)
(* the slot of the one it declares.                                        *)
Declared_(c, m) ==
  LET nearest[k \in 1..c] == IF m \in DOMAIN classes[k].own THEN {classes[k].own[m]}
                             ELSE IF classes[k].super = 0 THEN {} ELSE nearest[classes[k].super]
  IN  nearest[c]

MethodsAreInherited ==
  regular /\ ordered => \A c \in DOMAIN classes : \A m \in Names \cup {Konstrutor} :
    (IF m \in DOMAIN classes[c].methods THEN {classes[c].methods[m]} ELSE {}) = Declared_(c, m)

(* A method runs on an instance of its class or of one that descends from  *)
(* it, however it is called: by name, through its superclass, as a field,  *)
(* taken from an instance before, or by creating one.                      *)
DescendsFrom(c, d) ==
  LET ancestors[k \in 1..c] == {k} \cup (IF classes[k].super = 0 THEN {} ELSE ancestors[classes[k].super])
  IN  d \in ancestors[c]

IsMethodOf(f, d) == \E m \in DOMAIN classes[d].own :
  classes[d].own[m].function = f.function /\ classes[d].own[m].cells = f.cells

MethodsRunOnInstances ==
  regular /\ ordered /\ status = "running" =>
    \A f \in ToSet(frames) :
      compiled[f.function].kind \in {"Method", "Method_Initializer"} =>
        LET keli == stack[f.start].value
        IN  /\ keli.kind = "instance"
            /\ \E d \in DOMAIN classes : IsMethodOf(f, d) /\ DescendsFrom(instances[keli.instance].class, d)

(* At the end of the source every scope, block and function was left: no   *)
(* 'sai' has a jump that was not patched, and the operand of every jump is *)
(* a place in the code of its function.                                    *)
Jumps == {"Jump", "Jump_If_False", "Loop"}
JumpsArePatched ==
  regular /\ status = "running" =>
    \A i \in DOMAIN compiled : \A k \in DOMAIN compiled[i].code :
      compiled[i].code[k].op \in Jumps => compiled[i].code[k].x \in DOMAIN compiled[i].code

=============================================================================
