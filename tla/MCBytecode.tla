------------------------------ MODULE MCBytecode ------------------------------
EXTENDS Bytecode

(* Constants up to the first whose index needs two bytes and differs when  *)
(* they are swapped, with everything that has an index.                    *)
Indexes    == [kinds |-> {"Constant", "Closure", "Global", "Declaration", "Member"}, length |-> 5]

(* Jumps over up to as much as an offset holds, and more.                  *)
Branches   == [kinds |-> {"Jump", "Loop", "Instruction"}, length |-> 5]

(* Statements of any number of instructions.                               *)
Statements == [kinds |-> {"Statement", "Instruction"}, length |-> 5]

AllDialects == {Indexes, Branches, Statements}
===============================================================================
