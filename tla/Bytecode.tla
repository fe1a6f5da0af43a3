------------------------------- MODULE Bytecode -------------------------------
(***************************************************************************)
(* The code of one function as bytes: how the compiler writes instructions *)
(* (src/bytecode.c, and the callers in src/parser.c that choose an         *)
(* operand), how the interpreter loop (src/virtual_machine.c) and the      *)
(* disassembler read them back.  Offsets count from 0, as in the code.  A  *)
(* byte written as an opcode is told from one written as an operand; what  *)
(* the instructions do is in Machine.                                      *)
(***************************************************************************)
EXTENDS Integers, SequencesExt, FiniteSetsExt

CONSTANTS
  Radix,     (* the values of a byte: 256 in the code                      *)
  Dialects   (* [kinds, length]: what a function is written with, at most  *)
             (* how many instructions                                      *)

ASSUME BytecodeAssumption ==
  /\ Radix \in Nat \ {0, 1}
  /\ \A d \in Dialects : d.length \in Nat

VARIABLES
  instructions, lines,  (* ArrayInstruction, ArrayLineNumber               *)
  values,      (* ArrayValue: how many variables each captures, 0 but for  *)
               (* functions                                                *)
  source_code, (* ArraySourceCode: where each statement starts             *)
  statement,   (* where the one being compiled starts, -1 between them     *)
  unpatched,   (* where the operands of jumps that await their target are  *)
  status,      (* "compiling", "rejected", "running", "ended", "misread"   *)
  ip,
  dialect,
  emitted      (* what the compiler meant: the instructions, with the      *)
               (* value they stand for and the place they jump to          *)

vars == <<instructions, lines, values, source_code, statement, unpatched, status, ip, dialect, emitted>>

Opcode(op) == [op |-> op, byte |-> 0]
Byte(n)    == [op |-> "Operand", byte |-> n % Radix]
Count      == Len(instructions)
Line       == Len(source_code) + 1

(* Forward jumps hold the highest offset until they are patched.           *)
Jumps     == {"Jump", "Jump_If_False"}
MaxOffset == Radix * Radix - 1

Init ==
  /\ instructions = <<>> /\ lines = <<>> /\ values = <<>>
  /\ source_code = <<>> /\ statement = -1
  /\ unpatched = {} /\ status = "compiling" /\ ip = 0
  /\ dialect \in Dialects /\ emitted = <<>>

-----------------------------------------------------------------------------
(* Bytecode_insert_instruction_1byte and those of more bytes: a line for   *)
(* every byte, so that the arrays stay in step.                            *)
LinesOfOpcode(bytes) == <<Line>>
LinesOf(bytes) == [i \in DOMAIN bytes |-> Line]

Emitted(op, operands, to) == [at |-> Count, op |-> op, operands |-> operands, to |-> to, line |-> Line]

Insert(bytes, e) ==
  /\ instructions' = instructions \o bytes
  /\ lines' = lines \o LinesOf(bytes)
  /\ emitted' = Append(emitted, e)
  /\ UNCHANGED <<source_code, statement, ip, dialect>>

Writes(kind) ==
  /\ status = "compiling" /\ kind \in dialect.kinds /\ Len(emitted) < dialect.length

Instruction(op) ==
  /\ Writes("Instruction")
  /\ Insert(<<Opcode(op)>>, Emitted(op, <<>>, -1))
  /\ UNCHANGED <<values, unpatched, status>>

(* The three bytes of a long index, the high one first                     *)
(* (array_instruction_insert_u24 takes them the other way round).          *)
LongIndexLowFirst(i) == <<Byte(i), Byte(i \div Radix), Byte(i \div (Radix * Radix))>>
LongIndex(i) == <<Byte(i \div (Radix * Radix)), Byte(i \div Radix), Byte(i)>>

(* Bytecode_insert_instruction_constant.                                   *)
NewIndex == Len(values)

Constant ==
  /\ Writes("Constant")
  /\ values' = Append(values, 0)
  /\ IF NewIndex < Radix
     THEN Insert(<<Opcode("Push_Literal"), Byte(NewIndex)>>, Emitted("Push_Literal", <<NewIndex>>, -1))
     ELSE Insert(<<Opcode("Push_Literal_Long")>> \o LongIndex(NewIndex),
                 Emitted("Push_Literal_Long", <<NewIndex>>, -1))
  /\ UNCHANGED <<unpatched, status>>

(* Bytecode_insert_instruction_closure: the long form is written without   *)
(* the outsiders, each of which is a location and an index.                *)
Closure(outsiders) ==
  /\ Writes("Closure")
  /\ values' = Append(values, Len(outsiders) \div 2)
  /\ IF NewIndex < Radix
     THEN Insert(<<Opcode("Push_Closure"), Byte(NewIndex)>> \o [i \in DOMAIN outsiders |-> Byte(outsiders[i])],
                 Emitted("Push_Closure", <<NewIndex>> \o outsiders, -1))
     ELSE Insert(<<Opcode("Push_Closure_Long")>> \o LongIndex(NewIndex),
                 Emitted("Push_Closure_Long", <<NewIndex>> \o outsiders, -1))
  /\ UNCHANGED <<unpatched, status>>

(* parser_save_identifier_into_bytecode: every use of a name is a constant *)
(* of its own.                                                             *)
SavedIndex == IF NewIndex > Radix - 1 THEN -1 ELSE NewIndex

(* The index of a global that is read, of a class or a method goes into    *)
(* the operand unchecked, -1 included; that of a function, a parameter or  *)
(* a variable that is declared is checked; a member's is cut.              *)
Global ==
  /\ Writes("Global")
  /\ values' = Append(values, 0)
  /\ Insert(<<Opcode("Read_Global"), Byte(SavedIndex)>>, Emitted("Read_Global", <<NewIndex>>, -1))
  /\ UNCHANGED <<unpatched, status>>

Declaration ==
  /\ Writes("Declaration")
  /\ values' = Append(values, 0)
  /\ status' = IF SavedIndex = -1 THEN "rejected" ELSE status
  /\ Insert(<<Opcode("Define_Global"), Byte(SavedIndex)>>, Emitted("Define_Global", <<NewIndex>>, -1))
  /\ UNCHANGED unpatched

Member(argument_count) ==
  /\ Writes("Member")
  /\ values' = Append(values, 0)
  /\ Insert(<<Opcode("Call_Method"), Byte(NewIndex), Byte(argument_count)>>,
            Emitted("Call_Method", <<NewIndex, argument_count>>, -1))
  /\ UNCHANGED <<unpatched, status>>

(* Bytecode_insert_instruction_jump.                                       *)
Jump(op) ==
  /\ Writes("Jump")
  /\ Insert(<<Opcode(op), Byte(Radix - 1), Byte(Radix - 1)>>, Emitted(op, <<>>, -1))
  /\ unpatched' = unpatched \cup {Count + 1}
  /\ UNCHANGED <<values, status>>

(* The operand of a jump, two bytes.                                       *)
Offset(n) == <<Byte(n \div Radix), Byte(n)>>

(* Bytecode_patch_instruction_jump.  An offset too large is reported, and  *)
(* only parser_parse_instruction_if looks at the answer.                   *)
Distance(operand) == Count - operand - 2
TooFar(operand)   == Distance(operand) > MaxOffset

Patched(operand) ==
  [instructions EXCEPT ![operand + 1] = Offset(Distance(operand))[1],
                       ![operand + 2] = Offset(Distance(operand))[2]]

Patch(operand, checked) ==
  /\ status = "compiling" /\ operand \in unpatched
  /\ instructions' = IF TooFar(operand) THEN instructions ELSE Patched(operand)
  /\ status' = IF TooFar(operand) /\ checked THEN "rejected" ELSE status
  /\ unpatched' = unpatched \ {operand}
  /\ emitted' = [i \in DOMAIN emitted |->
                   IF emitted[i].at = operand - 1 THEN [emitted[i] EXCEPT !.to = Count] ELSE emitted[i]]
  /\ UNCHANGED <<lines, values, source_code, statement, ip, dialect>>

(* Bytecode_emit_instruction_loop: back to where an instruction starts, by *)
(* an offset that is cut to two bytes.                                     *)
LoopOffset(to) == Count + 3 - to

Loop(to) ==
  /\ Writes("Loop")
  /\ Insert(<<Opcode("Loop")>> \o Offset(LoopOffset(to)), Emitted("Loop", <<>>, to))
  /\ UNCHANGED <<values, unpatched, status>>

(* A statement that remembers its source code.  One whose expression is    *)
(* missing may have no instruction.                                        *)
BeginOfStatement ==
  /\ status = "compiling" /\ "Statement" \in dialect.kinds
  /\ statement = -1 /\ Len(source_code) < dialect.length
  /\ statement' = Count
  /\ UNCHANGED <<instructions, lines, values, source_code, unpatched, status, ip, dialect, emitted>>

EndOfStatement ==
  /\ status = "compiling" /\ statement # -1
  /\ source_code' = Append(source_code, statement)
  /\ statement' = -1
  /\ UNCHANGED <<instructions, lines, values, unpatched, status, ip, dialect, emitted>>

(* parser_compile_return and parser_end_function.                          *)
EndOfFunction ==
  /\ status = "compiling" /\ unpatched = {}
  /\ Insert(<<Opcode("Push_Nil"), Opcode("Return")>>, Emitted("Push_Nil", <<>>, -1))
  /\ status' = "running"
  /\ UNCHANGED <<values, unpatched>>

-----------------------------------------------------------------------------
(* The interpreter's reads.  Past the end the arrays hold Opcode_Invalid.  *)
Cell(k)  == IF k < Count THEN instructions[k + 1] ELSE Opcode("Invalid")
ReadByte(k)  == Cell(k).byte
Read2Bytes(k) == Cell(k).byte * Radix + Cell(k + 1).byte
Read3Bytes(k) == (Cell(k).byte * Radix + Cell(k + 1).byte) * Radix + Cell(k + 2).byte

(* How many variables the function of a constant captures.                 *)
OutsidersOf(index) == IF index < Len(values) THEN values[index + 1] ELSE 0

(* The bytes of the operands of the instruction at k, as the interpreter   *)
(* steps over them.                                                        *)
OperandLength(k) ==
  CASE Cell(k).op \in {"Push_Literal", "Read_Global", "Define_Global"} -> 1
    [] Cell(k).op \in {"Call_Method", "Loop"} \cup Jumps -> 2
    [] Cell(k).op = "Push_Literal_Long" -> 3
    [] Cell(k).op = "Push_Closure"      -> 1 + 2 * OutsidersOf(ReadByte(k + 1))
    [] Cell(k).op = "Push_Closure_Long" -> 3 + 2 * OutsidersOf(Read3Bytes(k + 1))
    [] OTHER -> 0

(* The values they stand for.                                              *)
BytesFrom(k, n) == [i \in 1..n |-> ReadByte(k + i - 1)]

OperandsAt(k) ==
  CASE Cell(k).op \in {"Push_Literal", "Read_Global", "Define_Global", "Call_Method"} ->
         BytesFrom(k + 1, OperandLength(k))
    [] Cell(k).op = "Push_Literal_Long" -> <<Read3Bytes(k + 1)>>
    [] Cell(k).op = "Push_Closure"      -> BytesFrom(k + 1, OperandLength(k))
    [] Cell(k).op = "Push_Closure_Long" -> <<Read3Bytes(k + 1)>> \o BytesFrom(k + 4, OperandLength(k) - 3)
    [] OTHER -> <<>>

After(k) == k + 1 + OperandLength(k)
Target(k) == IF Cell(k).op = "Loop" THEN After(k) - Read2Bytes(k + 1) ELSE After(k) + Read2Bytes(k + 1)

IsOpcode(k) == k \in 0..Count-1 /\ Cell(k).op # "Operand"
AreOperands(k, n) == \A i \in k..k+n-1 : i < Count /\ Cell(i).op = "Operand"

(* One turn of the interpreter loop.  An opcode read as an operand, or an  *)
(* operand as an opcode, ends the run.                                     *)
Step ==
  /\ status = "running" /\ IsOpcode(ip) /\ AreOperands(ip + 1, OperandLength(ip))
  /\ Cell(ip).op # "Return"
  /\ \/ Cell(ip).op \in Jumps \cup {"Loop"} /\ ip' = Target(ip)
     \/ Cell(ip).op \notin {"Jump", "Loop"} /\ ip' = After(ip)
  /\ UNCHANGED <<instructions, lines, values, source_code, statement, unpatched, status, dialect, emitted>>

Return ==
  /\ status = "running" /\ IsOpcode(ip) /\ Cell(ip).op = "Return"
  /\ status' = "ended"
  /\ UNCHANGED <<instructions, lines, values, source_code, statement, unpatched, ip, dialect, emitted>>

Misread ==
  /\ status = "running" /\ ~(IsOpcode(ip) /\ AreOperands(ip + 1, OperandLength(ip)))
  /\ status' = "misread"
  /\ UNCHANGED <<instructions, lines, values, source_code, statement, unpatched, ip, dialect, emitted>>

-----------------------------------------------------------------------------
(* The disassembler: where the instruction after the one at k starts.  For *)
(* the long form of a closure it takes the last byte for the index.        *)
ClosureEndUnread(k) == k + 2
ClosureEnd(k) == k + 2 + 2 * OutsidersOf(ReadByte(k + 1))

Disassembled(k) ==
  CASE Cell(k).op = "Push_Closure_Long" -> k + 4 + 2 * OutsidersOf(ReadByte(k + 3))
    [] Cell(k).op = "Push_Closure"      -> ClosureEnd(k)
    [] Cell(k).op = "Push_Literal_Long" -> k + 4
    [] Cell(k).op \in {"Call_Method", "Loop"} \cup Jumps -> k + 3
    [] Cell(k).op \in {"Push_Literal", "Read_Global", "Define_Global"} -> k + 2
    [] OTHER -> k + 1

(* Bytecode_search_source_code: which statement starts at an offset, or 0. *)
Middle(start, end) == start + (end - start) \div 2
LowerHalf(start, middle) == <<start, middle - 1>>
UpToMiddle(start, middle) == <<start, middle>>

Ranges == (0..Len(source_code)) \X (-1..Len(source_code))

(* What the search of a range finds, if `found` is what it finds in others.*)
Halve(found, range, offset) ==
  LET middle == Middle(range[1], range[2])
  IN  IF range[1] >= range[2] THEN 0
      ELSE IF source_code[middle + 1] = offset THEN middle + 1
      ELSE IF source_code[middle + 1] < offset THEN found[<<middle + 1, range[2]>>]
      ELSE found[UpToMiddle(range[1], middle)]

SearchSourceCode(offset) ==
  LET found[range \in Ranges] == Halve(found, range, offset)
  IN  found[<<0, Len(source_code)>>]

-----------------------------------------------------------------------------
Next ==
  \/ Instruction("Pop")
  \/ Constant
  \/ \E outsiders \in {<<>>, <<1, 0>>} : Closure(outsiders)
  \/ Global \/ Declaration
  \/ \E argument_count \in {0, 1} : Member(argument_count)
  \/ \E op \in Jumps : Jump(op)
  \/ \E operand \in unpatched, checked \in BOOLEAN : Patch(operand, checked)
  \/ \E i \in DOMAIN emitted : Loop(emitted[i].at)
  \/ BeginOfStatement \/ EndOfStatement \/ EndOfFunction
  \/ Step \/ Return \/ Misread

Spec == Init /\ [][Next]_vars

-----------------------------------------------------------------------------
(* Every variable has its type: there is a line for every byte, a byte is  *)
(* one, and an operand that awaits its patch was written.                  *)
TypeOK ==
  /\ Len(lines) = Count
  /\ \A k \in 0..Count-1 : Cell(k).byte \in 0..Radix-1
  /\ \A i \in DOMAIN values : values[i] \in Nat
  /\ \A operand \in unpatched : AreOperands(operand, 2)
  /\ status \in {"compiling", "rejected", "running", "ended", "misread"}
  /\ statement \in -1..Count

(* The operands of an instruction fit the bytes there are for them.        *)
Named == {"Read_Global", "Define_Global", "Call_Method"}

Fits(e) ==
  CASE e.op \in Named -> e.operands[1] < Radix
    [] e.op = "Push_Closure_Long" -> Len(e.operands) = 1 /\ e.operands[1] < Radix * Radix * Radix
    [] e.op = "Push_Literal_Long" -> e.operands[1] < Radix * Radix * Radix
    [] e.op \in Jumps -> e.to - e.at - 3 <= MaxOffset
    [] e.op = "Loop"  -> e.at + 3 - e.to <= MaxOffset
    [] OTHER -> TRUE

AllFit == \A i \in DOMAIN emitted : Fits(emitted[i])

IsReadAs(k, e) ==
  /\ Cell(k).op = e.op
  /\ OperandsAt(k) = e.operands
  /\ e.op \in Jumps \cup {"Loop"} => Target(k) = e.to

(* As long as operands fit, a run reads what the compiler meant, wherever  *)
(* jumps lead it: never the middle of an instruction, the index of every   *)
(* constant, the location of every captured variable (READ_BYTE,           *)
(* READ_2BYTE and READ_3BYTE against bytecode.c).                          *)
RunsWhatWasEmitted ==
  AllFit => /\ status # "misread"
            /\ status = "running" /\ Cell(ip).op # "Return" =>
                 \E i \in DOMAIN emitted : emitted[i].at = ip /\ IsReadAs(ip, emitted[i])

(* The line a run-time error names, that of the last byte read             *)
(* (virtual_machine.c:868), is the line of the instruction that fails.     *)
ErrorsNameTheirLine ==
  AllFit /\ status = "running" =>
    \A i \in DOMAIN emitted :
      emitted[i].at = ip => After(ip) \in DOMAIN lines /\ lines[After(ip)] = emitted[i].line

(* The disassembler steps from each instruction to the next, as the        *)
(* interpreter does, and so tells apart what was written; but not a code   *)
(* with a closure in its long form.                                        *)
DisassemblesWhatWasEmitted ==
  AllFit /\ (\A i \in DOMAIN emitted : emitted[i].op # "Push_Closure_Long") =>
    \A i \in DOMAIN emitted :
      Disassembled(emitted[i].at) = IF i < Len(emitted) THEN emitted[i + 1].at
                                    ELSE IF status \in {"compiling", "rejected"} THEN Count ELSE Count - 1

(* The statement the disassembler prints above an instruction is one that  *)
(* starts there, and there is one wherever a statement starts              *)
(* (bytecode.c:350).                                                       *)
StatementsAreFound ==
  \A k \in 0..Count :
    LET starting == {i \in DOMAIN source_code : source_code[i] = k}
    IN  IF starting = {} THEN SearchSourceCode(k) = 0 ELSE SearchSourceCode(k) \in starting

===============================================================================
