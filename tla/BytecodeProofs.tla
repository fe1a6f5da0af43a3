---------------------------- MODULE BytecodeProofs ----------------------------
(***************************************************************************)
(* Bytecode for every radix, every dialect and every length of code.  The  *)
(* inductive invariant describes how the code lies in the array of bytes:  *)
(* the instructions end to end, the bytes of each one those that its       *)
(* reader turns into what the compiler meant, a line for each of them, and *)
(* every jump leading to the start of an instruction.                      *)
(***************************************************************************)
EXTENDS Bytecode, NaturalExtremes, SequenceTheorems, TLAPS

-----------------------------------------------------------------------------
(* Numbers as bytes.                                                       *)

(* A byte is in the range of one whatever is cut to it.                    *)
LEMMA ByteRange ==
  ASSUME NEW n \in Int
  PROVE  n % Radix \in 0..Radix-1
  BY BytecodeAssumption

(* A byte holds what is in its range.                                      *)
LEMMA ByteHolds ==
  ASSUME NEW n \in 0..Radix-1
  PROVE  n % Radix = n
  BY BytecodeAssumption

(* Division with remainder, for the radix and for its square.              *)
LEMMA Division ==
  ASSUME NEW n \in Nat, NEW d \in Nat, d > 0
  PROVE  /\ n \div d \in Nat /\ n % d \in 0..d-1
         /\ n = (n \div d) * d + (n % d)
<1>1. n = (n \div d) * d + (n % d)
  OBVIOUS
<1>2. n \div d \in Nat
  OBVIOUS
<1>3. n % d \in 0..d-1
  OBVIOUS
<1>4. QED
  BY <1>1, <1>2, <1>3

(* The quotient is below a bound when the number is below its multiple.    *)
LEMMA QuotientBound ==
  ASSUME NEW n \in Nat, NEW d \in Nat, d > 0, NEW b \in Nat, n < b * d
  PROVE  n \div d < b
<1> DEFINE q == n \div d
           r == n % d
<1>1. q \in Nat /\ n = q * d + r /\ r \in 0..d-1
  BY Division
<1> HIDE DEF q, r
<1>2. SUFFICES ASSUME q >= b PROVE FALSE
  BY <1>1 DEF q
<1>3. PICK x \in Nat : q = b + x
  <2>1. q - b \in Nat /\ q = b + (q - b)
    BY <1>1, <1>2
  <2>2. QED
    BY <2>1
<1>4. q * d = b * d + x * d
  BY <1>3
<1> DEFINE p == b * d
           y == x * d
<1>5. p \in Nat /\ y \in Nat
  OBVIOUS
<1>6. n < p /\ n = (p + y) + r
  BY <1>1, <1>4
<1> HIDE DEF p, y
<1>7. QED
  BY <1>1, <1>5, <1>6

(* And it is the only one: whatever is left of the number is below the     *)
(* divisor.                                                                *)
LEMMA QuotientUnique ==
  ASSUME NEW n \in Nat, NEW d \in Nat, d > 0, NEW q \in Nat, NEW r \in 0..d-1, n = q * d + r
  PROVE  n \div d = q
<1> DEFINE h == n \div d
<1>1. h \in Nat
  BY Division
<1>2. h < q + 1
  <2>1. (q + 1) * d = q * d + d
    OBVIOUS
  <2>2. q * d \in Nat
    OBVIOUS
  <2> DEFINE p == q * d  t == (q + 1) * d
  <2>3. n < t
    <3>1. t = p + d /\ n = p + r /\ p \in Nat
      BY <2>1, <2>2
    <3> HIDE DEF p, t
    <3>2. QED
      BY <3>1
  <2>4. QED
    BY <2>3, QuotientBound
<1>3. ~ h < q
  <2>1. SUFFICES ASSUME h < q PROVE FALSE
    OBVIOUS
  <2>2. PICK x \in Nat : q = (h + 1) + x
    <3>1. q - (h + 1) \in Nat /\ q = (h + 1) + (q - (h + 1))
      BY <1>1, <2>1
    <3>2. QED
      BY <3>1
  <2> DEFINE p == h * d  y == x * d  l == n % d
  <2>3. n = p + l /\ l \in 0..d-1
    BY Division
  <2> HIDE DEF h, l
  <2>4. n = ((p + d) + y) + r
    BY <1>1, <2>2
  <2>5. p \in Nat /\ y \in Nat
    BY <1>1
  <2> HIDE DEF p, y
  <2>6. QED
    BY <2>3, <2>4, <2>5
<1>4. QED
  BY <1>1, <1>2, <1>3

(* Two bytes hold what the reader makes of them again, up to the offset    *)
(* that forward jumps hold before they are patched.                        *)
LEMMA TwoBytesHold ==
  ASSUME NEW n \in Nat, n <= MaxOffset
  PROVE  /\ n \div Radix \in 0..Radix-1
         /\ (n \div Radix) * Radix + (n % Radix) = n
<1>1. Radix \in Nat /\ Radix > 0
  BY BytecodeAssumption
<1>2. Radix * Radix \in Nat
  BY <1>1
<1>3. n < Radix * Radix
  BY <1>2 DEF MaxOffset
<1>4. n \div Radix < Radix
  BY <1>1, <1>3, QuotientBound
<1>5. n \div Radix \in Nat /\ n = (n \div Radix) * Radix + (n % Radix)
  BY <1>1, Division
<1>6. QED
  BY <1>1, <1>4, <1>5

(* Three bytes, the high one first, likewise.                              *)
LEMMA ThreeBytesHold ==
  ASSUME NEW n \in Nat, n < Radix * Radix * Radix
  PROVE  /\ n \div (Radix * Radix) \in 0..Radix-1
         /\ ((n \div (Radix * Radix)) * Radix + ((n \div Radix) % Radix)) * Radix + (n % Radix) = n
<1>1. Radix \in Nat /\ Radix > 0
  BY BytecodeAssumption
<1> DEFINE s == Radix * Radix
           h == n \div s
           q == n \div Radix
           m == q % Radix
           l == n % Radix
<1>2. s \in Nat /\ s > 0
  BY <1>1
<1>3. n < Radix * s
  BY <1>1
<1>4. h \in 0..Radix-1
  <2>1. h < Radix
    BY <1>1, <1>2, <1>3, QuotientBound
  <2>2. h \in Nat
    BY <1>2, Division
  <2>3. QED
    BY <1>1, <2>1, <2>2
<1>5. q \in Nat /\ n = q * Radix + l /\ l \in 0..Radix-1
  BY <1>1, Division
<1> DEFINE g == q \div Radix
<1>6. q = g * Radix + m /\ g \in Nat /\ m \in 0..Radix-1
  BY <1>1, <1>5, Division
<1>7. g = h
  <2> DEFINE r == m * Radix + l
  <2> HIDE DEF g, m, l, q
  <2>1. n = g * s + r
    BY <1>1, <1>5, <1>6
  <2>2. r \in 0..s-1
    <3>1. PICK x \in Nat : Radix = (m + 1) + x
      <4>1. Radix - (m + 1) \in Nat /\ Radix = (m + 1) + (Radix - (m + 1))
        BY <1>1, <1>6
      <4>2. QED
        BY <4>1
    <3>2. s = (m * Radix + Radix) + x * Radix
      BY <1>1, <1>6, <3>1
    <3>3. x * Radix \in Nat /\ m * Radix \in Nat
      BY <1>1, <1>6
    <3> DEFINE y == x * Radix  z == m * Radix
    <3>4. s = (z + Radix) + y /\ r = z + l /\ y \in Nat /\ z \in Nat
      BY <3>2, <3>3
    <3> HIDE DEF s, r, y, z
    <3>5. QED
      BY <1>1, <1>5, <3>4
  <2> HIDE DEF s, r
  <2>3. QED
    BY <1>2, <1>6, <2>1, <2>2, QuotientUnique
<1> HIDE DEF h, m, l, g
<1>8. n = (h * Radix + m) * Radix + l
  BY <1>5, <1>6, <1>7
<1>9. QED
  BY <1>4, <1>8 DEF h, m, l

-----------------------------------------------------------------------------
(* How the code lies in the array.                                         *)

(* The operations the compiler writes, and what a byte of the code is.     *)
Operations ==
  {"Pop", "Push_Nil", "Push_Literal", "Read_Global", "Define_Global", "Call_Method", "Loop",
   "Push_Literal_Long", "Push_Closure", "Push_Closure_Long"} \cup Jumps

Cells       == [op : Operations \cup {"Operand", "Return"}, byte : 0..Radix-1]
Descriptors == [at : Nat, op : Operations, operands : Seq(Nat), to : Int, line : Nat]

Typed ==
  /\ instructions \in Seq(Cells) /\ lines \in Seq(Nat) /\ Len(lines) = Count
  /\ values \in Seq(Nat) /\ source_code \in Seq(Nat)
  /\ statement \in -1..Count
  /\ status \in {"compiling", "rejected", "running", "ended", "misread"}
  /\ emitted \in Seq(Descriptors)

(* How many bytes an instruction takes, and where the next one starts.     *)
OneOperand == {"Push_Literal", "Read_Global", "Define_Global"}
Longs      == {"Push_Literal_Long", "Push_Closure_Long"}

Size(e) ==
  CASE e.op \in OneOperand -> 2
    [] e.op \in {"Call_Method", "Loop"} \cup Jumps -> 3
    [] e.op \in Longs -> 4
    [] e.op = "Push_Closure" -> 1 + Len(e.operands)
    [] OTHER -> 1

End(e) == e.at + Size(e)

(* The code ends with the last instruction, or with the Return after it.   *)
Finished == status \in {"running", "ended", "misread"}
BodyEnd  == IF Finished THEN Count - 1 ELSE Count
Start(i) == IF i <= Len(emitted) THEN emitted[i].at ELSE BodyEnd

EndToEnd ==
  /\ BodyEnd >= 0 /\ Start(1) = 0
  /\ \A i \in DOMAIN emitted : Start(i + 1) = End(emitted[i])
  /\ \A i \in DOMAIN emitted : End(emitted[i]) <= BodyEnd
  /\ \A i, j \in DOMAIN emitted : i < j => End(emitted[i]) <= emitted[j].at
  /\ Finished => Cell(Count - 1).op = "Return" /\ unpatched = {}

(* What the operands of an instruction are.                                *)
Captured(e) == Len(e.operands) - 1

WellFormed(e) ==
  /\ e.op \in OneOperand \cup {"Push_Literal_Long"} => Len(e.operands) = 1
  /\ e.op = "Push_Literal" => e.operands[1] < Radix
  /\ e.op = "Call_Method" => Len(e.operands) = 2 /\ e.operands[2] < Radix
  /\ e.op = "Push_Closure" => \A k \in DOMAIN e.operands : e.operands[k] < Radix
  /\ e.op \in {"Push_Closure", "Push_Closure_Long"} =>
       /\ Len(e.operands) >= 1 /\ e.operands[1] < Len(values)
       /\ Captured(e) = 2 * values[e.operands[1] + 1]
  /\ e.op \in Jumps \cup {"Loop", "Pop", "Push_Nil"} => e.operands = <<>>
  /\ e.op \in Jumps => e.to = -1 \/ e.to >= e.at + 3
  /\ e.op = "Loop" => e.to \in 0..e.at

(* The bytes after the opcode.                                             *)
TwoBytes(n)   == <<n \div Radix, n % Radix>>
ThreeBytes(n) == <<n \div (Radix * Radix), (n \div Radix) % Radix, n % Radix>>

OperandBytes(e) ==
  CASE e.op \in Longs -> ThreeBytes(e.operands[1])
    [] e.op \in Jumps -> TwoBytes(e.to - e.at - 3)
    [] e.op = "Loop"  -> TwoBytes(e.at + 3 - e.to)
    [] OTHER -> e.operands

(* A forward jump whose target is not known yet.                           *)
Awaits(e) == e.op \in Jumps /\ e.to = -1

IsWritten(e) ==
  /\ Cell(e.at).op = e.op
  /\ \A k \in 1..Size(e)-1 : Cell(e.at + k).op = "Operand"
  /\ Fits(e) /\ ~Awaits(e) => \A k \in 1..Size(e)-1 : ReadByte(e.at + k) = OperandBytes(e)[k]
  /\ \A k \in e.at+1..End(e) : lines[k] = e.line

AllWritten == \A i \in DOMAIN emitted : WellFormed(emitted[i]) /\ IsWritten(emitted[i])

AwaitPatches ==
  /\ \A operand \in unpatched : \E i \in DOMAIN emitted : Awaits(emitted[i]) /\ emitted[i].at + 1 = operand
  /\ \A i \in DOMAIN emitted : Awaits(emitted[i]) => emitted[i].at + 1 \in unpatched

(* A jump leads to the start of an instruction, or to the end of the code. *)
Starts == {Start(i) : i \in 1..Len(emitted)+1}

LeadToStarts ==
  \A i \in DOMAIN emitted : emitted[i].op \in Jumps \cup {"Loop"} /\ emitted[i].to # -1 => emitted[i].to \in Starts

(* The interpreter is at such a place, as long as operands fit.            *)
AtAStart ==
  /\ status \in {"compiling", "rejected"} => ip = 0
  /\ AllFit => ip \in Starts /\ status # "misread"

Layout == Typed /\ EndToEnd /\ AllWritten /\ AwaitPatches /\ LeadToStarts

-----------------------------------------------------------------------------
(* What is written.                                                        *)

(* An opcode and an operand are cells of the array.                        *)
LEMMA OpcodeCell ==
  ASSUME NEW op \in Operations \cup {"Return"}
  PROVE  Opcode(op) \in Cells /\ Opcode(op).op = op /\ Opcode(op).byte = 0
  BY BytecodeAssumption DEF Opcode, Cells

(* An operand is a cell too, that of its lowest digit.                     *)
LEMMA ByteCell ==
  ASSUME NEW n \in Int
  PROVE  Byte(n) \in Cells /\ Byte(n).op = "Operand" /\ Byte(n).byte = n % Radix
  BY ByteRange DEF Byte, Cells

(* Every instruction takes a byte at least.                                *)
LEMMA SizeRange ==
  ASSUME NEW e \in Descriptors
  PROVE  Size(e) \in Nat /\ Size(e) >= 1 /\ End(e) = e.at + Size(e) /\ e.at \in Nat
<1>1. e.operands \in Seq(Nat) /\ e.at \in Nat
  BY DEF Descriptors
<1>2. Len(e.operands) \in Nat
  BY <1>1
<1>3. QED
  BY <1>1, <1>2 DEF Size, End

(* Past its end the array is read as the invalid opcode; within, as it is. *)
LEMMA CellsRead ==
  ASSUME Typed
  PROVE  /\ Count \in Nat
         /\ \A k \in 0..Count-1 : Cell(k) = instructions[k+1] /\ Cell(k) \in Cells
  BY DEF Typed, Count, Cell

(* What Insert leaves of the arrays, and what it adds to them.             *)
LEMMA InsertFacts ==
  ASSUME Typed, NEW bytes \in Seq(Cells), NEW e \in Descriptors, Insert(bytes, e)
  PROVE  /\ instructions' \in Seq(Cells) /\ Count' = Count + Len(bytes) /\ Count \in Nat
         /\ lines' \in Seq(Nat) /\ Len(lines') = Count'
         /\ emitted' \in Seq(Descriptors) /\ Len(emitted') = Len(emitted) + 1
         /\ \A k \in 0..Count-1 : Cell(k)' = Cell(k)
         /\ \A k \in Count..Count'-1 : Cell(k)' = bytes[k - Count + 1]
         /\ \A k \in 1..Count : lines'[k] = lines[k]
         /\ \A k \in Count+1..Count' : lines'[k] = Line
         /\ \A i \in 1..Len(emitted) : emitted'[i] = emitted[i]
         /\ emitted'[Len(emitted) + 1] = e
<1>1. /\ instructions' = instructions \o bytes
      /\ lines' = lines \o LinesOf(bytes)
      /\ emitted' = Append(emitted, e)
  BY DEF Insert
<1>2. /\ instructions \in Seq(Cells) /\ lines \in Seq(Nat) /\ Len(lines) = Len(instructions)
      /\ emitted \in Seq(Descriptors)
  BY DEF Typed, Count
<1>3. /\ instructions' \in Seq(Cells) /\ Len(instructions') = Len(instructions) + Len(bytes)
      /\ \A i \in 1..Len(instructions)+Len(bytes) :
           instructions'[i] = IF i <= Len(instructions) THEN instructions[i] ELSE bytes[i - Len(instructions)]
  BY <1>1, <1>2, ConcatProperties
<1>4. /\ LinesOf(bytes) \in Seq(Nat) /\ Len(LinesOf(bytes)) = Len(bytes)
      /\ \A i \in 1..Len(bytes) : LinesOf(bytes)[i] = Line
  <2>1. source_code \in Seq(Nat)
    BY DEF Typed
  <2>2. Line \in Nat
    BY <2>1 DEF Line
  <2>3. DOMAIN bytes = 1..Len(bytes) /\ Len(bytes) \in Nat
    OBVIOUS
  <2>4. QED
    BY <2>2, <2>3 DEF LinesOf
<1>5. /\ lines' \in Seq(Nat) /\ Len(lines') = Len(lines) + Len(LinesOf(bytes))
      /\ \A i \in 1..Len(lines)+Len(LinesOf(bytes)) :
           lines'[i] = IF i <= Len(lines) THEN lines[i] ELSE LinesOf(bytes)[i - Len(lines)]
  BY <1>1, <1>2, <1>4, ConcatProperties
<1>6. /\ emitted' \in Seq(Descriptors) /\ Len(emitted') = Len(emitted) + 1
      /\ \A i \in 1..Len(emitted) : emitted'[i] = emitted[i]
      /\ emitted'[Len(emitted) + 1] = e
  BY <1>1, <1>2, AppendProperties
<1>7. Len(instructions) \in Nat /\ Len(bytes) \in Nat
  BY <1>2
<1>8. /\ \A k \in 0..Count-1 : Cell(k)' = Cell(k)
      /\ \A k \in Count..Count'-1 : Cell(k)' = bytes[k - Count + 1]
  <2>1. ASSUME NEW k \in 0..Count-1 PROVE Cell(k)' = Cell(k)
    BY <1>3, <1>7 DEF Cell, Count
  <2>2. ASSUME NEW k \in Count..Count'-1 PROVE Cell(k)' = bytes[k - Count + 1]
    <3>1. /\ k \in Len(instructions)..Len(instructions)+Len(bytes)-1
          /\ Cell(k)' = instructions'[k+1]
      BY <1>3, <1>7 DEF Cell, Count
    <3>2. k + 1 \in 1..Len(instructions)+Len(bytes) /\ ~ k + 1 <= Len(instructions)
      BY <1>7, <3>1
    <3>3. k + 1 - Len(instructions) = k - Count + 1
      BY <1>7, <3>1 DEF Count
    <3>4. QED
      BY <1>3, <3>1, <3>2, <3>3
  <2>3. QED
    BY <2>1, <2>2
<1>9. /\ \A k \in 1..Count : lines'[k] = lines[k]
      /\ \A k \in Count+1..Count' : lines'[k] = Line
      /\ Len(lines') = Count' /\ Count' = Count + Len(bytes) /\ Count \in Nat
  <2>1. Count = Len(instructions) /\ Count' = Len(instructions) + Len(bytes)
    BY <1>3 DEF Count
  <2>2. ASSUME NEW k \in 1..Count PROVE lines'[k] = lines[k]
    BY <1>2, <1>4, <1>5, <1>7, <2>1
  <2>3. ASSUME NEW k \in Count+1..Count' PROVE lines'[k] = Line
    <3>1. k - Len(lines) \in 1..Len(bytes) /\ lines'[k] = LinesOf(bytes)[k - Len(lines)]
      BY <1>2, <1>4, <1>5, <1>7, <2>1
    <3>2. QED
      BY <1>4, <3>1
  <2>4. QED
    BY <1>2, <1>4, <1>5, <1>7, <2>1, <2>2, <2>3
<1>10. QED
  BY <1>3, <1>5, <1>6, <1>8, <1>9

(* The bytes of an instruction, and what is done to the constants while    *)
(* it is written.                                                          *)
Encodes(bytes, e) ==
  /\ bytes[1].op = e.op
  /\ \A k \in 1..Size(e)-1 : bytes[k+1].op = "Operand"
  /\ Fits(e) /\ ~Awaits(e) => \A k \in 1..Size(e)-1 : bytes[k+1].byte = OperandBytes(e)[k]

ValuesGrow ==
  /\ values' \in Seq(Nat) /\ Len(values') >= Len(values)
  /\ \A i \in 1..Len(values) : values'[i] = values[i]

(* An instruction stays written as long as its bytes and their lines stay. *)
LEMMA WrittenStays ==
  ASSUME NEW d \in Descriptors, IsWritten(d),
         \A k \in d.at..End(d)-1 : Cell(k)' = Cell(k),
         \A k \in d.at+1..End(d) : lines'[k] = lines[k]
  PROVE  IsWritten(d)'
<1>1. Size(d) \in Nat /\ Size(d) >= 1 /\ End(d) = d.at + Size(d) /\ d.at \in Nat
  BY SizeRange
<1>2. Cell(d.at)' = Cell(d.at)
  BY <1>1
<1>3. \A k \in 1..Size(d)-1 : Cell(d.at + k)' = Cell(d.at + k)
  BY <1>1
<1>4. QED
  BY <1>2, <1>3 DEF IsWritten, ReadByte

(* The operands of an instruction stay what they are as constants are      *)
(* added.                                                                  *)
LEMMA WellFormedStays ==
  ASSUME NEW d \in Descriptors, values \in Seq(Nat), ValuesGrow, WellFormed(d)
  PROVE  WellFormed(d)'
<1>1. d.operands \in Seq(Nat)
  BY DEF Descriptors
<1>2. Len(d.operands) >= 1 => d.operands[1] \in Nat
  BY <1>1
<1>3. Len(values) \in Nat /\ Len(values') \in Nat
  BY DEF ValuesGrow
<1>4. ASSUME d.op \in {"Push_Closure", "Push_Closure_Long"}
      PROVE  /\ Len(d.operands) >= 1 /\ d.operands[1] < Len(values')
             /\ Captured(d) = 2 * values'[d.operands[1] + 1]
  <2>1. /\ Len(d.operands) >= 1 /\ d.operands[1] < Len(values)
        /\ Captured(d) = 2 * values[d.operands[1] + 1]
    BY <1>4 DEF WellFormed
  <2>2. d.operands[1] + 1 \in 1..Len(values)
    BY <1>2, <1>3, <2>1
  <2>3. QED
    BY SMTT(30), <1>2, <1>3, <2>1, <2>2 DEF ValuesGrow
<1>5. QED
  BY <1>4 DEF WellFormed, Captured

(* An instruction written at the end of the code: its bytes encode it, and *)
(* it is one that a reader finds its way from.                             *)
Writing(bytes, e) ==
  /\ bytes \in Seq(Cells) /\ e \in Descriptors /\ Insert(bytes, e)
  /\ status = "compiling" /\ status' \in {"compiling", "rejected", "running"}
  /\ e.at = Count /\ e.line = Line /\ Encodes(bytes, e)
  /\ ValuesGrow /\ WellFormed(e)'
  /\ e.op \in Jumps \cup {"Loop"} /\ e.to # -1 => e.to \in Starts
  /\ unpatched' = IF Awaits(e) THEN unpatched \cup {e.at + 1} ELSE unpatched
  /\ Len(bytes) = Size(e) + (IF status' = "running" THEN 1 ELSE 0)
  /\ status' = "running" => bytes[Len(bytes)].op = "Return" /\ unpatched' = {}

(* It leaves a laid-out code, with the Return that ends it if there is one.*)
LEMMA WriteKeepsLayout ==
  ASSUME Layout, NEW bytes, NEW e, Writing(bytes, e)
  PROVE  Layout'
<1>1. Typed /\ EndToEnd /\ AllWritten /\ AwaitPatches /\ LeadToStarts
  BY DEF Layout
<1>w. /\ bytes \in Seq(Cells) /\ e \in Descriptors /\ Insert(bytes, e)
      /\ status = "compiling" /\ status' \in {"compiling", "rejected", "running"}
      /\ e.at = Count /\ e.line = Line
      /\ Encodes(bytes, e)
      /\ ValuesGrow /\ WellFormed(e)'
      /\ e.op \in Jumps \cup {"Loop"} /\ e.to # -1 => e.to \in Starts
      /\ unpatched' = IF Awaits(e) THEN unpatched \cup {e.at + 1} ELSE unpatched
      /\ Len(bytes) = Size(e) + (IF status' = "running" THEN 1 ELSE 0)
      /\ status' = "running" => bytes[Len(bytes)].op = "Return" /\ unpatched' = {}
  BY DEF Writing
<1> USE <1>w
<1>n. PICK n \in Nat : n = Len(emitted)
  BY <1>1 DEF Typed
<1>2. /\ instructions' \in Seq(Cells) /\ Count' = Count + Len(bytes) /\ Count \in Nat
      /\ lines' \in Seq(Nat) /\ Len(lines') = Count'
      /\ emitted' \in Seq(Descriptors) /\ Len(emitted') = n + 1
      /\ \A k \in 0..Count-1 : Cell(k)' = Cell(k)
      /\ \A k \in Count..Count'-1 : Cell(k)' = bytes[k - Count + 1]
      /\ \A k \in 1..Count : lines'[k] = lines[k]
      /\ \A k \in Count+1..Count' : lines'[k] = Line
      /\ \A i \in 1..n : emitted'[i] = emitted[i]
      /\ emitted'[n + 1] = e
  BY <1>1, <1>n, InsertFacts
<1>3. emitted \in Seq(Descriptors) /\ values \in Seq(Nat)
  BY <1>1 DEF Typed
<1>4. /\ DOMAIN emitted = 1..n /\ DOMAIN emitted' = 1..n+1
      /\ \A i \in 1..n : emitted[i] \in Descriptors
  BY <1>2, <1>3, <1>n
<1>5. /\ Size(e) \in Nat /\ Size(e) >= 1 /\ End(e) = Count + Size(e)
      /\ Len(bytes) \in Nat /\ Len(bytes) >= Size(e)
  <2>1. Size(e) \in Nat /\ Size(e) >= 1 /\ End(e) = Count + Size(e)
    BY SizeRange
  <2>2. QED
    BY <2>1
<1>c. Count' = Count + Len(bytes) /\ Count \in Nat
  BY <1>2
<1>6. ~Finished /\ BodyEnd = Count
  BY DEF Finished, BodyEnd
<1>e. /\ \A i \in 1..n : Start(i + 1) = End(emitted[i])
      /\ \A i \in 1..n : End(emitted[i]) <= Count
      /\ \A i, j \in 1..n : i < j => End(emitted[i]) <= emitted[j].at
  BY <1>1, <1>4, <1>6 DEF EndToEnd
<1>7. BodyEnd' = End(e) /\ BodyEnd' >= BodyEnd
  <2>1. CASE status' = "running"
    <3>1. BodyEnd' = Count' - 1
      BY <2>1 DEF BodyEnd, Finished
    <3>2. Len(bytes) = Size(e) + 1
      BY <2>1
    <3>3. QED
      BY <1>c, <1>5, <1>6, <3>1, <3>2
  <2>2. CASE status' # "running"
    <3>1. BodyEnd' = Count'
      BY <2>2 DEF BodyEnd, Finished
    <3>2. Len(bytes) = Size(e)
      BY <1>5, <2>2
    <3>3. QED
      BY <1>c, <1>5, <1>6, <3>1, <3>2
  <2>3. QED
    BY <2>1, <2>2
<1>8. /\ \A i \in 1..n+1 : Start(i)' = Start(i)
      /\ Start(n+1) = Count /\ Start(n+2)' = End(e)
  <2>1. ASSUME NEW i \in 1..n PROVE Start(i)' = Start(i)
    <3>1. i <= Len(emitted) /\ i <= Len(emitted') /\ emitted'[i] = emitted[i]
      BY <1>2, <1>n
    <3>2. QED
      BY <3>1 DEF Start
  <2>2. Start(n+1)' = Count /\ Start(n+1) = Count
    <3>1. n + 1 <= Len(emitted') /\ ~ n + 1 <= Len(emitted)
      BY <1>2, <1>n
    <3>2. QED
      BY <1>2, <1>6, <3>1 DEF Start
  <2>3. Start(n+2)' = End(e)
    <3>1. ~ n + 2 <= Len(emitted')
      BY <1>2, <1>n
    <3>2. QED
      BY <1>7, <3>1 DEF Start
  <2>4. QED
    BY <2>1, <2>2, <2>3
<1>9. Typed'
  <2>1. /\ source_code \in Seq(Nat) /\ statement \in -1..Count
        /\ source_code' = source_code /\ statement' = statement
    BY <1>1 DEF Typed, Insert
  <2>2. statement' \in -1..Count'
    BY <1>2, <1>5, <2>1
  <2>3. status' \in {"compiling", "rejected", "running", "ended", "misread"}
    OBVIOUS
  <2>4. QED
    BY <1>2, <2>1, <2>2, <2>3 DEF Typed, ValuesGrow
<1>10. EndToEnd'
  <2>1. BodyEnd' >= 0 /\ Start(1)' = 0
    BY <1>1, <1>2, <1>5, <1>6, <1>7, <1>8 DEF EndToEnd
  <2>2. \A i \in 1..n+1 : Start(i + 1)' = End(emitted'[i])
    <3>1. ASSUME NEW i \in 1..n PROVE Start(i + 1)' = End(emitted'[i])
      <4>1. i + 1 \in 1..n+1 /\ Start(i + 1) = End(emitted[i]) /\ emitted'[i] = emitted[i]
        BY <1>2, <1>e
      <4>2. QED
        BY <1>8, <4>1
    <3>2. Start((n + 1) + 1)' = End(emitted'[n + 1])
      BY <1>2, <1>8
    <3>3. QED
      BY <3>1, <3>2
  <2>3. \A i \in 1..n : End(emitted[i]) <= Count /\ End(emitted[i]) \in Nat
    <3>1. ASSUME NEW i \in 1..n PROVE End(emitted[i]) \in Nat
      BY <1>4, SizeRange
    <3>2. QED
      BY <1>e, <3>1
  <2>4. \A i \in 1..n+1 : End(emitted'[i]) <= BodyEnd'
    <3>1. ASSUME NEW i \in 1..n PROVE End(emitted'[i]) <= BodyEnd'
      <4>1. End(emitted[i]) <= Count /\ End(emitted[i]) \in Nat /\ emitted'[i] = emitted[i]
        BY <1>2, <2>3
      <4>2. QED
        BY <1>c, <1>5, <1>7, <4>1
    <3>2. End(emitted'[n+1]) <= BodyEnd'
      <4>1. End(e) \in Int /\ End(e) <= BodyEnd'
        BY <1>c, <1>5, <1>7
      <4>2. QED
        BY <1>2, <4>1
    <3>3. QED
      BY <3>1, <3>2
  <2>5. \A i, j \in 1..n+1 : i < j => End(emitted'[i]) <= emitted'[j].at
    <3>1. ASSUME NEW i \in 1..n, NEW j \in 1..n, i < j PROVE End(emitted'[i]) <= emitted'[j].at
      BY <1>2, <1>e, <3>1
    <3>2. ASSUME NEW i \in 1..n PROVE End(emitted'[i]) <= emitted'[n+1].at
      BY <1>2, <2>3
    <3>3. QED
      BY <3>1, <3>2
  <2>6. Finished' => Cell(Count - 1)' .op = "Return" /\ unpatched' = {}
    <3>1. SUFFICES ASSUME status' = "running" PROVE Cell(Count - 1)' .op = "Return" /\ unpatched' = {}
      BY DEF Finished
    <3>2. Count' = Count + Len(bytes) /\ Len(bytes) \in Nat /\ Len(bytes) >= 1 /\ Count \in Nat
      BY <1>2, <1>5
    <3>3. PICK k \in Nat : k = Count' - 1 /\ k \in Count..Count'-1 /\ k - Count + 1 = Len(bytes)
      BY <3>2
    <3>4. Cell(k)' = bytes[Len(bytes)]
      BY <1>2, <3>3
    <3>5. Cell(k)' = Cell(Count - 1)'
      BY <3>3 DEF Cell
    <3>6. QED
      BY <3>1, <3>4, <3>5
  <2>7. QED
    BY <1>4, <2>1, <2>2, <2>4, <2>5, <2>6 DEF EndToEnd
<1>11. AllWritten'
  <2>0. Count \in Nat /\ Count <= Count'
    BY <1>2, <1>5
  <2>1. ASSUME NEW i \in 1..n PROVE (WellFormed(emitted[i]) /\ IsWritten(emitted[i]))'
    <3>1. PICK d \in Descriptors : d = emitted[i] /\ d = emitted'[i]
      BY <1>2, <1>4
    <3>2. WellFormed(d) /\ IsWritten(d) /\ End(d) <= Count
      BY <1>1, <1>4, <1>6, <3>1 DEF AllWritten, EndToEnd
    <3>3. IsWritten(d)'
      <4>1. Size(d) \in Nat /\ End(d) = d.at + Size(d) /\ d.at \in Nat
        BY SizeRange
      <4>2. \A k \in d.at..End(d)-1 : Cell(k)' = Cell(k)
        BY <1>2, <2>0, <3>2, <4>1
      <4>3. \A k \in d.at+1..End(d) : lines'[k] = lines[k]
        BY <1>2, <2>0, <3>2, <4>1
      <4>4. QED
        BY <3>2, <4>2, <4>3, WrittenStays
    <3>4. WellFormed(d)'
      BY <1>3, <3>2, WellFormedStays
    <3>5. QED
      BY <3>1, <3>3, <3>4
  <2>2. IsWritten(e)'
    <3>1. \A k \in 0..Size(e)-1 : Cell(e.at + k)' = bytes[k + 1]
      <4>1. ASSUME NEW k \in 0..Size(e)-1 PROVE Cell(e.at + k)' = bytes[k + 1]
        <5>1. e.at + k \in Count..Count'-1 /\ e.at + k - Count + 1 = k + 1
          BY SMTT(30), <1>2, <1>5
        <5>2. QED
          BY SMTT(30), <1>2, <5>1
      <4>2. QED
        BY <4>1
    <3>2. Cell(e.at)' = bytes[1]
      <4>1. 0 \in 0..Size(e)-1 /\ e.at + 0 = e.at /\ 0 + 1 = 1
        BY <1>2, <1>5
      <4>2. QED
        BY <3>1, <4>1
    <3>3. \A k \in 1..Size(e)-1 : Cell(e.at + k)' = bytes[k + 1]
      BY <1>5, <3>1
    <3>4. \A k \in e.at+1..End(e) : lines'[k] = e.line
      BY <1>2, <1>5
    <3>5. QED
      BY <3>2, <3>3, <3>4 DEF IsWritten, Encodes, ReadByte
  <2>3. (WellFormed(emitted[n+1]) /\ IsWritten(emitted[n+1]))'
    BY <1>2, <2>2
  <2>4. QED
    BY <1>4, <2>1, <2>3 DEF AllWritten
<1>12. AwaitPatches'
  <2>1. ASSUME NEW operand \in unpatched'
        PROVE  \E i \in 1..n+1 : Awaits(emitted'[i]) /\ emitted'[i].at + 1 = operand
    <3>1. CASE operand \in unpatched
      <4>1. PICK i \in 1..n : Awaits(emitted[i]) /\ emitted[i].at + 1 = operand
        BY <1>1, <1>4, <3>1 DEF AwaitPatches
      <4>2. i \in 1..n+1 /\ emitted'[i] = emitted[i]
        BY <1>2
      <4>3. QED
        BY <4>1, <4>2
    <3>2. CASE operand \notin unpatched
      <4>1. Awaits(e) /\ operand = e.at + 1
        BY <2>1, <3>2
      <4>2. QED
        BY <1>2, <4>1
    <3>3. QED
      BY <3>1, <3>2
  <2>2. ASSUME NEW i \in 1..n+1, Awaits(emitted'[i]) PROVE emitted'[i].at + 1 \in unpatched'
    <3>1. CASE i \in 1..n
      BY <1>1, <1>2, <1>4, <2>2, <3>1 DEF AwaitPatches
    <3>2. CASE i = n + 1
      BY <1>2, <2>2, <3>2
    <3>3. QED
      BY <3>1, <3>2
  <2>3. QED
    BY <1>4, <2>1, <2>2 DEF AwaitPatches, Awaits
<1>13. LeadToStarts'
  <2>1. Starts \subseteq Starts'
    <3>1. ASSUME NEW i \in 1..Len(emitted)+1 PROVE \E j \in 1..Len(emitted')+1 : Start(i) = Start(j)'
      BY <1>2, <1>8, <1>n
    <3>2. QED
      BY <3>1 DEF Starts
  <2>2. ASSUME NEW i \in 1..n+1, emitted'[i].op \in Jumps \cup {"Loop"}, emitted'[i].to # -1
        PROVE  emitted'[i].to \in Starts
    <3>1. CASE i \in 1..n
      BY <1>1, <1>2, <1>4, <2>2, <3>1 DEF LeadToStarts
    <3>2. CASE i = n + 1
      BY <1>2, <2>2, <3>2
    <3>3. QED
      BY <3>1, <3>2
  <2>3. QED
    BY <1>4, <2>1, <2>2 DEF LeadToStarts
<1>14. QED
  BY <1>9, <1>10, <1>11, <1>12, <1>13 DEF Layout

-----------------------------------------------------------------------------
(* The instructions the compiler writes.                                   *)

(* Where an instruction is written, and for which line.                    *)
LEMMA PlaceRange ==
  ASSUME Layout
  PROVE  Count \in Nat /\ Line \in Nat
  BY CellsRead DEF Layout, Typed, Line

(* A constant more leaves the others where they are.                       *)
LEMMA NewConstant ==
  ASSUME Layout, NEW v \in Nat, values' = Append(values, v)
  PROVE  /\ NewIndex \in Nat /\ ValuesGrow /\ NewIndex < Len(values')
         /\ values'[NewIndex + 1] = v
<1>1. values \in Seq(Nat)
  BY DEF Layout, Typed
<1>2. /\ values' \in Seq(Nat) /\ Len(values') = Len(values) + 1
      /\ \A i \in 1..Len(values) : values'[i] = values[i]
      /\ values'[Len(values) + 1] = v
  BY <1>1, AppendProperties
<1>3. Len(values) \in Nat
  BY <1>1
<1>4. QED
  BY <1>2, <1>3 DEF ValuesGrow, NewIndex

(* Constants that are left alone have grown by none.                       *)
LEMMA SameConstants ==
  ASSUME Layout, values' = values
  PROVE  ValuesGrow
  BY DEF Layout, Typed, ValuesGrow

(* An opcode and two bytes.                                                *)
LEMMA ThreeBytesJoined ==
  ASSUME NEW a, NEW b, NEW c
  PROVE  <<a>> \o <<b, c>> = <<a, b, c>>
<1> DEFINE s == <<a>>  t == <<b, c>>  u == <<a, b, c>>  S == {a, b, c}
<1>1. s \in Seq(S) /\ t \in Seq(S) /\ u \in Seq(S)
  OBVIOUS
<1>2. Len(s) = 1 /\ Len(t) = 2 /\ Len(u) = 3
  OBVIOUS
<1>3. /\ s[1] = a /\ t[1] = b /\ t[2] = c
      /\ u[1] = a /\ u[2] = b /\ u[3] = c
  OBVIOUS
<1> HIDE DEF s, t, u, S
<1>4. /\ s \o t \in Seq(S) /\ Len(s \o t) = 3
      /\ \A i \in 1..3 : (s \o t)[i] = IF i <= 1 THEN s[i] ELSE t[i - 1]
  <2>1. /\ s \o t \in Seq(S) /\ Len(s \o t) = Len(s) + Len(t)
        /\ \A i \in 1..Len(s)+Len(t) : (s \o t)[i] = IF i <= Len(s) THEN s[i] ELSE t[i - Len(s)]
    BY <1>1, ConcatProperties
  <2>2. QED
    BY <1>2, <2>1
<1>5. ASSUME NEW i \in 1..3 PROVE (s \o t)[i] = u[i]
  <2>1. i = 1 \/ i = 2 \/ i = 3
    OBVIOUS
  <2>2. QED
    BY <1>3, <1>4, <2>1
<1>6. s \o t = u
  BY <1>1, <1>2, <1>4, <1>5, SeqEqual
<1>7. QED
  BY <1>6 DEF s, t, u

(* An opcode and three bytes.                                              *)
LEMMA FourBytesJoined ==
  ASSUME NEW a, NEW b, NEW c, NEW d
  PROVE  <<a>> \o <<b, c, d>> = <<a, b, c, d>>
<1> DEFINE s == <<a>>  t == <<b, c, d>>  u == <<a, b, c, d>>  S == {a, b, c, d}
<1>1. s \in Seq(S) /\ t \in Seq(S) /\ u \in Seq(S)
  OBVIOUS
<1>2. Len(s) = 1 /\ Len(t) = 3 /\ Len(u) = 4
  OBVIOUS
<1>3. /\ s[1] = a /\ t[1] = b /\ t[2] = c /\ t[3] = d
      /\ u[1] = a /\ u[2] = b /\ u[3] = c /\ u[4] = d
  OBVIOUS
<1> HIDE DEF s, t, u, S
<1>4. /\ s \o t \in Seq(S) /\ Len(s \o t) = 4
      /\ \A i \in 1..4 : (s \o t)[i] = IF i <= 1 THEN s[i] ELSE t[i - 1]
  <2>1. /\ s \o t \in Seq(S) /\ Len(s \o t) = Len(s) + Len(t)
        /\ \A i \in 1..Len(s)+Len(t) : (s \o t)[i] = IF i <= Len(s) THEN s[i] ELSE t[i - Len(s)]
    BY <1>1, ConcatProperties
  <2>2. QED
    BY <1>2, <2>1
<1>5. ASSUME NEW i \in 1..4 PROVE (s \o t)[i] = u[i]
  <2>1. i = 1 \/ i = 2 \/ i = 3 \/ i = 4
    OBVIOUS
  <2>2. QED
    BY <1>3, <1>4, <2>1
<1>6. s \o t = u
  BY <1>1, <1>2, <1>4, <1>5, SeqEqual
<1>7. QED
  BY <1>6 DEF s, t, u

(* An instruction of one byte.                                             *)
LEMMA OneByteEncodes ==
  ASSUME NEW op \in {"Pop", "Push_Nil"}, NEW e, e.op = op
  PROVE  /\ <<Opcode(op)>> \in Seq(Cells) /\ Len(<<Opcode(op)>>) = 1
         /\ Size(e) = 1 /\ ~Awaits(e) /\ Encodes(<<Opcode(op)>>, e)
<1>1. Opcode(op) \in Cells /\ Opcode(op).op = op
  BY OpcodeCell DEF Operations
<1>2. Size(e) = 1 /\ ~Awaits(e)
  BY DEF Size, OneOperand, Longs, Jumps, Awaits
<1>3. QED
  BY <1>1, <1>2 DEF Encodes

(* One with an index of one byte, as long as the byte that is written is   *)
(* the index whenever the index fits.                                      *)
LEMMA OneOperandEncodes ==
  ASSUME NEW op \in OneOperand, NEW n \in Nat, NEW b \in Int,
         n < Radix => b = n, op = "Push_Literal" => n < Radix,
         NEW e, e.op = op, e.operands = <<n>>
  PROVE  /\ <<Opcode(op), Byte(b)>> \in Seq(Cells) /\ Len(<<Opcode(op), Byte(b)>>) = 2
         /\ Size(e) = 2 /\ ~Awaits(e) /\ Encodes(<<Opcode(op), Byte(b)>>, e)
<1> DEFINE bytes == <<Opcode(op), Byte(b)>>
<1>1. Opcode(op) \in Cells /\ Opcode(op).op = op
  BY OpcodeCell DEF Operations, OneOperand
<1>2. Byte(b) \in Cells /\ Byte(b).op = "Operand" /\ Byte(b).byte = b % Radix
  BY ByteCell
<1>3. Size(e) = 2 /\ ~Awaits(e) /\ OperandBytes(e) = <<n>>
  BY DEF Size, OneOperand, Jumps, Awaits, OperandBytes, Longs
<1>4. /\ bytes \in Seq(Cells) /\ Len(bytes) = 2
      /\ bytes[1] = Opcode(op) /\ bytes[2] = Byte(b)
  BY <1>1, <1>2
<1>5. ASSUME Fits(e) PROVE Byte(b).byte = n
  <2>1. n < Radix
    <3>1. e.operands[1] = n
      OBVIOUS
    <3>2. CASE op = "Push_Literal"
      BY <3>2
    <3>3. CASE op \in Named
      BY <1>5, <3>1, <3>3 DEF Fits, Named, Jumps
    <3>4. QED
      BY <3>2, <3>3 DEF OneOperand, Named
  <2>2. b \in 0..Radix-1 /\ b = n
    BY <2>1, BytecodeAssumption
  <2>3. QED
    BY <1>2, <2>2, ByteHolds
<1> HIDE DEF bytes
<1>6. Encodes(bytes, e)
  BY <1>1, <1>2, <1>3, <1>4, <1>5 DEF Encodes
<1>7. QED
  BY <1>3, <1>4, <1>6 DEF bytes

(* One with an index of three bytes.                                       *)
LEMMA LongEncodes ==
  ASSUME NEW op \in Longs, NEW n \in Nat,
         NEW e, e.op = op, e.operands[1] = n
  PROVE  /\ <<Opcode(op)>> \o LongIndex(n) \in Seq(Cells) /\ Len(<<Opcode(op)>> \o LongIndex(n)) = 4
         /\ Size(e) = 4 /\ ~Awaits(e) /\ Encodes(<<Opcode(op)>> \o LongIndex(n), e)
<1> DEFINE bytes == <<Opcode(op)>> \o LongIndex(n)
           h == n \div (Radix * Radix)
           m == n \div Radix
<1>1. Opcode(op) \in Cells /\ Opcode(op).op = op
  BY OpcodeCell DEF Operations, Longs
<1>2. Radix \in Nat /\ Radix > 0 /\ Radix * Radix \in Nat /\ Radix * Radix > 0
  BY BytecodeAssumption
<1>3. h \in Int /\ m \in Int
  BY <1>2, Division
<1>4. /\ Byte(h) \in Cells /\ Byte(h).op = "Operand" /\ Byte(h).byte = h % Radix
      /\ Byte(m) \in Cells /\ Byte(m).op = "Operand" /\ Byte(m).byte = m % Radix
      /\ Byte(n) \in Cells /\ Byte(n).op = "Operand" /\ Byte(n).byte = n % Radix
  BY <1>3, ByteCell
<1>5. bytes = <<Opcode(op), Byte(h), Byte(m), Byte(n)>>
  BY FourBytesJoined DEF LongIndex
<1>6. Size(e) = 4 /\ ~Awaits(e) /\ OperandBytes(e) = <<h, m % Radix, n % Radix>>
  BY DEF Size, OneOperand, Jumps, Awaits, OperandBytes, Longs, ThreeBytes
<1> HIDE DEF bytes, h, m
<1>7. /\ bytes \in Seq(Cells) /\ Len(bytes) = 4
      /\ bytes[1] = Opcode(op) /\ bytes[2] = Byte(h) /\ bytes[3] = Byte(m) /\ bytes[4] = Byte(n)
  BY <1>1, <1>4, <1>5
<1>8. ASSUME Fits(e) PROVE Byte(h).byte = h
  <2>1. n < Radix * Radix * Radix
    <3>1. CASE op = "Push_Literal_Long"
      BY <1>8, <3>1 DEF Fits, Named, Jumps
    <3>2. CASE op = "Push_Closure_Long"
      BY <1>8, <3>2 DEF Fits, Named, Jumps
    <3>3. QED
      BY <3>1, <3>2 DEF Longs
  <2>2. h \in 0..Radix-1
    BY <2>1, ThreeBytesHold DEF h
  <2>3. QED
    BY <1>4, <2>2, ByteHolds
<1>9. Encodes(bytes, e)
  <2>1. \A k \in 1..Size(e)-1 : k = 1 \/ k = 2 \/ k = 3
    BY <1>6
  <2>2. \A k \in 1..Size(e)-1 : bytes[k+1].op = "Operand"
    BY <1>4, <1>7, <2>1
  <2>3. ASSUME Fits(e) PROVE \A k \in 1..Size(e)-1 : bytes[k+1].byte = OperandBytes(e)[k]
    BY <1>4, <1>6, <1>7, <1>8, <2>1, <2>3
  <2>4. QED
    BY <1>1, <1>7, <2>2, <2>3 DEF Encodes
<1>10. QED
  BY <1>6, <1>7, <1>9 DEF bytes

(* A closure with its outsiders.                                           *)
OutsiderBytes(outsiders) == [i \in DOMAIN outsiders |-> Byte(outsiders[i])]

(* The bytes of a closure: its index and where each captured variable is.  *)
LEMMA ClosureEncodes ==
  ASSUME NEW n \in 0..Radix-1, NEW outsiders \in Seq(0..Radix-1),
         NEW e, e.op = "Push_Closure", e.operands = <<n>> \o outsiders,
         NEW bytes, bytes = <<Opcode("Push_Closure"), Byte(n)>> \o OutsiderBytes(outsiders)
  PROVE  /\ bytes \in Seq(Cells) /\ Len(bytes) = Size(e) /\ ~Awaits(e) /\ Encodes(bytes, e)
         /\ \A k \in DOMAIN e.operands : e.operands[k] < Radix
<1> DEFINE head == <<Opcode("Push_Closure"), Byte(n)>>
           tail == OutsiderBytes(outsiders)
           m    == Len(outsiders)
<1>1. Opcode("Push_Closure") \in Cells /\ Opcode("Push_Closure").op = "Push_Closure"
  BY OpcodeCell DEF Operations
<1>2. /\ n \in Int /\ n % Radix = n
      /\ m \in Nat /\ DOMAIN outsiders = 1..m
      /\ \A i \in 1..m : outsiders[i] \in 0..Radix-1 /\ outsiders[i] % Radix = outsiders[i]
  <2>1. n \in Int /\ n % Radix = n
    BY ByteHolds, BytecodeAssumption
  <2>2. m \in Nat /\ DOMAIN outsiders = 1..m /\ \A i \in 1..m : outsiders[i] \in 0..Radix-1
    BY LenProperties, ElementOfSeq
  <2> HIDE DEF m
  <2>3. ASSUME NEW i \in 1..m PROVE outsiders[i] % Radix = outsiders[i]
    BY <2>2, ByteHolds
  <2>4. QED
    BY <2>1, <2>2, <2>3
<1>3. Byte(n) \in Cells /\ Byte(n).op = "Operand" /\ Byte(n).byte = n
  BY <1>2, ByteCell
<1>4. \A i \in 1..m : /\ Byte(outsiders[i]) \in Cells
                      /\ Byte(outsiders[i]).op = "Operand" /\ Byte(outsiders[i]).byte = outsiders[i]
  <2>1. ASSUME NEW i \in 1..m
        PROVE  /\ Byte(outsiders[i]) \in Cells
               /\ Byte(outsiders[i]).op = "Operand" /\ Byte(outsiders[i]).byte = outsiders[i]
    <3>1. outsiders[i] \in Int /\ outsiders[i] % Radix = outsiders[i]
      BY <1>2, BytecodeAssumption
    <3>2. QED
      BY <3>1, ByteCell
  <2>2. QED
    BY <2>1
<1> HIDE DEF m
<1>5. head \in Seq(Cells) /\ Len(head) = 2 /\ head[1] = Opcode("Push_Closure") /\ head[2] = Byte(n)
  BY <1>1, <1>3
<1>6. tail \in Seq(Cells) /\ Len(tail) = m /\ \A i \in 1..m : tail[i] = Byte(outsiders[i])
  BY <1>2, <1>4 DEF OutsiderBytes
<1> HIDE DEF head, tail
<1>7. /\ bytes \in Seq(Cells) /\ Len(bytes) = 2 + m
      /\ \A k \in 1..2+m : bytes[k] = IF k <= 2 THEN head[k] ELSE tail[k - 2]
  <2>1. /\ bytes \in Seq(Cells) /\ Len(bytes) = Len(head) + Len(tail)
        /\ \A k \in 1..Len(head)+Len(tail) : bytes[k] = IF k <= Len(head) THEN head[k] ELSE tail[k - Len(head)]
    BY <1>5, <1>6, ConcatProperties DEF head, tail
  <2>2. QED
    BY <1>5, <1>6, <2>1
<1>8. /\ e.operands \in Seq(0..Radix-1) /\ Len(e.operands) = 1 + m
      /\ e.operands[1] = n /\ \A k \in 2..1+m : e.operands[k] = outsiders[k - 1]
  <2> DEFINE one == <<n>>
  <2>1. one \in Seq(0..Radix-1) /\ Len(one) = 1 /\ one[1] = n
    OBVIOUS
  <2> HIDE DEF one
  <2>2. /\ e.operands \in Seq(0..Radix-1) /\ Len(e.operands) = Len(one) + Len(outsiders)
        /\ \A k \in 1..Len(one)+Len(outsiders) :
             e.operands[k] = IF k <= Len(one) THEN one[k] ELSE outsiders[k - Len(one)]
    BY <2>1, ConcatProperties DEF one
  <2>3. QED
    BY <1>2, <2>1, <2>2 DEF m
<1>9. Size(e) = 2 + m /\ ~Awaits(e) /\ OperandBytes(e) = e.operands
  BY <1>2, <1>8 DEF Size, OneOperand, Longs, Jumps, Awaits, OperandBytes
<1>10. Encodes(bytes, e)
  <2>1. bytes[1].op = e.op
    BY <1>1, <1>2, <1>5, <1>7
  <2>2. ASSUME NEW k \in 1..1+m PROVE bytes[k+1].op = "Operand" /\ bytes[k+1].byte = e.operands[k]
    <3>1. CASE k = 1
      BY <1>2, <1>3, <1>5, <1>7, <1>8, <3>1
    <3>2. CASE k # 1
      <4>1. k - 1 \in 1..m /\ k + 1 \in 1..2+m /\ ~ k + 1 <= 2 /\ k + 1 - 2 = k - 1 /\ k \in 2..1+m
        BY <1>2, <3>2
      <4>2. bytes[k+1] = Byte(outsiders[k - 1]) /\ e.operands[k] = outsiders[k - 1]
        BY <1>6, <1>7, <1>8, <4>1
      <4>3. QED
        BY <1>4, <4>1, <4>2
    <3>3. QED
      BY <3>1, <3>2
  <2>3. Size(e) - 1 = 1 + m
    BY <1>2, <1>9
  <2>4. QED
    BY <1>9, <2>1, <2>2, <2>3 DEF Encodes
<1>11. \A k \in DOMAIN e.operands : e.operands[k] < Radix
  <2>1. \A k \in 1..1+m : e.operands[k] \in 0..Radix-1
    BY <1>2, <1>8
  <2>2. QED
    BY <1>8, <2>1, BytecodeAssumption
<1>12. QED
  BY <1>7, <1>9, <1>10, <1>11

(* A jump, with two operands that are patched or known.                    *)
LEMMA JumpEncodes ==
  ASSUME NEW op \in Jumps \cup {"Loop"}, NEW h \in Int, NEW l \in Int,
         NEW e, e.op = op, ~Awaits(e) => op = "Loop",
         Fits(e) /\ op = "Loop" => <<h % Radix, l % Radix>> = OperandBytes(e)
  PROVE  /\ <<Opcode(op), Byte(h), Byte(l)>> \in Seq(Cells) /\ Len(<<Opcode(op), Byte(h), Byte(l)>>) = 3
         /\ Size(e) = 3 /\ Encodes(<<Opcode(op), Byte(h), Byte(l)>>, e)
<1> DEFINE bytes == <<Opcode(op), Byte(h), Byte(l)>>
<1>1. Opcode(op) \in Cells /\ Opcode(op).op = op
  BY OpcodeCell DEF Operations, Jumps
<1>2. /\ Byte(h) \in Cells /\ Byte(h).op = "Operand" /\ Byte(h).byte = h % Radix
      /\ Byte(l) \in Cells /\ Byte(l).op = "Operand" /\ Byte(l).byte = l % Radix
  BY ByteCell
<1>3. Size(e) = 3
  <2>1. op \notin OneOperand /\ op \notin Longs /\ op # "Push_Closure"
    BY DEF OneOperand, Longs, Jumps
  <2>2. op \in {"Call_Method", "Loop"} \cup Jumps
    OBVIOUS
  <2>3. QED
    BY <2>1, <2>2 DEF Size
<1>4. /\ bytes \in Seq(Cells) /\ Len(bytes) = 3
      /\ bytes[1] = Opcode(op) /\ bytes[2] = Byte(h) /\ bytes[3] = Byte(l)
  BY <1>1, <1>2
<1> HIDE DEF bytes
<1>5. \A k \in 1..Size(e)-1 : k = 1 \/ k = 2
  BY <1>3
<1>6. Fits(e) /\ ~Awaits(e) => OperandBytes(e)[1] = h % Radix /\ OperandBytes(e)[2] = l % Radix
  <2>1. SUFFICES ASSUME Fits(e), ~Awaits(e)
                 PROVE  OperandBytes(e)[1] = h % Radix /\ OperandBytes(e)[2] = l % Radix
    OBVIOUS
  <2>2. OperandBytes(e) = <<h % Radix, l % Radix>>
    BY <2>1
  <2>3. QED
    BY <2>2
<1>7. Encodes(bytes, e)
  BY <1>1, <1>2, <1>4, <1>5, <1>6 DEF Encodes
<1>8. QED
  BY <1>3, <1>4, <1>7 DEF bytes

(* Every step that writes an instruction writes one at the end of the      *)
(* code; EndOfFunction writes the Return as well.                          *)
LEMMA InstructionWrites ==
  ASSUME Layout, Instruction("Pop")
  PROVE  \E bytes, e : Writing(bytes, e)
<1>1. PICK e : e = Emitted("Pop", <<>>, -1)
  OBVIOUS
<1>2. PICK bytes : bytes = <<Opcode("Pop")>>
  OBVIOUS
<1>3. /\ Insert(bytes, e) /\ status = "compiling" /\ status' = "compiling"
      /\ values' = values /\ unpatched' = unpatched
  BY <1>1, <1>2 DEF Instruction, Writes
<1>4. /\ e \in Descriptors /\ e.at = Count /\ e.line = Line
      /\ e.op = "Pop" /\ e.operands = <<>> /\ e.to = -1
  BY <1>1, PlaceRange DEF Emitted, Descriptors, Operations
<1>5. bytes \in Seq(Cells) /\ Len(bytes) = 1 /\ Size(e) = 1 /\ ~Awaits(e) /\ Encodes(bytes, e)
  BY <1>2, <1>4, OneByteEncodes
<1>6. ValuesGrow /\ WellFormed(e)'
  BY <1>3, <1>4, SameConstants DEF WellFormed, OneOperand, Jumps
<1>7. Writing(bytes, e)
  BY <1>3, <1>4, <1>5, <1>6 DEF Writing
<1>8. QED
  BY <1>7

(* A constant takes the long form from the radix on.                       *)
LEMMA ConstantWrites ==
  ASSUME Layout, Constant
  PROVE  \E bytes, e : Writing(bytes, e)
<1>1. PICK n \in Nat : n = NewIndex
  BY DEF Layout, Typed, NewIndex
<1>2. values' = Append(values, 0) /\ status = "compiling" /\ status' = "compiling" /\ unpatched' = unpatched
  BY DEF Constant, Writes
<1>3. ValuesGrow
  BY <1>2, NewConstant
<1>4. CASE n < Radix
  <2>1. PICK e : e = Emitted("Push_Literal", <<n>>, -1)
    OBVIOUS
  <2>2. PICK bytes : bytes = <<Opcode("Push_Literal"), Byte(n)>>
    OBVIOUS
  <2>3. Insert(bytes, e)
    BY <1>1, <1>4, <2>1, <2>2 DEF Constant
  <2>4. /\ e \in Descriptors /\ e.at = Count /\ e.line = Line
        /\ e.op = "Push_Literal" /\ e.operands = <<n>> /\ e.to = -1
    BY <2>1, PlaceRange DEF Emitted, Descriptors, Operations
  <2>5. bytes \in Seq(Cells) /\ Len(bytes) = 2 /\ Size(e) = 2 /\ ~Awaits(e) /\ Encodes(bytes, e)
    BY <1>4, <2>2, <2>4, OneOperandEncodes DEF OneOperand
  <2>6. WellFormed(e)'
    BY <1>4, <2>4 DEF WellFormed, OneOperand, Jumps
  <2>7. Writing(bytes, e)
    BY <1>2, <1>3, <2>3, <2>4, <2>5, <2>6 DEF Writing
  <2>8. QED
    BY <2>7
<1>5. CASE ~ n < Radix
  <2>1. PICK e : e = Emitted("Push_Literal_Long", <<n>>, -1)
    OBVIOUS
  <2>2. PICK bytes : bytes = <<Opcode("Push_Literal_Long")>> \o LongIndex(n)
    OBVIOUS
  <2>3. Insert(bytes, e)
    BY <1>1, <1>5, <2>1, <2>2 DEF Constant
  <2>4. /\ e \in Descriptors /\ e.at = Count /\ e.line = Line
        /\ e.op = "Push_Literal_Long" /\ e.operands = <<n>> /\ e.to = -1
    BY <2>1, PlaceRange DEF Emitted, Descriptors, Operations
  <2>5. bytes \in Seq(Cells) /\ Len(bytes) = 4 /\ Size(e) = 4 /\ ~Awaits(e) /\ Encodes(bytes, e)
    BY <2>2, <2>4, LongEncodes DEF Longs
  <2>6. WellFormed(e)'
    BY <2>4 DEF WellFormed, OneOperand, Jumps
  <2>7. Writing(bytes, e)
    BY <1>2, <1>3, <2>3, <2>4, <2>5, <2>6 DEF Writing
  <2>8. QED
    BY <2>7
<1>6. QED
  BY <1>4, <1>5

(* A closure takes the long form from the radix on, without its outsiders; *)
(* then it does not fit unless it has none.                                *)
LEMMA ClosureWrites ==
  ASSUME Layout, NEW outsiders \in {<<>>, <<1, 0>>}, Closure(outsiders)
  PROVE  \E bytes, e : Writing(bytes, e)
<1>1. PICK n \in Nat : n = NewIndex
  BY DEF Layout, Typed, NewIndex
<1>2. status = "compiling" /\ status' = "compiling" /\ unpatched' = unpatched
  BY DEF Closure, Writes
<1>3. /\ Len(outsiders) \in Nat /\ Len(outsiders) = 2 * (Len(outsiders) \div 2)
      /\ Len(outsiders) \div 2 \in Nat
  <2>1. Len(<<>>) = 0 /\ Len(<<1, 0>>) = 2
    OBVIOUS
  <2>2. Len(outsiders) = 0 \/ Len(outsiders) = 2
    BY <2>1
  <2>3. 0 = 2 * (0 \div 2) /\ 0 \div 2 \in Nat /\ 2 = 2 * (2 \div 2) /\ 2 \div 2 \in Nat
    OBVIOUS
  <2>4. QED
    BY <2>2, <2>3
<1>4. /\ ValuesGrow /\ n < Len(values') /\ values'[n + 1] = Len(outsiders) \div 2
  BY <1>1, <1>3, NewConstant DEF Closure
<1>5. outsiders \in Seq(0..Radix-1) /\ outsiders \in Seq(Nat)
  <2>1. 0 \in 0..Radix-1 /\ 1 \in 0..Radix-1
    BY BytecodeAssumption
  <2>2. outsiders = <<>> => outsiders \in Seq(0..Radix-1) /\ outsiders \in Seq(Nat)
    OBVIOUS
  <2>3. <<1, 0>> \in Seq(0..Radix-1) /\ <<1, 0>> \in Seq(Nat)
    BY <2>1
  <2>4. QED
    BY <2>2, <2>3
<1>6. PICK operands : operands = <<n>> \o outsiders
  OBVIOUS
<1>7. operands \in Seq(Nat) /\ operands[1] = n /\ Len(operands) = 1 + Len(outsiders)
  <2> DEFINE one == <<n>>
  <2>1. one \in Seq(Nat) /\ Len(one) = 1 /\ one[1] = n
    OBVIOUS
  <2> HIDE DEF one
  <2>2. /\ operands \in Seq(Nat) /\ Len(operands) = Len(one) + Len(outsiders)
        /\ \A k \in 1..Len(one)+Len(outsiders) :
             operands[k] = IF k <= Len(one) THEN one[k] ELSE outsiders[k - Len(one)]
    BY <1>5, <1>6, <2>1, ConcatProperties DEF one
  <2>3. QED
    BY <1>3, <2>1, <2>2
<1>8. CASE n < Radix
  <2>1. PICK e : e = Emitted("Push_Closure", operands, -1)
    OBVIOUS
  <2>2. PICK bytes : bytes = <<Opcode("Push_Closure"), Byte(n)>> \o OutsiderBytes(outsiders)
    OBVIOUS
  <2>3. Insert(bytes, e)
    BY <1>1, <1>6, <1>8, <2>1, <2>2 DEF Closure, OutsiderBytes
  <2>4. /\ e \in Descriptors /\ e.at = Count /\ e.line = Line
        /\ e.op = "Push_Closure" /\ e.operands = operands /\ e.to = -1
    BY <1>7, <2>1, PlaceRange DEF Emitted, Descriptors, Operations
  <2>5. /\ bytes \in Seq(Cells) /\ Len(bytes) = Size(e) /\ ~Awaits(e) /\ Encodes(bytes, e)
        /\ \A k \in DOMAIN e.operands : e.operands[k] < Radix
    <3>1. n \in 0..Radix-1
      BY <1>8, BytecodeAssumption
    <3>2. QED
      BY <1>5, <1>6, <2>2, <2>4, <3>1, ClosureEncodes
  <2>6. WellFormed(e)'
    BY <1>3, <1>4, <1>7, <2>4, <2>5 DEF WellFormed, Captured, OneOperand, Jumps
  <2>7. Size(e) \in Nat
    BY <2>4, SizeRange
  <2>8. Writing(bytes, e)
    BY <1>2, <1>4, <2>3, <2>4, <2>5, <2>6, <2>7 DEF Writing
  <2>9. QED
    BY <2>8
<1>9. CASE ~ n < Radix
  <2>1. PICK e : e = Emitted("Push_Closure_Long", operands, -1)
    OBVIOUS
  <2>2. PICK bytes : bytes = <<Opcode("Push_Closure_Long")>> \o LongIndex(n)
    OBVIOUS
  <2>3. Insert(bytes, e)
    BY <1>1, <1>6, <1>9, <2>1, <2>2 DEF Closure
  <2>4. /\ e \in Descriptors /\ e.at = Count /\ e.line = Line
        /\ e.op = "Push_Closure_Long" /\ e.operands = operands /\ e.to = -1
    BY <1>7, <2>1, PlaceRange DEF Emitted, Descriptors, Operations
  <2>5. bytes \in Seq(Cells) /\ Len(bytes) = 4 /\ Size(e) = 4 /\ ~Awaits(e) /\ Encodes(bytes, e)
    BY <1>7, <2>2, <2>4, LongEncodes DEF Longs
  <2>6. WellFormed(e)'
    BY <1>3, <1>4, <1>7, <2>4 DEF WellFormed, Captured, OneOperand, Jumps
  <2>7. Writing(bytes, e)
    BY <1>2, <1>4, <2>3, <2>4, <2>5, <2>6 DEF Writing
  <2>8. QED
    BY <2>7
<1>10. QED
  BY <1>8, <1>9

(* The byte of an index that is cut to -1 is the index when that fits.     *)
LEMMA SavedIndexRange ==
  ASSUME NEW n \in Nat, n = NewIndex
  PROVE  SavedIndex \in Int /\ (n < Radix => SavedIndex = n)
  BY BytecodeAssumption DEF SavedIndex

(* The index of a global that is read is written unchecked.                *)
LEMMA GlobalWrites ==
  ASSUME Layout, Global
  PROVE  \E bytes, e : Writing(bytes, e)
<1>1. PICK n \in Nat : n = NewIndex
  BY DEF Layout, Typed, NewIndex
<1>2. /\ values' = Append(values, 0) /\ status = "compiling" /\ status' = "compiling"
      /\ unpatched' = unpatched
  BY DEF Global, Writes
<1>3. ValuesGrow
  BY <1>2, NewConstant
<1>4. PICK b \in Int : b = SavedIndex /\ (n < Radix => b = n)
  BY <1>1, SavedIndexRange
<1>5. PICK e : e = Emitted("Read_Global", <<n>>, -1)
  OBVIOUS
<1>6. PICK bytes : bytes = <<Opcode("Read_Global"), Byte(b)>>
  OBVIOUS
<1>7. Insert(bytes, e)
  BY <1>1, <1>4, <1>5, <1>6 DEF Global
<1>8. /\ e \in Descriptors /\ e.at = Count /\ e.line = Line
      /\ e.op = "Read_Global" /\ e.operands = <<n>> /\ e.to = -1
  BY <1>5, PlaceRange DEF Emitted, Descriptors, Operations
<1>9. bytes \in Seq(Cells) /\ Len(bytes) = 2 /\ Size(e) = 2 /\ ~Awaits(e) /\ Encodes(bytes, e)
  BY <1>4, <1>6, <1>8, OneOperandEncodes DEF OneOperand
<1>10. WellFormed(e)'
  BY <1>8 DEF WellFormed, OneOperand, Jumps
<1>11. Writing(bytes, e)
  BY <1>2, <1>3, <1>7, <1>8, <1>9, <1>10 DEF Writing
<1>12. QED
  BY <1>11

(* That of a declaration is written as well when it is rejected.           *)
LEMMA DeclarationWrites ==
  ASSUME Layout, Declaration
  PROVE  \E bytes, e : Writing(bytes, e)
<1>1. PICK n \in Nat : n = NewIndex
  BY DEF Layout, Typed, NewIndex
<1>2. /\ values' = Append(values, 0) /\ status = "compiling" /\ status' \in {"compiling", "rejected"}
      /\ unpatched' = unpatched
  BY DEF Declaration, Writes
<1>3. ValuesGrow
  BY <1>2, NewConstant
<1>4. PICK b \in Int : b = SavedIndex /\ (n < Radix => b = n)
  BY <1>1, SavedIndexRange
<1>5. PICK e : e = Emitted("Define_Global", <<n>>, -1)
  OBVIOUS
<1>6. PICK bytes : bytes = <<Opcode("Define_Global"), Byte(b)>>
  OBVIOUS
<1>7. Insert(bytes, e)
  BY <1>1, <1>4, <1>5, <1>6 DEF Declaration
<1>8. /\ e \in Descriptors /\ e.at = Count /\ e.line = Line
      /\ e.op = "Define_Global" /\ e.operands = <<n>> /\ e.to = -1
  BY <1>5, PlaceRange DEF Emitted, Descriptors, Operations
<1>9. bytes \in Seq(Cells) /\ Len(bytes) = 2 /\ Size(e) = 2 /\ ~Awaits(e) /\ Encodes(bytes, e)
  BY <1>4, <1>6, <1>8, OneOperandEncodes DEF OneOperand
<1>10. WellFormed(e)'
  BY <1>8 DEF WellFormed, OneOperand, Jumps
<1>11. Writing(bytes, e)
  BY <1>2, <1>3, <1>7, <1>8, <1>9, <1>10 DEF Writing
<1>12. QED
  BY <1>11

(* A method call has the index of its name and its number of arguments.    *)
LEMMA MemberWrites ==
  ASSUME Layout, NEW argument_count \in {0, 1}, Member(argument_count)
  PROVE  \E bytes, e : Writing(bytes, e)
<1>1. PICK n \in Nat : n = NewIndex
  BY DEF Layout, Typed, NewIndex
<1>2. /\ values' = Append(values, 0) /\ status = "compiling" /\ status' = "compiling"
      /\ unpatched' = unpatched
  BY DEF Member, Writes
<1>3. ValuesGrow
  BY <1>2, NewConstant
<1>4. PICK e : e = Emitted("Call_Method", <<n, argument_count>>, -1)
  OBVIOUS
<1>5. PICK bytes : bytes = <<Opcode("Call_Method"), Byte(n), Byte(argument_count)>>
  OBVIOUS
<1>6. Insert(bytes, e)
  BY <1>1, <1>4, <1>5 DEF Member
<1>7. /\ e \in Descriptors /\ e.at = Count /\ e.line = Line
      /\ e.op = "Call_Method" /\ e.operands = <<n, argument_count>> /\ e.to = -1
  BY <1>4, PlaceRange DEF Emitted, Descriptors, Operations
<1>8. argument_count \in 0..Radix-1 /\ argument_count \in Int /\ argument_count % Radix = argument_count
  <2>1. argument_count \in 0..Radix-1 /\ argument_count \in Int
    BY BytecodeAssumption
  <2>2. QED
    BY <2>1, ByteHolds
<1>9. /\ Opcode("Call_Method") \in Cells /\ Opcode("Call_Method").op = "Call_Method"
      /\ Byte(n) \in Cells /\ Byte(n).op = "Operand" /\ Byte(n).byte = n % Radix
      /\ Byte(argument_count) \in Cells /\ Byte(argument_count).op = "Operand"
      /\ Byte(argument_count).byte = argument_count
  <2>1. Opcode("Call_Method") \in Cells /\ Opcode("Call_Method").op = "Call_Method"
    BY OpcodeCell DEF Operations
  <2>2. Byte(n) \in Cells /\ Byte(n).op = "Operand" /\ Byte(n).byte = n % Radix
    BY ByteCell
  <2>3. /\ Byte(argument_count) \in Cells /\ Byte(argument_count).op = "Operand"
        /\ Byte(argument_count).byte = argument_count
    BY <1>8, ByteCell
  <2>4. QED
    BY <2>1, <2>2, <2>3
<1>10. /\ bytes \in Seq(Cells) /\ Len(bytes) = 3
       /\ bytes[1].op = "Call_Method" /\ bytes[2] = Byte(n) /\ bytes[3] = Byte(argument_count)
  BY <1>5, <1>9
<1>11. /\ Size(e) = 3 /\ ~Awaits(e) /\ OperandBytes(e) = e.operands
       /\ e.operands[1] = n /\ e.operands[2] = argument_count
  BY <1>7 DEF Size, OneOperand, Longs, Jumps, Awaits, OperandBytes
<1>12. ASSUME Fits(e) PROVE n % Radix = n
  <2>1. n < Radix
    BY <1>7, <1>11, <1>12 DEF Fits, Named, Jumps
  <2>2. n \in 0..Radix-1
    BY <2>1, BytecodeAssumption
  <2>3. QED
    BY <2>2, ByteHolds
<1>13. Encodes(bytes, e)
  <2>1. \A k \in 1..Size(e)-1 : k = 1 \/ k = 2
    BY <1>11
  <2>2. QED
    BY <1>7, <1>9, <1>10, <1>11, <1>12, <2>1 DEF Encodes
<1>14. WellFormed(e)'
  <2>1. argument_count < Radix
    BY <1>8, BytecodeAssumption
  <2>2. QED
    BY <1>7, <1>11, <2>1 DEF WellFormed, OneOperand, Jumps
<1>15. Writing(bytes, e)
  BY <1>2, <1>3, <1>6, <1>7, <1>10, <1>11, <1>13, <1>14 DEF Writing
<1>16. QED
  BY <1>15

(* A jump awaits its target.                                               *)
LEMMA JumpWrites ==
  ASSUME Layout, NEW op \in Jumps, Jump(op)
  PROVE  \E bytes, e : Writing(bytes, e)
<1>1. PICK e : e = Emitted(op, <<>>, -1)
  OBVIOUS
<1>2. PICK bytes : bytes = <<Opcode(op), Byte(Radix - 1), Byte(Radix - 1)>>
  OBVIOUS
<1>3. /\ Insert(bytes, e) /\ status = "compiling" /\ status' = "compiling"
      /\ values' = values /\ unpatched' = unpatched \cup {Count + 1}
  BY <1>1, <1>2 DEF Jump, Writes
<1>4. /\ e \in Descriptors /\ e.at = Count /\ e.line = Line
      /\ e.op = op /\ e.operands = <<>> /\ e.to = -1 /\ Awaits(e)
  BY <1>1, PlaceRange DEF Emitted, Descriptors, Operations, Awaits
<1>5. bytes \in Seq(Cells) /\ Len(bytes) = 3 /\ Size(e) = 3 /\ Encodes(bytes, e)
  <2>1. Radix - 1 \in Int /\ op \in Jumps \cup {"Loop"} /\ op # "Loop"
    BY BytecodeAssumption DEF Jumps
  <2>2. QED
    BY <1>2, <1>4, <2>1, JumpEncodes
<1>6. ValuesGrow /\ WellFormed(e)'
  <2>1. ValuesGrow
    BY <1>3, SameConstants
  <2>2. WellFormed(e)'
    BY <1>4 DEF WellFormed, OneOperand, Jumps
  <2>3. QED
    BY <2>1, <2>2
<1>7. Writing(bytes, e)
  BY <1>3, <1>4, <1>5, <1>6 DEF Writing
<1>8. QED
  BY <1>7

(* The offset of a loop is from after its operand, back to where an        *)
(* instruction starts.                                                     *)
LEMMA LoopWrites ==
  ASSUME Layout, NEW i \in DOMAIN emitted, Loop(emitted[i].at)
  PROVE  \E bytes, e : Writing(bytes, e)
<1>1. PICK to \in Nat : to = emitted[i].at /\ to \in Starts /\ to <= Count
  <2>1. emitted[i] \in Descriptors /\ i \in 1..Len(emitted) /\ Len(emitted) \in Nat
    BY DEF Layout, Typed
  <2>2. emitted[i].at \in Nat /\ End(emitted[i]) >= emitted[i].at /\ End(emitted[i]) \in Int
    BY <2>1, SizeRange
  <2>3. BodyEnd = Count
    BY DEF Loop, Writes, BodyEnd, Finished
  <2>4. End(emitted[i]) <= Count /\ Count \in Nat
    BY <2>3, PlaceRange DEF Layout, EndToEnd
  <2>5. Start(i) = emitted[i].at /\ i \in 1..Len(emitted)+1
    BY <2>1 DEF Start
  <2>6. emitted[i].at \in Starts
    BY <2>5 DEF Starts
  <2>7. QED
    BY <2>2, <2>4, <2>6
<1>2. PICK n \in Nat : n = LoopOffset(to)
  BY <1>1, PlaceRange DEF LoopOffset
<1>3. n = Count + 3 - to
  BY <1>2 DEF LoopOffset
<1>4. PICK e : e = Emitted("Loop", <<>>, to)
  OBVIOUS
<1>5. PICK bytes : bytes = <<Opcode("Loop"), Byte(n \div Radix), Byte(n)>>
  OBVIOUS
<1>6. /\ status = "compiling" /\ status' = "compiling"
      /\ values' = values /\ unpatched' = unpatched
  BY DEF Loop, Writes
<1>7. Insert(bytes, e)
  <2>1. <<Opcode("Loop")>> \o Offset(n) = bytes
    BY <1>5, ThreeBytesJoined DEF Offset
  <2>2. QED
    BY <1>1, <1>2, <1>4, <2>1 DEF Loop
<1>8. /\ e \in Descriptors /\ e.at = Count /\ e.line = Line
      /\ e.op = "Loop" /\ e.operands = <<>> /\ e.to = to /\ ~Awaits(e)
  BY <1>1, <1>4, PlaceRange DEF Emitted, Descriptors, Operations, Awaits, Jumps
<1>9. bytes \in Seq(Cells) /\ Len(bytes) = 3 /\ Size(e) = 3 /\ Encodes(bytes, e)
  <2>1. n \div Radix \in Int /\ n \in Int
    BY Division, BytecodeAssumption
  <2>2. ASSUME Fits(e) PROVE <<(n \div Radix) % Radix, n % Radix>> = OperandBytes(e)
    <3>1. e.at + 3 - e.to = n
      BY <1>1, <1>3, <1>8, PlaceRange
    <3>2. OperandBytes(e) = TwoBytes(n)
      BY <1>8, <3>1 DEF OperandBytes, Longs, Jumps
    <3>3. n <= MaxOffset
      BY <1>8, <2>2, <3>1 DEF Fits, Named, Jumps
    <3>4. n \div Radix \in 0..Radix-1
      BY <3>3, TwoBytesHold
    <3>5. (n \div Radix) % Radix = n \div Radix
      BY <3>4, ByteHolds
    <3>6. QED
      BY <3>2, <3>5 DEF TwoBytes
  <2>3. "Loop" \in Jumps \cup {"Loop"}
    OBVIOUS
  <2>4. QED
    BY <1>5, <1>8, <2>1, <2>2, <2>3, JumpEncodes
<1>10. ValuesGrow
  BY <1>6, SameConstants
<1>11. WellFormed(e)'
  BY <1>1, <1>8, PlaceRange DEF WellFormed, OneOperand, Jumps
<1>12. Writing(bytes, e)
  BY <1>1, <1>6, <1>7, <1>8, <1>9, <1>10, <1>11 DEF Writing
<1>13. QED
  BY <1>12

(* The end of a function is written once no jump awaits its target.        *)
LEMMA EndOfFunctionWrites ==
  ASSUME Layout, EndOfFunction
  PROVE  \E bytes, e : Writing(bytes, e)
<1>1. PICK e : e = Emitted("Push_Nil", <<>>, -1)
  OBVIOUS
<1>2. PICK bytes : bytes = <<Opcode("Push_Nil"), Opcode("Return")>>
  OBVIOUS
<1>3. /\ Insert(bytes, e) /\ status = "compiling" /\ status' = "running"
      /\ values' = values /\ unpatched' = unpatched /\ unpatched' = {}
  BY <1>1, <1>2 DEF EndOfFunction
<1>4. /\ e \in Descriptors /\ e.at = Count /\ e.line = Line
      /\ e.op = "Push_Nil" /\ e.operands = <<>> /\ e.to = -1
  BY <1>1, PlaceRange DEF Emitted, Descriptors, Operations
<1>5. /\ Opcode("Push_Nil") \in Cells /\ Opcode("Push_Nil").op = "Push_Nil"
      /\ Opcode("Return") \in Cells /\ Opcode("Return").op = "Return"
  BY OpcodeCell DEF Operations
<1>6. bytes \in Seq(Cells) /\ Len(bytes) = 2 /\ bytes[1].op = "Push_Nil" /\ bytes[2].op = "Return"
  BY <1>2, <1>5
<1>7. Size(e) = 1 /\ ~Awaits(e)
  BY <1>4 DEF Size, OneOperand, Longs, Jumps, Awaits
<1>8. Encodes(bytes, e)
  BY <1>4, <1>6, <1>7 DEF Encodes
<1>9. ValuesGrow
  BY <1>3, SameConstants
<1>10. WellFormed(e)'
  BY <1>4 DEF WellFormed, OneOperand, Jumps
<1>11. Writing(bytes, e)
  BY <1>3, <1>4, <1>6, <1>7, <1>8, <1>9, <1>10 DEF Writing
<1>12. QED
  BY <1>11

-----------------------------------------------------------------------------
(* The patch of a jump.                                                    *)

(* No two instructions start at the same place, and none starts within     *)
(* another.                                                                *)
LEMMA Apart ==
  ASSUME Layout, NEW i \in DOMAIN emitted, NEW j \in DOMAIN emitted, i # j
  PROVE  End(emitted[i]) <= emitted[j].at \/ End(emitted[j]) <= emitted[i].at
<1>1. i \in Int /\ j \in Int
  BY DEF Layout, Typed
<1>2. i < j \/ j < i
  BY <1>1
<1>3. QED
  BY <1>2 DEF Layout, EndToEnd

(* What an instruction and its extent are.                                 *)
LEMMA ExtentRange ==
  ASSUME Layout, NEW i \in DOMAIN emitted
  PROVE  /\ emitted[i] \in Descriptors /\ emitted[i].at \in Nat
         /\ Size(emitted[i]) \in Nat /\ Size(emitted[i]) >= 1
         /\ End(emitted[i]) = emitted[i].at + Size(emitted[i])
         /\ End(emitted[i]) <= BodyEnd /\ End(emitted[i]) <= Count
<1>1. emitted[i] \in Descriptors
  BY DEF Layout, Typed
<1>2. /\ Size(emitted[i]) \in Nat /\ Size(emitted[i]) >= 1 /\ emitted[i].at \in Nat
      /\ End(emitted[i]) = emitted[i].at + Size(emitted[i])
  BY <1>1, SizeRange
<1>3. End(emitted[i]) <= BodyEnd
  BY DEF Layout, EndToEnd
<1>4. Count \in Nat /\ (BodyEnd = Count \/ BodyEnd = Count - 1)
  BY CellsRead DEF Layout, BodyEnd
<1>5. QED
  BY <1>1, <1>2, <1>3, <1>4

(* The target of a jump becomes the end of the code, and its operand the   *)
(* distance to it.                                                         *)
PatchedDescriptor(e) == [e EXCEPT !.to = Count]

(* A patch changes one instruction of those the compiler meant: the jump   *)
(* that awaits it.                                                         *)
LEMMA PatchFacts ==
  ASSUME Layout, NEW operand \in unpatched, NEW checked \in BOOLEAN, Patch(operand, checked)
  PROVE  \E p \in DOMAIN emitted :
           /\ Awaits(emitted[p]) /\ emitted[p].at = operand - 1
           /\ DOMAIN emitted' = DOMAIN emitted /\ Len(emitted') = Len(emitted)
           /\ emitted' \in Seq(Descriptors)
           /\ emitted'[p] = PatchedDescriptor(emitted[p])
           /\ \A i \in DOMAIN emitted : i # p => emitted'[i] = emitted[i]
<1>1. PICK p \in DOMAIN emitted : Awaits(emitted[p]) /\ emitted[p].at + 1 = operand
  BY DEF Layout, AwaitPatches
<1>2. /\ emitted \in Seq(Descriptors) /\ DOMAIN emitted = 1..Len(emitted) /\ Len(emitted) \in Nat
      /\ \A i \in DOMAIN emitted : emitted[i] \in Descriptors /\ emitted[i].at \in Nat
  <2>1. emitted \in Seq(Descriptors)
    BY DEF Layout, Typed
  <2>2. QED
    BY <2>1, ExtentRange
<1>3. emitted[p].at = operand - 1
  BY <1>1, <1>2
<1>4. \A i \in DOMAIN emitted : emitted[i].at = operand - 1 <=> i = p
  <2>1. ASSUME NEW i \in DOMAIN emitted, i # p PROVE emitted[i].at # emitted[p].at
    BY <2>1, Apart, ExtentRange
  <2>2. QED
    BY <1>3, <2>1
<1>5. emitted' = [i \in DOMAIN emitted |->
                    IF emitted[i].at = operand - 1 THEN PatchedDescriptor(emitted[i]) ELSE emitted[i]]
  BY DEF Patch, PatchedDescriptor
<1>6. \A i \in DOMAIN emitted : PatchedDescriptor(emitted[i]) \in Descriptors
  <2>1. Count \in Int
    BY PlaceRange
  <2>2. ASSUME NEW d \in Descriptors PROVE [d EXCEPT !.to = Count] \in Descriptors
    BY <2>1 DEF Descriptors
  <2>3. QED
    BY <1>2, <2>2 DEF PatchedDescriptor
<1>7. \A i \in DOMAIN emitted :
        emitted'[i] = IF emitted[i].at = operand - 1 THEN PatchedDescriptor(emitted[i]) ELSE emitted[i]
  BY <1>5
<1>8. emitted' \in Seq(Descriptors) /\ Len(emitted') = Len(emitted) /\ DOMAIN emitted' = DOMAIN emitted
  BY <1>2, <1>5, <1>6
<1>9. QED
  BY <1>1, <1>3, <1>4, <1>7, <1>8

(* The bytes of the operand change and stay operands; no other does.       *)
LEMMA PatchCells ==
  ASSUME Layout, NEW operand \in unpatched, NEW checked \in BOOLEAN, Patch(operand, checked)
  PROVE  /\ instructions' \in Seq(Cells) /\ Count' = Count /\ operand \in Nat /\ operand + 2 <= Count
         /\ \A k \in 0..Count-1 : k # operand /\ k # operand + 1 => Cell(k)' = Cell(k)
         /\ Cell(operand)' .op = "Operand" /\ Cell(operand + 1)' .op = "Operand"
         /\ ~TooFar(operand) => /\ Cell(operand)' = Byte(Distance(operand) \div Radix)
                                /\ Cell(operand + 1)' = Byte(Distance(operand))
<1>1. PICK p \in DOMAIN emitted : Awaits(emitted[p]) /\ emitted[p].at + 1 = operand
  BY DEF Layout, AwaitPatches
<1>2. Size(emitted[p]) = 3
  BY <1>1 DEF Awaits, Size, OneOperand, Longs, Jumps
<1>3. operand \in Nat /\ operand >= 1 /\ operand + 2 <= Count /\ Count \in Nat
  BY <1>1, <1>2, ExtentRange, PlaceRange
<1>4. Cell(operand).op = "Operand" /\ Cell(operand + 1).op = "Operand"
  <2>1. \A k \in 1..Size(emitted[p])-1 : Cell(emitted[p].at + k).op = "Operand"
    BY DEF Layout, AllWritten, IsWritten
  <2>2. emitted[p].at \in Nat /\ 1 \in 1..Size(emitted[p])-1 /\ 2 \in 1..Size(emitted[p])-1
    BY <1>2, ExtentRange
  <2>3. Cell(emitted[p].at + 1).op = "Operand" /\ Cell(emitted[p].at + 2).op = "Operand"
    BY <2>1, <2>2
  <2>4. emitted[p].at + 2 = operand + 1
    BY <1>1, <2>2
  <2>5. QED
    BY <1>1, <2>3, <2>4
<1>5. instructions \in Seq(Cells) /\ Count = Len(instructions)
  BY DEF Layout, Typed, Count
<1>6. CASE TooFar(operand)
  <2>1. instructions' = instructions
    BY <1>6 DEF Patch
  <2>2. \A k : Cell(k)' = Cell(k)
    BY <2>1 DEF Cell, Count
  <2>3. QED
    BY <1>3, <1>4, <1>5, <1>6, <2>1, <2>2 DEF Count
<1>7. CASE ~TooFar(operand)
  <2>1. PICK d \in Nat : d = Distance(operand)
    BY <1>3 DEF Distance
  <2>2. PICK h, l : h = Byte(d \div Radix) /\ l = Byte(d) /\ h \in Cells /\ l \in Cells
                    /\ h.op = "Operand" /\ l.op = "Operand"
    <3>1. d \div Radix \in Int /\ d \in Int
      BY Division, BytecodeAssumption
    <3>2. QED
      BY <3>1, ByteCell
  <2>3. instructions' = [instructions EXCEPT ![operand + 1] = h, ![operand + 2] = l]
    <3>1. Offset(d)[1] = h /\ Offset(d)[2] = l
      BY <2>2 DEF Offset
    <3>2. QED
      BY <1>7, <2>1, <3>1 DEF Patch, Patched
  <2>4. operand + 1 \in 1..Len(instructions) /\ operand + 2 \in 1..Len(instructions) /\ operand + 1 # operand + 2
    BY <1>3, <1>5
  <2>5. /\ instructions' \in Seq(Cells) /\ Len(instructions') = Len(instructions)
        /\ instructions'[operand + 1] = h /\ instructions'[operand + 2] = l
        /\ \A k \in 1..Len(instructions) : k # operand + 1 /\ k # operand + 2 => instructions'[k] = instructions[k]
    BY <1>5, <2>2, <2>3, <2>4
  <2>6. Count' = Count
    BY <2>5 DEF Count
  <2>7. \A k \in 0..Count-1 : k # operand /\ k # operand + 1 => Cell(k)' = Cell(k)
    <3>1. ASSUME NEW k \in 0..Count-1, k # operand, k # operand + 1 PROVE Cell(k)' = Cell(k)
      <4>1. k + 1 \in 1..Len(instructions) /\ k + 1 # operand + 1 /\ k + 1 # operand + 2
        BY <1>3, <1>5, <3>1
      <4>2. QED
        BY <2>5, <2>6, <4>1 DEF Cell
    <3>2. QED
      BY <3>1
  <2>8. Cell(operand)' = h /\ Cell(operand + 1)' = l
    <3>1. operand < Count' /\ operand + 1 < Count' /\ (operand + 1) + 1 = operand + 2
      BY <1>3, <2>6
    <3>2. QED
      BY <2>5, <3>1 DEF Cell
  <2>9. QED
    BY <1>3, <2>1, <2>2, <2>5, <2>6, <2>7, <2>8
<1>8. QED
  BY <1>6, <1>7

(* A patched code is laid out, whether the distance was written or was too *)
(* far.                                                                    *)
LEMMA PatchKeepsLayout ==
  ASSUME Layout, NEW operand \in unpatched, NEW checked \in BOOLEAN, Patch(operand, checked)
  PROVE  Layout'
<1>1. PICK p \in DOMAIN emitted :
        /\ Awaits(emitted[p]) /\ emitted[p].at = operand - 1
        /\ DOMAIN emitted' = DOMAIN emitted /\ Len(emitted') = Len(emitted)
        /\ emitted' \in Seq(Descriptors)
        /\ emitted'[p] = PatchedDescriptor(emitted[p])
        /\ \A i \in DOMAIN emitted : i # p => emitted'[i] = emitted[i]
  BY PatchFacts
<1>2. /\ instructions' \in Seq(Cells) /\ Count' = Count /\ operand \in Nat /\ operand + 2 <= Count
      /\ \A k \in 0..Count-1 : k # operand /\ k # operand + 1 => Cell(k)' = Cell(k)
      /\ Cell(operand)' .op = "Operand" /\ Cell(operand + 1)' .op = "Operand"
      /\ ~TooFar(operand) => /\ Cell(operand)' = Byte(Distance(operand) \div Radix)
                             /\ Cell(operand + 1)' = Byte(Distance(operand))
  BY PatchCells
<1>3. /\ status = "compiling" /\ status' \in {"compiling", "rejected"}
      /\ unpatched' = unpatched \ {operand}
      /\ lines' = lines /\ values' = values /\ source_code' = source_code /\ statement' = statement
  BY DEF Patch
<1>4. Count \in Nat /\ BodyEnd = Count /\ BodyEnd' = Count /\ ~Finished'
  BY <1>2, <1>3, PlaceRange DEF BodyEnd, Finished
<1>5. PICK b \in Descriptors, e \in Descriptors :
        /\ b = emitted[p] /\ e = emitted'[p]
        /\ e.at = b.at /\ e.op = b.op /\ e.operands = b.operands /\ e.line = b.line /\ e.to = Count
  <2>1. PICK b, e : b \in Descriptors /\ b = emitted[p] /\ e = [b EXCEPT !.to = Count]
    BY ExtentRange
  <2>2. e = emitted'[p]
    BY <1>1, <2>1 DEF PatchedDescriptor
  <2>c. Count \in Int
    BY <1>4
  <2>d. e \in Descriptors
    BY <2>1, <2>c DEF Descriptors
  <2>3. e.at = b.at /\ e.op = b.op /\ e.operands = b.operands /\ e.line = b.line /\ e.to = Count
    BY <2>1 DEF Descriptors
  <2>4. QED
    BY <2>1, <2>2, <2>d, <2>3
<1>6. /\ b.op \in Jumps /\ Size(b) = 3 /\ Size(e) = 3 /\ e.at = operand - 1
      /\ b.at \in Nat /\ b.at + 3 <= Count /\ End(b) = b.at + 3 /\ End(e) = b.at + 3
  <2>1. b.op \in Jumps
    BY <1>1, <1>5 DEF Awaits
  <2>2. Size(b) = 3 /\ Size(e) = 3
    BY <1>5, <2>1 DEF Size, OneOperand, Longs, Jumps
  <2>3. b.at \in Nat /\ b.at + 3 <= Count
    BY <1>5, <2>2, ExtentRange
  <2>4. QED
    BY <1>1, <1>5, <2>1, <2>2, <2>3 DEF End
<1>7. \A i \in DOMAIN emitted : emitted'[i].at = emitted[i].at /\ End(emitted'[i]) = End(emitted[i])
  BY <1>1, <1>5, <1>6
<1>8. \A i \in 1..Len(emitted)+1 : Start(i)' = Start(i)
  BY <1>1, <1>4, <1>7 DEF Start
<1>9. Typed'
  BY <1>1, <1>2, <1>3 DEF Layout, Typed
<1>10. EndToEnd'
  <2>1. /\ BodyEnd >= 0 /\ Start(1) = 0
        /\ \A i \in DOMAIN emitted : Start(i + 1) = End(emitted[i])
        /\ \A i \in DOMAIN emitted : End(emitted[i]) <= BodyEnd
        /\ \A i, j \in DOMAIN emitted : i < j => End(emitted[i]) <= emitted[j].at
    BY DEF Layout, EndToEnd
  <2>2. DOMAIN emitted = 1..Len(emitted) /\ Len(emitted) \in Nat
    BY DEF Layout, Typed
  <2>3. Start(1)' = 0
    BY <1>8, <2>1, <2>2
  <2>4. \A i \in DOMAIN emitted' : Start(i + 1)' = End(emitted'[i])
    <3>1. ASSUME NEW i \in DOMAIN emitted PROVE Start(i + 1)' = End(emitted'[i])
      <4>1. i + 1 \in 1..Len(emitted)+1
        BY <2>2
      <4>2. QED
        BY <1>7, <1>8, <2>1, <4>1
    <3>2. QED
      BY <1>1, <3>1
  <2>5. QED
    BY <1>1, <1>4, <1>7, <2>1, <2>3, <2>4 DEF EndToEnd
<1>11. AllWritten'
  <2>1. ASSUME NEW i \in DOMAIN emitted, i # p
        PROVE (WellFormed(emitted[i]) /\ IsWritten(emitted[i]))'
    <3>1. PICK d \in Descriptors : d = emitted[i] /\ d = emitted'[i]
      BY <1>1, <2>1, ExtentRange
    <3>2. WellFormed(d) /\ IsWritten(d)
      BY <3>1 DEF Layout, AllWritten
    <3>3. /\ End(d) <= operand - 1 \/ operand + 2 <= d.at
          /\ d.at \in Nat /\ End(d) \in Nat /\ End(d) <= Count
      <4>1. End(d) <= b.at \/ End(b) <= d.at
        <5>1. End(emitted[i]) <= emitted[p].at \/ End(emitted[p]) <= emitted[i].at
          BY <2>1, Apart
        <5>2. QED
          BY <1>5, <3>1, <5>1, Zenon
      <4>2. d.at \in Nat /\ End(d) \in Nat /\ End(d) <= Count
        <5>1. /\ emitted[i].at \in Nat /\ End(emitted[i]) <= Count
              /\ Size(emitted[i]) \in Nat /\ End(emitted[i]) = emitted[i].at + Size(emitted[i])
          BY ExtentRange
        <5>2. emitted[i].at \in Nat /\ End(emitted[i]) \in Nat /\ End(emitted[i]) <= Count
          BY <5>1
        <5>3. QED
          BY <3>1, <5>2
      <4>3. b.at = operand - 1 /\ End(b) = operand + 2
        <5>1. operand \in Nat
          BY <1>2
        <5>2. b.at = operand - 1 /\ End(b) = b.at + 3
          BY <1>5, <1>6
        <5>3. QED
          BY <5>1, <5>2
      <4>4. QED
        BY <4>1, <4>2, <4>3
    <3>4. \A k \in d.at..End(d)-1 : Cell(k)' = Cell(k)
      BY <1>2, <1>4, <3>3
    <3>5. IsWritten(d)'
      BY <1>3, <3>2, <3>4, WrittenStays
    <3>6. WellFormed(d)'
      BY <1>3, <3>2 DEF WellFormed
    <3>7. QED
      BY <3>1, <3>5, <3>6
  <2>2. WellFormed(e)' /\ IsWritten(e)'
    <3>1. WellFormed(b) /\ IsWritten(b)
      BY <1>5 DEF Layout, AllWritten
    <3>2. WellFormed(e)'
      <4>1. e.operands = <<>>
        BY <1>5, <1>6, <3>1 DEF WellFormed
      <4>2. e.to >= e.at + 3
        BY <1>4, <1>5, <1>6
      <4>3. QED
        BY <1>5, <1>6, <4>1, <4>2 DEF WellFormed, OneOperand, Jumps
    <3>3. /\ Cell(e.at)' .op = e.op
          /\ Cell(e.at + 1)' .op = "Operand" /\ Cell(e.at + 2)' .op = "Operand"
      <4>1. e.at \in 0..Count-1 /\ e.at # operand /\ e.at # operand + 1
            /\ e.at + 1 = operand /\ e.at + 2 = operand + 1
        BY <1>2, <1>4, <1>5, <1>6
      <4>2. QED
        BY <1>2, <1>5, <3>1, <4>1 DEF IsWritten
    <3>4. \A k \in 1..Size(e)-1 : k = 1 \/ k = 2
      BY <1>6
    <3>5. ASSUME Fits(e)
          PROVE  /\ Cell(e.at + 1)' .byte = OperandBytes(e)[1]
                 /\ Cell(e.at + 2)' .byte = OperandBytes(e)[2]
      <4>1. PICK d \in Nat : d = Distance(operand) /\ d = e.to - e.at - 3
        BY <1>2, <1>4, <1>5, <1>6 DEF Distance
      <4>2. d <= MaxOffset
        BY <1>5, <1>6, <3>5, <4>1 DEF Fits, Named, Jumps
      <4>3. MaxOffset \in Int
        BY BytecodeAssumption DEF MaxOffset
      <4>4. ~TooFar(operand)
        BY <4>1, <4>2, <4>3 DEF TooFar
      <4>5. d \div Radix \in 0..Radix-1 /\ (d \div Radix) % Radix = d \div Radix /\ d \div Radix \in Int
        BY <4>1, <4>2, TwoBytesHold, ByteHolds
      <4>6. Cell(operand)' .byte = d \div Radix /\ Cell(operand + 1)' .byte = d % Radix
        BY <1>2, <4>1, <4>4, <4>5, ByteCell
      <4>7. OperandBytes(e) = <<d \div Radix, d % Radix>>
        BY <1>5, <1>6, <4>1 DEF OperandBytes, TwoBytes, Longs, Jumps
      <4>8. e.at + 1 = operand /\ e.at + 2 = operand + 1
        BY <1>2, <1>6
      <4>9. QED
        BY <4>6, <4>7, <4>8
    <3>6. \A k \in e.at+1..End(e) : lines'[k] = e.line
      BY <1>3, <1>5, <1>6, <3>1 DEF IsWritten
    <3>7. IsWritten(e)'
      BY <3>3, <3>4, <3>5, <3>6 DEF IsWritten, ReadByte
    <3>8. QED
      BY <3>2, <3>7
  <2>3. (WellFormed(emitted[p]) /\ IsWritten(emitted[p]))'
    BY <1>5, <2>2
  <2>4. QED
    BY <1>1, <2>1, <2>3 DEF AllWritten
<1>12. AwaitPatches'
  <2>1. ASSUME NEW o \in unpatched'
        PROVE  \E i \in DOMAIN emitted : Awaits(emitted'[i]) /\ emitted'[i].at + 1 = o
    <3>1. PICK i \in DOMAIN emitted : Awaits(emitted[i]) /\ emitted[i].at + 1 = o
      BY <1>3 DEF Layout, AwaitPatches
    <3>2. i # p
      <4>1. operand \in Nat /\ b.at = operand - 1 /\ o # operand
        BY <1>2, <1>3, <1>5, <1>6, <2>1
      <4>2. emitted[p].at + 1 = operand
        BY <1>5, <4>1
      <4>3. QED
        BY <3>1, <4>1, <4>2
    <3>3. QED
      BY <1>1, <3>1, <3>2
  <2>2. ASSUME NEW i \in DOMAIN emitted, Awaits(emitted'[i]) PROVE emitted'[i].at + 1 \in unpatched'
    <3>1. i # p
      BY <1>4, <1>5, <2>2 DEF Awaits
    <3>2. emitted[i].at + 1 \in unpatched /\ emitted'[i] = emitted[i]
      BY <1>1, <2>2, <3>1 DEF Layout, AwaitPatches
    <3>3. emitted[i].at + 1 # operand
      <4>1. End(emitted[i]) <= b.at \/ End(b) <= emitted[i].at
        BY <1>5, <3>1, Apart
      <4>2. QED
        BY <1>2, <1>5, <1>6, <4>1, ExtentRange
    <3>4. QED
      BY <1>3, <3>2, <3>3
  <2>3. QED
    BY <1>1, <2>1, <2>2 DEF AwaitPatches, Awaits
<1>13. LeadToStarts'
  <2>1. Starts \subseteq Starts'
    <3>1. ASSUME NEW i \in 1..Len(emitted)+1 PROVE \E j \in 1..Len(emitted')+1 : Start(i) = Start(j)'
      BY <1>1, <1>8
    <3>2. QED
      BY <3>1 DEF Starts
  <2>2. Count \in Starts
    <3>1. Len(emitted) \in Nat
      BY DEF Layout, Typed
    <3>2. Start(Len(emitted)+1) = Count /\ Len(emitted)+1 \in 1..Len(emitted)+1
      BY <1>4, <3>1 DEF Start
    <3>3. QED
      BY <3>2 DEF Starts
  <2>3. ASSUME NEW i \in DOMAIN emitted, emitted'[i].op \in Jumps \cup {"Loop"}, emitted'[i].to # -1
        PROVE  emitted'[i].to \in Starts
    <3>1. CASE i = p
      BY <1>5, <2>2, <3>1
    <3>2. CASE i # p
      BY <1>1, <2>3, <3>2 DEF Layout, LeadToStarts
    <3>3. QED
      BY <3>1, <3>2
  <2>4. QED
    BY <1>1, <2>1, <2>3 DEF LeadToStarts
<1>14. QED
  BY <1>9, <1>10, <1>11, <1>12, <1>13 DEF Layout

-----------------------------------------------------------------------------
(* Steps that write nothing.                                               *)
LEMMA SameCode ==
  ASSUME Layout, UNCHANGED <<instructions, lines, values, unpatched, emitted>>,
         source_code' \in Seq(Nat), statement' \in -1..Count,
         status' \in {"compiling", "rejected", "running", "ended", "misread"},
         Finished' <=> Finished
  PROVE  Layout' /\ Starts' = Starts /\ (AllFit <=> AllFit')
<1>1. Count' = Count /\ \A k : Cell(k)' = Cell(k)
  BY DEF Count, Cell
<1>2. BodyEnd' = BodyEnd
  BY <1>1 DEF BodyEnd
<1>3. \A i : Start(i)' = Start(i)
  BY <1>2 DEF Start
<1>4. Typed'
  BY <1>1 DEF Layout, Typed
<1>5. EndToEnd'
  BY <1>1, <1>2, <1>3 DEF Layout, EndToEnd, Cell
<1>6. AllWritten'
  <2>1. ASSUME NEW d PROVE WellFormed(d)' = WellFormed(d) /\ IsWritten(d)' = IsWritten(d)
    BY <1>1 DEF WellFormed, IsWritten, ReadByte
  <2>2. QED
    BY <2>1 DEF Layout, AllWritten
<1>7. AwaitPatches'
  BY DEF Layout, AwaitPatches
<1>8. Starts' = Starts
  BY <1>3 DEF Starts
<1>9. LeadToStarts'
  BY <1>8 DEF Layout, LeadToStarts
<1>10. QED
  BY <1>4, <1>5, <1>6, <1>7, <1>8, <1>9 DEF Layout, AllFit

-----------------------------------------------------------------------------
(* What is read back.                                                      *)

(* What the layout says of one instruction.                                *)
LEMMA WrittenFacts ==
  ASSUME Layout, NEW i \in DOMAIN emitted, NEW e, e = emitted[i]
  PROVE  /\ e \in Descriptors /\ e.at \in Nat /\ e.op \in Operations
         /\ e.operands \in Seq(Nat) /\ Len(e.operands) \in Nat /\ e.to \in Int
         /\ Size(e) \in Nat /\ Size(e) >= 1 /\ End(e) = e.at + Size(e)
         /\ End(e) <= Count /\ Count \in Nat
         /\ WellFormed(e) /\ Cell(e.at).op = e.op
         /\ \A k \in 1..Size(e)-1 : Cell(e.at + k).op = "Operand"
         /\ Fits(e) /\ ~Awaits(e) => \A k \in 1..Size(e)-1 : ReadByte(e.at + k) = OperandBytes(e)[k]
         /\ \A k \in e.at+1..End(e) : lines[k] = e.line
<1>1. /\ e \in Descriptors /\ e.at \in Nat /\ Size(e) \in Nat /\ Size(e) >= 1
      /\ End(e) = e.at + Size(e) /\ End(e) <= Count
  BY ExtentRange
<1>2. e.op \in Operations /\ e.operands \in Seq(Nat) /\ Len(e.operands) \in Nat /\ e.to \in Int
  BY <1>1 DEF Descriptors
<1>3. WellFormed(e) /\ IsWritten(e) /\ Count \in Nat
  BY PlaceRange DEF Layout, AllWritten
<1>4. QED
  BY <1>1, <1>2, <1>3 DEF IsWritten

(* Bytes that hold the operands are read as the operands.                  *)
LEMMA BytesAreOperands ==
  ASSUME NEW k \in Nat, NEW operands \in Seq(Nat),
         \A j \in 1..Len(operands) : ReadByte(k + j) = operands[j]
  PROVE  BytesFrom(k + 1, Len(operands)) = operands
<1> DEFINE n == Len(operands)
<1>1. n \in Nat /\ operands = [j \in 1..n |-> operands[j]]
  OBVIOUS
<1> HIDE DEF n
<1>2. \A j \in 1..n : (k + 1) + j - 1 = k + j
  BY <1>1
<1>3. \A j \in 1..n : ReadByte((k + 1) + j - 1) = operands[j]
  BY <1>2 DEF n
<1>4. BytesFrom(k + 1, n) = [j \in 1..n |-> operands[j]]
  BY <1>3 DEF BytesFrom
<1>5. QED
  BY <1>1, <1>4 DEF n

(* A sequence of one number is that number.                                *)
LEMMA OneNumber ==
  ASSUME NEW s \in Seq(Nat), Len(s) = 1
  PROVE  s = <<s[1]>> /\ s[1] \in Nat
  BY SMTT(30)

(* How many variables the constant of a closure captures.                  *)
LEMMA OutsidersRead ==
  ASSUME Layout, NEW i \in DOMAIN emitted, NEW e, e = emitted[i],
         e.op \in {"Push_Closure", "Push_Closure_Long"}
  PROVE  /\ Len(e.operands) >= 1 /\ e.operands[1] \in Nat /\ OutsidersOf(e.operands[1]) \in Nat
         /\ Len(e.operands) = 1 + 2 * OutsidersOf(e.operands[1])
<1>1. WellFormed(e) /\ e.operands \in Seq(Nat) /\ Len(e.operands) \in Nat
  BY WrittenFacts
<1>2. /\ Len(e.operands) >= 1 /\ e.operands[1] < Len(values)
      /\ Captured(e) = 2 * values[e.operands[1] + 1]
  BY <1>1 DEF WellFormed
<1>3. e.operands[1] \in Nat
  BY <1>1, <1>2
<1>4. OutsidersOf(e.operands[1]) = values[e.operands[1] + 1]
  BY <1>2 DEF OutsidersOf
<1>5. values[e.operands[1] + 1] \in Nat
  <2>1. values \in Seq(Nat)
    BY DEF Layout, Typed
  <2>2. e.operands[1] + 1 \in 1..Len(values)
    BY <1>2, <1>3, <2>1
  <2>3. QED
    BY <2>1, <2>2
<1>6. QED
  BY <1>1, <1>2, <1>3, <1>4, <1>5 DEF Captured

(* An instruction is read as the compiler meant it, and the next one where *)
(* it ends.                                                                *)
IsRead(e) ==
  /\ OperandLength(e.at) = Size(e) - 1
  /\ OperandsAt(e.at) = e.operands
  /\ e.op \in Jumps \cup {"Loop"} => Target(e.at) = e.to

(* Operands of one byte each are read as they are.                         *)
LEMMA OperandsAreRead ==
  ASSUME Layout, NEW i \in DOMAIN emitted, NEW e, e = emitted[i],
         e.op \in OneOperand \cup {"Call_Method"}, Fits(e)
  PROVE  IsRead(e)
<1>1. /\ e.at \in Nat /\ e.operands \in Seq(Nat) /\ WellFormed(e) /\ Cell(e.at).op = e.op
      /\ Fits(e) /\ ~Awaits(e) => \A k \in 1..Size(e)-1 : ReadByte(e.at + k) = OperandBytes(e)[k]
  BY WrittenFacts
<1>2. Size(e) = 1 + Len(e.operands) /\ Len(e.operands) = OperandLength(e.at)
  <2>1. CASE e.op \in OneOperand
    <3>1. Len(e.operands) = 1
      BY <1>1, <2>1 DEF WellFormed
    <3>2. Size(e) = 2
      BY <2>1 DEF Size, OneOperand, Longs, Jumps
    <3>3. OperandLength(e.at) = 1
      BY <1>1, <2>1 DEF OperandLength, OneOperand, Jumps
    <3>4. QED
      BY <3>1, <3>2, <3>3
  <2>2. CASE e.op = "Call_Method"
    <3>1. Len(e.operands) = 2
      BY <1>1, <2>2 DEF WellFormed
    <3>2. Size(e) = 3
      BY <2>2 DEF Size, OneOperand, Longs, Jumps
    <3>3. OperandLength(e.at) = 2
      BY <1>1, <2>2 DEF OperandLength, Jumps
    <3>4. QED
      BY <3>1, <3>2, <3>3
  <2>3. QED
    BY <2>1, <2>2
<1>3. ~Awaits(e) /\ OperandBytes(e) = e.operands
  BY DEF Awaits, OperandBytes, OneOperand, Longs, Jumps
<1>4. \A j \in 1..Len(e.operands) : ReadByte(e.at + j) = e.operands[j]
  BY <1>1, <1>2, <1>3
<1>5. BytesFrom(e.at + 1, OperandLength(e.at)) = e.operands
  BY <1>1, <1>2, <1>4, BytesAreOperands
<1>6. OperandsAt(e.at) = e.operands
  BY <1>1, <1>5 DEF OperandsAt, OneOperand
<1>7. QED
  BY <1>1, <1>2, <1>6 DEF IsRead, OneOperand, Jumps

(* So are those of a closure in its short form, as many as its constant    *)
(* captures.                                                               *)
LEMMA ClosuresAreRead ==
  ASSUME Layout, NEW i \in DOMAIN emitted, NEW e, e = emitted[i], e.op = "Push_Closure", Fits(e)
  PROVE  IsRead(e)
<1>1. /\ e.at \in Nat /\ e.operands \in Seq(Nat) /\ Len(e.operands) \in Nat /\ Cell(e.at).op = e.op
      /\ Fits(e) /\ ~Awaits(e) => \A k \in 1..Size(e)-1 : ReadByte(e.at + k) = OperandBytes(e)[k]
  BY WrittenFacts
<1>2. Size(e) = 1 + Len(e.operands) /\ ~Awaits(e) /\ OperandBytes(e) = e.operands
  BY DEF Size, Awaits, OperandBytes, OneOperand, Longs, Jumps
<1>3. \A j \in 1..Len(e.operands) : ReadByte(e.at + j) = e.operands[j]
  BY <1>1, <1>2
<1>4. /\ Len(e.operands) >= 1 /\ OutsidersOf(e.operands[1]) \in Nat
      /\ Len(e.operands) = 1 + 2 * OutsidersOf(e.operands[1])
  BY OutsidersRead
<1>5. ReadByte(e.at + 1) = e.operands[1]
  <2>1. 1 \in 1..Len(e.operands)
    BY <1>1, <1>4
  <2>2. QED
    BY <1>3, <2>1
<1>6. OperandLength(e.at) = Len(e.operands)
  BY <1>1, <1>4, <1>5 DEF OperandLength, Jumps
<1>7. BytesFrom(e.at + 1, OperandLength(e.at)) = e.operands
  BY <1>1, <1>3, <1>6, BytesAreOperands
<1>8. OperandsAt(e.at) = e.operands
  BY <1>1, <1>7 DEF OperandsAt
<1>9. QED
  BY <1>1, <1>2, <1>6, <1>8 DEF IsRead, Jumps

(* The three bytes of a long index are read as the index.                  *)
LEMMA LongsAreRead ==
  ASSUME Layout, NEW i \in DOMAIN emitted, NEW e, e = emitted[i], e.op \in Longs, Fits(e)
  PROVE  IsRead(e)
<1>1. /\ e.at \in Nat /\ e.operands \in Seq(Nat) /\ Len(e.operands) \in Nat
      /\ WellFormed(e) /\ Cell(e.at).op = e.op
      /\ Fits(e) /\ ~Awaits(e) => \A k \in 1..Size(e)-1 : ReadByte(e.at + k) = OperandBytes(e)[k]
  BY WrittenFacts
<1>2. Size(e) = 4 /\ ~Awaits(e) /\ OperandBytes(e) = ThreeBytes(e.operands[1])
  BY DEF Size, Awaits, OperandBytes, OneOperand, Longs, Jumps
<1>3. Len(e.operands) = 1 /\ e.operands[1] < Radix * Radix * Radix
  <2>1. CASE e.op = "Push_Literal_Long"
    BY <1>1, <2>1 DEF Fits, WellFormed, Named, Jumps
  <2>2. CASE e.op = "Push_Closure_Long"
    BY <2>2 DEF Fits, Named, Jumps
  <2>3. QED
    BY <2>1, <2>2 DEF Longs
<1>4. PICK n \in Nat : n = e.operands[1] /\ e.operands = <<n>>
  BY <1>1, <1>3, OneNumber
<1>5. /\ ReadByte(e.at + 1) = n \div (Radix * Radix)
      /\ ReadByte(e.at + 2) = (n \div Radix) % Radix
      /\ ReadByte(e.at + 3) = n % Radix
  <2>1. \A k \in 1..3 : ReadByte(e.at + k) = ThreeBytes(n)[k]
    BY <1>1, <1>2, <1>4
  <2>2. 1 \in 1..3 /\ 2 \in 1..3 /\ 3 \in 1..3
    OBVIOUS
  <2>3. QED
    BY <2>1, <2>2 DEF ThreeBytes
<1>6. Read3Bytes(e.at + 1) = n
  <2>1. (e.at + 1) + 1 = e.at + 2 /\ (e.at + 1) + 2 = e.at + 3
    BY <1>1
  <2>2. Read3Bytes(e.at + 1)
          = ((n \div (Radix * Radix)) * Radix + ((n \div Radix) % Radix)) * Radix + (n % Radix)
    BY <1>5, <2>1 DEF Read3Bytes, ReadByte
  <2>3. QED
    BY <1>3, <1>4, <2>2, ThreeBytesHold
<1>7. CASE e.op = "Push_Literal_Long"
  <2>1. OperandLength(e.at) = 3
    BY <1>1, <1>7 DEF OperandLength, Jumps
  <2>2. OperandsAt(e.at) = e.operands
    BY <1>1, <1>4, <1>6, <1>7 DEF OperandsAt
  <2>3. QED
    BY <1>2, <1>7, <2>1, <2>2 DEF IsRead, Jumps
<1>8. CASE e.op = "Push_Closure_Long"
  <2>1. OutsidersOf(n) = 0
    <3>1. /\ OutsidersOf(e.operands[1]) \in Nat
          /\ Len(e.operands) = 1 + 2 * OutsidersOf(e.operands[1])
      BY <1>8, OutsidersRead
    <3>2. OutsidersOf(e.operands[1]) = 0
      <4>1. Len(e.operands) = 1
        BY <1>3
      <4>2. PICK x \in Nat : x = OutsidersOf(e.operands[1])
        BY <3>1
      <4>3. 1 = 1 + 2 * x
        BY <3>1, <4>1, <4>2
      <4>4. x = 0
        BY <4>3
      <4>5. QED
        BY <4>2, <4>4
    <3>3. QED
      BY <1>4, <3>2
  <2>2. OperandLength(e.at) = 3
    BY <1>1, <1>6, <1>8, <2>1 DEF OperandLength, Jumps
  <2>3. BytesFrom(e.at + 4, OperandLength(e.at) - 3) = <<>>
    BY <2>2 DEF BytesFrom
  <2>4. <<n>> \o <<>> = <<n>>
    BY ConcatEmptySeq
  <2>5. OperandsAt(e.at) = <<n>> \o <<>>
    BY <1>1, <1>6, <1>8, <2>3 DEF OperandsAt
  <2>6. QED
    BY <1>2, <1>4, <1>8, <2>2, <2>4, <2>5 DEF IsRead, Jumps
<1>9. QED
  BY <1>7, <1>8 DEF Longs

(* The two bytes of a jump lead to its target.                             *)
LEMMA JumpsAreRead ==
  ASSUME Layout, NEW i \in DOMAIN emitted, NEW e, e = emitted[i], e.op \in Jumps \cup {"Loop"},
         Fits(e), ~Awaits(e)
  PROVE  IsRead(e)
<1>1. /\ e.at \in Nat /\ e.to \in Int /\ WellFormed(e) /\ Cell(e.at).op = e.op
      /\ Fits(e) /\ ~Awaits(e) => \A k \in 1..Size(e)-1 : ReadByte(e.at + k) = OperandBytes(e)[k]
  BY WrittenFacts
<1>2. Size(e) = 3 /\ e.operands = <<>>
  BY <1>1 DEF Size, WellFormed, OneOperand, Longs, Jumps
<1>3. OperandLength(e.at) = 2 /\ OperandsAt(e.at) = <<>>
  BY <1>1 DEF OperandLength, OperandsAt, Jumps
<1>4. After(e.at) = e.at + 3
  BY <1>1, <1>3 DEF After
<1>5. PICK n \in Nat : /\ n <= MaxOffset /\ OperandBytes(e) = TwoBytes(n)
                       /\ n = IF e.op = "Loop" THEN e.at + 3 - e.to ELSE e.to - e.at - 3
  <2>1. CASE e.op = "Loop"
    <3>1. e.at + 3 - e.to \in Nat
      BY <1>1, <2>1 DEF WellFormed
    <3>2. e.at + 3 - e.to <= MaxOffset
      BY <2>1 DEF Fits, Named, Jumps
    <3>3. OperandBytes(e) = TwoBytes(e.at + 3 - e.to)
      BY <2>1 DEF OperandBytes, Longs, Jumps
    <3>4. QED
      BY <2>1, <3>1, <3>2, <3>3
  <2>2. CASE e.op \in Jumps
    <3>1. e.to - e.at - 3 \in Nat
      BY <1>1, <2>2 DEF WellFormed, Awaits
    <3>2. e.to - e.at - 3 <= MaxOffset
      BY <2>2 DEF Fits, Named, Jumps
    <3>3. OperandBytes(e) = TwoBytes(e.to - e.at - 3)
      BY <2>2 DEF OperandBytes, Longs, Jumps
    <3>4. e.op # "Loop"
      BY <2>2 DEF Jumps
    <3>5. QED
      BY <3>1, <3>2, <3>3, <3>4
  <2>3. QED
    BY <2>1, <2>2
<1>6. ReadByte(e.at + 1) = n \div Radix /\ ReadByte(e.at + 2) = n % Radix
  <2>1. \A k \in 1..2 : ReadByte(e.at + k) = TwoBytes(n)[k]
    BY <1>1, <1>2, <1>5
  <2>2. 1 \in 1..2 /\ 2 \in 1..2
    OBVIOUS
  <2>3. QED
    BY <2>1, <2>2 DEF TwoBytes
<1>7. Read2Bytes(e.at + 1) = n
  <2>1. (e.at + 1) + 1 = e.at + 2
    BY <1>1
  <2>2. Read2Bytes(e.at + 1) = (n \div Radix) * Radix + (n % Radix)
    BY <1>6, <2>1 DEF Read2Bytes, ReadByte
  <2>3. QED
    BY <1>5, <2>2, TwoBytesHold
<1>8. Target(e.at) = e.to
  <2>1. CASE e.op = "Loop"
    BY <1>1, <1>4, <1>5, <1>7, <2>1 DEF Target
  <2>2. CASE e.op # "Loop"
    BY <1>1, <1>4, <1>5, <1>7, <2>2 DEF Target
  <2>3. QED
    BY <2>1, <2>2
<1>9. QED
  BY <1>2, <1>3, <1>8 DEF IsRead

(* Every instruction that fits is read as it was meant.                    *)
LEMMA ReadAsMeant ==
  ASSUME Layout, NEW i \in DOMAIN emitted, NEW e, e = emitted[i], Fits(e), ~Awaits(e)
  PROVE  IsRead(e)
<1>1. e.op \in Operations
  BY WrittenFacts
<1>2. CASE e.op \in {"Pop", "Push_Nil"}
  <2>1. e.operands = <<>> /\ Cell(e.at).op = e.op
    BY <1>2, WrittenFacts DEF WellFormed
  <2>2. Size(e) = 1
    BY <1>2 DEF Size, OneOperand, Longs, Jumps
  <2>3. OperandLength(e.at) = 0 /\ OperandsAt(e.at) = <<>>
    BY <1>2, <2>1 DEF OperandLength, OperandsAt, Jumps
  <2>4. QED
    BY <1>2, <2>1, <2>2, <2>3 DEF IsRead, Jumps
<1>3. QED
  BY <1>1, <1>2, OperandsAreRead, ClosuresAreRead, LongsAreRead, JumpsAreRead
     DEF Operations, OneOperand, Longs

-----------------------------------------------------------------------------
(* The inductive invariant: every step keeps the layout, and the           *)
(* interpreter at the start of an instruction.                             *)
CodeInv == Layout /\ AtAStart

(* While there is no run, the interpreter is at the first instruction.     *)
LEMMA CompilingIsAtAStart ==
  ASSUME Layout, ip = 0, status # "misread"
  PROVE  AtAStart
<1>1. Start(1) = 0 /\ Len(emitted) \in Nat
  BY DEF Layout, EndToEnd, Typed
<1>2. 0 \in Starts
  BY <1>1 DEF Starts
<1>3. QED
  BY <1>2 DEF AtAStart

(* The empty code is laid out.                                             *)
LEMMA InitCodeInv ==
  ASSUME Init
  PROVE  CodeInv
<1>1. /\ instructions = <<>> /\ lines = <<>> /\ values = <<>> /\ source_code = <<>> /\ statement = -1
      /\ unpatched = {} /\ status = "compiling" /\ ip = 0 /\ emitted = <<>>
  BY DEF Init
<1>2. Count = 0 /\ Len(emitted) = 0 /\ DOMAIN emitted = {}
  BY <1>1 DEF Count
<1>3. Typed
  BY <1>1, <1>2 DEF Typed
<1>4. BodyEnd = 0 /\ ~Finished /\ Start(1) = 0
  BY <1>1, <1>2 DEF BodyEnd, Finished, Start
<1>5. EndToEnd /\ AllWritten /\ AwaitPatches /\ LeadToStarts
  BY <1>1, <1>2, <1>4 DEF EndToEnd, AllWritten, AwaitPatches, LeadToStarts
<1>6. Layout
  BY <1>3, <1>5 DEF Layout
<1>7. QED
  BY <1>1, <1>6, CompilingIsAtAStart DEF CodeInv

(* Writing an instruction keeps it.                                        *)
LEMMA WriteKeepsCodeInv ==
  ASSUME CodeInv, \E bytes, e : Writing(bytes, e)
  PROVE  CodeInv'
<1>1. PICK bytes, e : Writing(bytes, e)
  OBVIOUS
<1>2. Layout'
  BY <1>1, WriteKeepsLayout DEF CodeInv
<1>3. ip = 0 /\ ip' = ip /\ status' # "misread"
  BY <1>1 DEF CodeInv, AtAStart, Writing, Insert
<1>4. AtAStart'
  <2>1. (Layout /\ ip = 0 /\ status # "misread" => AtAStart)'
    BY CompilingIsAtAStart, PTL
  <2>2. QED
    BY <1>2, <1>3, <2>1
<1>5. QED
  BY <1>2, <1>4 DEF CodeInv

(* A run that is at a start is at the Return, or at an instruction that is *)
(* read as it was meant.                                                   *)
LEMMA AtAnInstruction ==
  ASSUME Layout, Finished, AllFit, ip \in Starts
  PROVE  \/ ip = Count - 1 /\ Count \in Nat /\ Count >= 1 /\ Cell(ip).op = "Return"
         \/ \E i \in DOMAIN emitted :
              /\ emitted[i].at = ip /\ IsRead(emitted[i])
              /\ emitted[i].op \in Jumps \cup {"Loop"} => emitted[i].to \in Starts
              /\ End(emitted[i]) \in Starts
<1>1. PICK i \in 1..Len(emitted)+1 : ip = Start(i)
  BY DEF Starts
<1>2. Len(emitted) \in Nat /\ DOMAIN emitted = 1..Len(emitted)
  BY DEF Layout, Typed
<1>3. CASE i = Len(emitted) + 1
  <2>1. ip = BodyEnd /\ BodyEnd = Count - 1
    BY <1>1, <1>2, <1>3 DEF Start, BodyEnd
  <2>2. Count \in Nat /\ Count - 1 >= 0
    BY <2>1, PlaceRange DEF Layout, EndToEnd
  <2>3. Cell(Count - 1).op = "Return"
    BY DEF Layout, EndToEnd
  <2>4. QED
    BY <2>1, <2>2, <2>3
<1>4. CASE i # Len(emitted) + 1
  <2>1. i \in DOMAIN emitted /\ ip = emitted[i].at /\ i + 1 \in 1..Len(emitted)+1
    BY <1>1, <1>2, <1>4 DEF Start
  <2>2. unpatched = {}
    BY DEF Layout, EndToEnd
  <2>3. Fits(emitted[i]) /\ ~Awaits(emitted[i])
    BY <2>1, <2>2 DEF AllFit, Layout, AwaitPatches
  <2>4. IsRead(emitted[i])
    BY <2>1, <2>3, ReadAsMeant
  <2>5. End(emitted[i]) = Start(i + 1)
    BY <2>1 DEF Layout, EndToEnd
  <2>6. End(emitted[i]) \in Starts
    BY <2>1, <2>5 DEF Starts
  <2>7. ASSUME emitted[i].op \in Jumps \cup {"Loop"} PROVE emitted[i].to \in Starts
    <3>1. emitted[i].to # -1
      <4>1. CASE emitted[i].op \in Jumps
        BY <2>3, <4>1 DEF Awaits
      <4>2. CASE emitted[i].op = "Loop"
        <5>1. emitted[i].to \in 0..emitted[i].at
          BY <2>1, <4>2, WrittenFacts DEF WellFormed
        <5>2. QED
          BY <5>1
      <4>3. QED
        BY <2>7, <4>1, <4>2
    <3>2. QED
      BY <2>1, <2>7, <3>1 DEF Layout, LeadToStarts
  <2>8. QED
    BY <2>1, <2>4, <2>6, <2>7
<1>5. QED
  BY <1>3, <1>4

(* Such an instruction is not misread.                                     *)
LEMMA ReadWithoutMisreading ==
  ASSUME Layout, NEW i \in DOMAIN emitted, emitted[i].at = ip, IsRead(emitted[i])
  PROVE  /\ IsOpcode(ip) /\ AreOperands(ip + 1, OperandLength(ip))
         /\ Cell(ip).op = emitted[i].op /\ Cell(ip).op # "Return"
         /\ After(ip) = End(emitted[i])
<1>1. PICK e : e = emitted[i]
  OBVIOUS
<1>2. /\ e.at \in Nat /\ e.op \in Operations
      /\ Size(e) \in Nat /\ Size(e) >= 1 /\ End(e) = e.at + Size(e)
      /\ End(e) <= Count /\ Count \in Nat /\ Cell(e.at).op = e.op
      /\ \A k \in 1..Size(e)-1 : Cell(e.at + k).op = "Operand"
  BY <1>1, WrittenFacts
<1>3. e.at = ip /\ OperandLength(ip) = Size(e) - 1
  BY <1>1 DEF IsRead
<1>4. e.op # "Operand" /\ e.op # "Return"
  BY <1>2 DEF Operations, Jumps
<1>5. IsOpcode(ip)
  BY <1>2, <1>3, <1>4 DEF IsOpcode
<1>6. AreOperands(ip + 1, OperandLength(ip))
  <2>1. ASSUME NEW k \in ip+1..ip+1+OperandLength(ip)-1 PROVE k < Count /\ Cell(k).op = "Operand"
    <3>1. k - e.at \in 1..Size(e)-1 /\ e.at + (k - e.at) = k /\ k < Count
      BY <1>2, <1>3
    <3>2. QED
      BY <1>2, <3>1
  <2>2. QED
    BY <2>1 DEF AreOperands
<1>7. After(ip) = End(e)
  BY <1>2, <1>3 DEF After
<1>8. QED
  BY <1>1, <1>2, <1>3, <1>4, <1>5, <1>6, <1>7

(* A turn of the interpreter ends at the start of an instruction.          *)
LEMMA StepKeepsCodeInv ==
  ASSUME CodeInv, Step
  PROVE  CodeInv'
<1>1. /\ status = "running" /\ status' = status /\ Cell(ip).op # "Return"
      /\ UNCHANGED <<instructions, lines, values, source_code, statement, unpatched, emitted>>
      /\ Layout
  BY DEF Step, CodeInv
<1>2. Layout' /\ Starts' = Starts /\ (AllFit <=> AllFit')
  <2>1. source_code' \in Seq(Nat) /\ statement' \in -1..Count
    BY <1>1 DEF Layout, Typed
  <2>2. Finished' <=> Finished
    BY <1>1 DEF Finished
  <2>3. QED
    BY <1>1, <2>1, <2>2, SameCode
<1>3. ASSUME AllFit PROVE ip' \in Starts
  <2>1. Finished /\ ip \in Starts
    BY <1>1, <1>3 DEF Finished, CodeInv, AtAStart
  <2>2. PICK i \in DOMAIN emitted :
          /\ emitted[i].at = ip /\ IsRead(emitted[i])
          /\ emitted[i].op \in Jumps \cup {"Loop"} => emitted[i].to \in Starts
          /\ End(emitted[i]) \in Starts
    BY <1>1, <1>3, <2>1, AtAnInstruction
  <2>3. Cell(ip).op = emitted[i].op /\ After(ip) = End(emitted[i])
    BY <1>1, <2>2, ReadWithoutMisreading
  <2>4. \/ Cell(ip).op \in Jumps \cup {"Loop"} /\ ip' = Target(ip)
        \/ ip' = After(ip)
    BY DEF Step
  <2>5. emitted[i].op \in Jumps \cup {"Loop"} => Target(ip) = emitted[i].to
    BY <2>2 DEF IsRead
  <2>6. QED
    BY <2>2, <2>3, <2>4, <2>5
<1>4. AtAStart'
  BY <1>1, <1>2, <1>3 DEF AtAStart
<1>5. QED
  BY <1>2, <1>4 DEF CodeInv

(* Only a code with an operand that does not fit is misread.               *)
LEMMA MisreadNeverFits ==
  ASSUME CodeInv, Misread
  PROVE  ~AllFit
<1>1. SUFFICES ASSUME AllFit PROVE FALSE
  OBVIOUS
<1>2. Layout /\ status = "running" /\ ~(IsOpcode(ip) /\ AreOperands(ip + 1, OperandLength(ip)))
  BY DEF Misread, CodeInv
<1>3. Finished /\ ip \in Starts
  BY <1>1, <1>2 DEF Finished, CodeInv, AtAStart
<1>4. CASE ip = Count - 1 /\ Count \in Nat /\ Count >= 1 /\ Cell(ip).op = "Return"
  <2>1. IsOpcode(ip)
    BY <1>4 DEF IsOpcode
  <2>2. OperandLength(ip) = 0
    BY <1>4 DEF OperandLength, Jumps
  <2>3. AreOperands(ip + 1, OperandLength(ip))
    BY <1>4, <2>2 DEF AreOperands
  <2>4. QED
    BY <1>2, <2>1, <2>3
<1>5. CASE \E i \in DOMAIN emitted : emitted[i].at = ip /\ IsRead(emitted[i])
  BY <1>2, <1>5, ReadWithoutMisreading
<1>6. QED
  BY <1>1, <1>2, <1>3, <1>4, <1>5, AtAnInstruction

(* The end of a run changes no code.                                       *)
LEMMA EndKeepsCodeInv ==
  ASSUME CodeInv, Return \/ Misread
  PROVE  CodeInv'
<1>1. /\ status = "running" /\ status' \in {"ended", "misread"} /\ ip' = ip
      /\ UNCHANGED <<instructions, lines, values, source_code, statement, unpatched, emitted>>
      /\ Layout
  BY DEF Return, Misread, CodeInv
<1>2. Layout' /\ Starts' = Starts /\ (AllFit <=> AllFit')
  <2>1. source_code' \in Seq(Nat) /\ statement' \in -1..Count
    BY <1>1 DEF Layout, Typed
  <2>2. Finished' <=> Finished
    BY <1>1 DEF Finished
  <2>3. QED
    BY <1>1, <2>1, <2>2, SameCode
<1>3. status' = "misread" => ~AllFit
  <2>1. CASE Return
    BY <2>1 DEF Return
  <2>2. CASE Misread
    BY <2>2, MisreadNeverFits
  <2>3. QED
    BY <2>1, <2>2
<1>4. AtAStart'
  BY <1>1, <1>2, <1>3 DEF AtAStart, CodeInv
<1>5. QED
  BY <1>2, <1>4 DEF CodeInv

(* Patching a jump keeps it.                                               *)
LEMMA PatchKeepsCodeInv ==
  ASSUME CodeInv, NEW operand \in unpatched, NEW checked \in BOOLEAN, Patch(operand, checked)
  PROVE  CodeInv'
<1>1. Layout'
  BY PatchKeepsLayout DEF CodeInv
<1>2. ip = 0 /\ ip' = ip /\ status' # "misread"
  BY DEF CodeInv, AtAStart, Patch
<1>3. (Layout /\ ip = 0 /\ status # "misread" => AtAStart)'
  BY CompilingIsAtAStart, PTL
<1>4. QED
  BY <1>1, <1>2, <1>3 DEF CodeInv

(* The places of statements are beside the code.                           *)
LEMMA StatementKeepsCodeInv ==
  ASSUME CodeInv, BeginOfStatement \/ EndOfStatement
  PROVE  CodeInv'
<1>1. /\ UNCHANGED <<instructions, lines, values, unpatched, status, ip, emitted>> /\ Layout
  BY DEF BeginOfStatement, EndOfStatement, CodeInv
<1>2. source_code' \in Seq(Nat) /\ statement' \in -1..Count
  <2>1. source_code \in Seq(Nat) /\ statement \in -1..Count /\ Count \in Nat
    BY <1>1, CellsRead DEF Layout, Typed
  <2>2. CASE BeginOfStatement
    BY <2>1, <2>2 DEF BeginOfStatement
  <2>3. CASE EndOfStatement
    <3>1. statement \in Nat /\ source_code' = Append(source_code, statement) /\ statement' = -1
      BY <2>1, <2>3 DEF EndOfStatement
    <3>2. QED
      BY <2>1, <3>1
  <2>4. QED
    BY <2>2, <2>3
<1>3. Layout' /\ Starts' = Starts /\ (AllFit <=> AllFit')
  <2>1. (Finished' <=> Finished) /\ status \in {"compiling", "rejected", "running", "ended", "misread"}
    BY <1>1 DEF Finished, Layout, Typed
  <2>2. QED
    BY <1>1, <1>2, <2>1, SameCode
<1>4. AtAStart'
  BY <1>1, <1>3 DEF AtAStart, CodeInv
<1>5. QED
  BY <1>3, <1>4 DEF CodeInv

(* So does a step that changes nothing.                                    *)
LEMMA StutterKeepsCodeInv ==
  ASSUME CodeInv, UNCHANGED vars
  PROVE  CodeInv'
<1>1. /\ UNCHANGED <<instructions, lines, values, source_code, statement, unpatched, status, ip, emitted>>
      /\ Layout
  BY DEF vars, CodeInv
<1>2. /\ source_code' \in Seq(Nat) /\ statement' \in -1..Count
      /\ status' \in {"compiling", "rejected", "running", "ended", "misread"}
      /\ (Finished' <=> Finished)
  BY <1>1 DEF Layout, Typed, Finished
<1>3. Layout' /\ Starts' = Starts /\ (AllFit <=> AllFit')
  BY <1>1, <1>2, SameCode
<1>4. AtAStart'
  BY <1>1, <1>3 DEF AtAStart, CodeInv
<1>5. QED
  BY <1>3, <1>4 DEF CodeInv

(* No step of the compiler or of the run breaks it.                        *)
LEMMA NextKeepsCodeInv ==
  ASSUME CodeInv, [Next]_vars
  PROVE  CodeInv'
<1> USE DEF CodeInv
<1>1. CASE Instruction("Pop")
  BY <1>1, InstructionWrites, WriteKeepsCodeInv
<1>2. CASE Constant
  BY <1>2, ConstantWrites, WriteKeepsCodeInv
<1>3. CASE \E outsiders \in {<<>>, <<1, 0>>} : Closure(outsiders)
  BY <1>3, ClosureWrites, WriteKeepsCodeInv
<1>4. CASE Global
  BY <1>4, GlobalWrites, WriteKeepsCodeInv
<1>5. CASE Declaration
  BY <1>5, DeclarationWrites, WriteKeepsCodeInv
<1>6. CASE \E argument_count \in {0, 1} : Member(argument_count)
  BY <1>6, MemberWrites, WriteKeepsCodeInv
<1>7. CASE \E op \in Jumps : Jump(op)
  BY <1>7, JumpWrites, WriteKeepsCodeInv
<1>8. CASE \E operand \in unpatched, checked \in BOOLEAN : Patch(operand, checked)
  BY <1>8, PatchKeepsCodeInv
<1>9. CASE \E i \in DOMAIN emitted : Loop(emitted[i].at)
  BY <1>9, LoopWrites, WriteKeepsCodeInv
<1>10. CASE BeginOfStatement \/ EndOfStatement
  BY <1>10, StatementKeepsCodeInv
<1>11. CASE EndOfFunction
  BY <1>11, EndOfFunctionWrites, WriteKeepsCodeInv
<1>12. CASE Step
  BY <1>12, StepKeepsCodeInv
<1>13. CASE Return \/ Misread
  BY <1>13, EndKeepsCodeInv
<1>14. CASE UNCHANGED vars
  BY <1>14, StutterKeepsCodeInv
<1>15. QED
  BY <1>1, <1>2, <1>3, <1>4, <1>5, <1>6, <1>7, <1>8, <1>9, <1>10, <1>11, <1>12, <1>13, <1>14 DEF Next

-----------------------------------------------------------------------------
(* For every radix and every dialect the code is laid out end to end, as   *)
(* the compiler meant it, and a run is at the start of an instruction.     *)
THEOREM CodeIsLaidOut == Spec => []CodeInv
<1>1. Init => CodeInv
  BY InitCodeInv
<1>2. CodeInv /\ [Next]_vars => CodeInv'
  BY NextKeepsCodeInv
<1>3. QED
  BY <1>1, <1>2, PTL DEF Spec

(* Every variable has its type: a line for every byte, a byte below the    *)
(* radix, and two operands of its own for every jump that awaits its       *)
(* target.                                                                 *)
THEOREM CodeIsTyped == Spec => []TypeOK
<1>1. CodeInv => TypeOK
  <2>1. SUFFICES ASSUME CodeInv PROVE TypeOK
    OBVIOUS
  <2>2. Layout /\ Typed
    BY <2>1 DEF CodeInv, Layout
  <2>3. \A k \in 0..Count-1 : Cell(k).byte \in 0..Radix-1
    BY <2>2, CellsRead DEF Cells
  <2>4. \A i \in DOMAIN values : values[i] \in Nat
    BY <2>2 DEF Typed
  <2>5. ASSUME NEW operand \in unpatched PROVE AreOperands(operand, 2)
    <3>1. PICK i \in DOMAIN emitted : Awaits(emitted[i]) /\ emitted[i].at + 1 = operand
      BY <2>2 DEF Layout, AwaitPatches
    <3>2. PICK e : e = emitted[i]
      OBVIOUS
    <3>3. /\ e.at \in Nat /\ Size(e) \in Nat /\ End(e) = e.at + Size(e)
          /\ End(e) <= Count /\ Count \in Nat
          /\ \A k \in 1..Size(e)-1 : Cell(e.at + k).op = "Operand"
      BY <2>2, <3>2, WrittenFacts
    <3>4. Size(e) = 3
      <4>1. e.op = "Jump" \/ e.op = "Jump_If_False"
        BY <3>1, <3>2 DEF Awaits, Jumps
      <4>2. QED
        BY <4>1 DEF Size, Jumps, OneOperand, Longs
    <3>5. ASSUME NEW k \in operand..operand+2-1 PROVE k < Count /\ Cell(k).op = "Operand"
      <4>1. k - e.at \in 1..2 /\ e.at + (k - e.at) = k /\ k < Count
        BY <3>1, <3>2, <3>3, <3>4
      <4>2. QED
        BY <3>3, <3>4, <4>1
    <3>6. QED
      BY <3>5 DEF AreOperands
  <2>6. QED
    BY <2>2, <2>3, <2>4, <2>5 DEF TypeOK, Typed
<1>2. QED
  BY <1>1, CodeIsLaidOut, PTL

(* What the interpreter reads, wherever jumps led it, is an instruction    *)
(* the compiler meant, with its operands and its target.                   *)
THEOREM CodeRunsAsEmitted == Spec => []RunsWhatWasEmitted
<1>1. CodeInv => RunsWhatWasEmitted
  <2>1. SUFFICES ASSUME CodeInv, AllFit
                 PROVE  /\ status # "misread"
                        /\ status = "running" /\ Cell(ip).op # "Return" =>
                             \E i \in DOMAIN emitted : emitted[i].at = ip /\ IsReadAs(ip, emitted[i])
    BY DEF RunsWhatWasEmitted
  <2>2. Layout /\ status # "misread" /\ ip \in Starts
    BY <2>1 DEF CodeInv, AtAStart
  <2>3. ASSUME status = "running", Cell(ip).op # "Return"
        PROVE  \E i \in DOMAIN emitted : emitted[i].at = ip /\ IsReadAs(ip, emitted[i])
    <3>1. Finished
      BY <2>3 DEF Finished
    <3>2. PICK i \in DOMAIN emitted : emitted[i].at = ip /\ IsRead(emitted[i])
      BY <2>1, <2>2, <2>3, <3>1, AtAnInstruction
    <3>3. Cell(ip).op = emitted[i].op
      BY <2>2, <3>2, ReadWithoutMisreading
    <3>4. IsReadAs(ip, emitted[i])
      BY <3>2, <3>3 DEF IsReadAs, IsRead
    <3>5. QED
      BY <3>2, <3>4
  <2>4. QED
    BY <2>2, <2>3
<1>2. QED
  BY <1>1, CodeIsLaidOut, PTL

(* The line of the last byte read of an instruction is the instruction's.  *)
THEOREM ErrorsNameTheLine == Spec => []ErrorsNameTheirLine
<1>1. CodeInv => ErrorsNameTheirLine
  <2>1. SUFFICES ASSUME CodeInv, AllFit, status = "running",
                        NEW i \in DOMAIN emitted, emitted[i].at = ip
                 PROVE  After(ip) \in DOMAIN lines /\ lines[After(ip)] = emitted[i].line
    BY DEF ErrorsNameTheirLine
  <2>2. Layout /\ lines \in Seq(Nat) /\ Len(lines) = Count /\ unpatched = {}
    BY <2>1 DEF CodeInv, Layout, Typed, EndToEnd, Finished
  <2>3. Fits(emitted[i]) /\ ~Awaits(emitted[i])
    BY <2>1, <2>2 DEF AllFit, Layout, AwaitPatches
  <2>4. IsRead(emitted[i])
    BY <2>2, <2>3, ReadAsMeant
  <2>5. After(ip) = End(emitted[i])
    BY <2>1, <2>2, <2>4, ReadWithoutMisreading
  <2>6. PICK e : e = emitted[i]
    OBVIOUS
  <2>7. /\ e.at \in Nat /\ Size(e) \in Nat /\ Size(e) >= 1 /\ End(e) = e.at + Size(e)
        /\ End(e) <= Count /\ \A k \in e.at+1..End(e) : lines[k] = e.line
    BY <2>2, <2>6, WrittenFacts
  <2>8. End(e) \in DOMAIN lines /\ lines[End(e)] = e.line
    BY SMTT(30), <2>2, <2>7
  <2>9. QED
    BY <2>5, <2>6, <2>8
<1>2. QED
  BY <1>1, CodeIsLaidOut, PTL

-----------------------------------------------------------------------------
(* The disassembler finds the end of every instruction but the long form   *)
(* of a closure, even of a jump that awaits its target.                    *)
LEMMA DisassembledToItsEnd ==
  ASSUME Layout, NEW i \in DOMAIN emitted, Fits(emitted[i]), emitted[i].op # "Push_Closure_Long"
  PROVE  Disassembled(emitted[i].at) = End(emitted[i])
<1>1. PICK e : e = emitted[i]
  OBVIOUS
<1>2. /\ e.at \in Nat /\ e.op \in Operations /\ Cell(e.at).op = e.op /\ WellFormed(e)
      /\ Len(e.operands) \in Nat
      /\ Size(e) \in Nat /\ End(e) = e.at + Size(e)
      /\ Fits(e) /\ ~Awaits(e) => \A k \in 1..Size(e)-1 : ReadByte(e.at + k) = OperandBytes(e)[k]
  BY <1>1, WrittenFacts
<1>3. CASE e.op = "Push_Closure"
  <2>1. /\ Len(e.operands) >= 1 /\ OutsidersOf(e.operands[1]) \in Nat
        /\ Len(e.operands) = 1 + 2 * OutsidersOf(e.operands[1])
    BY <1>1, <1>3, OutsidersRead
  <2>2. Size(e) = 1 + Len(e.operands) /\ OperandBytes(e) = e.operands /\ ~Awaits(e)
    BY <1>3 DEF Size, OperandBytes, Awaits, OneOperand, Longs, Jumps
  <2>3. 1 \in 1..Size(e)-1
    BY <1>2, <2>1, <2>2
  <2>4. ReadByte(e.at + 1) = e.operands[1]
    BY <1>1, <1>2, <2>2, <2>3
  <2>5. Disassembled(e.at) = ClosureEnd(e.at)
    BY <1>2, <1>3 DEF Disassembled, Jumps
  <2>6. ClosureEnd(e.at) = e.at + 2 + 2 * OutsidersOf(e.operands[1])
    BY <2>4 DEF ClosureEnd
  <2>7. QED
    BY <1>1, <1>2, <2>1, <2>2, <2>5, <2>6
<1>4. CASE e.op # "Push_Closure"
  BY <1>1, <1>2, <1>4 DEF Disassembled, Size, End, Operations, OneOperand, Longs, Jumps
<1>5. QED
  BY <1>3, <1>4

(* So it steps from each instruction to the next, to the end of the code.  *)
THEOREM CodeIsDisassembled == Spec => []DisassemblesWhatWasEmitted
<1>1. CodeInv => DisassemblesWhatWasEmitted
  <2>1. SUFFICES ASSUME CodeInv, AllFit, \A i \in DOMAIN emitted : emitted[i].op # "Push_Closure_Long",
                        NEW i \in DOMAIN emitted
                 PROVE  Disassembled(emitted[i].at) =
                          IF i < Len(emitted) THEN emitted[i + 1].at
                          ELSE IF status \in {"compiling", "rejected"} THEN Count ELSE Count - 1
    BY DEF DisassemblesWhatWasEmitted
  <2>2. Layout /\ i \in 1..Len(emitted) /\ Len(emitted) \in Nat
    BY <2>1 DEF CodeInv, Layout, Typed
  <2>3. Disassembled(emitted[i].at) = End(emitted[i])
    BY <2>1, <2>2, DisassembledToItsEnd DEF AllFit
  <2>4. End(emitted[i]) = Start(i + 1)
    BY <2>2 DEF Layout, EndToEnd
  <2>5. Start(i + 1) = IF i < Len(emitted) THEN emitted[i + 1].at ELSE BodyEnd
    BY <2>2 DEF Start
  <2>6. BodyEnd = IF status \in {"compiling", "rejected"} THEN Count ELSE Count - 1
    BY <2>2 DEF BodyEnd, Finished, Layout, Typed
  <2>7. QED
    BY <2>3, <2>4, <2>5, <2>6
<1>2. QED
  BY <1>1, CodeIsLaidOut, PTL

-----------------------------------------------------------------------------
(* The binary search for a statement halves its range until it is empty.   *)
(* The two halves are narrower than the range, and ranges too.             *)
LEMMA HalvesAre ==
  ASSUME source_code \in Seq(Nat), NEW r \in Ranges, r[1] < r[2], NEW m, m = Middle(r[1], r[2])
  PROVE  /\ m \in r[1]..r[2]-1 /\ m + 1 \in 1..Len(source_code)
         /\ source_code[m + 1] \in Nat
         /\ <<m + 1, r[2]>> \in Ranges /\ UpToMiddle(r[1], m) = <<r[1], m>> /\ <<r[1], m>> \in Ranges
<1>1. PICK n \in Nat : n = Len(source_code)
  OBVIOUS
<1>2. PICK a \in 0..n, b \in -1..n : r = <<a, b>>
  BY <1>1 DEF Ranges
<1>3. a < b /\ m = a + (b - a) \div 2
  BY <1>2 DEF Middle
<1>4. PICK d \in Nat : d = b - a /\ d > 0
  BY <1>3
<1>5. d \div 2 \in 0..d-1
  BY <1>4
<1>6. m \in a..b-1 /\ m \in Nat /\ m + 1 \in 1..n
  BY <1>3, <1>4, <1>5
<1>7. source_code[m + 1] \in Nat
  BY <1>1, <1>6
<1>8. <<m + 1, b>> \in Ranges /\ <<a, m>> \in Ranges
  BY <1>1, <1>6 DEF Ranges
<1> QED
  BY <1>1, <1>2, <1>6, <1>7, <1>8 DEF UpToMiddle

(* What the search of a range finds depends on narrower ranges only.       *)
LEMMA HalvingSame ==
  ASSUME source_code \in Seq(Nat), NEW offset \in Int, NEW r \in Ranges, NEW f, NEW g,
         \A s \in Ranges : s[2] - s[1] < r[2] - r[1] => f[s] = g[s]
  PROVE  Halve(f, r, offset) = Halve(g, r, offset)
<1>1. r[1] \in Int /\ r[2] \in Int
  BY DEF Ranges
<1>2. CASE r[1] >= r[2]
  BY <1>1, <1>2 DEF Halve
<1>3. CASE r[1] < r[2]
  <2>1. PICK m : m = Middle(r[1], r[2])
    OBVIOUS
  <2>2. /\ m \in r[1]..r[2]-1 /\ source_code[m + 1] \in Nat
        /\ <<m + 1, r[2]>> \in Ranges /\ UpToMiddle(r[1], m) = <<r[1], m>> /\ <<r[1], m>> \in Ranges
    BY <1>3, <2>1, HalvesAre
  <2>3. f[<<m + 1, r[2]>>] = g[<<m + 1, r[2]>>]
    <3>1. PICK s : s = <<m + 1, r[2]>>
      OBVIOUS
    <3>2. s \in Ranges /\ s[2] - s[1] < r[2] - r[1]
      BY <1>1, <2>2, <3>1
    <3> QED
      BY <3>1, <3>2
  <2>4. f[<<r[1], m>>] = g[<<r[1], m>>]
    <3>1. PICK s : s = <<r[1], m>>
      OBVIOUS
    <3>2. s \in Ranges /\ s[2] - s[1] < r[2] - r[1]
      BY <1>1, <2>2, <3>1
    <3> QED
      BY <3>1, <3>2
  <2>5. ASSUME NEW h
        PROVE  Halve(h, r, offset) = IF source_code[m + 1] = offset THEN m + 1
                                       ELSE IF source_code[m + 1] < offset THEN h[<<m + 1, r[2]>>] ELSE h[<<r[1], m>>]
    BY <1>1, <1>3, <2>1, <2>2 DEF Halve
  <2> QED
    BY <2>3, <2>4, <2>5
<1> QED
  BY <1>1, <1>2, <1>3

(* So the equations of the search have a solution: that of the ranges of   *)
(* the least width that had none would extend the one before.              *)
LEMMA SearchIs ==
  ASSUME source_code \in Seq(Nat), NEW offset \in Int
  PROVE  \E f : /\ SearchSourceCode(offset) = f[<<0, Len(source_code)>>]
                /\ \A r \in Ranges : f[r] = Halve(f, r, offset)
<1> DEFINE Solves(g, m) == \A r \in Ranges : r[2] - r[1] <= m => g[r] = Halve(g, r, offset)
           Unsolved == {m \in Nat : ~ \E g : Solves(g, m)}
<1>1. Unsolved = {}
  <2>1. SUFFICES ASSUME Unsolved # {} PROVE FALSE
    OBVIOUS
  <2>2. PICK m \in Unsolved : \A n \in Unsolved : m <= n
    <3>1. Unsolved \subseteq Nat
      OBVIOUS
    <3> HIDE DEF Unsolved
    <3> QED
      BY <2>1, <3>1, MinOfNaturals
  <2>3. m \in Nat /\ m # 0
    <3>1. PICK g : g = [r \in Ranges |-> 0]
      OBVIOUS
    <3>2. ASSUME NEW r \in Ranges, r[2] - r[1] <= 0 PROVE g[r] = Halve(g, r, offset)
      <4>1. r[1] \in Int /\ r[2] \in Int /\ r[1] >= r[2]
        BY <3>2 DEF Ranges
      <4>2. Halve(g, r, offset) = 0
        BY <4>1 DEF Halve
      <4> QED
        BY <3>1, <4>2
    <3>3. Solves(g, 0)
      BY <3>2
    <3> HIDE DEF Solves
    <3> QED
      BY <3>3
  <2>4. PICK g : Solves(g, m - 1)
    <3>1. m - 1 \in Nat /\ ~(m <= m - 1)
      BY <2>3
    <3> QED
      BY <2>2, <3>1
  <2>5. PICK h : h = [r \in Ranges |-> IF r[2] - r[1] <= m - 1 THEN g[r] ELSE Halve(g, r, offset)]
    OBVIOUS
  <2>6. ASSUME NEW r \in Ranges, r[2] - r[1] <= m PROVE h[r] = Halve(h, r, offset)
    <3>1. r[1] \in Int /\ r[2] \in Int
      BY DEF Ranges
    <3>2. h[r] = Halve(g, r, offset)
      BY <2>4, <2>5
    <3>3. ASSUME NEW s \in Ranges, s[2] - s[1] < r[2] - r[1] PROVE g[s] = h[s]
      <4>1. s[2] - s[1] <= m - 1
        <5>1. s[1] \in Int /\ s[2] \in Int
          BY DEF Ranges
        <5> QED
          BY <2>3, <2>6, <3>1, <3>3, <5>1
      <4> QED
        BY <2>5, <4>1
    <3>4. Halve(g, r, offset) = Halve(h, r, offset)
      BY <3>3, HalvingSame
    <3> QED
      BY <3>2, <3>4
  <2>7. Solves(h, m)
    BY <2>6
  <2> QED
    BY <2>7
<1>2. PICK n \in Nat : n = Len(source_code)
  OBVIOUS
<1>3. PICK g : Solves(g, n)
  BY <1>1, <1>2
<1>4. \A r \in Ranges : g[r] = Halve(g, r, offset)
  <2>1. \A r \in Ranges : r[2] - r[1] <= n
    BY <1>2 DEF Ranges
  <2> QED
    BY <1>3, <2>1
<1>5. PICK h : h = [r \in Ranges |-> g[r]]
  OBVIOUS
<1>6. ASSUME NEW r \in Ranges PROVE h[r] = Halve(h, r, offset)
  <2>1. \A s \in Ranges : s[2] - s[1] < r[2] - r[1] => g[s] = h[s]
    BY <1>5
  <2>2. Halve(g, r, offset) = Halve(h, r, offset)
    BY <2>1, HalvingSame
  <2> QED
    BY <1>4, <1>5, <2>2
<1> DEFINE Same(f) == f = [r \in Ranges |-> Halve(f, r, offset)]
<1>7. Same(h)
  <2>1. h = [r \in Ranges |-> h[r]]
    BY <1>5
  <2> QED
    BY <1>6, <2>1
<1>8. SearchSourceCode(offset) = (CHOOSE f : Same(f))[<<0, Len(source_code)>>]
  BY DEF SearchSourceCode
<1>9. PICK f : f = CHOOSE e : Same(e)
  OBVIOUS
<1>10. Same(f)
  <2> HIDE DEF Same
  <2> QED
    BY <1>7, <1>9
<1>11. \A r \in Ranges : f[r] = Halve(f, r, offset)
  <2>1. f = [r \in Ranges |-> Halve(f, r, offset)]
    BY <1>10
  <2> QED
    BY <2>1
<1> QED
  BY <1>8, <1>9, <1>11

(* Statements are remembered in the order they start in, and the one being *)
(* compiled starts behind them.                                            *)
InOrder ==
  /\ \A i, j \in DOMAIN source_code : i <= j => source_code[i] <= source_code[j]
  /\ \A i \in DOMAIN source_code : source_code[i] <= (IF statement = -1 THEN Count ELSE statement)

(* The statements that start at an offset are in the half that the search  *)
(* goes on with, so it finds one of them if there are any.                 *)
Starting(offset) == {i \in DOMAIN source_code : source_code[i] = offset}

LEMMA SearchFinds ==
  ASSUME source_code \in Seq(Nat), InOrder, NEW offset \in Int
  PROVE  IF Starting(offset) = {} THEN SearchSourceCode(offset) = 0 ELSE SearchSourceCode(offset) \in Starting(offset)
<1>1. PICK f : /\ SearchSourceCode(offset) = f[<<0, Len(source_code)>>]
               /\ \A r \in Ranges : f[r] = Halve(f, r, offset)
  BY SearchIs
<1>2. PICK S : S = Starting(offset)
  OBVIOUS
<1>3. S = {i \in 1..Len(source_code) : source_code[i] = offset}
  BY <1>2 DEF Starting
<1> DEFINE Right(r) == S \subseteq (r[1]+1)..r[2] => IF S = {} THEN f[r] = 0 ELSE f[r] \in S
           Widths == {m \in Nat : \E r \in Ranges : r[2] - r[1] <= m /\ ~Right(r)}
<1>4. Widths = {}
  <2>1. SUFFICES ASSUME Widths # {} PROVE FALSE
    OBVIOUS
  <2>2. PICK m \in Widths : \A n \in Widths : m <= n
    <3>1. Widths \subseteq Nat
      OBVIOUS
    <3> HIDE DEF Widths
    <3> QED
      BY <2>1, <3>1, MinOfNaturals
  <2>3. PICK r \in Ranges : r[2] - r[1] <= m /\ ~Right(r)
    BY <2>2
  <2>4. m \in Nat /\ r[1] \in Int /\ r[2] \in Int /\ f[r] = Halve(f, r, offset)
    BY <1>1, <2>2 DEF Ranges
  <2>5. ASSUME NEW s \in Ranges, s[2] - s[1] < r[2] - r[1], r[1] < r[2] PROVE Right(s)
    <3>1. s[1] \in Int /\ s[2] \in Int
      BY DEF Ranges
    <3>2. m - 1 \in Nat /\ s[2] - s[1] <= m - 1 /\ ~(m <= m - 1)
      BY <2>3, <2>4, <2>5, <3>1
    <3>3. m - 1 \notin Widths
      <4> HIDE DEF Widths
      <4> QED
        BY <2>2, <3>2
    <3> HIDE DEF Right
    <3> QED
      BY <3>2, <3>3
  <2>6. S \subseteq (r[1]+1)..r[2] /\ ~(IF S = {} THEN f[r] = 0 ELSE f[r] \in S)
    BY <2>3
  <2>7. r[1] < r[2]
    <3>1. SUFFICES ASSUME r[1] >= r[2] PROVE FALSE
      BY <2>4
    <3>2. f[r] = 0
      BY <2>4, <3>1 DEF Halve
    <3>3. S = {}
      BY <2>4, <2>6, <3>1
    <3> QED
      BY <2>6, <3>2, <3>3
  <2>8. PICK k : k = Middle(r[1], r[2])
    OBVIOUS
  <2>9. /\ k \in r[1]..r[2]-1 /\ k + 1 \in 1..Len(source_code) /\ source_code[k + 1] \in Nat
        /\ <<k + 1, r[2]>> \in Ranges /\ UpToMiddle(r[1], k) = <<r[1], k>> /\ <<r[1], k>> \in Ranges
    BY <2>7, <2>8, HalvesAre
  <2>10. f[r] = IF source_code[k + 1] = offset THEN k + 1
                ELSE IF source_code[k + 1] < offset THEN f[<<k + 1, r[2]>>] ELSE f[<<r[1], k>>]
    BY <2>4, <2>7, <2>8, <2>9 DEF Halve
  <2>11. CASE source_code[k + 1] = offset
    <3>1. k + 1 \in S
      BY <1>3, <2>9, <2>11
    <3> QED
      BY <2>6, <2>10, <2>11, <3>1
  <2>12. CASE source_code[k + 1] < offset
    <3>1. PICK s : s = <<k + 1, r[2]>>
      OBVIOUS
    <3>2. s \in Ranges /\ s[1] = k + 1 /\ s[2] = r[2] /\ s[2] - s[1] < r[2] - r[1]
      BY <2>4, <2>9, <3>1
    <3>3. S \subseteq (s[1]+1)..s[2]
      <4>1. ASSUME NEW i \in S PROVE i > k + 1
        <5>1. i \in 1..Len(source_code) /\ source_code[i] = offset
          BY <1>3
        <5>2. ~(i <= k + 1)
          BY <2>9, <2>12, <5>1 DEF InOrder
        <5> QED
          BY <2>4, <2>9, <5>1, <5>2
      <4> QED
        BY <2>4, <2>6, <2>9, <3>2, <4>1
    <3>4. f[r] = f[s]
      BY <2>9, <2>10, <2>12, <3>1
    <3>5. Right(s)
      BY <2>5, <2>7, <3>2
    <3> QED
      BY <2>6, <3>3, <3>4, <3>5
  <2>13. CASE source_code[k + 1] > offset
    <3>1. PICK s : s = <<r[1], k>>
      OBVIOUS
    <3>2. s \in Ranges /\ s[1] = r[1] /\ s[2] = k /\ s[2] - s[1] < r[2] - r[1]
      BY <2>4, <2>9, <3>1
    <3>3. S \subseteq (s[1]+1)..s[2]
      <4>1. ASSUME NEW i \in S PROVE i <= k
        <5>1. i \in 1..Len(source_code) /\ source_code[i] = offset
          BY <1>3
        <5>2. ~(k + 1 <= i)
          BY <2>9, <2>13, <5>1 DEF InOrder
        <5> QED
          BY <2>4, <2>9, <5>1, <5>2
      <4> QED
        BY <2>4, <2>6, <2>9, <3>2, <4>1
    <3>4. f[r] = f[s]
      BY <2>9, <2>10, <2>13, <3>1
    <3>5. Right(s)
      BY <2>5, <2>7, <3>2
    <3> QED
      BY <2>6, <3>3, <3>4, <3>5
  <2> QED
    BY <2>9, <2>11, <2>12, <2>13
<1>5. PICK r : r = <<0, Len(source_code)>>
  OBVIOUS
<1>6. r \in Ranges /\ r[1] = 0 /\ r[2] = Len(source_code) /\ Len(source_code) \in Nat
  BY <1>5 DEF Ranges
<1>7. Right(r)
  <2>1. Len(source_code) \notin Widths /\ r[2] - r[1] <= Len(source_code)
    BY <1>4, <1>6
  <2> HIDE DEF Right
  <2> QED
    BY <1>6, <2>1
<1>8. S \subseteq (r[1]+1)..r[2]
  BY <1>3, <1>6
<1> QED
  BY <1>1, <1>2, <1>5, <1>7, <1>8

(* The kinds of steps: one writes code, patches it, or leaves it as it is. *)
LEMMA StepsAre ==
  ASSUME CodeInv, [Next]_vars
  PROVE  \/ \E bytes, e : Writing(bytes, e)
         \/ \E operand \in unpatched, checked \in BOOLEAN : Patch(operand, checked)
         \/ BeginOfStatement \/ EndOfStatement
         \/ UNCHANGED <<instructions, source_code, statement>>
<1> USE DEF CodeInv
<1>1. CASE Instruction("Pop")
  BY <1>1, InstructionWrites
<1>2. CASE Constant
  BY <1>2, ConstantWrites
<1>3. CASE \E outsiders \in {<<>>, <<1, 0>>} : Closure(outsiders)
  BY <1>3, ClosureWrites
<1>4. CASE Global
  BY <1>4, GlobalWrites
<1>5. CASE Declaration
  BY <1>5, DeclarationWrites
<1>6. CASE \E argument_count \in {0, 1} : Member(argument_count)
  BY <1>6, MemberWrites
<1>7. CASE \E op \in Jumps : Jump(op)
  BY <1>7, JumpWrites
<1>8. CASE \E i \in DOMAIN emitted : Loop(emitted[i].at)
  BY <1>8, LoopWrites
<1>9. CASE EndOfFunction
  BY <1>9, EndOfFunctionWrites
<1>10. CASE Step \/ Return \/ Misread \/ UNCHANGED vars
  BY <1>10 DEF Step, Return, Misread, vars
<1>11. QED
  BY <1>1, <1>2, <1>3, <1>4, <1>5, <1>6, <1>7, <1>8, <1>9, <1>10 DEF Next

(* Code is only added, so what starts behind no code still does.           *)
LEMMA CodeGrows ==
  ASSUME Typed, (\E bytes, e : Writing(bytes, e)) \/ \E operand, checked : Patch(operand, checked)
  PROVE  Count \in Nat /\ Count' \in Nat /\ Count' >= Count /\ source_code' = source_code /\ statement' = statement
<1>1. instructions \in Seq(Cells)
  BY DEF Typed
<1>2. CASE \E bytes, e : Writing(bytes, e)
  <2>1. PICK bytes \in Seq(Cells) : instructions' = instructions \o bytes
    BY <1>2 DEF Writing, Insert
  <2>2. Len(instructions') = Len(instructions) + Len(bytes)
    BY <1>1, <2>1
  <2> QED
    BY <1>1, <1>2, <2>2 DEF Count, Writing, Insert
<1>3. CASE \E operand, checked : Patch(operand, checked)
  <2>1. Len(instructions') = Len(instructions)
    BY <1>1, <1>3 DEF Patch, Patched
  <2> QED
    BY <1>1, <1>3, <2>1 DEF Count, Patch
<1>4. QED
  BY <1>2, <1>3

LEMMA NextKeepsOrder ==
  ASSUME CodeInv, InOrder, [Next]_vars
  PROVE  InOrder'
<1>1. Typed
  BY DEF CodeInv, Layout
<1>2. /\ source_code \in Seq(Nat) /\ statement \in -1..Count /\ Count \in Nat
  BY <1>1 DEF Typed, Count
<1>3. CASE (\E bytes, e : Writing(bytes, e)) \/ \E operand \in unpatched, checked \in BOOLEAN : Patch(operand, checked)
  <2>1. Count' \in Nat /\ Count' >= Count /\ source_code' = source_code /\ statement' = statement
    BY <1>1, <1>3, CodeGrows
  <2>2. ASSUME NEW i \in DOMAIN source_code
        PROVE  source_code[i] <= (IF statement = -1 THEN Count' ELSE statement)
    <3>1. source_code[i] \in Nat /\ source_code[i] <= (IF statement = -1 THEN Count ELSE statement)
      BY <1>2, <2>2 DEF InOrder
    <3> QED
      BY <1>2, <2>1, <3>1
  <2> QED
    BY <2>1, <2>2 DEF InOrder
<1>4. CASE UNCHANGED <<instructions, source_code, statement>>
  BY <1>4 DEF InOrder, Count
<1>5. CASE BeginOfStatement
  <2>1. source_code' = source_code /\ statement = -1 /\ statement' = Count
    BY <1>5 DEF BeginOfStatement
  <2> QED
    BY <1>2, <2>1 DEF InOrder
<1>6. CASE EndOfStatement
  <2>1. /\ source_code' = Append(source_code, statement) /\ statement' = -1 /\ statement # -1
        /\ instructions' = instructions
    BY <1>6 DEF EndOfStatement
  <2>2. PICK n \in Nat : n = Len(source_code)
    BY <1>2
  <2>3. /\ DOMAIN source_code' = 1..n+1 /\ source_code'[n + 1] = statement
        /\ \A i \in 1..n : source_code'[i] = source_code[i]
    BY <1>2, <2>1, <2>2
  <2>4. ASSUME NEW i \in 1..n+1 PROVE source_code'[i] <= statement /\ statement <= Count
    BY <1>2, <2>1, <2>2, <2>3 DEF InOrder
  <2>5. ASSUME NEW i \in 1..n+1, NEW j \in 1..n+1, i <= j PROVE source_code'[i] <= source_code'[j]
    <3>1. CASE j = n + 1
      BY <2>3, <2>4, <3>1
    <3>2. CASE j \in 1..n
      BY <2>2, <2>3, <2>5, <3>2 DEF InOrder
    <3> QED
      BY <3>1, <3>2
  <2>6. ASSUME NEW i \in 1..n+1 PROVE source_code'[i] <= Count
    <3>1. source_code'[i] \in Nat
      <4>1. statement \in Nat
        BY <1>2, <2>1
      <4> QED
        BY <1>2, <2>2, <2>3, <4>1
    <3> QED
      BY <1>2, <2>4, <3>1
  <2>7. Count' = Count
    BY <2>1 DEF Count
  <2> QED
    BY <2>1, <2>3, <2>5, <2>6, <2>7 DEF InOrder
<1> QED
  BY <1>3, <1>4, <1>5, <1>6, StepsAre

(* The statement the disassembler prints above an instruction is one that  *)
(* starts there, if there is one, for every number of statements.          *)
THEOREM StatementsAreShown == Spec => []StatementsAreFound
<1>1. Init => CodeInv /\ InOrder
  BY InitCodeInv DEF Init, InOrder
<1>2. CodeInv /\ InOrder /\ [Next]_vars => (CodeInv /\ InOrder)'
  BY NextKeepsCodeInv, NextKeepsOrder
<1>3. CodeInv /\ InOrder => StatementsAreFound
  <2>1. SUFFICES ASSUME CodeInv, InOrder, NEW k \in 0..Count
                 PROVE  IF Starting(k) = {} THEN SearchSourceCode(k) = 0 ELSE SearchSourceCode(k) \in Starting(k)
    BY DEF StatementsAreFound, Starting
  <2>2. source_code \in Seq(Nat) /\ k \in Int
    BY <2>1 DEF CodeInv, Layout, Typed
  <2> QED
    BY <2>1, <2>2, SearchFinds
<1>4. QED
  BY <1>1, <1>2, <1>3, PTL DEF Spec

=============================================================================
