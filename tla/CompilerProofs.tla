---------------------------- MODULE CompilerProofs ----------------------------
(***************************************************************************)
(* What holds between the parser's handlers, for sources of any length and *)
(* nesting.                                                                *)
(*                                                                         *)
(* `in` says of each open statement how many functions, blocks and scopes  *)
(* it is in.  From it follow the function whose code a jump is in, the     *)
(* breakpoints that a block will patch, and that a function is left with   *)
(* the depth it was entered with.  A jump without a target is held by an   *)
(* open statement or by a breakpoint; the others lead to an instruction of *)
(* their own function, never to one that adds a method to its class.       *)
(***************************************************************************)
EXTENDS Program, NaturalExtremes, FiniteSetTheorems, SequenceTheorems


-----------------------------------------------------------------------------
(* Sequences and records, of which only the shape is known.                *)
IsSeq(s) == Len(s) \in Nat /\ s = [i \in 1..Len(s) |-> s[i]]

IsInstruction(i) == i = [op |-> i.op, x |-> i.x, of |-> i.of, as |-> i.as, height |-> i.height]
IsLocal(l) == l = [name |-> l.name, scope_depth |-> l.scope_depth, moved |-> l.moved, decl |-> l.decl]
IsFunction(f) ==
  f = [kind |-> f.kind, depth |-> f.depth, locals |-> f.locals, outsiders |-> f.outsiders, code |-> f.code]

-----------------------------------------------------------------------------
(* Code.                                                                   *)

(* The variables a function captures: those of the function around it that *)
(* are captured too are among the n of that one.                           *)
OutsidersOK(os) ==
  /\ IsSeq(os)
  /\ \A i \in 1..Len(os) : os[i].index \in Nat /\ (os[i].location = "Stack" => os[i].index < MaxLocals)
  /\ \A i, j \in 1..Len(os) : os[i] = os[j] => i = j
FitIn(os, n) == \A i \in 1..Len(os) : os[i].location # "Stack" => os[i].index \in 0..n-1

(* The operands of the code of a function that captures n variables, when  *)
(* the functions compiled are cs.                                          *)
OperandOK(i, n, cs) ==
  /\ i.op \in OfHeap => i.x \in 0..n-1
  /\ i.op \in {"Call_Function", "Call_Class"} => i.x \in {0, 1}
  /\ i.op = "Push_Closure" => i.x \in 1..Len(cs) /\ FitIn(cs[i.x].outsiders, n)

(* A jump goes to a place in the code or behind it, but never between the  *)
(* closure of a method and the instruction that adds it to the class.      *)
Target(code, t) == t \in 1..Len(code)+1 /\ (t <= Len(code) => code[t].op # "Method")
Unset == -1..0
JumpAt(code, k) == k \in 1..Len(code) /\ code[k].op \in Jumps
(* The jumps that have not been told where to go.                          *)
Dangling(i) == i.op \in Jumps /\ i.x \in Unset
Loose(code) == {k \in 1..Len(code) : Dangling(code[k])}

CodeOK(code, n, cs) ==
  /\ IsSeq(code)
  /\ \A k \in 1..Len(code) :
       /\ IsInstruction(code[k]) /\ OperandOK(code[k], n, cs)
       /\ code[k].op = "Method" => k > 1 /\ code[k - 1].op = "Push_Closure"
       /\ code[k].op \in Jumps => code[k].x \in Unset \/ Target(code, code[k].x)

CompiledOK(cs) ==
  /\ IsSeq(cs)
  /\ \A i \in 1..Len(cs) :
       /\ OutsidersOK(cs[i].outsiders) /\ CodeOK(cs[i].code, Len(cs[i].outsiders), cs)
       /\ \A k \in 1..Len(cs[i].code) : cs[i].code[k].op \in Jumps => cs[i].code[k].x <= Len(cs[i].code)

(* The functions being compiled.                                           *)
LocalsOK(ls) ==
  /\ IsSeq(ls) /\ Len(ls) \in 1..MaxLocals
  /\ \A i \in 1..Len(ls) : IsLocal(ls[i])
  /\ ls[1].scope_depth = 0
FunctionOK(f, cs) ==
  /\ IsFunction(f) /\ f.depth \in Nat
  /\ LocalsOK(f.locals) /\ OutsidersOK(f.outsiders) /\ CodeOK(f.code, Len(f.outsiders), cs)
FunctionsOK(fs, cs) ==
  /\ IsSeq(fs) /\ Len(fs) # 0
  /\ \A l \in 1..Len(fs) : FunctionOK(fs[l], cs)
  /\ fs[1].outsiders = <<>>
  /\ \A l \in 2..Len(fs) : FitIn(fs[l].outsiders, Len(fs[l - 1].outsiders))

-----------------------------------------------------------------------------
(* What the statements being parsed are nested in.                         *)

Opens(o)  == o.kind \in {"function", "method"}
Pushes(o) == o.kind \in {"while", "for"} \/ (o.kind = "block" /\ o.type = "Clean")
Scopes(o) ==
  CASE o.kind = "block" -> 1
    [] o.kind = "for"   -> IF o.variable = -1 THEN 1 ELSE 2
    [] o.kind = "class" -> IF o.superclass THEN 1 ELSE 0
    [] o.kind \in {"then", "else", "while", "function", "method"} -> 0
Holds(o) == o.kind \in {"then", "else", "while", "for"}

(* What statement o is in, and what the statements inside it are.          *)
Inside(outer, o, inner) ==
  /\ inner.level  = outer.level + (IF Opens(o) THEN 1 ELSE 0)
  /\ inner.blocks = outer.blocks + (IF Pushes(o) THEN 1 ELSE 0)
  /\ inner.depth  = (IF Opens(o) THEN 2 ELSE outer.depth + Scopes(o))
  /\ IF o.kind = "for" THEN o.continue = outer.continue ELSE inner.continue = outer.continue

ContinueOK(c, level, fs) ==
  c.to = -1 \/ (c.function \in 1..level /\ Target(fs[c.function].code, c.to))

HasFields(o) ==
  /\ {"kind", "type", "done"} \subseteq DOMAIN o
  /\ Holds(o) => "jump" \in DOMAIN o
  /\ o.kind = "while" => "start" \in DOMAIN o
  /\ o.kind = "for" => {"variable", "increment", "continue"} \subseteq DOMAIN o
  /\ o.kind = "class" => "superclass" \in DOMAIN o

ContextOK(o, in, fs) ==
  /\ o.kind \in {"block", "then", "else", "while", "for", "function", "method", "class"}
  /\ HasFields(o)
  /\ Opens(o) => fs[in.level].depth = in.depth
  /\ Holds(o) => (o.kind = "for" /\ o.jump = -1) \/ JumpAt(fs[in.level].code, o.jump)
  /\ o.kind = "while" => Target(fs[in.level].code, o.start)
  /\ o.kind = "for" => o.increment = -1 \/ Target(fs[in.level].code, o.increment)

(* `in` says for each open statement, and for the next one, how many       *)
(* functions and blocks it is in, at which depth and with which increment. *)
Nested(in, os, fs) ==
  /\ IsSeq(os)
  /\ in[1].level = 1 /\ in[1].blocks = 0 /\ in[1].depth = 0
  /\ \A k \in 1..Len(os)+1 :
       /\ in[k].level \in 1..Len(fs) /\ in[k].blocks \in Nat /\ in[k].depth \in Nat
       /\ ContinueOK(in[k].continue, in[k].level, fs)
  /\ \A j, k \in 1..Len(os)+1 : j <= k => in[j].level <= in[k].level /\ in[j].blocks <= in[k].blocks
  /\ \A k \in 1..Len(os) : Inside(in[k], os[k], in[k + 1]) /\ ContextOK(os[k], in[k], fs)

(* The jumps of function l that a statement still open will patch, and a   *)
(* breakpoint in the function of the block it leaves.                      *)
Held(in, os, bs, l) ==
  {os[k].jump : k \in {n \in 1..Len(os) : Holds(os[n]) /\ in[n].level = l}}
    \cup {bs[i].operand : i \in {n \in 1..Len(bs) : bs[n].function = l}}
Even(in, os, b) ==
  \E k \in 1..Len(os) : Pushes(os[k]) /\ in[k].blocks = b.block_depth /\ in[k].level = b.function

BreakpointsOK(in, fs, os, bs, n) ==
  /\ IsSeq(bs)
  /\ \A i \in 1..Len(bs) :
       /\ bs[i].operand \in Nat /\ bs[i].block_depth \in 0..n-1
       /\ Even(in, os, bs[i]) => JumpAt(fs[bs[i].function].code, bs[i].operand)
  /\ \A i, j \in 1..Len(bs) : i <= j => bs[i].block_depth <= bs[j].block_depth

(* Statements os are open in functions fs; n blocks are, bs have been left *)
(* by 'sai', and 'salta' goes to c.                                        *)
Parsing(in, fs, cs, os, bs, n, c) ==
  /\ FunctionsOK(fs, cs) /\ Nested(in, os, fs)
  /\ in[Len(os) + 1].level = Len(fs) /\ in[Len(os) + 1].blocks = n /\ in[Len(os) + 1].continue = c
  /\ BreakpointsOK(in, fs, os, bs, n)

(* What regular programs have besides: each jump that was not told where   *)
(* to go will be, those of the innermost function in x excepted.           *)
NothingLoose(cs) == \A i \in 1..Len(cs) : Loose(cs[i].code) = {}
AllEven(in, os, bs) == \A i \in 1..Len(bs) : Even(in, os, bs[i])
AllHeld(in, fs, os, bs, x) ==
  \A l \in 1..Len(fs) : Loose(fs[l].code) \subseteq Held(in, os, bs, l) \cup {k \in x : l = Len(fs)}
Regularly(in, fs, cs, os, bs, x) ==
  /\ \A k \in 1..Len(os) : os[k].kind = "for" => os[k].increment # -1
  /\ AllEven(in, os, bs) => NothingLoose(cs) /\ AllHeld(in, fs, os, bs, x)

ParserOK(in) ==
  /\ IsSeq(blocks)
  /\ Parsing(in, functions, compiled, open, breakpoints, Len(blocks), continue_to)
  /\ in[Len(open) + 1].depth = functions[Len(functions)].depth
  /\ regular => Regularly(in, functions, compiled, open, breakpoints, {})

(* At the end of the source; and where a jump of one function was patched  *)
(* in another.                                                             *)
ParserDone == status # "parsing" /\ functions = <<>> /\ breakpoints = <<>> /\ (regular => NothingLoose(compiled))
ParserBroken ==
  /\ status = "undefined"
  /\ IsSeq(functions) /\ \A i \in 1..Len(functions) : functions[i].depth \in Nat /\ Len(functions[i].locals) \in 1..MaxLocals
  /\ IsSeq(breakpoints) /\ \A i \in 1..Len(breakpoints) : breakpoints[i].operand \in Nat

CompilerInv ==
  /\ status \in Statuses /\ regular \in BOOLEAN /\ dialect \in Dialects
  /\ CompiledOK(compiled)
  /\ status = "running" => ParserDone
  /\ ParserDone \/ ParserBroken \/ \E in : ParserOK(in)

-----------------------------------------------------------------------------
(* Sequences.                                                              *)

LEMMA SeqIs ==
  ASSUME NEW s
  PROVE  /\ IsSeq(s) => s \in Seq({s[i] : i \in 1..Len(s)})
         /\ \A S : s \in Seq(S) => IsSeq(s)
<1>1. ASSUME IsSeq(s) PROVE s \in Seq({s[i] : i \in 1..Len(s)})
  <2> DEFINE S == {s[i] : i \in 1..Len(s)}
  <2>1. s = [i \in 1..Len(s) |-> s[i]] /\ Len(s) \in Nat
    BY <1>1 DEF IsSeq
  <2>2. \A i \in 1..Len(s) : s[i] \in S
    OBVIOUS
  <2>3. [i \in 1..Len(s) |-> s[i]] \in [1..Len(s) -> S]
    <3> HIDE DEF S
    <3> QED
      BY <2>2
  <2>4. s \in [1..Len(s) -> S]
    BY <2>1, <2>3, Zenon
  <2> HIDE DEF S
  <2>5. s \in Seq(S)
    BY <2>1, <2>4
  <2> QED
    BY <2>5 DEF S
<1>2. ASSUME NEW S, s \in Seq(S) PROVE IsSeq(s)
  BY <1>2 DEF IsSeq
<1> QED
  BY <1>1, <1>2

LEMMA MapIs ==
  ASSUME NEW n \in Nat, NEW f, f = [i \in 1..n |-> f[i]]
  PROVE  IsSeq(f) /\ Len(f) = n
<1> DEFINE S == {f[i] : i \in 1..n}
<1>1. f \in [1..n -> S]
  <2>1. \A i \in 1..n : f[i] \in S
    OBVIOUS
  <2> HIDE DEF S
  <2> QED
    BY <2>1
<1> HIDE DEF S
<1>2. f \in Seq(S) /\ Len(f) = n
  BY <1>1
<1> QED
  BY <1>2, SeqIs

LEMMA SameSeq ==
  ASSUME NEW s, NEW t, IsSeq(s), IsSeq(t), Len(s) = Len(t), \A i \in 1..Len(s) : s[i] = t[i]
  PROVE  s = t
<1>1. [i \in 1..Len(s) |-> s[i]] = [i \in 1..Len(t) |-> t[i]]
  OBVIOUS
<1> QED
  BY <1>1, Zenon DEF IsSeq

LEMMA ConcatIs ==
  ASSUME NEW s, NEW t, IsSeq(s), IsSeq(t)
  PROVE  /\ IsSeq(s \o t) /\ Len(s \o t) = Len(s) + Len(t)
         /\ \A i \in 1..Len(s) : (s \o t)[i] = s[i]
         /\ \A i \in 1..Len(t) : (s \o t)[Len(s) + i] = t[i]
<1>1. PICK S : S = {s[i] : i \in 1..Len(s)} \cup {t[i] : i \in 1..Len(t)}
  OBVIOUS
<1>2. s \in Seq(S) /\ t \in Seq(S)
  <2>1. PICK A, B : A = {s[i] : i \in 1..Len(s)} /\ B = {t[i] : i \in 1..Len(t)}
    OBVIOUS
  <2>2. s \in Seq(A) /\ t \in Seq(B)
    BY <2>1, SeqIs
  <2>3. S = A \cup B
    BY <1>1, <2>1
  <2> QED
    BY <2>2, <2>3
<1>3. s \o t \in Seq(S) /\ Len(s \o t) = Len(s) + Len(t)
  BY <1>2
<1>4. \A i \in 1..Len(s) : (s \o t)[i] = s[i]
  BY <1>2
<1>5. \A i \in 1..Len(t) : (s \o t)[Len(s) + i] = t[i]
  BY <1>2
<1> QED
  BY <1>3, <1>4, <1>5, SeqIs

LEMMA AppendIs ==
  ASSUME NEW s, NEW x, IsSeq(s)
  PROVE  /\ IsSeq(Append(s, x)) /\ Len(Append(s, x)) = Len(s) + 1
         /\ \A i \in 1..Len(s) : Append(s, x)[i] = s[i]
         /\ Append(s, x)[Len(s) + 1] = x
<1>1. PICK S : S = {s[i] : i \in 1..Len(s)} \cup {x}
  OBVIOUS
<1>2. s \in Seq(S) /\ x \in S
  <2>1. s \in Seq({s[i] : i \in 1..Len(s)})
    BY SeqIs
  <2> QED
    BY <1>1, <2>1
<1>3. Append(s, x) \in Seq(S) /\ Len(Append(s, x)) = Len(s) + 1
  BY <1>2
<1>4. \A i \in 1..Len(s) : Append(s, x)[i] = s[i]
  BY <1>2
<1>5. Append(s, x)[Len(s) + 1] = x
  BY <1>2
<1> QED
  BY <1>3, <1>4, <1>5, SeqIs

LEMMA PrefixIs ==
  ASSUME NEW s, IsSeq(s), NEW n \in 0..Len(s)
  PROVE  /\ IsSeq(SubSeq(s, 1, n)) /\ Len(SubSeq(s, 1, n)) = n
         /\ \A i \in 1..n : SubSeq(s, 1, n)[i] = s[i]
<1>1. PICK S : S = {s[i] : i \in 1..Len(s)}
  OBVIOUS
<1>2. s \in Seq(S)
  BY <1>1, SeqIs
<1>3. n \in Nat /\ Len(s) \in Nat
  BY DEF IsSeq
<1>4. SubSeq(s, 1, n) \in Seq(S) /\ Len(SubSeq(s, 1, n)) = n
  BY <1>2, <1>3
<1>5. \A i \in 1..n : SubSeq(s, 1, n)[i] = s[i]
  BY <1>2, <1>3
<1> QED
  BY <1>4, <1>5, SeqIs

LEMMA FrontIs ==
  ASSUME NEW s, IsSeq(s), Len(s) # 0
  PROVE  /\ IsSeq(Front(s)) /\ Len(Front(s)) = Len(s) - 1
         /\ \A i \in 1..Len(s)-1 : Front(s)[i] = s[i]
<1>1. Len(s) - 1 \in 0..Len(s)
  BY DEF IsSeq
<1> QED
  BY <1>1, PrefixIs DEF Front

Updated(s, i, x) == [s EXCEPT ![i] = x]
LEMMA UpdateIs ==
  ASSUME NEW s, IsSeq(s), NEW i, NEW x, NEW d, d = Updated(s, i, x)
  PROVE  /\ IsSeq(d) /\ Len(d) = Len(s)
         /\ \A j \in 1..Len(s) : d[j] = IF j = i THEN x ELSE s[j]
<1>1. PICK n : n = Len(s)
  OBVIOUS
<1>2. n \in Nat /\ DOMAIN s = 1..n
  BY <1>1 DEF IsSeq
<1>3. PICK f : f = [j \in 1..n |-> IF j = i THEN x ELSE s[j]]
  OBVIOUS
<1>4. d = f
  BY <1>2, <1>3 DEF Updated
<1>5. f = [j \in 1..n |-> f[j]]
  BY <1>3
<1>6. IsSeq(f) /\ Len(f) = n
  BY <1>2, <1>5, MapIs
<1> QED
  BY <1>1, <1>3, <1>4, <1>6

LEMMA EmptyIs == IsSeq(<<>>) /\ Len(<<>>) = 0
<1>1. <<>> \in Seq({}) /\ Len(<<>>) = 0
  OBVIOUS
<1> QED
  BY <1>1, SeqIs

LEMMA NoneIs == ASSUME NEW s, IsSeq(s), Len(s) = 0 PROVE s = <<>>
  BY EmptyIs, SameSeq

LEMMA TuplesAre ==
  /\ \A x : IsSeq(<<x>>) /\ Len(<<x>>) = 1 /\ <<x>>[1] = x
  /\ \A x, y : IsSeq(<<x, y>>) /\ Len(<<x, y>>) = 2 /\ <<x, y>>[1] = x /\ <<x, y>>[2] = y
  /\ \A x, y, z : /\ IsSeq(<<x, y, z>>) /\ Len(<<x, y, z>>) = 3
                  /\ <<x, y, z>>[1] = x /\ <<x, y, z>>[2] = y /\ <<x, y, z>>[3] = z
<1>1. ASSUME NEW x PROVE IsSeq(<<x>>) /\ Len(<<x>>) = 1 /\ <<x>>[1] = x
  <2>1. <<x>> \in Seq({x}) /\ Len(<<x>>) = 1 /\ <<x>>[1] = x
    OBVIOUS
  <2> QED
    BY <2>1, SeqIs
<1>2. ASSUME NEW x, NEW y
      PROVE  IsSeq(<<x, y>>) /\ Len(<<x, y>>) = 2 /\ <<x, y>>[1] = x /\ <<x, y>>[2] = y
  <2>1. <<x, y>> \in Seq({x, y}) /\ Len(<<x, y>>) = 2 /\ <<x, y>>[1] = x /\ <<x, y>>[2] = y
    OBVIOUS
  <2> QED
    BY <2>1, SeqIs
<1>3. ASSUME NEW x, NEW y, NEW z
      PROVE  /\ IsSeq(<<x, y, z>>) /\ Len(<<x, y, z>>) = 3
             /\ <<x, y, z>>[1] = x /\ <<x, y, z>>[2] = y /\ <<x, y, z>>[3] = z
  <2>1. <<x, y, z>> \in Seq({x, y, z}) /\ Len(<<x, y, z>>) = 3
    OBVIOUS
  <2>2. <<x, y, z>>[1] = x /\ <<x, y, z>>[2] = y /\ <<x, y, z>>[3] = z
    OBVIOUS
  <2> QED
    BY <2>1, <2>2, SeqIs
<1> QED
  BY <1>1, <1>2, <1>3

-----------------------------------------------------------------------------
(* Code that grows: what was there keeps its kinds of instructions.        *)

Longer(c, d) ==
  /\ Len(c) <= Len(d) /\ \A k \in 1..Len(c) : d[k].op = c[k].op
  /\ Len(c) < Len(d) => d[Len(c) + 1].op # "Method"

(* Instructions that may be emitted behind code c.                         *)
PieceOK(t, c, n, cs) ==
  /\ IsSeq(t)
  /\ \A k \in 1..Len(t) :
       /\ IsInstruction(t[k]) /\ OperandOK(t[k], n, cs)
       /\ t[k].op = "Method" => k > 1 /\ t[k - 1].op = "Push_Closure"
       /\ t[k].op \in Jumps => t[k].x \in Unset \/ Target(c, t[k].x)

(* Those of an expression: no jumps, no closures.                          *)
Straight(t, n) ==
  /\ IsSeq(t)
  /\ \A k \in 1..Len(t) :
       /\ IsInstruction(t[k]) /\ t[k].op \notin Jumps /\ t[k].op # "Method" /\ t[k].op # "Push_Closure"
       /\ t[k].op \in OfHeap => t[k].x \in 0..n-1
       /\ t[k].op \in {"Call_Function", "Call_Class"} => t[k].x \in {0, 1}

Shifted(n, s) == {n + k : k \in s}

LEMMA LongerIs ==
  ASSUME NEW c, NEW d, IsSeq(c), IsSeq(d), Longer(c, d)
  PROVE  /\ \A t : Target(c, t) => Target(d, t)
         /\ \A k : JumpAt(c, k) => JumpAt(d, k)
<1>1. Len(c) \in Nat /\ Len(d) \in Nat /\ Len(c) <= Len(d)
  BY DEF IsSeq, Longer
<1>2. ASSUME NEW t, Target(c, t) PROVE Target(d, t)
  <2>1. t \in 1..Len(c)+1 /\ t \in 1..Len(d)+1
    BY <1>1, <1>2 DEF Target
  <2>2. CASE t <= Len(c)
    <3>1. t \in 1..Len(c) /\ c[t].op # "Method"
      BY <1>1, <1>2, <2>1, <2>2 DEF Target
    <3>2. d[t].op # "Method"
      BY <3>1 DEF Longer
    <3> QED
      BY <2>1, <3>2 DEF Target
  <2>3. CASE t = Len(c) + 1
    <3>1. t <= Len(d) => Len(c) < Len(d)
      BY <1>1, <2>3
    <3> QED
      BY <2>1, <2>3, <3>1 DEF Target, Longer
  <2> QED
    BY <1>1, <2>1, <2>2, <2>3
<1>3. ASSUME NEW k, JumpAt(c, k) PROVE JumpAt(d, k)
  BY <1>1, <1>3 DEF JumpAt, Longer
<1> QED
  BY <1>2, <1>3

LEMMA LongerSame == ASSUME NEW c, IsSeq(c) PROVE Longer(c, c)
  BY DEF Longer, IsSeq

LEMMA LongerTransitive ==
  ASSUME NEW c, NEW d, NEW e, IsSeq(c), IsSeq(d), IsSeq(e), Longer(c, d), Longer(d, e)
  PROVE  Longer(c, e)
<1>1. Len(c) \in Nat /\ Len(d) \in Nat /\ Len(e) \in Nat /\ Len(c) <= Len(d) /\ Len(d) <= Len(e)
  BY DEF IsSeq, Longer
<1>2. \A k \in 1..Len(c) : k \in 1..Len(d) /\ e[k].op = c[k].op
  BY <1>1 DEF Longer
<1>3. ASSUME Len(c) < Len(e) PROVE e[Len(c) + 1].op # "Method"
  <2>1. CASE Len(c) < Len(d)
    <3>1. Len(c) + 1 \in 1..Len(d)
      BY <1>1, <2>1
    <3> QED
      BY <2>1, <3>1 DEF Longer
  <2>2. CASE Len(c) = Len(d)
    BY <1>3, <2>2 DEF Longer
  <2> QED
    BY <1>1, <2>1, <2>2
<1> QED
  BY <1>1, <1>2, <1>3 DEF Longer

LEMMA StraightIs ==
  ASSUME NEW t, NEW n, NEW c, NEW cs, Straight(t, n)
  PROVE  PieceOK(t, c, n, cs) /\ Loose(t) = {}
  BY DEF Straight, PieceOK, OperandOK, Loose, Dangling

(* Emitting.                                                               *)
LEMMA LonglyConcat ==
  ASSUME NEW c, NEW t, NEW n, NEW cs, CodeOK(c, n, cs), PieceOK(t, c, n, cs)
  PROVE  /\ CodeOK(c \o t, n, cs) /\ Longer(c, c \o t)
         /\ Loose(c \o t) = Loose(c) \cup Shifted(Len(c), Loose(t))
         /\ Len(c \o t) = Len(c) + Len(t)
<1> DEFINE d == c \o t
<1>1. /\ IsSeq(c) /\ IsSeq(t) /\ Len(c) \in Nat /\ Len(t) \in Nat
  BY DEF CodeOK, PieceOK, IsSeq
<1>2. /\ IsSeq(d) /\ Len(d) = Len(c) + Len(t)
      /\ \A k \in 1..Len(c) : d[k] = c[k]
      /\ \A k \in 1..Len(t) : d[Len(c) + k] = t[k]
  BY <1>1, ConcatIs
<1> HIDE DEF d
<1>3. \A k \in 1..Len(d) : k \in 1..Len(c) \/ (k - Len(c) \in 1..Len(t) /\ d[k] = t[k - Len(c)])
  <2>1. ASSUME NEW k \in 1..Len(d), k \notin 1..Len(c)
        PROVE  k - Len(c) \in 1..Len(t) /\ k = Len(c) + (k - Len(c))
    BY <1>1, <1>2, <2>1
  <2> QED
    BY <1>2, <2>1
<1>4. Longer(c, d)
  <2>1. ASSUME Len(c) < Len(d) PROVE d[Len(c) + 1].op # "Method"
    <3>1. 1 \in 1..Len(t)
      BY <1>1, <1>2, <2>1
    <3>2. t[1].op # "Method"
      BY <3>1 DEF PieceOK
    <3> QED
      BY <1>2, <3>1, <3>2
  <2> QED
    BY <1>1, <1>2, <2>1 DEF Longer
<1>5. ASSUME NEW k \in 1..Len(d)
      PROVE  /\ IsInstruction(d[k]) /\ OperandOK(d[k], n, cs)
             /\ d[k].op = "Method" => k > 1 /\ d[k - 1].op = "Push_Closure"
             /\ d[k].op \in Jumps => d[k].x \in Unset \/ Target(d, d[k].x)
  <2>1. CASE k \in 1..Len(c)
    <3>1. d[k] = c[k]
      BY <1>2, <2>1
    <3>2. /\ IsInstruction(c[k]) /\ OperandOK(c[k], n, cs)
          /\ c[k].op = "Method" => k > 1 /\ c[k - 1].op = "Push_Closure"
          /\ c[k].op \in Jumps => c[k].x \in Unset \/ Target(c, c[k].x)
      BY <2>1 DEF CodeOK
    <3>3. k > 1 => d[k - 1] = c[k - 1]
      BY <1>1, <1>2, <2>1
    <3>4. \A x : Target(c, x) => Target(d, x)
      BY <1>1, <1>2, <1>4, LongerIs
    <3> QED
      BY <3>1, <3>2, <3>3, <3>4
  <2>2. CASE k \notin 1..Len(c)
    <3> DEFINE j == k - Len(c)
    <3>1. j \in 1..Len(t) /\ d[k] = t[j]
      BY <1>3, <2>2
    <3>2. /\ IsInstruction(t[j]) /\ OperandOK(t[j], n, cs)
          /\ t[j].op = "Method" => j > 1 /\ t[j - 1].op = "Push_Closure"
          /\ t[j].op \in Jumps => t[j].x \in Unset \/ Target(c, t[j].x)
      BY <3>1 DEF PieceOK
    <3>3. j > 1 => k > 1 /\ d[k - 1] = t[j - 1]
      <4>1. ASSUME j > 1 PROVE k > 1 /\ j - 1 \in 1..Len(t) /\ Len(c) + (j - 1) = k - 1
        BY <1>1, <3>1, <4>1
      <4> QED
        BY <1>2, <4>1
    <3>4. \A x : Target(c, x) => Target(d, x)
      BY <1>1, <1>2, <1>4, LongerIs
    <3> QED
      BY <3>1, <3>2, <3>3, <3>4
  <2> QED
    BY <2>1, <2>2
<1>6. CodeOK(d, n, cs)
  BY <1>2, <1>5 DEF CodeOK
<1>7. ASSUME NEW k PROVE k \in Loose(d) <=> k \in Loose(c) \cup Shifted(Len(c), Loose(t))
  <2>1. ASSUME k \in Loose(d) PROVE k \in Loose(c) \cup Shifted(Len(c), Loose(t))
    <3>1. k \in 1..Len(d) /\ Dangling(d[k])
      BY <2>1 DEF Loose
    <3>2. CASE k \in 1..Len(c)
      BY <1>2, <3>1, <3>2 DEF Loose
    <3>3. CASE k \notin 1..Len(c)
      <4>1. k - Len(c) \in Loose(t) /\ k = Len(c) + (k - Len(c))
        BY <1>1, <1>2, <1>3, <3>1, <3>3 DEF Loose
      <4> QED
        BY <4>1 DEF Shifted
    <3> QED
      BY <3>2, <3>3
  <2>2. ASSUME k \in Loose(c) PROVE k \in Loose(d)
    <3>1. k \in 1..Len(c) /\ k \in 1..Len(d) /\ Dangling(d[k])
      BY <1>1, <1>2, <2>2 DEF Loose
    <3> QED
      BY <3>1 DEF Loose
  <2>3. ASSUME k \in Shifted(Len(c), Loose(t)) PROVE k \in Loose(d)
    <3>1. PICK j \in Loose(t) : k = Len(c) + j
      BY <2>3 DEF Shifted
    <3>2. j \in 1..Len(t) /\ Dangling(t[j])
      BY <3>1 DEF Loose
    <3>3. k \in 1..Len(d) /\ d[k] = t[j]
      BY <1>1, <1>2, <3>1, <3>2
    <3> QED
      BY <3>2, <3>3 DEF Loose
  <2> QED
    BY <2>1, <2>2, <2>3
<1> QED
  BY <1>2, <1>4, <1>6, <1>7 DEF d

(* Patching: jumps in ps get the place behind the code.                    *)
Repointed(c, d, ps) ==
  /\ IsSeq(d) /\ Len(d) = Len(c)
  /\ \A k \in 1..Len(c) :
       /\ IsInstruction(d[k]) /\ d[k].op = c[k].op
       /\ d[k].x = IF k \in ps THEN Len(c) + 1 ELSE c[k].x

LEMMA RepointedIs ==
  ASSUME NEW c, NEW d, NEW ps, NEW n, NEW cs, CodeOK(c, n, cs), Repointed(c, d, ps), \A k \in ps : JumpAt(c, k)
  PROVE  CodeOK(d, n, cs) /\ Longer(c, d) /\ Loose(d) = Loose(c) \ ps
<1>1. /\ IsSeq(c) /\ IsSeq(d) /\ Len(c) \in Nat /\ Len(d) = Len(c)
  BY DEF CodeOK, Repointed, IsSeq
<1>2. Longer(c, d)
  BY <1>1 DEF Longer, Repointed
<1>3. \A x : Target(c, x) => Target(d, x)
  BY <1>1, <1>2, LongerIs
<1>4. Target(c, Len(c) + 1) /\ Len(c) + 1 \notin Unset
  BY <1>1 DEF Target, Unset
<1>5. ASSUME NEW k \in 1..Len(d)
      PROVE  /\ IsInstruction(d[k]) /\ OperandOK(d[k], n, cs)
             /\ d[k].op = "Method" => k > 1 /\ d[k - 1].op = "Push_Closure"
             /\ d[k].op \in Jumps => d[k].x \in Unset \/ Target(d, d[k].x)
  <2>1. /\ k \in 1..Len(c) /\ IsInstruction(d[k]) /\ d[k].op = c[k].op
        /\ d[k].x = IF k \in ps THEN Len(c) + 1 ELSE c[k].x
    BY <1>1 DEF Repointed
  <2>2. /\ OperandOK(c[k], n, cs)
        /\ c[k].op = "Method" => k > 1 /\ c[k - 1].op = "Push_Closure"
        /\ c[k].op \in Jumps => c[k].x \in Unset \/ Target(c, c[k].x)
    BY <2>1 DEF CodeOK
  <2>3. k > 1 => d[k - 1].op = c[k - 1].op
    BY <1>1, <2>1 DEF Repointed
  <2>4. OperandOK(d[k], n, cs)
    <3>1. CASE k \in ps
      <4>1. d[k].op \in Jumps
        BY <2>1, <3>1 DEF JumpAt
      <4> QED
        BY <4>1 DEF OperandOK, Jumps, OfHeap
    <3>2. CASE k \notin ps
      BY <2>1, <2>2, <3>2 DEF OperandOK
    <3> QED
      BY <3>1, <3>2
  <2> QED
    BY <1>3, <1>4, <2>1, <2>2, <2>3, <2>4
<1>6. CodeOK(d, n, cs)
  BY <1>1, <1>5 DEF CodeOK
<1>7. ASSUME NEW k \in 1..Len(c) PROVE Dangling(d[k]) <=> k \notin ps /\ Dangling(c[k])
  BY <1>4 DEF Repointed, Dangling
<1> QED
  BY <1>1, <1>2, <1>6, <1>7 DEF Loose

(* Code stays right when more is captured and more is compiled.            *)
Extends(cs, ds) == Len(cs) <= Len(ds) /\ \A i \in 1..Len(cs) : ds[i] = cs[i]

LEMMA CodeStays ==
  ASSUME NEW c, NEW m \in Nat, NEW n \in Nat, m <= n, NEW cs, NEW ds, IsSeq(cs), IsSeq(ds), Extends(cs, ds), CodeOK(c, m, cs)
  PROVE  CodeOK(c, n, ds)
<1>1. ASSUME NEW k \in 1..Len(c) PROVE OperandOK(c[k], n, ds)
  <2>1. OperandOK(c[k], m, cs)
    BY DEF CodeOK
  <2>2. c[k].op \in OfHeap => c[k].x \in 0..n-1
    BY <2>1 DEF OperandOK
  <2>3. ASSUME c[k].op = "Push_Closure"
        PROVE  c[k].x \in 1..Len(ds) /\ FitIn(ds[c[k].x].outsiders, n)
    <3>1. c[k].x \in 1..Len(cs) /\ FitIn(cs[c[k].x].outsiders, m)
      BY <2>1, <2>3 DEF OperandOK
    <3>2. c[k].x \in 1..Len(ds) /\ ds[c[k].x] = cs[c[k].x]
      BY <3>1 DEF Extends, IsSeq
    <3> QED
      BY SMTT(30), <3>1, <3>2 DEF FitIn
  <2> QED
    BY <2>1, <2>2, <2>3 DEF OperandOK
<1> QED
  BY <1>1 DEF CodeOK

LEMMA StraightStays ==
  ASSUME NEW t, NEW m \in Nat, NEW n \in Nat, m <= n, Straight(t, m)
  PROVE  Straight(t, n)
  BY DEF Straight

LEMMA StraightConcat ==
  ASSUME NEW s, NEW t, NEW n, Straight(s, n), Straight(t, n)
  PROVE  Straight(s \o t, n)
<1>1. IsSeq(s) /\ IsSeq(t) /\ Len(s) \in Nat /\ Len(t) \in Nat
  BY DEF Straight, IsSeq
<1>2. PICK d : d = s \o t
  OBVIOUS
<1>3. /\ IsSeq(d) /\ Len(d) = Len(s) + Len(t)
      /\ \A k \in 1..Len(s) : d[k] = s[k]
      /\ \A k \in 1..Len(t) : d[Len(s) + k] = t[k]
  BY <1>1, <1>2, ConcatIs
<1>4. ASSUME NEW k \in 1..Len(d)
      PROVE  \/ k \in 1..Len(s) /\ d[k] = s[k]
             \/ k - Len(s) \in 1..Len(t) /\ d[k] = t[k - Len(s)]
  <2>1. CASE k <= Len(s)
    BY <1>1, <1>3, <2>1
  <2>2. CASE ~(k <= Len(s))
    <3>1. k - Len(s) \in 1..Len(t) /\ k = Len(s) + (k - Len(s))
      BY <1>1, <1>3, <2>2
    <3> QED
      BY <1>3, <3>1
  <2> QED
    BY <2>1, <2>2
<1>5. Straight(d, n)
  BY <1>3, <1>4 DEF Straight
<1> QED
  BY <1>2, <1>5

LEMMA StraightAppend ==
  ASSUME NEW s, NEW i, NEW n, Straight(s, n), Straight(<<i>>, n)
  PROVE  Straight(Append(s, i), n)
<1>1. IsSeq(s) /\ Len(s) \in Nat
  BY DEF Straight, IsSeq
<1>2. PICK d : d = Append(s, i)
  OBVIOUS
<1>3. /\ IsSeq(d) /\ Len(d) = Len(s) + 1 /\ d[Len(s) + 1] = i
      /\ \A k \in 1..Len(s) : d[k] = s[k]
  BY <1>1, <1>2, AppendIs
<1>4. Len(<<i>>) = 1 /\ <<i>>[1] = i
  BY TuplesAre
<1>5. \A k \in 1..Len(d) : k \in 1..Len(s) \/ d[k] = <<i>>[1]
  BY <1>1, <1>3, <1>4
<1>6. 1 \in 1..Len(<<i>>)
  BY <1>4
<1>7. Straight(d, n)
  BY <1>3, <1>5, <1>6 DEF Straight
<1> QED
  BY <1>2, <1>7

-----------------------------------------------------------------------------
(* What is done to the function that is being compiled.                    *)

SameShape(f, g) == g.depth = f.depth /\ g.locals = f.locals /\ g.outsiders = f.outsiders

Coded(f, d) == [f EXCEPT !.code = d]
LEMMA WithCode ==
  ASSUME NEW f, NEW cs, FunctionOK(f, cs), NEW d, CodeOK(d, Len(f.outsiders), cs), NEW g, g = Coded(f, d)
  PROVE  FunctionOK(g, cs) /\ SameShape(f, g) /\ g.code = d /\ g.kind = f.kind
<1>1. IsFunction(f)
  BY DEF FunctionOK
<1>2. g = [kind |-> f.kind, depth |-> f.depth, locals |-> f.locals, outsiders |-> f.outsiders, code |-> d]
  BY <1>1 DEF IsFunction, Coded
<1>3. IsFunction(g) /\ SameShape(f, g) /\ g.code = d /\ g.kind = f.kind
  BY <1>2 DEF IsFunction, SameShape
<1> QED
  BY <1>3 DEF FunctionOK, SameShape

Localized(f, ls) == [f EXCEPT !.locals = ls]
LEMMA WithLocals ==
  ASSUME NEW f, NEW cs, FunctionOK(f, cs), NEW ls, LocalsOK(ls), NEW g, g = Localized(f, ls)
  PROVE  FunctionOK(g, cs) /\ g.depth = f.depth /\ g.locals = ls /\ g.outsiders = f.outsiders /\ g.code = f.code
<1>1. IsFunction(f)
  BY DEF FunctionOK
<1>2. g = [kind |-> f.kind, depth |-> f.depth, locals |-> ls, outsiders |-> f.outsiders, code |-> f.code]
  BY <1>1 DEF IsFunction, Localized
<1>3. IsFunction(g) /\ g.depth = f.depth /\ g.locals = ls /\ g.outsiders = f.outsiders /\ g.code = f.code
  BY <1>2 DEF IsFunction
<1> QED
  BY <1>3 DEF FunctionOK

Emitted(f, g, t, cs) ==
  /\ FunctionOK(g, cs) /\ SameShape(f, g) /\ Longer(f.code, g.code) /\ g.kind = f.kind
  /\ g.code = f.code \o t /\ Len(g.code) = Len(f.code) + Len(t)
  /\ Loose(g.code) = Loose(f.code) \cup Shifted(Len(f.code), Loose(t))
LEMMA EmitIs ==
  ASSUME NEW f, NEW cs, FunctionOK(f, cs), NEW t, PieceOK(t, f.code, Len(f.outsiders), cs), NEW g, g = Emit(f, t)
  PROVE  Emitted(f, g, t, cs)
<1>1. PICK d : d = f.code \o t
  OBVIOUS
<1>2. CodeOK(f.code, Len(f.outsiders), cs)
  BY DEF FunctionOK
<1>3. /\ CodeOK(d, Len(f.outsiders), cs) /\ Longer(f.code, d)
      /\ Loose(d) = Loose(f.code) \cup Shifted(Len(f.code), Loose(t))
      /\ Len(d) = Len(f.code) + Len(t)
  BY <1>1, <1>2, LonglyConcat
<1>4. g = Coded(f, d)
  BY <1>1 DEF Emit, Coded
<1>5. FunctionOK(g, cs) /\ SameShape(f, g) /\ g.code = d /\ g.kind = f.kind
  BY <1>3, <1>4, WithCode
<1> QED
  BY <1>1, <1>3, <1>5 DEF Emitted

LEMMA PatchIs ==
  ASSUME NEW f, NEW cs, FunctionOK(f, cs), NEW i, JumpAt(f.code, i), NEW g, g = Patch(f, i)
  PROVE  /\ FunctionOK(g, cs) /\ SameShape(f, g) /\ Longer(f.code, g.code)
         /\ Len(g.code) = Len(f.code) /\ Loose(g.code) = Loose(f.code) \ {i}
<1>1. PICK c : c = f.code
  OBVIOUS
<1>2. CodeOK(c, Len(f.outsiders), cs) /\ IsFunction(f)
  BY <1>1 DEF FunctionOK
<1>3. /\ IsSeq(c) /\ i \in 1..Len(c) /\ IsInstruction(c[i])
      /\ \A k \in 1..Len(c) : IsInstruction(c[k])
  BY <1>1, <1>2 DEF CodeOK, JumpAt
<1>4. PICK v : v = Len(c) + 1
  OBVIOUS
<1>5. PICK n : n = [op |-> c[i].op, x |-> v, of |-> c[i].of, as |-> c[i].as, height |-> c[i].height]
  OBVIOUS
<1>6. PICK d : d = Updated(c, i, n)
  OBVIOUS
<1>7. [c[i] EXCEPT !.x = v] = n
  BY <1>3, <1>5 DEF IsInstruction
<1>8. g = Coded(f, d)
  BY <1>1, <1>4, <1>6, <1>7, Zenon DEF Patch, Here, Updated, Coded
<1>9. IsInstruction(n) /\ n.op = c[i].op /\ n.x = v
  BY <1>5 DEF IsInstruction
<1>10. /\ IsSeq(d) /\ Len(d) = Len(c)
       /\ \A k \in 1..Len(c) : d[k] = IF k = i THEN n ELSE c[k]
  BY <1>3, <1>6, UpdateIs
<1>11. Repointed(c, d, {i})
  BY <1>3, <1>4, <1>9, <1>10 DEF Repointed
<1>12. CodeOK(d, Len(f.outsiders), cs) /\ Longer(c, d) /\ Loose(d) = Loose(c) \ {i}
  <2>1. \A k \in {i} : JumpAt(c, k)
    BY <1>1
  <2> QED
    BY <1>2, <1>11, <2>1, RepointedIs
<1>13. FunctionOK(g, cs) /\ SameShape(f, g) /\ g.code = d /\ g.kind = f.kind
  BY <1>8, <1>12, WithCode
<1> QED
  BY <1>1, <1>10, <1>12, <1>13

(* The height of a statement is for the properties only.                   *)
LEMMA StatementIs ==
  ASSUME NEW f, NEW cs, FunctionOK(f, cs), NEW g, g = Statement(f)
  PROVE  /\ FunctionOK(g, cs) /\ SameShape(f, g) /\ Longer(f.code, g.code)
         /\ Len(g.code) = Len(f.code) /\ Loose(g.code) = Loose(f.code)
<1>1. PICK c : c = f.code
  OBVIOUS
<1>2. CodeOK(c, Len(f.outsiders), cs) /\ IsFunction(f)
  BY <1>1 DEF FunctionOK
<1>3. IsSeq(c) /\ \A k \in 1..Len(c) : IsInstruction(c[k])
  BY <1>2 DEF CodeOK
<1>4. CASE Len(f.code) = Len(Current.code)
  <2>1. g = f
    BY <1>4 DEF Statement
  <2> QED
    BY <1>1, <1>3, <2>1, LongerSame DEF SameShape
<1>5. CASE Len(f.code) # Len(Current.code)
  <2>1. PICK i, v : i = Here(Current) /\ v = Len(Current.locals)
    OBVIOUS
  <2>2. PICK n : n = [c[i] EXCEPT !.height = v]
    OBVIOUS
  <2>3. PICK d : d = Updated(c, i, n)
    OBVIOUS
  <2>4. g = Coded(f, d)
    BY <1>1, <1>5, <2>1, <2>2, <2>3, Zenon DEF Statement, Updated, Coded
  <2>5. i \in 1..Len(c) => IsInstruction(n) /\ n.op = c[i].op /\ n.x = c[i].x
    <3>1. ASSUME i \in 1..Len(c)
          PROVE  n = [op |-> c[i].op, x |-> c[i].x, of |-> c[i].of, as |-> c[i].as, height |-> v]
      <4>1. PICK m : m = c[i]
        OBVIOUS
      <4>2. m = [op |-> m.op, x |-> m.x, of |-> m.of, as |-> m.as, height |-> m.height]
        BY <1>3, <3>1, <4>1 DEF IsInstruction
      <4>3. n = [m EXCEPT !.height = v]
        BY <2>2, <4>1
      <4>4. n = [op |-> m.op, x |-> m.x, of |-> m.of, as |-> m.as, height |-> v]
        BY <4>2, <4>3
      <4> QED
        BY <4>1, <4>4
    <3> QED
      BY <3>1 DEF IsInstruction
  <2>6. /\ IsSeq(d) /\ Len(d) = Len(c)
        /\ \A k \in 1..Len(c) : d[k] = IF k = i THEN n ELSE c[k]
    BY <1>3, <2>3, UpdateIs
  <2>7. Repointed(c, d, {})
    BY <1>3, <2>5, <2>6 DEF Repointed
  <2>8. CodeOK(d, Len(f.outsiders), cs) /\ Longer(c, d) /\ Loose(d) = Loose(c)
    <3>1. Loose(c) \ {} = Loose(c)
      OBVIOUS
    <3> QED
      BY <1>2, <2>7, <3>1, RepointedIs
  <2>9. FunctionOK(g, cs) /\ SameShape(f, g) /\ g.code = d /\ g.kind = f.kind
    BY <2>4, <2>8, WithCode
  <2> QED
    BY <1>1, <2>6, <2>8, <2>9
<1> QED
  BY <1>4, <1>5

LEMMA BeginScopeIs ==
  ASSUME NEW f, NEW cs, FunctionOK(f, cs), NEW g, g = BeginScope(f)
  PROVE  FunctionOK(g, cs) /\ g.depth = f.depth + 1 /\ g.locals = f.locals /\ g.outsiders = f.outsiders /\ g.code = f.code
<1>1. IsFunction(f) /\ f.depth \in Nat
  BY DEF FunctionOK
<1>2. g = [kind |-> f.kind, depth |-> f.depth + 1, locals |-> f.locals, outsiders |-> f.outsiders, code |-> f.code]
  BY <1>1 DEF IsFunction, BeginScope
<1>3. /\ IsFunction(g) /\ g.depth = f.depth + 1 /\ g.locals = f.locals /\ g.outsiders = f.outsiders
      /\ g.code = f.code
  BY <1>2 DEF IsFunction
<1> QED
  BY <1>1, <1>3 DEF FunctionOK

LEMMA DeclareIs ==
  ASSUME NEW f, NEW cs, FunctionOK(f, cs), Len(f.locals) < MaxLocals, NEW n, NEW depth, NEW decl,
         NEW g, g = Declare(f, n, depth, decl)
  PROVE  /\ FunctionOK(g, cs) /\ g.depth = f.depth /\ g.outsiders = f.outsiders /\ g.code = f.code
         /\ Len(g.locals) = Len(f.locals) + 1
<1>1. PICK ls, l : ls = Append(f.locals, l) /\ l = Local(n, depth, decl)
  OBVIOUS
<1>2. IsSeq(f.locals) /\ Len(f.locals) \in 1..MaxLocals /\ MaxLocals \in Nat
  BY CompilerAssumption DEF FunctionOK, LocalsOK
<1>3. /\ IsSeq(ls) /\ Len(ls) = Len(f.locals) + 1
      /\ \A i \in 1..Len(f.locals) : ls[i] = f.locals[i]
      /\ ls[Len(f.locals) + 1] = l
  BY <1>1, <1>2, AppendIs
<1>4. IsLocal(l)
  BY <1>1 DEF Local, IsLocal
<1>5. \A i \in 1..Len(ls) : IsLocal(ls[i])
  BY <1>2, <1>3, <1>4 DEF FunctionOK, LocalsOK
<1>6. LocalsOK(ls)
  BY <1>2, <1>3, <1>5 DEF FunctionOK, LocalsOK
<1>7. g = Localized(f, ls)
  BY <1>1 DEF Declare, Localized
<1> QED
  BY <1>3, <1>6, <1>7, WithLocals

LEMMA EndScopeIs ==
  ASSUME NEW f, NEW cs, FunctionOK(f, cs), f.depth # 0, NEW g, g = EndScope(f)
  PROVE  /\ FunctionOK(g, cs) /\ g.depth = f.depth - 1 /\ g.outsiders = f.outsiders
         /\ Longer(f.code, g.code) /\ Loose(g.code) = Loose(f.code)
<1>1. PICK S : S = {i \in DOMAIN f.locals : f.locals[i].scope_depth < f.depth}
  OBVIOUS
<1>2. PICK kept : kept = Max(S \cup {0})
  OBVIOUS
<1>3. PICK gone : gone = Reverse(SubSeq(f.locals, kept + 1, Len(f.locals)))
  OBVIOUS
<1>4. PICK t : t = [i \in DOMAIN gone |-> Do(IF gone[i].moved THEN "Move_Value_To_Heap" ELSE "Pop")]
  OBVIOUS
<1>5. PICK d, ls : d = f.code \o t /\ ls = SubSeq(f.locals, 1, kept)
  OBVIOUS
<1>6. g = [f EXCEPT !.depth = @ - 1, !.locals = ls, !.code = d]
  BY <1>1, <1>2, <1>3, <1>4, <1>5, Zenon DEF EndScope
<1>7. /\ IsFunction(f) /\ f.depth \in Nat /\ CodeOK(f.code, Len(f.outsiders), cs)
      /\ IsSeq(f.locals) /\ Len(f.locals) \in 1..MaxLocals /\ f.locals[1].scope_depth = 0
      /\ MaxLocals \in Nat /\ \A i \in 1..Len(f.locals) : IsLocal(f.locals[i])
  BY CompilerAssumption DEF FunctionOK, LocalsOK
<1>8. Len(f.locals) \in Nat /\ DOMAIN f.locals = 1..Len(f.locals)
  BY <1>7 DEF IsSeq
<1>9. S \cup {0} \subseteq 0..Len(f.locals) /\ 1 \in S
  BY <1>1, <1>7, <1>8
<1>10. kept \in S \cup {0} /\ \A n \in S \cup {0} : n <= kept
  BY <1>2, <1>8, <1>9, MaxOfNaturals
<1>11. kept \in 1..Len(f.locals)
  BY <1>8, <1>9, <1>10
<1>12. LocalsOK(ls)
  <2>1. /\ IsSeq(ls) /\ Len(ls) = kept /\ \A i \in 1..kept : ls[i] = f.locals[i]
    BY <1>5, <1>7, <1>8, <1>11, PrefixIs
  <2> QED
    BY <1>7, <1>8, <1>11, <2>1 DEF LocalsOK
<1>13. \E n \in Nat : DOMAIN gone = 1..n
  <2>1. PICK u : u = SubSeq(f.locals, kept + 1, Len(f.locals))
    OBVIOUS
  <2>2. u \in Seq({f.locals[i] : i \in 1..Len(f.locals)})
    <3>1. PICK T : T = {f.locals[i] : i \in 1..Len(f.locals)}
      OBVIOUS
    <3>2. f.locals \in Seq(T)
      BY <1>7, <3>1, SeqIs
    <3>3. u \in Seq(T)
      BY <1>8, <1>11, <2>1, <3>2
    <3> QED
      BY <3>1, <3>3
  <2>3. Len(u) \in Nat /\ DOMAIN gone = 1..Len(u)
    BY <1>3, <2>1, <2>2 DEF Reverse
  <2> QED
    BY <2>3
<1>14. PICK n \in Nat : DOMAIN gone = 1..n
  BY <1>13
<1>15. Straight(t, Len(f.outsiders))
  <2>1. t = [i \in 1..n |-> t[i]]
    BY <1>4, <1>14
  <2>2. IsSeq(t) /\ Len(t) = n
    BY <2>1, MapIs
  <2>3. ASSUME NEW k \in 1..n PROVE t[k] = Do("Move_Value_To_Heap") \/ t[k] = Do("Pop")
    BY <1>4, <1>14
  <2>4. ASSUME NEW i, i = Do("Move_Value_To_Heap") \/ i = Do("Pop")
        PROVE  /\ IsInstruction(i) /\ i.op \notin Jumps /\ i.op # "Method" /\ i.op # "Push_Closure"
               /\ i.op \notin OfHeap /\ i.op \notin {"Call_Function", "Call_Class"}
    BY <2>4 DEF Do, Instruction, IsInstruction, Jumps, OfHeap
  <2> QED
    BY <2>2, <2>3, <2>4 DEF Straight
<1>16. CodeOK(d, Len(f.outsiders), cs) /\ Longer(f.code, d) /\ Loose(d) = Loose(f.code)
  <2>1. PieceOK(t, f.code, Len(f.outsiders), cs) /\ Loose(t) = {}
    BY <1>15, StraightIs
  <2>2. Shifted(Len(f.code), Loose(t)) = {}
    BY <2>1 DEF Shifted
  <2>3. CodeOK(f.code, Len(f.outsiders), cs)
    BY <1>7
  <2>4. /\ CodeOK(d, Len(f.outsiders), cs) /\ Longer(f.code, d)
        /\ Loose(d) = Loose(f.code) \cup Shifted(Len(f.code), Loose(t))
    BY <1>5, <2>1, <2>3, LonglyConcat
  <2> QED
    BY <2>2, <2>4
<1>17. g = [kind |-> f.kind, depth |-> f.depth - 1, locals |-> ls, outsiders |-> f.outsiders, code |-> d]
  BY <1>6, <1>7 DEF IsFunction
<1>18. IsFunction(g) /\ g.depth = f.depth - 1 /\ g.locals = ls /\ g.outsiders = f.outsiders /\ g.code = d
  BY <1>17 DEF IsFunction
<1>19. f.depth - 1 \in Nat
  BY <1>7
<1> QED
  BY <1>12, <1>16, <1>18, <1>19 DEF FunctionOK

Ordinary(op) ==
  op \notin Jumps /\ op # "Method" /\ op # "Push_Closure" /\ op \notin OfHeap /\ op \notin {"Call_Function", "Call_Class"}

LEMMA OrdinaryIs ==
  ASSUME NEW op, Ordinary(op), NEW x, NEW of, NEW as, NEW n
  PROVE  Straight(<<Instruction(op, x, of, as)>>, n)
<1>1. PICK i : i = Instruction(op, x, of, as)
  OBVIOUS
<1>2. IsInstruction(i) /\ i.op = op
  BY <1>1 DEF Instruction, IsInstruction
<1>3. IsSeq(<<i>>) /\ Len(<<i>>) = 1 /\ <<i>>[1] = i
  BY TuplesAre
<1>4. \A k \in 1..Len(<<i>>) : <<i>>[k] = i
  BY <1>3
<1>5. Straight(<<i>>, n)
  BY <1>2, <1>3, <1>4 DEF Straight, Ordinary
<1> QED
  BY <1>1, <1>5

LEMMA CallIs ==
  ASSUME NEW op \in {"Call_Function", "Call_Class"}, NEW x \in {0, 1}, NEW of, NEW as, NEW n
  PROVE  Straight(<<Instruction(op, x, of, as)>>, n)
<1>1. PICK i : i = Instruction(op, x, of, as)
  OBVIOUS
<1>2. IsInstruction(i) /\ i.op = op /\ i.x = x
  BY <1>1 DEF Instruction, IsInstruction
<1>3. IsSeq(<<i>>) /\ Len(<<i>>) = 1 /\ <<i>>[1] = i
  BY TuplesAre
<1>4. \A k \in 1..Len(<<i>>) : <<i>>[k] = i
  BY <1>3
<1>5. op \notin Jumps /\ op # "Method" /\ op # "Push_Closure" /\ op \notin OfHeap
  BY DEF Jumps, OfHeap
<1>6. Straight(<<i>>, n)
  BY <1>2, <1>3, <1>4, <1>5 DEF Straight
<1> QED
  BY <1>1, <1>6

LEMMA StraightEmpty == ASSUME NEW n PROVE Straight(<<>>, n)
  BY EmptyIs DEF Straight

(* One that jumps.                                                         *)
LEMMA JumpIs ==
  ASSUME NEW op \in Jumps, NEW x, NEW of, NEW as, NEW c, NEW n, NEW cs, x \in Unset \/ Target(c, x)
  PROVE  /\ PieceOK(<<Instruction(op, x, of, as)>>, c, n, cs)
         /\ Loose(<<Instruction(op, x, of, as)>>) = IF x \in Unset THEN {1} ELSE {}
         /\ Len(<<Instruction(op, x, of, as)>>) = 1
<1>1. PICK i : i = Instruction(op, x, of, as)
  OBVIOUS
<1>2. IsInstruction(i) /\ i.op = op /\ i.x = x
  BY <1>1 DEF Instruction, IsInstruction
<1>3. IsSeq(<<i>>) /\ Len(<<i>>) = 1 /\ <<i>>[1] = i
  BY TuplesAre
<1>4. \A k \in 1..Len(<<i>>) : k = 1 /\ <<i>>[k] = i
  BY <1>3
<1>5. op \notin OfHeap /\ op \notin {"Call_Function", "Call_Class"} /\ op # "Push_Closure" /\ op # "Method"
  BY DEF Jumps, OfHeap
<1>6. PieceOK(<<i>>, c, n, cs)
  BY <1>2, <1>3, <1>4, <1>5 DEF PieceOK, OperandOK
<1>7. Loose(<<i>>) = {k \in {1} : x \in Unset}
  <2>1. 1..1 = {1}
    OBVIOUS
  <2> QED
    BY <1>2, <1>3, <1>4, <2>1 DEF Loose, Dangling
<1> QED
  BY <1>1, <1>3, <1>6, <1>7

(* Pieces one after the other.                                             *)
LEMMA PiecesAre ==
  ASSUME NEW s, NEW t, NEW c, NEW n, NEW cs, IsSeq(c), PieceOK(s, c, n, cs), PieceOK(t, c, n, cs)
  PROVE  /\ PieceOK(s \o t, c, n, cs)
         /\ Loose(s \o t) = Loose(s) \cup Shifted(Len(s), Loose(t))
         /\ Len(s \o t) = Len(s) + Len(t)
<1>1. IsSeq(s) /\ IsSeq(t) /\ Len(s) \in Nat /\ Len(t) \in Nat
  BY DEF PieceOK, IsSeq
<1>2. PICK d : d = s \o t
  OBVIOUS
<1>3. /\ IsSeq(d) /\ Len(d) = Len(s) + Len(t)
      /\ \A k \in 1..Len(s) : d[k] = s[k]
      /\ \A k \in 1..Len(t) : d[Len(s) + k] = t[k]
  BY <1>1, <1>2, ConcatIs
<1>4. ASSUME NEW k \in 1..Len(d)
      PROVE  \/ k \in 1..Len(s) /\ d[k] = s[k] /\ (k > 1 => d[k - 1] = s[k - 1])
             \/ k - Len(s) \in 1..Len(t) /\ d[k] = t[k - Len(s)] /\ (k - Len(s) > 1 => k > 1 /\ d[k - 1] = t[(k - Len(s)) - 1])
  <2>1. CASE k <= Len(s)
    BY <1>1, <1>3, <2>1
  <2>2. CASE ~(k <= Len(s))
    <3>1. k - Len(s) \in 1..Len(t) /\ k = Len(s) + (k - Len(s))
      BY <1>1, <1>3, <2>2
    <3>2. ASSUME k - Len(s) > 1
          PROVE  k > 1 /\ (k - Len(s)) - 1 \in 1..Len(t) /\ k - 1 = Len(s) + ((k - Len(s)) - 1)
      BY <1>1, <3>1, <3>2
    <3> QED
      BY <1>3, <3>1, <3>2
  <2> QED
    BY <2>1, <2>2
<1>5. PieceOK(d, c, n, cs)
  <2>1. ASSUME NEW k \in 1..Len(d)
        PROVE  /\ IsInstruction(d[k]) /\ OperandOK(d[k], n, cs)
               /\ d[k].op = "Method" => k > 1 /\ d[k - 1].op = "Push_Closure"
               /\ d[k].op \in Jumps => d[k].x \in Unset \/ Target(c, d[k].x)
    <3>1. CASE k \in 1..Len(s) /\ d[k] = s[k] /\ (k > 1 => d[k - 1] = s[k - 1])
      BY <3>1 DEF PieceOK
    <3>2. CASE k - Len(s) \in 1..Len(t) /\ d[k] = t[k - Len(s)]
                /\ (k - Len(s) > 1 => k > 1 /\ d[k - 1] = t[(k - Len(s)) - 1])
      <4>1. PICK j : j = k - Len(s)
        OBVIOUS
      <4>2. j \in 1..Len(t) /\ d[k] = t[j] /\ (j > 1 => k > 1 /\ d[k - 1] = t[j - 1])
        BY <3>2, <4>1
      <4> QED
        BY <4>2 DEF PieceOK
    <3> QED
      BY <1>4, <3>1, <3>2
  <2> QED
    BY <1>3, <2>1 DEF PieceOK
<1>6. ASSUME NEW k PROVE k \in Loose(d) <=> k \in Loose(s) \cup Shifted(Len(s), Loose(t))
  <2>1. ASSUME k \in Loose(d) PROVE k \in Loose(s) \cup Shifted(Len(s), Loose(t))
    <3>1. k \in 1..Len(d) /\ Dangling(d[k])
      BY <2>1 DEF Loose
    <3>2. CASE k \in 1..Len(s)
      BY <1>3, <3>1, <3>2 DEF Loose
    <3>3. CASE k \notin 1..Len(s)
      <4>1. k - Len(s) \in Loose(t) /\ k = Len(s) + (k - Len(s))
        BY <1>1, <1>3, <1>4, <3>1, <3>3 DEF Loose
      <4> QED
        BY <4>1 DEF Shifted
    <3> QED
      BY <3>2, <3>3
  <2>2. ASSUME k \in Loose(s) PROVE k \in Loose(d)
    <3>1. k \in 1..Len(s) /\ k \in 1..Len(d) /\ Dangling(d[k])
      BY <1>1, <1>3, <2>2 DEF Loose
    <3> QED
      BY <3>1 DEF Loose
  <2>3. ASSUME k \in Shifted(Len(s), Loose(t)) PROVE k \in Loose(d)
    <3>1. PICK j \in Loose(t) : k = Len(s) + j
      BY <2>3 DEF Shifted
    <3>2. j \in 1..Len(t) /\ Dangling(t[j])
      BY <3>1 DEF Loose
    <3>3. k \in 1..Len(d) /\ d[k] = t[j]
      BY <1>1, <1>3, <3>1, <3>2
    <3> QED
      BY <3>2, <3>3 DEF Loose
  <2> QED
    BY <2>1, <2>2, <2>3
<1> QED
  BY <1>2, <1>3, <1>5, <1>6

-----------------------------------------------------------------------------
LEMMA PatchBreaksIs ==
  ASSUME NEW f, NEW cs, FunctionOK(f, cs), NEW ps, ps = {breakpoints[i].operand : i \in Patched},
         \A k \in ps : JumpAt(f.code, k), NEW g, g = PatchBreaks(f)
  PROVE  /\ FunctionOK(g, cs) /\ SameShape(f, g) /\ Longer(f.code, g.code)
         /\ Len(g.code) = Len(f.code) /\ Loose(g.code) = Loose(f.code) \ ps
<1>1. PICK c : c = f.code
  OBVIOUS
<1>2. CodeOK(c, Len(f.outsiders), cs) /\ IsFunction(f)
  BY <1>1 DEF FunctionOK
<1>3. IsSeq(c) /\ Len(c) \in Nat /\ \A k \in 1..Len(c) : IsInstruction(c[k])
  BY <1>2 DEF CodeOK, IsSeq
<1>4. DOMAIN c = 1..Len(c)
  BY <1>3 DEF IsSeq
<1>5. PICK v : v = Len(c) + 1
  OBVIOUS
<1>6. PICK d : d = [i \in DOMAIN c |-> IF i \in ps THEN [c[i] EXCEPT !.x = v] ELSE c[i]]
  OBVIOUS
<1>7. g = Coded(f, d)
  BY <1>1, <1>5, <1>6, Zenon DEF PatchBreaks, Here, Coded
<1>8. d = [i \in 1..Len(c) |-> d[i]]
  BY <1>4, <1>6
<1>9. IsSeq(d) /\ Len(d) = Len(c)
  BY <1>3, <1>8, MapIs
<1>10. ASSUME NEW k \in 1..Len(c)
       PROVE  /\ IsInstruction(d[k]) /\ d[k].op = c[k].op
              /\ d[k].x = IF k \in ps THEN Len(c) + 1 ELSE c[k].x
  <2>1. PICK m : m = c[k]
    OBVIOUS
  <2>2. m = [op |-> m.op, x |-> m.x, of |-> m.of, as |-> m.as, height |-> m.height] /\ IsInstruction(m)
    BY <1>3, <2>1 DEF IsInstruction
  <2>3. CASE k \in ps
    <3>1. d[k] = [m EXCEPT !.x = v]
      BY <1>4, <1>6, <2>1, <2>3
    <3>2. d[k] = [op |-> m.op, x |-> v, of |-> m.of, as |-> m.as, height |-> m.height]
      BY <2>2, <3>1
    <3> QED
      BY <1>5, <2>1, <2>3, <3>2 DEF IsInstruction
  <2>4. CASE k \notin ps
    BY <1>4, <1>6, <2>1, <2>2, <2>4
  <2> QED
    BY <2>3, <2>4
<1>11. Repointed(c, d, ps)
  BY <1>9, <1>10 DEF Repointed
<1>12. CodeOK(d, Len(f.outsiders), cs) /\ Longer(c, d) /\ Loose(d) = Loose(c) \ ps
  <2>1. \A k \in ps : JumpAt(c, k)
    BY <1>1
  <2> QED
    BY <1>2, <1>11, <2>1, RepointedIs
<1>13. FunctionOK(g, cs) /\ SameShape(f, g) /\ g.code = d /\ g.kind = f.kind
  BY <1>7, <1>12, WithCode
<1> QED
  BY <1>1, <1>9, <1>12, <1>13

(* Patched in another function, of which only the shape is known.          *)
LEMMA PatchBreaksKeeps ==
  ASSUME NEW f, IsFunction(f), NEW g, g = PatchBreaks(f)
  PROVE  SameShape(f, g) /\ IsFunction(g)
<1>1. PICK d : g = Coded(f, d)
  BY Zenon DEF PatchBreaks, Coded
<1>2. g = [kind |-> f.kind, depth |-> f.depth, locals |-> f.locals, outsiders |-> f.outsiders, code |-> d]
  BY <1>1 DEF IsFunction, Coded
<1> QED
  BY <1>2 DEF IsFunction, SameShape

LEMMA EmitStraight ==
  ASSUME NEW f, NEW cs, FunctionOK(f, cs), NEW t, Straight(t, Len(f.outsiders)), NEW g, g = Emit(f, t)
  PROVE  /\ FunctionOK(g, cs) /\ SameShape(f, g) /\ Longer(f.code, g.code)
         /\ Loose(g.code) = Loose(f.code) /\ Len(g.code) = Len(f.code) + Len(t)
<1>1. PieceOK(t, f.code, Len(f.outsiders), cs) /\ Loose(t) = {}
  BY StraightIs
<1>2. Emitted(f, g, t, cs)
  BY <1>1, EmitIs
<1> QED
  BY <1>1, <1>2 DEF Emitted, Shifted

LEMMA InitializedIs ==
  ASSUME NEW f, NEW cs, FunctionOK(f, cs), NEW n, f.depth # 0 => Len(f.locals) > 1, NEW g, g = Initialized(f, n)
  PROVE  /\ FunctionOK(g, cs) /\ g.depth = f.depth /\ g.outsiders = f.outsiders /\ Len(g.locals) = Len(f.locals)
         /\ Longer(f.code, g.code) /\ Loose(g.code) = Loose(f.code)
<1>1. CASE f.depth = 0
  <2>1. PICK t : t = <<Operand("Define_Global", n)>>
    OBVIOUS
  <2>2. Straight(t, Len(f.outsiders))
    <3>1. Ordinary("Define_Global")
      BY DEF Ordinary, Jumps, OfHeap
    <3> QED
      BY <2>1, <3>1, OrdinaryIs DEF Operand
  <2>3. PICK h : h = Emit(f, t)
    OBVIOUS
  <2>4. g = h
    BY <1>1, <2>1, <2>3 DEF Initialized
  <2>5. FunctionOK(h, cs) /\ SameShape(f, h) /\ Longer(f.code, h.code) /\ Loose(h.code) = Loose(f.code)
    BY <2>2, <2>3, EmitStraight
  <2> QED
    BY <2>4, <2>5 DEF SameShape
<1>2. CASE f.depth # 0
  <2>1. PICK ls, v : ls = f.locals /\ v = f.depth
    OBVIOUS
  <2>2. IsSeq(ls) /\ Len(ls) \in 1..MaxLocals /\ Len(ls) > 1 /\ \A i \in 1..Len(ls) : IsLocal(ls[i])
    BY <1>2, <2>1 DEF FunctionOK, LocalsOK
  <2>3. Len(ls) \in Nat /\ Len(ls) \in 1..Len(ls)
    BY <2>2 DEF IsSeq
  <2>4. PICK m : m = ls[Len(ls)]
    OBVIOUS
  <2>5. PICK l : l = [m EXCEPT !.scope_depth = v]
    OBVIOUS
  <2>6. IsLocal(l)
    <3>1. m = [name |-> m.name, scope_depth |-> m.scope_depth, moved |-> m.moved, decl |-> m.decl]
      BY <2>2, <2>3, <2>4 DEF IsLocal
    <3>2. l = [name |-> m.name, scope_depth |-> v, moved |-> m.moved, decl |-> m.decl]
      BY <2>5, <3>1
    <3> QED
      BY <3>2 DEF IsLocal
  <2>7. PICK ms : ms = Updated(ls, Len(ls), l)
    OBVIOUS
  <2>8. g = Localized(f, ms)
    BY <1>2, <2>1, <2>4, <2>5, <2>7, Zenon DEF Initialized, Localized, Updated
  <2>9. IsSeq(ms) /\ Len(ms) = Len(ls) /\ \A j \in 1..Len(ls) : ms[j] = IF j = Len(ls) THEN l ELSE ls[j]
    BY <2>2, <2>7, UpdateIs
  <2>10. LocalsOK(ms)
    <3>1. ls[1].scope_depth = 0 /\ 1 \in 1..Len(ls) /\ 1 # Len(ls)
      BY <2>1, <2>2 DEF FunctionOK, LocalsOK
    <3> QED
      BY <2>2, <2>6, <2>9, <3>1 DEF LocalsOK
  <2>11. FunctionOK(g, cs) /\ g.depth = f.depth /\ g.locals = ms /\ g.outsiders = f.outsiders /\ g.code = f.code
    BY <2>8, <2>10, WithLocals
  <2>12. Longer(f.code, f.code)
    BY LongerSame DEF FunctionOK, CodeOK
  <2> QED
    BY <2>1, <2>9, <2>11, <2>12
<1> QED
  BY <1>1, <1>2

LEMMA ReservedIs ==
  ASSUME NEW f, NEW cs, FunctionOK(f, cs), NEW n, ~Refused(f, n), NEW decl, NEW g, g = Reserved(f, n, decl)
  PROVE  /\ FunctionOK(g, cs) /\ g.depth = f.depth /\ g.outsiders = f.outsiders /\ g.code = f.code
         /\ g.depth # 0 => Len(g.locals) > 1
<1>1. CASE f.depth = 0
  BY <1>1 DEF Reserved
<1>2. CASE f.depth # 0
  <2>1. f.depth > 0 /\ Len(f.locals) \in 1..MaxLocals /\ MaxLocals \in Nat
    BY <1>2, CompilerAssumption DEF FunctionOK, LocalsOK
  <2>2. Len(f.locals) < MaxLocals
    BY <2>1 DEF Refused, Full
  <2>3. g = Declare(f, n, -1, decl)
    BY <1>2 DEF Reserved
  <2>4. /\ FunctionOK(g, cs) /\ g.depth = f.depth /\ g.outsiders = f.outsiders /\ g.code = f.code
        /\ Len(g.locals) = Len(f.locals) + 1
    BY <2>2, <2>3, DeclareIs
  <2> QED
    BY <2>1, <2>4
<1> QED
  BY <1>1, <1>2

LEMMA ParametersAre ==
  ASSUME NEW cs, NEW kind, NEW decl, NEW d, NEW ps, IsSeq(ps), Len(ps) <= 1,
         NEW g, g = WithParameters(NewFunction(kind, decl), ps, d)
  PROVE  FunctionOK(g, cs) /\ g.depth = 2 /\ g.outsiders = <<>> /\ g.code = <<>>
<1>1. PICK l : l = Local(IF kind = "Function" THEN NoName ELSE Keli, 0, decl)
  OBVIOUS
<1>2. PICK t : t = [i \in DOMAIN ps |-> Local(ps[i], 1, d + i)]
  OBVIOUS
<1>3. DOMAIN ps = 1..Len(ps) /\ Len(ps) \in Nat
  BY DEF IsSeq
<1>4. IsSeq(t) /\ Len(t) = Len(ps)
  <2>1. t = [i \in 1..Len(ps) |-> t[i]]
    BY <1>2, <1>3
  <2> QED
    BY <1>3, <2>1, MapIs
<1>5. \A i \in 1..Len(t) : IsLocal(t[i])
  BY <1>2, <1>3, <1>4 DEF Local, IsLocal
<1>6. IsSeq(<<l>>) /\ Len(<<l>>) = 1 /\ <<l>>[1] = l /\ IsLocal(l) /\ l.scope_depth = 0
  BY <1>1, TuplesAre DEF Local, IsLocal
<1>7. PICK ls : ls = <<l>> \o t
  OBVIOUS
<1>8. /\ IsSeq(ls) /\ Len(ls) = 1 + Len(ps) /\ ls[1] = l
      /\ \A i \in 1..Len(t) : ls[1 + i] = t[i]
  <2>1. PICK s : s = <<l>>
    OBVIOUS
  <2>2. IsSeq(s) /\ Len(s) = 1 /\ s[1] = l /\ 1 \in 1..Len(s) /\ ls = s \o t
    BY <1>6, <1>7, <2>1
  <2>3. /\ IsSeq(s \o t) /\ Len(s \o t) = Len(s) + Len(t)
        /\ \A i \in 1..Len(s) : (s \o t)[i] = s[i]
        /\ \A i \in 1..Len(t) : (s \o t)[Len(s) + i] = t[i]
    <3>1. IsSeq(s) /\ IsSeq(t)
      BY <1>4, <2>2
    <3> HIDE <1>2, <1>7
    <3> QED
      BY <3>1, ConcatIs
  <2> QED
    BY <1>4, <2>2, <2>3
<1>9. LocalsOK(ls)
  <2>1. MaxLocals \in Nat /\ MaxLocals > 1
    BY CompilerAssumption
  <2>2. ASSUME NEW i \in 1..Len(ls) PROVE IsLocal(ls[i])
    <3>1. i = 1 \/ (i - 1 \in 1..Len(t) /\ 1 + (i - 1) = i)
      BY <1>3, <1>4, <1>8
    <3> QED
      BY <1>5, <1>6, <1>8, <3>1
  <2> QED
    BY <1>3, <1>6, <1>8, <2>1, <2>2 DEF LocalsOK
<1>10. g = [kind |-> kind, depth |-> 2, locals |-> ls, outsiders |-> <<>>, code |-> <<>>]
  <2>1. PICK s, e : s = <<l>> /\ e = <<>>
    OBVIOUS
  <2>2. NewFunction(kind, decl) = [kind |-> kind, depth |-> 0, locals |-> s, outsiders |-> e, code |-> e]
    BY <1>1, <2>1, Zenon DEF NewFunction
  <2>3. PICK f : f = [kind |-> kind, depth |-> 0, locals |-> s, outsiders |-> e, code |-> e]
    OBVIOUS
  <2>4. PICK m, h : m = BeginScope(f) /\ h = BeginScope(m)
    OBVIOUS
  <2>5. h = [kind |-> kind, depth |-> 2, locals |-> s, outsiders |-> e, code |-> e]
    <3>1. m = [kind |-> kind, depth |-> 1, locals |-> s, outsiders |-> e, code |-> e]
      BY <2>3, <2>4 DEF BeginScope
    <3>2. m.depth + 1 = 2
      BY <3>1
    <3>3. h = [m EXCEPT !.depth = 2]
      BY <2>4, <3>2 DEF BeginScope
    <3> QED
      BY <3>1, <3>3
  <2>6. g = [h EXCEPT !.locals = @ \o t]
    BY <1>2, <2>2, <2>3, <2>4, Zenon DEF WithParameters
  <2>7. h.locals = s
    BY <2>5
  <2>8. g = [h EXCEPT !.locals = ls]
    BY <1>7, <2>1, <2>6, <2>7, Zenon
  <2> QED
    BY <2>1, <2>5, <2>8
<1>11. IsFunction(g) /\ g.depth = 2 /\ g.locals = ls /\ g.outsiders = <<>> /\ g.code = <<>>
  BY <1>10 DEF IsFunction
<1>12. OutsidersOK(<<>>) /\ CodeOK(<<>>, 0, cs) /\ Len(<<>>) = 0
  BY EmptyIs DEF OutsidersOK, CodeOK
<1> QED
  BY <1>9, <1>11, <1>12 DEF FunctionOK

-----------------------------------------------------------------------------
(* Names.                                                                  *)

SameNames(ls, ms) == Len(ls) = Len(ms) /\ \A i \in 1..Len(ls) : ms[i].name = ls[i].name /\ ms[i].decl = ls[i].decl

LEMMA LocalIndexIs ==
  ASSUME NEW f, LocalsOK(f.locals), NEW n
  PROVE  /\ LocalIndex(f, n) \in -1..Len(f.locals)-1
         /\ LocalIndex(f, n) # -1 => LocalIndex(f, n) + 1 \in 1..Len(f.locals) /\ LocalIndex(f, n) \in 0..MaxLocals-1
<1>1. PICK S : S = {i \in DOMAIN f.locals : f.locals[i].name = n} \cup {0}
  OBVIOUS
<1>2. Len(f.locals) \in Nat /\ DOMAIN f.locals = 1..Len(f.locals) /\ Len(f.locals) \in 1..MaxLocals /\ MaxLocals \in Nat
  BY CompilerAssumption DEF LocalsOK, IsSeq
<1>3. S \subseteq 0..Len(f.locals) /\ S # {}
  BY <1>1, <1>2
<1>4. Max(S) \in S
  BY <1>2, <1>3, MaxOfNaturals
<1>5. LocalIndex(f, n) = Max(S) - 1
  BY <1>1 DEF LocalIndex
<1>6. PICK k : k = Max(S)
  OBVIOUS
<1>7. k \in 0..Len(f.locals) /\ LocalIndex(f, n) = k - 1
  BY <1>3, <1>4, <1>5, <1>6
<1> QED
  BY <1>2, <1>7

LEMMA LocalIndexSame ==
  ASSUME NEW f, NEW g, LocalsOK(f.locals), LocalsOK(g.locals), SameNames(f.locals, g.locals), NEW n
  PROVE  LocalIndex(g, n) = LocalIndex(f, n)
<1>1. DOMAIN f.locals = 1..Len(f.locals) /\ DOMAIN g.locals = 1..Len(f.locals)
  BY DEF LocalsOK, IsSeq, SameNames
<1>2. {i \in DOMAIN f.locals : f.locals[i].name = n} = {i \in DOMAIN g.locals : g.locals[i].name = n}
  BY <1>1 DEF SameNames
<1> QED
  BY <1>2 DEF LocalIndex

LEMMA HolderIs ==
  ASSUME NEW fs, IsSeq(fs), Len(fs) # 0, NEW n
  PROVE  /\ Holder(fs, n) \in 0..Len(fs)-1
         /\ Holder(fs, n) # 0 => LocalIndex(fs[Holder(fs, n)], n) # -1
<1>1. PICK S : S = {j \in 1..Len(fs)-1 : LocalIndex(fs[j], n) # -1} \cup {0}
  OBVIOUS
<1>2. Len(fs) \in Nat /\ Len(fs) - 1 \in Nat
  BY DEF IsSeq
<1>3. S \subseteq 0..Len(fs)-1 /\ S # {}
  BY <1>1, <1>2
<1>4. Max(S) \in S
  BY <1>2, <1>3, MaxOfNaturals
<1>5. Holder(fs, n) = Max(S)
  BY <1>1 DEF Holder
<1> QED
  BY <1>1, <1>2, <1>3, <1>4, <1>5

LEMMA HolderSame ==
  ASSUME NEW fs, NEW gs, Len(fs) = Len(gs), NEW n, \A j \in 1..Len(fs) : LocalIndex(gs[j], n) = LocalIndex(fs[j], n),
         Len(fs) \in Nat
  PROVE  Holder(gs, n) = Holder(fs, n)
<1>1. {j \in 1..Len(fs)-1 : LocalIndex(fs[j], n) # -1} = {j \in 1..Len(gs)-1 : LocalIndex(gs[j], n) # -1}
  OBVIOUS
<1> QED
  BY <1>1 DEF Holder

(* Outsiders.                                                              *)
More(os, ps) == Len(os) <= Len(ps) /\ \A i \in 1..Len(os) : ps[i] = os[i]

LEMMA AddOutsiderIs ==
  ASSUME NEW f, NEW cs, IsSeq(cs), FunctionOK(f, cs), NEW o, o.index \in Nat, o.location = "Stack" => o.index < MaxLocals,
         NEW g, g = AddOutsider(f, o)
  PROVE  /\ FunctionOK(g, cs) /\ g.depth = f.depth /\ g.locals = f.locals /\ g.code = f.code
         /\ More(f.outsiders, g.outsiders) /\ o \in ToSet(g.outsiders)
         /\ \A i \in 1..Len(g.outsiders) : g.outsiders[i] = o \/ (i \in 1..Len(f.outsiders) /\ g.outsiders[i] = f.outsiders[i])
<1>1. PICK os : os = f.outsiders
  OBVIOUS
<1>2. OutsidersOK(os) /\ IsSeq(os) /\ Len(os) \in Nat /\ DOMAIN os = 1..Len(os)
  BY <1>1 DEF FunctionOK, OutsidersOK, IsSeq
<1>3. CASE o \in ToSet(os)
  <2>1. g = f
    BY <1>1, <1>3 DEF AddOutsider
  <2> QED
    BY <1>1, <1>2, <1>3, <2>1 DEF More
<1>4. CASE o \notin ToSet(os)
  <2>1. PICK ps : ps = Append(os, o)
    OBVIOUS
  <2>2. /\ IsSeq(ps) /\ Len(ps) = Len(os) + 1 /\ ps[Len(os) + 1] = o
        /\ \A i \in 1..Len(os) : ps[i] = os[i]
    BY <1>2, <2>1, AppendIs
  <2>3. \A i \in 1..Len(ps) : i \in 1..Len(os) \/ i = Len(os) + 1
    BY <1>2, <2>2
  <2>4. \A i \in 1..Len(os) : os[i] # o
    BY <1>2, <1>4 DEF ToSet
  <2>5. OutsidersOK(ps)
    <3>1. ASSUME NEW i \in 1..Len(ps)
          PROVE  ps[i].index \in Nat /\ (ps[i].location = "Stack" => ps[i].index < MaxLocals)
      BY <1>2, <2>2, <2>3 DEF OutsidersOK
    <3>2. ASSUME NEW i \in 1..Len(ps), NEW j \in 1..Len(ps), ps[i] = ps[j] PROVE i = j
      <4>1. CASE i \in 1..Len(os) /\ j \in 1..Len(os)
        BY <1>2, <2>2, <3>2, <4>1 DEF OutsidersOK
      <4>2. CASE i \in 1..Len(os) /\ j = Len(os) + 1
        BY <2>2, <2>4, <3>2, <4>2
      <4>3. CASE i = Len(os) + 1 /\ j \in 1..Len(os)
        BY <2>2, <2>4, <3>2, <4>3
      <4> QED
        BY <2>3, <4>1, <4>2, <4>3
    <3> QED
      BY <2>2, <3>1, <3>2 DEF OutsidersOK
  <2>6. o \in ToSet(ps)
    <3>1. DOMAIN ps = 1..Len(ps) /\ Len(os) + 1 \in 1..Len(ps)
      BY <1>2, <2>2 DEF IsSeq
    <3> QED
      BY <2>2, <3>1 DEF ToSet
  <2>7. g = [f EXCEPT !.outsiders = ps]
    BY <1>1, <1>4, <2>1, Zenon DEF AddOutsider
  <2>8. IsFunction(f)
    BY DEF FunctionOK
  <2>9. g = [kind |-> f.kind, depth |-> f.depth, locals |-> f.locals, outsiders |-> ps, code |-> f.code]
    BY <2>7, <2>8 DEF IsFunction
  <2>10. IsFunction(g) /\ g.depth = f.depth /\ g.locals = f.locals /\ g.outsiders = ps /\ g.code = f.code
    BY <2>9 DEF IsFunction
  <2>11. CodeOK(f.code, Len(ps), cs)
    <3>1. CodeOK(f.code, Len(os), cs)
      BY <1>1 DEF FunctionOK
    <3>2. Len(os) \in Nat /\ Len(ps) \in Nat /\ Len(os) <= Len(ps)
      BY <1>2, <2>2
    <3>3. Extends(cs, cs)
      BY DEF Extends, IsSeq
    <3> QED
      BY <3>1, <3>2, <3>3, CodeStays
  <2>12. FunctionOK(g, cs)
    BY <2>5, <2>10, <2>11 DEF FunctionOK
  <2> QED
    BY <1>1, <1>2, <2>2, <2>3, <2>6, <2>10, <2>12 DEF More
<1> QED
  BY <1>3, <1>4

LEMMA OutsiderIndexIs ==
  ASSUME NEW f, IsSeq(f.outsiders), NEW o, NEW ps, ps = AddOutsider(f, o).outsiders, IsSeq(ps), o \in ToSet(ps)
  PROVE  OutsiderIndex(f, o) \in 0..Len(ps)-1 /\ ps[OutsiderIndex(f, o) + 1] = o
<1>1. DOMAIN ps = 1..Len(ps) /\ Len(ps) \in Nat
  BY DEF IsSeq
<1>2. \E i \in DOMAIN ps : ps[i] = o
  BY DEF ToSet
<1>3. PICK c : c = CHOOSE i \in DOMAIN ps : ps[i] = o
  OBVIOUS
<1>4. c \in 1..Len(ps) /\ ps[c] = o
  BY <1>1, <1>2, <1>3
<1>5. OutsiderIndex(f, o) = c - 1
  BY <1>3, Zenon DEF OutsiderIndex
<1>6. (c - 1) + 1 = c /\ c - 1 \in 0..Len(ps)-1
  BY <1>1, <1>4
<1> QED
  BY <1>4, <1>5, <1>6

LEMMA OutsiderIndexAt ==
  ASSUME NEW f, OutsidersOK(f.outsiders), NEW i \in 1..Len(f.outsiders)
  PROVE  OutsiderIndex(f, f.outsiders[i]) = i - 1
<1>1. PICK o : o = f.outsiders[i]
  OBVIOUS
<1>2. IsSeq(f.outsiders) /\ DOMAIN f.outsiders = 1..Len(f.outsiders) /\ Len(f.outsiders) \in Nat
  BY DEF OutsidersOK, IsSeq
<1>3. o \in ToSet(f.outsiders)
  BY <1>1, <1>2 DEF ToSet
<1>4. AddOutsider(f, o) = f
  BY <1>3 DEF AddOutsider
<1>5. PICK k : k = OutsiderIndex(f, o)
  OBVIOUS
<1>6. k \in 0..Len(f.outsiders)-1 /\ f.outsiders[k + 1] = o
  BY <1>2, <1>3, <1>4, <1>5, OutsiderIndexIs
<1>7. k + 1 \in 1..Len(f.outsiders) /\ f.outsiders[k + 1] = f.outsiders[i]
  BY <1>1, <1>2, <1>6
<1>8. k + 1 = i
  BY <1>7 DEF OutsidersOK
<1> QED
  BY <1>1, <1>2, <1>5, <1>6, <1>8

(* The outsiders of the functions from the holder inwards.                 *)
Outer(fs, n)    == [index |-> LocalIndex(fs[Holder(fs, n)], n), location |-> "Stack", of |-> Meant(fs, n)]
Beyond(f, o, d) == [index |-> OutsiderIndex(f, o), location |-> "Heap_Values", of |-> d]
OutsiderAt(fs, n, g, j) == IF j = Holder(fs, n) + 1 THEN Outer(fs, n) ELSE Beyond(fs[j - 1], g[j - 1], Meant(fs, n))

LEMMA OutsidersAre ==
  ASSUME NEW fs, IsSeq(fs), Len(fs) # 0, NEW n
  PROVE  \A j \in Holder(fs, n)+1..Len(fs) : Outsiders(fs, n)[j] = OutsiderAt(fs, n, Outsiders(fs, n), j)
<1>1. PICK h, l : h = Holder(fs, n) + 1 /\ l = Len(fs)
  OBVIOUS
<1>2. h \in 1..l /\ l \in Nat /\ h \in Nat
  <2>1. Holder(fs, n) \in 0..Len(fs)-1 /\ Len(fs) \in Nat
    BY HolderIs DEF IsSeq
  <2> QED
    BY <1>1, <2>1
<1> DEFINE Solves(g, m) == g = [j \in h..m |-> OutsiderAt(fs, n, g, j)]
           Unsolved == {m \in Nat : m >= h - 1 /\ ~ \E g : Solves(g, m)}
<1>3. Unsolved = {}
  <2>1. SUFFICES ASSUME Unsolved # {} PROVE FALSE
    OBVIOUS
  <2>2. PICK m \in Unsolved : \A k \in Unsolved : m <= k
    <3>1. Unsolved \subseteq Nat
      OBVIOUS
    <3> HIDE DEF Unsolved
    <3> QED
      BY <2>1, <3>1, MinOfNaturals
  <2>3. m \in Nat /\ m >= h /\ ~ \E g : Solves(g, m)
    <3>1. m \in Nat /\ m >= h - 1 /\ ~ \E g : Solves(g, m)
      OBVIOUS
    <3>2. Solves([j \in {} |-> 0], h - 1)
      <4>1. h..h-1 = {}
        BY <1>2
      <4> QED
        BY <4>1
    <3> HIDE DEF Solves
    <3> QED
      BY <1>2, <3>1, <3>2
  <2>4. PICK g : Solves(g, m - 1)
    <3>1. m - 1 \in Nat /\ ~(m <= m - 1) /\ m - 1 >= h - 1
      BY <1>2, <2>3
    <3> QED
      BY <2>2, <3>1
  <2> DEFINE u == [j \in h..m |-> OutsiderAt(fs, n, g, j)]
  <2>5. \A j \in h..m-1 : u[j] = g[j]
    <3>1. \A j \in h..m-1 : j \in h..m /\ g[j] = OutsiderAt(fs, n, g, j)
      BY <1>2, <2>3, <2>4
    <3> QED
      BY <3>1
  <2>6. \A j \in h..m : j # h => j - 1 \in h..m-1
    BY <1>2, <2>3
  <2>7. \A j \in h..m : OutsiderAt(fs, n, u, j) = OutsiderAt(fs, n, g, j)
    <3> HIDE DEF u
    <3> QED
      BY <1>1, <2>5, <2>6 DEF OutsiderAt
  <2>8. Solves(u, m)
    <3>1. [j \in h..m |-> OutsiderAt(fs, n, u, j)] = [j \in h..m |-> OutsiderAt(fs, n, g, j)]
      BY <2>7
    <3> QED
      BY <3>1
  <2> HIDE DEF Solves, u
  <2> QED
    BY <2>3, <2>8
<1>4. \E g : Solves(g, l)
  BY <1>2, <1>3
<1>5. Outsiders(fs, n) = CHOOSE g : Solves(g, l)
  BY <1>1 DEF Outsiders, OutsiderAt, Outer, Beyond
<1>6. Solves(Outsiders(fs, n), l)
  <2> HIDE DEF Solves
  <2> QED
    BY <1>4, <1>5
<1>7. PICK g : g = Outsiders(fs, n)
  OBVIOUS
<1>8. g = [j \in h..l |-> OutsiderAt(fs, n, g, j)]
  BY <1>6, <1>7
<1>9. \A j \in h..l : g[j] = OutsiderAt(fs, n, g, j)
  BY <1>8
<1> QED
  BY <1>1, <1>7, <1>9

(* Where the captures between the holder and the innermost function have   *)
(* the same places, what is captured is the same.                          *)
SameCaptures(fs, gs, n) ==
  /\ IsSeq(fs) /\ IsSeq(gs) /\ Len(fs) # 0 /\ Len(gs) = Len(fs)
  /\ Holder(gs, n) = Holder(fs, n) /\ Holder(fs, n) # 0
  /\ LocalIndex(gs[Holder(fs, n)], n) = LocalIndex(fs[Holder(fs, n)], n) /\ Meant(gs, n) = Meant(fs, n)
  /\ \A j \in Holder(fs, n)+1..Len(fs)-1 :
       OutsiderIndex(gs[j], Outsiders(fs, n)[j]) = OutsiderIndex(fs[j], Outsiders(fs, n)[j])

LEMMA OutsidersSame ==
  ASSUME NEW fs, NEW gs, NEW n, SameCaptures(fs, gs, n)
  PROVE  \A j \in Holder(fs, n)+1..Len(fs) : Outsiders(gs, n)[j] = Outsiders(fs, n)[j]
<1>1. PICK h, l : h = Holder(fs, n) + 1 /\ l = Len(fs)
  OBVIOUS
<1>2. h \in 1..l /\ l \in Nat /\ h \in Nat
  <2>1. Holder(fs, n) \in 0..Len(fs)-1 /\ Len(fs) \in Nat
    BY HolderIs DEF IsSeq, SameCaptures
  <2> QED
    BY <1>1, <2>1
<1>0. /\ IsSeq(fs) /\ IsSeq(gs) /\ Len(fs) # 0 /\ Len(gs) = Len(fs) /\ Len(gs) # 0
      /\ Holder(gs, n) = Holder(fs, n) /\ Holder(fs, n) # 0
      /\ LocalIndex(gs[Holder(fs, n)], n) = LocalIndex(fs[Holder(fs, n)], n) /\ Meant(gs, n) = Meant(fs, n)
      /\ \A j \in Holder(fs, n)+1..Len(fs)-1 :
           OutsiderIndex(gs[j], Outsiders(fs, n)[j]) = OutsiderIndex(fs[j], Outsiders(fs, n)[j])
  BY DEF SameCaptures
<1>3. PICK u, v : u = Outsiders(fs, n) /\ v = Outsiders(gs, n)
  OBVIOUS
<1>4. /\ \A j \in h..l : u[j] = OutsiderAt(fs, n, u, j)
      /\ \A j \in h..l : v[j] = OutsiderAt(gs, n, v, j)
  <2>1. \A j \in h..l : u[j] = OutsiderAt(fs, n, u, j)
    BY <1>0, <1>1, <1>3, OutsidersAre
  <2>2. \A j \in h..l : v[j] = OutsiderAt(gs, n, v, j)
    BY <1>0, <1>1, <1>3, OutsidersAre
  <2> QED
    BY <2>1, <2>2
<1> DEFINE Others == {j \in h..l : v[j] # u[j]}
<1>5. SUFFICES ASSUME Others # {} PROVE FALSE
  BY <1>1, <1>3
<1>6. PICK j \in Others : \A k \in Others : j <= k
  <2>1. Others \subseteq Nat
    BY <1>2
  <2> HIDE DEF Others
  <2> QED
    BY <1>5, <2>1, MinOfNaturals
<1>7. j \in h..l /\ v[j] # u[j]
  OBVIOUS
<1>8. CASE j = h
  <2>1. Outer(gs, n) = Outer(fs, n)
    BY <1>0 DEF Outer
  <2> QED
    BY <1>0, <1>1, <1>4, <1>7, <1>8, <2>1 DEF OutsiderAt
<1>9. CASE j # h
  <2>1. j - 1 \in h..l-1 /\ j - 1 \in h..l /\ ~(j <= j - 1)
    BY <1>2, <1>7, <1>9
  <2>2. v[j - 1] = u[j - 1]
    BY <1>6, <2>1
  <2>3. OutsiderIndex(gs[j - 1], u[j - 1]) = OutsiderIndex(fs[j - 1], u[j - 1])
    BY <1>0, <1>1, <1>3, <2>1
  <2>4. Beyond(gs[j - 1], v[j - 1], Meant(gs, n)) = Beyond(fs[j - 1], u[j - 1], Meant(fs, n))
    BY <1>0, <2>2, <2>3 DEF Beyond
  <2> QED
    BY <1>0, <1>1, <1>4, <1>7, <1>9, <2>4 DEF OutsiderAt
<1> QED
  BY <1>8, <1>9

MarkedMoved(f, i) == [f EXCEPT !.locals[i].moved = TRUE]
LEMMA MovedIs ==
  ASSUME NEW f, NEW cs, FunctionOK(f, cs), NEW i \in 1..Len(f.locals), NEW g, g = MarkedMoved(f, i)
  PROVE  /\ FunctionOK(g, cs) /\ g.depth = f.depth /\ g.outsiders = f.outsiders /\ g.code = f.code
         /\ SameNames(f.locals, g.locals)
<1>1. PICK ls : ls = f.locals
  OBVIOUS
<1>2. LocalsOK(ls) /\ IsSeq(ls) /\ \A k \in 1..Len(ls) : IsLocal(ls[k])
  BY <1>1 DEF FunctionOK, LocalsOK
<1>3. PICK m : m = ls[i]
  OBVIOUS
<1>4. PICK l : l = [m EXCEPT !.moved = TRUE]
  OBVIOUS
<1>5. IsLocal(l) /\ l.name = m.name /\ l.scope_depth = m.scope_depth /\ l.decl = m.decl
  <2>1. m = [name |-> m.name, scope_depth |-> m.scope_depth, moved |-> m.moved, decl |-> m.decl]
    BY <1>1, <1>2, <1>3 DEF IsLocal
  <2>2. l = [name |-> m.name, scope_depth |-> m.scope_depth, moved |-> TRUE, decl |-> m.decl]
    BY <1>4, <2>1
  <2> QED
    BY <2>2 DEF IsLocal
<1>6. PICK ms : ms = Updated(ls, i, l)
  OBVIOUS
<1>7. g = Localized(f, ms)
  BY <1>1, <1>3, <1>4, <1>6, Zenon DEF MarkedMoved, Localized, Updated
<1>8. IsSeq(ms) /\ Len(ms) = Len(ls) /\ \A j \in 1..Len(ls) : ms[j] = IF j = i THEN l ELSE ls[j]
  BY <1>2, <1>6, UpdateIs
<1>9. LocalsOK(ms)
  <2>1. 1 \in 1..Len(ls)
    BY <1>2 DEF LocalsOK
  <2> QED
    BY <1>2, <1>3, <1>5, <1>8, <2>1 DEF LocalsOK
<1>10. FunctionOK(g, cs) /\ g.depth = f.depth /\ g.locals = ms /\ g.outsiders = f.outsiders /\ g.code = f.code
  BY <1>7, <1>9, WithLocals
<1>11. SameNames(ls, ms)
  BY <1>3, <1>5, <1>8 DEF SameNames
<1> QED
  BY <1>1, <1>10, <1>11

(* Functions that only capture more.                                       *)
Captures(f, g) ==
  g.depth = f.depth /\ g.code = f.code /\ SameNames(f.locals, g.locals) /\ More(f.outsiders, g.outsiders)
Grown(fs, gs, cs) ==
  FunctionsOK(gs, cs) /\ Len(gs) = Len(fs) /\ \A l \in 1..Len(fs) : Captures(fs[l], gs[l])

LEMMA GrownSame == ASSUME NEW fs, NEW cs, FunctionsOK(fs, cs) PROVE Grown(fs, fs, cs)
<1>1. \A l \in 1..Len(fs) : IsSeq(fs[l].outsiders)
  BY DEF FunctionsOK, FunctionOK, OutsidersOK
<1> QED
  BY <1>1 DEF Grown, Captures, SameNames, More, IsSeq

LEMMA CapturesTransitive ==
  ASSUME NEW f, NEW g, NEW h, IsSeq(f.outsiders), IsSeq(g.outsiders), IsSeq(h.outsiders), Captures(f, g), Captures(g, h)
  PROVE  Captures(f, h)
<1>1. SameNames(f.locals, h.locals)
  BY DEF Captures, SameNames
<1>2. More(f.outsiders, h.outsiders)
  BY DEF Captures, More, IsSeq
<1> QED
  BY <1>1, <1>2 DEF Captures

LEMMA GrownTransitive ==
  ASSUME NEW fs, NEW gs, NEW hs, NEW cs, FunctionsOK(fs, cs), Grown(fs, gs, cs), Grown(gs, hs, cs)
  PROVE  Grown(fs, hs, cs)
<1>1. ASSUME NEW l \in 1..Len(fs) PROVE Captures(fs[l], hs[l])
  <2>1. Captures(fs[l], gs[l]) /\ Captures(gs[l], hs[l])
    BY DEF Grown
  <2>2. IsSeq(fs[l].outsiders) /\ IsSeq(gs[l].outsiders) /\ IsSeq(hs[l].outsiders)
    BY DEF Grown, FunctionsOK, FunctionOK, OutsidersOK
  <2> QED
    BY <2>1, <2>2, CapturesTransitive
<1> QED
  BY <1>1 DEF Grown

(* A name that has been looked up: what is to be captured is.              *)
Unfound(fs, n) == LocalIndex(Last(fs), n) # -1 \/ Holder(fs, n) = 0
FoundIn(fs, n) ==
  ~Unfound(fs, n) => \A j \in Holder(fs, n)+1..Len(fs) : Outsiders(fs, n)[j] \in ToSet(fs[j].outsiders)

(* What a name means, as the last of what was declared with it.            *)
Named(ls, n) == {ls[i].decl : i \in {k \in 1..Len(ls) : ls[k].name = n}}
DeclaredAs(fs, n) == UNION {Named(fs[l].locals, n) : l \in 1..Len(fs)}

LEMMA NamedIs == ASSUME NEW ls, NEW n, NEW d PROVE d \in Named(ls, n) <=> \E i \in 1..Len(ls) : ls[i].name = n /\ ls[i].decl = d
  BY DEF Named

LEMMA DeclaredAsIs ==
  ASSUME NEW fs, NEW n, NEW d PROVE d \in DeclaredAs(fs, n) <=> \E l \in 1..Len(fs) : d \in Named(fs[l].locals, n)
  BY DEF DeclaredAs

LEMMA MeantIs ==
  ASSUME NEW fs, IsSeq(fs), \A l \in 1..Len(fs) : IsSeq(fs[l].locals), NEW n
  PROVE  Meant(fs, n) = Max({Nothing} \cup DeclaredAs(fs, n))
<1>1. DOMAIN fs = 1..Len(fs) /\ \A l \in 1..Len(fs) : DOMAIN fs[l].locals = 1..Len(fs[l].locals)
  BY DEF IsSeq
<1> DEFINE Declared_With(f) == {l.decl : l \in {m \in ToSet(f.locals) : m.name = n}}
<1>2. ASSUME NEW l \in 1..Len(fs) PROVE Declared_With(fs[l]) = Named(fs[l].locals, n)
  BY <1>1 DEF ToSet, Named
<1>3. {Declared_With(f) : f \in ToSet(fs)} = {Declared_With(fs[l]) : l \in 1..Len(fs)}
  <2> HIDE DEF Declared_With
  <2> QED
    BY <1>1 DEF ToSet
<1>4. {Declared_With(fs[l]) : l \in 1..Len(fs)} = {Named(fs[l].locals, n) : l \in 1..Len(fs)}
  <2> HIDE DEF Declared_With
  <2> QED
    BY <1>2
<1>5. UNION {Declared_With(f) : f \in ToSet(fs)} = DeclaredAs(fs, n)
  <2> HIDE DEF Declared_With
  <2> QED
    BY <1>3, <1>4 DEF DeclaredAs
<1>6. Meant(fs, n) = Max({Nothing} \cup UNION {Declared_With(f) : f \in ToSet(fs)})
  BY Zenon DEF Meant
<1> HIDE DEF Declared_With
<1> QED
  BY <1>5, <1>6

LEMMA MeantSame ==
  ASSUME NEW fs, NEW gs, IsSeq(fs), IsSeq(gs), Len(gs) = Len(fs),
         \A l \in 1..Len(fs) : IsSeq(fs[l].locals) /\ IsSeq(gs[l].locals),
         \A l \in 1..Len(fs) : SameNames(fs[l].locals, gs[l].locals), NEW n
  PROVE  Meant(gs, n) = Meant(fs, n)
<1>1. Meant(fs, n) = Max({Nothing} \cup DeclaredAs(fs, n)) /\ Meant(gs, n) = Max({Nothing} \cup DeclaredAs(gs, n))
  BY MeantIs
<1>2. \A l \in 1..Len(fs) : Named(gs[l].locals, n) = Named(fs[l].locals, n)
  BY DEF SameNames, Named
<1>3. DeclaredAs(gs, n) = DeclaredAs(fs, n)
  BY <1>2 DEF DeclaredAs
<1> QED
  BY <1>1, <1>3

LEMMA SameLookup ==
  ASSUME NEW fs, NEW gs, NEW cs, FunctionsOK(fs, cs), FunctionsOK(gs, cs), Len(gs) = Len(fs),
         \A l \in 1..Len(fs) : SameNames(fs[l].locals, gs[l].locals), NEW n
  PROVE  /\ \A j \in 1..Len(fs) : LocalIndex(gs[j], n) = LocalIndex(fs[j], n)
         /\ Holder(gs, n) = Holder(fs, n) /\ Unfound(gs, n) = Unfound(fs, n) /\ Meant(gs, n) = Meant(fs, n)
<1>1. ASSUME NEW j \in 1..Len(fs) PROVE LocalIndex(gs[j], n) = LocalIndex(fs[j], n)
  <2>1. LocalsOK(fs[j].locals) /\ LocalsOK(gs[j].locals)
    BY DEF FunctionsOK, FunctionOK
  <2> QED
    BY <2>1, LocalIndexSame
<1>2. Len(fs) \in Nat /\ Len(fs) \in 1..Len(fs)
  BY DEF FunctionsOK, IsSeq
<1>3. Holder(gs, n) = Holder(fs, n)
  BY <1>1, <1>2, HolderSame
<1>4. Meant(gs, n) = Meant(fs, n)
  <2>1. \A l \in 1..Len(fs) : IsSeq(fs[l].locals) /\ IsSeq(gs[l].locals)
    BY DEF FunctionsOK, FunctionOK, LocalsOK
  <2>2. IsSeq(fs) /\ IsSeq(gs)
    BY DEF FunctionsOK
  <2> QED
    BY <2>1, <2>2, MeantSame
<1> QED
  BY <1>1, <1>2, <1>3, <1>4 DEF Unfound, Last

LEMMA HolderFacts ==
  ASSUME NEW fs, NEW cs, FunctionsOK(fs, cs), NEW n, ~Unfound(fs, n)
  PROVE  /\ Holder(fs, n) \in 1..Len(fs)-1 /\ Len(fs) \in Nat
         /\ LocalIndex(fs[Holder(fs, n)], n) \in 0..MaxLocals-1
         /\ LocalIndex(fs[Holder(fs, n)], n) + 1 \in 1..Len(fs[Holder(fs, n)].locals)
<1>1. PICK h : h = Holder(fs, n)
  OBVIOUS
<1>2. IsSeq(fs) /\ Len(fs) # 0 /\ Len(fs) \in Nat
  BY DEF FunctionsOK, IsSeq
<1>3. h \in 0..Len(fs)-1 /\ h # 0 /\ LocalIndex(fs[h], n) # -1
  BY <1>1, <1>2, HolderIs DEF Unfound
<1>4. h \in 1..Len(fs)-1 /\ h \in 1..Len(fs)
  BY <1>2, <1>3
<1>5. LocalsOK(fs[h].locals)
  BY <1>4 DEF FunctionsOK, FunctionOK
<1>6. LocalIndex(fs[h], n) + 1 \in 1..Len(fs[h].locals) /\ LocalIndex(fs[h], n) \in 0..MaxLocals-1
  BY <1>3, <1>5, LocalIndexIs
<1> QED
  BY <1>1, <1>2, <1>4, <1>6

LEMMA ResolvedIs ==
  ASSUME NEW fs, NEW cs, IsSeq(cs), FunctionsOK(fs, cs), NEW n, NEW gs, gs = Resolved(fs, n)
  PROVE  Grown(fs, gs, cs) /\ FoundIn(gs, n)
<1>1. CASE Unfound(fs, n)
  <2>1. gs = fs
    BY <1>1 DEF Resolved, Unfound
  <2> QED
    BY <1>1, <2>1, GrownSame DEF FoundIn
<1>2. CASE ~Unfound(fs, n)
  <2>1. PICK h, l, u : h = Holder(fs, n) /\ l = Len(fs) /\ u = Outsiders(fs, n)
    OBVIOUS
  <2>2. /\ h \in 1..l-1 /\ l \in Nat /\ IsSeq(fs) /\ DOMAIN fs = 1..l
        /\ LocalIndex(fs[h], n) \in 0..MaxLocals-1 /\ LocalIndex(fs[h], n) + 1 \in 1..Len(fs[h].locals)
    BY <1>2, <2>1, HolderFacts DEF FunctionsOK, IsSeq
  <2>3. PICK f : f = MarkedMoved(fs[h], LocalIndex(fs[h], n) + 1)
    OBVIOUS
  <2>4. gs = [j \in 1..l |-> CASE j < h -> fs[j] [] j = h -> f [] j > h -> AddOutsider(fs[j], u[j])]
    <3>1. gs = [j \in DOMAIN fs |->
                  CASE j < Holder(fs, n) -> fs[j]
                    [] j = Holder(fs, n) -> MarkedMoved(fs[j], LocalIndex(fs[j], n) + 1)
                    [] j > Holder(fs, n) -> AddOutsider(fs[j], Outsiders(fs, n)[j])]
      BY <1>2, Zenon DEF Resolved, Unfound, MarkedMoved
    <3> DEFINE a == [j \in DOMAIN fs |->
                  CASE j < h -> fs[j]
                    [] j = h -> MarkedMoved(fs[j], LocalIndex(fs[j], n) + 1)
                    [] j > h -> AddOutsider(fs[j], u[j])]
               b == [j \in 1..l |-> CASE j < h -> fs[j] [] j = h -> f [] j > h -> AddOutsider(fs[j], u[j])]
    <3>2. gs = a
      BY <2>1, <3>1, Zenon
    <3>3. \A j \in 1..l : a[j] = b[j]
      <4>1. ASSUME NEW j \in 1..l PROVE a[j] = b[j]
        <5>1. CASE j < h
          BY <2>2, <5>1
        <5>2. CASE j = h
          BY <2>2, <2>3, <5>2
        <5>3. CASE j > h
          BY <2>2, <5>3
        <5> QED
          BY <2>2, <5>1, <5>2, <5>3
      <4> QED
        BY <4>1
    <3>4. a = b
      <4>1. a = [j \in 1..l |-> a[j]] /\ b = [j \in 1..l |-> b[j]]
        BY <2>2
      <4> HIDE DEF a, b
      <4> QED
        BY <3>3, <4>1
    <3> HIDE DEF a
    <3> QED
      BY <3>2, <3>4
  <2>5. /\ \A j \in 1..h-1 : gs[j] = fs[j]
        /\ gs[h] = f
        /\ \A j \in h+1..l : gs[j] = AddOutsider(fs[j], u[j])
    <3>1. ASSUME NEW j \in 1..h-1 PROVE gs[j] = fs[j]
      <4>1. j \in 1..l /\ j < h /\ ~(j = h) /\ ~(j > h)
        BY <2>2
      <4> QED
        BY <2>4, <4>1
    <3>2. gs[h] = f
      <4>1. h \in 1..l /\ ~(h < h) /\ ~(h > h)
        BY <2>2
      <4> QED
        BY <2>4, <4>1
    <3>3. ASSUME NEW j \in h+1..l PROVE gs[j] = AddOutsider(fs[j], u[j])
      <4>1. j \in 1..l /\ j > h /\ ~(j = h) /\ ~(j < h)
        BY <2>2
      <4> QED
        BY <2>4, <4>1
    <3> QED
      BY <3>1, <3>2, <3>3
  <2>6. IsSeq(gs) /\ Len(gs) = l
    <3>1. gs = [j \in 1..l |-> gs[j]]
      BY <2>4
    <3> QED
      BY <2>2, <3>1, MapIs
  <2>7. \A j \in 1..l : FunctionOK(fs[j], cs) /\ IsSeq(fs[j].outsiders) /\ Len(fs[j].outsiders) \in Nat
    BY <2>1 DEF FunctionsOK, FunctionOK, OutsidersOK, IsSeq
  <2>8. /\ FunctionOK(f, cs) /\ f.outsiders = fs[h].outsiders /\ Captures(fs[h], f)
    <3>1. h \in 1..l
      BY <2>2
    <3>2. /\ FunctionOK(f, cs) /\ f.depth = fs[h].depth /\ f.outsiders = fs[h].outsiders /\ f.code = fs[h].code
          /\ SameNames(fs[h].locals, f.locals)
      BY <2>2, <2>3, <2>7, <3>1, MovedIs
    <3> QED
      BY <2>7, <3>1, <3>2 DEF Captures, More
  <2>9. \A j \in h+1..l : u[j] = OutsiderAt(fs, n, u, j)
    BY <2>1, <2>2, OutsidersAre
  (* What is captured: a local of the holder, or what the function around captures. *)
  <2>10. ASSUME NEW j \in h+1..l
         PROVE  /\ u[j].index \in Nat /\ (u[j].location = "Stack" => u[j].index < MaxLocals)
                /\ FunctionOK(gs[j], cs) /\ Captures(fs[j], gs[j]) /\ u[j] \in ToSet(gs[j].outsiders)
                /\ IsSeq(gs[j].outsiders)
                /\ j # h + 1 => u[j].index = OutsiderIndex(fs[j - 1], u[j - 1])
                /\ j = h + 1 => u[j].location = "Stack"
                /\ \A i \in 1..Len(gs[j].outsiders) : gs[j].outsiders[i] = u[j]
                     \/ (i \in 1..Len(fs[j].outsiders) /\ gs[j].outsiders[i] = fs[j].outsiders[i])
    <3>1. MaxLocals \in Nat
      BY CompilerAssumption
    <3>2. /\ u[j].index \in Nat /\ (u[j].location = "Stack" => u[j].index < MaxLocals)
          /\ j # h + 1 => u[j].index = OutsiderIndex(fs[j - 1], u[j - 1])
          /\ j = h + 1 => u[j].location = "Stack"
      <4>1. CASE j = h + 1
        <5>1. u[j] = Outer(fs, n)
          BY <2>1, <2>9, <4>1 DEF OutsiderAt
        <5>2. u[j].index = LocalIndex(fs[h], n) /\ u[j].location = "Stack"
          BY <2>1, <5>1 DEF Outer
        <5> QED
          BY <2>2, <3>1, <4>1, <5>2
      <4>2. CASE j # h + 1
        <5>1. u[j] = Beyond(fs[j - 1], u[j - 1], Meant(fs, n))
          BY <2>1, <2>9, <4>2 DEF OutsiderAt
        <5>2. u[j].index = OutsiderIndex(fs[j - 1], u[j - 1]) /\ u[j].location = "Heap_Values"
          BY <5>1 DEF Beyond
        <5>3. PICK k, o, ps : k = j - 1 /\ o = u[k] /\ ps = AddOutsider(fs[k], o).outsiders
          OBVIOUS
        <5>4. k \in 1..l
          BY <2>2, <4>2, <5>3
        <5>5. IsSeq(ps) /\ o \in ToSet(ps) /\ Len(ps) \in Nat
          <6>1. IsSeq(fs[k].outsiders) /\ IsFunction(fs[k])
            BY <2>7, <5>4 DEF FunctionOK
          <6>2. CASE o \in ToSet(fs[k].outsiders)
            BY <5>3, <6>1, <6>2 DEF AddOutsider, IsSeq
          <6>3. CASE o \notin ToSet(fs[k].outsiders)
            <7>1. ps = Append(fs[k].outsiders, o)
              BY <5>3, <6>1, <6>3 DEF AddOutsider, IsFunction
            <7>2. IsSeq(ps) /\ Len(ps) = Len(fs[k].outsiders) + 1 /\ ps[Len(fs[k].outsiders) + 1] = o
              BY <6>1, <7>1, AppendIs
            <7>3. DOMAIN ps = 1..Len(ps) /\ Len(fs[k].outsiders) + 1 \in 1..Len(ps) /\ Len(ps) \in Nat
              BY <6>1, <7>2 DEF IsSeq
            <7> QED
              BY <7>2, <7>3 DEF ToSet
          <6> QED
            BY <6>2, <6>3
        <5>6. OutsiderIndex(fs[k], o) \in 0..Len(ps)-1
          BY <2>7, <5>3, <5>4, <5>5, OutsiderIndexIs
        <5>7. OutsiderIndex(fs[k], o) \in Nat
          BY <5>5, <5>6
        <5> QED
          BY <4>2, <5>2, <5>3, <5>7
      <4> QED
        BY <4>1, <4>2
    <3>3. j \in 1..l /\ gs[j] = AddOutsider(fs[j], u[j])
      BY <2>2, <2>5
    <3>4. /\ FunctionOK(gs[j], cs) /\ gs[j].depth = fs[j].depth /\ gs[j].locals = fs[j].locals /\ gs[j].code = fs[j].code
          /\ More(fs[j].outsiders, gs[j].outsiders) /\ u[j] \in ToSet(gs[j].outsiders)
          /\ \A i \in 1..Len(gs[j].outsiders) : gs[j].outsiders[i] = u[j]
               \/ (i \in 1..Len(fs[j].outsiders) /\ gs[j].outsiders[i] = fs[j].outsiders[i])
      BY <2>7, <3>2, <3>3, AddOutsiderIs
    <3> QED
      BY <3>2, <3>4 DEF Captures, SameNames, FunctionOK, OutsidersOK
  <2>11. \A j \in 1..l : FunctionOK(gs[j], cs) /\ Captures(fs[j], gs[j]) /\ IsSeq(gs[j].outsiders)
    <3>1. ASSUME NEW j \in 1..h-1 PROVE FunctionOK(gs[j], cs) /\ Captures(fs[j], gs[j])
      <4>1. j \in 1..l /\ gs[j] = fs[j]
        BY <2>2, <2>5
      <4> QED
        BY <2>7, <4>1 DEF Captures, SameNames, More
    <3>2. FunctionOK(gs[h], cs) /\ Captures(fs[h], gs[h])
      BY <2>5, <2>8
    <3>3. \A j \in 1..l : j \in 1..h-1 \/ j = h \/ j \in h+1..l
      BY <2>2
    <3>4. \A j \in 1..l : FunctionOK(gs[j], cs) /\ Captures(fs[j], gs[j])
      BY <2>10, <3>1, <3>2, <3>3
    <3> QED
      BY <3>4 DEF FunctionOK, OutsidersOK
  <2>12. gs[1].outsiders = <<>>
    <3>1. 1 = h \/ 1 \in 1..h-1
      BY <2>2
    <3> QED
      BY <2>5, <2>8, <3>1 DEF FunctionsOK
  <2>13. ASSUME NEW j \in 2..l PROVE FitIn(gs[j].outsiders, Len(gs[j - 1].outsiders))
    <3>1. j \in 1..l /\ j - 1 \in 1..l
      BY <2>2
    <3>2. FitIn(fs[j].outsiders, Len(fs[j - 1].outsiders))
      BY <2>1 DEF FunctionsOK
    <3>3. /\ Len(fs[j - 1].outsiders) \in Nat /\ Len(gs[j - 1].outsiders) \in Nat
          /\ Len(fs[j - 1].outsiders) <= Len(gs[j - 1].outsiders)
      BY <2>7, <2>11, <3>1 DEF Captures, More, IsSeq
    <3>4. FitIn(fs[j].outsiders, Len(gs[j - 1].outsiders))
      BY SMTT(30), <3>2, <3>3 DEF FitIn
    <3>5. CASE j <= h
      <4>1. j = h \/ j \in 1..h-1
        BY <2>2, <3>5
      <4>2. gs[j].outsiders = fs[j].outsiders
        BY <2>5, <2>8, <4>1
      <4> QED
        BY <3>4, <4>2
    <3>6. CASE j > h
      <4>1. j \in h+1..l
        BY <2>2, <3>6
      <4>2. u[j].location # "Stack" => u[j].index \in 0..Len(gs[j - 1].outsiders)-1
        <5>1. SUFFICES ASSUME u[j].location # "Stack" PROVE u[j].index \in 0..Len(gs[j - 1].outsiders)-1
          OBVIOUS
        <5>2. j # h + 1 /\ u[j].index = OutsiderIndex(fs[j - 1], u[j - 1])
          BY <2>10, <4>1, <5>1
        <5>3. j - 1 \in h+1..l
          BY <2>2, <4>1, <5>2
        <5>4. gs[j - 1] = AddOutsider(fs[j - 1], u[j - 1]) /\ u[j - 1] \in ToSet(gs[j - 1].outsiders)
          BY <2>5, <2>10, <5>3
        <5>5. IsSeq(fs[j - 1].outsiders) /\ IsSeq(gs[j - 1].outsiders)
          BY <2>7, <2>11, <3>1
        <5>6. OutsiderIndex(fs[j - 1], u[j - 1]) \in 0..Len(gs[j - 1].outsiders)-1
          BY <5>4, <5>5, OutsiderIndexIs
        <5> QED
          BY <5>2, <5>6
      <4>3. ASSUME NEW i \in 1..Len(gs[j].outsiders), gs[j].outsiders[i].location # "Stack"
            PROVE  gs[j].outsiders[i].index \in 0..Len(gs[j - 1].outsiders)-1
        <5>1. CASE gs[j].outsiders[i] = u[j]
          BY <4>2, <4>3, <5>1
        <5>2. CASE i \in 1..Len(fs[j].outsiders) /\ gs[j].outsiders[i] = fs[j].outsiders[i]
          BY <3>4, <4>3, <5>2 DEF FitIn
        <5> QED
          BY <2>10, <4>1, <5>1, <5>2
      <4> QED
        BY <4>3 DEF FitIn
    <3> QED
      BY <2>2, <3>1, <3>5, <3>6
  <2>14. Grown(fs, gs, cs)
    <3>1. l # 0
      BY <2>2
    <3> QED
      BY <2>1, <2>6, <2>11, <2>12, <2>13, <3>1 DEF Grown, FunctionsOK
  <2>15. FoundIn(gs, n)
    <3>1. \A j \in 1..l : SameNames(fs[j].locals, gs[j].locals)
      BY <2>11 DEF Captures
    <3>2. /\ \A j \in 1..l : LocalIndex(gs[j], n) = LocalIndex(fs[j], n)
          /\ Holder(gs, n) = h /\ Meant(gs, n) = Meant(fs, n)
      BY <2>1, <2>6, <2>14, <3>1, SameLookup DEF Grown
    <3>3. ASSUME NEW j \in h+1..l-1 PROVE OutsiderIndex(gs[j], u[j]) = OutsiderIndex(fs[j], u[j])
      <4>1. j \in h+1..l
        BY <2>2
      <4>2. gs[j] = AddOutsider(fs[j], u[j]) /\ u[j] \in ToSet(gs[j].outsiders)
        BY <2>5, <2>10, <4>1
      <4>3. AddOutsider(gs[j], u[j]) = gs[j]
        BY <4>2 DEF AddOutsider
      <4> QED
        BY <4>2, <4>3, Zenon DEF OutsiderIndex
    <3>4. \A j \in h+1..l : Outsiders(gs, n)[j] = u[j]
      <4>1. h # 0 /\ h \in 1..l /\ l # 0
        BY <2>2
      <4>2. SameCaptures(fs, gs, n)
        BY <2>1, <2>2, <2>6, <3>2, <3>3, <4>1 DEF SameCaptures
      <4> QED
        BY <2>1, <4>2, OutsidersSame
    <3>5. \A j \in h+1..l : Outsiders(gs, n)[j] \in ToSet(gs[j].outsiders)
      BY <2>10, <3>4
    <3> QED
      BY <2>6, <3>2, <3>5 DEF FoundIn
  <2> QED
    BY <2>14, <2>15
<1> QED
  BY <1>1, <1>2

LEMMA FoundStays ==
  ASSUME NEW fs, NEW gs, NEW cs, FunctionsOK(fs, cs), Grown(fs, gs, cs), NEW n, FoundIn(fs, n)
  PROVE  FoundIn(gs, n)
<1>1. FunctionsOK(gs, cs) /\ Len(gs) = Len(fs) /\ \A l \in 1..Len(fs) : Captures(fs[l], gs[l])
  BY DEF Grown
<1>2. \A l \in 1..Len(fs) : SameNames(fs[l].locals, gs[l].locals)
  BY <1>1 DEF Captures
<1>3. /\ \A j \in 1..Len(fs) : LocalIndex(gs[j], n) = LocalIndex(fs[j], n)
      /\ Holder(gs, n) = Holder(fs, n) /\ Unfound(gs, n) = Unfound(fs, n) /\ Meant(gs, n) = Meant(fs, n)
  BY <1>1, <1>2, SameLookup
<1>4. SUFFICES ASSUME ~Unfound(fs, n)
               PROVE  \A j \in Holder(fs, n)+1..Len(fs) : Outsiders(gs, n)[j] \in ToSet(gs[j].outsiders)
  BY <1>1, <1>3 DEF FoundIn
<1>5. PICK h, l, u : h = Holder(fs, n) /\ l = Len(fs) /\ u = Outsiders(fs, n)
  OBVIOUS
<1>6. h \in 1..l-1 /\ l \in Nat
  BY <1>4, <1>5, HolderFacts
<1>7. ASSUME NEW j \in h+1..l
      PROVE  u[j] \in ToSet(gs[j].outsiders) /\ OutsiderIndex(gs[j], u[j]) = OutsiderIndex(fs[j], u[j])
  <2>1. j \in 1..l /\ u[j] \in ToSet(fs[j].outsiders)
    BY <1>4, <1>5, <1>6 DEF FoundIn
  <2>2. PICK os, ps : os = fs[j].outsiders /\ ps = gs[j].outsiders
    OBVIOUS
  <2>3. OutsidersOK(os) /\ OutsidersOK(ps) /\ More(os, ps)
    BY <1>1, <1>5, <2>1, <2>2 DEF FunctionsOK, FunctionOK, Captures
  <2>4. DOMAIN os = 1..Len(os) /\ DOMAIN ps = 1..Len(ps) /\ Len(os) \in Nat /\ Len(ps) \in Nat
    BY <2>3 DEF OutsidersOK, IsSeq
  <2>5. PICK i \in 1..Len(os) : os[i] = u[j]
    BY <2>1, <2>2, <2>4 DEF ToSet
  <2>6. i \in 1..Len(ps) /\ ps[i] = u[j]
    BY <2>3, <2>4, <2>5 DEF More
  <2>7. OutsiderIndex(fs[j], os[i]) = i - 1
    BY <2>2, <2>3, OutsiderIndexAt
  <2>8. OutsiderIndex(gs[j], ps[i]) = i - 1
    BY <2>2, <2>3, <2>6, OutsiderIndexAt
  <2>9. u[j] \in ToSet(ps)
    BY <2>4, <2>6 DEF ToSet
  <2> QED
    BY <2>2, <2>5, <2>6, <2>7, <2>8, <2>9
<1>8. \A j \in h+1..l : Outsiders(gs, n)[j] = u[j]
  <2>1. IsSeq(fs) /\ IsSeq(gs) /\ Len(fs) # 0 /\ h # 0 /\ h \in 1..l
    BY <1>1, <1>6 DEF FunctionsOK
  <2>2. LocalIndex(gs[h], n) = LocalIndex(fs[h], n)
    BY <1>3, <1>5, <2>1
  <2>3. \A j \in h+1..l-1 : OutsiderIndex(gs[j], u[j]) = OutsiderIndex(fs[j], u[j])
    <3>1. \A j \in h+1..l-1 : j \in h+1..l
      BY <1>6
    <3> QED
      BY <1>7, <3>1
  <2>4. SameCaptures(fs, gs, n)
    BY <1>1, <1>3, <1>5, <2>1, <2>2, <2>3 DEF SameCaptures
  <2> QED
    BY <1>5, <2>4, OutsidersSame
<1> QED
  BY <1>5, <1>7, <1>8

-----------------------------------------------------------------------------
(* Expressions.                                                            *)

LEMMA HeapIs ==
  ASSUME NEW op \in OfHeap, NEW n, NEW x \in 0..n-1, NEW of, NEW as
  PROVE  Straight(<<Instruction(op, x, of, as)>>, n)
<1>1. PICK i : i = Instruction(op, x, of, as)
  OBVIOUS
<1>2. IsInstruction(i) /\ i.op = op /\ i.x = x
  BY <1>1 DEF Instruction, IsInstruction
<1>3. IsSeq(<<i>>) /\ Len(<<i>>) = 1 /\ <<i>>[1] = i
  BY TuplesAre
<1>4. \A k \in 1..Len(<<i>>) : <<i>>[k] = i
  BY <1>3
<1>5. op \notin Jumps /\ op # "Method" /\ op # "Push_Closure" /\ op \notin {"Call_Function", "Call_Class"}
  BY DEF Jumps, OfHeap
<1>6. Straight(<<i>>, n)
  BY <1>2, <1>3, <1>4, <1>5 DEF Straight
<1> QED
  BY <1>1, <1>6

(* What was captured has a place among the captured.                       *)
LEMMA CapturedIs ==
  ASSUME NEW fs, NEW cs, FunctionsOK(fs, cs), NEW n, FoundIn(fs, n), ~Unfound(fs, n)
  PROVE  OutsiderIndex(Last(fs), Outsiders(fs, n)[Len(fs)]) \in 0..Len(Last(fs).outsiders)-1
<1>1. PICK l, o, f : l = Len(fs) /\ o = Outsiders(fs, n)[l] /\ f = fs[l]
  OBVIOUS
<1>2. Holder(fs, n) \in 1..l-1 /\ l \in Nat
  BY <1>1, HolderFacts
<1>3. l \in Holder(fs, n)+1..l /\ l \in 1..l
  BY <1>2
<1>4. o \in ToSet(f.outsiders)
  BY <1>1, <1>3 DEF FoundIn
<1>5. IsSeq(f.outsiders)
  BY <1>1, <1>3 DEF FunctionsOK, FunctionOK, OutsidersOK
<1>6. AddOutsider(f, o) = f
  BY <1>4 DEF AddOutsider
<1>7. OutsiderIndex(f, o) \in 0..Len(f.outsiders)-1
  BY <1>4, <1>5, <1>6, OutsiderIndexIs
<1> QED
  BY <1>1, <1>7 DEF Last

(* The instruction for each kind of variable.                              *)
LEMMA KindsAre ==
  ASSUME NEW a, NEW b, NEW c, NEW r, r = [Local |-> a, Outsider |-> b, Global |-> c]
  PROVE  r["Local"] = a /\ r["Outsider"] = b /\ r["Global"] = c
<1>1. r.Local = a /\ r.Outsider = b /\ r.Global = c
  OBVIOUS
<1> QED
  BY <1>1

Accesses(fs, n, as) ==
  /\ Location(fs, n).kind = "Local" =>
       /\ Read(fs, n, as) = Instruction("Copy_From_Idx", Location(fs, n).index, Meant(fs, n), as)
       /\ Assign(fs, n) = Instruction("Copy_Top_To_Idx", Location(fs, n).index, Meant(fs, n), Nothing)
  /\ Location(fs, n).kind = "Outsider" =>
       /\ Read(fs, n, as) = Instruction("Copy_From_Heap", Location(fs, n).index, Meant(fs, n), as)
       /\ Assign(fs, n) = Instruction("Move_Top_To_Heap", Location(fs, n).index, Meant(fs, n), Nothing)
  /\ Location(fs, n).kind = "Global" =>
       /\ Read(fs, n, as) = Instruction("Read_Global", Location(fs, n).index, Meant(fs, n), as)
       /\ Assign(fs, n) = Instruction("Assign_Global", Location(fs, n).index, Meant(fs, n), Nothing)

LEMMA AccessIs == ASSUME NEW fs, NEW n, NEW as PROVE Accesses(fs, n, as)
<1>0. PICK l, of : l = Location(fs, n) /\ of = Meant(fs, n)
  OBVIOUS
<1>1. PICK r, a : /\ r = [Local |-> "Copy_From_Idx", Outsider |-> "Copy_From_Heap", Global |-> "Read_Global"]
                  /\ a = [Local |-> "Copy_Top_To_Idx", Outsider |-> "Move_Top_To_Heap", Global |-> "Assign_Global"]
  OBVIOUS
<1>2. Read(fs, n, as) = Instruction(r[l.kind], l.index, of, as) /\ Assign(fs, n) = Instruction(a[l.kind], l.index, of, Nothing)
  BY <1>0, <1>1, Zenon DEF Read, Assign
<1>3. r["Local"] = "Copy_From_Idx" /\ r["Outsider"] = "Copy_From_Heap" /\ r["Global"] = "Read_Global"
  BY <1>1, KindsAre
<1>4. a["Local"] = "Copy_Top_To_Idx" /\ a["Outsider"] = "Move_Top_To_Heap" /\ a["Global"] = "Assign_Global"
  BY <1>1, KindsAre
<1> QED
  BY <1>0, <1>2, <1>3, <1>4 DEF Accesses

LEMMA ReadIs ==
  ASSUME NEW fs, NEW cs, FunctionsOK(fs, cs), NEW n, FoundIn(fs, n), NEW as
  PROVE  Straight(<<Read(fs, n, as)>>, Len(Last(fs).outsiders)) /\ Straight(<<Assign(fs, n)>>, Len(Last(fs).outsiders))
<1>1. PICK o : o = Len(Last(fs).outsiders)
  OBVIOUS
<1>2. CASE LocalIndex(Last(fs), n) # -1
  <2>1. Location(fs, n) = [kind |-> "Local", index |-> LocalIndex(Last(fs), n)]
    BY <1>2 DEF Location
  <2>2. PICK l, x, of : l = Location(fs, n) /\ x = LocalIndex(Last(fs), n) /\ of = Meant(fs, n)
    OBVIOUS
  <2>0. l.kind = "Local" /\ l.index = x
    BY <2>1, <2>2
  <2>3. Read(fs, n, as) = Instruction("Copy_From_Idx", x, of, as) /\ Assign(fs, n) = Instruction("Copy_Top_To_Idx", x, of, Nothing)
    BY <2>0, <2>2, AccessIs DEF Accesses
  <2>4. Ordinary("Copy_From_Idx") /\ Ordinary("Copy_Top_To_Idx")
    BY DEF Ordinary, Jumps, OfHeap
  <2> QED
    BY <2>3, <2>4, OrdinaryIs
<1>3. CASE LocalIndex(Last(fs), n) = -1 /\ Holder(fs, n) # 0
  <2>1. Location(fs, n) = [kind |-> "Outsider", index |-> OutsiderIndex(Last(fs), Outsiders(fs, n)[Len(fs)])]
    BY <1>3 DEF Location
  <2>2. PICK l, x, of : l = Location(fs, n) /\ x = OutsiderIndex(Last(fs), Outsiders(fs, n)[Len(fs)]) /\ of = Meant(fs, n)
    OBVIOUS
  <2>0. l.kind = "Outsider" /\ l.index = x
    BY <2>1, <2>2
  <2>3. x \in 0..o-1
    BY <1>1, <1>3, <2>2, CapturedIs DEF Unfound
  <2>4. Read(fs, n, as) = Instruction("Copy_From_Heap", x, of, as) /\ Assign(fs, n) = Instruction("Move_Top_To_Heap", x, of, Nothing)
    BY <2>0, <2>2, AccessIs DEF Accesses
  <2>5. "Copy_From_Heap" \in OfHeap /\ "Move_Top_To_Heap" \in OfHeap
    BY DEF OfHeap
  <2>6. /\ Straight(<<Instruction("Copy_From_Heap", x, of, as)>>, o)
        /\ Straight(<<Instruction("Move_Top_To_Heap", x, of, Nothing)>>, o)
    BY <2>3, <2>5, HeapIs
  <2> QED
    BY <1>1, <2>4, <2>6
<1>4. CASE LocalIndex(Last(fs), n) = -1 /\ ~(Holder(fs, n) # 0)
  <2>1. Location(fs, n) = [kind |-> "Global", index |-> n]
    BY <1>4 DEF Location
  <2>2. PICK l, of : l = Location(fs, n) /\ of = Meant(fs, n)
    OBVIOUS
  <2>0. l.kind = "Global" /\ l.index = n
    BY <2>1, <2>2
  <2>5. Accesses(fs, n, as)
    BY AccessIs
  <2>3. Read(fs, n, as) = Instruction("Read_Global", n, of, as) /\ Assign(fs, n) = Instruction("Assign_Global", n, of, Nothing)
    BY <2>0, <2>2, <2>5 DEF Accesses
  <2>4. Ordinary("Read_Global") /\ Ordinary("Assign_Global")
    BY DEF Ordinary, Jumps, OfHeap
  <2> QED
    BY <2>3, <2>4, OrdinaryIs
<1> QED
  BY <1>2, <1>3, <1>4

(* A part of a statement, parsed where the functions were fs.              *)
Fits(p, fs, cs) ==
  /\ p = [functions |-> p.functions, code |-> p.code]
  /\ FunctionsOK(fs, cs) /\ Grown(fs, p.functions, cs) /\ Straight(p.code, Len(Last(p.functions).outsiders))

LEMMA NothingFits == ASSUME NEW fs, NEW cs, FunctionsOK(fs, cs) PROVE Fits(Nothing_(fs), fs, cs) /\ Nothing_(fs).functions = fs
  BY GrownSame, StraightEmpty DEF Fits, Nothing_

LEMMA DoingFits ==
  ASSUME NEW p, NEW fs, NEW cs, Fits(p, fs, cs), NEW i, Straight(<<i>>, Len(Last(p.functions).outsiders)), NEW q, q = Doing(p, i)
  PROVE  Fits(q, fs, cs) /\ q.functions = p.functions
<1>1. PICK gs, t : gs = p.functions /\ t = Append(p.code, i)
  OBVIOUS
<1>2. q = [functions |-> gs, code |-> t]
  BY <1>1 DEF Fits, Doing
<1>3. q.functions = gs /\ q.code = t
  BY <1>2
<1>4. Straight(t, Len(Last(gs).outsiders))
  BY <1>1, StraightAppend DEF Fits
<1> QED
  BY <1>1, <1>2, <1>3, <1>4 DEF Fits

LEMMA OrdinaryFits ==
  ASSUME NEW p, NEW fs, NEW cs, Fits(p, fs, cs), NEW op, Ordinary(op), NEW x, NEW of, NEW as,
         NEW q, q = Doing(p, Instruction(op, x, of, as))
  PROVE  Fits(q, fs, cs) /\ q.functions = p.functions
<1>1. PICK i : i = Instruction(op, x, of, as)
  OBVIOUS
<1>2. Straight(<<i>>, Len(Last(p.functions).outsiders)) /\ q = Doing(p, i)
  BY <1>1, OrdinaryIs
<1> QED
  BY <1>2, DoingFits

(* The innermost function captures more: the code stays right.             *)
LEMMA GrownFits ==
  ASSUME NEW p, NEW fs, NEW cs, Fits(p, fs, cs), NEW gs, Grown(p.functions, gs, cs)
  PROVE  Fits([functions |-> gs, code |-> p.code], fs, cs)
<1>1. PICK hs, t : hs = p.functions /\ t = p.code
  OBVIOUS
<1>2. Grown(fs, hs, cs) /\ Grown(hs, gs, cs) /\ FunctionsOK(fs, cs) /\ Straight(t, Len(Last(hs).outsiders))
  BY <1>1 DEF Fits
<1>3. Grown(fs, gs, cs)
  BY <1>2, GrownTransitive
<1>4. PICK l : l = Len(hs)
  OBVIOUS
<1>5. l \in 1..l /\ Len(gs) = l /\ FunctionsOK(hs, cs) /\ FunctionsOK(gs, cs)
  BY <1>2, <1>4 DEF Grown, FunctionsOK, IsSeq
<1>6. /\ Len(hs[l].outsiders) \in Nat /\ Len(gs[l].outsiders) \in Nat
      /\ Len(hs[l].outsiders) <= Len(gs[l].outsiders)
  <2>1. OutsidersOK(hs[l].outsiders) /\ OutsidersOK(gs[l].outsiders)
    BY <1>4, <1>5 DEF FunctionsOK, FunctionOK
  <2>2. Captures(hs[l], gs[l])
    BY <1>2, <1>4, <1>5 DEF Grown
  <2> QED
    BY <2>1, <2>2 DEF OutsidersOK, IsSeq, Captures, More
<1>7. Straight(t, Len(hs[l].outsiders))
  BY <1>2, <1>4 DEF Last
<1>8. Straight(t, Len(gs[l].outsiders))
  BY <1>6, <1>7, StraightStays
<1>9. Straight(t, Len(Last(gs).outsiders))
  BY <1>5, <1>8 DEF Last
<1> QED
  BY <1>1, <1>2, <1>3, <1>9 DEF Fits

LEMMA ReadingFits ==
  ASSUME NEW p, NEW fs, NEW cs, IsSeq(cs), Fits(p, fs, cs), NEW n, NEW as, NEW q, q = Reading(p, n, as)
  PROVE  Fits(q, fs, cs)
<1>1. PICK gs, t : gs = Resolved(p.functions, n) /\ t = p.code
  OBVIOUS
<1>2. FunctionsOK(p.functions, cs)
  BY DEF Fits, Grown
<1>3. Grown(p.functions, gs, cs) /\ FoundIn(gs, n)
  BY <1>1, <1>2, ResolvedIs
<1>4. PICK r : r = [functions |-> gs, code |-> t]
  OBVIOUS
<1>5. Fits(r, fs, cs) /\ r.functions = gs /\ r.code = t
  BY <1>1, <1>3, <1>4, GrownFits
<1>6. PICK i : i = Read(gs, n, as)
  OBVIOUS
<1>7. Straight(<<i>>, Len(Last(gs).outsiders))
  BY <1>3, <1>6, ReadIs DEF Grown
<1>8. q = [functions |-> gs, code |-> Append(t, i)]
  BY <1>1, <1>6 DEF Reading
<1>9. q = Doing(r, i)
  BY SMTT(30), <1>4, <1>8 DEF Doing
<1> QED
  BY <1>5, <1>7, <1>9, DoingFits

LEMMA SuperFits ==
  ASSUME NEW p, NEW fs, NEW cs, IsSeq(cs), Fits(p, fs, cs), NEW e, NEW op \in {"Get_Super", "Call_Super_Method"}, NEW as,
         NEW q, q = OfSuperclass(p, e, op, as)
  PROVE  Fits(q, fs, cs)
<1>1. PICK hs, gs : hs = Resolved(p.functions, e.name) /\ gs = Resolved(hs, e.member)
  OBVIOUS
<1>2. Grown(p.functions, hs, cs)
  BY <1>1, ResolvedIs DEF Fits, Grown
<1>3. Grown(hs, gs, cs)
  BY <1>1, <1>2, ResolvedIs DEF Grown
<1>4. Grown(p.functions, gs, cs)
  BY <1>2, <1>3, GrownTransitive DEF Fits, Grown
<1>5. PICK r : r = [p EXCEPT !.functions = gs]
  OBVIOUS
<1>6. r = [functions |-> gs, code |-> p.code]
  BY <1>5 DEF Fits
<1>7. Fits(r, fs, cs)
  BY <1>4, <1>6, GrownFits
<1>8. PICK s : s = Reading(r, Keli, Nothing)
  OBVIOUS
<1>9. Fits(s, fs, cs)
  BY <1>7, <1>8, ReadingFits
<1>10. PICK t : t = Reading(s, e.name, Nothing)
  OBVIOUS
<1>11. Fits(t, fs, cs)
  BY <1>9, <1>10, ReadingFits
<1>12. PICK x : x = MethodName(gs, e.member)
  OBVIOUS
<1>13. q = Doing(t, Instruction(op, x, Nothing, as))
  BY <1>1, <1>5, <1>8, <1>10, <1>12, Zenon DEF OfSuperclass
<1>14. Ordinary(op)
  BY DEF Ordinary, Jumps, OfHeap
<1> QED
  BY <1>11, <1>13, <1>14, OrdinaryFits

IsExpression(e) == e = Literal \/ e.form \in {"name", "new()", "o.m", "o.m()"}

LEMMA ParsedFits ==
  ASSUME NEW p, NEW fs, NEW cs, IsSeq(cs), Fits(p, fs, cs), NEW e, IsExpression(e), NEW as, NEW q, q = Parsed(p, e, as)
  PROVE  Fits(q, fs, cs)
<1>1. Literal.form = "literal"
  BY DEF Literal, Form
<1>2. CASE e = Literal
  <2>1. q = Doing(p, Instruction("Push_Literal", Nothing, Nothing, as))
    BY <1>1, <1>2 DEF Parsed, Push
  <2>2. Ordinary("Push_Literal")
    BY DEF Ordinary, Jumps, OfHeap
  <2> QED
    BY <2>1, <2>2, OrdinaryFits
<1>3. CASE e.form = "name"
  <2>1. e # Literal /\ e.form # "new()" /\ e.form \notin {"o.m", "o.m()"}
    BY <1>1, <1>3
  <2>2. q = Reading(p, e.name, as)
    BY <1>3, <2>1 DEF Parsed
  <2> QED
    BY <2>2, ReadingFits
<1>4. CASE e.form = "new()"
  <2>1. e # Literal /\ e.form # "name" /\ e.form \notin {"o.m", "o.m()"}
    BY <1>1, <1>4
  <2>2. PICK r : r = Reading(p, e.name, Nothing)
    OBVIOUS
  <2>3. PICK i : i = Instruction("Call_Class", 0, Nothing, as)
    OBVIOUS
  <2>4. q = Doing(r, i)
    BY <1>4, <2>1, <2>2, <2>3 DEF Parsed
  <2>5. Fits(r, fs, cs)
    BY <2>2, ReadingFits
  <2>6. Straight(<<i>>, Len(Last(r.functions).outsiders))
    BY <2>3, CallIs
  <2> QED
    BY <2>4, <2>5, <2>6, DoingFits
<1>5. CASE e.form \in {"o.m", "o.m()"}
  <2>1. e # Literal /\ e.form # "name" /\ e.form # "new()"
    BY <1>1, <1>5
  <2>2. PICK sop, mop : /\ sop = IF e.form = "o.m" THEN "Get_Super" ELSE "Call_Super_Method"
                        /\ mop = IF e.form = "o.m" THEN "Get_Property" ELSE "Call_Method"
    OBVIOUS
  <2>3. q = IF IsSuperclass(p.functions, e.name) THEN OfSuperclass(p, e, sop, as)
            ELSE Doing(Reading(p, e.name, Nothing), Instruction(mop, e.member, Nothing, as))
    BY <1>5, <2>1, <2>2 DEF Parsed
  <2>4. CASE IsSuperclass(p.functions, e.name)
    BY <2>2, <2>3, <2>4, SuperFits
  <2>5. CASE ~IsSuperclass(p.functions, e.name)
    <3>1. PICK r : r = Reading(p, e.name, Nothing)
      OBVIOUS
    <3>2. Fits(r, fs, cs)
      BY <3>1, ReadingFits
    <3>3. Ordinary(mop)
      BY <2>2 DEF Ordinary, Jumps, OfHeap
    <3>4. q = Doing(r, Instruction(mop, e.member, Nothing, as))
      BY <2>3, <2>5, <3>1
    <3>5. PICK m : m = e.member
      OBVIOUS
    <3>6. q = Doing(r, Instruction(mop, m, Nothing, as))
      BY <3>4, <3>5
    <3> QED
      BY <3>2, <3>3, <3>6, OrdinaryFits
  <2> QED
    BY <2>4, <2>5
<1> QED
  BY <1>2, <1>3, <1>4, <1>5 DEF IsExpression

LEMMA AssigningFits ==
  ASSUME NEW p, NEW fs, NEW cs, Fits(p, fs, cs), NEW n, FoundIn(p.functions, n), NEW q, q = Assigning(p, n)
  PROVE  Fits(q, fs, cs) /\ q.functions = p.functions
<1>1. PICK i : i = Assign(p.functions, n)
  OBVIOUS
<1>2. Straight(<<i>>, Len(Last(p.functions).outsiders))
  BY <1>1, ReadIs DEF Fits, Grown
<1>3. q = Doing(p, i)
  BY <1>1 DEF Assigning
<1> QED
  BY <1>2, <1>3, DoingFits

-----------------------------------------------------------------------------
(* The statements that are open.                                           *)

(* A statement of which only the statement inside it has been parsed.      *)
SameContext(o, p) ==
  /\ HasFields(p) /\ p.kind = o.kind /\ p.type = o.type
  /\ Holds(o) => p.jump = o.jump
  /\ o.kind = "while" => p.start = o.start
  /\ o.kind = "for" => p.variable = o.variable /\ p.increment = o.increment /\ p.continue = o.continue
  /\ o.kind = "class" => p.superclass = o.superclass

SameContexts(os, ps) == IsSeq(ps) /\ Len(ps) = Len(os) /\ \A k \in 1..Len(os) : SameContext(os[k], ps[k])

LEMMA SameContextIs ==
  ASSUME NEW o, NEW p, SameContext(o, p), NEW in, NEW fs, ContextOK(o, in, fs), NEW inner, Inside(in, o, inner)
  PROVE  /\ Opens(p) = Opens(o) /\ Pushes(p) = Pushes(o) /\ Holds(p) = Holds(o)
         /\ ContextOK(p, in, fs) /\ Inside(in, p, inner)
<1>1. /\ p.kind = o.kind /\ p.type = o.type
      /\ o.kind \in {"block", "then", "else", "while", "for", "function", "method", "class"}
  BY DEF SameContext, ContextOK
<1>2. Opens(p) = Opens(o) /\ Pushes(p) = Pushes(o) /\ Holds(p) = Holds(o)
  BY <1>1 DEF Opens, Pushes, Holds
<1>3. ContextOK(p, in, fs)
  BY <1>1, <1>2 DEF ContextOK, SameContext, Holds
<1>4. Scopes(p) = Scopes(o)
  <2>1. o.kind = "for" => p.variable = o.variable
    BY DEF SameContext
  <2>2. o.kind = "class" => p.superclass = o.superclass
    BY DEF SameContext
  <2> QED
    BY <1>1, <2>1, <2>2 DEF Scopes
<1>5. o.kind = "for" => p.continue = o.continue
  BY DEF SameContext
<1>6. Inside(in, p, inner)
  BY <1>1, <1>2, <1>4, <1>5 DEF Inside
<1> QED
  BY <1>2, <1>3, <1>6

LEMMA DoneIs == ASSUME NEW o, HasFields(o), NEW p, p = [o EXCEPT !.done = TRUE] PROVE SameContext(o, p)
<1>1. DOMAIN p = DOMAIN o /\ \A x \in DOMAIN o : x # "done" => p[x] = o[x]
  OBVIOUS
<1>2. p.kind = o.kind /\ p.type = o.type
  BY <1>1 DEF HasFields
<1>3. Holds(o) => p.jump = o.jump
  BY <1>1 DEF HasFields
<1>4. o.kind = "while" => p.start = o.start
  BY <1>1 DEF HasFields
<1>5. o.kind = "for" => p.variable = o.variable /\ p.increment = o.increment /\ p.continue = o.continue
  BY <1>1 DEF HasFields
<1>6. o.kind = "class" => p.superclass = o.superclass
  BY <1>1 DEF HasFields
<1>7. HasFields(p)
  BY <1>1, <1>2 DEF HasFields, Holds
<1> QED
  BY <1>2, <1>3, <1>4, <1>5, <1>6, <1>7 DEF SameContext

LEMMA SameIsSame == ASSUME NEW o, HasFields(o) PROVE SameContext(o, o)
  BY DEF SameContext

LEMMA EndedIs ==
  ASSUME NEW os, IsSeq(os), \A k \in 1..Len(os) : HasFields(os[k]), NEW ps, ps = Ended(os)
  PROVE  SameContexts(os, ps)
<1>1. CASE os = <<>>
  <2>1. Len(os) = 0
    BY <1>1, EmptyIs
  <2>2. ps = os
    BY <1>1 DEF Ended
  <2> QED
    BY <2>1, <2>2 DEF SameContexts
<1>2. CASE os # <<>>
  <2>1. Len(os) # 0
    BY <1>2, NoneIs
  <2>2. PICK o : o = os[Len(os)]
    OBVIOUS
  <2>3. PICK p : p = [o EXCEPT !.done = TRUE]
    OBVIOUS
  <2>4. Len(os) \in 1..Len(os)
    BY <2>1 DEF IsSeq
  <2>5. SameContext(o, p)
    BY <2>2, <2>3, <2>4, DoneIs
  <2>6. ps = Updated(os, Len(os), p)
    BY <1>2, <2>2, <2>3, Zenon DEF Ended, Updated
  <2>7. IsSeq(ps) /\ Len(ps) = Len(os) /\ \A j \in 1..Len(os) : ps[j] = IF j = Len(os) THEN p ELSE os[j]
    BY <2>6, UpdateIs
  <2>8. ASSUME NEW k \in 1..Len(os) PROVE SameContext(os[k], ps[k])
    <3>1. CASE k = Len(os)
      BY <2>2, <2>5, <2>7, <3>1
    <3>2. CASE k # Len(os)
      BY <2>7, <3>2, SameIsSame
    <3> QED
      BY <3>1, <3>2
  <2> QED
    BY <2>7, <2>8 DEF SameContexts
<1> QED
  BY <1>1, <1>2

(* The n outermost functions of fs, with more code.                        *)
Onward(fs, gs, n) ==
  /\ \A l \in 1..n : IsSeq(fs[l].code) /\ IsSeq(gs[l].code) /\ Longer(fs[l].code, gs[l].code)
  /\ \A l \in 1..n-1 : gs[l].depth = fs[l].depth

LEMMA ContinueStays ==
  ASSUME NEW fs, NEW gs, NEW n \in Nat, Onward(fs, gs, n), NEW level \in 1..n, NEW c, ContinueOK(c, level, fs)
  PROVE  ContinueOK(c, level, gs)
<1>1. CASE c.to = -1
  BY <1>1 DEF ContinueOK
<1>2. CASE c.to # -1
  <2>1. c.function \in 1..level /\ Target(fs[c.function].code, c.to)
    BY <1>2 DEF ContinueOK
  <2>2. c.function \in 1..n
    BY <2>1
  <2>3. Target(gs[c.function].code, c.to)
    BY <2>1, <2>2, LongerIs DEF Onward
  <2> QED
    BY <2>1, <2>3 DEF ContinueOK
<1> QED
  BY <1>1, <1>2

LEMMA ContextStays ==
  ASSUME NEW fs, NEW gs, NEW n \in Nat, Onward(fs, gs, n), NEW o, NEW in, in.level \in 1..n,
         Opens(o) => in.level # n, ContextOK(o, in, fs)
  PROVE  ContextOK(o, in, gs)
<1>1. PICK l : l = in.level
  OBVIOUS
<1>2. l \in 1..n /\ IsSeq(fs[l].code) /\ IsSeq(gs[l].code) /\ Longer(fs[l].code, gs[l].code)
  BY <1>1 DEF Onward
<1>3. /\ \A t : Target(fs[l].code, t) => Target(gs[l].code, t)
      /\ \A k : JumpAt(fs[l].code, k) => JumpAt(gs[l].code, k)
  BY <1>2, LongerIs
<1>4. Opens(o) => gs[l].depth = in.depth
  <2>1. SUFFICES ASSUME Opens(o) PROVE gs[l].depth = in.depth
    OBVIOUS
  <2>2. l \in 1..n-1
    BY <1>1, <1>2, <2>1
  <2> QED
    BY <1>1, <2>1, <2>2 DEF ContextOK, Onward
<1>5. Holds(o) => (o.kind = "for" /\ o.jump = -1) \/ JumpAt(gs[l].code, o.jump)
  BY <1>1, <1>3 DEF ContextOK
<1>6. o.kind = "while" => Target(gs[l].code, o.start)
  BY <1>1, <1>3 DEF ContextOK
<1>7. o.kind = "for" => o.increment = -1 \/ Target(gs[l].code, o.increment)
  BY <1>1, <1>3 DEF ContextOK
<1> QED
  BY <1>1, <1>4, <1>5, <1>6, <1>7 DEF ContextOK

(* Statements end: those that stay open are nested as they were.           *)
LEMMA NestedStays ==
  ASSUME NEW in, NEW os, NEW fs, Nested(in, os, fs), NEW ps, IsSeq(ps), Len(ps) <= Len(os),
         \A k \in 1..Len(ps) : SameContext(os[k], ps[k]),
         NEW gs, Len(gs) \in Nat, in[Len(ps) + 1].level <= Len(gs), Onward(fs, gs, in[Len(ps) + 1].level)
  PROVE  Nested(in, ps, gs)
<1>1. Len(ps) \in Nat /\ Len(os) \in Nat
  BY DEF IsSeq, Nested
<1>2. PICK m, n : m = Len(ps) /\ n = in[m + 1].level
  OBVIOUS
<1>3. \A k \in 1..m+1 : k \in 1..Len(os)+1 /\ k <= m + 1
  BY <1>1, <1>2
<1>4. m + 1 \in 1..Len(os)+1 /\ m + 1 \in 1..m+1
  BY <1>1, <1>2
<1>5. n \in Nat /\ n <= Len(gs)
  BY <1>2, <1>4 DEF Nested
<1>6. ASSUME NEW k \in 1..m+1
      PROVE  /\ in[k].level \in 1..n /\ in[k].level \in 1..Len(gs) /\ in[k].blocks \in Nat /\ in[k].depth \in Nat
             /\ ContinueOK(in[k].continue, in[k].level, gs)
  <2>1. /\ in[k].level \in 1..Len(fs) /\ in[k].blocks \in Nat /\ in[k].depth \in Nat
        /\ ContinueOK(in[k].continue, in[k].level, fs)
    BY <1>3 DEF Nested
  <2>2. in[k].level <= n
    BY <1>2, <1>3, <1>4 DEF Nested
  <2>3. in[k].level \in 1..n /\ in[k].level \in 1..Len(gs)
    BY <1>5, <2>1, <2>2
  <2>4. Onward(fs, gs, n)
    BY <1>2
  <2>5. ContinueOK(in[k].continue, in[k].level, gs)
    BY <1>5, <2>1, <2>3, <2>4, ContinueStays
  <2> QED
    BY <2>1, <2>3, <2>5
<1>7. ASSUME NEW k \in 1..m PROVE Inside(in[k], ps[k], in[k + 1]) /\ ContextOK(ps[k], in[k], gs)
  <2>1. k \in 1..Len(os) /\ k \in 1..m+1 /\ k + 1 \in 1..m+1
    BY <1>1, <1>2
  <2>2. Inside(in[k], os[k], in[k + 1]) /\ ContextOK(os[k], in[k], fs)
    BY <2>1 DEF Nested
  <2>3. SameContext(os[k], ps[k])
    BY <1>2
  <2>4. Opens(ps[k]) = Opens(os[k]) /\ ContextOK(ps[k], in[k], fs) /\ Inside(in[k], ps[k], in[k + 1])
    BY <2>2, <2>3, SameContextIs
  <2>5. in[k].level \in 1..n /\ in[k + 1].level \in 1..n
    BY <1>6, <2>1
  <2>6. Opens(ps[k]) => in[k].level # n
    BY <2>4, <2>5 DEF Inside
  <2>7. Onward(fs, gs, n)
    BY <1>2
  <2>8. ContextOK(ps[k], in[k], gs)
    BY <1>5, <2>4, <2>5, <2>6, <2>7, ContextStays
  <2> QED
    BY <2>4, <2>8
<1>8. \A j, k \in 1..m+1 : j <= k => in[j].level <= in[k].level /\ in[j].blocks <= in[k].blocks
  BY <1>3 DEF Nested
<1>9. in[1].level = 1 /\ in[1].blocks = 0 /\ in[1].depth = 0
  BY DEF Nested
<1> QED
  BY <1>2, <1>6, <1>7, <1>8, <1>9 DEF Nested

(* A statement begins.                                                     *)
Deeper(in, m, new) == [k \in 1..m+2 |-> IF k = m + 2 THEN new ELSE in[k]]

MayOpen(outer, o, new, fs) ==
  /\ Inside(outer, o, new) /\ ContextOK(o, outer, fs)
  /\ new.level \in 1..Len(fs) /\ new.blocks \in Nat /\ new.depth \in Nat /\ ContinueOK(new.continue, new.level, fs)

(* Statement o begins in the statements os: they become ps, and new is     *)
(* what its parts are in.                                                  *)
Beginning(in, os, fs, o, new, jn, ps) ==
  /\ Nested(in, os, fs) /\ MayOpen(in[Len(os) + 1], o, new, fs)
  /\ jn = Deeper(in, Len(os), new) /\ ps = Append(os, o)
Begun(in, os, fs, o, new, jn, ps) ==
  /\ Nested(jn, ps, fs) /\ Len(ps) = Len(os) + 1
  /\ jn[Len(os) + 2] = new /\ ps[Len(os) + 1] = o
  /\ \A k \in 1..Len(os)+1 : jn[k] = in[k]
  /\ \A k \in 1..Len(os) : ps[k] = os[k]

LEMMA NestedMore ==
  ASSUME NEW in, NEW os, NEW fs, NEW o, NEW new, NEW jn, NEW ps, Beginning(in, os, fs, o, new, jn, ps)
  PROVE  Begun(in, os, fs, o, new, jn, ps)
<1>a. /\ Nested(in, os, fs) /\ MayOpen(in[Len(os) + 1], o, new, fs)
      /\ jn = Deeper(in, Len(os), new) /\ ps = Append(os, o)
  BY DEF Beginning
<1>1. PICK m : m = Len(os)
  OBVIOUS
<1>0. /\ Inside(in[m + 1], o, new) /\ ContextOK(o, in[m + 1], fs)
      /\ new.level \in 1..Len(fs) /\ new.blocks \in Nat /\ new.depth \in Nat /\ ContinueOK(new.continue, new.level, fs)
  BY <1>a, <1>1 DEF MayOpen
<1>2. IsSeq(os) /\ m \in Nat
  BY <1>a, <1>1 DEF IsSeq, Nested
<1>3. IsSeq(ps) /\ Len(ps) = m + 1 /\ ps[m + 1] = o /\ \A k \in 1..m : ps[k] = os[k]
  BY <1>a, <1>1, <1>2, AppendIs
<1>4. jn[m + 2] = new
  <2>1. m + 2 \in 1..m+2
    BY <1>2
  <2> QED
    BY <1>a, <1>1, <2>1 DEF Deeper
<1>5. ASSUME NEW k \in 1..m+1 PROVE jn[k] = in[k]
  <2>1. k \in 1..m+2 /\ k # m + 2
    BY <1>2
  <2> QED
    BY <1>a, <1>1, <2>1 DEF Deeper
<1>6. \A k \in 1..m+2 : k = m + 2 \/ k \in 1..m+1
  BY <1>2
<1>7. m + 1 \in 1..m+1 /\ \A k \in 1..m+1 : k <= m + 1
  BY <1>2
<1>8. /\ \A k \in 1..m+1 : in[k].level \in 1..Len(fs) /\ in[k].blocks \in Nat /\ in[k].depth \in Nat
                           /\ ContinueOK(in[k].continue, in[k].level, fs)
      /\ \A j, k \in 1..m+1 : j <= k => in[j].level <= in[k].level /\ in[j].blocks <= in[k].blocks
      /\ \A k \in 1..m : Inside(in[k], os[k], in[k + 1]) /\ ContextOK(os[k], in[k], fs)
      /\ in[1].level = 1 /\ in[1].blocks = 0 /\ in[1].depth = 0
  BY <1>a, <1>1 DEF Nested
<1>9. in[m + 1].level <= new.level /\ in[m + 1].blocks <= new.blocks
  <2>1. in[m + 1].level \in Int /\ in[m + 1].blocks \in Int
    BY <1>7, <1>8
  <2>2. /\ new.level = in[m + 1].level + (IF Opens(o) THEN 1 ELSE 0)
        /\ new.blocks = in[m + 1].blocks + (IF Pushes(o) THEN 1 ELSE 0)
    BY <1>0 DEF Inside
  <2> QED
    BY <2>1, <2>2
<1>10. \A k \in 1..m+1 : in[k].level <= new.level /\ in[k].blocks <= new.blocks
  <2>1. ASSUME NEW k \in 1..m+1 PROVE in[k].level <= new.level /\ in[k].blocks <= new.blocks
    <3>1. in[k].level <= in[m + 1].level /\ in[k].blocks <= in[m + 1].blocks
      BY <1>7, <1>8
    <3>2. in[k].level \in Int /\ in[k].blocks \in Int /\ in[m + 1].level \in Int /\ in[m + 1].blocks \in Int
          /\ new.level \in Int /\ new.blocks \in Int
      BY <1>0, <1>7, <1>8
    <3> QED
      BY <1>9, <3>1, <3>2
  <2> QED
    BY <2>1
<1>11. ASSUME NEW j \in 1..m+2, NEW k \in 1..m+2, j <= k
       PROVE  jn[j].level <= jn[k].level /\ jn[j].blocks <= jn[k].blocks
  <2>1. CASE k = m + 2
    <3>1. new.level <= new.level /\ new.blocks <= new.blocks
      BY <1>0
    <3> QED
      BY <1>0, <1>4, <1>5, <1>6, <1>10, <2>1, <3>1
  <2>2. CASE k # m + 2
    <3>1. j \in 1..m+1 /\ k \in 1..m+1
      BY <1>2, <1>11, <2>2
    <3> QED
      BY <1>5, <1>8, <1>11, <3>1
  <2> QED
    BY <2>1, <2>2
<1>12. ASSUME NEW k \in 1..m+1 PROVE Inside(jn[k], ps[k], jn[k + 1]) /\ ContextOK(ps[k], jn[k], fs)
  <2>1. CASE k = m + 1
    <3>1. k + 1 = m + 2
      BY <1>2, <2>1
    <3> QED
      BY <1>0, <1>1, <1>3, <1>4, <1>5, <2>1, <3>1
  <2>2. CASE k # m + 1
    <3>1. k \in 1..m /\ k + 1 \in 1..m+1
      BY <1>2, <2>2
    <3> QED
      BY <1>3, <1>5, <1>8, <3>1
  <2> QED
    BY <2>1, <2>2
<1>13. \A k \in 1..m+2 :
         /\ jn[k].level \in 1..Len(fs) /\ jn[k].blocks \in Nat /\ jn[k].depth \in Nat
         /\ ContinueOK(jn[k].continue, jn[k].level, fs)
  BY <1>0, <1>4, <1>5, <1>6, <1>8
<1>14. jn[1] = in[1]
  BY <1>2, <1>5
<1>15. Len(ps) + 1 = m + 2
  BY <1>2, <1>3
<1>16. Nested(jn, ps, fs)
  BY <1>3, <1>8, <1>11, <1>12, <1>13, <1>14, <1>15 DEF Nested
<1> QED
  BY <1>1, <1>3, <1>4, <1>5, <1>16 DEF Begun

-----------------------------------------------------------------------------
(* What a step of the parser leaves.                                       *)

LEMMA EvenSame ==
  ASSUME NEW in, NEW fs, NEW os, Nested(in, os, fs), NEW ps, SameContexts(os, ps)
  PROVE  /\ \A b : Even(in, ps, b) = Even(in, os, b)
         /\ \A bs, l : Held(in, ps, bs, l) = Held(in, os, bs, l)
<1>1. Len(ps) = Len(os)
  BY DEF SameContexts
<1>2. ASSUME NEW k \in 1..Len(os)
      PROVE  Pushes(ps[k]) = Pushes(os[k]) /\ Holds(ps[k]) = Holds(os[k]) /\ (Holds(os[k]) => ps[k].jump = os[k].jump)
  BY DEF SameContexts, SameContext, Pushes, Holds
<1>3. ASSUME NEW b PROVE Even(in, ps, b) = Even(in, os, b)
  BY <1>1, <1>2 DEF Even
<1>4. ASSUME NEW bs, NEW l PROVE Held(in, ps, bs, l) = Held(in, os, bs, l)
  <2>1. {ps[k].jump : k \in {n \in 1..Len(ps) : Holds(ps[n]) /\ in[n].level = l}}
          = {os[k].jump : k \in {n \in 1..Len(os) : Holds(os[n]) /\ in[n].level = l}}
    BY <1>1, <1>2
  <2> QED
    BY <2>1 DEF Held
<1> QED
  BY <1>3, <1>4

(* More code, and a statement that has been parsed.                        *)
LEMMA ChangedIs ==
  ASSUME NEW in, NEW fs, NEW cs, NEW os, NEW bs, NEW n, NEW c, Parsing(in, fs, cs, os, bs, n, c),
         NEW gs, NEW ds, FunctionsOK(gs, ds), Len(gs) = Len(fs), Onward(fs, gs, Len(fs)),
         NEW ps, SameContexts(os, ps)
  PROVE  Parsing(in, gs, ds, ps, bs, n, c)
<1>1. /\ Nested(in, os, fs) /\ BreakpointsOK(in, fs, os, bs, n)
      /\ in[Len(os) + 1].level = Len(fs) /\ in[Len(os) + 1].blocks = n /\ in[Len(os) + 1].continue = c
  BY DEF Parsing
<1>2. /\ IsSeq(ps) /\ Len(ps) = Len(os) /\ Len(os) \in Nat
      /\ \A k \in 1..Len(ps) : SameContext(os[k], ps[k])
  BY <1>1 DEF SameContexts, Nested, IsSeq
<1>3. Len(gs) \in Nat /\ Len(gs) = in[Len(ps) + 1].level
  BY <1>1, <1>2 DEF FunctionsOK, IsSeq
<1>4. Nested(in, ps, gs)
  <2>1. Len(ps) <= Len(os) /\ in[Len(ps) + 1].level <= Len(gs)
    BY <1>2, <1>3
  <2>2. Onward(fs, gs, in[Len(ps) + 1].level)
    BY <1>3
  <2> QED
    BY <1>1, <1>2, <1>3, <2>1, <2>2, NestedStays
<1>5. BreakpointsOK(in, gs, ps, bs, n)
  <2>1. ASSUME NEW i \in 1..Len(bs), Even(in, ps, bs[i])
        PROVE  JumpAt(gs[bs[i].function].code, bs[i].operand)
    <3>1. Even(in, os, bs[i])
      BY <1>1, <2>1, EvenSame
    <3>2. JumpAt(fs[bs[i].function].code, bs[i].operand)
      BY <1>1, <3>1 DEF BreakpointsOK
    <3>3. PICK k \in 1..Len(os) : in[k].level = bs[i].function
      BY <3>1 DEF Even
    <3>4. k \in 1..Len(os)+1
      BY <1>2
    <3>5. bs[i].function \in 1..Len(fs)
      BY <1>1, <3>3, <3>4 DEF Nested
    <3> QED
      BY <3>2, <3>5, LongerIs DEF Onward
  <2> QED
    BY <1>1, <2>1 DEF BreakpointsOK
<1> QED
  BY <1>1, <1>2, <1>3, <1>4, <1>5 DEF Parsing

LEMMA ChangedRegularly ==
  ASSUME NEW in, NEW fs, NEW cs, NEW os, NEW bs, NEW x, Regularly(in, fs, cs, os, bs, x), Nested(in, os, fs),
         NEW gs, Len(gs) = Len(fs), NEW y,
         \A l \in 1..Len(fs) : Loose(gs[l].code) \subseteq Loose(fs[l].code) \cup {k \in y : l = Len(fs)},
         NEW ps, SameContexts(os, ps), NEW z, x \cup y \subseteq z
  PROVE  Regularly(in, gs, cs, ps, bs, z)
<1>1. /\ \A b : Even(in, ps, b) = Even(in, os, b)
      /\ \A l : Held(in, ps, bs, l) = Held(in, os, bs, l)
  BY EvenSame
<1>2. \A k \in 1..Len(ps) : ps[k].kind = "for" => ps[k].increment # -1
  BY DEF Regularly, SameContexts, SameContext
<1>3. SUFFICES ASSUME AllEven(in, ps, bs) PROVE NothingLoose(cs) /\ AllHeld(in, gs, ps, bs, z)
  BY <1>2 DEF Regularly
<1>4. AllEven(in, os, bs)
  BY <1>1, <1>3 DEF AllEven
<1>5. NothingLoose(cs) /\ AllHeld(in, fs, os, bs, x)
  BY <1>4 DEF Regularly
<1>6. ASSUME NEW l \in 1..Len(fs) PROVE Loose(gs[l].code) \subseteq Held(in, ps, bs, l) \cup {k \in z : l = Len(gs)}
  <2>1. Loose(fs[l].code) \subseteq Held(in, os, bs, l) \cup {k \in x : l = Len(fs)}
    BY <1>5 DEF AllHeld
  <2>2. Held(in, ps, bs, l) = Held(in, os, bs, l)
    BY <1>1
  <2> QED
    BY <2>1, <2>2
<1> QED
  BY <1>5, <1>6 DEF AllHeld

LEMMA SameContextsSame ==
  ASSUME NEW in, NEW fs, NEW os, Nested(in, os, fs) PROVE SameContexts(os, os) /\ SameContexts(os, Ended(os))
<1>1. IsSeq(os) /\ \A k \in 1..Len(os) : HasFields(os[k])
  BY DEF Nested, ContextOK
<1> QED
  BY <1>1, EndedIs, SameIsSame DEF SameContexts

(* Another innermost function.                                             *)
LEMMA InnerIs ==
  ASSUME NEW fs, NEW cs, FunctionsOK(fs, cs), NEW g, FunctionOK(g, cs), g.outsiders = fs[Len(fs)].outsiders,
         Longer(fs[Len(fs)].code, g.code), NEW gs, gs = Updated(fs, Len(fs), g)
  PROVE  /\ FunctionsOK(gs, cs) /\ Len(gs) = Len(fs) /\ gs[Len(fs)] = g /\ Onward(fs, gs, Len(fs))
         /\ \A l \in 1..Len(fs)-1 : gs[l] = fs[l]
<1>1. PICK n : n = Len(fs)
  OBVIOUS
<1>2. IsSeq(fs) /\ n \in Nat /\ n # 0 /\ n \in 1..n
  BY <1>1 DEF FunctionsOK, IsSeq
<1>3. IsSeq(gs) /\ Len(gs) = n /\ \A j \in 1..n : gs[j] = IF j = n THEN g ELSE fs[j]
  BY <1>1, <1>2, UpdateIs
<1>4. gs[n] = g /\ \A l \in 1..n-1 : gs[l] = fs[l]
  BY <1>2, <1>3
<1>5. \A l \in 1..n : l = n \/ l \in 1..n-1
  BY <1>2
<1>6. \A l \in 1..n : FunctionOK(gs[l], cs) /\ gs[l].outsiders = fs[l].outsiders
  BY <1>1, <1>4, <1>5 DEF FunctionsOK
<1>7. \A l \in 2..n : FitIn(gs[l].outsiders, Len(gs[l - 1].outsiders))
  <2>1. \A l \in 2..n : l \in 1..n /\ l - 1 \in 1..n
    BY <1>2
  <2> QED
    BY <1>1, <1>6, <2>1 DEF FunctionsOK
<1>8. FunctionsOK(gs, cs)
  BY <1>1, <1>2, <1>3, <1>6, <1>7 DEF FunctionsOK
<1>9. ASSUME NEW l \in 1..n PROVE IsSeq(fs[l].code) /\ IsSeq(gs[l].code) /\ Longer(fs[l].code, gs[l].code)
  <2>1. IsSeq(fs[l].code) /\ IsSeq(gs[l].code)
    BY <1>1, <1>6 DEF FunctionsOK, FunctionOK, CodeOK
  <2>2. Longer(fs[l].code, gs[l].code)
    <3>1. CASE l = n
      BY <1>1, <1>4, <3>1
    <3>2. CASE l # n
      BY <1>4, <1>5, <2>1, <3>2, LongerSame
    <3> QED
      BY <3>1, <3>2
  <2> QED
    BY <2>1, <2>2
<1>10. Onward(fs, gs, n)
  BY <1>4, <1>9 DEF Onward
<1> QED
  BY <1>1, <1>3, <1>4, <1>8, <1>10

(* Functions that capture more.                                            *)
LEMMA GrownOnward ==
  ASSUME NEW fs, NEW cs, FunctionsOK(fs, cs), NEW gs, Grown(fs, gs, cs)
  PROVE  /\ FunctionsOK(gs, cs) /\ Len(gs) = Len(fs) /\ Onward(fs, gs, Len(fs))
         /\ \A l \in 1..Len(fs) : gs[l].code = fs[l].code /\ gs[l].depth = fs[l].depth
<1>1. ASSUME NEW l \in 1..Len(fs) PROVE IsSeq(fs[l].code) /\ gs[l].code = fs[l].code /\ gs[l].depth = fs[l].depth
  BY DEF FunctionsOK, FunctionOK, CodeOK, Grown, Captures
<1>2. Len(fs) \in Nat
  BY DEF FunctionsOK, IsSeq
<1>3. \A l \in 1..Len(fs)-1 : l \in 1..Len(fs)
  BY <1>2
<1>4. Onward(fs, gs, Len(fs))
  BY <1>1, <1>3, LongerSame DEF Onward
<1> QED
  BY <1>1, <1>4 DEF Grown

LEMMA OnwardTransitive ==
  ASSUME NEW fs, NEW gs, NEW hs, NEW n, Onward(fs, gs, n), Onward(gs, hs, n)
  PROVE  Onward(fs, hs, n)
<1>1. ASSUME NEW l \in 1..n PROVE IsSeq(fs[l].code) /\ IsSeq(hs[l].code) /\ Longer(fs[l].code, hs[l].code)
  BY LongerTransitive DEF Onward
<1> QED
  BY <1>1 DEF Onward

-----------------------------------------------------------------------------
(* A statement begins, in the same function or (gs has one more) with one. *)
Opening(in, fs, cs, os, bs, n, c, o, new, gs, jn, ps) ==
  /\ Parsing(in, fs, cs, os, bs, n, c) /\ FunctionsOK(gs, cs) /\ Nested(in, os, gs)
  /\ Len(fs) <= Len(gs) /\ \A l \in 1..Len(fs) : gs[l] = fs[l]
  /\ new.level = Len(gs) /\ new.depth \in Nat /\ ContinueOK(new.continue, new.level, gs)
  /\ Inside(in[Len(os) + 1], o, new) /\ ContextOK(o, in[Len(os) + 1], gs)
  /\ jn = Deeper(in, Len(os), new) /\ ps = Append(os, o)
Opened(in, fs, os, bs, o, jn, ps) ==
  /\ Len(ps) = Len(os) + 1 /\ ps[Len(os) + 1] = o /\ \A k \in 1..Len(os) : ps[k] = os[k]
  /\ in[Len(os) + 1].level = Len(fs)
  /\ \A i \in 1..Len(bs) : Even(jn, ps, bs[i]) => Even(in, os, bs[i])
  /\ \A l : Held(in, os, bs, l) \subseteq Held(jn, ps, bs, l)
  /\ Holds(o) => o.jump \in Held(jn, ps, bs, in[Len(os) + 1].level)

LEMMA OpenedIs ==
  ASSUME NEW in, NEW fs, NEW cs, NEW os, NEW bs, NEW n, NEW c, NEW o, NEW new, NEW gs, NEW jn, NEW ps,
         Opening(in, fs, cs, os, bs, n, c, o, new, gs, jn, ps)
  PROVE  /\ Parsing(jn, gs, cs, ps, bs, new.blocks, new.continue)
         /\ jn[Len(ps) + 1] = new /\ Opened(in, fs, os, bs, o, jn, ps)
<1> USE DEF Opening
<1>1. PICK m : m = Len(os)
  OBVIOUS
<1>2. /\ Nested(in, os, fs) /\ BreakpointsOK(in, fs, os, bs, n) /\ m \in Nat
      /\ in[m + 1].level = Len(fs) /\ in[m + 1].blocks = n /\ in[m + 1].continue = c
  BY <1>1 DEF Parsing, Nested, IsSeq
<1>3. Len(gs) \in Nat /\ Len(fs) \in Nat /\ Len(gs) # 0
  BY DEF FunctionsOK, IsSeq, Parsing
<1>4. m + 1 \in 1..m+1 /\ n \in Nat
  BY <1>1, <1>2 DEF Nested
<1>5. new.blocks = n + (IF Pushes(o) THEN 1 ELSE 0) /\ new.level = Len(fs) + (IF Opens(o) THEN 1 ELSE 0)
  BY <1>1, <1>2 DEF Inside
<1>6. new.blocks \in Nat /\ n <= new.blocks /\ new.level \in 1..Len(gs)
  BY <1>3, <1>4, <1>5
<1>7. /\ Nested(jn, ps, gs) /\ Len(ps) = m + 1
      /\ jn[m + 2] = new /\ ps[m + 1] = o
      /\ \A k \in 1..m+1 : jn[k] = in[k]
      /\ \A k \in 1..m : ps[k] = os[k]
  <2>1. MayOpen(in[Len(os) + 1], o, new, gs)
    BY <1>6 DEF MayOpen
  <2>2. Beginning(in, os, gs, o, new, jn, ps)
    BY <2>1 DEF Beginning
  <2>3. Begun(in, os, gs, o, new, jn, ps)
    BY <2>2, NestedMore
  <2> QED
    BY <1>1, <2>3 DEF Begun
<1>8. \A k \in 1..m+1 : k = m + 1 \/ k \in 1..m
  BY <1>2
<1>9. \A k \in 1..m : k \in 1..m+1
  BY <1>2
<1>10. ASSUME NEW i \in 1..Len(bs), Even(jn, ps, bs[i]) PROVE Even(in, os, bs[i])
  <2>1. bs[i].block_depth \in 0..n-1
    BY <1>2 DEF BreakpointsOK
  <2>2. PICK k \in 1..m+1 : Pushes(ps[k]) /\ jn[k].blocks = bs[i].block_depth /\ jn[k].level = bs[i].function
    BY <1>7, <1>10 DEF Even
  <2>3. k # m + 1
    <3>1. jn[m + 1].blocks = n
      BY <1>2, <1>4, <1>7
    <3> QED
      BY <1>4, <2>1, <2>2, <3>1
  <2>4. k \in 1..m /\ ps[k] = os[k] /\ jn[k] = in[k]
    BY <1>7, <1>8, <1>9, <2>3
  <2> QED
    BY <1>1, <2>2, <2>4 DEF Even
<1>11. ASSUME NEW l, NEW j \in Held(in, os, bs, l) PROVE j \in Held(jn, ps, bs, l)
  <2>1. CASE j \in {bs[i].operand : i \in {k \in 1..Len(bs) : bs[k].function = l}}
    BY <2>1 DEF Held
  <2>2. CASE j \in {os[k].jump : k \in {i \in 1..Len(os) : Holds(os[i]) /\ in[i].level = l}}
    <3>1. PICK k \in 1..m : Holds(os[k]) /\ in[k].level = l /\ j = os[k].jump
      BY <1>1, <2>2
    <3>2. k \in 1..Len(ps) /\ Holds(ps[k]) /\ jn[k].level = l /\ j = ps[k].jump
      BY <1>7, <1>9, <3>1
    <3> QED
      BY <3>2 DEF Held
  <2> QED
    BY <1>11, <2>1, <2>2 DEF Held
<1>12. Holds(o) => o.jump \in Held(jn, ps, bs, in[m + 1].level)
  <2>1. m + 1 \in 1..Len(ps) /\ ps[m + 1] = o /\ jn[m + 1].level = in[m + 1].level
    BY <1>4, <1>7
  <2> QED
    BY <2>1 DEF Held
<1>13. BreakpointsOK(jn, gs, ps, bs, new.blocks)
  <2>1. \A i \in 1..Len(bs) : bs[i].block_depth \in 0..new.blocks-1
    BY <1>2, <1>4, <1>6 DEF BreakpointsOK
  <2>2. ASSUME NEW i \in 1..Len(bs), Even(jn, ps, bs[i]) PROVE JumpAt(gs[bs[i].function].code, bs[i].operand)
    <3>1. Even(in, os, bs[i])
      BY <1>10, <2>2
    <3>2. JumpAt(fs[bs[i].function].code, bs[i].operand)
      BY <1>2, <3>1 DEF BreakpointsOK
    <3>3. PICK k \in 1..m : in[k].level = bs[i].function
      BY <1>1, <3>1 DEF Even
    <3>4. bs[i].function \in 1..Len(fs)
      BY <1>1, <1>2, <1>9, <3>3 DEF Nested
    <3> QED
      BY <3>2, <3>4
  <2> QED
    BY <1>2, <2>1, <2>2 DEF BreakpointsOK
<1>14. Len(ps) + 1 = m + 2
  BY <1>2, <1>7
<1>15. Parsing(jn, gs, cs, ps, bs, new.blocks, new.continue)
  BY <1>7, <1>13, <1>14 DEF Parsing
<1> QED
  BY <1>1, <1>2, <1>7, <1>10, <1>11, <1>12, <1>14, <1>15 DEF Opened

(* The same for regular programs.                                          *)
OpeningRegularly(in, fs, cs, os, bs, o, gs, jn, ps, x) ==
  /\ Regularly(in, fs, cs, os, bs, x) /\ Opened(in, fs, os, bs, o, jn, ps)
  /\ Len(os) \in Nat /\ Len(fs) \in Nat /\ Len(fs) <= Len(gs) /\ Len(gs) \in Nat
  /\ \A l \in 1..Len(fs) : gs[l] = fs[l]
  /\ \A l \in Len(fs)+1..Len(gs) : Loose(gs[l].code) = {}
  /\ o.kind = "for" => o.increment # -1
  /\ \A k \in x : Holds(o) /\ k = o.jump

LEMMA OpenedRegularly ==
  ASSUME NEW in, NEW fs, NEW cs, NEW os, NEW bs, NEW o, NEW gs, NEW jn, NEW ps, NEW x,
         OpeningRegularly(in, fs, cs, os, bs, o, gs, jn, ps, x)
  PROVE  Regularly(jn, gs, cs, ps, bs, {})
<1> USE DEF OpeningRegularly, Opened
<1>1. \A k \in 1..Len(ps) : ps[k].kind = "for" => ps[k].increment # -1
  <2>1. \A k \in 1..Len(ps) : k = Len(os) + 1 \/ k \in 1..Len(os)
    OBVIOUS
  <2> QED
    BY <2>1 DEF Regularly
<1>2. SUFFICES ASSUME AllEven(jn, ps, bs) PROVE NothingLoose(cs) /\ AllHeld(jn, gs, ps, bs, {})
  BY <1>1 DEF Regularly
<1>3. AllEven(in, os, bs)
  BY <1>2 DEF AllEven
<1>4. NothingLoose(cs) /\ AllHeld(in, fs, os, bs, x)
  BY <1>3 DEF Regularly
<1>5. ASSUME NEW l \in 1..Len(gs) PROVE Loose(gs[l].code) \subseteq Held(jn, ps, bs, l)
  <2>1. CASE l \in 1..Len(fs)
    <3>1. gs[l] = fs[l] /\ Loose(fs[l].code) \subseteq Held(in, os, bs, l) \cup {k \in x : l = Len(fs)}
      BY <1>4, <2>1 DEF AllHeld
    <3>2. Held(in, os, bs, l) \subseteq Held(jn, ps, bs, l)
      OBVIOUS
    <3>3. \A k \in x : l = Len(fs) => k \in Held(jn, ps, bs, l)
      OBVIOUS
    <3> QED
      BY <3>1, <3>2, <3>3
  <2>2. CASE l \notin 1..Len(fs)
    <3>1. l \in Len(fs)+1..Len(gs)
      BY <2>2
    <3> QED
      BY <3>1
  <2> QED
    BY <2>1, <2>2
<1> QED
  BY <1>4, <1>5 DEF AllHeld

-----------------------------------------------------------------------------
(* A statement ends: the functions that are left are gs, the blocks m and  *)
(* the breakpoints ts.                                                     *)
LEMMA ClosedIs ==
  ASSUME NEW in, NEW fs, NEW cs, NEW os, NEW bs, NEW n, NEW c, Parsing(in, fs, cs, os, bs, n, c), Len(os) # 0,
         NEW gs, NEW ds, FunctionsOK(gs, ds), Len(gs) = in[Len(os)].level, Onward(fs, gs, Len(gs)),
         NEW ts, IsSeq(ts), Len(ts) <= Len(bs), \A i \in 1..Len(ts) : ts[i] = bs[i] /\ ts[i].block_depth < in[Len(os)].blocks
  PROVE  Parsing(in, gs, ds, Front(os), ts, in[Len(os)].blocks, in[Len(os)].continue)
<1>1. PICK m, ps, u : m = Len(os) /\ ps = Front(os) /\ u = in[Len(os)].blocks
  OBVIOUS
<1>2. /\ Nested(in, os, fs) /\ BreakpointsOK(in, fs, os, bs, n) /\ m \in Nat /\ IsSeq(os) /\ m # 0
  BY <1>1 DEF Parsing, Nested, IsSeq
<1>3. IsSeq(ps) /\ Len(ps) = m - 1 /\ \A k \in 1..m-1 : ps[k] = os[k]
  BY <1>1, <1>2, FrontIs
<1>4. Len(ps) + 1 = m /\ Len(ps) <= m /\ \A k \in 1..m-1 : k \in 1..m /\ k \in 1..m+1 /\ k <= m
  BY <1>2, <1>3
<1>5. Len(gs) \in Nat
  BY DEF FunctionsOK, IsSeq
<1>6. Nested(in, ps, gs)
  <2>1. \A k \in 1..Len(ps) : SameContext(os[k], ps[k])
    BY <1>1, <1>2, <1>3, <1>4, SameIsSame DEF Nested, ContextOK
  <2>2. in[Len(ps) + 1].level <= Len(gs) /\ Onward(fs, gs, in[Len(ps) + 1].level) /\ Len(ps) <= Len(os)
    BY <1>1, <1>4, <1>5
  <2> QED
    BY <1>2, <1>3, <1>5, <2>1, <2>2, NestedStays
<1>7. ASSUME NEW i \in 1..Len(ts)
      PROVE  /\ ts[i].operand \in Nat /\ ts[i].block_depth \in 0..u-1
             /\ Even(in, ps, ts[i]) => JumpAt(gs[ts[i].function].code, ts[i].operand)
  <2>1. i \in 1..Len(bs) /\ ts[i] = bs[i] /\ ts[i].block_depth < u
    BY <1>1, <1>2 DEF BreakpointsOK, IsSeq
  <2>2. bs[i].operand \in Nat /\ bs[i].block_depth \in 0..n-1
    BY <1>2, <2>1 DEF BreakpointsOK
  <2>3. u \in Nat /\ n \in Nat
    <3>1. m \in 1..m+1 /\ m + 1 \in 1..m+1
      BY <1>2
    <3> QED
      BY <1>1, <1>2, <3>1 DEF Nested, Parsing
  <2>4. ts[i].block_depth \in 0..u-1
    BY <2>1, <2>2, <2>3
  <2>5. ASSUME Even(in, ps, ts[i]) PROVE JumpAt(gs[ts[i].function].code, ts[i].operand)
    <3>1. PICK k \in 1..m-1 : Pushes(ps[k]) /\ in[k].blocks = ts[i].block_depth /\ in[k].level = ts[i].function
      BY <1>3, <2>5 DEF Even
    <3>2. Even(in, os, bs[i])
      BY <1>1, <1>3, <1>4, <2>1, <3>1 DEF Even
    <3>3. JumpAt(fs[bs[i].function].code, bs[i].operand)
      BY <1>2, <2>1, <3>2 DEF BreakpointsOK
    <3>4. ts[i].function \in 1..Len(gs)
      <4>1. k \in 1..Len(ps)+1
        BY <1>3, <1>4
      <4> QED
        BY <1>6, <3>1, <4>1 DEF Nested
    <3> QED
      BY <2>1, <3>3, <3>4, LongerIs DEF Onward
  <2> QED
    BY <2>1, <2>2, <2>4, <2>5
<1>8. \A i, j \in 1..Len(ts) : i <= j => ts[i].block_depth <= ts[j].block_depth
  <2>1. \A i \in 1..Len(ts) : i \in 1..Len(bs)
    BY <1>2 DEF BreakpointsOK, IsSeq
  <2> QED
    BY <1>2, <2>1 DEF BreakpointsOK
<1>9. BreakpointsOK(in, gs, ps, ts, u)
  BY <1>7, <1>8 DEF BreakpointsOK
<1> QED
  BY <1>1, <1>4, <1>6, <1>9 DEF Parsing

(* One that is in the function it ends in: what it holds has been patched. *)
LEMMA ClosedRegularly ==
  ASSUME NEW in, NEW fs, NEW cs, NEW os, NEW bs, NEW n, NEW c, Parsing(in, fs, cs, os, bs, n, c), Len(os) # 0,
         NEW x, Regularly(in, fs, cs, os, bs, x), ~Opens(os[Len(os)]),
         Holds(os[Len(os)]) => os[Len(os)].jump \notin Loose(fs[Len(fs)].code),
         NEW ts, IsSeq(ts), Len(ts) <= Len(bs), \A i \in 1..Len(ts) : ts[i] = bs[i],
         \A i \in Len(ts)+1..Len(bs) :
           /\ Pushes(os[Len(os)]) /\ bs[i].block_depth = n - 1 /\ bs[i].function = Len(fs)
           /\ bs[i].operand \notin Loose(fs[Len(fs)].code)
  PROVE  Regularly(in, fs, cs, Front(os), ts, x)
<1>1. PICK m, ps, o, q : m = Len(os) /\ ps = Front(os) /\ o = os[Len(os)] /\ q = Len(ts)
  OBVIOUS
<1>2. /\ Nested(in, os, fs) /\ BreakpointsOK(in, fs, os, bs, n) /\ m \in Nat /\ IsSeq(os) /\ m # 0
      /\ in[m + 1].level = Len(fs) /\ in[m + 1].blocks = n
  BY <1>1 DEF Parsing, Nested, IsSeq
<1>3. IsSeq(ps) /\ Len(ps) = m - 1 /\ \A k \in 1..m-1 : ps[k] = os[k]
  BY <1>1, <1>2, FrontIs
<1>4. /\ m \in 1..m /\ m \in 1..m+1 /\ \A k \in 1..m : k = m \/ k \in 1..m-1
      /\ \A k \in 1..m-1 : k \in 1..m
  BY <1>2
<1>5. q \in Nat /\ Len(bs) \in Nat /\ \A i \in 1..Len(bs) : i \in 1..q \/ i \in q+1..Len(bs)
  BY <1>1, <1>2 DEF IsSeq, BreakpointsOK
<1>6. in[m].level = Len(fs) /\ (Pushes(o) => in[m].blocks = n - 1)
  <2>1. Inside(in[m], o, in[m + 1])
    BY <1>1, <1>2, <1>4 DEF Nested
  <2>2. in[m].level \in Int /\ in[m].blocks \in Int
    BY <1>1, <1>2, <1>4 DEF Nested
  <2> QED
    BY <1>1, <1>2, <2>1, <2>2 DEF Inside
<1>7. \A k \in 1..Len(ps) : ps[k].kind = "for" => ps[k].increment # -1
  BY <1>1, <1>3, <1>4 DEF Regularly
<1>8. SUFFICES ASSUME AllEven(in, ps, ts) PROVE NothingLoose(cs) /\ AllHeld(in, fs, ps, ts, x)
  BY <1>1, <1>7 DEF Regularly
<1>9. AllEven(in, os, bs)
  <2>1. ASSUME NEW i \in 1..q PROVE Even(in, os, bs[i])
    <3>1. ts[i] = bs[i] /\ Even(in, ps, ts[i])
      BY <1>1, <1>8 DEF AllEven
    <3> QED
      BY <1>1, <1>3, <1>4, <3>1 DEF Even
  <2>2. ASSUME NEW i \in q+1..Len(bs) PROVE Even(in, os, bs[i])
    BY <1>1, <1>4, <1>6 DEF Even
  <2> QED
    BY <1>5, <2>1, <2>2 DEF AllEven
<1>10. NothingLoose(cs) /\ AllHeld(in, fs, os, bs, x)
  BY <1>9 DEF Regularly
<1>11. ASSUME NEW l \in 1..Len(fs), NEW j \in Loose(fs[l].code)
       PROVE  j \in Held(in, ps, ts, l) \/ (j \in x /\ l = Len(fs))
  <2>1. j \in Held(in, os, bs, l) \/ (j \in x /\ l = Len(fs))
    BY <1>10 DEF AllHeld
  <2>2. CASE j \in {bs[i].operand : i \in {k \in 1..Len(bs) : bs[k].function = l}}
    <3>1. PICK i \in 1..Len(bs) : bs[i].function = l /\ j = bs[i].operand
      BY <2>2
    <3>2. i \notin q+1..Len(bs)
      BY <1>1, <3>1
    <3>3. i \in 1..Len(ts) /\ ts[i] = bs[i]
      BY <1>1, <1>5, <3>2
    <3> QED
      BY <3>1, <3>3 DEF Held
  <2>3. CASE j \in {os[k].jump : k \in {i \in 1..Len(os) : Holds(os[i]) /\ in[i].level = l}}
    <3>1. PICK k \in 1..m : Holds(os[k]) /\ in[k].level = l /\ j = os[k].jump
      BY <1>1, <2>3
    <3>2. k # m
      BY <1>1, <1>6, <3>1
    <3>3. k \in 1..Len(ps) /\ ps[k] = os[k]
      BY <1>3, <1>4, <3>2
    <3> QED
      BY <3>1, <3>3 DEF Held
  <2> QED
    BY <2>1, <2>2, <2>3 DEF Held
<1> QED
  BY <1>1, <1>10, <1>11 DEF AllHeld

(* A function: whatever jumps in it has been told where to go.             *)
LEMMA FunctionClosedRegularly ==
  ASSUME NEW in, NEW fs, NEW cs, NEW os, NEW bs, NEW n, NEW c, Parsing(in, fs, cs, os, bs, n, c), Len(os) # 0,
         Regularly(in, fs, cs, os, bs, {}), Opens(os[Len(os)]),
         NEW gs, Len(gs) = Len(fs) - 1, \A l \in 1..Len(gs) : Loose(gs[l].code) \subseteq Loose(fs[l].code),
         NEW ds, Loose(fs[Len(fs)].code) = {} /\ NothingLoose(cs) => NothingLoose(ds)
  PROVE  Regularly(in, gs, ds, Front(os), bs, {})
<1>1. PICK m, ps, o : m = Len(os) /\ ps = Front(os) /\ o = os[Len(os)]
  OBVIOUS
<1>2. /\ Nested(in, os, fs) /\ BreakpointsOK(in, fs, os, bs, n) /\ m \in Nat /\ IsSeq(os) /\ m # 0
      /\ in[m + 1].level = Len(fs) /\ Len(fs) \in Nat /\ Len(fs) # 0
  BY <1>1 DEF Parsing, Nested, IsSeq, FunctionsOK
<1>3. IsSeq(ps) /\ Len(ps) = m - 1 /\ \A k \in 1..m-1 : ps[k] = os[k]
  BY <1>1, <1>2, FrontIs
<1>4. /\ m \in 1..m /\ m \in 1..m+1 /\ \A k \in 1..m : k = m \/ k \in 1..m-1
      /\ \A k \in 1..m-1 : k \in 1..m /\ k \in 1..m+1 /\ k <= m
  BY <1>2
<1>5. in[m].level = Len(fs) - 1
  <2>1. Inside(in[m], o, in[m + 1])
    BY <1>1, <1>2, <1>4 DEF Nested
  <2>2. in[m].level \in Int
    BY <1>1, <1>2, <1>4 DEF Nested
  <2> QED
    BY <1>1, <1>2, <2>1, <2>2 DEF Inside
<1>6. ~Holds(o) /\ ~Pushes(o)
  BY <1>1 DEF Opens, Holds, Pushes
<1>7. \A k \in 1..m-1 : in[k].level <= Len(fs) - 1 /\ in[k].level \in Int
  <2>1. ASSUME NEW k \in 1..m-1 PROVE in[k].level <= in[m].level /\ in[k].level \in 1..Len(fs)
    BY <1>1, <1>2, <1>4 DEF Nested
  <2> QED
    BY <1>5, <2>1
<1>8. \A k \in 1..Len(ps) : ps[k].kind = "for" => ps[k].increment # -1
  BY <1>1, <1>3, <1>4 DEF Regularly
<1>9. SUFFICES ASSUME AllEven(in, ps, bs) PROVE NothingLoose(ds) /\ AllHeld(in, gs, ps, bs, {})
  BY <1>1, <1>8 DEF Regularly
<1>10. AllEven(in, os, bs)
  <2>1. ASSUME NEW i \in 1..Len(bs) PROVE Even(in, os, bs[i])
    <3>1. Even(in, ps, bs[i])
      BY <1>9 DEF AllEven
    <3> QED
      BY <1>1, <1>3, <1>4, <3>1 DEF Even
  <2> QED
    BY <2>1 DEF AllEven
<1>11. NothingLoose(cs) /\ AllHeld(in, fs, os, bs, {})
  BY <1>10 DEF Regularly
<1>12. \A l : Held(in, os, bs, l) \subseteq Held(in, ps, bs, l)
  <2>1. ASSUME NEW l, NEW j \in Held(in, os, bs, l) PROVE j \in Held(in, ps, bs, l)
    <3>1. CASE j \in {bs[i].operand : i \in {k \in 1..Len(bs) : bs[k].function = l}}
      BY <3>1 DEF Held
    <3>2. CASE j \in {os[k].jump : k \in {i \in 1..Len(os) : Holds(os[i]) /\ in[i].level = l}}
      <4>1. PICK k \in 1..m : Holds(os[k]) /\ in[k].level = l /\ j = os[k].jump
        BY <1>1, <3>2
      <4>2. k \in 1..Len(ps) /\ ps[k] = os[k]
        BY <1>1, <1>3, <1>4, <1>6, <4>1
      <4> QED
        BY <4>1, <4>2 DEF Held
    <3> QED
      BY <3>1, <3>2 DEF Held
  <2> QED
    BY <2>1
<1>13. Held(in, ps, bs, Len(fs)) = {}
  <2>1. ASSUME NEW j \in Held(in, ps, bs, Len(fs)) PROVE FALSE
    <3>1. CASE j \in {bs[i].operand : i \in {k \in 1..Len(bs) : bs[k].function = Len(fs)}}
      <4>1. PICK i \in 1..Len(bs) : bs[i].function = Len(fs)
        BY <3>1
      <4>2. PICK k \in 1..m-1 : in[k].level = Len(fs)
        BY <1>3, <1>9, <4>1 DEF AllEven, Even
      <4> QED
        BY <1>2, <1>7, <4>2
    <3>2. CASE j \in {ps[k].jump : k \in {i \in 1..Len(ps) : Holds(ps[i]) /\ in[i].level = Len(fs)}}
      <4>1. PICK k \in 1..m-1 : in[k].level = Len(fs)
        BY <1>3, <3>2
      <4> QED
        BY <1>2, <1>7, <4>1
    <3> QED
      BY <3>1, <3>2 DEF Held
  <2> QED
    BY <2>1
<1>14. Len(fs) \in 1..Len(fs) /\ \A l \in 1..Len(gs) : l \in 1..Len(fs) /\ l # Len(fs)
  BY <1>2
<1>15. \A l \in 1..Len(fs) : Loose(fs[l].code) \subseteq Held(in, ps, bs, l)
  <2>1. ASSUME NEW l \in 1..Len(fs) PROVE Loose(fs[l].code) \subseteq Held(in, ps, bs, l)
    <3>1. Loose(fs[l].code) \subseteq Held(in, os, bs, l) \cup {}
      BY <1>11 DEF AllHeld
    <3> QED
      BY <1>12, <3>1
  <2> QED
    BY <2>1
<1>16. Loose(fs[Len(fs)].code) = {}
  BY <1>13, <1>14, <1>15
<1>17. NothingLoose(ds)
  BY <1>11, <1>16
<1>18. AllHeld(in, gs, ps, bs, {})
  BY <1>14, <1>15 DEF AllHeld
<1> QED
  BY <1>17, <1>18

-----------------------------------------------------------------------------
(* The breakpoints that the end of a block takes are the last ones, those  *)
(* of the block.                                                           *)
LEMMA PatchedIs ==
  ASSUME NEW in, NEW n \in Nat, n = Len(blocks),
         Parsing(in, functions, compiled, open, breakpoints, n, continue_to),
         Len(open) # 0, Pushes(open[Len(open)])
  PROVE  \E q \in 0..Len(breakpoints) :
           /\ Patched = q+1..Len(breakpoints) /\ Cardinality(Patched) = Len(breakpoints) - q
           /\ \A i \in 1..q : breakpoints[i].block_depth < in[Len(open)].blocks
           /\ \A i \in q+1..Len(breakpoints) : breakpoints[i].block_depth = n - 1 /\ in[Len(open)].blocks = n - 1
<1>1. PICK bs, b, m : bs = breakpoints /\ b = Len(breakpoints) /\ m = Len(open)
  OBVIOUS
<1>2. /\ Nested(in, open, functions) /\ BreakpointsOK(in, functions, open, bs, n) /\ m \in Nat /\ m # 0
      /\ in[m + 1].blocks = n
  BY <1>1 DEF Parsing, Nested, IsSeq
<1>3. b \in Nat /\ DOMAIN bs = 1..b
  BY <1>1, <1>2 DEF BreakpointsOK, IsSeq
<1>4. in[m].blocks = n - 1
  <2>1. m \in 1..m /\ m \in 1..m+1
    BY <1>2
  <2>2. Inside(in[m], open[m], in[m + 1]) /\ in[m].blocks \in Nat
    BY <1>1, <1>2, <2>1 DEF Nested
  <2> QED
    BY <1>1, <1>2, <2>2 DEF Inside
<1>5. /\ \A i \in 1..b : bs[i].block_depth \in 0..n-1
      /\ \A i, j \in 1..b : i <= j => bs[i].block_depth <= bs[j].block_depth
  BY <1>1, <1>2 DEF BreakpointsOK
<1>6. PICK S : S = {i \in 1..b : bs[i].block_depth < n - 1}
  OBVIOUS
<1>7. S \cup {0} \subseteq 0..b
  BY <1>3, <1>6
<1>8. PICK q : q = Max(S \cup {0})
  OBVIOUS
<1>9. q \in S \cup {0} /\ \A i \in S \cup {0} : i <= q
  BY <1>3, <1>7, <1>8, MaxOfNaturals
<1>10. q \in 0..b
  BY <1>7, <1>9
<1>11. ASSUME NEW i \in 1..q PROVE i \in 1..b /\ bs[i].block_depth < n - 1
  <2>0. i \in 1..b /\ q \in 1..b /\ i <= q /\ q # 0
    BY <1>3, <1>10
  <2>1. q \in S /\ i \in 1..b /\ q \in 1..b /\ i <= q
    BY <1>9, <2>0
  <2>2. bs[i].block_depth <= bs[q].block_depth /\ bs[q].block_depth < n - 1
    BY <1>5, <1>6, <2>1
  <2>3. bs[i].block_depth \in 0..n-1 /\ bs[q].block_depth \in 0..n-1
    BY <1>5, <2>1
  <2> QED
    BY <2>1, <2>2, <2>3
<1>12. ASSUME NEW i \in q+1..b PROVE i \in 1..b /\ bs[i].block_depth = n - 1
  <2>1. i \in 1..b /\ ~(i <= q)
    BY <1>3, <1>10
  <2>2. i \notin S
    BY <1>9, <2>1
  <2>3. bs[i].block_depth \in 0..n-1 /\ ~(bs[i].block_depth < n - 1)
    BY <1>5, <1>6, <2>1, <2>2
  <2> QED
    BY <2>1, <2>3
<1>13. Patched = q+1..b
  <2>1. Patched = {i \in 1..b : \A j \in i..b : bs[j].block_depth >= n - 1}
    BY <1>1, <1>3 DEF Patched
  <2>2. ASSUME NEW i \in q+1..b PROVE i \in 1..b /\ \A j \in i..b : bs[j].block_depth >= n - 1
    <3>1. \A j \in i..b : j \in q+1..b
      BY <1>3, <1>10
    <3>2. \A j \in i..b : bs[j].block_depth = n - 1
      BY <1>12, <3>1
    <3> QED
      BY <1>12, <3>2
  <2>3. ASSUME NEW i \in 1..b, \A j \in i..b : bs[j].block_depth >= n - 1 PROVE i \in q+1..b
    <3>1. i \in i..b
      BY <1>3
    <3>2. bs[i].block_depth >= n - 1 /\ bs[i].block_depth \in 0..n-1
      BY <1>5, <2>3, <3>1
    <3>3. i \notin 1..q
      BY <1>11, <3>2
    <3> QED
      BY <1>3, <1>10, <3>3
  <2> QED
    BY <2>1, <2>2, <2>3
<1>14. Cardinality(Patched) = b - q
  <2>1. q + 1 \in Int /\ b \in Int
    BY <1>3, <1>10
  <2>2. Cardinality(q+1..b) = IF q + 1 > b THEN 0 ELSE b - (q + 1) + 1
    BY <2>1, FS_Interval
  <2> QED
    BY <1>3, <1>10, <1>13, <2>2
<1> QED
  BY <1>1, <1>4, <1>10, <1>11, <1>12, <1>13, <1>14

(* The end of a scope, of a function of which only the shape is known.     *)
Shaped(f) == f.depth \in Nat /\ Len(f.locals) \in 1..MaxLocals

LEMMA EndScopeKeeps ==
  ASSUME NEW f, IsFunction(f), f.depth \in Nat, f.depth # 0, LocalsOK(f.locals), NEW g, g = EndScope(f)
  PROVE  Shaped(g)
<1>1. PICK h : h = [kind |-> f.kind, depth |-> f.depth, locals |-> f.locals, outsiders |-> <<>>, code |-> <<>>]
  OBVIOUS
<1>2. h.depth = f.depth /\ h.locals = f.locals /\ h.outsiders = <<>> /\ h.code = <<>> /\ IsFunction(h)
  BY <1>1 DEF IsFunction
<1>3. OutsidersOK(<<>>) /\ CodeOK(<<>>, Len(<<>>), <<>>)
  BY EmptyIs DEF OutsidersOK, CodeOK
<1>4. FunctionOK(h, <<>>)
  BY <1>2, <1>3 DEF FunctionOK
<1>5. PICK k : k = EndScope(h)
  OBVIOUS
<1>6. FunctionOK(k, <<>>)
  BY <1>2, <1>4, <1>5, EndScopeIs
<1>7. k.depth = g.depth /\ k.locals = g.locals
  <2>1. PICK kept, u : /\ g = [f EXCEPT !.depth = @ - 1, !.locals = SubSeq(@, 1, kept), !.code = u]
                       /\ kept = Max({i \in DOMAIN f.locals : f.locals[i].scope_depth < f.depth} \cup {0})
    BY Zenon DEF EndScope
  <2>2. PICK v : k = [h EXCEPT !.depth = @ - 1, !.locals = SubSeq(@, 1, kept), !.code = v]
    BY <1>2, <1>5, <2>1, Zenon DEF EndScope
  <2> QED
    BY <1>1, <2>1, <2>2 DEF IsFunction
<1> QED
  BY <1>6, <1>7 DEF FunctionOK, LocalsOK, Shaped

-----------------------------------------------------------------------------
(* What parsing a part of a statement leaves of the functions: more code,  *)
(* and in the innermost one new jumps y.                                   *)
Steps(fs, gs, cs, y) ==
  /\ FunctionsOK(gs, cs) /\ Len(gs) = Len(fs) /\ Onward(fs, gs, Len(fs))
  /\ \A l \in 1..Len(fs) : Loose(gs[l].code) \subseteq Loose(fs[l].code) \cup {k \in y : l = Len(fs)}

LEMMA StepsTransitive ==
  ASSUME NEW fs, NEW gs, NEW hs, NEW cs, NEW y, NEW z, Steps(fs, gs, cs, y), Steps(gs, hs, cs, z)
  PROVE  Steps(fs, hs, cs, y \cup z)
<1>1. PICK n : n = Len(fs)
  OBVIOUS
<1>2. Len(gs) = n /\ Len(hs) = n /\ FunctionsOK(hs, cs) /\ Onward(fs, gs, n) /\ Onward(gs, hs, n)
  BY <1>1 DEF Steps
<1>3. Onward(fs, hs, n)
  BY <1>2, OnwardTransitive
<1>4. ASSUME NEW l \in 1..n PROVE Loose(hs[l].code) \subseteq Loose(fs[l].code) \cup {k \in y \cup z : l = n}
  <2>1. Loose(gs[l].code) \subseteq Loose(fs[l].code) \cup {k \in y : l = n}
    BY <1>1, <1>2 DEF Steps
  <2>2. Loose(hs[l].code) \subseteq Loose(gs[l].code) \cup {k \in z : l = n}
    BY <1>1, <1>2 DEF Steps
  <2> QED
    BY <2>1, <2>2
<1> QED
  BY <1>1, <1>2, <1>3, <1>4 DEF Steps

LEMMA StepsSame == ASSUME NEW fs, NEW cs, FunctionsOK(fs, cs) PROVE Steps(fs, fs, cs, {})
<1>1. \A l \in 1..Len(fs) : IsSeq(fs[l].code) /\ Longer(fs[l].code, fs[l].code)
  BY LongerSame DEF FunctionsOK, FunctionOK, CodeOK
<1> QED
  BY <1>1 DEF Steps, Onward

(* One function that becomes another so.                                   *)
Inward(f, g, cs, y) ==
  /\ FunctionOK(g, cs) /\ g.outsiders = f.outsiders /\ IsSeq(f.code)
  /\ Longer(f.code, g.code) /\ Loose(g.code) \subseteq Loose(f.code) \cup y

LEMMA InwardTransitive ==
  ASSUME NEW f, NEW g, NEW h, NEW cs, NEW y, NEW z, Inward(f, g, cs, y), Inward(g, h, cs, z)
  PROVE  Inward(f, h, cs, y \cup z)
<1>1. IsSeq(f.code) /\ IsSeq(g.code) /\ IsSeq(h.code)
  BY DEF Inward, FunctionOK, CodeOK
<1>2. Longer(f.code, h.code)
  BY <1>1, LongerTransitive DEF Inward
<1> QED
  BY <1>1, <1>2 DEF Inward

LEMMA StepsInner ==
  ASSUME NEW fs, NEW cs, FunctionsOK(fs, cs), NEW g, NEW y, Inward(fs[Len(fs)], g, cs, y),
         NEW gs, gs = Updated(fs, Len(fs), g)
  PROVE  /\ Steps(fs, gs, cs, y) /\ Len(gs) = Len(fs) /\ gs[Len(fs)] = g
         /\ \A l \in 1..Len(fs)-1 : gs[l] = fs[l]
<1>1. PICK n : n = Len(fs)
  OBVIOUS
<1>2. /\ FunctionsOK(gs, cs) /\ Len(gs) = n /\ gs[n] = g /\ Onward(fs, gs, n)
      /\ \A l \in 1..n-1 : gs[l] = fs[l]
  BY <1>1, InnerIs DEF Inward
<1>3. n \in Nat /\ \A l \in 1..n : l = n \/ l \in 1..n-1
  BY <1>1 DEF FunctionsOK, IsSeq
<1>4. ASSUME NEW l \in 1..n PROVE Loose(gs[l].code) \subseteq Loose(fs[l].code) \cup {k \in y : l = n}
  <2>1. CASE l = n
    <3>1. Loose(gs[n].code) \subseteq Loose(fs[n].code) \cup y
      BY <1>1, <1>2 DEF Inward
    <3> QED
      BY <2>1, <3>1
  <2>2. CASE l \in 1..n-1
    BY <1>2, <2>2
  <2> QED
    BY <1>3, <2>1, <2>2
<1> QED
  BY <1>1, <1>2, <1>4 DEF Steps

LEMMA StepsGrown ==
  ASSUME NEW fs, NEW cs, FunctionsOK(fs, cs), NEW gs, Grown(fs, gs, cs)
  PROVE  Steps(fs, gs, cs, {}) /\ \A l \in 1..Len(fs) : gs[l].depth = fs[l].depth
  BY GrownOnward DEF Steps

(* The innermost function.                                                 *)
LEMMA InnermostIs ==
  ASSUME NEW fs, NEW cs, FunctionsOK(fs, cs)
  PROVE  /\ Len(fs) \in Nat /\ Len(fs) # 0 /\ Len(fs) \in 1..Len(fs) /\ Last(fs) = fs[Len(fs)]
         /\ FunctionOK(fs[Len(fs)], cs) /\ IsSeq(fs[Len(fs)].code)
  BY DEF FunctionsOK, IsSeq, FunctionOK, CodeOK, Last

(* A statement that begins and ends in a step emits p.code, and knows the  *)
(* locals before it.                                                       *)
LEMMA StatementSteps ==
  ASSUME NEW fs, NEW cs, FunctionsOK(fs, cs), NEW t, Straight(t, Len(Last(fs).outsiders)),
         NEW f, f = fs[Len(fs)], NEW gs, gs = Updated(fs, Len(fs), Statement(Emit(f, t)))
  PROVE  Steps(fs, gs, cs, {}) /\ Len(gs) = Len(fs) /\ gs[Len(fs)].depth = f.depth
<1>1. PICK h : h = f
  OBVIOUS
<1>2. Straight(t, Len(h.outsiders)) /\ FunctionOK(h, cs) /\ IsSeq(h.code)
  BY <1>1, InnermostIs
<1>3. PICK e : e = Emit(h, t)
  OBVIOUS
<1>4. Inward(h, e, cs, {}) /\ e.depth = h.depth
  BY <1>2, <1>3, EmitStraight DEF Inward, SameShape
<1>5. PICK g : g = Statement(e)
  OBVIOUS
<1>6. FunctionOK(e, cs) /\ IsSeq(e.code)
  BY <1>4 DEF Inward, FunctionOK, CodeOK
<1>7. Inward(e, g, cs, {}) /\ g.depth = e.depth
  BY <1>5, <1>6, StatementIs DEF Inward, SameShape
<1>8. Inward(h, g, cs, {} \cup {})
  BY <1>4, <1>7, InwardTransitive
<1>9. gs = Updated(fs, Len(fs), g)
  BY <1>1, <1>3, <1>5
<1>10. Steps(fs, gs, cs, {}) /\ Len(gs) = Len(fs) /\ gs[Len(fs)] = g
  <2>1. Inward(fs[Len(fs)], g, cs, {})
    BY <1>1, <1>8
  <2> QED
    BY <1>9, <2>1, StepsInner
<1> QED
  BY <1>1, <1>4, <1>7, <1>10

-----------------------------------------------------------------------------
(* The parser goes on, in the statements it is in.                         *)
LEMMA ParserIs ==
  ASSUME NEW in, ParserOK(in)
  PROVE  /\ FunctionsOK(functions, compiled) /\ Nested(in, open, functions) /\ IsSeq(open) /\ Len(open) \in Nat
         /\ Len(functions) \in Nat /\ Len(functions) # 0 /\ Current = functions[Len(functions)]
         /\ FunctionOK(Current, compiled) /\ IsSeq(Current.code) /\ Innermost = Len(functions)
         /\ in[Len(open) + 1].level = Len(functions) /\ in[Len(open) + 1].blocks = Len(blocks)
         /\ in[Len(open) + 1].depth = Current.depth /\ in[Len(open) + 1].continue = continue_to
         /\ IsSeq(blocks) /\ Len(blocks) \in Nat /\ IsSeq(breakpoints)
         /\ Parsing(in, functions, compiled, open, breakpoints, Len(blocks), continue_to)
<1>1. Parsing(in, functions, compiled, open, breakpoints, Len(blocks), continue_to) /\ IsSeq(blocks)
  BY DEF ParserOK
<1>2. FunctionsOK(functions, compiled) /\ Nested(in, open, functions)
  BY <1>1 DEF Parsing
<1>3. IsSeq(open) /\ Len(open) \in Nat /\ Len(blocks) \in Nat /\ IsSeq(breakpoints)
  BY <1>1, <1>2 DEF Nested, IsSeq, Parsing, BreakpointsOK
<1>4. Current = functions[Len(functions)] /\ Innermost = Len(functions)
  BY DEF Current, Innermost
<1>5. FunctionOK(Current, compiled) /\ IsSeq(Current.code) /\ Len(functions) \in Nat /\ Len(functions) # 0
  BY <1>2, <1>4, InnermostIs
<1>6. in[Len(open) + 1].depth = Current.depth
  BY <1>4 DEF ParserOK
<1> QED
  BY <1>1, <1>2, <1>3, <1>4, <1>5, <1>6 DEF Parsing

LEMMA ParserGoesOn ==
  ASSUME NEW in, ParserOK(in), NEW y, Steps(functions, functions', compiled, y),
         functions'[Len(functions)].depth = Current.depth, SameContexts(open, open'),
         UNCHANGED <<blocks, breakpoints, continue_to, compiled>>, regular' => regular /\ y = {}
  PROVE  ParserOK(in)'
<1>1. PICK fs, gs, os, ps, bs, cs, n, c :
        /\ fs = functions /\ gs = functions' /\ os = open /\ ps = open' /\ bs = breakpoints /\ cs = compiled
        /\ n = Len(blocks) /\ c = continue_to
  OBVIOUS
<1>2. Parsing(in, fs, cs, os, bs, n, c) /\ Nested(in, os, fs) /\ in[Len(os) + 1].depth = Current.depth /\ IsSeq(blocks)
  BY <1>1, ParserIs
<1>3. Steps(fs, gs, cs, y) /\ FunctionsOK(gs, cs) /\ Len(gs) = Len(fs) /\ Onward(fs, gs, Len(fs)) /\ SameContexts(os, ps)
  BY <1>1 DEF Steps
<1>4. Parsing(in, gs, cs, ps, bs, n, c)
  BY <1>2, <1>3, ChangedIs
<1>5. ASSUME regular' PROVE Regularly(in, gs, cs, ps, bs, {})
  <2>1. Regularly(in, fs, cs, os, bs, {})
    BY <1>1, <1>5 DEF ParserOK
  <2>2. \A l \in 1..Len(fs) : Loose(gs[l].code) \subseteq Loose(fs[l].code) \cup {k \in {} : l = Len(fs)}
    BY <1>3, <1>5 DEF Steps
  <2>3. {} \cup {} \subseteq {}
    OBVIOUS
  <2> QED
    BY <1>2, <1>3, <2>1, <2>2, <2>3, ChangedRegularly
<1>6. Len(ps) = Len(os) /\ gs[Len(gs)].depth = Current.depth
  BY <1>1, <1>3 DEF SameContexts
<1>7. /\ functions' = gs /\ compiled' = cs /\ open' = ps /\ breakpoints' = bs /\ blocks' = blocks /\ continue_to' = c
      /\ Len(blocks') = n
  BY <1>1
<1> QED
  BY <1>2, <1>4, <1>5, <1>6, <1>7 DEF ParserOK

-----------------------------------------------------------------------------
(* What each handler keeps but the one of the end of the source.           *)
Kept ==
  /\ CompiledOK(compiled)' /\ Extends(compiled, compiled')
  /\ status' \in {"parsing", "rejected", "undefined", "aborted"} /\ regular' \in BOOLEAN /\ dialect' = dialect
  /\ ParserBroken' \/ \E in : ParserOK(in)'

LEMMA CompiledStays ==
  ASSUME CompiledOK(compiled), compiled' = compiled
  PROVE  CompiledOK(compiled)' /\ Extends(compiled, compiled')
<1>1. Len(compiled) \in Nat
  BY DEF CompiledOK, IsSeq
<1> QED
  BY <1>1 DEF Extends

(* A statement without statements inside.                                  *)
LEMMA SimpleIs ==
  ASSUME CompiledOK(compiled), NEW in, ParserOK(in), NEW kind, NEW p, Simple(kind, p),
         Steps(functions, p.functions, compiled, {}), p.functions[Len(functions)].depth = Current.depth,
         Straight(p.code, Len(Last(p.functions).outsiders)),
         UNCHANGED <<blocks, breakpoints, continue_to>>, regular' \in BOOLEAN, regular' => regular
  PROVE  Kept
<1>1. PICK fs, gs, hs, n, f, t :
        /\ fs = functions /\ gs = p.functions /\ hs = functions' /\ n = Len(functions)
        /\ f = p.functions[Len(functions)] /\ t = p.code
  OBVIOUS
<1>2. /\ functions' = [gs EXCEPT ![Innermost] = Statement(Emit(@, t))]
      /\ open' = Ended(open) /\ compiled' = compiled /\ status' = status /\ dialect' = dialect /\ status = "parsing"
  BY <1>1 DEF Simple, MayStart, MayWrite
<1>3. Innermost = n /\ Nested(in, open, functions)
  BY <1>1, ParserIs
<1>4. FunctionsOK(gs, compiled) /\ Len(gs) = n
  BY <1>1 DEF Steps
<1>5. hs = Updated(gs, Len(gs), Statement(Emit(f, t)))
  BY <1>1, <1>2, <1>3, <1>4, Zenon DEF Updated
<1>6. Steps(gs, hs, compiled, {}) /\ hs[n].depth = f.depth
  BY <1>1, <1>4, <1>5, StatementSteps
<1>7. Steps(fs, hs, compiled, {} \cup {})
  BY <1>1, <1>6, StepsTransitive
<1>8. Steps(functions, functions', compiled, {})
  BY <1>1, <1>7
<1>9. functions'[Len(functions)].depth = Current.depth
  BY <1>1, <1>6
<1>10. SameContexts(open, open')
  BY <1>2, <1>3, SameContextsSame
<1>11. ParserOK(in)'
  <2>1. regular' => regular /\ {} = {}
    OBVIOUS
  <2> QED
    BY <1>2, <1>8, <1>9, <1>10, <2>1, ParserGoesOn
<1> QED
  BY <1>2, <1>11, CompiledStays DEF Kept

LEMMA FittingIs ==
  ASSUME CompiledOK(compiled), NEW in, ParserOK(in), NEW kind, NEW p, Simple(kind, p), Fits(p, functions, compiled),
         UNCHANGED <<blocks, breakpoints, continue_to>>, regular' \in BOOLEAN, regular' => regular
  PROVE  Kept
<1>1. /\ FunctionsOK(functions, compiled) /\ Grown(functions, p.functions, compiled)
      /\ Straight(p.code, Len(Last(p.functions).outsiders))
  BY DEF Fits
<1>2. Steps(functions, p.functions, compiled, {}) /\ \A l \in 1..Len(functions) : p.functions[l].depth = functions[l].depth
  BY <1>1, StepsGrown
<1>3. Len(functions) \in 1..Len(functions) /\ Current = functions[Len(functions)]
  BY <1>1, InnermostIs DEF Current, Innermost
<1>4. p.functions[Len(functions)].depth = Current.depth
  BY <1>2, <1>3
<1> QED
  BY <1>1, <1>2, <1>4, SimpleIs

(* Expressions whose value is printed, called, dropped or returned.        *)
LEMMA ConcatFits ==
  ASSUME NEW p, NEW fs, NEW cs, Fits(p, fs, cs), NEW t, Straight(t, Len(Last(p.functions).outsiders)),
         NEW q, q = [p EXCEPT !.code = @ \o t]
  PROVE  Fits(q, fs, cs)
<1>1. p = [functions |-> p.functions, code |-> p.code]
  BY DEF Fits
<1>2. PICK c, gs : c = p.code \o t /\ gs = p.functions
  OBVIOUS
<1>3. q = [p EXCEPT !.code = c]
  BY <1>2, Zenon
<1>4. q = [functions |-> gs, code |-> c]
  BY <1>1, <1>2, <1>3
<1>5. q.functions = p.functions /\ q.code = c /\ q = [functions |-> q.functions, code |-> q.code]
  BY <1>2, <1>4
<1>6. Straight(c, Len(Last(p.functions).outsiders))
  BY <1>2, StraightConcat DEF Fits
<1> QED
  BY <1>5, <1>6 DEF Fits

LEMMA ValueKept ==
  ASSUME CompiledOK(compiled), regular \in BOOLEAN, NEW in, ParserOK(in), NEW kind, NEW e, IsExpression(e), NEW t,
         \A n : Straight(t, n), Value(kind, e, t)
  PROVE  Kept
<1>1. IsSeq(compiled) /\ FunctionsOK(functions, compiled)
  BY ParserIs DEF CompiledOK
<1>2. PICK p : p = Parsed(Nothing_(functions), e, Nothing)
  OBVIOUS
<1>3. Fits(Nothing_(functions), functions, compiled)
  BY <1>1, NothingFits
<1>4. Fits(p, functions, compiled)
  BY <1>1, <1>2, <1>3, ParsedFits
<1>5. PICK q : q = [p EXCEPT !.code = @ \o t]
  OBVIOUS
<1>6. Fits(q, functions, compiled)
  BY <1>4, <1>5, ConcatFits
<1>7. Simple(kind, q) /\ regular' = (regular /\ Regular(functions, e)) /\ UNCHANGED <<blocks, breakpoints, continue_to>>
  BY <1>2, <1>5, Zenon DEF Value
<1>8. regular' \in BOOLEAN /\ (regular' => regular)
  BY <1>7
<1> QED
  BY <1>6, <1>7, <1>8, FittingIs

LEMMA NameIs == ASSUME NEW n PROVE IsExpression(Name(n)) /\ Name(n).form = "name"
  BY DEF Name, Form, IsExpression
LEMMA OrdinariesAre ==
  /\ Ordinary("Pop") /\ Ordinary("Print") /\ Ordinary("Return") /\ Ordinary("Push_Literal") /\ Ordinary("Push_Nil")
  /\ Ordinary("Push_Condition") /\ Ordinary("Set_Property") /\ Ordinary("Define_Global") /\ Ordinary("Copy_From_Idx")
  /\ Ordinary("Copy_Top_To_Idx") /\ Ordinary("Class") /\ Ordinary("Inheritance") /\ Ordinary("Move_Value_To_Heap")
  BY DEF Ordinary, Jumps, OfHeap

LEMMA OrdinaryCode ==
  ASSUME NEW op, Ordinary(op), NEW n
  PROVE  /\ Straight(<<Do(op)>>, n)
         /\ \A x : Straight(<<Operand(op, x)>>, n) /\ Straight(<<Push(op, x)>>, n)
  BY OrdinaryIs DEF Do, Operand, Push

LEMMA StraightPair == ASSUME NEW a, NEW b, NEW n, Straight(<<a>>, n), Straight(<<b>>, n) PROVE Straight(<<a, b>>, n)
<1>1. /\ IsSeq(<<a>>) /\ Len(<<a>>) = 1 /\ <<a>>[1] = a
      /\ IsSeq(<<b>>) /\ Len(<<b>>) = 1 /\ <<b>>[1] = b
      /\ IsSeq(<<a, b>>) /\ Len(<<a, b>>) = 2 /\ <<a, b>>[1] = a /\ <<a, b>>[2] = b
  BY TuplesAre
<1>2. PICK u, v, w : u = <<a>> /\ v = <<b>> /\ w = u \o v
  OBVIOUS
<1>3. IsSeq(w) /\ Len(w) = 2 /\ w[1] = a /\ w[2] = b
  <2>1. /\ IsSeq(w) /\ Len(w) = Len(u) + Len(v)
        /\ \A i \in 1..Len(u) : w[i] = u[i]
        /\ \A i \in 1..Len(v) : w[Len(u) + i] = v[i]
    BY <1>1, <1>2, ConcatIs
  <2> QED
    BY <1>1, <1>2, <2>1
<1>4. PICK x : x = <<a, b>>
  OBVIOUS
<1>5. x = w
  BY <1>1, <1>3, <1>4, SameSeq
<1>6. Straight(w, n)
  BY <1>2, StraightConcat
<1> QED
  BY <1>4, <1>5, <1>6

LEMMA CallingIs == ASSUME NEW kind \in Calls, NEW n PROVE Straight(Calling(kind) \o <<Do("Pop")>>, n)
<1>1. /\ Straight(<<Operand("Call_Function", 0)>>, n) /\ Straight(<<Operand("Call_Class", 0)>>, n)
      /\ Straight(<<Operand("Call_Function", 1)>>, n) /\ Straight(<<Operand("Call_Class", 1)>>, n)
  BY CallIs DEF Operand
<1>2. Straight(<<Push("Push_Literal", Nothing)>>, n) /\ Straight(<<Do("Pop")>>, n)
  BY OrdinariesAre, OrdinaryCode
<1>3. Straight(Calling(kind), n)
  <2>1. CASE kind = "f()"
    BY <1>1, <2>1 DEF Calling
  <2>2. CASE kind = "f()()"
    BY <1>1, <2>2, StraightPair DEF Calling
  <2>3. CASE kind = "f(e)"
    BY <1>1, <1>2, <2>3, StraightPair DEF Calling
  <2>4. CASE kind = "new()"
    BY <1>1, <2>4 DEF Calling
  <2>5. CASE kind = "new(e)"
    BY <1>1, <1>2, <2>5, StraightPair DEF Calling
  <2> QED
    BY <2>1, <2>2, <2>3, <2>4, <2>5 DEF Calls
<1> QED
  BY <1>2, <1>3, StraightConcat

LEMMA PrintValueKept ==
  ASSUME CompiledOK(compiled), regular \in BOOLEAN, NEW in, ParserOK(in), NEW o, PrintValue(Name(o)) PROVE Kept
<1>1. \A n : Straight(<<Do("Print")>>, n)
  BY OrdinariesAre, OrdinaryCode
<1> QED
  BY <1>1, NameIs, ValueKept DEF PrintValue

LEMMA ReturnKept ==
  ASSUME CompiledOK(compiled), regular \in BOOLEAN, NEW in, ParserOK(in), NEW o, Return(Name(o)) PROVE Kept
<1>1. \A n : Straight(<<Do("Return")>>, n)
  BY OrdinariesAre, OrdinaryCode
<1> QED
  BY <1>1, NameIs, ValueKept DEF Return

LEMMA CallMemberKept ==
  ASSUME CompiledOK(compiled), regular \in BOOLEAN, NEW in, ParserOK(in), NEW o, NEW m, CallMember(o, m) PROVE Kept
<1>1. \A n : Straight(<<Do("Pop")>>, n)
  BY OrdinariesAre, OrdinaryCode
<1>2. IsExpression(Form("o.m()", o, m))
  BY DEF IsExpression, Form
<1> QED
  BY <1>1, <1>2, ValueKept DEF CallMember

LEMMA CallKept ==
  ASSUME CompiledOK(compiled), regular \in BOOLEAN, NEW in, ParserOK(in), NEW kind \in Calls, NEW n, Call(kind, n) PROVE Kept
<1>1. \A k : Straight(Calling(kind) \o <<Do("Pop")>>, k)
  BY CallingIs
<1> QED
  BY <1>1, NameIs, ValueKept DEF Call

-----------------------------------------------------------------------------
(* The rest of the simple statements.                                      *)

LEMMA FitsFurther ==
  ASSUME NEW fs, NEW gs, NEW cs, FunctionsOK(fs, cs), Grown(fs, gs, cs), NEW p, Fits(p, gs, cs)
  PROVE  Fits(p, fs, cs)
<1>1. Grown(gs, p.functions, cs)
  BY DEF Fits
<1>2. Grown(fs, p.functions, cs)
  BY <1>1, GrownTransitive
<1> QED
  BY <1>2 DEF Fits

LEMMA AssignNameKept ==
  ASSUME CompiledOK(compiled), regular \in BOOLEAN, NEW in, ParserOK(in), NEW n, NEW e, IsExpression(e), AssignName(n, e)
  PROVE  Kept
<1>1. IsSeq(compiled) /\ FunctionsOK(functions, compiled)
  BY ParserIs DEF CompiledOK
<1>2. PICK gs : gs = Resolved(functions, n)
  OBVIOUS
<1>3. Grown(functions, gs, compiled) /\ FoundIn(gs, n) /\ FunctionsOK(gs, compiled)
  BY <1>1, <1>2, ResolvedIs DEF Grown
<1>4. PICK p, q, r, s : /\ p = Nothing_(gs) /\ q = Parsed(p, e, Nothing) /\ r = Assigning(q, n) /\ s = Doing(r, Do("Pop"))
  OBVIOUS
<1>5. Fits(p, gs, compiled)
  BY <1>3, <1>4, NothingFits
<1>6. Fits(q, gs, compiled)
  BY <1>1, <1>4, <1>5, ParsedFits
<1>7. FoundIn(q.functions, n)
  <2>1. Grown(gs, q.functions, compiled)
    BY <1>6 DEF Fits
  <2> QED
    BY <1>3, <2>1, FoundStays
<1>8. Fits(r, gs, compiled)
  BY <1>4, <1>6, <1>7, AssigningFits
<1>9. Fits(s, gs, compiled)
  <2>1. Straight(<<Do("Pop")>>, Len(Last(r.functions).outsiders))
    BY OrdinariesAre, OrdinaryCode
  <2> QED
    BY <1>4, <1>8, <2>1, DoingFits
<1>10. Fits(s, functions, compiled)
  BY <1>1, <1>3, <1>9, FitsFurther
<1>11. /\ \E kind : Simple(kind, s)
       /\ regular' = (regular /\ ~Renamed({n})) /\ UNCHANGED <<blocks, breakpoints, continue_to>>
  BY <1>2, <1>4, Zenon DEF AssignName
<1>12. regular' \in BOOLEAN /\ (regular' => regular)
  BY <1>11
<1> QED
  BY <1>10, <1>11, <1>12, FittingIs

LEMMA SetMemberKept ==
  ASSUME CompiledOK(compiled), regular \in BOOLEAN, NEW in, ParserOK(in), NEW o, NEW m, NEW e, IsExpression(e), SetMember(o, m, e)
  PROVE  Kept
<1>1. IsSeq(compiled) /\ FunctionsOK(functions, compiled)
  BY ParserIs DEF CompiledOK
<1>2. PICK p, q, r, s, t :
        /\ p = Nothing_(functions) /\ q = Reading(p, o, Nothing) /\ r = Parsed(q, e, Nothing)
        /\ s = Doing(r, Operand("Set_Property", m)) /\ t = Doing(s, Do("Pop"))
  OBVIOUS
<1>3. Fits(p, functions, compiled)
  BY <1>1, <1>2, NothingFits
<1>4. Fits(q, functions, compiled)
  BY <1>1, <1>2, <1>3, ReadingFits
<1>5. Fits(r, functions, compiled)
  BY <1>1, <1>2, <1>4, ParsedFits
<1>6. Fits(s, functions, compiled)
  <2>1. Straight(<<Operand("Set_Property", m)>>, Len(Last(r.functions).outsiders))
    BY OrdinariesAre, OrdinaryCode
  <2> QED
    BY <1>2, <1>5, <2>1, DoingFits
<1>7. Fits(t, functions, compiled)
  <2>1. Straight(<<Do("Pop")>>, Len(Last(s.functions).outsiders))
    BY OrdinariesAre, OrdinaryCode
  <2> QED
    BY <1>2, <1>6, <2>1, DoingFits
<1>8. Simple("o.m=name", t) /\ regular' = regular /\ UNCHANGED <<blocks, breakpoints, continue_to>>
  BY <1>2, Zenon DEF SetMember
<1> QED
  BY <1>7, <1>8, FittingIs

(* A name that is declared before the value is compiled, and initialized   *)
(* after.                                                                  *)
LEMMA DeclareVariableKept ==
  ASSUME CompiledOK(compiled), regular \in BOOLEAN, NEW in, ParserOK(in), NEW n, NEW e, IsExpression(e), DeclareVariable(n, e)
  PROVE  Kept
<1>1. /\ IsSeq(compiled) /\ FunctionsOK(functions, compiled) /\ FunctionOK(Current, compiled) /\ IsSeq(Current.code)
      /\ Current = functions[Len(functions)] /\ Innermost = Len(functions)
      /\ Len(functions) \in 1..Len(functions) /\ Len(functions) \in Nat
  BY ParserIs DEF CompiledOK
<1>2. PICK k, as : k = Len(functions) /\ as = IF Current.depth = 0 THEN Nothing ELSE NewDecl
  OBVIOUS
<1>3. PICK f : f = Reserved(Current, n, NewDecl)
  OBVIOUS
<1>4. /\ FunctionOK(f, compiled) /\ f.depth = Current.depth /\ f.outsiders = Current.outsiders /\ f.code = Current.code
      /\ f.depth # 0 => Len(f.locals) > 1
  <2>1. ~Refused(Current, n)
    BY DEF DeclareVariable
  <2> QED
    BY <1>1, <1>3, <2>1, ReservedIs
<1>5. PICK fs : fs = Updated(functions, k, f)
  OBVIOUS
<1>6. Steps(functions, fs, compiled, {}) /\ Len(fs) = k /\ fs[k] = f
  <2>1. Inward(Current, f, compiled, {})
    BY <1>1, <1>4, LongerSame DEF Inward
  <2> QED
    BY <1>1, <1>2, <1>4, <1>5, <2>1, StepsInner
<1>7. FunctionsOK(fs, compiled)
  BY <1>6 DEF Steps
<1>8. PICK q : q = Parsed(Nothing_(fs), e, as)
  OBVIOUS
<1>9. Fits(q, fs, compiled)
  <2>1. Fits(Nothing_(fs), fs, compiled)
    BY <1>7, NothingFits
  <2> QED
    BY <1>1, <1>8, <2>1, ParsedFits
<1>10. PICK gs, g : gs = q.functions /\ g = gs[k]
  OBVIOUS
<1>11. /\ Grown(fs, gs, compiled) /\ Straight(q.code, Len(Last(gs).outsiders)) /\ FunctionsOK(gs, compiled) /\ Len(gs) = k
       /\ Steps(fs, gs, compiled, {}) /\ g.depth = f.depth /\ Len(g.locals) = Len(f.locals)
  <2>1. Grown(fs, gs, compiled) /\ Straight(q.code, Len(Last(gs).outsiders)) /\ FunctionsOK(gs, compiled) /\ Len(gs) = k
    BY <1>6, <1>9, <1>10 DEF Fits, Grown
  <2>2. Steps(fs, gs, compiled, {}) /\ \A l \in 1..Len(fs) : gs[l].depth = fs[l].depth
    BY <1>7, <2>1, StepsGrown
  <2>3. Captures(fs[k], gs[k])
    BY <1>1, <1>2, <1>6, <2>1 DEF Grown
  <2> QED
    BY <1>6, <1>10, <2>1, <2>2, <2>3 DEF Captures, SameNames
<1>12. FunctionOK(g, compiled) /\ IsSeq(g.code) /\ Last(gs) = g
  BY <1>10, <1>11, InnermostIs
<1>13. PICK h : h = Emit(g, q.code)
  OBVIOUS
<1>14. FunctionOK(h, compiled) /\ SameShape(g, h) /\ Longer(g.code, h.code) /\ Loose(h.code) = Loose(g.code)
  BY <1>11, <1>12, <1>13, EmitStraight
<1>15. PICK i : i = Initialized(h, n)
  OBVIOUS
<1>16. /\ FunctionOK(i, compiled) /\ i.depth = h.depth /\ i.outsiders = h.outsiders
       /\ Longer(h.code, i.code) /\ Loose(i.code) = Loose(h.code)
  <2>1. h.depth # 0 => Len(h.locals) > 1
    BY <1>4, <1>11, <1>14 DEF SameShape
  <2> QED
    BY <1>14, <1>15, <2>1, InitializedIs
<1>17. PICK hs : hs = Updated(gs, k, i)
  OBVIOUS
<1>18. Steps(gs, hs, compiled, {}) /\ Len(hs) = k /\ hs[k] = i
  <2>1. Inward(g, h, compiled, {})
    BY <1>12, <1>14 DEF Inward, SameShape
  <2>2. Inward(h, i, compiled, {})
    BY <1>14, <1>16 DEF Inward, FunctionOK, CodeOK
  <2>3. Inward(g, i, compiled, {} \cup {})
    BY <2>1, <2>2, InwardTransitive
  <2> QED
    BY <1>10, <1>11, <1>17, <2>3, StepsInner
<1>19. Steps(functions, hs, compiled, {}) /\ hs[k].depth = Current.depth
  <2>1. Steps(functions, gs, compiled, {} \cup {})
    BY <1>6, <1>11, StepsTransitive
  <2>2. Steps(functions, hs, compiled, ({} \cup {}) \cup {})
    BY <1>18, <2>1, StepsTransitive
  <2>3. ({} \cup {}) \cup {} = {}
    OBVIOUS
  <2> QED
    BY <1>4, <1>11, <1>14, <1>16, <1>18, <2>2, <2>3 DEF SameShape
<1>20. PICK p : p = Nothing_(hs)
  OBVIOUS
<1>21. p.functions = hs /\ p.code = <<>>
  BY <1>20 DEF Nothing_
<1>22. p = Declared(q, n)
  BY <1>1, <1>2, <1>10, <1>13, <1>15, <1>17, <1>20, Zenon DEF Declared, Updated
<1>23. /\ \E kind : Simple(kind, p)
       /\ regular' = (regular /\ (Current.depth > 0 => ~InBare /\ e.name # n) /\ Regular(fs, e) /\ ~Renamed({n}))
       /\ UNCHANGED <<blocks, breakpoints, continue_to>>
  <2>1. fs = [functions EXCEPT ![Innermost] = Reserved(@, n, NewDecl)]
    BY <1>1, <1>2, <1>3, <1>5, Zenon DEF Updated
  <2> QED
    BY <1>2, <1>8, <1>22, <2>1, Zenon DEF DeclareVariable
<1>24. regular' \in BOOLEAN /\ (regular' => regular)
  BY <1>23
<1>25. Straight(p.code, Len(Last(p.functions).outsiders))
  BY <1>21, StraightEmpty
<1> QED
  BY <1>2, <1>19, <1>21, <1>23, <1>24, <1>25, SimpleIs

(* A return without a value.                                               *)
LEMMA ReturnNothingIs == ASSUME NEW f, NEW n PROVE Straight(ReturnNothing(f), n)
<1>1. PICK i : i = IF f.kind = "Method_Initializer" THEN Instruction("Copy_From_Idx", 0, f.locals[1].decl, Nothing)
                   ELSE Push("Push_Nil", Nothing)
  OBVIOUS
<1>2. Straight(<<i>>, n)
  <2>1. Straight(<<Instruction("Copy_From_Idx", 0, f.locals[1].decl, Nothing)>>, n)
    BY OrdinariesAre, OrdinaryIs
  <2>2. Straight(<<Push("Push_Nil", Nothing)>>, n)
    BY OrdinariesAre, OrdinaryCode
  <2> QED
    BY <1>1, <2>1, <2>2
<1>3. Straight(<<Do("Return")>>, n)
  BY OrdinariesAre, OrdinaryCode
<1>4. Straight(<<i, Do("Return")>>, n)
  BY <1>2, <1>3, StraightPair
<1> QED
  BY <1>1, <1>4 DEF ReturnNothing

LEMMA ReturnEarlyKept ==
  ASSUME CompiledOK(compiled), regular \in BOOLEAN, NEW in, ParserOK(in), ReturnEarly PROVE Kept
<1>1. FunctionsOK(functions, compiled)
  BY ParserIs
<1>2. PICK u : u = IF InBare THEN <<>> ELSE <<Do("Pop")>>
  OBVIOUS
<1>3. PICK t : t = ReturnNothing(Current) \o u
  OBVIOUS
<1>4. \A n : Straight(t, n)
  <2>1. ASSUME NEW n PROVE Straight(t, n)
    <3>1. Straight(<<Do("Pop")>>, n) /\ Straight(ReturnNothing(Current), n) /\ Straight(<<>>, n)
      BY OrdinariesAre, OrdinaryCode, ReturnNothingIs, StraightEmpty
    <3>2. Straight(u, n)
      BY <1>2, <3>1
    <3> QED
      BY <1>3, <3>1, <3>2, StraightConcat
  <2> QED
    BY <2>1
<1>5. PICK p, fs : p = [functions |-> fs, code |-> t] /\ fs = functions
  OBVIOUS
<1>6. p.functions = fs /\ p.code = t /\ p = [functions |-> p.functions, code |-> p.code]
  BY <1>5
<1>7. Fits(p, functions, compiled)
  BY <1>1, <1>4, <1>5, <1>6, GrownSame DEF Fits
<1>8. Simple("divolvi", p) /\ regular' = (regular /\ ~InBare) /\ UNCHANGED <<blocks, breakpoints, continue_to>>
  BY <1>2, <1>3, <1>5, Zenon DEF ReturnEarly
<1>9. regular' \in BOOLEAN /\ (regular' => regular)
  BY <1>8
<1> QED
  BY <1>7, <1>8, <1>9, FittingIs

(* The statement that its ';' begins.                                      *)
LEMMA EmptyStatementKept ==
  ASSUME CompiledOK(compiled), regular \in BOOLEAN, NEW in, ParserOK(in), EmptyStatement PROVE Kept
<1>1. PICK fs, hs, t : fs = functions /\ hs = functions' /\ t = <<Do("Pop")>>
  OBVIOUS
<1>2. /\ functions' = [functions EXCEPT ![Innermost] = Statement(Emit(@, t))]
      /\ open' = Ended(open) /\ compiled' = compiled /\ status' = status /\ dialect' = dialect /\ status = "parsing"
      /\ UNCHANGED <<blocks, breakpoints, continue_to>> /\ regular' = FALSE
  BY <1>1, Zenon DEF EmptyStatement
<1>3. Innermost = Len(functions) /\ Nested(in, open, functions) /\ FunctionsOK(functions, compiled)
  BY ParserIs
<1>4. Straight(t, Len(Last(functions).outsiders))
  BY <1>1, OrdinariesAre, OrdinaryCode
<1>5. PICK f, n : f = functions[Len(functions)] /\ n = Len(functions)
  OBVIOUS
<1>6. hs = Updated(fs, Len(fs), Statement(Emit(f, t)))
  BY <1>1, <1>2, <1>3, <1>5, Zenon DEF Updated
<1>7. Steps(fs, hs, compiled, {}) /\ hs[n].depth = f.depth
  BY <1>1, <1>3, <1>4, <1>5, <1>6, StatementSteps
<1>8. Steps(functions, functions', compiled, {})
  BY <1>1, <1>7
<1>9. functions'[Len(functions)].depth = Current.depth
  BY <1>1, <1>3, <1>5, <1>7 DEF Current
<1>10. SameContexts(open, open')
  BY <1>2, <1>3, SameContextsSame
<1>11. ParserOK(in)'
  <2>1. (regular' => regular /\ {} = {}) /\ regular' \in BOOLEAN
    BY <1>2
  <2> QED
    BY <1>2, <1>8, <1>9, <1>10, <2>1, ParserGoesOn
<1> QED
  BY <1>2, <1>11, CompiledStays DEF Kept

(* An error.                                                               *)
LEMMA RejectKept ==
  ASSUME CompiledOK(compiled), regular \in BOOLEAN, NEW in, ParserOK(in), NEW kind, Reject(kind) PROVE Kept
<1>1. status' = "rejected" /\ compiled' = compiled /\ UNCHANGED parser
  BY DEF Reject
<1>2. ParserOK(in)'
  BY <1>1 DEF ParserOK, parser
<1>3. regular' = regular /\ dialect' = dialect
  BY <1>1 DEF parser
<1> QED
  BY <1>1, <1>2, <1>3, CompiledStays DEF Kept

(* An assertion.                                                           *)
LEMMA AbortKept ==
  ASSUME CompiledOK(compiled), regular \in BOOLEAN, NEW in, ParserOK(in), NEW kind, Abort(kind) PROVE Kept
<1>1. status' = "aborted" /\ compiled' = compiled /\ UNCHANGED parser
  BY DEF Abort
<1>2. ParserOK(in)'
  BY <1>1 DEF ParserOK, parser
<1>3. regular' = regular /\ dialect' = dialect
  BY <1>1 DEF parser
<1> QED
  BY <1>1, <1>2, <1>3, CompiledStays DEF Kept

-----------------------------------------------------------------------------
(* Statements with other statements inside begin: the handler has emitted  *)
(* code with the jumps y, and may have begun a function.                   *)
Begins(in, y, gs, o) ==
  /\ Steps(functions, gs, compiled, y)
  /\ open' = Append(open, o) /\ UNCHANGED <<breakpoints, compiled, status, dialect>> /\ status = "parsing"
  /\ FunctionsOK(functions', compiled) /\ Len(gs) <= Len(functions')
  /\ \A l \in 1..Len(gs) : functions'[l] = gs[l]
  /\ \A l \in Len(gs)+1..Len(functions') : Loose(functions'[l].code) = {}
  /\ Len(functions') = Len(functions) + (IF Opens(o) THEN 1 ELSE 0)
  /\ IsSeq(blocks') /\ Len(blocks') = Len(blocks) + (IF Pushes(o) THEN 1 ELSE 0)
  /\ functions'[Len(functions')].depth = (IF Opens(o) THEN 2 ELSE Current.depth + Scopes(o))
  /\ IF o.kind = "for" THEN o.continue = continue_to /\ ContinueOK(continue_to', Len(functions), gs)
                       ELSE continue_to' = continue_to
  /\ ContextOK(o, in[Len(open) + 1], functions')
  /\ regular' \in BOOLEAN /\ (regular' => regular /\ (o.kind = "for" => o.increment # -1))
  /\ \A k \in y : Holds(o) /\ k = o.jump

LEMMA ContinueMore ==
  ASSUME NEW fs, NEW gs, Len(fs) \in Nat, Len(gs) \in Nat, Len(fs) <= Len(gs), \A l \in 1..Len(fs) : gs[l] = fs[l],
         NEW c, ContinueOK(c, Len(fs), fs)
  PROVE  ContinueOK(c, Len(gs), gs)
<1>1. CASE c.to = -1
  BY <1>1 DEF ContinueOK
<1>2. CASE c.to # -1
  <2>1. c.function \in 1..Len(fs) /\ Target(fs[c.function].code, c.to)
    BY <1>2 DEF ContinueOK
  <2>2. c.function \in 1..Len(gs)
    BY <2>1
  <2> QED
    BY <2>1, <2>2 DEF ContinueOK
<1> QED
  BY <1>1, <1>2

LEMMA BeginsKept ==
  ASSUME CompiledOK(compiled), NEW in, ParserOK(in), NEW y, NEW gs, NEW o, Begins(in, y, gs, o) PROVE Kept
<1>1. PICK fs, hs, os, ps, bs, cs, n, c, m, d :
        /\ fs = functions /\ hs = functions' /\ os = open /\ ps = open' /\ bs = breakpoints /\ cs = compiled
        /\ n = Len(blocks) /\ c = continue_to /\ m = Len(functions) /\ d = continue_to'
  OBVIOUS
<1>2. /\ Parsing(in, fs, cs, os, bs, n, c) /\ Nested(in, os, fs) /\ in[Len(os) + 1].depth = Current.depth
      /\ in[Len(os) + 1].level = m /\ in[Len(os) + 1].blocks = n /\ in[Len(os) + 1].continue = c
      /\ IsSeq(os) /\ Len(os) \in Nat /\ m \in Nat /\ m # 0 /\ Len(fs) = m /\ n \in Nat
  BY <1>1, ParserIs
<1>3. Steps(fs, gs, cs, y) /\ FunctionsOK(gs, cs) /\ Len(gs) = m /\ Onward(fs, gs, m)
  BY <1>1, <1>2 DEF Begins, Steps
<1>4. SameContexts(os, os)
  BY <1>2, SameContextsSame
<1>5. Parsing(in, gs, cs, os, bs, n, c)
  BY <1>2, <1>3, <1>4, ChangedIs
<1>6. PICK new : new = [level |-> Len(hs), blocks |-> Len(blocks'), depth |-> hs[Len(hs)].depth, continue |-> d]
  OBVIOUS
<1>7. new.level = Len(hs) /\ new.blocks = Len(blocks') /\ new.depth = hs[Len(hs)].depth /\ new.continue = d
  BY <1>6
<1>8. Inside(in[Len(os) + 1], o, new)
  <2>1. /\ Len(hs) = m + (IF Opens(o) THEN 1 ELSE 0)
        /\ Len(blocks') = n + (IF Pushes(o) THEN 1 ELSE 0)
        /\ hs[Len(hs)].depth = (IF Opens(o) THEN 2 ELSE Current.depth + Scopes(o))
    BY <1>1 DEF Begins
  <2>2. IF o.kind = "for" THEN o.continue = c ELSE d = c
    BY <1>1 DEF Begins
  <2> QED
    BY <1>2, <1>7, <2>1, <2>2 DEF Inside
<1>9. FunctionsOK(hs, cs) /\ Len(hs) \in Nat /\ Len(hs) # 0 /\ m <= Len(hs) /\ \A l \in 1..m : hs[l] = gs[l]
  <2>1. FunctionsOK(hs, cs) /\ m <= Len(hs) /\ \A l \in 1..m : hs[l] = gs[l]
    BY <1>1, <1>3 DEF Begins
  <2> QED
    BY <2>1 DEF FunctionsOK, IsSeq
<1>10. new.depth \in Nat
  <2>1. Len(hs) \in 1..Len(hs)
    BY <1>9
  <2> QED
    BY <1>7, <1>9, <2>1 DEF FunctionsOK, FunctionOK
<1>11. ContinueOK(new.continue, new.level, hs)
  <2>1. ContinueOK(d, m, gs)
    <3>1. CASE o.kind = "for"
      BY <1>1, <3>1 DEF Begins
    <3>2. CASE o.kind # "for"
      <4>1. Len(os) + 1 \in 1..Len(os)+1 /\ m \in 1..m
        BY <1>2
      <4>2. ContinueOK(c, m, fs)
        BY <1>2, <4>1 DEF Nested
      <4>3. ContinueOK(c, m, gs)
        BY <1>2, <1>3, <4>1, <4>2, ContinueStays
      <4> QED
        BY <1>1, <3>2, <4>3 DEF Begins
    <3> QED
      BY <3>1, <3>2
  <2>2. ContinueOK(d, Len(hs), hs)
    BY <1>2, <1>3, <1>9, <2>1, ContinueMore
  <2> QED
    BY <1>7, <2>2
<1>12. Nested(in, os, hs)
  <2>1. Onward(fs, hs, m)
    <3>1. \A l \in 1..m-1 : l \in 1..m
      BY <1>2
    <3> QED
      BY <1>3, <1>9, <3>1 DEF Onward
  <2>2. \A k \in 1..Len(os) : SameContext(os[k], os[k])
    BY <1>4 DEF SameContexts
  <2>3. Len(os) <= Len(os) /\ in[Len(os) + 1].level <= Len(hs) /\ Onward(fs, hs, in[Len(os) + 1].level)
    BY <1>2, <1>9, <2>1
  <2> QED
    BY <1>2, <1>9, <2>2, <2>3, NestedStays
<1>13. PICK jn : jn = Deeper(in, Len(os), new)
  OBVIOUS
<1>14. ContextOK(o, in[Len(os) + 1], hs) /\ ps = Append(os, o)
  BY <1>1 DEF Begins
<1>15. /\ Parsing(jn, hs, cs, ps, bs, new.blocks, new.continue)
       /\ jn[Len(ps) + 1] = new /\ Opened(in, gs, os, bs, o, jn, ps)
  <2>1. Len(gs) <= Len(hs) /\ \A l \in 1..Len(gs) : hs[l] = gs[l]
    BY <1>3, <1>9
  <2>2. Opening(in, gs, cs, os, bs, n, c, o, new, hs, jn, ps)
    BY <1>5, <1>7, <1>8, <1>9, <1>10, <1>11, <1>12, <1>13, <1>14, <2>1 DEF Opening
  <2> QED
    BY <2>2, OpenedIs
<1>16. ASSUME regular' PROVE Regularly(jn, hs, cs, ps, bs, {})
  <2>1. Regularly(in, fs, cs, os, bs, {}) /\ (o.kind = "for" => o.increment # -1)
    BY <1>1, <1>16 DEF ParserOK, Begins
  <2>2. Regularly(in, gs, cs, os, bs, y)
    <3>1. \A l \in 1..Len(fs) : Loose(gs[l].code) \subseteq Loose(fs[l].code) \cup {k \in y : l = Len(fs)}
      BY <1>3 DEF Steps
    <3>2. {} \cup y \subseteq y /\ Len(gs) = Len(fs)
      BY <1>2, <1>3
    <3> QED
      BY <1>2, <1>4, <2>1, <3>1, <3>2, ChangedRegularly
  <2>3. /\ \A l \in Len(gs)+1..Len(hs) : Loose(hs[l].code) = {}
        /\ \A k \in y : Holds(o) /\ k = o.jump
    BY <1>1 DEF Begins
  <2>4. /\ Len(gs) \in Nat /\ Len(gs) <= Len(hs) /\ \A l \in 1..Len(gs) : hs[l] = gs[l]
    BY <1>2, <1>3, <1>9
  <2>5. OpeningRegularly(in, gs, cs, os, bs, o, hs, jn, ps, y)
    BY <1>2, <1>9, <1>15, <2>1, <2>2, <2>3, <2>4 DEF OpeningRegularly
  <2> QED
    BY <2>5, OpenedRegularly
<1>17. ParserOK(jn)'
  <2>1. /\ functions' = hs /\ compiled' = cs /\ open' = ps /\ breakpoints' = bs /\ continue_to' = d /\ IsSeq(blocks')
    BY <1>1 DEF Begins
  <2>2. Parsing(jn, hs, cs, ps, bs, Len(blocks'), d) /\ jn[Len(ps) + 1].depth = hs[Len(hs)].depth
    BY <1>7, <1>15
  <2> QED
    BY <1>16, <2>1, <2>2 DEF ParserOK
<1>18. compiled' = compiled /\ status' = "parsing" /\ dialect' = dialect /\ regular' \in BOOLEAN
  BY DEF Begins
<1> QED
  BY <1>17, <1>18, CompiledStays DEF Kept

-----------------------------------------------------------------------------
(* Statements that begin in the function they are in.                      *)
PlaceOK(o, code) ==
  /\ o.kind \in {"block", "then", "else", "while", "for", "class"} /\ HasFields(o)
  /\ Holds(o) => (o.kind = "for" /\ o.jump = -1) \/ JumpAt(code, o.jump)
  /\ o.kind = "while" => Target(code, o.start)
  /\ o.kind = "for" => o.increment = -1 \/ Target(code, o.increment)

PlainBegins(y, o) ==
  /\ Steps(functions, functions', compiled, y)
  /\ open' = Append(open, o) /\ UNCHANGED <<breakpoints, compiled, status, dialect>> /\ status = "parsing"
  /\ IsSeq(blocks') /\ Len(blocks') = Len(blocks) + (IF Pushes(o) THEN 1 ELSE 0)
  /\ functions'[Len(functions)].depth = Current.depth + Scopes(o)
  /\ IF o.kind = "for" THEN o.continue = continue_to /\ ContinueOK(continue_to', Len(functions), functions')
                       ELSE continue_to' = continue_to
  /\ PlaceOK(o, functions'[Len(functions)].code)
  /\ regular' \in BOOLEAN /\ (regular' => regular /\ (o.kind = "for" => o.increment # -1))
  /\ \A k \in y : Holds(o) /\ k = o.jump

LEMMA PlainBeginsKept ==
  ASSUME CompiledOK(compiled), NEW in, ParserOK(in), NEW y, NEW o, PlainBegins(y, o) PROVE Kept
<1>1. /\ in[Len(open) + 1].level = Len(functions) /\ Len(functions) \in Nat
  BY ParserIs
<1>2. Steps(functions, functions', compiled, y) /\ FunctionsOK(functions', compiled) /\ Len(functions') = Len(functions)
  BY DEF PlainBegins, Steps
<1>3. ~Opens(o)
  BY DEF PlainBegins, PlaceOK, Opens
<1>4. ContextOK(o, in[Len(open) + 1], functions')
  <2>1. PlaceOK(o, functions'[in[Len(open) + 1].level].code)
    BY <1>1 DEF PlainBegins
  <2> QED
    BY <1>3, <2>1 DEF ContextOK, PlaceOK
<1>5. /\ Len(functions') <= Len(functions') /\ \A l \in 1..Len(functions') : functions'[l] = functions'[l]
      /\ \A l \in Len(functions')+1..Len(functions') : Loose(functions'[l].code) = {}
      /\ Len(functions') = Len(functions) + (IF Opens(o) THEN 1 ELSE 0)
      /\ functions'[Len(functions')].depth = (IF Opens(o) THEN 2 ELSE Current.depth + Scopes(o))
  BY <1>1, <1>2, <1>3 DEF PlainBegins
<1>6. Begins(in, y, functions', o)
  BY <1>2, <1>4, <1>5 DEF Begins, PlainBegins
<1> QED
  BY <1>6, BeginsKept

(* The first instructions of a statement, with a jump among them.          *)
Stepped(fs, gs, cs, f, g, t) ==
  /\ Steps(fs, gs, cs, Shifted(Len(f.code), Loose(t))) /\ Len(gs) = Len(fs) /\ gs[Len(fs)] = g
  /\ g.depth = f.depth /\ IsSeq(g.code) /\ Longer(f.code, g.code)
  /\ \A k \in 1..Len(t) : t[k].op \in Jumps => JumpAt(g.code, Len(f.code) + k)
LEMMA PieceSteps ==
  ASSUME NEW fs, NEW cs, FunctionsOK(fs, cs), NEW f, f = fs[Len(fs)], NEW t, PieceOK(t, f.code, Len(f.outsiders), cs),
         NEW g, g = Statement(Emit(f, t)), NEW gs, gs = Updated(fs, Len(fs), g)
  PROVE  Stepped(fs, gs, cs, f, g, t)
<1>1. PICK h, u : h = f /\ u = Shifted(Len(f.code), Loose(t))
  OBVIOUS
<1>2. FunctionOK(h, cs) /\ IsSeq(h.code) /\ PieceOK(t, h.code, Len(h.outsiders), cs) /\ u = Shifted(Len(h.code), Loose(t))
  BY <1>1, InnermostIs
<1>3. PICK e : e = Emit(h, t)
  OBVIOUS
<1>4. /\ FunctionOK(e, cs) /\ SameShape(h, e) /\ Longer(h.code, e.code)
      /\ e.code = h.code \o t /\ Loose(e.code) = Loose(h.code) \cup u
  <2>1. Emitted(h, e, t, cs)
    BY <1>2, <1>3, EmitIs
  <2> QED
    BY <1>2, <2>1 DEF Emitted
<1>5. FunctionOK(g, cs) /\ SameShape(e, g) /\ Longer(e.code, g.code) /\ Loose(g.code) = Loose(e.code)
  BY <1>1, <1>3, <1>4, StatementIs
<1>6. IsSeq(e.code) /\ IsSeq(g.code)
  BY <1>4, <1>5 DEF FunctionOK, CodeOK
<1>7. Inward(h, e, cs, u) /\ Inward(e, g, cs, {})
  BY <1>2, <1>4, <1>5, <1>6 DEF Inward, SameShape
<1>8. Inward(h, g, cs, u \cup {}) /\ g.depth = h.depth
  BY <1>4, <1>5, <1>7, InwardTransitive DEF SameShape
<1>9. Steps(fs, gs, cs, u) /\ Len(gs) = Len(fs) /\ gs[Len(fs)] = g
  <2>1. Inward(fs[Len(fs)], g, cs, u)
    BY <1>1, <1>8
  <2> QED
    BY <2>1, StepsInner
<1>10. ASSUME NEW k \in 1..Len(t), t[k].op \in Jumps PROVE JumpAt(g.code, Len(f.code) + k)
  <2>1. IsSeq(t) /\ Len(t) \in Nat /\ Len(h.code) \in Nat
    BY <1>2 DEF PieceOK, IsSeq
  <2>2. PICK c, d : c = h.code /\ d = e.code
    OBVIOUS
  <2>3. Len(d) = Len(c) + Len(t) /\ d[Len(c) + k] = t[k]
    BY <1>2, <1>4, <2>1, <2>2, ConcatIs
  <2>4. JumpAt(d, Len(c) + k)
    BY <1>10, <2>1, <2>2, <2>3 DEF JumpAt
  <2> QED
    BY <1>1, <1>5, <1>6, <2>2, <2>4, LongerIs
<1> QED
  BY <1>1, <1>6, <1>8, <1>9, <1>10 DEF Inward, Stepped

LEMMA ConditionIs ==
  ASSUME NEW t, t = <<Push("Push_Condition", Nothing), Unpatched("Jump_If_False"), Do("Pop")>>, NEW c, NEW n, NEW cs
  PROVE  /\ PieceOK(t, c, n, cs) /\ Loose(t) = {2} /\ Len(t) = 3 /\ t[2].op \in Jumps
<1>1. PICK i, j, k : i = Push("Push_Condition", Nothing) /\ j = Unpatched("Jump_If_False") /\ k = Do("Pop")
  OBVIOUS
<1>2. IsSeq(t) /\ Len(t) = 3 /\ t[1] = i /\ t[2] = j /\ t[3] = k
  BY <1>1, TuplesAre
<1>3. /\ IsInstruction(i) /\ i.op = "Push_Condition"
      /\ IsInstruction(j) /\ j.op = "Jump_If_False" /\ j.x = 0
      /\ IsInstruction(k) /\ k.op = "Pop"
  BY <1>1 DEF Push, Unpatched, Do, Instruction, IsInstruction
<1>4. \A l \in 1..Len(t) : l = 1 \/ l = 2 \/ l = 3
  BY <1>2
<1>5. PieceOK(t, c, n, cs)
  BY <1>2, <1>3, <1>4 DEF PieceOK, OperandOK, OfHeap, Jumps, Unset
<1>6. Loose(t) = {2}
  BY <1>2, <1>3, <1>4 DEF Loose, Dangling, Jumps, Unset
<1> QED
  BY <1>2, <1>3, <1>5, <1>6 DEF Jumps

-----------------------------------------------------------------------------
LEMMA BecomesIs ==
  ASSUME NEW in, ParserOK(in), NEW g, Becomes(g) PROVE functions' = Updated(functions, Len(functions), g)
  BY Zenon DEF Becomes, Updated, Innermost

LEMMA BeginBlockKept ==
  ASSUME CompiledOK(compiled), regular \in BOOLEAN, NEW in, ParserOK(in), BeginBlock PROVE Kept
<1>1. /\ FunctionsOK(functions, compiled) /\ FunctionOK(Current, compiled) /\ IsSeq(Current.code)
      /\ Current = functions[Len(functions)] /\ IsSeq(blocks) /\ Len(blocks) \in Nat
  BY ParserIs
<1>2. PICK g, type : g = BeginScope(Current) /\ type = BlockType
  OBVIOUS
<1>3. /\ FunctionOK(g, compiled) /\ g.depth = Current.depth + 1 /\ g.outsiders = Current.outsiders /\ g.code = Current.code
  BY <1>1, <1>2, BeginScopeIs
<1>4. Steps(functions, functions', compiled, {}) /\ functions'[Len(functions)] = g
  <2>1. functions' = Updated(functions, Len(functions), g)
    BY <1>2, BecomesIs DEF BeginBlock
  <2>2. Inward(Current, g, compiled, {})
    BY <1>1, <1>3, LongerSame DEF Inward
  <2> QED
    BY <1>1, <2>1, <2>2, StepsInner
<1>5. PICK o : o = [kind |-> "block", type |-> type, done |-> FALSE]
  OBVIOUS
<1>6. o.kind = "block" /\ o.type = type /\ HasFields(o) /\ ~Holds(o) /\ Scopes(o) = 1 /\ (Pushes(o) <=> type = "Clean")
  BY <1>5 DEF HasFields, Holds, Scopes, Pushes
<1>7. /\ open' = Append(open, o) /\ UNCHANGED <<breakpoints, compiled, status, dialect, continue_to, regular>> /\ status = "parsing"
      /\ blocks' = IF type = "Clean" THEN Append(blocks, "Clean") ELSE blocks
  BY <1>2, <1>5 DEF BeginBlock, Begin, MayStart, MayWrite
<1>8. IsSeq(blocks') /\ Len(blocks') = Len(blocks) + (IF Pushes(o) THEN 1 ELSE 0)
  <2>1. PICK bs : bs = Append(blocks, "Clean")
    OBVIOUS
  <2>2. IsSeq(bs) /\ Len(bs) = Len(blocks) + 1
    BY <1>1, <2>1, AppendIs
  <2>3. blocks' = IF type = "Clean" THEN bs ELSE blocks
    BY <1>7, <2>1
  <2> QED
    BY <1>1, <1>6, <2>2, <2>3
<1>9. PlaceOK(o, functions'[Len(functions)].code)
  BY <1>6 DEF PlaceOK
<1>10. PlainBegins({}, o)
  BY <1>3, <1>4, <1>6, <1>7, <1>8, <1>9 DEF PlainBegins
<1> QED
  BY <1>10, PlainBeginsKept

LEMMA BeginIfKept ==
  ASSUME CompiledOK(compiled), regular \in BOOLEAN, NEW in, ParserOK(in), BeginIf PROVE Kept
<1>1. /\ FunctionsOK(functions, compiled) /\ IsSeq(Current.code) /\ Current = functions[Len(functions)]
      /\ IsSeq(blocks) /\ Len(blocks) \in Nat
  BY ParserIs
<1>2. PICK t, f, c : /\ t = <<Push("Push_Condition", Nothing), Unpatched("Jump_If_False"), Do("Pop")>>
                     /\ f = Current /\ c = Len(Current.code)
  OBVIOUS
<1>3. PICK g : g = Statement(Emit(f, t))
  OBVIOUS
<1>4. PieceOK(t, f.code, Len(f.outsiders), compiled) /\ Loose(t) = {2} /\ Len(t) = 3 /\ t[2].op \in Jumps
  BY <1>2, ConditionIs
<1>5. /\ Steps(functions, functions', compiled, Shifted(c, Loose(t))) /\ functions'[Len(functions)] = g
      /\ g.depth = f.depth /\ JumpAt(g.code, c + 2)
  <2>1. functions' = Updated(functions, Len(functions), g)
    BY <1>2, <1>3, BecomesIs DEF BeginIf
  <2>2. 2 \in 1..Len(t)
    BY <1>4
  <2>3. Stepped(functions, functions', compiled, f, g, t)
    BY <1>1, <1>2, <1>3, <1>4, <2>1, PieceSteps
  <2> QED
    BY <1>2, <1>4, <2>2, <2>3 DEF Stepped
<1>6. Shifted(c, Loose(t)) = {c + 2}
  BY <1>4 DEF Shifted
<1>7. PICK o : o = [kind |-> "then", type |-> "If", jump |-> c + 2, done |-> FALSE]
  OBVIOUS
<1>8. o.kind = "then" /\ o.jump = c + 2 /\ HasFields(o) /\ Holds(o) /\ Scopes(o) = 0 /\ ~Pushes(o)
  BY <1>7 DEF HasFields, Holds, Scopes, Pushes
<1>9. /\ open' = Append(open, o) /\ UNCHANGED <<breakpoints, compiled, status, dialect, continue_to, regular, blocks>>
      /\ status = "parsing"
  <2>1. Here(Current) + 1 = c + 2
    BY <1>1, <1>2 DEF Here, IsSeq
  <2> QED
    BY <1>7, <2>1 DEF BeginIf, Begin, MayStart, MayWrite
<1>10. PlaceOK(o, functions'[Len(functions)].code)
  BY <1>5, <1>8 DEF PlaceOK
<1>11. IsSeq(blocks') /\ Len(blocks') = Len(blocks) + (IF Pushes(o) THEN 1 ELSE 0)
  BY <1>1, <1>8, <1>9
<1>12. functions'[Len(functions)].depth = Current.depth + Scopes(o)
  <2>1. Current.depth \in Nat
    BY ParserIs DEF FunctionOK
  <2> QED
    BY <1>2, <1>5, <1>8, <2>1
<1>13. PlainBegins({c + 2}, o)
  BY <1>5, <1>6, <1>8, <1>9, <1>10, <1>11, <1>12 DEF PlainBegins
<1> QED
  BY <1>13, PlainBeginsKept

LEMMA BeginWhileKept ==
  ASSUME CompiledOK(compiled), regular \in BOOLEAN, NEW in, ParserOK(in), BeginWhile PROVE Kept
<1>1. /\ FunctionsOK(functions, compiled) /\ IsSeq(Current.code) /\ Current = functions[Len(functions)]
      /\ IsSeq(blocks) /\ Len(blocks) \in Nat
  BY ParserIs
<1>2. PICK t, f, c : /\ t = <<Push("Push_Condition", Nothing), Unpatched("Jump_If_False"), Do("Pop")>>
                     /\ f = Current /\ c = Len(Current.code)
  OBVIOUS
<1>3. PICK g : g = Statement(Emit(f, t))
  OBVIOUS
<1>4. PieceOK(t, f.code, Len(f.outsiders), compiled) /\ Loose(t) = {2} /\ Len(t) = 3 /\ t[2].op \in Jumps
  BY <1>2, ConditionIs
<1>5. /\ Steps(functions, functions', compiled, Shifted(c, Loose(t))) /\ functions'[Len(functions)] = g
      /\ g.depth = f.depth /\ JumpAt(g.code, c + 2) /\ IsSeq(g.code) /\ Longer(f.code, g.code)
  <2>1. functions' = Updated(functions, Len(functions), g)
    BY <1>2, <1>3, BecomesIs DEF BeginWhile
  <2>2. 2 \in 1..Len(t)
    BY <1>4
  <2>3. Stepped(functions, functions', compiled, f, g, t)
    BY <1>1, <1>2, <1>3, <1>4, <2>1, PieceSteps
  <2> QED
    BY <1>2, <1>4, <2>2, <2>3 DEF Stepped
<1>6. Shifted(c, Loose(t)) = {c + 2} /\ c \in Nat
  BY ZenonT(40), <1>1, <1>2, <1>4 DEF Shifted, IsSeq
<1>7. Target(g.code, c + 1)
  <2>1. Target(f.code, c + 1)
    BY <1>2, <1>6 DEF Target
  <2> QED
    BY <1>1, <1>2, <1>5, <2>1, LongerIs
<1>8. PICK o : o = [kind |-> "while", type |-> "None", start |-> c + 1, jump |-> c + 2, done |-> FALSE]
  OBVIOUS
<1>9. o.kind = "while" /\ o.jump = c + 2 /\ o.start = c + 1 /\ HasFields(o) /\ Holds(o) /\ Scopes(o) = 0 /\ Pushes(o)
  BY <1>8 DEF HasFields, Holds, Scopes, Pushes
<1>10. /\ open' = Append(open, o) /\ UNCHANGED <<breakpoints, compiled, status, dialect, continue_to, regular>>
       /\ status = "parsing" /\ blocks' = Append(blocks, "Loop")
  <2>1. Here(Current) + 1 = c + 2 /\ Here(Current) = c + 1
    BY <1>1, <1>2 DEF Here, IsSeq
  <2> QED
    BY <1>8, <2>1 DEF BeginWhile, Begin, MayStart, MayWrite
<1>11. PlaceOK(o, functions'[Len(functions)].code)
  BY <1>5, <1>7, <1>9 DEF PlaceOK
<1>12. IsSeq(blocks') /\ Len(blocks') = Len(blocks) + (IF Pushes(o) THEN 1 ELSE 0)
  BY <1>1, <1>9, <1>10, AppendIs
<1>13. functions'[Len(functions)].depth = Current.depth + Scopes(o)
  <2>1. Current.depth \in Nat
    BY ParserIs DEF FunctionOK
  <2> QED
    BY <1>2, <1>5, <1>9, <2>1
<1>14. PlainBegins({c + 2}, o)
  BY <1>5, <1>6, <1>9, <1>10, <1>11, <1>12, <1>13 DEF PlainBegins
<1> QED
  BY <1>14, PlainBeginsKept

-----------------------------------------------------------------------------
(* Functions, methods and classes begin.                                   *)

LEMMA ParameterListIs == ASSUME NEW ps \in ParameterLists PROVE IsSeq(ps) /\ Len(ps) <= 1
<1>1. CASE ps = <<>>
  BY <1>1, EmptyIs
<1>2. ASSUME NEW n, ps = <<n>> PROVE IsSeq(ps) /\ Len(ps) <= 1
  BY <1>2, TuplesAre
<1> QED
  BY <1>1, <1>2 DEF ParameterLists

OneMore(fs, gs, g, cs) ==
  FunctionsOK(gs, cs) /\ Len(gs) = Len(fs) + 1 /\ gs[Len(fs) + 1] = g /\ \A l \in 1..Len(fs) : gs[l] = fs[l]
LEMMA MoreFunctions ==
  ASSUME NEW fs, NEW cs, FunctionsOK(fs, cs), NEW g, FunctionOK(g, cs), g.outsiders = <<>>, NEW gs, gs = Append(fs, g)
  PROVE  OneMore(fs, gs, g, cs)
<1>1. PICK n : n = Len(fs)
  OBVIOUS
<1>2. /\ IsSeq(fs) /\ n \in Nat /\ n # 0 /\ \A l \in 1..n : FunctionOK(fs[l], cs)
      /\ fs[1].outsiders = <<>> /\ \A l \in 2..n : FitIn(fs[l].outsiders, Len(fs[l - 1].outsiders))
  BY <1>1 DEF FunctionsOK, IsSeq
<1>3. IsSeq(gs) /\ Len(gs) = n + 1 /\ gs[n + 1] = g /\ \A l \in 1..n : gs[l] = fs[l]
  BY <1>1, <1>2, AppendIs
<1>4. \A l \in 1..n+1 : l = n + 1 \/ l \in 1..n
  BY <1>2
<1>5. ASSUME NEW l \in 2..n+1 PROVE FitIn(gs[l].outsiders, Len(gs[l - 1].outsiders))
  <2>1. CASE l = n + 1
    <3>1. Len(<<>>) = 0
      BY EmptyIs
    <3> QED
      BY <1>3, <2>1, <3>1 DEF FitIn
  <2>2. CASE l # n + 1
    <3>1. l \in 2..n /\ l \in 1..n /\ l - 1 \in 1..n
      BY <1>2, <2>2
    <3> QED
      BY <1>2, <1>3, <3>1
  <2> QED
    BY <2>1, <2>2
<1>6. 1 \in 1..n
  BY <1>2
<1> QED
  BY <1>1, <1>2, <1>3, <1>4, <1>5, <1>6 DEF FunctionsOK, OneMore

(* What the two have in common.                                            *)
FunctionBegins(f, g, o) ==
  /\ Inward(Current, f, compiled, {}) /\ f.depth = Current.depth
  /\ FunctionOK(g, compiled) /\ g.outsiders = <<>> /\ g.code = <<>> /\ g.depth = 2
  /\ functions' = Append(Updated(functions, Len(functions), f), g)
  /\ open' = Append(open, o) /\ o.kind \in {"function", "method"} /\ {"kind", "type", "done"} \subseteq DOMAIN o
  /\ UNCHANGED <<blocks, breakpoints, continue_to, compiled, status, dialect>> /\ status = "parsing"
  /\ regular' \in BOOLEAN /\ (regular' => regular)

LEMMA FunctionBeginsKept ==
  ASSUME CompiledOK(compiled), NEW in, ParserOK(in), NEW f, NEW g, NEW o, FunctionBegins(f, g, o) PROVE Kept
<1>1. /\ FunctionsOK(functions, compiled) /\ Current = functions[Len(functions)] /\ Len(functions) \in Nat
      /\ in[Len(open) + 1].level = Len(functions) /\ in[Len(open) + 1].depth = Current.depth
      /\ Len(functions) \in 1..Len(functions) /\ IsSeq(blocks) /\ Len(blocks) \in Nat
  BY ParserIs
<1>2. PICK gs : gs = Updated(functions, Len(functions), f)
  OBVIOUS
<1>3. Steps(functions, gs, compiled, {}) /\ Len(gs) = Len(functions) /\ gs[Len(functions)] = f
  BY <1>1, <1>2, StepsInner DEF FunctionBegins
<1>4. FunctionsOK(gs, compiled)
  BY <1>3 DEF Steps
<1>5. PICK hs : hs = functions'
  OBVIOUS
<1>6. FunctionsOK(hs, compiled) /\ Len(hs) = Len(gs) + 1 /\ hs[Len(gs) + 1] = g /\ \A l \in 1..Len(gs) : hs[l] = gs[l]
  <2>1. hs = Append(gs, g) /\ FunctionOK(g, compiled) /\ g.outsiders = <<>>
    BY <1>2, <1>5 DEF FunctionBegins
  <2>2. OneMore(gs, hs, g, compiled)
    BY <1>4, <2>1, MoreFunctions
  <2> QED
    BY <2>2 DEF OneMore
<1>7. Opens(o) /\ ~Pushes(o) /\ ~Holds(o) /\ HasFields(o) /\ o.kind # "for"
  BY DEF FunctionBegins, Opens, Pushes, Holds, HasFields
<1>8. ContextOK(o, in[Len(open) + 1], hs)
  <2>1. hs[Len(functions)].depth = Current.depth
    BY <1>1, <1>3, <1>6 DEF FunctionBegins
  <2> QED
    BY <1>1, <1>7, <2>1 DEF ContextOK, FunctionBegins
<1>9. /\ Len(gs) <= Len(hs) /\ Len(hs) = Len(functions) + (IF Opens(o) THEN 1 ELSE 0)
      /\ hs[Len(hs)].depth = (IF Opens(o) THEN 2 ELSE Current.depth + Scopes(o))
  BY <1>1, <1>3, <1>6, <1>7 DEF FunctionBegins
<1>10. \A l \in Len(gs)+1..Len(hs) : Loose(hs[l].code) = {}
  <2>1. \A l \in Len(gs)+1..Len(hs) : l = Len(gs) + 1
    BY <1>1, <1>3, <1>6
  <2>2. Loose(<<>>) = {}
    BY EmptyIs DEF Loose
  <2> QED
    BY <1>6, <2>1, <2>2 DEF FunctionBegins
<1>11. IsSeq(blocks') /\ Len(blocks') = Len(blocks) + (IF Pushes(o) THEN 1 ELSE 0)
  BY <1>1, <1>7 DEF FunctionBegins
<1>12. Begins(in, {}, gs, o)
  BY <1>3, <1>5, <1>6, <1>7, <1>8, <1>9, <1>10, <1>11 DEF Begins, FunctionBegins
<1> QED
  BY <1>12, BeginsKept

LEMMA DeclaredIs ==
  ASSUME NEW f, NEW cs, FunctionOK(f, cs), NEW n, ~Refused(f, n), f.depth > 0, NEW decl, NEW g, g = Declare(f, n, f.depth, decl)
  PROVE  Inward(f, g, cs, {}) /\ g.depth = f.depth /\ Len(g.locals) = Len(f.locals) + 1
<1>1. Len(f.locals) < MaxLocals /\ IsSeq(f.code)
  <2>1. Len(f.locals) # MaxLocals /\ Len(f.locals) \in 1..MaxLocals /\ MaxLocals \in Nat
    BY CompilerAssumption DEF Refused, Full, FunctionOK, LocalsOK
  <2> QED
    BY <2>1 DEF FunctionOK, CodeOK
<1>2. /\ FunctionOK(g, cs) /\ g.depth = f.depth /\ g.outsiders = f.outsiders /\ g.code = f.code
      /\ Len(g.locals) = Len(f.locals) + 1
  <2>1. PICK d : d = f.depth
    OBVIOUS
  <2>2. g = Declare(f, n, d, decl)
    BY <2>1
  <2> QED
    BY <1>1, <2>2, DeclareIs
<1> QED
  BY <1>1, <1>2, LongerSame DEF Inward

LEMMA BeginFunctionKept ==
  ASSUME CompiledOK(compiled), regular \in BOOLEAN, NEW in, ParserOK(in), NEW n, NEW ps \in ParameterLists, BeginFunction(n, ps)
  PROVE  Kept
<1>1. FunctionOK(Current, compiled) /\ IsSeq(Current.code) /\ Innermost = Len(functions)
  BY ParserIs
<1>2. PICK local, decl : /\ local = (Current.depth > 0) /\ decl = IF Current.depth > 0 THEN NewDecl ELSE Nothing
  OBVIOUS
<1>3. PICK f : f = IF Current.depth > 0 THEN Declare(Current, n, Current.depth, decl) ELSE Current
  OBVIOUS
<1>4. Inward(Current, f, compiled, {}) /\ f.depth = Current.depth
  <2>1. CASE Current.depth > 0
    <3>1. ~Refused(Current, n)
      BY DEF BeginFunction
    <3>2. f = Declare(Current, n, Current.depth, decl)
      BY <1>3, <2>1
    <3> QED
      BY <1>1, <2>1, <3>1, <3>2, DeclaredIs
  <2>2. CASE ~(Current.depth > 0)
    BY <1>1, <1>3, <2>2, LongerSame DEF Inward
  <2> QED
    BY <2>1, <2>2
<1>5. PICK g : g = WithParameters(NewFunction("Function", Nothing), ps, NewDecl)
  OBVIOUS
<1>6. FunctionOK(g, compiled) /\ g.depth = 2 /\ g.outsiders = <<>> /\ g.code = <<>>
  BY <1>5, ParameterListIs, ParametersAre
<1>7. PICK o : o = [kind |-> "function", type |-> "Function", name |-> n, decl |-> decl,
                    height |-> Len(Current.locals), arity |-> Len(ps), done |-> FALSE]
  OBVIOUS
<1>8. o.kind = "function" /\ {"kind", "type", "done"} \subseteq DOMAIN o
  BY <1>7
<1>9. /\ open' = Append(open, o)
      /\ UNCHANGED <<blocks, breakpoints, continue_to, compiled, status, dialect>> /\ status = "parsing"
  BY <1>2, <1>7, Zenon DEF BeginFunction, Begin, MayStart, MayWrite
<1>10. functions' = Append(Updated(functions, Len(functions), f), g)
  BY <1>1, <1>2, <1>3, <1>5, Zenon DEF BeginFunction, Updated
<1>11. regular' \in BOOLEAN /\ (regular' => regular)
  <2>1. PICK b : b = (regular /\ ~((Current.depth > 0) /\ InBare) /\ ~Renamed({n} \cup ToSet(ps)))
    OBVIOUS
  <2>2. regular' = b
    BY <2>1, Zenon DEF BeginFunction
  <2> QED
    BY <2>1, <2>2
<1>12. FunctionBegins(f, g, o)
  BY <1>4, <1>6, <1>8, <1>9, <1>10, <1>11 DEF FunctionBegins
<1> QED
  BY <1>12, FunctionBeginsKept

LEMMA BeginMethodKept ==
  ASSUME CompiledOK(compiled), regular \in BOOLEAN, NEW in, ParserOK(in), NEW kind, NEW m, NEW ps \in ParameterLists,
         BeginMethod(kind, m, ps)
  PROVE  Kept
<1>1. /\ FunctionOK(Current, compiled) /\ IsSeq(Current.code) /\ Innermost = Len(functions)
      /\ FunctionsOK(functions, compiled) /\ Current = functions[Len(functions)]
  BY ParserIs
<1>2. Inward(Current, Current, compiled, {})
  BY <1>1, LongerSame DEF Inward
<1>3. Updated(functions, Len(functions), Current) = functions
  <2>1. IsSeq(functions)
    BY <1>1 DEF FunctionsOK
  <2>2. PICK gs : gs = Updated(functions, Len(functions), Current)
    OBVIOUS
  <2>3. /\ IsSeq(gs) /\ Len(gs) = Len(functions)
        /\ \A j \in 1..Len(functions) : gs[j] = IF j = Len(functions) THEN Current ELSE functions[j]
    BY <2>1, <2>2, UpdateIs
  <2>4. \A j \in 1..Len(functions) : gs[j] = functions[j]
    BY <1>1, <2>3
  <2>5. gs = functions
    BY <2>1, <2>3, <2>4, SameSeq
  <2> QED
    BY <2>2, <2>5
<1>4. PICK g : g = WithParameters(NewFunction(kind, NewDecl), ps, NewDecl)
  OBVIOUS
<1>5. FunctionOK(g, compiled) /\ g.depth = 2 /\ g.outsiders = <<>> /\ g.code = <<>>
  BY <1>4, ParameterListIs, ParametersAre
<1>6. PICK name : name = IF kind = "Method" THEN m ELSE "konstrutor"
  OBVIOUS
<1>7. PICK o : o = [kind |-> "method", type |-> "Function", arity |-> Len(ps), name |-> name, done |-> FALSE]
  OBVIOUS
<1>8. o.kind = "method" /\ {"kind", "type", "done"} \subseteq DOMAIN o
  BY <1>7
<1>9. /\ open' = Append(open, o)
      /\ UNCHANGED <<blocks, breakpoints, continue_to, compiled, status, dialect>> /\ status = "parsing"
  BY <1>6, <1>7, Zenon DEF BeginMethod, Begin, MayWrite
<1>10. functions' = Append(Updated(functions, Len(functions), Current), g)
  BY <1>3, <1>4, Zenon DEF BeginMethod
<1>11. regular' = (regular /\ ~Renamed(ToSet(ps)))
  BY Zenon DEF BeginMethod
<1>12. regular' \in BOOLEAN /\ (regular' => regular)
  BY <1>11
<1>13. FunctionBegins(Current, g, o)
  BY <1>2, <1>5, <1>8, <1>9, <1>10, <1>12 DEF FunctionBegins
<1> QED
  BY <1>13, FunctionBeginsKept

-----------------------------------------------------------------------------
LEMMA FitsSteps ==
  ASSUME NEW p, NEW fs, NEW cs, Fits(p, fs, cs)
  PROVE  /\ Steps(fs, p.functions, cs, {}) /\ Len(p.functions) = Len(fs) /\ Len(fs) \in Nat /\ Len(fs) # 0
         /\ p.functions[Len(fs)].depth = fs[Len(fs)].depth
         /\ Len(p.functions[Len(fs)].locals) = Len(fs[Len(fs)].locals)
<1>1. FunctionsOK(fs, cs) /\ Grown(fs, p.functions, cs)
  BY DEF Fits
<1>2. Steps(fs, p.functions, cs, {}) /\ \A l \in 1..Len(fs) : p.functions[l].depth = fs[l].depth
  BY <1>1, StepsGrown
<1>3. Len(fs) \in Nat /\ Len(fs) # 0 /\ Len(fs) \in 1..Len(fs)
  BY <1>1, InnermostIs
<1>4. Len(p.functions) = Len(fs) /\ Captures(fs[Len(fs)], p.functions[Len(fs)])
  BY <1>1, <1>3 DEF Grown
<1> QED
  BY <1>2, <1>3, <1>4 DEF Captures, SameNames

LEMMA ClassedIs ==
  ASSUME NEW p, NEW fs, NEW cs, Fits(p, fs, cs), Len(fs) = Innermost, NEW gs, gs = Classed(p)
  PROVE  Steps(fs, gs, cs, {}) /\ gs[Len(fs)].depth = fs[Len(fs)].depth
<1>1. PICK hs, t, m : hs = p.functions /\ t = p.code /\ m = Len(fs)
  OBVIOUS
<1>2. Steps(fs, hs, cs, {}) /\ Len(hs) = m /\ hs[m].depth = fs[m].depth
  BY <1>1, FitsSteps
<1>3. FunctionsOK(hs, cs) /\ Straight(t, Len(Last(hs).outsiders))
  BY <1>1, <1>2 DEF Steps, Fits
<1>4. PICK f : f = hs[Len(hs)]
  OBVIOUS
<1>5. gs = Updated(hs, Len(hs), Statement(Emit(f, t)))
  <2>1. gs = [hs EXCEPT ![m] = Statement(Emit(@, t))]
    BY <1>1, Zenon DEF Classed
  <2>2. gs = [hs EXCEPT ![m] = Statement(Emit(hs[m], t))]
    BY <2>1
  <2>3. gs = Updated(hs, m, Statement(Emit(hs[m], t)))
    BY <2>2, Zenon DEF Updated
  <2> QED
    BY <1>2, <1>4, <2>3
<1>6. Steps(hs, gs, cs, {}) /\ gs[Len(hs)].depth = f.depth
  BY <1>3, <1>4, <1>5, StatementSteps
<1>7. Steps(fs, gs, cs, {} \cup {})
  BY <1>2, <1>6, StepsTransitive
<1> QED
  BY <1>1, <1>2, <1>4, <1>6, <1>7

(* The superclass is a local of a scope of its own.                        *)
ScopedLocal(f, t, n, decl) == Declare(BeginScope(Emit(f, t)), n, f.depth + 1, decl)
LEMMA ScopedLocalIs ==
  ASSUME NEW f, NEW cs, FunctionOK(f, cs), Len(f.locals) < MaxLocals, NEW t, Straight(t, Len(f.outsiders)), NEW n, NEW decl,
         NEW g, g = ScopedLocal(f, t, n, decl)
  PROVE  Inward(f, g, cs, {}) /\ g.depth = f.depth + 1
<1>1. PICK e : e = Emit(f, t)
  OBVIOUS
<1>2. FunctionOK(e, cs) /\ SameShape(f, e) /\ Longer(f.code, e.code) /\ Loose(e.code) = Loose(f.code)
  BY <1>1, EmitStraight
<1>3. PICK b : b = BeginScope(e)
  OBVIOUS
<1>4. FunctionOK(b, cs) /\ b.depth = e.depth + 1 /\ b.locals = e.locals /\ b.outsiders = e.outsiders /\ b.code = e.code
  BY <1>2, <1>3, BeginScopeIs
<1>5. PICK d : d = f.depth + 1
  OBVIOUS
<1>6. g = Declare(b, n, d, decl) /\ Len(b.locals) < MaxLocals
  BY <1>1, <1>2, <1>3, <1>4, <1>5 DEF ScopedLocal, SameShape
<1>7. FunctionOK(g, cs) /\ g.depth = b.depth /\ g.outsiders = b.outsiders /\ g.code = b.code
  BY <1>4, <1>6, DeclareIs
<1>8. IsSeq(f.code)
  BY DEF FunctionOK, CodeOK
<1> QED
  BY <1>2, <1>4, <1>7, <1>8 DEF Inward, SameShape

LEMMA SuperclassedIs ==
  ASSUME NEW p, NEW fs, NEW cs, IsSeq(cs), Fits(p, fs, cs), Len(fs) = Innermost, Len(fs[Len(fs)].locals) < MaxLocals,
         NEW n, NEW s, NEW decl, NEW q, q = Superclassed(p, n, s, decl)
  PROVE  \E gs : /\ Steps(fs, gs, cs, {}) /\ gs[Len(fs)].depth = fs[Len(fs)].depth + 1 /\ Fits(q, gs, cs)
<1>1. PICK hs, t, m : hs = p.functions /\ t = p.code /\ m = Len(fs)
  OBVIOUS
<1>2. Steps(fs, hs, cs, {}) /\ Len(hs) = m /\ hs[m].depth = fs[m].depth /\ Len(hs[m].locals) < MaxLocals
  BY <1>1, FitsSteps
<1>3. FunctionsOK(hs, cs) /\ Straight(t, Len(Last(hs).outsiders))
  BY <1>1, <1>2 DEF Steps, Fits
<1>4. PICK f : f = hs[m]
  OBVIOUS
<1>5. FunctionOK(f, cs) /\ Straight(t, Len(f.outsiders))
  BY <1>2, <1>3, <1>4, InnermostIs
<1>6. PICK g : g = ScopedLocal(f, t, Superclass(s), decl)
  OBVIOUS
<1>7. Inward(f, g, cs, {}) /\ g.depth = f.depth + 1
  <2>1. Len(f.locals) < MaxLocals
    BY <1>2, <1>4
  <2> QED
    BY <1>5, <1>6, <2>1, ScopedLocalIs
<1>8. PICK gs : gs = Updated(hs, m, g)
  OBVIOUS
<1>9. Steps(hs, gs, cs, {}) /\ Len(gs) = m /\ gs[m] = g
  <2>1. Inward(hs[Len(hs)], g, cs, {}) /\ gs = Updated(hs, Len(hs), g)
    BY <1>2, <1>4, <1>7, <1>8
  <2>2. Steps(hs, gs, cs, {}) /\ Len(gs) = Len(hs) /\ gs[Len(hs)] = g
    BY <1>3, <2>1, StepsInner
  <2> QED
    BY <1>2, <2>2
<1>10. Steps(fs, gs, cs, {} \cup {})
  BY <1>2, <1>9, StepsTransitive
<1>11. q = Doing(Reading(Nothing_(gs), n, Nothing), Instruction("Inheritance", Nothing, Nothing, Nothing))
  <2>1. g = Declare(BeginScope(Emit(hs[m], t)), Superclass(s), hs[m].depth + 1, decl)
    BY <1>4, <1>6, Zenon DEF ScopedLocal
  <2>2. gs = [hs EXCEPT ![m] = Declare(BeginScope(Emit(hs[m], t)), Superclass(s), hs[m].depth + 1, decl)]
    BY <1>8, <2>1, Zenon DEF Updated
  <2>3. gs = [hs EXCEPT ![m] = Declare(BeginScope(Emit(@, t)), Superclass(s), @.depth + 1, decl)]
    BY <2>2
  <2>4. gs = [p.functions EXCEPT ![Innermost] = Declare(BeginScope(Emit(@, p.code)), Superclass(s), @.depth + 1, decl)]
    BY <1>1, <2>3
  <2> QED
    BY <2>4, Zenon DEF Superclassed, Do
<1>12. FunctionsOK(gs, cs)
  BY <1>9 DEF Steps
<1>13. PICK b : b = Nothing_(gs)
  OBVIOUS
<1>14. Fits(b, gs, cs)
  BY <1>12, <1>13, NothingFits
<1>15. PICK r : r = Reading(b, n, Nothing)
  OBVIOUS
<1>16. Fits(r, gs, cs)
  BY <1>14, <1>15, ReadingFits
<1>17. Fits(q, gs, cs)
  <2>1. q = Doing(r, Instruction("Inheritance", Nothing, Nothing, Nothing))
    BY <1>11, <1>13, <1>15
  <2> QED
    BY <1>16, <2>1, OrdinaryFits, OrdinariesAre
<1>18. gs[Len(fs)].depth = fs[Len(fs)].depth + 1
  BY <1>1, <1>2, <1>4, <1>7, <1>9
<1> QED
  BY <1>10, <1>17, <1>18

LEMMA WithSuperclassIs ==
  ASSUME NEW fs, NEW cs, IsSeq(cs), FunctionsOK(fs, cs), Len(fs) = Innermost,
         NEW n, NEW s, s # NoName => Len(fs[Len(fs)].locals) < MaxLocals, NEW decl, NEW q, q = WithSuperclass(fs, n, s, decl)
  PROVE  \E gs : /\ Steps(fs, gs, cs, {}) /\ Fits(q, gs, cs)
                 /\ gs[Len(fs)].depth = fs[Len(fs)].depth + (IF s # NoName THEN 1 ELSE 0)
<1>0. fs[Len(fs)].depth \in Nat
  BY InnermostIs DEF FunctionOK
<1>1. PICK b : b = Nothing_(fs)
  OBVIOUS
<1>2. Fits(b, fs, cs)
  BY <1>1, NothingFits
<1>3. CASE s = NoName
  <2>1. q = b
    BY <1>1, <1>3 DEF WithSuperclass
  <2>2. Steps(fs, fs, cs, {})
    BY StepsSame
  <2> QED
    BY <1>0, <1>2, <1>3, <2>1, <2>2
<1>4. CASE s # NoName
  <2>1. PICK r : r = Reading(b, s, decl)
    OBVIOUS
  <2>2. Fits(r, fs, cs)
    BY <1>2, <2>1, ReadingFits
  <2>3. q = Superclassed(r, n, s, decl)
    BY <1>1, <1>4, <2>1, Zenon DEF WithSuperclass
  <2>4. PICK gs : Steps(fs, gs, cs, {}) /\ gs[Len(fs)].depth = fs[Len(fs)].depth + 1 /\ Fits(q, gs, cs)
    BY <1>4, <2>2, <2>3, SuperclassedIs
  <2> QED
    BY <1>4, <2>4
<1> QED
  BY <1>3, <1>4

(* The class, and the name it has.                                         *)
ClassNamed(f, n, decl) ==
  IF f.depth > 0
  THEN Declare(Emit(f, <<Instruction("Class", n, Nothing, decl)>>), n, f.depth, decl)
  ELSE Emit(f, <<Instruction("Class", n, Nothing, Nothing), Operand("Define_Global", n)>>)

LEMMA ClassNamedIs ==
  ASSUME NEW f, NEW cs, FunctionOK(f, cs), NEW n, ~Refused(f, n), NEW decl, NEW g, g = ClassNamed(f, n, decl)
  PROVE  Inward(f, g, cs, {}) /\ g.depth = f.depth
<1>0. f.depth \in Nat /\ IsSeq(f.code)
  BY DEF FunctionOK, CodeOK
<1>1. CASE f.depth > 0
  <2>1. Len(f.locals) < MaxLocals
    <3>1. Len(f.locals) # MaxLocals /\ Len(f.locals) \in 1..MaxLocals /\ MaxLocals \in Nat
      BY <1>1, CompilerAssumption DEF Refused, Full, FunctionOK, LocalsOK
    <3> QED
      BY <3>1
  <2>2. PICK t : t = <<Instruction("Class", n, Nothing, decl)>>
    OBVIOUS
  <2>3. Straight(t, Len(f.outsiders))
    BY <2>2, OrdinaryIs, OrdinariesAre
  <2>4. PICK e : e = Emit(f, t)
    OBVIOUS
  <2>5. FunctionOK(e, cs) /\ SameShape(f, e) /\ Longer(f.code, e.code) /\ Loose(e.code) = Loose(f.code)
    BY <2>3, <2>4, EmitStraight
  <2>6. PICK d : d = f.depth
    OBVIOUS
  <2>7. g = Declare(e, n, d, decl) /\ Len(e.locals) < MaxLocals
    BY <1>1, <2>1, <2>2, <2>4, <2>5, <2>6 DEF ClassNamed, SameShape
  <2>8. FunctionOK(g, cs) /\ g.depth = e.depth /\ g.outsiders = e.outsiders /\ g.code = e.code
    BY <2>5, <2>7, DeclareIs
  <2> QED
    BY <1>0, <2>5, <2>8 DEF Inward, SameShape
<1>2. CASE ~(f.depth > 0)
  <2>1. PICK a, b : a = Instruction("Class", n, Nothing, Nothing) /\ b = Operand("Define_Global", n)
    OBVIOUS
  <2>2. Straight(<<a>>, Len(f.outsiders)) /\ Straight(<<b>>, Len(f.outsiders))
    BY <2>1, OrdinaryIs, OrdinaryCode, OrdinariesAre
  <2>3. PICK t : t = <<a, b>>
    OBVIOUS
  <2>4. Straight(t, Len(f.outsiders))
    BY <2>2, <2>3, StraightPair
  <2>5. g = Emit(f, t)
    BY <1>2, <2>1, <2>3 DEF ClassNamed
  <2>6. FunctionOK(g, cs) /\ SameShape(f, g) /\ Longer(f.code, g.code) /\ Loose(g.code) = Loose(f.code)
    BY <2>4, <2>5, EmitStraight
  <2> QED
    BY <1>0, <2>6 DEF Inward, SameShape
<1> QED
  BY <1>1, <1>2

LEMMA BeginClassKept ==
  ASSUME CompiledOK(compiled), regular \in BOOLEAN, NEW in, ParserOK(in), NEW n, NEW s, BeginClass(n, s)
  PROVE  Kept
<1>1. /\ FunctionOK(Current, compiled) /\ IsSeq(Current.code) /\ Innermost = Len(functions) /\ IsSeq(compiled)
      /\ FunctionsOK(functions, compiled) /\ Current = functions[Len(functions)] /\ IsSeq(blocks) /\ Len(blocks) \in Nat
      /\ Current.depth \in Nat
  BY ParserIs DEF CompiledOK, FunctionOK
<1>2. PICK f : f = ClassNamed(Current, n, NewDecl)
  OBVIOUS
<1>3. Inward(Current, f, compiled, {}) /\ f.depth = Current.depth
  <2>1. ~Refused(Current, n)
    BY DEF BeginClass
  <2> QED
    BY <1>1, <1>2, <2>1, ClassNamedIs
<1>4. PICK fs : fs = Updated(functions, Len(functions), f)
  OBVIOUS
<1>5. Steps(functions, fs, compiled, {}) /\ Len(fs) = Len(functions) /\ fs[Len(functions)] = f
  <2>1. Inward(functions[Len(functions)], f, compiled, {})
    BY <1>1, <1>3
  <2> QED
    BY <1>1, <1>4, <2>1, StepsInner
<1>6. PICK q : q = Reading(WithSuperclass(fs, n, s, NewDecl + 1), n, Nothing)
  OBVIOUS
<1>7. functions' = Classed(q) /\ (s # NoName => Len(f.locals) < MaxLocals)
  <2>1. ClassNamed(Current, n, NewDecl) =
          IF Current.depth > 0
          THEN Declare(Emit(Current, <<Instruction("Class", n, Nothing, IF Current.depth > 0 THEN NewDecl ELSE Nothing)>>),
                       n, Current.depth, NewDecl)
          ELSE Emit(Current, <<Instruction("Class", n, Nothing, IF Current.depth > 0 THEN NewDecl ELSE Nothing),
                               Operand("Define_Global", n)>>)
    <3>1. CASE Current.depth > 0
      BY <3>1, Zenon DEF ClassNamed
    <3>2. CASE ~(Current.depth > 0)
      BY <3>2, Zenon DEF ClassNamed
    <3> QED
      BY <3>1, <3>2
  <2> QED
    BY <1>1, <1>2, <1>4, <1>6, <2>1, Zenon DEF BeginClass, Updated
<1>8. PICK w : w = WithSuperclass(fs, n, s, NewDecl + 1)
  OBVIOUS
<1>9. PICK gs : /\ Steps(fs, gs, compiled, {}) /\ Fits(w, gs, compiled)
                /\ gs[Len(fs)].depth = fs[Len(fs)].depth + (IF s # NoName THEN 1 ELSE 0)
  <2>1. PICK d : d = NewDecl + 1
    OBVIOUS
  <2>2. FunctionsOK(fs, compiled) /\ Len(fs) = Innermost /\ (s # NoName => Len(fs[Len(fs)].locals) < MaxLocals)
    BY <1>1, <1>5, <1>7 DEF Steps
  <2>3. w = WithSuperclass(fs, n, s, d)
    BY <1>8, <2>1
  <2> QED
    BY <1>1, <2>2, <2>3, WithSuperclassIs
<1>10. Fits(q, gs, compiled)
  BY <1>1, <1>6, <1>8, <1>9, ReadingFits
<1>11. Len(gs) = Len(functions)
  BY <1>5, <1>9 DEF Steps
<1>12. PICK hs : hs = functions'
  OBVIOUS
<1>13. Steps(gs, hs, compiled, {}) /\ hs[Len(gs)].depth = gs[Len(gs)].depth
  BY <1>1, <1>7, <1>10, <1>11, <1>12, ClassedIs
<1>14. Steps(functions, hs, compiled, {})
  <2>1. Steps(functions, gs, compiled, {} \cup {})
    BY <1>5, <1>9, StepsTransitive
  <2>2. {} \cup {} = {}
    OBVIOUS
  <2>3. Steps(functions, gs, compiled, {})
    BY <2>1, <2>2
  <2>4. Steps(functions, hs, compiled, {} \cup {})
    BY <1>13, <2>3, StepsTransitive
  <2> QED
    BY <2>2, <2>4
<1>15. hs[Len(functions)].depth = Current.depth + (IF s # NoName THEN 1 ELSE 0)
  BY <1>3, <1>5, <1>9, <1>11, <1>13
<1>16. PICK o : o = [kind |-> "class", type |-> "Class", superclass |-> s # NoName,
                     inherits |-> s, done |-> FALSE]
  OBVIOUS
<1>17. o.kind = "class" /\ (o.superclass <=> s # NoName) /\ HasFields(o) /\ ~Holds(o) /\ ~Pushes(o)
  BY <1>16 DEF HasFields, Holds, Pushes
<1>18. Scopes(o) = IF s # NoName THEN 1 ELSE 0
  BY <1>17 DEF Scopes
<1>19. /\ open' = Append(open, o)
       /\ UNCHANGED <<blocks, breakpoints, continue_to, compiled, status, dialect>> /\ status = "parsing"
  BY <1>16, Zenon DEF BeginClass, Begin, MayStart, MayWrite
<1>20. regular' \in BOOLEAN /\ (regular' => regular)
  <2>1. PICK b : b = (regular /\ ~((Current.depth > 0) /\ InBare) /\ ~Renamed({n}) /\ s \notin written.varying)
    OBVIOUS
  <2>2. regular' = b
    BY <2>1, Zenon DEF BeginClass
  <2> QED
    BY <2>1, <2>2
<1>21. PlaceOK(o, functions'[Len(functions)].code)
  BY <1>17 DEF PlaceOK
<1>22. IsSeq(blocks') /\ Len(blocks') = Len(blocks) + (IF Pushes(o) THEN 1 ELSE 0)
  BY <1>1, <1>17, <1>19
<1>23. PlainBegins({}, o)
  BY <1>12, <1>14, <1>15, <1>17, <1>18, <1>19, <1>20, <1>21, <1>22 DEF PlainBegins
<1> QED
  BY <1>23, PlainBeginsKept

-----------------------------------------------------------------------------
(* 'pa': its variable, its condition, its increment and the copy of the    *)
(* variable.                                                               *)
LEMMA InitializingIs ==
  ASSUME NEW f, NEW cs, FunctionOK(f, cs), NEW n, n # NoName => Len(f.locals) + 2 <= MaxLocals,
         NEW g, g = Initializing(BeginScope(f), n)
  PROVE  Inward(f, g, cs, {}) /\ g.depth = f.depth + 1 /\ (n # NoName => Len(g.locals) + 1 <= MaxLocals)
<1>1. PICK b : b = BeginScope(f)
  OBVIOUS
<1>2. FunctionOK(b, cs) /\ b.depth = f.depth + 1 /\ b.locals = f.locals /\ b.outsiders = f.outsiders /\ b.code = f.code
  BY <1>1, BeginScopeIs
<1>3. IsSeq(f.code) /\ f.depth \in Nat /\ Len(f.locals) \in Nat /\ Len(f.locals) # 0 /\ MaxLocals \in Nat
  BY CompilerAssumption DEF FunctionOK, CodeOK, LocalsOK
<1>4. CASE n = NoName
  <2>1. g = b
    BY <1>1, <1>4 DEF Initializing
  <2> QED
    BY <1>2, <1>3, <1>4, <2>1, LongerSame DEF Inward
<1>5. CASE n # NoName
  <2>1. PICK t, d : t = <<Push("Push_Literal", NewDecl)>> /\ d = NewDecl
    OBVIOUS
  <2>2. PICK e : e = Declare(b, n, -1, d)
    OBVIOUS
  <2>3. /\ FunctionOK(e, cs) /\ e.depth = b.depth /\ e.outsiders = b.outsiders /\ e.code = b.code
        /\ Len(e.locals) = Len(b.locals) + 1
    <3>1. Len(b.locals) < MaxLocals
      BY <1>2, <1>3, <1>5
    <3>2. PICK z : z = -1
      OBVIOUS
    <3>3. e = Declare(b, n, z, d)
      BY <2>2, <3>2
    <3> QED
      BY <1>2, <3>1, <3>3, DeclareIs
  <2>4. Straight(t, Len(e.outsiders))
    BY <2>1, OrdinaryCode, OrdinariesAre
  <2>5. PICK h : h = Emit(e, t)
    OBVIOUS
  <2>6. FunctionOK(h, cs) /\ SameShape(e, h) /\ Longer(e.code, h.code) /\ Loose(h.code) = Loose(e.code)
    BY <2>3, <2>4, <2>5, EmitStraight
  <2>7. g = Initialized(h, n)
    BY <1>1, <1>5, <2>1, <2>2, <2>5, Zenon DEF Initializing
  <2>8. Len(h.locals) = Len(f.locals) + 1 /\ Len(h.locals) > 1
    BY <1>2, <1>3, <2>3, <2>6 DEF SameShape
  <2>9. /\ FunctionOK(g, cs) /\ g.depth = h.depth /\ g.outsiders = h.outsiders /\ Len(g.locals) = Len(h.locals)
        /\ Longer(h.code, g.code) /\ Loose(g.code) = Loose(h.code)
    BY <2>6, <2>7, <2>8, InitializedIs
  <2>10. IsSeq(h.code) /\ IsSeq(g.code)
    BY <2>6, <2>9 DEF FunctionOK, CodeOK
  <2>11. Longer(f.code, g.code)
    BY <1>2, <1>3, <2>3, <2>6, <2>9, <2>10, LongerTransitive
  <2>12. Len(g.locals) + 1 <= MaxLocals
    BY <1>3, <1>5, <2>8, <2>9
  <2> QED
    BY <1>2, <1>3, <2>3, <2>6, <2>9, <2>11, <2>12 DEF Inward, SameShape
<1> QED
  BY <1>4, <1>5

ConditionJump(f, condition) == IF condition THEN {Len(f.code) + 2} ELSE {}
LEMMA WithConditionIs ==
  ASSUME NEW f, NEW cs, FunctionOK(f, cs), NEW condition \in BOOLEAN, NEW g, g = WithCondition(f, condition)
  PROVE  /\ Inward(f, g, cs, ConditionJump(f, condition)) /\ SameShape(f, g)
         /\ condition => JumpAt(g.code, Len(f.code) + 2)
<1>1. IsSeq(f.code) /\ Len(f.code) \in Nat
  BY DEF FunctionOK, CodeOK, IsSeq
<1>2. CASE ~condition
  <2>1. g = f
    BY <1>2 DEF WithCondition
  <2> QED
    BY <1>1, <1>2, <2>1, LongerSame DEF Inward, SameShape
<1>3. CASE condition
  <2>1. PICK t : t = <<Push("Push_Condition", Nothing), Unpatched("Jump_If_False"), Do("Pop")>>
    OBVIOUS
  <2>2. PieceOK(t, f.code, Len(f.outsiders), cs) /\ Loose(t) = {2} /\ Len(t) = 3 /\ t[2].op \in Jumps
    BY <2>1, ConditionIs
  <2>3. g = Emit(f, t)
    BY <1>3, <2>1 DEF WithCondition
  <2>4. /\ FunctionOK(g, cs) /\ SameShape(f, g) /\ Longer(f.code, g.code)
        /\ g.code = f.code \o t /\ Len(g.code) = Len(f.code) + Len(t)
        /\ Loose(g.code) = Loose(f.code) \cup Shifted(Len(f.code), Loose(t))
    <3>1. PieceOK(t, f.code, Len(f.outsiders), cs)
      BY <2>2
    <3>2. Emitted(f, g, t, cs)
      BY <2>3, <3>1, EmitIs
    <3> QED
      BY <3>2 DEF Emitted
  <2>5. Shifted(Len(f.code), Loose(t)) = {Len(f.code) + 2} /\ ConditionJump(f, condition) = {Len(f.code) + 2}
    BY <1>3, <2>2 DEF Shifted, ConditionJump
  <2>6. IsSeq(t) /\ 2 \in 1..Len(t)
    BY <2>2 DEF PieceOK
  <2>7. (f.code \o t)[Len(f.code) + 2] = t[2]
    BY <1>1, <2>6, ConcatIs
  <2>8. JumpAt(g.code, Len(f.code) + 2)
    BY <1>1, <2>2, <2>4, <2>7 DEF JumpAt
  <2> QED
    BY <1>1, <2>4, <2>5, <2>8 DEF Inward, SameShape
<1> QED
  BY <1>2, <1>3

LEMMA WithCopyIs ==
  ASSUME NEW f, NEW cs, FunctionOK(f, cs), NEW n, n # NoName => Len(f.locals) + 1 <= MaxLocals, NEW decl,
         NEW g, g = WithCopy(f, n, decl)
  PROVE  Inward(f, g, cs, {}) /\ g.depth = f.depth + (IF n = NoName THEN 0 ELSE 1)
<1>1. IsSeq(f.code) /\ f.depth \in Nat /\ Len(f.locals) \in Nat /\ MaxLocals \in Nat
  BY CompilerAssumption DEF FunctionOK, CodeOK, LocalsOK
<1>2. CASE n = NoName
  <2>1. g = f
    BY <1>2 DEF WithCopy
  <2> QED
    BY <1>1, <1>2, <2>1, LongerSame DEF Inward
<1>3. CASE n # NoName
  <2>1. PICK b : b = BeginScope(f)
    OBVIOUS
  <2>2. FunctionOK(b, cs) /\ b.depth = f.depth + 1 /\ b.locals = f.locals /\ b.outsiders = f.outsiders /\ b.code = f.code
    BY <2>1, BeginScopeIs
  <2>3. PICK e, d : e = Declare(b, n, d, decl) /\ d = f.depth + 1
    OBVIOUS
  <2>4. FunctionOK(e, cs) /\ e.depth = b.depth /\ e.outsiders = b.outsiders /\ e.code = b.code
    <3>1. Len(b.locals) < MaxLocals
      BY <1>1, <1>3, <2>2
    <3> QED
      BY <2>2, <2>3, <3>1, DeclareIs
  <2>5. PICK v, of : v = Len(f.locals) - 1 /\ of = f.locals[Len(f.locals) - 1 + 1].decl
    OBVIOUS
  <2>6. PICK t : t = <<Instruction("Copy_From_Idx", v, of, decl)>>
    OBVIOUS
  <2>7. Straight(t, Len(e.outsiders))
    BY <2>6, OrdinaryIs, OrdinariesAre
  <2>8. g = Emit(e, t)
    BY <1>3, <2>1, <2>3, <2>5, <2>6, Zenon DEF WithCopy
  <2>9. FunctionOK(g, cs) /\ SameShape(e, g) /\ Longer(e.code, g.code) /\ Loose(g.code) = Loose(e.code)
    BY <2>4, <2>7, <2>8, EmitStraight
  <2> QED
    BY <1>1, <1>3, <2>2, <2>4, <2>9 DEF Inward, SameShape
<1> QED
  BY <1>2, <1>3

LEMMA PairIs == ASSUME NEW a, NEW b PROVE <<a, b>> = <<a>> \o <<b>>
<1>1. PICK s, t, u : s = <<a>> /\ t = <<b>> /\ u = <<a, b>>
  OBVIOUS
<1>2. IsSeq(s) /\ IsSeq(t) /\ IsSeq(u) /\ Len(s) = 1 /\ Len(t) = 1 /\ Len(u) = 2 /\ s[1] = a /\ t[1] = b /\ u[1] = a /\ u[2] = b
  BY <1>1, TuplesAre
<1>3. PICK v : v = s \o t
  OBVIOUS
<1>4. IsSeq(v) /\ Len(v) = 2 /\ v[1] = a /\ v[2] = b
  <2>1. /\ IsSeq(v) /\ Len(v) = Len(s) + Len(t) /\ \A i \in 1..Len(s) : v[i] = s[i]
        /\ \A i \in 1..Len(t) : v[Len(s) + i] = t[i]
    <3>1. IsSeq(s) /\ IsSeq(t)
      BY <1>2
    <3> QED
      BY <1>3, <3>1, ConcatIs
  <2> QED
    BY <1>2, <2>1
<1>5. \A i \in 1..2 : i = 1 \/ i = 2
  OBVIOUS
<1>6. u = v
  BY <1>2, <1>4, <1>5, SameSeq
<1> QED
  BY <1>1, <1>3, <1>6

LEMMA AppendConcat == ASSUME NEW s, IsSeq(s), NEW a PROVE Append(s, a) = s \o <<a>>
<1>1. PICK t, u, v : t = <<a>> /\ u = Append(s, a) /\ v = s \o t
  OBVIOUS
<1>2. IsSeq(t) /\ Len(t) = 1 /\ t[1] = a
  BY <1>1, TuplesAre
<1>3. IsSeq(u) /\ Len(u) = Len(s) + 1 /\ (\A i \in 1..Len(s) : u[i] = s[i]) /\ u[Len(s) + 1] = a
  BY <1>1, AppendIs
<1>4. /\ IsSeq(v) /\ Len(v) = Len(s) + Len(t) /\ \A i \in 1..Len(s) : v[i] = s[i]
      /\ \A i \in 1..Len(t) : v[Len(s) + i] = t[i]
  BY <1>1, <1>2, ConcatIs
<1>5. Len(s) \in Nat /\ Len(v) = Len(s) + 1 /\ v[Len(s) + 1] = a
  BY <1>2, <1>4 DEF IsSeq
<1>6. \A i \in 1..Len(s)+1 : i \in 1..Len(s) \/ i = Len(s) + 1
  BY <1>5
<1>7. u = v
  BY <1>3, <1>4, <1>5, <1>6, SameSeq
<1> QED
  BY <1>1, <1>7

(* The increment: a jump over it, to the condition, and a jump back.       *)
IncrementCode(i, start) ==
  Append(<<Unpatched("Jump"), Push("Push_Literal", Nothing)>>, i) \o <<Do("Pop"), Operand("Loop", start)>>
LEMMA IncrementCodeIs ==
  ASSUME NEW c, IsSeq(c), NEW n, NEW cs, NEW start, Target(c, start), NEW i, Straight(<<i>>, n),
         NEW t, t = IncrementCode(i, start)
  PROVE  PieceOK(t, c, n, cs) /\ Loose(t) = {1} /\ Len(t) = 5 /\ t[1].op \in Jumps /\ t[2].op # "Method"
<1>1. PICK a, b, p, l : a = Unpatched("Jump") /\ b = Push("Push_Literal", Nothing) /\ p = Do("Pop") /\ l = Operand("Loop", start)
  OBVIOUS
<1>2. Straight(<<b>>, n) /\ Straight(<<p>>, n)
  BY <1>1, OrdinaryCode, OrdinariesAre
<1>3. PICK ta, tb, ti, tp, tl : ta = <<a>> /\ tb = <<b>> /\ ti = <<i>> /\ tp = <<p>> /\ tl = <<l>>
  OBVIOUS
<1>4. /\ PieceOK(tb, c, n, cs) /\ Loose(tb) = {} /\ PieceOK(ti, c, n, cs) /\ Loose(ti) = {}
      /\ PieceOK(tp, c, n, cs) /\ Loose(tp) = {}
  BY <1>2, <1>3, StraightIs
<1>5. PieceOK(ta, c, n, cs) /\ Loose(ta) = {1} /\ Len(ta) = 1
  <2>1. "Jump" \in Jumps /\ 0 \in Unset
    BY DEF Jumps, Unset
  <2>2. ta = <<Instruction("Jump", 0, Nothing, Nothing)>>
    BY <1>1, <1>3 DEF Unpatched
  <2> QED
    BY <2>1, <2>2, JumpIs
<1>6. PieceOK(tl, c, n, cs) /\ Loose(tl) = {} /\ Len(tl) = 1
  <2>1. "Loop" \in Jumps /\ start \notin Unset
    <3>1. start \in 1..Len(c)+1 /\ Len(c) \in Nat
      BY DEF Target, IsSeq
    <3> QED
      BY <3>1 DEF Jumps, Unset
  <2>2. tl = <<Instruction("Loop", start, Nothing, Nothing)>>
    BY <1>1, <1>3 DEF Operand
  <2>3. start \in Unset \/ Target(c, start)
    OBVIOUS
  <2>4. PieceOK(tl, c, n, cs) /\ Loose(tl) = IF start \in Unset THEN {1} ELSE {}
    BY <2>1, <2>2, <2>3, JumpIs
  <2> QED
    BY <1>3, <2>1, <2>4, TuplesAre
<1>7. Len(tb) = 1 /\ Len(ti) = 1 /\ Len(tp) = 1 /\ ta[1] = a /\ tb[1] = b
  BY <1>3, TuplesAre
<1>8. PICK u : u = ta \o tb
  OBVIOUS
<1>9. PieceOK(u, c, n, cs) /\ Loose(u) = Loose(ta) \cup Shifted(Len(ta), Loose(tb)) /\ Len(u) = Len(ta) + Len(tb)
  BY <1>4, <1>5, <1>8, PiecesAre
<1>10. PICK v : v = u \o ti
  OBVIOUS
<1>11. PieceOK(v, c, n, cs) /\ Loose(v) = Loose(u) \cup Shifted(Len(u), Loose(ti)) /\ Len(v) = Len(u) + Len(ti)
  BY <1>4, <1>9, <1>10, PiecesAre
<1>12. PICK w : w = tp \o tl
  OBVIOUS
<1>13. PieceOK(w, c, n, cs) /\ Loose(w) = Loose(tp) \cup Shifted(Len(tp), Loose(tl)) /\ Len(w) = Len(tp) + Len(tl)
  BY <1>4, <1>6, <1>12, PiecesAre
<1>14. t = v \o w
  <2>1. <<a, b>> = u /\ <<p, l>> = w
    BY <1>3, <1>8, <1>12, PairIs
  <2>2. Append(u, i) = v
    BY <1>3, <1>9, <1>10, AppendConcat DEF PieceOK
  <2>3. t = Append(<<a, b>>, i) \o <<p, l>>
    BY <1>1 DEF IncrementCode
  <2> QED
    BY <2>1, <2>2, <2>3
<1>15. PieceOK(t, c, n, cs) /\ Loose(t) = Loose(v) \cup Shifted(Len(v), Loose(w)) /\ Len(t) = Len(v) + Len(w)
  BY <1>11, <1>13, <1>14, PiecesAre
<1>16. \A m : Shifted(m, {}) = {}
  BY DEF Shifted
<1>17. Len(u) = 2 /\ Len(v) = 3 /\ Len(w) = 2
  BY <1>5, <1>6, <1>7, <1>9, <1>11, <1>13
<1>18. Loose(t) = {1} /\ Len(t) = 5
  <2>1. Loose(w) = {} /\ Loose(u) = {1} /\ Loose(v) = {1}
    BY <1>4, <1>5, <1>6, <1>9, <1>11, <1>13, <1>16
  <2> QED
    BY <1>15, <1>16, <1>17, <2>1
<1>19. t[1] = a /\ t[2] = b
  <2>1. IsSeq(ta) /\ IsSeq(tb) /\ IsSeq(u) /\ IsSeq(ti) /\ IsSeq(v) /\ IsSeq(w)
    BY <1>4, <1>5, <1>9, <1>11, <1>13 DEF PieceOK
  <2>2. u[1] = a /\ u[2] = b
    <3>1. /\ \A k \in 1..Len(ta) : u[k] = ta[k]
          /\ \A k \in 1..Len(tb) : u[Len(ta) + k] = tb[k]
      BY <1>8, <2>1, ConcatIs
    <3> QED
      BY <1>5, <1>7, <3>1
  <2>3. v[1] = a /\ v[2] = b
    <3>1. \A k \in 1..Len(u) : v[k] = u[k]
      BY <1>10, <2>1, ConcatIs
    <3> QED
      BY <1>17, <2>2, <3>1
  <2>4. \A k \in 1..Len(v) : t[k] = v[k]
    BY <1>14, <2>1, ConcatIs
  <2> QED
    BY <1>17, <2>3, <2>4
<1>20. a.op = "Jump" /\ b.op = "Push_Literal"
  BY <1>1 DEF Unpatched, Push, Instruction
<1> QED
  BY <1>15, <1>18, <1>19, <1>20 DEF Jumps

-----------------------------------------------------------------------------
LEMMA AssigningIs ==
  ASSUME NEW fs, NEW t, NEW n, NEW p, p = Assigning([functions |-> fs, code |-> t], n)
  PROVE  p.functions = fs /\ p.code = Append(t, Assign(fs, n))
<1>1. PICK q : q = [functions |-> fs, code |-> t]
  OBVIOUS
<1>2. q.functions = fs /\ q.code = t
  BY <1>1
<1>3. PICK i : i = Assign(fs, n)
  OBVIOUS
<1>4. p = [q EXCEPT !.code = Append(@, i)]
  BY <1>1, <1>2, <1>3 DEF Assigning, Doing
<1>5. p = [functions |-> fs, code |-> Append(t, i)]
  BY <1>1, <1>4
<1> QED
  BY <1>3, <1>5

LEMMA WithIncrementIs ==
  ASSUME NEW fs, NEW cs, IsSeq(cs), FunctionsOK(fs, cs), Len(fs) = Innermost, NEW m, m # NoName, NEW start,
         Target(fs[Len(fs)].code, start), NEW gs, gs = WithIncrement(fs, m, start)
  PROVE  /\ Steps(fs, gs, cs, {}) /\ Len(gs) = Len(fs) /\ gs[Len(fs)].depth = fs[Len(fs)].depth
         /\ Len(gs[Len(fs)].locals) = Len(fs[Len(fs)].locals)
         /\ Target(gs[Len(fs)].code, Len(fs[Len(fs)].code) + 2)
<1>1. PICK l : l = Len(fs)
  OBVIOUS
<1>2. l \in Nat /\ l # 0 /\ l \in 1..l /\ IsSeq(fs[l].code)
  BY <1>1, InnermostIs
<1>3. PICK rs : rs = Resolved(fs, m)
  OBVIOUS
<1>4. Grown(fs, rs, cs) /\ FoundIn(rs, m)
  BY <1>3, ResolvedIs
<1>5. FunctionsOK(rs, cs) /\ Len(rs) = l /\ Steps(fs, rs, cs, {})
  BY <1>1, <1>4, StepsGrown DEF Grown
<1>6. PICK f : f = rs[l]
  OBVIOUS
<1>7. f.depth = fs[l].depth /\ f.code = fs[l].code /\ Len(f.locals) = Len(fs[l].locals)
  BY <1>1, <1>2, <1>4, <1>6 DEF Grown, Captures, SameNames
<1>8. FunctionOK(f, cs) /\ IsSeq(f.code) /\ Last(rs) = f /\ Len(f.code) \in Nat
  BY <1>5, <1>6, InnermostIs DEF IsSeq
<1>9. PICK i : i = Assign(rs, m)
  OBVIOUS
<1>10. Straight(<<i>>, Len(f.outsiders))
  BY <1>4, <1>5, <1>8, <1>9, ReadIs
<1>11. PICK t : t = IncrementCode(i, start)
  OBVIOUS
<1>12. PieceOK(t, f.code, Len(f.outsiders), cs) /\ Loose(t) = {1} /\ Len(t) = 5 /\ t[1].op \in Jumps /\ t[2].op # "Method"
  <2>1. Target(f.code, start)
    BY <1>1, <1>7
  <2> QED
    BY <1>8, <1>10, <1>11, <2>1, IncrementCodeIs
<1>13. PICK e : e = Emit(f, t)
  OBVIOUS
<1>14. /\ FunctionOK(e, cs) /\ SameShape(f, e) /\ Longer(f.code, e.code)
       /\ e.code = f.code \o t /\ Len(e.code) = Len(f.code) + Len(t)
       /\ Loose(e.code) = Loose(f.code) \cup Shifted(Len(f.code), Loose(t))
  <2>1. PieceOK(t, f.code, Len(f.outsiders), cs)
    BY <1>12
  <2>2. Emitted(f, e, t, cs)
    BY <1>8, <1>13, <2>1, EmitIs
  <2> QED
    BY <2>2 DEF Emitted
<1>15. /\ e.code[Len(f.code) + 1] = t[1] /\ e.code[Len(f.code) + 2] = t[2]
  <2>1. IsSeq(t)
    BY <1>12 DEF PieceOK
  <2>2. \A k \in 1..Len(t) : (f.code \o t)[Len(f.code) + k] = t[k]
    BY <1>8, <2>1, ConcatIs
  <2> QED
    BY <1>12, <1>14, <2>2
<1>16. PICK k : k = Len(f.code) + 1
  OBVIOUS
<1>17. JumpAt(e.code, k)
  BY <1>8, <1>12, <1>14, <1>15, <1>16 DEF JumpAt
<1>18. PICK g : g = Patch(e, k)
  OBVIOUS
<1>19. /\ FunctionOK(g, cs) /\ SameShape(e, g) /\ Longer(e.code, g.code)
       /\ Len(g.code) = Len(e.code) /\ Loose(g.code) = Loose(e.code) \ {k}
  BY <1>14, <1>17, <1>18, PatchIs
<1>20. Inward(f, g, cs, {})
  <2>1. Loose(g.code) \subseteq Loose(f.code)
    <3>1. Shifted(Len(f.code), Loose(t)) = {k}
      BY <1>12, <1>16 DEF Shifted
    <3> QED
      BY <1>14, <1>19, <3>1
  <2>2. IsSeq(e.code) /\ IsSeq(g.code)
    BY <1>14, <1>19 DEF FunctionOK, CodeOK
  <2>3. Longer(f.code, g.code)
    BY <1>8, <1>14, <1>19, <2>2, LongerTransitive
  <2> QED
    BY <1>8, <1>14, <1>19, <2>1, <2>3 DEF Inward, SameShape
<1>21. Target(g.code, Len(f.code) + 2)
  <2>1. g.code[Len(f.code) + 2].op = t[2].op /\ Len(g.code) = Len(f.code) + 5
    <3>1. Len(f.code) + 2 \in 1..Len(e.code)
      BY <1>8, <1>12, <1>14
    <3> QED
      BY <1>12, <1>14, <1>15, <1>19, <3>1 DEF Longer
  <2> QED
    BY <1>8, <1>12, <2>1 DEF Target
<1>22. gs = Updated(rs, l, g)
  <2>1. PICK p : p = Assigning([functions |-> rs, code |-> <<Unpatched("Jump"), Push("Push_Literal", Nothing)>>], m)
    OBVIOUS
  <2>2. p.functions = rs /\ p.code = Append(<<Unpatched("Jump"), Push("Push_Literal", Nothing)>>, i)
    <3>1. PICK u : u = <<Unpatched("Jump"), Push("Push_Literal", Nothing)>>
      OBVIOUS
    <3>2. p = Assigning([functions |-> rs, code |-> u], m)
      BY <2>1, <3>1
    <3>3. p.functions = rs /\ p.code = Append(u, Assign(rs, m))
      BY <3>2, AssigningIs
    <3> QED
      BY <1>9, <3>1, <3>3
  <2>3. gs = Incrementing(p, m, start)
    BY <1>3, <2>1, Zenon DEF WithIncrement
  <2>4. gs = [rs EXCEPT ![Innermost] =
                Patch(Emit(rs[Innermost], p.code \o <<Do("Pop"), Operand("Loop", start)>>), Here(rs[Innermost]))]
    BY <2>2, <2>3, Zenon DEF Incrementing
  <2>5. p.code \o <<Do("Pop"), Operand("Loop", start)>> = t
    BY <1>11, <2>2 DEF IncrementCode
  <2>6. Here(rs[Innermost]) = k /\ rs[Innermost] = f
    BY <1>1, <1>6, <1>16 DEF Here
  <2>7. gs = [rs EXCEPT ![Innermost] = g]
    BY <1>13, <1>18, <2>4, <2>5, <2>6, Zenon
  <2> QED
    BY <1>1, <2>7 DEF Updated
<1>23. Steps(rs, gs, cs, {}) /\ Len(gs) = l /\ gs[l] = g
  <2>1. Inward(rs[Len(rs)], g, cs, {}) /\ gs = Updated(rs, Len(rs), g)
    BY <1>5, <1>6, <1>20, <1>22
  <2>2. Steps(rs, gs, cs, {}) /\ Len(gs) = Len(rs) /\ gs[Len(rs)] = g
    <3>1. FunctionsOK(rs, cs)
      BY <1>5
    <3> QED
      BY <2>1, <3>1, StepsInner
  <2> QED
    BY <1>5, <2>2
<1>24. Steps(fs, gs, cs, {} \cup {})
  BY <1>5, <1>23, StepsTransitive
<1>25. Len(gs[l].locals) = Len(fs[l].locals) /\ gs[l].depth = fs[l].depth
  BY <1>7, <1>14, <1>19, <1>23 DEF SameShape
<1>26. Target(gs[l].code, Len(fs[l].code) + 2)
  BY <1>7, <1>21, <1>23
<1> QED
  BY <1>1, <1>23, <1>24, <1>25, <1>26

(* The functions when the parser has come to the body: with the variable   *)
(* and the condition fs, with the increment gs, with the copy hs.          *)
Looped(fs, gs, hs, cs, n, m) ==
  /\ Steps(fs, hs, cs, {}) /\ hs[Len(fs)].depth = fs[Len(fs)].depth + (IF n = NoName THEN 0 ELSE 1)
  /\ m # NoName => Target(hs[Len(fs)].code, Len(fs[Len(fs)].code) + 2)
  /\ Len(gs[Len(fs)].locals) \in Nat /\ Len(gs[Len(fs)].locals) # 0
LEMMA LoopIs ==
  ASSUME NEW fs, NEW cs, IsSeq(cs), FunctionsOK(fs, cs), Len(fs) = Innermost, NEW n, NEW m, NEW start,
         n # NoName => Len(fs[Len(fs)].locals) + 1 <= MaxLocals,
         Target(fs[Len(fs)].code, start), NEW gs, gs = WithIncrement(fs, m, start), NEW decl,
         NEW hs, hs = Updated(gs, Len(fs), Statement(WithCopy(gs[Len(fs)], n, decl)))
  PROVE  Looped(fs, gs, hs, cs, n, m)
<1> USE DEF Looped
<1>1. PICK l : l = Len(fs)
  OBVIOUS
<1>2. l \in Nat /\ l # 0 /\ l \in 1..l /\ fs[l].depth \in Nat
  BY <1>1, InnermostIs DEF FunctionOK
<1>3. /\ Steps(fs, gs, cs, {}) /\ Len(gs) = l /\ gs[l].depth = fs[l].depth /\ Len(gs[l].locals) = Len(fs[l].locals)
      /\ m # NoName => Target(gs[l].code, Len(fs[l].code) + 2)
  <2>1. CASE m = NoName
    <3>1. gs = fs
      BY <2>1 DEF WithIncrement
    <3> QED
      BY <1>1, <2>1, <3>1, StepsSame
  <2>2. CASE m # NoName
    BY <1>1, <2>2, WithIncrementIs
  <2> QED
    BY <2>1, <2>2
<1>4. FunctionsOK(gs, cs)
  BY <1>3 DEF Steps
<1>5. PICK f, g : f = gs[l] /\ g = WithCopy(gs[l], n, decl)
  OBVIOUS
<1>6. FunctionOK(f, cs) /\ IsSeq(f.code) /\ Len(f.locals) \in Nat /\ Len(f.locals) # 0
  <2>1. MaxLocals \in Nat
    BY CompilerAssumption
  <2> QED
    BY <1>3, <1>4, <1>5, <2>1, InnermostIs DEF FunctionOK, LocalsOK
<1>7. Inward(f, g, cs, {}) /\ g.depth = f.depth + (IF n = NoName THEN 0 ELSE 1)
  <2>1. g = WithCopy(f, n, decl) /\ (n # NoName => Len(f.locals) + 1 <= MaxLocals)
    BY <1>1, <1>3, <1>5
  <2> QED
    BY <1>6, <2>1, WithCopyIs
<1>8. PICK h : h = Statement(g)
  OBVIOUS
<1>9. FunctionOK(g, cs) /\ IsSeq(g.code)
  BY <1>7 DEF Inward, FunctionOK, CodeOK
<1>10. Inward(g, h, cs, {}) /\ h.depth = g.depth
  BY <1>8, <1>9, StatementIs DEF Inward, SameShape
<1>11. Inward(f, h, cs, {} \cup {})
  BY <1>7, <1>10, InwardTransitive
<1>12. Steps(gs, hs, cs, {}) /\ hs[l] = h
  <2>1. Inward(gs[Len(gs)], h, cs, {}) /\ hs = Updated(gs, Len(gs), h)
    BY <1>1, <1>3, <1>5, <1>8, <1>11
  <2>2. Steps(gs, hs, cs, {}) /\ hs[Len(gs)] = h
    BY <1>4, <2>1, StepsInner
  <2> QED
    BY <1>3, <2>2
<1>13. Steps(fs, hs, cs, {} \cup {})
  BY <1>3, <1>12, StepsTransitive
<1>14. ASSUME m # NoName PROVE Target(hs[l].code, Len(fs[l].code) + 2)
  <2>1. IsSeq(h.code) /\ Longer(f.code, h.code)
    BY <1>11 DEF Inward, FunctionOK, CodeOK
  <2>2. Target(f.code, Len(fs[l].code) + 2)
    BY <1>3, <1>5, <1>14
  <2>3. Target(h.code, Len(fs[l].code) + 2)
    BY <1>6, <2>1, <2>2, LongerIs
  <2> QED
    BY <1>12, <2>3
<1> QED
  BY <1>1, <1>2, <1>3, <1>5, <1>6, <1>7, <1>10, <1>12, <1>13, <1>14

LEMMA BeginForKept ==
  ASSUME CompiledOK(compiled), regular \in BOOLEAN, NEW in, ParserOK(in), NEW n, NEW m, NEW condition \in BOOLEAN,
         BeginFor(n, condition, m)
  PROVE  Kept
<1>1. /\ FunctionOK(Current, compiled) /\ IsSeq(Current.code) /\ Innermost = Len(functions) /\ IsSeq(compiled)
      /\ FunctionsOK(functions, compiled) /\ Current = functions[Len(functions)] /\ IsSeq(blocks) /\ Len(blocks) \in Nat
      /\ Current.depth \in Nat /\ Len(functions) \in Nat /\ Len(functions) # 0 /\ Nested(in, open, functions)
      /\ in[Len(open) + 1].level = Len(functions) /\ in[Len(open) + 1].continue = continue_to /\ Len(open) \in Nat
  BY ParserIs DEF CompiledOK, FunctionOK
<1>2. PICK f : f = Initializing(BeginScope(Current), n)
  OBVIOUS
<1>3. Inward(Current, f, compiled, {}) /\ f.depth = Current.depth + 1 /\ (n # NoName => Len(f.locals) + 1 <= MaxLocals)
  <2>1. n # NoName => Len(Current.locals) + 2 <= MaxLocals
    BY DEF BeginFor
  <2> QED
    BY <1>1, <1>2, <2>1, InitializingIs
<1>4. FunctionOK(f, compiled) /\ IsSeq(f.code) /\ Len(f.code) \in Nat
  BY <1>3 DEF Inward, FunctionOK, CodeOK, IsSeq
<1>5. PICK g, c, l : g = WithCondition(f, condition) /\ c = Len(f.code) /\ l = Len(functions)
  OBVIOUS
<1>6. PICK y : y = ConditionJump(f, condition)
  OBVIOUS
<1>7. Inward(f, g, compiled, y) /\ SameShape(f, g) /\ (condition => JumpAt(g.code, c + 2))
  BY <1>4, <1>5, <1>6, WithConditionIs
<1>8. Inward(Current, g, compiled, y)
  <2>1. Inward(Current, g, compiled, {} \cup y)
    BY <1>3, <1>7, InwardTransitive
  <2> QED
    BY <2>1
<1>9. PICK fs : fs = Updated(functions, l, g)
  OBVIOUS
<1>10. Steps(functions, fs, compiled, y) /\ Len(fs) = l /\ fs[l] = g
  <2>1. Inward(functions[Len(functions)], g, compiled, y) /\ fs = Updated(functions, Len(functions), g)
    BY <1>1, <1>5, <1>8, <1>9
  <2>2. Steps(functions, fs, compiled, y) /\ Len(fs) = Len(functions) /\ fs[Len(functions)] = g
    BY SMTT(30), <1>1, <2>1, StepsInner
  <2> QED
    BY <1>5, <2>2
<1>11. FunctionsOK(fs, compiled)
  BY <1>10 DEF Steps
<1>12. PICK gs, hs : gs = WithIncrement(fs, m, c + 1) /\ hs = Updated(gs, l, Statement(WithCopy(gs[l], n, NewDecl + 1)))
  OBVIOUS
<1>13. PICK d : d = Len(g.code)
  OBVIOUS
<1>14. d \in Nat /\ IsSeq(g.code)
  BY <1>7, <1>13 DEF Inward, FunctionOK, CodeOK, IsSeq
<1>15. /\ Steps(fs, hs, compiled, {}) /\ hs[l].depth = g.depth + (IF n = NoName THEN 0 ELSE 1)
       /\ m # NoName => Target(hs[l].code, d + 2)
       /\ Len(gs[l].locals) \in Nat /\ Len(gs[l].locals) # 0
  <2>1. PICK start, decl : start = c + 1 /\ decl = NewDecl + 1
    OBVIOUS
  <2>2. Target(fs[Len(fs)].code, start)
    <3>1. Target(f.code, start)
      BY <1>4, <1>5, <2>1 DEF Target
    <3>2. Target(g.code, start)
      BY <1>4, <1>7, <1>14, <3>1, LongerIs DEF Inward
    <3> QED
      BY <1>10, <3>2
  <2>3. Len(fs) = Innermost /\ (n # NoName => Len(fs[Len(fs)].locals) + 1 <= MaxLocals)
    BY <1>1, <1>3, <1>5, <1>7, <1>10 DEF SameShape
  <2>4. gs = WithIncrement(fs, m, start)
    BY <1>12, <2>1
  <2>5. hs = Updated(gs, Len(fs), Statement(WithCopy(gs[Len(fs)], n, decl)))
    BY <1>10, <1>12, <2>1
  <2>6. Looped(fs, gs, hs, compiled, n, m)
    <3>1. IsSeq(compiled)
      BY <1>1
    <3> QED
      BY <1>11, <2>2, <2>3, <2>4, <2>5, <3>1, LoopIs
  <2> QED
    BY <1>10, <1>13, <2>6 DEF Looped
<1>16. Here(f) = c + 1 /\ Here(fs[l]) = d + 1
  BY <1>5, <1>10, <1>13 DEF Here
<1>17. PICK v, j, k : /\ v = IF n = NoName THEN -1 ELSE Len(gs[l].locals) - 1
                      /\ j = IF condition THEN c + 2 ELSE -1
                      /\ k = IF m = NoName THEN -1 ELSE d + 2
  OBVIOUS
<1>18. PICK o : o = [kind |-> "for", type |-> "Loop", variable |-> v, jump |-> j, increment |-> k,
                     continue |-> continue_to, done |-> FALSE]
  OBVIOUS
<1>19. functions' = hs /\ BeginLoop(n, condition, m, c + 1, fs, gs) /\ blocks' = Append(blocks, "Loop")
       /\ status = "parsing" /\ UNCHANGED <<breakpoints, compiled>>
       /\ regular' = (regular /\ m # NoName /\ ~Renamed({n, m}))
  <2>1. f = Initializing(BeginScope(Current), n) /\ fs = [functions EXCEPT ![Innermost] = WithCondition(f, condition)]
    BY <1>1, <1>2, <1>5, <1>9, Zenon DEF Updated
  <2>2. BeginLoop(n, condition, m, Here(f), fs, WithIncrement(fs, m, Here(f))) /\ blocks' = Append(blocks, "Loop")
    BY <2>1, Zenon DEF BeginFor
  <2>3. BeginLoop(n, condition, m, c + 1, fs, gs)
    BY <1>12, <1>16, <2>2
  <2>4. functions' = hs
    <3>1. functions' = [gs EXCEPT ![Innermost] = Statement(WithCopy(@, n, NewDecl + 1))]
      BY <2>3, Zenon DEF BeginLoop
    <3>2. functions' = [gs EXCEPT ![Innermost] = Statement(WithCopy(gs[Innermost], n, NewDecl + 1))]
      BY <3>1
    <3> QED
      BY <1>1, <1>5, <1>12, <3>2, Zenon DEF Updated
  <2>5. status = "parsing" /\ UNCHANGED <<breakpoints, compiled>> /\ regular' = (regular /\ m # NoName /\ ~Renamed({n, m}))
    BY Zenon DEF BeginFor, MayStart, MayWrite
  <2> QED
    BY <2>2, <2>3, <2>4, <2>5
<1>20. open' = Append(open, o) /\ UNCHANGED <<status, dialect>>
  <2>1. PICK e : e = [kind |-> "for", type |-> "Loop",
                      variable  |-> IF n = NoName THEN -1 ELSE Len(gs[Innermost].locals) - 1,
                      jump      |-> IF condition THEN c + 1 + 1 ELSE -1,
                      increment |-> IF m = NoName THEN -1 ELSE Here(fs[Innermost]) + 1,
                      continue  |-> continue_to, done |-> FALSE]
    OBVIOUS
  <2>2. open' = Append(open, e) /\ UNCHANGED <<status, dialect>>
    BY <1>19, <2>1, Zenon DEF BeginLoop, Begin
  <2>3. Innermost = l /\ c + 1 + 1 = c + 2 /\ Here(fs[Innermost]) + 1 = d + 2
    BY <1>1, <1>4, <1>5, <1>14, <1>16
  <2>4. e = o
    BY <1>17, <1>18, <2>1, <2>3
  <2> QED
    BY <2>2, <2>4
<1>21. /\ o.kind = "for" /\ o.variable = v /\ o.jump = j /\ o.increment = k /\ o.continue = continue_to
       /\ HasFields(o) /\ Holds(o) /\ Pushes(o)
  BY <1>18 DEF HasFields, Holds, Pushes
<1>22. Scopes(o) = IF n = NoName THEN 1 ELSE 2
  <2>1. v = -1 <=> n = NoName
    BY <1>15, <1>17
  <2> QED
    BY <1>21, <2>1 DEF Scopes
<1>23. functions'[Len(functions)].depth = Current.depth + Scopes(o)
  <2>1. g.depth = Current.depth + 1
    BY <1>3, <1>7 DEF SameShape
  <2> QED
    BY <1>1, <1>5, <1>15, <1>19, <1>22, <2>1
<1>24. Steps(functions, hs, compiled, y)
  <2>1. Steps(functions, hs, compiled, y \cup {})
    BY <1>10, <1>15, StepsTransitive
  <2> QED
    BY <2>1
<1>25. IsSeq(hs[l].code) /\ Longer(g.code, hs[l].code) /\ Longer(functions[l].code, hs[l].code)
  <2>1. l \in 1..l
    BY <1>1, <1>5
  <2> QED
    BY <1>5, <1>10, <1>15, <1>24, <2>1 DEF Steps, Onward
<1>26. PlaceOK(o, hs[l].code)
  <2>1. j = -1 \/ JumpAt(hs[l].code, j)
    <3>1. condition => JumpAt(hs[l].code, c + 2)
      BY <1>7, <1>14, <1>25, LongerIs
    <3> QED
      BY <1>17, <3>1
  <2>2. k = -1 \/ Target(hs[l].code, k)
    BY <1>15, <1>17
  <2> QED
    BY <1>21, <2>1, <2>2 DEF PlaceOK
<1>27. ContinueOK(continue_to', Len(functions), hs)
  <2>1. continue_to' = IF m = NoName THEN continue_to
                       ELSE [to |-> Here(fs[Innermost]) + 1, function |-> Innermost, locals |-> Live(gs[Innermost])]
    BY <1>19, Zenon DEF BeginLoop
  <2>2. CASE m = NoName
    <3>1. ContinueOK(continue_to, l, functions)
      <4>1. Len(open) + 1 \in 1..Len(open)+1
        BY <1>1
      <4> QED
        BY <1>1, <1>5, <4>1 DEF Nested
    <3>2. Onward(functions, hs, l) /\ l \in 1..l /\ l \in Nat
      BY <1>1, <1>5, <1>24 DEF Steps
    <3>3. ContinueOK(continue_to, l, hs)
      BY <3>1, <3>2, ContinueStays
    <3> QED
      BY <1>5, <2>1, <2>2, <3>3
  <2>3. CASE m # NoName
    <3>1. PICK h : h = Live(gs[Innermost])
      OBVIOUS
    <3>2. PICK e : e = [to |-> d + 2, function |-> l, locals |-> h]
      OBVIOUS
    <3>3. continue_to' = e
      <4>1. Here(fs[Innermost]) + 1 = d + 2 /\ Innermost = l
        BY <1>1, <1>5, <1>14, <1>16
      <4> QED
        BY <2>1, <2>3, <3>1, <3>2, <4>1
    <3>4. e.to = d + 2 /\ e.function = l /\ l \in 1..l
      BY <1>1, <1>5, <3>2
    <3>5. Target(hs[l].code, d + 2)
      BY <1>15, <2>3
    <3> QED
      BY <1>5, <3>3, <3>4, <3>5 DEF ContinueOK
  <2> QED
    BY <2>2, <2>3
<1>28. regular' \in BOOLEAN /\ (regular' => regular /\ o.increment # -1)
  <2>1. m # NoName => k # -1
    BY <1>14, <1>17
  <2> QED
    BY <1>19, <1>21, <2>1
<1>29. IsSeq(blocks') /\ Len(blocks') = Len(blocks) + (IF Pushes(o) THEN 1 ELSE 0)
  BY <1>1, <1>19, <1>21, AppendIs
<1>30. \A i \in y : Holds(o) /\ i = o.jump
  BY <1>5, <1>6, <1>17, <1>21 DEF ConditionJump
<1>31. PlainBegins(y, o)
  BY <1>5, <1>19, <1>20, <1>21, <1>23, <1>24, <1>26, <1>27, <1>28, <1>29, <1>30 DEF PlainBegins
<1> QED
  BY <1>31, PlainBeginsKept

-----------------------------------------------------------------------------
(* 'sai' and 'salta' emit a jump.                                          *)
LEMMA JumpSimple ==
  ASSUME NEW in, ParserOK(in), NEW kind, NEW i, Simple(kind, Doing(Nothing_(functions), i)), NEW t, t = <<i>>,
         PieceOK(t, Current.code, Len(Current.outsiders), compiled)
  PROVE  /\ open' = Ended(open) /\ UNCHANGED <<compiled, status, dialect>> /\ status = "parsing"
         /\ Steps(functions, functions', compiled, Shifted(Len(Current.code), Loose(t)))
         /\ functions'[Len(functions)].depth = Current.depth
         /\ t[1].op \in Jumps => JumpAt(functions'[Len(functions)].code, Len(Current.code) + 1)
<1>1. /\ FunctionsOK(functions, compiled) /\ Current = functions[Len(functions)] /\ Innermost = Len(functions)
  BY ParserIs
<1>2. PICK p : p = Doing(Nothing_(functions), i)
  OBVIOUS
<1>3. p.functions = functions /\ p.code = t
  <2>1. PICK b : b = Nothing_(functions)
    OBVIOUS
  <2>2. b.functions = functions /\ b.code = <<>>
    BY <2>1 DEF Nothing_
  <2>3. p = [b EXCEPT !.code = Append(@, i)]
    BY <1>2, <2>1 DEF Doing
  <2>4. p = [functions |-> functions, code |-> Append(<<>>, i)]
    BY <2>1, <2>3 DEF Nothing_
  <2>5. Append(<<>>, i) = t
    <3>1. PICK u : u = Append(<<>>, i)
      OBVIOUS
    <3>2. IsSeq(u) /\ Len(u) = 1 /\ u[1] = i
      <4>1. IsSeq(u) /\ Len(u) = Len(<<>>) + 1 /\ u[Len(<<>>) + 1] = i
        BY <3>1, EmptyIs, AppendIs
      <4> QED
        BY <4>1, EmptyIs
    <3>3. IsSeq(t) /\ Len(t) = 1 /\ t[1] = i
      BY TuplesAre
    <3>4. \A k \in 1..1 : k = 1
      OBVIOUS
    <3>5. u = t
      BY <3>2, <3>3, <3>4, SameSeq
    <3> QED
      BY <3>1, <3>5
  <2> QED
    BY <2>4, <2>5
<1>4. /\ functions' = [p.functions EXCEPT ![Innermost] = Statement(Emit(@, p.code))]
      /\ open' = Ended(open) /\ UNCHANGED <<compiled, status, dialect>> /\ status = "parsing"
  BY <1>2, Zenon DEF Simple, MayStart, MayWrite
<1>5. PICK fs, f, g : fs = functions /\ f = Current /\ g = Statement(Emit(Current, t))
  OBVIOUS
<1>6. functions' = Updated(fs, Len(fs), g)
  <2>1. functions' = [functions EXCEPT ![Innermost] = Statement(Emit(functions[Innermost], t))]
    BY <1>3, <1>4, Zenon
  <2>2. functions[Innermost] = Current
    BY DEF Current
  <2> QED
    BY <1>1, <1>5, <2>1, <2>2, Zenon DEF Updated
<1>7. PICK gs : gs = functions'
  OBVIOUS
<1>8. /\ Steps(fs, gs, compiled, Shifted(Len(f.code), Loose(t))) /\ gs[Len(fs)] = g /\ g.depth = f.depth
      /\ \A k \in 1..Len(t) : t[k].op \in Jumps => JumpAt(g.code, Len(f.code) + k)
  <2>1. PieceOK(t, f.code, Len(f.outsiders), compiled)
    BY <1>5
  <2>2. FunctionsOK(fs, compiled)
    BY <1>1, <1>5
  <2>3. f = fs[Len(fs)]
    BY <1>1, <1>5
  <2>4. g = Statement(Emit(f, t))
    BY <1>5
  <2>5. gs = Updated(fs, Len(fs), g)
    BY <1>6, <1>7
  <2> QED
    <3>1. Stepped(fs, gs, compiled, f, g, t)
      BY <2>1, <2>2, <2>3, <2>4, <2>5, PieceSteps
    <3> QED
      BY <3>1 DEF Stepped
<1>9. 1 \in 1..Len(t)
  BY TuplesAre
<1> QED
  BY <1>4, <1>5, <1>7, <1>8, <1>9

LEMMA ContinueKept ==
  ASSUME CompiledOK(compiled), regular \in BOOLEAN, NEW in, ParserOK(in), Continue PROVE Kept
<1>1. /\ Current = functions[Len(functions)] /\ Innermost = Len(functions) /\ Nested(in, open, functions)
      /\ in[Len(open) + 1].level = Len(functions) /\ in[Len(open) + 1].continue = continue_to /\ Len(open) \in Nat
      /\ IsSeq(Current.code)
  BY ParserIs
<1>2. PICK x : x = IF continue_to.function = Innermost THEN continue_to.to ELSE -1
  OBVIOUS
<1>3. x \in Unset \/ Target(Current.code, x)
  <2>1. CASE continue_to.function = Innermost
    <3>1. Len(open) + 1 \in 1..Len(open)+1
      BY <1>1
    <3>2. ContinueOK(continue_to, Len(functions), functions)
      BY <1>1, <3>1 DEF Nested
    <3>3. continue_to.to # -1
      BY DEF Continue
    <3> QED
      BY <1>1, <1>2, <2>1, <3>2, <3>3 DEF ContinueOK
  <2>2. CASE continue_to.function # Innermost
    BY <1>2, <2>2 DEF Unset
  <2> QED
    BY <2>1, <2>2
<1>4. PICK t : t = <<Operand("Loop", x)>>
  OBVIOUS
<1>5. PieceOK(t, Current.code, Len(Current.outsiders), compiled) /\ Loose(t) = IF x \in Unset THEN {1} ELSE {}
  <2>1. "Loop" \in Jumps /\ t = <<Instruction("Loop", x, Nothing, Nothing)>>
    BY <1>4 DEF Jumps, Operand
  <2> QED
    BY <1>3, <2>1, JumpIs
<1>6. /\ Simple("salta", Doing(Nothing_(functions), Operand("Loop", x)))
      /\ UNCHANGED <<blocks, breakpoints, continue_to>>
      /\ regular' = (regular /\ continue_to.function = Innermost /\ continue_to.locals = Live(Current))
      /\ continue_to.to # -1
  BY <1>2, Zenon DEF Continue, Elsewhere
<1>7. PICK y : y = Shifted(Len(Current.code), Loose(t))
  OBVIOUS
<1>8. /\ open' = Ended(open) /\ UNCHANGED <<compiled, status, dialect>> /\ status = "parsing"
      /\ Steps(functions, functions', compiled, y) /\ functions'[Len(functions)].depth = Current.depth
  BY <1>4, <1>5, <1>6, <1>7, JumpSimple
<1>9. regular' => regular /\ y = {}
  <2>1. ASSUME regular' PROVE y = {}
    <3>1. x = continue_to.to /\ x # -1
      BY <1>2, <1>6, <2>1
    <3>2. x \notin Unset
      <4>1. continue_to.to = -1 \/ Target(Current.code, continue_to.to)
        <5>1. Len(open) + 1 \in 1..Len(open)+1
          BY <1>1
        <5>2. ContinueOK(continue_to, Len(functions), functions)
          BY <1>1, <5>1 DEF Nested
        <5>3. continue_to.function = Len(functions)
          BY <1>1, <1>6, <2>1
        <5> QED
          BY <1>1, <5>2, <5>3 DEF ContinueOK
      <4>2. x \in 1..Len(Current.code)+1
        BY <3>1, <4>1 DEF Target
      <4> QED
        BY <1>1, <4>2 DEF Unset, IsSeq
    <3> QED
      BY <1>5, <1>7, <3>2 DEF Shifted
  <2> QED
    BY <1>6, <2>1
<1>10. SameContexts(open, open')
  BY <1>1, <1>8, SameContextsSame
<1>11. ParserOK(in)'
  BY <1>6, <1>8, <1>9, <1>10, ParserGoesOn
<1>12. regular' \in BOOLEAN
  BY <1>6
<1> QED
  BY <1>8, <1>11, <1>12, CompiledStays DEF Kept

(* One more breakpoint, in the innermost block.                            *)
LEMMA BreakpointMore ==
  ASSUME NEW in, NEW fs, NEW cs, NEW os, NEW bs, NEW n \in Nat, NEW c, Parsing(in, fs, cs, os, bs, n, c), n # 0,
         NEW b, b.operand \in Nat, b.block_depth = n - 1, b.function = Len(fs), JumpAt(fs[Len(fs)].code, b.operand),
         NEW ts, ts = Append(bs, b)
  PROVE  /\ Parsing(in, fs, cs, os, ts, n, c)
         /\ Regularly(in, fs, cs, os, bs, {b.operand}) => Regularly(in, fs, cs, os, ts, {})
<1>1. PICK m : m = Len(bs)
  OBVIOUS
<1>2. /\ IsSeq(bs) /\ m \in Nat
      /\ \A i \in 1..m : /\ bs[i].operand \in Nat /\ bs[i].block_depth \in 0..n-1
                         /\ Even(in, os, bs[i]) => JumpAt(fs[bs[i].function].code, bs[i].operand)
      /\ \A i, j \in 1..m : i <= j => bs[i].block_depth <= bs[j].block_depth
  BY <1>1 DEF Parsing, BreakpointsOK, IsSeq
<1>3. IsSeq(ts) /\ Len(ts) = m + 1 /\ ts[m + 1] = b /\ \A i \in 1..m : ts[i] = bs[i]
  BY <1>1, <1>2, AppendIs
<1>4. \A i \in 1..m+1 : i \in 1..m \/ i = m + 1
  BY <1>2
<1>5. ASSUME NEW i \in 1..m+1
      PROVE  /\ ts[i].operand \in Nat /\ ts[i].block_depth \in 0..n-1
             /\ Even(in, os, ts[i]) => JumpAt(fs[ts[i].function].code, ts[i].operand)
  <2>1. CASE i \in 1..m
    BY <1>2, <1>3, <2>1
  <2>2. CASE i = m + 1
    BY <1>3, <2>2
  <2> QED
    BY <1>4, <2>1, <2>2
<1>6. ASSUME NEW i \in 1..m+1, NEW j \in 1..m+1, i <= j PROVE ts[i].block_depth <= ts[j].block_depth
  <2>1. CASE j \in 1..m
    <3>1. i \in 1..m
      BY <1>2, <1>6, <2>1
    <3> QED
      BY <1>2, <1>3, <1>6, <2>1, <3>1
  <2>2. CASE j = m + 1
    <3>1. PICK d : d = ts[i].block_depth
      OBVIOUS
    <3>2. d \in 0..n-1 /\ ts[j].block_depth = n - 1
      BY <1>3, <1>5, <2>2, <3>1
    <3>3. d <= n - 1
      BY <3>2
    <3> QED
      BY <3>1, <3>2, <3>3
  <2> QED
    BY <1>4, <2>1, <2>2
<1>7. BreakpointsOK(in, fs, os, ts, n)
  BY <1>3, <1>5, <1>6 DEF BreakpointsOK
<1>8. ASSUME Regularly(in, fs, cs, os, bs, {b.operand}) PROVE Regularly(in, fs, cs, os, ts, {})
  <2>1. ASSUME AllEven(in, os, ts) PROVE NothingLoose(cs) /\ AllHeld(in, fs, os, ts, {})
    <3>1. AllEven(in, os, bs)
      <4>1. \A i \in 1..m : i \in 1..m+1
        BY <1>2
      <4> QED
        BY <1>1, <1>3, <2>1, <4>1 DEF AllEven
    <3>2. NothingLoose(cs) /\ AllHeld(in, fs, os, bs, {b.operand})
      BY <1>8, <3>1 DEF Regularly
    <3>3. ASSUME NEW l \in 1..Len(fs) PROVE Loose(fs[l].code) \subseteq Held(in, os, ts, l)
      <4>1. Held(in, os, bs, l) \subseteq Held(in, os, ts, l)
        <5>1. \A i \in 1..m : i \in 1..m+1
          BY <1>2
        <5> QED
          BY <1>1, <1>3, <5>1 DEF Held
      <4>2. l = Len(fs) => b.operand \in Held(in, os, ts, l)
        <5>1. m + 1 \in 1..m+1
          BY <1>2
        <5> QED
          BY <1>3, <5>1 DEF Held
      <4>3. Loose(fs[l].code) \subseteq Held(in, os, bs, l) \cup {k \in {b.operand} : l = Len(fs)}
        BY <3>2 DEF AllHeld
      <4> QED
        BY <4>1, <4>2, <4>3
    <3> QED
      BY <3>2, <3>3 DEF AllHeld
  <2> QED
    BY <1>8, <2>1 DEF Regularly
<1> QED
  BY <1>7, <1>8 DEF Parsing

LEMMA BreakKept ==
  ASSUME CompiledOK(compiled), regular \in BOOLEAN, NEW in, ParserOK(in), Break PROVE Kept
<1>1. PICK fs, gs, os, ps, bs, ts, cs, n, c, l, k :
        /\ fs = functions /\ gs = functions' /\ os = open /\ ps = open' /\ bs = breakpoints /\ ts = breakpoints'
        /\ cs = compiled /\ n = Len(blocks) /\ c = continue_to /\ l = Len(functions) /\ k = Len(Current.code) + 1
  OBVIOUS
<1>2. /\ Innermost = l /\ IsSeq(Current.code) /\ IsSeq(blocks) /\ n \in Nat /\ l \in Nat /\ l # 0
      /\ in[Len(os) + 1].depth = Current.depth /\ Nested(in, os, fs)
      /\ Parsing(in, fs, cs, os, bs, n, c)
  BY <1>1, ParserIs
<1>3. /\ Simple("sai", Doing(Nothing_(functions), Unpatched("Jump"))) /\ UNCHANGED <<blocks, continue_to, regular>>
      /\ breakpoints' = Append(breakpoints,
           [operand |-> Here(Current), block_depth |-> Len(blocks) - 1,
            function |-> Innermost, locals |-> Live(Current)])
      /\ blocks # <<>>
  BY Zenon DEF Break
<1>4. n # 0
  BY <1>1, <1>2, <1>3, NoneIs
<1>5. PICK t : t = <<Unpatched("Jump")>>
  OBVIOUS
<1>6. PieceOK(t, Current.code, Len(Current.outsiders), compiled) /\ Loose(t) = {1}
  <2>1. "Jump" \in Jumps /\ t = <<Instruction("Jump", 0, Nothing, Nothing)>> /\ 0 \in Unset
    BY <1>5 DEF Jumps, Unpatched, Unset
  <2> QED
    BY <2>1, JumpIs
<1>7. /\ open' = Ended(open) /\ UNCHANGED <<compiled, status, dialect>> /\ status = "parsing"
      /\ Steps(functions, functions', compiled, Shifted(Len(Current.code), Loose(t)))
      /\ functions'[Len(functions)].depth = Current.depth
      /\ t[1].op \in Jumps => JumpAt(functions'[Len(functions)].code, Len(Current.code) + 1)
  BY <1>3, <1>5, <1>6, JumpSimple
<1>8. Shifted(Len(Current.code), Loose(t)) = {k}
  BY <1>1, <1>6 DEF Shifted
<1>9. /\ Steps(fs, gs, cs, {k}) /\ FunctionsOK(gs, cs) /\ Len(fs) = l /\ Len(gs) = l /\ Onward(fs, gs, l)
      /\ gs[l].depth = Current.depth
  BY <1>1, <1>7, <1>8 DEF Steps
<1>10. JumpAt(gs[l].code, k)
  <2>1. t[1] = Unpatched("Jump")
    BY <1>5, TuplesAre
  <2>2. t[1].op \in Jumps
    BY <2>1 DEF Unpatched, Instruction, Jumps
  <2> QED
    BY <1>1, <1>7, <2>2
<1>11. SameContexts(os, ps)
  BY <1>1, <1>2, <1>7, SameContextsSame
<1>12. Parsing(in, gs, cs, ps, bs, n, c)
  BY <1>2, <1>9, <1>11, ChangedIs
<1>13. PICK b : b = [operand |-> k, block_depth |-> n - 1, function |-> l, locals |-> Live(Current)]
  OBVIOUS
<1>14. b.operand = k /\ b.block_depth = n - 1 /\ b.function = l /\ k \in Nat
  BY <1>1, <1>2, <1>13 DEF IsSeq
<1>15. ts = Append(bs, b)
  BY <1>1, <1>2, <1>3, <1>13 DEF Here
<1>16. /\ Parsing(in, gs, cs, ps, ts, n, c)
       /\ Regularly(in, gs, cs, ps, bs, {k}) => Regularly(in, gs, cs, ps, ts, {})
  <2>1. b.operand \in Nat /\ b.function = Len(gs) /\ JumpAt(gs[Len(gs)].code, b.operand)
    BY <1>9, <1>10, <1>14
  <2>2. /\ Parsing(in, gs, cs, ps, ts, n, c)
        /\ Regularly(in, gs, cs, ps, bs, {b.operand}) => Regularly(in, gs, cs, ps, ts, {})
    BY <1>2, <1>4, <1>12, <1>14, <1>15, <2>1, BreakpointMore
  <2> QED
    BY <1>14, <2>2
<1>17. ASSUME regular' PROVE Regularly(in, gs, cs, ps, ts, {})
  <2>1. Regularly(in, fs, cs, os, bs, {})
    BY <1>1, <1>3, <1>17 DEF ParserOK
  <2>2. \A j \in 1..Len(fs) : Loose(gs[j].code) \subseteq Loose(fs[j].code) \cup {i \in {k} : j = Len(fs)}
    BY <1>9 DEF Steps
  <2>3. {} \cup {k} \subseteq {k} /\ Len(gs) = Len(fs)
    BY <1>9
  <2>4. Regularly(in, gs, cs, ps, bs, {k})
    BY <1>2, <1>11, <2>1, <2>2, <2>3, ChangedRegularly
  <2> QED
    BY <1>16, <2>4
<1>18. ParserOK(in)'
  <2>1. /\ functions' = gs /\ compiled' = cs /\ open' = ps /\ breakpoints' = ts /\ continue_to' = c /\ blocks' = blocks
        /\ Len(blocks') = n /\ IsSeq(blocks')
    BY <1>1, <1>2, <1>3, <1>7
  <2>2. in[Len(ps) + 1].depth = gs[Len(gs)].depth
    <3>1. Len(ps) = Len(os)
      BY <1>11 DEF SameContexts
    <3> QED
      BY <1>2, <1>9, <3>1
  <2> QED
    BY <1>16, <1>17, <2>1, <2>2 DEF ParserOK
<1> QED
  BY <1>3, <1>7, <1>18, CompiledStays DEF Kept

-----------------------------------------------------------------------------
(* A statement ends in the function it began in, which has code with the   *)
(* jumps y more; the breakpoints left are ts.                              *)
Ends(in, gs, ts, y) ==
  /\ Len(open) # 0 /\ ~Opens(open[Len(open)])
  /\ Steps(functions, gs, compiled, y) /\ gs[Len(functions)].depth = in[Len(open)].depth
  /\ functions' = gs /\ breakpoints' = ts /\ open' = Ended(Front(open))
  /\ UNCHANGED <<compiled, status, dialect>> /\ status = "parsing"
  /\ continue_to' = in[Len(open)].continue
  /\ IsSeq(blocks') /\ Len(blocks') = in[Len(open)].blocks
  /\ IsSeq(ts) /\ Len(ts) <= Len(breakpoints)
  /\ \A i \in 1..Len(ts) : ts[i] = breakpoints[i] /\ ts[i].block_depth < in[Len(open)].blocks
  /\ regular' \in BOOLEAN
  /\ regular' =>
       /\ regular /\ y = {}
       /\ Holds(open[Len(open)]) => open[Len(open)].jump \notin Loose(gs[Len(functions)].code)
       /\ \A i \in Len(ts)+1..Len(breakpoints) :
            /\ Pushes(open[Len(open)]) /\ breakpoints[i].block_depth = Len(blocks) - 1
            /\ breakpoints[i].function = Len(functions)
            /\ breakpoints[i].operand \notin Loose(gs[Len(functions)].code)

(* What the parser comes back to.                                          *)
LEMMA OuterIs ==
  ASSUME NEW in, NEW os, NEW fs, Nested(in, os, fs), Len(os) # 0
  PROVE  /\ Len(os) \in Nat /\ Len(os) \in 1..Len(os) /\ Inside(in[Len(os)], os[Len(os)], in[Len(os) + 1])
         /\ ContextOK(os[Len(os)], in[Len(os)], fs) /\ in[Len(os)].depth \in Nat
         /\ in[Len(os)].level \in 1..Len(fs) /\ in[Len(os)].blocks \in Nat
         /\ ContinueOK(in[Len(os)].continue, in[Len(os)].level, fs)
         /\ IsSeq(Front(os)) /\ Len(Front(os)) = Len(os) - 1 /\ Len(Front(os)) + 1 = Len(os) /\ Last(os) = os[Len(os)]
<1>1. Len(os) \in Nat /\ Len(os) \in 1..Len(os) /\ Len(os) \in 1..Len(os)+1 /\ IsSeq(os)
  BY DEF Nested, IsSeq
<1>2. IsSeq(Front(os)) /\ Len(Front(os)) = Len(os) - 1
  BY <1>1, FrontIs
<1> QED
  BY <1>1, <1>2 DEF Nested, Last

LEMMA EndsKept ==
  ASSUME CompiledOK(compiled), NEW in, ParserOK(in), NEW gs, NEW ts, NEW y, Ends(in, gs, ts, y) PROVE Kept
<1>1. PICK fs, os, bs, cs, n, c, l, qs, ps, o, m, d :
        /\ fs = functions /\ os = open /\ bs = breakpoints /\ cs = compiled /\ n = Len(blocks) /\ c = continue_to
        /\ l = Len(functions) /\ qs = Front(open) /\ ps = Ended(Front(open)) /\ o = open[Len(open)]
        /\ m = in[Len(open)].blocks /\ d = in[Len(open)].continue
  OBVIOUS
<1>2. /\ Parsing(in, fs, cs, os, bs, n, c) /\ Nested(in, os, fs) /\ in[Len(os) + 1].depth = Current.depth
      /\ in[Len(os) + 1].level = l /\ in[Len(os) + 1].blocks = n /\ IsSeq(os) /\ l \in Nat /\ l # 0 /\ Len(fs) = l
  BY <1>1, ParserIs
<1>3. Steps(fs, gs, cs, y) /\ FunctionsOK(gs, cs) /\ Len(gs) = l /\ Onward(fs, gs, Len(fs)) /\ Len(os) # 0
  BY <1>1, <1>2 DEF Ends, Steps
<1>4. /\ Len(os) \in 1..Len(os) /\ Inside(in[Len(os)], os[Len(os)], in[Len(os) + 1])
      /\ Len(qs) + 1 = Len(os)
  BY <1>1, <1>2, <1>3, OuterIs
<1>5. in[Len(os)].level = Len(gs)
  <2>1. ~Opens(os[Len(os)]) /\ in[Len(os)].level \in Nat
    <3>1. in[Len(os)].level \in 1..Len(fs)
      BY <1>2, <1>3, OuterIs
    <3> QED
      BY <1>1, <3>1 DEF Ends
  <2> QED
    BY <1>2, <1>3, <1>4, <2>1 DEF Inside
<1>6. SameContexts(os, os)
  BY <1>2, SameContextsSame
<1>7. Parsing(in, gs, cs, os, bs, n, c)
  BY <1>2, <1>3, <1>6, ChangedIs
<1>8. Onward(gs, gs, Len(gs))
  BY <1>3, StepsSame DEF Steps
<1>9. /\ IsSeq(ts) /\ Len(ts) <= Len(bs)
      /\ \A i \in 1..Len(ts) : ts[i] = bs[i] /\ ts[i].block_depth < in[Len(os)].blocks
  BY <1>1 DEF Ends
<1>10. Parsing(in, gs, cs, qs, ts, m, d)
  <2>1. Parsing(in, gs, cs, Front(os), ts, in[Len(os)].blocks, in[Len(os)].continue)
    BY <1>3, <1>5, <1>7, <1>8, <1>9, ClosedIs
  <2> QED
    BY <1>1, <2>1
<1>11. Nested(in, qs, gs) /\ Nested(in, os, gs)
  BY <1>7, <1>10 DEF Parsing
<1>12. SameContexts(qs, ps)
  BY <1>1, <1>11, SameContextsSame
<1>13. Parsing(in, gs, cs, ps, ts, m, d)
  BY <1>3, <1>8, <1>10, <1>12, ChangedIs
<1>14. ASSUME regular' PROVE Regularly(in, gs, cs, ps, ts, {})
  <2>1. Regularly(in, fs, cs, os, bs, {}) /\ y = {}
    BY <1>1, <1>14 DEF ParserOK, Ends
  <2>2. \A j \in 1..Len(fs) : Loose(gs[j].code) \subseteq Loose(fs[j].code) \cup {k \in y : j = Len(fs)}
    BY <1>3 DEF Steps
  <2>3. {} \cup y \subseteq {} /\ Len(gs) = Len(fs)
    BY <1>2, <1>3, <2>1
  <2>4. Regularly(in, gs, cs, os, bs, {})
    BY <1>2, <1>6, <2>1, <2>2, <2>3, ChangedRegularly
  <2>5. ~Opens(os[Len(os)])
    BY <1>1 DEF Ends
  <2>6. Holds(os[Len(os)]) => os[Len(os)].jump \notin Loose(gs[Len(gs)].code)
    BY <1>1, <1>3, <1>14 DEF Ends
  <2>7. \A i \in Len(ts)+1..Len(bs) :
          /\ Pushes(os[Len(os)]) /\ bs[i].block_depth = n - 1 /\ bs[i].function = Len(gs)
          /\ bs[i].operand \notin Loose(gs[Len(gs)].code)
    BY <1>1, <1>3, <1>14 DEF Ends
  <2>8. Regularly(in, gs, cs, Front(os), ts, {})
    BY <1>3, <1>7, <1>9, <2>4, <2>5, <2>6, <2>7, ClosedRegularly
  <2>9. Regularly(in, gs, cs, qs, ts, {})
    BY <1>1, <2>8
  <2>10. \A j \in 1..Len(gs) : Loose(gs[j].code) \subseteq Loose(gs[j].code) \cup {k \in {} : j = Len(gs)}
    OBVIOUS
  <2>11. {} \cup {} \subseteq {}
    OBVIOUS
  <2> QED
    BY <1>11, <1>12, <2>9, <2>10, <2>11, ChangedRegularly
<1>15. ParserOK(in)'
  <2>1. /\ functions' = gs /\ compiled' = cs /\ open' = ps /\ breakpoints' = ts /\ continue_to' = d
        /\ Len(blocks') = m /\ IsSeq(blocks')
    BY <1>1 DEF Ends
  <2>2. in[Len(ps) + 1].depth = gs[Len(gs)].depth
    <3>1. Len(ps) = Len(qs)
      BY <1>12 DEF SameContexts
    <3> QED
      BY <1>1, <1>3, <1>4, <3>1 DEF Ends
  <2> QED
    BY <1>13, <1>14, <2>1, <2>2 DEF ParserOK
<1>16. compiled' = compiled /\ status' = "parsing" /\ dialect' = dialect /\ regular' \in BOOLEAN
  BY DEF Ends
<1> QED
  BY <1>15, <1>16, CompiledStays DEF Kept

-----------------------------------------------------------------------------
LEMMA LastIs ==
  ASSUME NEW in, ParserOK(in), NEW kind, EndingBlock(kind)
  PROVE  /\ Len(open) # 0 /\ Last(open) = open[Len(open)] /\ open[Len(open)].kind = kind
         /\ open' = Ended(Front(open)) /\ dialect' = dialect /\ status = "parsing"
<1>1. IsSeq(open) /\ Len(open) \in Nat
  BY ParserIs
<1>2. open # <<>> /\ Last(open).kind = kind /\ open' = Ended(Front(open)) /\ dialect' = dialect /\ status = "parsing"
  BY DEF EndingBlock
<1>3. Len(open) # 0
  BY <1>1, <1>2, NoneIs
<1> QED
  BY <1>2, <1>3 DEF Last

(* Statements that are in the function the parser is in.                   *)
LEMMA HereIs ==
  ASSUME NEW in, ParserOK(in), Len(open) # 0, ~Opens(open[Len(open)])
  PROVE  /\ in[Len(open)].level = Len(functions) /\ ContextOK(open[Len(open)], in[Len(open)], functions)
         /\ Current.depth = in[Len(open)].depth + Scopes(open[Len(open)]) /\ in[Len(open)].depth \in Nat
         /\ Len(blocks) = in[Len(open)].blocks + (IF Pushes(open[Len(open)]) THEN 1 ELSE 0) /\ in[Len(open)].blocks \in Nat
         /\ open[Len(open)].kind # "for" => in[Len(open)].continue = continue_to
         /\ open[Len(open)].kind = "for" => in[Len(open)].continue = open[Len(open)].continue
         /\ Holds(open[Len(open)]) => (open[Len(open)].kind = "for" /\ open[Len(open)].jump = -1)
                                      \/ JumpAt(Current.code, open[Len(open)].jump)
<1>1. /\ Nested(in, open, functions) /\ in[Len(open) + 1].level = Len(functions)
      /\ in[Len(open) + 1].depth = Current.depth /\ in[Len(open) + 1].blocks = Len(blocks)
      /\ in[Len(open) + 1].continue = continue_to /\ Current = functions[Len(functions)]
  BY ParserIs
<1>2. /\ Inside(in[Len(open)], open[Len(open)], in[Len(open) + 1]) /\ ContextOK(open[Len(open)], in[Len(open)], functions)
      /\ in[Len(open)].depth \in Nat /\ in[Len(open)].blocks \in Nat /\ in[Len(open)].level \in 1..Len(functions)
  BY <1>1, OuterIs
<1>3. in[Len(open)].level \in Nat
  BY <1>2
<1>4. in[Len(open)].level = Len(functions)
  BY <1>1, <1>2, <1>3 DEF Inside
<1> QED
  BY <1>1, <1>2, <1>4 DEF Inside, ContextOK

(* One that did not begin a block of its own.                              *)
LEMMA PlainEndsKept ==
  ASSUME CompiledOK(compiled), regular \in BOOLEAN, NEW in, ParserOK(in), NEW kind, EndingBlock(kind), NEW o, o = Last(open),
         ~Opens(o), ~Pushes(o), kind # "for", UNCHANGED <<status, blocks, breakpoints, continue_to, compiled, regular>>,
         NEW g, Inward(Current, g, compiled, {}), Becomes(g), Scopes(o) \in Nat, Current.depth = g.depth + Scopes(o),
         Holds(o) => o.jump \notin Loose(g.code)
  PROVE  Kept
<1>1. /\ Len(open) # 0 /\ o = open[Len(open)] /\ o.kind = kind
      /\ open' = Ended(Front(open)) /\ dialect' = dialect /\ status = "parsing"
  BY LastIs
<1>2. /\ Current.depth = in[Len(open)].depth + Scopes(o) /\ in[Len(open)].depth \in Nat
      /\ Len(blocks) = in[Len(open)].blocks /\ in[Len(open)].blocks \in Nat
      /\ in[Len(open)].continue = continue_to
  BY <1>1, HereIs
<1>3. /\ FunctionsOK(functions, compiled) /\ Current = functions[Len(functions)] /\ IsSeq(blocks) /\ IsSeq(breakpoints)
      /\ Parsing(in, functions, compiled, open, breakpoints, Len(blocks), continue_to)
  BY ParserIs
<1>4. PICK gs : gs = Updated(functions, Len(functions), g)
  OBVIOUS
<1>5. functions' = gs
  BY <1>4, BecomesIs
<1>6. Steps(functions, gs, compiled, {}) /\ gs[Len(functions)] = g
  <2>1. Inward(functions[Len(functions)], g, compiled, {})
    BY <1>3
  <2> QED
    BY <1>3, <1>4, <2>1, StepsInner
<1>7. g.depth = in[Len(open)].depth
  <2>1. g.depth \in Nat
    BY DEF Inward, FunctionOK
  <2> QED
    BY <1>2, <2>1
<1>8. \A i \in 1..Len(breakpoints) : breakpoints[i].block_depth < in[Len(open)].blocks
  <2>1. \A i \in 1..Len(breakpoints) : breakpoints[i].block_depth \in 0..Len(blocks)-1
    BY <1>3 DEF Parsing, BreakpointsOK
  <2> QED
    BY <1>2, <2>1
<1>9. Len(breakpoints) \in Nat
  BY <1>3 DEF IsSeq
<1>10. \A i : i \notin Len(breakpoints)+1..Len(breakpoints)
  BY <1>9
<1>11. Ends(in, gs, breakpoints, {})
  BY <1>1, <1>2, <1>3, <1>5, <1>6, <1>7, <1>8, <1>9, <1>10 DEF Ends
<1> QED
  BY <1>11, EndsKept

-----------------------------------------------------------------------------
(* A branch of 'si' ends: the jump to it is patched, and one behind the    *)
(* other branch is emitted.                                                *)
LEMMA BranchIs ==
  ASSUME NEW f, NEW cs, FunctionOK(f, cs), NEW j, JumpAt(f.code, j), NEW e, e = Emit(f, <<Unpatched("Jump")>>),
         NEW g, g = Emit(Patch(e, j), <<Do("Pop")>>), NEW k, k = Len(f.code) + 1
  PROVE  Inward(f, g, cs, {k}) /\ SameShape(f, g) /\ j \notin Loose(g.code) /\ JumpAt(g.code, k)
<1>1. PICK t : t = <<Unpatched("Jump")>>
  OBVIOUS
<1>2. PieceOK(t, f.code, Len(f.outsiders), cs) /\ Loose(t) = {1} /\ Len(t) = 1
  <2>1. "Jump" \in Jumps /\ t = <<Instruction("Jump", 0, Nothing, Nothing)>> /\ 0 \in Unset
    BY <1>1 DEF Jumps, Unpatched, Unset
  <2> QED
    BY <2>1, JumpIs
<1>3. IsSeq(f.code) /\ Len(f.code) \in Nat
  BY DEF FunctionOK, CodeOK, IsSeq
<1>4. /\ FunctionOK(e, cs) /\ SameShape(f, e) /\ Longer(f.code, e.code)
      /\ e.code = f.code \o t /\ Len(e.code) = Len(f.code) + Len(t)
      /\ Loose(e.code) = Loose(f.code) \cup Shifted(Len(f.code), Loose(t))
  <2>1. PieceOK(t, f.code, Len(f.outsiders), cs)
    BY <1>2
  <2>2. Emitted(f, e, t, cs)
    BY <1>1, <2>1, EmitIs
  <2> QED
    BY <2>2 DEF Emitted
<1>5. Shifted(Len(f.code), Loose(t)) = {k}
  BY <1>2 DEF Shifted
<1>6. IsSeq(e.code) /\ JumpAt(e.code, j) /\ JumpAt(e.code, k)
  <2>1. IsSeq(e.code)
    BY <1>4 DEF FunctionOK, CodeOK
  <2>2. JumpAt(e.code, j)
    BY <1>3, <1>4, <2>1, LongerIs
  <2>3. e.code[k] = t[1]
    <3>1. IsSeq(t)
      BY <1>2 DEF PieceOK
    <3>2. \A i \in 1..Len(t) : (f.code \o t)[Len(f.code) + i] = t[i]
      BY <1>3, <3>1, ConcatIs
    <3> QED
      BY SMTT(30), <1>2, <1>4, <3>2
  <2>4. t[1].op = "Jump"
    BY <1>1 DEF Unpatched, Instruction
  <2>5. k \in 1..Len(e.code)
    BY SMTT(30), <1>2, <1>3, <1>4
  <2>6. JumpAt(e.code, k)
    BY <2>3, <2>4, <2>5 DEF JumpAt, Jumps
  <2> QED
    BY <2>1, <2>2, <2>6
<1>7. PICK p : p = Patch(e, j)
  OBVIOUS
<1>8. /\ FunctionOK(p, cs) /\ SameShape(e, p) /\ Longer(e.code, p.code) /\ Loose(p.code) = Loose(e.code) \ {j}
  BY <1>4, <1>6, <1>7, PatchIs
<1>9. PICK u : u = <<Do("Pop")>>
  OBVIOUS
<1>10. FunctionOK(g, cs) /\ SameShape(p, g) /\ Longer(p.code, g.code) /\ Loose(g.code) = Loose(p.code)
  <2>1. Straight(u, Len(p.outsiders))
    BY <1>9, OrdinaryCode, OrdinariesAre
  <2>2. g = Emit(p, u)
    BY <1>7, <1>9
  <2> QED
    BY <1>8, <2>1, <2>2, EmitStraight
<1>11. IsSeq(p.code) /\ IsSeq(g.code)
  BY <1>8, <1>10 DEF FunctionOK, CodeOK
<1>12. Longer(e.code, g.code)
  BY <1>6, <1>8, <1>10, <1>11, LongerTransitive
<1>13. Longer(f.code, g.code)
  BY <1>3, <1>4, <1>6, <1>11, <1>12, LongerTransitive
<1>14. JumpAt(g.code, k)
  BY <1>6, <1>11, <1>12, LongerIs
<1> QED
  BY <1>3, <1>4, <1>5, <1>8, <1>10, <1>13, <1>14 DEF Inward, SameShape

LEMMA EndOfThenKept ==
  ASSUME CompiledOK(compiled), regular \in BOOLEAN, NEW in, ParserOK(in), EndOfThen PROVE Kept
<1>1. PICK o : o = Last(open)
  OBVIOUS
<1>2. EndingBlock("then") /\ UNCHANGED <<status, blocks, breakpoints, continue_to, compiled, regular>>
  BY DEF EndOfThen, Ending
<1>3. Len(open) # 0 /\ o = open[Len(open)] /\ o.kind = "then"
  BY <1>1, <1>2, LastIs
<1>4. ~Opens(o) /\ ~Pushes(o) /\ Holds(o) /\ Scopes(o) = 0
  BY <1>3 DEF Opens, Pushes, Holds, Scopes
<1>5. FunctionOK(Current, compiled) /\ IsSeq(Current.code) /\ Current.depth \in Nat
  BY ParserIs DEF FunctionOK
<1>6. PICK f, j, k : f = Current /\ j = o.jump /\ k = Len(Current.code) + 1
  OBVIOUS
<1>7. JumpAt(f.code, j)
  BY <1>3, <1>4, <1>6, HereIs
<1>8. PICK e : e = Emit(f, <<Unpatched("Jump")>>)
  OBVIOUS
<1>9. PICK g : g = Emit(Patch(e, j), <<Do("Pop")>>)
  OBVIOUS
<1>10. Inward(f, g, compiled, {k}) /\ SameShape(f, g) /\ j \notin Loose(g.code) /\ JumpAt(g.code, k)
  BY <1>5, <1>6, <1>7, <1>8, <1>9, BranchIs
<1>11. PICK h : h = Patch(g, k)
  OBVIOUS
<1>12. FunctionOK(g, compiled) /\ IsSeq(g.code)
  BY <1>10 DEF Inward, FunctionOK, CodeOK
<1>13. FunctionOK(h, compiled) /\ SameShape(g, h) /\ Longer(g.code, h.code) /\ Loose(h.code) = Loose(g.code) \ {k}
  BY <1>10, <1>11, <1>12, PatchIs
<1>14. Inward(f, h, compiled, {}) /\ h.depth = f.depth
  <2>1. IsSeq(f.code) /\ IsSeq(h.code)
    BY <1>5, <1>6, <1>13 DEF FunctionOK, CodeOK
  <2>2. Longer(f.code, h.code)
    BY <1>10, <1>12, <1>13, <2>1, LongerTransitive DEF Inward
  <2> QED
    BY <1>10, <1>13, <2>1, <2>2 DEF Inward, SameShape
<1>15. Becomes(h)
  <2>1. Here(Current) = k
    BY <1>6 DEF Here
  <2> QED
    BY <1>1, <1>6, <1>8, <1>9, <1>11, <2>1, Zenon DEF EndOfThen
<1>16. Inward(Current, h, compiled, {}) /\ Current.depth = h.depth + Scopes(o) /\ Scopes(o) \in Nat
       /\ (Holds(o) => o.jump \notin Loose(h.code))
  BY <1>4, <1>5, <1>6, <1>10, <1>13, <1>14
<1> QED
  BY <1>1, <1>2, <1>4, <1>15, <1>16, PlainEndsKept

LEMMA EndOfElseKept ==
  ASSUME CompiledOK(compiled), regular \in BOOLEAN, NEW in, ParserOK(in), EndOfElse PROVE Kept
<1>1. PICK o : o = Last(open)
  OBVIOUS
<1>2. EndingBlock("else") /\ UNCHANGED <<status, blocks, breakpoints, continue_to, compiled, regular>>
  BY DEF EndOfElse, Ending
<1>3. Len(open) # 0 /\ o = open[Len(open)] /\ o.kind = "else"
  BY <1>1, <1>2, LastIs
<1>4. ~Opens(o) /\ ~Pushes(o) /\ Holds(o) /\ Scopes(o) = 0
  BY <1>3 DEF Opens, Pushes, Holds, Scopes
<1>5. FunctionOK(Current, compiled) /\ IsSeq(Current.code) /\ Current.depth \in Nat
  BY ParserIs DEF FunctionOK
<1>6. PICK f, j : f = Current /\ j = o.jump
  OBVIOUS
<1>7. JumpAt(f.code, j)
  BY <1>3, <1>4, <1>6, HereIs
<1>8. PICK h : h = Patch(f, j)
  OBVIOUS
<1>9. FunctionOK(h, compiled) /\ SameShape(f, h) /\ Longer(f.code, h.code) /\ Loose(h.code) = Loose(f.code) \ {j}
  BY <1>5, <1>6, <1>7, <1>8, PatchIs
<1>10. Becomes(h)
  BY <1>1, <1>6, <1>8, Zenon DEF EndOfElse
<1>11. Inward(Current, h, compiled, {}) /\ Current.depth = h.depth + Scopes(o) /\ Scopes(o) \in Nat
       /\ (Holds(o) => o.jump \notin Loose(h.code))
  BY <1>4, <1>5, <1>6, <1>9 DEF Inward, SameShape
<1> QED
  BY <1>1, <1>2, <1>4, <1>10, <1>11, PlainEndsKept

-----------------------------------------------------------------------------
LEMMA EndOfClassKept ==
  ASSUME CompiledOK(compiled), regular \in BOOLEAN, NEW in, ParserOK(in), EndOfClass PROVE Kept
<1>1. PICK o : o = Last(open)
  OBVIOUS
<1>2. EndingBlock("class") /\ UNCHANGED <<status, blocks, breakpoints, continue_to, compiled, regular>>
  BY DEF EndOfClass, Ending
<1>3. Len(open) # 0 /\ o = open[Len(open)] /\ o.kind = "class"
  BY <1>1, <1>2, LastIs
<1>4. ~Opens(o) /\ ~Pushes(o) /\ ~Holds(o) /\ Scopes(o) = (IF o.superclass THEN 1 ELSE 0)
  BY <1>3 DEF Opens, Pushes, Holds, Scopes
<1>5. FunctionOK(Current, compiled) /\ IsSeq(Current.code) /\ Current.depth \in Nat
  BY ParserIs DEF FunctionOK
<1>6. PICK f, t : f = Current /\ t = <<Do("Pop")>>
  OBVIOUS
<1>7. PICK g : g = Emit(f, t)
  OBVIOUS
<1>8. FunctionOK(g, compiled) /\ SameShape(f, g) /\ Longer(f.code, g.code) /\ Loose(g.code) = Loose(f.code)
  <2>1. Straight(t, Len(f.outsiders))
    BY <1>6, OrdinaryCode, OrdinariesAre
  <2> QED
    BY <1>5, <1>6, <1>7, <2>1, EmitStraight
<1>9. Current.depth = in[Len(open)].depth + Scopes(o) /\ in[Len(open)].depth \in Nat
  BY <1>3, <1>4, HereIs
<1>10. PICK h : h = IF o.superclass THEN EndScope(g) ELSE g
  OBVIOUS
<1>11. Inward(f, h, compiled, {}) /\ f.depth = h.depth + Scopes(o)
  <2>1. CASE ~o.superclass
    BY <1>4, <1>5, <1>6, <1>8, <1>10, <2>1 DEF Inward, SameShape
  <2>2. CASE o.superclass
    <3>1. g.depth = f.depth /\ g.depth # 0 /\ f.depth \in Nat
      BY <1>4, <1>5, <1>6, <1>8, <1>9, <2>2 DEF SameShape
    <3>2. h = EndScope(g)
      BY <1>10, <2>2
    <3>3. /\ FunctionOK(h, compiled) /\ h.depth = g.depth - 1 /\ h.outsiders = g.outsiders
          /\ Longer(g.code, h.code) /\ Loose(h.code) = Loose(g.code)
      BY <1>8, <3>1, <3>2, EndScopeIs
    <3>4. IsSeq(f.code) /\ IsSeq(g.code) /\ IsSeq(h.code)
      BY <1>5, <1>6, <1>8, <3>3 DEF FunctionOK, CodeOK
    <3>5. Longer(f.code, h.code)
      BY <1>8, <3>3, <3>4, LongerTransitive
    <3>6. Inward(f, h, compiled, {})
      BY <1>8, <3>3, <3>4, <3>5 DEF Inward, SameShape
    <3>7. f.depth = h.depth + Scopes(o)
      BY <1>4, <2>2, <3>1, <3>3
    <3> QED
      BY <3>6, <3>7
  <2> QED
    BY <2>1, <2>2
<1>12. Becomes(h)
  BY <1>1, <1>6, <1>7, <1>10, Zenon DEF EndOfClass
<1>13. Inward(Current, h, compiled, {}) /\ Current.depth = h.depth + Scopes(o) /\ Scopes(o) \in Nat
  BY <1>4, <1>6, <1>11
<1> QED
  BY <1>1, <1>2, <1>4, <1>12, <1>13, PlainEndsKept

(* 'sinou': the first branch ends and the other begins.                    *)
LEMMA ThenElseKept ==
  ASSUME CompiledOK(compiled), regular \in BOOLEAN, NEW in, ParserOK(in), ThenElse PROVE Kept
<1>1. PICK fs, os, bs, cs, n, c, l, f, j, k :
        /\ fs = functions /\ os = open /\ bs = breakpoints /\ cs = compiled /\ n = Len(blocks) /\ c = continue_to
        /\ l = Len(functions) /\ f = Current /\ j = Last(open).jump /\ k = Len(Current.code) + 1
  OBVIOUS
<1>2. /\ Parsing(in, fs, cs, os, bs, n, c) /\ Nested(in, os, fs) /\ in[Len(os) + 1].depth = f.depth
      /\ in[Len(os) + 1].level = l /\ in[Len(os) + 1].blocks = n /\ in[Len(os) + 1].continue = c
      /\ IsSeq(os) /\ Len(os) \in Nat /\ l \in Nat /\ l # 0 /\ Len(fs) = l
      /\ FunctionOK(f, cs) /\ FunctionsOK(fs, cs) /\ f = fs[l] /\ IsSeq(blocks) /\ IsSeq(bs) /\ n \in Nat
  BY <1>1, ParserIs
<1>3. PICK e : e = Emit(f, <<Unpatched("Jump")>>)
  OBVIOUS
<1>4. PICK g : g = Emit(Patch(e, j), <<Do("Pop")>>)
  OBVIOUS
<1>5. PICK o : o = [kind |-> "else", type |-> "If", jump |-> k, done |-> FALSE]
  OBVIOUS
<1>6. /\ open # <<>> /\ Last(open).kind = "then" /\ status = "parsing"
      /\ open' = Append(Front(open), o) /\ Becomes(g)
      /\ UNCHANGED <<blocks, breakpoints, continue_to, compiled, status, dialect, regular>>
  <2>1. Here(Current) = k
    BY <1>1 DEF Here
  <2> QED
    BY <1>1, <1>3, <1>4, <1>5, <2>1, Zenon DEF ThenElse
<1>7. Len(os) # 0 /\ Last(open) = os[Len(os)] /\ os[Len(os)].kind = "then"
  <2>1. Len(os) # 0
    BY <1>1, <1>2, <1>6, NoneIs
  <2> QED
    BY <1>1, <1>6, <2>1 DEF Last
<1>8. /\ ~Opens(os[Len(os)]) /\ ~Pushes(os[Len(os)]) /\ Holds(os[Len(os)]) /\ Scopes(os[Len(os)]) = 0
  BY <1>7 DEF Opens, Pushes, Holds, Scopes
<1>9. /\ in[Len(os)].level = l /\ f.depth = in[Len(os)].depth + 0 /\ in[Len(os)].depth \in Nat
      /\ n = in[Len(os)].blocks + 0 /\ in[Len(os)].blocks \in Nat /\ in[Len(os)].continue = c /\ JumpAt(f.code, j)
  BY <1>1, <1>7, <1>8, HereIs
<1>10. Inward(f, g, cs, {k}) /\ SameShape(f, g) /\ j \notin Loose(g.code) /\ JumpAt(g.code, k)
  <2>1. k = Len(f.code) + 1 /\ FunctionOK(f, cs) /\ JumpAt(f.code, j)
    BY <1>1, <1>2, <1>9
  <2> QED
    BY <1>3, <1>4, <2>1, BranchIs
<1>11. PICK gs : gs = Updated(fs, l, g)
  OBVIOUS
<1>12. functions' = gs
  BY <1>1, <1>6, <1>11, BecomesIs
<1>13. Steps(fs, gs, cs, {k}) /\ Len(gs) = l /\ gs[l] = g
  <2>1. Inward(fs[Len(fs)], g, cs, {k}) /\ gs = Updated(fs, Len(fs), g)
    BY <1>2, <1>10, <1>11
  <2>2. Steps(fs, gs, cs, {k}) /\ Len(gs) = Len(fs) /\ gs[Len(fs)] = g
    BY <1>2, <2>1, StepsInner
  <2> QED
    BY <1>2, <2>2
<1>14. FunctionsOK(gs, cs) /\ Onward(fs, gs, Len(fs)) /\ Len(gs) = Len(fs)
  BY <1>2, <1>13 DEF Steps
<1>15. SameContexts(os, os)
  BY <1>2, SameContextsSame
<1>16. Parsing(in, gs, cs, os, bs, n, c)
  BY <1>2, <1>14, <1>15, ChangedIs
<1>17. Onward(gs, gs, Len(gs))
  BY <1>14, StepsSame DEF Steps
<1>18. PICK qs : qs = Front(os)
  OBVIOUS
<1>19. IsSeq(qs) /\ Len(qs) + 1 = Len(os)
  BY <1>2, <1>7, <1>18, OuterIs
<1>20. \A i \in 1..Len(bs) : bs[i] = bs[i] /\ bs[i].block_depth < in[Len(os)].blocks
  <2>1. \A i \in 1..Len(bs) : bs[i].block_depth \in 0..n-1
    BY <1>2 DEF Parsing, BreakpointsOK
  <2> QED
    BY <1>9, <2>1
<1>21. Parsing(in, gs, cs, qs, bs, n, c)
  <2>1. Len(bs) <= Len(bs) /\ Len(gs) = in[Len(os)].level /\ in[Len(os)].blocks = n
    BY <1>2, <1>9, <1>13 DEF IsSeq
  <2>2. Parsing(in, gs, cs, Front(os), bs, in[Len(os)].blocks, in[Len(os)].continue)
    BY <1>2, <1>7, <1>14, <1>16, <1>17, <1>20, <2>1, ClosedIs
  <2> QED
    BY <1>9, <1>18, <2>1, <2>2
<1>22. PICK new : new = [level |-> l, blocks |-> n, depth |-> f.depth, continue |-> c]
  OBVIOUS
<1>23. new.level = l /\ new.blocks = n /\ new.depth = f.depth /\ new.continue = c
  BY <1>22
<1>24. /\ o.kind = "else" /\ o.jump = k /\ HasFields(o) /\ Holds(o) /\ ~Opens(o) /\ ~Pushes(o) /\ Scopes(o) = 0
  BY <1>5 DEF HasFields, Holds, Opens, Pushes, Scopes
<1>25. Inside(in[Len(qs) + 1], o, new) /\ ContextOK(o, in[Len(qs) + 1], gs)
  <2>1. Inside(in[Len(os)], o, new)
    BY <1>2, <1>9, <1>23, <1>24 DEF Inside
  <2>2. ContextOK(o, in[Len(os)], gs)
    BY <1>9, <1>10, <1>13, <1>24 DEF ContextOK
  <2> QED
    BY <1>19, <2>1, <2>2
<1>26. PICK jn, ps : jn = Deeper(in, Len(qs), new) /\ ps = Append(qs, o)
  OBVIOUS
<1>27. /\ Parsing(jn, gs, cs, ps, bs, new.blocks, new.continue)
       /\ jn[Len(ps) + 1] = new /\ Opened(in, gs, qs, bs, o, jn, ps)
  <2>1. Nested(in, qs, gs)
    BY <1>21 DEF Parsing
  <2>2. Len(gs) <= Len(gs) /\ (\A i \in 1..Len(gs) : gs[i] = gs[i]) /\ new.level = Len(gs) /\ new.depth \in Nat
    BY <1>2, <1>9, <1>13, <1>23
  <2>3. ContinueOK(new.continue, new.level, gs)
    <3>1. Len(qs) + 1 \in 1..Len(qs)+1
      BY <1>2, <1>7, <1>19
    <3>2. ContinueOK(in[Len(os)].continue, in[Len(os)].level, gs)
      BY <1>19, <2>1, <3>1 DEF Nested
    <3> QED
      BY <1>9, <1>23, <3>2
  <2>4. Opening(in, gs, cs, qs, bs, n, c, o, new, gs, jn, ps)
    BY <1>14, <1>21, <1>25, <1>26, <2>1, <2>2, <2>3 DEF Opening
  <2> QED
    BY <2>4, OpenedIs
<1>28. ASSUME regular' PROVE Regularly(jn, gs, cs, ps, bs, {})
  <2>1. Regularly(in, fs, cs, os, bs, {})
    BY <1>1, <1>6, <1>28 DEF ParserOK
  <2>2. Regularly(in, gs, cs, os, bs, {k})
    <3>1. \A i \in 1..Len(fs) : Loose(gs[i].code) \subseteq Loose(fs[i].code) \cup {x \in {k} : i = Len(fs)}
      BY <1>13 DEF Steps
    <3>2. {} \cup {k} \subseteq {k}
      OBVIOUS
    <3> QED
      BY <1>2, <1>14, <1>15, <2>1, <3>1, <3>2, ChangedRegularly
  <2>3. Regularly(in, gs, cs, qs, bs, {k})
    <3>1. Holds(os[Len(os)]) => os[Len(os)].jump \notin Loose(gs[Len(gs)].code)
      BY <1>1, <1>7, <1>10, <1>13
    <3>2. Len(bs) <= Len(bs) /\ \A i : i \notin Len(bs)+1..Len(bs)
      BY <1>2 DEF IsSeq
    <3>3. Regularly(in, gs, cs, Front(os), bs, {k})
      BY <1>2, <1>7, <1>8, <1>16, <2>2, <3>1, <3>2, ClosedRegularly
    <3> QED
      BY <1>18, <3>3
  <2>4. OpeningRegularly(in, gs, cs, qs, bs, o, gs, jn, ps, {k})
    <3>1. Len(qs) \in Nat /\ Len(gs) \in Nat /\ Len(gs) <= Len(gs) /\ (\A i : i \notin Len(gs)+1..Len(gs))
      BY <1>2, <1>13, <1>19 DEF IsSeq
    <3> QED
      BY <1>24, <1>27, <2>3, <3>1 DEF OpeningRegularly
  <2> QED
    BY <2>4, OpenedRegularly
<1>29. ParserOK(jn)'
  <2>1. /\ functions' = gs /\ compiled' = cs /\ open' = ps /\ breakpoints' = bs /\ continue_to' = c /\ blocks' = blocks
        /\ Len(blocks') = n /\ IsSeq(blocks')
    BY <1>1, <1>2, <1>6, <1>12, <1>18, <1>26
  <2>2. Parsing(jn, gs, cs, ps, bs, n, c)
    BY <1>23, <1>27
  <2>3. jn[Len(ps) + 1].depth = gs[Len(gs)].depth
    BY <1>10, <1>13, <1>23, <1>27 DEF SameShape
  <2> QED
    BY <1>28, <2>1, <2>2, <2>3 DEF ParserOK
<1>30. compiled' = compiled /\ status' = "parsing" /\ dialect' = dialect /\ regular' \in BOOLEAN
  BY <1>6
<1> QED
  BY <1>29, <1>30, CompiledStays DEF Kept

-----------------------------------------------------------------------------
(* A block ends: the first q breakpoints are left, the others are patched. *)
Leaves(in, q) ==
  /\ q \in 0..Len(breakpoints) /\ Patched = q+1..Len(breakpoints)
  /\ IsSeq(breakpoints') /\ Len(breakpoints') = q
  /\ \A i \in 1..q : breakpoints'[i] = breakpoints[i] /\ breakpoints'[i].block_depth < in[Len(open)].blocks
  /\ \A i \in q+1..Len(breakpoints) : breakpoints[i].block_depth = Len(blocks) - 1 /\ breakpoints[i].operand \in Nat
  /\ \A i \in 1..q : breakpoints'[i].operand \in Nat
  /\ IsSeq(blocks') /\ Len(blocks') = in[Len(open)].blocks
HereToPatch ==
  \A i \in Patched : breakpoints[i].function = Len(functions) /\ JumpAt(Current.code, breakpoints[i].operand)

LEMMA EndBlockIs ==
  ASSUME NEW in, ParserOK(in), Len(open) # 0, Pushes(open[Len(open)]), ~Opens(open[Len(open)]), EndBlock
  PROVE  /\ \E q : Leaves(in, q)
         /\ status' = "undefined" \/ (status' = status /\ HereToPatch)
<1>1. PICK n, b : n = Len(blocks) /\ b = Len(breakpoints)
  OBVIOUS
<1>2. /\ Parsing(in, functions, compiled, open, breakpoints, n, continue_to) /\ n \in Nat /\ IsSeq(breakpoints)
      /\ IsSeq(blocks) /\ Current = functions[Len(functions)] /\ Innermost = Len(functions) /\ Len(open) \in Nat
  BY <1>1, ParserIs
<1>3. b \in Nat /\ DOMAIN breakpoints = 1..b
  BY <1>1, <1>2 DEF IsSeq
<1>4. PICK q \in 0..b :
        /\ Patched = q+1..b /\ Cardinality(Patched) = b - q
        /\ \A i \in 1..q : breakpoints[i].block_depth < in[Len(open)].blocks
        /\ \A i \in q+1..b : breakpoints[i].block_depth = n - 1 /\ in[Len(open)].blocks = n - 1
  BY <1>1, <1>2, PatchedIs
<1>5. n = in[Len(open)].blocks + 1 /\ in[Len(open)].blocks \in Nat /\ in[Len(open)].level = Len(functions)
  BY <1>1, HereIs
<1>6. BreakpointsOK(in, functions, open, breakpoints, n)
  BY <1>2 DEF Parsing
<1>7. \A i \in 1..b : breakpoints[i].operand \in Nat
  BY <1>1, <1>6 DEF BreakpointsOK
<1>8. breakpoints' = SubSeq(breakpoints, 1, q)
  <2>1. breakpoints' = SubSeq(breakpoints, 1, b - Cardinality(Patched))
    BY <1>1, Zenon DEF EndBlock
  <2>2. b - Cardinality(Patched) = q
    BY <1>3, <1>4
  <2> QED
    BY <2>1, <2>2
<1>9. IsSeq(breakpoints') /\ Len(breakpoints') = q /\ \A i \in 1..q : breakpoints'[i] = breakpoints[i]
  <2>1. q \in 0..Len(breakpoints)
    BY <1>1
  <2> QED
    BY <1>2, <1>8, <2>1, PrefixIs
<1>10. IsSeq(blocks') /\ Len(blocks') = in[Len(open)].blocks
  <2>1. Len(blocks) # 0 /\ blocks' = Front(blocks)
    BY <1>1, <1>5 DEF EndBlock
  <2>2. IsSeq(blocks') /\ Len(blocks') = n - 1
    BY <1>1, <1>2, <2>1, FrontIs
  <2> QED
    BY <1>5, <2>2
<1>11. Leaves(in, q)
  <2>1. \A i \in q+1..b : i \in 1..b
    BY <1>3
  <2>2. \A i \in 1..q : i \in 1..b
    BY <1>3
  <2> QED
    BY <1>1, <1>4, <1>7, <1>9, <1>10, <2>1, <2>2 DEF Leaves
<1>12. status' = "undefined" \/ (status' = status /\ \A i \in Patched : breakpoints[i].function = Len(functions))
  BY <1>2 DEF EndBlock
<1>13. ASSUME \A i \in Patched : breakpoints[i].function = Len(functions) PROVE HereToPatch
  <2>1. SUFFICES ASSUME NEW i \in Patched PROVE JumpAt(Current.code, breakpoints[i].operand)
    BY <1>13 DEF HereToPatch
  <2>2. /\ breakpoints[i].function = Len(functions) /\ i \in 1..b
        /\ breakpoints[i].block_depth = n - 1 /\ in[Len(open)].blocks = n - 1
    BY <1>3, <1>4, <1>13, <2>1
  <2>3. Len(open) \in 1..Len(open)
    BY <1>2
  <2>4. Even(in, open, breakpoints[i])
    BY <1>5, <2>2, <2>3 DEF Even
  <2> QED
    BY <1>1, <1>2, <1>6, <2>2, <2>4 DEF BreakpointsOK
<1> QED
  BY <1>11, <1>12, <1>13

(* The function a block ends in; s says whether a scope does with it.      *)
LeftBy(g, s) == IF s THEN EndScope(PatchBreaks(g)) ELSE PatchBreaks(g)

Left(g, h, cs, d, ps) == Inward(g, h, cs, {}) /\ h.depth = d /\ Loose(h.code) = Loose(g.code) \ ps

LEMMA LeftIs ==
  ASSUME NEW g, NEW cs, FunctionOK(g, cs), NEW ps, ps = {breakpoints[i].operand : i \in Patched},
         \A k \in ps : JumpAt(g.code, k), NEW s \in BOOLEAN, NEW d \in Nat, g.depth = d + (IF s THEN 1 ELSE 0),
         NEW h, h = LeftBy(g, s)
  PROVE  Left(g, h, cs, d, ps)
<1> USE DEF Left
<1>1. PICK p : p = PatchBreaks(g)
  OBVIOUS
<1>2. FunctionOK(p, cs) /\ SameShape(g, p) /\ Longer(g.code, p.code) /\ Loose(p.code) = Loose(g.code) \ ps
  BY <1>1, PatchBreaksIs
<1>3. IsSeq(g.code) /\ IsSeq(p.code)
  BY <1>2 DEF FunctionOK, CodeOK
<1>4. CASE ~s
  <2>1. h = p /\ g.depth = d
    BY <1>1, <1>4 DEF LeftBy
  <2> QED
    BY <1>2, <1>3, <2>1 DEF Inward, SameShape
<1>5. CASE s
  <2>1. h = EndScope(p) /\ g.depth = d + 1
    BY <1>1, <1>5 DEF LeftBy
  <2>2. p.depth = d + 1 /\ p.depth # 0 /\ p.outsiders = g.outsiders
    BY <1>2, <2>1 DEF SameShape
  <2>3. FunctionOK(h, cs) /\ h.depth = p.depth - 1 /\ h.outsiders = p.outsiders /\ Longer(p.code, h.code) /\ Loose(h.code) = Loose(p.code)
    BY <1>2, <2>1, <2>2, EndScopeIs
  <2>4. IsSeq(h.code)
    BY <2>3 DEF FunctionOK, CodeOK
  <2>5. Longer(g.code, h.code)
    BY <1>2, <1>3, <2>3, <2>4, LongerTransitive
  <2>6. h.depth = d
    BY <2>2, <2>3
  <2> QED
    BY <1>2, <1>3, <2>2, <2>3, <2>5, <2>6 DEF Inward
<1> QED
  BY <1>4, <1>5

LEMMA LeftKeeps ==
  ASSUME NEW g, NEW cs, FunctionOK(g, cs), NEW s \in BOOLEAN, s => g.depth # 0, NEW h, h = LeftBy(g, s)
  PROVE  Shaped(h)
<1>1. PICK p : p = PatchBreaks(g)
  OBVIOUS
<1>2. IsFunction(g) /\ LocalsOK(g.locals) /\ g.depth \in Nat
  BY DEF FunctionOK
<1>3. SameShape(g, p) /\ IsFunction(p)
  BY <1>1, <1>2, PatchBreaksKeeps
<1>4. p.depth = g.depth /\ p.locals = g.locals
  BY <1>3 DEF SameShape
<1>5. CASE ~s
  BY <1>1, <1>2, <1>4, <1>5 DEF LeftBy, Shaped, LocalsOK
<1>6. CASE s
  <2>1. h = EndScope(p)
    BY <1>1, <1>6 DEF LeftBy
  <2> QED
    BY <1>2, <1>3, <1>4, <1>6, <2>1, EndScopeKeeps
<1> QED
  BY <1>5, <1>6

(* What a statement that is a block does at its end.                       *)
BlockEnds(in, o, g, y, s) ==
  /\ Pushes(o) /\ ~Opens(o) /\ EndBlock /\ Inward(Current, g, compiled, y)
  /\ s \in BOOLEAN /\ g.depth = in[Len(open)].depth + (IF s THEN 1 ELSE 0)
  /\ Becomes(LeftBy(g, s)) /\ compiled' = compiled /\ continue_to' = in[Len(open)].continue
  /\ regular' \in BOOLEAN
  /\ regular' => regular /\ y = {} /\ (Holds(o) => o.jump \notin Loose(g.code))

LEMMA BlockEndsKept ==
  ASSUME CompiledOK(compiled), NEW in, ParserOK(in), NEW kind, EndingBlock(kind), NEW o, o = Last(open),
         NEW g, NEW y, NEW s, BlockEnds(in, o, g, y, s)
  PROVE  Kept
<1>1. /\ Len(open) # 0 /\ o = open[Len(open)]
      /\ open' = Ended(Front(open)) /\ dialect' = dialect /\ status = "parsing"
  BY LastIs
<1>2. /\ Pushes(open[Len(open)]) /\ ~Opens(open[Len(open)]) /\ EndBlock /\ Inward(Current, g, compiled, y) /\ s \in BOOLEAN
      /\ g.depth = in[Len(open)].depth + (IF s THEN 1 ELSE 0)
      /\ compiled' = compiled /\ continue_to' = in[Len(open)].continue /\ regular' \in BOOLEAN
  BY <1>1 DEF BlockEnds
<1>3. /\ FunctionsOK(functions, compiled) /\ Current = functions[Len(functions)] /\ IsSeq(functions)
      /\ Len(functions) \in 1..Len(functions) /\ Len(functions) \in Nat
  BY ParserIs DEF FunctionsOK
<1>4. in[Len(open)].depth \in Nat
  BY <1>1, <1>2, HereIs
<1>5. FunctionOK(g, compiled) /\ IsSeq(g.code) /\ IsSeq(Current.code) /\ Longer(Current.code, g.code) /\ g.depth \in Nat
  BY <1>2 DEF Inward, FunctionOK, CodeOK
<1>6. PICK h : h = LeftBy(g, s)
  OBVIOUS
<1>7. PICK gs : gs = Updated(functions, Len(functions), h)
  OBVIOUS
<1>8. functions' = gs
  <2>1. Becomes(h)
    BY <1>6 DEF BlockEnds
  <2> QED
    BY <1>7, <2>1, BecomesIs
<1>9. PICK q : Leaves(in, q)
  BY <1>1, <1>2, EndBlockIs
<1>10. status' = "undefined" \/ (status' = "parsing" /\ HereToPatch)
  BY <1>1, <1>2, EndBlockIs
<1>11. CompiledOK(compiled)' /\ Extends(compiled, compiled')
  BY <1>2, CompiledStays
<1>12. CASE status' = "undefined"
  <2>1. Shaped(h)
    <3>1. s => g.depth # 0
      BY <1>2, <1>4
    <3> QED
      BY <1>2, <1>5, <1>6, <3>1, LeftKeeps
  <2>2. IsSeq(gs) /\ Len(gs) = Len(functions) /\ \A j \in 1..Len(functions) : gs[j] = IF j = Len(functions) THEN h ELSE functions[j]
    BY <1>3, <1>7, UpdateIs
  <2>3. \A j \in 1..Len(functions) : Shaped(functions[j])
    BY <1>3 DEF FunctionsOK, FunctionOK, LocalsOK, Shaped
  <2>4. \A j \in 1..Len(gs) : Shaped(gs[j])
    BY <2>1, <2>2, <2>3
  <2>5. IsSeq(breakpoints') /\ \A i \in 1..Len(breakpoints') : breakpoints'[i].operand \in Nat
    BY <1>9 DEF Leaves
  <2>6. ParserBroken'
    BY <1>8, <1>12, <2>2, <2>4, <2>5 DEF ParserBroken, Shaped
  <2> QED
    BY <1>1, <1>2, <1>11, <1>12, <2>6 DEF Kept
<1>13. CASE status' = "parsing" /\ HereToPatch
  <2>1. PICK ps : ps = {breakpoints[i].operand : i \in Patched}
    OBVIOUS
  <2>2. \A k \in ps : JumpAt(g.code, k)
    <3>1. \A k \in ps : JumpAt(Current.code, k)
      BY <1>13, <2>1 DEF HereToPatch
    <3> QED
      BY <1>5, <3>1, LongerIs
  <2>3. PICK d \in Nat : d = in[Len(open)].depth
    BY <1>4
  <2>4. Inward(g, h, compiled, {}) /\ h.depth = d /\ Loose(h.code) = Loose(g.code) \ ps
    <3>1. g.depth = d + (IF s THEN 1 ELSE 0) /\ s \in BOOLEAN
      BY <1>2, <2>3
    <3>2. FunctionOK(g, compiled)
      BY <1>5
    <3>3. Left(g, h, compiled, d, ps)
      BY <1>6, <2>1, <2>2, <3>1, <3>2, LeftIs
    <3> QED
      BY <3>3 DEF Left
  <2>5. Inward(functions[Len(functions)], h, compiled, y)
    <3>1. Inward(Current, h, compiled, y \cup {})
      BY <1>2, <2>4, InwardTransitive
    <3>2. y \cup {} = y
      OBVIOUS
    <3> QED
      BY <1>3, <3>1, <3>2
  <2>6. Steps(functions, gs, compiled, y) /\ gs[Len(functions)] = h
    BY <1>3, <1>7, <2>5, StepsInner
  <2>7. PICK ts : ts = breakpoints'
    OBVIOUS
  <2>8. /\ IsSeq(ts) /\ Len(ts) = q /\ q \in 0..Len(breakpoints) /\ Len(ts) <= Len(breakpoints)
        /\ \A i \in 1..Len(ts) : ts[i] = breakpoints[i] /\ ts[i].block_depth < in[Len(open)].blocks
        /\ IsSeq(blocks') /\ Len(blocks') = in[Len(open)].blocks
    BY <1>9, <2>7 DEF Leaves
  <2>9. ASSUME regular'
        PROVE  /\ regular /\ y = {} /\ (Holds(open[Len(open)]) => open[Len(open)].jump \notin Loose(gs[Len(functions)].code))
               /\ \A i \in Len(ts)+1..Len(breakpoints) :
                    /\ Pushes(open[Len(open)]) /\ breakpoints[i].block_depth = Len(blocks) - 1
                    /\ breakpoints[i].function = Len(functions)
                    /\ breakpoints[i].operand \notin Loose(gs[Len(functions)].code)
    <3>1. regular /\ y = {} /\ (Holds(open[Len(open)]) => open[Len(open)].jump \notin Loose(g.code))
      BY <1>1, <2>9 DEF BlockEnds
    <3>2. Holds(open[Len(open)]) => open[Len(open)].jump \notin Loose(gs[Len(functions)].code)
      BY <2>4, <2>6, <3>1
    <3>3. \A i \in Len(ts)+1..Len(breakpoints) : i \in Patched /\ breakpoints[i].block_depth = Len(blocks) - 1
      BY <1>9, <2>8 DEF Leaves
    <3>4. \A i \in Patched : breakpoints[i].function = Len(functions) /\ breakpoints[i].operand \in ps
      BY <1>13, <2>1 DEF HereToPatch
    <3> QED
      BY <1>2, <2>4, <2>6, <3>1, <3>2, <3>3, <3>4
  <2>10. open' = Ended(Front(open)) /\ UNCHANGED <<compiled, status, dialect>>
    BY <1>1, <1>2, <1>13
  <2>11. Ends(in, gs, ts, y)
    BY <1>1, <1>2, <1>8, <2>3, <2>4, <2>6, <2>7, <2>8, <2>9, <2>10 DEF Ends
  <2> QED
    BY <2>11, EndsKept
<1> QED
  BY <1>10, <1>12, <1>13

-----------------------------------------------------------------------------
LEMMA EndOfBlockKept ==
  ASSUME CompiledOK(compiled), regular \in BOOLEAN, NEW in, ParserOK(in), EndOfBlock PROVE Kept
<1>1. PICK o, f : o = Last(open) /\ f = Current
  OBVIOUS
<1>2. EndingBlock("block") /\ UNCHANGED <<continue_to, compiled>>
  BY DEF EndOfBlock
<1>3. Len(open) # 0 /\ o = open[Len(open)] /\ o.kind = "block"
  BY <1>1, <1>2, LastIs
<1>4. ~Opens(o) /\ ~Holds(o) /\ Scopes(o) = 1 /\ (Pushes(o) <=> o.type = "Clean")
  BY <1>3 DEF Opens, Pushes, Holds, Scopes
<1>5. FunctionOK(f, compiled) /\ IsSeq(f.code)
  BY <1>1, ParserIs
<1>6. f.depth = in[Len(open)].depth + 1 /\ in[Len(open)].depth \in Nat /\ in[Len(open)].continue = continue_to
  BY <1>1, <1>3, <1>4, HereIs
<1>7. CASE o.type = "Clean"
  <2>1. EndBlock /\ Becomes(EndScope(PatchBreaks(f))) /\ regular' = (regular /\ BreaksAreEven(f))
    BY <1>1, <1>7, Zenon DEF EndOfBlock
  <2>2. Inward(f, f, compiled, {})
    BY <1>5, LongerSame DEF Inward
  <2>3. Becomes(LeftBy(f, TRUE))
    BY <2>1 DEF LeftBy
  <2>4. regular' \in BOOLEAN /\ (regular' => regular)
    BY <2>1
  <2>5. BlockEnds(in, o, f, {}, TRUE)
    BY <1>1, <1>2, <1>4, <1>6, <1>7, <2>1, <2>2, <2>3, <2>4 DEF BlockEnds
  <2> QED
    BY <1>1, <1>2, <2>5, BlockEndsKept
<1>8. CASE o.type # "Clean"
  <2>1. Becomes(EndScope(f)) /\ UNCHANGED <<status, blocks, breakpoints, regular>>
    BY <1>1, <1>8, Zenon DEF EndOfBlock
  <2>2. PICK g : g = EndScope(f)
    OBVIOUS
  <2>3. f.depth # 0
    BY <1>6
  <2>4. FunctionOK(g, compiled) /\ g.depth = f.depth - 1 /\ g.outsiders = f.outsiders /\ Longer(f.code, g.code) /\ Loose(g.code) = Loose(f.code)
    BY <1>5, <2>2, <2>3, EndScopeIs
  <2>5. Inward(f, g, compiled, {})
    BY <1>5, <2>4 DEF Inward
  <2>6. f.depth = g.depth + Scopes(o) /\ Scopes(o) \in Nat
    BY <1>4, <1>6, <2>4
  <2>7. UNCHANGED <<status, blocks, breakpoints, continue_to, compiled, regular>>
    BY <1>2, <2>1
  <2>8. Becomes(g)
    BY <2>1, <2>2
  <2>9. Inward(Current, g, compiled, {}) /\ Current.depth = g.depth + Scopes(o)
    BY <1>1, <2>5, <2>6
  <2> QED
    BY <1>1, <1>2, <1>4, <1>8, <2>6, <2>7, <2>8, <2>9, PlainEndsKept
<1> QED
  BY <1>7, <1>8

-----------------------------------------------------------------------------
(* The instruction that jumps back, and the jump out of a loop.            *)
LoopJump(f, x) == IF x \in Unset THEN {Len(f.code) + 1} ELSE {}

LEMMA LoopBackIs ==
  ASSUME NEW f, NEW cs, FunctionOK(f, cs), NEW x, x \in Unset \/ Target(f.code, x), NEW g, g = Emit(f, <<Operand("Loop", x)>>)
  PROVE  Inward(f, g, cs, LoopJump(f, x)) /\ g.depth = f.depth
<1>1. PICK t : t = <<Operand("Loop", x)>>
  OBVIOUS
<1>2. PieceOK(t, f.code, Len(f.outsiders), cs) /\ Loose(t) = (IF x \in Unset THEN {1} ELSE {})
  <2>1. "Loop" \in Jumps /\ t = <<Instruction("Loop", x, Nothing, Nothing)>>
    BY <1>1 DEF Jumps, Operand
  <2> QED
    BY <2>1, JumpIs
<1>3. Emitted(f, g, t, cs)
  <2>1. PieceOK(t, f.code, Len(f.outsiders), cs) /\ g = Emit(f, t)
    BY <1>1, <1>2
  <2> QED
    BY <2>1, EmitIs
<1>4. Shifted(Len(f.code), Loose(t)) = LoopJump(f, x)
  BY <1>2 DEF Shifted, LoopJump
<1>5. IsSeq(f.code)
  BY DEF FunctionOK, CodeOK
<1> QED
  BY <1>3, <1>4, <1>5 DEF Emitted, Inward, SameShape

LEMMA PatchedPopIs ==
  ASSUME NEW f, NEW cs, FunctionOK(f, cs), NEW j, JumpAt(f.code, j), NEW g, g = Emit(Patch(f, j), <<Do("Pop")>>)
  PROVE  Inward(f, g, cs, {}) /\ g.depth = f.depth /\ j \notin Loose(g.code)
<1>1. PICK p, u : p = Patch(f, j) /\ u = <<Do("Pop")>>
  OBVIOUS
<1>2. FunctionOK(p, cs) /\ SameShape(f, p) /\ Longer(f.code, p.code) /\ Loose(p.code) = Loose(f.code) \ {j}
  BY <1>1, PatchIs
<1>3. FunctionOK(g, cs) /\ SameShape(p, g) /\ Longer(p.code, g.code) /\ Loose(g.code) = Loose(p.code)
  <2>1. Straight(u, Len(p.outsiders))
    BY <1>1, OrdinaryCode, OrdinariesAre
  <2>2. g = Emit(p, u)
    BY <1>1
  <2> QED
    BY <1>2, <2>1, <2>2, EmitStraight
<1>4. IsSeq(f.code) /\ IsSeq(p.code) /\ IsSeq(g.code)
  BY <1>2, <1>3 DEF FunctionOK, CodeOK
<1>5. Longer(f.code, g.code)
  BY <1>2, <1>3, <1>4, LongerTransitive
<1> QED
  BY <1>2, <1>3, <1>4, <1>5 DEF Inward, SameShape

LEMMA EndOfWhileKept ==
  ASSUME CompiledOK(compiled), regular \in BOOLEAN, NEW in, ParserOK(in), EndOfWhile PROVE Kept
<1>1. PICK o, f, x, j : o = Last(open) /\ f = Current /\ x = Last(open).start /\ j = Last(open).jump
  OBVIOUS
<1>2. PICK e : e = Emit(f, <<Operand("Loop", x)>>)
  OBVIOUS
<1>3. PICK g : g = Emit(Patch(e, j), <<Do("Pop")>>)
  OBVIOUS
<1>4. /\ EndingBlock("while") /\ EndBlock /\ Becomes(PatchBreaks(g)) /\ regular' = (regular /\ BreaksAreEven(g))
      /\ UNCHANGED <<continue_to, compiled>>
  BY <1>1, <1>2, <1>3, Zenon DEF EndOfWhile
<1>5. Len(open) # 0 /\ o = open[Len(open)] /\ o.kind = "while"
  BY <1>1, <1>4, LastIs
<1>6. ~Opens(o) /\ Holds(o) /\ Scopes(o) = 0 /\ Pushes(o)
  BY <1>5 DEF Opens, Pushes, Holds, Scopes
<1>7. FunctionOK(f, compiled) /\ IsSeq(f.code) /\ f.depth \in Nat
  BY <1>1, ParserIs DEF FunctionOK
<1>8. /\ f.depth = in[Len(open)].depth + 0 /\ in[Len(open)].depth \in Nat /\ in[Len(open)].continue = continue_to
      /\ JumpAt(f.code, j) /\ Target(f.code, x)
  <2>1. in[Len(open)].level = Len(functions) /\ ContextOK(o, in[Len(open)], functions)
    BY <1>5, <1>6, HereIs
  <2>2. Target(f.code, x)
    <3>1. f = functions[Len(functions)]
      BY <1>1, ParserIs
    <3> QED
      BY <1>1, <1>5, <2>1, <3>1 DEF ContextOK
  <2> QED
    BY <1>1, <1>5, <1>6, <2>2, HereIs
<1>9. Inward(f, e, compiled, {}) /\ e.depth = f.depth
  <2>1. LoopJump(f, x) = {}
    BY <1>7, <1>8 DEF LoopJump, Unset, Target, IsSeq
  <2>2. Inward(f, e, compiled, LoopJump(f, x)) /\ e.depth = f.depth
    BY <1>2, <1>7, <1>8, LoopBackIs
  <2> QED
    BY <2>1, <2>2
<1>10. FunctionOK(e, compiled) /\ IsSeq(e.code) /\ JumpAt(e.code, j)
  <2>1. FunctionOK(e, compiled) /\ IsSeq(e.code) /\ Longer(f.code, e.code)
    BY <1>9 DEF Inward, FunctionOK, CodeOK
  <2> QED
    BY <1>7, <1>8, <2>1, LongerIs
<1>11. Inward(e, g, compiled, {}) /\ g.depth = e.depth /\ j \notin Loose(g.code)
  BY <1>3, <1>10, PatchedPopIs
<1>12. Inward(f, g, compiled, {})
  <2>1. Inward(f, g, compiled, {} \cup {})
    BY <1>9, <1>11, InwardTransitive
  <2> QED
    BY <2>1
<1>13. Becomes(LeftBy(g, FALSE)) /\ regular' \in BOOLEAN /\ (regular' => regular)
  BY <1>4 DEF LeftBy
<1>14. BlockEnds(in, o, g, {}, FALSE)
  BY <1>1, <1>4, <1>6, <1>8, <1>9, <1>11, <1>12, <1>13 DEF BlockEnds
<1> QED
  BY <1>1, <1>4, <1>14, BlockEndsKept

-----------------------------------------------------------------------------
LEMMA CopiedBackIs ==
  ASSUME NEW f, NEW cs, FunctionOK(f, cs), NEW v, NEW d \in Nat, f.depth = IF v = -1 THEN d ELSE d + 1,
         NEW g, g = CopiedBack(f, v)
  PROVE  Inward(f, g, cs, {}) /\ g.depth = d
<1>1. IsSeq(f.code)
  BY DEF FunctionOK, CodeOK
<1>2. CASE v = -1
  <2>1. g = f
    BY <1>2 DEF CopiedBack
  <2> QED
    BY <1>1, <1>2, <2>1, LongerSame DEF Inward
<1>3. CASE v # -1
  <2>1. PICK a, b : /\ a = Instruction("Copy_From_Idx", v + 1, f.locals[v + 2].decl, Nothing)
                    /\ b = Instruction("Copy_Top_To_Idx", v, f.locals[v + 1].decl, Nothing)
    OBVIOUS
  <2>2. PICK t : t = <<a, b, Do("Pop")>>
    OBVIOUS
  <2>3. g = EndScope(Emit(f, t))
    BY <1>3, <2>1, <2>2, Zenon DEF CopiedBack
  <2>4. Straight(t, Len(f.outsiders))
    <3>1. Straight(<<a>>, Len(f.outsiders)) /\ Straight(<<b>>, Len(f.outsiders))
      BY <2>1, OrdinariesAre, OrdinaryIs
    <3>2. Straight(<<a, b>>, Len(f.outsiders))
      BY <3>1, StraightPair
    <3>3. Straight(<<Do("Pop")>>, Len(f.outsiders))
      BY OrdinariesAre, OrdinaryCode
    <3>4. PICK u, c : u = <<a, b>> /\ c = Do("Pop")
      OBVIOUS
    <3>5. Straight(Append(u, c), Len(f.outsiders))
      BY <3>2, <3>3, <3>4, StraightAppend
    <3>6. IsSeq(u) /\ Len(u) = 2 /\ u[1] = a /\ u[2] = b
      BY <3>4, TuplesAre
    <3>7. t = <<a, b, c>>
      BY <2>2, <3>4
    <3>8. IsSeq(t) /\ Len(t) = 3 /\ t[1] = a /\ t[2] = b /\ t[3] = c
      BY <3>7, TuplesAre
    <3>9. PICK w : w = Append(u, c)
      OBVIOUS
    <3>10. IsSeq(w) /\ Len(w) = 3 /\ w[1] = a /\ w[2] = b /\ w[3] = c
      <4>1. /\ IsSeq(w) /\ Len(w) = Len(u) + 1 /\ w[Len(u) + 1] = c
            /\ \A i \in 1..Len(u) : w[i] = u[i]
        <5>1. IsSeq(u)
          BY <3>6
        <5>2. /\ IsSeq(Append(u, c)) /\ Len(Append(u, c)) = Len(u) + 1 /\ Append(u, c)[Len(u) + 1] = c
              /\ \A i \in 1..Len(u) : Append(u, c)[i] = u[i]
          BY <5>1, AppendIs
        <5> QED
          BY <3>9, <5>2
      <4>2. 1 \in 1..Len(u) /\ 2 \in 1..Len(u)
        BY <3>6
      <4> QED
        BY <3>6, <4>1, <4>2
    <3>11. w = t
      BY <3>8, <3>10, SameSeq
    <3> QED
      BY <3>5, <3>9, <3>11
  <2>5. PICK e : e = Emit(f, t)
    OBVIOUS
  <2>6. FunctionOK(e, cs) /\ SameShape(f, e) /\ Longer(f.code, e.code) /\ Loose(e.code) = Loose(f.code)
    BY <2>4, <2>5, EmitStraight
  <2>7. e.depth = d + 1 /\ e.depth # 0
    BY <1>3, <2>6 DEF SameShape
  <2>8. FunctionOK(g, cs) /\ g.depth = e.depth - 1 /\ g.outsiders = e.outsiders /\ Longer(e.code, g.code) /\ Loose(g.code) = Loose(e.code)
    BY <2>3, <2>5, <2>6, <2>7, EndScopeIs
  <2>9. IsSeq(e.code) /\ IsSeq(g.code)
    BY <2>6, <2>8 DEF FunctionOK, CodeOK
  <2>10. Longer(f.code, g.code)
    BY <1>1, <2>6, <2>8, <2>9, LongerTransitive
  <2>11. g.depth = d
    BY <2>7, <2>8
  <2> QED
    BY <1>1, <2>6, <2>8, <2>10, <2>11 DEF Inward, SameShape
<1> QED
  BY <1>2, <1>3

LEMMA EndOfForKept ==
  ASSUME CompiledOK(compiled), regular \in BOOLEAN, NEW in, ParserOK(in), EndOfFor PROVE Kept
<1>1. PICK o, f : o = Last(open) /\ f = Current
  OBVIOUS
<1>2. PICK v, x, j : v = o.variable /\ x = o.increment /\ j = o.jump
  OBVIOUS
<1>3. PICK b : b = CopiedBack(f, v)
  OBVIOUS
<1>4. PICK e : e = Emit(b, <<Operand("Loop", x)>>)
  OBVIOUS
<1>5. PICK g : g = IF j = -1 THEN e ELSE Emit(Patch(e, j), <<Do("Pop")>>)
  OBVIOUS
<1>6. /\ EndingBlock("for") /\ EndBlock /\ Becomes(EndScope(PatchBreaks(g))) /\ regular' = (regular /\ BreaksAreEven(g))
      /\ continue_to' = o.continue /\ compiled' = compiled
  BY <1>1, <1>2, <1>3, <1>4, <1>5, Zenon DEF EndOfFor
<1>7. Len(open) # 0 /\ o = open[Len(open)] /\ o.kind = "for"
  BY <1>1, <1>6, LastIs
<1>8. ~Opens(o) /\ Holds(o) /\ Scopes(o) = (IF v = -1 THEN 1 ELSE 2) /\ Pushes(o)
  BY <1>2, <1>7 DEF Opens, Pushes, Holds, Scopes
<1>9. FunctionOK(f, compiled) /\ IsSeq(f.code) /\ f.depth \in Nat
  BY <1>1, ParserIs DEF FunctionOK
<1>10. /\ f.depth = in[Len(open)].depth + Scopes(o) /\ in[Len(open)].depth \in Nat /\ in[Len(open)].continue = o.continue
       /\ j = -1 \/ JumpAt(f.code, j)
       /\ in[Len(open)].level = Len(functions) /\ ContextOK(o, in[Len(open)], functions)
  BY <1>1, <1>2, <1>7, <1>8, HereIs
<1>11. x = -1 \/ Target(f.code, x)
  <2>1. f = functions[Len(functions)]
    BY <1>1, ParserIs
  <2> QED
    BY <1>2, <1>7, <1>10, <2>1 DEF ContextOK
<1>12. PICK d \in Nat : d = in[Len(open)].depth + 1
  BY <1>10
<1>13. Inward(f, b, compiled, {}) /\ b.depth = d
  <2>1. f.depth = IF v = -1 THEN d ELSE d + 1
    <3>1. CASE v = -1
      BY <1>8, <1>10, <1>12, <3>1
    <3>2. CASE v # -1
      BY <1>8, <1>10, <1>12, <3>2
    <3> QED
      BY <3>1, <3>2
  <2> QED
    BY <1>3, <1>9, <1>12, <2>1, CopiedBackIs
<1>14. FunctionOK(b, compiled) /\ IsSeq(b.code) /\ Longer(f.code, b.code)
  BY <1>13 DEF Inward, FunctionOK, CodeOK
<1>15. /\ x \in Unset \/ Target(b.code, x)
       /\ j = -1 \/ JumpAt(b.code, j)
  <2>1. x = -1 => x \in Unset
    BY DEF Unset
  <2> QED
    BY <1>9, <1>10, <1>11, <1>14, <2>1, LongerIs
<1>16. Inward(b, e, compiled, LoopJump(b, x)) /\ e.depth = b.depth
  BY <1>4, <1>14, <1>15, LoopBackIs
<1>17. FunctionOK(e, compiled) /\ IsSeq(e.code) /\ (j = -1 \/ JumpAt(e.code, j))
  <2>1. FunctionOK(e, compiled) /\ IsSeq(e.code) /\ Longer(b.code, e.code)
    BY <1>16 DEF Inward, FunctionOK, CodeOK
  <2> QED
    BY <1>14, <1>15, <2>1, LongerIs
<1>18. Inward(e, g, compiled, {}) /\ g.depth = e.depth /\ j \notin Loose(g.code)
  <2>1. CASE j = -1
    <3>1. g = e
      BY <1>5, <2>1
    <3>2. j \notin Loose(g.code)
      BY <1>17, <2>1, <3>1 DEF Loose, IsSeq
    <3> QED
      BY <1>17, <3>1, <3>2, LongerSame DEF Inward
  <2>2. CASE j # -1
    <3>1. g = Emit(Patch(e, j), <<Do("Pop")>>) /\ JumpAt(e.code, j)
      BY <1>5, <1>17, <2>2
    <3> QED
      BY <1>17, <3>1, PatchedPopIs
  <2> QED
    BY <2>1, <2>2
<1>19. PICK y : y = LoopJump(b, x)
  OBVIOUS
<1>20. Inward(f, g, compiled, y)
  <2>1. Inward(f, e, compiled, {} \cup y)
    BY <1>13, <1>16, <1>19, InwardTransitive
  <2>2. Inward(f, g, compiled, ({} \cup y) \cup {})
    BY <1>18, <2>1, InwardTransitive
  <2>3. ({} \cup y) \cup {} = y
    OBVIOUS
  <2> QED
    BY <2>2, <2>3
<1>21. ASSUME regular' PROVE regular /\ y = {}
  <2>1. regular
    BY <1>6, <1>21
  <2>2. \A k \in 1..Len(open) : open[k].kind = "for" => open[k].increment # -1
    BY <2>1 DEF ParserOK, Regularly
  <2>3. Len(open) \in 1..Len(open)
    BY <1>7, ParserIs
  <2>4. x # -1
    BY <1>2, <1>7, <2>2, <2>3
  <2>5. x \notin Unset
    BY <1>9, <1>11, <2>4 DEF Target, Unset, IsSeq
  <2> QED
    BY <1>19, <2>1, <2>5 DEF LoopJump
<1>22. Becomes(LeftBy(g, TRUE)) /\ regular' \in BOOLEAN
  BY <1>6 DEF LeftBy
<1>23. BlockEnds(in, o, g, y, TRUE)
  <2>1. g.depth = in[Len(open)].depth + (IF TRUE THEN 1 ELSE 0)
    BY <1>12, <1>13, <1>16, <1>18
  <2>2. Holds(o) => o.jump \notin Loose(g.code)
    BY <1>2, <1>18
  <2>3. Inward(Current, g, compiled, y)
    BY <1>1, <1>20
  <2>4. continue_to' = in[Len(open)].continue
    BY <1>6, <1>10
  <2> QED
    BY <1>6, <1>8, <1>21, <1>22, <2>1, <2>2, <2>3, <2>4 DEF BlockEnds
<1> QED
  BY <1>1, <1>6, <1>23, BlockEndsKept

-----------------------------------------------------------------------------
(* One more function has been compiled.                                    *)
Added(cs, ds, g) ==
  /\ CompiledOK(ds) /\ Extends(cs, ds) /\ IsSeq(cs) /\ IsSeq(ds) /\ Len(ds) = Len(cs) + 1
  /\ ds[Len(cs) + 1].outsiders = g.outsiders
  /\ Loose(g.code) = {} /\ NothingLoose(cs) => NothingLoose(ds)

LEMMA CompiledIs ==
  ASSUME NEW cs, CompiledOK(cs), NEW g, FunctionOK(g, cs), NEW a, NEW ds, ds = Append(cs, Compiled(g, a))
  PROVE  Added(cs, ds, g)
<1>1. PICK n, t : n = Len(g.outsiders) /\ t = ReturnNothing(g)
  OBVIOUS
<1>2. PICK k : k = Compiled(g, a)
  OBVIOUS
<1>3. k.code = g.code \o t /\ k.outsiders = g.outsiders
  BY <1>1, <1>2 DEF Compiled
<1>4. CodeOK(g.code, n, cs) /\ OutsidersOK(g.outsiders) /\ n \in Nat /\ IsSeq(g.code) /\ Len(g.code) \in Nat
  BY <1>1 DEF FunctionOK, CodeOK, OutsidersOK, IsSeq
<1>5. Straight(t, n) /\ Len(t) = 2
  BY <1>1, ReturnNothingIs, TuplesAre DEF ReturnNothing
<1>6. PieceOK(t, g.code, n, cs) /\ Loose(t) = {}
  BY <1>5, StraightIs
<1>7. /\ CodeOK(k.code, n, cs) /\ Loose(k.code) = Loose(g.code) \cup Shifted(Len(g.code), Loose(t))
      /\ Len(k.code) = Len(g.code) + Len(t)
  <2>1. PICK c : c = g.code
    OBVIOUS
  <2>2. CodeOK(c, n, cs) /\ PieceOK(t, c, n, cs)
    BY <1>4, <1>6, <2>1
  <2>3. /\ CodeOK(c \o t, n, cs) /\ Loose(c \o t) = Loose(c) \cup Shifted(Len(c), Loose(t))
        /\ Len(c \o t) = Len(c) + Len(t)
    BY <2>2, LonglyConcat
  <2> QED
    BY <1>3, <2>1, <2>3
<1>8. Loose(k.code) = Loose(g.code) /\ Len(k.code) = Len(g.code) + 2
  BY <1>5, <1>6, <1>7 DEF Shifted
<1>9. \A i \in 1..Len(k.code) : k.code[i].op \in Jumps => k.code[i].x <= Len(k.code)
  <2>1. SUFFICES ASSUME NEW i \in 1..Len(k.code), k.code[i].op \in Jumps PROVE k.code[i].x <= Len(k.code)
    OBVIOUS
  <2>2. IsSeq(t)
    BY <1>5 DEF Straight
  <2>3. /\ \A j \in 1..Len(g.code) : k.code[j] = g.code[j]
        /\ \A j \in 1..Len(t) : k.code[Len(g.code) + j] = t[j]
    BY <1>3, <1>4, <2>2, ConcatIs
  <2>4. CASE i \in 1..Len(g.code)
    <3>1. PICK x : x = g.code[i].x
      OBVIOUS
    <3>2. x \in Unset \/ Target(g.code, x)
      BY <1>4, <2>1, <2>3, <2>4, <3>1 DEF CodeOK
    <3>3. x \in Int /\ x <= Len(g.code) + 1
      BY <1>4, <3>2 DEF Unset, Target
    <3>4. k.code[i].x = x
      BY <2>3, <2>4, <3>1
    <3> QED
      BY <1>4, <1>8, <3>3, <3>4
  <2>5. CASE i \notin 1..Len(g.code)
    <3>1. PICK j : j = i - Len(g.code)
      OBVIOUS
    <3>2. j \in 1..Len(t) /\ i = Len(g.code) + j
      BY SMTT(30), <1>4, <1>5, <1>8, <2>1, <2>5, <3>1
    <3>3. k.code[i] = t[j]
      BY <2>3, <3>2
    <3>4. t[j].op \notin Jumps
      BY <1>5, <3>2 DEF Straight
    <3> QED
      BY <2>1, <3>3, <3>4
  <2> QED
    BY <2>4, <2>5
<1>10. IsSeq(cs) /\ Len(cs) \in Nat
  BY DEF CompiledOK, IsSeq
<1>11. /\ IsSeq(ds) /\ Len(ds) = Len(cs) + 1 /\ ds[Len(cs) + 1] = k
       /\ \A i \in 1..Len(cs) : ds[i] = cs[i]
  <2>1. ds = Append(cs, k)
    BY <1>2
  <2> QED
    BY <1>10, <2>1, AppendIs
<1>12. Extends(cs, ds)
  BY <1>10, <1>11 DEF Extends
<1>13. \A i \in 1..Len(ds) : i \in 1..Len(cs) \/ i = Len(cs) + 1
  BY <1>10, <1>11
<1>14. CompiledOK(ds)
  <2>1. SUFFICES ASSUME NEW i \in 1..Len(ds)
                 PROVE  /\ OutsidersOK(ds[i].outsiders) /\ CodeOK(ds[i].code, Len(ds[i].outsiders), ds)
                        /\ \A j \in 1..Len(ds[i].code) : ds[i].code[j].op \in Jumps => ds[i].code[j].x <= Len(ds[i].code)
    BY <1>11 DEF CompiledOK
  <2>2. CASE i = Len(cs) + 1
    <3>1. n <= n
      BY <1>4
    <3>2. CodeOK(k.code, n, ds)
      BY <1>4, <1>7, <1>10, <1>11, <1>12, <3>1, CodeStays
    <3> QED
      BY <1>1, <1>3, <1>4, <1>9, <1>11, <2>2, <3>2
  <2>3. CASE i \in 1..Len(cs)
    <3>1. PICK c, m : c = cs[i] /\ m = Len(cs[i].outsiders)
      OBVIOUS
    <3>2. /\ OutsidersOK(c.outsiders) /\ CodeOK(c.code, m, cs)
          /\ \A j \in 1..Len(c.code) : c.code[j].op \in Jumps => c.code[j].x <= Len(c.code)
      BY <2>3, <3>1 DEF CompiledOK
    <3>3. m \in Nat /\ m <= m
      BY <3>1, <3>2 DEF OutsidersOK, IsSeq
    <3>4. CodeOK(c.code, m, ds)
      BY <1>10, <1>11, <1>12, <3>2, <3>3, CodeStays
    <3> QED
      BY <1>11, <2>3, <3>1, <3>2, <3>4
  <2> QED
    BY <1>13, <2>2, <2>3
<1>15. ASSUME Loose(g.code) = {}, NothingLoose(cs) PROVE NothingLoose(ds)
  BY <1>8, <1>11, <1>13, <1>15 DEF NothingLoose
<1> QED
  BY <1>3, <1>10, <1>11, <1>12, <1>14, <1>15 DEF Added

(* The functions around the one that ends.                                 *)
Around(fs, gs, ds) ==
  /\ FunctionsOK(gs, ds) /\ Len(gs) = Len(fs) - 1 /\ Len(gs) \in 1..Len(gs)
  /\ \A l \in 1..Len(gs) : gs[l] = fs[l]

LEMMA FrontStays ==
  ASSUME NEW fs, NEW cs, FunctionsOK(fs, cs), Len(fs) # 1, NEW ds, IsSeq(cs), IsSeq(ds), Extends(cs, ds), NEW gs, gs = Front(fs)
  PROVE  Around(fs, gs, ds)
<1> USE DEF Around
<1>1. PICK n : n = Len(fs)
  OBVIOUS
<1>2. n \in Nat /\ n # 0 /\ n # 1 /\ IsSeq(fs)
  BY <1>1 DEF FunctionsOK, IsSeq
<1>3. IsSeq(gs) /\ Len(gs) = n - 1 /\ \A l \in 1..n-1 : gs[l] = fs[l]
  BY <1>1, <1>2, FrontIs
<1>4. \A l \in 1..n-1 : FunctionOK(gs[l], ds)
  <2>1. SUFFICES ASSUME NEW l \in 1..n-1 PROVE FunctionOK(gs[l], ds)
    OBVIOUS
  <2>2. PICK f, m : f = fs[l] /\ m = Len(fs[l].outsiders)
    OBVIOUS
  <2>3. FunctionOK(f, cs)
    BY <1>1, <1>2, <2>2 DEF FunctionsOK
  <2>4. CodeOK(f.code, m, cs) /\ m \in Nat /\ m <= m
    BY <2>2, <2>3 DEF FunctionOK, OutsidersOK, IsSeq
  <2>5. CodeOK(f.code, m, ds)
    BY <2>4, CodeStays
  <2> QED
    BY <1>3, <2>2, <2>3, <2>5 DEF FunctionOK
<1>5. gs[1].outsiders = <<>> /\ \A l \in 2..n-1 : FitIn(gs[l].outsiders, Len(gs[l - 1].outsiders))
  <2>1. fs[1].outsiders = <<>> /\ \A l \in 2..n : FitIn(fs[l].outsiders, Len(fs[l - 1].outsiders))
    BY <1>1 DEF FunctionsOK
  <2>2. 1 \in 1..n-1 /\ \A l \in 2..n-1 : l \in 2..n /\ l \in 1..n-1 /\ l - 1 \in 1..n-1
    BY <1>2
  <2> QED
    BY <1>3, <2>1, <2>2
<1> QED
  BY <1>1, <1>2, <1>3, <1>4, <1>5 DEF FunctionsOK

(* The code that creates its closure.                                      *)
ClosureCode(d, height, u) == <<Closure(d, height)>> \o u

LEMMA ClosureCodeIs ==
  ASSUME NEW d, NEW height, NEW u, IsSeq(u), Len(u) <= 1,
         \A k \in 1..Len(u) : IsInstruction(u[k]) /\ u[k].op \in {"Define_Global", "Method"},
         NEW t, t = ClosureCode(d, height, u), NEW c, NEW n, NEW ds, Len(ds) \in Nat, Len(ds) = Len(compiled) + 1,
         Len(compiled) \in Nat, FitIn(ds[Len(compiled) + 1].outsiders, n)
  PROVE  PieceOK(t, c, n, ds) /\ Loose(t) = {}
<1>1. PICK i : i = Closure(d, height)
  OBVIOUS
<1>2. IsInstruction(i) /\ i.op = "Push_Closure" /\ i.x = Len(compiled) + 1
  BY <1>1 DEF Closure, Instruction, IsInstruction
<1>3. PICK s : s = <<i>>
  OBVIOUS
<1>4. IsSeq(s) /\ Len(s) = 1 /\ s[1] = i
  BY <1>3, TuplesAre
<1>5. t = s \o u
  BY <1>1, <1>3 DEF ClosureCode
<1>6. /\ IsSeq(t) /\ Len(t) = Len(s) + Len(u) /\ \A k \in 1..Len(s) : t[k] = s[k]
      /\ \A k \in 1..Len(u) : t[Len(s) + k] = u[k]
  <2>1. IsSeq(s) /\ IsSeq(u)
    BY <1>4
  <2>2. /\ IsSeq(s \o u) /\ Len(s \o u) = Len(s) + Len(u) /\ \A k \in 1..Len(s) : (s \o u)[k] = s[k]
        /\ \A k \in 1..Len(u) : (s \o u)[Len(s) + k] = u[k]
    BY <2>1, ConcatIs
  <2> QED
    BY <1>5, <2>2
<1>7. Len(u) \in Nat
  BY DEF IsSeq
<1>8. t[1] = i /\ Len(t) = 1 + Len(u) /\ \A k \in 1..Len(t) : k = 1 \/ (k = 2 /\ 1 \in 1..Len(u))
  BY <1>4, <1>6, <1>7
<1>9. 1 \in 1..Len(u) => t[2] = u[1]
  BY <1>4, <1>6
<1>10. OperandOK(i, n, ds)
  BY <1>2 DEF OperandOK, OfHeap
<1>11. ASSUME NEW k \in 1..Len(t)
       PROVE  /\ IsInstruction(t[k]) /\ OperandOK(t[k], n, ds) /\ t[k].op \notin Jumps
              /\ t[k].op = "Method" => k > 1 /\ t[k - 1].op = "Push_Closure"
  <2>1. CASE k = 1
    BY <1>2, <1>8, <1>10, <2>1 DEF Jumps
  <2>2. CASE k = 2 /\ 1 \in 1..Len(u)
    <3>1. PICK j : j = u[1]
      OBVIOUS
    <3>2. IsInstruction(j) /\ j.op \in {"Define_Global", "Method"} /\ t[2] = j
      BY <1>9, <2>2, <3>1
    <3>3. OperandOK(j, n, ds) /\ j.op \notin Jumps
      BY <3>2 DEF OperandOK, OfHeap, Jumps
    <3>4. t[2 - 1].op = "Push_Closure"
      BY <1>2, <1>8
    <3> QED
      BY <2>2, <3>2, <3>3, <3>4
  <2> QED
    BY <1>8, <2>1, <2>2
<1> QED
  BY <1>6, <1>11 DEF PieceOK, Loose, Dangling

-----------------------------------------------------------------------------
(* A function ends: one more has been compiled, and code t creates its     *)
(* closure in the function around it.                                      *)
FunctionEnds(o, h, t) ==
  /\ Len(open) # 0 /\ o = open[Len(open)] /\ Opens(o) /\ open' = Ended(Front(open))
  /\ IsSeq(compiled') /\ Added(compiled, compiled', EndScope(Current))
  /\ h = Emit(functions[Len(functions) - 1], t)
  /\ functions' = Updated(Front(functions), Len(functions) - 1, h)
  /\ \A c, n, ds : /\ Len(ds) \in Nat /\ Len(ds) = Len(compiled) + 1
                   /\ FitIn(ds[Len(compiled) + 1].outsiders, n)
                   => PieceOK(t, c, n, ds) /\ Loose(t) = {}
  /\ UNCHANGED <<blocks, breakpoints, continue_to, status, dialect, regular>> /\ status = "parsing"

(* The function around the one the parser is in.                           *)
LEMMA AroundIs ==
  ASSUME NEW in, ParserOK(in), Len(open) # 0, Opens(open[Len(open)])
  PROVE  /\ in[Len(open)].level = Len(functions) - 1 /\ Len(functions) # 1 /\ Len(functions) \in Nat
         /\ Current.depth = 2 /\ in[Len(open)].blocks = Len(blocks) /\ in[Len(open)].continue = continue_to
         /\ functions[Len(functions) - 1].depth = in[Len(open)].depth
<1>1. /\ Nested(in, open, functions) /\ in[Len(open) + 1].level = Len(functions)
      /\ in[Len(open) + 1].depth = Current.depth /\ in[Len(open) + 1].blocks = Len(blocks)
      /\ in[Len(open) + 1].continue = continue_to /\ Len(functions) \in Nat
  BY ParserIs
<1>2. /\ Inside(in[Len(open)], open[Len(open)], in[Len(open) + 1]) /\ ContextOK(open[Len(open)], in[Len(open)], functions)
      /\ in[Len(open)].blocks \in Nat /\ in[Len(open)].level \in 1..Len(functions)
  BY <1>1, OuterIs
<1>3. open[Len(open)].kind # "for" /\ ~Pushes(open[Len(open)])
  BY DEF Opens, Pushes
<1>4. in[Len(open)].level = Len(functions) - 1 /\ Len(functions) # 1
  BY <1>1, <1>2 DEF Inside
<1> QED
  BY <1>1, <1>2, <1>3, <1>4 DEF Inside, ContextOK

LEMMA FunctionEndsKept ==
  ASSUME CompiledOK(compiled), regular \in BOOLEAN, NEW in, ParserOK(in), NEW o, NEW h, NEW t, FunctionEnds(o, h, t)
  PROVE  Kept
<1>1. PICK fs, os, bs, cs, ds, n, c, l, ps, gs, f, g :
        /\ fs = functions /\ os = open /\ bs = breakpoints /\ cs = compiled /\ ds = compiled' /\ n = Len(blocks)
        /\ c = continue_to /\ l = Len(functions) - 1 /\ ps = Ended(Front(open)) /\ gs = functions'
        /\ f = functions[Len(functions) - 1] /\ g = EndScope(Current)
  OBVIOUS
<1>2. /\ Parsing(in, fs, cs, os, bs, n, c) /\ Nested(in, os, fs) /\ IsSeq(os) /\ FunctionsOK(fs, cs) /\ IsSeq(bs)
      /\ Current = fs[Len(fs)] /\ FunctionOK(Current, cs) /\ IsSeq(blocks)
  BY <1>1, ParserIs
<1>3. Len(os) # 0 /\ Opens(os[Len(os)]) /\ open' = ps
  BY <1>1 DEF FunctionEnds
<1>4. /\ in[Len(os)].level = l /\ Len(fs) = l + 1 /\ l \in Nat /\ Len(fs) # 1 /\ Current.depth = 2
      /\ in[Len(os)].blocks = n /\ in[Len(os)].continue = c /\ f.depth = in[Len(os)].depth
  <2>1. /\ in[Len(open)].level = Len(functions) - 1 /\ Len(functions) # 1 /\ Len(functions) \in Nat
        /\ Current.depth = 2 /\ in[Len(open)].blocks = Len(blocks) /\ in[Len(open)].continue = continue_to
        /\ functions[Len(functions) - 1].depth = in[Len(open)].depth
    BY <1>1, <1>3, AroundIs
  <2>2. Len(functions) # 0
    BY <1>1, <1>2 DEF FunctionsOK
  <2> QED
    BY <1>1, <2>1, <2>2
<1>5. FunctionOK(g, cs) /\ g.outsiders = Current.outsiders /\ Loose(g.code) = Loose(Current.code)
  <2>1. Current.depth # 0
    BY <1>4
  <2> QED
    BY <1>1, <1>2, <2>1, EndScopeIs
<1>6. Added(cs, ds, g)
  BY <1>1 DEF FunctionEnds
<1>7. /\ CompiledOK(ds) /\ Extends(cs, ds) /\ IsSeq(cs) /\ IsSeq(ds) /\ Len(ds) = Len(cs) + 1 /\ Len(ds) \in Nat
      /\ ds[Len(cs) + 1].outsiders = g.outsiders
  BY <1>6 DEF Added, IsSeq
<1>8. PICK qs : qs = Front(fs)
  OBVIOUS
<1>9. FunctionsOK(qs, ds) /\ Len(qs) = l /\ l \in 1..l /\ \A k \in 1..l : qs[k] = fs[k]
  <2>1. /\ FunctionsOK(qs, ds) /\ Len(qs) = Len(fs) - 1 /\ Len(qs) \in 1..Len(qs)
        /\ \A k \in 1..Len(qs) : qs[k] = fs[k]
    <3>1. FunctionsOK(fs, cs) /\ Len(fs) # 1
      BY <1>2, <1>4
    <3>2. IsSeq(cs) /\ IsSeq(ds) /\ Extends(cs, ds)
      BY <1>7
    <3>3. Around(fs, qs, ds)
      BY <1>8, <3>1, <3>2, FrontStays
    <3> QED
      BY <3>3 DEF Around
  <2>2. Len(qs) = l
    BY <1>4, <2>1
  <2> QED
    BY <2>1, <2>2
<1>10. f = fs[l] /\ f = qs[Len(qs)] /\ FunctionOK(f, ds)
  BY <1>1, <1>9 DEF FunctionsOK
<1>11. FitIn(ds[Len(cs) + 1].outsiders, Len(f.outsiders))
  <2>1. l + 1 \in 2..Len(fs) /\ (l + 1) - 1 = l
    BY <1>4, <1>9
  <2>2. FitIn(fs[l + 1].outsiders, Len(fs[(l + 1) - 1].outsiders))
    BY <1>2, <2>1 DEF FunctionsOK
  <2>3. ds[Len(cs) + 1].outsiders = fs[l + 1].outsiders
    BY <1>2, <1>4, <1>5, <1>7
  <2> QED
    BY <1>10, <2>1, <2>2, <2>3
<1>12. PieceOK(t, f.code, Len(f.outsiders), ds) /\ Loose(t) = {}
  <2>1. Len(ds) \in Nat /\ Len(ds) = Len(compiled) + 1 /\ FitIn(ds[Len(compiled) + 1].outsiders, Len(f.outsiders))
    BY <1>1, <1>7, <1>11
  <2> QED
    BY <2>1 DEF FunctionEnds
<1>13. Emitted(f, h, t, ds)
  <2>1. h = Emit(f, t) /\ PieceOK(t, f.code, Len(f.outsiders), ds)
    BY <1>1, <1>12 DEF FunctionEnds
  <2> QED
    BY <1>10, <2>1, EmitIs
<1>14. /\ FunctionOK(h, ds) /\ h.depth = f.depth /\ h.outsiders = f.outsiders /\ Longer(f.code, h.code)
       /\ Loose(h.code) = Loose(f.code)
  BY <1>12, <1>13 DEF Emitted, SameShape, Shifted
<1>15. gs = Updated(qs, Len(qs), h)
  BY <1>1, <1>8, <1>9 DEF FunctionEnds
<1>16. FunctionsOK(gs, ds) /\ Len(gs) = l /\ gs[l] = h /\ Onward(qs, gs, l) /\ \A k \in 1..l-1 : gs[k] = qs[k]
  <2>1. h.outsiders = qs[Len(qs)].outsiders /\ Longer(qs[Len(qs)].code, h.code)
    BY <1>10, <1>14
  <2>2. /\ FunctionsOK(gs, ds) /\ Len(gs) = Len(qs) /\ gs[Len(qs)] = h /\ Onward(qs, gs, Len(qs))
        /\ \A k \in 1..Len(qs)-1 : gs[k] = qs[k]
    BY <1>9, <1>14, <1>15, <2>1, InnerIs
  <2> QED
    BY <1>9, <2>2
<1>17. Onward(fs, gs, l)
  <2>1. \A k \in 1..l-1 : k \in 1..l
    BY <1>4
  <2>2. \A k \in 1..l : qs[k] = fs[k]
    BY <1>9
  <2> QED
    BY <1>16, <2>1, <2>2 DEF Onward
<1>18. Parsing(in, gs, ds, Front(os), bs, n, c)
  <2>1. Len(gs) = in[Len(os)].level /\ Onward(fs, gs, Len(gs)) /\ FunctionsOK(gs, ds)
    BY <1>4, <1>16, <1>17
  <2>2. Len(bs) <= Len(bs)
    BY <1>2 DEF IsSeq
  <2>3. \A i \in 1..Len(bs) : bs[i] = bs[i] /\ bs[i].block_depth < in[Len(os)].blocks
    <3>1. \A i \in 1..Len(bs) : bs[i].block_depth \in 0..n-1
      BY <1>2 DEF Parsing, BreakpointsOK
    <3>2. n \in Nat
      BY <1>1, ParserIs
    <3> QED
      BY <1>4, <3>1, <3>2
  <2>4. Parsing(in, gs, ds, Front(os), bs, in[Len(os)].blocks, in[Len(os)].continue)
    BY <1>2, <1>3, <2>1, <2>2, <2>3, ClosedIs
  <2> QED
    BY <1>4, <2>4
<1>19. Nested(in, Front(os), gs)
  BY <1>18 DEF Parsing
<1>20. SameContexts(Front(os), ps)
  BY <1>1, <1>19, SameContextsSame
<1>21. Onward(gs, gs, Len(gs))
  BY <1>16, StepsSame DEF Steps
<1>22. Parsing(in, gs, ds, ps, bs, n, c)
  BY <1>16, <1>18, <1>20, <1>21, ChangedIs
<1>23. ASSUME regular' PROVE Regularly(in, gs, ds, ps, bs, {})
  <2>1. Regularly(in, fs, cs, os, bs, {})
    <3>1. regular
      BY <1>23 DEF FunctionEnds
    <3> QED
      BY <1>1, <3>1 DEF ParserOK
  <2>2. Len(gs) = Len(fs) - 1
    BY <1>4, <1>16
  <2>3. \A k \in 1..Len(gs) : Loose(gs[k].code) \subseteq Loose(fs[k].code)
    <3>1. \A k \in 1..l : k = l \/ k \in 1..l-1
      BY <1>4
    <3>2. Loose(gs[l].code) = Loose(fs[l].code)
      BY <1>10, <1>14, <1>16
    <3>3. \A k \in 1..l-1 : k \in 1..l
      BY <1>4
    <3>4. \A k \in 1..l-1 : gs[k] = fs[k]
      BY <1>9, <1>16, <3>3
    <3> QED
      BY <1>16, <3>1, <3>2, <3>4
  <2>4. Loose(fs[Len(fs)].code) = {} /\ NothingLoose(cs) => NothingLoose(ds)
    BY <1>2, <1>5, <1>6 DEF Added
  <2>5. Regularly(in, gs, ds, Front(os), bs, {})
    BY <1>2, <1>3, <2>1, <2>2, <2>3, <2>4, FunctionClosedRegularly
  <2>6. \A j \in 1..Len(gs) : Loose(gs[j].code) \subseteq Loose(gs[j].code) \cup {k \in {} : j = Len(gs)}
    OBVIOUS
  <2>7. {} \cup {} \subseteq {}
    OBVIOUS
  <2> QED
    BY <1>19, <1>20, <2>5, <2>6, <2>7, ChangedRegularly
<1>24. ParserOK(in)'
  <2>1. /\ functions' = gs /\ compiled' = ds /\ open' = ps /\ breakpoints' = bs /\ continue_to' = c /\ blocks' = blocks
        /\ Len(blocks') = n /\ IsSeq(blocks')
    BY <1>1, <1>2, <1>3 DEF FunctionEnds
  <2>2. in[Len(ps) + 1].depth = gs[Len(gs)].depth
    <3>1. Len(ps) = Len(Front(os))
      BY <1>20 DEF SameContexts
    <3>2. Len(Front(os)) + 1 = Len(os)
      BY <1>2, <1>3, OuterIs
    <3> QED
      BY <1>4, <1>14, <1>16, <3>1, <3>2
  <2> QED
    BY <1>22, <1>23, <2>1, <2>2 DEF ParserOK
<1>25. CompiledOK(compiled)' /\ Extends(compiled, compiled')
  BY <1>1, <1>7
<1>26. status' = "parsing" /\ dialect' = dialect /\ regular' \in BOOLEAN
  BY DEF FunctionEnds
<1> QED
  BY <1>24, <1>25, <1>26 DEF Kept

LEMMA EndOfFunctionKept ==
  ASSUME CompiledOK(compiled), regular \in BOOLEAN, NEW in, ParserOK(in), EndOfFunction PROVE Kept
<1>1. PICK o, f : o = Last(open) /\ f = functions[Innermost - 1]
  OBVIOUS
<1>2. PICK u : u = IF f.depth = 0 THEN <<Operand("Define_Global", o.name)>> ELSE <<>>
  OBVIOUS
<1>3. PICK t : t = ClosureCode(o.decl, o.height, u)
  OBVIOUS
<1>4. PICK h : h = Emit(f, t)
  OBVIOUS
<1>5. /\ EndingBlock("function") /\ compiled' = Append(compiled, Compiled(EndScope(Current), o.arity))
      /\ functions' = [Front(functions) EXCEPT ![Innermost - 1] = h]
      /\ UNCHANGED <<blocks, breakpoints, continue_to, regular, status>>
  BY <1>1, <1>2, <1>3, <1>4, Zenon DEF EndOfFunction, Ending, ClosureCode
<1>6. /\ Len(open) # 0 /\ o = open[Len(open)] /\ o.kind = "function" /\ open' = Ended(Front(open))
      /\ dialect' = dialect /\ status = "parsing"
  BY <1>1, <1>5, LastIs
<1>7. Opens(o)
  BY <1>6 DEF Opens
<1>8. Innermost = Len(functions) /\ FunctionOK(Current, compiled) /\ Current.depth = 2
  BY <1>6, <1>7, AroundIs, ParserIs
<1>9. Added(compiled, compiled', EndScope(Current))
  <2>1. PICK g, ds : g = EndScope(Current) /\ ds = Append(compiled, Compiled(g, o.arity))
    OBVIOUS
  <2>2. Current.depth # 0
    BY <1>8
  <2>3. FunctionOK(g, compiled)
    BY <1>8, <2>1, <2>2, EndScopeIs
  <2>4. Added(compiled, ds, g)
    BY <2>1, <2>3, CompiledIs
  <2> QED
    BY <1>5, <2>1, <2>4
<1>10. IsSeq(u) /\ Len(u) <= 1 /\ \A k \in 1..Len(u) : IsInstruction(u[k]) /\ u[k].op \in {"Define_Global", "Method"}
  <2>1. CASE f.depth = 0
    <3>1. PICK i : i = Operand("Define_Global", o.name)
      OBVIOUS
    <3>2. IsInstruction(i) /\ i.op = "Define_Global"
      BY <3>1 DEF Operand, Instruction, IsInstruction
    <3>3. u = <<i>>
      BY <1>2, <2>1, <3>1
    <3>4. IsSeq(u) /\ Len(u) = 1 /\ u[1] = i
      BY <3>3, TuplesAre
    <3> QED
      BY <3>2, <3>4
  <2>2. CASE f.depth # 0
    <3>1. u = <<>>
      BY <1>2, <2>2
    <3> QED
      BY <3>1, EmptyIs
  <2> QED
    BY <2>1, <2>2
<1>11. \A c, n, ds : /\ Len(ds) \in Nat /\ Len(ds) = Len(compiled) + 1
                     /\ FitIn(ds[Len(compiled) + 1].outsiders, n)
                     => PieceOK(t, c, n, ds) /\ Loose(t) = {}
  BY <1>3, <1>10, ClosureCodeIs DEF CompiledOK, IsSeq
<1>12. functions' = Updated(Front(functions), Len(functions) - 1, h)
  BY <1>5, <1>8 DEF Updated
<1>13. FunctionEnds(o, h, t)
  BY <1>1, <1>4, <1>5, <1>6, <1>7, <1>8, <1>9, <1>11, <1>12 DEF FunctionEnds, Added
<1> QED
  BY <1>13, FunctionEndsKept

LEMMA EndOfMethodKept ==
  ASSUME CompiledOK(compiled), regular \in BOOLEAN, NEW in, ParserOK(in), EndOfMethod PROVE Kept
<1>1. PICK o, f, qs : o = Last(open) /\ f = functions[Innermost - 1] /\ qs = Front(functions)
  OBVIOUS
<1>2. PICK i : i = Operand("Method", o.name)
  OBVIOUS
<1>3. PICK u : u = <<i>>
  OBVIOUS
<1>4. PICK t : t = ClosureCode(Nothing, -1, u)
  OBVIOUS
<1>5. PICK s : s = <<Closure(Nothing, -1), i>>
  OBVIOUS
<1>6. s = t
  BY <1>3, <1>4, <1>5, PairIs DEF ClosureCode
<1>7. /\ EndingBlock("method") /\ compiled' = Append(compiled, Compiled(EndScope(Current), o.arity))
      /\ functions' = [qs EXCEPT ![Innermost - 1] = Emit(@, s)]
      /\ UNCHANGED <<blocks, breakpoints, continue_to, regular, status>>
  BY <1>1, <1>2, <1>5, Zenon DEF EndOfMethod, Ending
<1>8. /\ Len(open) # 0 /\ o = open[Len(open)] /\ o.kind = "method" /\ open' = Ended(Front(open))
      /\ dialect' = dialect /\ status = "parsing"
  BY <1>1, <1>7, LastIs
<1>9. Opens(o)
  BY <1>8 DEF Opens
<1>10. /\ Innermost = Len(functions) /\ FunctionOK(Current, compiled) /\ Current.depth = 2 /\ FunctionsOK(functions, compiled)
       /\ Len(functions) # 1 /\ Len(functions) \in Nat
  BY <1>8, <1>9, AroundIs, ParserIs
<1>11. qs[Innermost - 1] = f
  <2>1. IsSeq(functions) /\ Len(functions) # 0
    BY <1>10 DEF FunctionsOK
  <2>2. \A k \in 1..Len(functions)-1 : qs[k] = functions[k]
    BY <1>1, <2>1, FrontIs
  <2>3. Innermost - 1 \in 1..Len(functions)-1
    BY <1>10, <2>1
  <2> QED
    BY <1>1, <2>2, <2>3
<1>12. PICK h : h = Emit(f, t)
  OBVIOUS
<1>13. functions' = Updated(qs, Len(functions) - 1, h)
  <2>1. functions' = [qs EXCEPT ![Innermost - 1] = Emit(qs[Innermost - 1], s)]
    BY <1>7
  <2>2. Emit(qs[Innermost - 1], s) = h
    BY <1>6, <1>11, <1>12
  <2> QED
    BY <1>10, <2>1, <2>2 DEF Updated
<1>14. Added(compiled, compiled', EndScope(Current))
  <2>1. PICK g, ds : g = EndScope(Current) /\ ds = Append(compiled, Compiled(g, o.arity))
    OBVIOUS
  <2>2. Current.depth # 0
    BY <1>10
  <2>3. FunctionOK(g, compiled)
    BY <1>10, <2>1, <2>2, EndScopeIs
  <2>4. Added(compiled, ds, g)
    BY <2>1, <2>3, CompiledIs
  <2> QED
    BY <1>7, <2>1, <2>4
<1>15. IsSeq(u) /\ Len(u) <= 1 /\ \A k \in 1..Len(u) : IsInstruction(u[k]) /\ u[k].op \in {"Define_Global", "Method"}
  <2>1. IsInstruction(i) /\ i.op = "Method"
    BY <1>2 DEF Operand, Instruction, IsInstruction
  <2>2. IsSeq(u) /\ Len(u) = 1 /\ u[1] = i
    BY <1>3, TuplesAre
  <2> QED
    BY <2>1, <2>2
<1>16. \A c, n, ds : /\ Len(ds) \in Nat /\ Len(ds) = Len(compiled) + 1
                     /\ FitIn(ds[Len(compiled) + 1].outsiders, n)
                     => PieceOK(t, c, n, ds) /\ Loose(t) = {}
  BY <1>4, <1>15, ClosureCodeIs DEF CompiledOK, IsSeq
<1>17. FunctionEnds(o, h, t)
  BY <1>1, <1>7, <1>8, <1>9, <1>10, <1>12, <1>13, <1>14, <1>16 DEF FunctionEnds, Added
<1> QED
  BY <1>17, FunctionEndsKept

-----------------------------------------------------------------------------
(* The end of the source: nothing is open, and no jump dangles.            *)
Finished ==
  /\ CompiledOK(compiled)' /\ Extends(compiled, compiled') /\ ParserDone' /\ status' = "running" /\ Len(compiled') # 0
  /\ compiled'[Len(compiled')].outsiders = <<>>
  /\ regular' \in BOOLEAN /\ dialect' = dialect

LEMMA EndOfFileIs ==
  ASSUME CompiledOK(compiled), regular \in BOOLEAN, NEW in, ParserOK(in), EndOfFile, Len(functions) = 1 PROVE Finished
<1>1. PICK fs, os, bs, cs, f, ds :
        fs = functions /\ os = open /\ bs = breakpoints /\ cs = compiled /\ f = Current /\ ds = Append(compiled, Compiled(Current, 0))
  OBVIOUS
<1>2. /\ open = <<>> /\ compiled' = ds /\ status' = "running" /\ functions' = <<>> /\ breakpoints' = <<>>
      /\ UNCHANGED <<dialect, regular>>
  BY <1>1, Zenon DEF EndOfFile
<1>3. /\ FunctionOK(f, cs) /\ FunctionsOK(fs, cs) /\ Nested(in, os, fs) /\ f = fs[Len(fs)] /\ Len(fs) = 1
      /\ Len(blocks) = in[Len(os) + 1].blocks /\ IsSeq(bs)
      /\ Parsing(in, fs, cs, os, bs, Len(blocks), continue_to)
  BY <1>1, ParserIs
<1>4. Added(cs, ds, f)
  BY <1>1, <1>3, CompiledIs
<1>5. Len(os) = 0
  BY <1>1, <1>2, EmptyIs
<1>6. Len(bs) = 0
  <2>1. Len(blocks) = 0
    BY <1>3, <1>5 DEF Nested
  <2>2. \A i \in 1..Len(bs) : bs[i].block_depth \in 0..Len(blocks)-1
    BY <1>3 DEF Parsing, BreakpointsOK
  <2>3. \A i \in 1..Len(bs) : FALSE
    BY <2>1, <2>2
  <2>4. Len(bs) \in Nat
    BY <1>3 DEF IsSeq
  <2>5. Len(bs) # 0 => 1 \in 1..Len(bs)
    BY <2>4
  <2> QED
    BY <2>3, <2>5
<1>7. ASSUME regular PROVE NothingLoose(ds)
  <2>1. Regularly(in, fs, cs, os, bs, {})
    BY <1>1, <1>7 DEF ParserOK
  <2>2. AllEven(in, os, bs)
    BY <1>6 DEF AllEven
  <2>3. NothingLoose(cs) /\ AllHeld(in, fs, os, bs, {})
    BY <2>1, <2>2 DEF Regularly
  <2>4. Loose(f.code) \subseteq Held(in, os, bs, 1) \cup {}
    <3>1. 1 \in 1..Len(fs)
      BY <1>3
    <3>2. Loose(fs[1].code) \subseteq Held(in, os, bs, 1) \cup {k \in {} : 1 = Len(fs)}
      BY <2>3, <3>1 DEF AllHeld
    <3> QED
      BY <1>3, <3>2
  <2>5. Held(in, os, bs, 1) = {}
    BY <1>5, <1>6 DEF Held
  <2>6. Loose(f.code) = {}
    BY <2>4, <2>5
  <2> QED
    BY <1>4, <2>3, <2>6 DEF Added
<1>8. f.outsiders = <<>>
  BY <1>3 DEF FunctionsOK
<1>9. Len(ds) # 0 /\ ds[Len(ds)].outsiders = <<>>
  <2>1. Len(ds) = Len(cs) + 1 /\ ds[Len(cs) + 1].outsiders = f.outsiders /\ Len(cs) \in Nat
    BY <1>4 DEF Added, IsSeq
  <2> QED
    BY <1>8, <2>1
<1>10. CompiledOK(ds) /\ Extends(cs, ds)
  BY <1>4 DEF Added
<1> QED
  BY <1>1, <1>2, <1>7, <1>9, <1>10 DEF Finished, ParserDone

(* It is reached in the script's function.                                 *)
LEMMA InScript == ASSUME NEW in, ParserOK(in), open = <<>> PROVE Len(functions) = 1
<1>1. Nested(in, open, functions) /\ in[Len(open) + 1].level = Len(functions) /\ Len(open) = 0
  BY ParserIs, EmptyIs
<1>2. Len(open) + 1 = 1 /\ in[1].level = 1
  BY <1>1 DEF Nested
<1> QED
  BY <1>1, <1>2

-----------------------------------------------------------------------------
(* Whatever comes next.                                                    *)
LEMMA FormsAre ==
  /\ \A o : IsExpression(Name(o))
  /\ IsExpression(Literal)
  /\ \A o : IsExpression(Form("new()", o, NoName))
  /\ \A o, m : IsExpression(Form("o.m", o, m))
  BY DEF IsExpression, Name, Form

LEMMA HandlersKept ==
  ASSUME CompiledOK(compiled), regular \in BOOLEAN, NEW in, ParserOK(in), Handlers
  PROVE  Kept \/ Finished
<1>1. CASE \E o \in Objects_ : \/ PrintValue(Name(o)) \/ Return(Name(o))
                               \/ \E m \in Expected.members : CallMember(o, m) \/ \E n \in Expected.names : SetMember(o, m, Name(n))
  <2>1. PICK o \in Objects_ : \/ PrintValue(Name(o)) \/ Return(Name(o))
                              \/ \E m \in Expected.members : CallMember(o, m) \/ \E n \in Expected.names : SetMember(o, m, Name(n))
    BY <1>1
  <2>2. CASE PrintValue(Name(o))
    BY <2>2, PrintValueKept
  <2>3. CASE Return(Name(o))
    BY <2>3, ReturnKept
  <2>4. ASSUME NEW m \in Expected.members, CallMember(o, m) PROVE Kept
    BY <2>4, CallMemberKept
  <2>5. ASSUME NEW m \in Expected.members, NEW n \in Expected.names, SetMember(o, m, Name(n)) PROVE Kept
    <3>1. PICK e : e = Name(n)
      OBVIOUS
    <3>2. IsExpression(e) /\ SetMember(o, m, e)
      BY <2>5, <3>1, FormsAre
    <3> QED
      BY <3>2, SetMemberKept
  <2> QED
    BY <2>1, <2>2, <2>3, <2>4, <2>5
<1>2. ASSUME NEW n \in Expected.names, NEW kind \in Calls, Call(kind, n) PROVE Kept
  BY <1>2, CallKept
<1>3. ASSUME NEW n \in Expected.names, NEW e \in {Literal} \cup {Name(o) : o \in Expected.names}, DeclareVariable(n, e) \/ AssignName(n, e)
      PROVE Kept
  <2>1. IsExpression(e)
    BY <1>3, FormsAre
  <2> QED
    BY <1>3, <2>1, DeclareVariableKept, AssignNameKept
<1>4. ASSUME NEW n \in Expected.names, NEW e \in {Form("new()", o, NoName) : o \in Expected.names}
                                                 \cup {Form("o.m", o, m) : o \in Objects_, m \in Expected.members},
             DeclareVariable(n, e)
      PROVE Kept
  <2>1. IsExpression(e)
    BY <1>4, FormsAre
  <2> QED
    BY <1>4, <2>1, DeclareVariableKept
<1>5. ASSUME NEW n \in Expected.names, NEW ps \in ParameterLists, BeginFunction(n, ps) PROVE Kept
  BY <1>5, BeginFunctionKept
<1>6. ASSUME NEW n \in Expected.names, NEW s \in Expected.names \cup {NoName}, BeginClass(n, s) PROVE Kept
  BY <1>6, BeginClassKept
<1>7. CASE BeginBlock \/ EndOfBlock
  BY <1>7, BeginBlockKept, EndOfBlockKept
<1>8. CASE BeginIf \/ EndOfThen \/ ThenElse \/ EndOfElse
  BY <1>8, BeginIfKept, EndOfThenKept, ThenElseKept, EndOfElseKept
<1>9. CASE BeginWhile \/ EndOfWhile
  BY <1>9, BeginWhileKept, EndOfWhileKept
<1>10. ASSUME NEW n, NEW m, NEW condition \in BOOLEAN, BeginFor(n, condition, m) PROVE Kept
  BY <1>10, BeginForKept
<1>11. CASE EndOfFor
  BY <1>11, EndOfForKept
<1>12. CASE Break \/ Continue \/ ReturnEarly \/ EmptyStatement
  BY <1>12, BreakKept, ContinueKept, ReturnEarlyKept, EmptyStatementKept
<1>13. CASE EndOfFunction
  BY <1>13, EndOfFunctionKept
<1>14. ASSUME NEW ps \in ParameterLists, NEW kind, NEW m, BeginMethod(kind, m, ps) PROVE Kept
  BY <1>14, BeginMethodKept
<1>15. CASE EndOfMethod \/ EndOfClass
  BY <1>15, EndOfMethodKept, EndOfClassKept
<1>16. CASE RejectDeclaration \/ RejectSuperclass \/ RejectJump \/ RejectReturn
  <2>1. \E kind : Reject(kind)
    BY <1>16, Zenon DEF RejectDeclaration, RejectSuperclass, RejectJump, RejectReturn
  <2>2. PICK kind : Reject(kind)
    BY <2>1
  <2> QED
    BY <2>2, RejectKept
<1>17. CASE AbortDeclaration
  <2>1. \E kind : Abort(kind)
    BY <1>17, Zenon DEF AbortDeclaration
  <2>2. PICK kind : Abort(kind)
    BY <2>1
  <2> QED
    BY <2>2, AbortKept
<1>18. CASE EndOfFile
  <2>1. Len(functions) = 1
    BY <1>18, InScript DEF EndOfFile
  <2> QED
    BY <1>18, <2>1, EndOfFileIs
<1> QED
  BY <1>1, <1>2, <1>3, <1>4, <1>5, <1>6, <1>7, <1>8, <1>9, <1>10, <1>11, <1>12, <1>13, <1>14, <1>15, <1>16, <1>17, <1>18
  DEF Handlers

-----------------------------------------------------------------------------
(* The compiler's part of the invariant.                                   *)

(* The empty script.                                                       *)
LEMMA ScriptIs ==
  ASSUME NEW cs PROVE FunctionOK(NewFunction("Script", Nothing), cs)
<1>1. PICK f, l : f = NewFunction("Script", Nothing) /\ l = Local(IF "Script" = "Function" THEN NoName ELSE Keli, 0, Nothing)
  OBVIOUS
<1>2. f = [kind |-> "Script", depth |-> 0, locals |-> <<l>>, outsiders |-> <<>>, code |-> <<>>]
  BY <1>1, Zenon DEF NewFunction
<1>3. IsLocal(l) /\ l.scope_depth = 0
  BY <1>1 DEF Local, IsLocal
<1>4. LocalsOK(<<l>>)
  BY <1>3, TuplesAre, CompilerAssumption DEF LocalsOK
<1>5. OutsidersOK(<<>>) /\ CodeOK(<<>>, 0, cs)
  BY EmptyIs DEF OutsidersOK, CodeOK
<1>6. IsFunction(f) /\ f.depth \in Nat
  BY <1>2 DEF IsFunction
<1> QED
  BY <1>1, <1>2, <1>4, <1>5, <1>6, EmptyIs DEF FunctionOK

LEMMA InitCompiler == ASSUME ParserInit PROVE CompilerInv
<1>1. PICK f, in : /\ f = NewFunction("Script", Nothing)
                   /\ in = [k \in {1} |-> [level |-> 1, blocks |-> 0, depth |-> 0, continue |-> continue_to]]
  OBVIOUS
<1>2. /\ functions = <<f>> /\ blocks = <<>> /\ breakpoints = <<>> /\ open = <<>> /\ compiled = <<>>
      /\ status = "parsing" /\ dialect \in Dialects /\ regular = TRUE /\ continue_to.to = -1
  BY <1>1 DEF ParserInit
<1>3. FunctionOK(f, compiled) /\ f.outsiders = <<>> /\ f.depth = 0 /\ f.code = <<>>
  <2>1. FunctionOK(f, compiled)
    BY <1>1, ScriptIs
  <2> QED
    BY <1>1, <2>1 DEF NewFunction
<1>4. IsSeq(functions) /\ Len(functions) = 1 /\ functions[1] = f
  BY <1>2, TuplesAre
<1>5. FunctionsOK(functions, compiled)
  BY <1>3, <1>4 DEF FunctionsOK
<1>6. IsSeq(blocks) /\ Len(blocks) = 0 /\ IsSeq(breakpoints) /\ Len(breakpoints) = 0 /\ IsSeq(open) /\ Len(open) = 0
      /\ IsSeq(compiled) /\ Len(compiled) = 0
  BY <1>2, EmptyIs
<1>7. in[1].level = 1 /\ in[1].blocks = 0 /\ in[1].depth = 0 /\ in[1].continue = continue_to
  BY <1>1
<1>8. Len(open) + 1 = 1
  BY <1>6
<1>9. Nested(in, open, functions)
  <2>1. ContinueOK(in[1].continue, in[1].level, functions)
    BY <1>2, <1>7 DEF ContinueOK
  <2>2. \A k \in 1..Len(open)+1 : k = 1
    BY <1>6
  <2>3. \A k \in 1..Len(open) : FALSE
    BY <1>6
  <2> QED
    BY <1>4, <1>6, <1>7, <2>1, <2>2, <2>3 DEF Nested
<1>10. BreakpointsOK(in, functions, open, breakpoints, Len(blocks))
  BY <1>6 DEF BreakpointsOK
<1>11. Parsing(in, functions, compiled, open, breakpoints, Len(blocks), continue_to)
  BY <1>4, <1>5, <1>6, <1>7, <1>8, <1>9, <1>10 DEF Parsing
<1>12. Regularly(in, functions, compiled, open, breakpoints, {})
  <2>1. \A k \in 1..Len(open) : FALSE
    BY <1>6
  <2>2. NothingLoose(compiled)
    BY <1>6 DEF NothingLoose
  <2>3. \A l \in 1..Len(functions) : Loose(functions[l].code) = {}
    BY <1>3, <1>4, EmptyIs DEF Loose
  <2> QED
    BY <2>1, <2>2, <2>3 DEF Regularly, AllHeld
<1>13. ParserOK(in)
  BY <1>3, <1>4, <1>6, <1>7, <1>8, <1>11, <1>12 DEF ParserOK
<1>14. CompiledOK(compiled)
  BY <1>6 DEF CompiledOK
<1> QED
  BY <1>2, <1>13, <1>14 DEF CompilerInv, Statuses

LEMMA ParsingKeepsCompiler == ASSUME CompilerInv, Parse PROVE CompilerInv' /\ (Kept \/ Finished)
<1>1. status = "parsing" /\ Handlers
  BY DEF Parse
<1>2. PICK in : ParserOK(in)
  BY <1>1 DEF CompilerInv, ParserDone, ParserBroken
<1>3. CompiledOK(compiled) /\ regular \in BOOLEAN /\ dialect \in Dialects
  BY DEF CompilerInv
<1>4. Kept \/ Finished
  BY <1>1, <1>2, <1>3, HandlersKept
<1>5. CASE Kept
  <2>1. CompiledOK(compiled)' /\ status' \in {"parsing", "rejected", "undefined", "aborted"} /\ regular' \in BOOLEAN /\ dialect' = dialect
        /\ (ParserBroken' \/ \E i : ParserOK(i)')
    BY <1>5 DEF Kept
  <2>2. status' \in Statuses /\ status' # "running"
    BY <2>1 DEF Statuses
  <2> QED
    BY <1>3, <1>5, <2>1, <2>2 DEF CompilerInv
<1>6. CASE Finished
  <2>1. CompiledOK(compiled)' /\ ParserDone' /\ status' = "running" /\ regular' \in BOOLEAN /\ dialect' = dialect
    BY <1>6 DEF Finished
  <2>2. status' \in Statuses
    BY <2>1 DEF Statuses
  <2> QED
    BY <1>3, <1>6, <2>1, <2>2 DEF CompilerInv
<1> QED
  BY <1>4, <1>5, <1>6

(* A run changes nothing of what was compiled.                             *)
Outcomes == {"running", "ended", "error", "aborted", "undefined"}
LEMMA RunKeepsCompiler ==
  ASSUME CompilerInv, status = "running", compiled' = compiled, status' \in Outcomes, UNCHANGED parser
  PROVE  CompilerInv'
<1>1. ParserDone /\ CompiledOK(compiled) /\ regular \in BOOLEAN /\ dialect \in Dialects
  BY DEF CompilerInv
<1>2. /\ functions' = functions /\ breakpoints' = breakpoints /\ regular' = regular /\ dialect' = dialect
  BY DEF parser
<1>3. ParserDone'
  BY <1>1, <1>2 DEF ParserDone, Outcomes
<1>4. CompiledOK(compiled)'
  BY <1>1
<1> QED
  BY <1>1, <1>2, <1>3, <1>4 DEF CompilerInv, Statuses, Outcomes

LEMMA CompilerUnchanged == ASSUME CompilerInv, UNCHANGED vars PROVE CompilerInv'
<1>1. UNCHANGED <<parser, compiled, status>>
  BY DEF vars
<1>2. /\ functions' = functions /\ breakpoints' = breakpoints /\ regular' = regular /\ dialect' = dialect
      /\ blocks' = blocks /\ open' = open /\ continue_to' = continue_to /\ compiled' = compiled /\ status' = status
  BY <1>1 DEF parser
<1>3. CompiledOK(compiled)' <=> CompiledOK(compiled)
  BY <1>2
<1>4. ParserDone' <=> ParserDone
  BY <1>2 DEF ParserDone
<1>5. ParserBroken' <=> ParserBroken
  BY <1>2 DEF ParserBroken
<1>6. ASSUME NEW in, ParserOK(in) PROVE ParserOK(in)'
  BY <1>2, <1>6 DEF ParserOK
<1> QED
  BY <1>2, <1>3, <1>4, <1>5, <1>6 DEF CompilerInv

LEMMA CompiledJumps == ASSUME CompilerInv PROVE JumpsArePatched
<1> SUFFICES ASSUME regular, status = "running", NEW i \in DOMAIN compiled, NEW k \in DOMAIN compiled[i].code,
                    compiled[i].code[k].op \in Jumps
             PROVE  compiled[i].code[k].x \in DOMAIN compiled[i].code
  BY DEF JumpsArePatched
<1>1. CompiledOK(compiled) /\ NothingLoose(compiled)
  BY DEF CompilerInv, ParserDone
<1>2. i \in 1..Len(compiled) /\ IsSeq(compiled[i].code) /\ CodeOK(compiled[i].code, Len(compiled[i].outsiders), compiled)
  BY <1>1 DEF CompiledOK, IsSeq, CodeOK
<1>3. PICK code : code = compiled[i].code
  OBVIOUS
<1>4. DOMAIN code = 1..Len(code) /\ Len(code) \in Nat /\ k \in 1..Len(code) /\ code[k].op \in Jumps
  BY <1>2, <1>3 DEF IsSeq
<1>5. code[k].x \in Unset \/ Target(code, code[k].x)
  BY <1>2, <1>3, <1>4 DEF CodeOK
<1>6. code[k].x \notin Unset
  BY <1>1, <1>2, <1>3, <1>4 DEF NothingLoose, Loose, Dangling
<1>7. code[k].x <= Len(code)
  BY <1>1, <1>2, <1>3, <1>4 DEF CompiledOK
<1>8. code[k].x \in 1..Len(code)
  BY <1>4, <1>5, <1>6, <1>7 DEF Target
<1> QED
  BY <1>3, <1>4, <1>8
=============================================================================
