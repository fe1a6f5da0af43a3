----------------------------- MODULE Evaluation -----------------------------
(***************************************************************************)
(* An expression from its first token to its value: the tokens are written *)
(* one by one, Expressions compiles them, and the interpreter loop         *)
(* (src/virtual_machine.c) runs the code, up to a call or a member, whose  *)
(* values are in Machine.tla.                                              *)
(***************************************************************************)
EXTENDS Grouping

CONSTANT Dialects (* sequences of sets: the tokens each place may have     *)

ASSUME EvaluationAssumption == \A d \in Dialects : \A i \in DOMAIN d : IsFiniteSet(d[i])

VARIABLES
  dialect,
  source,   (* the tokens written                                          *)
  status,   (* "written", "rejected", "aborted", "running", "ended",       *)
            (* "error", or "left" for a call                               *)
  code,     (* the code of the expression                                  *)
  ip, stack,
  variable, (* the global `name`                                           *)
  initial   (* what it was before the run                                  *)

vars == <<dialect, source, status, code, ip, stack, variable, initial>>

Init ==
  /\ dialect \in Dialects
  /\ source = <<>> /\ status = "written"
  /\ code = <<>> /\ ip = 1 /\ stack = <<>>
  /\ variable = Nil /\ initial = Nil

Write(token) ==
  /\ status = "written" /\ Len(source) < Len(dialect)
  /\ token \in dialect[Len(source) + 1]
  /\ source' = Append(source, token)
  /\ UNCHANGED <<dialect, initial, status, code, ip, stack, variable>>

Compile ==
  LET p == Parsed(source)
  IN  /\ status = "written" /\ source # <<>>
      /\ code' = IF Accepted(p) THEN p.code ELSE <<>>
      /\ status' = CASE p.aborted -> "aborted"
                     [] p.error /\ ~p.aborted -> "rejected"
                     [] Accepted(p) /\ ~p.regular -> "irregular"
                     [] OTHER -> "running"
      /\ initial' \in {Number(2), Boolean(FALSE)} /\ variable' = initial'
      /\ UNCHANGED <<dialect, source, ip, stack>>

-----------------------------------------------------------------------------
Instr == code[ip]
Top   == Last(stack)
Below == stack[Len(stack) - 1]

Execute(op) == status = "running" /\ ip \in DOMAIN code /\ Instr.op = op

Next_(ip_, stack_, variable_) ==
  /\ ip' = ip_ /\ stack' = stack_ /\ variable' = variable_
  /\ UNCHANGED <<dialect, initial, source, status, code>>

Leaves(taken, v) == Next_(ip + 1, Append(SubSeq(stack, 1, Len(stack) - taken), v), variable)

RuntimeError ==
  /\ status' = "error" /\ stack' = <<>>
  /\ UNCHANGED <<dialect, initial, source, code, ip, variable>>

Push == Execute("Push") /\ Leaves(0, LiteralValue(Instr.x))
Read == Execute("Read") /\ Leaves(0, variable)
Assign_ == Execute("Assign") /\ Next_(ip + 1, stack, Top)
Pop == Execute("Pop") /\ Next_(ip + 1, Front(stack), variable)

Negation ==
  /\ Execute("Negation")
  /\ IF Top.kind = "number" THEN Leaves(1, Number(-Top.is)) ELSE RuntimeError

Negated(v) ==
  CASE v.kind = "nil" -> TRUE
    [] v.kind = "boolean" -> ~v.is
    [] OTHER -> FALSE
Not_ == Execute("Not") /\ Leaves(1, Boolean(Negated(Top)))

Add ==
  /\ Execute("+")
  /\ CASE Both(Below, Top, "number") -> Leaves(2, Number(Compute("+", Below.is, Top.is)))
       [] Both(Below, Top, "string") -> Leaves(2, String(Below.is \o Top.is))
       [] OTHER -> RuntimeError

ArithmeticOperator(op) ==
  /\ Execute(op)
  /\ IF Both(Below, Top, "number") THEN Leaves(2, Number(Compute(op, Below.is, Top.is))) ELSE RuntimeError

EqualTo == Execute("==") /\ Leaves(2, Boolean(Below.kind = Top.kind /\ Below.is = Top.is))

LessThan ==
  /\ Execute("<")
  /\ IF Both(Below, Top, "number") THEN Leaves(2, Boolean(IsLess(Below.is, Top.is))) ELSE RuntimeError

GreaterThan ==
  /\ Execute(">")
  /\ IF Both(Below, Top, "number") THEN Leaves(2, Boolean(IsLess(Top.is, Below.is))) ELSE RuntimeError

IsFalsey(v) == v.kind = "nil" \/ (v.kind = "boolean" /\ v.is = FALSE)
JumpIfFalse == Execute("Jump_If_False") /\ Next_(ip + 1 + (IF IsFalsey(Top) THEN Instr.x ELSE 0), stack, variable)
Jump_ == Execute("Jump") /\ Next_(ip + 1 + Instr.x, stack, variable)

Elsewhere == {"Call_Function", "Call_Class", "Call_Method", "Get_Property", "Set_Property"}
Leave ==
  /\ \E op \in Elsewhere : Execute(op)
  /\ status' = "left"
  /\ UNCHANGED <<dialect, initial, source, code, ip, stack, variable>>

End ==
  /\ status = "running" /\ ip = Len(code) + 1
  /\ status' = "ended"
  /\ UNCHANGED <<dialect, initial, source, code, ip, stack, variable>>

Next ==
  \/ \E token \in UNION ToSet(dialect) : Write(token)
  \/ Compile
  \/ Push \/ Read \/ Assign_ \/ Pop \/ Negation \/ Not_ \/ Add
  \/ \E op \in Arithmetic \ {"+"} : ArithmeticOperator(op)
  \/ EqualTo \/ LessThan \/ GreaterThan \/ JumpIfFalse \/ Jump_
  \/ Leave \/ End

Spec == Init /\ [][Next]_vars

-----------------------------------------------------------------------------
Values == [kind : {"number"}, is : Int] \cup [kind : {"boolean"}, is : BOOLEAN]
          \cup [kind : {"string"}, is : Seq({"s"})] \cup {Nil}

(* An instruction of the run always finds its operands, and the run stays  *)
(* in the code it was compiled to: no jump of a logical operator leads     *)
(* past the end of the expression.                                         *)
TypeOK ==
  /\ status \in {"written", "rejected", "aborted", "irregular", "running", "ended", "error", "left"}
  /\ ip \in 1..Len(code)+1
  /\ \A i \in DOMAIN stack : stack[i] \in Values
  /\ variable \in Values

(* The parser accepts a sequence of tokens exactly when the precedences    *)
(* give it one tree, and emits the code of that tree: associativity,       *)
(* negations in front of powers and in their exponents, assignments where  *)
(* a variable or a member stands (parser_parse_expression).  Two families  *)
(* of malformed sequences apart, which it accepts too: see `regular`.      *)
ParsedAsGrouped ==
  LET tree == Grouped(source)
  IN  /\ status = "running" /\ ip = 1 => tree # Malformed /\ code = CodeOf(tree)
      /\ status \in {"rejected", "aborted", "irregular"} => tree = Malformed

(* The run of the code leaves one value, that of the tree, and in the      *)
(* variable what the assignments the tree makes left there, those of a     *)
(* right operand `e` and `ou` skip excepted; it fails when the tree does.  *)
RunsAsEvaluated ==
  LET tree == Grouped(source)
      result == Evaluated(tree, initial)
  IN  status \in {"ended", "error"} /\ (\A i \in DOMAIN code : code[i].op \notin Elsewhere) =>
        /\ variable = result.variable
        /\ stack = IF status = "ended" THEN <<result.value>> ELSE <<>>
        /\ (status = "error") <=> (result.value = Failure)

=============================================================================
