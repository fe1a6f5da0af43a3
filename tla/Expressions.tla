----------------------------- MODULE Expressions -----------------------------
(***************************************************************************)
(* The expressions of the compiler (src/parser.c): parser_parse_expression *)
(* and the handlers of operands and operators, which parse by precedence   *)
(* and emit the code as they go.  A token is its kind; there is one        *)
(* identifier, which is a global and the name of a member.  The operand of *)
(* a jump is what it skips, as in the code, in instructions.               *)
(***************************************************************************)
EXTENDS Integers, SequencesExt, FiniteSetsExt

(* OperatorPrecedence, and those that are of no operator after an operand. *)
Assignment == 1
Or         == 2
And        == 3
Negate     == 8
Exponentiation == 9
Not        == 10

Arithmetic == {"+", "-", "*", "/", "^"}
Relational == {"==", "=/=", "<", "<=", ">", ">="}
Literals   == {"number", "string", "verdadi", "falsu", "nulo"}

(* parser_get_operator_metadata.  What is no operator has the lowest.      *)
Ranked == <<{"="}, {"ou"}, {"e"}, {"==", "=/="}, {"<", "<=", ">", ">="}, {"+", "-"}, {"*", "/"},
            {}, {"^"}, {"ka"}, {".", "(", "{"}>>
Rank(token) == Max({i \in DOMAIN Ranked : token \in Ranked[i]} \cup {0})
RightAssociativeButPower == {"=", "ou", "e"}
RightAssociative == {"=", "ou", "e", "^"}

-----------------------------------------------------------------------------
(* The parser: the source and the place of token_current in it, the code   *)
(* emitted, whether an error was reported or an assertion failed, and      *)
(* whether the source is regular: the parser accepts an operator without   *)
(* an operand (parser.c:1979-2047: any token takes its place) and, after a *)
(* call, the assignment to the name the expression began with              *)
(* (parser.c:2104).                                                        *)
Begin(source) ==
  [source |-> source, at |-> 1, code |-> <<>>, error |-> FALSE, aborted |-> FALSE, regular |-> TRUE]

Current(p)  == IF p.at \in DOMAIN p.source THEN p.source[p.at] ELSE "eof"
Previous(p) == p.source[p.at - 1]

Advance(p) == [p EXCEPT !.at = Min({@ + 1, Len(p.source) + 1})]
Error(p)   == [p EXCEPT !.error = TRUE]
Consume(p, token) == IF Current(p) = token THEN Advance(p) ELSE Error(p)

Instruction(op, x) == [op |-> op, x |-> x]
Emit(p, op, x) == [p EXCEPT !.code = Append(@, Instruction(op, x))]
(* Compiler_CompileInstruction_Jump emits, and a patch sets what it skips. *)
Jump(p, op)  == Emit(p, op, 0)
PatchPast(p, i) == [p EXCEPT !.code[i].x = Len(p.code) - i + 1]
Patch(p, i)  == [p EXCEPT !.code[i].x = Len(p.code) - i]
Here(p)      == Len(p.code)

-----------------------------------------------------------------------------
RECURSIVE Expression(_, _), Operators(_, _, _), ArgumentList(_, _, _)

(* parser_parse_arguments, with the instruction that has their number.     *)
ArgumentList(p, n, op) ==
  LET q == Expression(p, Assignment)
  IN  IF Current(q) = "," THEN ArgumentList(Advance(q), n + 1, op) ELSE Emit(q, op, n + 1)

Arguments(p, closing, op) ==
  LET q == IF Current(p) = closing THEN Emit(p, op, 0) ELSE ArgumentList(p, 0, op)
  IN  Consume(q, closing)

(* parser_parse_literals, parser_parse_operators_unary and identifiers.    *)
Operand(p) ==
  LET token == Previous(p)
  IN  CASE token \in Literals -> Emit(p, "Push", token)
        [] token = "-"  -> Emit(Expression(p, Negate), "Negation", 0)
        [] token = "ka" -> Emit(Expression(p, Not), "Not", 0)
        [] token = "("  -> Consume(Expression(p, Assignment), ")")
        [] token = "name" -> IF Current(p) = "=" THEN p ELSE Emit(p, "Read", 0)
        [] OTHER -> [p EXCEPT !.regular = FALSE]

(* parser_parse_operators_logical.                                         *)
Conjunction(p) ==
  LET q == Emit(Jump(p, "Jump_If_False"), "Pop", 0)
  IN  Patch(Expression(q, And), Here(p) + 1)

DisjunctionUnpopped(p) ==
  LET q == Jump(Jump(p, "Jump_If_False"), "Jump")
      r == Patch(q, Here(p) + 1)
  IN  Patch(Expression(r, Or), Here(p) + 2)

Disjunction(p) ==
  LET q == Jump(Jump(p, "Jump_If_False"), "Jump")
      r == Emit(Patch(q, Here(p) + 1), "Pop", 0)
  IN  Patch(Expression(r, Or), Here(p) + 2)

(* parser_parse_operators_relational.                                      *)
Relation(p, op) ==
  CASE op = "=="  -> Emit(p, "==", 0)
    [] op = "=/=" -> Emit(Emit(p, "==", 0), "Not", 0)
    [] op = "<"   -> Emit(p, "<", 0)
    [] op = ">="  -> Emit(Emit(p, "<", 0), "Not", 0)
    [] op = ">"   -> Emit(p, ">", 0)
    [] op = "<="  -> Emit(Emit(p, ">", 0), "Not", 0)

(* parser_parse_operator_object_getter_and_setter.                         *)
Member(p, assignable) ==
  LET q == Consume(p, "name")
  IN  CASE assignable /\ Current(q) = "=" -> Emit(Expression(Advance(q), Assignment), "Set_Property", 0)
        [] (~assignable \/ Current(q) # "=") /\ Current(q) = "(" -> Arguments(Advance(q), ")", "Call_Method")
        [] OTHER -> Emit(q, "Get_Property", 0)

(* The assignment to the identifier an expression began with, if it did.   *)
Assigned(p, target, assignable) ==
  IF target /\ assignable
  THEN LET q == Emit(Expression(p, Assignment), "Assign", 0)
       IN  IF p.source[p.at - 2] = "name" THEN q ELSE [q EXCEPT !.regular = FALSE]
  ELSE Error(p)

(* The operators that follow, as long as they bind more tightly than the   *)
(* one whose operand this is.                                              *)
Stops(token, previous) ==
  IF token \in RightAssociative THEN Rank(token) < previous ELSE Rank(token) <= previous

Operators(p, previous, target) ==
  LET op == Current(p)
      q  == Advance(p)
      r  == CASE op \in Arithmetic -> Emit(Expression(q, Rank(op)), op, 0)
              [] op = "e"  -> Conjunction(q)
              [] op = "ou" -> Disjunction(q)
              [] op = "ka" -> [q EXCEPT !.aborted = TRUE]
              [] op \in Relational -> Relation(Expression(q, Rank(op)), op)
              [] op = "(" -> Arguments(q, ")", "Call_Function")
              [] op = "{" -> Arguments(q, "}", "Call_Class")
              [] op = "." -> Member(q, previous <= Assignment)
              [] op = "=" -> Assigned(q, target, previous <= Assignment)
  IN  IF Stops(op, previous) \/ p.aborted
      THEN IF op = "=" /\ Rank(op) < previous THEN Error(p) ELSE p
      ELSE Operators(r, previous, target)

(* parser_parse_expression.                                                *)
Expression(p, previous) ==
  LET q == Advance(p)
  IN  Operators(Operand(q), previous, Current(p) = "name")

(* parser_parse_statement_expression up to its ';', which ends the source. *)
Parsed(source) ==
  LET p == Expression(Begin(Append(source, ";")), Assignment)
  IN  IF Current(p) = ";" /\ p.at = Len(p.source) THEN p ELSE Error(p)

Accepted(p) == ~p.error /\ ~p.aborted

=============================================================================
