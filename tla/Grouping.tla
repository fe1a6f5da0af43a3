------------------------------ MODULE Grouping ------------------------------
(***************************************************************************)
(* What an expression means: the tree of a sequence of tokens, the code of *)
(* a tree and its value.  Expressions, the parser, is compared with it.    *)
(***************************************************************************)
EXTENDS Expressions

CONSTANTS
  Compute(_, _, _), (* the arithmetic of numbers, doubles in the code      *)
  IsLess(_, _)      (* their order                                         *)

(* What the precedences say without a parser: which operator of a sequence *)
(* of tokens is applied last.  An operator that stands after an operand is *)
(* binary; those in parentheses are not of the sequence; a negation takes  *)
(* with it what follows and binds more tightly than it.                    *)
Malformed == [op |-> "malformed", on |-> <<>>]
Tree(op, on) == IF Malformed \in ToSet(on) THEN Malformed ELSE [op |-> op, on |-> on]

Ends     == Literals \cup {"name", ")", "}"}
Binary   == Arithmetic \cup Relational \cup {"e", "ou", "="}
Opening  == {"(", "{"}
Closing  == {")", "}"}

Depth(ts, i) == Cardinality({j \in 1..i-1 : ts[j] \in Opening}) - Cardinality({j \in 1..i-1 : ts[j] \in Closing})
Outer(ts)    == {i \in DOMAIN ts : Depth(ts, i) = 0}
IsBinary(ts, i) == i > 1 /\ ts[i] \in Binary /\ ts[i-1] \in Ends
PrefixRank(token) == IF token = "-" THEN Negate ELSE Not
PrefixAt(ts, i) == ts[i] \in {"-", "ka"} /\ ~IsBinary(ts, i)

OfPrefix(ts, i) ==
  \E j \in Outer(ts) : /\ j < i /\ PrefixAt(ts, j)
                       /\ \A k \in j+1..i : k \in Outer(ts) /\ IsBinary(ts, k) => Rank(ts[k]) > PrefixRank(ts[j])

LastApplied(ts) ==
  LET candidates == {i \in Outer(ts) : IsBinary(ts, i) /\ ~OfPrefix(ts, i)}
      weakest == {i \in candidates : \A j \in candidates : Rank(ts[i]) <= Rank(ts[j])}
  IN  CASE candidates = {} -> 0
        [] candidates # {} /\ ts[Min(weakest)] \in {"=", "ou", "e", "^"} -> Min(weakest)
        [] OTHER -> Max(weakest)

Before(ts, i) == SubSeq(ts, 1, i - 1)
After(ts, i)  == SubSeq(ts, i + 1, Len(ts))
IsMember(ts)  == Len(ts) > 2 /\ ts[Len(ts)] = "name" /\ ts[Len(ts) - 1] = "."
Object(ts)    == SubSeq(ts, 1, Len(ts) - 2)

RECURSIVE Grouped(_), GroupedList(_)

(* The arguments, separated by the commas outside parentheses.             *)
GroupedList(ts) ==
  LET commas == {i \in Outer(ts) : ts[i] = ","}
  IN  CASE ts = <<>> -> <<>>
        [] ts # <<>> /\ commas = {} -> <<Grouped(ts)>>
        [] OTHER -> <<Grouped(Before(ts, Min(commas)))>> \o
                    (IF Min(commas) = Len(ts) THEN <<Malformed>> ELSE GroupedList(After(ts, Min(commas))))

GroupedPostfix(ts) ==
  LET last == Last(ts)
      opener == CHOOSE i \in DOMAIN ts : ts[i] \in Opening /\ Depth(ts, i) = 0
                                         /\ \A j \in i+1..Len(ts) : Depth(ts, j) > 0
      callee == Before(ts, opener)
      inner  == SubSeq(ts, opener + 1, Len(ts) - 1)
      matched == \E i \in DOMAIN ts : /\ <<ts[i], last>> \in {<<"(", ")">>, <<"{", "}">>} /\ Depth(ts, i) = 0
                                      /\ \A j \in i+1..Len(ts) : Depth(ts, j) > 0
  IN  CASE Len(ts) = 1 /\ last \in Literals -> Tree(last, <<>>)
        [] Len(ts) = 1 /\ last = "name" -> Tree("Read", <<>>)
        [] IsMember(ts) -> Tree("Get_Property", <<Grouped(Object(ts))>>)
        [] last \in Closing /\ matched ->
             CASE callee = <<>> -> IF last = ")" THEN Grouped(inner) ELSE Malformed
               [] callee # <<>> /\ last = "}" -> Tree("Call_Class", <<Grouped(callee)>> \o GroupedList(inner))
               [] callee # <<>> /\ last = ")" /\ IsMember(callee) ->
                    Tree("Call_Method", <<Grouped(Object(callee))>> \o GroupedList(inner))
               [] OTHER -> Tree("Call_Function", <<Grouped(callee)>> \o GroupedList(inner))
        [] OTHER -> Malformed

Grouped(ts) ==
  LET i == LastApplied(ts)
      left == Before(ts, i)
      right == After(ts, i)
  IN  CASE ts = <<>> -> Malformed
        [] i # 0 /\ ts[i] = "=" ->
             IF left = <<"name">> THEN Tree("Assign", <<Grouped(right)>>)
             ELSE IF IsMember(left) /\ LastApplied(left) = 0 /\ ~PrefixAt(left, 1)
             THEN Tree("Set_Property", <<Grouped(Object(left)), Grouped(right)>>)
             ELSE Malformed
        [] i # 0 /\ ts[i] # "=" -> Tree(ts[i], <<Grouped(left), Grouped(right)>>)
        [] ts # <<>> /\ i = 0 /\ ts[1] = "-"  -> Tree("Negation", <<Grouped(Tail(ts))>>)
        [] ts # <<>> /\ i = 0 /\ ts[1] = "ka" -> Tree("Not", <<Grouped(Tail(ts))>>)
        [] OTHER -> GroupedPostfix(ts)

-----------------------------------------------------------------------------
(* The code of a tree: the operands from left to right, then the operator; *)
(* `e` and `ou` skip their right operand, whose value replaces the left.   *)
Do(op) == <<Instruction(op, 0)>>

RECURSIVE CodeOf(_)
CodeOf(tree) ==
  LET operands == FlattenSeq([i \in DOMAIN tree.on |-> CodeOf(tree.on[i])])
      right    == CodeOf(tree.on[2])
  IN  CASE tree.op \in Literals -> <<Instruction("Push", tree.op)>>
        [] tree.op = "e"  -> CodeOf(tree.on[1]) \o <<Instruction("Jump_If_False", Len(right) + 1)>> \o Do("Pop") \o right
        [] tree.op = "ou" -> CodeOf(tree.on[1]) \o <<Instruction("Jump_If_False", 1), Instruction("Jump", Len(right) + 1)>>
                             \o Do("Pop") \o right
        [] tree.op = "=/=" -> operands \o Do("==") \o Do("Not")
        [] tree.op = ">="  -> operands \o Do("<") \o Do("Not")
        [] tree.op = "<="  -> operands \o Do(">") \o Do("Not")
        [] tree.op \in {"Call_Function", "Call_Class", "Call_Method"} ->
             operands \o <<Instruction(tree.op, Len(tree.on) - 1)>>
        [] OTHER -> operands \o Do(tree.op)

-----------------------------------------------------------------------------
(* Values: numbers, strings by their characters, and the rest.             *)
Number(n)  == [kind |-> "number", is |-> n]
String(s)  == [kind |-> "string", is |-> s]
Boolean(b) == [kind |-> "boolean", is |-> b]
Nil        == [kind |-> "nil", is |-> 0]
Failure    == [kind |-> "failure", is |-> 0]

LiteralValue(token) ==
  CASE token = "number"  -> Number(1)
    [] token = "string"  -> String(<<"s">>)
    [] token = "verdadi" -> Boolean(TRUE)
    [] token = "falsu"   -> Boolean(FALSE)
    [] token = "nulo"    -> Nil

Falsey(v) == v \in {Nil, Boolean(FALSE)}

(* What the operators of the README do with two values.                    *)
Both(v, w, kind) == v.kind = kind /\ w.kind = kind
Applied(op, v, w) ==
  CASE op \in Arithmetic /\ Both(v, w, "number") -> Number(Compute(op, v.is, w.is))
    [] op = "+" /\ Both(v, w, "string") -> String(v.is \o w.is)
    [] op = "=="  -> Boolean(v = w)
    [] op = "=/=" -> Boolean(v # w)
    [] op = "<"  /\ Both(v, w, "number") -> Boolean(IsLess(v.is, w.is))
    [] op = ">"  /\ Both(v, w, "number") -> Boolean(IsLess(w.is, v.is))
    [] op = "<=" /\ Both(v, w, "number") -> Boolean(~IsLess(w.is, v.is))
    [] op = ">=" /\ Both(v, w, "number") -> Boolean(~IsLess(v.is, w.is))
    [] OTHER -> Failure

(* The value of a tree without calls and members when the variable is g,   *)
(* and what the variable is then.                                          *)
Result(v, g) == [value |-> v, variable |-> g]

RECURSIVE Evaluated(_, _)
Evaluated(tree, g) ==
  LET l == Evaluated(tree.on[1], g)
      r == Evaluated(tree.on[2], l.variable)
  IN  CASE tree.op \in Literals -> Result(LiteralValue(tree.op), g)
        [] tree.op = "Read" -> Result(g, g)
        [] tree.op \notin Literals \cup {"Read"} /\ l.value = Failure -> l
        [] tree.op = "Assign" /\ l.value # Failure -> Result(l.value, l.value)
        [] tree.op = "Not" /\ l.value # Failure -> Result(Boolean(Falsey(l.value)), l.variable)
        [] tree.op = "Negation" /\ l.value # Failure ->
             Result(IF l.value.kind = "number" THEN Number(-l.value.is) ELSE Failure, l.variable)
        [] tree.op = "e"  /\ l.value # Failure -> IF Falsey(l.value) THEN l ELSE r
        [] tree.op = "ou" /\ l.value # Failure -> IF Falsey(l.value) THEN r ELSE l
        [] tree.op \in Arithmetic \cup Relational /\ l.value # Failure ->
             IF r.value = Failure THEN r ELSE Result(Applied(tree.op, l.value, r.value), r.variable)

=============================================================================
