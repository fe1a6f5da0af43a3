---------------------------- MODULE MCEvaluation ----------------------------
EXTENDS Evaluation

(* An arithmetic in which no two operators, and no two orders of operands, *)
(* are the same.                                                           *)
Arithmetic7(op, m, n) ==
  (CASE op = "+" -> m + n [] op = "-" -> m - n [] op = "*" -> m * n
     [] op = "/" -> 2 * m + 3 * n + 1 [] op = "^" -> 3 * m + 5 * n + 2) % 7

Before7(m, n) == m < n

Up(n, tokens) == [i \in 1..n |-> tokens]

(* Every sequence of up to five or six of these.                           *)
Sums    == Up(6, {"number", "name", "+", "-", "^", "(", ")"})
Logic   == Up(5, {"verdadi", "name", "e", "ou", "ka", "==", "="})
Calls   == Up(6, {"name", "number", "=", ".", "(", ")", ","})
Classes == Up(5, {"name", "{", "}", ".", "(", ")", ";"})

(* Operators between operands, longer.                                     *)
Operands == {"number", "falsu"}
Alternating == <<{"number", "-"}, {"number", "+", "*", "^"}, {"number", "-", "ka"}, {"*", "-", "number"},
                 {"number", "^", "/"}, {"<", "^", "number", "e"}, {"number", "-"}, {"number", ">="}>>
Comparing   == <<{"number", "name", "string"}, {"<", "<=", ">", ">=", "=/=", "+"}, {"number", "nulo", "string"}, {"e", "ou", "=="},
                 {"name"}, {"=", "<=", "ou"}, {"number", "falsu"}>>

AllDialects == {Sums, Logic, Calls, Classes, Alternating, Comparing}
=============================================================================
