------------------------------ MODULE MCProgram ------------------------------
EXTENDS Program

CONSTANTS a, b, d, m

(* The name b is the beginning of the name a.                              *)
Beginnings == {<<n, n>> : n \in Names} \cup {<<b, a>>}

A(kinds, names) == [kinds |-> kinds, names |-> names, members |-> {m}]

(* Loops, branches and blocks in each other, and the jumps out of them.    *)
Loops ==
  <<A({"block", "timenti", "pa()", "pa", "pa(mimoria)"}, {a}), A({"block", "si", "timenti", "pa(mimoria)", "mimoria"}, {a}),
    A({"block", "mimoria", "pa", "sai", "salta"}, {a}), A({"mimoria", "imprimi", "sai", "salta"}, {a})>>

Of(names, kinds) == [i \in DOMAIN kinds |-> A(kinds[i], names)]

(* Variables of the same name in nested blocks.                            *)
Scopes ==
  Of({a, b}, <<{"mimoria", "block"}, {"block"}, {"mimoria=name", "mimoria"}, {"block", "mimoria"},
               {"mimoria=name"}, {"imprimi", "="}>>)

(* A variable of a call, captured by a function that outlives it.          *)
Closures ==
  <<A({"funson", "funson(name)"}, {a, b}), A({"mimoria"}, {a, b}), A({"funson"}, {a, b}), A({"imprimi", "="}, {a}),
    A({"divolvi_name"}, {a, b}), A({"f()()", "f()"}, {a}), A({"f()()"}, {a})>>

(* Functions in functions: parameters, and variables two calls away.       *)
Nested ==
  Of({a, b}, <<{"funson(name)"}, {"block", "mimoria"}, {"funson"}, {"imprimi", "="},
               {"divolvi"}, {"f(e)"}>>)

(* The variable of a loop, captured in an iteration.                       *)
Iterations ==
  <<A({"funson"}, {b}), A({"pa(mimoria)"}, {a, b}), A({"block"}, {}), A({"funson"}, {a, b}), A({"="}, {a, b}),
    A({"divolvi_name"}, {a, b}), A({"f()()"}, {b})>>

(* As many locals as a function may have.                                  *)
Limits ==
  Of({a, b}, <<{"pa(mimoria)"}, {"block", "funson(name)"}, {"mimoria", "funson", "klasi:name"}, {"mimoria", "funson"},
               {"klasi", "klasi:name", "pa(mimoria)", "pa()", "funson(name)"}>>)

(* Returns without a value from branches and bodies in each other.         *)
Returning ==
  Of({a}, <<{"funson"}, {"mimoria", "si"}, {"si", "timenti", "block"}, {"divolvi", "block"}, {"divolvi", "mimoria"},
            {"f()", "imprimi"}, {"f()"}>>)

(* What the instances of a class, their methods and fields may do.         *)
Instances ==
  <<A({"klasi"}, {a}), A({"Method", "Method_Initializer", "Method(name)"}, {a}),
    A({"imprimi", "divolvi", "o.m=name"}, {a}), A({"mimoria=new()"}, {a, b}),
    A({"o.m()", "o.m=name", "mimoria=o.m"}, {b}), A({"o.m()", "f()", "new(e)"}, {a, b})>>

(* A class that inherits, and calls what it inherited.                     *)
Inheriting ==
  <<A({"klasi"}, {a}), A({"Method"}, {}), A({"klasi:name"}, {a, b}), A({"Method", "mimoria=new()"}, {b, d}),
    A({"o.m()", "mimoria=o.m"}, {a, d, m}), A({"mimoria=new()", "f()"}, {b, d}), A({"o.m()"}, {d})>>

(* Methods named like variables, in classes that are local.                *)
Members ==
  [i \in 1..6 |-> [kinds |-> <<{"block", "funson"}, {"klasi"}, {"klasi:name"}, {"Method"},
                               {"o.m()", "mimoria=o.m"}, {"new()", "f()"}>>[i],
                   names |-> IF i \in {1, 6} THEN {a} ELSE {a, b}, members |-> {a, b}]]

(* A captured variable in a scope that 'sai' leaves.                       *)
Leaving ==
  Of({b}, <<{"block"}, {"si"}, {"block"}, {"mimoria", "sai"}>>)
    \o <<A({"funson", "sai"}, {d}), A({"="}, {b}), A({"sai", "mimoria"}, {b}), A({"mimoria"}, {a}), A({"mimoria"}, {m})>>

(* A superclass in a variable that begins with its name, or that a function*)
(* compiled before assigned.                                               *)
Beginning ==
  <<A({"klasi"}, {a}), A({"mimoria"}, {b}), A({"klasi:name"}, {a, d}), A({"Method"}, {}), A({"o.m()"}, {a, b}),
    A({"mimoria=new()"}, {m, d}), A({"o.m()"}, {m})>>
Assigned ==
  <<A({"funson"}, {b}), A({"="}, {a}), A({"klasi"}, {a}), A({"klasi:name"}, {a, d}), A({"Method"}, {}),
    A({"o.m()"}, {a}), A({"mimoria=new()"}, {m, d}), A({"f()"}, {b}), A({"o.m()"}, {m})>>

(* The native function, as a value.                                        *)
Natives ==
  Of({a, m}, <<{"mimoria=name", "klasi"}, {"f()", "f(e)", "new()", "mimoria=new()", "="},
               {"o.m=name", "f()", "imprimi"}, {"o.m()"}>>)

AllDialects ==
  {Loops, Scopes, Closures, Nested, Iterations, Limits, Returning, Instances, Inheriting, Members,
   Leaving, Beginning, Assigned, Natives}
=============================================================================
