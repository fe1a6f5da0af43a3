------------------------------- MODULE MCLexer -------------------------------
EXTENDS Lexer

Up(n, cs) == [i \in 1..n |-> cs]

(* Short sources of these characters.                                      *)
Strings   == Up(5, {Quote, "%", LeftBrace, RightBrace, "letter", Newline})
Comments  == Up(5, {Quote, "/", Newline, "%", "?"})
Operators == Up(4, {"=", "/", "<", "digit", ".", "letter", "$", "space"})

(* Templates in templates, up to one too deep.                             *)
Nested ==
  <<{Quote}, {"%"}, {LeftBrace}, {Quote, "letter"}, {"%", RightBrace}, {LeftBrace, Quote},
    {Quote, "letter", RightBrace}, {"%", RightBrace, Quote}, {LeftBrace, RightBrace, Quote, Newline},
    {RightBrace, Quote, "letter"}, {RightBrace, Quote, "/"}, {Quote, RightBrace, "/"}, {Quote, Newline}>>

AllDialects == {Strings, Comments, Operators, Nested}
===============================================================================
