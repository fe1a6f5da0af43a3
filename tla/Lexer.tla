-------------------------------- MODULE Lexer --------------------------------
(***************************************************************************)
(* The lexer (src/lexer.c): lexer_scan, called by parser_advance until the *)
(* end of the source.  A character is its class: letters, digits and the   *)
(* tokens of one character are told apart only where a token depends on    *)
(* it.  A string is a template when it has expressions, `%{a}`, in it: its *)
(* pieces are tokens, and so is what is between them.                      *)
(***************************************************************************)
EXTENDS Integers, SequencesExt, FiniteSetsExt

CONSTANTS
  Dialects,         (* sequences of sets: the characters each place may    *)
                    (* have                                                *)
  MaxInterpolations (* STRING_INTERPOLATION_MAX: 8 in the code             *)

ASSUME LexerAssumption == MaxInterpolations \in Nat

VARIABLES
  dialect,
  source,         (* the characters, without the NUL that ends them        *)
  status,         (* "written", "scanning", "ended", or "outside": beyond  *)
                  (* the NUL                                               *)
  current,        (* the place of the character to scan next, from 1       *)
  line_number,
  interpolations, (* string_nested_interpolation, of the templates open    *)
  tokens,
  had_error

vars == <<dialect, source, status, current, line_number, interpolations, tokens, had_error>>

Init ==
  /\ dialect \in Dialects
  /\ source = <<>> /\ status = "written"
  /\ current = 1 /\ line_number = 1 /\ interpolations = <<>>
  /\ tokens = <<>> /\ had_error = FALSE

Write(c) ==
  /\ status = "written" /\ Len(source) < Len(dialect) /\ c \in dialect[Len(source) + 1]
  /\ source' = Append(source, c)
  /\ UNCHANGED <<dialect, status, current, line_number, interpolations, tokens, had_error>>

Begin ==
  /\ status = "written"
  /\ status' = "scanning"
  /\ UNCHANGED <<dialect, source, current, line_number, interpolations, tokens, had_error>>

-----------------------------------------------------------------------------
End     == Len(source) + 1
CharOf(s, k) == IF k \in DOMAIN s THEN s[k] ELSE "nul"
Char(k) == CharOf(source, k)

Newline == "newline"
Quote   == "quote"
LeftBrace  == "left_brace"
RightBrace == "right_brace"
Space   == {"space", Newline}
Single  == {"(", LeftBrace, RightBrace, ".", "-"}
Word    == {"letter", "digit"}

(* Whatever is not of the language is "?".                                 *)
Alphabet == Space \cup Single \cup Word \cup {Quote, "%", "/", "=", "<", "$", "?"}

ASSUME DialectsAssumption == \A d \in Dialects : UNION ToSet(d) \subseteq Alphabet

(* The first place from k on whose character is of cs: the loops over      *)
(* characters, each of which ends at the NUL at the latest.                *)
FirstOf(k, cs)    == Min({i \in k..End : Char(i) \in cs \cup {"nul"}})
FirstNotOf(k, cs) == Min({i \in k..End : Char(i) \notin cs})

Newlines(k, l) == Cardinality({i \in k..l-1 : Char(i) = Newline})

Token(kind, from, to) == [kind |-> kind, from |-> from, to |-> to]

(* lexer_make_error_and_advance: past the character that is wrong, the NUL *)
(* as any other.                                                           *)
Error(from, at) == Token("Error", from, at + 1)

(* lexer_read_string: from the quote, or from the brace that closes an     *)
(* expression, to the end of the piece of the template.                    *)
TooDeepLate(open) == Len(open) > MaxInterpolations
TooDeep(open) == Len(open) >= MaxInterpolations

Piece(from, open) ==
  LET at == FirstOf(from + 1, {Quote, "%"})
  IN  CASE Char(at) = Quote -> Token("String", from, at + 1)
        [] Char(at) = "nul" -> Error(from, at)
        [] Char(at) = "%" /\ (Char(at + 1) # LeftBrace \/ TooDeep(open)) -> Error(from, at)
        [] Char(at) = "%" /\ Char(at + 1) = LeftBrace /\ ~TooDeep(open) -> Token("String_Interpolation", from, at + 2)

(* The templates open after it.                                            *)
OpenedAnew(open, token) == IF token.kind = "String_Interpolation" THEN <<1>> ELSE open
Opened(open, token) == IF token.kind = "String_Interpolation" THEN Append(open, 1) ELSE open

(* The newlines lexer_read_string counts: of the piece, up to where it     *)
(* stops.                                                                  *)
NoNewlines(token) == 0
NewlinesIn(token) == Newlines(token.from + 1, token.to)

(* A brace counts down the template it is in; the one that gets it to zero *)
(* goes on with its string.                                                *)
Closing(at) == Char(at) = RightBrace /\ interpolations # <<>>
Counted     == [interpolations EXCEPT ![Len(interpolations)] = @ - 1]
Continues(at) == Closing(at) /\ Last(Counted) = 0

NumberEnd(from) ==
  LET whole == FirstNotOf(from, {"digit"})
  IN  IF Char(whole) = "." /\ Char(whole + 1) = "digit" THEN FirstNotOf(whole + 1, {"digit"}) ELSE whole

(* The other tokens, which neither open nor close anything.                *)
Plain(at) ==
  CASE Char(at) = "/" /\ Char(at + 1) = "/" -> Token("Comment", at, FirstOf(at, {Newline}))
    [] Char(at) = "/" /\ Char(at + 1) # "/" -> Token("Operator", at, at + 1)
    [] Char(at) \in Single -> Token(Char(at), at, at + 1)
    [] Char(at) = "=" /\ Char(at + 1) = "/" /\ Char(at + 2) = "=" -> Token("Not_Equal", at, at + 3)
    [] Char(at) = "=" /\ Char(at + 1) = "=" -> Token("Equal_Equal", at, at + 2)
    [] Char(at) = "=" /\ Char(at + 1) # "=" /\ ~(Char(at + 1) = "/" /\ Char(at + 2) = "=") ->
         Token("Equal", at, at + 1)
    [] Char(at) = "<" -> Token("Less", at, IF Char(at + 1) = "=" THEN at + 2 ELSE at + 1)
    [] Char(at) = "digit"  -> Token("Number", at, NumberEnd(at))
    [] Char(at) = "letter" -> Token("Identifier", at, FirstNotOf(at, Word))
    [] Char(at) = "$" -> Token("Debugger", at, FirstNotOf(at + 1, Word))
    [] OTHER -> Error(at, at)

-----------------------------------------------------------------------------
(* lexer_scan and what parser_advance does with the token.                 *)
Start == FirstNotOf(current, Space)

Deliver(token, open, newlines) ==
  /\ current' = token.to
  /\ line_number' = line_number + Newlines(current, Start) + newlines
  /\ interpolations' = open
  /\ tokens' = Append(tokens, [token |-> token, line |-> line_number'])
  /\ had_error' = (had_error \/ token.kind = "Error")
  /\ status' = IF token.to > End THEN "outside" ELSE status
  /\ UNCHANGED <<dialect, source>>

ScanString ==
  /\ status = "scanning" /\ Char(Start) = Quote
  /\ LET token == Piece(Start, interpolations)
     IN  Deliver(token, Opened(interpolations, token), NewlinesIn(token))

ScanRestOfTemplate ==
  /\ status = "scanning" /\ Continues(Start)
  /\ LET token == Piece(Start, Front(interpolations))
     IN  Deliver(token, Opened(Front(interpolations), token), NewlinesIn(token))

ScanPlain ==
  /\ status = "scanning" /\ Char(Start) \notin {Quote, "nul"} /\ ~Continues(Start)
  /\ Deliver(Plain(Start), IF Closing(Start) THEN Counted ELSE interpolations, 0)

ScanEnd ==
  /\ status = "scanning" /\ Char(Start) = "nul"
  /\ status' = "ended"
  /\ current' = Start /\ line_number' = line_number + Newlines(current, Start)
  /\ UNCHANGED <<dialect, source, interpolations, tokens, had_error>>

Next ==
  \/ \E c \in UNION ToSet(dialect) : Write(c)
  \/ Begin
  \/ ScanString \/ ScanRestOfTemplate \/ ScanPlain \/ ScanEnd

Spec == Init /\ [][Next]_vars

-----------------------------------------------------------------------------
(* What a source is, character by character: the constructs that enclose   *)
(* the one at k, from the outermost.  Braces are counted in an expression  *)
(* of a template as anywhere.                                              *)
InCode == {"code", "expression", "braces"}

Within(in, before, c, next) ==
  CASE Last(in) = "comment" -> IF c = Newline THEN Front(in) ELSE in
    [] Last(in) = "string" /\ c = Quote -> Front(in)
    [] Last(in) = "string" /\ c = LeftBrace /\ before = "%" -> Append(in, "expression")
    [] Last(in) = "string" /\ c # Quote /\ ~(c = LeftBrace /\ before = "%") -> in
    [] Last(in) \in InCode /\ c = Quote -> Append(in, "string")
    [] Last(in) \in InCode /\ c = "/" /\ next = "/" -> Append(in, "comment")
    [] Last(in) \in InCode \ {"code"} /\ c = LeftBrace -> Append(in, "braces")
    [] Last(in) \in InCode \ {"code"} /\ c = RightBrace -> Front(in)
    [] OTHER -> in

Enclosed(s) ==
  LET at[k \in 1..Len(s)+1] ==
        IF k = 1 THEN <<"code">>
        ELSE Within(at[k - 1], CharOf(s, k - 2), CharOf(s, k - 1), CharOf(s, k))
  IN  at

Enclosing == Enclosed(source)

Deepest(in) == Cardinality({i \in DOMAIN in : in[i] = "expression"})

(* Sources the lexer understands: no braces in an expression of a template *)
(* (lexer.c:105: the first closing one ends it), and every error is the     *)
(* last thing in it, since what the lexer makes of the rest depends on     *)
(* where it resumes.                                                       *)
Misplaced(in, k) ==
  \/ Last(in[k]) = "string" /\ Char(k) = "%" /\ Char(k + 1) # LeftBrace
  \/ Last(in[k]) = "string" /\ Char(k) = "%" /\ Deepest(in[k]) >= MaxInterpolations
  \/ Last(in[k]) = "string" /\ Char(k) = "nul"
  \/ Last(in[k]) \in {"code", "expression"} /\ Char(k) \in {"?", "%"}

FirstMisplaced(in) == Min({k \in 1..End : Misplaced(in, k)} \cup {End + 1})
FirstBraces(in) == Min({k \in 1..End : "braces" \in ToSet(in[k])} \cup {End + 1})

(* Every variable has its type; the lexer goes at most one character past  *)
(* the NUL and has no more templates open than there is room for           *)
(* (string_nested_interpolation).                                          *)
TypeOK ==
  /\ status \in {"written", "scanning", "ended", "outside"}
  /\ current \in 1..End+1 /\ (status = "outside" <=> current = End + 1)
  /\ interpolations \in Seq({1}) /\ Len(interpolations) <= MaxInterpolations
  /\ line_number \in 1..End
  /\ \A i \in DOMAIN tokens : tokens[i].token.from < tokens[i].token.to

(* The line of every token is the one it ends on, whatever strings and     *)
(* templates of more lines, comments and errors came before                *)
(* (lexer.c:65, 678): messages and run-time errors name it.                *)
LinesAreCounted ==
  \A i \in DOMAIN tokens : tokens[i].token.to <= End =>
    tokens[i].line = 1 + Newlines(1, tokens[i].token.to)

(* Up to the first error, and as long as no braces are in an expression of *)
(* a template, a token that is a piece of a string is one: its first       *)
(* character opens a string or closes the expression of the template it    *)
(* belongs to, however templates are nested, and no other token starts in  *)
(* a string.                                                               *)
PiecesContinueTheirTemplates ==
  LET in == Enclosing
      bound == Min({FirstMisplaced(in), FirstBraces(in)})
  IN  \A i \in DOMAIN tokens :
        LET t == tokens[i].token
        IN  t.to < bound =>
              /\ Last(in[t.from]) # "string"
              /\ t.kind \in {"String", "String_Interpolation"} <=>
                   Char(t.from) = Quote \/ (Char(t.from) = RightBrace /\ Last(in[t.from]) = "expression")
              /\ t.kind = "String" =>
                   Len(in[t.to]) = Len(in[t.from]) - (IF Char(t.from) = RightBrace THEN 2 ELSE 0)

(* An error is reported exactly when there is one: a character that is not *)
(* of the language, a string that does not end, a `%` that opens no        *)
(* expression or one too deep; and only such a string leads the lexer past *)
(* the end of the source.                                                  *)
ErrorsAreReported ==
  LET in == Enclosing
  IN  status \in {"ended", "outside"} /\ FirstBraces(in) > End =>
        /\ had_error <=> FirstMisplaced(in) <= End
        /\ status = "outside" => had_error

===============================================================================
