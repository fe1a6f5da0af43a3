----------------------------- MODULE LexerProofs -----------------------------
(***************************************************************************)
(* Proofs about the lexer: its types, and the line of every token, for     *)
(* every source, however long, and every limit of nested templates.  The   *)
(* invariant is that the line counted is that of the character to scan     *)
(* next.  It rests on what a token is made of: one that is no piece of a   *)
(* string has no newline in it (the lexer counts none there), and a piece  *)
(* may have some after its first character, which are those counted.       *)
(***************************************************************************)
EXTENDS Lexer, NaturalExtremes, FiniteSetTheorems, SequenceTheorems

USE DEF Quote, Newline, LeftBrace, RightBrace

Characters == UNION {UNION ToSet(d) : d \in Dialects}
Kinds      == {"String", "String_Interpolation", "Error", "Comment", "Operator", "Not_Equal", "Equal_Equal",
               "Equal", "Less", "Number", "Identifier", "Debugger"} \cup Single
Tokens     == [kind : Kinds, from : Nat, to : Nat]

(* A token in the source, at least one character long; it ends behind the  *)
(* NUL only when it is an error.                                           *)
InSource(token) ==
  /\ token \in Tokens
  /\ token.from \in 1..End /\ token.from < token.to /\ token.to <= End + 1
  /\ token.to > End => token.kind = "Error"

Typed ==
  /\ dialect \in Dialects
  /\ source \in Seq(Characters)
  /\ status \in {"written", "scanning", "ended", "outside"}
  /\ interpolations \in Seq({1}) /\ Len(interpolations) <= MaxInterpolations
  /\ tokens \in Seq([token : Tokens, line : Nat])

(* The line counted is that of the character to scan next.                 *)
Placed ==
  /\ current \in 1..End+1
  /\ status = "outside" <=> current = End + 1
  /\ line_number = 1 + Newlines(1, current)

Recorded ==
  \A i \in DOMAIN tokens :
    /\ InSource(tokens[i].token)
    /\ tokens[i].line = 1 + Newlines(1, tokens[i].token.to)

(* What is written before the first scan.                                  *)
Unscanned == status = "written" => current = 1 /\ tokens = <<>>

LexerInv == Typed /\ Placed /\ Recorded /\ Unscanned

-----------------------------------------------------------------------------
(* The NUL is behind the last character; whatever is not the NUL is in the *)
(* source.                                                                 *)
LEMMA CharFacts ==
  ASSUME source \in Seq(Characters)
  PROVE  /\ End \in Nat /\ End >= 1
         /\ Char(End) = "nul"
         /\ \A k \in Nat : k >= 1 /\ Char(k) # "nul" => k < End
BY DEF End, Char, CharOf

(* A loop over characters stops, at the NUL at the latest, at the first    *)
(* place where it may.                                                     *)
LEMMA FirstOfIs ==
  ASSUME source \in Seq(Characters), NEW k \in 1..End, NEW cs
  PROVE  /\ FirstOf(k, cs) \in k..End
         /\ Char(FirstOf(k, cs)) \in cs \cup {"nul"}
         /\ \A i \in k..FirstOf(k, cs)-1 : Char(i) \notin cs \cup {"nul"}
<1> DEFINE S == {i \in k..End : Char(i) \in cs \cup {"nul"}}
<1>1. End \in Nat /\ End \in S
  BY CharFacts
<1>2. S \subseteq Nat
  BY <1>1
<1>3. FirstOf(k, cs) = Min(S)
  BY DEF FirstOf
<1>4. Min(S) \in S /\ \A n \in S : Min(S) <= n
  <2> HIDE DEF S
  <2> QED
    BY <1>1, <1>2, MinOfNaturals
<1>5. ASSUME NEW i \in k..Min(S)-1 PROVE Char(i) \notin cs \cup {"nul"}
  <2>1. Min(S) \in k..End
    BY <1>4
  <2>2. i \in k..End /\ ~(Min(S) <= i)
    BY <1>1, <2>1
  <2> QED
    BY <1>4, <2>2
<1> QED
  BY <1>3, <1>4, <1>5

LEMMA FirstNotOfIs ==
  ASSUME source \in Seq(Characters), NEW k \in 1..End, NEW cs, "nul" \notin cs
  PROVE  /\ FirstNotOf(k, cs) \in k..End
         /\ Char(FirstNotOf(k, cs)) \notin cs
         /\ \A i \in k..FirstNotOf(k, cs)-1 : Char(i) \in cs
<1> DEFINE S == {i \in k..End : Char(i) \notin cs}
<1>1. End \in Nat /\ End \in S
  BY CharFacts
<1>2. S \subseteq Nat
  BY <1>1
<1>3. FirstNotOf(k, cs) = Min(S)
  BY DEF FirstNotOf
<1>4. Min(S) \in S /\ \A n \in S : Min(S) <= n
  <2> HIDE DEF S
  <2> QED
    BY <1>1, <1>2, MinOfNaturals
<1>5. ASSUME NEW i \in k..Min(S)-1 PROVE Char(i) \in cs
  <2>1. Min(S) \in k..End
    BY <1>4
  <2>2. i \in k..End /\ ~(Min(S) <= i)
    BY <1>1, <2>1
  <2> QED
    BY <1>4, <2>2
<1> QED
  BY <1>3, <1>4, <1>5

-----------------------------------------------------------------------------
(* Counting newlines: a finite number of them, counted piece by piece.     *)
LEMMA NewlinesAre ==
  ASSUME NEW k \in Nat, NEW l \in Nat
  PROVE  /\ IsFiniteSet({i \in k..l-1 : Char(i) = Newline})
         /\ Newlines(k, l) \in Nat
<1>1. IsFiniteSet(k..l-1)
  BY FS_Interval
<1>2. IsFiniteSet({i \in k..l-1 : Char(i) = Newline})
  BY <1>1, FS_Subset
<1> QED
  BY <1>2, FS_CardinalityType DEF Newlines

LEMMA NewlinesAdd ==
  ASSUME NEW k \in Nat, NEW l \in Nat, NEW m \in Nat, k <= l, l <= m
  PROVE  Newlines(k, m) = Newlines(k, l) + Newlines(l, m)
<1> DEFINE A == {i \in k..l-1 : Char(i) = Newline}
           B == {i \in l..m-1 : Char(i) = Newline}
           C == {i \in k..m-1 : Char(i) = Newline}
<1>1. C = A \cup B
  OBVIOUS
<1>2. A \cap B = {}
  OBVIOUS
<1>3. IsFiniteSet(A) /\ IsFiniteSet(B)
  BY NewlinesAre
<1>4. Cardinality(A) \in Nat /\ Cardinality(B) \in Nat
  BY <1>3, FS_CardinalityType
<1>5. Cardinality(C) = Cardinality(A) + Cardinality(B)
  <2> HIDE DEF A, B, C
  <2>1. Cardinality(A \cup B) = Cardinality(A) + Cardinality(B) - Cardinality(A \cap B)
    BY <1>3, FS_Union
  <2>2. Cardinality(A \cap B) = 0
    BY <1>2, FS_EmptySet
  <2> QED
    BY <1>1, <1>4, <2>1, <2>2
<1> QED
  BY <1>5 DEF Newlines

LEMMA NoNewline ==
  ASSUME NEW k \in Nat, NEW l \in Nat, \A i \in k..l-1 : Char(i) # Newline
  PROVE  Newlines(k, l) = 0
<1>1. {i \in k..l-1 : Char(i) = Newline} = {}
  OBVIOUS
<1> QED
  BY <1>1, FS_EmptySet DEF Newlines

(* There are no more lines than characters, the NUL among them.            *)
LEMMA LinesBound ==
  ASSUME source \in Seq(Characters), NEW l \in 1..End+1
  PROVE  1 + Newlines(1, l) \in 1..End
<1> DEFINE A == {i \in 1..l-1 : Char(i) = Newline}
<1>1. End \in Nat /\ Char(End) = "nul"
  BY CharFacts
<1>2. A \subseteq 1..End-1
  BY <1>1 DEF Newline
<1>3. IsFiniteSet(1..End-1) /\ Cardinality(1..End-1) = End - 1
  BY <1>1, CharFacts, FS_Interval
<1>4. Cardinality(A) \in Nat /\ Cardinality(A) <= End - 1
  <2> HIDE DEF A
  <2> QED
    BY <1>2, <1>3, FS_Subset, FS_CardinalityType
<1> QED
  BY <1>1, <1>4 DEF Newlines

-----------------------------------------------------------------------------
(* Where the next token starts: only white space is before it.             *)
LEMMA StartIs ==
  ASSUME source \in Seq(Characters), current \in 1..End
  PROVE  /\ Start \in current..End /\ Char(Start) \notin Space
         /\ \A j \in current..Start-1 : Char(j) \in Space
<1>1. "nul" \notin Space
  BY DEF Space, Newline
<1> QED
  BY <1>1, FirstNotOfIs DEF Start

(* A piece of a string is in the source, goes past the NUL only when it is *)
(* an error, and opens an expression only when that is not one too deep.   *)
LEMMA PieceIs ==
  ASSUME source \in Seq(Characters), NEW from \in Nat, from >= 1, Char(from) # "nul",
         NEW open
  PROVE  /\ InSource(Piece(from, open))
         /\ Piece(from, open).from = from
         /\ Piece(from, open).kind = "String_Interpolation" => ~TooDeep(open)
<1> DEFINE at == FirstOf(from + 1, {Quote, "%"})
           Good(t) == /\ InSource(t) /\ t.from = from
                      /\ t.kind = "String_Interpolation" => ~TooDeep(open)
<1>1. End \in Nat /\ from < End
  BY CharFacts
<1>2. at \in from+1..End /\ Char(at) \in {Quote, "%", "nul"}
  BY <1>1, FirstOfIs
<1>3. \A k \in Nat : k >= 1 /\ Char(k) # "nul" => k < End
  BY CharFacts
<1> HIDE DEF at
<1>4. ASSUME NEW kind \in Kinds, NEW to \in from+1..End+1, to > End => kind = "Error",
             kind = "String_Interpolation" => ~TooDeep(open)
      PROVE  Good(Token(kind, from, to))
  <2>1. /\ Token(kind, from, to).from = from
        /\ Token(kind, from, to).to = to
        /\ Token(kind, from, to).kind = kind
    BY DEF Token
  <2>2. Token(kind, from, to) \in Tokens
    BY <1>1 DEF Token, Tokens
  <2> QED
    BY <1>1, <1>4, <2>1, <2>2 DEF InSource
<1> HIDE DEF Good
<1>5. at + 1 \in from+1..End+1 /\ at + 1 \in Nat
  BY <1>1, <1>2
<1>6. ASSUME Char(at) = Quote PROVE Good(Piece(from, open))
  <2>1. Piece(from, open) = Token("String", from, at + 1)
    BY <1>6 DEF Piece, at, Quote
  <2>2. at < End
    BY <1>1, <1>2, <1>3, <1>6 DEF Quote
  <2>3. ~(at + 1 > End)
    BY <1>1, <1>2, <2>2
  <2> QED
    BY <1>4, <1>5, <2>1, <2>3 DEF Kinds
<1>7. ASSUME Char(at) = "nul" \/ (Char(at) = "%" /\ (Char(at + 1) # LeftBrace \/ TooDeep(open))) PROVE Good(Piece(from, open))
  <2>1. Piece(from, open) = Error(from, at)
    BY <1>7 DEF Piece, at, Quote
  <2> QED
    BY <1>4, <1>5, <2>1 DEF Error, Kinds
<1>8. ASSUME Char(at) = "%" /\ Char(at + 1) = LeftBrace /\ ~TooDeep(open) PROVE Good(Piece(from, open))
  <2>1. Piece(from, open) = Token("String_Interpolation", from, at + 2)
    BY <1>8 DEF Piece, at, Quote
  <2>2. at + 1 >= 1
    BY <1>1, <1>5
  <2>3. at + 1 < End
    BY <1>3, <1>5, <1>8, <2>2
  <2>4. at + 2 \in from+1..End+1 /\ ~(at + 2 > End)
    BY <1>1, <1>2, <2>3
  <2> QED
    BY <1>4, <1>8, <2>1, <2>4 DEF Kinds
<1>9. Good(Piece(from, open))
  BY <1>2, <1>6, <1>7, <1>8
<1> QED
  BY <1>9 DEF Good

(* A number ends behind its last digit.                                    *)
LEMMA NumberEndIs ==
  ASSUME source \in Seq(Characters), NEW from \in Nat, from >= 1, Char(from) = "digit"
  PROVE  /\ NumberEnd(from) \in from+1..End
         /\ \A i \in from..NumberEnd(from)-1 : Char(i) \in {"digit", "."}
<1> DEFINE whole == FirstNotOf(from, {"digit"})
<1>1. End \in Nat /\ from < End
  BY CharFacts
<1>2. /\ whole \in from..End
      /\ Char(whole) # "digit"
      /\ \A i \in from..whole-1 : Char(i) = "digit"
  BY <1>1, FirstNotOfIs
<1> HIDE DEF whole
<1>3. whole \in from+1..End
  BY <1>1, <1>2
<1>4. CASE Char(whole) = "." /\ Char(whole + 1) = "digit"
  <2> DEFINE fraction == FirstNotOf(whole + 1, {"digit"})
  <2>1. NumberEnd(from) = fraction
    BY <1>4 DEF NumberEnd, whole
  <2>2. whole + 1 \in 1..End
    BY <1>1, <1>3, <1>4, CharFacts
  <2>3. /\ fraction \in whole+1..End
        /\ \A i \in whole+1..fraction-1 : Char(i) = "digit"
    BY <2>2, FirstNotOfIs
  <2> HIDE DEF fraction
  <2>4. ASSUME NEW i \in from..fraction-1 PROVE Char(i) \in {"digit", "."}
    <3>1. i \in from..whole-1 \/ i = whole \/ i \in whole+1..fraction-1
      BY <1>1, <1>3, <2>3
    <3> QED
      BY <1>2, <1>4, <2>3, <3>1
  <2> QED
    BY <1>1, <1>3, <2>1, <2>3, <2>4
<1>5. CASE ~(Char(whole) = "." /\ Char(whole + 1) = "digit")
  <2>1. NumberEnd(from) = whole
    BY <1>5 DEF NumberEnd, whole
  <2> QED
    BY <1>2, <1>3, <2>1
<1> QED
  BY <1>4, <1>5

(* Whatever token is no piece of a string ends in the source and has no    *)
(* newline in it.                                                          *)
LEMMA PlainIs ==
  ASSUME source \in Seq(Characters), NEW at \in Nat, at >= 1, Char(at) # "nul", Char(at) \notin Space
  PROVE  /\ Plain(at) \in Tokens /\ Plain(at).from = at
         /\ Plain(at).to \in at+1..End
         /\ Plain(at).kind # "String_Interpolation"
         /\ \A i \in at..Plain(at).to-1 : Char(i) # Newline
<1> DEFINE Good(t) == /\ t \in Tokens /\ t.from = at /\ t.to \in at+1..End
                      /\ t.kind # "String_Interpolation"
                      /\ \A i \in at..t.to-1 : Char(i) # Newline
<1>0. SUFFICES Good(Plain(at))
  OBVIOUS
<1>1. End \in Nat /\ at < End
  BY CharFacts
<1>2. \A k \in Nat : k >= 1 /\ Char(k) # "nul" => k < End
  BY CharFacts
<1>3. Char(at) # Newline
  BY DEF Space
<1>4. ASSUME NEW kind \in Kinds, kind # "String_Interpolation", NEW to \in at+1..End,
             \A i \in at+1..to-1 : Char(i) # Newline
      PROVE  Good(Token(kind, at, to))
  <2>1. \A i \in at..to-1 : i = at \/ i \in at+1..to-1
    BY <1>1
  <2>2. \A i \in at..to-1 : Char(i) # Newline
    BY <1>3, <1>4, <2>1
  <2>3. Token(kind, at, to).to = to
    BY DEF Token
  <2>4. Token(kind, at, to) \in Tokens /\ Token(kind, at, to).from = at /\ Token(kind, at, to).kind = kind
    BY <1>1 DEF Token, Tokens
  <2> QED
    BY <1>1, <1>4, <2>2, <2>3, <2>4
<1>5. ASSUME NEW kind \in Kinds, kind # "String_Interpolation" PROVE Good(Token(kind, at, at + 1))
  <2>1. at + 1 \in at+1..End /\ \A i \in at+1..at+1-1 : Char(i) # Newline
    BY <1>1
  <2> QED
    BY <1>4, <1>5, <2>1
<1> HIDE DEF Good
<1>6. CASE Char(at) = "/"
  <2>1. CASE Char(at + 1) = "/"
    <3>1. Plain(at) = Token("Comment", at, FirstOf(at, {Newline}))
      BY <1>6, <2>1 DEF Plain, Single
    <3>2. /\ FirstOf(at, {Newline}) \in at..End
          /\ Char(FirstOf(at, {Newline})) \in {Newline, "nul"}
          /\ \A i \in at..FirstOf(at, {Newline})-1 : Char(i) # Newline
      BY <1>1, FirstOfIs
    <3>3. FirstOf(at, {Newline}) # at
      BY <1>3, <3>2
    <3>4. FirstOf(at, {Newline}) \in at+1..End
      BY <1>1, <3>2, <3>3
    <3>5. \A i \in at+1..FirstOf(at, {Newline})-1 : i \in at..FirstOf(at, {Newline})-1
      BY <1>1, <3>4
    <3> QED
      BY <1>4, <3>1, <3>2, <3>4, <3>5 DEF Kinds
  <2>2. CASE Char(at + 1) # "/"
    <3>1. Plain(at) = Token("Operator", at, at + 1)
      BY <1>6, <2>2 DEF Plain, Single
    <3> QED
      BY <1>5, <3>1 DEF Kinds
  <2> QED
    BY <2>1, <2>2
<1>7. CASE Char(at) \in Single
  <2>1. Plain(at) = Token(Char(at), at, at + 1)
    BY <1>7 DEF Plain, Single
  <2>2. Char(at) = "(" \/ Char(at) = LeftBrace \/ Char(at) = RightBrace \/ Char(at) = "." \/ Char(at) = "-"
    BY <1>7 DEF Single
  <2>3. PICK c \in Kinds : Char(at) = c /\ c # "String_Interpolation"
    BY <1>7, <2>2 DEF Kinds
  <2> QED
    BY <1>5, <2>1, <2>3 DEF Kinds
<1>8. CASE Char(at) = "="
  <2>1. CASE Char(at + 1) = "/" /\ Char(at + 2) = "="
    <3>1. Plain(at) = Token("Not_Equal", at, at + 3)
      BY <1>8, <2>1 DEF Plain, Single
    <3>2. at + 3 \in at+1..End
      BY <1>1, <1>2, <2>1
    <3>3. \A i \in at+1..at+3-1 : i = at + 1 \/ i = at + 2
      BY <1>1
    <3>4. \A i \in at+1..at+3-1 : Char(i) # Newline
      BY <2>1, <3>3 DEF Newline
    <3> QED
      BY <1>4, <3>1, <3>2, <3>4 DEF Kinds
  <2>2. CASE Char(at + 1) = "="
    <3>1. Plain(at) = Token("Equal_Equal", at, at + 2)
      BY <1>8, <2>2 DEF Plain, Single
    <3>2. at + 2 \in at+1..End
      BY <1>1, <1>2, <2>2
    <3>3. \A i \in at+1..at+2-1 : i = at + 1
      BY <1>1
    <3>4. \A i \in at+1..at+2-1 : Char(i) # Newline
      BY <2>2, <3>3 DEF Newline
    <3> QED
      BY <1>4, <3>1, <3>2, <3>4 DEF Kinds
  <2>3. CASE Char(at + 1) # "=" /\ ~(Char(at + 1) = "/" /\ Char(at + 2) = "=")
    <3>1. Plain(at) = Token("Equal", at, at + 1)
      BY <1>8, <2>3 DEF Plain, Single
    <3> QED
      BY <1>5, <3>1 DEF Kinds
  <2> QED
    BY <2>1, <2>2, <2>3
<1>9. CASE Char(at) = "<"
  <2>1. Plain(at) = Token("Less", at, IF Char(at + 1) = "=" THEN at + 2 ELSE at + 1)
    BY <1>9 DEF Plain, Single
  <2>2. CASE Char(at + 1) = "="
    <3>1. at + 2 \in at+1..End
      BY <1>1, <1>2, <2>2
    <3>2. \A i \in at+1..at+2-1 : i = at + 1
      BY <1>1
    <3>3. \A i \in at+1..at+2-1 : Char(i) # Newline
      BY <2>2, <3>2 DEF Newline
    <3> QED
      BY <1>4, <2>1, <2>2, <3>1, <3>3 DEF Kinds
  <2>3. CASE Char(at + 1) # "="
    BY <1>5, <2>1, <2>3 DEF Kinds
  <2> QED
    BY <2>2, <2>3
<1>10. CASE Char(at) = "digit"
  <2>1. Plain(at) = Token("Number", at, NumberEnd(at))
    BY <1>10 DEF Plain, Single
  <2>2. NumberEnd(at) \in at+1..End /\ \A i \in at..NumberEnd(at)-1 : Char(i) # Newline
    BY <1>10, NumberEndIs DEF Newline
  <2>3. \A i \in at+1..NumberEnd(at)-1 : i \in at..NumberEnd(at)-1
    BY <1>1, <2>2
  <2> QED
    BY <1>4, <2>1, <2>2, <2>3 DEF Kinds
<1>11. CASE Char(at) = "letter"
  <2>1. Plain(at) = Token("Identifier", at, FirstNotOf(at, Word))
    BY <1>11 DEF Plain, Single
  <2>2. /\ FirstNotOf(at, Word) \in at..End
        /\ Char(FirstNotOf(at, Word)) \notin Word
        /\ \A i \in at..FirstNotOf(at, Word)-1 : Char(i) \in Word
    BY <1>1, FirstNotOfIs DEF Word
  <2>3. FirstNotOf(at, Word) # at
    BY <1>11, <2>2 DEF Word
  <2>4. FirstNotOf(at, Word) \in at+1..End
    BY <1>1, <2>2, <2>3
  <2>5. \A i \in at+1..FirstNotOf(at, Word)-1 : i \in at..FirstNotOf(at, Word)-1
    BY <1>1, <2>4
  <2>6. \A i \in at+1..FirstNotOf(at, Word)-1 : Char(i) # Newline
    BY <2>2, <2>5 DEF Word, Newline
  <2> QED
    BY <1>4, <2>1, <2>4, <2>6 DEF Kinds
<1>12. CASE Char(at) = "$"
  <2>1. Plain(at) = Token("Debugger", at, FirstNotOf(at + 1, Word))
    BY <1>12 DEF Plain, Single
  <2>2. /\ FirstNotOf(at + 1, Word) \in at+1..End
        /\ \A i \in at+1..FirstNotOf(at + 1, Word)-1 : Char(i) \in Word
    BY <1>1, FirstNotOfIs DEF Word
  <2>3. \A i \in at+1..FirstNotOf(at + 1, Word)-1 : Char(i) # Newline
    BY <2>2 DEF Word, Newline
  <2> QED
    BY <1>4, <2>1, <2>2, <2>3 DEF Kinds
<1>13. CASE /\ Char(at) \notin {"/", "=", "<", "digit", "letter", "$"}
            /\ Char(at) \notin Single
  <2>1. Plain(at) = Error(at, at)
    BY <1>13 DEF Plain
  <2> QED
    BY <1>5, <2>1 DEF Error, Kinds
<1> QED
  BY <1>6, <1>7, <1>8, <1>9, <1>10, <1>11, <1>12, <1>13

-----------------------------------------------------------------------------
LEMMA InitLexer == Init => LexerInv
<1> SUFFICES ASSUME Init PROVE LexerInv
  OBVIOUS
<1>1. source = <<>> /\ End = 1
  BY DEF Init, End
<1>2. Typed
  BY LexerAssumption DEF Init, Typed
<1>3. Newlines(1, 1) = 0
  BY NoNewline
<1>4. Placed
  BY <1>1, <1>3 DEF Init, Placed
<1>5. Recorded /\ Unscanned
  BY DEF Init, Recorded, Unscanned
<1> QED
  BY <1>2, <1>4, <1>5 DEF LexerInv

LEMMA WriteKeeps ==
  ASSUME LexerInv, NEW c \in UNION ToSet(dialect), Write(c)
  PROVE  LexerInv'
<1>1. /\ status = "written" /\ current = 1 /\ line_number = 1 + Newlines(1, current) /\ tokens = <<>>
      /\ source \in Seq(Characters)
  BY DEF LexerInv, Typed, Placed, Unscanned, Write
<1>2. c \in Characters
  BY DEF Characters, LexerInv, Typed
<1>3. source' \in Seq(Characters)
  BY <1>1, <1>2 DEF Write
<1>4. Typed'
  BY <1>3 DEF LexerInv, Typed, Write
<1>5. Newlines(1, 1) = 0
  BY NoNewline
<1>6. Newlines(1, 1)' = 0
  <2>1. \A i \in 1..1-1 : FALSE
    OBVIOUS
  <2>2. ({i \in 1..1-1 : Char(i) = Newline})' = {}
    BY <2>1
  <2> QED
    BY <2>2, FS_EmptySet DEF Newlines
<1>7. Newlines(1, current)' = 0
  BY <1>1, <1>6 DEF Write, Newlines
<1>8. End' \in Nat /\ End' >= 1 /\ 1 \in 1..End'+1 /\ 1 # End' + 1
  <2>1. Len(source') \in Nat
    BY <1>3
  <2> QED
    BY <2>1 DEF End
<1>9. /\ current' = 1 /\ line_number' = 1 /\ status' = "written"
  BY <1>1, <1>5 DEF Write
<1>10. Placed'
  <2>1. (current \in 1..End + 1)'
    BY <1>8, <1>9
  <2>2. (status = "outside" <=> current = End + 1)'
    BY <1>8, <1>9
  <2>3. (line_number = 1 + Newlines(1, current))'
    BY <1>7, <1>9
  <2> QED
    BY <2>1, <2>2, <2>3 DEF Placed
<1>11. Recorded' /\ Unscanned'
  BY <1>1 DEF Write, Recorded, Unscanned
<1> QED
  BY <1>4, <1>10, <1>11 DEF LexerInv

(* While the source stays as it is, so do its lines.                       *)
LEMMA SameSource ==
  ASSUME source' = source
  PROVE  /\ End' = End
         /\ \A k, l : Newlines(k, l)' = Newlines(k, l)
         /\ \A t : InSource(t)' <=> InSource(t)
<1>1. End' = End
  BY DEF End
<1>2. ASSUME NEW k, NEW l PROVE Newlines(k, l)' = Newlines(k, l)
  BY DEF Newlines, Char, CharOf
<1>3. ASSUME NEW t PROVE InSource(t)' <=> InSource(t)
  BY <1>1 DEF InSource
<1> QED
  BY <1>1, <1>2, <1>3

LEMMA SameRecords ==
  ASSUME Recorded, source' = source, tokens' = tokens
  PROVE  Recorded'
<1> SUFFICES ASSUME NEW i \in DOMAIN tokens
             PROVE  /\ InSource(tokens[i].token)'
                    /\ (tokens[i].line)' = 1 + Newlines(1, tokens[i].token.to)'
  BY DEF Recorded
<1>1. PICK t : t = tokens[i]
  OBVIOUS
<1>2. InSource(t.token) /\ t.line = 1 + Newlines(1, t.token.to)
  BY <1>1 DEF Recorded
<1>3. InSource(t.token)' /\ t.line = 1 + Newlines(1, t.token.to)'
  BY <1>2, SameSource
<1>4. tokens'[i] = t
  BY <1>1
<1>5. InSource(tokens[i].token)'
  BY <1>3, <1>4 DEF InSource
<1>6. Newlines(1, tokens[i].token.to)' = Newlines(1, t.token.to)'
  BY <1>4 DEF Newlines
<1> QED
  BY <1>3, <1>4, <1>5, <1>6

(* A token from where it starts to where it ends: what its handler counts  *)
(* and what was skipped before it are the newlines up to its end.          *)
LEMMA DeliverKeeps ==
  ASSUME LexerInv, status = "scanning",
         NEW token, NEW open, NEW newlines, Deliver(token, open, newlines),
         InSource(token), token.from = Start, newlines = Newlines(Start, token.to),
         open \in Seq({1}), Len(open) <= MaxInterpolations
  PROVE  LexerInv'
<1>1. /\ source \in Seq(Characters) /\ End \in Nat /\ current \in 1..End
      /\ line_number = 1 + Newlines(1, current) /\ source' = source
      /\ tokens \in Seq([token : Tokens, line : Nat])
  BY CharFacts DEF LexerInv, Typed, Placed, Deliver
<1>2. Start \in current..End /\ Start \in Nat /\ current \in Nat
  BY <1>1, StartIs
<1>3. token \in Tokens /\ Start < token.to /\ token.to \in 1..End+1 /\ token.to \in Nat
  BY <1>1, <1>2 DEF InSource, Tokens
<1>4. PICK to : to = token.to
  OBVIOUS
<1>5. line_number' = 1 + Newlines(1, to)
  <2>1. Newlines(1, Start) = Newlines(1, current) + Newlines(current, Start)
    BY <1>1, <1>2, NewlinesAdd
  <2>2. Newlines(1, to) = Newlines(1, Start) + Newlines(Start, to)
    BY <1>1, <1>2, <1>3, <1>4, NewlinesAdd
  <2>3. /\ Newlines(1, current) \in Nat /\ Newlines(current, Start) \in Nat
        /\ Newlines(Start, to) \in Nat
    <3>1. 1 \in Nat /\ current \in Nat /\ Start \in Nat /\ to \in Nat
      BY <1>2, <1>3, <1>4
    <3> QED
      BY <3>1, NewlinesAre
  <2>4. line_number' = line_number + Newlines(current, Start) + Newlines(Start, to)
    BY <1>4 DEF Deliver
  <2> QED
    BY <1>1, <2>1, <2>2, <2>3, <2>4
<1>6. line_number' \in Nat
  <2>1. to \in Nat /\ 1 \in Nat
    BY <1>3, <1>4
  <2>2. Newlines(1, to) \in Nat
    BY <2>1, NewlinesAre
  <2> QED
    BY <1>5, <2>2
<1>7. current' = to /\ Newlines(1, current)' = Newlines(1, to)
  <2>1. current' = to
    BY <1>4 DEF Deliver
  <2> QED
    BY <1>1, <2>1 DEF Newlines, Char, CharOf
<1>8. End' = End
  BY <1>1, SameSource
<1>9. Placed'
  <2>1. status' = "outside" <=> to > End
    BY <1>4 DEF Deliver
  <2>2. to \in 1..End+1
    BY <1>3, <1>4
  <2> QED
    BY <1>1, <1>5, <1>7, <1>8, <2>1, <2>2 DEF Placed
<1> DEFINE record == [token |-> token, line |-> line_number']
<1>10. record \in [token : Tokens, line : Nat]
  BY <1>3, <1>6
<1>11. tokens' = Append(tokens, record)
  BY DEF Deliver
<1>12. Typed'
  <2>1. tokens' \in Seq([token : Tokens, line : Nat])
    <3> HIDE DEF record
    <3> QED
      BY <1>1, <1>10, <1>11
  <2>2. interpolations' = open /\ dialect' = dialect
    BY DEF Deliver
  <2>3. status' \in {"scanning", "outside"}
    BY DEF Deliver
  <2> QED
    BY <1>1, <2>1, <2>2, <2>3 DEF LexerInv, Typed
<1>13. Recorded'
  <2> SUFFICES ASSUME NEW i \in DOMAIN tokens'
               PROVE  /\ InSource(tokens[i].token)'
                      /\ (tokens[i].line)' = 1 + Newlines(1, tokens[i].token.to)'
    BY DEF Recorded
  <2>1. PICK t : t = tokens'[i]
    OBVIOUS
  <2>2. InSource(t.token) /\ t.line = 1 + Newlines(1, t.token.to)
    <3>1. CASE i \in DOMAIN tokens
      <4>1. t = tokens[i]
        BY <1>1, <1>11, <2>1, <3>1
      <4> QED
        BY <3>1, <4>1 DEF LexerInv, Recorded
    <3>2. CASE i \notin DOMAIN tokens
      <4>1. t = record
        BY <1>1, <1>11, <2>1, <3>2
      <4>2. t.token = token /\ t.line = line_number'
        BY <4>1
      <4> QED
        BY <1>4, <1>5, <4>2
    <3> QED
      BY <3>1, <3>2
  <2>3. InSource(t.token)' /\ t.line = 1 + Newlines(1, t.token.to)'
    BY <1>1, <2>2, SameSource
  <2>4. InSource(tokens[i].token)'
    BY <2>1, <2>3 DEF InSource
  <2>5. Newlines(1, tokens[i].token.to)' = Newlines(1, t.token.to)'
    BY <2>1 DEF Newlines
  <2> QED
    BY <2>1, <2>3, <2>4, <2>5
<1>14. Unscanned'
  BY DEF Unscanned, Deliver
<1> QED
  BY <1>9, <1>12, <1>13, <1>14 DEF LexerInv

(* The newlines of a piece are those after its first character.            *)
LEMMA PieceNewlines ==
  ASSUME NEW token, token.from \in Nat, token.to \in Nat, token.from < token.to,
         Char(token.from) # Newline
  PROVE  NewlinesIn(token) = Newlines(token.from, token.to)
<1>1. \A i \in token.from..token.from+1-1 : i = token.from
  OBVIOUS
<1>2. Newlines(token.from, token.from + 1) = 0
  BY <1>1, NoNewline
<1>3. token.from + 1 \in Nat /\ token.from <= token.from + 1 /\ token.from + 1 <= token.to
  OBVIOUS
<1>4. Newlines(token.from, token.to) = Newlines(token.from, token.from + 1) + Newlines(token.from + 1, token.to)
  BY <1>3, NewlinesAdd
<1>5. Newlines(token.from + 1, token.to) \in Nat
  BY <1>3, NewlinesAre
<1> QED
  BY <1>2, <1>4, <1>5 DEF NewlinesIn

LEMMA StartIsPlace ==
  ASSUME LexerInv, status = "scanning"
  PROVE  source \in Seq(Characters) /\ Start \in Nat /\ Start >= 1 /\ Char(Start) \notin Space
<1>1. source \in Seq(Characters)
  BY DEF LexerInv, Typed
<1>2. End \in Nat
  BY <1>1, CharFacts
<1>3. current \in 1..End+1 /\ current # End + 1
  BY DEF LexerInv, Placed
<1>4. current \in 1..End
  BY <1>2, <1>3
<1>5. Start \in current..End /\ Char(Start) \notin Space
  BY <1>1, <1>4, StartIs
<1> QED
  BY <1>1, <1>2, <1>4, <1>5

(* A piece opens an expression only when there is room for its template.   *)
LEMMA OpenedIs ==
  ASSUME NEW open \in Seq({1}), Len(open) <= MaxInterpolations, NEW token,
         token.kind = "String_Interpolation" => ~TooDeep(open)
  PROVE  Opened(open, token) \in Seq({1}) /\ Len(Opened(open, token)) <= MaxInterpolations
<1>1. CASE token.kind = "String_Interpolation"
  <2>1. Opened(open, token) = Append(open, 1)
    BY <1>1 DEF Opened
  <2>2. ~(Len(open) >= MaxInterpolations)
    BY <1>1 DEF TooDeep
  <2>3. Append(open, 1) \in Seq({1})
    OBVIOUS
  <2>4. Len(Append(open, 1)) = Len(open) + 1 /\ Len(open) \in Nat
    OBVIOUS
  <2>5. Len(Append(open, 1)) <= MaxInterpolations
    BY <2>2, <2>4, LexerAssumption
  <2> QED
    BY <2>1, <2>3, <2>5
<1>2. CASE token.kind # "String_Interpolation"
  BY <1>2 DEF Opened
<1> QED
  BY <1>1, <1>2

(* A piece is delivered among the templates open around it: it opens one   *)
(* more only when there is room.                                           *)
LEMMA DeliverPiece ==
  ASSUME LexerInv, status = "scanning", Char(Start) \in {Quote, RightBrace},
         NEW open \in Seq({1}), Len(open) <= MaxInterpolations,
         NEW token, token = Piece(Start, open),
         Deliver(token, Opened(open, token), NewlinesIn(token))
  PROVE  LexerInv'
<1>1. source \in Seq(Characters) /\ Start \in Nat /\ Start >= 1
  BY StartIsPlace
<1>2. Char(Start) # "nul" /\ Char(Start) # Newline
  BY DEF Quote, Newline
<1>3. /\ InSource(token) /\ token.from = Start
      /\ token.kind = "String_Interpolation" => ~TooDeep(open)
  BY <1>1, <1>2, PieceIs
<1>4. NewlinesIn(token) = Newlines(Start, token.to)
  BY <1>1, <1>2, <1>3, PieceNewlines DEF InSource, Tokens
<1>5. PICK after : after = Opened(open, token)
  OBVIOUS
<1>6. after \in Seq({1}) /\ Len(after) <= MaxInterpolations
  BY <1>3, <1>5, OpenedIs
<1>7. PICK n : n = NewlinesIn(token)
  OBVIOUS
<1>8. Deliver(token, after, n)
  BY <1>5, <1>7
<1> QED
  BY <1>3, <1>4, <1>6, <1>7, <1>8, DeliverKeeps

-----------------------------------------------------------------------------
LEMMA NonEmptyFacts ==
  ASSUME NEW S, NEW s \in Seq(S), s # <<>>
  PROVE  /\ Len(s) \in Nat /\ Len(s) >= 1 /\ Len(s) \in DOMAIN s /\ s[Len(s)] \in S
         /\ Front(s) \in Seq(S) /\ Len(Front(s)) = Len(s) - 1
<1>1. Len(s) \in Nat /\ DOMAIN s = 1..Len(s) /\ Len(s) # 0
  OBVIOUS
<1>2. Len(s) >= 1 /\ Len(s) \in DOMAIN s
  BY <1>1
<1>3. SubSeq(s, 1, Len(s) - 1) \in Seq(S) /\ Len(SubSeq(s, 1, Len(s) - 1)) = Len(s) - 1
  BY <1>1, <1>2
<1> QED
  BY <1>1, <1>2, <1>3 DEF Front

(* A brace within a template always goes on with it: every template open   *)
(* waits for one brace, as an expression of a template holds no others.    *)
LEMMA ClosingContinues ==
  ASSUME NEW at, interpolations \in Seq({1}), Closing(at)
  PROVE  Continues(at)
<1> DEFINE n == Len(interpolations)
<1>1. interpolations # <<>>
  BY DEF Closing
<1>2. n \in Nat /\ n \in DOMAIN interpolations /\ interpolations[n] = 1
  BY <1>1, NonEmptyFacts
<1>3. Len(Counted) = n /\ Counted[n] = 0
  BY <1>2 DEF Counted
<1>4. Last(Counted) = 0
  BY <1>3 DEF Last
<1> QED
  BY <1>4 DEF Continues

LEMMA ScanStringKeeps == ASSUME LexerInv, ScanString PROVE LexerInv'
<1>1. status = "scanning" /\ Char(Start) = Quote
  BY DEF ScanString
<1>2. PICK open : open = interpolations
  OBVIOUS
<1>3. open \in Seq({1}) /\ Len(open) <= MaxInterpolations
  BY <1>2 DEF LexerInv, Typed
<1>4. PICK token : token = Piece(Start, open)
  OBVIOUS
<1>5. Deliver(token, Opened(open, token), NewlinesIn(token))
  BY <1>2, <1>4 DEF ScanString
<1> QED
  BY <1>1, <1>3, <1>4, <1>5, DeliverPiece

LEMMA ScanRestOfTemplateKeeps == ASSUME LexerInv, ScanRestOfTemplate PROVE LexerInv'
<1>1. status = "scanning" /\ Char(Start) = RightBrace /\ interpolations # <<>>
  BY DEF ScanRestOfTemplate, Continues, Closing
<1>2. PICK open : open = Front(interpolations)
  OBVIOUS
<1>3. open \in Seq({1}) /\ Len(open) <= MaxInterpolations
  <2>1. interpolations \in Seq({1}) /\ Len(interpolations) <= MaxInterpolations
    BY DEF LexerInv, Typed
  <2>2. open \in Seq({1}) /\ Len(open) = Len(interpolations) - 1 /\ Len(interpolations) \in Nat
    BY <1>1, <1>2, <2>1, NonEmptyFacts
  <2> QED
    BY <2>1, <2>2, LexerAssumption
<1>4. PICK token : token = Piece(Start, open)
  OBVIOUS
<1>5. Deliver(token, Opened(open, token), NewlinesIn(token))
  BY <1>2, <1>4 DEF ScanRestOfTemplate
<1> QED
  BY <1>1, <1>3, <1>4, <1>5, DeliverPiece

LEMMA ScanPlainKeeps == ASSUME LexerInv, ScanPlain PROVE LexerInv'
<1>1. status = "scanning" /\ Char(Start) # "nul" /\ ~Continues(Start)
  BY DEF ScanPlain
<1>2. source \in Seq(Characters) /\ Start \in Nat /\ Start >= 1 /\ Char(Start) \notin Space
  BY <1>1, StartIsPlace
<1>3. interpolations \in Seq({1}) /\ Len(interpolations) <= MaxInterpolations
  BY DEF LexerInv, Typed
<1>4. ~Closing(Start)
  BY <1>1, <1>3, ClosingContinues
<1>5. PICK open : open = interpolations
  OBVIOUS
<1>6. PICK token : token = Plain(Start)
  OBVIOUS
<1>7. Deliver(token, open, 0)
  BY <1>4, <1>5, <1>6 DEF ScanPlain
<1>8. /\ token \in Tokens /\ token.from = Start /\ token.to \in Start+1..End
      /\ \A i \in Start..token.to-1 : Char(i) # Newline
  BY <1>1, <1>2, <1>6, PlainIs
<1>9. End \in Nat
  BY <1>2, CharFacts
<1>10. InSource(token)
  BY <1>2, <1>8, <1>9 DEF InSource
<1>11. Newlines(Start, token.to) = 0
  <2>1. token.to \in Nat
    BY <1>2, <1>8, <1>9
  <2> QED
    BY <1>2, <1>8, <2>1, NoNewline
<1> QED
  BY <1>1, <1>3, <1>5, <1>7, <1>8, <1>10, <1>11, DeliverKeeps

LEMMA BeginKeeps == ASSUME LexerInv, Begin PROVE LexerInv'
<1>1. source \in Seq(Characters) /\ End \in Nat /\ End >= 1
  BY CharFacts DEF LexerInv, Typed
<1>2. Typed'
  BY DEF LexerInv, Typed, Begin
<1>3. current = 1 /\ current' = current /\ line_number' = line_number /\ source' = source
      /\ status' = "scanning" /\ tokens' = tokens
  BY DEF LexerInv, Unscanned, Begin
<1>4. Placed'
  <2>1. End' = End
    BY <1>3, SameSource
  <2>2. Newlines(1, current)' = Newlines(1, current)
    BY <1>3 DEF Newlines, Char, CharOf
  <2>3. line_number = 1 + Newlines(1, current)
    BY DEF LexerInv, Placed
  <2> QED
    BY <1>1, <1>3, <2>1, <2>2, <2>3 DEF Placed
<1>5. Recorded'
  BY <1>3, SameRecords DEF LexerInv
<1>6. Unscanned'
  BY <1>3 DEF Unscanned
<1> QED
  BY <1>2, <1>4, <1>5, <1>6 DEF LexerInv

LEMMA ScanEndKeeps == ASSUME LexerInv, ScanEnd PROVE LexerInv'
<1>1. status = "scanning" /\ status' = "ended" /\ source' = source /\ tokens' = tokens
  BY DEF ScanEnd
<1>2. source \in Seq(Characters) /\ End \in Nat /\ End >= 1
  BY CharFacts DEF LexerInv, Typed
<1>3. current \in 1..End /\ line_number = 1 + Newlines(1, current)
  BY <1>1, <1>2 DEF LexerInv, Placed
<1>4. PICK start : start = Start
  OBVIOUS
<1>5. start \in current..End
  BY <1>2, <1>3, <1>4, StartIs
<1>6. current' = start /\ line_number' = line_number + Newlines(current, start)
  BY <1>4 DEF ScanEnd
<1>7. line_number' = 1 + Newlines(1, start)
  <2>1. 1 \in Nat /\ current \in Nat /\ start \in Nat /\ 1 <= current /\ current <= start
    BY <1>2, <1>3, <1>5
  <2>2. Newlines(1, start) = Newlines(1, current) + Newlines(current, start)
    BY <2>1, NewlinesAdd
  <2>3. Newlines(1, current) \in Nat /\ Newlines(current, start) \in Nat
    BY <2>1, NewlinesAre
  <2> QED
    BY <1>3, <1>6, <2>2, <2>3
<1>8. Placed'
  <2>1. End' = End
    BY <1>1, SameSource
  <2>2. Newlines(1, current)' = Newlines(1, start)
    BY <1>1, <1>6 DEF Newlines, Char, CharOf
  <2>3. start \in 1..End
    BY <1>2, <1>3, <1>5
  <2> QED
    BY <1>1, <1>2, <1>6, <1>7, <2>1, <2>2, <2>3 DEF Placed
<1>9. Typed'
  BY DEF LexerInv, Typed, ScanEnd
<1>10. Recorded'
  BY <1>1, SameRecords DEF LexerInv
<1>11. Unscanned'
  BY <1>1 DEF Unscanned
<1> QED
  BY <1>8, <1>9, <1>10, <1>11 DEF LexerInv

LEMMA NextLexer == LexerInv /\ [Next]_vars => LexerInv'
<1> SUFFICES ASSUME LexerInv, [Next]_vars PROVE LexerInv'
  OBVIOUS
<1>1. ASSUME NEW c \in UNION ToSet(dialect), Write(c) PROVE LexerInv'
  BY <1>1, WriteKeeps
<1>2. CASE Begin
  BY <1>2, BeginKeeps
<1>3. CASE ScanString
  BY <1>3, ScanStringKeeps
<1>4. CASE ScanRestOfTemplate
  BY <1>4, ScanRestOfTemplateKeeps
<1>5. CASE ScanPlain
  BY <1>5, ScanPlainKeeps
<1>6. CASE ScanEnd
  BY <1>6, ScanEndKeeps
<1>7. CASE UNCHANGED vars
  <2>1. /\ dialect' = dialect /\ source' = source /\ status' = status /\ current' = current
        /\ line_number' = line_number /\ interpolations' = interpolations /\ tokens' = tokens
    BY <1>7 DEF vars
  <2>2. Typed' /\ Unscanned'
    BY <2>1 DEF LexerInv, Typed, Unscanned
  <2>3. Placed'
    BY <2>1 DEF LexerInv, Placed, End, Newlines, Char, CharOf
  <2>4. Recorded'
    BY <2>1, SameRecords DEF LexerInv
  <2> QED
    BY <2>2, <2>3, <2>4 DEF LexerInv
<1> QED
  BY <1>1, <1>2, <1>3, <1>4, <1>5, <1>6, <1>7 DEF Next

LEMMA LexerInvHolds == Spec => []LexerInv
<1>1. Init => LexerInv
  BY InitLexer
<1>2. LexerInv /\ [Next]_vars => LexerInv'
  BY NextLexer
<1> QED
  BY <1>1, <1>2, PTL DEF Spec

(* Whatever the source, the lexer goes at most one character past the NUL, *)
(* never has more templates open than there is room for, and every token   *)
(* has at least one character (lexer_scan, lexer.c).                       *)
THEOREM LexerIsTyped == Spec => []TypeOK
<1>1. ASSUME LexerInv PROVE TypeOK
  <2>1. source \in Seq(Characters)
    BY <1>1 DEF LexerInv, Typed
  <2>2. line_number \in 1..End
    BY <1>1, <2>1, LinesBound DEF LexerInv, Placed
  <2>3. \A i \in DOMAIN tokens : tokens[i].token.from < tokens[i].token.to
    BY <1>1 DEF LexerInv, Recorded, InSource
  <2> QED
    BY <1>1, <2>2, <2>3 DEF LexerInv, Typed, Placed, TypeOK
<1> QED
  BY <1>1, LexerInvHolds, PTL

(* The line a token carries is the one it ends on, whatever the strings,   *)
(* templates, comments and errors before it (lexer.c:65, 678).             *)
THEOREM LinesAreRight == Spec => []LinesAreCounted
<1>1. LexerInv => LinesAreCounted
  BY DEF LexerInv, Recorded, LinesAreCounted
<1> QED
  BY <1>1, LexerInvHolds, PTL

-----------------------------------------------------------------------------
(* The recursion that says what encloses each character has a solution, so *)
(* its equations hold: that of a source with the least end that had none   *)
(* would extend the one before.                                            *)
LEMMA EnclosedIs ==
  ASSUME NEW s, Len(s) \in Nat
  PROVE  /\ Enclosed(s)[1] = <<"code">>
         /\ \A k \in 1..Len(s) :
              Enclosed(s)[k + 1] = Within(Enclosed(s)[k], CharOf(s, k - 1), CharOf(s, k), CharOf(s, k + 1))
<1> DEFINE Body(g, k) == IF k = 1 THEN <<"code">>
                         ELSE Within(g[k - 1], CharOf(s, k - 2), CharOf(s, k - 1), CharOf(s, k))
           Solves(g, m) == g = [k \in 1..m |-> Body(g, k)]
           Unsolved == {m \in Nat : ~ \E g : Solves(g, m)}
<1>1. Unsolved = {}
  <2>1. SUFFICES ASSUME Unsolved # {} PROVE FALSE
    OBVIOUS
  <2>2. PICK m \in Unsolved : \A n \in Unsolved : m <= n
    <3>1. Unsolved \subseteq Nat
      OBVIOUS
    <3> HIDE DEF Unsolved
    <3> QED
      BY <2>1, <3>1, MinOfNaturals
  <2>3. m \in Nat /\ m # 0
    <3>1. Solves([k \in 1..0 |-> 0], 0)
      OBVIOUS
    <3> HIDE DEF Solves
    <3> QED
      BY <3>1
  <2>4. PICK g : Solves(g, m - 1)
    <3>1. m - 1 \in Nat /\ ~(m <= m - 1)
      BY <2>3
    <3> QED
      BY <2>2, <3>1
  <2> DEFINE h == [k \in 1..m |-> Body(g, k)]
  <2>5. \A k \in 1..m-1 : h[k] = g[k]
    <3> HIDE DEF Body
    <3> QED
      BY <2>3, <2>4
  <2>6. \A k \in 1..m : k # 1 => k - 1 \in 1..m-1
    BY <2>3
  <2>7. \A k \in 1..m : Body(h, k) = Body(g, k)
    <3> HIDE DEF h
    <3> QED
      BY <2>5, <2>6
  <2>8. Solves(h, m)
    <3> HIDE DEF Body
    <3> QED
      BY <2>7
  <2> QED
    BY <2>8
<1>2. PICK m : m = Len(s) + 1
  OBVIOUS
<1>3. \E g : Solves(g, m)
  BY <1>1, <1>2
<1>4. Enclosed(s) = CHOOSE g : Solves(g, m)
  BY <1>2 DEF Enclosed
<1>5. Solves(Enclosed(s), m)
  <2> HIDE DEF Solves
  <2> QED
    BY <1>3, <1>4
<1>6. \A k \in 1..m : Enclosed(s)[k] = Body(Enclosed(s), k)
  <2> HIDE DEF Body
  <2> QED
    BY <1>5
<1>7. ASSUME NEW k \in 1..Len(s)
      PROVE  Enclosed(s)[k + 1] = Within(Enclosed(s)[k], CharOf(s, k - 1), CharOf(s, k), CharOf(s, k + 1))
  <2>1. k + 1 \in 1..m /\ k + 1 # 1 /\ k + 1 - 1 = k /\ k + 1 - 2 = k - 1
    BY <1>2
  <2> QED
    BY <1>6, <2>1
<1> QED
  BY <1>2, <1>6, <1>7

(* What encloses the character after k, from what encloses k.              *)
Then(in, k) == Within(in, Char(k - 1), Char(k), Char(k + 1))

LEMMA EnclosingIs ==
  ASSUME source \in Seq(Characters)
  PROVE  /\ Enclosing[1] = <<"code">>
         /\ \A k \in 1..End-1 : Enclosing[k + 1] = Then(Enclosing[k], k)
<1>1. Len(source) \in Nat /\ End - 1 = Len(source)
  BY DEF End
<1> QED
  BY <1>1, EnclosedIs DEF Enclosing, Then, Char

(* Characters that open and close nothing leave what encloses them as it   *)
(* is, to the last of them.                                                *)
LEMMA Steady ==
  ASSUME source \in Seq(Characters), NEW p \in 1..End, NEW q \in p..End,
         NEW in, Enclosing[p] = in, \A j \in p..q-1 : Then(in, j) = in
  PROVE  \A j \in p..q : Enclosing[j] = in
<1> DEFINE Others == {j \in p..q : Enclosing[j] # in}
<1>1. End \in Nat
  BY CharFacts
<1>2. SUFFICES ASSUME Others # {} PROVE FALSE
  OBVIOUS
<1>3. PICK m \in Others : \A n \in Others : m <= n
  <2>1. Others \subseteq Nat
    BY <1>1
  <2> HIDE DEF Others
  <2> QED
    BY <1>2, <2>1, MinOfNaturals
<1>4. m \in p..q /\ m # p /\ Enclosing[m] # in
  OBVIOUS
<1>5. m - 1 \in p..q-1 /\ m - 1 \in p..q /\ ~(m <= m - 1) /\ m - 1 \in 1..End-1 /\ (m - 1) + 1 = m
  BY <1>1, <1>4
<1>6. Enclosing[m - 1] = in
  BY <1>3, <1>5
<1>7. Enclosing[m] = Then(in, m - 1)
  <2>1. Enclosing[(m - 1) + 1] = Then(Enclosing[m - 1], m - 1)
    BY <1>5, EnclosingIs
  <2> QED
    BY <1>5, <1>6, <2>1
<1> QED
  BY <1>4, <1>5, <1>7

-----------------------------------------------------------------------------
(* The expressions of n templates, each in the string of its own, and no   *)
(* braces in them.                                                         *)
Constructs == {"code", "expression", "string"}
Nest(in, n) ==
  /\ n \in Nat /\ in \in Seq(Constructs) /\ Len(in) = 2 * n + 1
  /\ \A i \in 0..n : in[2 * i + 1] = IF i = 0 THEN "code" ELSE "expression"
  /\ \A i \in 1..n : in[2 * i] = "string"
  /\ Deepest(in) = n

LEMMA AppendFacts ==
  ASSUME NEW S, NEW s \in Seq(S), NEW x
  PROVE  /\ Len(Append(s, x)) = Len(s) + 1 /\ Len(s) \in Nat
         /\ Last(Append(s, x)) = x /\ Front(Append(s, x)) = s
         /\ \A i \in 1..Len(s) : Append(s, x)[i] = s[i]
         /\ ToSet(Append(s, x)) = ToSet(s) \cup {x}
<1>1. Append(s, x) \in Seq(S \cup {x}) /\ Len(Append(s, x)) = Len(s) + 1 /\ Len(s) \in Nat
  OBVIOUS
<1>2. \A i \in 1..Len(s) : Append(s, x)[i] = s[i]
  OBVIOUS
<1>3. Append(s, x)[Len(s) + 1] = x
  OBVIOUS
<1>4. Front(Append(s, x)) = s
  <2>1. Front(Append(s, x)) = SubSeq(Append(s, x), 1, Len(s))
    BY <1>1 DEF Front
  <2>2. Len(SubSeq(Append(s, x), 1, Len(s))) = Len(s)
    BY <1>1
  <2>3. \A i \in 1..Len(s) : SubSeq(Append(s, x), 1, Len(s))[i] = s[i]
    BY <1>1, <1>2
  <2>4. SubSeq(Append(s, x), 1, Len(s)) \in Seq(S \cup {x}) /\ s \in Seq(S \cup {x})
    BY <1>1
  <2> HIDE DEF Front
  <2> QED
    BY <2>1, <2>2, <2>3, <2>4, SeqEqual
<1>5. ToSet(Append(s, x)) = ToSet(s) \cup {x}
  <2>1. \A i \in 1..Len(s)+1 : i \in 1..Len(s) \/ i = Len(s) + 1
    BY <1>1
  <2>2. \A i \in 1..Len(s) : i \in 1..Len(s)+1
    BY <1>1
  <2>3. Len(s) + 1 \in 1..Len(s)+1
    BY <1>1
  <2>4. DOMAIN Append(s, x) = 1..Len(s)+1 /\ DOMAIN s = 1..Len(s)
    BY <1>1
  <2> QED
    BY <1>2, <1>3, <2>1, <2>2, <2>3, <2>4 DEF ToSet
<1> QED
  BY <1>1, <1>2, <1>3, <1>4, <1>5 DEF Last

LEMMA FrontFacts ==
  ASSUME NEW S, NEW s \in Seq(S), s # <<>>
  PROVE  Front(s) \in Seq(S) /\ s = Append(Front(s), Last(s)) /\ Len(Front(s)) = Len(s) - 1
         /\ \A i \in 1..Len(s)-1 : Front(s)[i] = s[i]
<1>1. Len(s) \in Nat /\ Len(s) >= 1
  OBVIOUS
<1>2. Front(s) \in Seq(S) /\ Len(Front(s)) = Len(s) - 1 /\ \A i \in 1..Len(s)-1 : Front(s)[i] = s[i]
  <2>1. \A i \in 1..Len(s)-1 : s[i] \in S /\ i \in 1..Len(s)
    BY <1>1
  <2>2. SubSeq(s, 1, Len(s) - 1) = [i \in 1..Len(s)-1 |-> s[i]]
    BY <1>1
  <2>3. [i \in 1..Len(s)-1 |-> s[i]] \in Seq(S)
    BY <1>1, <2>1
  <2>4. PICK f : f = [i \in 1..Len(s)-1 |-> s[i]]
    OBVIOUS
  <2>5. DOMAIN f = 1..Len(s)-1 /\ f \in Seq(S) /\ \A i \in 1..Len(s)-1 : f[i] = s[i]
    BY <2>3, <2>4
  <2>6. Front(s) = f
    BY <2>2, <2>4 DEF Front
  <2>7. Len(f) \in Nat /\ DOMAIN f = 1..Len(f)
    BY <2>5
  <2>8. Len(f) = Len(s) - 1
    BY <1>1, <2>5, <2>7
  <2> QED
    BY <2>5, <2>6, <2>8
<1>3. Last(s) \in S /\ Last(s) = s[Len(s)]
  BY <1>1 DEF Last
<1>4. s = Append(Front(s), Last(s))
  <2>1. Append(Front(s), Last(s)) \in Seq(S) /\ Len(Append(Front(s), Last(s))) = Len(s)
    BY <1>1, <1>2, <1>3
  <2>2. \A i \in 1..Len(s) : Append(Front(s), Last(s))[i] = s[i]
    <3> SUFFICES ASSUME NEW i \in 1..Len(s) PROVE Append(Front(s), Last(s))[i] = s[i]
      OBVIOUS
    <3>1. CASE i = Len(s)
      BY <1>1, <1>2, <1>3, <3>1
    <3>2. CASE i \in 1..Len(s)-1
      BY <1>1, <1>2, <1>3, <3>2
    <3>3. i = Len(s) \/ i \in 1..Len(s)-1
      BY <1>1
    <3> QED
      BY <3>1, <3>2, <3>3
  <2> QED
    BY <2>1, <2>2, SeqEqual
<1> QED
  BY <1>2, <1>4

(* One more construct is one more expression, or none.                     *)
LEMMA DeepestOfAppend ==
  ASSUME NEW S, NEW in \in Seq(S), NEW x
  PROVE  /\ Deepest(in) \in Nat
         /\ Deepest(Append(in, x)) = Deepest(in) + (IF x = "expression" THEN 1 ELSE 0)
<1> DEFINE A == {i \in 1..Len(in) : in[i] = "expression"}
           B == {i \in 1..Len(in)+1 : Append(in, x)[i] = "expression"}
<1>1. Len(in) \in Nat /\ DOMAIN in = 1..Len(in)
  OBVIOUS
<1>2. IsFiniteSet(A)
  <2>1. IsFiniteSet(1..Len(in)) /\ A \subseteq 1..Len(in)
    BY <1>1, FS_Interval
  <2> QED
    BY <2>1, FS_Subset
<1>3. Deepest(in) = Cardinality(A) /\ Deepest(Append(in, x)) = Cardinality(B)
  <2>1. DOMAIN Append(in, x) = 1..Len(in)+1
    BY <1>1
  <2> QED
    BY <1>1, <2>1 DEF Deepest
<1>4. Cardinality(A) \in Nat
  BY <1>2, FS_CardinalityType
<1>5. /\ \A i \in 1..Len(in) : Append(in, x)[i] = in[i] /\ i # Len(in) + 1
      /\ Append(in, x)[Len(in) + 1] = x
      /\ 1..Len(in)+1 = 1..Len(in) \cup {Len(in) + 1}
  BY <1>1
<1>6. CASE x = "expression"
  <2>1. B = A \cup {Len(in) + 1} /\ Len(in) + 1 \notin A
    BY <1>5, <1>6
  <2> HIDE DEF A, B
  <2>2. Cardinality(B) = Cardinality(A) + 1
    BY <1>2, <2>1, FS_AddElement
  <2> QED
    BY <1>3, <1>4, <1>6, <2>2
<1>7. CASE x # "expression"
  <2>1. B = A
    BY <1>5, <1>7
  <2> HIDE DEF A, B
  <2> QED
    BY <1>3, <1>4, <1>7, <2>1
<1> QED
  BY <1>6, <1>7

LEMMA NestFacts ==
  ASSUME NEW in, NEW n, Nest(in, n)
  PROVE  /\ n \in Nat /\ in \in Seq(Constructs) /\ in # <<>>
         /\ Last(in) = IF n = 0 THEN "code" ELSE "expression"
         /\ "braces" \notin ToSet(in)
<1>1. n \in Nat /\ in \in Seq(Constructs) /\ Len(in) = 2 * n + 1
  BY DEF Nest
<1>2. in[2 * n + 1] = IF n = 0 THEN "code" ELSE "expression"
  BY <1>1 DEF Nest
<1>3. \A i \in DOMAIN in : in[i] \in Constructs
  BY <1>1
<1> QED
  BY <1>1, <1>2, <1>3 DEF Last, ToSet, Constructs

(* Into the expression of one more template, and out of it.                *)
LEMMA NestDeeper ==
  ASSUME NEW in, NEW n, Nest(in, n)
  PROVE  Nest(Append(Append(in, "string"), "expression"), n + 1) /\ Deepest(Append(in, "string")) = n
<1> DEFINE s == Append(in, "string")
           e == Append(s, "expression")
<1>1. n \in Nat /\ in \in Seq(Constructs) /\ Len(in) = 2 * n + 1 /\ Deepest(in) = n
  BY DEF Nest
<1>2. s \in Seq(Constructs) /\ Len(s) = 2 * n + 2 /\ s[2 * n + 2] = "string"
      /\ \A i \in 1..2*n+1 : s[i] = in[i]
  BY <1>1 DEF Constructs
<1>3. Deepest(s) = n
  BY <1>1, DeepestOfAppend
<1> HIDE DEF s
<1>4. e \in Seq(Constructs) /\ Len(e) = 2 * n + 3 /\ e[2 * n + 3] = "expression"
      /\ \A i \in 1..2*n+2 : e[i] = s[i]
  BY <1>1, <1>2 DEF Constructs
<1>5. Deepest(e) = n + 1
  BY <1>1, <1>2, <1>3, DeepestOfAppend
<1> HIDE DEF e
<1>6. ASSUME NEW i \in 0..n+1 PROVE e[2 * i + 1] = IF i = 0 THEN "code" ELSE "expression"
  <2>1. CASE i = n + 1
    BY <1>1, <1>4, <2>1
  <2>2. CASE i \in 0..n
    <3>1. 2 * i + 1 \in 1..2*n+1 /\ 2 * i + 1 \in 1..2*n+2
      BY <1>1, <2>2
    <3>2. e[2 * i + 1] = in[2 * i + 1]
      BY <1>2, <1>4, <3>1
    <3> QED
      BY <2>2, <3>2 DEF Nest
  <2> QED
    BY <1>1, <2>1, <2>2
<1>7. ASSUME NEW i \in 1..n+1 PROVE e[2 * i] = "string"
  <2>1. CASE i = n + 1
    BY <1>1, <1>2, <1>4, <2>1
  <2>2. CASE i \in 1..n
    <3>1. 2 * i \in 1..2*n+1 /\ 2 * i \in 1..2*n+2
      BY <1>1, <2>2
    <3>2. e[2 * i] = in[2 * i]
      BY <1>2, <1>4, <3>1
    <3> QED
      BY <2>2, <3>2 DEF Nest
  <2> QED
    BY <1>1, <2>1, <2>2
<1>8. Nest(e, n + 1)
  <2>1. n + 1 \in Nat /\ Len(e) = 2 * (n + 1) + 1
    BY <1>1, <1>4
  <2> QED
    BY <1>4, <1>5, <1>6, <1>7, <2>1 DEF Nest
<1> QED
  BY <1>3, <1>8 DEF e, s

LEMMA NestOuter ==
  ASSUME NEW in, NEW n, Nest(in, n), n # 0
  PROVE  \E out : /\ Nest(out, n - 1)
                  /\ in = Append(Append(out, "string"), "expression")
<1> DEFINE s == Front(in)
           out == Front(s)
<1>1. n \in Nat /\ in \in Seq(Constructs) /\ Len(in) = 2 * n + 1 /\ Deepest(in) = n /\ n >= 1
  BY DEF Nest
<1>2. /\ s \in Seq(Constructs) /\ in = Append(s, Last(in)) /\ Len(s) = 2 * n
      /\ \A i \in 1..2*n : s[i] = in[i]
  <2>1. in # <<>> /\ Len(in) - 1 = 2 * n
    BY <1>1
  <2> QED
    BY <1>1, <2>1, FrontFacts
<1>3. Last(in) = "expression"
  BY <1>1, NestFacts
<1> HIDE DEF s
<1>4. /\ out \in Seq(Constructs) /\ s = Append(out, Last(s)) /\ Len(out) = 2 * n - 1
      /\ \A i \in 1..2*n-1 : out[i] = s[i]
  <2>1. s # <<>> /\ Len(s) - 1 = 2 * n - 1
    BY <1>1, <1>2
  <2> QED
    BY <1>1, <1>2, <2>1, FrontFacts
<1>5. Last(s) = "string"
  <2>1. 2 * n \in 1..2*n /\ n \in 1..n
    BY <1>1
  <2> QED
    BY <1>2, <2>1 DEF Last, Nest
<1> HIDE DEF out
<1>6. Deepest(out) = n - 1
  <2>1. Deepest(Append(out, "string")) = Deepest(out) + 0 /\ Deepest(out) \in Nat
    BY <1>4, DeepestOfAppend
  <2>2. Deepest(Append(s, "expression")) = Deepest(s) + 1
    BY <1>2, DeepestOfAppend
  <2>3. s = Append(out, "string") /\ in = Append(s, "expression")
    BY <1>2, <1>3, <1>4, <1>5
  <2>4. Deepest(s) = Deepest(out) + 0 /\ Deepest(in) = Deepest(s) + 1
    BY <2>1, <2>2, <2>3, Zenon
  <2> QED
    BY <1>1, <2>1, <2>4
<1>7. Nest(out, n - 1)
  <2>1. n - 1 \in Nat /\ Len(out) = 2 * (n - 1) + 1
    BY <1>1, <1>4
  <2>2. ASSUME NEW i \in 0..n-1 PROVE out[2 * i + 1] = IF i = 0 THEN "code" ELSE "expression"
    <3>1. 2 * i + 1 \in 1..2*n-1 /\ 2 * i + 1 \in 1..2*n /\ i \in 0..n
      BY <1>1
    <3>2. out[2 * i + 1] = in[2 * i + 1]
      BY <1>2, <1>4, <3>1
    <3> QED
      BY <3>1, <3>2 DEF Nest
  <2>3. ASSUME NEW i \in 1..n-1 PROVE out[2 * i] = "string"
    <3>1. 2 * i \in 1..2*n-1 /\ 2 * i \in 1..2*n /\ i \in 1..n
      BY <1>1
    <3>2. out[2 * i] = in[2 * i]
      BY <1>2, <1>4, <3>1
    <3> QED
      BY <3>1, <3>2 DEF Nest
  <2> QED
    BY <1>4, <1>6, <2>1, <2>2, <2>3 DEF Nest
<1> QED
  BY <1>2, <1>3, <1>4, <1>5, <1>7

-----------------------------------------------------------------------------
(* Where a token ends in a source understood so far: in the expression of  *)
(* the innermost template, or at the end of the comment that the token is. *)
Aligned(k, n) ==
  \/ Nest(Enclosing[k], n)
  \/ /\ Char(k) \in {Newline, "nul"}
     /\ \E in : Nest(in, n) /\ Enclosing[k] = Append(in, "comment")

(* No braces in the expression of a template up to k, and no error before. *)
Fine(k) ==
  \A j \in 1..k : /\ "braces" \notin ToSet(Enclosing[j])
                  /\ j < k => ~Misplaced(Enclosing, j)

(* What PiecesContinueTheirTemplates says of a token.                      *)
Proper(t) ==
  /\ Last(Enclosing[t.from]) # "string"
  /\ t.kind \in {"String", "String_Interpolation"} <=>
       Char(t.from) = Quote \/ (Char(t.from) = RightBrace /\ Last(Enclosing[t.from]) = "expression")
  /\ t.kind = "String" =>
       Len(Enclosing[t.to]) = Len(Enclosing[t.from]) - (IF Char(t.from) = RightBrace THEN 2 ELSE 0)

(* A token with n templates open after it: an error is one in the source,  *)
(* and any other token is a construct of it.                               *)
Sound(t, n) ==
  IF t.kind = "Error"
  THEN \E j \in t.from..t.to-1 : j \in 1..End /\ Misplaced(Enclosing, j)
  ELSE /\ \A j \in t.from..t.to-1 : ~Misplaced(Enclosing, j)
       /\ Aligned(t.to, n)
       /\ Proper(t)

(* While the source is understood, the lexer has as many templates open as *)
(* enclose the character to scan next.                                     *)
Followed ==
  /\ current <= End /\ Fine(current) => Aligned(current, Len(interpolations))
  /\ \A i \in DOMAIN tokens :
       tokens[i].token.to <= End /\ Fine(tokens[i].token.to) => Proper(tokens[i].token)

Braceless == \A j \in 1..End : "braces" \notin ToSet(Enclosing[j])

(* An error is one of the source, as long as no braces were taken for the  *)
(* end of an expression; and none goes unnoticed.                          *)
Blamed ==
  /\ had_error \in BOOLEAN
  /\ had_error /\ Braceless => \E j \in 1..End : Misplaced(Enclosing, j)
  /\ ~had_error /\ Braceless => current <= End /\ Fine(current)
  /\ status = "outside" => had_error
  /\ status = "ended" => Char(current) = "nul"

Untouched == status = "written" => interpolations = <<>> /\ had_error = FALSE

Understood == Untouched /\ (status # "written" => Followed /\ Blamed)
-----------------------------------------------------------------------------
(* What a character does, by what encloses it.                             *)
LEMMA ThenInCode ==
  ASSUME NEW in, NEW k \in Nat, Last(in) \in {"code", "expression"}
  PROVE  /\ Char(k) \notin {Quote, "/", LeftBrace, RightBrace} => Then(in, k) = in
         /\ Char(k) = "/" /\ Char(k + 1) # "/" => Then(in, k) = in
         /\ Last(in) = "code" /\ Char(k) \in {LeftBrace, RightBrace} => Then(in, k) = in
         /\ Char(k) = Quote => Then(in, k) = Append(in, "string")
         /\ Char(k) = "/" /\ Char(k + 1) = "/" => Then(in, k) = Append(in, "comment")
         /\ Last(in) = "expression" /\ Char(k) = LeftBrace => Then(in, k) = Append(in, "braces")
         /\ Last(in) = "expression" /\ Char(k) = RightBrace => Then(in, k) = Front(in)
BY DEF Then, Within, InCode, Quote

LEMMA ThenInString ==
  ASSUME NEW in, NEW k \in Nat, Last(in) = "string"
  PROVE  /\ Char(k) = Quote => Then(in, k) = Front(in)
         /\ Char(k) = LeftBrace /\ Char(k - 1) = "%" => Then(in, k) = Append(in, "expression")
         /\ Char(k) # Quote /\ ~(Char(k) = LeftBrace /\ Char(k - 1) = "%") => Then(in, k) = in
BY DEF Then, Within, InCode, Quote

LEMMA ThenInComment ==
  ASSUME NEW in, NEW k \in Nat, Last(in) = "comment"
  PROVE  Then(in, k) = IF Char(k) = Newline THEN Front(in) ELSE in
BY DEF Then, Within, InCode

Deep(n) == n >= MaxInterpolations

LEMMA MisplacedIs ==
  ASSUME NEW k \in Nat
  PROVE  /\ Last(Enclosing[k]) \in {"code", "expression"} =>
              (Misplaced(Enclosing, k) <=> Char(k) \in {"?", "%"})
         /\ Last(Enclosing[k]) = "comment" => ~Misplaced(Enclosing, k)
         /\ Last(Enclosing[k]) = "string" =>
              (Misplaced(Enclosing, k) <=>
                 \/ Char(k) = "%" /\ (Char(k + 1) # LeftBrace \/ Deep(Deepest(Enclosing[k])))
                 \/ Char(k) = "nul")
BY DEF Misplaced, Deep

(* From where a token ended to where the next one starts.                  *)
LEMMA WalkToStart ==
  ASSUME source \in Seq(Characters), current \in 1..End, NEW n, Aligned(current, n)
  PROVE  /\ \A j \in current..Start-1 : ~Misplaced(Enclosing, j)
         /\ Char(Start) # "nul" => Nest(Enclosing[Start], n)
         /\ Aligned(Start, n)
         /\ Last(Enclosing[Start]) # "string"
<1> DEFINE in == Enclosing[current]
           s == Start
<1>1. /\ End \in Nat /\ s \in current..End /\ Char(s) \notin Space
      /\ \A j \in current..s-1 : Char(j) \in Space
  BY CharFacts, StartIs
<1>2. ASSUME NEW j \in Nat, Char(j) \in Space
      PROVE  Char(j) \notin {Quote, "/", LeftBrace, RightBrace, "?", "%", "nul"}
  BY <1>2 DEF Space, Quote, Newline
<1>3. \A j \in current..s-1 : j \in Nat
  BY <1>1
<1> HIDE DEF s
<1>4. CASE Nest(in, n)
  <2>1. Last(in) \in {"code", "expression"}
    BY <1>4, NestFacts
  <2>2. ASSUME NEW j \in current..s-1 PROVE Then(in, j) = in
    <3>1. Char(j) \notin {Quote, "/", LeftBrace, RightBrace}
      BY <1>1, <1>2, <1>3
    <3> QED
      BY <1>3, <2>1, <3>1, ThenInCode
  <2>3. \A j \in current..s : Enclosing[j] = in
    BY <1>1, <2>2, Steady
  <2>4. \A j \in current..s-1 : j \in current..s
    BY <1>1
  <2>5. \A j \in current..s-1 : ~Misplaced(Enclosing, j)
    BY <1>1, <1>2, <1>3, <2>1, <2>3, <2>4, MisplacedIs
  <2>6. Enclosing[s] = in
    BY <1>1, <2>3
  <2> QED
    BY <1>4, <2>1, <2>5, <2>6 DEF s, Aligned
<1>5. ASSUME NEW out, Nest(out, n), in = Append(out, "comment"), Char(current) \in {Newline, "nul"}
      PROVE  /\ \A j \in current..s-1 : ~Misplaced(Enclosing, j)
             /\ Char(s) # "nul" => Nest(Enclosing[s], n)
             /\ Aligned(s, n)
             /\ Last(Enclosing[s]) # "string"
  <2>1. Last(in) = "comment" /\ Front(in) = out
    BY <1>5, NestFacts, AppendFacts
  <2>2. ~Misplaced(Enclosing, current)
    BY <1>1, <2>1, MisplacedIs
  <2>3. CASE Char(current) = "nul"
    <3>1. "nul" \notin Space
      BY DEF Space, Newline
    <3>2. s = current
      BY <1>1, <2>3, <3>1
    <3> QED
      BY <1>1, <2>1, <2>3, <3>2
  <2>4. CASE Char(current) = Newline
    <3>1. s # current
      BY <1>1, <2>4 DEF Space
    <3>2. current + 1 \in 1..End /\ s \in current+1..End /\ current \in 1..End-1
      BY <1>1, <3>1
    <3>3. Enclosing[current + 1] = out
      <4>1. Enclosing[current + 1] = Then(in, current)
        BY <3>2, EnclosingIs
      <4> QED
        BY <2>1, <2>4, <4>1, ThenInComment
    <3>4. Last(out) \in {"code", "expression"}
      BY <1>5, NestFacts
    <3>5. \A j \in current+1..s-1 : j \in current..s-1 /\ j \in current+1..s
      BY <1>1
    <3>6. ASSUME NEW j \in current+1..s-1 PROVE Then(out, j) = out
      <4>1. Char(j) \notin {Quote, "/", LeftBrace, RightBrace}
        BY <1>1, <1>2, <1>3, <3>5
      <4> QED
        BY <1>3, <3>4, <3>5, <4>1, ThenInCode
    <3>7. \A j \in current+1..s : Enclosing[j] = out
      BY <3>2, <3>3, <3>6, Steady
    <3>8. \A j \in current+1..s-1 : ~Misplaced(Enclosing, j)
      BY <1>1, <1>2, <1>3, <3>4, <3>5, <3>7, MisplacedIs
    <3>9. \A j \in current..s-1 : j = current \/ j \in current+1..s-1
      BY <1>1
    <3>10. Enclosing[s] = out
      BY <3>2, <3>7
    <3> QED
      BY <1>5, <2>2, <3>4, <3>8, <3>9, <3>10 DEF Aligned
  <2> QED
    BY <1>5, <2>3, <2>4
<1> QED
  BY <1>4, <1>5 DEF Aligned, s

(* A piece of a string, from its first character: what it is, by what ends *)
(* it.                                                                     *)
Body(t, from, out) ==
  LET in == Append(out, "string")
  IN  /\ t.kind \in {"String", "String_Interpolation", "Error"} /\ t.from = from
      /\ t.kind = "Error" => t.to - 1 \in from+1..End /\ Misplaced(Enclosing, t.to - 1)
      /\ t.kind # "Error" => t.to \in Nat /\ \A j \in from+1..t.to-1 : ~Misplaced(Enclosing, j)
      /\ t.kind = "String" => Enclosing[t.to] = out
      /\ t.kind = "String_Interpolation" => Enclosing[t.to] = Append(in, "expression")

LEMMA BodyIs ==
  ASSUME source \in Seq(Characters), NEW from \in Nat, from >= 1, Char(from) \in {Quote, RightBrace},
         NEW out, NEW n \in Nat, Nest(out, n), Enclosing[from + 1] = Append(out, "string"),
         NEW open, TooDeep(open) <=> Deep(n)
  PROVE  Body(Piece(from, open), from, out)
<1> SUFFICES
      ASSUME NEW in, in = Append(out, "string"), Enclosing[from + 1] = in, NEW t, t = Piece(from, open)
      PROVE  /\ t.kind \in {"String", "String_Interpolation", "Error"} /\ t.from = from
             /\ t.kind = "Error" => t.to - 1 \in from+1..End /\ Misplaced(Enclosing, t.to - 1)
             /\ t.kind # "Error" => t.to \in Nat /\ \A j \in from+1..t.to-1 : ~Misplaced(Enclosing, j)
             /\ t.kind = "String" => Enclosing[t.to] = out
             /\ t.kind = "String_Interpolation" => Enclosing[t.to] = Append(in, "expression")
  BY Zenon DEF Body
<1> DEFINE at == FirstOf(from + 1, {Quote, "%"})
<1>0. Char(from) # "nul"
  BY DEF Quote
<1>1. End \in Nat /\ from < End /\ from + 1 \in 1..End
  BY <1>0, CharFacts
<1>2. /\ at \in from+1..End /\ Char(at) \in {Quote, "%", "nul"}
      /\ \A j \in from+1..at-1 : Char(j) \notin {Quote, "%", "nul"}
  BY <1>1, FirstOfIs
<1>3. Last(in) = "string" /\ Front(in) = out /\ Deepest(in) = n
  <2>1. out \in Seq(Constructs)
    BY NestFacts
  <2>2. Last(Append(out, "string")) = "string" /\ Front(Append(out, "string")) = out
    BY <2>1, AppendFacts
  <2>3. Deepest(Append(out, "string")) = n
    BY NestDeeper
  <2> QED
    BY <2>2, <2>3, Zenon
<1>4. /\ Char(at) = Quote => t = Token("String", from, at + 1)
      /\ Char(at) = "nul" \/ (Char(at) = "%" /\ (Char(at + 1) # LeftBrace \/ TooDeep(open))) => t = Error(from, at)
      /\ Char(at) = "%" /\ Char(at + 1) = LeftBrace /\ ~TooDeep(open) => t = Token("String_Interpolation", from, at + 2)
  BY DEF Piece, Quote
<1> HIDE DEF at
<1>5. at \in Nat /\ at + 1 - 1 = at /\ at + 2 - 1 = at + 1
  BY <1>1, <1>2
<1>6. \A j \in from+1..at-1 : Char(j - 1) # "%"
  <2> SUFFICES ASSUME NEW j \in from+1..at-1 PROVE Char(j - 1) # "%"
    OBVIOUS
  <2>1. j - 1 = from \/ j - 1 \in from+1..at-1
    BY <1>5
  <2> QED
    BY <1>2, <2>1 DEF Quote
<1>7. \A j \in from+1..at : Enclosing[j] = in
  <2>1. ASSUME NEW j \in from+1..at-1 PROVE Then(in, j) = in
    <3>1. j \in Nat /\ Char(j) # Quote /\ Char(j - 1) # "%"
      BY <1>2, <1>6
    <3> QED
      BY <1>3, <3>1, ThenInString
  <2> QED
    BY <1>1, <1>2, <2>1, Steady
<1>8. \A j \in from+1..at-1 : ~Misplaced(Enclosing, j)
  <2> SUFFICES ASSUME NEW j \in from+1..at-1 PROVE ~Misplaced(Enclosing, j)
    OBVIOUS
  <2>1. j \in from+1..at /\ j \in Nat /\ Char(j) \notin {"%", "nul"}
    BY <1>2, <1>5
  <2> QED
    BY <1>3, <1>7, <2>1, MisplacedIs
<1>9. Enclosing[at] = in
  BY <1>1, <1>2, <1>7
<1>10. Misplaced(Enclosing, at) <=>
         (Char(at) = "%" /\ (Char(at + 1) # LeftBrace \/ TooDeep(open))) \/ Char(at) = "nul"
  BY <1>3, <1>5, <1>9, MisplacedIs
<1>11. ASSUME Char(at) # "nul" PROVE at \in 1..End-1 /\ Enclosing[at + 1] = Then(in, at)
  <2>1. at >= 1
    BY <1>1, <1>2
  <2>2. at < End
    BY <1>5, <1>11, <2>1, CharFacts
  <2>3. at \in 1..End-1
    BY <1>1, <1>5, <2>1, <2>2
  <2> QED
    BY <1>9, <2>3, EnclosingIs
<1>12. CASE Char(at) = "nul" \/ (Char(at) = "%" /\ (Char(at + 1) # LeftBrace \/ TooDeep(open)))
  <2>1. t.kind = "Error" /\ t.from = from /\ t.to = at + 1
    BY <1>4, <1>12 DEF Error, Token
  <2> QED
    BY <1>2, <1>5, <1>10, <1>12, <2>1
<1>13. CASE Char(at) = Quote
  <2>1. t.kind = "String" /\ t.from = from /\ t.to = at + 1
    BY <1>4, <1>13 DEF Token
  <2>2. Enclosing[at + 1] = out
    BY <1>3, <1>5, <1>11, <1>13, ThenInString
  <2>3. ~Misplaced(Enclosing, at)
    BY <1>10, <1>13 DEF Quote
  <2>4. \A j \in from+1..at : j \in from+1..at-1 \/ j = at
    BY <1>5
  <2> QED
    BY <1>5, <1>8, <2>1, <2>2, <2>3, <2>4
<1>14. CASE Char(at) = "%" /\ Char(at + 1) = LeftBrace /\ ~TooDeep(open)
  <2>1. t.kind = "String_Interpolation" /\ t.from = from /\ t.to = at + 2
    BY <1>4, <1>14 DEF Token
  <2>2. Enclosing[at + 1] = in
    BY <1>3, <1>5, <1>11, <1>14, ThenInString
  <2>3. ~Misplaced(Enclosing, at) /\ ~Misplaced(Enclosing, at + 1)
    <3>1. at + 1 \in Nat
      BY <1>5
    <3>2. ~Misplaced(Enclosing, at + 1)
      BY <1>3, <1>14, <2>2, <3>1, MisplacedIs
    <3> QED
      BY <1>10, <1>14, <3>2
  <2>4. \A j \in from+1..at+1 : j \in from+1..at-1 \/ j = at \/ j = at + 1
    BY <1>5
  <2>5. at + 1 \in 1..End-1
    <3>1. at + 1 \in Nat /\ at + 1 >= 1
      BY <1>5
    <3>2. at + 1 < End
      BY <1>14, <3>1, CharFacts
    <3> QED
      BY <1>1, <3>1, <3>2
  <2>6. Enclosing[at + 2] = Then(in, at + 1)
    <3>1. (at + 1) + 1 = at + 2
      BY <1>5
    <3>2. Enclosing[(at + 1) + 1] = Then(Enclosing[at + 1], at + 1)
      BY <2>5, EnclosingIs
    <3> QED
      BY <2>2, <3>1, <3>2
  <2>7. Then(in, at + 1) = Append(in, "expression")
    <3>1. PICK k \in Nat : k = at + 1 /\ k - 1 = at
      BY <1>5
    <3>2. Char(k) = LeftBrace /\ Char(k - 1) = "%"
      BY <1>14, <3>1
    <3>3. Then(in, k) = Append(in, "expression")
      BY <1>3, <3>2, ThenInString
    <3> QED
      BY <3>1, <3>3
  <2>8. t.to - 1 = at + 1 /\ t.to \in Nat
    BY <1>5, <2>1
  <2>9. \A j \in from+1..t.to-1 : ~Misplaced(Enclosing, j)
    BY <1>8, <2>3, <2>4, <2>8
  <2>10. Enclosing[t.to] = Append(in, "expression")
    BY <2>1, <2>6, <2>7
  <2> QED
    BY <2>1, <2>8, <2>9, <2>10
<1> QED
  BY <1>2, <1>12, <1>13, <1>14

LEMMA LengthOfOpened ==
  ASSUME NEW open \in Seq({1}), NEW token
  PROVE  Len(Opened(open, token)) = Len(open) + (IF token.kind = "String_Interpolation" THEN 1 ELSE 0)
<1>1. Len(Append(open, 1)) = Len(open) + 1 /\ Len(open) \in Nat
  OBVIOUS
<1> QED
  BY <1>1 DEF Opened

LEMMA TooDeepIs ==
  ASSUME NEW open, NEW n, Len(open) = n
  PROVE  TooDeep(open) <=> Deep(n)
BY DEF TooDeep, Deep

(* A token that starts with a quote is a string, or the first piece of a   *)
(* template.                                                               *)
LEMMA StringIsSound ==
  ASSUME source \in Seq(Characters), NEW at \in Nat, at >= 1, Char(at) = Quote,
         NEW open \in Seq({1}), Nest(Enclosing[at], Len(open))
  PROVE  Sound(Piece(at, open), Len(Opened(open, Piece(at, open))))
<1>1. PICK t : t = Piece(at, open)
  OBVIOUS
<1>2. PICK out : out = Enclosing[at]
  OBVIOUS
<1>3. PICK n : n = Len(open)
  OBVIOUS
<1>4. PICK in : in = Append(out, "string")
  OBVIOUS
<1>5. n \in Nat /\ Nest(out, n) /\ Last(out) \in {"code", "expression"} /\ (TooDeep(open) <=> Deep(n))
  BY <1>2, <1>3, NestFacts, TooDeepIs
<1>6. End \in Nat /\ at \in 1..End-1
  BY CharFacts
<1>7. Enclosing[at + 1] = in
  <2>1. Enclosing[at + 1] = Then(out, at)
    BY <1>2, <1>6, EnclosingIs
  <2> QED
    BY <1>4, <1>5, <2>1, ThenInCode
<1>8. ~Misplaced(Enclosing, at)
  BY <1>2, <1>5, MisplacedIs
<1>9. /\ t.kind \in {"String", "String_Interpolation", "Error"} /\ t.from = at
      /\ t.kind = "Error" => t.to - 1 \in at+1..End /\ Misplaced(Enclosing, t.to - 1)
      /\ t.kind # "Error" => t.to \in Nat /\ \A j \in at+1..t.to-1 : ~Misplaced(Enclosing, j)
      /\ t.kind = "String" => Enclosing[t.to] = out
      /\ t.kind = "String_Interpolation" => Enclosing[t.to] = Append(in, "expression")
  <2>1. Char(at) \in {Quote, RightBrace}
    OBVIOUS
  <2>2. n \in Nat /\ Nest(out, n) /\ (TooDeep(open) <=> Deep(n)) /\ Enclosing[at + 1] = Append(out, "string")
    BY <1>4, <1>5, <1>7
  <2>3. Body(Piece(at, open), at, out)
    BY <2>1, <2>2, BodyIs
  <2> QED
    BY <2>3, <1>1, <1>4 DEF Body
<1>10. PICK m : m = Len(Opened(open, t))
  OBVIOUS
<1>11. m = IF t.kind = "String_Interpolation" THEN n + 1 ELSE n
  BY <1>3, <1>5, <1>10, LengthOfOpened
<1>12. CASE t.kind = "Error"
  <2>1. t.to - 1 \in at..t.to-1 /\ t.to - 1 \in 1..End
    BY <1>6, <1>9, <1>12
  <2> QED
    BY <1>1, <1>9, <1>10, <1>12, <2>1 DEF Sound
<1>13. CASE t.kind # "Error"
  <2>1. \A j \in at..t.to-1 : ~Misplaced(Enclosing, j)
    <3>1. \A j \in at..t.to-1 : j = at \/ j \in at+1..t.to-1
      BY <1>9, <1>13
    <3> QED
      BY <1>8, <1>9, <1>13, <3>1
  <2>2. Nest(Enclosing[t.to], m)
    <3>1. Nest(Append(Append(out, "string"), "expression"), n + 1)
      BY <1>5, NestDeeper
    <3>2. CASE t.kind = "String"
      BY <1>5, <1>9, <1>11, <3>2
    <3>3. CASE t.kind = "String_Interpolation"
      BY <1>4, <1>9, <1>11, <3>1, <3>3
    <3> QED
      BY <1>9, <1>13, <3>2, <3>3
  <2>3. Aligned(t.to, m)
    BY <2>2 DEF Aligned
  <2>4. Proper(t)
    <3>1. Len(out) \in Nat
      BY <1>5, NestFacts
    <3>2. Len(out) = Len(out) - 0
      BY <3>1
    <3> QED
      BY <1>2, <1>5, <1>9, <1>13, <3>2 DEF Proper
  <2> QED
    BY <1>1, <1>9, <1>10, <1>13, <2>1, <2>3, <2>4 DEF Sound
<1> QED
  BY <1>12, <1>13

(* The brace that closes the expression of a template goes on with that    *)
(* template.                                                               *)
LEMMA RestIsSound ==
  ASSUME source \in Seq(Characters), NEW at \in Nat, at >= 1, Char(at) = RightBrace,
         NEW open \in Seq({1}), NEW n \in Nat, n # 0, Len(open) = n - 1, Nest(Enclosing[at], n)
  PROVE  Sound(Piece(at, open), Len(Opened(open, Piece(at, open))))
<1>1. PICK t : t = Piece(at, open)
  OBVIOUS
<1>2. PICK e : e = Enclosing[at]
  OBVIOUS
<1>3. PICK out : Nest(out, n - 1) /\ e = Append(Append(out, "string"), "expression")
  BY <1>2, NestOuter
<1>4. PICK in : in = Append(out, "string")
  OBVIOUS
<1>5. n - 1 \in Nat /\ Last(e) = "expression" /\ (TooDeep(open) <=> Deep(n - 1))
  BY <1>2, NestFacts, TooDeepIs
<1>6. End \in Nat /\ at \in 1..End-1
  BY CharFacts
<1>7. out \in Seq(Constructs) /\ in \in Seq(Constructs)
  <2>1. out \in Seq(Constructs)
    BY <1>3, NestFacts
  <2> QED
    BY <1>4, <2>1 DEF Constructs
<1>8. Front(e) = in /\ Len(out) \in Nat /\ Len(e) = Len(out) + 2
  <2>1. e = Append(in, "expression")
    BY <1>3, <1>4
  <2>2. Len(in) = Len(out) + 1 /\ Len(out) \in Nat
    BY <1>4, <1>7, AppendFacts
  <2>3. Front(Append(in, "expression")) = in /\ Len(Append(in, "expression")) = Len(in) + 1
    BY <1>7, AppendFacts
  <2> QED
    BY <2>1, <2>2, <2>3
<1>9. Enclosing[at + 1] = in
  <2>1. Enclosing[at + 1] = Then(e, at)
    BY <1>2, <1>6, EnclosingIs
  <2> QED
    BY <1>5, <1>8, <2>1, ThenInCode
<1>10. ~Misplaced(Enclosing, at)
  BY <1>2, <1>5, MisplacedIs
<1>11. /\ t.kind \in {"String", "String_Interpolation", "Error"} /\ t.from = at
       /\ t.kind = "Error" => t.to - 1 \in at+1..End /\ Misplaced(Enclosing, t.to - 1)
       /\ t.kind # "Error" => t.to \in Nat /\ \A j \in at+1..t.to-1 : ~Misplaced(Enclosing, j)
       /\ t.kind = "String" => Enclosing[t.to] = out
       /\ t.kind = "String_Interpolation" => Enclosing[t.to] = Append(in, "expression")
  <2>1. Char(at) \in {Quote, RightBrace}
    OBVIOUS
  <2>2. PICK p : p = n - 1
    OBVIOUS
  <2>3. p \in Nat /\ Nest(out, p) /\ (TooDeep(open) <=> Deep(p)) /\ Enclosing[at + 1] = Append(out, "string")
    BY <1>3, <1>4, <1>5, <1>9, <2>2
  <2>4. Body(Piece(at, open), at, out)
    BY <2>1, <2>3, BodyIs
  <2> QED
    BY <2>4, <1>1, <1>4 DEF Body
<1>12. PICK m : m = Len(Opened(open, t))
  OBVIOUS
<1>13. m = IF t.kind = "String_Interpolation" THEN n ELSE n - 1
  BY <1>5, <1>12, LengthOfOpened
<1>14. CASE t.kind = "Error"
  <2>1. t.to - 1 \in at..t.to-1 /\ t.to - 1 \in 1..End
    BY <1>6, <1>11, <1>14
  <2> QED
    BY <1>1, <1>11, <1>12, <1>14, <2>1 DEF Sound
<1>15. CASE t.kind # "Error"
  <2>1. \A j \in at..t.to-1 : ~Misplaced(Enclosing, j)
    <3>1. \A j \in at..t.to-1 : j = at \/ j \in at+1..t.to-1
      BY <1>11, <1>15
    <3> QED
      BY <1>10, <1>11, <1>15, <3>1
  <2>2. Nest(Enclosing[t.to], m)
    <3>1. CASE t.kind = "String"
      BY <1>3, <1>11, <1>13, <3>1
    <3>2. CASE t.kind = "String_Interpolation"
      <4>1. Enclosing[t.to] = e
        BY <1>3, <1>4, <1>11, <3>2
      <4> QED
        BY <1>2, <1>13, <3>2, <4>1
    <3> QED
      BY <1>11, <1>15, <3>1, <3>2
  <2>3. Aligned(t.to, m)
    BY <2>2 DEF Aligned
  <2>4. Proper(t)
    BY <1>2, <1>5, <1>8, <1>11, <1>15 DEF Proper
  <2> QED
    BY <1>1, <1>11, <1>12, <1>15, <2>1, <2>3, <2>4 DEF Sound
<1> QED
  BY <1>14, <1>15

LEMMA CharInAlphabet ==
  ASSUME source \in Seq(Characters), NEW k \in Nat, Char(k) # "nul"
  PROVE  Char(k) \in Alphabet
<1>1. Characters \subseteq Alphabet
  BY DialectsAssumption DEF Characters
<1>2. k \in DOMAIN source /\ Char(k) = source[k]
  BY DEF Char, CharOf
<1>3. source[k] \in Characters
  BY <1>2
<1> QED
  BY <1>1, <1>2, <1>3

(* Characters that open and close nothing are a token that does not        *)
(* either.                                                                 *)
LEMMA StillIsSound ==
  ASSUME source \in Seq(Characters), NEW at \in 1..End, NEW n, NEW in, in = Enclosing[at], Nest(in, n),
         Char(at) # Quote, Char(at) = RightBrace => n = 0,
         NEW kind, kind \notin {"String", "String_Interpolation", "Error"},
         NEW to \in at+1..End,
         \A j \in at..to-1 : Then(in, j) = in /\ Char(j) \notin {"?", "%"}
  PROVE  Sound(Token(kind, at, to), n)
<1>1. End \in Nat /\ at \in Nat /\ to \in at..End /\ to \in at..to
  BY CharFacts
<1>2. \A j \in at..to : Enclosing[j] = in
  BY <1>1, Steady
<1>3. n \in Nat /\ Last(in) = IF n = 0 THEN "code" ELSE "expression"
  BY NestFacts
<1>4. \A j \in at..to-1 : ~Misplaced(Enclosing, j)
  <2> SUFFICES ASSUME NEW j \in at..to-1 PROVE ~Misplaced(Enclosing, j)
    OBVIOUS
  <2>1. j \in Nat /\ j \in at..to
    BY <1>1
  <2>2. Enclosing[j] = in /\ Last(in) \in {"code", "expression"} /\ Char(j) \notin {"?", "%"}
    BY <1>2, <1>3, <2>1
  <2> QED
    BY <2>1, <2>2, MisplacedIs
<1>5. PICK t : t = Token(kind, at, to)
  OBVIOUS
<1>6. t.kind = kind /\ t.from = at /\ t.to = to
  BY <1>5 DEF Token
<1>7. Aligned(to, n)
  BY <1>1, <1>2 DEF Aligned
<1>8. Proper(t)
  <2>1. Last(in) # "string" /\ ~(Char(at) = RightBrace /\ Last(in) = "expression")
    BY <1>3
  <2> QED
    BY <1>6, <2>1 DEF Proper
<1> QED
  BY <1>4, <1>5, <1>6, <1>7, <1>8 DEF Sound

(* A comment ends where its line does.                                     *)
LEMMA CommentIsSound ==
  ASSUME source \in Seq(Characters), NEW at \in Nat, at >= 1, Char(at) = "/", Char(at + 1) = "/",
         NEW n, Nest(Enclosing[at], n)
  PROVE  Sound(Token("Comment", at, FirstOf(at, {Newline})), n)
<1>1. PICK out : out = Enclosing[at]
  OBVIOUS
<1>2. PICK to : to = FirstOf(at, {Newline})
  OBVIOUS
<1>3. End \in Nat /\ at \in 1..End /\ at \in 1..End-1
  BY CharFacts
<1>4. /\ to \in at..End /\ Char(to) \in {Newline, "nul"}
      /\ \A j \in at..to-1 : Char(j) \notin {Newline, "nul"}
  BY <1>2, <1>3, FirstOfIs
<1>5. to # at
  BY <1>4
<1>6. to \in at+1..End /\ at + 1 \in 1..End /\ to \in at+1..to /\ to \in Nat
  BY <1>3, <1>4, <1>5
<1>7. out \in Seq(Constructs) /\ Last(out) \in {"code", "expression"}
  BY <1>1, NestFacts
<1>8. PICK in : in = Append(out, "comment")
  OBVIOUS
<1>9. Last(in) = "comment"
  <2>1. Last(Append(out, "comment")) = "comment"
    BY <1>7, AppendFacts
  <2> QED
    BY <1>8, <2>1, Zenon
<1>10. Enclosing[at + 1] = in
  <2>1. Enclosing[at + 1] = Then(out, at)
    BY <1>1, <1>3, EnclosingIs
  <2> QED
    BY <1>7, <1>8, <2>1, ThenInCode
<1>11. \A j \in at+1..to : Enclosing[j] = in
  <2>1. ASSUME NEW j \in at+1..to-1 PROVE Then(in, j) = in
    <3>1. j \in Nat /\ j \in at..to-1
      BY <1>3
    <3>2. Char(j) # Newline
      BY <1>4, <3>1
    <3> QED
      BY <1>9, <3>1, <3>2, ThenInComment
  <2> QED
    BY <1>6, <1>10, <2>1, Steady
<1>12. \A j \in at..to-1 : ~Misplaced(Enclosing, j)
  <2> SUFFICES ASSUME NEW j \in at..to-1 PROVE ~Misplaced(Enclosing, j)
    OBVIOUS
  <2>1. CASE j = at
    BY <1>1, <1>7, <2>1, MisplacedIs
  <2>2. CASE j # at
    <3>1. j \in Nat /\ j \in at+1..to
      BY <1>3, <1>6, <2>2
    <3>2. Last(Enclosing[j]) = "comment"
      BY <1>9, <1>11, <3>1
    <3> QED
      BY <3>1, <3>2, MisplacedIs
  <2> QED
    BY <2>1, <2>2
<1>13. PICK t : t = Token("Comment", at, to)
  OBVIOUS
<1>14. t.kind = "Comment" /\ t.from = at /\ t.to = to
  BY <1>13 DEF Token
<1>15. Aligned(to, n)
  <2>1. Enclosing[to] = Append(out, "comment")
    BY <1>6, <1>8, <1>11
  <2> QED
    BY <1>1, <1>4, <2>1 DEF Aligned
<1>16. Proper(t)
  BY <1>1, <1>7, <1>14 DEF Proper
<1> QED
  BY <1>2, <1>12, <1>13, <1>14, <1>15, <1>16 DEF Sound

(* Any other token that starts in an expression of a template, or in none. *)
LEMMA PlainIsSound ==
  ASSUME source \in Seq(Characters), NEW at \in Nat, at >= 1,
         Char(at) \notin Space, Char(at) \notin {Quote, "nul"},
         NEW n, Nest(Enclosing[at], n), Char(at) = RightBrace => n = 0,
         "braces" \notin ToSet(Enclosing[at + 1])
  PROVE  Sound(Plain(at), n)
<1>1. PICK in : in = Enclosing[at]
  OBVIOUS
<1>2. End \in Nat /\ at \in 1..End /\ at \in 1..End-1 /\ at + 1 \in at+1..End
  BY CharFacts
<1>3. n \in Nat /\ in \in Seq(Constructs) /\ Last(in) = IF n = 0 THEN "code" ELSE "expression"
  BY <1>1, NestFacts
<1>4. \A k \in Nat : k >= 1 /\ Char(k) # "nul" => k < End
  BY CharFacts
<1> DEFINE Still(j) == Then(in, j) = in /\ Char(j) \notin {"?", "%"}
           Kind(k) == k \notin {"String", "String_Interpolation", "Error"}
<1>5. ASSUME NEW j \in Nat, Char(j) \notin {Quote, "/", LeftBrace, RightBrace, "?", "%"} PROVE Still(j)
  BY <1>3, <1>5, ThenInCode
<1>6. ASSUME NEW kind, Kind(kind), NEW to \in at+1..End, \A j \in at..to-1 : Still(j)
      PROVE  Sound(Token(kind, at, to), n)
  BY <1>1, <1>2, <1>6, StillIsSound
<1>7. ASSUME NEW kind, Kind(kind), Still(at) PROVE Sound(Token(kind, at, at + 1), n)
  <2>1. \A j \in at..at+1-1 : j = at
    BY <1>2
  <2>2. \A j \in at..at+1-1 : Still(j)
    BY <1>7, <2>1
  <2> QED
    BY <1>2, <1>6, <1>7, <2>2
<1>8. CASE Char(at) = "/"
  <2>1. CASE Char(at + 1) = "/"
    <3>1. Plain(at) = Token("Comment", at, FirstOf(at, {Newline}))
      BY <1>8, <2>1 DEF Plain, Single
    <3> QED
      BY <1>8, <2>1, <3>1, CommentIsSound
  <2>2. CASE Char(at + 1) # "/"
    <3>1. Plain(at) = Token("Operator", at, at + 1)
      BY <1>8, <2>2 DEF Plain, Single
    <3>2. Still(at)
      BY <1>3, <1>8, <2>2, ThenInCode
    <3>3. Kind("Operator")
      OBVIOUS
    <3> HIDE DEF Still, Kind
    <3> QED
      BY <1>7, <3>1, <3>2, <3>3
  <2> QED
    BY <2>1, <2>2
<1>9. CASE Char(at) \in Single
  <2>1. Plain(at) = Token(Char(at), at, at + 1)
    BY <1>9 DEF Plain, Single
  <2>2. Char(at) = "(" \/ Char(at) = LeftBrace \/ Char(at) = RightBrace \/ Char(at) = "." \/ Char(at) = "-"
    BY <1>9 DEF Single
  <2>3. Kind(Char(at))
    BY <2>2
  <2>4. Still(at)
    <3>1. CASE Char(at) = RightBrace
      <4>1. Last(in) = "code"
        BY <1>3, <3>1
      <4> QED
        BY <3>1, <4>1, ThenInCode
    <3>2. CASE Char(at) = LeftBrace /\ Last(in) = "code"
      BY <3>2, ThenInCode
    <3>3. CASE Char(at) = LeftBrace /\ Last(in) # "code"
      <4>1. Enclosing[at + 1] = Then(in, at)
        BY <1>1, <1>2, EnclosingIs
      <4>2. Last(in) = "expression"
        BY <1>3, <3>3
      <4>3. Then(in, at) = Append(in, "braces")
        BY <3>3, <4>2, ThenInCode
      <4>4. "braces" \in ToSet(Append(in, "braces"))
        <5>1. ToSet(Append(in, "braces")) = ToSet(in) \cup {"braces"}
          BY <1>3, AppendFacts
        <5> QED
          BY <5>1
      <4> QED
        BY <4>1, <4>3, <4>4
    <3>4. CASE Char(at) \in {"(", ".", "-"}
      BY <1>5, <3>4
    <3> QED
      BY <2>2, <3>1, <3>2, <3>3, <3>4
  <2> HIDE DEF Still, Kind
  <2> QED
    BY <1>7, <2>1, <2>3, <2>4
<1>10. CASE Char(at) = "="
  <2>1. Still(at)
    BY <1>5, <1>10
  <2>2. CASE Char(at + 1) = "/" /\ Char(at + 2) = "="
    <3>1. Plain(at) = Token("Not_Equal", at, at + 3)
      BY <1>10, <2>2 DEF Plain, Single
    <3>2. at + 3 \in at+1..End
      BY <1>2, <1>4, <2>2
    <3>3. Still(at + 1)
      <4>1. PICK j \in Nat : j = at + 1 /\ j + 1 = at + 2
        OBVIOUS
      <4>2. Char(j) = "/" /\ Char(j + 1) # "/"
        BY <2>2, <4>1
      <4>3. Still(j)
        BY <1>3, <4>2, ThenInCode
      <4> QED
        BY <4>1, <4>3
    <3>4. Still(at + 2)
      <4>1. at + 2 \in Nat
        OBVIOUS
      <4> QED
        BY <1>5, <2>2, <4>1
    <3>5. Kind("Not_Equal")
      OBVIOUS
    <3>6. \A j \in at..at+3-1 : j = at \/ j = at + 1 \/ j = at + 2
      OBVIOUS
    <3> HIDE DEF Still, Kind
    <3>7. \A j \in at..at+3-1 : Still(j)
      BY <2>1, <3>3, <3>4, <3>6
    <3> QED
      BY <1>6, <3>1, <3>2, <3>5, <3>7
  <2>3. CASE Char(at + 1) = "="
    <3>1. Plain(at) = Token("Equal_Equal", at, at + 2)
      BY <1>10, <2>3 DEF Plain, Single
    <3>2. at + 2 \in at+1..End
      BY <1>2, <1>4, <2>3
    <3>3. Still(at + 1)
      <4>1. at + 1 \in Nat
        OBVIOUS
      <4> QED
        BY <1>5, <2>3, <4>1
    <3>4. Kind("Equal_Equal")
      OBVIOUS
    <3>5. \A j \in at..at+2-1 : j = at \/ j = at + 1
      OBVIOUS
    <3> HIDE DEF Still, Kind
    <3>6. \A j \in at..at+2-1 : Still(j)
      BY <2>1, <3>3, <3>5
    <3> QED
      BY <1>6, <3>1, <3>2, <3>4, <3>6
  <2>4. CASE Char(at + 1) # "=" /\ ~(Char(at + 1) = "/" /\ Char(at + 2) = "=")
    <3>1. Plain(at) = Token("Equal", at, at + 1)
      BY <1>10, <2>4 DEF Plain, Single
    <3>2. Kind("Equal")
      OBVIOUS
    <3> HIDE DEF Still, Kind
    <3> QED
      BY <1>7, <2>1, <3>1, <3>2
  <2> QED
    BY <2>2, <2>3, <2>4
<1>11. CASE Char(at) = "<"
  <2>1. Plain(at) = Token("Less", at, IF Char(at + 1) = "=" THEN at + 2 ELSE at + 1)
    BY <1>11 DEF Plain, Single
  <2>2. Still(at) /\ Kind("Less")
    BY <1>5, <1>11
  <2>3. CASE Char(at + 1) = "="
    <3>1. at + 2 \in at+1..End
      BY <1>2, <1>4, <2>3
    <3>2. Still(at + 1)
      <4>1. at + 1 \in Nat
        OBVIOUS
      <4> QED
        BY <1>5, <2>3, <4>1
    <3>3. \A j \in at..at+2-1 : j = at \/ j = at + 1
      OBVIOUS
    <3> HIDE DEF Still, Kind
    <3>4. \A j \in at..at+2-1 : Still(j)
      BY <2>2, <3>2, <3>3
    <3> QED
      BY <1>6, <2>1, <2>2, <2>3, <3>1, <3>4
  <2>4. CASE Char(at + 1) # "="
    <3> HIDE DEF Still, Kind
    <3> QED
      BY <1>7, <2>1, <2>2, <2>4
  <2> QED
    BY <2>3, <2>4
<1>12. CASE Char(at) = "digit"
  <2>1. Plain(at) = Token("Number", at, NumberEnd(at))
    BY <1>12 DEF Plain, Single
  <2>2. NumberEnd(at) \in at+1..End /\ \A j \in at..NumberEnd(at)-1 : Char(j) \in {"digit", "."}
    BY <1>12, NumberEndIs
  <2>3. \A j \in at..NumberEnd(at)-1 : j \in Nat
    BY <1>2
  <2>4. \A j \in at..NumberEnd(at)-1 : Still(j)
    BY <1>5, <2>2, <2>3
  <2>5. Kind("Number")
    OBVIOUS
  <2> HIDE DEF Still, Kind
  <2> QED
    BY <1>6, <2>1, <2>2, <2>4, <2>5
<1>13. CASE Char(at) = "letter"
  <2>1. Plain(at) = Token("Identifier", at, FirstNotOf(at, Word))
    BY <1>13 DEF Plain, Single
  <2>2. /\ FirstNotOf(at, Word) \in at..End
        /\ Char(FirstNotOf(at, Word)) \notin Word
        /\ \A j \in at..FirstNotOf(at, Word)-1 : Char(j) \in Word
    BY <1>2, FirstNotOfIs DEF Word
  <2>3. FirstNotOf(at, Word) # at
    BY <1>13, <2>2 DEF Word
  <2>4. FirstNotOf(at, Word) \in at+1..End
    BY <1>2, <2>2, <2>3
  <2>5. \A j \in at..FirstNotOf(at, Word)-1 : j \in Nat
    BY <1>2
  <2>6. \A j \in at..FirstNotOf(at, Word)-1 : Still(j)
    BY <1>5, <2>2, <2>5 DEF Word
  <2>7. Kind("Identifier")
    OBVIOUS
  <2> HIDE DEF Still, Kind
  <2> QED
    BY <1>6, <2>1, <2>4, <2>6, <2>7
<1>14. CASE Char(at) = "$"
  <2>1. Plain(at) = Token("Debugger", at, FirstNotOf(at + 1, Word))
    BY <1>14 DEF Plain, Single
  <2>2. /\ FirstNotOf(at + 1, Word) \in at+1..End
        /\ \A j \in at+1..FirstNotOf(at + 1, Word)-1 : Char(j) \in Word
    BY <1>2, FirstNotOfIs DEF Word
  <2>3. \A j \in at..FirstNotOf(at + 1, Word)-1 : j \in Nat /\ (j = at \/ j \in at+1..FirstNotOf(at + 1, Word)-1)
    BY <1>2
  <2>4. \A j \in at..FirstNotOf(at + 1, Word)-1 : Still(j)
    BY <1>5, <1>14, <2>2, <2>3 DEF Word
  <2>5. Kind("Debugger")
    OBVIOUS
  <2> HIDE DEF Still, Kind
  <2> QED
    BY <1>6, <2>1, <2>2, <2>4, <2>5
<1>15. CASE /\ Char(at) \notin {"/", "=", "<", "digit", "letter", "$"}
            /\ Char(at) \notin Single
  <2>1. Plain(at) = Error(at, at)
    BY <1>15 DEF Plain
  <2>2. Char(at) \in {"?", "%"}
    <3>1. Char(at) \in Alphabet
      BY CharInAlphabet
    <3> QED
      BY <1>15, <3>1 DEF Alphabet, Word
  <2>3. Misplaced(Enclosing, at)
    BY <1>1, <1>3, <2>2, MisplacedIs
  <2>4. PICK t : t = Error(at, at)
    OBVIOUS
  <2>5. t.kind = "Error" /\ t.from = at /\ t.to = at + 1
    BY <2>4 DEF Error, Token
  <2>6. at \in at..at+1-1
    BY <1>2
  <2>7. Sound(t, n)
    BY <1>2, <2>3, <2>5, <2>6 DEF Sound
  <2> QED
    BY <2>1, <2>4, <2>7
<1> QED
  BY <1>8, <1>9, <1>10, <1>11, <1>12, <1>13, <1>14, <1>15

-----------------------------------------------------------------------------
(* While the source stays as it is, so does what it means.                 *)
LEMMA SameEnclosing ==
  ASSUME source' = source
  PROVE  /\ Enclosing' = Enclosing /\ End' = End
         /\ \A k : Char(k)' = Char(k)
         /\ \A k : Misplaced(Enclosing, k)' <=> Misplaced(Enclosing, k)
         /\ \A k, n : Aligned(k, n)' <=> Aligned(k, n)
         /\ \A k : Fine(k)' <=> Fine(k)
         /\ \A t : Proper(t)' <=> Proper(t)
         /\ Braceless' <=> Braceless
<1>1. Enclosing' = Enclosing /\ End' = End
  BY DEF Enclosing, End
<1>2. ASSUME NEW k PROVE Char(k)' = Char(k)
  BY DEF Char
<1>3. ASSUME NEW k PROVE Char(k + 1)' = Char(k + 1)
  BY DEF Char
<1>4. ASSUME NEW k PROVE Misplaced(Enclosing, k)' <=> Misplaced(Enclosing, k)
  BY <1>1, <1>2, <1>3 DEF Misplaced
<1>5. ASSUME NEW k, NEW n PROVE Aligned(k, n)' <=> Aligned(k, n)
  BY <1>1, <1>2 DEF Aligned
<1>6. ASSUME NEW k PROVE Fine(k)' <=> Fine(k)
  BY <1>1, <1>4 DEF Fine
<1>7. ASSUME NEW t PROVE Proper(t)' <=> Proper(t)
  <2>1. Char(t.from)' = Char(t.from)
    BY DEF Char
  <2> QED
    BY <1>1, <2>1 DEF Proper
<1>8. Braceless' <=> Braceless
  BY <1>1 DEF Braceless
<1> QED
  BY <1>1, <1>2, <1>4, <1>5, <1>6, <1>7, <1>8

(* Followed as it is after a step that scans.                              *)
LEMMA FollowedNext ==
  ASSUME source' = source, NEW to, current' = to, NEW open, interpolations' = open,
         NEW ts, tokens' = ts,
         to <= End /\ Fine(to) => Aligned(to, Len(open)),
         \A i \in DOMAIN ts : ts[i].token.to <= End /\ Fine(ts[i].token.to) => Proper(ts[i].token)
  PROVE  Followed'
<1>1. PICK n : n = Len(open)
  OBVIOUS
<1>2. Aligned(to, n)' <=> Aligned(to, n)
  BY SameEnclosing
<1>3. Fine(to)' <=> Fine(to)
  BY SameEnclosing
<1>4. End' = End
  BY SameEnclosing
<1>5. (current <= End /\ Fine(current))' => Aligned(current, Len(interpolations))'
  <2>1. Fine(current)' <=> Fine(to)'
    BY DEF Fine
  <2>2. Aligned(current, Len(interpolations))' <=> Aligned(to, n)'
    BY <1>1 DEF Aligned
  <2> QED
    BY <1>1, <1>2, <1>3, <1>4, <2>1, <2>2
<1>6. ASSUME NEW i \in DOMAIN ts, tokens'[i].token.to <= End', Fine(tokens[i].token.to)'
      PROVE  Proper(tokens[i].token)'
  <2>1. PICK t : t = ts[i].token
    OBVIOUS
  <2>2. PICK k : k = t.to
    OBVIOUS
  <2>3. tokens'[i].token = t /\ tokens'[i].token.to = k
    BY <2>1, <2>2
  <2>4. Fine(tokens[i].token.to)' <=> Fine(k)'
    BY <2>3 DEF Fine
  <2>5. Proper(tokens[i].token)' <=> Proper(t)'
    BY <2>3 DEF Proper
  <2>6. Fine(k)
    BY <1>6, <2>4, SameEnclosing
  <2>7. Proper(t)
    BY <1>4, <1>6, <2>1, <2>2, <2>3, <2>6
  <2> QED
    BY <2>5, <2>7, SameEnclosing
<1> QED
  BY <1>5, <1>6 DEF Followed

(* A token whose text is what the source has there keeps the lexer in step *)
(* with the source.                                                        *)
LEMMA DeliverUnderstands ==
  ASSUME LexerInv, Understood, status = "scanning", Char(Start) # "nul",
         NEW token, NEW open, NEW newlines, Deliver(token, open, newlines),
         InSource(token), token.from = Start,
         Nest(Enclosing[Start], Len(interpolations)) /\ "braces" \notin ToSet(Enclosing[Start + 1])
           => Sound(token, Len(open))
  PROVE  Understood'
<1>1. /\ source \in Seq(Characters) /\ End \in Nat /\ current \in 1..End
      /\ source' = source /\ tokens \in Seq([token : Tokens, line : Nat])
  BY CharFacts DEF LexerInv, Typed, Placed, Deliver
<1>2. PICK at : at = Start
  OBVIOUS
<1>3. PICK to : to = token.to
  OBVIOUS
<1>4. /\ at \in current..End /\ at \in Nat /\ at < End
      /\ to \in Nat /\ at < to /\ to <= End + 1 /\ (to > End => token.kind = "Error")
  <2>1. at \in current..End
    BY <1>1, <1>2, StartIs
  <2>2. at \in Nat /\ at >= 1
    BY <1>1, <2>1
  <2>3. at < End
    BY <1>1, <1>2, <2>2, CharFacts
  <2> QED
    BY <1>2, <1>3, <2>1, <2>2, <2>3 DEF InSource, Tokens
<1>5. Followed /\ Blamed
  BY DEF Understood
<1>6. ASSUME Fine(current), "braces" \notin ToSet(Enclosing[at + 1])
      PROVE  Sound(token, Len(open)) /\ \A j \in current..at-1 : ~Misplaced(Enclosing, j)
  <2>1. PICK m : m = Len(interpolations)
    OBVIOUS
  <2>2. Aligned(current, m)
    BY <1>1, <1>5, <1>6, <2>1 DEF Followed
  <2>3. Nest(Enclosing[at], m) /\ \A j \in current..at-1 : ~Misplaced(Enclosing, j)
    BY <1>1, <1>2, <2>2, WalkToStart
  <2> QED
    BY <1>2, <1>6, <2>1, <2>3
<1>7. ASSUME to <= End, Fine(to) PROVE Aligned(to, Len(open)) /\ Proper(token)
  <2>1. Fine(current)
    <3>1. \A j \in 1..current : j \in 1..to /\ (j < current => j < to)
      BY <1>1, <1>4
    <3> QED
      BY <1>7, <3>1 DEF Fine
  <2>2. at + 1 \in 1..to /\ \A j \in at..to-1 : j \in 1..to /\ j < to
    BY <1>1, <1>4
  <2>3. Sound(token, Len(open))
    BY <1>6, <1>7, <2>1, <2>2 DEF Fine
  <2>4. \A j \in at..to-1 : ~Misplaced(Enclosing, j)
    BY <1>7, <2>2 DEF Fine
  <2> QED
    BY <1>2, <1>3, <2>3, <2>4 DEF Sound
<1>8. PICK ts : ts = tokens'
  OBVIOUS
<1>9. \A i \in DOMAIN ts : ts[i].token.to <= End /\ Fine(ts[i].token.to) => Proper(ts[i].token)
  <2> SUFFICES ASSUME NEW i \in DOMAIN ts, ts[i].token.to <= End, Fine(ts[i].token.to)
               PROVE  Proper(ts[i].token)
    OBVIOUS
  <2>1. PICK record : record = [token |-> token, line |-> line_number']
    OBVIOUS
  <2>2. ts = Append(tokens, record) /\ record.token = token
    BY <1>8, <2>1 DEF Deliver
  <2>3. CASE i \in DOMAIN tokens
    <3>1. ts[i] = tokens[i]
      BY <1>1, <2>2, <2>3
    <3> QED
      BY <1>5, <2>3, <3>1 DEF Followed
  <2>4. CASE i \notin DOMAIN tokens
    <3>1. ts[i] = record
      BY <1>1, <2>2, <2>4
    <3> QED
      BY <1>3, <1>7, <2>2, <3>1
  <2> QED
    BY <2>3, <2>4
<1>10. current' = to /\ interpolations' = open
  BY <1>3 DEF Deliver
<1>11. Followed'
  BY <1>1, <1>7, <1>8, <1>9, <1>10, FollowedNext
<1>12. PICK e \in BOOLEAN : e <=> token.kind = "Error"
  OBVIOUS
<1>13. had_error \in BOOLEAN /\ had_error' = (had_error \/ e)
  <2>1. had_error' = (had_error \/ token.kind = "Error")
    BY DEF Deliver
  <2> QED
    BY <1>5, <1>12, <2>1 DEF Blamed
<1>14. ASSUME Braceless, ~had_error
       PROVE  /\ Fine(current) /\ Sound(token, Len(open))
              /\ \A j \in current..at-1 : ~Misplaced(Enclosing, j)
  <2>1. Fine(current)
    BY <1>5, <1>14 DEF Blamed
  <2>2. at + 1 \in 1..End
    BY <1>1, <1>4
  <2>3. "braces" \notin ToSet(Enclosing[at + 1])
    BY <1>14, <2>2 DEF Braceless
  <2> QED
    BY <1>6, <2>1, <2>3
<1>15. had_error' /\ Braceless => \E j \in 1..End : Misplaced(Enclosing, j)
  <2>1. CASE had_error
    BY <1>5, <2>1 DEF Blamed
  <2>2. CASE ~had_error
    BY <1>12, <1>13, <1>14, <2>2 DEF Sound
  <2> QED
    BY <2>1, <2>2
<1>16. ASSUME ~had_error', Braceless PROVE to <= End /\ Fine(to)
  <2>1. ~had_error /\ token.kind # "Error"
    BY <1>12, <1>13, <1>16
  <2>2. to <= End
    BY <1>1, <1>4, <2>1
  <2>3. \A j \in at..to-1 : ~Misplaced(Enclosing, j)
    BY <1>2, <1>3, <1>14, <1>16, <2>1 DEF Sound
  <2>4. ASSUME NEW j \in 1..to PROVE /\ "braces" \notin ToSet(Enclosing[j])
                                     /\ j < to => ~Misplaced(Enclosing, j)
    <3>1. j \in 1..End
      BY <1>1, <1>4, <2>2
    <3>2. CASE j < current
      <4>1. j \in 1..current
        BY <1>1, <3>1, <3>2
      <4> QED
        BY <1>14, <1>16, <2>1, <3>2, <4>1 DEF Fine
    <3>3. CASE j \in current..at-1
      BY <1>14, <1>16, <2>1, <3>1, <3>3 DEF Braceless
    <3>4. CASE j >= at
      <4>1. j < to => j \in at..to-1
        BY <1>1, <1>4, <3>1, <3>4
      <4> QED
        BY <1>16, <2>3, <3>1, <4>1 DEF Braceless
    <3>5. j < current \/ j \in current..at-1 \/ j >= at
      BY <1>1, <1>4, <3>1
    <3> QED
      BY <3>2, <3>3, <3>4, <3>5
  <2> QED
    BY <2>2, <2>4 DEF Fine
<1>17. status' = IF to > End THEN "outside" ELSE "scanning"
  BY <1>3 DEF Deliver
<1>18. Blamed'
  <2>1. (had_error /\ Braceless => \E j \in 1..End : Misplaced(Enclosing, j))'
    <3>1. Braceless' <=> Braceless
      BY <1>1, SameEnclosing
    <3>2. (\E j \in 1..End : Misplaced(Enclosing, j)) => (\E j \in 1..End : Misplaced(Enclosing, j))'
      BY <1>1, SameEnclosing
    <3> QED
      BY <1>15, <3>1, <3>2
  <2>2. (~had_error /\ Braceless => current <= End /\ Fine(current))'
    <3>1. Braceless' <=> Braceless
      BY <1>1, SameEnclosing
    <3>2. Fine(to)' <=> Fine(to)
      BY <1>1, SameEnclosing
    <3>3. Fine(current)' <=> Fine(to)'
      BY <1>10 DEF Fine
    <3>4. End' = End
      BY <1>1, SameEnclosing
    <3> QED
      BY <1>10, <1>16, <3>1, <3>2, <3>3, <3>4
  <2>3. status' = "outside" => had_error'
    BY <1>4, <1>12, <1>13, <1>17
  <2>4. status' # "ended"
    BY <1>17
  <2>5. had_error' \in BOOLEAN
    BY <1>13
  <2> QED
    BY <2>1, <2>2, <2>3, <2>4, <2>5 DEF Blamed
<1>19. Untouched'
  BY <1>17 DEF Untouched
<1> QED
  BY <1>11, <1>18, <1>19 DEF Understood

LEMMA ScanStringUnderstands == ASSUME LexerInv, Understood, ScanString PROVE Understood'
<1>1. status = "scanning" /\ Char(Start) = Quote
  BY DEF ScanString
<1>2. PICK open : open = interpolations
  OBVIOUS
<1>3. open \in Seq({1})
  BY <1>2 DEF LexerInv, Typed
<1>4. PICK token : token = Piece(Start, open)
  OBVIOUS
<1>5. PICK after : after = Opened(open, token)
  OBVIOUS
<1>6. PICK n : n = NewlinesIn(token)
  OBVIOUS
<1>7. Deliver(token, after, n)
  BY <1>2, <1>4, <1>5, <1>6 DEF ScanString
<1>8. PICK at : at = Start
  OBVIOUS
<1>9. source \in Seq(Characters) /\ at \in Nat /\ at >= 1 /\ Char(at) # "nul"
  BY <1>1, <1>8, StartIsPlace
<1>10. InSource(token) /\ token.from = Start
  BY <1>4, <1>8, <1>9, PieceIs
<1>11. Nest(Enclosing[at], Len(open)) => Sound(token, Len(after))
  <2> SUFFICES ASSUME Nest(Enclosing[at], Len(open)) PROVE Sound(token, Len(after))
    OBVIOUS
  <2>1. Sound(Piece(at, open), Len(Opened(open, Piece(at, open))))
    BY <1>1, <1>3, <1>8, <1>9, StringIsSound
  <2> QED
    BY <1>4, <1>5, <1>8, <2>1
<1> QED
  BY <1>1, <1>2, <1>7, <1>8, <1>9, <1>10, <1>11, DeliverUnderstands

LEMMA ScanRestOfTemplateUnderstands == ASSUME LexerInv, Understood, ScanRestOfTemplate PROVE Understood'
<1>1. status = "scanning" /\ Char(Start) = RightBrace /\ interpolations # <<>>
  BY DEF ScanRestOfTemplate, Continues, Closing
<1>2. PICK open : open = Front(interpolations)
  OBVIOUS
<1>3. interpolations \in Seq({1})
  BY DEF LexerInv, Typed
<1>4. PICK m : m = Len(interpolations)
  OBVIOUS
<1>5. open \in Seq({1}) /\ Len(open) = m - 1 /\ m \in Nat /\ m # 0
  BY <1>1, <1>2, <1>3, <1>4, NonEmptyFacts
<1>6. PICK token : token = Piece(Start, open)
  OBVIOUS
<1>7. PICK after : after = Opened(open, token)
  OBVIOUS
<1>8. PICK n : n = NewlinesIn(token)
  OBVIOUS
<1>9. Deliver(token, after, n)
  BY <1>2, <1>6, <1>7, <1>8 DEF ScanRestOfTemplate
<1>10. PICK at : at = Start
  OBVIOUS
<1>11. source \in Seq(Characters) /\ at \in Nat /\ at >= 1 /\ Char(at) # "nul"
  BY <1>1, <1>10, StartIsPlace
<1>12. InSource(token) /\ token.from = Start
  BY <1>6, <1>10, <1>11, PieceIs
<1>13. Nest(Enclosing[at], m) => Sound(token, Len(after))
  <2> SUFFICES ASSUME Nest(Enclosing[at], m) PROVE Sound(token, Len(after))
    OBVIOUS
  <2>1. Sound(Piece(at, open), Len(Opened(open, Piece(at, open))))
    BY <1>1, <1>5, <1>10, <1>11, RestIsSound
  <2> QED
    BY <1>6, <1>7, <1>10, <2>1
<1> QED
  BY <1>1, <1>4, <1>9, <1>10, <1>11, <1>12, <1>13, DeliverUnderstands

LEMMA ScanPlainUnderstands == ASSUME LexerInv, Understood, ScanPlain PROVE Understood'
<1>1. status = "scanning" /\ Char(Start) \notin {Quote, "nul"} /\ ~Continues(Start)
  BY DEF ScanPlain
<1>2. interpolations \in Seq({1})
  BY DEF LexerInv, Typed
<1>3. ~Closing(Start)
  BY <1>1, <1>2, ClosingContinues
<1>4. PICK open : open = interpolations
  OBVIOUS
<1>5. PICK token : token = Plain(Start)
  OBVIOUS
<1>6. Deliver(token, open, 0)
  BY <1>3, <1>4, <1>5 DEF ScanPlain
<1>7. PICK at : at = Start
  OBVIOUS
<1>8. source \in Seq(Characters) /\ at \in Nat /\ at >= 1 /\ Char(at) \notin Space /\ Char(at) # "nul" /\ End \in Nat
  BY <1>1, <1>7, StartIsPlace, CharFacts
<1>9. token \in Tokens /\ token.from = at /\ token.to \in at+1..End
  BY <1>5, <1>7, <1>8, PlainIs
<1>10. InSource(token) /\ token.from = Start
  BY <1>7, <1>8, <1>9 DEF InSource
<1>11. PICK n : n = Len(open)
  OBVIOUS
<1>12. Char(at) = RightBrace => n = 0
  BY <1>2, <1>3, <1>4, <1>7, <1>11 DEF Closing
<1>13. Nest(Enclosing[at], n) /\ "braces" \notin ToSet(Enclosing[at + 1]) => Sound(token, n)
  <2> SUFFICES ASSUME Nest(Enclosing[at], n), "braces" \notin ToSet(Enclosing[at + 1]) PROVE Sound(token, n)
    OBVIOUS
  <2>1. Sound(Plain(at), n)
    BY <1>1, <1>7, <1>8, <1>12, PlainIsSound
  <2> QED
    BY <1>5, <1>7, <2>1
<1> QED
  BY <1>1, <1>4, <1>6, <1>7, <1>10, <1>11, <1>13, DeliverUnderstands

LEMMA ScanEndUnderstands == ASSUME LexerInv, Understood, ScanEnd PROVE Understood'
<1>1. /\ status = "scanning" /\ Char(Start) = "nul" /\ status' = "ended" /\ source' = source
      /\ tokens' = tokens /\ interpolations' = interpolations /\ had_error' = had_error
  BY DEF ScanEnd
<1>2. source \in Seq(Characters) /\ End \in Nat /\ current \in 1..End
  BY <1>1, CharFacts DEF LexerInv, Typed, Placed
<1>3. Followed /\ Blamed
  BY <1>1 DEF Understood
<1>4. PICK to : to = Start
  OBVIOUS
<1>5. to \in current..End /\ current' = to /\ Char(to) = "nul" /\ to \in Nat
  BY <1>1, <1>2, <1>4, StartIs DEF ScanEnd
<1>6. PICK m : m = Len(interpolations)
  OBVIOUS
<1>7. ASSUME Fine(current) PROVE Aligned(to, m) /\ \A j \in current..to-1 : ~Misplaced(Enclosing, j)
  <2>1. Aligned(current, m)
    BY <1>2, <1>3, <1>6, <1>7 DEF Followed
  <2> QED
    BY <1>2, <1>4, <2>1, WalkToStart
<1>8. Fine(to) => Aligned(to, m)
  <2>1. \A j \in 1..current : j \in 1..to /\ (j < current => j < to)
    BY <1>2, <1>5
  <2>2. Fine(to) => Fine(current)
    BY <2>1 DEF Fine
  <2> QED
    BY <1>7, <2>2
<1>9. PICK ts : ts = tokens
  OBVIOUS
<1>10. \A i \in DOMAIN ts : ts[i].token.to <= End /\ Fine(ts[i].token.to) => Proper(ts[i].token)
  BY <1>3, <1>9 DEF Followed
<1>11. Followed'
  <2>1. PICK open : open = interpolations
    OBVIOUS
  <2>2. interpolations' = open /\ tokens' = ts /\ (to <= End /\ Fine(to) => Aligned(to, Len(open)))
    BY <1>1, <1>6, <1>8, <1>9, <2>1
  <2> QED
    BY <1>1, <1>5, <1>10, <2>2, FollowedNext
<1>12. ASSUME Braceless, ~had_error PROVE Fine(to)
  <2>1. Fine(current) /\ \A j \in current..to-1 : ~Misplaced(Enclosing, j)
    BY <1>3, <1>7, <1>12 DEF Blamed
  <2>2. ASSUME NEW j \in 1..to PROVE /\ "braces" \notin ToSet(Enclosing[j])
                                     /\ j < to => ~Misplaced(Enclosing, j)
    <3>1. j \in 1..End /\ (j < current => j \in 1..current) /\ (j >= current /\ j < to => j \in current..to-1)
          /\ (j < current \/ j >= current)
      BY <1>2, <1>5
    <3> QED
      BY <1>12, <2>1, <3>1 DEF Fine, Braceless
  <2> QED
    BY <2>2 DEF Fine
<1>13. Blamed'
  <2>1. Braceless' <=> Braceless
    BY <1>1, SameEnclosing
  <2>2. (\E j \in 1..End : Misplaced(Enclosing, j)) => (\E j \in 1..End : Misplaced(Enclosing, j))'
    BY <1>1, SameEnclosing
  <2>3. Fine(to)' <=> Fine(to)
    BY <1>1, SameEnclosing
  <2>4. Fine(current)' <=> Fine(to)'
    BY <1>5 DEF Fine
  <2>5. End' = End /\ to <= End
    BY <1>1, <1>2, <1>5, SameEnclosing
  <2>6. Char(current)' = "nul"
    <3>1. Char(to)' = Char(to)
      BY <1>1, SameEnclosing
    <3>2. Char(current)' = Char(to)'
      BY <1>5 DEF Char
    <3> QED
      BY <1>5, <3>1, <3>2
  <2>7. (had_error /\ Braceless => \E j \in 1..End : Misplaced(Enclosing, j))'
    BY <1>1, <1>3, <2>1, <2>2 DEF Blamed
  <2>8. (~had_error /\ Braceless => current <= End /\ Fine(current))'
    BY <1>1, <1>5, <1>12, <2>1, <2>3, <2>4, <2>5
  <2>9. had_error' \in BOOLEAN
    BY <1>1, <1>3 DEF Blamed
  <2> QED
    BY <1>1, <2>6, <2>7, <2>8, <2>9 DEF Blamed
<1>14. Untouched'
  BY <1>1 DEF Untouched
<1> QED
  BY <1>11, <1>13, <1>14 DEF Understood

(* The first character is enclosed by nothing.                             *)
LEMMA NestAtFirst == Nest(<<"code">>, 0)
<1>1. <<"code">> \in Seq(Constructs) /\ Len(<<"code">>) = 1 /\ <<"code">>[1] = "code"
  BY DEF Constructs
<1>2. Deepest(<<"code">>) = 0
  <2>1. {i \in DOMAIN <<"code">> : <<"code">>[i] = "expression"} = {}
    OBVIOUS
  <2> QED
    BY <2>1, FS_EmptySet DEF Deepest
<1>3. \A i \in 0..0 : 2 * i + 1 = 1 /\ i = 0
  OBVIOUS
<1> QED
  BY <1>1, <1>2, <1>3 DEF Nest

LEMMA BeginUnderstands == ASSUME LexerInv, Understood, Begin PROVE Understood'
<1>1. /\ status = "written" /\ status' = "scanning" /\ source' = source /\ current = 1 /\ current' = 1
      /\ tokens = <<>> /\ tokens' = <<>> /\ interpolations = <<>> /\ interpolations' = <<>>
      /\ had_error' = FALSE
  BY DEF Begin, LexerInv, Unscanned, Understood, Untouched
<1>2. source \in Seq(Characters) /\ End \in Nat /\ 1 <= End
  BY CharFacts DEF LexerInv, Typed
<1>3. Enclosing[1] = <<"code">> /\ Nest(Enclosing[1], 0)
  BY <1>2, EnclosingIs, NestAtFirst
<1>4. Aligned(1, 0)
  BY <1>3 DEF Aligned
<1>5. Fine(1)
  <2>1. "braces" \notin ToSet(Enclosing[1])
    BY <1>3, NestFacts
  <2>2. \A j \in 1..1 : j = 1 /\ ~(j < 1)
    OBVIOUS
  <2> QED
    BY <2>1, <2>2 DEF Fine
<1>6. Followed'
  <2>1. Len(<<>>) = 0
    OBVIOUS
  <2>2. 1 <= End /\ Fine(1) => Aligned(1, Len(<<>>))
    BY <1>4, <2>1
  <2>3. \A i \in DOMAIN <<>> : <<>>[i].token.to <= End /\ Fine(<<>>[i].token.to) => Proper(<<>>[i].token)
    OBVIOUS
  <2> QED
    BY <1>1, <2>2, <2>3, FollowedNext
<1>7. Blamed'
  <2>1. Fine(1)' <=> Fine(1)
    BY <1>1, SameEnclosing
  <2>2. Fine(current)' <=> Fine(1)'
    BY <1>1 DEF Fine
  <2>3. End' = End
    BY <1>1, SameEnclosing
  <2> QED
    BY <1>1, <1>2, <1>5, <2>1, <2>2, <2>3 DEF Blamed
<1>8. Untouched'
  BY <1>1 DEF Untouched
<1> QED
  BY <1>6, <1>7, <1>8 DEF Understood

LEMMA NextUnderstands == LexerInv /\ Understood /\ [Next]_vars => Understood'
<1> SUFFICES ASSUME LexerInv, Understood, [Next]_vars PROVE Understood'
  OBVIOUS
<1>1. ASSUME NEW c \in UNION ToSet(dialect), Write(c) PROVE Understood'
  <2>1. /\ status = "written" /\ status' = status /\ interpolations' = interpolations
        /\ had_error' = had_error
    BY <1>1 DEF Write
  <2> QED
    BY <2>1 DEF Understood, Untouched
<1>2. CASE Begin
  BY <1>2, BeginUnderstands
<1>3. CASE ScanString
  BY <1>3, ScanStringUnderstands
<1>4. CASE ScanRestOfTemplate
  BY <1>4, ScanRestOfTemplateUnderstands
<1>5. CASE ScanPlain
  BY <1>5, ScanPlainUnderstands
<1>6. CASE ScanEnd
  BY <1>6, ScanEndUnderstands
<1>7. CASE UNCHANGED vars
  <2>1. /\ dialect' = dialect /\ source' = source /\ status' = status /\ current' = current
        /\ line_number' = line_number /\ interpolations' = interpolations /\ tokens' = tokens
        /\ had_error' = had_error
    BY <1>7 DEF vars
  <2>2. Enclosing' = Enclosing /\ End' = End
    BY <2>1 DEF Enclosing, End
  <2>3. Untouched'
    BY <2>1 DEF Understood, Untouched
  <2>4. Followed' <=> Followed
    BY <2>1, <2>2 DEF Followed, Fine, Aligned, Proper, Misplaced, Char
  <2>5. Blamed' <=> Blamed
    BY <2>1, <2>2 DEF Blamed, Fine, Braceless, Misplaced, Char
  <2> QED
    BY <2>1, <2>3, <2>4, <2>5 DEF Understood
<1> QED
  BY <1>1, <1>2, <1>3, <1>4, <1>5, <1>6, <1>7 DEF Next

LEMMA UnderstoodHolds == Spec => [](LexerInv /\ Understood)
<1>1. Init => LexerInv /\ Understood
  BY InitLexer DEF Init, Understood, Untouched
<1>2. (LexerInv /\ Understood) /\ [Next]_vars => (LexerInv /\ Understood)'
  BY NextLexer, NextUnderstands
<1> QED
  BY <1>1, <1>2, PTL DEF Spec

-----------------------------------------------------------------------------
(* What is before the first place with an error, or with braces, in them.  *)
LEMMA FirstsAre ==
  ASSUME source \in Seq(Characters), NEW k \in Nat
  PROVE  LET bound == Min({FirstMisplaced(Enclosing), FirstBraces(Enclosing)})
         IN  /\ k < bound => k <= End /\ Fine(k)
             /\ FirstBraces(Enclosing) > End <=> Braceless
             /\ FirstMisplaced(Enclosing) <= End <=> \E j \in 1..End : Misplaced(Enclosing, j)
<1> DEFINE M == {j \in 1..End : Misplaced(Enclosing, j)} \cup {End + 1}
           B == {j \in 1..End : "braces" \in ToSet(Enclosing[j])} \cup {End + 1}
<1>1. End \in Nat /\ M \subseteq Nat /\ B \subseteq Nat /\ End + 1 \in M /\ End + 1 \in B
  BY CharFacts
<1>2. PICK m : m = FirstMisplaced(Enclosing)
  OBVIOUS
<1>3. PICK b : b = FirstBraces(Enclosing)
  OBVIOUS
<1>4. m \in M /\ \A j \in M : m <= j
  <2>1. m = Min(M)
    BY <1>2 DEF FirstMisplaced
  <2> HIDE DEF M
  <2> QED
    BY <1>1, <2>1, MinOfNaturals
<1>5. b \in B /\ \A j \in B : b <= j
  <2>1. b = Min(B)
    BY <1>3 DEF FirstBraces
  <2> HIDE DEF B
  <2> QED
    BY <1>1, <2>1, MinOfNaturals
<1>6. PICK bound : bound = Min({m, b})
  OBVIOUS
<1>7. bound \in Nat /\ bound <= m /\ bound <= b
  <2>1. {m, b} \subseteq Nat /\ {m, b} # {}
    BY <1>1, <1>4, <1>5
  <2>2. bound \in {m, b} /\ \A j \in {m, b} : bound <= j
    BY <1>6, <2>1, MinOfNaturals
  <2> QED
    BY <2>1, <2>2
<1>8. m \in Nat /\ b \in Nat /\ m <= End + 1 /\ b <= End + 1
  BY <1>1, <1>4, <1>5
<1>9. ASSUME k < bound PROVE k <= End /\ Fine(k)
  <2>1. k < m /\ k < b /\ k <= End
    BY <1>1, <1>7, <1>8, <1>9
  <2>2. ASSUME NEW j \in 1..k PROVE "braces" \notin ToSet(Enclosing[j]) /\ ~Misplaced(Enclosing, j)
    <3>1. j \in 1..End /\ ~(m <= j) /\ ~(b <= j)
      BY <1>1, <1>8, <2>1
    <3> QED
      BY <1>4, <1>5, <3>1
  <2> QED
    BY <2>1, <2>2 DEF Fine
<1>10. b > End <=> Braceless
  <2>1. ASSUME b > End, NEW j \in 1..End PROVE "braces" \notin ToSet(Enclosing[j])
    <3>1. ~(b <= j)
      BY <1>1, <1>8, <2>1
    <3> QED
      BY <1>5, <3>1
  <2>2. ASSUME Braceless PROVE b > End
    <3>1. b = End + 1
      BY <1>5, <2>2 DEF Braceless
    <3> QED
      BY <1>1, <3>1
  <2> QED
    BY <2>1, <2>2 DEF Braceless
<1>11. m <= End <=> \E j \in 1..End : Misplaced(Enclosing, j)
  <2>1. ASSUME m <= End PROVE \E j \in 1..End : Misplaced(Enclosing, j)
    <3>1. m # End + 1
      BY <1>1, <1>8, <2>1
    <3> QED
      BY <1>4, <3>1
  <2>2. ASSUME NEW j \in 1..End, Misplaced(Enclosing, j) PROVE m <= End
    <3>1. m <= j
      BY <1>4, <2>2
    <3> QED
      BY <1>1, <1>8, <3>1
  <2> QED
    BY <2>1, <2>2
<1> QED
  BY <1>2, <1>3, <1>6, <1>9, <1>10, <1>11

(* However strings and templates are nested, however long the source and   *)
(* whatever the limit: up to the first error, and as long as no braces are *)
(* in an expression of a template, every piece of a string lexer_scan      *)
(* delivers is one, of the template it belongs to, and nothing else is     *)
(* (lexer.c:105, 678).                                                     *)
THEOREM PiecesAreContinued == Spec => []PiecesContinueTheirTemplates
<1>1. ASSUME LexerInv, Understood PROVE PiecesContinueTheirTemplates
  <2>1. source \in Seq(Characters)
    BY <1>1 DEF LexerInv, Typed
  <2> SUFFICES ASSUME NEW i \in DOMAIN tokens, NEW t, t = tokens[i].token,
                      t.to < Min({FirstMisplaced(Enclosing), FirstBraces(Enclosing)})
               PROVE  Proper(t)
    BY DEF PiecesContinueTheirTemplates, Proper
  <2>2. t.to \in Nat
    BY <1>1 DEF LexerInv, Recorded, InSource, Tokens
  <2>3. t.to <= End /\ Fine(t.to)
    BY <2>1, <2>2, FirstsAre
  <2>4. status # "written"
    BY <1>1 DEF LexerInv, Unscanned
  <2> QED
    BY <1>1, <2>3, <2>4 DEF Understood, Followed
<1> QED
  BY <1>1, UnderstoodHolds, PTL

(* Whatever the source, as long as no braces are in an expression of a     *)
(* template: lexer_scan reports an error exactly when there is one, and    *)
(* goes past the end of the source only with one.                          *)
THEOREM ErrorsAreNoticed == Spec => []ErrorsAreReported
<1>1. ASSUME LexerInv, Understood PROVE ErrorsAreReported
  <2>1. source \in Seq(Characters) /\ End \in Nat
    BY <1>1, CharFacts DEF LexerInv, Typed
  <2> SUFFICES ASSUME status \in {"ended", "outside"}, FirstBraces(Enclosing) > End
               PROVE  /\ had_error <=> FirstMisplaced(Enclosing) <= End
                      /\ status = "outside" => had_error
    BY DEF ErrorsAreReported
  <2>2. Followed /\ Blamed
    BY <1>1 DEF Understood
  <2>3. 0 \in Nat
    OBVIOUS
  <2>4. Braceless /\ (FirstMisplaced(Enclosing) <= End <=> \E j \in 1..End : Misplaced(Enclosing, j))
    BY <2>1, <2>3, FirstsAre
  <2>5. ASSUME ~had_error, NEW j \in 1..End, Misplaced(Enclosing, j) PROVE FALSE
    <3>1. current <= End /\ Fine(current) /\ status = "ended" /\ Char(current) = "nul"
      BY <2>2, <2>4, <2>5 DEF Blamed
    <3>2. current \in 1..End
      BY <1>1, <2>1, <3>1 DEF LexerInv, Placed
    <3>3. current = End
      <4>1. Char(current) = IF current \in 1..End-1 THEN source[current] ELSE "nul"
        BY <2>1 DEF Char, CharOf, End
      <4>2. CASE current \in 1..End-1
        <5>1. source[current] \in Characters
          BY <2>1, <4>2 DEF End
        <5>2. "nul" \notin Characters
          <6>1. Characters \subseteq Alphabet
            BY DialectsAssumption DEF Characters
          <6> QED
            BY <6>1 DEF Alphabet, Space, Single, Word
        <5> QED
          BY <3>1, <4>1, <4>2, <5>1, <5>2
      <4> QED
        BY <2>1, <3>2, <4>2
    <3>4. ~(j < current)
      <4>1. j < current => j \in 1..current
        BY <2>1, <3>3
      <4> QED
        BY <2>5, <3>1, <4>1 DEF Fine
    <3>5. j = End
      BY <2>1, <3>3, <3>4
    <3>6. PICK n : n = Len(interpolations)
      OBVIOUS
    <3>7. Aligned(End, n)
      BY <2>2, <3>1, <3>3, <3>6 DEF Followed
    <3>8. Last(Enclosing[End]) \in {"code", "expression", "comment"}
      <4>1. CASE Nest(Enclosing[End], n)
        BY <4>1, NestFacts
      <4>2. ASSUME NEW out, Nest(out, n), Enclosing[End] = Append(out, "comment")
            PROVE  Last(Enclosing[End]) = "comment"
        BY <4>2, NestFacts, AppendFacts
      <4> QED
        BY <3>7, <4>1, <4>2 DEF Aligned
    <3>9. Char(End) = "nul"
      BY <3>1, <3>3
    <3> QED
      BY <2>1, <2>5, <3>5, <3>8, <3>9, MisplacedIs
  <2>6. had_error \in BOOLEAN
    BY <2>2 DEF Blamed
  <2> QED
    BY <2>2, <2>4, <2>5, <2>6 DEF Blamed
<1> QED
  BY <1>1, UnderstoodHolds, PTL

=============================================================================
