------------------------------ MODULE Compiler ------------------------------
(***************************************************************************)
(* The statements of the compiler (src/parser.c): scopes, locals, captured *)
(* names, jumps and functions.  kriolu compiles in one pass: parsing a     *)
(* statement emits its instructions into the bytecode of the function that *)
(* is being compiled.                                                      *)
(*                                                                         *)
(* The program is arbitrary: each step parses what the next tokens may be. *)
(* The recursive descent is the sequence `open`: the handlers of the       *)
(* statements begun and not yet ended.  An expression is a literal, a      *)
(* condition or a name; instructions have no width and a jump's operand is *)
(* its target (Bytecode.tla has the bytes).  Parsing stops at the first    *)
(* error, after which parser_parse returns no script whatever follows.     *)
(***************************************************************************)
EXTENDS Integers, SequencesExt, FiniteSetsExt

CONSTANTS
  Names,          (* identifiers                                           *)
  Starts,         (* pairs of names, the second beginning with the first   *)
  Dialects,       (* what programs may be: for the first, the second, ...  *)
                  (* statement that begins, the kinds, the names and the   *)
                  (* names of members it may use                           *)
  NoName,         (* no identifier: the slot of a callee, an absent clause *)
  Keli,           (* the name of the instance in a method                  *)
  MaxNesting,     (* statements open at a time                             *)
  MaxLocals       (* locals of a function, UINT8_COUNT in the code         *)

ASSUME CompilerAssumption ==
  /\ Keli \notin Names
  /\ NoName \notin Names \cup {Keli}
  /\ Starts \subseteq Names \X Names /\ \A n \in Names : <<n, n>> \in Starts
  /\ \A n \in Names : <<"Super_Class", n>> \notin Names
  /\ \A d \in Dialects :
       /\ Len(d) \in Nat /\ DOMAIN d = 1..Len(d)
       /\ \A i \in DOMAIN d : d[i].names \cup d[i].members \subseteq Names /\ IsFiniteSet(d[i].kinds)
  /\ MaxNesting \in Nat
  /\ MaxLocals \in Nat \ {0, 1}

VARIABLES
  functions,   (* parser->function: those being compiled, innermost last   *)
  blocks,      (* parser->blocks                                           *)
  breakpoints, (* parser->breakpoints                                      *)
  continue_to, (* parser->continue_jump_to                                 *)
  open,        (* the statements being parsed, innermost last              *)
  compiled,    (* the functions compiled, in the order they ended          *)
  status,      (* "parsing", "rejected" by an error, "running" and its ends*)
  dialect,     (* one of Dialects                                          *)
  written,     (* statements and declarations so far, whether the ';' of a *)
               (* 'divolvi' comes next, and for the properties the names of*)
               (* classes and of superclasses, and those that vary: that   *)
               (* something else declared or assigned                      *)
  regular      (* no construct so far that Irregular comments on below     *)

parser == <<functions, blocks, breakpoints, continue_to, open, dialect, written, regular>>

(* What is declared gets a number.  An instruction carries two of them for *)
(* the properties: `of`, the variable the source means it to access, and   *)
(* `as`, the variable whose slot the value it pushes becomes.  `height` is *)
(* the number of locals where a statement starts, -1 within one.           *)
Nothing == 0
Instruction(op, x, of, as) == [op |-> op, x |-> x, of |-> of, as |-> as, height |-> -1]
Do(op)        == Instruction(op, Nothing, Nothing, Nothing)
Push(op, as)  == Instruction(op, Nothing, Nothing, as)
Unpatched(op) == Instruction(op, 0, Nothing, Nothing)
Operand(op, x) == Instruction(op, x, Nothing, Nothing)

Emit(f, code) == [f EXCEPT !.code = @ \o code]
Here(f)       == Len(f.code) + 1

Innermost == Len(functions)
Current   == functions[Innermost]

Local(n, depth, decl) == [name |-> n, scope_depth |-> depth, moved |-> FALSE, decl |-> decl]

(* parser_init_function: the callee takes local 0; no token names it in a  *)
(* plain function, `keli` does elsewhere.                                  *)
NewFunction(kind, decl) ==
  [kind |-> kind, depth |-> 0,
   locals |-> <<Local(IF kind = "Function" THEN NoName ELSE Keli, 0, decl)>>,
   outsiders |-> <<>>, code |-> <<>>]

ParserInit ==
  /\ functions = <<NewFunction("Script", Nothing)>>
  /\ blocks = <<>> /\ breakpoints = <<>>
  /\ continue_to = [to |-> -1, function |-> 0, locals |-> <<>>]
  /\ open = <<>> /\ compiled = <<>>
  /\ status = "parsing"
  /\ dialect \in Dialects
  /\ written = [statements |-> 0, declarations |-> 0, semicolon |-> FALSE, classes |-> {}, superclasses |-> {}, varying |-> {}]
  /\ regular = TRUE

-----------------------------------------------------------------------------
(* Names.                                                                  *)

FirstIndex(f, n) ==
  LET found == {i \in DOMAIN f.locals : f.locals[i].name = n}
  IN  IF found = {} THEN -1 ELSE Min(found) - 1

(* StackLocal_get_local_index_by_token: from the top, -1 for none.         *)
LocalIndex(f, n) == Max({i \in DOMAIN f.locals : f.locals[i].name = n} \cup {0}) - 1

(* parser_check_locals_duplicates: a local of the scope, or one above all  *)
(* those of the enclosing scopes, that is not initialized yet.             *)
Duplicate(f, n) ==
  \E i \in DOMAIN f.locals :
    /\ f.locals[i].name = n
    /\ \A j \in i..Len(f.locals) : f.locals[j].scope_depth \notin 0..f.depth-1

Full(f) == Len(f.locals) = MaxLocals

(* ArrayOutsider_add, and the index it returns.                            *)
AddOutsider(f, o) ==
  IF o \in ToSet(f.outsiders) THEN f ELSE [f EXCEPT !.outsiders = Append(@, o)]
OutsiderIndex(f, o) ==
  (CHOOSE i \in DOMAIN AddOutsider(f, o).outsiders : AddOutsider(f, o).outsiders[i] = o) - 1

(* The declaration in scope that the source means by a name: the last one. *)
Meant(fs, n) ==
  Max({Nothing} \cup UNION {{l.decl : l \in {m \in ToSet(f.locals) : m.name = n}} : f \in ToSet(fs)})

(* parser_resolve_variable_dependencies: the nearest enclosing function    *)
(* that has the local, 0 for none, and the outsider that every function    *)
(* from there inwards gets; for the properties, with what the name means.  *)
Holder(fs, n) == Max({j \in 1..Len(fs)-1 : LocalIndex(fs[j], n) # -1} \cup {0})

Outsiders(fs, n) ==
  LET holder == Holder(fs, n)
      outsider[j \in holder+1..Len(fs)] ==
        IF j = holder + 1
        THEN [index |-> LocalIndex(fs[holder], n), location |-> "Stack", of |-> Meant(fs, n)]
        ELSE [index |-> OutsiderIndex(fs[j-1], outsider[j-1]), location |-> "Heap_Values", of |-> Meant(fs, n)]
  IN  outsider

ResolvedUnmoved(fs, n) ==
  IF LocalIndex(Last(fs), n) # -1 \/ Holder(fs, n) = 0
  THEN fs
  ELSE [j \in DOMAIN fs |-> IF j <= Holder(fs, n) THEN fs[j] ELSE AddOutsider(fs[j], Outsiders(fs, n)[j])]

(* parser_find_identifier_location: what it changes ...                    *)
Resolved(fs, n) ==
  IF LocalIndex(Last(fs), n) # -1 \/ Holder(fs, n) = 0
  THEN fs
  ELSE [j \in DOMAIN fs |->
          CASE j < Holder(fs, n) -> fs[j]
            [] j = Holder(fs, n) -> [fs[j] EXCEPT !.locals[LocalIndex(fs[j], n) + 1].moved = TRUE]
            [] j > Holder(fs, n) -> AddOutsider(fs[j], Outsiders(fs, n)[j])]

(* ... and what it answers.                                                *)
Location(fs, n) ==
  CASE LocalIndex(Last(fs), n) # -1 -> [kind |-> "Local", index |-> LocalIndex(Last(fs), n)]
    [] LocalIndex(Last(fs), n) = -1 /\ Holder(fs, n) # 0 ->
         [kind |-> "Outsider", index |-> OutsiderIndex(Last(fs), Outsiders(fs, n)[Len(fs)])]
    [] OTHER -> [kind |-> "Global", index |-> n]

(* Parser_compile_variable_value_to_stack, parser_parse_operator_assignment*)
Read(fs, n, as) ==
  LET op == [Local |-> "Copy_From_Idx", Outsider |-> "Copy_From_Heap", Global |-> "Read_Global"]
  IN  Instruction(op[Location(fs, n).kind], Location(fs, n).index, Meant(fs, n), as)
Assign(fs, n) ==
  LET op == [Local |-> "Copy_Top_To_Idx", Outsider |-> "Move_Top_To_Heap", Global |-> "Assign_Global"]
  IN  Instruction(op[Location(fs, n).kind], Location(fs, n).index, Meant(fs, n), Nothing)

-----------------------------------------------------------------------------
(* Scopes.                                                                 *)

BeginScope(f) == [f EXCEPT !.depth = @ + 1]

EndScopePopping(f) ==
  LET kept == Max({i \in DOMAIN f.locals : f.locals[i].scope_depth < f.depth} \cup {0})
  IN  [f EXCEPT !.depth = @ - 1,
                !.locals = SubSeq(@, 1, kept),
                !.code = @ \o [i \in 1..Len(f.locals) - kept |-> Do("Pop")]]

(* parser_end_scope: the locals of the scope leave from the top.           *)
EndScope(f) ==
  LET kept == Max({i \in DOMAIN f.locals : f.locals[i].scope_depth < f.depth} \cup {0})
      gone == Reverse(SubSeq(f.locals, kept + 1, Len(f.locals)))
  IN  [f EXCEPT !.depth = @ - 1,
                !.locals = SubSeq(@, 1, kept),
                !.code = @ \o [i \in DOMAIN gone |->
                                 Do(IF gone[i].moved THEN "Move_Value_To_Heap" ELSE "Pop")]]

Declare(f, n, depth, decl) == [f EXCEPT !.locals = Append(@, Local(n, depth, decl))]

RefusedDuplicate(f, n) == f.depth > 0 /\ Duplicate(f, n)

(* What parser_parse_declaration_variable, _function and the parameters    *)
(* report of a local named n.                                              *)
Refused(f, n) == f.depth > 0 /\ (Full(f) \/ Duplicate(f, n))

NewDecl == written.declarations + 1

(* What the next statement may be.                                         *)
Expected ==
  IF written.statements < Len(dialect) THEN dialect[written.statements + 1]
  ELSE [kinds |-> {}, names |-> {}, members |-> {}]

-----------------------------------------------------------------------------
(* Jumps.                                                                  *)

Patch(f, i) == [f EXCEPT !.code[i].x = Here(f)]

(* The breakpoints parser_end_block takes: from the last one down, while   *)
(* they are of this block or of one inside it.                             *)
Patched ==
  {i \in DOMAIN breakpoints :
     \A j \in i..Len(breakpoints) : breakpoints[j].block_depth >= Len(blocks) - 1}

PatchLastBreak(f) == IF Patched = {} THEN f ELSE Patch(f, Last(breakpoints).operand)

(* It patches them in the function that is being compiled.                 *)
PatchBreaks(f) ==
  LET operands == {breakpoints[i].operand : i \in Patched}
  IN  [f EXCEPT !.code = [i \in DOMAIN f.code |->
         IF i \in operands THEN [f.code[i] EXCEPT !.x = Here(f)] ELSE f.code[i]]]

(* One emitted in a function nested in the block overwrites bytes of the   *)
(* enclosing function, or lies past them.                                  *)
EndBlock ==
  /\ status' = IF \E i \in Patched : breakpoints[i].function # Innermost THEN "undefined" ELSE status
  /\ breakpoints' = SubSeq(breakpoints, 1, Len(breakpoints) - Cardinality(Patched))
  /\ blocks' = Front(blocks)

-----------------------------------------------------------------------------
(* parser_parse_statement.                                                 *)

(* Programs that are not regular: those with a construct the compiler gets *)
(* wrong, each at the line that does.                                      *)
(*  - 'sai' where other locals are live than where its block ends, or in a *)
(*    function nested in the block (parser.c:774-793)                      *)
(*  - 'salta' where others are live than where the increment is compiled,  *)
(*    or in a function nested in the loop (parser.c:1157-1168)             *)
(*  - a declaration, or a 'divolvi' without a value, that is the whole     *)
(*    branch or body of a statement (parser.c:1213)                        *)
(*  - `mimoria a = a`, which finds the local it is declaring               *)
(*  - 'pa' without an increment, which jumps back to offset -1             *)
(*  - a superclass's method with the name of a variable (parser.c:1941)    *)
(*  - the name of a superclass that anything but one class declares or     *)
(*    assigns: a call of the superclass reads the variable (parser.c:1952) *)
(*  - the beginning of the name of a superclass, or that of the superclass *)
(*    of an enclosing class, in the place of the class's (parser.c:1916)   *)
Live(f) == [i \in DOMAIN f.locals |-> f.locals[i].decl]

BreaksAreEven(f) ==
  \A i \in Patched : /\ breakpoints[i].function = Innermost
                     /\ breakpoints[i].locals = Live(f)

Renamed(ns) == ns \cap written.superclasses # {}

Bare == {"then", "else", "while", "for"}

InBare == open # <<>> /\ Last(open).kind \in Bare

(* The type of block the handler of the enclosing statement passes on.     *)
BlockType == IF open = <<>> THEN "Clean" ELSE Last(open).type

MayWrite(kind) == status = "parsing" /\ ~written.semicolon /\ kind \in Expected.kinds

MayStart(kind) ==
  /\ MayWrite(kind)
  /\ InBare => ~Last(open).done
  /\ open # <<>> => Last(open).kind # "class"

Ended(os) == IF os = <<>> THEN os ELSE [os EXCEPT ![Len(os)].done = TRUE]

(* The first instruction of a statement knows the locals before it.        *)
Statement(f) ==
  IF Len(f.code) = Len(Current.code)
  THEN f ELSE [f EXCEPT !.code[Here(Current)].height = Len(Current.locals)]

Write(declarations, names) ==
  written' = [written EXCEPT !.statements = @ + 1, !.declarations = @ + declarations, !.varying = @ \cup names]

(* A statement without statements inside, that leaves p.                   *)
Simple(kind, p) ==
  /\ MayStart(kind)
  /\ functions' = [p.functions EXCEPT ![Innermost] = Statement(Emit(@, p.code))]
  /\ open' = Ended(open)
  /\ UNCHANGED <<compiled, status, dialect>>

(* parser_error: the script is not compiled.                               *)
Reject(kind) ==
  /\ MayStart(kind)
  /\ status' = "rejected"
  /\ UNCHANGED <<compiled, parser>>

(* An expression: a literal, a name, an instance of a class, `c{}`, or a   *)
(* member of an object.                                                    *)
Form(form, n, m) == [form |-> form, name |-> n, member |-> m]
Literal == Form("literal", NoName, NoName)
Name(n) == Form("name", n, NoName)

(* keli is read in classes only.                                           *)
InnerClass == Max({k \in DOMAIN open : open[k].kind = "class"} \cup {0})
Objects_ == Expected.names \cup (IF InnerClass = 0 THEN {} ELSE {Keli})

(* parser_is_identifier_a_superclass: of the superclass in the locals it   *)
(* compares as many characters as the identifier has.  What it takes for   *)
(* one is no variable, and only a method of it can be had.                 *)
Superclass(s) == <<"Super_Class", s>>
IsSuperclass(fs, n) ==
  \E f \in ToSet(fs) : \E l \in ToSet(f.locals) : \E s \in Names : l.name = Superclass(s) /\ <<n, s>> \in Starts

Accepted(e) ==
  IsSuperclass(functions, e.name) => e.member # NoName /\ InnerClass # 0 /\ open[InnerClass].superclass

(* parser_parse_superclass_method_call looks the name of the method up     *)
(* among the variables: the operand may be the index of one.               *)
Elsewhere == -1
MethodName(fs, m) == IF Location(fs, m).kind = "Global" THEN m ELSE Elsewhere

(* What parsing a part of a statement leaves: the functions, and the code  *)
(* to emit in the current one.                                             *)
Nothing_(fs) == [functions |-> fs, code |-> <<>>]
Doing(p, i)  == [p EXCEPT !.code = Append(@, i)]
Reading(p, n, as) ==
  LET found == Resolved(p.functions, n)
  IN  [functions |-> found, code |-> Append(p.code, Read(found, n, as))]

OfSuperclass(p, e, op, as) ==
  LET named == Resolved(Resolved(p.functions, e.name), e.member)
  IN  Doing(Reading(Reading([p EXCEPT !.functions = named], Keli, Nothing), e.name, Nothing),
            Instruction(op, MethodName(named, e.member), Nothing, as))

(* parser_parse_expression.                                                *)
Parsed(p, e, as) ==
  CASE e = Literal     -> Doing(p, Push("Push_Literal", as))
    [] e.form = "name" -> Reading(p, e.name, as)
    [] e.form = "new()"  -> Doing(Reading(p, e.name, Nothing), Instruction("Call_Class", 0, Nothing, as))
    [] e.form \in {"o.m", "o.m()"} ->
         IF IsSuperclass(p.functions, e.name)
         THEN OfSuperclass(p, e, IF e.form = "o.m" THEN "Get_Super" ELSE "Call_Super_Method", as)
         ELSE Doing(Reading(p, e.name, Nothing),
                    Instruction(IF e.form = "o.m" THEN "Get_Property" ELSE "Call_Method", e.member, Nothing, as))

Regular(fs, e) ==
  e.member # NoName /\ IsSuperclass(fs, e.name) =>
    open[InnerClass].inherits = e.name /\ Location(fs, e.member).kind = "Global"

(* parser_parse_instruction_print and parser_parse_statement_expression    *)
(* with an assignment, a call or the assignment of a member.               *)
Value(kind, e, code) ==
  /\ Accepted(e)
  /\ Simple(kind, [Parsed(Nothing_(functions), e, Nothing) EXCEPT !.code = @ \o code])
  /\ Write(0, {})
  /\ regular' = (regular /\ Regular(functions, e))
  /\ UNCHANGED <<blocks, breakpoints, continue_to>>

PrintValue(e) == Value("imprimi", e, <<Do("Print")>>)

CallMember(o, m) == Value("o.m()", Form("o.m()", o, m), <<Do("Pop")>>)

Calls == {"f()", "f()()", "f(e)", "new()", "new(e)"}

Calling(kind) ==
  LET argument == Push("Push_Literal", Nothing)
  IN  CASE kind = "f()"    -> <<Operand("Call_Function", 0)>>
        [] kind = "f()()"  -> <<Operand("Call_Function", 0), Operand("Call_Function", 0)>>
        [] kind = "f(e)"   -> <<argument, Operand("Call_Function", 1)>>
        [] kind = "new()"  -> <<Operand("Call_Class", 0)>>
        [] kind = "new(e)" -> <<argument, Operand("Call_Class", 1)>>

Call(kind, n) == Value(kind, Name(n), Calling(kind) \o <<Do("Pop")>>)

Assigning(p, n) == Doing(p, Assign(p.functions, n))

AssignName(n, e) ==
  /\ Accepted(e)
  /\ Simple(IF e = Literal THEN "=" ELSE "=name",
            Doing(Assigning(Parsed(Nothing_(Resolved(functions, n)), e, Nothing), n), Do("Pop")))
  /\ Write(0, {n})
  /\ regular' = (regular /\ ~Renamed({n}))
  /\ UNCHANGED <<blocks, breakpoints, continue_to>>

SetMember(o, m, e) ==
  /\ Accepted(Name(o)) /\ Accepted(e)
  /\ Simple("o.m=name",
            Doing(Doing(Parsed(Reading(Nothing_(functions), o, Nothing), e, Nothing),
                        Operand("Set_Property", m)), Do("Pop")))
  /\ Write(0, {})
  /\ UNCHANGED <<blocks, breakpoints, continue_to, regular>>

(* parser_parse_declaration_variable: a global, or a local that is not     *)
(* initialized until its value has been compiled.                          *)
Reserved(f, n, decl) == IF f.depth = 0 THEN f ELSE Declare(f, n, -1, decl)
Initialized(f, n) ==
  IF f.depth = 0 THEN Emit(f, <<Operand("Define_Global", n)>>)
  ELSE [f EXCEPT !.locals[Len(f.locals)].scope_depth = f.depth]

Declared(p, n) ==
  Nothing_([p.functions EXCEPT ![Innermost] = Initialized(Emit(@, p.code), n)])

Declaring(form) ==
  CASE form = "literal" -> "mimoria"
    [] form = "name"    -> "mimoria=name"
    [] form = "new()"   -> "mimoria=new()"
    [] form = "o.m"     -> "mimoria=o.m"

DeclareVariable(n, e) ==
  LET fs == [functions EXCEPT ![Innermost] = Reserved(@, n, NewDecl)]
  IN  /\ ~Refused(Current, n) /\ Accepted(e)
      /\ Simple(Declaring(e.form), Declared(Parsed(Nothing_(fs), e, IF Current.depth = 0 THEN Nothing ELSE NewDecl), n))
      /\ Write(1, {n})
      /\ regular' = (regular /\ (Current.depth > 0 => ~InBare /\ e.name # n) /\ Regular(fs, e) /\ ~Renamed({n}))
      /\ UNCHANGED <<blocks, breakpoints, continue_to>>

RejectDeclaration ==
  \/ \E n \in Expected.names : Refused(Current, n) /\ Reject("mimoria")
  \/ Full(Current) /\ Reject("pa(mimoria)")
  \/ /\ ~Full(Current)
     /\ \E n \in Expected.names : RefusedDuplicate(Current, n)
     /\ Reject("funson") \/ Reject("klasi")

(* StackLocal_push asserts that there is room.  It is not asked for before *)
(* the copy of a loop's variable is pushed (parser.c:1043), and a function *)
(* or class is pushed after the error is reported (parser.c:1359, 1550).   *)
Abort(kind) ==
  /\ MayStart(kind)
  /\ status' = "aborted"
  /\ UNCHANGED <<compiled, parser>>

OneLeft(f) == Len(f.locals) = MaxLocals - 1

AbortDeclaration ==
  \/ OneLeft(Current) /\ (Abort("pa(mimoria)") \/ Abort("pa()"))
  \/ /\ Current.depth > 0
     /\ \/ Full(Current) /\ \E kind \in {"funson", "funson(name)", "klasi", "klasi:name"} : Abort(kind)
        \/ OneLeft(Current) /\ Abort("klasi:name")

RejectSuperclass  == (\E n \in Expected.names : ~Accepted(Name(n))) /\ Reject("imprimi")

-----------------------------------------------------------------------------
(* Blocks, 'si', 'timenti' and 'pa'.                                       *)

(* The handler of a compound statement begins, and passes `type` on.       *)
Begin(context) ==
  /\ Len(open) < MaxNesting
  /\ open' = Append(open, context)
  /\ UNCHANGED <<status, dialect>>

(* The statement inside the innermost handler, of this kind, is parsed.    *)
EndingBlock(kind) ==
  /\ status = "parsing"
  /\ open # <<>> /\ Last(open).kind = kind
  /\ IF kind \in Bare THEN Last(open).done ELSE ~written.semicolon
  /\ open' = Ended(Front(open))
  /\ UNCHANGED <<dialect, written>>

Ending(kind) == EndingBlock(kind) /\ UNCHANGED status

Becomes(f) == functions' = [functions EXCEPT ![Innermost] = f]

(* parser_parse_instruction_block; only one that lies directly in other    *)
(* such blocks can be left with 'sai'.                                     *)
BeginBlock ==
  /\ MayStart("block")
  /\ Begin([kind |-> "block", type |-> BlockType, done |-> FALSE])
  /\ Becomes(BeginScope(Current))
  /\ blocks' = IF BlockType = "Clean" THEN Append(blocks, "Clean") ELSE blocks
  /\ Write(0, {})
  /\ UNCHANGED <<breakpoints, continue_to, compiled, regular>>

EndOfBlock ==
  /\ EndingBlock("block")
  /\ IF Last(open).type = "Clean"
     THEN /\ EndBlock
          /\ Becomes(EndScope(PatchBreaks(Current)))
          /\ regular' = (regular /\ BreaksAreEven(Current))
     ELSE /\ Becomes(EndScope(Current))
          /\ UNCHANGED <<status, blocks, breakpoints, regular>>
  /\ UNCHANGED <<continue_to, compiled>>

(* parser_parse_instruction_if: a condition, then ...                      *)
BeginIf ==
  LET f == Statement(Emit(Current, <<Push("Push_Condition", Nothing), Unpatched("Jump_If_False"), Do("Pop")>>))
  IN  /\ MayStart("si")
      /\ Begin([kind |-> "then", type |-> "If", jump |-> Here(Current) + 1, done |-> FALSE])
      /\ Becomes(f)
      /\ Write(0, {})
      /\ UNCHANGED <<blocks, breakpoints, continue_to, compiled, regular>>

(* ... one statement, and another after 'sinou'.                           *)
EndOfThen ==
  LET f == Emit(Current, <<Unpatched("Jump")>>)
      g == Emit(Patch(f, Last(open).jump), <<Do("Pop")>>)
  IN  /\ Ending("then")
      /\ Becomes(Patch(g, Here(Current)))
      /\ UNCHANGED <<blocks, breakpoints, continue_to, compiled, regular>>

ThenElse ==
  LET f == Emit(Current, <<Unpatched("Jump")>>)
      g == Emit(Patch(f, Last(open).jump), <<Do("Pop")>>)
  IN  /\ status = "parsing"
      /\ open # <<>> /\ Last(open).kind = "then" /\ Last(open).done /\ ~written.semicolon
      /\ open' = Append(Front(open), [kind |-> "else", type |-> "If", jump |-> Here(Current), done |-> FALSE])
      /\ Becomes(g)
      /\ UNCHANGED <<blocks, breakpoints, continue_to, compiled, status, dialect, written, regular>>

EndOfElse ==
  /\ Ending("else")
  /\ Becomes(Patch(Current, Last(open).jump))
  /\ UNCHANGED <<blocks, breakpoints, continue_to, compiled, regular>>

(* parser_instruction_while.                                               *)
BeginWhile ==
  /\ MayStart("timenti")
  /\ Begin([kind |-> "while", type |-> "None", start |-> Here(Current), jump |-> Here(Current) + 1, done |-> FALSE])
  /\ Becomes(Statement(Emit(Current,
       <<Push("Push_Condition", Nothing), Unpatched("Jump_If_False"), Do("Pop")>>)))
  /\ blocks' = Append(blocks, "Loop")
  /\ Write(0, {})
  /\ UNCHANGED <<breakpoints, continue_to, compiled, regular>>

EndOfWhileUnpopped ==
  LET g == Patch(Emit(Current, <<Operand("Loop", Last(open).start)>>), Last(open).jump)
  IN  /\ EndingBlock("while")
      /\ EndBlock
      /\ Becomes(PatchBreaks(g))
      /\ regular' = (regular /\ BreaksAreEven(g))
      /\ UNCHANGED <<continue_to, compiled>>

EndOfWhile ==
  LET f == Emit(Current, <<Operand("Loop", Last(open).start)>>)
      g == Emit(Patch(f, Last(open).jump), <<Do("Pop")>>)
  IN  /\ EndingBlock("while")
      /\ EndBlock
      /\ Becomes(PatchBreaks(g))
      /\ regular' = (regular /\ BreaksAreEven(g))
      /\ UNCHANGED <<continue_to, compiled>>

(* parser_instruction_for: `pa (mimoria n; condition; m = literal)`,       *)
(* each of the three optional (NoName, FALSE).  The loop has a scope of    *)
(* its own and, inside, one for the copy of the variable that the body     *)
(* uses, so that each iteration's closures capture their own.              *)
WithCondition(f, condition) ==
  IF condition
  THEN Emit(f, <<Push("Push_Condition", Nothing), Unpatched("Jump_If_False"), Do("Pop")>>)
  ELSE f

Incrementing(p, m, start) ==
  LET f == Emit(p.functions[Innermost], p.code \o <<Do("Pop"), Operand("Loop", start)>>)
  IN  [p.functions EXCEPT ![Innermost] = Patch(f, Here(p.functions[Innermost]))]

WithIncrement(fs, m, start) ==
  IF m = NoName THEN fs
  ELSE Incrementing(Assigning([functions |-> Resolved(fs, m),
                               code |-> <<Unpatched("Jump"), Push("Push_Literal", Nothing)>>], m), m, start)

WithCopy(f, n, decl) ==
  LET variable == Len(f.locals) - 1
      g == Declare(BeginScope(f), n, f.depth + 1, decl)
  IN  IF n = NoName THEN f
      ELSE Emit(g, <<Instruction("Copy_From_Idx", variable, f.locals[variable + 1].decl, decl)>>)

(* The function in the scope of the loop, with its variable and condition, *)
(* and with the increment.                                                 *)
Initializing(f, n) ==
  IF n = NoName THEN f ELSE Initialized(Emit(Declare(f, n, -1, NewDecl), <<Push("Push_Literal", NewDecl)>>), n)

BeginLoop(n, condition, m, start, fs, gs) ==
  /\ Begin([kind |-> "for", type |-> "Loop",
            variable  |-> IF n = NoName THEN -1 ELSE Len(gs[Innermost].locals) - 1,
            jump      |-> IF condition THEN start + 1 ELSE -1,
            increment |-> IF m = NoName THEN -1 ELSE Here(fs[Innermost]) + 1,
            continue  |-> continue_to, done |-> FALSE])
  /\ functions' = [gs EXCEPT ![Innermost] = Statement(WithCopy(@, n, NewDecl + 1))]
  /\ continue_to' = IF m = NoName THEN continue_to
                    ELSE [to |-> Here(fs[Innermost]) + 1, function |-> Innermost,
                          locals |-> Live(gs[Innermost])]

BeginFor(n, condition, m) ==
  LET f  == Initializing(BeginScope(Current), n)
      fs == [functions EXCEPT ![Innermost] = WithCondition(f, condition)]
  IN  /\ MayStart(IF m = NoName THEN "pa()" ELSE IF n = NoName THEN "pa" ELSE "pa(mimoria)")
      /\ n # NoName => ~Refused(BeginScope(Current), n) /\ Len(Current.locals) + 2 <= MaxLocals
      /\ BeginLoop(n, condition, m, Here(f), fs, WithIncrement(fs, m, Here(f)))
      /\ blocks' = Append(blocks, "Loop")
      /\ Write(2, {n, m} \ {NoName})
      /\ regular' = (regular /\ m # NoName /\ ~Renamed({n, m}))
      /\ UNCHANGED <<breakpoints, compiled>>

(* After the body the copy goes back into the variable.                    *)
CopiedBack(f, variable) ==
  IF variable = -1 THEN f
  ELSE EndScope(Emit(f,
         <<Instruction("Copy_From_Idx", variable + 1, f.locals[variable + 2].decl, Nothing),
           Instruction("Copy_Top_To_Idx", variable, f.locals[variable + 1].decl, Nothing),
           Do("Pop")>>))

EndOfFor ==
  LET c == Last(open)
      f == Emit(CopiedBack(Current, c.variable), <<Operand("Loop", c.increment)>>)
      g == IF c.jump = -1 THEN f ELSE Emit(Patch(f, c.jump), <<Do("Pop")>>)
  IN  /\ EndingBlock("for")
      /\ EndBlock
      /\ Becomes(EndScope(PatchBreaks(g)))
      /\ continue_to' = c.continue
      /\ regular' = (regular /\ BreaksAreEven(g))
      /\ UNCHANGED compiled

(* parser_instruction_break: an error outside all blocks.                  *)
Break ==
  /\ blocks # <<>>
  /\ Simple("sai", Doing(Nothing_(functions), Unpatched("Jump")))
  /\ breakpoints' = Append(breakpoints,
       [operand |-> Here(Current), block_depth |-> Len(blocks) - 1,
        function |-> Innermost, locals |-> Live(Current)])
  /\ Write(0, {})
  /\ UNCHANGED <<blocks, continue_to, regular>>

(* parser_instruction_continue: an error unless a 'pa' set a target, which *)
(* may be an offset in the bytecode of an enclosing function.              *)
Continue ==
  /\ continue_to.to # -1
  /\ Simple("salta", Doing(Nothing_(functions),
       Operand("Loop", IF continue_to.function = Innermost THEN continue_to.to ELSE Elsewhere)))
  /\ Write(0, {})
  /\ regular' = (regular /\ continue_to.function = Innermost
                         /\ continue_to.locals = Live(Current))
  /\ UNCHANGED <<blocks, breakpoints, continue_to>>

RejectJump ==
  \/ blocks = <<>> /\ Reject("sai")
  \/ continue_to.to = -1 /\ Reject("salta")

-----------------------------------------------------------------------------
(* Functions and classes.                                                  *)

(* parser_parse_function_paramenters_and_body, up to the statements of the *)
(* body, a block inside the scope of the parameters.                       *)
WithParameters(f, ps, decl) ==
  [BeginScope(BeginScope(f)) EXCEPT
     !.locals = @ \o [i \in DOMAIN ps |-> Local(ps[i], 1, decl + i)]]

(* ... and from there on: parser_end_function compiles a return, and the   *)
(* function that encloses it creates the closure.                          *)
ReturnNothing(f) ==
  <<IF f.kind = "Method_Initializer"
    THEN Instruction("Copy_From_Idx", 0, f.locals[1].decl, Nothing)
    ELSE Push("Push_Nil", Nothing),
    Do("Return")>>

Compiled(f, arity) ==
  [code |-> f.code \o ReturnNothing(f), outsiders |-> f.outsiders, kind |-> f.kind,
   parameters |-> [i \in 1..arity+1 |-> f.locals[i].decl]]

ParameterLists == {<<>>} \cup {<<n>> : n \in Expected.names}

(* parser_parse_declaration_function.                                      *)
BeginFunction(n, ps) ==
  LET local == Current.depth > 0
      decl  == IF local THEN NewDecl ELSE Nothing
      f     == IF local THEN Declare(Current, n, Current.depth, decl) ELSE Current
  IN  /\ MayStart(IF ps = <<>> THEN "funson" ELSE "funson(name)") /\ ~Refused(Current, n)
      /\ Begin([kind |-> "function", type |-> "Function", name |-> n, decl |-> decl,
                height |-> Len(Current.locals), arity |-> Len(ps), done |-> FALSE])
      /\ functions' = Append([functions EXCEPT ![Innermost] = f],
                             WithParameters(NewFunction("Function", Nothing), ps, NewDecl))
      /\ Write(1 + Len(ps), {n} \cup ToSet(ps))
      /\ regular' = (regular /\ ~(local /\ InBare) /\ ~Renamed({n} \cup ToSet(ps)))
      /\ UNCHANGED <<blocks, breakpoints, continue_to, compiled>>

Closure(decl, height) ==
  [Instruction("Push_Closure", Len(compiled) + 1, Nothing, decl) EXCEPT !.height = height]

EndOfFunction ==
  LET c == Last(open)
      f == functions[Innermost - 1]
      code == <<Closure(c.decl, c.height)>>
              \o (IF f.depth = 0 THEN <<Operand("Define_Global", c.name)>> ELSE <<>>)
  IN  /\ Ending("function")
      /\ compiled' = Append(compiled, Compiled(EndScope(Current), c.arity))
      /\ functions' = [Front(functions) EXCEPT ![Innermost - 1] = Emit(f, code)]
      /\ UNCHANGED <<blocks, breakpoints, continue_to, regular>>

(* parser_instruction_return.                                              *)
Return(e) == Current.kind \in {"Function", "Method"} /\ Value("divolvi_name", e, <<Do("Return")>>)

(* Without a value its ';' is left to the next statement, which takes it   *)
(* for an expression and wants another, `divolvi;;`: an instruction that   *)
(* pops.  As a branch or body it ends there, and that statement comes after*)
(* the ones it is the branch or body of.                                   *)
ReturnEarly ==
  /\ Current.kind # "Script"
  /\ Simple("divolvi", [functions |-> functions,
                        code |-> ReturnNothing(Current) \o (IF InBare THEN <<>> ELSE <<Do("Pop")>>)])
  /\ written' = [written EXCEPT !.statements = @ + 1, !.semicolon = InBare]
  /\ regular' = (regular /\ ~InBare)
  /\ UNCHANGED <<blocks, breakpoints, continue_to>>

EmptyStatement ==
  /\ status = "parsing" /\ written.semicolon
  /\ ~InBare
  /\ functions' = [functions EXCEPT ![Innermost] = Statement(Emit(@, <<Do("Pop")>>))]
  /\ open' = Ended(open)
  /\ written' = [written EXCEPT !.semicolon = FALSE]
  /\ regular' = FALSE
  /\ UNCHANGED <<blocks, breakpoints, continue_to, compiled, status, dialect>>

RejectReturn == Reject("divolvi") \/ (Current.kind \notin {"Function", "Method"} /\ Reject("divolvi_name"))

(* parser_parse_declaration_class.  The superclass is a local no identifier*)
(* names; the class that receives the methods is not a local.              *)
Superclassed(p, n, s, decl) ==
  LET fs == [p.functions EXCEPT ![Innermost] =
               Declare(BeginScope(Emit(@, p.code)), Superclass(s), @.depth + 1, decl)]
  IN  Doing(Reading(Nothing_(fs), n, Nothing), Do("Inheritance"))

WithSuperclass(fs, n, s, decl) ==
  IF s = NoName THEN Nothing_(fs)
  ELSE Superclassed(Reading(Nothing_(fs), s, decl), n, s, decl)

Classed(p) == [p.functions EXCEPT ![Innermost] = Statement(Emit(@, p.code))]

BeginClass(n, s) ==
  LET local == Current.depth > 0
      class == Instruction("Class", n, Nothing, IF local THEN NewDecl ELSE Nothing)
      f  == IF local THEN Declare(Emit(Current, <<class>>), n, Current.depth, NewDecl)
            ELSE Emit(Current, <<class, Operand("Define_Global", n)>>)
  IN  /\ MayStart(IF s = NoName THEN "klasi" ELSE "klasi:name") /\ ~Refused(Current, n)
      /\ s # n /\ (s # NoName => Len(f.locals) < MaxLocals)
      /\ Begin([kind |-> "class", type |-> "Class", superclass |-> s # NoName,
                inherits |-> s, done |-> FALSE])
      /\ functions' = Classed(Reading(WithSuperclass([functions EXCEPT ![Innermost] = f], n, s, NewDecl + 1),
                                      n, Nothing))
      /\ written' = [statements |-> written.statements + 1, declarations |-> written.declarations + 2,
                     semicolon |-> FALSE,
                     classes |-> written.classes \cup {n},
                     superclasses |-> written.superclasses \cup ({s} \ {NoName}),
                     varying |-> written.varying \cup ({n} \cap written.classes)]
      /\ regular' = (regular /\ ~(local /\ InBare) /\ ~Renamed({n}) /\ s \notin written.varying)
      /\ UNCHANGED <<blocks, breakpoints, continue_to, compiled>>

BeginMethod(kind, m, ps) ==
  /\ MayWrite(IF ps = <<>> THEN kind ELSE "Method(name)")
  /\ open # <<>> /\ Last(open).kind = "class"
  /\ Begin([kind |-> "method", type |-> "Function", arity |-> Len(ps),
            name |-> IF kind = "Method" THEN m ELSE "konstrutor", done |-> FALSE])
  /\ functions' = Append(functions, WithParameters(NewFunction(kind, NewDecl), ps, NewDecl))
  /\ Write(1 + Len(ps), ToSet(ps))
  /\ regular' = (regular /\ ~Renamed(ToSet(ps)))
  /\ UNCHANGED <<blocks, breakpoints, continue_to, compiled>>

EndOfMethod ==
  /\ Ending("method")
  /\ compiled' = Append(compiled, Compiled(EndScope(Current), Last(open).arity))
  /\ functions' = [Front(functions) EXCEPT ![Innermost - 1] =
       Emit(@, <<Closure(Nothing, -1), Operand("Method", Last(open).name)>>)]
  /\ UNCHANGED <<blocks, breakpoints, continue_to, regular>>

EndOfClass ==
  LET f == Emit(Current, <<Do("Pop")>>)
  IN  /\ Ending("class")
      /\ Becomes(IF Last(open).superclass THEN EndScope(f) ELSE f)
      /\ UNCHANGED <<blocks, breakpoints, continue_to, compiled, regular>>

(* parser_parse at the end of the source.                                  *)
EndOfFile ==
  /\ status = "parsing" /\ open = <<>>
  /\ compiled' = Append(compiled, Compiled(Current, 0))
  /\ status' = "running"
  /\ functions' = <<>> /\ breakpoints' = <<>>
  /\ UNCHANGED <<blocks, continue_to, open, dialect, written, regular>>

(* A program: what the next tokens may be.                                 *)
Handlers ==
  \/ \E o \in Objects_ :
       \/ PrintValue(Name(o)) \/ Return(Name(o))
       \/ \E m \in Expected.members : CallMember(o, m) \/ \E n \in Expected.names : SetMember(o, m, Name(n))
  \/ \E n \in Expected.names :
       \/ \E kind \in Calls : Call(kind, n)
       \/ \E e \in {Literal} \cup {Name(o) : o \in Expected.names} : DeclareVariable(n, e) \/ AssignName(n, e)
       \/ \E e \in {Form("new()", o, NoName) : o \in Expected.names}
                 \cup {Form("o.m", o, m) : o \in Objects_, m \in Expected.members} : DeclareVariable(n, e)
       \/ \E ps \in ParameterLists : BeginFunction(n, ps)
       \/ \E s \in Expected.names \cup {NoName} : BeginClass(n, s)
  \/ BeginBlock \/ EndOfBlock
  \/ BeginIf \/ EndOfThen \/ ThenElse \/ EndOfElse
  \/ BeginWhile \/ EndOfWhile
  \/ \E n, m \in Expected.names \cup {NoName}, condition \in BOOLEAN :
       BeginFor(n, condition, m)
  \/ EndOfFor
  \/ Break \/ Continue \/ ReturnEarly \/ EmptyStatement
  \/ EndOfFunction
  \/ \E ps \in ParameterLists :
       \/ BeginMethod("Method_Initializer", NoName, ps)
       \/ \E m \in Expected.members : BeginMethod("Method", m, ps)
  \/ EndOfMethod \/ EndOfClass
  \/ RejectDeclaration \/ AbortDeclaration \/ RejectSuperclass \/ RejectJump \/ RejectReturn
  \/ EndOfFile

Parse == status = "parsing" /\ Handlers

=============================================================================
