# Kriolu in TLA+

Kriolu is a bytecode interpreter written in C: a lexer and a single-pass
compiler turn one source file into functions, a stack machine runs them, and a
mark and sweep collector reclaims what they allocate. This directory models the
parts whose correctness depends on the history of the run, checks the models
with TLC and proves properties of them with TLAPS.

Everything runs on one thread. What interleaves is the program with the
collector, which any allocation may start; closures with the frames whose
variables they captured; writes, deletions and growth in one table.

## Inventory

| Component | State | Operations | What is hard about it | Model |
|---|---|---|---|---|
| Lexer (`lexer.c`) | position, line, open templates | next token | templates inside templates; lines counted in two places; strings that do not end | `Lexer` |
| Compiler, expressions (`parser.c`) | the tokens left, the code so far | parse by precedence and emit | what a loop over operators stops at; assignments; jumps of `e` and `ou` | `Expressions` |
| Compiler, scopes (`parser.c`, `stack_local.c`, `array_outsider.c`) | functions being compiled, their locals and outsiders | declare, resolve, begin and end scopes | compile-time slots must match the run-time stack; capture through several functions | `Compiler` |
| Compiler, control flow (`parser.c`, `stack_block.c`, `stack_break.c`) | blocks, break points, `continue_jump_to` | if, while, for, `sai`, `salta`, return | jumps patched later, in the bytecode of whichever function is current | `Compiler` |
| Bytecode (`bytecode.c`, `instruction.c`, `line_number.c`) | bytes, lines, constants, places of statements | emit, patch, read back | one-byte and three-byte indices, 16-bit offsets, arrays in step | `Bytecode` |
| Calls (`virtual_machine.c`, `stack_function_call.c`) | value stack, call stack | call a closure, method, class or native function; return; runtime error | limits of two stacks; errors half way | `Machine` |
| Classes (`virtual_machine.c`, `object.c`) | methods and fields, tables of class and instance | define, inherit, get, set, bind | copying tables; a field that shadows a method | `Machine` |
| Operators and globals (`virtual_machine.c`, `value.c`) | value stack, globals | arithmetic, comparison, jumps | which operand is which; errors | `Evaluation` |
| Captured variables (`virtual_machine.c`) | value stack, frames, `vm->heap_values`, every `ObjectValue` | capture, assign, end of scope, call, return | the same variable seen through a stack slot and through cells, while slots are reused | `OpenValues` |
| Hash table (`hash_table.c`) | `items`, `capacity`, `count` | set, get, lookup by characters, delete, grow, copy, free | open addressing with tombstones; the load counter is the only thing that ends a probe loop | `HashTable` |
| Interning (`object.c`, `memory.c`) | `vm->string_database` | find or allocate a string; sweep | strings are equal only if they are the same object; the table does not keep strings alive | `StringPool` |
| Garbage collector (`memory.c`, `object.c`) | `vm->objects`, marks, `M_Greys`, byte count and threshold | allocate, mark, blacken, sweep | may run inside any allocation, in the compiler too; circular references; unlinking while iterating | `Collector` |
| Syntax tree, debugger, files, command line | | | input and output | not modelled |

The components meet in these places. `main` compiles a file and runs the script
when there was no error. The lexer hands its tokens to the parser one by one.
The compiler and the virtual machine agree on the bytes of an instruction, on
the slot of every local and on the heights of the stack at the targets of jumps.
Every allocation goes through `Memory_allocate`, which may collect. The
collector reads its roots out of the virtual machine and the compiler. Closures
refer to cells that the virtual machine tracks on `vm->heap_values`. The string
database is swept by the collector before the strings are.

What makes each component correct:

- *Lexer*: every token knows the line it is on; a piece of a template goes on
  with the template it belongs to; an error in the source is reported.
- *Compiler*: an expression is the tree its precedences give; the slot of a local
  is where the virtual machine keeps it; a jump lands on an instruction, with the
  height of the stack that holds there.
- *Bytecode*: what is read is what was written.
- *Calls, classes*: the frame of a call starts at its callee; a method found
  through a subclass is the nearest one and runs on an instance of its class.
- *Captured variables*: a variable is one variable, however many closures share
  it and whether its slot still exists.
- *Hash table*: it is a finite map; a probe always ends; a counter that is never
  decremented by a deletion still covers the buckets in use.
- *Interning*: at any time at most one object holds given characters, and it is
  found by them; the table refers to no freed string.
- *Collector*: nothing reachable is freed, everything else is, and the list of
  objects is the heap.

`PROJECT.json` lists the hazards, each at its line with the properties about it.

## Modules

    HashEntries      the array of buckets and the searches in it; no state
    HashTable        one table (EXTENDS HashEntries)
    KeyValueMap      abstract: a finite map with answers
    StringPool       interning and the sweep of strings (EXTENDS HashTable)
    SharedVariables  abstract: variables shared by closures
    OpenValues       stack, frames, cells and the list of open ones
    Collector        the heap, the program that uses it, mark and sweep
    Lexer            characters to tokens
    Expressions      the parser of expressions, as recursive functions
    Grouping         what an expression means: its tree, code and value
    Evaluation       an expression from tokens to value (EXTENDS Grouping)
    Compiler         statements, declarations, scopes, captures and jumps
    Machine          the interpreter loop on that code (EXTENDS Compiler)
    Program          compilation, then the run (EXTENDS Machine)
    Bytecode         one function's code as bytes, written and read back
    MC...            instances for TLC
    NaturalExtremes, HashTableProofs (of both tables),
    CollectorProofs, OpenValuesProofs,
    BytecodeProofs, LexerProofs,
    CompilerProofs, ProgramProofs
                     theorems

### HashEntries, HashTable

A key is an interned string, so comparing pointers and comparing characters are
one test. `Hash` is a constant function: collisions are chosen by the instance.
`Slot(k, cap, n)` is the n-th bucket of a probe; `Distance` the first place
where a probe stops, `Probing` what `hash_table_probing` returns,
`FindEntry` what `hash_table_find_entry_by_key` returns, `HasKey` whether
`hash_table_get_key` finds anything.

Each action of `HashTable` is one call, but growth is taken bucket by bucket
(`BeginGrow`, `Rehash`, `Put`), because the counter and the new array are out of
step meanwhile. `hash_table_set_value` checks the load before it searches, so a
write to a full table grows it even if the key is there. `GetValue` and `Delete`
use `FindEntry`, as the code does: they stop at a tombstone in the home bucket.
`reply` records the last answer, which is what `KeyValueMap` constrains.

With deletions the table is *not* a map: `FindEntry` overlooks a key behind a
tombstone in its home bucket, so `hash_table_get_value` may miss it and
`hash_table_set_value` store it a second time. The copy left behind comes back
into reach: with k2 at its home 3 and k1, of the same home, at 4, delete k2,
write k1 (at 3), delete k1, write k2 (at 3), and k1 is found again at 4 though
nothing was written to it. So what is said of writes and deletions is about the
search that follows at once: `LastWriteVisible`, that it answers with the entry
just written, key and value, and not with a copy, and that the search by
characters finds the key too; `DeletedIsGone`, that it does not find the key just
deleted. No property covers what a copy does later. The interpreter's tables read by
key (globals, fields, methods) are never deleted from, but for the deletion in
`OpCode_Assign_Global` just before the run ends, so the map is claimed for
tables without deletions (`Deletable = {}`) and weaker properties for tables
with them.

### StringPool

`alive` holds the strings for which an object is allocated. `FindString` and
`NewString` are the two outcomes of `ObjectString_allocate`; `BeginSweep`,
`SweepBucket` and `FreeStrings` the part of a collection that concerns strings,
with any set of marked ones. A collection that starts inside
`ObjectString_allocate` (the allocation of the object, of its characters, of a
larger array) finds the new string on the stack and not in the table, and
happens before the array's counter is reset; its effect is that of a collection
just before the call, which is where the model has it. Once the table refers to
a freed string the next operation on it reads freed memory: the model stops
there (`Dangling`).

### OpenValues, SharedVariables

Each action is one instruction: `Capture` is one captured variable of
`OpCode_Stack_Push_Closure`, with `create_heap_value`; `EndCapturedLocal` is
`OpCode_Stack_Move_Value_To_Heap`; `Return` is `OpCode_Return`, both with
`move_value_from_stack_to_heap`. The values of popped slots stay in `slots`, as
they do in the C array, so a cell left behind sees them. `captured` is the set of
slots whose variable the compiler marked `LocalAction_Move_Heap`: such a slot is
never popped by `OpCode_Stack_Pop`, a call's frame never starts below one of its
caller's, and the result of a call is a temporary. These three guards are the
compiler's part of the contract; that the compiler keeps it for regular programs
is `CapturedAreOnTheStack` and `RegularStatementsLeaveNoValue` of `Program`.
The end of the script is the end of the run, so deadlock is not an error here.

`SharedVariables` is what closures promise: a stack of variables and handles
bound to them; a variable that leaves the stack lives on in its handle.

`Inserted` is what the code does: the new cell goes behind the cell *after* the
one where the walk stopped, or to the front when there is none. With at most one
other open variable, lower on the stack, that is the right order; otherwise it
is not. For example, with slots 1 and 2 open, capturing slot 3 lists them as
2, 1, 3: when slot 3 is popped nothing is moved, its cell goes on pointing at the
popped slot, the next value pushed there is what the closure reads, and a second
capture of slot 3 makes a second cell. So there are two specifications: `Spec`
lets variables be captured in any order and is used for what survives a wrong
order; `PairwiseSpec` allows a new capture only while the list is empty or holds
one lower cell, and implements `SharedVariables`. That limit is the code's own:
the runs of `PairwiseSpec` are exactly those in which every capture leaves the
highest slot first (`HighestFirst`, what tests/parser/closures.k:113 expects;
`PairwiseIsOrdered` proves it). The compiler ensures no such limit. Three
captures from the bottom up, or two from the top down, put the list out of
order, and nothing is claimed of sharing in such a run: checked as an invariant
of `Spec`, `HighestFirst` is violated in four states.

### Collector

Objects are numbered in the order of allocation. `refs` is what
`Memory_blacken_objects` would mark from an object, `roots` what
`Memory_mark_roots` would mark from each of its sources. The program may do
anything that keeps to what it can reach, in any order: allocate and store an
object, push and pop roots, store and clear references, intern a string.
`MarkRoots` may come between any two of these steps, which stands for a
collection inside the allocation that follows. Compiling a function is taken in
two steps (`BeginFunction`, `NameFunction`), since a collection may come
between; `held` is the function only a C variable refers to.

The sweep is taken object by object. The iterator of `LinkedList_foreach` reads
`curr->next` after the body, so after `Object_free(curr)`: `FreeObject` lets it
read what was there or ends in phase `lost`, and so does a write to the link of
a freed object. Nothing is claimed about a run that is lost; what is claimed
holds of every run up to there.

Which source marks an object and which grey object is popped first make no
difference to the marks; the six sources are a constant. Not in the model: the
byte count (a collection may start at any time), the array of cells that
`ObjectClosure_allocate` pushes as if it were an object, and `Object_free` on a
class, which reads the class after freeing it.

### Compiler, Machine, Program

The compiler works in one pass: parsing a statement emits its instructions. So a
program is not an input here: each step of `Compiler` parses *some* next
statement, and the recursive descent is the sequence `open` of the handlers that
have begun and not ended. There is an action for the beginning and the end of
every handler: `BeginBlock` and `EndOfBlock`, `BeginIf`, `EndOfThen`, `ThenElse` and
`EndOfElse`, `BeginWhile`, `BeginFor` (with its three clauses) and their ends,
`BeginFunction`, `BeginClass`, `BeginMethod`; the statements without parts, as
`DeclareVariable`, `Break`, `Continue`, `Return` or `CallMember`, are one. A
function being compiled is a record: `locals` is its `StackLocal`, `outsiders`
its `ArrayOutsider`, `code` its bytecode, one element for an instruction. An
instruction carries, besides its operand, which variable the source means
(`of`): what the model knows and the code does not, for the properties to
compare. The properties also need the number of locals at each statement
(`height`).

`Machine` runs that code, one action for each group of opcodes: values, locals,
captured variables, globals, jumps, the kinds of call (`CallValue` with the
closure, method, class and native callee), members and inheritance, return and
runtime errors. What a condition evaluates to is left open, so both branches
run. A read of a slot, cell or member that is not there is undefined behaviour
in C; the run then has status `undefined`, and an assertion that fails gives
`aborted`, in the compiler too: `StackLocal_push` asserts that there is room, and
the copy a for loop makes of its variable, a function, a class or a superclass is
pushed without it (`AbortDeclaration`).

Captured variables are kept on the list that the code keeps (`heap_values`, as in
`OpenValues`): `HeapValue` walks it, stops where the code stops and inserts where
the code inserts, `MoveToHeap` takes cells off its head only. The list is out of
order in programs that have nothing wrong otherwise. In

    funson a() { mimoria b = 1; funson a() { imprimi a; divolvi b; } } a();

the inner function captures the slot of its own name before that of `b`, which
is below it. The list then is lower, upper; the end of the scope of the upper one
moves nothing, and its cell stays above the top. A history variable, `ordered`,
remembers whether every capture so far left the highest slot first. It is true in
the runs with at most two open variables, the lower captured first, over any
number of calls, loops and scopes one after another, and false from the first
capture that breaks the order. The properties about captured variables and what
follows from them (`NamesDenoteTheirVariables`, `RunsAreDefined`,
`CapturedAreOnTheStack`, `MethodsAreInherited`, `MethodsRunOnInstances`) are about
runs in which it is true; the others go on, with whatever their cells point at.
Without `ordered`, TLC finds `CapturedAreOnTheStack` violated by the program above
in seventeen states.

`divolvi` without a value does not consume its semicolon, which is parsed as an
expression statement of its own, with a pop but no value. In a block it is
behind the return and never runs. As the branch of `si` or the body of a loop it
is compiled after the branch (`written.semicolon`, `EmptyStatement`), and the pop
runs on the way past it.

`Program` puts the two together as `main` does. Its instance is a set of
dialects: which kinds of statements and names the first, the second, ...
statement may have, so that programs long enough to capture a variable of an
ended call, or to inherit a method and call it, stay checkable.

The compiler gets some programs wrong. `regular` (in `Compiler`, with the line
of each) becomes false when one of these constructs is parsed:

- `sai` where other locals are live than at the end of its block, or in a
  function nested in the block (its jump is patched in another function's code);
- `salta` where other locals are live than at the increment, or in a nested
  function (it jumps to an offset of its parent's code);
- a bare declaration as a branch or body;
- `divolvi;` as a branch or body, whose semicolon pops a value behind it;
- `mimoria a = a` for a local, which reads the local being declared, and
  `mimoria m = super.m`, where the member has its name;
- `pa` without increment, whose loop jumps to the offset -1;
- a superclass's method with the name of a local variable, whose slot becomes the
  operand; a superclass whose name anything but one class declares or assigns,
  before or later; an identifier that only begins with the superclass's name, or
  names the superclass of an enclosing class, which is taken for the class's own.

The properties about slots, captures, jumps and methods are about regular
programs; the others run too, into whatever they do. A local class, for example,
declared where `sai` left a value behind, is looked for in the slot below its own:
if that holds a class with methods, they are overwritten by the superclass's.

### Expressions, Grouping, Evaluation

`Expressions` is `parser_parse_expression` with the handlers of operands and
operators: from a sequence of tokens to code, or to an error. `Grouping` says
what should come out without a parser: the operator applied last is found from
the precedences alone (`Grouped`), the tree has a code (`CodeOf`) and a value
(`Evaluated`). `Evaluation` writes sources token by token, compiles them and runs
the code instruction by instruction, with errors. Arithmetic is a parameter; the
instance takes one in which no operators and no orders of operands agree. Two
families of malformed sources the parser accepts are excepted from
`ParsedAsGrouped`: a missing operand, and an assignment to a call.

### Bytecode

One function's code as the bytes it is. A byte remembers whether it was written
as an opcode, so that a run that takes one for the other is seen (`misread`).
The actions are the `Bytecode_insert_instruction_...` functions with the callers
that decide how an operand is made: an index is one byte or three, unchecked,
checked or cut. `emitted` is what the compiler meant. `Step` follows both ways of
a conditional jump. `Radix`, 256 in the code, is 3 in the instance, so that a
function of five instructions gets past the first index that needs the long
form.

`AllFit` says that operands fit: the code past 256 constants, or with jumps of
more than 65535 bytes, is compiled wrongly in ways that the model has too. A
global whose index does not fit is read by the index cut to a byte, so by
another name; `uint8_t identifier_index` is compared with -1 (parser.c:1483), so
"Too many constants." is never reported for a method; the long form of a closure
is written without the locations the interpreter then reads.

### Lexer

A character is its class; `source` is written first, character by character, and
then scanned: an action for strings, for the brace that continues a template,
for every other token and for the end. `Enclosing` says independently what
encloses every character of a source. `{` inside an expression of a template is
not counted, so the first `}` ends it (lexer.c:105); a string that does not end
leads past the NUL, after its error (status `outside`). The interpolation depth,
8 in the code, is 2 in the instance.

## Runs

| Run | Shows | Bounds |
|---|---|---|
| `table_as_map` | no deletions: the table implements `KeyValueMap` | 4 keys, 2 values, arrays of 4 and 8 |
| `table_with_deletes` | deletions in any order: counter, empty bucket, search by characters; the search right after a write or a deletion | same |
| `string_pool` | allocated strings are found by their characters; a sweep removes no marked string | 4 strings, arrays of 4, 8 and 16 |
| `string_pool_dangling` | *violation*: the table refers to a freed string | same |
| `open_values_list` | the list holds exactly the open cells; variables in scope keep their cells | 4 cells, 6 slots, 1 value |
| `open_values_shared` | `PairwiseSpec` (at most two open variables, the lower captured first) implements `SharedVariables`; no cell above the top | 3 cells, 5 slots, 2 values |
| `collector` | nothing reachable is freed, all garbage is, the list is the heap, collections end | 3 objects, 2 references each, 2 sources |
| `collector_held` | *violation*: a function being compiled is freed | same |
| `program` | statements start on a stack of exactly the locals; jumps are patched; while the list of captured variables is in order, names, captures, inherited methods and receivers are right and nothing is undefined | fourteen dialects, up to 9 statements, 4 names, 4 locals, stack of 7, 8 frames, 3 cells, 2 classes, 2 instances |
| `expressions` | the parser finds the tree the precedences give, emits its code, and the code computes its value | all sequences of up to 5 or 6 tokens of four alphabets, two patterns of 7 and 8 |
| `bytecode` | reads match writes; errors name their line; the disassembler keeps in step and finds statements | bytes of 3 values, 5 instructions |
| `lexer` | lines, pieces of templates, errors | sources of 4 or 5 characters of three alphabets; templates in templates, 13 characters, depth 2 |

Why the bounds are enough. A table of four buckets with three keys of one home
bucket, the last, has every case of a probe: collision, wrap around, tombstones
before and after the key, an overload with and without the key present; the
first array is of 4 instead of 8 buckets, and `GrownCapacity` makes two growths
within the bound. The two values are `nulo`, which makes an entry without key
empty, and `verdadi`, which makes it a tombstone. Six slots hold a script, a
call and three variables between them, four cells allow two captures in each
order with a third inserted among them. Three objects give a chain, a cycle, two
neighbours to free with one before and one after, in any marking. The theorems
below have no bounds.

The dialects of `program` each aim at a combination: a loop in a loop with both
jumps, three scopes of one name, a variable of a call captured by a function that
outlives it, one captured through a function between, one of an iteration of a
loop, a function at the limit of locals, returns from branches and bodies in each
other, a class with a method of each kind, a
class that inherits and overrides, local classes with members named like
variables, a captured variable in a scope that `sai` leaves, a superclass behind
a name that begins like its own or that was assigned before, the native function
in every place of a callee. The stack of 7 holds
two calls and their locals, and lets recursion overflow; as in the code (256 slots,
16384 frames) there are more frames than a stack has room for. The run has about
700 000 states. In bytes of three
values, two-byte offsets reach 8 and are exceeded by five instructions, and the
three bytes of the fourth constant's index differ from one another's order.
Thirteen characters hold two templates in each other, both continued. A run
stops when the program or the source ends, so deadlock is not an error in the
runs that end.

Fairness is assumed in one place: `FairSpec` says that a collection under way
goes on (weak fairness of `Collect` outside phase `program`). One thread runs
`Memory_collect_garbage` from beginning to end, so this is what the code does.
No other property needs fairness.

`PROJECT.json` gives for every property a plausible bug of the code (a mutant of
a definition) under which the run finds the property violated.

## Findings

Two runs show a violation of what the repository says of itself:

- `memory.c:246`: a tombstone hides a string from the sweep of the string
  database, which then refers to freed memory (`string_pool_dangling`).
- `parser.c:2636`: the function being compiled is not rooted while its name is
  interned (`collector_held`).

Others were met while modelling. The models behave as the code does, and the
properties say where they do not apply:

- `virtual_machine.c:1049`, `1063`: the list of open variables is not ordered, and
  cells leave it from its head only (`OpenValues`, and `ordered` in `Machine`).
- `hash_table.c:175`: a key may get a second entry (`HashTable`, above).
- `memory.c:259`: the sweep writes to and advances from freed objects (`Collector`,
  phase `lost`).
- `parser.c:787`, `1173`, `1091`, `1213`, `1916`, `1941` and the others of `regular`.
- `parser.c:1043`: the limit of locals is an assertion where a for loop copies its
  variable.
- `parser.c:1483` and the other indices past a byte, `bytecode.c:156`
  (`Bytecode`, `AllFit`).
- `virtual_machine.c:265`, `280`, `340`: calling by name, or inheriting from,
  what is no object (`Unchecked`).
- `lexer.c:105`, `674`.

## Proofs

All theorems are about the specifications the runs check, for every value of
their constants under the named assumptions (`KeysAssumption`,
`CapacityAssumption`, `PoolAssumption`, `BoundAssumption`, `StackAssumption`,
`BytecodeAssumption`, `LexerAssumption`, `DialectsAssumption`: a source is made of
characters, the NUL only behind it; `CompilerAssumption`, `MachineAssumption`: the
names of a dialect are names, a function has room for two locals, the stack for
one slot).

- `HashTableProofs`: types; the load counter covers the buckets in use; every
  array has an empty bucket. None of the three is inductive alone. Their
  conjunction with "the load is within the limit, for both arrays" is: the
  counter bounds the used buckets, the load check keeps the counter below
  three quarters, so a bucket is empty; the empty bucket bounds the probe, so the
  write lands in the array.
  With deletions, `SearchInv` adds that no bucket between a key's home and any
  place it is at is empty, and that of the buckets away from home only one ever
  holds a key. The first is kept because a deletion leaves a tombstone and never
  an empty bucket. The second is why a second copy of a key does no harm: a
  search that stops too early stops at a tombstone in the home bucket, so the
  copy it makes is at home and comes before the stale one in every probe. So a
  stored key is found by its characters; the search that follows a write answers
  with the entry written; the one that follows a deletion misses the key.
  A table without deletions implements `KeyValueMap`. The
  invariant says that there are no tombstones, that no key sits in two buckets,
  that every bucket between a key's home and its place is full, and, while the
  array grows, that the new array holds what was moved. A search then ends at the
  key if it is stored, and at an empty bucket if it is not.
  `StringPool`: types; no two allocated strings have the same characters; a
  sweep takes no marked string out. `PoolInv` adds to `SearchInv` where the strings
  in use are: between operations every allocated one is in the table; while the
  array grows, in the new array, ahead of the copying or about to be put; during a
  sweep every marked one is still there.
- `CollectorProofs`: types; nothing reachable is freed; between collections the
  list is the heap; a finished collection leaves no garbage. The invariant
  follows the phases. While marking: what is marked is reachable, and what is
  marked and no longer grey has had its references marked; at the end the marked
  objects contain the roots and are closed under references, and reachability is
  the least such set. While sweeping: what is ahead of the iterator is marked
  exactly if reachable, what is behind is unmarked and reachable, and the list
  links every allocated object to the newest before it, the object being
  unlinked included.
- `OpenValuesProofs`: types; the list of open cells holds exactly the cells that
  point into the stack, each once; no step detaches a cell of a variable that
  stays in scope. Captures come in any order and the list need not be sorted
  (it is not): the cells that leave the list are a prefix of it
  whatever its order, an insertion after `next` drops nothing, and a new cell is
  on no list. The types need the list (a moved value is read from the slot its
  cell points to) and "each call starts above its caller": a return pops the
  stack to just above the frame below.
  Under `PairwiseSpec` the list is ordered from the top down (`SharingInv`), so
  the prefix that leaves it is every cell of the slots that are popped, and a
  capture finds the cell of its slot if there is one. With these two facts every
  step of the stack and its cells is a step of `SharedVariables`, or none.
  `PairwiseIsOrdered` says what the restriction to `PairwiseSpec` excludes: in a
  run in which every capture leaves the list ordered at most two variables are
  open at a time (`AtMostTwo`), since a third cell, wherever its slot, is never
  inserted where it belongs.
- `BytecodeProofs`: types; what is emitted is what is run, what an error names and
  what is disassembled; the statement shown above an instruction. `CodeInv` says that the bytes are the emitted
  instructions laid end to end, each as wide as its form, that a jump not patched
  yet is one the compiler still holds, and that the interpreter is at the start
  of an instruction. The last part needs the first: a jump lands where an
  instruction starts because its operand was the length of the code when it was
  patched. That the operand bytes hold the operand needs `AllFit`; a long index
  of a closure had no bound there, which no instance with few constants shows:
  it must fit three bytes, as the others do. The binary search for a statement
  (`SearchIs`, `SearchFinds`) needs the statements in order, which they are because
  code only grows and one is remembered before the next begins (`InOrder`). The
  equations of the recursion and its result are proved from a narrowest range
  without them.
- `LexerProofs`: types; the line of every token; pieces of templates; errors. `LexerInv` says that the line
  counted is that of the character to scan next. A token other than a piece of a
  string has no newline in it (`PlainIs`), and the loop of a piece counts those
  after its first character. Templates stay within their bound because a piece
  opens one only when there is room, and a brace inside a template always closes
  it (`ClosingContinues`).
  `Understood` compares the lexer with `Enclosing`: while there was no error and no
  braces were in an expression, what encloses the character to scan next is the
  code or the expressions of exactly as many templates as are open, with a
  comment at most in between (`Aligned`), every token so far is a construct of the
  source (`Proper`), and an error was reported exactly if one was passed. One
  lemma per kind of token (`StringIsSound`, `RestIsSound`, `CommentIsSound`,
  `PlainIsSound`) shows that a token that starts so ends so. What encloses a
  character is defined by a recursive function; that it has a solution is proved
  with a least counterexample (`EnclosedIs`).

- `CompilerProofs`, `ProgramProofs`: types; in regular programs each jump was told where to go. The
  two rest on one invariant, `Inv`, whose parts are proved handler by handler and
  instruction by instruction, for programs of any length and nesting.
  *Compiling* (`CompilerInv`). The parser's state is flat, four stacks and a
  register: functions, blocks, breakpoints, open statements, `continue_to`. What
  holds together is what they say of one another, and for that `in` gives each
  open statement the number of functions and blocks it is in, its depth and the
  target of its `salta` (`Nested`). So a statement ends in the function it began in
  and at the depth it began at, the end of a block takes the
  breakpoints of that block and no other (`BreakpointsOK`), and the operand a
  statement remembered is still a jump of that function, since code only grows
  (`Longer`). Targets are lengths the code once had, so they are in it or just
  behind it, and never between a method's closure and the instruction that adds it
  to its class (`Target`): no statement begins there. That part is not about any
  property of the compiler; the machine needs it.
  A regular program leaves no jump behind (`Regularly`): one without a target is
  held by an open statement or by a breakpoint whose block is open (`AllHeld`), and
  whoever holds it patches it. An irregular one may patch a jump of one function
  in the code of another (`parser.c:1173` and the others under Findings); there
  the invariant keeps the types only (`ParserBroken`).
  *Running* (`MachineInv`). There is a set of values, `vs`, that has all that is on the
  stack, in cells, fields and globals and in bound methods, and in which every
  closure has a compiled function and a cell for each variable it captures, every
  instance a class, and every entry of the list of captured variables a cell; of
  the order of that list nothing is proved here. An instruction moves values of `vs` about or adds one; arguments
  are copied without their number being asked, a return may leave the stack of
  another function, and none of that matters. `Method` writes into the class
  below the closure on top: that it *is* a closure needs the shape of the code
  above. That a captured place exists is `FitIn`: a variable that a function
  captures from what the one around it has captured is among those.

`NaturalExtremes` has the lemmas about least and greatest elements that probes,
scanning and the list rest on.

Only model-checked: what depends on fairness (`CollectionEnds`);
of `Program`, what compares the slots of the compiler with those of the run
(`RegularStatementsLeaveNoValue`, `NamesDenoteTheirVariables`,
`CapturedAreOnTheStack`, `RunsAreDefined`) and what is said of classes
(`MethodsAreInherited`, `MethodsRunOnInstances`), which are next in the plan; and
`Evaluation`. `Expressions` and `Grouping` are recursive operators over sequences
of tokens, about which induction is out of the prover's reach.

## Not modelled

- String interpolation beyond the lexer: `OpCode_Interpolation` is not
  implemented by the virtual machine, and the parser's counters only serve it.
- The syntax tree (`expression.c`, `statement.c`): built beside the bytecode and
  only printed.
- The byte count of `memory.c`: a collection may start at any allocation, which
  covers every count. That the count drifts from what is held (`hash_table_free`
  gives back `count` entries of `capacity`) changes when collections start.
- The layout of objects: the array of cells that `ObjectClosure_allocate` pushes
  as if it were an object, and `Object_free` on a class.
- Keywords, number formatting, the text of errors and of the disassembly; the
  debugger, the command line and the reading of files.
- The containers of `codebase/`: the linked list is in `OpenValues` and
  `Collector` where its order and its iterator matter; stacks and dynamic arrays
  are sequences.

## Plan

1. Slots of the compiler: that the locals of a regular function are what its
   code leaves on the stack (`RegularStatementsLeaveNoValue`), by an assignment of
   heights to the places of the code that every instruction and every patched
   jump agrees with, added to `CodeOK`. This part needs no order of the list.
2. That captured variables leave the stack in time and that names denote their
   variables: the same with the variables at each place instead of their number, and the
   order of the list (`ordered`) as `SharingInv` has it in `OpenValuesProofs`.
3. Methods: that a class answers as the nearest that declares a method, from 1
   and the order in which classes are created.
