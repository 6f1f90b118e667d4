# Chapman in TLA+

Chapman is a small programming language: a compiler (`src/compiler`) turns
source text into bytecode, a virtual machine (`src/vm`) executes it, and a host
program written in C calls both through `src/vm/chapman.h`. This directory holds
TLA+ modules of the tokenizer, the compiler, the emitter, the machine and its
tables, the configurations that check them
with TLC, and proofs checked by TLAPS. Paths in the modules and below are
relative to the repository; `vm.c:53` means `src/vm/vm.c`, line 53.

To check a run: `tlc -config MCVM.cfg MCVM.tla`. To check the proofs:
`tlapm UpvaluesProofs.tla`, and the same for `MemoryProofs`, `VMProofs`,
`TableProofs`, `HashTableProofs`, `InterningProofs`, `EmitterProofs` and
`TokenizerProofs`.

## 1. The system

Everything is sequential: one thread, no callbacks from outside, nothing
persisted. What makes the code hard is not concurrency but *agreement at a
distance*: the compiler decides, before anything runs, in which cell a variable
will be; the machine finds out when it runs. And it is *sharing*: a variable that
a closure captures lives first on the stack, then on the heap, and everyone who
uses it must follow. And it is *failing half-way*: a handler that meets an error
sets `context->exit` and goes on to its end.

| component | state | operations | talks to |
|---|---|---|---|
| value stack (`stack.c`) | a block of cells, a size | push, pop, copy, popn, seekto, set, get, peek | the VM, the natives, the host |
| upvalues (`vm.c:53-85`, `object.c`) | every `ch_upvalue`; the list `open_upvalues` | capture, close, read and write through the pointer | pointers into the stack's block |
| virtual machine (`vm.c`) | program counter, stack, call stack, upvalues, globals, `exit`, return value | one handler for each opcode of `ops.h` | all of the above |
| host interface (`chapman.c`), natives (`natives.c`, `type_check.c`) | -- | addnative, push, pop, runfunction; size, substring, contains | stack, globals, `exit` |
| values and objects (`primitive.c`, `object.c`) | strings, functions, closures, natives | truthiness, concatenation, substring; interning | the table of strings |
| compiler (`compiler.c`) | two tokens, the chain of scopes, panic and error flags | one function for each construct; error recovery | tokenizer, emitter |
| emitter (`emit.c`) | a chain of blobs, the functions' bytecode, the data section | write, patch, commit, assemble | the compiler |
| tokenizer (`token.c`) | a position in the text | next | the compiler |
| hash table (`table.c`, `hash.c`) | entries, with tombstones | set, get, delete, find_string | globals, interned strings |
| disassembler, command line, example `ask` | -- | printing; a host with two natives | the host interface |

What makes each of them correct:

- **stack** -- an access through an accepted address stays inside the block.
- **upvalues** -- whoever captured a variable, and the function that declared
  it, see one variable, at any time; nothing points to a cell that is reused.
- **virtual machine** -- frames nest, bounded in number; a return leaves nothing
  of its frame behind; after `exit` is set nothing executes.
- **compiler** -- what it accepts is well formed: jumps land, upvalue indices
  resolve, braces balance; its count of a function's cells is the machine's.
- **both together** -- a function touches no variable of its callers but through
  an upvalue; the entry function returns, with the value the source means.
- **host interface** -- the entry function gets the host's arguments, whatever
  the program setup did before; a run that is asked for a name nobody defined
  does not end in success.
- **tokenizer** -- the calls split the text into the longest lexemes, lose
  nothing, count lines, and reach the end without reading far behind it.
- **emitter** -- writes stay in their blocks as long as `realloc` moves none; the machine reads back the strings
  and jump offsets that were written, where it was told to look.
- **hash table, strings** -- every search ends; the table is a map, whatever was
  deleted before; two strings of one content are one object.
- **disassembler** -- the listing has the program's instructions and no others.

PROJECT.json lists under "hazards" where, line by line, each of these could fail.

## 2. The modules

```
Stack ----+--> Upvalues --> MCUpvalues        Boxes (what upvalues promise)
UpvalueList +                                   ^ ImplementsBoxes
          +--> VM --> MCVM
Bytecode -+--> Natives -^
          +--> Compiler + Disassembler --> SourceText --> MCSourceText
               VM --> Balance; Balance + Compiler --> Pipeline --> Claims --> MCPipeline

Table ----+--> HashTable --> MCHashTable      Map (ImplementsMap)
          +--> Interning --> MCInterning      Names (ImplementsNames)
Blob -----+--> Emitter --> MCEmitter
Tokenizer --> MCTokenizer
```

The theorems stand beside the modules they are about, the lemmas of a component
where every user finds them:

```
MemoryProofs (Stack, UpvalueList) --+--> UpvaluesProofs
                                    +--> VMProofs (VM, Balance)
TableProofs (Table) --+--> HashTableProofs
                      +--> InterningProofs
                      +--> EmitterProofs
TokenizerProofs
```

**Stack** (`stack.c`). A record of cells and a size. Each C function that
returns success is a predicate (`CanPush`, `CanCopy`, `AddressOk`) and an
operator for the stack it leaves. Popping leaves the value in its cell, as in
the code: a later read through an address at the top sees it. `AddressOk` keeps
the `<=` of `ADDRESS_OK`.

**UpvalueList** (`vm.c:53-85`). The heap of upvalues and the linked list as a
sequence of indices. `Above` and `AtOrAbove` are the loops: how far they get
from the head. They are written with CHOOSE and not by recursion, so that proofs
can use them.

**Boxes**. The promise, without stack or list: a captured local is a box, shared
and never copied. It models no code. **Upvalues** composes Stack and UpvalueList
with one action for each operation that touches both, under the one rule the
compiler guarantees (`end_scope`: OP_POP only for variables nobody captured,
`PopLocal`'s guard), and states the refinement (`ImplementsBoxes`).

**Bytecode**. Values, instructions, program layout. A program is a sequence of
byte cells: the first byte of an instruction carries the instruction, the rest
are operands, so every offset, jump distance and width is the real one, and a
jump into the middle of an instruction is seen. Literals and names travel in the
instruction; the data section has length zero in compiled programs and two in
MCVM's.

**Natives**. `size`, `substring`, `contains` with the checks of `type_check.c`,
and `write`, `prompt` of `examples/ask`: the stack each leaves, the error it
reports.

**VM** (`vm.c`). Variables: `pc`, `stack`, `calls`, `up`, `globals`, `exit`,
`retval`, as in `ch_context`; `prog`, chosen once; `host`, what the caller is
doing. One action for each handler (`OP_ADD`..`OP_DIV` share `BinaryOp`, as they
share their case; all literals share `PushLiteral`). A handler is one step,
including what it still does after a failure; `FinishRun` is the end of the
loop. The host's calls (`AddNative`, `HostPush`, `HostPop`, `RunFunction`) happen
between runs. `CallError` lists the checks of `call` in their order; `TryCall` takes the cases
of `try_call` (`CallFunction`, `CallClosure`, `CallNative`, or no callable), the
second with the closure that is stored even if the call failed.
`RunFunction` sets `host.mode` to "running", or to "spent" if `exit` is set
already: then the loop executes nothing, and the host gets the exit and the value
of the run before, whatever name it gave. `UnknownFunctionFails` is about the
runs that execute, at every state of theirs and so at their end; it speaks of the
machine alone and stands here, though the host run checks it.

Undefined behaviour (a value nobody wrote, a frame that does not exist, a null
pointer) ends the model's run in `exit = "UNDEFINED"`: nothing is known from there,
not even that the machine stops. Reading past the bytecode (`FetchStray`) may find
any byte. The compiler ends a program with `OP_BEGIN` and emits no `OP_HALT`, so
every successful run of a compiled program gets there, once its entry function has
returned. If the byte is 0 it is `OP_HALT`, if it is no opcode the loop
ends with `EXIT_UNKNOWN_INSTRUCTION`; any other is executed, with whatever follows it
for operands, and that is `UNDEFINED` as well.

**Balance** says under which condition on a program its frames stay apart, since
no handler compares an address with the base of its frame. *Counts* give, for
every address that is reached, the number of cells of the frame that the code
there may rely on. `Verified` looks at each instruction alone, as a bytecode
verifier would: it takes no more cells than its count (`Takes`), its local lies
below it, and where it may go on (`Follows`) no more is relied on than it leaves
(`Gives`); code that runs in no frame, the program setup, and code of functions
do not mix. `LosesValue` lists the steps in which the machine drops a value
and reports nothing, or reports and goes on, so that counting instructions is no
longer counting cells: a push nobody checks (`get_global`, `OP_TOP`,
`OP_LOAD_LOCAL`), `OP_NEGATE` of something else than a number, `OP_BEGIN` of a
function that does not exist, a function or a native that gives no value where
one is expected, a function that the setup calls and that keeps its value for the
host. `Accounted` is the hypothesis: the counts are right, and this step loses
nothing. `Balanced` is what it comes to in a state: every frame has the cells
that its code relies on.

Counts may also be exact. `Exact` judges them, again instruction by instruction:
`heights` give the size of the frame at each address of a function, equal to the
number of locals at each of the compiler's marks; `wanted` the addresses whose code
uses what the call before them left; `captured` the cells that an open upvalue
may point to, each of which must be closed before it is given up. `Mismatches`
are the steps in which a function or a native leaves a value that its caller
does not want, or the other way round: the compiler cannot know it, so it is a
matter of the run. `AccountedExactly` adds both to `Accounted`. `Level` (every frame has
its height) and `Captures` (every open upvalue points to a captured cell) are what they come
to in a state.

Upvalues are counted too. `Resolved` judges the counts `upvalues`, for each address
the number of upvalues that the code there may name: no instruction names one
beyond it, a function that needs some is made right before an `OP_CLOSURE` that
captures as many, and code that runs in no frame has no instruction that looks at
the frame. `Strands` is the one step left in which `try_call` would store a closure
in a frame that is not there: the setup or the host calls it and `call` refuses.
`FullyAccounted` excludes that and adds `Resolved` to `AccountedExactly`. `Supplied`
is what it comes to in a state: every value that the program can reach is `Whole` (it
has been written, and a closure has the upvalues that its code names), but for a
function that the next instruction makes a closure.

`FramesNested`, `NoInternalError`, `FrameIsolation`, `StackDiscipline`,
`NoDanglingUpvalue` and `DefinedUntilReturn` stand here, the compiled programs' runs
check them, and VMProofs proves them of every program that is accounted for.

**Compiler** (`compiler.c`). Every parse function is an operator from
compilation to compilation, under its own name. Emission writes cells into the
innermost blob; patching checks that it hits a jump, and destroys instructions
when it does not; `uint8_t` counters are taken modulo `ByteValues`. `marks` is
a ghost: where a statement begins and where a list of statements ends it notes
the offset and the number of locals the compiler believes in. All recursion goes through `parse` and
`function_statement`; the model joins them in `Nested`, which counts the depth:
beyond `MaxDepth` the C stack is full and the compiler has crashed.

**Disassembler** (`disassembler.c`). What `ch_disassemble` prints of a program, as
a function: its widths are written out again from its own `switch`, not taken
from Bytecode. It stops at the first `OP_CHAR`, which has no case there, so that
its operand is read as an opcode.

**SourceText** types phrases one after the other between `#main() {` and `}`
(`test/utils.h`) and compiles after each: every interruption of every construct.
**Pipeline** composes Compiler and VM: `prog` is what `Compile` makes of a source,
with the counts that `CountsOf` finds for it: what code relies on backwards from what
the instructions take (`MaxSweeps` bounds the search), heights and captured cells
forwards from the entries of the functions, the upvalues of a function from the
`OP_CLOSURE` behind its `OP_FUNCTION`. They are no part of the compiler; a
wrong one only makes `Verified`, `Exact` or `Resolved` fail. **Claims** holds a statement of the
repository's comments that a run refutes, SourceText another (`RecoveryIsUsed`).
The **MC** modules give the instances.

**Table** (`table.c`). `find_entry`, `adjust_capacity`, set, get, delete and
`ch_table_find_string`. A probing loop goes on until it meets an entry it stops
at; the model takes the nearest of these (`FirstOf`, by `Distance`), and `Never`
when there is none, because then the loop does not end. `Tombstone` and `Free`
differ only in their value, as in the code. `PowerOfTwo` says that every divisor
but 1 is even; `AdjustCapacity` puts the old block's keys into the new one in the
order of the loop, as a recursive function; `Contents` is the partial function
that a table stands for. **HashTable** is one table under
every sequence of calls, and **Map** what it promises: a partial function
(`ImplementsMap`). The virtual machine never deletes; the table's interface
allows it, so HashTable does.

**Interning** (`object.c`, and the globals of `vm.c`). The table of strings and the
table of globals of a context, on Table; strings come from literals, from the
host, from concatenation and from substring, and each way must look for an
existing one first, because keys are compared as pointers. **Names** is what
comes of it: globals are a function of *names*. VM's `globals` is that function;
`ImplementsNames` is the reason why it may be: under the mapping, the abstract
globals are `Contents(globals)` by content of the key. The hash is any function, so that
contents can be made to collide.

**Blob** and **Emitter** (`emit.c`). Bytes: `ch_emit_write` with its test for
growing, `realloc` that may or may not move the block, patching, commit of a
function, and `ch_emit_assemble`; the data section with the pool of literals on
Table. `LittleEndian` is the four bytes of `ch_uint32_to_le_array`, of a negative
offset those of its bits. When `realloc` moves a block, `current` stays in the old
one, and the write that made the blob grow goes to freed memory. The model has this
write: the blob is `astray` from then on. The handler it belongs to is the last
(`Sound`), because distances between two blocks, on which addresses and the number of
bytes to copy depend, are no numbers the model has. `literals` and `targets` note
what the compiler was told, so that it can be compared with what is read.

**Tokenizer** (`token.c`, and `string()` of the compiler). An action is one turn of
the loop in `ch_token_next`, one for each case. The text is a sequence of
characters, strings of length one, followed by the null
character and by `beyond`, any character: the look-ahead does not compare with
the end of the text. Lexemes are defined a second time, from the language's side
(`IsLexeme`), for the properties.

*Variants.* A definition marked "Variant" is a wrong version of the definition
next to it -- a plausible slip. No specification uses it. PROJECT.json
("mutants") pairs each property with the variant that violates it, which shows
that the property can fail.

## 3. What is checked

| run | instance | states | shows |
|---|---|---|---|
| upvalues | 3 cells, 3 values, 3 upvalues | 13 285 | `OpenListSorted`, `OpenListComplete`, `NoDanglingUpvalue`, and every step is a step of Boxes (`ImplementsBoxes`) |
| vm | 41 232 programs, 6 cells, 3 frames | 572 212 | `TypeOK` with all bounds, `LocalsInBlock`, `OpenListExact`, `ReturnClosesFrame`, `ExitIsFinal`, for valid and invalid bytecode |
| discipline | 7 282 sources, 16 cells, 4 frames | 182 150 | `StackDiscipline`, `FullyAccounted`, `NoDanglingUpvalue`, `NoInternalError`, `ReturnsResult`, `EntryReturns` |
| confinement | 3 977 sources, with every kind of statement | 126 953 | `FramesNested`, `DefinedUntilReturn`, `FrameIsolation` |
| host | ask, any order of host calls, 6 cells, 2 frames | 597 808 | `ArgumentsReachEntry`, `AskWritesAnswers`, `UnknownFunctionFails` |
| source_text | 12 phrases, texts of up to 5 | 271 453 | `JumpsLand`, `UpvaluesResolved`, `AcceptedIsBalanced`, `ListsInstructions` |
| hash_table | 5 keys, capacities 4 and 8 | 56 250 | `SearchesEnd`, `SizeCountsUsed`, `ImplementsMap` |
| interning | 4 contents, 2 of them names | 15 517 | `OneObjectPerContent`, `BlocksAreStrings`, `ImplementsNames` |
| emitter | 3 literals, 2 scopes, blocks of 6 bytes that may move | 388 069 | `WritesInBlockUnlessMoved`, `LiteralsReadable`, `JumpsReadBack` |
| tokenizer | texts of up to 4 of 14 pieces | 395 890 | `TextIsSplit`, `EscapesRemoved`, `LinesCounted`, `LooksNoFurther`, `EndIsReached` |

**Bounds, and why they are enough.** *upvalues*: three cells let two captures
arrive in either order with a third between, and let a return close none, some
or all; three upvalues allow recapturing a cell after its first variable is
gone. *vm*: the programs are any two of 46 instructions after each of four
stacks (empty, two numbers, strings, one cell from full), and any five of eight
instructions on closures; operands include an address past the stack, a jump out
of the program and into the middle of an instruction, a call with too many
arguments; with three frames a program overflows the call stack; `U8 = 8` and
`U32 = 64` let address arithmetic wrap. *discipline*: any three of thirteen statements
that capture, nest, escape, loop, recur and fail, after a captured variable.
The stack (16) is larger than any of these programs needs except the endless
recursion, which ends at the call stack (4). The same run has expressions with a
known value: four operands and any three operators of `|| && + *` are every
relation between two neighbouring precedence levels; operands 0, 2, -1 tell
falsy, truthy and negative apart. All of these programs are fully accounted for
(`FullyAccounted`) in every state, endless recursion included: the theorems of
section 4 about such programs speak of what the compiler makes of disciplined
sources. *confinement*: the same statements, and any
three of thirteen others (below). *host*: 6 cells are few enough that arguments
and expressions fill the stack, so that `ask` also fails at every place; the
host pushes a file name or a native, and calls functions that exist, a native
and a name that does not exist, with either on the stack. *source_text*: five
phrases close a loop inside a function inside an if, or fail to; they contain
the jumps of and, or, if, do and for, captures, a call, a character literal. `NumberBound`:
additions stay at the bound, as a double that has grown too large absorbs them; a
quotient that is not an integer of the model is any number but 0.

*hash_table*: `MinCapacity` is 4 instead of 8, and 2 in *interning*: the constant
does not enter any other computation, and small tables fill up, wrap around and
grow within a few calls. Three keys share a hash that is the last entry of a
small table, two others lie in their way; five keys and tombstones make the
table grow to 8 and stay there. *interning*: four contents of which two are the
concatenation of the others, all but one colliding; the table of strings grows
twice. *emitter*: `INITIAL_BLOB_SIZE` is 6 instead of 10 000, and what is written
at once 1 to 4 bytes, so that a block grows several times past its first size;
`MaxCode`, `MaxData` and `MaxScopes` bound the bytes and the depth, and two scopes
commit one inside the other. *tokenizer*: four pieces hold every pair of adjacent
constructs, an unclosed string or comment, an escape before a quote, and a null
character before other text, in a comment and in a string;
`LineValues` is 3 instead of 65 536, so that the line counter wraps.

`MCInit` and `PipelineInit` are `Init` of VM with the program chosen from a
set expression instead of the constant `Programs`, which these runs leave empty:
TLC builds a constant set several times over.

**Fairness.** `FairSpec` assumes weak fairness of `Execute`, one instruction: the
loop of `ch_vm_call` is one thread that nothing blocks, so it takes its next
step whenever there is one. Nothing is assumed of the host, which may never call
again, and nothing of undefined behaviour, which need not come back.
`EntryReturns` says what a run of a compiled program comes to: either its entry
function returns and the program counter is at the end of the program, or the run
ends before that, with an exit that an instruction has set. `UNDEFINED` does not count. It
promises nothing of the fetch at the end of the program, since the code does not
either: what lies there decides whether `ch_runfunction` returns. In this run's
programs loops count down and recursion is cut by the call stack; a program
`while(1){}` never gets to its end, and is not among them.

Tokenizer's `Spec` assumes weak fairness of `Next`: `ch_token_next` is a loop, and
`advance` calls it again until it has had the end of the text. `EndIsReached` says
that the end comes, and where: behind the last character, or at a null
character that no comment hides, which the tokenizer takes for it.

**The discipline run's sources.** They leave out `if`, `while`, `do`, bodies of
`for` that declare variables directly, calls whose value is dropped and void
calls whose value is used: with each of these `StackDiscipline` fails in the
model and in the compiled program, because the compiler leaves or takes one cell
too many; `NoDanglingUpvalue` fails with some. The comments in the code promise
nothing about them. They are listed as hazards, and the *confinement* run has them all:
it shows that what they do wrong stays in the function that contains them. No
frame reaches into another, no caller's variable changes but through an upvalue,
and nothing undefined is executed before the entry function returns.

**Claims.** A run whose name starts with `claim_` checks one statement of the
repository that the code does not keep; TLC finds the counterexample.

| run | the statement | what the run shows |
|---|---|---|
| claim_subtraction | vm.c:290, "Args are popped in reverse order" | only `binary_op_string` swaps them back: `return 2 - 1;` is -1 (`/` likewise) |
| claim_recovery | compiler.c:240, "Error recovery used when the error occurs inside a function declaration" | after `if x {` (or `if { {`) the parser is in panic mode, in which `opt_consume` refuses every token, the brace that `scope` begins with included; `scope` and `function_statement` call each other on it until the C stack ends, and `synchronize_in_function` is not reached |

Disagreements met while modelling that no run is about:

- vm.c:523 asks "if we are returning from the main function"; the code asks
  whether any frame is left. With `val x = f();` at the top, f returns to an empty
  call stack: its value becomes the program's, and `OP_DEFINE_GLOBAL` finds the
  stack empty.
- compiler.c:853 says of a for's increment "we pop its value"; an assignment
  leaves none, and `for(...; ...; x = 0)` pops a local in every round.
- compiler.c:427-432 does not tolerate `print;`; a bare name is accepted.
- emit.c:77 has a "TODO check how realloc changes blob->start pointer": `start` is
  replaced before `current` is computed from it, so `current` stays in the old
  block when realloc moves it.
- free_compiler frees the "Strings allocated in emit_string" (compiler.c:267) among
  the first `size` entries of the table; those behind are not freed.
- The exit `EXIT_CALL_STACK_SIZE_EXCEEDED` is declared and never set (`call` reports
  `EXIT_STACK_SIZE_EXCEEDED`); defining a global twice reports
  `EXIT_GLOBAL_NOT_FOUND`; object.h:92 calls the end of a substring inclusive, the
  code and natives.h:5-8 make it exclusive; the macro `JMPPTR_TO_U32` ignores its
  argument and reads a variable named `ptr`; the disassembler has no case for
  `OP_CHAR`; the TODO at compiler.c:1000 asks for a copy `emit_string` makes.

## 4. What is proved

TLC checks small instances; the theorems below hold for every value of the
constants that the assumptions allow: any size of the stacks, any set of
programs, any hash, any text. Every theorem says `Spec => [](...)` of a property
that a run also checks, or that a specification implements an abstract one; six
have the hypothesis `[]Accounted`, `[]AccountedExactly` or `[]FullyAccounted`, and
a seventh `[]LeadsToBegin`. The discipline run checks `FullyAccounted`, which implies
the first two, and, as no compiled program has an `OP_HALT`, the last.

| module | theorem | states |
|---|---|---|
| UpvaluesProofs | `SpecTypeOK` | stack and upvalues keep their types; every live cell holds a value |
| | `SpecOpenListSorted` | `open_upvalues` is sorted by address, strictly, from the top down |
| | `SpecOpenListComplete` | an upvalue is on the list exactly if it points into the stack |
| | `SpecNoDanglingUpvalue` | no open upvalue points at or above the top of the stack |
| | `SpecImplementsBoxes` | closures and functions see boxes, in any order of operations |
| VMProofs | `MachineTypeOK` | every handler and error exit keeps the machine well formed and within its bounds, for every program, valid or not |
| | `MachineOpenListExact` | no bytecode unsorts the open list or makes it lose an upvalue |
| | `MachineLocalsInBlock` | no operand makes `OP_LOAD_LOCAL` or `OP_SET_LOCAL` leave the block |
| | `MachineReturnClosesFrame` | a return leaves nothing open in its frame, and of its cells at most one, for the value |
| | `MachineExitIsFinal` | after `exit` is set nothing executes |
| | `MachineUnknownFunctionFails` | if `[]LeadsToBegin`: a run that executes, of a function that does not exist, does not end in success |
| | `MachineFramesNested` | if `[]Accounted`: the frames of running functions lie one above the other |
| | `MachineFrameIsolation` | if `[]Accounted`: a function changes a cell below its frame through an upvalue only |
| | `MachineNoInternalError` | if `[]Accounted`: the stack is never found empty, no jump or call leaves the program |
| | `MachineStackDiscipline` | if `[]AccountedExactly`: where a statement begins or a block ends, the frame holds the locals in scope and no cell more |
| | `MachineNoDanglingUpvalue` | if `[]AccountedExactly`: no open upvalue points at or above the top of the stack |
| | `MachineDefinedUntilReturn` | if `[]FullyAccounted`: nothing undefined is executed before the entry function returns |
| HashTableProofs | `TableSearchesEnd` | a free entry is left for every probing loop |
| | `TableSizeCounts` | `size` is the number of keys and tombstones |
| | `SpecImplementsMap` | the table answers every call as a partial function |
| InterningProofs | `InterningOneObject` | two strings of one content are one object |
| | `InterningBlocks` | the blocks allocated are those that strings point to |
| | `SpecImplementsNames` | globals behave as a function of names |
| EmitterProofs | `SpecWritesInBlockUnlessMoved` | a write leaves its block exactly if `realloc` has moved the block |
| | `SpecLiteralsReadable` | literals are read back where the compiler was told (`ShortLiterals`) |
| | `SpecJumpsReadBack` | jump offsets are read back as they were written (`ShortFunctions`) |
| TokenizerProofs | `TokenizerTextIsSplit` | tokens are the longest lexemes, and only separators lie between |
| | `TokenizerLooksNoFurther` | at most one character behind the null is read, and only after a last `'` |
| | `TokenizerEscapesRemoved` | `string()` leaves out exactly the backslashes that escape |
| | `TokenizerLinesCounted` | a token's line counts the newlines before it, but those in literals |

**Assumptions.** Each is named, in the module that declares the constants, and
evaluated by the runs of that module.

- `MaxSizeAssumption`, `UpvaluesAssumption`: the block has a cell; null is a value
  and an unwritten cell is not.
- `VMAssumption`, `ProgramsAssumption`: the machine's widths are positive and a
  32-bit address does not wrap before the stack ends; programs are sequences of
  byte cells whose instructions come from `ops.h`, with operands of any value;
  nothing says that a compiler made them.
- `TableAssumption`, `HashTableAssumption`: `MIN_CAPACITY` is a power of two above
  1; a key's hash is a number, and a key is its content (what Interning proves
  of strings).
- `InterningAssumption`, `BlobAssumption`, `EmitterAssumption`: the hash is a
  function of the content; the null key is no string; the first size and the
  growth factor of a blob are positive; literals are sequences of bytes.
- `TokenizerAssumption`: letters, digits and the signs of the language are
  different characters, and a text is a sequence of characters.
- Two theorems have a hypothesis of their own, because four bytes do not hold
  every number: `ShortLiterals` (a literal is shorter than 2^31) and
  `ShortFunctions` (a function is). A source file below 2 GB satisfies both.

**Upvalues.** No one of the four invariants is inductive alone.
`capture_upvalue` stops at the first address that is not above the one it looks
for; that this finds an existing upvalue of the cell, and otherwise the place
for a new one, holds only in a sorted list. `close_upvalues` closes a prefix;
that nothing behind it should have been closed needs sortedness, that nothing
outside the list should, completeness. And the value it copies is a value only
because the cell is below the top. So `Inv` is the conjunction; `Good(s, w)` says
the same of any stack and upvalues, so that lemmas about operators apply. The
refinement maps a cell to the box of the upvalue that is open on it, or to one
of its own (`Mapping`); `CaptureMaps`, `CloseMaps`, `LeaveMaps` and the others do
one action each, under `Inv`.

**The machine.** `Inv` is `Typed` (program, stack, frames, globals, return value)
and `UpvaluesOK` (list sorted and complete), parameterised by the number of
upvalues that exist, because a value may be a closure and a closure names
upvalues that must exist: a handler that makes one enlarges what counts as a
value (`ValueMonotonic`). It is weaker than that of Upvalues in one place, since
a wrong program may capture a cell that is not live, even the one behind a full
stack (`Pointers`). There is a lemma for every handler, named after it with
`Typed`; the loop of `OP_CLOSURE` over its captures is `CaptureAllTyped`, by way of
`RoundsExist`. `MachineReturnClosesFrame` adds `OnlyReturnsLeave` (nothing else
shortens the call stack), `LeaveFrameCloses` for the upvalues and `ReturnShrinks` for
the cells.

**Unknown functions.** `MachineUnknownFunctionFails` is about where a run can end with
success: at `OP_HALT` or behind the program (`EndsWell`). A wrong program has an
`OP_HALT` in its setup, and ends with success before it looks for the host's
function; hence the hypothesis `LeadsToBegin`: there is none, and the setup's and the
functions' code do not mix (`Verified`). The invariant is `Directed`: without a
frame the machine is in the setup, or it is at the end of the program and the
function is defined; with frames it is in a function, and the lowest frame returns
to the setup, or to the end if the function is defined. What makes it hold is `OP_BEGIN`: without the
function, `exit` is no longer `RUNNING`, and whatever `try_call` makes of the value it finds
instead does not set it back (`TryCallReports`).

**Programs that are accounted for.** Three theorems are of the form
`Spec /\ []Accounted => ...`. Nothing weaker would do for any bytecode: a function
may pop its caller's cells, and the confinement run's programs lose values. The
inductive invariant is `Balanced`, next to `Inv`: the frame on top holds as many
cells as `pc` relies on, and each frame below will, when control comes back to it
with one value, hold what its return address relies on (`Linked`). `FramesNested`
alone is not inductive: that a return finds its caller's frame intact needs the
count at the return address. `Sequel` is what is shown of every handler (the
lemmas named after one with `Sequel`): `Balanced` again, no internal error, and the
cells below the frame as they were. `Room` says once what an instruction finds;
`GoesOn` that an instruction that moves the stack as `Takes` and `Gives` say keeps
`Balanced`. Calls and returns change the frame: `EnterBalanced` starts a frame at
the arguments, which `Verified` demands of every entry; `LeaveBalanced` takes up the
caller's `Linked`. A function value that is called has an address the counts
know, because `Typed` is parameterised by the set of functions there are, and
those are the ones that an `OP_FUNCTION` of the program makes or the host passes.
After a failure in the middle of a handler `exit` is set and nothing is owed any
more. `NoInternalError` speaks of the two errors that no program of correct
counts should meet; errors of the program's own (a wrong type, a full stack, a
wrong number of arguments) remain possible and end the run.

**Programs that are counted exactly.** `Spec /\ []AccountedExactly => ...` says that
what can be read off a program's text, and what its calls return, decides the
heights of its frames. That the heights agree with the marks is a condition on
the text; that the machine's frames have these heights, through every
call, closure, native and error, is the theorem. `Level` is its
inductive invariant, on top of `Inv` and `Balanced`: the running frame has the
height of `pc`, and each frame below will have that of its return address when the
call has left what is wanted there. `GoesAhead` is the part of `Sequel` that tells
what every handler but those of calls and returns does to the size of the
stack; `GoesAheadLevel`, `EnterLevel` and `ReturnLevel` are the three ways a step
can go. `Captures` is the inductive invariant of `MachineNoDanglingUpvalue`: an open
upvalue points below the running frame to a captured cell of the frame it belongs
to, or to a captured cell of the running one. A captured cell lies below the height of its code, and
below the arguments of a call, so that neither a pop nor a callee reaches it
(`CapturedRoom`, `StaysCaptured`); `OP_CLOSE_UPVALUE` closes the upvalue of the cell
it takes, a return those of its frame (`CloseUpvalueOpened`, `ReturnOpened`), and a
new closure opens upvalues of the cells that its captures name and no others
(`CaptureAllOpened`, `MakeClosureOpened`).

**Programs whose upvalues are counted.** `MachineDefinedUntilReturn` is about every place
where the C code reads what may not be there: a cell above the top or one nobody
wrote, an upvalue whose cell is gone, an index beyond `closure->upvalues`, the
frame of an empty call stack, a byte behind the program. Its inductive invariant is
`Supplied`, on top of all the others. `KeepsWhole` is what is shown of the handlers
(the lemmas named after one with `Whole`): the step is defined and leaves only whole
values on the stack, in upvalues and in globals. That a local can be read
follows from `Level` and `Balanced` (`LoadLocalWhole`); that an upvalue can be, and
that a return closes live cells only, from `Captures` (`AllReadable`, `DerefWhole`,
`ClosesWhole`). One value may be wanting: the function on top whose next
instruction is its `OP_CLOSURE` (`Unfinished`, `FunctionSupplied`). A call gives the
new frame the upvalues of the closure that is called, which is whole
(`TryCallWhole`, `CallSupplied`); a return comes back to a frame that has kept its
own (`LeaveSupplied`). A byte behind the program is fetched only where `Balanced`
asks for nothing, after the last return (`StraysAtEnd`).

**Table.** `TableOK` is the invariant of a table under any caller: keys are unique;
no free entry lies between the place a key belongs and the place it stands
(`Reachable`, which is what deletion by tombstones is for and what `Roomy` must not
break); `size` is exact; three quarters are never exceeded; the capacity is 0 or
a power of two. `FindPresent` and `FindAbsent` say where `find_entry` stops.
`SetOK`, `GetOK`, `DeleteOK`, `AssignOK`, `FindStringOK` are the contracts of the
functions in terms of `Contents`. `GrownOK` is that of growing: it follows the
loop of `adjust_capacity` from entry to entry (`AdjustCapacityMoves`,
`ReinsertedRehashed`). The library's induction theorems cannot be used; such loops
are proved by the least step at which a claim would fail (`LeastMember`, from the
well-foundedness of the natural numbers).

**Interning.** `Inv` is `Interns` and `GlobalsOK`: `Contents(strings)` has exactly the
strings of the heap, the globals' keys are among them. `MakeOK`, `LoadOK` and
`RegisterOK` say what making, loading and registering a string keep; that the tables compare
pointers is then the same as comparing contents (`ByNameFacts`), and the two
tables together are a function of names (`NamedOK`).

**Emitter.** `Memory` keeps each blob's bytes within its block until it moves, whatever
its recorded size says (`ReallocatedOK`, `WriteOK`), `astray` from the write on
that moved it, and the pool a table of addresses (the contracts of
TableProofs). `Literals` adds that each literal is in the bytes, null byte
included (`Stored`), until a block moves. `Jumps` adds `Patchable`: an offset that
is still to be written shares no byte with any other offset of its function, so
`patch_jump` disturbs none; and what a function's code says stays true when it is
appended to the functions and when the data is put before it
(`CommittedLands`, `AppendedLands`). A function whose last instruction went astray
is not committed by the model (`CommitAstray`, `NotAstray`). `ReadBack` is the arithmetic: what four bytes
were made from is what they are read as, negative offsets included.

**Tokenizer.** `Reading` says: the token being read begins at the position, or
one before it where nothing comes of that (`Places`); what lies between the last token and it separates (`Skipped`), each
token has the shape its kind promises (`Extents`). `FirstTells` shows that the first
character decides which lexemes are possible, `LongestWord` to `LongestSign` that
each loop of `ch_token_next` stops where its lexeme cannot go on; `NextMoves` joins
the cases: a turn skips separators (`Advances`) or returns a token (`Yields`).
`Counting` adds the lines; it says nothing of the counter once the position is
behind the text, where it may have counted a newline that is not in the text.
`EscapesAlternate` (within a run of backslashes every second one escapes) and
`CopiesKept` follow the loop of `string()` from the end of the string backwards.

**Only model-checked.**

- Everything of Compiler, SourceText, Disassembler and Pipeline. The compiler is
  recursive descent, written with RECURSIVE operators, which the prover does not
  accept in any module that reaches them. So these stay with TLC: `ReturnsResult`,
  `ArgumentsReachEntry`, `AskWritesAnswers`, `JumpsLand`,
  `UpvaluesResolved`, `AcceptedIsBalanced`, `ListsInstructions`. What VMProofs shows
  of every program holds for compiled programs too. `ArgumentsReachEntry` is
  not true of every program and host: `OP_BEGIN` passes the number of arguments
  modulo 256.
- That the compiler's programs are accounted for, for the same reason: the
  discipline run checks `FullyAccounted` of its sources, and there is no proof for
  all. The sources of the confinement run that are not accounted for have their
  frames nested and execute nothing undefined all the same, as far as that run
  goes.
- `EntryReturns` and `EndIsReached`, liveness under fairness, which the prover
  does not reach.

## 5. What is not modelled

- **Allocation**: nothing is freed while a program runs, but the characters of a
  string that turns out to be known (Interning); `malloc` is assumed to succeed,
  as the code does. `ch_freevm` and `free_compiler` end everything.
- **The hash function** (`hash.c`) is any function: nothing but the distribution
  of the keys depends on it.
- **Where what happens is undefined** or depends on bytes the models do not have,
  they stop: after the write that went astray because its block had moved (Emitter),
  behind the first character literal (Disassembler), and in the machine after
  `UNDEFINED`, which includes all bytes behind a program that are executed as
  instructions.
- **Reading behind a string**: `ch_table_find_string` runs `memcmp` before it compares
  sizes (table.c:117-119). Its answer does not depend on it.
- **Numbers** are integers of a small range; fractions, infinities and NaN are
  left out, and so are the repository's tests that use them.
- **The text of literals** is not carried from Tokenizer to Compiler: the compiler
  starts from tokens, erroneous ones included, and a number's `strtod` is left
  out. `EscapesRemoved` covers what `string()` copies.
- **`ask`** puts two questions instead of three; files are left out, and so is the end
  of the input, at which `prompt` goes on with a buffer nobody wrote.
- **Printing and error messages** (`error.c`, the command line).

## 6. What is left

Done: every module above, and the proofs of section 4: of all properties the runs
check, those that are safety and do not depend on the recursive compiler; of
programs that are accounted for also those that do. What could follow:

1. The parts of the compiler that are not recursive (scopes, locals, upvalue
   resolution of one level, patching), in a module of their own, so that they
   can be proved about.
2. A compiler run with a small `ByteValues`, for `do_while_statement`'s `uint8_t`
   exit jump and the `uint8_t` counters at their limit.
