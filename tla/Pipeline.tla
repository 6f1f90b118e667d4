------------------------------- MODULE Pipeline -------------------------------
(***************************************************************************)
(* From source to result: what ch_compile makes of each source and what    *)
(* the VM then does with it (src/compiler/main.c, examples/ask).           *)
(*                                                                         *)
(* A source is a sequence of tokens, and, where the run says so, what the  *)
(* program it stands for should return.  The machine runs the sources that *)
(* compile; "prog" carries the source and the marks of the compiler next   *)
(* to the program, and the counts of module Balance, so that properties    *)
(* can speak of them.                                                      *)
(***************************************************************************)
EXTENDS Balance, Compiler

CONSTANT Sources

Unspecified == [type |-> "unspecified"]
Source(tokens)            == [tokens |-> tokens, result |-> Unspecified]
SourceOf(tokens, result)  == [tokens |-> tokens, result |-> result]

------------------------------------------------------------------------------
(***************************************************************************)
(* The counts of a program.  They are no part of the compiler: Verified,   *)
(* Exact and Resolved judge them.  What the code relies on is found        *)
(* backwards from what its instructions take.                              *)
(***************************************************************************)
RECURSIVE ReachedFrom(_, _, _)
ReachedFrom(program, reached, last) ==
    LET next == { a \in UNION { Follows(program, b) : b \in last } :
                    HasInstruction(program, a) } \ reached
    IN  IF next = {} THEN reached ELSE ReachedFrom(program, reached \cup next, next)

ReliesOn(instr) == IF instr.op = "OP_LOAD_LOCAL" THEN (instr.local % U8) + 1 ELSE Takes(instr)

\* What the code at a relies on, if what follows it relies on cells.
Relied(program, cells, a) ==
    LET instr == CellAt(program, a)
    IN  Max({ReliesOn(instr)} \cup
            { cells[b] + Takes(instr) - Gives(instr) :
                b \in Follows(program, a) \cap DOMAIN cells })

\* One sweep from the end to the start, where most jumps come from.
RECURSIVE Swept(_, _, _)
Swept(program, cells, a) ==
    CASE a < program.data -> cells
      [] a \in DOMAIN cells ->
           Swept(program, [cells EXCEPT ![a] = Relied(program, cells, a)], a - 1)
      [] OTHER -> Swept(program, cells, a - 1)

\* Sweeps until nothing changes; a loop that drops a cell in every round has
\* no such counts, and is given up.
RECURSIVE Raised(_, _, _)
Raised(program, cells, rounds) ==
    LET raised == Swept(program, cells, TotalSize(program) - 1)
    IN  IF rounds = 0 \/ raised = cells THEN cells ELSE Raised(program, raised, rounds - 1)

\* Enough for loops that are nested as deep as the sources of the runs nest them.
MaxSweeps == 6

\* Is a value wanted after the call at a, whose arguments a frame of this
\* height holds?  Not where the compiler counts no value.
Wanted(program, marks, a, height) ==
    LET instr == CellAt(program, a)
    IN  ~ \E mark \in marks : /\ program.data + mark.at = a + Width(instr)
                             /\ mark.locals = height - Takes(instr)

\* The heights, found forwards from the entries of the functions.
RECURSIVE HeightsFrom(_, _, _, _)
HeightsFrom(program, marks, heights, last) ==
    LET next == { b \in UNION { Follows(program, a) : a \in last } : HasInstruction(program, b) }
                  \ DOMAIN heights
        after(a) ==
            LET instr == CellAt(program, a)
                given == IF instr.op = "OP_CALL" /\ ~Wanted(program, marks, a, heights[a])
                           THEN 0 ELSE Gives(instr)
            IN  heights[a] - Takes(instr) + given
        found == [b \in next |-> after(CHOOSE a \in last : b \in Follows(program, a))]
    IN  IF next = {} THEN heights ELSE HeightsFrom(program, marks, found @@ heights, next)

\* What may be captured, spread from the places where it has changed.
CapturedAfter(program, heights, captured, a) ==
    LET instr == CellAt(program, a)
    IN  CASE instr.op = "OP_CLOSE_UPVALUE" -> captured[a] \ {heights[a] - 1}
          [] instr.op = "OP_CLOSURE" ->
               captured[a] \cup { c.index : c \in { d \in ToSet(instr.captures) : d.local } }
          [] OTHER -> captured[a]

RECURSIVE Spread(_, _, _, _)
Spread(program, heights, captured, changed) ==
    LET reached(b) ==
            UNION { CapturedAfter(program, heights, captured, a) :
                      a \in { c \in changed : b \in Follows(program, c) } }
        next == { b \in UNION { Follows(program, a) : a \in changed } :
                    b \in DOMAIN captured /\ ~(reached(b) \subseteq captured[b]) }
    IN  IF next = {} THEN captured
        ELSE Spread(program, heights,
                    [b \in next |-> captured[b] \cup reached(b)] @@ captured, next)

\* The upvalues that the closures of the function at this entry capture.
CapturedBy(program, entry) ==
    LET after(i) == program.code[i + Width(program.code[i])]
        makers == { i \in DOMAIN program.code : /\ program.code[i].op = "OP_FUNCTION"
                                                /\ program.data + program.code[i].ptr = entry
                                                /\ after(i).op = "OP_CLOSURE" }
    IN  IF makers = {} THEN 0 ELSE Len(after(CHOOSE i \in makers : TRUE).captures)

CountsOf(program, marks) ==
    LET start     == {program.data + program.start}
        made      == { f \in MadeBy(program) : HasInstruction(program, program.data + f.ptr) }
        entries   == { program.data + f.ptr : f \in made }
        arguments == [a \in entries |-> (CHOOSE f \in made : program.data + f.ptr = a).argcount]
        heights   == HeightsFrom(program, marks, arguments, entries)
        setup     == ReachedFrom(program, start, start)
        functions == DOMAIN heights
        closures  == { a \in functions : CellAt(program, a).op = "OP_CLOSURE" }
        reached   == [e \in entries |-> ReachedFrom(program, {e}, {e})]
    IN  [setup    |-> setup,
         cells    |-> Raised(program, [a \in setup \cup functions |-> 0], MaxSweeps),
         heights  |-> heights,
         wanted   |-> { a + Width(CellAt(program, a)) :
                          a \in { b \in functions : CellAt(program, b).op = "OP_CALL"
                                                    /\ Wanted(program, marks, b, heights[b]) } },
         captured |-> Spread(program, heights, [a \in functions |-> {}], closures),
         upvalues |-> [a \in functions |->
                         CapturedBy(program, CHOOSE e \in entries : a \in reached[e])]]

\* Compile, with the program's fields where the VM looks for them.
Compiled(source) ==
    LET runnable(output) ==
            [code |-> output.program.code, data |-> output.program.data,
             start |-> output.program.start, marks |-> output.marks, source |-> source,
             counts |-> CountsOf(output.program, output.marks),
             compiles |-> output.ok /\ ~output.crashed]
    IN  runnable(Compile(source.tokens))

\* Init of VM, for the programs that compile.  It chooses a source at a time:
\* TLC would build the set Programs several times over; the runs leave it empty.
PipelineInit ==
    \E source \in Sources : prog = Compiled(source) /\ prog.compiles /\ InitMachine

PipelineSpec == PipelineInit /\ [][Next]_vars

\* The loop of ch_vm_call is one thread that nothing interrupts: it goes on
\* as long as it can.  The host may stop calling at any time.  Nothing makes a
\* run whose behaviour is undefined come back.
FairSpec == PipelineSpec /\ WF_vars(Execute)

------------------------------------------------------------------------------
(***************************************************************************)
(* Sources                                                                 *)
(***************************************************************************)
Keyword(kind, rest) == <<Token(kind)>> \o rest
Parens(e) == <<Token("TK_POPEN")>> \o e \o <<Token("TK_PCLOSE")>>
Braces(s) == <<Token("TK_COPEN")>> \o s \o <<Token("TK_CCLOSE")>>
Semi      == <<Token("TK_SEMI")>>

Name(x) == <<Id(x)>>
Num(n)  == <<NumberToken(n)>>
Str(s)  == <<StringToken(s)>>

Comma(left, right) == left \o <<Token("TK_COMMA")>> \o right
Infixed(left, kind, right) == left \o <<Token(kind)>> \o right
Binding(x, e)   == Name(x) \o <<Token("TK_EQ")>> \o e
DeclareVal(x, e) == Keyword("TK_VAL", Binding(x, e) \o Semi)
AssignTo(x, e)  == Binding(x, e) \o Semi
Increment(x)    == Name(x) \o <<Token("TK_PLUS_PLUS")>>
Decrement(x)    == Name(x) \o <<Token("TK_MINUS_MINUS")>>
CallOf(f, args) == Name(f) \o Parens(args)
FunctionOf(f, params, body) ==
    Keyword("TK_POUND", Name(f) \o Parens(params) \o Braces(body))
ReturnOf(e)     == Keyword("TK_RETURN", e \o Semi)
ForLoop(initializer, e, increment, body) ==
    Keyword("TK_FOR", Parens(initializer \o e \o Semi \o increment) \o Braces(body))

Main(body) == FunctionOf("main", <<>>, body)

------------------------------------------------------------------------------
(***************************************************************************)
(* Properties of compiled programs                                         *)
(***************************************************************************)
\* What the entry function returns is what the source means.
ReturnsResult ==
    exit # "RUNNING" /\ prog.source.result # Unspecified => retval = prog.source.result

\* The entry function finds the host's arguments, and nothing else, in its
\* frame: the program setup that ran before it left the stack as it was.
ArgumentsReachEntry ==
    [][At({"OP_BEGIN"}) /\ Len(calls') > Len(calls) =>
         /\ calls'[1].stack_addr = 0
         /\ stack'.size = host.args
         /\ \A a \in 0 .. host.args - 1 : stack'.cells[a] \in HostValues]_vars

\* Every run gets to the end of its program, where its entry function returns
\* to, or reports an exit before that: loops whose condition turns falsy end,
\* endless recursion runs out of call frames, and nothing undefined comes first.
\* What the loop does there is not promised: no OP_HALT ends a compiled
\* program, and the byte behind it decides.
AtEnd == calls = <<>> /\ pc = TotalSize(prog)
EntryReturns == host # Idle ~> AtEnd \/ exit \notin {"RUNNING", "UNDEFINED"}
==============================================================================
