-------------------------------- MODULE Balance --------------------------------
(***************************************************************************)
(* Bytecode that keeps count of its stack.                                 *)
(*                                                                         *)
(* The machine trusts its program: an operand below the base of a frame    *)
(* belongs to the caller, and no handler compares addresses with the base. *)
(* Counts say, for every address that is reached, how many cells of the    *)
(* frame an instruction may rely on; Verified asks of every instruction    *)
(* alone that it finds and leaves as many as it needs.  Exact asks more:   *)
(* that the counts know how high the frame is and which of its cells are   *)
(* captured; Resolved, that they know the upvalues that the code may name. *)
(* What counts cannot see is where the machine loses a value without an    *)
(* error, or a callee leaves another number than its caller expects.       *)
(***************************************************************************)
EXTENDS VM

------------------------------------------------------------------------------
(***************************************************************************)
(* Counting cells                                                          *)
(***************************************************************************)
Takes(instr) ==
    CASE instr.op \in Arithmetic -> 2
      [] instr.op \in {"OP_ADDONE", "OP_SUBONE", "OP_NEGATE", "OP_POP", "OP_TOP", "OP_SET_LOCAL",
                       "OP_SET_UPVALUE", "OP_CLOSE_UPVALUE", "OP_DEFINE_GLOBAL", "OP_SET_GLOBAL",
                       "OP_CLOSURE", "OP_JMP_FALSE", "OP_RETURN_VALUE"} -> 1
      [] instr.op = "OP_POPN" -> instr.count % U8
      [] instr.op = "OP_CALL" -> instr.argcount + 1
      [] OTHER -> 0

\* A call leaves a value, if its function returns one.
Gives(instr) ==
    CASE instr.op = "OP_TOP" -> 2
      [] instr.op \in Arithmetic \cup
                      {"OP_ADDONE", "OP_SUBONE", "OP_NEGATE", "OP_CLOSURE", "OP_JMP_FALSE", "OP_CALL",
                       "OP_NUMBER", "OP_STRING", "OP_CHAR", "OP_TRUE", "OP_FALSE", "OP_NULL",
                       "OP_FUNCTION", "OP_LOAD_LOCAL", "OP_LOAD_UPVALUE", "OP_LOAD_GLOBAL"} -> 1
      [] OTHER -> 0

Sequential ==
    KnownOps \ {"OP_JMP", "OP_JMP_FALSE", "OP_HALT", "OP_BEGIN", "OP_RETURN_VOID",
                "OP_RETURN_VALUE"}

\* Where the machine may go on in the same function.
Follows(program, a) ==
    LET instr == CellAt(program, a)
        next  == a + Width(instr)
    IN  CASE instr.op = "OP_JMP"       -> {next + instr.offset}
          [] instr.op = "OP_JMP_FALSE" -> {next, next + instr.offset}
          [] instr.op \in Sequential   -> {next}
          [] OTHER -> {}

\* The functions a program makes.
MadeBy(program) ==
    { Function(instr.ptr, instr.argcount) :
        instr \in { program.code[i] : i \in { j \in DOMAIN program.code :
                                                program.code[j].op = "OP_FUNCTION" } } }

\* All functions there are: those, and what the host passes.
Functions(program) ==
    MadeBy(program) \cup { v.object : v \in { w \in HostValues : IsKind(w, "function") } }

\* counts.cells[a] is the number of cells of its frame that the instruction
\* at a may rely on, counts.setup where the code is that runs in no frame.
Verified(program, counts) ==
    LET cells == counts.cells
        setup == counts.setup
        inFunctions == DOMAIN cells \ setup
    IN  /\ DOMAIN cells \subseteq Nat /\ setup \subseteq DOMAIN cells
        /\ program.data + program.start \in setup
        /\ cells[program.data + program.start] = 0
        /\ \A f \in Functions(program) : /\ program.data + f.ptr \in inFunctions
                                      /\ cells[program.data + f.ptr] <= f.argcount
        /\ \A a \in DOMAIN cells :
             LET instr == CellAt(program, a)
             IN  /\ HasInstruction(program, a)
                 /\ cells[a] \in Nat /\ Takes(instr) <= cells[a]
                 /\ instr.op = "OP_LOAD_LOCAL" => instr.local % U8 < cells[a]
                 /\ instr.op = "OP_BEGIN" => a \in setup /\ a + 1 = TotalSize(program)
                 /\ \A b \in Follows(program, a) :
                      /\ b \in DOMAIN cells /\ (b \in setup <=> a \in setup)
                      /\ cells[b] <= cells[a] - Takes(instr) + Gives(instr)

------------------------------------------------------------------------------
(***************************************************************************)
(* Counting exactly                                                        *)
(***************************************************************************)
\* What an instruction leaves in its frame when b is next: a call leaves a
\* value where its caller wants one.
Leaves(counts, instr, b) ==
    IF instr.op = "OP_CALL" THEN IF b \in counts.wanted THEN 1 ELSE 0 ELSE Gives(instr)

\* In the code of functions, counts.heights[a] is the size of the frame where
\* the instruction at a begins, and counts.captured[a] are those of its cells
\* that an open upvalue may point to.  The code at the addresses in
\* counts.wanted uses what the call before it returned.
Exact(program, counts) ==
    LET heights  == counts.heights
        captured == counts.captured
    IN  /\ DOMAIN heights = DOMAIN counts.cells \ counts.setup
        /\ \A f \in Functions(program) : heights[program.data + f.ptr] = f.argcount
        /\ \A mark \in program.marks :
             program.data + mark.at \in DOMAIN heights
               => heights[program.data + mark.at] = mark.locals
        /\ \A a \in DOMAIN heights :
             LET instr == CellAt(program, a)
                 keeps == IF instr.op = "OP_CALL" THEN Takes(instr) ELSE 0
             IN  /\ heights[a] \in Nat
                 /\ \A c \in captured[a] : c \in Nat /\ c < heights[a] - keeps
                 /\ \A b \in Follows(program, a) :
                      /\ heights[b] = heights[a] - Takes(instr) + Leaves(counts, instr, b)
                      /\ \A c \in captured[a] :
                           c \in captured[b] \/ (instr.op = "OP_CLOSE_UPVALUE" /\ c = heights[b])
                      /\ instr.op = "OP_CLOSURE" =>
                           \A i \in DOMAIN instr.captures :
                               instr.captures[i].local => instr.captures[i].index \in captured[b]

------------------------------------------------------------------------------
(***************************************************************************)
(* Counting upvalues                                                       *)
(***************************************************************************)
\* The upvalues that the code of a function may name.
Needs(program, counts, function) == counts.upvalues[program.data + function.ptr]

\* The instructions that look at the frame of the function that runs.
InFrame == {"OP_LOAD_LOCAL", "OP_SET_LOCAL", "OP_LOAD_UPVALUE", "OP_SET_UPVALUE", "OP_CLOSURE",
            "OP_RETURN_VOID", "OP_RETURN_VALUE"}

\* counts.upvalues[a] is the number of upvalues that the code at a may name.  A
\* function that needs some becomes a closure, with as many, right after it
\* has been made.
Resolved(program, counts) ==
    LET upvalues == counts.upvalues
    IN  /\ DOMAIN upvalues = DOMAIN counts.cells \ counts.setup
        /\ \A v \in HostValues : IsKind(v, "function") => Needs(program, counts, v.object) = 0
        /\ \A a \in DOMAIN counts.cells :
             LET instr == CellAt(program, a)
                 next  == CellAt(program, a + Width(instr))
             IN  /\ instr.op \in InFrame => a \notin counts.setup
                 /\ a \notin counts.setup =>
                      /\ upvalues[a] \in Nat
                      /\ \A b \in Follows(program, a) : upvalues[b] = upvalues[a]
                 /\ instr.op \in {"OP_LOAD_UPVALUE", "OP_SET_UPVALUE"} => instr.upvalue < upvalues[a]
                 /\ instr.op = "OP_CLOSURE" =>
                      \A i \in DOMAIN instr.captures :
                          instr.captures[i].local \/ instr.captures[i].index < upvalues[a]
                 /\ instr.op = "OP_FUNCTION" =>
                      IF next.op = "OP_CLOSURE"
                        THEN Needs(program, counts, instr) <= Len(next.captures)
                        ELSE Needs(program, counts, instr) = 0

------------------------------------------------------------------------------
(***************************************************************************)
(* Running such code                                                       *)
(***************************************************************************)
\* Where the cells of frame n begin; frame 0 stands for the setup, which lies
\* on the host's arguments.
Base(frames, args, n) == IF n = 0 THEN args ELSE frames[n].stack_addr

\* The code at a finds the cells it relies on when the stack has this size.
Covered(counts, a, frames, args, size) ==
    /\ a \in DOMAIN counts.cells
    /\ a \in counts.setup <=> frames = <<>>
    /\ Base(frames, args, Len(frames)) + counts.cells[a] <= size

\* Frame n lies on frame n - 1, and the code it returns to would find there
\* what it relies on if the frame left a value.  OP_BEGIN is the last
\* instruction: what it called returns to the end of the program.
Linked(program, counts, frames, args, n) ==
    LET a == frames[n].return_addr
    IN  \/ n = 1 /\ a = TotalSize(program)
        \/ /\ a \in DOMAIN counts.cells
           /\ a \in counts.setup <=> n = 1
           /\ Base(frames, args, n - 1) <= frames[n].stack_addr
           /\ Base(frames, args, n - 1) + counts.cells[a] <= frames[n].stack_addr + 1

\* What the counts say of every state of the machine.
Balanced(counts) ==
    exit = "RUNNING" =>
        IF host = Idle
          THEN pc = prog.data + prog.start /\ calls = <<>>
          ELSE /\ \A n \in 1 .. Len(calls) : Linked(prog, counts, calls, host.args, n)
               /\ \/ Covered(counts, pc, calls, host.args, stack.size)
                  \/ calls = <<>> /\ pc = TotalSize(prog)

\* What the exact counts say of it: the frame that runs has the height of its
\* code, and every other frame will have it when the call it waits for has
\* left what it should.
Level(counts) ==
    Running /\ HasFrame =>
        /\ stack.size = CurrentCall.stack_addr + counts.heights[pc]
        /\ \A n \in 2 .. Len(calls) :
             LET a == calls[n].return_addr
             IN  calls[n - 1].stack_addr + counts.heights[a]
                   = calls[n].stack_addr + IF a \in counts.wanted THEN 1 ELSE 0

\* The open upvalues below top belong to frames below n, or point to cells of
\* frame n that are captured where its code is at a.
Opened == { OpenAt(up, i) : i \in 1 .. Len(up.open) }
OnlyCaptured(counts, a, n, top) ==
    \A address \in Opened :
        address < top => /\ n # 0
                         /\ \/ address < calls[n].stack_addr
                            \/ address - calls[n].stack_addr \in counts.captured[a]

Captures(counts) ==
    exit = "RUNNING" =>
        IF host = Idle
          THEN Opened = {}
          ELSE /\ \A address \in Opened : address < stack.size
               /\ OnlyCaptured(counts, pc, Len(calls), stack.size)
               /\ \A n \in 1 .. Len(calls) :
                    OnlyCaptured(counts, calls[n].return_addr, n - 1, calls[n].stack_addr)

\* A value that may be called: its upvalues are all there.
Whole(counts, v) ==
    /\ v # Indeterminate
    /\ IsKind(v, "function") => Needs(prog, counts, v.object) = 0
    /\ IsKind(v, "closure") => Needs(prog, counts, v.object.function) <= Len(v.object.upvalues)

\* The function on top is about to become a closure.
Unfinished(counts) ==
    /\ Instr.op = "OP_CLOSURE"
    /\ IsKind(Peek(stack), "function")
    /\ Needs(prog, counts, Peek(stack).object) <= Len(Instr.captures)

\* What the counts of upvalues say of a state: every value that the program
\* can reach is whole, and every frame has the upvalues of its code.
Supplied(counts) ==
    exit = "RUNNING" =>
        /\ \A a \in 0 .. stack.size - 1 :
             Whole(counts, stack.cells[a]) \/ (a = stack.size - 1 /\ Unfinished(counts))
        /\ \A u \in 1 .. Len(up.heap) : Whole(counts, up.heap[u].closed)
        /\ \A name \in DOMAIN globals : Whole(counts, globals[name])
        /\ \A n \in 1 .. Len(calls) :
             LET a == IF n = Len(calls) THEN pc ELSE calls[n + 1].return_addr
             IN  counts.upvalues[a] <= Len(calls[n].closure)

(***************************************************************************)
(* Values that get lost                                                    *)
(***************************************************************************)
\* Does the code at a, in frame n, find fewer cells than it relies on?
Misses(counts, a, n, size) ==
    /\ a \in DOMAIN counts.cells
    /\ size < Base(calls, host.args, n) + counts.cells[a]

\* Where the machine goes on without a value that the counts expect: a push
\* nobody checks, a negated value that is no number, OP_BEGIN without its
\* function, a function or a native that leaves no value where one is used,
\* the value of a function that the setup calls.
LosesValue(counts) ==
    \/ At({"OP_LOAD_LOCAL", "OP_TOP", "OP_LOAD_GLOBAL", "OP_BEGIN"}) /\ ~CanPush(stack)
    \/ At({"OP_BEGIN"}) /\ ~Defined(host.function)
    \/ At({"OP_NEGATE"}) /\ CanPop(stack) /\ ~IsNumber(Peek(stack))
    \/ /\ HasFrame
       /\ At({"OP_RETURN_VOID"}) \/ (At({"OP_RETURN_VALUE"}) /\ Len(calls) = 1)
       /\ Misses(counts, CurrentCall.return_addr, Len(calls) - 1, CurrentCall.stack_addr)
    \/ /\ At({"OP_CALL"}) /\ CanPop(stack) /\ IsKind(Peek(stack), "native")
       /\ LET result == NativeResult(Peek(stack).object.native, Instr.argcount, Pop(stack))
          IN  result.exit = "none" /\ Misses(counts, AfterInstr, Len(calls), result.stack.size)

\* The hypothesis of what is proved about frames: a program whose counts are
\* right, in a state where no value gets lost.
Accounted == Verified(prog, prog.counts) /\ ~LosesValue(prog.counts)

\* The hypothesis of what is proved about the end of a run, where values may get
\* lost: every way through the setup leads to OP_BEGIN.
LeadsToBegin == Verified(prog, prog.counts) /\ ~At({"OP_HALT"})

\* Where a function or a native leaves a value that its caller does not want,
\* or none where it wants one.
Mismatches(counts) ==
    \/ /\ HasFrame /\ Len(calls) > 1 /\ At({"OP_RETURN_VOID", "OP_RETURN_VALUE"})
       /\ At({"OP_RETURN_VALUE"}) # (CurrentCall.return_addr \in counts.wanted)
    \/ /\ HasFrame /\ At({"OP_CALL"}) /\ CanPop(stack) /\ IsKind(Peek(stack), "native")
       /\ LET result == NativeResult(Peek(stack).object.native, Instr.argcount, Pop(stack))
          IN  /\ result.exit = "none"
              /\ result.stack.size # stack.size - Takes(Instr) + Leaves(counts, Instr, AfterInstr)

\* The hypothesis of what is proved about the size of frames.
AccountedExactly == Accounted /\ Exact(prog, prog.counts) /\ ~Mismatches(prog.counts)

\* Where the setup or the host calls a closure and call makes no frame of it:
\* the closure would be stored in a frame that there is not.
Refused(callee, argcount) ==
    IsKind(callee, "closure") /\ CallError(callee.object.function, argcount) # "none"
Strands ==
    /\ ~HasFrame
    /\ \/ At({"OP_CALL"}) /\ CanPop(stack) /\ Refused(Peek(stack), Instr.argcount)
       \/ At({"OP_BEGIN"}) /\ Defined(host.function)
                            /\ Refused(globals[host.function], host.args % U8)

\* The hypothesis of what is proved about undefined behaviour.
FullyAccounted == AccountedExactly /\ Resolved(prog, prog.counts) /\ ~Strands

------------------------------------------------------------------------------
(***************************************************************************)
(* Properties of programs that are accounted for                           *)
(***************************************************************************)
\* The frames of the functions that are running lie one above the other,
\* inside the live part of the stack.
FramesNested ==
    Running => \A i \in 1 .. Len(calls) :
        calls[i].stack_addr <= IF i = Len(calls) THEN stack.size ELSE calls[i + 1].stack_addr

\* Such a program can fail for what it does wrong, never because the code is
\* malformed or the stack lost a value.
InternalErrors == {"EXIT_STACK_EMPTY", "EXIT_INVALID_INSTRUCTION_POINTER"}
NoInternalError == exit \notin InternalErrors

\* The only way in which a function changes a variable of the functions
\* that called it is through an upvalue.
FrameIsolation ==
    [][Running /\ HasFrame =>
         \A a \in 0 .. CurrentCall.stack_addr - 1 :
             stack'.cells[a] # stack.cells[a] => At({"OP_SET_UPVALUE"})]_vars

\* The compiler addresses a local by counting declarations; the VM finds it
\* by counting cells from the frame's base.  Where a statement begins or a
\* list of statements ends, both counts must agree: the frame holds the locals
\* in scope, and no cell more.
StackDiscipline ==
    Running /\ HasFrame =>
        \A mark \in prog.marks :
            prog.data + mark.at = pc => stack.size - CurrentCall.stack_addr = mark.locals

\* No open upvalue points at or above the top of the stack, where the next
\* push would change a captured variable.
NoDanglingUpvalue ==
    Running => \A i \in 1 .. Len(up.open) : OpenAt(up, i) < stack.size

\* Running a program meets no undefined behaviour before its entry function
\* has returned to the end of the program.
DefinedUntilReturn == exit = "UNDEFINED" => calls = <<>> /\ pc = TotalSize(prog)
==============================================================================
