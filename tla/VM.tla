---------------------------------- MODULE VM ----------------------------------
(***************************************************************************)
(* The virtual machine: ch_vm_call's loop (src/vm/vm.c), one action for    *)
(* each instruction or family of instructions, and the calls a host makes  *)
(* through src/vm/chapman.h.                                               *)
(*                                                                         *)
(* The whole handler of an instruction is one step.  A handler that fails  *)
(* sets context->exit and may still change state before the loop looks at  *)
(* it; the model keeps those changes.  pcurrent is not read again once     *)
(* exit is set, so a failing handler may leave pc after its operands.      *)
(*                                                                         *)
(* The code has undefined behaviour where it reads a primitive that was    *)
(* never written, a call frame that does not exist, a null or foreign      *)
(* pointer.  The exit "UNDEFINED" stands for all that may follow, that the *)
(* run never ends included: the model stops there, and no property         *)
(* promises anything of what comes after it.                               *)
(***************************************************************************)
EXTENDS Stack, UpvalueList, Bytecode, Natives, SequencesExt

CONSTANTS Programs,      \* the programs ch_vm_newcontext may be given
          MaxCalls,      \* CH_CALL_STACK_SIZE
          U8, U32,       \* 2^8 and 2^32, the moduli of uint8_t and uint32_t
          HostNatives,   \* names of the natives the host registers
          HostValues,    \* values the host pushes as arguments
          Entries        \* names the host passes to ch_runfunction

ASSUME VMAssumption ==
    /\ MaxCalls \in Nat \ {0}
    /\ U8 \in Nat \ {0}
    /\ U32 \in Nat /\ U32 > MaxSize + U8
    /\ Indeterminate = Garbage
    /\ NullValue = Null

\* ch_newvm registers the natives of natives.c.
StandardNatives == {"size", "substring", "contains"}

\* The values that refer to no upvalue.
FunctionObjects == [kind : {"function"}, ptr : Nat, argcount : Nat]
PlainValues ==
    {Null}
    \cup [type : {"number"}, number : Int]
    \cup [type : {"boolean"}, boolean : BOOLEAN]
    \cup [type : {"char"}, char : Nat]
    \cup [type : {"object"},
          object : [kind : {"string"}, string : Seq(Nat)]
                   \cup FunctionObjects
                   \cup [kind : {"native"}, native : StandardNatives \cup HostNatives]]

\* Any bytecode will do; the natives are those module Natives knows, and a
\* host has no closures to push.
ASSUME ProgramsAssumption ==
    /\ NumberBound \in Nat
    /\ \A program \in Programs : IsProgram(program)
    /\ HostNatives \subseteq {"write", "prompt"}
    /\ HostValues \subseteq PlainValues
    /\ StandardNatives \cup HostNatives \cup Entries \subseteq STRING

VARIABLES prog,      \* context->program, chosen once
          pc,        \* pcurrent - pstart
          stack,     \* context->stack
          calls,     \* context->call_stack, the oldest frame first
          up,        \* the upvalues and open_upvalues
          globals,   \* context->globals: name -> value, for the names defined
          exit,      \* context->exit
          retval,    \* context->program_return_value
          host       \* what the host is doing: idle, or inside ch_runfunction

vars == <<prog, pc, stack, calls, up, globals, exit, retval, host>>

Exits == {"RUNNING", "EXIT_OK", "EXIT_UNKNOWN_INSTRUCTION", "EXIT_STACK_SIZE_EXCEEDED",
          "EXIT_STACK_EMPTY", "EXIT_PROGRAM_OUT_OF_INSTRUCTIONS",
          "EXIT_CALL_STACK_SIZE_EXCEEDED", "EXIT_INVALID_INSTRUCTION_POINTER",
          "EXIT_NOT_ENOUGH_ARGS_IN_STACK", "EXIT_INCORRECT_TYPE",
          "EXIT_GLOBAL_ALREADY_EXISTS", "EXIT_GLOBAL_NOT_FOUND",
          "EXIT_UNSUPPORTED_OPERATION", "EXIT_USER_ERROR", "UNDEFINED"}

Idle == [mode |-> "idle"]

\* ch_vm_newcontext, for the program the variable prog holds.
InitMachine ==
    /\ pc = prog.data + prog.start
    /\ stack = CreateStack
    /\ calls = <<>>
    /\ up = NoUpvalues
    /\ globals = [name \in StandardNatives |-> Object(Native(name))]
    /\ exit = "RUNNING"
    /\ retval = Null
    /\ host = Idle

Init == prog \in Programs /\ InitMachine

------------------------------------------------------------------------------
(***************************************************************************)
(* Fetching                                                                *)
(***************************************************************************)
\* Variant: the loop does not look at exit.
RunningOn == host # Idle

Running == host # Idle /\ exit = "RUNNING"

Instr == CellAt(prog, pc)

At(ops) == Running /\ HasInstruction(prog, pc) /\ Instr.op \in ops

AfterInstr == pc + Width(Instr)

\* Undefined behaviour: nothing the model says about the state matters now.
Undefined ==
    /\ exit' = "UNDEFINED"
    /\ UNCHANGED <<prog, pc, stack, calls, up, globals, retval, host>>

HasFrame == calls # <<>>
CurrentCall == calls[Len(calls)]

\* STACK_PUSH onto a stack st the handler has already changed.
PushOrHalt(st, v) ==
    /\ stack' = Push(st, v)
    /\ exit' = IF CanPush(st) THEN exit ELSE "EXIT_STACK_SIZE_EXCEEDED"

StackEmpty ==
    /\ ~CanPop(stack)
    /\ exit' = "EXIT_STACK_EMPTY"
    /\ UNCHANGED stack

RuntimeError(st, reason) == stack' = st /\ exit' = reason

\* The loop reads *pcurrent without comparing it with pend.  Outside the
\* bytecode, or in the middle of an instruction, it finds some byte.  One that
\* is OP_HALT or no opcode ends the run.  Any other is executed, with operands
\* and successors that no program wrote: "UNDEFINED" stands for all of that,
\* whether the machine runs on, crashes or never returns.
FetchStray ==
    /\ Running
    /\ ~HasInstruction(prog, pc)
    /\ exit' \in {"EXIT_OK", "EXIT_UNKNOWN_INSTRUCTION", "UNDEFINED"}
    /\ UNCHANGED <<prog, pc, stack, calls, up, globals, retval, host>>

------------------------------------------------------------------------------
(***************************************************************************)
(* Values and operators                                                    *)
(***************************************************************************)
Literal(instr) ==
    CASE instr.op = "OP_NUMBER" -> Number(instr.number)
      [] instr.op = "OP_STRING" -> Object(String(instr.string))
      [] instr.op = "OP_CHAR"   -> Char(instr.char)
      [] instr.op = "OP_TRUE"   -> Boolean(TRUE)
      [] instr.op = "OP_FALSE"  -> Boolean(FALSE)
      [] instr.op = "OP_NULL"   -> Null
      [] instr.op = "OP_FUNCTION" -> Object(Function(instr.ptr, instr.argcount))

PushLiteral ==
    /\ At({"OP_NUMBER", "OP_STRING", "OP_CHAR", "OP_TRUE", "OP_FALSE", "OP_NULL",
           "OP_FUNCTION"})
    /\ pc' = AfterInstr
    /\ PushOrHalt(stack, Literal(Instr))
    /\ UNCHANGED <<prog, calls, up, globals, retval, host>>

\* binary_op_number: the possible results.  args[0] is the value popped
\* first, the right operand of the source, and it comes first here too.
BinaryNumber(op, arg0, arg1) ==
    CASE op = "OP_ADD" -> { Rounded(arg0 + arg1) }
      [] op = "OP_SUB" -> { Rounded(arg0 - arg1) }
      [] op = "OP_MUL" -> { Rounded(arg0 * arg1) }
      [] op = "OP_DIV" -> Quotients(arg0, arg1)

\* Variant: the operands in the order they were popped.
ConcatenatedAsPopped(left, right) == right \o left

\* binary_op_string, for OP_ADD.
Concatenated(left, right) == left \o right

BinaryOp ==
    /\ At(Arithmetic)
    /\ LET left  == Peek(Pop(stack))
           right == Peek(stack)
           rest  == Pop(Pop(stack))
       IN  IF stack.size < 2 \/ Indeterminate \in {left, right}
             THEN Undefined
             ELSE /\ pc' = AfterInstr
                  /\ UNCHANGED <<prog, calls, up, globals, retval, host>>
                  /\ \/ /\ IsNumber(left) /\ IsNumber(right)
                        /\ \E n \in BinaryNumber(Instr.op, right.number, left.number) :
                             PushOrHalt(rest, Number(n))
                     \/ /\ IsKind(left, "string") /\ IsKind(right, "string")
                        /\ IF Instr.op = "OP_ADD"
                             THEN PushOrHalt(rest, Object(String(Concatenated(left.object.string,
                                                                         right.object.string))))
                             ELSE RuntimeError(Push(rest, Null), "EXIT_UNSUPPORTED_OPERATION")
                     \/ /\ ~(IsNumber(left) /\ IsNumber(right))
                        /\ ~(IsKind(left, "string") /\ IsKind(right, "string"))
                        /\ RuntimeError(rest, "EXIT_INCORRECT_TYPE")

\* OP_ADDONE and OP_SUBONE.
Step ==
    /\ At({"OP_ADDONE", "OP_SUBONE"})
    /\ IF CanPop(stack) /\ Peek(stack) = Indeterminate
         THEN Undefined
         ELSE /\ pc' = AfterInstr
              /\ UNCHANGED <<prog, calls, up, globals, retval, host>>
              /\ \/ StackEmpty
                 \/ /\ CanPop(stack)
                    /\ IF IsNumber(Peek(stack))
                         THEN PushOrHalt(Pop(stack),
                                Number(Rounded(Peek(stack).number
                                         + IF Instr.op = "OP_ADDONE" THEN 1 ELSE -1)))
                         ELSE RuntimeError(Pop(stack), "EXIT_INCORRECT_TYPE")

\* A value that is not a number is dropped without an error.
Negate ==
    /\ At({"OP_NEGATE"})
    /\ IF CanPop(stack) /\ Peek(stack) = Indeterminate
         THEN Undefined
         ELSE /\ pc' = AfterInstr
              /\ UNCHANGED <<prog, calls, up, globals, retval, host>>
              /\ \/ StackEmpty
                 \/ /\ CanPop(stack)
                    /\ IF IsNumber(Peek(stack))
                         THEN PushOrHalt(Pop(stack), Number(-Peek(stack).number))
                         ELSE stack' = Pop(stack) /\ UNCHANGED exit

HaltOp ==
    /\ At({"OP_HALT"})
    /\ pc' = AfterInstr
    /\ exit' = "EXIT_OK"
    /\ UNCHANGED <<prog, stack, calls, up, globals, retval, host>>

PopOp ==
    /\ At({"OP_POP"})
    /\ pc' = AfterInstr
    /\ \/ StackEmpty
       \/ CanPop(stack) /\ stack' = Pop(stack) /\ UNCHANGED exit
    /\ UNCHANGED <<prog, calls, up, globals, retval, host>>

\* OP_POPN: the count passes through the uint8_t parameter of ch_stack_popn.
PopNOp ==
    /\ At({"OP_POPN"})
    /\ pc' = AfterInstr
    /\ stack' = PopN(stack, Instr.count % U8)
    /\ UNCHANGED <<prog, calls, up, globals, exit, retval, host>>

\* OP_TOP: on an empty stack the address wraps to a huge one, and on a full
\* stack nothing is pushed; neither is reported.
TopOp ==
    /\ At({"OP_TOP"})
    /\ pc' = AfterInstr
    /\ stack' = Copy(stack, (stack.size - 1) % U32)
    /\ UNCHANGED <<prog, calls, up, globals, exit, retval, host>>

------------------------------------------------------------------------------
(***************************************************************************)
(* Variables                                                               *)
(***************************************************************************)
\* Variant: a local is found from the bottom of the stack.
LocalAddressFromBottom(offset) == offset % U8

\* The address of a local: uint32_t arithmetic on a uint8_t offset.
LocalAddress(offset) == (CurrentCall.stack_addr + (offset % U8)) % U32

LoadLocal ==
    /\ At({"OP_LOAD_LOCAL"})
    /\ IF ~HasFrame
         THEN Undefined
         ELSE /\ pc' = AfterInstr
              /\ stack' = Copy(stack, LocalAddress(Instr.local))
              /\ UNCHANGED <<prog, calls, up, globals, exit, retval, host>>

SetLocal ==
    /\ At({"OP_SET_LOCAL"})
    /\ IF CanPop(stack) /\ ~HasFrame
         THEN Undefined
         ELSE /\ pc' = AfterInstr
              /\ UNCHANGED <<prog, calls, up, globals, retval, host>>
              /\ \/ StackEmpty
                 \/ /\ CanPop(stack)
                    /\ stack' = Set(Pop(stack), LocalAddress(Instr.local), Peek(stack))
                    /\ UNCHANGED exit

\* May *upvalue->value be used?  Not a null pointer, not one past the block.
Readable(u) == up.heap[u].value \in Addresses \cup {OwnCell}

\* Does the running closure have an upvalue of this index?  A frame of a
\* plain function holds a null closure, here one without upvalues.
HasUpvalue(index) == HasFrame /\ index < Len(CurrentCall.closure)
UpvalueAt(index)  == CurrentCall.closure[index + 1]

LoadUpvalue ==
    /\ At({"OP_LOAD_UPVALUE"})
    /\ IF ~HasUpvalue(Instr.upvalue) \/ ~Readable(UpvalueAt(Instr.upvalue))
         THEN Undefined
         ELSE /\ pc' = AfterInstr
              /\ PushOrHalt(stack, Deref(up, stack.cells, UpvalueAt(Instr.upvalue)))
              /\ UNCHANGED <<prog, calls, up, globals, retval, host>>

SetUpvalue ==
    /\ At({"OP_SET_UPVALUE"})
    /\ LET u == UpvalueAt(Instr.upvalue)
       IN  IF CanPop(stack) /\ (~HasUpvalue(Instr.upvalue) \/ ~Readable(u))
             THEN Undefined
             ELSE /\ pc' = AfterInstr
                  /\ UNCHANGED <<prog, calls, globals, retval, host>>
                  /\ \/ StackEmpty /\ UNCHANGED up
                     \/ /\ CanPop(stack)
                        /\ up' = AssignOwn(up, u, Peek(stack))
                        /\ stack' = [Pop(stack) EXCEPT !.cells =
                                        AssignCell(@, up, u, Peek(stack))]
                        /\ UNCHANGED exit

\* close_upvalues dereferences the pointer of every upvalue it closes.
CanClose(last) == \A u \in ClosedBy(up, last) : Readable(u)

\* OP_CLOSE_UPVALUE: with an empty stack, ch_stack_get answers NULL and all
\* open upvalues are closed.
CloseUpvalue ==
    /\ At({"OP_CLOSE_UPVALUE"})
    /\ LET closed == Get(stack, (stack.size - 1) % U32)
       IN  IF ~CanClose(closed)
             THEN Undefined
             ELSE /\ pc' = AfterInstr
                  /\ up' = CloseUpvalues(up, stack.cells, closed)
                  /\ stack' = PopN(stack, 1)
                  /\ UNCHANGED <<prog, calls, globals, exit, retval, host>>

Defined(name) == name \in DOMAIN globals

\* set_global, for OP_DEFINE_GLOBAL (create) and OP_SET_GLOBAL.  Both
\* failures are reported as EXIT_GLOBAL_NOT_FOUND.
SetGlobal ==
    /\ At({"OP_DEFINE_GLOBAL", "OP_SET_GLOBAL"})
    /\ pc' = AfterInstr
    /\ UNCHANGED <<prog, calls, up, retval, host>>
    /\ LET create == Instr.op = "OP_DEFINE_GLOBAL"
       IN  \/ StackEmpty /\ UNCHANGED globals
           \/ /\ CanPop(stack)
              /\ create = Defined(Instr.name)
              /\ RuntimeError(Pop(stack), "EXIT_GLOBAL_NOT_FOUND")
              /\ UNCHANGED globals
           \/ /\ CanPop(stack)
              /\ create # Defined(Instr.name)
              /\ globals' = [name \in DOMAIN globals \cup {Instr.name} |->
                               IF name = Instr.name THEN Peek(stack) ELSE globals[name]]
              /\ stack' = Pop(stack)
              /\ UNCHANGED exit

\* Variant: a name that is not defined is not reported.
ExitKept(name) == exit

\* get_global: the stack it leaves and the exit it sets.  The push of the
\* value is not checked: on a full stack the value is lost.
StackWithGlobal(name) == IF Defined(name) THEN Push(stack, globals[name]) ELSE stack
ExitOfGlobal(name) == IF Defined(name) THEN exit ELSE "EXIT_GLOBAL_NOT_FOUND"

LoadGlobal ==
    /\ At({"OP_LOAD_GLOBAL"})
    /\ pc' = AfterInstr
    /\ stack' = StackWithGlobal(Instr.name)
    /\ exit' = ExitOfGlobal(Instr.name)
    /\ UNCHANGED <<prog, calls, up, globals, retval, host>>

------------------------------------------------------------------------------
(***************************************************************************)
(* Functions and closures                                                  *)
(***************************************************************************)
\* One round of OP_CLOSURE's loop: capture a variable of the enclosing
\* function, or share an upvalue of the enclosing closure.
CaptureOne(state, capture) ==
    IF capture.local
      THEN LET cell == Get(stack, (CurrentCall.stack_addr + capture.index) % U32)
           IN  [up   |-> CaptureUpvalue(state.up, cell),
                refs |-> Append(state.refs, Captured(state.up, cell))]
      ELSE [state EXCEPT !.refs = Append(@, UpvalueAt(capture.index))]

CanCapture(capture) == IF capture.local THEN HasFrame ELSE HasUpvalue(capture.index)

\* The whole loop: the state after the last round.
CaptureAll(captures) ==
    LET after[n \in 0 .. Len(captures)] ==
            IF n = 0 THEN [up |-> up, refs |-> <<>>]
                     ELSE CaptureOne(after[n - 1], captures[n])
    IN  after[Len(captures)]

\* The closure takes the place of its function on the stack before the loop
\* captures, so the loop sees a stack of the same size.
MakeClosure ==
    /\ At({"OP_CLOSURE"})
    /\ LET made == CaptureAll(Instr.captures)
           captures == { Instr.captures[i] : i \in DOMAIN Instr.captures }
       IN  IF CanPop(stack) /\ \/ Peek(stack) = Indeterminate
                               \/ /\ IsKind(Peek(stack), "function")
                                  /\ \E c \in captures : ~CanCapture(c)
             THEN Undefined
             ELSE /\ pc' = AfterInstr
                  /\ UNCHANGED <<prog, calls, globals, retval, host>>
                  /\ \/ StackEmpty /\ UNCHANGED up
                     \/ /\ CanPop(stack)
                        /\ ~IsKind(Peek(stack), "function")
                        /\ RuntimeError(Pop(stack), "EXIT_USER_ERROR")
                        /\ UNCHANGED up
                     \/ /\ CanPop(stack)
                        /\ IsKind(Peek(stack), "function")
                        /\ up' = made.up
                        /\ stack' = Push(Pop(stack),
                                         Object(Closure(Peek(stack).object, made.refs)))
                        /\ UNCHANGED exit

\* Variant: one frame more than the call stack has.
CallErrorOneLate(function, argcount) ==
    IF Len(calls) > MaxCalls THEN "EXIT_STACK_SIZE_EXCEEDED"
    ELSE IF argcount # function.argcount THEN "EXIT_NOT_ENOUGH_ARGS_IN_STACK"
    ELSE IF ~IsProgramPtrSafe(prog, prog.data + function.ptr)
      THEN "EXIT_INVALID_INSTRUCTION_POINTER"
    ELSE "none"

\* The checks of call, in the order it makes them.
CallError(function, argcount) ==
    IF Len(calls) >= MaxCalls THEN "EXIT_STACK_SIZE_EXCEEDED"
    ELSE IF argcount # function.argcount THEN "EXIT_NOT_ENOUGH_ARGS_IN_STACK"
    ELSE IF ~IsProgramPtrSafe(prog, prog.data + function.ptr)
      THEN "EXIT_INVALID_INSTRUCTION_POINTER"
    ELSE "none"

\* Variant: the frame begins above the arguments.
FrameAboveArguments(function, st) == st.size % U32

\* The arguments are already on the stack: they are the callee's first locals.
FrameStart(function, st) == (st.size - function.argcount) % U32

\* call, from a handler that leaves the stack st and the exit ex.
Enter(function, upvalues, argcount, st, ex) ==
    /\ CallError(function, argcount) = "none"
    /\ calls' = Append(calls, [return_addr |-> AfterInstr,
                               stack_addr  |-> FrameStart(function, st),
                               closure     |-> upvalues])
    /\ pc' = prog.data + function.ptr
    /\ stack' = st
    /\ exit' = ex
    /\ UNCHANGED <<prog, up, globals, retval, host>>

CallFails(function, argcount, st) ==
    /\ CallError(function, argcount) # "none"
    /\ pc' = AfterInstr
    /\ RuntimeError(st, CallError(function, argcount))
    /\ UNCHANGED <<prog, up, globals, retval, host>>

\* try_call, from a handler that leaves the stack st and the exit ex.
CallFunction(function, argcount, st, ex) ==
    \/ Enter(function, <<>>, argcount, st, ex)
    \/ CallFails(function, argcount, st) /\ UNCHANGED calls

\* A closure is stored in the current frame even when call made none: in
\* the caller's frame, or, without any frame, over context->stack.size.
CallClosure(closure, argcount, st, ex) ==
    \/ Enter(closure.function, closure.upvalues, argcount, st, ex)
    \/ /\ HasFrame
       /\ CallFails(closure.function, argcount, st)
       /\ calls' = [calls EXCEPT ![Len(calls)].closure = closure.upvalues]
    \/ /\ ~HasFrame
       /\ CallError(closure.function, argcount) # "none"
       /\ Undefined

CallNative(name, argcount, st, ex) ==
    LET result == NativeResult(name, argcount, st)
    IN  IF NativeUndefined(argcount, st)
          THEN Undefined
          ELSE /\ stack' = result.stack
               /\ exit' = IF result.exit = "none" THEN ex ELSE result.exit
               /\ pc' = AfterInstr
               /\ UNCHANGED <<prog, calls, up, globals, retval, host>>

TryCall(callee, argcount, st, ex) ==
    \/ /\ IsKind(callee, "function")
       /\ CallFunction(callee.object, argcount, st, ex)
    \/ /\ IsKind(callee, "closure")
       /\ CallClosure(callee.object, argcount, st, ex)
    \/ /\ IsKind(callee, "native")
       /\ CallNative(callee.object.native, argcount, st, ex)
    \/ /\ callee = Indeterminate
       /\ Undefined
    \/ /\ callee # Indeterminate
       /\ \A kind \in {"function", "closure", "native"} : ~IsKind(callee, kind)
       /\ RuntimeError(st, "EXIT_INCORRECT_TYPE")
       /\ pc' = AfterInstr
       /\ UNCHANGED <<prog, calls, up, globals, retval, host>>

Call ==
    /\ At({"OP_CALL"})
    /\ \/ /\ StackEmpty
          /\ pc' = AfterInstr
          /\ UNCHANGED <<prog, calls, up, globals, retval, host>>
       \/ /\ CanPop(stack)
          /\ TryCall(Peek(stack), Instr.argcount, Pop(stack), exit)

\* OP_BEGIN calls the function the host asked for with everything that was
\* on the stack when ch_runfunction was called.  A failure of get_global is
\* not looked at: the handler goes on with whatever is on the stack, and
\* may overwrite the exit.
Begin ==
    /\ At({"OP_BEGIN"})
    /\ LET st == StackWithGlobal(host.function)
           ex == ExitOfGlobal(host.function)
       IN  \/ /\ ~CanPop(st)
              /\ RuntimeError(st, "EXIT_STACK_EMPTY")
              /\ pc' = AfterInstr
              /\ UNCHANGED <<prog, calls, up, globals, retval, host>>
           \/ /\ CanPop(st)
              /\ TryCall(Peek(st), host.args % U8, Pop(st), ex)

\* call_return: the frame's variables go away and its upvalues are closed.
\* A frame base above the top closes every upvalue and drops nothing.
FrameBase == Get(stack, CurrentCall.stack_addr)
\* Variant: a return empties the stack of all frames.
ReturnToBottom(st) == SeekTo(st, 0)

Return(st) == SeekTo(st, CurrentCall.stack_addr)

\* Variant: the upvalues of the frame stay open.
LeaveFrameOpen(last) ==
    /\ calls' = Front(calls)
    /\ pc' = CurrentCall.return_addr
    /\ UNCHANGED <<prog, up, globals, host>>

LeaveFrame(last) ==
    /\ up' = CloseUpvalues(up, stack.cells, last)
    /\ calls' = Front(calls)
    /\ pc' = CurrentCall.return_addr
    /\ UNCHANGED <<prog, globals, host>>

ReturnVoid ==
    /\ At({"OP_RETURN_VOID"})
    /\ IF ~HasFrame \/ ~CanClose(FrameBase)
         THEN Undefined
         ELSE /\ LeaveFrame(FrameBase)
              /\ stack' = Return(stack)
              /\ UNCHANGED <<exit, retval>>

\* The value popped is the caller's operand, except when no frame is left:
\* then it is the program's return value, and nothing is pushed.
ReturnValue ==
    /\ At({"OP_RETURN_VALUE"})
    /\ LET last == Get(Pop(stack), CurrentCall.stack_addr)
           st   == Return(Pop(stack))
       IN  IF CanPop(stack) /\ (~HasFrame \/ ~CanClose(last))
             THEN Undefined
             ELSE \/ /\ StackEmpty
                     /\ pc' = AfterInstr
                     /\ UNCHANGED <<prog, calls, up, globals, retval, host>>
                  \/ /\ CanPop(stack)
                     /\ LeaveFrame(last)
                     /\ IF Len(calls) > 1
                          THEN PushOrHalt(st, Peek(stack)) /\ UNCHANGED retval
                          ELSE stack' = st /\ retval' = Peek(stack) /\ UNCHANGED exit

------------------------------------------------------------------------------
(***************************************************************************)
(* Jumps                                                                   *)
(***************************************************************************)
\* jump: the offset counts from the end of the instruction.
Jump ==
    LET target == AfterInstr + Instr.offset
    IN  IF IsProgramPtrSafe(prog, target)
          THEN pc' = target /\ UNCHANGED exit
          ELSE pc' = AfterInstr /\ exit' = "EXIT_INVALID_INSTRUCTION_POINTER"

JumpOp ==
    /\ At({"OP_JMP"})
    /\ Jump
    /\ UNCHANGED <<prog, stack, calls, up, globals, retval, host>>

\* The condition stays on the stack.
JumpFalse ==
    /\ At({"OP_JMP_FALSE"})
    /\ IF ~CanPop(stack) \/ Peek(stack) = Indeterminate
         THEN Undefined
         ELSE /\ IF IsFalsy(Peek(stack)) THEN Jump ELSE pc' = AfterInstr /\ UNCHANGED exit
              /\ UNCHANGED <<prog, stack, calls, up, globals, retval, host>>

KnownOps == WithPtr \cup WithByte \cup Arithmetic \cup
    {"OP_HALT", "OP_POP", "OP_TOP", "OP_NEGATE", "OP_ADDONE", "OP_SUBONE", "OP_FALSE",
     "OP_TRUE", "OP_NULL", "OP_CLOSE_UPVALUE", "OP_BEGIN", "OP_RETURN_VOID",
     "OP_RETURN_VALUE", "OP_FUNCTION", "OP_CLOSURE"}

\* OP_NATIVE, the one opcode of ops.h the loop has no case for.
UnknownOp ==
    /\ Running
    /\ HasInstruction(prog, pc)
    /\ Instr.op \notin KnownOps
    /\ pc' = pc + 1
    /\ exit' = "EXIT_UNKNOWN_INSTRUCTION"
    /\ UNCHANGED <<prog, stack, calls, up, globals, retval, host>>

------------------------------------------------------------------------------
(***************************************************************************)
(* The host                                                                *)
(***************************************************************************)
\* ch_addnative: an existing global is replaced and reported all the same.
AddNative(name) ==
    /\ host = Idle
    /\ globals' = [n \in DOMAIN globals \cup {name} |->
                     IF n = name THEN Object(Native(name)) ELSE globals[n]]
    /\ exit' = IF Defined(name) THEN "EXIT_GLOBAL_ALREADY_EXISTS" ELSE exit
    /\ UNCHANGED <<prog, pc, stack, calls, up, retval, host>>

HostPush(v) ==
    /\ host = Idle
    /\ stack' = Push(stack, v)
    /\ UNCHANGED <<prog, pc, calls, up, globals, exit, retval, host>>

HostPop ==
    /\ host = Idle
    /\ stack' = Pop(stack)
    /\ UNCHANGED <<prog, pc, calls, up, globals, exit, retval, host>>

\* ch_runfunction: initial_stack_size is read once, before the loop.  Where an
\* exit is set already the loop ends before its first instruction.
RunFunction(name) ==
    /\ host = Idle
    /\ host' = [mode |-> IF exit = "RUNNING" THEN "running" ELSE "spent",
                function |-> name, args |-> stack.size]
    /\ UNCHANGED <<prog, pc, stack, calls, up, globals, exit, retval>>

\* The loop ends as soon as exit is set; retval goes to the host.
FinishRun ==
    /\ host # Idle
    /\ exit # "RUNNING"
    /\ host' = Idle
    /\ UNCHANGED <<prog, pc, stack, calls, up, globals, exit, retval>>

Execute ==
    \/ FetchStray \/ PushLiteral \/ BinaryOp \/ Step \/ Negate \/ HaltOp
    \/ PopOp \/ PopNOp \/ TopOp
    \/ LoadLocal \/ SetLocal \/ LoadUpvalue \/ SetUpvalue \/ CloseUpvalue
    \/ SetGlobal \/ LoadGlobal
    \/ MakeClosure \/ Call \/ Begin \/ ReturnVoid \/ ReturnValue
    \/ JumpOp \/ JumpFalse \/ UnknownOp

HostCall ==
    \/ \E name \in HostNatives : AddNative(name)
    \/ \E v \in HostValues : HostPush(v)
    \/ HostPop
    \/ \E name \in Entries : RunFunction(name)

Next == Execute \/ FinishRun \/ HostCall

Spec == Init /\ [][Next]_vars

------------------------------------------------------------------------------
(***************************************************************************)
(* Properties of every program, whatever its bytecode                      *)
(***************************************************************************)
UpvalueRefs == 1 .. Len(up.heap)

\* All values: Garbage is what an indeterminate cell holds.
Value ==
    PlainValues \cup {Garbage}
    \cup [type : {"object"},
          object : [kind : {"closure"}, function : FunctionObjects, upvalues : Seq(UpvalueRefs)]]

TypeOK ==
    /\ IsProgram(prog)
    /\ pc \in Int
    /\ stack \in StackOf(Value)
    /\ calls \in Seq([return_addr : Nat, stack_addr : 0 .. U32 - 1,
                      closure : Seq(UpvalueRefs)])
    /\ Len(calls) <= MaxCalls
    /\ up.heap \in Seq([value : Addresses \cup {NULL, OwnCell, MaxSize}, closed : Value])
    /\ up.open \in Seq(UpvalueRefs)
    /\ DOMAIN globals \subseteq STRING
    /\ \A name \in DOMAIN globals : globals[name] \in Value
    /\ exit \in Exits
    /\ retval \in Value
    /\ host \in {Idle} \cup [mode : {"running", "spent"}, function : Entries,
                            args : 0 .. MaxSize]

\* Whatever the program does to the stack under it, the list of open upvalues
\* is sorted, highest address first, without duplicates, as the loops of
\* capture_upvalue and close_upvalues rely on; and an upvalue is on the list
\* exactly while it points into the stack.
OpenListExact == Sorted(up) /\ Complete(up)

\* ch_stack_set accepts the address just above the top.  OP_SET_LOCAL pops
\* first, so even on a full stack it writes inside the block; ch_stack_copy
\* refuses a full stack, so OP_LOAD_LOCAL reads inside the block.
LocalsInBlock ==
    At({"OP_LOAD_LOCAL", "OP_SET_LOCAL"}) /\ HasFrame /\ CanPop(stack) =>
        LET address == LocalAddress(Instr.local)
        IN  /\ Instr.op = "OP_SET_LOCAL" /\ AddressOk(Pop(stack), address)
                 => address \in Addresses
            /\ Instr.op = "OP_LOAD_LOCAL" /\ CanCopy(stack, address)
                 => address \in Addresses

\* Leaving a function closes every upvalue of its frame, so that none is left
\* open at or above the frame's base, and gives up its cells: at most one value
\* is left there, the one it returns.
ReturnClosesFrame ==
    [][Len(calls') < Len(calls) =>
         /\ \A i \in 1 .. Len(up'.open) : OpenAt(up', i) < CurrentCall.stack_addr
         /\ stack'.size <= CurrentCall.stack_addr + 1]_vars

\* A machine runs once: after exit is set nothing executes any more, and a
\* second ch_runfunction answers with the return value of the first.
ExitIsFinal ==
    [][exit # "RUNNING" =>
         /\ exit' \in {exit, "EXIT_GLOBAL_ALREADY_EXISTS"}
         /\ UNCHANGED <<pc, calls, up, retval>>]_vars

\* A run that executes and ends in success has found the function it was asked
\* for: a name that the setup does not define never looks like a success,
\* whatever OP_BEGIN finds on the stack in its place, even a callable value,
\* which it then calls.  (A run of a spent context executes nothing, and repeats
\* the exit and the value of the run before it, whatever name it is given.)
UnknownFunctionFails ==
    host # Idle /\ host.mode = "running" /\ exit = "EXIT_OK" => Defined(host.function)
==============================================================================
