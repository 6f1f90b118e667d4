------------------------------- MODULE VMProofs -------------------------------
(***************************************************************************)
(* The safety of the machine for every program, every size of the stack,   *)
(* the call stack and the heap: whatever the bytecode does, the machine    *)
(* stays well typed, its list of open upvalues sorted and complete, and a  *)
(* return closes the upvalues of its frame.                                *)
(*                                                                         *)
(* No instruction is trusted.  What the proofs need from a program is that *)
(* its bytes decode (IsProgram); addresses, counts, offsets and indices    *)
(* are whatever they are.                                                  *)
(*                                                                         *)
(* The last part is about the programs of module Balance.  Those in which  *)
(* every instruction finds on its own frame what it takes keep their       *)
(* frames nested and apart, and the machine never finds them malformed.    *)
(* Those that are also counted exactly have frames of the height that the  *)
(* compiler counted on, and no upvalue outlives the cell it points to.     *)
(* Where the upvalues are counted too, nothing undefined is executed.      *)
(***************************************************************************)
EXTENDS Balance, MemoryProofs

------------------------------------------------------------------------------
(***************************************************************************)
(* Values and instructions                                                 *)
(***************************************************************************)
\* The values there are when h upvalues have been allocated and every function
\* is one of fs.
PlainOf(fs) ==
    {Null}
    \cup [type : {"number"}, number : Int]
    \cup [type : {"boolean"}, boolean : BOOLEAN]
    \cup [type : {"char"}, char : Nat]
    \cup [type : {"object"},
          object : [kind : {"string"}, string : Seq(Nat)]
                   \cup fs
                   \cup [kind : {"native"}, native : StandardNatives \cup HostNatives]]
ClosureValues(fs, h) ==
    [type : {"object"},
     object : [kind : {"closure"}, function : fs, upvalues : Seq(1 .. h)]]
ValueOf(fs, h) == PlainOf(fs) \cup {Garbage} \cup ClosureValues(fs, h)

LEMMA ValueMonotonic ==
    ASSUME NEW fs \in SUBSET FunctionObjects,
           NEW h \in Nat, NEW k \in Nat, h <= k
    PROVE  ValueOf(fs, h) \subseteq ValueOf(fs, k) /\ Seq(1 .. h) \subseteq Seq(1 .. k)
<1>1. 1 .. h \subseteq 1 .. k
  OBVIOUS
<1>2. \A seq \in Seq(1 .. h) : seq \in Seq(1 .. k)
  BY <1>1, SeqMonotonic
<1>3. ClosureValues(fs, h) \subseteq ClosureValues(fs, k)
  BY <1>2 DEF ClosureValues
<1> QED BY <1>2, <1>3 DEF ValueOf

\* What the instructions and the natives make.
LEMMA MadeValues ==
    ASSUME NEW fs \in SUBSET FunctionObjects,
           NEW h
    PROVE  /\ Null \in ValueOf(fs, h) /\ Garbage \in ValueOf(fs, h)
           /\ \A n \in Int : Number(n) \in ValueOf(fs, h)
           /\ \A b \in BOOLEAN : Boolean(b) \in ValueOf(fs, h)
           /\ \A c \in Nat : Char(c) \in ValueOf(fs, h)
           /\ \A s \in Seq(Nat) : Object(String(s)) \in ValueOf(fs, h)
           /\ \A f \in fs : Object(f) \in ValueOf(fs, h)
           /\ \A name \in StandardNatives \cup HostNatives : Object(Native(name)) \in ValueOf(fs, h)
           /\ \A f \in fs, refs \in Seq(1 .. h) :
                Object(Closure(f, refs)) \in ValueOf(fs, h)
<1>1. Null \in ValueOf(fs, h) /\ Garbage \in ValueOf(fs, h)
  BY DEF ValueOf, PlainOf
<1>2. \A n \in Int : Number(n) \in ValueOf(fs, h)
  BY DEF ValueOf, PlainOf, Number
<1>3. \A b \in BOOLEAN : Boolean(b) \in ValueOf(fs, h)
  BY DEF ValueOf, PlainOf, Boolean
<1>4. \A c \in Nat : Char(c) \in ValueOf(fs, h)
  BY DEF ValueOf, PlainOf, Char
<1>5. \A s \in Seq(Nat) : Object(String(s)) \in ValueOf(fs, h)
  BY DEF ValueOf, PlainOf, Object, String
<1>6. \A f \in fs : Object(f) \in ValueOf(fs, h)
  BY DEF ValueOf, PlainOf, Object
<1>7. \A name \in StandardNatives \cup HostNatives : Object(Native(name)) \in ValueOf(fs, h)
  BY DEF ValueOf, PlainOf, Object, Native
<1>8. \A f \in fs, refs \in Seq(1 .. h) : Object(Closure(f, refs)) \in ValueOf(fs, h)
  BY DEF ValueOf, ClosureValues, Object, Closure
<1> QED BY <1>1, <1>2, <1>3, <1>4, <1>5, <1>6, <1>7, <1>8

\* What a handler may rely on once it has looked at the kind of a value.
LEMMA KnownKinds ==
    ASSUME NEW fs \in SUBSET FunctionObjects,
           NEW h, NEW v \in ValueOf(fs, h)
    PROVE  /\ IsNumber(v) => v.number \in Int
           /\ IsKind(v, "string") => v.object.string \in Seq(Nat)
           /\ IsKind(v, "function") => v.object \in fs
           /\ IsKind(v, "native") => v.object.native \in StandardNatives \cup HostNatives
           /\ IsKind(v, "closure") => /\ v.object.function \in fs
                                      /\ v.object.upvalues \in Seq(1 .. h)
<1>1. IsNumber(v) => v.number \in Int
  BY DEF IsNumber, ValueOf, PlainOf, ClosureValues, Null, Garbage
<1>2. ASSUME NEW kind, IsKind(v, kind)
      PROVE  /\ v.object.kind = kind
             /\ v.object \in [kind : {"string"}, string : Seq(Nat)] \cup fs
                     \cup [kind : {"native"}, native : StandardNatives \cup HostNatives]
                     \cup [kind : {"closure"}, function : fs, upvalues : Seq(1 .. h)]
  BY <1>2 DEF IsKind, IsObject, ValueOf, PlainOf, ClosureValues, Null, Garbage
<1>3. IsKind(v, "string") => v.object.string \in Seq(Nat)
  BY <1>2 DEF FunctionObjects
<1>4. IsKind(v, "function") => v.object \in fs
  BY <1>2 DEF FunctionObjects
<1>5. IsKind(v, "native") => v.object.native \in StandardNatives \cup HostNatives
  BY <1>2 DEF FunctionObjects
<1>6. IsKind(v, "closure") => /\ v.object.function \in fs
                              /\ v.object.upvalues \in Seq(1 .. h)
  BY <1>2 DEF FunctionObjects
<1> QED BY <1>1, <1>3, <1>4, <1>5, <1>6

LEMMA RoundedIsInt ==
    ASSUME NEW n \in Int
    PROVE  Rounded(n) \in Int
BY ProgramsAssumption DEF Rounded

\* The operands an opcode brings along.
LEMMA Operands ==
    ASSUME NEW i \in Instructions
    PROVE  /\ i.op = "OP_NUMBER" => i.number \in Int
           /\ i.op = "OP_STRING" => i.string \in Seq(Nat)
           /\ i.op = "OP_CHAR" => i.char \in Nat
           /\ i.op = "OP_POPN" => i.count \in Nat
           /\ i.op \in {"OP_LOAD_LOCAL", "OP_SET_LOCAL"} => i.local \in Nat
           /\ i.op \in {"OP_LOAD_UPVALUE", "OP_SET_UPVALUE"} => i.upvalue \in Nat
           /\ i.op \in {"OP_DEFINE_GLOBAL", "OP_SET_GLOBAL", "OP_LOAD_GLOBAL"} => i.name \in STRING
           /\ i.op = "OP_CALL" => i.argcount \in Nat
           /\ i.op \in {"OP_JMP", "OP_JMP_FALSE"} => i.offset \in Int
           /\ i.op = "OP_FUNCTION" => i.ptr \in Nat /\ i.argcount \in Nat
           /\ i.op = "OP_CLOSURE" => i.captures \in Seq(Capture)
<1> USE DEF WithOperands, WithPtr, WithByte
<1>1. i.op = "OP_NUMBER" => i.number \in Int
  BY DEF Instructions
<1>2. i.op = "OP_STRING" => i.string \in Seq(Nat)
  BY DEF Instructions
<1>3. i.op = "OP_CHAR" => i.char \in Nat
  BY DEF Instructions
<1>4. i.op = "OP_POPN" => i.count \in Nat
  BY DEF Instructions
<1>5. i.op \in {"OP_LOAD_LOCAL", "OP_SET_LOCAL"} => i.local \in Nat
  BY DEF Instructions
<1>6. i.op \in {"OP_LOAD_UPVALUE", "OP_SET_UPVALUE"} => i.upvalue \in Nat
  BY DEF Instructions
<1>7. i.op \in {"OP_DEFINE_GLOBAL", "OP_SET_GLOBAL", "OP_LOAD_GLOBAL"} => i.name \in STRING
  BY DEF Instructions
<1>8. i.op = "OP_CALL" => i.argcount \in Nat
  BY DEF Instructions
<1>9. i.op \in {"OP_JMP", "OP_JMP_FALSE"} => i.offset \in Int
  BY DEF Instructions
<1>10. i.op = "OP_FUNCTION" => i.ptr \in Nat /\ i.argcount \in Nat
  BY DEF Instructions
<1>11. i.op = "OP_CLOSURE" => i.captures \in Seq(Capture)
  BY DEF Instructions
<1> QED BY <1>1, <1>2, <1>3, <1>4, <1>5, <1>6, <1>7, <1>8, <1>9, <1>10, <1>11

LEMMA WidthIsNat ==
    ASSUME NEW i \in Instructions
    PROVE  Width(i) \in Nat
<1>1. i.op = "OP_CLOSURE" => Len(i.captures) \in Nat
  BY Operands
<1> QED BY <1>1 DEF Width, PtrSize, ArgcountSize

------------------------------------------------------------------------------
(***************************************************************************)
(* The invariant.  Typed says what every component but the upvalues holds  *)
(* when h upvalues have been allocated; it does not mention the upvalues,  *)
(* so that the handlers that leave them alone are typed for any h.         *)
(***************************************************************************)
Frames(h) == [return_addr : Nat, stack_addr : 0 .. U32 - 1, closure : Seq(1 .. h)]
Hosts == {Idle} \cup [mode : {"running", "spent"}, function : Entries, args : 0 .. MaxSize]

CallsOK(h, frames) == frames \in Seq(Frames(h)) /\ Len(frames) <= MaxCalls
GlobalsOK(fs, h, names) ==
    DOMAIN names \subseteq STRING /\ \A name \in DOMAIN names : names[name] \in ValueOf(fs, h)

Typed(fs, h) ==
    /\ IsProgram(prog) /\ fs = Functions(prog)
    /\ pc \in Int
    /\ stack \in StackOf(ValueOf(fs, h))
    /\ CallsOK(h, calls)
    /\ GlobalsOK(fs, h, globals)
    /\ exit \in Exits
    /\ retval \in ValueOf(fs, h)
    /\ host \in Hosts

\* The pointers an upvalue may hold besides its own cell: NULL, when the
\* address a program gave was none, and the cell behind a full stack.
Pointers == Addresses \cup {NULL, MaxSize}

UpvaluesOK(fs, h, w) ==
    /\ WellTyped(w, Pointers, ValueOf(fs, h))
    /\ Len(w.heap) = h
    /\ Sorted(w)
    /\ Complete(w)

Inv == /\ Typed(Functions(prog), Len(up.heap))
       /\ UpvaluesOK(Functions(prog), Len(up.heap), up)

\* Every function is made of an instruction, or comes from the host.
LEMMA FunctionsAreObjects ==
    ASSUME NEW program, IsProgram(program)
    PROVE  /\ Functions(program) \in SUBSET FunctionObjects
           /\ \A v \in HostValues : v \in PlainOf(Functions(program))
<1>1. ASSUME NEW i \in DOMAIN program.code, program.code[i].op = "OP_FUNCTION"
      PROVE  Function(program.code[i].ptr, program.code[i].argcount) \in FunctionObjects
  <2>1. program.code[i] \in Instructions
    BY ElementOfSeq DEF IsProgram
  <2> QED BY <1>1, <2>1, Operands DEF Function, FunctionObjects
<1>2. MadeBy(program) \subseteq FunctionObjects
  BY <1>1 DEF MadeBy
<1>3. ASSUME NEW v \in HostValues
      PROVE  /\ IsKind(v, "function") => v.object \in FunctionObjects
             /\ v \in PlainOf(Functions(program))
  <2>1. v \in PlainValues
    BY ProgramsAssumption
  <2>2. IsKind(v, "function") => v.object \in FunctionObjects /\ v = Object(v.object)
    BY <2>1 DEF PlainValues, FunctionObjects, IsKind, IsObject, Null, Object
  <2>3. ASSUME NEW f \in FunctionObjects, v = Object(f) PROVE v \in PlainOf(Functions(program))
    <3>1. IsKind(v, "function") /\ v.object = f
      BY <2>3 DEF IsKind, IsObject, Object, FunctionObjects
    <3>2. f \in Functions(program)
      BY <3>1 DEF Functions
    <3> QED BY <2>3, <3>2 DEF PlainOf, Object
  <2>4. v \in PlainOf(Functions(program)) \/ \E f \in FunctionObjects : v = Object(f)
    BY <2>1 DEF PlainValues, PlainOf, Object
  <2> QED BY <2>2, <2>3, <2>4
<1> QED BY <1>2, <1>3 DEF Functions

LEMMA MadeFunction ==
    ASSUME NEW fs \in SUBSET FunctionObjects,
           NEW h, Typed(fs, h), At({"OP_FUNCTION"})
    PROVE  Function(Instr.ptr, Instr.argcount) \in fs
<1>1. pc - prog.data + 1 \in DOMAIN prog.code /\ Instr = prog.code[pc - prog.data + 1]
  BY DEF Typed, IsProgram, At, HasInstruction, TotalSize, Instr, CellAt
<1> QED BY <1>1 DEF Typed, Functions, MadeBy, At

LEMMA PointersAreNotOwn == Pointers \in SUBSET Int /\ OwnCell \notin Pointers
BY MaxSizeAssumption DEF Pointers, Addresses, NULL, OwnCell

\* The instruction that the loop fetched.
LEMMA Fetched ==
    ASSUME NEW fs \in SUBSET FunctionObjects,
           NEW h, Typed(fs, h), NEW ops, At(ops)
    PROVE  /\ Instr \in Instructions /\ Instr.op \in ops
           /\ AfterInstr \in Nat
<1>1. /\ prog.code \in Seq(Instructions) /\ prog.data \in Nat /\ pc \in Int
      /\ pc >= prog.data /\ pc < prog.data + Len(prog.code)
  BY DEF Typed, IsProgram, At, HasInstruction, TotalSize
<1>2. pc - prog.data + 1 \in 1 .. Len(prog.code)
  BY <1>1
<1>3. prog.code[pc - prog.data + 1] \in Instructions
  BY <1>1, <1>2, ElementOfSeq
<1>4. Instr \in Instructions
  BY <1>3 DEF Instr, CellAt
<1>5. AfterInstr \in Nat
  BY <1>1, <1>4, WidthIsNat DEF AfterInstr
<1> QED BY <1>4, <1>5 DEF At

\* Undefined behaviour, and whatever fails, leaves nothing untyped behind.
LEMMA UndefinedTyped ==
    ASSUME NEW fs \in SUBSET FunctionObjects,
           NEW h, Typed(fs, h), Undefined
    PROVE  Typed(fs, h)'
BY DEF Typed, Undefined, Exits

LEMMA PushOrHaltTyped ==
    ASSUME NEW fs \in SUBSET FunctionObjects,
           NEW h, Typed(fs, h), NEW s \in StackOf(ValueOf(fs, h)), NEW v \in ValueOf(fs, h),
           PushOrHalt(s, v)
    PROVE  stack' \in StackOf(ValueOf(fs, h)) /\ exit' \in Exits
BY PushTyped DEF PushOrHalt, Typed, Exits

LEMMA StackEmptyTyped ==
    ASSUME NEW fs \in SUBSET FunctionObjects,
           NEW h, Typed(fs, h), StackEmpty
    PROVE  stack' \in StackOf(ValueOf(fs, h)) /\ exit' \in Exits
BY DEF StackEmpty, Typed, Exits

\* A handler that touches nothing but pc, the stack and exit.
LEMMA StackStepTyped ==
    ASSUME NEW fs \in SUBSET FunctionObjects,
           NEW h, Typed(fs, h), pc' \in Int,
           stack' \in StackOf(ValueOf(fs, h)), exit' \in Exits,
           UNCHANGED <<prog, calls, globals, retval, host>>
    PROVE  Typed(fs, h)'
BY DEF Typed

\* What a handler finds on the stack.
LEMMA TopTyped ==
    ASSUME NEW fs \in SUBSET FunctionObjects,
           NEW h, Typed(fs, h)
    PROVE  /\ Pop(stack) \in StackOf(ValueOf(fs, h)) /\ Pop(Pop(stack)) \in StackOf(ValueOf(fs, h))
           /\ CanPop(stack) => Peek(stack) \in ValueOf(fs, h)
           /\ ~(stack.size < 2) => Peek(Pop(stack)) \in ValueOf(fs, h) /\ Peek(stack) \in ValueOf(fs, h)
<1>1. stack \in StackOf(ValueOf(fs, h))
  BY DEF Typed
<1>2. ASSUME ~(stack.size < 2) PROVE CanPop(stack) /\ CanPop(Pop(stack))
  BY <1>1, <1>2, PopTyped, StackShape DEF CanPop
<1> QED BY <1>1, <1>2, PopTyped

LEMMA FetchStrayTyped ==
    ASSUME NEW fs \in SUBSET FunctionObjects,
           NEW h, Typed(fs, h), FetchStray
    PROVE  Typed(fs, h)'
BY DEF Typed, FetchStray, Exits

LEMMA PushLiteralTyped ==
    ASSUME NEW fs \in SUBSET FunctionObjects,
           NEW h, Typed(fs, h), PushLiteral
    PROVE  Typed(fs, h)'
<1>1. /\ Instr \in Instructions /\ AfterInstr \in Nat
      /\ Instr.op \in {"OP_NUMBER", "OP_STRING", "OP_CHAR", "OP_TRUE", "OP_FALSE", "OP_NULL",
                       "OP_FUNCTION"}
  BY Fetched DEF PushLiteral
<1>2. Literal(Instr) \in ValueOf(fs, h)
  <2>1. CASE Instr.op \in {"OP_TRUE", "OP_FALSE", "OP_NULL"}
    BY <2>1, MadeValues DEF Literal
  <2>2. CASE Instr.op = "OP_NUMBER"
    BY <1>1, <2>2, MadeValues, Operands DEF Literal
  <2>3. CASE Instr.op = "OP_STRING"
    BY <1>1, <2>3, MadeValues, Operands DEF Literal
  <2>4. CASE Instr.op = "OP_CHAR"
    BY <1>1, <2>4, MadeValues, Operands DEF Literal
  <2>5. CASE Instr.op = "OP_FUNCTION"
    <3>1. At({"OP_FUNCTION"})
      BY <2>5 DEF PushLiteral, At
    <3> QED BY <2>5, <3>1, MadeFunction, MadeValues DEF Literal
  <2> QED BY <1>1, <2>1, <2>2, <2>3, <2>4, <2>5
<1>3. PushOrHalt(stack, Literal(Instr)) /\ pc' = AfterInstr
      /\ UNCHANGED <<prog, calls, globals, retval, host>>
  BY DEF PushLiteral
<1>4. stack' \in StackOf(ValueOf(fs, h)) /\ exit' \in Exits
  BY <1>2, <1>3, PushOrHaltTyped DEF Typed
<1> QED BY <1>1, <1>3, <1>4, StackStepTyped

LEMMA BinaryNumberTyped ==
    ASSUME NEW op \in Arithmetic, NEW a \in Int, NEW b \in Int, NEW n \in BinaryNumber(op, a, b)
    PROVE  n \in Int
<1>1. Quotients(a, b) \subseteq Int
  BY ProgramsAssumption DEF Quotients, Numbers
<1>2. a + b \in Int /\ a - b \in Int /\ a * b \in Int
  OBVIOUS
<1> QED BY <1>1, <1>2, RoundedIsInt DEF BinaryNumber, Arithmetic

LEMMA BinaryOpTyped ==
    ASSUME NEW fs \in SUBSET FunctionObjects,
           NEW h, Typed(fs, h), BinaryOp
    PROVE  Typed(fs, h)'
<1> DEFINE left  == Peek(Pop(stack))
           right == Peek(stack)
           rest  == Pop(Pop(stack))
<1>1. Instr \in Instructions /\ Instr.op \in Arithmetic /\ AfterInstr \in Nat
  BY Fetched DEF BinaryOp
<1>2. CASE stack.size < 2 \/ Indeterminate \in {left, right}
  BY <1>2, UndefinedTyped DEF BinaryOp
<1>3. CASE ~(stack.size < 2 \/ Indeterminate \in {left, right})
  <2>1. rest \in StackOf(ValueOf(fs, h)) /\ left \in ValueOf(fs, h) /\ right \in ValueOf(fs, h)
    BY <1>3, TopTyped
  <2>2. /\ pc' = AfterInstr /\ UNCHANGED <<prog, calls, globals, retval, host>>
        /\ \/ /\ IsNumber(left) /\ IsNumber(right)
              /\ \E n \in BinaryNumber(Instr.op, right.number, left.number) :
                    PushOrHalt(rest, Number(n))
           \/ /\ IsKind(left, "string") /\ IsKind(right, "string")
              /\ IF Instr.op = "OP_ADD"
                   THEN PushOrHalt(rest, Object(String(Concatenated(left.object.string,
                                                               right.object.string))))
                   ELSE RuntimeError(Push(rest, Null), "EXIT_UNSUPPORTED_OPERATION")
           \/ RuntimeError(rest, "EXIT_INCORRECT_TYPE")
    BY <1>3 DEF BinaryOp
  <2> HIDE DEF left, right, rest
  <2>3. ASSUME IsNumber(left), IsNumber(right),
               NEW n \in BinaryNumber(Instr.op, right.number, left.number),
               PushOrHalt(rest, Number(n))
        PROVE  stack' \in StackOf(ValueOf(fs, h)) /\ exit' \in Exits
    <3>1. left.number \in Int /\ right.number \in Int
      BY <2>1, <2>3, KnownKinds
    <3>2. n \in Int
      BY <1>1, <2>3, <3>1, BinaryNumberTyped
    <3> QED BY <2>1, <2>3, <3>2, MadeValues, PushOrHaltTyped
  <2>4. ASSUME IsKind(left, "string"), IsKind(right, "string"),
               PushOrHalt(rest, Object(String(Concatenated(left.object.string,
                                                           right.object.string))))
        PROVE  stack' \in StackOf(ValueOf(fs, h)) /\ exit' \in Exits
    <3>1. left.object.string \in Seq(Nat) /\ right.object.string \in Seq(Nat)
      BY <2>1, <2>4, KnownKinds
    <3>2. Concatenated(left.object.string, right.object.string) \in Seq(Nat)
      BY <3>1 DEF Concatenated
    <3> QED BY <2>1, <2>4, <3>2, MadeValues, PushOrHaltTyped
  <2>5. ASSUME RuntimeError(Push(rest, Null), "EXIT_UNSUPPORTED_OPERATION")
        PROVE  stack' \in StackOf(ValueOf(fs, h)) /\ exit' \in Exits
    BY <2>1, <2>5, MadeValues, PushTyped DEF RuntimeError, Exits
  <2>6. ASSUME RuntimeError(rest, "EXIT_INCORRECT_TYPE")
        PROVE  stack' \in StackOf(ValueOf(fs, h)) /\ exit' \in Exits
    BY <2>1, <2>6 DEF RuntimeError, Exits
  <2>7. stack' \in StackOf(ValueOf(fs, h)) /\ exit' \in Exits
    BY <2>2, <2>3, <2>4, <2>5, <2>6
  <2> QED BY <1>1, <2>2, <2>7, StackStepTyped
<1> QED BY <1>2, <1>3

LEMMA StepTyped ==
    ASSUME NEW fs \in SUBSET FunctionObjects,
           NEW h, Typed(fs, h), Step
    PROVE  Typed(fs, h)'
<1>1. AfterInstr \in Nat
  BY Fetched DEF Step
<1>2. CASE CanPop(stack) /\ Peek(stack) = Indeterminate
  BY <1>2, UndefinedTyped DEF Step
<1>3. CASE ~(CanPop(stack) /\ Peek(stack) = Indeterminate)
  <2>1. /\ pc' = AfterInstr /\ UNCHANGED <<prog, calls, globals, retval, host>>
        /\ \/ StackEmpty
           \/ /\ CanPop(stack)
              /\ IF IsNumber(Peek(stack))
                   THEN PushOrHalt(Pop(stack),
                          Number(Rounded(Peek(stack).number
                                   + IF Instr.op = "OP_ADDONE" THEN 1 ELSE -1)))
                   ELSE RuntimeError(Pop(stack), "EXIT_INCORRECT_TYPE")
    BY <1>3 DEF Step
  <2>2. ASSUME CanPop(stack), IsNumber(Peek(stack)) 
        PROVE  Number(Rounded(Peek(stack).number + IF Instr.op = "OP_ADDONE" THEN 1 ELSE -1))
                 \in ValueOf(fs, h)
    <3>1. Peek(stack).number \in Int
      BY <2>2, TopTyped, KnownKinds
    <3>2. (Peek(stack).number + IF Instr.op = "OP_ADDONE" THEN 1 ELSE -1) \in Int
      BY <3>1
    <3> QED BY <3>2, RoundedIsInt, MadeValues
  <2>3. ASSUME RuntimeError(Pop(stack), "EXIT_INCORRECT_TYPE")
        PROVE  stack' \in StackOf(ValueOf(fs, h)) /\ exit' \in Exits
    BY <2>3, TopTyped DEF RuntimeError, Exits
  <2>4. stack' \in StackOf(ValueOf(fs, h)) /\ exit' \in Exits
    BY <2>1, <2>2, <2>3, TopTyped, PushOrHaltTyped, StackEmptyTyped
  <2> QED BY <1>1, <2>1, <2>4, StackStepTyped
<1> QED BY <1>2, <1>3

LEMMA NegateTyped ==
    ASSUME NEW fs \in SUBSET FunctionObjects,
           NEW h, Typed(fs, h), Negate
    PROVE  Typed(fs, h)'
<1>1. AfterInstr \in Nat
  BY Fetched DEF Negate
<1>2. CASE CanPop(stack) /\ Peek(stack) = Indeterminate
  BY <1>2, UndefinedTyped DEF Negate
<1>3. CASE ~(CanPop(stack) /\ Peek(stack) = Indeterminate)
  <2>1. /\ pc' = AfterInstr /\ UNCHANGED <<prog, calls, globals, retval, host>>
        /\ \/ StackEmpty
           \/ /\ CanPop(stack)
              /\ IF IsNumber(Peek(stack))
                   THEN PushOrHalt(Pop(stack), Number(-Peek(stack).number))
                   ELSE stack' = Pop(stack) /\ UNCHANGED exit
    BY <1>3 DEF Negate
  <2>2. ASSUME CanPop(stack), IsNumber(Peek(stack))
        PROVE  Number(-Peek(stack).number) \in ValueOf(fs, h)
    <3>1. Peek(stack).number \in Int
      BY <2>2, TopTyped, KnownKinds
    <3>2. -Peek(stack).number \in Int
      BY <3>1
    <3> QED BY <3>2, MadeValues
  <2>3. exit \in Exits
    BY DEF Typed
  <2>4. stack' \in StackOf(ValueOf(fs, h)) /\ exit' \in Exits
    BY <2>1, <2>2, <2>3, TopTyped, PushOrHaltTyped, StackEmptyTyped
  <2> QED BY <1>1, <2>1, <2>4, StackStepTyped
<1> QED BY <1>2, <1>3

LEMMA HaltOpTyped ==
    ASSUME NEW fs \in SUBSET FunctionObjects,
           NEW h, Typed(fs, h), HaltOp
    PROVE  Typed(fs, h)'
<1>1. AfterInstr \in Nat
  BY Fetched DEF HaltOp
<1> QED BY <1>1 DEF Typed, HaltOp, Exits

LEMMA PopOpTyped ==
    ASSUME NEW fs \in SUBSET FunctionObjects,
           NEW h, Typed(fs, h), PopOp
    PROVE  Typed(fs, h)'
<1>1. AfterInstr \in Nat
  BY Fetched DEF PopOp
<1>2. stack' \in StackOf(ValueOf(fs, h)) /\ exit' \in Exits
  BY TopTyped DEF PopOp, StackEmpty, Typed, Exits
<1> QED BY <1>1, <1>2, StackStepTyped DEF PopOp

LEMMA ModRange ==
    ASSUME NEW n \in Int
    PROVE  n % U8 \in 0 .. U8 - 1 /\ n % U32 \in 0 .. U32 - 1 /\ n % U8 \in Nat /\ n % U32 \in Nat
BY VMAssumption, MaxSizeAssumption

LEMMA PopNOpTyped ==
    ASSUME NEW fs \in SUBSET FunctionObjects,
           NEW h, Typed(fs, h), PopNOp
    PROVE  Typed(fs, h)'
<1>1. AfterInstr \in Nat /\ Instr.count \in Nat
  BY Fetched, Operands DEF PopNOp
<1>2. Instr.count % U8 \in Nat
  BY <1>1, ModRange
<1>3. stack' \in StackOf(ValueOf(fs, h))
  BY <1>2, PopNTyped DEF PopNOp, Typed
<1> QED BY <1>1, <1>3 DEF Typed, PopNOp

LEMMA TopOpTyped ==
    ASSUME NEW fs \in SUBSET FunctionObjects,
           NEW h, Typed(fs, h), TopOp
    PROVE  Typed(fs, h)'
<1>1. AfterInstr \in Nat
  BY Fetched DEF TopOp
<1>2. stack \in StackOf(ValueOf(fs, h)) /\ stack.size \in Nat
  BY StackShape DEF Typed
<1>3. (stack.size - 1) % U32 \in Nat
  BY <1>2, ModRange
<1>4. stack' \in StackOf(ValueOf(fs, h))
  BY <1>2, <1>3, CopyTyped DEF TopOp
<1> QED BY <1>1, <1>4 DEF Typed, TopOp

------------------------------------------------------------------------------
(***************************************************************************)
(* Variables                                                               *)
(***************************************************************************)
\* The frame of the running function.
LEMMA CurrentFrame ==
    ASSUME NEW fs \in SUBSET FunctionObjects,
           NEW h, Typed(fs, h), HasFrame
    PROVE  /\ Len(calls) \in Nat \ {0} /\ CurrentCall \in Frames(h)
           /\ CurrentCall.return_addr \in Nat
           /\ CurrentCall.stack_addr \in 0 .. U32 - 1 /\ CurrentCall.stack_addr \in Nat
           /\ CurrentCall.closure \in Seq(1 .. h)
<1>1. calls \in Seq(Frames(h)) /\ calls # <<>>
  BY DEF Typed, CallsOK, HasFrame
<1>2. Len(calls) \in Nat \ {0}
  BY <1>1, EmptySeq
<1>3. CurrentCall \in Frames(h)
  BY <1>1, <1>2, ElementOfSeq DEF CurrentCall
<1>4. U32 \in Nat
  BY VMAssumption
<1> QED BY <1>2, <1>3, <1>4 DEF Frames

LEMMA LocalAddressIsNat ==
    ASSUME NEW fs \in SUBSET FunctionObjects,
           NEW h, Typed(fs, h), HasFrame, NEW offset \in Nat
    PROVE  LocalAddress(offset) \in Nat
<1>1. CurrentCall.stack_addr \in Nat
  BY CurrentFrame
<1>2. offset % U8 \in Nat
  BY ModRange
<1>3. CurrentCall.stack_addr + (offset % U8) \in Int
  BY <1>1, <1>2
<1> QED BY <1>3, ModRange DEF LocalAddress

LEMMA LoadLocalTyped ==
    ASSUME NEW fs \in SUBSET FunctionObjects,
           NEW h, Typed(fs, h), LoadLocal
    PROVE  Typed(fs, h)'
<1>1. AfterInstr \in Nat /\ Instr.local \in Nat
  BY Fetched, Operands DEF LoadLocal
<1>2. CASE ~HasFrame
  BY <1>2, UndefinedTyped DEF LoadLocal
<1>3. CASE HasFrame
  <2>1. LocalAddress(Instr.local) \in Nat
    BY <1>1, <1>3, LocalAddressIsNat
  <2>2. stack' \in StackOf(ValueOf(fs, h))
    BY <1>3, <2>1, CopyTyped DEF LoadLocal, Typed
  <2> QED BY <1>1, <1>3, <2>2 DEF Typed, LoadLocal
<1> QED BY <1>2, <1>3

LEMMA SetLocalTyped ==
    ASSUME NEW fs \in SUBSET FunctionObjects,
           NEW h, Typed(fs, h), SetLocal
    PROVE  Typed(fs, h)'
<1>1. AfterInstr \in Nat /\ Instr.local \in Nat
  BY Fetched, Operands DEF SetLocal
<1>2. CASE CanPop(stack) /\ ~HasFrame
  BY <1>2, UndefinedTyped DEF SetLocal
<1>3. CASE ~(CanPop(stack) /\ ~HasFrame)
  <2>1. /\ pc' = AfterInstr /\ UNCHANGED <<prog, calls, globals, retval, host>>
        /\ \/ StackEmpty
           \/ /\ CanPop(stack)
              /\ stack' = Set(Pop(stack), LocalAddress(Instr.local), Peek(stack))
              /\ UNCHANGED exit
    BY <1>3 DEF SetLocal
  <2>2. ASSUME CanPop(stack) PROVE Pop(stack).size < MaxSize
    BY <2>2, PopTyped, StackShape, MaxSizeAssumption DEF Typed
  <2>3. CanPop(stack) => LocalAddress(Instr.local) \in Nat
    BY <1>1, <1>3, LocalAddressIsNat
  <2>4. CanPop(stack) => Set(Pop(stack), LocalAddress(Instr.local), Peek(stack))
                           \in StackOf(ValueOf(fs, h))
    BY <2>2, <2>3, TopTyped, SetTyped
  <2>5. exit \in Exits
    BY DEF Typed
  <2>6. stack' \in StackOf(ValueOf(fs, h)) /\ exit' \in Exits
    BY <2>1, <2>4, <2>5, StackEmptyTyped
  <2> QED BY <1>1, <2>1, <2>6, StackStepTyped
<1> QED BY <1>2, <1>3

\* An upvalue of the running closure, and what it holds.
LEMMA UpvalueAtTyped ==
    ASSUME NEW fs \in SUBSET FunctionObjects,
           NEW h, Typed(fs, h), NEW index \in Nat, HasUpvalue(index)
    PROVE  UpvalueAt(index) \in 1 .. h
<1>1. CurrentCall.closure \in Seq(1 .. h) /\ index + 1 \in 1 .. Len(CurrentCall.closure)
  BY CurrentFrame DEF HasUpvalue
<1> QED BY <1>1, ElementOfSeq DEF UpvalueAt

LEMMA HeapTyped ==
    ASSUME NEW fs \in SUBSET FunctionObjects,
           NEW h \in Nat, NEW w, UpvaluesOK(fs, h, w), NEW u \in 1 .. h
    PROVE  /\ w.heap[u].value \in {OwnCell} \cup Pointers
           /\ w.heap[u].closed \in ValueOf(fs, h)
<1>1. w.heap \in Seq([value : {OwnCell} \cup Pointers, closed : ValueOf(fs, h)]) /\ Len(w.heap) = h
  BY DEF UpvaluesOK, WellTyped
<1>2. w.heap[u] \in [value : {OwnCell} \cup Pointers, closed : ValueOf(fs, h)]
  BY <1>1, ElementOfSeq
<1> QED BY <1>2

LEMMA LoadUpvalueTyped ==
    ASSUME NEW fs \in SUBSET FunctionObjects,
           NEW h \in Nat, Typed(fs, h), UpvaluesOK(fs, h, up), LoadUpvalue
    PROVE  Typed(fs, h)'
<1> DEFINE u == UpvalueAt(Instr.upvalue)
<1>1. AfterInstr \in Nat /\ Instr.upvalue \in Nat
  BY Fetched, Operands DEF LoadUpvalue
<1>2. CASE ~HasUpvalue(Instr.upvalue) \/ ~Readable(u)
  BY <1>2, UndefinedTyped DEF LoadUpvalue
<1>3. CASE HasUpvalue(Instr.upvalue) /\ Readable(u)
  <2>1. /\ pc' = AfterInstr /\ UNCHANGED <<prog, calls, globals, retval, host>>
        /\ PushOrHalt(stack, Deref(up, stack.cells, u))
    BY <1>3 DEF LoadUpvalue
  <2>2. u \in 1 .. h
    BY <1>1, <1>3, UpvalueAtTyped
  <2>3. Deref(up, stack.cells, u) \in ValueOf(fs, h)
    BY <1>3, <2>2, HeapTyped, StackShape DEF Readable, Deref, Typed
  <2>4. stack' \in StackOf(ValueOf(fs, h)) /\ exit' \in Exits
    BY <2>1, <2>3, PushOrHaltTyped DEF Typed
  <2> QED BY <1>1, <2>1, <2>4, StackStepTyped
<1> QED BY <1>2, <1>3

\* OP_SET_UPVALUE writes to the upvalue or to a cell of the block.
LEMMA SetUpvalueTyped ==
    ASSUME NEW fs \in SUBSET FunctionObjects,
           NEW h \in Nat, Typed(fs, h), UpvaluesOK(fs, h, up), SetUpvalue
    PROVE  Typed(fs, h)' /\ UpvaluesOK(fs, h, up')
<1> DEFINE u == UpvalueAt(Instr.upvalue)
<1>1. AfterInstr \in Nat /\ Instr.upvalue \in Nat
  BY Fetched, Operands DEF SetUpvalue
<1>2. CASE CanPop(stack) /\ (~HasUpvalue(Instr.upvalue) \/ ~Readable(u))
  <2>1. Undefined
    BY <1>2 DEF SetUpvalue
  <2>2. up' = up
    BY <2>1 DEF Undefined
  <2> QED BY <2>1, <2>2, UndefinedTyped
<1>3. CASE ~(CanPop(stack) /\ (~HasUpvalue(Instr.upvalue) \/ ~Readable(u)))
  <2>1. /\ pc' = AfterInstr /\ UNCHANGED <<prog, calls, globals, retval, host>>
        /\ \/ StackEmpty /\ UNCHANGED up
           \/ /\ CanPop(stack)
              /\ up' = AssignOwn(up, u, Peek(stack))
              /\ stack' = [Pop(stack) EXCEPT !.cells = AssignCell(@, up, u, Peek(stack))]
              /\ UNCHANGED exit
    BY <1>3 DEF SetUpvalue
  <2>2. CASE StackEmpty /\ UNCHANGED up
    <3>1. Typed(fs, h)'
      BY <1>1, <2>1, <2>2, StackEmptyTyped, StackStepTyped
    <3> QED BY <2>2, <3>1
  <2>3. CASE /\ CanPop(stack)
             /\ up' = AssignOwn(up, u, Peek(stack))
             /\ stack' = [Pop(stack) EXCEPT !.cells = AssignCell(@, up, u, Peek(stack))]
             /\ UNCHANGED exit
    <3>1. u \in 1 .. h /\ Readable(u)
      BY <1>1, <1>3, <2>3, UpvalueAtTyped
    <3>2. Peek(stack) \in ValueOf(fs, h) /\ Pop(stack) \in StackOf(ValueOf(fs, h))
      BY <2>3, TopTyped
    <3>3. UpvaluesOK(fs, h, up')
      <4>1. PICK v \in ValueOf(fs, h) : v = Peek(stack)
        BY <3>2
      <4>2. PICK b \in 1 .. Len(up.heap) : b = u
        BY <3>1 DEF UpvaluesOK
      <4>3. up' = AssignOwn(up, b, v)
        BY <2>3, <4>1, <4>2
      <4> QED BY <4>3, AssignProperties, PointersAreNotOwn DEF UpvaluesOK
    <3>4. AssignCell(Pop(stack).cells, up, u, Peek(stack)) \in [Addresses -> ValueOf(fs, h)]
      BY <3>1, <3>2, StackShape DEF AssignCell, Readable
    <3>5. stack' \in StackOf(ValueOf(fs, h))
      BY <2>3, <3>2, <3>4 DEF StackOf
    <3>6. exit' \in Exits
      BY <2>3 DEF Typed
    <3> QED BY <1>1, <2>1, <3>3, <3>5, <3>6, StackStepTyped
  <2> QED BY <2>1, <2>2, <2>3
<1> QED BY <1>2, <1>3

\* What close_upvalues leaves when it dereferences no bad pointer.
LEMMA CloseTyped ==
    ASSUME NEW fs \in SUBSET FunctionObjects,
           NEW h \in Nat, Typed(fs, h), UpvaluesOK(fs, h, up),
           NEW last \in Pointers, CanClose(last)
    PROVE  /\ UpvaluesOK(fs, h, CloseUpvalues(up, stack.cells, last))
           /\ Keeps(up, last, CloseUpvalues(up, stack.cells, last))
<1>1. PICK cells : cells = stack.cells /\ cells \in [Addresses -> ValueOf(fs, h)]
  BY StackShape DEF Typed
<1>2. last \in Int /\ OwnCell < last
  BY MaxSizeAssumption DEF Pointers, Addresses, NULL, OwnCell
<1>3. /\ WellTyped(up, Pointers, ValueOf(fs, h)) /\ Sorted(up) /\ Complete(up) /\ Len(up.heap) = h
  BY DEF UpvaluesOK
<1>4. ASSUME NEW a \in OpenAddressSet(up), a >= last PROVE cells[a] \in ValueOf(fs, h)
  <2>1. PICK i \in 1 .. Len(up.open) : a = OpenAt(up, i)
    BY <1>4 DEF OpenAddressSet
  <2>2. PICK u \in 1 .. Len(up.heap) : u = up.open[i] /\ up.heap[u].value = a /\ a \in Int
    BY <1>3, <2>1, OpenEntry, PointersAreNotOwn DEF OpenAt
  <2>3. u \in ClosedBy(up, last)
    BY <1>2, <1>3, <1>4, <2>2, CloseEffect, PointersAreNotOwn
  <2>4. a \in Addresses \cup {OwnCell}
    BY <2>2, <2>3 DEF CanClose, Readable
  <2>5. a # OwnCell
    BY <1>2, <1>4, <2>2 DEF OwnCell
  <2> QED BY <1>1, <2>4, <2>5
<1>5. /\ WellTyped(CloseUpvalues(up, cells, last), Pointers, ValueOf(fs, h))
      /\ Sorted(CloseUpvalues(up, cells, last))
      /\ Complete(CloseUpvalues(up, cells, last))
      /\ Keeps(up, last, CloseUpvalues(up, cells, last))
  BY <1>2, <1>3, <1>4, CloseProperties, PointersAreNotOwn
<1>6. Len(CloseUpvalues(up, cells, last).heap) = h
  <2>1. PICK d : d = CloseUpvalues(up, cells, last)
    OBVIOUS
  <2>2. DOMAIN d.heap = 1 .. h
    BY <1>3, <2>1 DEF CloseUpvalues
  <2>3. PICK U : d.heap \in Seq(U)
    BY <1>5, <2>1 DEF WellTyped
  <2>4. DOMAIN d.heap = 1 .. Len(d.heap) /\ Len(d.heap) \in Nat
    BY <2>3, LenProperties
  <2> QED BY <2>1, <2>2, <2>4
<1> QED BY <1>1, <1>5, <1>6 DEF UpvaluesOK

LEMMA CloseUpvalueTyped ==
    ASSUME NEW fs \in SUBSET FunctionObjects,
           NEW h \in Nat, Typed(fs, h), UpvaluesOK(fs, h, up), CloseUpvalue
    PROVE  Typed(fs, h)' /\ UpvaluesOK(fs, h, up')
<1> DEFINE closed == Get(stack, (stack.size - 1) % U32)
<1>1. AfterInstr \in Nat
  BY Fetched DEF CloseUpvalue
<1>2. stack \in StackOf(ValueOf(fs, h)) /\ stack.size \in Nat
  BY StackShape DEF Typed
<1>3. closed \in Pointers
  <2>1. (stack.size - 1) % U32 \in Nat
    BY <1>2, ModRange
  <2> QED BY <1>2, <2>1, GetRange DEF Pointers
<1> HIDE DEF closed
<1>4. CASE ~CanClose(closed)
  <2>1. Undefined
    BY <1>4 DEF CloseUpvalue, closed
  <2>2. up' = up
    BY <2>1 DEF Undefined
  <2> QED BY <2>1, <2>2, UndefinedTyped
<1>5. CASE CanClose(closed)
  <2>1. /\ pc' = AfterInstr /\ UNCHANGED <<prog, calls, globals, exit, retval, host>>
        /\ up' = CloseUpvalues(up, stack.cells, closed) /\ stack' = PopN(stack, 1)
    BY <1>5 DEF CloseUpvalue, closed
  <2>2. UpvaluesOK(fs, h, up')
    BY <1>3, <1>5, <2>1, CloseTyped
  <2>3. stack' \in StackOf(ValueOf(fs, h))
    BY <1>2, <2>1, PopNTyped
  <2> QED BY <1>1, <2>1, <2>2, <2>3 DEF Typed
<1> QED BY <1>4, <1>5

LEMMA SetGlobalTyped ==
    ASSUME NEW fs \in SUBSET FunctionObjects,
           NEW h, Typed(fs, h), SetGlobal
    PROVE  Typed(fs, h)'
<1>1. AfterInstr \in Nat /\ Instr.name \in STRING
  BY Fetched, Operands DEF SetGlobal
<1>2. CASE StackEmpty /\ UNCHANGED globals
  BY <1>1, <1>2, StackEmptyTyped, StackStepTyped DEF SetGlobal
<1>3. CASE CanPop(stack) /\ RuntimeError(Pop(stack), "EXIT_GLOBAL_NOT_FOUND") /\ UNCHANGED globals
  <2>1. stack' \in StackOf(ValueOf(fs, h)) /\ exit' \in Exits
    BY <1>3, TopTyped DEF RuntimeError, Exits
  <2> QED BY <1>1, <1>3, <2>1, StackStepTyped DEF SetGlobal
<1>4. CASE /\ CanPop(stack)
           /\ globals' = [name \in DOMAIN globals \cup {Instr.name} |->
                            IF name = Instr.name THEN Peek(stack) ELSE globals[name]]
           /\ stack' = Pop(stack)
           /\ UNCHANGED exit
  <2>1. Peek(stack) \in ValueOf(fs, h) /\ GlobalsOK(fs, h, globals)
    BY <1>4, TopTyped DEF Typed
  <2>2. \A name \in DOMAIN globals' : globals'[name] \in ValueOf(fs, h)
    BY <1>4, <2>1 DEF GlobalsOK
  <2>3. DOMAIN globals' \subseteq STRING
    BY <1>1, <1>4, <2>1 DEF GlobalsOK
  <2>4. stack' \in StackOf(ValueOf(fs, h))
    BY <1>4, TopTyped
  <2>5. pc' = AfterInstr /\ UNCHANGED <<prog, calls, up, retval, host>>
    BY DEF SetGlobal
  <2> QED BY <1>1, <1>4, <2>2, <2>3, <2>4, <2>5 DEF Typed, GlobalsOK
<1> QED BY <1>2, <1>3, <1>4 DEF SetGlobal

LEMMA GlobalTyped ==
    ASSUME NEW fs \in SUBSET FunctionObjects,
           NEW h, Typed(fs, h), NEW name
    PROVE  StackWithGlobal(name) \in StackOf(ValueOf(fs, h)) /\ ExitOfGlobal(name) \in Exits
<1>1. Defined(name) => globals[name] \in ValueOf(fs, h)
  BY DEF Defined, Typed, GlobalsOK
<1>2. StackWithGlobal(name) \in StackOf(ValueOf(fs, h))
  BY <1>1, PushTyped DEF StackWithGlobal, Typed
<1> QED BY <1>2 DEF ExitOfGlobal, Typed, Exits

LEMMA LoadGlobalTyped ==
    ASSUME NEW fs \in SUBSET FunctionObjects,
           NEW h, Typed(fs, h), LoadGlobal
    PROVE  Typed(fs, h)'
<1>1. AfterInstr \in Nat
  BY Fetched DEF LoadGlobal
<1> QED BY <1>1, GlobalTyped, StackStepTyped DEF LoadGlobal

------------------------------------------------------------------------------
(***************************************************************************)
(* Natives                                                                 *)
(***************************************************************************)
Returned(fs, h) == [stack : StackOf(ValueOf(fs, h)), exit : {"none", "EXIT_USER_ERROR"}]

LEMMA ResultTyped ==
    ASSUME NEW fs \in SUBSET FunctionObjects,
           NEW h, NEW s \in StackOf(ValueOf(fs, h)), NEW reason \in {"none", "EXIT_USER_ERROR"}
    PROVE  Result(s, reason) \in Returned(fs, h)
BY DEF Result, Returned

\* A native that pops its arguments finds values, and pushes a value.
LEMMA ArgumentTyped ==
    ASSUME NEW fs \in SUBSET FunctionObjects,
           NEW h, NEW s \in StackOf(ValueOf(fs, h))
    PROVE  /\ Pop(s) \in StackOf(ValueOf(fs, h))
           /\ Popped(s) \in ValueOf(fs, h)
           /\ \A v \in ValueOf(fs, h) : Push(s, v) \in StackOf(ValueOf(fs, h))
BY PopTyped, PushTyped, MadeValues DEF Popped

LEMMA NativeSizeTyped ==
    ASSUME NEW fs \in SUBSET FunctionObjects,
           NEW h, NEW s \in StackOf(ValueOf(fs, h)), NEW argcount
    PROVE  NativeSize(argcount, s) \in Returned(fs, h)
<1>1. ASSUME IsKind(Popped(s), "string")
      PROVE  Number(Rounded(Len(Popped(s).object.string))) \in ValueOf(fs, h)
  <2>1. Popped(s).object.string \in Seq(Nat)
    BY <1>1, ArgumentTyped, KnownKinds
  <2>2. Len(Popped(s).object.string) \in Int
    BY <2>1
  <2> QED BY <2>2, RoundedIsInt, MadeValues
<1> QED BY <1>1, ArgumentTyped, ResultTyped DEF NativeSize

LEMMA NativeSubstringTyped ==
    ASSUME NEW fs \in SUBSET FunctionObjects,
           NEW h, NEW s \in StackOf(ValueOf(fs, h)), NEW argcount
    PROVE  NativeSubstring(argcount, s) \in Returned(fs, h)
<1> DEFINE s1 == IF argcount = 3 THEN Pop(s) ELSE s
           s2 == Pop(s1)
           s3 == Pop(s2)
           string == Popped(s2).object.string
           start  == Popped(s1).number
           end    == IF argcount = 3 THEN Popped(s).number ELSE Len(string)
<1>1. s1 \in StackOf(ValueOf(fs, h))
  BY ArgumentTyped
<1> HIDE DEF s1
<1>2. s2 \in StackOf(ValueOf(fs, h)) /\ Popped(s1) \in ValueOf(fs, h)
  BY <1>1, ArgumentTyped
<1> HIDE DEF s2
<1>3. s3 \in StackOf(ValueOf(fs, h)) /\ Popped(s2) \in ValueOf(fs, h) /\ Popped(s) \in ValueOf(fs, h)
  BY <1>2, ArgumentTyped
<1> HIDE DEF s3
<1>4. ASSUME ~(argcount = 3 /\ ~IsNumber(Popped(s))), IsNumber(Popped(s1)),
             IsKind(Popped(s2), "string"), HasSubstring(string, start, end)
      PROVE  Object(String(SubSeq(string, start + 1, end))) \in ValueOf(fs, h)
  <2>1. string \in Seq(Nat) /\ start \in Int
    BY <1>2, <1>3, <1>4, KnownKinds
  <2>2. end \in Int
    BY <1>3, <1>4, <2>1, KnownKinds
  <2> HIDE DEF string, start, end
  <2>3. /\ start + 1 \in 1 .. Len(string) + 1 /\ end \in start .. Len(string)
    BY <1>4, <2>1, <2>2 DEF HasSubstring
  <2>4. SubSeq(string, start + 1, end) \in Seq(Nat)
    BY <2>1, <2>3
  <2> QED BY <2>4, MadeValues
<1>5. ASSUME ~(argcount = 3 /\ ~IsNumber(Popped(s))), IsNumber(Popped(s1)),
             IsKind(Popped(s2), "string"), HasSubstring(string, start, end)
      PROVE  Result(Push(s3, Object(String(SubSeq(string, start + 1, end)))), "none")
               \in Returned(fs, h)
  BY <1>3, <1>4, <1>5, ArgumentTyped, ResultTyped
<1>6. Result(s, "EXIT_USER_ERROR") \in Returned(fs, h) /\ Result(s1, "none") \in Returned(fs, h)
      /\ Result(s2, "none") \in Returned(fs, h) /\ Result(s3, "EXIT_USER_ERROR") \in Returned(fs, h)
  BY <1>1, <1>2, <1>3, ResultTyped
<1>7. NativeSubstring(argcount, s) =
        IF argcount \notin {2, 3} THEN Result(s, "EXIT_USER_ERROR")
        ELSE IF argcount = 3 /\ ~IsNumber(Popped(s)) THEN Result(s1, "none")
        ELSE IF ~IsNumber(Popped(s1)) THEN Result(s2, "none")
        ELSE IF ~IsKind(Popped(s2), "string") THEN Result(s3, "EXIT_USER_ERROR")
        ELSE IF HasSubstring(string, start, end)
          THEN Result(Push(s3, Object(String(SubSeq(string, start + 1, end)))), "none")
        ELSE Result(s3, "EXIT_USER_ERROR")
  BY DEF NativeSubstring, s1, s2, s3
<1> HIDE DEF string, start, end
<1> QED BY <1>5, <1>6, <1>7

LEMMA NativeContainsTyped ==
    ASSUME NEW fs \in SUBSET FunctionObjects,
           NEW h, NEW s \in StackOf(ValueOf(fs, h)), NEW argcount
    PROVE  NativeContains(argcount, s) \in Returned(fs, h)
<1>1. \A a, b : Boolean(Occurs(a, b)) \in ValueOf(fs, h)
  <2>1. \A a, b : Occurs(a, b) \in BOOLEAN
    BY DEF Occurs
  <2> QED BY <2>1, MadeValues
<1> QED BY <1>1, ArgumentTyped, ResultTyped DEF NativeContains

LEMMA NativeWriteTyped ==
    ASSUME NEW fs \in SUBSET FunctionObjects,
           NEW h, NEW s \in StackOf(ValueOf(fs, h)), NEW argcount
    PROVE  NativeWrite(argcount, s) \in Returned(fs, h)
BY ArgumentTyped, ResultTyped DEF NativeWrite

LEMMA NativePromptTyped ==
    ASSUME NEW fs \in SUBSET FunctionObjects,
           NEW h, NEW s \in StackOf(ValueOf(fs, h)), NEW argcount
    PROVE  NativePrompt(argcount, s) \in Returned(fs, h)
<1>1. ASSUME IsKind(Popped(s), "string")
      PROVE  Object(String(Answer(Popped(s).object.string))) \in ValueOf(fs, h)
  <2>1. Popped(s).object.string \in Seq(Nat)
    BY <1>1, ArgumentTyped, KnownKinds
  <2>2. Answer(Popped(s).object.string) \in Seq(Nat)
    BY <2>1 DEF Answer
  <2> QED BY <2>2, MadeValues
<1> QED BY <1>1, ArgumentTyped, ResultTyped DEF NativePrompt

LEMMA NativeResultTyped ==
    ASSUME NEW fs \in SUBSET FunctionObjects,
           NEW h, NEW s \in StackOf(ValueOf(fs, h)), NEW argcount,
           NEW name \in StandardNatives \cup HostNatives
    PROVE  NativeResult(name, argcount, s) \in Returned(fs, h)
<1>1. name \in {"size", "substring", "contains", "write", "prompt"}
  BY ProgramsAssumption DEF StandardNatives
<1> QED BY <1>1, NativeSizeTyped, NativeSubstringTyped, NativeContainsTyped, NativeWriteTyped,
           NativePromptTyped DEF NativeResult

------------------------------------------------------------------------------
(***************************************************************************)
(* Calls and returns                                                       *)
(***************************************************************************)
\* A handler that leaves the globals, the return value and the host alone.
LEMMA CallStepTyped ==
    ASSUME NEW fs \in SUBSET FunctionObjects,
           NEW h, Typed(fs, h), pc' \in Int, stack' \in StackOf(ValueOf(fs, h)), exit' \in Exits,
           CallsOK(h, calls'), UNCHANGED <<prog, globals, retval, host>>
    PROVE  Typed(fs, h)'
BY DEF Typed

\* call pushes a frame only when there is room for one.
LEMMA EnterTyped ==
    ASSUME NEW fs \in SUBSET FunctionObjects,
           NEW h, Typed(fs, h), AfterInstr \in Nat, NEW f \in fs,
           NEW refs \in Seq(1 .. h), NEW argcount,
           NEW st \in StackOf(ValueOf(fs, h)), NEW ex \in Exits, Enter(f, refs, argcount, st, ex)
    PROVE  Typed(fs, h)' /\ up' = up
<1>1. f.ptr \in Nat /\ f.argcount \in Nat
  BY DEF FunctionObjects
<1>2. st.size \in Nat /\ st.size - f.argcount \in Int
  BY <1>1, StackShape
<1>3. FrameStart(f, st) \in 0 .. U32 - 1
  BY <1>2, ModRange DEF FrameStart
<1>4. PICK frame : frame = [return_addr |-> AfterInstr, stack_addr |-> FrameStart(f, st),
                            closure |-> refs]
  OBVIOUS
<1>5. frame \in Frames(h)
  BY <1>3, <1>4 DEF Frames
<1>6. calls' = Append(calls, frame) /\ CallError(f, argcount) = "none"
  BY <1>4 DEF Enter
<1>7. Len(calls) < MaxCalls /\ Len(calls) \in Nat /\ calls \in Seq(Frames(h))
  BY <1>6, VMAssumption DEF CallError, Typed, CallsOK
<1>8. CallsOK(h, calls')
  BY <1>5, <1>6, <1>7, AppendProperties, VMAssumption DEF CallsOK
<1>9. pc' \in Int
  BY <1>1 DEF Enter, Typed, IsProgram
<1> QED BY <1>8, <1>9, CallStepTyped DEF Enter

LEMMA CallFailsTyped ==
    ASSUME NEW fs \in SUBSET FunctionObjects,
           NEW h, Typed(fs, h), AfterInstr \in Nat, NEW f, NEW argcount,
           NEW st \in StackOf(ValueOf(fs, h)), CallFails(f, argcount, st), CallsOK(h, calls')
    PROVE  Typed(fs, h)' /\ up' = up
<1>1. exit' \in Exits /\ stack' = st
  BY DEF CallFails, CallError, RuntimeError, Exits
<1> QED BY <1>1, CallStepTyped DEF CallFails

\* The closure a failing call stores in the caller's frame.
LEMMA StoredClosureTyped ==
    ASSUME NEW fs \in SUBSET FunctionObjects,
           NEW h, Typed(fs, h), HasFrame, NEW refs \in Seq(1 .. h)
    PROVE  CallsOK(h, [calls EXCEPT ![Len(calls)].closure = refs])
<1>1. calls \in Seq(Frames(h)) /\ Len(calls) <= MaxCalls
  BY DEF Typed, CallsOK
<1>2. Len(calls) \in 1 .. Len(calls) /\ CurrentCall \in Frames(h)
  BY CurrentFrame
<1>3. [CurrentCall EXCEPT !.closure = refs] \in Frames(h)
  BY <1>2 DEF Frames
<1>4. [calls EXCEPT ![Len(calls)].closure = refs]
        = [calls EXCEPT ![Len(calls)] = [CurrentCall EXCEPT !.closure = refs]]
  BY DEF CurrentCall
<1>5. [calls EXCEPT ![Len(calls)] = [CurrentCall EXCEPT !.closure = refs]] \in Seq(Frames(h))
  BY <1>1, <1>2, <1>3, ExceptSeq
<1>6. Len([calls EXCEPT ![Len(calls)] = [CurrentCall EXCEPT !.closure = refs]]) = Len(calls)
  BY <1>1, <1>2, <1>3, ExceptSeq
<1> QED BY <1>1, <1>4, <1>5, <1>6 DEF CallsOK

LEMMA CallFunctionTyped ==
    ASSUME NEW fs \in SUBSET FunctionObjects,
           NEW h, Typed(fs, h), AfterInstr \in Nat, NEW f \in fs, NEW argcount,
           NEW st \in StackOf(ValueOf(fs, h)), NEW ex \in Exits, CallFunction(f, argcount, st, ex)
    PROVE  Typed(fs, h)' /\ up' = up
<1>1. CASE Enter(f, <<>>, argcount, st, ex)
  <2>1. <<>> \in Seq(1 .. h)
    OBVIOUS
  <2> QED BY <1>1, <2>1, EnterTyped
<1>2. CASE CallFails(f, argcount, st) /\ UNCHANGED calls
  <2>1. CallsOK(h, calls')
    BY <1>2 DEF Typed
  <2> QED BY <1>2, <2>1, CallFailsTyped
<1> QED BY <1>1, <1>2 DEF CallFunction

LEMMA CallClosureTyped ==
    ASSUME NEW fs \in SUBSET FunctionObjects,
           NEW h, Typed(fs, h), AfterInstr \in Nat, NEW closure,
           closure.function \in fs, closure.upvalues \in Seq(1 .. h),
           NEW argcount, NEW st \in StackOf(ValueOf(fs, h)), NEW ex \in Exits,
           CallClosure(closure, argcount, st, ex)
    PROVE  Typed(fs, h)' /\ up' = up
<1>1. CASE Enter(closure.function, closure.upvalues, argcount, st, ex)
  BY <1>1, EnterTyped
<1>2. CASE /\ HasFrame
           /\ CallFails(closure.function, argcount, st)
           /\ calls' = [calls EXCEPT ![Len(calls)].closure = closure.upvalues]
  <2>1. CallsOK(h, calls')
    BY <1>2, StoredClosureTyped
  <2> QED BY <1>2, <2>1, CallFailsTyped
<1>3. CASE Undefined
  BY <1>3, UndefinedTyped DEF Undefined
<1> QED BY <1>1, <1>2, <1>3, Zenon DEF CallClosure

LEMMA CallNativeTyped ==
    ASSUME NEW fs \in SUBSET FunctionObjects,
           NEW h, Typed(fs, h), AfterInstr \in Nat, NEW name \in StandardNatives \cup HostNatives,
           NEW argcount, NEW st \in StackOf(ValueOf(fs, h)), NEW ex \in Exits,
           CallNative(name, argcount, st, ex)
    PROVE  Typed(fs, h)' /\ up' = up
<1>1. CASE NativeUndefined(argcount, st)
  BY <1>1, UndefinedTyped DEF CallNative, Undefined
<1>2. CASE ~NativeUndefined(argcount, st)
  <2>1. PICK result \in Returned(fs, h) : result = NativeResult(name, argcount, st)
    BY NativeResultTyped
  <2>2. /\ stack' = result.stack
        /\ exit' = IF result.exit = "none" THEN ex ELSE result.exit
        /\ pc' = AfterInstr
        /\ UNCHANGED <<prog, calls, up, globals, retval, host>>
    BY <1>2, <2>1 DEF CallNative
  <2>3. stack' \in StackOf(ValueOf(fs, h)) /\ exit' \in Exits
    BY <2>2 DEF Returned, Exits
  <2> QED BY <2>2, <2>3, StackStepTyped
<1> QED BY <1>1, <1>2

LEMMA TryCallTyped ==
    ASSUME NEW fs \in SUBSET FunctionObjects,
           NEW h, Typed(fs, h), AfterInstr \in Nat, NEW callee \in ValueOf(fs, h), NEW argcount,
           NEW st \in StackOf(ValueOf(fs, h)), NEW ex \in Exits, TryCall(callee, argcount, st, ex)
    PROVE  Typed(fs, h)' /\ up' = up
<1>1. CASE IsKind(callee, "function") /\ CallFunction(callee.object, argcount, st, ex)
  BY <1>1, KnownKinds, CallFunctionTyped
<1>2. CASE IsKind(callee, "closure") /\ CallClosure(callee.object, argcount, st, ex)
  BY <1>2, KnownKinds, CallClosureTyped
<1>3. CASE IsKind(callee, "native") /\ CallNative(callee.object.native, argcount, st, ex)
  BY <1>3, KnownKinds, CallNativeTyped
<1>4. CASE Undefined
  BY <1>4, UndefinedTyped DEF Undefined
<1>5. CASE RuntimeError(st, "EXIT_INCORRECT_TYPE") /\ pc' = AfterInstr
             /\ UNCHANGED <<prog, calls, up, globals, retval, host>>
  <2>1. stack' \in StackOf(ValueOf(fs, h)) /\ exit' \in Exits
    BY <1>5 DEF RuntimeError, Exits
  <2> QED BY <1>5, <2>1, StackStepTyped
<1> QED BY <1>1, <1>2, <1>3, <1>4, <1>5 DEF TryCall

LEMMA CallTyped ==
    ASSUME NEW fs \in SUBSET FunctionObjects,
           NEW h, Typed(fs, h), Call
    PROVE  Typed(fs, h)' /\ up' = up
<1>1. AfterInstr \in Nat
  BY Fetched DEF Call
<1>2. CASE StackEmpty /\ pc' = AfterInstr /\ UNCHANGED <<prog, calls, up, globals, retval, host>>
  BY <1>1, <1>2, StackEmptyTyped, StackStepTyped
<1>3. CASE CanPop(stack) /\ TryCall(Peek(stack), Instr.argcount, Pop(stack), exit)
  <2>1. Peek(stack) \in ValueOf(fs, h) /\ Pop(stack) \in StackOf(ValueOf(fs, h)) /\ exit \in Exits
    BY <1>3, TopTyped DEF Typed
  <2> QED BY <1>1, <1>3, <2>1, TryCallTyped
<1> QED BY <1>2, <1>3 DEF Call

LEMMA BeginTyped ==
    ASSUME NEW fs \in SUBSET FunctionObjects,
           NEW h, Typed(fs, h), Begin
    PROVE  Typed(fs, h)' /\ up' = up
<1>1. AfterInstr \in Nat
  BY Fetched DEF Begin
<1>2. PICK st, ex : st = StackWithGlobal(host.function) /\ ex = ExitOfGlobal(host.function)
  OBVIOUS
<1>3. st \in StackOf(ValueOf(fs, h)) /\ ex \in Exits
  BY <1>2, GlobalTyped
<1>4. CASE RuntimeError(st, "EXIT_STACK_EMPTY") /\ pc' = AfterInstr
             /\ UNCHANGED <<prog, calls, up, globals, retval, host>>
  <2>1. stack' \in StackOf(ValueOf(fs, h)) /\ exit' \in Exits
    BY <1>3, <1>4 DEF RuntimeError, Exits
  <2> QED BY <1>1, <1>4, <2>1, StackStepTyped
<1>5. CASE CanPop(st) /\ TryCall(Peek(st), host.args % U8, Pop(st), ex)
  <2>1. Peek(st) \in ValueOf(fs, h) /\ Pop(st) \in StackOf(ValueOf(fs, h))
    BY <1>3, <1>5, PopTyped
  <2> QED BY <1>1, <1>3, <1>5, <2>1, TryCallTyped
<1> QED BY <1>2, <1>4, <1>5 DEF Begin

\* Where a return closes the upvalues from.
LEMMA FrameBaseTyped ==
    ASSUME NEW fs \in SUBSET FunctionObjects,
           NEW h, Typed(fs, h), HasFrame, NEW st \in StackOf(ValueOf(fs, h))
    PROVE  /\ Get(st, CurrentCall.stack_addr) \in Pointers
           /\ Return(st) \in StackOf(ValueOf(fs, h))
<1>1. CurrentCall.stack_addr \in Nat
  BY CurrentFrame
<1> QED BY <1>1, GetRange, SeekTyped DEF Pointers, Return

LEMMA LeaveFrameTyped ==
    ASSUME NEW fs \in SUBSET FunctionObjects,
           NEW h \in Nat, Typed(fs, h), UpvaluesOK(fs, h, up), HasFrame,
           NEW last \in Pointers, CanClose(last), LeaveFrame(last)
    PROVE  CallsOK(h, calls') /\ UpvaluesOK(fs, h, up') /\ pc' \in Int
<1>1. calls \in Seq(Frames(h)) /\ Len(calls) <= MaxCalls
  BY DEF Typed, CallsOK
<1>2. Len(calls) \in Nat \ {0} /\ CurrentCall.return_addr \in Nat
  BY CurrentFrame
<1>3. calls' = SubSeq(calls, 1, Len(calls) - 1)
  BY DEF LeaveFrame, Front
<1>4. calls' \in Seq(Frames(h)) /\ Len(calls') = Len(calls) - 1
  <2>1. PICK n \in Nat : n = Len(calls) - 1
    BY <1>2
  <2>2. \A i \in 1 .. n : calls[i] \in Frames(h)
    BY <1>1, <1>2, <2>1, ElementOfSeq
  <2>3. calls' = SubSeq(calls, 1, n)
    BY <1>3, <2>1
  <2>4. SubSeq(calls, 1, n) \in Seq(Frames(h))
    BY <2>2, SubSeqProperties
  <2>5. Len(SubSeq(calls, 1, n)) = n
    BY <2>2, SubSeqProperties
  <2> QED BY <2>1, <2>3, <2>4, <2>5
<1>5. CallsOK(h, calls')
  BY <1>1, <1>2, <1>4, VMAssumption DEF CallsOK
<1>6. UpvaluesOK(fs, h, up')
  BY CloseTyped DEF LeaveFrame
<1> QED BY <1>2, <1>5, <1>6 DEF LeaveFrame

LEMMA ReturnVoidTyped ==
    ASSUME NEW fs \in SUBSET FunctionObjects,
           NEW h \in Nat, Typed(fs, h), UpvaluesOK(fs, h, up), ReturnVoid
    PROVE  Typed(fs, h)' /\ UpvaluesOK(fs, h, up')
<1>1. CASE ~HasFrame \/ ~CanClose(FrameBase)
  <2>1. Undefined
    BY <1>1 DEF ReturnVoid
  <2>2. up' = up
    BY <2>1 DEF Undefined
  <2> QED BY <2>1, <2>2, UndefinedTyped
<1>2. CASE HasFrame /\ CanClose(FrameBase)
  <2>1. LeaveFrame(FrameBase) /\ stack' = Return(stack) /\ UNCHANGED <<exit, retval>>
    BY <1>2 DEF ReturnVoid
  <2>2. FrameBase \in Pointers /\ Return(stack) \in StackOf(ValueOf(fs, h))
    BY <1>2, FrameBaseTyped DEF FrameBase, Typed
  <2>3. CallsOK(h, calls') /\ UpvaluesOK(fs, h, up') /\ pc' \in Int
    BY <1>2, <2>1, <2>2, LeaveFrameTyped
  <2>4. UNCHANGED <<prog, globals, host>>
    BY <2>1 DEF LeaveFrame
  <2> QED BY <2>1, <2>2, <2>3, <2>4 DEF Typed
<1> QED BY <1>1, <1>2

LEMMA ReturnValueTyped ==
    ASSUME NEW fs \in SUBSET FunctionObjects,
           NEW h \in Nat, Typed(fs, h), UpvaluesOK(fs, h, up), ReturnValue
    PROVE  Typed(fs, h)' /\ UpvaluesOK(fs, h, up')
<1> DEFINE last == Get(Pop(stack), CurrentCall.stack_addr)
           st   == Return(Pop(stack))
<1>1. CASE CanPop(stack) /\ (~HasFrame \/ ~CanClose(last))
  <2>1. Undefined
    BY <1>1 DEF ReturnValue
  <2>2. up' = up
    BY <2>1 DEF Undefined
  <2> QED BY <2>1, <2>2, UndefinedTyped
<1>2. CASE StackEmpty /\ pc' = AfterInstr /\ UNCHANGED <<prog, calls, up, globals, retval, host>>
  <2>1. AfterInstr \in Nat
    BY Fetched DEF ReturnValue
  <2>2. Typed(fs, h)'
    BY <1>2, <2>1, StackEmptyTyped, StackStepTyped
  <2> QED BY <1>2, <2>2
<1>3. CASE /\ CanPop(stack) /\ HasFrame /\ CanClose(last)
           /\ LeaveFrame(last)
           /\ IF Len(calls) > 1
                THEN PushOrHalt(st, Peek(stack)) /\ UNCHANGED retval
                ELSE stack' = st /\ retval' = Peek(stack) /\ UNCHANGED exit
  <2>1. Peek(stack) \in ValueOf(fs, h) /\ Pop(stack) \in StackOf(ValueOf(fs, h))
    BY <1>3, TopTyped
  <2>2. last \in Pointers /\ st \in StackOf(ValueOf(fs, h))
    BY <1>3, <2>1, FrameBaseTyped
  <2> HIDE DEF last, st
  <2>3. CallsOK(h, calls') /\ UpvaluesOK(fs, h, up') /\ pc' \in Int
    BY <1>3, <2>2, LeaveFrameTyped
  <2>4. UNCHANGED <<prog, globals, host>>
    BY <1>3 DEF LeaveFrame
  <2>5. stack' \in StackOf(ValueOf(fs, h)) /\ exit' \in Exits /\ retval' \in ValueOf(fs, h)
    BY <1>3, <2>1, <2>2, PushOrHaltTyped DEF Typed
  <2> QED BY <2>3, <2>4, <2>5 DEF Typed
<1> QED BY <1>1, <1>2, <1>3 DEF ReturnValue

------------------------------------------------------------------------------
(***************************************************************************)
(* Jumps, and the host                                                     *)
(***************************************************************************)
LEMMA JumpTyped ==
    ASSUME NEW fs \in SUBSET FunctionObjects,
           NEW h, Typed(fs, h), AfterInstr \in Nat, Instr.offset \in Int, Jump
    PROVE  pc' \in Int /\ exit' \in Exits
BY DEF Typed, Jump, Exits

LEMMA JumpOpTyped ==
    ASSUME NEW fs \in SUBSET FunctionObjects,
           NEW h, Typed(fs, h), JumpOp
    PROVE  Typed(fs, h)'
<1>1. AfterInstr \in Nat /\ Instr.offset \in Int
  BY Fetched, Operands DEF JumpOp
<1>2. pc' \in Int /\ exit' \in Exits
  BY <1>1, JumpTyped DEF JumpOp
<1> QED BY <1>2 DEF JumpOp, Typed

LEMMA JumpFalseTyped ==
    ASSUME NEW fs \in SUBSET FunctionObjects,
           NEW h, Typed(fs, h), JumpFalse
    PROVE  Typed(fs, h)'
<1>1. AfterInstr \in Nat /\ Instr.offset \in Int
  BY Fetched, Operands DEF JumpFalse
<1>2. CASE ~CanPop(stack) \/ Peek(stack) = Indeterminate
  BY <1>2, UndefinedTyped DEF JumpFalse
<1>3. CASE ~(~CanPop(stack) \/ Peek(stack) = Indeterminate)
  <2>1. /\ Jump \/ (pc' = AfterInstr /\ UNCHANGED exit)
        /\ UNCHANGED <<prog, stack, calls, up, globals, retval, host>>
    BY <1>3 DEF JumpFalse
  <2>2. pc' \in Int /\ exit' \in Exits
    BY <1>1, <2>1, JumpTyped DEF Typed
  <2> QED BY <2>1, <2>2 DEF Typed
<1> QED BY <1>2, <1>3

LEMMA UnknownOpTyped ==
    ASSUME NEW fs \in SUBSET FunctionObjects,
           NEW h, Typed(fs, h), UnknownOp
    PROVE  Typed(fs, h)'
BY DEF Typed, UnknownOp, Exits

LEMMA AddNativeTyped ==
    ASSUME NEW fs \in SUBSET FunctionObjects,
           NEW h, Typed(fs, h), NEW name \in HostNatives, AddNative(name)
    PROVE  Typed(fs, h)'
<1>1. name \in STRING /\ Object(Native(name)) \in ValueOf(fs, h) /\ GlobalsOK(fs, h, globals)
  <2>1. name \in STRING
    BY ProgramsAssumption
  <2>2. Object(Native(name)) \in ValueOf(fs, h)
    BY MadeValues
  <2> QED BY <2>1, <2>2 DEF Typed
<1>2. globals' = [n \in DOMAIN globals \cup {name} |->
                    IF n = name THEN Object(Native(name)) ELSE globals[n]]
  BY DEF AddNative
<1>3. GlobalsOK(fs, h, globals')
  <2>1. DOMAIN globals' \subseteq STRING
    BY <1>1, <1>2 DEF GlobalsOK
  <2>2. \A n \in DOMAIN globals' : globals'[n] \in ValueOf(fs, h)
    BY <1>1, <1>2 DEF GlobalsOK
  <2> QED BY <2>1, <2>2 DEF GlobalsOK
<1> QED BY <1>3 DEF AddNative, Typed, Exits

LEMMA HostPushTyped ==
    ASSUME NEW fs \in SUBSET FunctionObjects,
           NEW h, Typed(fs, h), NEW v \in HostValues, HostPush(v)
    PROVE  Typed(fs, h)'
<1>1. v \in ValueOf(fs, h)
  BY FunctionsAreObjects DEF ValueOf, Typed
<1>2. stack' \in StackOf(ValueOf(fs, h))
  BY <1>1, PushTyped DEF HostPush, Typed
<1> QED BY <1>2 DEF HostPush, Typed

LEMMA HostPopTyped ==
    ASSUME NEW fs \in SUBSET FunctionObjects,
           NEW h, Typed(fs, h), HostPop
    PROVE  Typed(fs, h)'
<1>1. stack' \in StackOf(ValueOf(fs, h))
  BY PopTyped DEF HostPop, Typed
<1> QED BY <1>1 DEF HostPop, Typed

LEMMA RunFunctionTyped ==
    ASSUME NEW fs \in SUBSET FunctionObjects,
           NEW h, Typed(fs, h), NEW name \in Entries, RunFunction(name)
    PROVE  Typed(fs, h)'
<1>1. stack.size \in 0 .. MaxSize
  BY DEF Typed, StackOf
<1>2. host' \in Hosts
  BY <1>1 DEF RunFunction, Hosts
<1> QED BY <1>2 DEF RunFunction, Typed

LEMMA FinishRunTyped ==
    ASSUME NEW fs \in SUBSET FunctionObjects,
           NEW h, Typed(fs, h), FinishRun
    PROVE  Typed(fs, h)'
BY DEF FinishRun, Typed, Hosts

------------------------------------------------------------------------------
(***************************************************************************)
(* OP_CLOSURE.  The rounds of its loop are counted: the state after n of   *)
(* them is Rounds[n], and every round keeps what an invariant asks.        *)
(***************************************************************************)
\* One call of CaptureOne for each capture, from the upvalues of now.
Runs(rounds, captures, n) ==
    rounds = [m \in 0 .. n |-> IF m = 0 THEN [up |-> up, refs |-> <<>>]
                                       ELSE CaptureOne(rounds[m - 1], captures[m])]

\* The loop runs to its end: there are such rounds, and the last of them is
\* what CaptureAll answers.
LEMMA RoundsExist ==
    ASSUME NEW captures, NEW n \in Nat
    PROVE  \E rounds : Runs(rounds, captures, n)
<1> DEFINE S == { m \in Nat : ~ \E rounds : Runs(rounds, captures, m) }
<1>1. SUFFICES ASSUME S # {} PROVE FALSE
  OBVIOUS
<1>2. PICK m \in S : \A k \in S : m <= k
  <2>1. S \subseteq Nat
    OBVIOUS
  <2> HIDE DEF S
  <2> QED BY <1>1, <2>1, LeastMember
<1>3. m # 0
  <2>1. PICK rounds : rounds = [k \in 0 .. 0 |-> [up |-> up, refs |-> <<>>]]
    OBVIOUS
  <2>2. \A k \in 0 .. 0 : k = 0
    OBVIOUS
  <2>3. Runs(rounds, captures, 0)
    BY <2>1, <2>2 DEF Runs
  <2> QED BY <2>3
<1>4. PICK rounds : Runs(rounds, captures, m - 1)
  BY <1>2, <1>3
<1>5. PICK more : more = [k \in 0 .. m |-> IF k = m THEN CaptureOne(rounds[m - 1], captures[m])
                                                  ELSE rounds[k]]
  OBVIOUS
<1>6. ASSUME NEW k \in 0 .. m
      PROVE  more[k] = IF k = 0 THEN [up |-> up, refs |-> <<>>]
                                ELSE CaptureOne(more[k - 1], captures[k])
  <2>1. CASE k = 0
    <3>1. more[0] = rounds[0] /\ 0 \in 0 .. m - 1
      BY <1>3, <1>5
    <3> QED BY <1>4, <2>1, <3>1 DEF Runs
  <2>2. CASE k # 0 /\ k # m
    <3>1. k \in 0 .. m - 1 /\ k - 1 \in 0 .. m /\ k - 1 # m
      BY <2>2
    <3>2. more[k] = rounds[k] /\ more[k - 1] = rounds[k - 1]
      BY <1>5, <2>2, <3>1
    <3>3. rounds[k] = CaptureOne(rounds[k - 1], captures[k])
      BY <1>4, <2>2, <3>1 DEF Runs
    <3> QED BY <2>2, <3>2, <3>3
  <2>3. CASE k # 0 /\ k = m
    <3>1. k - 1 \in 0 .. m /\ k - 1 # m
      BY <2>3
    <3>2. more[k] = CaptureOne(rounds[k - 1], captures[k]) /\ more[k - 1] = rounds[k - 1]
      BY <1>5, <2>3, <3>1
    <3> QED BY <2>3, <3>2
  <2> QED BY <2>1, <2>2, <2>3
<1>7. more = [k \in 0 .. m |-> IF k = 0 THEN [up |-> up, refs |-> <<>>]
                                        ELSE CaptureOne(more[k - 1], captures[k])]
  BY <1>5, <1>6
<1>8. Runs(more, captures, m)
  BY <1>7 DEF Runs
<1> QED BY <1>2, <1>8

LEMMA CaptureAllRuns ==
    ASSUME NEW captures, Len(captures) \in Nat
    PROVE  \E rounds : Runs(rounds, captures, Len(captures))
                       /\ CaptureAll(captures) = rounds[Len(captures)]
<1>1. \E rounds : Runs(rounds, captures, Len(captures))
  BY RoundsExist
<1>2. PICK rounds :
        rounds = CHOOSE after : after = [n \in 0 .. Len(captures) |->
                                           IF n = 0 THEN [up |-> up, refs |-> <<>>]
                                                    ELSE CaptureOne(after[n - 1], captures[n])]
  OBVIOUS
<1>3. Runs(rounds, captures, Len(captures))
  BY <1>1, <1>2 DEF Runs
<1>4. CaptureAll(captures) = rounds[Len(captures)]
  BY <1>2, Zenon DEF CaptureAll
<1> QED BY <1>3, <1>4

\* What a round leaves, when there were h upvalues before the first.
RoundOK(fs, h, r) ==
    /\ r = [up |-> r.up, refs |-> r.refs]
    /\ WellTyped(r.up, Pointers, ValueOf(fs, h)) /\ Sorted(r.up) /\ Complete(r.up)
    /\ Len(r.up.heap) \in Nat /\ h <= Len(r.up.heap)
    /\ r.refs \in Seq(1 .. Len(r.up.heap))

LEMMA CaptureOneTyped ==
    ASSUME NEW fs \in SUBSET FunctionObjects,
           NEW h \in Nat, Typed(fs, h), NEW r, RoundOK(fs, h, r),
           NEW capture \in Capture, CanCapture(capture)
    PROVE  RoundOK(fs, h, CaptureOne(r, capture))
<1>1. capture.index \in Nat
  BY DEF Capture
<1>2. PICK k \in Nat : k = Len(r.up.heap) /\ h <= k /\ r.refs \in Seq(1 .. k)
  BY DEF RoundOK
<1>3. CASE capture.local
  <2> DEFINE cell == Get(stack, (CurrentCall.stack_addr + capture.index) % U32)
  <2>1. (CurrentCall.stack_addr + capture.index) % U32 \in Nat
    <3>1. CurrentCall.stack_addr + capture.index \in Int
      BY <1>1, <1>3, CurrentFrame DEF CanCapture
    <3> QED BY <3>1, ModRange
  <2>2. cell \in Pointers
    BY <2>1, GetRange DEF Typed, Pointers
  <2>3. PICK d : d = CaptureOne(r, capture)
    OBVIOUS
  <2>4. d = [up |-> CaptureUpvalue(r.up, cell), refs |-> Append(r.refs, Captured(r.up, cell))]
    BY <1>3, <2>3 DEF CaptureOne
  <2> HIDE DEF cell
  <2>5. /\ WellTyped(d.up, Pointers, ValueOf(fs, h)) /\ Sorted(d.up) /\ Complete(d.up)
    BY <2>2, <2>4, CaptureProperties, PointersAreNotOwn, MadeValues, VMAssumption DEF RoundOK
  <2>6. Len(d.up.heap) \in k .. k + 1 /\ Captured(r.up, cell) \in 1 .. Len(d.up.heap)
    BY <1>2, <2>2, <2>4, CapturedProperties, PointersAreNotOwn DEF RoundOK
  <2>7. Append(r.refs, Captured(r.up, cell)) \in Seq(1 .. Len(d.up.heap))
    <3>1. 1 .. k \subseteq 1 .. Len(d.up.heap)
      BY <2>6
    <3>2. r.refs \in Seq(1 .. Len(d.up.heap))
      <4>1. PICK n : n = Len(d.up.heap)
        OBVIOUS
      <4>2. r.refs \in Seq(1 .. n)
        BY <1>2, <3>1, <4>1, SeqMonotonic
      <4> QED BY <4>1, <4>2
    <3> QED BY <2>6, <3>2, AppendProperties
  <2> QED BY <1>2, <2>3, <2>4, <2>5, <2>6, <2>7 DEF RoundOK
<1>4. CASE ~capture.local
  <2>1. UpvalueAt(capture.index) \in 1 .. k
    <3>1. UpvalueAt(capture.index) \in 1 .. h
      BY <1>1, <1>4, UpvalueAtTyped DEF CanCapture
    <3> QED BY <1>2, <3>1
  <2>2. PICK d : d = CaptureOne(r, capture)
    OBVIOUS
  <2>3. d = [up |-> r.up, refs |-> Append(r.refs, UpvalueAt(capture.index))]
    BY <1>4, <2>2 DEF CaptureOne, RoundOK
  <2>4. Append(r.refs, UpvalueAt(capture.index)) \in Seq(1 .. k)
    BY <1>2, <2>1, AppendProperties
  <2> QED BY <1>2, <2>2, <2>3, <2>4 DEF RoundOK
<1> QED BY <1>3, <1>4

\* Every round of the loop is OK, by induction on their number.
LEMMA CaptureAllTyped ==
    ASSUME NEW fs \in SUBSET FunctionObjects,
           NEW h \in Nat, Typed(fs, h), UpvaluesOK(fs, h, up), NEW captures \in Seq(Capture),
           \A i \in 1 .. Len(captures) : CanCapture(captures[i])
    PROVE  RoundOK(fs, h, CaptureAll(captures))
<1>1. PICK n \in Nat : n = Len(captures)
  OBVIOUS
<1>2. PICK rounds : Runs(rounds, captures, n) /\ CaptureAll(captures) = rounds[n]
  BY <1>1, CaptureAllRuns
<1> DEFINE S == { m \in 0 .. n : ~ RoundOK(fs, h, rounds[m]) }
<1>3. SUFFICES ASSUME S # {} PROVE FALSE
  BY <1>1, <1>2
<1>4. PICK m \in S : \A k \in S : m <= k
  <2>1. S \subseteq Nat
    OBVIOUS
  <2> HIDE DEF S
  <2> QED BY <1>3, <2>1, LeastMember
<1>5. CASE m = 0
  <2>1. PICK r : r = rounds[0]
    OBVIOUS
  <2>2. r = [up |-> up, refs |-> <<>>]
    BY <1>4, <1>5, <1>2, <2>1 DEF Runs
  <2>3. <<>> \in Seq(1 .. Len(up.heap))
    OBVIOUS
  <2>4. RoundOK(fs, h, r)
    BY <2>2, <2>3 DEF RoundOK, UpvaluesOK
  <2> QED BY <1>4, <1>5, <2>1, <2>4
<1>6. CASE m # 0
  <2>1. m - 1 \in 0 .. n /\ m \in 1 .. Len(captures)
    BY <1>1, <1>4, <1>6
  <2>2. RoundOK(fs, h, rounds[m - 1])
    BY <1>4, <2>1
  <2>3. rounds[m] = CaptureOne(rounds[m - 1], captures[m])
    BY <1>2, <1>4, <1>6 DEF Runs
  <2>4. captures[m] \in Capture /\ CanCapture(captures[m])
    BY <2>1, ElementOfSeq
  <2>5. RoundOK(fs, h, rounds[m])
    BY <2>2, <2>3, <2>4, CaptureOneTyped
  <2> QED BY <1>4, <2>5
<1> QED BY <1>5, <1>6

\* More upvalues: every value stays a value.
LEMMA MoreUpvalues ==
    ASSUME NEW fs \in SUBSET FunctionObjects,
           NEW h \in Nat, NEW k \in Nat, h <= k
    PROVE  /\ Typed(fs, h) => Typed(fs, k)
           /\ \A w : WellTyped(w, Pointers, ValueOf(fs, h)) => WellTyped(w, Pointers, ValueOf(fs, k))
<1>1. ValueOf(fs, h) \subseteq ValueOf(fs, k)
  BY ValueMonotonic
<1>2. StackOf(ValueOf(fs, h)) \subseteq StackOf(ValueOf(fs, k))
  BY <1>1 DEF StackOf
<1>3. Seq(Frames(h)) \subseteq Seq(Frames(k))
  <2>1. Frames(h) \subseteq Frames(k)
    BY ValueMonotonic DEF Frames
  <2> QED BY <2>1, SeqMonotonic
<1>4. Typed(fs, h) => Typed(fs, k)
  BY <1>1, <1>2, <1>3 DEF Typed, CallsOK, GlobalsOK
<1>5. ASSUME NEW w, WellTyped(w, Pointers, ValueOf(fs, h))
      PROVE  WellTyped(w, Pointers, ValueOf(fs, k))
  <2>1. [value : {OwnCell} \cup Pointers, closed : ValueOf(fs, h)]
          \subseteq [value : {OwnCell} \cup Pointers, closed : ValueOf(fs, k)]
    BY <1>1
  <2>2. w.heap \in Seq([value : {OwnCell} \cup Pointers, closed : ValueOf(fs, h)])
    BY <1>5 DEF WellTyped
  <2>3. w.heap \in Seq([value : {OwnCell} \cup Pointers, closed : ValueOf(fs, k)])
    BY <2>1, <2>2, SeqMonotonic, Zenon
  <2> QED BY <1>5, <2>3 DEF WellTyped
<1> QED BY <1>4, <1>5

LEMMA MakeClosureTyped ==
    ASSUME NEW fs \in SUBSET FunctionObjects,
           NEW h \in Nat, Typed(fs, h), UpvaluesOK(fs, h, up), MakeClosure
    PROVE  \E k \in Nat : Typed(fs, k)' /\ UpvaluesOK(fs, k, up')
<1> DEFINE captures == { Instr.captures[i] : i \in DOMAIN Instr.captures }
<1>1. AfterInstr \in Nat /\ Instr.captures \in Seq(Capture)
  BY Fetched, Operands DEF MakeClosure
<1>2. CASE Undefined
  <2>1. Typed(fs, h)' /\ up' = up
    BY <1>2, UndefinedTyped DEF Undefined
  <2> QED BY <2>1
<1>3. CASE UNCHANGED up /\ pc' = AfterInstr /\ UNCHANGED <<prog, calls, globals, retval, host>>
           /\ (StackEmpty \/ RuntimeError(Pop(stack), "EXIT_USER_ERROR"))
  <2>1. stack' \in StackOf(ValueOf(fs, h)) /\ exit' \in Exits
    BY <1>3, TopTyped, StackEmptyTyped DEF RuntimeError, Exits
  <2>2. Typed(fs, h)'
    BY <1>1, <1>3, <2>1, StackStepTyped
  <2> QED BY <1>3, <2>2
<1>4. CASE /\ \A c \in captures : CanCapture(c)
           /\ pc' = AfterInstr /\ UNCHANGED <<prog, calls, globals, retval, host>>
           /\ CanPop(stack)
           /\ IsKind(Peek(stack), "function")
           /\ up' = CaptureAll(Instr.captures).up
           /\ stack' = Push(Pop(stack), Object(Closure(Peek(stack).object,
                                                       CaptureAll(Instr.captures).refs)))
           /\ UNCHANGED exit
  <2>1. PICK made : made = CaptureAll(Instr.captures)
    OBVIOUS
  <2>2. \A i \in 1 .. Len(Instr.captures) : CanCapture(Instr.captures[i])
    BY <1>1, <1>4
  <2>3. RoundOK(fs, h, made)
    BY <1>1, <2>1, <2>2, CaptureAllTyped
  <2>4. PICK k \in Nat : k = Len(made.up.heap) /\ h <= k /\ made.refs \in Seq(1 .. k)
    BY <2>3 DEF RoundOK
  <2>5. UpvaluesOK(fs, k, made.up)
    BY <2>3, <2>4, MoreUpvalues DEF RoundOK, UpvaluesOK
  <2>6. Typed(fs, k)
    BY <2>4, MoreUpvalues
  <2>7. Peek(stack).object \in fs /\ Pop(stack) \in StackOf(ValueOf(fs, k))
    BY <1>4, <2>6, TopTyped, KnownKinds
  <2>8. Object(Closure(Peek(stack).object, made.refs)) \in ValueOf(fs, k)
    BY <2>4, <2>7, MadeValues
  <2>9. stack' \in StackOf(ValueOf(fs, k)) /\ exit' \in Exits
    BY <1>4, <2>1, <2>6, <2>7, <2>8, PushTyped DEF Typed
  <2>10. Typed(fs, k)'
    BY <1>1, <1>4, <2>6, <2>9, StackStepTyped
  <2>11. up' = made.up
    BY <1>4, <2>1
  <2> QED BY <2>4, <2>5, <2>10, <2>11
<1> QED BY <1>2, <1>3, <1>4 DEF MakeClosure

------------------------------------------------------------------------------
(***************************************************************************)
(* The invariant is inductive                                              *)
(***************************************************************************)
LEMMA InitInv == Init => Inv
<1> SUFFICES ASSUME Init PROVE Inv
  OBVIOUS
<1> DEFINE fs == Functions(prog)
<1>0. IsProgram(prog) /\ fs \in SUBSET FunctionObjects
  BY ProgramsAssumption, FunctionsAreObjects DEF Init, InitMachine
<1> HIDE DEF fs
<1>1. up = [heap |-> <<>>, open |-> <<>>] /\ Len(up.heap) = 0 /\ Len(up.open) = 0
  BY DEF Init, InitMachine, NoUpvalues
<1>2. UpvaluesOK(fs, 0, up)
  <2>1. <<>> \in Seq([value : {OwnCell} \cup Pointers, closed : ValueOf(fs, 0)])
        /\ <<>> \in Seq(1 .. 0)
    OBVIOUS
  <2>2. WellTyped(up, Pointers, ValueOf(fs, 0))
    BY <1>1, <2>1 DEF WellTyped
  <2> QED BY <1>1, <2>2 DEF UpvaluesOK, Sorted, Complete
<1>3. stack \in StackOf(ValueOf(fs, 0))
  <2>1. Indeterminate \in ValueOf(fs, 0)
    BY <1>0, MadeValues, VMAssumption
  <2> QED BY <2>1, MaxSizeAssumption DEF Init, InitMachine, CreateStack, StackOf
<1>4. pc \in Int
  BY <1>0 DEF Init, InitMachine, IsProgram
<1>5. CallsOK(0, calls)
  BY VMAssumption DEF Init, InitMachine, CallsOK
<1>6. GlobalsOK(fs, 0, globals)
  <2>1. globals = [name \in StandardNatives |-> Object(Native(name))]
    BY DEF Init, InitMachine
  <2>2. \A name \in StandardNatives : globals[name] \in ValueOf(fs, 0)
    BY <1>0, <2>1, MadeValues
  <2>3. StandardNatives \subseteq STRING
    BY ProgramsAssumption
  <2> QED BY <2>1, <2>2, <2>3 DEF GlobalsOK
<1>7. exit \in Exits /\ retval \in ValueOf(fs, 0) /\ host \in Hosts
  BY <1>0, MadeValues DEF Init, InitMachine, Exits, Hosts
<1> QED BY <1>0, <1>1, <1>2, <1>3, <1>4, <1>5, <1>6, <1>7 DEF Inv, Typed, fs

\* Every instruction, whatever its operands.
LEMMA ExecuteInv ==
    ASSUME NEW fs \in SUBSET FunctionObjects,
           NEW h \in Nat, Typed(fs, h), UpvaluesOK(fs, h, up), Execute
    PROVE  \E k \in Nat : Typed(fs, k)' /\ UpvaluesOK(fs, k, up')
<1>1. FetchStray => Typed(fs, h)' /\ up' = up
  BY FetchStrayTyped DEF FetchStray
<1>2. PushLiteral => Typed(fs, h)' /\ up' = up
  BY PushLiteralTyped DEF PushLiteral
<1>3. BinaryOp => Typed(fs, h)' /\ up' = up
  BY BinaryOpTyped DEF BinaryOp, Undefined
<1>4. Step => Typed(fs, h)' /\ up' = up
  BY StepTyped DEF Step, Undefined
<1>5. Negate => Typed(fs, h)' /\ up' = up
  BY NegateTyped DEF Negate, Undefined
<1>6. HaltOp => Typed(fs, h)' /\ up' = up
  BY HaltOpTyped DEF HaltOp
<1>7. PopOp => Typed(fs, h)' /\ up' = up
  BY PopOpTyped DEF PopOp
<1>8. PopNOp => Typed(fs, h)' /\ up' = up
  BY PopNOpTyped DEF PopNOp
<1>9. TopOp => Typed(fs, h)' /\ up' = up
  BY TopOpTyped DEF TopOp
<1>10. LoadLocal => Typed(fs, h)' /\ up' = up
  BY LoadLocalTyped DEF LoadLocal, Undefined
<1>11. SetLocal => Typed(fs, h)' /\ up' = up
  BY SetLocalTyped DEF SetLocal, Undefined
<1>12. LoadUpvalue => Typed(fs, h)' /\ up' = up
  BY LoadUpvalueTyped DEF LoadUpvalue, Undefined
<1>13. SetUpvalue => Typed(fs, h)' /\ UpvaluesOK(fs, h, up')
  BY SetUpvalueTyped
<1>14. CloseUpvalue => Typed(fs, h)' /\ UpvaluesOK(fs, h, up')
  BY CloseUpvalueTyped
<1>15. SetGlobal => Typed(fs, h)' /\ up' = up
  BY SetGlobalTyped DEF SetGlobal
<1>16. LoadGlobal => Typed(fs, h)' /\ up' = up
  BY LoadGlobalTyped DEF LoadGlobal
<1>17. MakeClosure => \E k \in Nat : Typed(fs, k)' /\ UpvaluesOK(fs, k, up')
  BY MakeClosureTyped
<1>18. Call => Typed(fs, h)' /\ up' = up
  BY CallTyped
<1>19. Begin => Typed(fs, h)' /\ up' = up
  BY BeginTyped
<1>20. ReturnVoid => Typed(fs, h)' /\ UpvaluesOK(fs, h, up')
  BY ReturnVoidTyped
<1>21. ReturnValue => Typed(fs, h)' /\ UpvaluesOK(fs, h, up')
  BY ReturnValueTyped
<1>22. JumpOp => Typed(fs, h)' /\ up' = up
  BY JumpOpTyped DEF JumpOp
<1>23. JumpFalse => Typed(fs, h)' /\ up' = up
  BY JumpFalseTyped DEF JumpFalse, Undefined
<1>24. UnknownOp => Typed(fs, h)' /\ up' = up
  BY UnknownOpTyped DEF UnknownOp
<1>25. Typed(fs, h)' /\ up' = up => Typed(fs, h)' /\ UpvaluesOK(fs, h, up')
  OBVIOUS
<1> QED BY <1>1, <1>2, <1>3, <1>4, <1>5, <1>6, <1>7, <1>8, <1>9, <1>10, <1>11, <1>12, <1>13,
           <1>14, <1>15, <1>16, <1>17, <1>18, <1>19, <1>20, <1>21, <1>22, <1>23, <1>24,
           <1>25 DEF Execute

LEMMA HostInv ==
    ASSUME NEW fs \in SUBSET FunctionObjects,
           NEW h, Typed(fs, h), FinishRun \/ HostCall
    PROVE  Typed(fs, h)' /\ up' = up
<1>1. CASE FinishRun
  BY <1>1, FinishRunTyped DEF FinishRun
<1>2. CASE \E name \in HostNatives : AddNative(name)
  BY <1>2, AddNativeTyped DEF AddNative
<1>3. CASE \E v \in HostValues : HostPush(v)
  BY <1>3, HostPushTyped DEF HostPush
<1>4. CASE HostPop
  BY <1>4, HostPopTyped DEF HostPop
<1>5. CASE \E name \in Entries : RunFunction(name)
  BY <1>5, RunFunctionTyped DEF RunFunction
<1> QED BY <1>1, <1>2, <1>3, <1>4, <1>5 DEF HostCall

\* What the invariant says, for the functions and the number of upvalues there
\* are.
LEMMA InvParts ==
    ASSUME Inv
    PROVE  \E fs \in SUBSET FunctionObjects, h \in Nat :
             fs = Functions(prog) /\ h = Len(up.heap) /\ Typed(fs, h) /\ UpvaluesOK(fs, h, up)
<1>1. Functions(prog) \in SUBSET FunctionObjects
  BY FunctionsAreObjects DEF Inv, Typed
<1>2. Len(up.heap) \in Nat
  BY DEF Inv, UpvaluesOK, WellTyped
<1> QED BY <1>1, <1>2 DEF Inv

LEMMA NextInv == Inv /\ [Next]_vars => Inv'
<1> SUFFICES ASSUME Inv, [Next]_vars PROVE Inv'
  OBVIOUS
<1>1. PICK fs \in SUBSET FunctionObjects, h \in Nat :
        fs = Functions(prog) /\ h = Len(up.heap) /\ Typed(fs, h) /\ UpvaluesOK(fs, h, up)
  BY InvParts
<1>2. \E k \in Nat : Typed(fs, k)' /\ UpvaluesOK(fs, k, up')
  <2>1. CASE Execute
    BY <1>1, <2>1, ExecuteInv
  <2>2. CASE FinishRun \/ HostCall
    BY <1>1, <2>2, HostInv
  <2>3. CASE UNCHANGED vars
    <3>1. Typed(fs, h)' /\ up' = up
      BY <1>1, <2>3 DEF Typed, vars
    <3> QED BY <1>1, <3>1
  <2> QED BY <2>1, <2>2, <2>3 DEF Next
<1>3. PICK k \in Nat : Typed(fs, k)' /\ UpvaluesOK(fs, k, up')
  BY <1>2
<1>4. k = Len(up'.heap) /\ fs = Functions(prog')
  BY <1>3 DEF UpvaluesOK, Typed
<1>5. Typed(Functions(prog), Len(up.heap))'
  BY <1>3, <1>4
<1>6. UpvaluesOK(Functions(prog'), Len(up'.heap), up')
  BY <1>3, <1>4
<1> QED BY <1>5, <1>6 DEF Inv

LEMMA AlwaysInv == Spec => []Inv
BY InitInv, NextInv, PTL DEF Spec

------------------------------------------------------------------------------
(***************************************************************************)
(* What holds of every state                                               *)
(***************************************************************************)
LEMMA ValuesAreValues ==
    ASSUME NEW fs \in SUBSET FunctionObjects, NEW h, h = Len(up.heap)
    PROVE  ValueOf(fs, h) \subseteq Value
<1>1. PlainOf(fs) \subseteq PlainValues
  BY DEF PlainOf, PlainValues
<1>2. ClosureValues(fs, h) \subseteq
        [type : {"object"},
         object : [kind : {"closure"}, function : FunctionObjects, upvalues : Seq(UpvalueRefs)]]
  BY DEF ClosureValues, UpvalueRefs
<1> QED BY <1>1, <1>2 DEF ValueOf, Value

\* TypeOK of module VM: whatever its bytecode, the machine never stores
\* outside the block of the stack, outside the call stack or in an upvalue
\* that does not exist, and what it reads are values.
THEOREM MachineTypeOK == Spec => []TypeOK
<1>1. Inv => TypeOK
  <2>1. ASSUME Inv PROVE TypeOK
    <3>0. PICK fs \in SUBSET FunctionObjects, h \in Nat :
            h = Len(up.heap) /\ Typed(fs, h) /\ UpvaluesOK(fs, h, up)
      BY <2>1, InvParts
    <3>1. ValueOf(fs, h) \subseteq Value
      BY <3>0, ValuesAreValues DEF UpvalueRefs
    <3>2. calls \in Seq([return_addr : Nat, stack_addr : 0 .. U32 - 1,
                         closure : Seq(UpvalueRefs)])
          /\ Len(calls) <= MaxCalls
      BY <3>0 DEF Typed, CallsOK, Frames, UpvalueRefs
    <3>3. /\ up.heap \in Seq([value : {OwnCell} \cup Pointers, closed : Value])
          /\ up.open \in Seq(UpvalueRefs)
      <4>1. [value : {OwnCell} \cup Pointers, closed : ValueOf(fs, h)]
              \subseteq [value : {OwnCell} \cup Pointers, closed : Value]
        BY <3>1
      <4>2. up.heap \in Seq([value : {OwnCell} \cup Pointers, closed : ValueOf(fs, h)])
            /\ up.open \in Seq(UpvalueRefs)
        BY <3>0 DEF UpvaluesOK, WellTyped, UpvalueRefs
      <4>3. PICK S, T : /\ S = [value : {OwnCell} \cup Pointers, closed : ValueOf(fs, h)]
                        /\ T = [value : {OwnCell} \cup Pointers, closed : Value]
        OBVIOUS
      <4>4. up.heap \in Seq(T)
        <5>1. S \subseteq T /\ up.heap \in Seq(S)
          BY <4>1, <4>2, <4>3
        <5> QED BY <5>1, SeqMonotonic
      <4> QED BY <4>2, <4>3, <4>4
    <3>4. {OwnCell} \cup Pointers = Addresses \cup {NULL, OwnCell, MaxSize}
      BY DEF Pointers
    <3>5. host \in {Idle} \cup [mode : {"running", "spent"}, function : Entries, args : 0 .. MaxSize]
      BY <3>0 DEF Typed, Hosts
    <3>6. stack \in StackOf(Value)
      BY <3>0, <3>1 DEF Typed, StackOf
    <3> QED BY <3>0, <3>1, <3>2, <3>3, <3>4, <3>5, <3>6 DEF Typed, TypeOK, GlobalsOK
  <2> QED BY <2>1
<1> QED BY <1>1, AlwaysInv, PTL

\* OpenListExact of module VM: capture_upvalue and close_upvalues may rely
\* on the order of the list in every program, also one that returns, jumps
\* or captures where no compiler would; no upvalue is lost, and none is
\* closed but still on the list.
THEOREM MachineOpenListExact == Spec => []OpenListExact
<1>1. Inv => OpenListExact
  BY DEF Inv, UpvaluesOK, OpenListExact
<1> QED BY <1>1, AlwaysInv, PTL

\* LocalsInBlock of module VM: OP_LOAD_LOCAL and OP_SET_LOCAL stay inside
\* the block although ch_stack.c accepts the address just above the top.
THEOREM MachineLocalsInBlock == Spec => []LocalsInBlock
<1>1. ASSUME Inv PROVE LocalsInBlock
  <2>1. SUFFICES ASSUME At({"OP_LOAD_LOCAL", "OP_SET_LOCAL"}), HasFrame, CanPop(stack),
                        NEW address, address = LocalAddress(Instr.local)
                 PROVE  /\ AddressOk(Pop(stack), address) => address \in Addresses
                        /\ CanCopy(stack, address) => address \in Addresses
    BY DEF LocalsInBlock
  <2>2. PICK fs \in SUBSET FunctionObjects, h \in Nat : Typed(fs, h)
    BY <1>1, InvParts
  <2>3. Instr.local \in Nat
    BY <2>1, <2>2, Fetched, Operands
  <2>4. address \in Nat
    BY <2>1, <2>2, <2>3, LocalAddressIsNat
  <2>5. stack.size \in Nat /\ stack.size <= MaxSize /\ Pop(stack).size = stack.size - 1
    BY <2>1, <2>2, StackShape, PopTyped DEF Typed
  <2> QED BY <2>4, <2>5, MaxSizeAssumption DEF AddressOk, CanCopy, Addresses
<1> QED BY <1>1, AlwaysInv, PTL

------------------------------------------------------------------------------
(***************************************************************************)
(* What holds of every step                                                *)
(***************************************************************************)
\* A call takes no frame away, also when it fails.
LEMMA TryCallKeepsFrames ==
    ASSUME NEW fs \in SUBSET FunctionObjects,
           NEW h, Typed(fs, h), NEW callee, NEW argcount, NEW st, NEW ex,
           TryCall(callee, argcount, st, ex)
    PROVE  Len(calls') >= Len(calls)
<1>1. calls \in Seq(Frames(h)) /\ Len(calls) \in Nat
  BY DEF Typed, CallsOK
<1>2. ASSUME NEW f, NEW refs, Enter(f, refs, argcount, st, ex)
      PROVE  Len(calls') >= Len(calls)
  <2>1. PICK frame : calls' = Append(calls, frame)
    BY <1>2 DEF Enter
  <2>2. Len(Append(calls, frame)) = Len(calls) + 1
    BY <1>1
  <2> QED BY <1>1, <2>1, <2>2
<1>3. ASSUME NEW refs, HasFrame, calls' = [calls EXCEPT ![Len(calls)].closure = refs]
      PROVE  Len(calls') >= Len(calls)
  <2>1. DOMAIN calls' = DOMAIN calls
    BY <1>3
  <2> QED BY <1>1, <2>1
<1>4. calls' = calls => Len(calls') >= Len(calls)
  BY <1>1
<1>5. CASE IsKind(callee, "function") /\ CallFunction(callee.object, argcount, st, ex)
  BY <1>2, <1>4, <1>5 DEF CallFunction
<1>6. CASE IsKind(callee, "closure") /\ CallClosure(callee.object, argcount, st, ex)
  BY <1>2, <1>3, <1>4, <1>6, Zenon DEF CallClosure, Undefined
<1>7. CASE IsKind(callee, "native") /\ CallNative(callee.object.native, argcount, st, ex)
  BY <1>4, <1>7 DEF CallNative, Undefined
<1> QED BY <1>4, <1>5, <1>6, <1>7 DEF TryCall, Undefined

\* Only a return takes a frame away.
LEMMA OnlyReturnsLeave ==
    ASSUME NEW fs \in SUBSET FunctionObjects,
           NEW h, Typed(fs, h), [Next]_vars, Len(calls') < Len(calls)
    PROVE  ReturnVoid \/ ReturnValue
<1>1. calls' # calls /\ ~ (Len(calls') >= Len(calls))
  <2>1. Len(calls) \in Nat
    BY DEF Typed, CallsOK
  <2>2. CASE calls' = calls
    BY <2>1, <2>2
  <2>3. CASE Len(calls') >= Len(calls)
    <3>1. PICK m : m = Len(calls')
      OBVIOUS
    <3> QED BY <2>1, <2>3, <3>1
  <2> QED BY <2>2, <2>3
<1>2. Execute => Call \/ Begin \/ ReturnVoid \/ ReturnValue
  <2>1. FetchStray => calls' = calls
    BY DEF FetchStray
  <2>2. PushLiteral => calls' = calls
    BY DEF PushLiteral
  <2>3. BinaryOp => calls' = calls
    BY DEF BinaryOp, Undefined
  <2>4. Step => calls' = calls
    BY DEF Step, Undefined
  <2>5. Negate => calls' = calls
    BY DEF Negate, Undefined
  <2>6. HaltOp => calls' = calls
    BY DEF HaltOp
  <2>7. PopOp => calls' = calls
    BY DEF PopOp
  <2>8. PopNOp => calls' = calls
    BY DEF PopNOp
  <2>9. TopOp => calls' = calls
    BY DEF TopOp
  <2>10. LoadLocal => calls' = calls
    BY DEF LoadLocal, Undefined
  <2>11. SetLocal => calls' = calls
    BY DEF SetLocal, Undefined
  <2>12. LoadUpvalue => calls' = calls
    BY DEF LoadUpvalue, Undefined
  <2>13. SetUpvalue => calls' = calls
    BY DEF SetUpvalue, Undefined
  <2>14. CloseUpvalue => calls' = calls
    BY DEF CloseUpvalue, Undefined
  <2>15. SetGlobal => calls' = calls
    BY DEF SetGlobal
  <2>16. LoadGlobal => calls' = calls
    BY DEF LoadGlobal
  <2>17. MakeClosure => calls' = calls
    BY DEF MakeClosure, Undefined
  <2>18. JumpOp => calls' = calls
    BY DEF JumpOp
  <2>19. JumpFalse => calls' = calls
    BY DEF JumpFalse, Undefined
  <2>20. UnknownOp => calls' = calls
    BY DEF UnknownOp
  <2> QED BY <1>1, <2>1, <2>2, <2>3, <2>4, <2>5, <2>6, <2>7, <2>8, <2>9, <2>10, <2>11, <2>12, <2>13, <2>14, <2>15, <2>16, <2>17, <2>18, <2>19, <2>20 DEF Execute
<1>3. ~ Call
  <2>1. CASE StackEmpty /\ UNCHANGED calls
    BY <1>1, <2>1
  <2>2. CASE TryCall(Peek(stack), Instr.argcount, Pop(stack), exit)
    BY <1>1, <2>2, TryCallKeepsFrames
  <2> QED BY <1>1, <2>1, <2>2 DEF Call
<1>4. ~ Begin
  <2>1. PICK st, ex : st = StackWithGlobal(host.function) /\ ex = ExitOfGlobal(host.function)
    OBVIOUS
  <2>2. ~ TryCall(Peek(st), host.args % U8, Pop(st), ex)
    BY <1>1, TryCallKeepsFrames
  <2> QED BY <1>1, <2>1, <2>2 DEF Begin
<1>5. ~ (FinishRun \/ HostCall \/ UNCHANGED vars)
  BY <1>1 DEF FinishRun, HostCall, AddNative, HostPush, HostPop, RunFunction, vars
<1> QED BY <1>2, <1>3, <1>4, <1>5 DEF Next

\* A return closes what points into the frame, wherever the frame begins: a
\* base above the top is answered by NULL, and NULL closes every upvalue.
LEMMA LeaveFrameCloses ==
    ASSUME NEW fs \in SUBSET FunctionObjects,
           NEW h \in Nat, Typed(fs, h), UpvaluesOK(fs, h, up), HasFrame,
           NEW st \in StackOf(ValueOf(fs, h)), NEW last, last = Get(st, CurrentCall.stack_addr),
           CanClose(last), LeaveFrame(last), NEW i \in 1 .. Len(up'.open)
    PROVE  OpenAt(up', i) < CurrentCall.stack_addr
<1>1. CurrentCall.stack_addr \in Nat
  BY CurrentFrame
<1>2. last \in Pointers /\ last \in Int /\ last <= CurrentCall.stack_addr
  <2>1. PICK a \in Nat : a = CurrentCall.stack_addr
    BY <1>1
  <2>2. last \in Pointers
    BY <2>1, GetRange DEF Pointers
  <2>3. last = a \/ last = NULL
    BY <2>1, GetRange, StackShape
  <2> QED BY <2>1, <2>2, <2>3 DEF NULL
<1>3. PICK d : d = up' /\ UpvaluesOK(fs, h, d) /\ Keeps(up, last, d)
  BY <1>2, CloseTyped DEF LeaveFrame
<1>4. OpenAt(d, i) \in OpenAddressSet(d) /\ OpenAt(d, i) \in Int
  BY <1>3, OpenEntry, PointersAreNotOwn DEF OpenAddressSet, UpvaluesOK
<1>5. OpenAt(d, i) < last
  BY <1>3, <1>4 DEF Keeps
<1> QED BY <1>1, <1>2, <1>3, <1>4, <1>5

\* A return gives up the cells of its frame; a base above the top gives up none.
LEMMA ReturnShrinks ==
    ASSUME NEW fs \in SUBSET FunctionObjects,
           NEW h, Typed(fs, h), HasFrame, NEW st \in StackOf(ValueOf(fs, h))
    PROVE  /\ Return(st) \in StackOf(ValueOf(fs, h)) /\ CurrentCall.stack_addr \in Nat
           /\ Return(st).size \in Nat /\ Return(st).size <= CurrentCall.stack_addr
<1>1. PICK base \in Nat : base = CurrentCall.stack_addr
  BY CurrentFrame
<1>2. SeekTo(st, base) \in StackOf(ValueOf(fs, h))
  BY <1>1, SeekTyped
<1>3. SeekTo(st, base).size <= base
  BY <1>1, StackShape DEF SeekTo
<1> QED BY <1>1, <1>2, <1>3, StackShape DEF Return

\* ReturnClosesFrame of module VM: a return leaves no upvalue open at or above
\* the base of the frame it leaves, and at most one value, whatever the program
\* did to the stack.
THEOREM MachineReturnClosesFrame == Spec => ReturnClosesFrame
<1> DEFINE Closed == \A i \in 1 .. Len(up'.open) : OpenAt(up', i) < CurrentCall.stack_addr
           GivesUp == stack'.size <= CurrentCall.stack_addr + 1
<1>1. ASSUME Inv, [Next]_vars PROVE Len(calls') < Len(calls) => Closed /\ GivesUp
  <2>1. SUFFICES ASSUME Len(calls') < Len(calls) PROVE Closed /\ GivesUp
    OBVIOUS
  <2>2. PICK fs \in SUBSET FunctionObjects, h \in Nat : Typed(fs, h) /\ UpvaluesOK(fs, h, up)
    BY <1>1, InvParts
  <2>3. calls' # calls
    <3>1. Len(calls) \in Nat
      BY <2>2 DEF Typed, CallsOK
    <3> QED BY <2>1, <3>1
  <2>4. CASE ReturnVoid
    <3>1. HasFrame /\ CanClose(FrameBase) /\ LeaveFrame(FrameBase) /\ stack' = Return(stack)
      BY <2>3, <2>4 DEF ReturnVoid, Undefined
    <3>2. Closed
      BY <2>2, <3>1, LeaveFrameCloses DEF FrameBase, Typed
    <3>3. stack \in StackOf(ValueOf(fs, h))
      BY <2>2 DEF Typed
    <3>4. GivesUp
      BY <2>2, <3>1, <3>3, ReturnShrinks
    <3> QED BY <3>2, <3>4
  <2>5. CASE ReturnValue
    <3>1. PICK last, st : last = Get(Pop(stack), CurrentCall.stack_addr) /\ st = Return(Pop(stack))
      OBVIOUS
    <3>2. /\ HasFrame /\ CanClose(last) /\ LeaveFrame(last)
          /\ PushOrHalt(st, Peek(stack)) \/ stack' = st
      BY <2>3, <2>5, <3>1 DEF ReturnValue, Undefined
    <3>3. Pop(stack) \in StackOf(ValueOf(fs, h))
      BY <2>2, TopTyped
    <3>4. Closed
      BY <2>2, <3>1, <3>2, <3>3, LeaveFrameCloses
    <3>5. PICK base \in Nat, size \in Nat :
              base = CurrentCall.stack_addr /\ size = st.size /\ size <= base
              /\ st \in StackOf(ValueOf(fs, h))
      BY <2>2, <3>1, <3>2, <3>3, ReturnShrinks
    <3>6. Push(st, Peek(stack)).size = size + 1 \/ Push(st, Peek(stack)).size = size
      <4>1. CASE CanPush(st)
        <5>1. PICK c : c = [st.cells EXCEPT ![st.size] = Peek(stack)]
          OBVIOUS
        <5>2. Push(st, Peek(stack)) = [cells |-> c, size |-> st.size + 1]
          BY <4>1, <5>1 DEF Push
        <5> QED BY <3>5, <5>2
      <4>2. CASE ~CanPush(st)
        BY <3>5, <4>2 DEF Push
      <4> QED BY <4>1, <4>2
    <3>7. stack'.size = size + 1 \/ stack'.size = size
      BY <3>2, <3>5, <3>6 DEF PushOrHalt
    <3> QED BY <3>4, <3>5, <3>7
  <2> QED BY <1>1, <2>1, <2>2, <2>4, <2>5, OnlyReturnsLeave
<1> QED BY <1>1, AlwaysInv, PTL DEF Spec, ReturnClosesFrame

\* ExitIsFinal of module VM: no instruction runs once exit is set, and what
\* the host does then reaches neither the frames nor the return value.
THEOREM MachineExitIsFinal == Spec => ExitIsFinal
<1>1. ASSUME [Next]_vars, exit # "RUNNING"
      PROVE  exit' \in {exit, "EXIT_GLOBAL_ALREADY_EXISTS"} /\ UNCHANGED <<pc, calls, up, retval>>
  <2>1. ~ Running /\ \A ops : ~ At(ops)
    BY <1>1 DEF Running, At
  <2>2. ~ Execute
    BY <2>1 DEF Execute, FetchStray, PushLiteral, BinaryOp, Step, Negate, HaltOp, PopOp, PopNOp,
               TopOp, LoadLocal, SetLocal, LoadUpvalue, SetUpvalue, CloseUpvalue,
               SetGlobal, LoadGlobal, MakeClosure, JumpOp, JumpFalse, UnknownOp, Call,
               Begin, ReturnVoid, ReturnValue
  <2>3. CASE FinishRun
    BY <2>3 DEF FinishRun
  <2>4. CASE HostCall
    BY <2>4 DEF HostCall, AddNative, HostPush, HostPop, RunFunction
  <2>5. CASE UNCHANGED vars
    BY <2>5 DEF vars
  <2> QED BY <1>1, <2>2, <2>3, <2>4, <2>5 DEF Next
<1> QED BY <1>1, PTL DEF Spec, ExitIsFinal

------------------------------------------------------------------------------
(***************************************************************************)
(* Verified bytecode.  A program whose counts are right (module Balance)   *)
(* keeps its frames nested and apart, as long as no value gets lost: every *)
(* instruction finds on its own frame what it takes.                       *)
(***************************************************************************)
Works(counts) == Verified(prog, counts) /\ Balanced(counts) /\ ~LosesValue(counts)

\* Where the cells of the running function begin.
Bottom == Base(calls, host.args, Len(calls))

KeepsBelow(base, s, t) == \A a \in 0 .. base - 1 : t.cells[a] = s.cells[a]

\* An instruction that takes and gives what the counts say, and goes on in its
\* function: all but those that leave it.
Leaping == {"OP_CALL", "OP_BEGIN", "OP_RETURN_VOID", "OP_RETURN_VALUE"}
GoesAhead ==
    /\ pc' \in Follows(prog, pc)
    /\ stack'.size = stack.size - Takes(Instr) + Gives(Instr)
    /\ UNCHANGED <<prog, calls, host>>

\* What is to be shown of every instruction.
Sequel(counts) ==
    /\ Balanced(counts)'
    /\ exit' \notin InternalErrors
    /\ HasFrame /\ Instr.op # "OP_SET_UPVALUE" => KeepsBelow(Bottom, stack, stack')
    /\ exit' = "RUNNING" /\ Instr.op \notin Leaping => GoesAhead

\* What the operations of the stack do to its size, and to the cells below.
LEMMA PushEffect ==
    ASSUME NEW V, NEW s \in StackOf(V), NEW v
    PROVE  /\ CanPush(s) => Push(s, v).size = s.size + 1
           /\ KeepsBelow(s.size, s, Push(s, v))
<1>1. CASE CanPush(s)
  <2>1. PICK c : c = [s.cells EXCEPT ![s.size] = v]
    OBVIOUS
  <2>2. Push(s, v) = [cells |-> c, size |-> s.size + 1]
    BY <1>1, <2>1 DEF Push
  <2>3. Push(s, v).cells = c /\ Push(s, v).size = s.size + 1
    BY <2>2
  <2>4. ASSUME NEW a \in 0 .. s.size - 1 PROVE c[a] = s.cells[a]
    BY <2>1, StackShape
  <2> QED BY <2>3, <2>4 DEF KeepsBelow
<1>2. CASE ~CanPush(s)
  BY <1>2 DEF Push, KeepsBelow
<1> QED BY <1>1, <1>2

LEMMA PopEffect ==
    ASSUME NEW V, NEW s \in StackOf(V), CanPop(s)
    PROVE  Pop(s).size = s.size - 1 /\ s.size - 1 \in Nat /\ \A base : KeepsBelow(base, s, Pop(s))
BY PopTyped, StackShape DEF KeepsBelow, CanPop

LEMMA PopNEffect ==
    ASSUME NEW V, NEW s \in StackOf(V), NEW n \in Nat
    PROVE  /\ n <= s.size => PopN(s, n).size = s.size - n
           /\ \A base : KeepsBelow(base, s, PopN(s, n))
<1>1. CASE ~(s.size < n)
  <2>1. PICK t : t = [s EXCEPT !.size = s.size - n]
    OBVIOUS
  <2>2. t.size = s.size - n /\ t.cells = s.cells
    BY <2>1 DEF StackOf
  <2> QED BY <1>1, <2>1, <2>2 DEF PopN, KeepsBelow
<1> QED BY <1>1, StackShape DEF PopN, KeepsBelow

LEMMA SeekEffect ==
    ASSUME NEW V, NEW s \in StackOf(V), NEW a \in Nat
    PROVE  /\ a <= s.size => SeekTo(s, a).size = a
           /\ \A base : KeepsBelow(base, s, SeekTo(s, a))
<1>1. CASE ~(a > s.size)
  <2>1. PICK t : t = [s EXCEPT !.size = a]
    OBVIOUS
  <2>2. t.size = a /\ t.cells = s.cells
    BY <2>1 DEF StackOf
  <2> QED BY <1>1, <2>1, <2>2 DEF SeekTo, KeepsBelow
<1> QED BY <1>1, StackShape DEF SeekTo, KeepsBelow

LEMMA CopyEffect ==
    ASSUME NEW V, NEW s \in StackOf(V), NEW a \in Nat
    PROVE  /\ a <= s.size /\ CanPush(s) => Copy(s, a).size = s.size + 1
           /\ KeepsBelow(s.size, s, Copy(s, a))
<1>1. CASE CanCopy(s, a)
  <2>1. Copy(s, a) = [cells |-> [s.cells EXCEPT ![s.size] = s.cells[a]], size |-> s.size + 1]
    BY <1>1 DEF Copy
  <2>2. ASSUME NEW b \in 0 .. s.size - 1 PROVE [s.cells EXCEPT ![s.size] = s.cells[a]][b] = s.cells[b]
    BY StackShape
  <2> QED BY <2>1, <2>2 DEF KeepsBelow
<1>2. CASE ~CanCopy(s, a)
  BY <1>2, StackShape DEF Copy, KeepsBelow, CanCopy, AddressOk, CanPush
<1> QED BY <1>1, <1>2

LEMMA SetEffect ==
    ASSUME NEW V, NEW s \in StackOf(V), NEW a \in Nat, NEW v
    PROVE  Set(s, a, v).size = s.size /\ KeepsBelow(a, s, Set(s, a, v))
<1>1. CASE AddressOk(s, a)
  <2>1. PICK c : c = [s.cells EXCEPT ![a] = v]
    OBVIOUS
  <2>2. PICK t : t = [s EXCEPT !.cells = c]
    OBVIOUS
  <2>3. t.size = s.size /\ t.cells = c
    BY <2>2 DEF StackOf
  <2>4. Set(s, a, v) = t
    BY <1>1, <2>1, <2>2 DEF Set
  <2>5. ASSUME NEW b \in 0 .. a - 1 PROVE c[b] = s.cells[b]
    <3>1. b \in Addresses /\ b # a
      BY <1>1, StackShape, MaxSizeAssumption DEF AddressOk, Addresses
    <3> QED BY <2>1, <3>1, StackShape
  <2> QED BY <2>3, <2>4, <2>5 DEF KeepsBelow
<1> QED BY <1>1 DEF Set, KeepsBelow

LEMMA KeepsBelowTransitive ==
    ASSUME NEW base \in Nat, NEW n \in Nat, base <= n, NEW s, NEW t, NEW w,
           KeepsBelow(base, s, t), KeepsBelow(n, t, w)
    PROVE  KeepsBelow(base, s, w)
BY DEF KeepsBelow

LEMMA CountsAreNats ==
    ASSUME NEW i \in Instructions
    PROVE  Takes(i) \in Nat /\ Gives(i) \in Nat
<1>1. i.op = "OP_POPN" => i.count % U8 \in Nat
  <2>1. i.op = "OP_POPN" => i.count \in Int
    BY Operands
  <2> QED BY <2>1, ModRange
<1>2. i.op = "OP_CALL" => i.argcount + 1 \in Nat
  BY Operands
<1>3. Takes(i) \in Nat
  BY <1>1, <1>2 DEF Takes, Arithmetic
<1> QED BY <1>3 DEF Gives

\* What the instruction that is next may rely on.
LEMMA Room ==
    ASSUME NEW fs \in SUBSET FunctionObjects,
           NEW h, Typed(fs, h), NEW counts, Works(counts), NEW ops, At(ops)
    PROVE  /\ exit = "RUNNING" /\ host # Idle
           /\ Instr \in Instructions /\ Instr.op \in ops /\ Takes(Instr) \in Nat /\ Gives(Instr) \in Nat
           /\ stack \in StackOf(ValueOf(fs, h)) /\ stack.size \in Nat /\ stack.size <= MaxSize
           /\ pc \in DOMAIN counts.cells /\ counts.cells[pc] \in Nat
           /\ Takes(Instr) <= counts.cells[pc]
           /\ Bottom \in Nat /\ Bottom + counts.cells[pc] <= stack.size
           /\ Bottom + Takes(Instr) <= stack.size /\ Bottom \in 0 .. stack.size
           /\ pc \in counts.setup <=> ~HasFrame
           /\ \A n \in 1 .. Len(calls) : Linked(prog, counts, calls, host.args, n)
           /\ calls \in Seq(Frames(h)) /\ Len(calls) \in Nat
           /\ host.args \in 0 .. MaxSize
<1>1. exit = "RUNNING" /\ host # Idle /\ HasInstruction(prog, pc)
  BY DEF At, Running
<1>2. Instr \in Instructions /\ Instr.op \in ops /\ Takes(Instr) \in Nat /\ Gives(Instr) \in Nat
  BY Fetched, CountsAreNats
<1>3. stack \in StackOf(ValueOf(fs, h)) /\ stack.size \in Nat /\ stack.size <= MaxSize
  BY StackShape DEF Typed
<1>4. calls \in Seq(Frames(h)) /\ Len(calls) \in Nat
  BY DEF Typed, CallsOK
<1>5. host.args \in 0 .. MaxSize /\ host.args \in Nat
  BY <1>1, MaxSizeAssumption DEF Typed, Hosts
<1>6. Bottom \in Nat
  <2>1. CASE Len(calls) = 0
    BY <1>5, <2>1 DEF Bottom, Base
  <2>2. CASE Len(calls) # 0
    <3>1. HasFrame
      BY <1>4, <2>2 DEF HasFrame
    <3> QED BY <2>2, <3>1, CurrentFrame DEF Bottom, Base, CurrentCall
  <2> QED BY <2>1, <2>2
<1>7. pc # TotalSize(prog)
  BY <1>1 DEF HasInstruction, TotalSize, Typed, IsProgram
<1>8. Covered(counts, pc, calls, host.args, stack.size)
      /\ \A n \in 1 .. Len(calls) : Linked(prog, counts, calls, host.args, n)
  BY <1>1, <1>7 DEF Works, Balanced
<1>9. pc \in DOMAIN counts.cells /\ (pc \in counts.setup <=> ~HasFrame)
      /\ Bottom + counts.cells[pc] <= stack.size
  BY <1>8 DEF Covered, HasFrame, Bottom
<1>10. counts.cells[pc] \in Nat /\ Takes(Instr) <= counts.cells[pc]
  BY <1>9 DEF Works, Verified, Instr
<1>11. Bottom + Takes(Instr) <= stack.size /\ Bottom \in 0 .. stack.size
  BY <1>2, <1>3, <1>6, <1>9, <1>10
<1> QED BY <1>1, <1>2, <1>3, <1>4, <1>5, <1>6, <1>8, <1>9, <1>10, <1>11

\* Nothing is left to show of an instruction that ends the run.
LEMMA StopsSequel ==
    ASSUME NEW counts, exit' \notin InternalErrors, exit' # "RUNNING",
           Instr.op # "OP_SET_UPVALUE" => KeepsBelow(Bottom, stack, stack')
    PROVE  Sequel(counts)
BY DEF Sequel, Balanced

LEMMA UndefinedSequel ==
    ASSUME NEW counts, Undefined
    PROVE  Sequel(counts)
BY StopsSequel DEF Undefined, InternalErrors, KeepsBelow

\* An instruction that goes on in its function with the cells it should leave.
LEMMA GoesOn ==
    ASSUME NEW fs \in SUBSET FunctionObjects,
           NEW h, Typed(fs, h), NEW counts, Works(counts), NEW ops, At(ops),
           exit' \notin InternalErrors,
           Instr.op # "OP_SET_UPVALUE" => KeepsBelow(Bottom, stack, stack'),
           exit' = "RUNNING" => /\ pc' \in Follows(prog, pc)
                                /\ stack'.size = stack.size - Takes(Instr) + Gives(Instr),
           UNCHANGED <<prog, calls, host>>
    PROVE  Sequel(counts)
<1>1. SUFFICES ASSUME exit' = "RUNNING" PROVE Balanced(counts)'
  BY DEF Sequel, Balanced, GoesAhead
<1>2. PICK b : b = pc' /\ b \in Follows(prog, pc)
  BY <1>1
<1>3. /\ b \in DOMAIN counts.cells /\ (b \in counts.setup <=> pc \in counts.setup)
      /\ counts.cells[b] \in Nat
      /\ counts.cells[b] <= counts.cells[pc] - Takes(Instr) + Gives(Instr)
  BY <1>2, Room DEF Works, Verified, Instr
<1>4. PICK size : size = stack'.size /\ size = stack.size - Takes(Instr) + Gives(Instr)
  BY <1>1
<1>5. Bottom + counts.cells[b] <= size
  <2>1. /\ stack.size \in Nat /\ Takes(Instr) \in Nat /\ Gives(Instr) \in Nat
        /\ counts.cells[pc] \in Nat /\ Bottom \in Nat
        /\ Bottom + counts.cells[pc] <= stack.size
    BY Room
  <2> QED BY <1>3, <1>4, <2>1
<1>6. Covered(counts, b, calls, host.args, size)
  BY <1>3, <1>5, Room DEF Covered, Bottom, HasFrame
<1>7. host # Idle /\ \A n \in 1 .. Len(calls) : Linked(prog, counts, calls, host.args, n)
  BY Room
<1> QED BY <1>2, <1>4, <1>6, <1>7 DEF Balanced

\* The instructions that the next one follows.
LEMMA NextFollows ==
    ASSUME Instr.op \in Sequential
    PROVE  AfterInstr \in Follows(prog, pc)
BY DEF Follows, Instr, AfterInstr, Sequential

LEMMA PushOrHaltGoesOn ==
    ASSUME NEW V, NEW s \in StackOf(V), NEW v, NEW base \in 0 .. s.size, PushOrHalt(s, v), exit = "RUNNING"
    PROVE  /\ exit' \notin InternalErrors
           /\ exit' = "RUNNING" => stack'.size = s.size + 1
           /\ KeepsBelow(base, s, stack')
<1>1. KeepsBelow(base, s, Push(s, v))
  BY PushEffect, StackShape DEF KeepsBelow
<1> QED BY <1>1, PushEffect DEF PushOrHalt, InternalErrors

LEMMA PushLiteralSequel ==
    ASSUME NEW fs \in SUBSET FunctionObjects,
           NEW h, Typed(fs, h), NEW counts, Works(counts), PushLiteral
    PROVE  Sequel(counts)
<1> DEFINE ops == {"OP_NUMBER", "OP_STRING", "OP_CHAR", "OP_TRUE", "OP_FALSE", "OP_NULL",
                   "OP_FUNCTION"}
<1>1. At(ops) /\ pc' = AfterInstr /\ PushOrHalt(stack, Literal(Instr))
      /\ UNCHANGED <<prog, calls, host>>
  BY DEF PushLiteral
<1>2. Instr.op \in ops
  BY <1>1 DEF At
<1>3. Takes(Instr) = 0 /\ Gives(Instr) = 1 /\ Instr.op \in Sequential
  BY <1>2 DEF Takes, Gives, Arithmetic, Sequential, KnownOps, WithPtr, WithByte
<1>4. exit' \notin InternalErrors /\ KeepsBelow(Bottom, stack, stack')
      /\ (exit' = "RUNNING" => stack'.size = stack.size + 1)
  <2>1. Bottom \in 0 .. stack.size /\ stack \in StackOf(ValueOf(fs, h)) /\ exit = "RUNNING"
    BY <1>1, Room, Zenon
  <2> QED BY <1>1, <2>1, PushOrHaltGoesOn
<1>5. stack.size \in Nat
  BY <1>1, Room
<1> QED BY <1>1, <1>3, <1>4, <1>5, NextFollows, GoesOn

\* An instruction that takes a value finds it above the bottom of its frame.
LEMMA FindsOperand ==
    ASSUME NEW fs \in SUBSET FunctionObjects,
           NEW h, Typed(fs, h), NEW counts, Works(counts), NEW ops, At(ops), Takes(Instr) >= 1
    PROVE  /\ CanPop(stack) /\ ~StackEmpty
           /\ Pop(stack) \in StackOf(ValueOf(fs, h))
           /\ Pop(stack).size = stack.size - 1 /\ stack.size \in Nat
           /\ Bottom \in Nat /\ Bottom \in 0 .. stack.size - 1 /\ Bottom \in 0 .. Pop(stack).size
           /\ \A base : KeepsBelow(base, stack, Pop(stack))
           /\ \A v : KeepsBelow(Bottom, stack, Push(Pop(stack), v))
           /\ \A v : Push(Pop(stack), v).size = stack.size
<1>1. /\ stack \in StackOf(ValueOf(fs, h)) /\ stack.size \in Nat /\ Bottom \in Nat
      /\ Bottom + Takes(Instr) <= stack.size /\ Takes(Instr) \in Nat /\ stack.size <= MaxSize
  BY Room
<1>2. CanPop(stack)
  BY <1>1 DEF CanPop
<1>3. Bottom \in 0 .. stack.size - 1
  BY <1>1
<1>4. /\ Pop(stack) \in StackOf(ValueOf(fs, h)) /\ Pop(stack).size = stack.size - 1
      /\ \A base : KeepsBelow(base, stack, Pop(stack))
  BY <1>1, <1>2, PopTyped, PopEffect
<1>5. ASSUME NEW v
      PROVE  KeepsBelow(Bottom, stack, Push(Pop(stack), v)) /\ Push(Pop(stack), v).size = stack.size
  <2>1. CanPush(Pop(stack))
    BY <1>1, <1>4, MaxSizeAssumption DEF CanPush
  <2>2. KeepsBelow(stack.size - 1, Pop(stack), Push(Pop(stack), v))
        /\ Push(Pop(stack), v).size = (stack.size - 1) + 1
    BY <1>4, <2>1, PushEffect
  <2>3. stack.size - 1 \in Nat /\ Bottom <= stack.size - 1
    BY <1>1, <1>3
  <2>4. KeepsBelow(Bottom, stack, Push(Pop(stack), v))
    BY <1>1, <1>4, <2>2, <2>3, KeepsBelowTransitive
  <2> QED BY <1>1, <2>2, <2>4
<1> QED BY <1>1, <1>2, <1>3, <1>4, <1>5 DEF StackEmpty

LEMMA BinaryOpSequel ==
    ASSUME NEW fs \in SUBSET FunctionObjects,
           NEW h, Typed(fs, h), NEW counts, Works(counts), BinaryOp
    PROVE  Sequel(counts)
<1> DEFINE left  == Peek(Pop(stack))
           right == Peek(stack)
           rest  == Pop(Pop(stack))
<1>1. At(Arithmetic) /\ Instr.op \in Arithmetic
  BY DEF BinaryOp, At
<1>2. Takes(Instr) = 2 /\ Gives(Instr) = 1 /\ Instr.op \in Sequential
  BY <1>1 DEF Takes, Gives, Arithmetic, Sequential, KnownOps, WithPtr, WithByte
<1>3. /\ exit = "RUNNING" /\ stack \in StackOf(ValueOf(fs, h)) /\ stack.size \in Nat
      /\ Bottom \in Nat /\ Bottom + 2 <= stack.size
  BY <1>1, <1>2, Room
<1>4. /\ rest \in StackOf(ValueOf(fs, h)) /\ rest.size = stack.size - 2
      /\ Bottom \in 0 .. rest.size /\ KeepsBelow(Bottom, stack, rest)
  <2>1. CanPop(stack) /\ Pop(stack) \in StackOf(ValueOf(fs, h)) /\ Pop(stack).size = stack.size - 1
        /\ KeepsBelow(Bottom, stack, Pop(stack))
    BY <1>1, <1>2, FindsOperand
  <2>2. CanPop(Pop(stack))
    BY <1>3, <2>1 DEF CanPop
  <2>3. /\ rest \in StackOf(ValueOf(fs, h)) /\ rest.size = Pop(stack).size - 1
        /\ KeepsBelow(Bottom, Pop(stack), rest)
    BY <2>1, <2>2, PopTyped, PopEffect
  <2>4. KeepsBelow(Bottom, stack, rest)
    BY <2>1, <2>3 DEF KeepsBelow
  <2> QED BY <1>3, <2>1, <2>3, <2>4
<1> HIDE DEF rest
<1>5. ASSUME NEW v, PushOrHalt(rest, v)
      PROVE  /\ exit' \notin InternalErrors /\ KeepsBelow(Bottom, stack, stack')
             /\ exit' = "RUNNING" => stack'.size = stack.size - 1
  <2>1. /\ exit' \notin InternalErrors /\ KeepsBelow(Bottom, rest, stack')
        /\ exit' = "RUNNING" => stack'.size = rest.size + 1
    BY <1>3, <1>4, <1>5, PushOrHaltGoesOn
  <2> QED BY <1>3, <1>4, <2>1 DEF KeepsBelow
<1>6. ASSUME NEW v, RuntimeError(Push(rest, v), "EXIT_UNSUPPORTED_OPERATION")
      PROVE  exit' \notin InternalErrors /\ exit' # "RUNNING" /\ KeepsBelow(Bottom, stack, stack')
  <2>1. KeepsBelow(rest.size, rest, Push(rest, v))
    BY <1>4, PushEffect
  <2>2. rest.size \in Nat /\ Bottom <= rest.size
    BY <1>3, <1>4
  <2>3. KeepsBelow(Bottom, stack, Push(rest, v))
    BY <1>3, <1>4, <2>1, <2>2, KeepsBelowTransitive
  <2> QED BY <1>6, <2>3 DEF RuntimeError, InternalErrors
<1>7. ASSUME RuntimeError(rest, "EXIT_INCORRECT_TYPE")
      PROVE  exit' \notin InternalErrors /\ exit' # "RUNNING" /\ KeepsBelow(Bottom, stack, stack')
  BY <1>4, <1>7 DEF RuntimeError, InternalErrors
<1>8. CASE Undefined
  BY <1>8, UndefinedSequel
<1>9. CASE /\ pc' = AfterInstr /\ UNCHANGED <<prog, calls, host>>
           /\ \/ \E v : PushOrHalt(rest, v)
              \/ \E v : RuntimeError(Push(rest, v), "EXIT_UNSUPPORTED_OPERATION")
              \/ RuntimeError(rest, "EXIT_INCORRECT_TYPE")
  <2>1. exit' \notin InternalErrors /\ KeepsBelow(Bottom, stack, stack')
        /\ (exit' = "RUNNING" => stack'.size = stack.size - 1)
    BY <1>5, <1>6, <1>7, <1>9
  <2>2. exit' = "RUNNING" => /\ pc' \in Follows(prog, pc)
                             /\ stack'.size = stack.size - Takes(Instr) + Gives(Instr)
    BY <1>2, <1>3, <1>9, <2>1, NextFollows
  <2> QED BY <1>1, <1>9, <2>1, <2>2, GoesOn
<1>10. BinaryOp => Undefined \/
           /\ pc' = AfterInstr /\ UNCHANGED <<prog, calls, host>>
           /\ \/ \E v : PushOrHalt(rest, v)
              \/ \E v : RuntimeError(Push(rest, v), "EXIT_UNSUPPORTED_OPERATION")
              \/ RuntimeError(rest, "EXIT_INCORRECT_TYPE")
  <2>1. CASE Undefined
    BY <2>1
  <2>2. CASE ~Undefined
    <3>1. BinaryOp =>
           /\ pc' = AfterInstr /\ UNCHANGED <<prog, calls, up, globals, retval, host>>
           /\ \/ /\ IsNumber(left) /\ IsNumber(right)
                 /\ \E n \in BinaryNumber(Instr.op, right.number, left.number) :
                      PushOrHalt(rest, Number(n))
              \/ /\ IsKind(left, "string") /\ IsKind(right, "string")
                 /\ IF Instr.op = "OP_ADD"
                      THEN PushOrHalt(rest, Object(String(Concatenated(left.object.string,
                                                                  right.object.string))))
                      ELSE RuntimeError(Push(rest, Null), "EXIT_UNSUPPORTED_OPERATION")
              \/ /\ ~(IsNumber(left) /\ IsNumber(right))
                 /\ ~(IsKind(left, "string") /\ IsKind(right, "string"))
                 /\ RuntimeError(rest, "EXIT_INCORRECT_TYPE")
      BY <2>2 DEF BinaryOp, rest
    <3> QED BY <3>1, Zenon
  <2> QED BY <2>1, <2>2
<1> QED BY <1>8, <1>9, <1>10

LEMMA StepSequel ==
    ASSUME NEW fs \in SUBSET FunctionObjects,
           NEW h, Typed(fs, h), NEW counts, Works(counts), Step \/ Negate
    PROVE  Sequel(counts)
<1> DEFINE ops == {"OP_ADDONE", "OP_SUBONE", "OP_NEGATE"}
<1>1. At(ops) /\ Instr.op \in ops
  BY DEF Step, Negate, At
<1>2. Takes(Instr) = 1 /\ Gives(Instr) = 1 /\ Instr.op \in Sequential
  BY <1>1 DEF Takes, Gives, Arithmetic, Sequential, KnownOps, WithPtr, WithByte
<1>3. exit = "RUNNING"
  BY <1>1, Room
<1>4. /\ CanPop(stack) /\ ~StackEmpty
      /\ Pop(stack) \in StackOf(ValueOf(fs, h)) /\ Pop(stack).size = stack.size - 1
      /\ stack.size \in Nat /\ Bottom \in 0 .. Pop(stack).size
      /\ KeepsBelow(Bottom, stack, Pop(stack))
  BY <1>1, <1>2, FindsOperand
<1>5. CASE Undefined
  BY <1>5, UndefinedSequel
<1>6. CASE /\ pc' = AfterInstr /\ UNCHANGED <<prog, calls, host>>
           /\ (\E v : PushOrHalt(Pop(stack), v)) \/ RuntimeError(Pop(stack), "EXIT_INCORRECT_TYPE")
  <2>1. ASSUME NEW v, PushOrHalt(Pop(stack), v)
        PROVE  /\ exit' \notin InternalErrors /\ KeepsBelow(Bottom, Pop(stack), stack')
               /\ exit' = "RUNNING" => stack'.size = stack.size - 1 + 1
    BY <1>3, <1>4, <2>1, PushOrHaltGoesOn
  <2>2. ASSUME RuntimeError(Pop(stack), "EXIT_INCORRECT_TYPE")
        PROVE  exit' \notin InternalErrors /\ exit' # "RUNNING" /\ KeepsBelow(Bottom, Pop(stack), stack')
    BY <2>2 DEF RuntimeError, InternalErrors, KeepsBelow
  <2>3. exit' \notin InternalErrors /\ KeepsBelow(Bottom, stack, stack')
        /\ (exit' = "RUNNING" => stack'.size = stack.size - Takes(Instr) + Gives(Instr))
    BY <1>2, <1>4, <1>6, <2>1, <2>2 DEF KeepsBelow
  <2> QED BY <1>1, <1>2, <1>6, <2>3, NextFollows, GoesOn
<1>7. CASE Step
  BY <1>4, <1>5, <1>6, <1>7, Zenon DEF Step
<1>8. CASE Negate
  <2>1. IsNumber(Peek(stack))
    BY <1>4, <1>8 DEF Works, LosesValue, Negate
  <2> QED BY <1>4, <1>5, <1>6, <1>8, <2>1, Zenon DEF Negate
<1> QED BY <1>7, <1>8

LEMMA EndSequel ==
    ASSUME NEW counts, HaltOp \/ UnknownOp \/ FetchStray
    PROVE  Sequel(counts)
<1>1. exit' \notin InternalErrors /\ exit' # "RUNNING" /\ stack' = stack
  BY DEF HaltOp, UnknownOp, FetchStray, InternalErrors
<1> QED BY <1>1, StopsSequel DEF KeepsBelow

LEMMA PopOpSequel ==
    ASSUME NEW fs \in SUBSET FunctionObjects,
           NEW h, Typed(fs, h), NEW counts, Works(counts), PopOp
    PROVE  Sequel(counts)
<1>1. At({"OP_POP"}) /\ Instr.op = "OP_POP"
  BY DEF PopOp, At
<1>2. Takes(Instr) = 1 /\ Gives(Instr) = 0 /\ Instr.op \in Sequential
  BY <1>1 DEF Takes, Gives, Arithmetic, Sequential, KnownOps, WithPtr, WithByte
<1>3. /\ ~StackEmpty /\ Pop(stack).size = stack.size - 1 /\ stack.size \in Nat
      /\ KeepsBelow(Bottom, stack, Pop(stack)) /\ exit = "RUNNING"
  <2>1. exit = "RUNNING"
    BY <1>1, Room
  <2> QED BY <1>1, <1>2, <2>1, FindsOperand
<1>4. pc' = AfterInstr /\ stack' = Pop(stack) /\ exit' = exit /\ UNCHANGED <<prog, calls, host>>
  BY <1>3 DEF PopOp
<1>5. exit' \notin InternalErrors /\ KeepsBelow(Bottom, stack, stack')
      /\ stack'.size = stack.size - Takes(Instr) + Gives(Instr)
  BY <1>2, <1>3, <1>4 DEF InternalErrors
<1> QED BY <1>1, <1>2, <1>4, <1>5, NextFollows, GoesOn

LEMMA PopNOpSequel ==
    ASSUME NEW fs \in SUBSET FunctionObjects,
           NEW h, Typed(fs, h), NEW counts, Works(counts), PopNOp
    PROVE  Sequel(counts)
<1>1. At({"OP_POPN"}) /\ Instr.op = "OP_POPN"
  BY DEF PopNOp, At
<1>2. Takes(Instr) = Instr.count % U8 /\ Gives(Instr) = 0 /\ Instr.op \in Sequential
  BY <1>1 DEF Takes, Gives, Arithmetic, Sequential, KnownOps, WithPtr, WithByte
<1>3. PICK n \in Nat : n = Instr.count % U8 /\ n = Takes(Instr)
  BY <1>1, <1>2, Room
<1>4. /\ stack \in StackOf(ValueOf(fs, h)) /\ stack.size \in Nat /\ Bottom \in Nat
      /\ Bottom + n <= stack.size /\ exit = "RUNNING"
  BY <1>1, <1>3, Room
<1>5. pc' = AfterInstr /\ stack' = PopN(stack, n) /\ exit' = exit /\ UNCHANGED <<prog, calls, host>>
  BY <1>3 DEF PopNOp
<1>6. n <= stack.size
  BY <1>4
<1>7. stack'.size = stack.size - n /\ KeepsBelow(Bottom, stack, stack')
  BY <1>4, <1>5, <1>6, PopNEffect
<1>8. exit' \notin InternalErrors /\ stack'.size = stack.size - Takes(Instr) + Gives(Instr)
  BY <1>2, <1>3, <1>4, <1>5, <1>7 DEF InternalErrors
<1> QED BY <1>1, <1>2, <1>5, <1>7, <1>8, NextFollows, GoesOn

\* No address of the stack, and none of a local, reaches 2^32.
LEMMA Unwrapped ==
    ASSUME NEW n \in Nat, n < MaxSize + U8
    PROVE  n % U32 = n
BY VMAssumption, MaxSizeAssumption

LEMMA CopyGoesOn ==
    ASSUME NEW V, NEW s \in StackOf(V), NEW a \in Nat, a <= s.size, CanPush(s),
           NEW base \in 0 .. s.size
    PROVE  Copy(s, a).size = s.size + 1 /\ KeepsBelow(base, s, Copy(s, a))
<1>1. Copy(s, a).size = s.size + 1 /\ KeepsBelow(s.size, s, Copy(s, a))
  BY CopyEffect
<1> QED BY <1>1, StackShape DEF KeepsBelow

LEMMA TopOpSequel ==
    ASSUME NEW fs \in SUBSET FunctionObjects,
           NEW h, Typed(fs, h), NEW counts, Works(counts), TopOp
    PROVE  Sequel(counts)
<1>1. At({"OP_TOP"}) /\ Instr.op = "OP_TOP"
  BY DEF TopOp, At
<1>2. Takes(Instr) = 1 /\ Gives(Instr) = 2 /\ Instr.op \in Sequential
  BY <1>1 DEF Takes, Gives, Arithmetic, Sequential, KnownOps, WithPtr, WithByte
<1>3. /\ stack \in StackOf(ValueOf(fs, h)) /\ stack.size \in Nat /\ Bottom \in 0 .. stack.size
      /\ stack.size >= 1 /\ stack.size <= MaxSize /\ exit = "RUNNING"
  <2>1. /\ stack \in StackOf(ValueOf(fs, h)) /\ stack.size \in Nat /\ Bottom \in 0 .. stack.size
        /\ Bottom + 1 <= stack.size /\ Bottom \in Nat /\ stack.size <= MaxSize /\ exit = "RUNNING"
    BY <1>1, <1>2, Room
  <2> QED BY <2>1
<1>4. stack.size - 1 \in Nat /\ (stack.size - 1) % U32 = stack.size - 1
  <2>1. stack.size - 1 \in Nat /\ stack.size - 1 < MaxSize + U8
    BY <1>3, VMAssumption, MaxSizeAssumption
  <2> QED BY <2>1, Unwrapped
<1>5. CanPush(stack)
  BY <1>1 DEF Works, LosesValue, At
<1>6. pc' = AfterInstr /\ stack' = Copy(stack, stack.size - 1) /\ exit' = exit
      /\ UNCHANGED <<prog, calls, host>>
  BY <1>4 DEF TopOp
<1>7. stack'.size = stack.size + 1 /\ KeepsBelow(Bottom, stack, stack')
  <2>1. stack.size - 1 <= stack.size
    BY <1>3
  <2> QED BY <1>3, <1>4, <1>5, <1>6, <2>1, CopyGoesOn
<1>8. exit' \notin InternalErrors /\ stack'.size = stack.size - Takes(Instr) + Gives(Instr)
  BY <1>2, <1>3, <1>6, <1>7 DEF InternalErrors
<1> QED BY <1>1, <1>2, <1>6, <1>7, <1>8, NextFollows, GoesOn

\* A local lies in its frame.
LEMMA LocalAboveBottom ==
    ASSUME NEW fs \in SUBSET FunctionObjects,
           NEW h, Typed(fs, h), NEW counts, Works(counts), NEW ops, At(ops), HasFrame,
           NEW offset \in Nat
    PROVE  /\ offset % U8 \in Nat
           /\ LocalAddress(offset) = Bottom + (offset % U8) /\ LocalAddress(offset) \in Nat
<1>1. Bottom = CurrentCall.stack_addr
  BY CurrentFrame DEF Bottom, Base, CurrentCall
<1>2. PICK n \in Nat : n = offset % U8 /\ n < U8
  <2>1. U8 \in Nat \ {0} /\ offset \in Int
    BY VMAssumption
  <2>2. offset % U8 \in 0 .. U8 - 1
    BY <2>1
  <2> QED BY <2>1, <2>2
<1>3. Bottom \in Nat /\ Bottom <= MaxSize
  <2>1. Bottom \in Nat /\ Bottom \in 0 .. stack.size /\ stack.size \in Nat /\ stack.size <= MaxSize
    BY Room
  <2> QED BY <2>1, MaxSizeAssumption
<1>4. Bottom + n \in Nat /\ Bottom + n < MaxSize + U8
  BY <1>2, <1>3, VMAssumption, MaxSizeAssumption
<1>5. (Bottom + n) % U32 = Bottom + n
  BY <1>4, Unwrapped
<1> QED BY <1>1, <1>2, <1>4, <1>5 DEF LocalAddress

LEMMA LoadLocalSequel ==
    ASSUME NEW fs \in SUBSET FunctionObjects,
           NEW h, Typed(fs, h), NEW counts, Works(counts), LoadLocal
    PROVE  Sequel(counts)
<1>1. At({"OP_LOAD_LOCAL"}) /\ Instr.op = "OP_LOAD_LOCAL"
  BY DEF LoadLocal, At
<1>2. Takes(Instr) = 0 /\ Gives(Instr) = 1 /\ Instr.op \in Sequential
  BY <1>1 DEF Takes, Gives, Arithmetic, Sequential, KnownOps, WithPtr, WithByte
<1>3. CASE ~HasFrame
  BY <1>3, UndefinedSequel DEF LoadLocal
<1>4. CASE HasFrame
  <2>1. Instr.local \in Nat
    BY <1>1, Fetched, Operands
  <2>2. PICK n \in Nat : n = Instr.local % U8 /\ LocalAddress(Instr.local) = Bottom + n
    BY <1>1, <1>4, <2>1, LocalAboveBottom
  <2>3. PICK c \in Nat : c = counts.cells[pc] /\ pc \in DOMAIN counts.cells
    BY <1>1, Room
  <2>4. n < c
    BY <1>1, <2>2, <2>3 DEF Works, Verified, Instr
  <2>5. /\ stack \in StackOf(ValueOf(fs, h)) /\ stack.size \in Nat /\ Bottom \in Nat
        /\ Bottom \in 0 .. stack.size /\ Bottom + c <= stack.size /\ exit = "RUNNING"
    BY <1>1, <2>3, Room
  <2>6. Bottom + n \in Nat /\ Bottom + n <= stack.size
    BY <2>4, <2>5
  <2>7. CanPush(stack)
    BY <1>1 DEF Works, LosesValue, At
  <2>8. pc' = AfterInstr /\ stack' = Copy(stack, Bottom + n) /\ exit' = exit
        /\ UNCHANGED <<prog, calls, host>>
    BY <1>4, <2>2 DEF LoadLocal
  <2>9. stack'.size = stack.size + 1 /\ KeepsBelow(Bottom, stack, stack')
    BY <2>5, <2>6, <2>7, <2>8, CopyGoesOn
  <2>10. exit' \notin InternalErrors /\ stack'.size = stack.size - Takes(Instr) + Gives(Instr)
    BY <1>2, <2>5, <2>8, <2>9 DEF InternalErrors
  <2> QED BY <1>1, <1>2, <2>8, <2>9, <2>10, NextFollows, GoesOn
<1> QED BY <1>3, <1>4

LEMMA SetLocalSequel ==
    ASSUME NEW fs \in SUBSET FunctionObjects,
           NEW h, Typed(fs, h), NEW counts, Works(counts), SetLocal
    PROVE  Sequel(counts)
<1>1. At({"OP_SET_LOCAL"}) /\ Instr.op = "OP_SET_LOCAL"
  BY DEF SetLocal, At
<1>2. Takes(Instr) = 1 /\ Gives(Instr) = 0 /\ Instr.op \in Sequential
  BY <1>1 DEF Takes, Gives, Arithmetic, Sequential, KnownOps, WithPtr, WithByte
<1>3. /\ CanPop(stack) /\ ~StackEmpty /\ Pop(stack) \in StackOf(ValueOf(fs, h))
      /\ Pop(stack).size = stack.size - 1 /\ stack.size \in Nat /\ Bottom \in Nat
      /\ KeepsBelow(Bottom, stack, Pop(stack)) /\ exit = "RUNNING"
  <2>1. exit = "RUNNING"
    BY <1>1, Room
  <2> QED BY <1>1, <1>2, <2>1, FindsOperand
<1>4. CASE ~HasFrame
  BY <1>3, <1>4, UndefinedSequel DEF SetLocal
<1>5. CASE HasFrame
  <2>1. Instr.local \in Nat
    BY <1>1, Fetched, Operands
  <2>2. PICK n \in Nat : LocalAddress(Instr.local) = Bottom + n
    BY <1>1, <1>5, <2>1, LocalAboveBottom
  <2>3. PICK a \in Nat : a = Bottom + n /\ Bottom <= a
    BY <1>3
  <2>4. pc' = AfterInstr /\ stack' = Set(Pop(stack), a, Peek(stack)) /\ exit' = exit
        /\ UNCHANGED <<prog, calls, host>>
    BY <1>3, <1>5, <2>2, <2>3 DEF SetLocal
  <2>5. stack'.size = stack.size - 1 /\ KeepsBelow(a, Pop(stack), stack')
    BY <1>3, <2>4, SetEffect
  <2>6. KeepsBelow(Bottom, stack, stack')
    BY <1>3, <2>3, <2>5, KeepsBelowTransitive
  <2>7. exit' \notin InternalErrors /\ stack'.size = stack.size - Takes(Instr) + Gives(Instr)
    BY <1>2, <1>3, <2>4, <2>5 DEF InternalErrors
  <2> QED BY <1>1, <1>2, <2>4, <2>6, <2>7, NextFollows, GoesOn
<1> QED BY <1>4, <1>5

LEMMA LoadUpvalueSequel ==
    ASSUME NEW fs \in SUBSET FunctionObjects,
           NEW h, Typed(fs, h), NEW counts, Works(counts), LoadUpvalue
    PROVE  Sequel(counts)
<1>1. At({"OP_LOAD_UPVALUE"}) /\ Instr.op = "OP_LOAD_UPVALUE"
  BY DEF LoadUpvalue, At
<1>2. Takes(Instr) = 0 /\ Gives(Instr) = 1 /\ Instr.op \in Sequential
  BY <1>1 DEF Takes, Gives, Arithmetic, Sequential, KnownOps, WithPtr, WithByte
<1>3. CASE Undefined
  BY <1>3, UndefinedSequel
<1>4. CASE \E v : /\ pc' = AfterInstr /\ UNCHANGED <<prog, calls, host>>
                  /\ PushOrHalt(stack, v)
  <2>1. /\ Bottom \in 0 .. stack.size /\ stack \in StackOf(ValueOf(fs, h)) /\ exit = "RUNNING"
        /\ stack.size \in Nat
    BY <1>1, Room
  <2>2. exit' \notin InternalErrors /\ KeepsBelow(Bottom, stack, stack')
        /\ (exit' = "RUNNING" => stack'.size = stack.size + 1)
    BY <1>4, <2>1, PushOrHaltGoesOn
  <2> QED BY <1>1, <1>2, <1>4, <2>1, <2>2, NextFollows, GoesOn
<1>5. Undefined \/ \E v : /\ pc' = AfterInstr /\ UNCHANGED <<prog, calls, host>>
                          /\ PushOrHalt(stack, v)
  BY Zenon DEF LoadUpvalue
<1> QED BY <1>3, <1>4, <1>5

LEMMA SetUpvalueSequel ==
    ASSUME NEW fs \in SUBSET FunctionObjects,
           NEW h, Typed(fs, h), NEW counts, Works(counts), SetUpvalue
    PROVE  Sequel(counts)
<1>1. At({"OP_SET_UPVALUE"}) /\ Instr.op = "OP_SET_UPVALUE"
  BY DEF SetUpvalue, At
<1>2. Takes(Instr) = 1 /\ Gives(Instr) = 0 /\ Instr.op \in Sequential
  BY <1>1 DEF Takes, Gives, Arithmetic, Sequential, KnownOps, WithPtr, WithByte
<1>3. exit = "RUNNING"
  BY <1>1, Room
<1>4. /\ CanPop(stack) /\ ~StackEmpty /\ Pop(stack) \in StackOf(ValueOf(fs, h))
      /\ Pop(stack).size = stack.size - 1 /\ stack.size \in Nat
  BY <1>1, <1>2, FindsOperand
<1>5. CASE Undefined
  BY <1>5, UndefinedSequel
<1>6. CASE \E cells : /\ pc' = AfterInstr /\ UNCHANGED <<prog, calls, host>> /\ exit' = exit
                      /\ stack' = [Pop(stack) EXCEPT !.cells = cells]
  <2>1. stack'.size = stack.size - Takes(Instr) + Gives(Instr)
    BY <1>2, <1>4, <1>6 DEF StackOf
  <2>2. exit' \notin InternalErrors
    BY <1>3, <1>6 DEF InternalErrors
  <2> QED BY <1>1, <1>2, <1>6, <2>1, <2>2, NextFollows, GoesOn
<1>7. Undefined \/ \E cells : /\ pc' = AfterInstr /\ UNCHANGED <<prog, calls, host>> /\ exit' = exit
                              /\ stack' = [Pop(stack) EXCEPT !.cells = cells]
  BY <1>4 DEF SetUpvalue
<1> QED BY <1>5, <1>6, <1>7

LEMMA CloseUpvalueSequel ==
    ASSUME NEW fs \in SUBSET FunctionObjects,
           NEW h, Typed(fs, h), NEW counts, Works(counts), CloseUpvalue
    PROVE  Sequel(counts)
<1>1. At({"OP_CLOSE_UPVALUE"}) /\ Instr.op = "OP_CLOSE_UPVALUE"
  BY DEF CloseUpvalue, At
<1>2. Takes(Instr) = 1 /\ Gives(Instr) = 0 /\ Instr.op \in Sequential
  BY <1>1 DEF Takes, Gives, Arithmetic, Sequential, KnownOps, WithPtr, WithByte
<1>3. CASE Undefined
  BY <1>3, UndefinedSequel
<1>4. CASE pc' = AfterInstr /\ UNCHANGED <<prog, calls, host>> /\ exit' = exit /\ stack' = PopN(stack, 1)
  <2>1. /\ stack \in StackOf(ValueOf(fs, h)) /\ stack.size \in Nat /\ Bottom \in Nat
        /\ Bottom + 1 <= stack.size /\ exit = "RUNNING"
    BY <1>1, <1>2, Room
  <2>2. 1 <= stack.size
    BY <2>1
  <2>3. stack'.size = stack.size - 1 /\ KeepsBelow(Bottom, stack, stack')
    BY <1>4, <2>1, <2>2, PopNEffect
  <2>4. exit' \notin InternalErrors /\ stack'.size = stack.size - Takes(Instr) + Gives(Instr)
    BY <1>2, <1>4, <2>1, <2>3 DEF InternalErrors
  <2> QED BY <1>1, <1>2, <1>4, <2>3, <2>4, NextFollows, GoesOn
<1> QED BY <1>3, <1>4 DEF CloseUpvalue

LEMMA SetGlobalSequel ==
    ASSUME NEW fs \in SUBSET FunctionObjects,
           NEW h, Typed(fs, h), NEW counts, Works(counts), SetGlobal
    PROVE  Sequel(counts)
<1> DEFINE ops == {"OP_DEFINE_GLOBAL", "OP_SET_GLOBAL"}
<1>1. At(ops) /\ Instr.op \in ops
  BY DEF SetGlobal, At
<1>2. Takes(Instr) = 1 /\ Gives(Instr) = 0 /\ Instr.op \in Sequential
  BY <1>1 DEF Takes, Gives, Arithmetic, Sequential, KnownOps, WithPtr, WithByte
<1>3. exit = "RUNNING"
  BY <1>1, Room
<1>4. /\ ~StackEmpty /\ Pop(stack).size = stack.size - 1 /\ stack.size \in Nat
      /\ KeepsBelow(Bottom, stack, Pop(stack))
  BY <1>1, <1>2, FindsOperand
<1>5. /\ pc' = AfterInstr /\ UNCHANGED <<prog, calls, host>> /\ stack' = Pop(stack)
      /\ exit' \in {exit, "EXIT_GLOBAL_NOT_FOUND"}
  BY <1>4 DEF SetGlobal, RuntimeError
<1>6. exit' \notin InternalErrors /\ KeepsBelow(Bottom, stack, stack')
      /\ stack'.size = stack.size - Takes(Instr) + Gives(Instr)
  BY <1>2, <1>3, <1>4, <1>5 DEF InternalErrors
<1> QED BY <1>1, <1>2, <1>5, <1>6, NextFollows, GoesOn

LEMMA LoadGlobalSequel ==
    ASSUME NEW fs \in SUBSET FunctionObjects,
           NEW h, Typed(fs, h), NEW counts, Works(counts), LoadGlobal
    PROVE  Sequel(counts)
<1>1. At({"OP_LOAD_GLOBAL"}) /\ Instr.op = "OP_LOAD_GLOBAL"
  BY DEF LoadGlobal, At
<1>2. Takes(Instr) = 0 /\ Gives(Instr) = 1 /\ Instr.op \in Sequential
  BY <1>1 DEF Takes, Gives, Arithmetic, Sequential, KnownOps, WithPtr, WithByte
<1>3. /\ stack \in StackOf(ValueOf(fs, h)) /\ stack.size \in Nat /\ Bottom \in 0 .. stack.size
      /\ exit = "RUNNING"
  BY <1>1, Room
<1>4. CanPush(stack)
  BY <1>1 DEF Works, LosesValue, At
<1>5. pc' = AfterInstr /\ UNCHANGED <<prog, calls, host>>
  BY DEF LoadGlobal
<1>6. PICK v : StackWithGlobal(Instr.name) = IF Defined(Instr.name) THEN Push(stack, v) ELSE stack
  BY DEF StackWithGlobal
<1>7. Push(stack, v).size = stack.size + 1 /\ KeepsBelow(Bottom, stack, Push(stack, v))
  BY <1>3, <1>4, PushEffect DEF KeepsBelow
<1>8. exit' \notin InternalErrors /\ KeepsBelow(Bottom, stack, stack')
      /\ (exit' = "RUNNING" => stack'.size = stack.size + 1)
  BY <1>3, <1>6, <1>7 DEF LoadGlobal, ExitOfGlobal, InternalErrors, KeepsBelow
<1> QED BY <1>1, <1>2, <1>3, <1>5, <1>8, NextFollows, GoesOn

LEMMA MakeClosureSequel ==
    ASSUME NEW fs \in SUBSET FunctionObjects,
           NEW h, Typed(fs, h), NEW counts, Works(counts), MakeClosure
    PROVE  Sequel(counts)
<1>1. At({"OP_CLOSURE"}) /\ Instr.op = "OP_CLOSURE"
  BY DEF MakeClosure, At
<1>2. Takes(Instr) = 1 /\ Gives(Instr) = 1 /\ Instr.op \in Sequential
  BY <1>1 DEF Takes, Gives, Arithmetic, Sequential, KnownOps, WithPtr, WithByte
<1>3. exit = "RUNNING"
  BY <1>1, Room
<1>4. /\ CanPop(stack) /\ ~StackEmpty /\ stack.size \in Nat
      /\ KeepsBelow(Bottom, stack, Pop(stack))
      /\ \A v : KeepsBelow(Bottom, stack, Push(Pop(stack), v))
      /\ \A v : Push(Pop(stack), v).size = stack.size
  BY <1>1, <1>2, FindsOperand
<1>5. CASE Undefined
  BY <1>5, UndefinedSequel
<1>6. CASE RuntimeError(Pop(stack), "EXIT_USER_ERROR")
  BY <1>4, <1>6, StopsSequel DEF RuntimeError, InternalErrors
<1>7. CASE \E v : /\ pc' = AfterInstr /\ UNCHANGED <<prog, calls, host>> /\ exit' = exit
                  /\ stack' = Push(Pop(stack), v)
  <2>1. exit' \notin InternalErrors /\ KeepsBelow(Bottom, stack, stack')
        /\ stack'.size = stack.size - Takes(Instr) + Gives(Instr)
    BY <1>2, <1>3, <1>4, <1>7 DEF InternalErrors
  <2> QED BY <1>1, <1>2, <1>7, <2>1, NextFollows, GoesOn
<1>8. \/ Undefined \/ StackEmpty \/ RuntimeError(Pop(stack), "EXIT_USER_ERROR")
      \/ \E v : /\ pc' = AfterInstr /\ UNCHANGED <<prog, calls, host>> /\ exit' = exit
                /\ stack' = Push(Pop(stack), v)
  BY Zenon DEF MakeClosure
<1> QED BY <1>4, <1>5, <1>6, <1>7, <1>8

\* Counted code jumps to instructions of the program.
LEMMA CountedIsSafe ==
    ASSUME NEW counts, Works(counts), NEW b \in DOMAIN counts.cells, prog.data \in Nat
    PROVE  IsProgramPtrSafe(prog, b)
BY DEF Works, Verified, HasInstruction, IsProgramPtrSafe

LEMMA FollowsSafe ==
    ASSUME NEW fs, NEW h, Typed(fs, h),
           NEW counts, Works(counts), pc \in DOMAIN counts.cells, NEW b \in Follows(prog, pc)
    PROVE  IsProgramPtrSafe(prog, b)
<1>1. b \in DOMAIN counts.cells
  BY DEF Works, Verified
<1> QED BY <1>1, CountedIsSafe DEF Typed, IsProgram

LEMMA JumpSequel ==
    ASSUME NEW fs \in SUBSET FunctionObjects,
           NEW h, Typed(fs, h), NEW counts, Works(counts), JumpOp \/ JumpFalse
    PROVE  Sequel(counts)
<1> DEFINE ops == {"OP_JMP", "OP_JMP_FALSE"}
<1>1. At(ops) /\ Instr.op \in ops
  BY DEF JumpOp, JumpFalse, At
<1>2. Takes(Instr) = Gives(Instr)
  BY <1>1 DEF Takes, Gives, Arithmetic
<1>3. /\ exit = "RUNNING" /\ stack.size \in Nat /\ Takes(Instr) \in Nat
      /\ pc \in DOMAIN counts.cells
  BY <1>1, Room
<1>4. AfterInstr + Instr.offset \in Follows(prog, pc)
  BY <1>1 DEF Follows, Instr, AfterInstr, Sequential
<1>5. IsProgramPtrSafe(prog, AfterInstr + Instr.offset)
  BY <1>3, <1>4, FollowsSafe
<1>6. Instr.op = "OP_JMP_FALSE" => AfterInstr \in Follows(prog, pc)
  BY DEF Follows, Instr, AfterInstr, Sequential
<1>7. CASE Undefined
  BY <1>7, UndefinedSequel
<1>8. CASE /\ pc' \in Follows(prog, pc) /\ exit' = exit /\ stack' = stack
           /\ UNCHANGED <<prog, calls, host>>
  <2>1. exit' \notin InternalErrors /\ KeepsBelow(Bottom, stack, stack')
        /\ stack'.size = stack.size - Takes(Instr) + Gives(Instr)
    BY <1>2, <1>3, <1>8 DEF InternalErrors, KeepsBelow
  <2> QED BY <1>1, <1>8, <2>1, GoesOn
<1>9. CASE JumpOp
  BY <1>4, <1>5, <1>8, <1>9 DEF JumpOp, Jump
<1>10. CASE JumpFalse
  <2>1. Instr.op = "OP_JMP_FALSE"
    BY <1>10 DEF JumpFalse, At
  <2> QED BY <1>4, <1>5, <1>6, <1>7, <1>8, <1>10, <2>1 DEF JumpFalse, Jump
<1> QED BY <1>9, <1>10

\* A frame's link only depends on the frames up to it.
LEMMA SameLinks ==
    ASSUME NEW program, NEW counts, NEW s, NEW t, NEW args, NEW n \in Nat \ {0},
           \A k \in 1 .. n : t[k] = s[k], Linked(program, counts, s, args, n)
    PROVE  Linked(program, counts, t, args, n)
<1>1. t[n] = s[n] /\ Base(t, args, n - 1) = Base(s, args, n - 1)
  <2>1. n \in 1 .. n /\ (n - 1 # 0 => n - 1 \in 1 .. n)
    OBVIOUS
  <2> QED BY <2>1 DEF Base
<1> QED BY <1>1 DEF Linked

LEMMA BaseIsNat ==
    ASSUME NEW fs \in SUBSET FunctionObjects, NEW h, Typed(fs, h), host # Idle,
           NEW n \in 0 .. Len(calls)
    PROVE  Base(calls, host.args, n) \in Nat
<1>1. CASE n = 0
  BY <1>1, MaxSizeAssumption DEF Base, Typed, Hosts
<1>2. CASE n # 0
  <2>1. calls \in Seq(Frames(h)) /\ n \in 1 .. Len(calls)
    BY <1>2 DEF Typed, CallsOK
  <2>2. calls[n] \in Frames(h)
    BY <2>1, ElementOfSeq
  <2> QED BY <1>2, <2>2, VMAssumption DEF Frames, Base
<1> QED BY <1>1, <1>2

\* A call whose arguments lie in the frame of the caller.
ReturnsWithin(counts, argcount, st) ==
    /\ AfterInstr \in DOMAIN counts.cells
    /\ AfterInstr \in counts.setup <=> calls = <<>>
    /\ Bottom + argcount <= st.size
    /\ Bottom + counts.cells[AfterInstr] + argcount <= st.size + 1

\* OP_BEGIN, in the setup, whose callee returns to the end of the program.
ReturnsToEnd == calls = <<>> /\ AfterInstr = TotalSize(prog)

LEMMA EnterBalanced ==
    ASSUME NEW fs \in SUBSET FunctionObjects,
           NEW h, Typed(fs, h), NEW counts, Works(counts), NEW ops, At(ops),
           NEW f \in fs, NEW refs, NEW argcount \in Nat, NEW st \in StackOf(ValueOf(fs, h)),
           argcount <= st.size, Enter(f, refs, argcount, st, exit),
           ReturnsToEnd \/ ReturnsWithin(counts, argcount, st)
    PROVE  Balanced(counts)'
<1>1. /\ f.ptr \in Nat /\ f.argcount = argcount
      /\ prog.data + f.ptr \in DOMAIN counts.cells \ counts.setup
      /\ counts.cells[prog.data + f.ptr] <= argcount
      /\ counts.cells[prog.data + f.ptr] \in Nat
  <2>1. f.argcount = argcount
    BY DEF Enter, CallError
  <2> QED BY <2>1 DEF FunctionObjects, Works, Verified, Typed
<1>2. st.size \in Nat /\ st.size <= MaxSize
  BY StackShape
<1>3. PICK base \in Nat : base = st.size - argcount
  BY <1>2
<1>4. FrameStart(f, st) = base
  <2>1. base < MaxSize + U8
    BY <1>2, <1>3, VMAssumption, MaxSizeAssumption
  <2> QED BY <1>1, <1>3, <2>1, Unwrapped DEF FrameStart
<1>5. PICK frame : frame = [return_addr |-> AfterInstr, stack_addr |-> base, closure |-> refs]
  OBVIOUS
<1>6. /\ calls' = Append(calls, frame) /\ pc' = prog.data + f.ptr /\ stack' = st
      /\ UNCHANGED <<prog, host>>
  BY <1>4, <1>5 DEF Enter
<1>7. /\ calls \in Seq(Frames(h)) /\ Len(calls) \in Nat /\ host # Idle
      /\ \A n \in 1 .. Len(calls) : Linked(prog, counts, calls, host.args, n)
  BY Room
<1>8. PICK t : t = Append(calls, frame)
  OBVIOUS
<1>9. /\ Len(t) = Len(calls) + 1 /\ t # <<>> /\ t[Len(calls) + 1] = frame
      /\ \A k \in 1 .. Len(calls) : t[k] = calls[k]
  BY <1>7, <1>8
<1>10. ASSUME NEW n \in 1 .. Len(t) PROVE Linked(prog, counts, t, host.args, n)
  <2>1. CASE n \in 1 .. Len(calls)
    BY <1>7, <1>9, <2>1, SameLinks
  <2>2. CASE n = Len(calls) + 1
    <3>1. t[n].return_addr = AfterInstr /\ t[n].stack_addr = base
      BY <1>5, <1>9, <2>2
    <3>2. Base(t, host.args, n - 1) = Bottom
      BY <1>7, <1>9, <2>2 DEF Base, Bottom
    <3>3. n = 1 <=> calls = <<>>
      BY <1>7, <2>2
    <3>4. CASE ReturnsToEnd
      BY <3>1, <3>3, <3>4 DEF ReturnsToEnd, Linked
    <3>5. CASE ReturnsWithin(counts, argcount, st)
      <4>1. Bottom \in Nat
        BY Room
      <4>2. counts.cells[AfterInstr] \in Nat
        BY <3>5 DEF ReturnsWithin, Works, Verified
      <4>3. PICK low \in Nat, relied \in Nat, size \in Nat :
                low = Bottom /\ relied = counts.cells[AfterInstr] /\ size = st.size
        BY <1>2, <4>1, <4>2
      <4>4. low + argcount <= size /\ low + relied + argcount <= size + 1 /\ base = size - argcount
        BY <1>3, <3>5, <4>3 DEF ReturnsWithin
      <4>5. low <= base /\ low + relied <= base + 1
        BY <4>4
      <4> QED BY <3>1, <3>2, <3>3, <3>5, <4>3, <4>5 DEF ReturnsWithin, Linked
    <3> QED BY <3>4, <3>5
  <2> QED BY <1>7, <1>9, <2>1, <2>2
<1>11. Covered(counts, prog.data + f.ptr, t, host.args, st.size)
  <2>1. Base(t, host.args, Len(t)) = base
    BY <1>5, <1>7, <1>9 DEF Base
  <2>2. base + counts.cells[prog.data + f.ptr] <= st.size
    BY <1>1, <1>2, <1>3
  <2> QED BY <1>1, <1>9, <2>1, <2>2 DEF Covered
<1> QED BY <1>6, <1>7, <1>8, <1>10, <1>11 DEF Balanced

\* A call that fails is the program's fault: its functions are where it says.
LEMMA CallErrorsKnown ==
    ASSUME NEW fs \in SUBSET FunctionObjects,
           NEW h, Typed(fs, h), NEW counts, Works(counts), NEW f \in fs, NEW argcount,
           CallError(f, argcount) # "none"
    PROVE  CallError(f, argcount) \notin InternalErrors \cup {"RUNNING"}
<1>1. prog.data + f.ptr \in DOMAIN counts.cells
  BY DEF Works, Verified, Typed
<1>2. IsProgramPtrSafe(prog, prog.data + f.ptr)
  BY <1>1, CountedIsSafe DEF Typed, IsProgram
<1> QED BY <1>2 DEF CallError, InternalErrors

\* A native takes no more than its arguments.
LEMMA NativeKeepsBelow ==
    ASSUME NEW V, NEW s \in StackOf(V), NEW argcount \in Nat, NEW base \in Nat,
           base + argcount <= s.size, NEW name \in StandardNatives \cup HostNatives
    PROVE  KeepsBelow(base, s, NativeResult(name, argcount, s).stack)
<1>1. PICK s1, s2, s3 : s1 = Pop(s) /\ s2 = Pop(s1) /\ s3 = Pop(s2)
  OBVIOUS
<1>2. s.size \in Nat
  BY StackShape
<1>3. argcount >= 1 => /\ s1 \in StackOf(V) /\ base <= s1.size /\ s1.size = s.size - 1
                       /\ KeepsBelow(base, s, s1)
  BY <1>1, <1>2, PopTyped, PopEffect DEF CanPop
<1>4. argcount >= 2 => /\ s2 \in StackOf(V) /\ base <= s2.size /\ s2.size = s.size - 2
                       /\ KeepsBelow(base, s, s2)
  <2>1. SUFFICES ASSUME argcount >= 2
                 PROVE  /\ s2 \in StackOf(V) /\ base <= s2.size /\ s2.size = s.size - 2
                        /\ KeepsBelow(base, s, s2)
    OBVIOUS
  <2>2. CanPop(s1)
    BY <1>2, <1>3, <2>1 DEF CanPop
  <2>3. s2 \in StackOf(V) /\ s2.size = s1.size - 1 /\ KeepsBelow(base, s1, s2)
    BY <1>1, <1>3, <2>1, <2>2, PopTyped, PopEffect
  <2> QED BY <1>2, <1>3, <2>1, <2>3 DEF KeepsBelow
<1>5. argcount >= 3 => /\ s3 \in StackOf(V) /\ base <= s3.size /\ s3.size = s.size - 3
                       /\ KeepsBelow(base, s, s3)
  <2>1. SUFFICES ASSUME argcount >= 3
                 PROVE  /\ s3 \in StackOf(V) /\ base <= s3.size /\ s3.size = s.size - 3
                        /\ KeepsBelow(base, s, s3)
    OBVIOUS
  <2>2. CanPop(s2)
    BY <1>2, <1>4, <2>1 DEF CanPop
  <2>3. s3 \in StackOf(V) /\ s3.size = s2.size - 1 /\ KeepsBelow(base, s2, s3)
    BY <1>1, <1>4, <2>1, <2>2, PopTyped, PopEffect
  <2> QED BY <1>2, <1>4, <2>1, <2>3 DEF KeepsBelow
<1>6. ASSUME NEW t \in StackOf(V), base <= t.size, KeepsBelow(base, s, t), NEW v
      PROVE  KeepsBelow(base, s, Push(t, v))
  <2>1. KeepsBelow(t.size, t, Push(t, v)) /\ t.size \in Nat
    BY PushEffect, StackShape
  <2> QED BY <1>6, <2>1, KeepsBelowTransitive
<1>7. KeepsBelow(base, s, s)
  BY DEF KeepsBelow
<1>8. KeepsBelow(base, s, NativeSize(argcount, s).stack)
  BY <1>1, <1>3, <1>6, <1>7 DEF NativeSize, Result
<1>9. KeepsBelow(base, s, NativeContains(argcount, s).stack)
  BY <1>1, <1>3, <1>4, <1>6, <1>7 DEF NativeContains, Result
<1>10. KeepsBelow(base, s, NativeWrite(argcount, s).stack)
  BY <1>1, <1>3, <1>4, <1>7 DEF NativeWrite, Result
<1>11. KeepsBelow(base, s, NativePrompt(argcount, s).stack)
  BY <1>1, <1>3, <1>6, <1>7 DEF NativePrompt, Result
<1>12. KeepsBelow(base, s, NativeSubstring(argcount, s).stack)
  <2>1. CASE argcount = 3
    BY <1>1, <1>3, <1>4, <1>5, <1>6, <1>7, <2>1 DEF NativeSubstring, Result
  <2>2. CASE argcount = 2
    BY <1>1, <1>3, <1>4, <1>6, <1>7, <2>2 DEF NativeSubstring, Result
  <2>3. CASE argcount \notin {2, 3}
    BY <1>7, <2>3 DEF NativeSubstring, Result
  <2> QED BY <2>1, <2>2, <2>3
<1>13. name \in {"size", "substring", "contains", "write", "prompt"}
  BY ProgramsAssumption DEF StandardNatives
<1> QED BY <1>8, <1>9, <1>10, <1>11, <1>12, <1>13 DEF NativeResult

\* A native that reports nothing leaves the caller what it goes on with.
NativeSuffices(counts, callee, argcount, st) ==
    IsKind(callee, "native") =>
        LET result == NativeResult(callee.object.native, argcount, st)
        IN  result.exit = "none" => Bottom + counts.cells[AfterInstr] <= result.stack.size

LEMMA TryCallSequel ==
    ASSUME NEW fs \in SUBSET FunctionObjects,
           NEW h, Typed(fs, h), NEW counts, Works(counts), NEW ops, At(ops),
           NEW callee \in ValueOf(fs, h), NEW argcount \in Nat, NEW st \in StackOf(ValueOf(fs, h)),
           argcount <= st.size, TryCall(callee, argcount, st, exit), Instr.op \in Leaping,
           HasFrame => KeepsBelow(Bottom, stack, st),
           \/ ReturnsToEnd
           \/ ReturnsWithin(counts, argcount, st) /\ NativeSuffices(counts, callee, argcount, st)
    PROVE  Sequel(counts)
<1>1. exit = "RUNNING" /\ host # Idle /\ Bottom \in Nat /\ Len(calls) \in Nat
      /\ (\A n \in 1 .. Len(calls) : Linked(prog, counts, calls, host.args, n))
  BY Room
<1>2. ASSUME stack' = st, exit' \notin InternalErrors, exit' # "RUNNING"
      PROVE  Sequel(counts)
  BY <1>2 DEF Sequel, Balanced
<1>3. ASSUME NEW f \in fs, NEW refs, Enter(f, refs, argcount, st, exit)
      PROVE  Sequel(counts)
  <2>1. Balanced(counts)'
    BY <1>3, EnterBalanced
  <2> QED BY <1>1, <1>3, <2>1 DEF Sequel, Enter, InternalErrors
<1>4. ASSUME NEW f \in fs, CallFails(f, argcount, st)
      PROVE  Sequel(counts)
  <2>1. CallError(f, argcount) \notin InternalErrors \cup {"RUNNING"}
    BY <1>4, CallErrorsKnown DEF CallFails
  <2> QED BY <1>2, <1>4, <2>1 DEF CallFails, RuntimeError
<1>5. CASE Undefined
  BY <1>5, UndefinedSequel DEF Sequel
<1>6. CASE IsKind(callee, "function") /\ CallFunction(callee.object, argcount, st, exit)
  BY <1>3, <1>4, <1>6, KnownKinds DEF CallFunction
<1>7. CASE IsKind(callee, "closure") /\ CallClosure(callee.object, argcount, st, exit)
  <2>1. PICK f \in fs : f = callee.object.function
    BY <1>7, KnownKinds
  <2>2. PICK refs : refs = callee.object.upvalues
    OBVIOUS
  <2>3. Undefined \/ CallFails(f, argcount, st) \/ Enter(f, refs, argcount, st, exit)
    BY <1>7, <2>1, <2>2, Zenon DEF CallClosure
  <2> QED BY <1>3, <1>4, <1>5, <2>3
<1>8. CASE IsKind(callee, "native") /\ CallNative(callee.object.native, argcount, st, exit)
  <2>1. PICK name \in StandardNatives \cup HostNatives : name = callee.object.native
    BY <1>8, KnownKinds
  <2>2. PICK result \in Returned(fs, h) : result = NativeResult(name, argcount, st)
    BY NativeResultTyped
  <2>3. SUFFICES ASSUME ~NativeUndefined(argcount, st) PROVE Sequel(counts)
    BY <1>5, <1>8 DEF CallNative
  <2>4. /\ stack' = result.stack /\ pc' = AfterInstr
        /\ exit' = IF result.exit = "none" THEN exit ELSE result.exit
        /\ UNCHANGED <<prog, calls, host>>
    BY <1>8, <2>1, <2>2, <2>3 DEF CallNative
  <2>5. result.exit \in {"none", "EXIT_USER_ERROR"}
    BY DEF Returned
  <2>6. exit' \notin InternalErrors /\ (exit' = "RUNNING" => result.exit = "none")
    BY <1>1, <2>4, <2>5 DEF InternalErrors
  <2>7. CASE ReturnsToEnd
    BY <1>1, <2>4, <2>6, <2>7 DEF ReturnsToEnd, Sequel, Balanced, HasFrame
  <2>8. CASE ReturnsWithin(counts, argcount, st) /\ NativeSuffices(counts, callee, argcount, st)
    <3>1. KeepsBelow(Bottom, st, result.stack)
      BY <1>1, <2>2, <2>8, NativeKeepsBelow DEF ReturnsWithin
    <3>2. HasFrame => KeepsBelow(Bottom, stack, stack')
      BY <2>4, <3>1 DEF KeepsBelow
    <3>3. result.exit = "none" => Covered(counts, AfterInstr, calls, host.args, result.stack.size)
      BY <1>8, <2>1, <2>2, <2>8 DEF ReturnsWithin, NativeSuffices, Covered, Bottom
    <3>4. Balanced(counts)'
      BY <1>1, <2>4, <2>6, <3>3 DEF Balanced
    <3> QED BY <2>6, <3>2, <3>4 DEF Sequel
  <2> QED BY <2>7, <2>8
<1>9. CASE RuntimeError(st, "EXIT_INCORRECT_TYPE")
  BY <1>2, <1>9 DEF RuntimeError, InternalErrors
<1> QED BY <1>5, <1>6, <1>7, <1>8, <1>9, Zenon DEF TryCall

LEMMA CallSequel ==
    ASSUME NEW fs \in SUBSET FunctionObjects,
           NEW h, Typed(fs, h), NEW counts, Works(counts), Call
    PROVE  Sequel(counts)
<1>1. At({"OP_CALL"}) /\ Instr.op = "OP_CALL"
  BY DEF Call, At
<1>2. PICK argcount \in Nat : argcount = Instr.argcount
  BY <1>1, Fetched, Operands
<1>3. Takes(Instr) = argcount + 1 /\ Gives(Instr) = 1 /\ Instr.op \in Sequential
  BY <1>1, <1>2 DEF Takes, Gives, Arithmetic, Sequential, KnownOps, WithPtr, WithByte
<1>4. /\ stack.size \in Nat /\ Bottom \in Nat /\ pc \in DOMAIN counts.cells
      /\ counts.cells[pc] \in Nat /\ Takes(Instr) <= counts.cells[pc]
      /\ Bottom + counts.cells[pc] <= stack.size /\ (pc \in counts.setup <=> ~HasFrame)
  BY <1>1, Room
<1>5. /\ CanPop(stack) /\ ~StackEmpty /\ Pop(stack) \in StackOf(ValueOf(fs, h))
      /\ Pop(stack).size = stack.size - 1 /\ KeepsBelow(Bottom, stack, Pop(stack))
  <2>1. Takes(Instr) >= 1
    BY <1>3
  <2> QED BY <1>1, <2>1, FindsOperand
<1>6. Peek(stack) \in ValueOf(fs, h)
  BY <1>5, TopTyped
<1>7. TryCall(Peek(stack), argcount, Pop(stack), exit)
  BY <1>2, <1>5 DEF Call
<1>8. PICK next : next = AfterInstr
  OBVIOUS
<1>9. /\ next \in DOMAIN counts.cells /\ (next \in counts.setup <=> calls = <<>>)
      /\ counts.cells[next] \in Nat /\ counts.cells[next] <= counts.cells[pc] - (argcount + 1) + 1
  <2>1. next \in Follows(prog, pc)
    BY <1>3, <1>8, NextFollows
  <2> QED BY <1>3, <1>4, <2>1 DEF Works, Verified, Instr, HasFrame
<1>10. argcount <= stack.size - 1 /\ Bottom + argcount <= stack.size - 1
       /\ Bottom + counts.cells[next] + argcount <= stack.size - 1 + 1
  BY <1>3, <1>4, <1>9
<1>11. ReturnsWithin(counts, argcount, Pop(stack)) /\ argcount <= Pop(stack).size
  BY <1>5, <1>8, <1>9, <1>10 DEF ReturnsWithin
<1>12. NativeSuffices(counts, Peek(stack), argcount, Pop(stack))
  <2>1. SUFFICES ASSUME IsKind(Peek(stack), "native"),
                        NEW result,
                        result = NativeResult(Peek(stack).object.native, argcount, Pop(stack)),
                        result.exit = "none"
                 PROVE  Bottom + counts.cells[next] <= result.stack.size
    BY <1>8 DEF NativeSuffices
  <2>2. ~Misses(counts, next, Len(calls), result.stack.size)
    BY <1>1, <1>2, <1>5, <1>8, <2>1 DEF Works, LosesValue
  <2>3. ~(result.stack.size < Bottom + counts.cells[next])
    BY <1>9, <2>2 DEF Misses, Bottom
  <2>4. result.stack.size \in Nat
    <3>1. Peek(stack).object.native \in StandardNatives \cup HostNatives
      BY <1>6, <2>1, KnownKinds
    <3>2. result \in Returned(fs, h)
      BY <1>5, <2>1, <3>1, NativeResultTyped
    <3> QED BY <3>2, StackShape DEF Returned
  <2> QED BY <1>4, <1>9, <2>3, <2>4
<1> QED BY <1>1, <1>5, <1>6, <1>7, <1>11, <1>12, TryCallSequel DEF Leaping

LEMMA BeginSequel ==
    ASSUME NEW fs \in SUBSET FunctionObjects,
           NEW h, Typed(fs, h), NEW counts, Works(counts), Begin
    PROVE  Sequel(counts)
<1>1. At({"OP_BEGIN"}) /\ Instr.op = "OP_BEGIN"
  BY DEF Begin, At
<1>2. /\ stack \in StackOf(ValueOf(fs, h)) /\ stack.size \in Nat /\ host.args \in 0 .. MaxSize
      /\ pc \in DOMAIN counts.cells /\ (pc \in counts.setup <=> ~HasFrame)
      /\ Bottom \in 0 .. stack.size
  BY <1>1, Room
<1>3. ~HasFrame /\ pc + 1 = TotalSize(prog)
  BY <1>1, <1>2 DEF Works, Verified, Instr
<1>4. ReturnsToEnd
  <2>1. AfterInstr = pc + 1
    BY <1>1 DEF AfterInstr, Width, WithPtr, WithByte
  <2> QED BY <1>3, <2>1 DEF ReturnsToEnd, HasFrame
<1>5. CanPush(stack) /\ Defined(host.function)
  BY <1>1 DEF Works, LosesValue, At
<1>6. PICK st : st = StackWithGlobal(host.function)
  OBVIOUS
<1>7. st \in StackOf(ValueOf(fs, h)) /\ st.size = stack.size + 1
  BY <1>2, <1>5, <1>6, GlobalTyped, PushEffect DEF StackWithGlobal
<1>8. CanPop(st) /\ Peek(st) \in ValueOf(fs, h) /\ Pop(st) \in StackOf(ValueOf(fs, h))
      /\ Pop(st).size = stack.size
  <2>1. CanPop(st)
    BY <1>2, <1>7 DEF CanPop
  <2> QED BY <1>2, <1>7, <2>1, PopTyped, PopEffect
<1>9. PICK argcount \in Nat : argcount = host.args % U8 /\ argcount <= stack.size
  <2>1. Bottom = host.args
    BY <1>3 DEF Bottom, Base, HasFrame
  <2>2. host.args \in Nat /\ host.args <= stack.size /\ U8 \in Nat \ {0}
    BY <1>2, <2>1, MaxSizeAssumption, VMAssumption
  <2>3. host.args % U8 \in Nat /\ host.args % U8 <= host.args
    BY <2>2
  <2> QED BY <1>2, <2>2, <2>3
<1>10. TryCall(Peek(st), argcount, Pop(st), exit)
  BY <1>5, <1>6, <1>8, <1>9 DEF Begin, ExitOfGlobal
<1>11. argcount <= Pop(st).size
  BY <1>8, <1>9
<1> QED BY <1>1, <1>3, <1>4, <1>8, <1>10, <1>11, TryCallSequel DEF Leaping

\* A return goes on where the frame's link says, with the cells that the
\* caller has below the frame and, if there is one, the value.
LEMMA LeaveBalanced ==
    ASSUME NEW fs \in SUBSET FunctionObjects,
           NEW h, Typed(fs, h), NEW counts, Works(counts), NEW ops, At(ops), HasFrame,
           NEW last, LeaveFrame(last),
           ~Misses(counts, CurrentCall.return_addr, Len(calls) - 1, stack'.size),
           stack'.size \in Nat
    PROVE  Balanced(counts)'
<1>1. /\ calls \in Seq(Frames(h)) /\ host # Idle
      /\ \A n \in 1 .. Len(calls) : Linked(prog, counts, calls, host.args, n)
  BY Room
<1>2. PICK n \in Nat \ {0} : n = Len(calls)
  BY CurrentFrame
<1>3. PICK t : t = Front(calls)
  OBVIOUS
<1>4. Len(t) = n - 1 /\ \A k \in 1 .. n - 1 : t[k] = calls[k]
  BY <1>1, <1>2, <1>3 DEF Front
<1>5. t = <<>> <=> n = 1
  <2>1. t \in Seq(Frames(h))
    <3>1. \A i \in 1 .. n - 1 : calls[i] \in Frames(h)
      BY <1>1, <1>2, ElementOfSeq
    <3>2. t = SubSeq(calls, 1, n - 1) /\ n - 1 \in Nat
      BY <1>2, <1>3 DEF Front
    <3> QED BY <3>1, <3>2, SubSeqProperties
  <2> QED BY <1>2, <1>4, <2>1, EmptySeq
<1>6. PICK a : a = CurrentCall.return_addr
  OBVIOUS
<1>7. ASSUME NEW k \in 1 .. Len(t) PROVE Linked(prog, counts, t, host.args, k)
  <2>1. Linked(prog, counts, calls, host.args, k) /\ k \in Nat \ {0}
    BY <1>1, <1>2, <1>4
  <2>2. \A j \in 1 .. k : t[j] = calls[j]
    BY <1>2, <1>4
  <2> QED BY <2>1, <2>2, SameLinks
<1>8. (n = 1 /\ a = TotalSize(prog)) \/ (a \in DOMAIN counts.cells /\ (a \in counts.setup <=> n = 1))
  BY <1>1, <1>2, <1>6 DEF Linked, CurrentCall
<1>9. ASSUME a \in DOMAIN counts.cells
      PROVE  Base(t, host.args, Len(t)) + counts.cells[a] <= stack'.size
  <2>1. PICK base \in Nat : base = Base(calls, host.args, n - 1)
    BY <1>1, <1>2, BaseIsNat
  <2>2. Base(t, host.args, Len(t)) = base
    BY <1>2, <1>4, <2>1 DEF Base
  <2>3. ~(stack'.size < base + counts.cells[a])
    BY <1>2, <1>6, <1>9, <2>1 DEF Misses
  <2>4. counts.cells[a] \in Nat
    BY <1>9 DEF Works, Verified
  <2> QED BY <2>1, <2>2, <2>3, <2>4
<1>10. Covered(counts, a, t, host.args, stack'.size) \/ (t = <<>> /\ a = TotalSize(prog))
  BY <1>5, <1>8, <1>9 DEF Covered
<1>11. calls' = t /\ pc' = a /\ UNCHANGED <<prog, host>>
  BY <1>3, <1>6 DEF LeaveFrame
<1> QED BY <1>1, <1>7, <1>10, <1>11 DEF Balanced

LEMMA ReturnVoidSequel ==
    ASSUME NEW fs \in SUBSET FunctionObjects,
           NEW h, Typed(fs, h), NEW counts, Works(counts), ReturnVoid
    PROVE  Sequel(counts)
<1>1. At({"OP_RETURN_VOID"}) /\ Instr.op \in Leaping
  BY DEF ReturnVoid, At, Leaping
<1>2. CASE Undefined
  BY <1>2, UndefinedSequel DEF Sequel
<1>3. CASE HasFrame /\ LeaveFrame(FrameBase) /\ stack' = Return(stack) /\ exit' = exit
  <2>1. /\ stack \in StackOf(ValueOf(fs, h)) /\ Bottom \in Nat /\ Bottom \in 0 .. stack.size
        /\ stack.size \in Nat /\ exit = "RUNNING"
    BY <1>1, Room
  <2>2. Bottom = CurrentCall.stack_addr
    BY <1>3, CurrentFrame DEF Bottom, Base, CurrentCall
  <2>3. Bottom <= stack.size
    BY <2>1
  <2>4. stack'.size = Bottom /\ KeepsBelow(Bottom, stack, stack')
    BY <1>3, <2>1, <2>2, <2>3, SeekEffect DEF Return
  <2>5. ~Misses(counts, CurrentCall.return_addr, Len(calls) - 1, stack'.size)
    BY <1>1, <1>3, <2>2, <2>4 DEF Works, LosesValue
  <2>6. Balanced(counts)'
    BY <1>1, <1>3, <2>1, <2>4, <2>5, LeaveBalanced
  <2> QED BY <1>1, <1>3, <2>1, <2>4, <2>6 DEF Sequel, InternalErrors
<1> QED BY <1>2, <1>3 DEF ReturnVoid

LEMMA ReturnValueSequel ==
    ASSUME NEW fs \in SUBSET FunctionObjects,
           NEW h, Typed(fs, h), NEW counts, Works(counts), ReturnValue
    PROVE  Sequel(counts)
<1> DEFINE last == Get(Pop(stack), CurrentCall.stack_addr)
           st   == Return(Pop(stack))
<1>1. At({"OP_RETURN_VALUE"}) /\ Instr.op = "OP_RETURN_VALUE"
  BY DEF ReturnValue, At
<1>2. Takes(Instr) = 1 /\ Instr.op \in Leaping
  BY <1>1 DEF Takes, Arithmetic, Leaping
<1>3. exit = "RUNNING" /\ Bottom \in Nat /\ Len(calls) \in Nat /\ host # Idle
      /\ (\A n \in 1 .. Len(calls) : Linked(prog, counts, calls, host.args, n))
  BY <1>1, Room
<1>4. /\ CanPop(stack) /\ ~StackEmpty /\ Pop(stack) \in StackOf(ValueOf(fs, h))
      /\ Bottom \in 0 .. Pop(stack).size /\ KeepsBelow(Bottom, stack, Pop(stack))
  BY <1>1, <1>2, FindsOperand
<1>5. CASE Undefined
  BY <1>5, UndefinedSequel DEF Sequel
<1>6. CASE /\ HasFrame /\ LeaveFrame(last)
           /\ IF Len(calls) > 1
                THEN PushOrHalt(st, Peek(stack))
                ELSE stack' = st /\ exit' = exit
  <2>1. Bottom = CurrentCall.stack_addr
    BY <1>6, CurrentFrame DEF Bottom, Base, CurrentCall
  <2>2. Bottom <= Pop(stack).size
    BY <1>3, <1>4, StackShape
  <2>3. st \in StackOf(ValueOf(fs, h)) /\ st.size = Bottom /\ KeepsBelow(Bottom, Pop(stack), st)
    BY <1>3, <1>4, <2>1, <2>2, SeekTyped, SeekEffect DEF Return
  <2> HIDE DEF st
  <2>4. KeepsBelow(Bottom, stack, st)
    BY <1>4, <2>3 DEF KeepsBelow
  <2>5. CASE Len(calls) > 1
    <3>1. Bottom \in 0 .. st.size
      BY <1>3, <2>3
    <3>2. /\ exit' \notin InternalErrors /\ KeepsBelow(Bottom, st, stack')
          /\ exit' = "RUNNING" => stack'.size = Bottom + 1
      BY <1>3, <1>6, <2>3, <2>5, <3>1, PushOrHaltGoesOn
    <3>3. ASSUME exit' = "RUNNING" PROVE Balanced(counts)'
      <4>1. PICK n \in Nat : n = Len(calls) /\ n # 1 /\ n \in 1 .. Len(calls)
        BY <1>3, <2>5
      <4>2. Linked(prog, counts, calls, host.args, n)
        BY <1>3, <4>1
      <4>3. PICK base \in Nat : base = Base(calls, host.args, n - 1)
        BY <1>3, <4>1, BaseIsNat
      <4>4. /\ CurrentCall.return_addr \in DOMAIN counts.cells
            /\ base + counts.cells[CurrentCall.return_addr] <= Bottom + 1
        BY <2>1, <4>1, <4>2, <4>3 DEF Linked, CurrentCall
      <4>5. counts.cells[CurrentCall.return_addr] \in Nat
        BY <4>4 DEF Works, Verified
      <4>6. ~Misses(counts, CurrentCall.return_addr, n - 1, Bottom + 1)
        BY <1>3, <4>3, <4>4, <4>5 DEF Misses
      <4>7. ~Misses(counts, CurrentCall.return_addr, Len(calls) - 1, stack'.size)
            /\ stack'.size \in Nat
        BY <1>3, <3>2, <3>3, <4>1, <4>6
      <4> QED BY <1>1, <1>6, <4>7, LeaveBalanced
    <3>4. Balanced(counts)'
      BY <3>3 DEF Balanced
    <3> QED BY <1>2, <2>4, <3>2, <3>4 DEF Sequel, KeepsBelow
  <2>6. CASE ~(Len(calls) > 1)
    <3>1. Len(calls) = 1
      <4>1. HasFrame
        BY <1>6
      <4>2. PICK n \in Nat \ {0} : n = Len(calls)
        BY <4>1, CurrentFrame
      <4>3. ~(n > 1)
        BY <2>6, <4>2
      <4> QED BY <4>2, <4>3
    <3>2. stack' = st /\ exit' = exit
      BY <1>6, <2>6
    <3>3. ~Misses(counts, CurrentCall.return_addr, Len(calls) - 1, stack'.size)
      BY <1>1, <1>6, <2>1, <2>3, <3>1, <3>2 DEF Works, LosesValue
    <3>4. Balanced(counts)'
      BY <1>1, <1>3, <1>6, <2>3, <3>2, <3>3, LeaveBalanced
    <3> QED BY <1>2, <1>3, <2>4, <3>2, <3>4 DEF Sequel, InternalErrors
  <2> QED BY <2>5, <2>6
<1> QED BY <1>4, <1>5, <1>6 DEF ReturnValue

\* Every instruction of a program whose counts are right.
LEMMA ExecuteSequel ==
    ASSUME NEW fs \in SUBSET FunctionObjects,
           NEW h \in Nat, Typed(fs, h), NEW counts, Works(counts), Execute
    PROVE  Sequel(counts)
<1>1. FetchStray \/ HaltOp \/ UnknownOp => Sequel(counts)
  BY EndSequel
<1>2. PushLiteral => Sequel(counts)
  BY PushLiteralSequel
<1>3. BinaryOp => Sequel(counts)
  BY BinaryOpSequel
<1>4. Step \/ Negate => Sequel(counts)
  BY StepSequel
<1>5. PopOp => Sequel(counts)
  BY PopOpSequel
<1>6. PopNOp => Sequel(counts)
  BY PopNOpSequel
<1>7. TopOp => Sequel(counts)
  BY TopOpSequel
<1>8. LoadLocal => Sequel(counts)
  BY LoadLocalSequel
<1>9. SetLocal => Sequel(counts)
  BY SetLocalSequel
<1>10. LoadUpvalue => Sequel(counts)
  BY LoadUpvalueSequel
<1>11. SetUpvalue => Sequel(counts)
  BY SetUpvalueSequel
<1>12. CloseUpvalue => Sequel(counts)
  BY CloseUpvalueSequel
<1>13. SetGlobal => Sequel(counts)
  BY SetGlobalSequel
<1>14. LoadGlobal => Sequel(counts)
  BY LoadGlobalSequel
<1>15. MakeClosure => Sequel(counts)
  BY MakeClosureSequel
<1>16. Call => Sequel(counts)
  BY CallSequel
<1>17. Begin => Sequel(counts)
  BY BeginSequel
<1>18. ReturnVoid => Sequel(counts)
  BY ReturnVoidSequel
<1>19. ReturnValue => Sequel(counts)
  BY ReturnValueSequel
<1>20. JumpOp \/ JumpFalse => Sequel(counts)
  BY JumpSequel
<1> QED BY <1>1, <1>2, <1>3, <1>4, <1>5, <1>6, <1>7, <1>8, <1>9, <1>10, <1>11, <1>12, <1>13,
           <1>14, <1>15, <1>16, <1>17, <1>18, <1>19, <1>20 DEF Execute

\* What the host does between the instructions.
LEMMA HostBalanced ==
    ASSUME NEW fs \in SUBSET FunctionObjects,
           NEW h \in Nat, Typed(fs, h), NEW counts, Works(counts),
           FinishRun \/ HostCall \/ UNCHANGED vars
    PROVE  Balanced(counts)'
<1>1. CASE FinishRun
  BY <1>1 DEF FinishRun, Balanced
<1>2. CASE UNCHANGED vars
  BY <1>2 DEF vars, Works, Balanced
<1>3. CASE \E name \in Entries : RunFunction(name)
  <2>1. PICK name \in Entries : RunFunction(name)
    BY <1>3
  <2>2. SUFFICES ASSUME exit' = "RUNNING" PROVE Balanced(counts)'
    BY DEF Balanced
  <2>3. /\ pc' = prog.data + prog.start /\ calls' = <<>> /\ stack' = stack /\ UNCHANGED prog
        /\ host' # Idle /\ host'.args = stack.size
    BY <2>1, <2>2 DEF RunFunction, Works, Balanced, Idle
  <2>4. PICK start : start = prog.data + prog.start
    OBVIOUS
  <2>5. /\ start \in DOMAIN counts.cells /\ start \in counts.setup /\ counts.cells[start] = 0
    BY <2>4 DEF Works, Verified
  <2>6. stack.size \in Nat
    BY StackShape DEF Typed
  <2>7. Covered(counts, start, <<>>, stack.size, stack.size)
    BY <2>5, <2>6 DEF Covered, Base
  <2> QED BY <2>3, <2>4, <2>7 DEF Balanced
<1>4. CASE host = Idle /\ exit' \in {exit, "EXIT_GLOBAL_ALREADY_EXISTS"}
           /\ UNCHANGED <<prog, pc, calls, host>>
  BY <1>4 DEF Works, Balanced
<1>5. HostCall => (\E name \in Entries : RunFunction(name)) \/
                  (host = Idle /\ exit' \in {exit, "EXIT_GLOBAL_ALREADY_EXISTS"}
                   /\ UNCHANGED <<prog, pc, calls, host>>)
  BY DEF HostCall, AddNative, HostPush, HostPop
<1> QED BY <1>1, <1>2, <1>3, <1>4, <1>5

LEMMA BalancedStep ==
    ASSUME Inv, NEW counts, Works(counts), [Next]_vars
    PROVE  Balanced(counts)'
<1>1. PICK fs \in SUBSET FunctionObjects, h \in Nat : Typed(fs, h)
  BY InvParts
<1>2. CASE Execute
  BY <1>1, <1>2, ExecuteSequel DEF Sequel
<1>3. CASE FinishRun \/ HostCall \/ UNCHANGED vars
  BY <1>1, <1>3, HostBalanced
<1> QED BY <1>2, <1>3 DEF Next

\* The counts are a part of the program, and do not change.
BalancedNow == Balanced(prog.counts)

LEMMA BalancedInit ==
    ASSUME Init
    PROVE  BalancedNow
BY DEF Init, InitMachine, BalancedNow, Balanced, Idle

LEMMA ProgramIsFixed ==
    ASSUME Inv, [Next]_vars
    PROVE  prog' = prog
<1>1. Execute => prog' = prog
  <2> USE DEF Undefined, CallFunction, CallClosure, CallNative, Enter, CallFails, LeaveFrame
  <2>1. TryCall(Peek(stack), Instr.argcount, Pop(stack), exit) => prog' = prog
    BY DEF TryCall
  <2>2. ASSUME NEW st, NEW ex, TryCall(Peek(st), host.args % U8, Pop(st), ex) PROVE prog' = prog
    BY <2>2 DEF TryCall
  <2>3. Call \/ Begin => prog' = prog
    BY <2>1, <2>2 DEF Call, Begin
  <2>4. ReturnVoid \/ ReturnValue => prog' = prog
    BY DEF ReturnVoid, ReturnValue
  <2>5. BinaryOp \/ Step \/ Negate \/ SetGlobal \/ MakeClosure \/ SetUpvalue \/ CloseUpvalue
        => prog' = prog
    BY DEF BinaryOp, Step, Negate, SetGlobal, MakeClosure, SetUpvalue, CloseUpvalue
  <2> QED BY <2>3, <2>4, <2>5 DEF Execute, FetchStray, PushLiteral, HaltOp, PopOp, PopNOp, TopOp,
             LoadLocal, SetLocal, LoadUpvalue, LoadGlobal, JumpOp, JumpFalse, UnknownOp
<1>2. FinishRun \/ HostCall \/ UNCHANGED vars => prog' = prog
  BY DEF FinishRun, HostCall, AddNative, HostPush, HostPop, RunFunction, vars
<1> QED BY <1>1, <1>2 DEF Next

\* What a step does while every value is accounted for.
LEMMA AccountedStep ==
    ASSUME Inv, BalancedNow, Accounted, [Next]_vars
    PROVE  /\ BalancedNow'
           /\ NoInternalError => NoInternalError'
           /\ HasFrame /\ Running /\ ~At({"OP_SET_UPVALUE"}) => KeepsBelow(Bottom, stack, stack')
<1>1. PICK counts : counts = prog.counts /\ counts = prog'.counts
  BY ProgramIsFixed
<1>2. Works(counts)
  BY <1>1 DEF Works, Accounted, BalancedNow
<1>3. Balanced(counts)'
  BY <1>2, BalancedStep
<1>4. BalancedNow'
  BY <1>1, <1>3 DEF BalancedNow, Balanced
<1>5. CASE Execute
  <2>1. PICK fs \in SUBSET FunctionObjects, h \in Nat : Typed(fs, h)
    BY InvParts
  <2>2. Sequel(counts)
    BY <1>2, <1>5, <2>1, ExecuteSequel
  <2>3. ASSUME Running, ~HasInstruction(prog, pc) PROVE stack' = stack
    BY <1>5, <2>3 DEF Execute, At, FetchStray, PushLiteral, BinaryOp, Step, Negate, HaltOp, PopOp,
          PopNOp, TopOp, LoadLocal, SetLocal, LoadUpvalue, SetUpvalue, CloseUpvalue, SetGlobal,
          LoadGlobal, MakeClosure, Call, Begin, ReturnVoid, ReturnValue, JumpOp, JumpFalse, UnknownOp
  <2>4. HasFrame /\ Running /\ ~At({"OP_SET_UPVALUE"}) => KeepsBelow(Bottom, stack, stack')
    BY <2>2, <2>3 DEF Sequel, At, KeepsBelow
  <2> QED BY <1>4, <2>2, <2>4 DEF Sequel, NoInternalError
<1>6. CASE FinishRun \/ HostCall \/ UNCHANGED vars
  <2>1. (UNCHANGED <<stack, exit>>) \/ (~Running /\ exit' \in {exit, "EXIT_GLOBAL_ALREADY_EXISTS"})
    BY <1>6 DEF FinishRun, HostCall, AddNative, HostPush, HostPop, RunFunction, vars, Running
  <2>2. NoInternalError => NoInternalError'
    BY <2>1 DEF NoInternalError, InternalErrors
  <2>3. Running => KeepsBelow(Bottom, stack, stack')
    BY <2>1 DEF KeepsBelow
  <2> QED BY <1>4, <2>2, <2>3
<1> QED BY <1>5, <1>6 DEF Next

LEMMA AlwaysBalanced == Spec /\ []Accounted => []BalancedNow
<1>1. Init => BalancedNow
  BY BalancedInit
<1>2. Inv /\ BalancedNow /\ Accounted /\ [Next]_vars => BalancedNow'
  BY AccountedStep
<1> QED BY <1>1, <1>2, AlwaysInv, PTL DEF Spec

\* FramesNested of module Balance: as long as a program whose counts are right
\* loses no value, the frames of the functions that are running lie one above
\* the other.
THEOREM MachineFramesNested == Spec /\ []Accounted => []FramesNested
<1>1. Inv /\ BalancedNow /\ Accounted => FramesNested
  <2>1. SUFFICES ASSUME Inv, BalancedNow, Accounted, Running, NEW i \in 1 .. Len(calls)
                 PROVE  calls[i].stack_addr
                          <= IF i = Len(calls) THEN stack.size ELSE calls[i + 1].stack_addr
    BY DEF FramesNested
  <2>2. PICK fs \in SUBSET FunctionObjects, h \in Nat : Typed(fs, h)
    BY <2>1, InvParts
  <2>3. PICK counts : counts = prog.counts
    OBVIOUS
  <2>4. Verified(prog, counts) /\ Balanced(counts)
    BY <2>1, <2>3 DEF Accounted, BalancedNow
  <2>5. Len(calls) \in Nat /\ i \in Nat /\ i # 0 /\ calls # <<>>
    BY <2>2 DEF Typed, CallsOK
  <2>6. /\ Covered(counts, pc, calls, host.args, stack.size)
        /\ \A n \in 1 .. Len(calls) : Linked(prog, counts, calls, host.args, n)
    BY <2>1, <2>4, <2>5 DEF Balanced, Running
  <2>7. CASE i = Len(calls)
    <3>1. counts.cells[pc] \in Nat /\ calls[i].stack_addr + counts.cells[pc] <= stack.size
      BY <2>4, <2>5, <2>6, <2>7 DEF Covered, Base, Verified
    <3>2. PICK base \in Nat : base = calls[i].stack_addr
      BY <2>1, <2>2, <2>5, BaseIsNat DEF Base, Running
    <3>3. stack.size \in Nat
      BY <2>2, StackShape DEF Typed
    <3> QED BY <2>7, <3>1, <3>2, <3>3
  <2>8. CASE i # Len(calls)
    <3>1. i + 1 \in 1 .. Len(calls) /\ i + 1 # 1 /\ (i + 1) - 1 = i
      BY <2>5, <2>8
    <3>2. Base(calls, host.args, (i + 1) - 1) <= calls[i + 1].stack_addr
      BY <2>6, <3>1 DEF Linked
    <3> QED BY <2>5, <2>8, <3>1, <3>2 DEF Base
  <2> QED BY <2>7, <2>8
<1> QED BY <1>1, AlwaysInv, AlwaysBalanced, PTL

\* NoInternalError of module Balance: such a program never finds the stack
\* empty, and never jumps or calls outside the program.
THEOREM MachineNoInternalError == Spec /\ []Accounted => []NoInternalError
<1>1. Init => NoInternalError
  BY DEF Init, InitMachine, NoInternalError, InternalErrors
<1>2. Inv /\ BalancedNow /\ Accounted /\ NoInternalError /\ [Next]_vars => NoInternalError'
  BY AccountedStep
<1> QED BY <1>1, <1>2, AlwaysInv, AlwaysBalanced, PTL DEF Spec

\* FrameIsolation of module Balance: no instruction of such a program but
\* OP_SET_UPVALUE writes to the stack below the frame of its function.
THEOREM MachineFrameIsolation == Spec /\ []Accounted => FrameIsolation
<1> DEFINE Isolated ==
        Running /\ HasFrame =>
          \A a \in 0 .. CurrentCall.stack_addr - 1 :
              stack'.cells[a] # stack.cells[a] => At({"OP_SET_UPVALUE"})
<1>1. Inv /\ BalancedNow /\ Accounted /\ [Next]_vars => Isolated
  <2>1. SUFFICES ASSUME Inv, BalancedNow, Accounted, [Next]_vars, Running, HasFrame,
                        ~At({"OP_SET_UPVALUE"}), NEW a \in 0 .. CurrentCall.stack_addr - 1
                 PROVE  stack'.cells[a] = stack.cells[a]
    OBVIOUS
  <2>2. PICK fs \in SUBSET FunctionObjects, h \in Nat : Typed(fs, h)
    BY <2>1, InvParts
  <2>3. Bottom = CurrentCall.stack_addr
    BY <2>1, <2>2, CurrentFrame DEF Bottom, Base, CurrentCall
  <2> QED BY <2>1, <2>3, AccountedStep DEF KeepsBelow
<1>2. Inv /\ BalancedNow /\ Accounted /\ [Next]_vars => [Isolated]_vars
  BY <1>1
<1> QED BY <1>2, AlwaysInv, AlwaysBalanced, PTL DEF Spec, FrameIsolation

------------------------------------------------------------------------------
(***************************************************************************)
(* Exact counts.  Where the counts also say how high every frame is, what  *)
(* each call leaves and which cells are captured, the frames have the      *)
(* heights the compiler counted on, and no open upvalue outlives its cell. *)
(***************************************************************************)
Knows(counts) == Works(counts) /\ Exact(prog, counts) /\ Level(counts) /\ ~Mismatches(counts)

\* What the exact counts say of the instruction that is next.
LEMMA HeightRoom ==
    ASSUME NEW fs \in SUBSET FunctionObjects,
           NEW h, Typed(fs, h), NEW counts, Knows(counts), NEW ops, At(ops), HasFrame
    PROVE  /\ pc \in DOMAIN counts.heights /\ counts.heights[pc] \in Nat
           /\ CurrentCall.stack_addr = Bottom /\ Bottom \in Nat
           /\ stack.size = Bottom + counts.heights[pc]
           /\ \A b \in Follows(prog, pc) :
                /\ b \in DOMAIN counts.heights /\ counts.heights[b] \in Nat
                /\ counts.heights[b] = counts.heights[pc] - Takes(Instr) + Leaves(counts, Instr, b)
<1>1. /\ pc \in DOMAIN counts.cells \ counts.setup /\ Bottom \in Nat /\ Running
      /\ DOMAIN counts.heights = DOMAIN counts.cells \ counts.setup
  BY Room DEF Knows, Exact, At
<1>2. CurrentCall.stack_addr = Bottom
  BY CurrentFrame DEF Bottom, Base, CurrentCall
<1>3. stack.size = Bottom + counts.heights[pc]
  BY <1>1, <1>2 DEF Knows, Level
<1>4. ASSUME NEW b \in Follows(prog, pc)
      PROVE  /\ b \in DOMAIN counts.heights /\ counts.heights[b] \in Nat
             /\ counts.heights[b] = counts.heights[pc] - Takes(Instr) + Leaves(counts, Instr, b)
  <2>1. b \in DOMAIN counts.heights
    BY <1>1 DEF Knows, Works, Verified
  <2> QED BY <1>1, <2>1 DEF Knows, Exact, Instr
<1> QED BY <1>1, <1>2, <1>3, <1>4 DEF Knows, Exact

\* The frames stay, and the code goes on with the height it should have.
LEMMA SameFramesLevel ==
    ASSUME NEW fs \in SUBSET FunctionObjects,
           NEW h, Typed(fs, h), NEW counts, Knows(counts), NEW ops, At(ops),
           UNCHANGED <<prog, calls, host>>, pc' \in Follows(prog, pc),
           HasFrame => stack'.size = stack.size - Takes(Instr) + Leaves(counts, Instr, pc')
    PROVE  Level(counts)'
<1>11. calls' = calls
  OBVIOUS
<1>12. CASE ~HasFrame
  <2>1. ~HasFrame'
    BY <1>11, <1>12 DEF HasFrame
  <2> QED BY <2>1 DEF Level
<1>1. SUFFICES ASSUME HasFrame PROVE Level(counts)'
  BY <1>12
<1>2. PICK b : b = pc' /\ b \in Follows(prog, pc)
  OBVIOUS
<1>3. PICK given : given = Leaves(counts, Instr, b)
  OBVIOUS
<1>40. Takes(Instr) \in Nat /\ Gives(Instr) \in Nat
  BY Room DEF Knows
<1>4. given \in Nat
  BY <1>3, <1>40 DEF Leaves
<1>5. stack'.size = Bottom + counts.heights[b]
  <2>1. /\ stack.size = Bottom + counts.heights[pc] /\ Bottom \in Nat /\ counts.heights[pc] \in Nat
        /\ counts.heights[b] = counts.heights[pc] - Takes(Instr) + given
    BY <1>1, <1>2, <1>3, HeightRoom
  <2>2. stack'.size = stack.size - Takes(Instr) + given
    BY <1>1, <1>2, <1>3
  <2> QED BY <1>4, <1>40, <2>1, <2>2
<1>6. CurrentCall.stack_addr = Bottom
  BY <1>1, HeightRoom
<1>7. PICK t : t = calls /\ calls' = t
  OBVIOUS
<1>8. \A n \in 2 .. Len(t) :
        LET a == t[n].return_addr
        IN  t[n - 1].stack_addr + counts.heights[a]
              = t[n].stack_addr + IF a \in counts.wanted THEN 1 ELSE 0
  BY <1>1, <1>7 DEF Knows, Level, At
<1>9. stack'.size = t[Len(t)].stack_addr + counts.heights[b]
  BY <1>5, <1>6, <1>7 DEF CurrentCall
<1> QED BY <1>2, <1>7, <1>8, <1>9 DEF Level, CurrentCall

\* The steps that leave their function.
LEMMA OnlyLeaps ==
    ASSUME Execute, exit' = "RUNNING"
    PROVE  /\ At({Instr.op})
           /\ Instr.op \in Leaping =>
                \/ Instr.op = "OP_CALL" /\ Call
                \/ Instr.op = "OP_BEGIN" /\ Begin
                \/ Instr.op = "OP_RETURN_VOID" /\ ReturnVoid
                \/ Instr.op = "OP_RETURN_VALUE" /\ ReturnValue
<1>1. ASSUME NEW ops, At(ops) PROVE At({Instr.op}) /\ Instr.op \in ops
  BY <1>1 DEF At
<1>2. FetchStray \/ HaltOp \/ UnknownOp => FALSE
  BY DEF FetchStray, HaltOp, UnknownOp
<1> DEFINE Stays == At({Instr.op}) /\ Instr.op \notin Leaping
<1>31. PushLiteral => At({"OP_NUMBER", "OP_STRING", "OP_CHAR", "OP_TRUE", "OP_FALSE", "OP_NULL",
                         "OP_FUNCTION"})
  BY Zenon DEF PushLiteral
<1>32. PopOp => At({"OP_POP"})
  BY Zenon DEF PopOp
<1>33. PopNOp => At({"OP_POPN"})
  BY Zenon DEF PopNOp
<1>34. TopOp => At({"OP_TOP"})
  BY Zenon DEF TopOp
<1>3. PushLiteral \/ PopOp \/ PopNOp \/ TopOp => Stays
  BY <1>1, <1>31, <1>32, <1>33, <1>34 DEF Leaping
<1>4. BinaryOp => Stays
  BY <1>1 DEF BinaryOp, Arithmetic, Leaping
<1>5. Step \/ Negate => Stays
  BY <1>1 DEF Step, Negate, Leaping
<1>6. LoadLocal \/ SetLocal \/ LoadUpvalue => Stays
  BY <1>1 DEF LoadLocal, SetLocal, LoadUpvalue, Leaping
<1>7. SetUpvalue => At({"OP_SET_UPVALUE"})
  BY Zenon DEF SetUpvalue
<1>8. CloseUpvalue => At({"OP_CLOSE_UPVALUE"})
  BY Zenon DEF CloseUpvalue
<1>9. MakeClosure => At({"OP_CLOSURE"})
  BY Zenon DEF MakeClosure
<1>10. SetUpvalue \/ CloseUpvalue \/ MakeClosure => Stays
  BY <1>1, <1>7, <1>8, <1>9 DEF Leaping
<1>11. SetGlobal \/ LoadGlobal => Stays
  BY <1>1 DEF SetGlobal, LoadGlobal, Leaping
<1>12. JumpOp \/ JumpFalse => Stays
  BY <1>1 DEF JumpOp, JumpFalse, Leaping
<1>13. Call => Instr.op = "OP_CALL" /\ At({Instr.op})
  BY <1>1 DEF Call
<1>14. Begin => Instr.op = "OP_BEGIN" /\ At({Instr.op})
  BY <1>1 DEF Begin
<1>15. ReturnVoid => Instr.op = "OP_RETURN_VOID" /\ At({Instr.op})
  BY <1>1 DEF ReturnVoid
<1>16. ReturnValue => Instr.op = "OP_RETURN_VALUE" /\ At({Instr.op})
  BY <1>1 DEF ReturnValue
<1> QED BY <1>2, <1>3, <1>4, <1>5, <1>6, <1>10, <1>11, <1>12, <1>13, <1>14, <1>15, <1>16
        DEF Execute

\* A call that makes a frame: the callee's arguments are all that is in it.
Enters(argcount, size) ==
    \E f, base, refs :
        /\ f \in Functions(prog) /\ base \in Nat
        /\ calls' = Append(calls, [return_addr |-> AfterInstr, stack_addr |-> base, closure |-> refs])
        /\ f.argcount = argcount /\ pc' = prog.data + f.ptr
        /\ size = base + argcount /\ stack'.size = size
        /\ UNCHANGED <<prog, up, host>>

\* A call of a native that reports nothing.
Answers(callee, argcount, st) ==
    /\ IsKind(callee, "native")
    /\ NativeResult(callee.object.native, argcount, st).exit = "none"
    /\ stack' = NativeResult(callee.object.native, argcount, st).stack
    /\ pc' = AfterInstr
    /\ UNCHANGED <<prog, calls, up, host>>

LEMMA TryCallEffect ==
    ASSUME NEW fs \in SUBSET FunctionObjects,
           NEW h, Typed(fs, h), NEW ops, At(ops),
           NEW callee \in ValueOf(fs, h), NEW argcount \in Nat, NEW st \in StackOf(ValueOf(fs, h)),
           argcount <= st.size, TryCall(callee, argcount, st, exit), exit' = "RUNNING"
    PROVE  Enters(argcount, st.size) \/ Answers(callee, argcount, st)
<1>1. exit = "RUNNING"
  BY DEF At, Running
<1>2. ASSUME NEW f \in fs, NEW refs, Enter(f, refs, argcount, st, exit)
      PROVE  Enters(argcount, st.size)
  <2>1. f.argcount = argcount /\ f \in Functions(prog)
    BY <1>2 DEF Enter, CallError, Typed
  <2>2. st.size \in Nat /\ st.size <= MaxSize
    BY StackShape
  <2>3. PICK base \in Nat : base = st.size - argcount
    BY <2>2
  <2>4. FrameStart(f, st) = base
    <3>1. base < MaxSize + U8
      BY <2>2, <2>3, VMAssumption, MaxSizeAssumption
    <3> QED BY <2>1, <2>3, <3>1, Unwrapped DEF FrameStart
  <2>5. st.size = base + argcount
    BY <2>2, <2>3
  <2> QED BY <1>2, <2>1, <2>4, <2>5 DEF Enters, Enter
<1>3. ASSUME NEW f \in fs PROVE ~CallFails(f, argcount, st)
  BY DEF CallFails, RuntimeError, CallError
<1>4. ~Undefined
  BY DEF Undefined
<1>5. CASE IsKind(callee, "function") /\ CallFunction(callee.object, argcount, st, exit)
  BY <1>2, <1>3, <1>5, KnownKinds DEF CallFunction
<1>6. CASE IsKind(callee, "closure") /\ CallClosure(callee.object, argcount, st, exit)
  <2>1. PICK f \in fs : f = callee.object.function
    BY <1>6, KnownKinds
  <2>2. PICK refs : refs = callee.object.upvalues
    OBVIOUS
  <2>3. Undefined \/ CallFails(f, argcount, st) \/ Enter(f, refs, argcount, st, exit)
    BY <1>6, <2>1, <2>2, Zenon DEF CallClosure
  <2> QED BY <1>2, <1>3, <1>4, <2>3
<1>7. CASE IsKind(callee, "native") /\ CallNative(callee.object.native, argcount, st, exit)
  <2>1. PICK result : result = NativeResult(callee.object.native, argcount, st)
    OBVIOUS
  <2>2. /\ stack' = result.stack /\ pc' = AfterInstr /\ UNCHANGED <<prog, calls, up, host>>
        /\ exit' = IF result.exit = "none" THEN exit ELSE result.exit
    BY <1>4, <1>7, <2>1 DEF CallNative
  <2>3. callee.object.native \in StandardNatives \cup HostNatives
    BY <1>7, KnownKinds
  <2>4. result \in Returned(fs, h)
    BY <2>1, <2>3, NativeResultTyped
  <2>5. result.exit = "none"
    BY <2>2, <2>4 DEF Returned
  <2> QED BY <1>7, <2>1, <2>2, <2>5 DEF Answers
<1>8. ~RuntimeError(st, "EXIT_INCORRECT_TYPE")
  BY DEF RuntimeError
<1> QED BY <1>4, <1>5, <1>6, <1>7, <1>8, Zenon DEF TryCall

\* A new frame has the height of its function, and the code it returns to will
\* find its own when the call has left what it should.
LEMMA EnterLevel ==
    ASSUME NEW fs \in SUBSET FunctionObjects,
           NEW h, Typed(fs, h), NEW counts, Knows(counts), NEW ops, At(ops),
           NEW argcount \in Nat, NEW size \in Nat, Enters(argcount, size),
           HasFrame => Instr.op = "OP_CALL" /\ argcount = Instr.argcount /\ size = stack.size - 1
    PROVE  Level(counts)'
<1>1. PICK f, base, refs :
          /\ f \in Functions(prog) /\ base \in Nat
          /\ calls' = Append(calls, [return_addr |-> AfterInstr, stack_addr |-> base, closure |-> refs])
          /\ f.argcount = argcount /\ pc' = prog.data + f.ptr
          /\ size = base + argcount /\ stack'.size = size
  BY DEF Enters
<1>2. PICK frame : frame = [return_addr |-> AfterInstr, stack_addr |-> base, closure |-> refs]
  OBVIOUS
<1>3. PICK t : t = calls' /\ t = Append(calls, frame)
  BY <1>1, <1>2
<1>4. calls \in Seq(Frames(h)) /\ Len(calls) \in Nat
  BY DEF Typed, CallsOK
<1>5. /\ Len(t) = Len(calls) + 1 /\ t[Len(calls) + 1] = frame
      /\ \A k \in 1 .. Len(calls) : t[k] = calls[k]
  BY <1>3, <1>4
<1>6. frame.return_addr = AfterInstr /\ frame.stack_addr = base
  BY <1>2
<1>7. counts.heights[prog.data + f.ptr] = argcount
  BY <1>1 DEF Knows, Exact
<1>8. stack'.size = t[Len(t)].stack_addr + counts.heights[pc']
  BY <1>1, <1>5, <1>6, <1>7
<1>9. ASSUME NEW n \in 2 .. Len(t)
      PROVE  t[n - 1].stack_addr + counts.heights[t[n].return_addr]
               = t[n].stack_addr + IF t[n].return_addr \in counts.wanted THEN 1 ELSE 0
  <2>1. HasFrame
    BY <1>4, <1>5 DEF HasFrame
  <2>2. CASE n \in 2 .. Len(calls)
    <3>1. n \in 1 .. Len(calls) /\ n - 1 \in 1 .. Len(calls)
      BY <1>4, <2>2
    <3>2. t[n] = calls[n] /\ t[n - 1] = calls[n - 1]
      BY <1>5, <3>1
    <3> QED BY <2>1, <2>2, <3>2 DEF Knows, Level, At
  <2>3. CASE n = Len(calls) + 1
    <3>1. t[n] = frame
      BY <1>5, <2>3
    <3>2. Len(calls) \in 1 .. Len(calls) /\ n - 1 = Len(calls)
      BY <1>4, <2>1, <2>3 DEF HasFrame
    <3>3. t[n - 1].stack_addr = Bottom
      <4>1. t[n - 1] = CurrentCall
        BY <1>5, <3>2 DEF CurrentCall
      <4> QED BY <2>1, <4>1, HeightRoom
    <3>4. Instr.op = "OP_CALL" /\ argcount = Instr.argcount /\ size = stack.size - 1
      BY <2>1
    <3>5. Takes(Instr) = argcount + 1
      BY <3>4 DEF Takes, Arithmetic
    <3>6. PICK next : next = AfterInstr /\ next \in Follows(prog, pc)
      BY <3>4, NextFollows DEF Sequential, KnownOps, WithPtr, WithByte
    <3>7. PICK given \in Nat : given = IF next \in counts.wanted THEN 1 ELSE 0
      OBVIOUS
    <3>8. given = Leaves(counts, Instr, next)
      BY <3>4, <3>7 DEF Leaves
    <3>9. /\ stack.size = Bottom + counts.heights[pc] /\ Bottom \in Nat /\ counts.heights[pc] \in Nat
          /\ counts.heights[next] = counts.heights[pc] - Takes(Instr) + given
      BY <2>1, <3>6, <3>8, HeightRoom
    <3>10. Bottom + counts.heights[next] = base + given
      <4>1. PICK low \in Nat, high \in Nat : low = Bottom /\ high = counts.heights[pc]
        BY <3>9
      <4>2. /\ stack.size = low + high /\ counts.heights[next] = high - (argcount + 1) + given
            /\ base + argcount = stack.size - 1
        BY <1>1, <3>4, <3>5, <3>9, <4>1
      <4>3. PICK after : after = counts.heights[next]
        OBVIOUS
      <4>4. low + after = base + given
        <5>1. after = high - (argcount + 1) + given /\ base + argcount = low + high - 1
          BY <4>2, <4>3
        <5>2. base \in Nat /\ low \in Nat /\ high \in Nat /\ given \in Nat
          BY <1>1, <3>7, <4>1
        <5> QED BY <5>1, <5>2
      <4> QED BY <4>1, <4>3, <4>4
    <3> QED BY <1>6, <3>1, <3>3, <3>6, <3>7, <3>10
  <2> QED BY <1>4, <1>5, <2>2, <2>3
<1> QED BY <1>3, <1>8, <1>9 DEF Level, CurrentCall

\* A return leaves the frame of the caller as high as its code says.
LEMMA ReturnLevel ==
    ASSUME NEW fs \in SUBSET FunctionObjects,
           NEW h, Typed(fs, h), NEW counts, Knows(counts), NEW ops, At(ops), HasFrame,
           calls' = Front(calls), pc' = CurrentCall.return_addr,
           Len(calls) > 1 =>
             stack'.size = Bottom + IF CurrentCall.return_addr \in counts.wanted THEN 1 ELSE 0
    PROVE  Level(counts)'
<1>1. PICK n \in Nat \ {0} : n = Len(calls)
  BY CurrentFrame
<1>2. PICK t : t = Front(calls) /\ t = calls'
  OBVIOUS
<1>3. calls \in Seq(Frames(h))
  BY DEF Typed, CallsOK
<1>4. Len(t) = n - 1 /\ \A k \in 1 .. n - 1 : t[k] = calls[k]
  BY <1>1, <1>2, <1>3 DEF Front
<1>5. PICK a : a = CurrentCall.return_addr
  OBVIOUS
<1>6. SUFFICES ASSUME t # <<>> PROVE Level(counts)'
  BY <1>2 DEF Level, HasFrame
<1>7. n > 1
  <2>1. t \in Seq(Frames(h))
    <3>1. \A i \in 1 .. n - 1 : calls[i] \in Frames(h)
      BY <1>1, <1>3, ElementOfSeq
    <3>2. t = SubSeq(calls, 1, n - 1) /\ n - 1 \in Nat
      BY <1>1, <1>2 DEF Front
    <3> QED BY <3>1, <3>2, SubSeqProperties
  <2>2. Len(t) # 0
    BY <1>6, <2>1, EmptySeq
  <2> QED BY <1>1, <1>4, <2>2
<1>8. ASSUME NEW k \in 2 .. n
      PROVE  calls[k - 1].stack_addr + counts.heights[calls[k].return_addr]
               = calls[k].stack_addr + IF calls[k].return_addr \in counts.wanted THEN 1 ELSE 0
  BY <1>1 DEF Knows, Level, At
<1>9. stack'.size = t[Len(t)].stack_addr + counts.heights[a]
  <2>1. t[Len(t)] = calls[n - 1]
    BY <1>1, <1>4, <1>7
  <2>2. calls[n - 1].stack_addr + counts.heights[a]
          = Bottom + IF a \in counts.wanted THEN 1 ELSE 0
    <3>1. n \in 2 .. n /\ calls[n] = CurrentCall /\ CurrentCall.stack_addr = Bottom
      <4>1. n \in 2 .. n
        BY <1>1, <1>7
      <4>2. calls[n] = CurrentCall
        BY <1>1 DEF CurrentCall
      <4> QED BY <4>1, <4>2, HeightRoom
    <3> QED BY <1>5, <1>8, <3>1
  <2> QED BY <1>1, <1>5, <1>7, <2>1, <2>2
<1>10. ASSUME NEW k \in 2 .. Len(t)
       PROVE  t[k - 1].stack_addr + counts.heights[t[k].return_addr]
                = t[k].stack_addr + IF t[k].return_addr \in counts.wanted THEN 1 ELSE 0
  <2>1. k \in 2 .. n /\ k \in 1 .. n - 1 /\ k - 1 \in 1 .. n - 1
    BY <1>1, <1>4
  <2>2. t[k] = calls[k] /\ t[k - 1] = calls[k - 1]
    BY <1>4, <2>1
  <2> QED BY <1>8, <2>1, <2>2
<1> QED BY <1>2, <1>5, <1>9, <1>10 DEF Level, CurrentCall

\* What a call does that does not end the run.
LEMMA CallEffect ==
    ASSUME NEW fs \in SUBSET FunctionObjects,
           NEW h, Typed(fs, h), NEW counts, Knows(counts), Call, exit' = "RUNNING"
    PROVE  \/ Enters(Instr.argcount, stack.size - 1) /\ Instr.argcount \in Nat /\ stack.size - 1 \in Nat
           \/ /\ pc' \in Follows(prog, pc) /\ UNCHANGED <<prog, calls, up, host>>
              /\ HasFrame => stack'.size = stack.size - Takes(Instr) + Leaves(counts, Instr, pc')
<1>1. At({"OP_CALL"}) /\ Instr.op = "OP_CALL"
  BY DEF Call, At
<1>2. PICK argcount \in Nat : argcount = Instr.argcount
  BY <1>1, Fetched, Operands
<1>3. Takes(Instr) = argcount + 1 /\ Instr.op \in Sequential
  BY <1>1, <1>2 DEF Takes, Arithmetic, Sequential, KnownOps, WithPtr, WithByte
<1>4. /\ stack.size \in Nat /\ Takes(Instr) <= stack.size /\ stack \in StackOf(ValueOf(fs, h))
  <2>1. /\ stack.size \in Nat /\ Bottom \in Nat /\ Takes(Instr) \in Nat
        /\ Bottom + Takes(Instr) <= stack.size /\ stack \in StackOf(ValueOf(fs, h))
    BY <1>1, Room DEF Knows
  <2> QED BY <2>1
<1>5. CanPop(stack) /\ ~StackEmpty
  BY <1>2, <1>3, <1>4 DEF StackEmpty, CanPop
<1>6. PICK st, callee : st = Pop(stack) /\ callee = Peek(stack)
  OBVIOUS
<1>7. st \in StackOf(ValueOf(fs, h)) /\ st.size = stack.size - 1 /\ callee \in ValueOf(fs, h)
  BY <1>4, <1>5, <1>6, PopTyped, PopEffect
<1>8. TryCall(callee, argcount, st, exit) /\ argcount <= st.size
  BY <1>2, <1>3, <1>4, <1>5, <1>6, <1>7 DEF Call
<1>9. Enters(argcount, st.size) \/ Answers(callee, argcount, st)
  BY <1>1, <1>2, <1>7, <1>8, TryCallEffect
<1>10. CASE Enters(argcount, st.size)
  BY <1>2, <1>4, <1>5, <1>7, <1>10 DEF CanPop
<1>11. CASE Answers(callee, argcount, st)
  <2>1. pc' \in Follows(prog, pc)
    BY <1>3, <1>11, NextFollows DEF Answers
  <2>2. ASSUME HasFrame
        PROVE  stack'.size = stack.size - Takes(Instr) + Leaves(counts, Instr, pc')
    <3>1. PICK result : result = NativeResult(callee.object.native, argcount, st)
      OBVIOUS
    <3>2. result.exit = "none" /\ stack' = result.stack /\ pc' = AfterInstr /\ IsKind(callee, "native")
      BY <1>11, <3>1 DEF Answers
    <3> QED BY <1>1, <1>2, <1>5, <1>6, <2>2, <3>1, <3>2 DEF Knows, Mismatches
  <2> QED BY <1>11, <2>1, <2>2 DEF Answers
<1> QED BY <1>9, <1>10, <1>11

\* OP_BEGIN runs in the setup: either the function of the host starts, or it
\* was a native and the program is at its end.
LEMMA BeginEffect ==
    ASSUME NEW fs \in SUBSET FunctionObjects,
           NEW h, Typed(fs, h), NEW counts, Knows(counts), Begin, exit' = "RUNNING"
    PROVE  /\ ~HasFrame
           /\ \/ \E argcount \in Nat, size \in Nat : Enters(argcount, size)
              \/ UNCHANGED <<prog, calls, up, host>>
<1>1. At({"OP_BEGIN"}) /\ Instr.op = "OP_BEGIN"
  BY DEF Begin, At
<1>2. /\ stack \in StackOf(ValueOf(fs, h)) /\ stack.size \in Nat /\ host.args \in 0 .. MaxSize
      /\ pc \in DOMAIN counts.cells /\ (pc \in counts.setup <=> ~HasFrame)
      /\ Bottom \in 0 .. stack.size
  BY <1>1, Room DEF Knows
<1>3. ~HasFrame
  BY <1>1, <1>2 DEF Knows, Works, Verified, Instr
<1>4. CanPush(stack) /\ Defined(host.function)
  BY <1>1 DEF Knows, Works, LosesValue, At
<1>5. PICK st : st = StackWithGlobal(host.function)
  OBVIOUS
<1>6. st \in StackOf(ValueOf(fs, h)) /\ st.size = stack.size + 1
  BY <1>2, <1>4, <1>5, GlobalTyped, PushEffect DEF StackWithGlobal
<1>7. CanPop(st) /\ Peek(st) \in ValueOf(fs, h) /\ Pop(st) \in StackOf(ValueOf(fs, h))
      /\ Pop(st).size = stack.size
  <2>1. CanPop(st)
    BY <1>2, <1>6 DEF CanPop
  <2> QED BY <1>2, <1>6, <2>1, PopTyped, PopEffect
<1>8. PICK argcount \in Nat : argcount = host.args % U8 /\ argcount <= stack.size
  <2>1. Bottom = host.args
    BY <1>3 DEF Bottom, Base, HasFrame
  <2>2. host.args \in Nat /\ host.args <= stack.size /\ U8 \in Nat \ {0}
    BY <1>2, <2>1, MaxSizeAssumption, VMAssumption
  <2>3. host.args % U8 \in Nat /\ host.args % U8 <= host.args
    BY <2>2
  <2> QED BY <1>2, <2>2, <2>3
<1>9. PICK callee, rest : callee = Peek(st) /\ rest = Pop(st)
  OBVIOUS
<1>10. TryCall(callee, argcount, rest, exit) /\ argcount <= rest.size
  BY <1>4, <1>5, <1>7, <1>8, <1>9 DEF Begin, ExitOfGlobal
<1>11. Enters(argcount, rest.size) \/ Answers(callee, argcount, rest)
  BY <1>1, <1>7, <1>9, <1>10, TryCallEffect
<1> QED BY <1>2, <1>3, <1>7, <1>9, <1>11 DEF Answers

\* What a return does: it leaves the frame, with the value that the caller
\* wants.
Returns(counts) ==
    /\ HasFrame
    /\ calls' = Front(calls) /\ pc' = CurrentCall.return_addr /\ UNCHANGED <<prog, host>>
    /\ Len(calls) > 1 =>
         stack'.size = Bottom + IF CurrentCall.return_addr \in counts.wanted THEN 1 ELSE 0
    /\ stack'.size >= Bottom /\ stack'.size \in Nat

LEMMA ReturnVoidEffect ==
    ASSUME NEW fs \in SUBSET FunctionObjects,
           NEW h, Typed(fs, h), NEW counts, Knows(counts), ReturnVoid, exit' = "RUNNING"
    PROVE  Returns(counts)
<1>1. At({"OP_RETURN_VOID"}) /\ Instr.op = "OP_RETURN_VOID" /\ ~Undefined
  BY DEF ReturnVoid, At, Undefined
<1>2. HasFrame /\ CanClose(FrameBase) /\ LeaveFrame(FrameBase) /\ stack' = Return(stack)
  BY <1>1 DEF ReturnVoid
<1>3. /\ stack \in StackOf(ValueOf(fs, h)) /\ Bottom \in Nat /\ Bottom \in 0 .. stack.size
      /\ stack.size \in Nat
  BY <1>1, Room DEF Knows
<1>4. Bottom = CurrentCall.stack_addr
  BY <1>2, CurrentFrame DEF Bottom, Base, CurrentCall
<1>5. Bottom <= stack.size
  BY <1>3
<1>6. stack'.size = Bottom
  BY <1>2, <1>3, <1>4, <1>5, SeekEffect DEF Return
<1>7. Len(calls) > 1 => CurrentCall.return_addr \notin counts.wanted
  BY <1>1, <1>2 DEF Knows, Mismatches, At
<1>8. Len(calls) > 1 =>
        stack'.size = Bottom + IF CurrentCall.return_addr \in counts.wanted THEN 1 ELSE 0
  BY <1>3, <1>6, <1>7
<1>9. stack'.size >= Bottom /\ stack'.size \in Nat
  BY <1>3, <1>6
<1> QED BY <1>2, <1>8, <1>9 DEF Returns, LeaveFrame

LEMMA ReturnValueEffect ==
    ASSUME NEW fs \in SUBSET FunctionObjects,
           NEW h, Typed(fs, h), NEW counts, Knows(counts), ReturnValue, exit' = "RUNNING"
    PROVE  Returns(counts)
<1> DEFINE last == Get(Pop(stack), CurrentCall.stack_addr)
           st   == Return(Pop(stack))
<1>1. At({"OP_RETURN_VALUE"}) /\ Instr.op = "OP_RETURN_VALUE" /\ ~Undefined
  BY DEF ReturnValue, At, Undefined
<1>2. Takes(Instr) = 1
  BY <1>1 DEF Takes, Arithmetic
<1>3. Bottom \in Nat /\ stack.size \in Nat /\ stack \in StackOf(ValueOf(fs, h)) /\ Works(counts)
  BY <1>1, Room DEF Knows
<1>4. /\ CanPop(stack) /\ ~StackEmpty /\ Pop(stack) \in StackOf(ValueOf(fs, h))
      /\ Bottom \in 0 .. Pop(stack).size
  BY <1>1, <1>2, <1>3, FindsOperand
<1>5. /\ HasFrame /\ CanClose(last) /\ LeaveFrame(last)
      /\ IF Len(calls) > 1 THEN PushOrHalt(st, Peek(stack)) ELSE stack' = st
  BY <1>1, <1>4 DEF ReturnValue
<1>6. Bottom = CurrentCall.stack_addr
  BY <1>5, CurrentFrame DEF Bottom, Base, CurrentCall
<1>7. Bottom <= Pop(stack).size
  BY <1>3, <1>4, StackShape
<1>8. st \in StackOf(ValueOf(fs, h)) /\ st.size = Bottom
  BY <1>3, <1>4, <1>6, <1>7, SeekTyped, SeekEffect DEF Return
<1> HIDE DEF st
<1>9. CASE Len(calls) > 1
  <2>1. Bottom \in 0 .. st.size
    BY <1>3, <1>8
  <2>2. exit = "RUNNING"
    BY <1>1 DEF At, Running
  <2>3. stack'.size = Bottom + 1
    BY <1>5, <1>8, <1>9, <2>1, <2>2, PushOrHaltGoesOn
  <2>4. CurrentCall.return_addr \in counts.wanted
    BY <1>1, <1>5, <1>9 DEF Knows, Mismatches, At
  <2>5. stack'.size >= Bottom /\ stack'.size \in Nat
    BY <1>3, <2>3
  <2> QED BY <1>5, <2>3, <2>4, <2>5 DEF Returns, LeaveFrame
<1>10. CASE ~(Len(calls) > 1)
  <2>1. stack'.size = Bottom /\ stack'.size >= Bottom
    BY <1>3, <1>5, <1>8, <1>10
  <2> QED BY <1>3, <1>5, <1>10, <2>1 DEF Returns, LeaveFrame
<1> QED BY <1>9, <1>10

\* An instruction that stays in its function leaves what the counts say.
LEMMA GoesAheadLevel ==
    ASSUME NEW fs \in SUBSET FunctionObjects,
           NEW h, Typed(fs, h), NEW counts, Knows(counts), NEW ops, At(ops),
           Instr.op \notin Leaping, GoesAhead
    PROVE  Level(counts)'
<1>1. Leaves(counts, Instr, pc') = Gives(Instr)
  BY DEF Leaves, Leaping
<1> QED BY <1>1, SameFramesLevel DEF GoesAhead

LEMMA ExecuteLevel ==
    ASSUME NEW fs \in SUBSET FunctionObjects,
           NEW h \in Nat, Typed(fs, h), NEW counts, Knows(counts), Execute
    PROVE  Level(counts)'
<1>1. SUFFICES ASSUME exit' = "RUNNING" PROVE Level(counts)'
  BY DEF Level, Running
<1>2. At({Instr.op})
  BY <1>1, OnlyLeaps
<1>3. CASE Instr.op \notin Leaping
  <2>1. Works(counts)
    BY DEF Knows
  <2>2. Sequel(counts)
    BY <2>1, ExecuteSequel
  <2> QED BY <1>1, <1>2, <1>3, <2>2, GoesAheadLevel DEF Sequel
<1>4. CASE Call
  <2>1. Instr.op = "OP_CALL"
    BY <1>4 DEF Call, At
  <2>2. CASE Enters(Instr.argcount, stack.size - 1) /\ Instr.argcount \in Nat /\ stack.size - 1 \in Nat
    <3>1. PICK argcount \in Nat, size \in Nat : argcount = Instr.argcount /\ size = stack.size - 1
      BY <2>2
    <3> QED BY <1>2, <2>1, <2>2, <3>1, EnterLevel
  <2>3. CASE /\ pc' \in Follows(prog, pc) /\ UNCHANGED <<prog, calls, up, host>>
             /\ HasFrame => stack'.size = stack.size - Takes(Instr) + Leaves(counts, Instr, pc')
    BY <1>2, <2>3, SameFramesLevel
  <2> QED BY <1>1, <1>4, <2>2, <2>3, CallEffect
<1>5. CASE Begin
  <2>1. ~HasFrame
    BY <1>1, <1>5, BeginEffect
  <2>2. CASE \E argcount \in Nat, size \in Nat : Enters(argcount, size)
    BY <1>2, <2>1, <2>2, EnterLevel
  <2>3. CASE calls' = calls
    BY <2>1, <2>3 DEF Level, HasFrame
  <2> QED BY <1>1, <1>5, <2>2, <2>3, BeginEffect
<1>6. CASE ReturnVoid \/ ReturnValue
  <2>1. Returns(counts)
    BY <1>1, <1>6, ReturnVoidEffect, ReturnValueEffect
  <2> QED BY <1>2, <2>1, ReturnLevel DEF Returns
<1> QED BY <1>1, <1>3, <1>4, <1>5, <1>6, OnlyLeaps

\* The host starts a run in the setup, which has no frame.
LEMMA HostLevel ==
    ASSUME NEW fs \in SUBSET FunctionObjects,
           NEW h \in Nat, Typed(fs, h), NEW counts, Knows(counts),
           FinishRun \/ HostCall \/ UNCHANGED vars
    PROVE  Level(counts)'
<1>1. CASE FinishRun
  BY <1>1 DEF FinishRun, Level, Running
<1>2. CASE UNCHANGED vars
  BY <1>2 DEF vars, Knows, Level, Running, HasFrame, CurrentCall
<1>3. CASE HostCall
  <2>1. host = Idle /\ (exit' = "RUNNING" => exit = "RUNNING") /\ calls' = calls
    BY <1>3 DEF HostCall, AddNative, HostPush, HostPop, RunFunction
  <2>2. exit' = "RUNNING" => calls' = <<>>
    BY <2>1 DEF Knows, Works, Balanced
  <2> QED BY <2>2 DEF Level, Running, HasFrame
<1> QED BY <1>1, <1>2, <1>3

LEMMA LevelStep ==
    ASSUME Inv, NEW counts, Knows(counts), [Next]_vars
    PROVE  Level(counts)'
<1>1. PICK fs \in SUBSET FunctionObjects, h \in Nat : Typed(fs, h)
  BY InvParts
<1>2. CASE Execute
  BY <1>1, <1>2, ExecuteLevel
<1>3. CASE FinishRun \/ HostCall \/ UNCHANGED vars
  BY <1>1, <1>3, HostLevel
<1> QED BY <1>2, <1>3 DEF Next

LevelNow == Level(prog.counts)

LEMMA AlwaysLevel == Spec /\ []AccountedExactly => [](BalancedNow /\ LevelNow)
<1>1. Init => LevelNow
  BY DEF Init, InitMachine, LevelNow, Level, HasFrame
<1>2. Inv /\ BalancedNow /\ AccountedExactly /\ LevelNow /\ [Next]_vars => LevelNow'
  <2>1. SUFFICES ASSUME Inv, BalancedNow, AccountedExactly, LevelNow, [Next]_vars PROVE LevelNow'
    OBVIOUS
  <2>2. PICK counts : counts = prog.counts /\ counts = prog'.counts
    BY <2>1, ProgramIsFixed
  <2>3. Knows(counts)
    BY <2>1, <2>2 DEF Knows, Works, AccountedExactly, Accounted, BalancedNow, LevelNow
  <2>4. Level(counts)'
    BY <2>1, <2>3, LevelStep
  <2> QED BY <2>2, <2>4 DEF LevelNow, Level
<1>3. AccountedExactly => Accounted
  BY DEF AccountedExactly
<1> QED BY <1>1, <1>2, <1>3, AlwaysInv, AlwaysBalanced, PTL DEF Spec

\* StackDiscipline of module Balance: wherever a statement begins or a block
\* ends, the frame that runs holds the locals that are in scope there, and
\* nothing else.
THEOREM MachineStackDiscipline == Spec /\ []AccountedExactly => []StackDiscipline
<1>1. Inv /\ BalancedNow /\ LevelNow /\ AccountedExactly => StackDiscipline
  <2>1. SUFFICES ASSUME Inv, BalancedNow, LevelNow, AccountedExactly, Running, HasFrame,
                        NEW mark \in prog.marks, prog.data + mark.at = pc
                 PROVE  stack.size - CurrentCall.stack_addr = mark.locals
    BY DEF StackDiscipline
  <2>2. PICK fs \in SUBSET FunctionObjects, h \in Nat : Typed(fs, h)
    BY <2>1, InvParts
  <2>3. PICK counts : counts = prog.counts
    OBVIOUS
  <2>4. Knows(counts)
    BY <2>1, <2>3 DEF Knows, Works, AccountedExactly, Accounted, BalancedNow, LevelNow
  <2>5. Covered(counts, pc, calls, host.args, stack.size)
    BY <2>1, <2>4 DEF Knows, Works, Balanced, Running, HasFrame
  <2>6. pc \in DOMAIN counts.heights /\ counts.heights[pc] \in Nat
    BY <2>1, <2>4, <2>5 DEF Covered, Knows, Exact, HasFrame
  <2>7. counts.heights[pc] = mark.locals
    BY <2>1, <2>4, <2>6 DEF Knows, Exact
  <2>8. stack.size = CurrentCall.stack_addr + counts.heights[pc]
    BY <2>1, <2>4 DEF Knows, Level
  <2>9. PICK base \in Nat : base = CurrentCall.stack_addr
    BY <2>1, <2>2, CurrentFrame DEF CurrentCall
  <2> QED BY <2>6, <2>7, <2>8, <2>9
<1> QED BY <1>1, AlwaysInv, AlwaysLevel, PTL

------------------------------------------------------------------------------
(***************************************************************************)
(* Where a run ends.  The code of the setup never leads into a function,   *)
(* nor the other way round, except by calls and returns: so the first end  *)
(* that the machine can come to is the one behind OP_BEGIN.                *)
(***************************************************************************)
\* A run is at OP_BEGIN's end only when it has found the function of the host.
Ended == pc = TotalSize(prog) /\ Defined(host.function)

\* Where the machine may be, and where its frames return to.
Directed(counts) ==
    LET inFunctions == DOMAIN counts.cells \ counts.setup
    IN  /\ exit = "RUNNING" =>
             IF host = Idle
               THEN pc = prog.data + prog.start /\ calls = <<>>
               ELSE /\ IF calls = <<>> THEN pc \in counts.setup \/ Ended ELSE pc \in inFunctions
                    /\ \A n \in 1 .. Len(calls) :
                         LET a == calls[n].return_addr
                         IN  IF n = 1 THEN \/ a \in counts.setup
                                           \/ a = TotalSize(prog) /\ Defined(host.function)
                                      ELSE a \in inFunctions
        /\ UnknownFunctionFails

\* A call that goes on, or ends the run with success, does so with the exit it
\* was made with: an error that is already set stays, or another is reported.
LEMMA TryCallReports ==
    ASSUME NEW fs \in SUBSET FunctionObjects,
           NEW h, Typed(fs, h), NEW callee \in ValueOf(fs, h), NEW argcount,
           NEW st \in StackOf(ValueOf(fs, h)), NEW ex, TryCall(callee, argcount, st, ex)
    PROVE  exit' \in {"RUNNING", "EXIT_OK"} => exit' = ex
<1> DEFINE Reports == exit' \in {"RUNNING", "EXIT_OK"} => exit' = ex
<1>1. ASSUME NEW function, NEW refs, Enter(function, refs, argcount, st, ex)
      PROVE  Reports
  BY <1>1 DEF Enter
<1>2. ASSUME NEW function, CallFails(function, argcount, st)
      PROVE  Reports
  BY <1>2 DEF CallFails, RuntimeError, CallError
<1>3. Undefined => Reports
  BY DEF Undefined
<1>4. CASE IsKind(callee, "function") /\ CallFunction(callee.object, argcount, st, ex)
  BY <1>1, <1>2, <1>4 DEF CallFunction
<1>5. CASE IsKind(callee, "closure") /\ CallClosure(callee.object, argcount, st, ex)
  BY <1>1, <1>2, <1>3, <1>5, Zenon DEF CallClosure
<1>6. CASE IsKind(callee, "native") /\ CallNative(callee.object.native, argcount, st, ex)
  <2>1. PICK result \in Returned(fs, h) : result = NativeResult(callee.object.native, argcount, st)
    BY <1>6, KnownKinds, NativeResultTyped
  <2>2. \/ Undefined
        \/ exit' = IF result.exit = "none" THEN ex ELSE result.exit
    BY <1>6, <2>1 DEF CallNative
  <2> QED BY <1>3, <2>2 DEF Returned
<1>7. RuntimeError(st, "EXIT_INCORRECT_TYPE") => Reports
  BY DEF RuntimeError
<1> QED BY <1>3, <1>4, <1>5, <1>6, <1>7, Zenon DEF TryCall

\* A call that goes on in a function of the program, to return behind the call.
GoesInto ==
    \E f, frame :
        /\ f \in Functions(prog) /\ frame.return_addr = AfterInstr
        /\ calls' = Append(calls, frame) /\ pc' = prog.data + f.ptr
        /\ UNCHANGED <<prog, globals, host>>

GoesPast == pc' = AfterInstr /\ UNCHANGED <<prog, calls, globals, host>>

LEMMA TryCallGoes ==
    ASSUME NEW fs \in SUBSET FunctionObjects,
           NEW h, Typed(fs, h), NEW callee \in ValueOf(fs, h), NEW argcount,
           NEW st \in StackOf(ValueOf(fs, h)), NEW ex, TryCall(callee, argcount, st, ex),
           exit' = "RUNNING"
    PROVE  GoesInto \/ GoesPast
<1>1. ASSUME NEW f \in fs, NEW refs, Enter(f, refs, argcount, st, ex)
      PROVE  GoesInto
  <2>1. PICK frame : frame = [return_addr |-> AfterInstr, stack_addr |-> FrameStart(f, st),
                              closure |-> refs]
    OBVIOUS
  <2>2. f \in Functions(prog) /\ frame.return_addr = AfterInstr
    BY <2>1 DEF Typed
  <2> QED BY <1>1, <2>1, <2>2 DEF Enter, GoesInto
<1>2. ASSUME NEW f PROVE ~CallFails(f, argcount, st)
  BY DEF CallFails, RuntimeError, CallError
<1>3. ~Undefined
  BY DEF Undefined
<1>4. CASE IsKind(callee, "function") /\ CallFunction(callee.object, argcount, st, ex)
  BY <1>1, <1>2, <1>4, KnownKinds DEF CallFunction
<1>5. CASE IsKind(callee, "closure") /\ CallClosure(callee.object, argcount, st, ex)
  <2>1. PICK f \in fs : f = callee.object.function
    BY <1>5, KnownKinds
  <2>2. PICK refs : refs = callee.object.upvalues
    OBVIOUS
  <2>3. Undefined \/ CallFails(f, argcount, st) \/ Enter(f, refs, argcount, st, ex)
    BY <1>5, <2>1, <2>2, Zenon DEF CallClosure
  <2> QED BY <1>1, <1>2, <1>3, <2>3
<1>6. CASE IsKind(callee, "native") /\ CallNative(callee.object.native, argcount, st, ex)
  BY <1>3, <1>6 DEF CallNative, GoesPast
<1>7. ~RuntimeError(st, "EXIT_INCORRECT_TYPE")
  BY DEF RuntimeError
<1> QED BY <1>3, <1>4, <1>5, <1>6, <1>7, Zenon DEF TryCall

\* Where the machine goes after an instruction that stays in its function.
LEMMA FollowsAhead ==
    ASSUME Execute, exit' = "RUNNING", Instr.op \notin Leaping
    PROVE  pc' \in Follows(prog, pc) /\ UNCHANGED <<prog, calls, host>>
<1> DEFINE Ahead == pc' = AfterInstr /\ UNCHANGED <<prog, calls, host>>
<1>1. ~FetchStray /\ ~HaltOp /\ ~UnknownOp /\ ~Undefined
  BY DEF FetchStray, HaltOp, UnknownOp, Undefined
<1>2. ~Call /\ ~Begin /\ ~ReturnVoid /\ ~ReturnValue
  BY DEF Call, Begin, ReturnVoid, ReturnValue, At, Leaping
<1>3. PushLiteral \/ PopOp \/ PopNOp \/ TopOp \/ SetGlobal \/ LoadGlobal => Ahead
  BY DEF PushLiteral, PopOp, PopNOp, TopOp, SetGlobal, LoadGlobal
<1>4. BinaryOp \/ Step \/ Negate => Ahead
  BY <1>1 DEF BinaryOp, Step, Negate
<1>5. LoadLocal \/ SetLocal \/ LoadUpvalue => Ahead
  BY <1>1 DEF LoadLocal, SetLocal, LoadUpvalue
<1>6. SetUpvalue => Ahead
  BY <1>1, Zenon DEF SetUpvalue
<1>7. CloseUpvalue => Ahead
  BY <1>1, Zenon DEF CloseUpvalue
<1>8. MakeClosure => Ahead
  BY <1>1, Zenon DEF MakeClosure
<1>9. JumpOp => pc' = AfterInstr + Instr.offset /\ Instr.op = "OP_JMP" /\ UNCHANGED <<prog, calls, host>>
  BY DEF JumpOp, Jump, At
<1>10. JumpFalse => /\ pc' = AfterInstr + Instr.offset \/ pc' = AfterInstr
                    /\ Instr.op = "OP_JMP_FALSE" /\ UNCHANGED <<prog, calls, host>>
  BY <1>1 DEF JumpFalse, Jump, At
<1>11. Instr.op = "OP_JMP" => AfterInstr + Instr.offset \in Follows(prog, pc)
  BY DEF Follows, Instr, AfterInstr, Sequential
<1>12. Instr.op = "OP_JMP_FALSE" => /\ AfterInstr + Instr.offset \in Follows(prog, pc)
                                    /\ AfterInstr \in Follows(prog, pc)
  BY DEF Follows, Instr, AfterInstr, Sequential
<1>13. CASE JumpOp \/ JumpFalse
  BY <1>9, <1>10, <1>11, <1>13, <1>12
<1>14. CASE ~JumpOp /\ ~JumpFalse
  <2>1. Ahead
    BY <1>1, <1>2, <1>3, <1>4, <1>5, <1>6, <1>7, <1>8, <1>14 DEF Execute
  <2>2. Instr.op \in Sequential
    <3>1. Instr.op \in KnownOps
      BY <1>1, <1>2, <1>14 DEF Execute, KnownOps, WithPtr, WithByte, Arithmetic, At, PushLiteral, BinaryOp, Step,
         Negate, PopOp, PopNOp, TopOp, LoadLocal, SetLocal, LoadUpvalue, SetUpvalue, CloseUpvalue,
         SetGlobal, LoadGlobal, MakeClosure
    <3>2. Instr.op \notin {"OP_JMP", "OP_JMP_FALSE", "OP_HALT"}
      BY <1>1, <1>2, <1>14 DEF Execute, At, PushLiteral, BinaryOp, Step, Arithmetic,
         Negate, PopOp, PopNOp, TopOp, LoadLocal, SetLocal, LoadUpvalue, SetUpvalue, CloseUpvalue,
         SetGlobal, LoadGlobal, MakeClosure
    <3> QED BY <3>1, <3>2 DEF Sequential, Leaping
  <2> QED BY <2>1, <2>2, NextFollows
<1> QED BY <1>13, <1>14

\* Success is reported by OP_HALT, or by what lies outside the program.
LEMMA EndsWell ==
    ASSUME NEW fs \in SUBSET FunctionObjects,
           NEW h, Typed(fs, h), Execute, exit' = "EXIT_OK"
    PROVE  FetchStray \/ At({"OP_HALT"})
<1> DEFINE Fails == exit' # "EXIT_OK"
<1>1. exit = "RUNNING"
  BY DEF Execute, FetchStray, PushLiteral, BinaryOp, Step, Negate, HaltOp, PopOp, PopNOp,
     TopOp, LoadLocal, SetLocal, LoadUpvalue, SetUpvalue, CloseUpvalue, SetGlobal, LoadGlobal,
     MakeClosure, Call, Begin, ReturnVoid, ReturnValue, JumpOp, JumpFalse, UnknownOp, At, Running
<1>2. ASSUME NEW st, NEW v, PushOrHalt(st, v) PROVE Fails
  BY <1>1, <1>2 DEF PushOrHalt
<1>3. (StackEmpty => Fails) /\ (Undefined => Fails)
  BY DEF StackEmpty, Undefined
<1>4. (Jump => Fails) /\ ((UNCHANGED exit) => Fails)
  BY <1>1 DEF Jump
<1>5. PushLiteral \/ PopNOp \/ TopOp => Fails
  BY <1>2, <1>4 DEF PushLiteral, PopNOp, TopOp
<1>6. BinaryOp => Fails
  BY <1>2, <1>3 DEF BinaryOp, RuntimeError
<1>7. Step \/ Negate => Fails
  BY <1>2, <1>3, <1>4 DEF Step, Negate, RuntimeError
<1>8. PopOp => Fails
  BY <1>3, <1>4 DEF PopOp
<1>9. LoadLocal \/ SetLocal \/ LoadUpvalue => Fails
  BY <1>2, <1>3, <1>4 DEF LoadLocal, SetLocal, LoadUpvalue
<1>10. SetUpvalue => Fails
  BY <1>3, <1>4, Zenon DEF SetUpvalue
<1>11. CloseUpvalue => Fails
  BY <1>3, <1>4, Zenon DEF CloseUpvalue
<1>12. SetGlobal \/ LoadGlobal => Fails
  BY <1>1, <1>3, <1>4 DEF SetGlobal, LoadGlobal, RuntimeError, ExitOfGlobal
<1>13. MakeClosure => Fails
  <2>1. ASSUME NEW st, RuntimeError(st, "EXIT_USER_ERROR") PROVE Fails
    BY <2>1 DEF RuntimeError
  <2> QED BY <1>3, <1>4, <2>1, Zenon DEF MakeClosure
<1>14. Call => Fails
  <2>1. ASSUME CanPop(stack), TryCall(Peek(stack), Instr.argcount, Pop(stack), exit) PROVE Fails
    <3>1. Peek(stack) \in ValueOf(fs, h) /\ Pop(stack) \in StackOf(ValueOf(fs, h))
      BY <2>1, PopTyped DEF Typed
    <3> QED BY <1>1, <2>1, <3>1, TryCallReports
  <2> QED BY <1>3, <2>1 DEF Call
<1>15. Begin => Fails
  <2>1. PICK st, ex : st = StackWithGlobal(host.function) /\ ex = ExitOfGlobal(host.function)
    OBVIOUS
  <2>2. st \in StackOf(ValueOf(fs, h)) /\ ex # "EXIT_OK"
    BY <1>1, <2>1, GlobalTyped DEF ExitOfGlobal
  <2>3. ASSUME CanPop(st), TryCall(Peek(st), host.args % U8, Pop(st), ex) PROVE Fails
    <3>1. Peek(st) \in ValueOf(fs, h) /\ Pop(st) \in StackOf(ValueOf(fs, h))
      BY <2>2, <2>3, PopTyped
    <3> QED BY <2>2, <2>3, <3>1, TryCallReports
  <2> QED BY <2>1, <2>3 DEF Begin, RuntimeError
<1>16. ReturnVoid \/ ReturnValue => Fails
  BY <1>2, <1>3, <1>4 DEF ReturnVoid, ReturnValue
<1>17. JumpOp \/ JumpFalse => Fails
  BY <1>3, <1>4 DEF JumpOp, JumpFalse
<1>18. UnknownOp => Fails
  BY DEF UnknownOp
<1>19. HaltOp => At({"OP_HALT"})
  BY DEF HaltOp
<1> QED BY <1>5, <1>6, <1>7, <1>8, <1>9, <1>10, <1>11, <1>12, <1>13, <1>14, <1>15, <1>16, <1>17,
           <1>18, <1>19 DEF Execute

\* No instruction takes a global away.
LEMMA GlobalsGrow ==
    ASSUME Execute
    PROVE  DOMAIN globals \subseteq DOMAIN globals'
<1>1. ASSUME NEW st, NEW callee, NEW argcount, NEW ex, TryCall(callee, argcount, st, ex)
      PROVE  globals' = globals
  BY <1>1 DEF TryCall, Undefined, CallFunction, CallClosure, CallNative, Enter, CallFails
<1>2. Call \/ Begin => globals' = globals
  BY <1>1 DEF Call, Begin
<1>3. ReturnVoid \/ ReturnValue => globals' = globals
  BY DEF ReturnVoid, ReturnValue, LeaveFrame, Undefined
<1>4. BinaryOp \/ Step \/ Negate \/ LoadLocal \/ SetLocal \/ LoadUpvalue => globals' = globals
  BY DEF BinaryOp, Step, Negate, LoadLocal, SetLocal, LoadUpvalue, Undefined
<1>5. SetUpvalue => globals' = globals
  BY Zenon DEF SetUpvalue, Undefined
<1>6. CloseUpvalue => globals' = globals
  BY Zenon DEF CloseUpvalue, Undefined
<1>7. MakeClosure => globals' = globals
  BY Zenon DEF MakeClosure, Undefined
<1>8. FetchStray \/ PushLiteral \/ HaltOp \/ PopOp \/ PopNOp \/ TopOp \/ LoadGlobal \/ UnknownOp
      => globals' = globals
  BY DEF FetchStray, PushLiteral, HaltOp, PopOp, PopNOp, TopOp, LoadGlobal, UnknownOp
<1>9. JumpOp \/ JumpFalse => globals' = globals
  BY DEF JumpOp, JumpFalse, Undefined
<1>10. SetGlobal => DOMAIN globals \subseteq DOMAIN globals'
  BY DEF SetGlobal
<1> QED BY <1>2, <1>3, <1>4, <1>5, <1>6, <1>7, <1>8, <1>9, <1>10 DEF Execute

\* Where a step leads that goes on from a place where the machine may be.
LEMMA ExecuteDirected ==
    ASSUME NEW fs \in SUBSET FunctionObjects,
           NEW h, Typed(fs, h), fs = Functions(prog), NEW counts, Verified(prog, counts),
           Directed(counts), Execute, exit' = "RUNNING"
    PROVE  Directed(counts)'
<1> DEFINE inFunctions == DOMAIN counts.cells \ counts.setup
           GoodReturn(n, a) == IF n = 1 THEN \/ a \in counts.setup
                                             \/ a = TotalSize(prog) /\ Defined(host.function)
                                        ELSE a \in inFunctions
           GoodPlace(empty, a) == IF empty THEN \/ a \in counts.setup
                                                \/ a = TotalSize(prog) /\ Defined(host.function)
                                           ELSE a \in inFunctions
<1>1. At({Instr.op}) /\ exit = "RUNNING" /\ host # Idle /\ HasInstruction(prog, pc)
  BY OnlyLeaps DEF At, Running
<1>2. GoodPlace(calls = <<>>, pc) /\ \A n \in 1 .. Len(calls) : GoodReturn(n, calls[n].return_addr)
  BY <1>1 DEF Directed, Ended
<1>3. calls \in Seq(Frames(h)) /\ Len(calls) \in Nat /\ (calls = <<>> <=> Len(calls) = 0)
  BY DEF Typed, CallsOK
<1>4. pc # TotalSize(prog)
  BY <1>1 DEF HasInstruction, TotalSize, Typed, IsProgram
<1>5. pc \in DOMAIN counts.cells /\ (pc \in counts.setup <=> calls = <<>>)
  BY <1>2, <1>4 DEF Verified
<1>6. \A b \in Follows(prog, pc) : b \in DOMAIN counts.cells /\ (b \in counts.setup <=> pc \in counts.setup)
  BY <1>5 DEF Verified
<1>7. ASSUME host' = host, prog' = prog, Defined(host.function) => Defined(host.function)',
             GoodPlace(calls' = <<>>, pc'),
             \A n \in 1 .. Len(calls') : GoodReturn(n, calls'[n].return_addr)
      PROVE  Directed(counts)'
  <2>1. UnknownFunctionFails'
    BY DEF UnknownFunctionFails
  <2>2. TotalSize(prog)' = TotalSize(prog)
    BY <1>7
  <2> QED BY <1>1, <1>7, <2>1, <2>2 DEF Directed, Ended
<1>8. Defined(host.function) /\ host' = host => Defined(host.function)'
  BY GlobalsGrow DEF Defined
<1>9. ASSUME pc' \in Follows(prog, pc), UNCHANGED <<prog, calls, host>> PROVE Directed(counts)'
  <2>1. GoodPlace(calls' = <<>>, pc')
    BY <1>5, <1>6, <1>9
  <2> QED BY <1>2, <1>7, <1>8, <1>9, <2>1
<1>10. ASSUME GoesInto, GoodReturn(Len(calls) + 1, AfterInstr) PROVE Directed(counts)'
  <2>1. PICK f, frame : /\ f \in Functions(prog) /\ frame.return_addr = AfterInstr
                        /\ calls' = Append(calls, frame) /\ pc' = prog.data + f.ptr
                        /\ UNCHANGED <<prog, globals, host>>
    BY <1>10 DEF GoesInto
  <2>2. PICK t : t = Append(calls, frame)
    OBVIOUS
  <2>3. /\ Len(t) = Len(calls) + 1 /\ t # <<>> /\ t[Len(calls) + 1] = frame
        /\ \A n \in 1 .. Len(calls) : t[n] = calls[n]
    BY <1>3, <2>2
  <2>4. ASSUME NEW n \in 1 .. Len(t) PROVE GoodReturn(n, t[n].return_addr)
    <3>1. n \in 1 .. Len(calls) \/ n = Len(calls) + 1
      BY <1>3, <2>3
    <3>2. CASE n \in 1 .. Len(calls)
      BY <1>2, <2>3, <3>2
    <3>3. CASE n = Len(calls) + 1
      <4>1. t[n].return_addr = AfterInstr
        BY <2>1, <2>3, <3>3
      <4> QED BY <1>10, <3>3, <4>1
    <3> QED BY <3>1, <3>2, <3>3
  <2>5. prog.data + f.ptr \in inFunctions
    BY <2>1 DEF Verified
  <2>6. GoodPlace(calls' = <<>>, pc')
    BY <2>1, <2>2, <2>3, <2>5
  <2>7. \A n \in 1 .. Len(calls') : GoodReturn(n, calls'[n].return_addr)
    BY <2>1, <2>2, <2>4
  <2> QED BY <1>7, <1>8, <2>1, <2>6, <2>7
<1>11. CASE Instr.op \notin Leaping
  BY <1>9, <1>11, FollowsAhead
<1>12. CASE Instr.op = "OP_CALL"
  <2>1. Call
    BY <1>12, OnlyLeaps DEF Leaping
  <2>2. ~StackEmpty
    BY DEF StackEmpty
  <2>3. PICK callee, st : callee = Peek(stack) /\ st = Pop(stack)
    OBVIOUS
  <2>4. CanPop(stack) /\ TryCall(callee, Instr.argcount, st, exit)
    BY <2>1, <2>2, <2>3 DEF Call
  <2>5. callee \in ValueOf(fs, h) /\ st \in StackOf(ValueOf(fs, h))
    BY <2>3, <2>4, PopTyped DEF Typed
  <2>6. GoesInto \/ GoesPast
    BY <2>4, <2>5, TryCallGoes
  <2>7. AfterInstr \in Follows(prog, pc)
    BY <1>12, NextFollows DEF Sequential, KnownOps, WithPtr, WithByte
  <2>8. GoodReturn(Len(calls) + 1, AfterInstr)
    BY <1>3, <1>5, <1>6, <2>7
  <2> QED BY <1>9, <1>10, <2>6, <2>7, <2>8 DEF GoesPast
<1>13. CASE Instr.op = "OP_BEGIN"
  <2>1. Begin
    BY <1>13, OnlyLeaps DEF Leaping
  <2>2. PICK st, ex : st = StackWithGlobal(host.function) /\ ex = ExitOfGlobal(host.function)
    OBVIOUS
  <2>3. CanPop(st) /\ TryCall(Peek(st), host.args % U8, Pop(st), ex)
    BY <2>1, <2>2 DEF Begin, RuntimeError
  <2>4. PICK callee, rest : callee = Peek(st) /\ rest = Pop(st)
    OBVIOUS
  <2>5. callee \in ValueOf(fs, h) /\ rest \in StackOf(ValueOf(fs, h))
    BY <2>2, <2>3, <2>4, GlobalTyped, PopTyped
  <2>6. ex = "RUNNING" /\ (GoesInto \/ GoesPast)
    BY <2>3, <2>4, <2>5, TryCallReports, TryCallGoes
  <2>7. Defined(host.function)
    BY <2>2, <2>6 DEF ExitOfGlobal
  <2>8. calls = <<>> /\ AfterInstr = TotalSize(prog)
    <3>1. pc \in counts.setup /\ pc + 1 = TotalSize(prog)
      BY <1>5, <1>13 DEF Verified, Instr
    <3>2. Width(Instr) = 1
      BY <1>13 DEF Width, WithPtr, WithByte
    <3> QED BY <1>5, <3>1, <3>2 DEF AfterInstr
  <2>9. GoodReturn(Len(calls) + 1, AfterInstr)
    BY <1>3, <2>7, <2>8
  <2>10. CASE GoesPast
    BY <1>2, <1>7, <1>8, <2>7, <2>8, <2>10 DEF GoesPast
  <2> QED BY <1>10, <2>6, <2>9, <2>10
<1>14. CASE Instr.op \in {"OP_RETURN_VOID", "OP_RETURN_VALUE"}
  <2>1. ReturnVoid \/ ReturnValue
    BY <1>14, OnlyLeaps DEF Leaping
  <2>2. ~StackEmpty /\ ~Undefined
    BY DEF StackEmpty, Undefined
  <2>3. HasFrame /\ \E last : LeaveFrame(last)
    BY <2>1, <2>2 DEF ReturnVoid, ReturnValue
  <2>4. /\ calls' = Front(calls) /\ pc' = CurrentCall.return_addr
        /\ UNCHANGED <<prog, globals, host>>
    BY <2>3 DEF LeaveFrame
  <2>5. PICK last \in Nat : last + 1 = Len(calls)
    BY <1>3, <2>3 DEF HasFrame
  <2>6. calls' \in Seq(Frames(h)) /\ Len(calls') = last /\ \A n \in 1 .. last : calls'[n] = calls[n]
    BY <1>3, <2>3, <2>4, <2>5 DEF Front, HasFrame
  <2>7. GoodReturn(last + 1, pc')
    <3>1. last + 1 \in 1 .. Len(calls) /\ pc' = calls[last + 1].return_addr
      BY <2>4, <2>5 DEF CurrentCall
    <3> QED BY <1>2, <3>1
  <2>8. GoodPlace(calls' = <<>>, pc')
    <3>1. calls' = <<>> <=> last = 0
      BY <2>6
    <3> QED BY <2>5, <2>7, <3>1
  <2>9. \A n \in 1 .. Len(calls') : GoodReturn(n, calls'[n].return_addr)
    BY <1>2, <2>5, <2>6
  <2> QED BY <1>7, <1>8, <2>4, <2>8, <2>9
<1> QED BY <1>11, <1>12, <1>13, <1>14 DEF Leaping

LEMMA DirectedStep ==
    ASSUME Inv, Directed(prog.counts), LeadsToBegin, [Next]_vars
    PROVE  Directed(prog.counts)'
<1>1. PICK counts : counts = prog.counts /\ counts = prog'.counts
  BY ProgramIsFixed
<1>2. Verified(prog, counts) /\ Directed(counts) /\ (Directed(counts)' => Directed(prog.counts)')
  BY <1>1 DEF LeadsToBegin, Directed
<1>3. PICK fs \in SUBSET FunctionObjects, h \in Nat : Typed(fs, h) /\ fs = Functions(prog)
  BY InvParts
<1>4. CASE Execute /\ exit' = "RUNNING"
  BY <1>2, <1>3, <1>4, ExecuteDirected
<1>5. CASE Execute /\ exit' # "RUNNING"
  <2>1. SUFFICES ASSUME exit' = "EXIT_OK" PROVE Defined(host.function)'
    BY <1>2, <1>5 DEF Directed, UnknownFunctionFails
  <2>2. FetchStray
    BY <1>3, <1>5, <2>1, EndsWell DEF LeadsToBegin
  <2>3. Running /\ ~HasInstruction(prog, pc) /\ UNCHANGED <<globals, host>>
    BY <2>2 DEF FetchStray
  <2>4. pc \notin DOMAIN counts.cells
    BY <1>2, <2>3 DEF Verified
  <2>5. counts.setup \subseteq DOMAIN counts.cells
    BY <1>2 DEF Verified
  <2>6. Ended
    BY <1>2, <2>3, <2>4, <2>5 DEF Directed, Running
  <2> QED BY <2>3, <2>6 DEF Ended, Defined
<1>6. CASE FinishRun
  BY <1>2, <1>6 DEF FinishRun, Directed, UnknownFunctionFails
<1>7. CASE UNCHANGED vars
  BY <1>2, <1>7 DEF vars, Directed, Ended, Defined, UnknownFunctionFails
<1>8. CASE HostCall
  <2>1. CASE \E name \in Entries : RunFunction(name)
    <3>1. PICK name \in Entries : RunFunction(name)
      BY <2>1
    <3>2. /\ host = Idle /\ UNCHANGED <<prog, pc, calls, exit>> /\ host' # Idle
          /\ exit # "RUNNING" => host'.mode = "spent"
      BY <3>1 DEF RunFunction, Idle
    <3>3. CASE exit = "RUNNING"
      <4>1. pc = prog.data + prog.start /\ calls = <<>>
        BY <1>2, <3>2, <3>3 DEF Directed
      <4>2. pc \in counts.setup
        BY <1>2, <4>1 DEF Verified
      <4> QED BY <1>2, <3>2, <3>3, <4>1, <4>2 DEF Directed, UnknownFunctionFails
    <3>4. CASE exit # "RUNNING"
      BY <1>2, <3>2, <3>4 DEF Directed, UnknownFunctionFails
    <3> QED BY <3>3, <3>4
  <2>2. CASE /\ host = Idle /\ exit' \in {exit, "EXIT_GLOBAL_ALREADY_EXISTS"}
             /\ UNCHANGED <<prog, pc, calls, host>>
    BY <1>2, <2>2 DEF Directed, UnknownFunctionFails
  <2>3. HostCall => (\E name \in Entries : RunFunction(name)) \/
                  (host = Idle /\ exit' \in {exit, "EXIT_GLOBAL_ALREADY_EXISTS"}
                   /\ UNCHANGED <<prog, pc, calls, host>>)
    BY DEF HostCall, AddNative, HostPush, HostPop
  <2> QED BY <1>8, <2>1, <2>2, <2>3
<1> QED BY <1>4, <1>5, <1>6, <1>7, <1>8 DEF Next

\* UnknownFunctionFails of module VM, for every program whose counts are right
\* and that has no OP_HALT, however much it loses of its stack and whatever it
\* leaves where OP_BEGIN looks for the function: a run that executes and ends in
\* success has found the function it was asked for.
THEOREM MachineUnknownFunctionFails == Spec /\ []LeadsToBegin => []UnknownFunctionFails
<1>1. Init => Directed(prog.counts)
  BY DEF Init, InitMachine, Directed, UnknownFunctionFails, Idle
<1>2. Inv /\ LeadsToBegin /\ Directed(prog.counts) /\ [Next]_vars => Directed(prog.counts)'
  BY DirectedStep
<1>3. Directed(prog.counts) => UnknownFunctionFails
  BY DEF Directed
<1> QED BY <1>1, <1>2, <1>3, AlwaysInv, PTL DEF Spec
------------------------------------------------------------------------------
(***************************************************************************)
(* The captured cells.  An upvalue is open only where the counts say that  *)
(* its cell is captured, so a frame or a block that ends has closed the    *)
(* upvalues of the cells it gives up.                                      *)
(***************************************************************************)

\* The open upvalues below top belong to frames below n of the frames t, or
\* point to cells that are captured where the code of frame n is at a.
Within(open, counts, t, a, n, top) ==
    \A x \in open : x < top => /\ n # 0
                               /\ x < t[n].stack_addr \/ x - t[n].stack_addr \in counts.captured[a]

\* Captures of module Balance, for given upvalues and frames.
Bounded(open, counts, t, a, size) ==
    /\ \A x \in open : x < size
    /\ Within(open, counts, t, a, Len(t), size)
    /\ \A n \in 1 .. Len(t) : Within(open, counts, t, t[n].return_addr, n - 1, t[n].stack_addr)

LEMMA CapturesNow ==
    ASSUME NEW counts
    PROVE  Captures(counts) <=>
             (exit = "RUNNING" => IF host = Idle THEN Opened = {}
                                  ELSE Bounded(Opened, counts, calls, pc, stack.size))
BY DEF Captures, Bounded, Within, OnlyCaptured

LEMMA CapturesNext ==
    ASSUME NEW counts
    PROVE  Captures(counts)' <=>
             (exit' = "RUNNING" => IF host' = Idle THEN Opened' = {}
                                   ELSE Bounded(Opened', counts, calls', pc', stack'.size))
BY DEF Captures, Bounded, Within, OnlyCaptured

\* The exact counts in a state where they describe the open upvalues too.
KnowsOpen(counts) == Knows(counts) /\ Captures(counts)

LEMMA OpenedSet == Opened = OpenAddressSet(up) /\ Opened' = OpenAddressSet(up')
BY DEF Opened, OpenAddressSet

\* The frames lie one above the other, the running one on top.
LEMMA BelowTheTop ==
    ASSUME NEW fs \in SUBSET FunctionObjects,
           NEW h, Typed(fs, h), NEW counts, Works(counts), NEW ops, At(ops), NEW n \in 1 .. Len(calls)
    PROVE  calls[n].stack_addr \in Nat /\ calls[n].stack_addr <= Bottom
<1>1. /\ host # Idle /\ Len(calls) \in Nat /\ Bottom \in Nat
      /\ \A k \in 1 .. Len(calls) : Linked(prog, counts, calls, host.args, k)
  BY Room
<1>2. PICK m \in Nat : m = Len(calls)
  BY <1>1
<1>3. ASSUME NEW k \in 1 .. m PROVE calls[k].stack_addr \in Nat
  <2>1. k \in 0 .. Len(calls) /\ k # 0
    BY <1>2
  <2> QED BY <1>1, <2>1, BaseIsNat DEF Base
<1>4. m # 0 /\ calls[m].stack_addr = Bottom
  BY <1>2 DEF Bottom, Base
<1> DEFINE S == { j \in 0 .. m - 1 : ~ (calls[m - j].stack_addr <= Bottom) }
<1>5. S = {}
  <2>1. SUFFICES ASSUME S # {} PROVE FALSE
    OBVIOUS
  <2>2. PICK j \in S : \A k \in S : j <= k
    <3>1. S \subseteq Nat
      OBVIOUS
    <3> HIDE DEF S
    <3> QED BY <2>1, <3>1, LeastMember
  <2>3. j # 0
    BY <1>1, <1>4, <2>2
  <2>4. j - 1 \in 0 .. m - 1 /\ j - 1 \notin S
    BY <2>2, <2>3
  <2>5. PICK k \in Nat : k = m - j
    BY <2>2
  <2>6. k + 1 = m - (j - 1) /\ k \in 1 .. m /\ k + 1 \in 1 .. m /\ k + 1 # 1 /\ (k + 1) - 1 = k /\ k # 0
    BY <2>2, <2>3, <2>5
  <2>7. calls[k + 1].stack_addr <= Bottom
    BY <2>4, <2>6
  <2>8. Linked(prog, counts, calls, host.args, k + 1)
    BY <1>1, <1>2, <2>6
  <2>9. calls[k].stack_addr <= calls[k + 1].stack_addr
    BY <2>6, <2>8 DEF Linked, Base
  <2>10. calls[k].stack_addr \in Nat /\ calls[k + 1].stack_addr \in Nat
    BY <1>3, <2>6
  <2>11. calls[k].stack_addr <= Bottom
    BY <1>1, <2>7, <2>9, <2>10
  <2> QED BY <2>2, <2>5, <2>11
<1>6. n \in 1 .. m /\ m - n \in 0 .. m - 1 /\ m - (m - n) = n
  BY <1>2
<1> QED BY <1>3, <1>5, <1>6

\* Nothing is captured while the setup runs, whose code has no frame.
LEMMA NothingOpen ==
    ASSUME NEW counts, KnowsOpen(counts), Running, ~HasFrame
    PROVE  Opened = {}
<1>1. Bounded(Opened, counts, calls, pc, stack.size)
  BY CapturesNow DEF KnowsOpen, Running
<1>2. Len(calls) = 0
  BY DEF HasFrame
<1> QED BY <1>1, <1>2 DEF Bounded, Within

LEMMA NothingOpens ==
    ASSUME NEW counts, Opened' = {}
    PROVE  Captures(counts)'
BY CapturesNext DEF Bounded, Within

\* What the running frame has captured lies in it.
LEMMA OpenBelow ==
    ASSUME NEW fs \in SUBSET FunctionObjects,
           NEW h \in Nat, Typed(fs, h), UpvaluesOK(fs, h, up), NEW counts, KnowsOpen(counts),
           NEW ops, At(ops), HasFrame, NEW x \in Opened
    PROVE  /\ x \in Int /\ x < stack.size
           /\ x < Bottom \/ x - Bottom \in counts.captured[pc]
<1>1. x \in Int
  <2>1. PICK i \in 1 .. Len(up.open) : x = OpenAt(up, i)
    BY DEF Opened
  <2> QED BY <2>1, OpenEntry, PointersAreNotOwn DEF UpvaluesOK
<1>2. Bounded(Opened, counts, calls, pc, stack.size)
  BY CapturesNow DEF KnowsOpen, At, Running
<1>3. calls[Len(calls)].stack_addr = Bottom
  BY HeightRoom DEF KnowsOpen, CurrentCall
<1> QED BY <1>1, <1>2, <1>3 DEF Bounded, Within

\* What the counts say of a cell that is captured where the code is at a.
LEMMA CapturedRoom ==
    ASSUME NEW fs \in SUBSET FunctionObjects,
           NEW h, Typed(fs, h), NEW counts, Knows(counts),
           NEW a \in DOMAIN counts.heights, NEW c \in counts.captured[a]
    PROVE  /\ c \in Nat /\ counts.heights[a] \in Nat /\ c < counts.heights[a]
           /\ CellAt(prog, a).op = "OP_CALL" => c < counts.heights[a] - Takes(CellAt(prog, a))
<1>1. PICK instr : instr = CellAt(prog, a)
  OBVIOUS
<1>2. PICK keeps : keeps = IF instr.op = "OP_CALL" THEN Takes(instr) ELSE 0
  OBVIOUS
<1>3. counts.heights[a] \in Nat /\ c \in Nat /\ c < counts.heights[a] - keeps
  BY <1>1, <1>2 DEF Knows, Exact
<1>4. HasInstruction(prog, a) /\ a \in Nat
  BY DEF Knows, Works, Verified, Exact
<1>5. instr \in Instructions
  <2>1. prog.code \in Seq(Instructions) /\ prog.data \in Nat
        /\ a >= prog.data /\ a < prog.data + Len(prog.code)
    BY <1>4 DEF Typed, IsProgram, HasInstruction, TotalSize
  <2>2. a - prog.data + 1 \in 1 .. Len(prog.code)
    BY <1>4, <2>1
  <2> QED BY <1>1, <2>1, <2>2, ElementOfSeq DEF CellAt
<1>6. keeps \in Nat
  BY <1>2, <1>5, CountsAreNats
<1>7. c < counts.heights[a]
  <2>1. PICK high \in Nat : high = counts.heights[a]
    BY <1>3
  <2> QED BY <1>3, <1>6, <2>1
<1> QED BY <1>1, <1>2, <1>3, <1>7

\* What an open upvalue of the running frame points to is still captured where
\* the code goes on, unless the instruction closes it.
LEMMA StaysCaptured ==
    ASSUME NEW fs \in SUBSET FunctionObjects,
           NEW h, Typed(fs, h), NEW counts, Knows(counts), NEW ops, At(ops), HasFrame,
           NEW b \in Follows(prog, pc), NEW c \in counts.captured[pc]
    PROVE  c \in counts.captured[b] \/ (Instr.op = "OP_CLOSE_UPVALUE" /\ c = counts.heights[b])
<1>1. pc \in DOMAIN counts.heights
  BY HeightRoom
<1> QED BY <1>1 DEF Knows, Exact, Instr

\* The frames stay, and the upvalues that are open now are those that were,
\* but for the one that the instruction closes, or point to captured cells.
LEMMA SameFramesCaptures ==
    ASSUME NEW fs \in SUBSET FunctionObjects,
           NEW h \in Nat, Typed(fs, h), UpvaluesOK(fs, h, up), NEW counts, KnowsOpen(counts),
           NEW ops, At(ops), HasFrame, UNCHANGED <<prog, calls, host>>, pc' \in Follows(prog, pc),
           Level(counts)', exit' = "RUNNING",
           \A x \in Opened' :
              \/ /\ x \in Opened
                 /\ Instr.op = "OP_CLOSE_UPVALUE" => x # Bottom + counts.heights[pc']
              \/ \E c \in counts.captured[pc'] : x = Bottom + c
    PROVE  Captures(counts)'
<1>1. PICK b : b = pc' /\ b \in Follows(prog, pc)
  OBVIOUS
<1>2. /\ pc \in DOMAIN counts.heights /\ Bottom \in Nat /\ CurrentCall.stack_addr = Bottom
      /\ b \in DOMAIN counts.heights /\ counts.heights[b] \in Nat
  BY <1>1, HeightRoom DEF KnowsOpen
<1>3. Knows(counts) /\ Works(counts) /\ Running
  BY DEF KnowsOpen, Knows, At
<1>4. stack'.size = Bottom + counts.heights[b]
  <2>1. Running' /\ HasFrame' /\ CurrentCall' = CurrentCall
    BY <1>3 DEF Running, HasFrame, CurrentCall
  <2> QED BY <1>1, <1>2, <2>1 DEF Level
<1>5. PICK open, t : open = Opened' /\ t = calls
  OBVIOUS
<1>6. t[Len(t)].stack_addr = Bottom /\ Len(t) \in Nat /\ Len(t) # 0
  BY <1>2, <1>5, CurrentFrame DEF CurrentCall
<1>7. ASSUME NEW x \in open
      PROVE  /\ x \in Int /\ x < Bottom + counts.heights[b]
             /\ x < Bottom \/ x - Bottom \in counts.captured[b]
             /\ x \in Opened \/ x >= Bottom
  <2>1. CASE x \in Opened /\ (Instr.op = "OP_CLOSE_UPVALUE" => x # Bottom + counts.heights[b])
    <3>1. x \in Int /\ (x < Bottom \/ x - Bottom \in counts.captured[pc])
      BY <2>1, OpenBelow
    <3>2. CASE x < Bottom
      BY <1>2, <2>1, <3>1, <3>2
    <3>3. CASE x - Bottom \in counts.captured[pc]
      <4>1. PICK c \in counts.captured[pc] : c = x - Bottom
        BY <3>3
      <4>2. c \in Nat
        BY <1>2, <1>3, CapturedRoom
      <4>3. x = Bottom + c
        BY <1>2, <3>1, <4>1, <4>2
      <4>4. c \in counts.captured[b]
        BY <1>1, <1>3, <2>1, <4>3, StaysCaptured
      <4>5. c < counts.heights[b]
        BY <1>2, <1>3, <4>4, CapturedRoom
      <4> QED BY <1>2, <2>1, <3>1, <4>1, <4>2, <4>3, <4>4, <4>5
    <3> QED BY <3>1, <3>2, <3>3
  <2>2. CASE \E c \in counts.captured[b] : x = Bottom + c
    <3>1. PICK c \in counts.captured[b] : x = Bottom + c
      BY <2>2
    <3>2. c \in Nat /\ c < counts.heights[b]
      BY <1>2, <1>3, CapturedRoom
    <3>3. x - Bottom = c
      BY <1>2, <3>1, <3>2
    <3> QED BY <1>2, <3>1, <3>2, <3>3
  <2> QED BY <1>1, <1>5, <2>1, <2>2
<1>8. Within(open, counts, t, b, Len(t), stack'.size)
  BY <1>6, <1>7 DEF Within
<1>9. ASSUME NEW n \in 1 .. Len(t)
      PROVE  Within(open, counts, t, t[n].return_addr, n - 1, t[n].stack_addr)
  <2>1. Bounded(Opened, counts, t, pc, stack.size)
    BY <1>3, <1>5, CapturesNow DEF KnowsOpen, Running
  <2>2. Within(Opened, counts, t, t[n].return_addr, n - 1, t[n].stack_addr)
    BY <2>1 DEF Bounded
  <2>3. ASSUME NEW x \in open, x < t[n].stack_addr PROVE x \in Opened
    <3>1. t[n].stack_addr \in Nat /\ t[n].stack_addr <= Bottom
      BY <1>3, <1>5, BelowTheTop
    <3>2. PICK limit \in Nat : limit = t[n].stack_addr /\ limit <= Bottom
      BY <3>1
    <3>3. ~(x >= Bottom)
      BY <1>2, <1>7, <2>3, <3>2
    <3> QED BY <1>7, <3>3
  <2> QED BY <2>2, <2>3 DEF Within
<1>10. Bounded(open, counts, t, b, stack'.size)
  BY <1>4, <1>7, <1>8, <1>9 DEF Bounded
<1>11. calls' = t /\ pc' = b /\ host' # Idle
  BY <1>1, <1>3, <1>5 DEF Running
<1> QED BY <1>5, <1>10, <1>11, CapturesNext

\* A call captures nothing, and the frame that it makes lies above all that is
\* captured.
LEMMA EnterCaptures ==
    ASSUME NEW fs \in SUBSET FunctionObjects,
           NEW h \in Nat, Typed(fs, h), UpvaluesOK(fs, h, up), NEW counts, KnowsOpen(counts),
           NEW ops, At(ops), exit' = "RUNNING",
           NEW argcount \in Nat, NEW size \in Nat, Enters(argcount, size),
           HasFrame => Instr.op = "OP_CALL" /\ argcount = Instr.argcount /\ size = stack.size - 1
    PROVE  Captures(counts)'
<1>1. PICK f, base, refs :
          /\ f \in Functions(prog) /\ base \in Nat
          /\ calls' = Append(calls, [return_addr |-> AfterInstr, stack_addr |-> base, closure |-> refs])
          /\ size = base + argcount /\ stack'.size = size /\ UNCHANGED <<up, host>>
  BY DEF Enters
<1>2. base \in Nat /\ size = base + argcount
  BY <1>1
<1>3. PICK frame : frame = [return_addr |-> AfterInstr, stack_addr |-> base, closure |-> refs]
  OBVIOUS
<1>4. Opened' = Opened
  BY <1>1 DEF Opened
<1>5. CASE ~HasFrame
  BY <1>4, <1>5, NothingOpen, NothingOpens DEF At
<1>6. SUFFICES ASSUME HasFrame PROVE Captures(counts)'
  BY <1>5
<1>7. PICK t : t = Append(calls, frame) /\ calls' = t
  BY <1>1, <1>3
<1>8. calls \in Seq(Frames(h)) /\ Len(calls) \in Nat
  BY DEF Typed, CallsOK
<1>9. /\ Len(t) = Len(calls) + 1 /\ t[Len(calls) + 1] = frame
      /\ \A k \in 1 .. Len(calls) : t[k] = calls[k]
  BY <1>7, <1>8
<1>10. Knows(counts) /\ Running
  BY DEF KnowsOpen, At
<1>11. Instr.op = "OP_CALL" /\ argcount = Instr.argcount /\ size = stack.size - 1
  BY <1>6
<1>12. Takes(Instr) = argcount + 1
  BY <1>11 DEF Takes, Arithmetic
<1>13. PICK next : next = AfterInstr /\ next \in Follows(prog, pc)
  BY <1>11, NextFollows DEF Sequential, KnownOps, WithPtr, WithByte
<1>14. /\ pc \in DOMAIN counts.heights /\ counts.heights[pc] \in Nat /\ Bottom \in Nat
       /\ CurrentCall.stack_addr = Bottom /\ stack.size = Bottom + counts.heights[pc]
  BY <1>6, <1>10, HeightRoom
<1>15. base + argcount + 1 = Bottom + counts.heights[pc]
  <2>1. PICK low \in Nat, high \in Nat : low = Bottom /\ high = counts.heights[pc]
    BY <1>14
  <2>2. size = low + high - 1
    BY <1>11, <1>14, <2>1
  <2>3. low \in Nat /\ high \in Nat
    BY <2>1
  <2>4. base + argcount + 1 = low + high
    BY <1>2, <2>2, <2>3
  <2> QED BY <2>1, <2>4
<1>16. Bottom <= base
  <2>1. Takes(Instr) <= counts.cells[pc] /\ counts.cells[pc] \in Nat
        /\ Bottom + counts.cells[pc] <= stack.size
    BY <1>10, Room DEF Knows
  <2>2. PICK low \in Nat, relied \in Nat, n \in Nat :
            low = Bottom /\ relied = counts.cells[pc] /\ n = stack.size
    BY <1>10, <1>14, <2>1, Room DEF Knows
  <2>3. argcount + 1 <= relied /\ low + relied <= n /\ size = n - 1
    BY <1>11, <1>12, <2>1, <2>2
  <2>4. low <= base
    BY <1>2, <2>2, <2>3
  <2> QED BY <2>2, <2>4
<1>17. ASSUME NEW x \in Opened
       PROVE  /\ x \in Int /\ x < base /\ x < size
              /\ x < Bottom \/ x - Bottom \in counts.captured[next]
  <2>1. x \in Int /\ (x < Bottom \/ x - Bottom \in counts.captured[pc])
    BY <1>6, OpenBelow
  <2>2. x < base /\ (x < Bottom \/ x - Bottom \in counts.captured[next])
    <3>1. CASE x < Bottom
      BY <1>2, <1>14, <1>16, <2>1, <3>1
    <3>2. CASE x - Bottom \in counts.captured[pc]
      <4>1. PICK c \in counts.captured[pc] : c = x - Bottom
        BY <3>2
      <4>2. c \in Nat /\ c < counts.heights[pc] - (argcount + 1)
        BY <1>10, <1>11, <1>12, <1>14, CapturedRoom DEF Instr
      <4>3. c \in counts.captured[next]
        BY <1>6, <1>10, <1>11, <1>13, StaysCaptured
      <4>4. x < base
        <5>1. PICK low \in Nat, high \in Nat : low = Bottom /\ high = counts.heights[pc]
          BY <1>14
        <5>2. x = low + c /\ c < high - (argcount + 1) /\ base + argcount + 1 = low + high
          BY <1>15, <2>1, <4>1, <4>2, <5>1
        <5> QED BY <1>2, <4>2, <5>1, <5>2
      <4> QED BY <4>1, <4>3, <4>4
    <3> QED BY <2>1, <3>1, <3>2
  <2>3. x < size
    BY <1>2, <2>1, <2>2
  <2> QED BY <2>1, <2>2, <2>3
<1>18. frame.return_addr = next /\ frame.stack_addr = base
  BY <1>3, <1>13
<1>19. Within(Opened, counts, t, pc', Len(t), size)
  BY <1>8, <1>9, <1>17, <1>18 DEF Within
<1>20. ASSUME NEW n \in 1 .. Len(t)
       PROVE  Within(Opened, counts, t, t[n].return_addr, n - 1, t[n].stack_addr)
  <2>1. CASE n \in 1 .. Len(calls)
    <3>1. Bounded(Opened, counts, calls, pc, stack.size)
      BY <1>10, CapturesNow DEF KnowsOpen, Running
    <3>2. Within(Opened, counts, calls, calls[n].return_addr, n - 1, calls[n].stack_addr)
      BY <2>1, <3>1 DEF Bounded
    <3>3. t[n] = calls[n] /\ (n - 1 # 0 => t[n - 1] = calls[n - 1])
      BY <1>8, <1>9, <2>1
    <3> QED BY <3>2, <3>3 DEF Within
  <2>2. CASE n = Len(calls) + 1
    <3>1. t[n].return_addr = next /\ t[n].stack_addr = base /\ n - 1 = Len(calls)
      BY <1>8, <1>9, <1>18, <2>2
    <3>2. Len(calls) # 0 /\ t[Len(calls)].stack_addr = Bottom
      BY <1>6, <1>8, <1>9, <1>14 DEF HasFrame, CurrentCall
    <3> QED BY <1>17, <3>1, <3>2 DEF Within
  <2> QED BY <1>8, <1>9, <2>1, <2>2
<1>21. Bounded(Opened, counts, t, pc', size)
  BY <1>17, <1>19, <1>20 DEF Bounded
<1>22. stack'.size = size /\ host' # Idle
  BY <1>1, <1>10 DEF Running
<1> QED BY <1>4, <1>7, <1>21, <1>22, CapturesNext

\* A return closes what points into the frame, and the caller finds what it
\* has captured itself.
LEMMA ReturnCaptures ==
    ASSUME NEW fs \in SUBSET FunctionObjects,
           NEW h \in Nat, Typed(fs, h), UpvaluesOK(fs, h, up), NEW counts, KnowsOpen(counts),
           NEW ops, At(ops), exit' = "RUNNING", Returns(counts),
           \A x \in Opened' : x \in Opened /\ x < Bottom
    PROVE  Captures(counts)'
<1>1. PICK n \in Nat \ {0} : n = Len(calls)
  BY CurrentFrame DEF Returns
<1>2. PICK t : t = Front(calls) /\ t = calls'
  BY DEF Returns
<1>3. calls \in Seq(Frames(h))
  BY DEF Typed, CallsOK
<1>4. Len(t) = n - 1 /\ \A k \in 1 .. n - 1 : t[k] = calls[k]
  BY <1>1, <1>2, <1>3 DEF Front
<1>5. PICK a : a = CurrentCall.return_addr
  OBVIOUS
<1>6. PICK open : open = Opened'
  OBVIOUS
<1>7. Bounded(Opened, counts, calls, pc, stack.size)
  BY CapturesNow DEF KnowsOpen, At, Running
<1>8. CurrentCall.stack_addr = Bottom /\ Bottom \in Nat /\ calls[n] = CurrentCall
  BY <1>1, HeightRoom DEF KnowsOpen, Returns, CurrentCall
<1>9. ASSUME NEW x \in open
      PROVE  /\ x \in Opened /\ x \in Int /\ x < Bottom /\ x < stack'.size
             /\ n - 1 # 0 /\ (x < t[n - 1].stack_addr \/ x - t[n - 1].stack_addr \in counts.captured[a])
  <2>1. x \in Opened /\ x < Bottom
    BY <1>6
  <2>2. x \in Int
    BY <2>1, OpenBelow DEF Returns
  <2>3. x < stack'.size
    BY <1>8, <2>1, <2>2 DEF Returns
  <2>4. Within(Opened, counts, calls, a, n - 1, Bottom)
    BY <1>1, <1>5, <1>7, <1>8 DEF Bounded
  <2>5. n - 1 # 0 /\ (x < calls[n - 1].stack_addr \/ x - calls[n - 1].stack_addr \in counts.captured[a])
    BY <2>1, <2>4 DEF Within
  <2>6. t[n - 1] = calls[n - 1]
    BY <1>4, <2>5
  <2> QED BY <2>1, <2>2, <2>3, <2>5, <2>6
<1>10. Within(open, counts, t, a, Len(t), stack'.size)
  BY <1>4, <1>9 DEF Within
<1>11. ASSUME NEW k \in 1 .. Len(t)
       PROVE  Within(open, counts, t, t[k].return_addr, k - 1, t[k].stack_addr)
  <2>1. Within(Opened, counts, calls, calls[k].return_addr, k - 1, calls[k].stack_addr)
    BY <1>1, <1>4, <1>7 DEF Bounded
  <2>2. t[k] = calls[k] /\ (k - 1 # 0 => t[k - 1] = calls[k - 1])
    BY <1>1, <1>4
  <2> QED BY <1>9, <2>1, <2>2 DEF Within
<1>12. Bounded(open, counts, t, a, stack'.size)
  BY <1>9, <1>10, <1>11 DEF Bounded
<1>13. pc' = a /\ host' # Idle
  BY <1>5 DEF Returns, At, Running
<1> QED BY <1>2, <1>6, <1>12, <1>13, CapturesNext

\* An assignment through an upvalue changes no pointer.
LEMMA SetUpvalueOpened ==
    ASSUME NEW fs \in SUBSET FunctionObjects,
           NEW h \in Nat, Typed(fs, h), UpvaluesOK(fs, h, up), SetUpvalue, exit' = "RUNNING"
    PROVE  Opened' = Opened
<1> DEFINE u == UpvalueAt(Instr.upvalue)
<1>1. Instr.upvalue \in Nat
  BY Fetched, Operands DEF SetUpvalue
<1>2. ~Undefined
  BY DEF Undefined
<1>3. CASE UNCHANGED up
  BY <1>3 DEF Opened
<1>4. CASE /\ HasUpvalue(Instr.upvalue) /\ CanPop(stack)
           /\ up' = AssignOwn(up, u, Peek(stack))
  <2>1. PICK v \in ValueOf(fs, h) : v = Peek(stack)
    BY <1>4, TopTyped
  <2>2. PICK b \in 1 .. Len(up.heap) : b = u
    BY <1>1, <1>4, UpvalueAtTyped DEF UpvaluesOK
  <2>3. up' = AssignOwn(up, b, v)
    BY <1>4, <2>1, <2>2
  <2>4. OpenAddressSet(up') = OpenAddressSet(up)
    BY <2>3, AssignProperties, PointersAreNotOwn DEF UpvaluesOK
  <2> QED BY <2>4, OpenedSet
<1> QED BY <1>2, <1>3, <1>4, Zenon DEF SetUpvalue

\* Closing at an address leaves open what lies below it.
LEMMA ClosedAt ==
    ASSUME NEW fs \in SUBSET FunctionObjects,
           NEW h \in Nat, Typed(fs, h), UpvaluesOK(fs, h, up), NEW last \in Pointers, CanClose(last),
           up' = CloseUpvalues(up, stack.cells, last)
    PROVE  \A x \in Opened' : x \in Opened /\ x < last
<1>1. Keeps(up, last, up')
  BY CloseTyped
<1> QED BY <1>1, OpenedSet DEF Keeps

\* OP_CLOSE_UPVALUE closes what points to the top of the stack, or nothing.
LEMMA CloseUpvalueOpened ==
    ASSUME NEW fs \in SUBSET FunctionObjects,
           NEW h \in Nat, Typed(fs, h), UpvaluesOK(fs, h, up), NEW counts, Knows(counts),
           CloseUpvalue, exit' = "RUNNING"
    PROVE  \A x \in Opened' : x \in Opened /\ x < stack.size - 1
<1>1. At({"OP_CLOSE_UPVALUE"}) /\ Instr.op = "OP_CLOSE_UPVALUE" /\ ~Undefined
  BY DEF CloseUpvalue, At, Undefined
<1>2. stack \in StackOf(ValueOf(fs, h)) /\ stack.size \in Nat /\ stack.size <= MaxSize
  BY <1>1, Room DEF Knows
<1>3. PICK top \in Nat : top = stack.size - 1
  <2>1. Takes(Instr) = 1
    BY <1>1 DEF Takes, Arithmetic
  <2>2. Bottom \in Nat /\ Bottom + Takes(Instr) <= stack.size
    BY <1>1, Room DEF Knows
  <2>3. 1 <= stack.size
    BY <1>2, <2>1, <2>2
  <2> QED BY <1>2, <2>3
<1>4. top < MaxSize + U8 /\ top <= stack.size
  BY <1>2, <1>3, VMAssumption, MaxSizeAssumption
<1>5. (stack.size - 1) % U32 = top
  BY <1>3, <1>4, Unwrapped
<1>6. PICK closed : closed = Get(stack, (stack.size - 1) % U32) /\ closed = Get(stack, top)
  BY <1>5
<1>7. closed = top /\ closed \in Pointers
  BY <1>2, <1>4, <1>6, GetRange DEF Pointers
<1>8. CanClose(closed) /\ up' = CloseUpvalues(up, stack.cells, closed)
  BY <1>1, <1>6 DEF CloseUpvalue
<1>9. \A x \in Opened' : x \in Opened /\ x < closed
  BY <1>7, <1>8, ClosedAt
<1> QED BY <1>3, <1>7, <1>9

\* A return leaves no upvalue open at or above the base of the frame.
LEMMA ReturnOpened ==
    ASSUME NEW fs \in SUBSET FunctionObjects,
           NEW h \in Nat, Typed(fs, h), UpvaluesOK(fs, h, up), NEW counts, Knows(counts),
           ReturnVoid \/ ReturnValue, Returns(counts), exit' = "RUNNING"
    PROVE  \A x \in Opened' : x \in Opened /\ x < Bottom
<1>1. /\ HasFrame /\ stack \in StackOf(ValueOf(fs, h)) /\ stack.size \in Nat
      /\ Bottom \in 0 .. stack.size /\ Bottom \in Nat /\ Works(counts)
  BY Room DEF Knows, Returns, ReturnVoid, ReturnValue
<1>2. Bottom = CurrentCall.stack_addr
  BY <1>1, CurrentFrame DEF Bottom, Base, CurrentCall
<1>3. ~Undefined
  BY DEF Undefined
<1>4. ASSUME NEW st \in StackOf(ValueOf(fs, h)), Bottom \in 0 .. st.size,
             CanClose(Get(st, CurrentCall.stack_addr)), LeaveFrame(Get(st, CurrentCall.stack_addr))
      PROVE  \A x \in Opened' : x \in Opened /\ x < Bottom
  <2>1. Bottom <= st.size
    BY <1>1, <1>4, StackShape
  <2>2. PICK last \in Pointers : last = Get(st, CurrentCall.stack_addr) /\ last = Bottom
    BY <1>1, <1>2, <2>1, GetRange DEF Pointers
  <2>3. CanClose(last) /\ up' = CloseUpvalues(up, stack.cells, last)
    BY <1>4, <2>2 DEF LeaveFrame
  <2>4. \A x \in Opened' : x \in Opened /\ x < last
    BY <2>3, ClosedAt
  <2> QED BY <2>2, <2>4
<1>5. CASE ReturnVoid
  <2>1. CanClose(FrameBase) /\ LeaveFrame(FrameBase)
    BY <1>1, <1>3, <1>5 DEF ReturnVoid
  <2> QED BY <1>1, <1>4, <2>1 DEF FrameBase
<1>6. CASE ReturnValue
  <2>1. At({"OP_RETURN_VALUE"}) /\ Takes(Instr) = 1
    BY <1>6 DEF ReturnValue, At, Takes, Arithmetic
  <2>2. /\ CanPop(stack) /\ ~StackEmpty /\ Pop(stack) \in StackOf(ValueOf(fs, h))
        /\ Bottom \in 0 .. Pop(stack).size
    BY <1>1, <2>1, FindsOperand
  <2>3. PICK st : st = Pop(stack)
    OBVIOUS
  <2>4. CanClose(Get(st, CurrentCall.stack_addr)) /\ LeaveFrame(Get(st, CurrentCall.stack_addr))
    BY <1>1, <1>3, <1>6, <2>2, <2>3 DEF ReturnValue
  <2> QED BY <1>4, <2>2, <2>3, <2>4
<1> QED BY <1>5, <1>6

\* What was open, or what a closure made here may capture.
CapturedOr(counts, b, x) == x \in Opened \/ \E c \in counts.captured[b] : x = Bottom + c

\* The closure's captures lie in the frame, where the code goes on.
LEMMA CaptureAddress ==
    ASSUME NEW fs \in SUBSET FunctionObjects,
           NEW h, Typed(fs, h), NEW counts, Knows(counts), At({"OP_CLOSURE"}), HasFrame,
           NEW i \in 1 .. Len(Instr.captures), Instr.captures[i].local
    PROVE  /\ AfterInstr \in Follows(prog, pc)
           /\ Instr.captures[i].index \in counts.captured[AfterInstr]
           /\ Get(stack, (CurrentCall.stack_addr + Instr.captures[i].index) % U32)
                = Bottom + Instr.captures[i].index
<1>1. Instr.op = "OP_CLOSURE" /\ Instr.captures \in Seq(Capture)
  BY Fetched, Operands DEF At
<1>2. PICK next : next = AfterInstr /\ next \in Follows(prog, pc)
  BY <1>1, NextFollows DEF Sequential, KnownOps, WithPtr, WithByte
<1>3. PICK index : index = Instr.captures[i].index
  OBVIOUS
<1>4. /\ stack \in StackOf(ValueOf(fs, h)) /\ stack.size \in Nat /\ stack.size <= MaxSize
      /\ Bottom \in Nat
  BY Room DEF Knows
<1>5. /\ pc \in DOMAIN counts.heights /\ CurrentCall.stack_addr = Bottom
      /\ stack.size = Bottom + counts.heights[pc] /\ counts.heights[pc] \in Nat
      /\ next \in DOMAIN counts.heights
      /\ counts.heights[next] = counts.heights[pc] - Takes(Instr) + Leaves(counts, Instr, next)
  BY <1>2, HeightRoom
<1>6. Takes(Instr) = 1 /\ Leaves(counts, Instr, next) = 1
  BY <1>1 DEF Takes, Leaves, Gives, Arithmetic
<1>7. counts.heights[next] = counts.heights[pc]
  BY <1>5, <1>6
<1>8. index \in counts.captured[next]
  <2>1. i \in DOMAIN Instr.captures
    BY <1>1
  <2> QED BY <1>1, <1>2, <1>3, <1>5, <2>1 DEF Knows, Exact, Instr
<1>9. index \in Nat /\ index < counts.heights[pc]
  BY <1>5, <1>7, <1>8, CapturedRoom
<1>10. PICK a \in Nat : a = Bottom + index /\ a <= stack.size
  <2>1. PICK low \in Nat, high \in Nat : low = Bottom /\ high = counts.heights[pc]
    BY <1>4, <1>5
  <2>2. low + index <= low + high
    BY <1>9, <2>1
  <2> QED BY <1>5, <1>9, <2>1, <2>2
<1>11. a < MaxSize + U8
  BY <1>4, <1>10, VMAssumption, MaxSizeAssumption
<1>12. (CurrentCall.stack_addr + index) % U32 = a
  BY <1>5, <1>10, <1>11, Unwrapped
<1>13. Get(stack, a) = a
  BY <1>4, <1>10, GetRange
<1> QED BY <1>2, <1>3, <1>8, <1>10, <1>12, <1>13

LEMMA CaptureAllOpened ==
    ASSUME NEW fs \in SUBSET FunctionObjects,
           NEW h \in Nat, Typed(fs, h), UpvaluesOK(fs, h, up), NEW counts, Knows(counts),
           At({"OP_CLOSURE"}), \A i \in 1 .. Len(Instr.captures) : CanCapture(Instr.captures[i])
    PROVE  \A x \in OpenAddressSet(CaptureAll(Instr.captures).up) :
              x \in Opened \/ (HasFrame /\ CapturedOr(counts, AfterInstr, x))
<1>1. PICK captures : captures = Instr.captures /\ captures \in Seq(Capture)
  BY Fetched, Operands DEF At
<1>2. PICK n \in Nat : n = Len(captures)
  BY <1>1
<1>3. PICK rounds : Runs(rounds, captures, n) /\ CaptureAll(captures) = rounds[n]
  BY <1>2, CaptureAllRuns
<1> DEFINE OK(r) == RoundOK(fs, h, r) /\ \A x \in OpenAddressSet(r.up) :
                       x \in Opened \/ (HasFrame /\ CapturedOr(counts, AfterInstr, x))
<1> DEFINE S == { m \in 0 .. n : ~ OK(rounds[m]) }
<1>4. SUFFICES ASSUME S # {} PROVE FALSE
  BY <1>1, <1>2, <1>3
<1>5. PICK m \in S : \A k \in S : m <= k
  <2>1. S \subseteq Nat
    OBVIOUS
  <2> HIDE DEF S
  <2> QED BY <1>4, <2>1, LeastMember
<1>6. CASE m = 0
  <2>1. PICK r : r = rounds[0]
    OBVIOUS
  <2>2. r = [up |-> up, refs |-> <<>>]
    BY <1>5, <1>6, <1>3, <2>1 DEF Runs
  <2>3. <<>> \in Seq(1 .. Len(up.heap))
    OBVIOUS
  <2>4. RoundOK(fs, h, r)
    BY <2>2, <2>3 DEF RoundOK, UpvaluesOK
  <2>5. OpenAddressSet(r.up) = Opened
    BY <2>2, OpenedSet
  <2> QED BY <1>5, <1>6, <2>1, <2>4, <2>5
<1>7. CASE m # 0
  <2>1. m - 1 \in 0 .. n /\ m \in 1 .. Len(captures)
    BY <1>2, <1>5, <1>7
  <2>2. PICK r : r = rounds[m - 1] /\ OK(r)
    BY <1>5, <2>1
  <2>3. PICK capture \in Capture : capture = captures[m] /\ CanCapture(capture)
    BY <1>1, <2>1, ElementOfSeq
  <2>4. PICK d : d = rounds[m] /\ d = CaptureOne(r, capture)
    BY <1>3, <1>5, <1>7, <2>2, <2>3 DEF Runs
  <2>5. RoundOK(fs, h, d)
    BY <2>2, <2>3, <2>4, CaptureOneTyped
  <2>6. CASE ~capture.local
    <3>1. d.up = r.up
      BY <2>2, <2>4, <2>6 DEF CaptureOne, RoundOK
    <3> QED BY <1>5, <2>2, <2>4, <2>5, <3>1
  <2>7. CASE capture.local
    <3>1. HasFrame
      BY <2>3, <2>7 DEF CanCapture
    <3>2. PICK cell : cell = Get(stack, (CurrentCall.stack_addr + capture.index) % U32)
      OBVIOUS
    <3>3. d.up = CaptureUpvalue(r.up, cell)
      BY <2>4, <2>7, <3>2 DEF CaptureOne
    <3>4. capture.index \in counts.captured[AfterInstr] /\ cell = Bottom + capture.index
      BY <1>1, <2>1, <2>3, <2>7, <3>1, <3>2, CaptureAddress
    <3>5. cell \in Pointers
      <4>1. (CurrentCall.stack_addr + capture.index) % U32 \in Nat
        <5>1. CurrentCall.stack_addr + capture.index \in Int
          BY <3>1, CurrentFrame DEF Capture
        <5> QED BY <5>1, ModRange
      <4> QED BY <3>2, <4>1, GetRange DEF Typed, Pointers
    <3>6. OpenAddressSet(d.up) = OpenAddressSet(r.up) \cup {cell}
      <4>1. NullValue \in ValueOf(fs, h)
        BY MadeValues, VMAssumption
      <4>2. PICK w : w = r.up /\ WellTyped(w, Pointers, ValueOf(fs, h)) /\ Sorted(w) /\ Complete(w)
        BY <2>2 DEF RoundOK
      <4>3. Adds(w, cell, CaptureUpvalue(w, cell))
        BY <3>5, <4>1, <4>2, CaptureProperties, PointersAreNotOwn
      <4> QED BY <3>3, <4>2, <4>3 DEF Adds
    <3>7. CapturedOr(counts, AfterInstr, cell)
      BY <3>4 DEF CapturedOr
    <3> QED BY <1>5, <2>2, <2>4, <2>5, <3>1, <3>6, <3>7
  <2> QED BY <2>6, <2>7
<1> QED BY <1>6, <1>7

LEMMA MakeClosureOpened ==
    ASSUME NEW fs \in SUBSET FunctionObjects,
           NEW h \in Nat, Typed(fs, h), UpvaluesOK(fs, h, up), NEW counts, Knows(counts),
           MakeClosure, exit' = "RUNNING"
    PROVE  /\ pc' = AfterInstr
           /\ \A x \in Opened' : x \in Opened \/ (HasFrame /\ CapturedOr(counts, AfterInstr, x))
<1>1. At({"OP_CLOSURE"}) /\ Instr.captures \in Seq(Capture)
  BY Fetched, Operands DEF MakeClosure
<1>2. ~Undefined
  BY DEF Undefined
<1>3. ~StackEmpty /\ ~RuntimeError(Pop(stack), "EXIT_USER_ERROR")
  BY DEF StackEmpty, RuntimeError
<1> DEFINE captures == { Instr.captures[i] : i \in DOMAIN Instr.captures }
<1>4. /\ pc' = AfterInstr /\ CanPop(stack) /\ IsKind(Peek(stack), "function")
      /\ up' = CaptureAll(Instr.captures).up
      /\ \A c \in captures : CanCapture(c)
  BY <1>2, <1>3, Zenon DEF MakeClosure
<1>5. \A i \in 1 .. Len(Instr.captures) : CanCapture(Instr.captures[i])
  BY <1>1, <1>4
<1> QED BY <1>1, <1>4, <1>5, CaptureAllOpened, OpenedSet

\* The instructions that manage upvalues.
LEMMA OnlyThese ==
    ASSUME Execute, exit' = "RUNNING", Instr.op \notin Leaping
    PROVE  up' = up \/ SetUpvalue \/ CloseUpvalue \/ MakeClosure
<1>1. FetchStray \/ PushLiteral \/ HaltOp \/ PopOp \/ PopNOp \/ TopOp \/ UnknownOp => up' = up
  BY DEF FetchStray, PushLiteral, HaltOp, PopOp, PopNOp, TopOp, UnknownOp
<1>2. BinaryOp => up' = up
  BY DEF BinaryOp, Undefined
<1>3. Step \/ Negate => up' = up
  BY DEF Step, Negate, Undefined
<1>4. LoadLocal \/ SetLocal \/ LoadUpvalue => up' = up
  BY DEF LoadLocal, SetLocal, LoadUpvalue, Undefined
<1>5. SetGlobal \/ LoadGlobal => up' = up
  BY DEF SetGlobal, LoadGlobal
<1>6. JumpOp \/ JumpFalse => up' = up
  BY DEF JumpOp, JumpFalse, Undefined
<1>7. ~Call /\ ~Begin /\ ~ReturnVoid /\ ~ReturnValue
  BY DEF Call, Begin, ReturnVoid, ReturnValue, At, Leaping
<1> QED BY <1>1, <1>2, <1>3, <1>4, <1>5, <1>6, <1>7 DEF Execute

\* Where an instruction that stays in its function leaves open upvalues.
LEMMA GoesAheadCaptures ==
    ASSUME NEW fs \in SUBSET FunctionObjects,
           NEW h \in Nat, Typed(fs, h), UpvaluesOK(fs, h, up), NEW counts, KnowsOpen(counts),
           Execute, exit' = "RUNNING", At({Instr.op}), Instr.op \notin Leaping, GoesAhead
    PROVE  Captures(counts)'
<1>1. Knows(counts) /\ Works(counts) /\ Level(counts)'
  BY ExecuteLevel DEF KnowsOpen, Knows
<1>2. /\ \A x \in Opened' : x \in Opened \/ (HasFrame /\ CapturedOr(counts, pc', x))
      /\ Instr.op = "OP_CLOSE_UPVALUE" => \A x \in Opened' : x \in Opened /\ x < stack.size - 1
  <2>1. CASE up' = up
    <3>1. Opened' = Opened
      BY <2>1 DEF Opened
    <3>2. Instr.op = "OP_CLOSE_UPVALUE" => CloseUpvalue
      BY <1>1 DEF Execute, At, FetchStray, PushLiteral, BinaryOp, Step, Negate, HaltOp, PopOp,
         PopNOp, TopOp, LoadLocal, SetLocal, LoadUpvalue, SetUpvalue, SetGlobal, LoadGlobal,
         MakeClosure, Call, Begin, ReturnVoid, ReturnValue, JumpOp, JumpFalse, UnknownOp,
         Arithmetic, KnownOps
    <3> QED BY <1>1, <3>1, <3>2, CloseUpvalueOpened
  <2>2. CASE SetUpvalue
    <3>1. Instr.op # "OP_CLOSE_UPVALUE"
      <4>1. At({"OP_SET_UPVALUE"})
        BY <2>2, Zenon DEF SetUpvalue
      <4> QED BY <4>1 DEF At
    <3> QED BY <2>2, <3>1, SetUpvalueOpened
  <2>3. CASE CloseUpvalue
    BY <1>1, <2>3, CloseUpvalueOpened
  <2>4. CASE MakeClosure
    <3>1. Instr.op # "OP_CLOSE_UPVALUE"
      <4>1. At({"OP_CLOSURE"})
        BY <2>4, Zenon DEF MakeClosure
      <4> QED BY <4>1 DEF At
    <3> QED BY <1>1, <2>4, <3>1, MakeClosureOpened
  <2> QED BY <2>1, <2>2, <2>3, <2>4, OnlyThese
<1>3. CASE ~HasFrame
  <2>1. Opened = {}
    BY <1>3, NothingOpen DEF At
  <2> QED BY <1>2, <1>3, <2>1, NothingOpens
<1>4. CASE HasFrame
  <2>1. PICK b : b = pc' /\ b \in Follows(prog, pc)
    BY DEF GoesAhead
  <2>2. Instr.op = "OP_CLOSE_UPVALUE" => Bottom + counts.heights[b] = stack.size - 1
    <3>1. SUFFICES ASSUME Instr.op = "OP_CLOSE_UPVALUE"
                   PROVE  Bottom + counts.heights[b] = stack.size - 1
      OBVIOUS
    <3>2. Takes(Instr) = 1 /\ Leaves(counts, Instr, b) = 0
      BY <3>1 DEF Takes, Leaves, Gives, Arithmetic
    <3>3. PICK low \in Nat, high \in Nat :
              /\ low = Bottom /\ high = counts.heights[pc] /\ stack.size = low + high
              /\ counts.heights[b] = high - 1 + 0
      BY <1>1, <1>4, <2>1, <3>2, HeightRoom
    <3>4. low \in Nat /\ high \in Nat
      BY <3>3
    <3>5. low + (high - 1 + 0) = low + high - 1
      BY <3>4
    <3> QED BY <3>3, <3>5
  <2>3. ASSUME NEW x \in Opened'
        PROVE  \/ x \in Opened /\ (Instr.op = "OP_CLOSE_UPVALUE" => x # Bottom + counts.heights[b])
               \/ \E c \in counts.captured[b] : x = Bottom + c
    <3>1. CASE Instr.op = "OP_CLOSE_UPVALUE"
      <4>1. x \in Opened /\ x < Bottom + counts.heights[b]
        BY <1>2, <2>2, <3>1
      <4>2. x \in Int
        BY <1>4, <4>1, OpenBelow
      <4>3. x # Bottom + counts.heights[b]
        BY <4>1, <4>2
      <4> QED BY <4>1, <4>3
    <3>2. CASE Instr.op # "OP_CLOSE_UPVALUE"
      BY <1>2, <2>1, <3>2 DEF CapturedOr
    <3> QED BY <3>1, <3>2
  <2>4. UNCHANGED <<prog, calls, host>>
    BY DEF GoesAhead
  <2> QED BY <1>1, <1>4, <2>1, <2>3, <2>4, SameFramesCaptures
<1> QED BY <1>3, <1>4

LEMMA ExecuteCaptures ==
    ASSUME NEW fs \in SUBSET FunctionObjects,
           NEW h \in Nat, Typed(fs, h), UpvaluesOK(fs, h, up), NEW counts, KnowsOpen(counts), Execute
    PROVE  Captures(counts)'
<1>1. SUFFICES ASSUME exit' = "RUNNING" PROVE Captures(counts)'
  BY DEF Captures
<1>2. At({Instr.op}) /\ Knows(counts) /\ Works(counts)
  BY <1>1, OnlyLeaps DEF KnowsOpen, Knows
<1>3. CASE Instr.op \notin Leaping
  <2>1. Sequel(counts)
    BY <1>2, ExecuteSequel
  <2> QED BY <1>1, <1>2, <1>3, <2>1, GoesAheadCaptures DEF Sequel
<1>4. CASE Call
  <2>1. Instr.op = "OP_CALL"
    BY <1>4 DEF Call, At
  <2>2. CASE Enters(Instr.argcount, stack.size - 1) /\ Instr.argcount \in Nat /\ stack.size - 1 \in Nat
    <3>1. PICK argcount \in Nat, size \in Nat : argcount = Instr.argcount /\ size = stack.size - 1
      BY <2>2
    <3> QED BY <1>1, <1>2, <2>1, <2>2, <3>1, EnterCaptures
  <2>3. CASE pc' \in Follows(prog, pc) /\ UNCHANGED <<prog, calls, up, host>>
    <3>1. Opened' = Opened
      BY <2>3 DEF Opened
    <3>2. CASE ~HasFrame
      BY <1>2, <3>1, <3>2, NothingOpen, NothingOpens DEF At
    <3>3. CASE HasFrame
      <4>1. Level(counts)'
        BY <1>2, ExecuteLevel
      <4> QED BY <1>1, <1>2, <2>1, <2>3, <3>1, <3>3, <4>1, SameFramesCaptures
    <3> QED BY <3>2, <3>3
  <2> QED BY <1>1, <1>2, <1>4, <2>2, <2>3, CallEffect
<1>5. CASE Begin
  <2>1. ~HasFrame
    BY <1>1, <1>2, <1>5, BeginEffect
  <2>2. up' = up
    BY <1>1, <1>2, <1>5, BeginEffect DEF Enters
  <2>3. Opened' = Opened
    BY <2>2 DEF Opened
  <2> QED BY <1>2, <2>1, <2>3, NothingOpen, NothingOpens DEF At
<1>6. CASE ReturnVoid \/ ReturnValue
  <2>1. Returns(counts)
    BY <1>1, <1>2, <1>6, ReturnVoidEffect, ReturnValueEffect
  <2> QED BY <1>1, <1>2, <1>6, <2>1, ReturnOpened, ReturnCaptures
<1> QED BY <1>1, <1>3, <1>4, <1>5, <1>6, OnlyLeaps

\* Between runs nothing is open.
LEMMA HostCaptures ==
    ASSUME NEW fs \in SUBSET FunctionObjects,
           NEW h \in Nat, Typed(fs, h), NEW counts, KnowsOpen(counts),
           FinishRun \/ HostCall \/ UNCHANGED vars
    PROVE  Captures(counts)'
<1>1. CASE FinishRun
  BY <1>1 DEF FinishRun, Captures
<1>2. CASE UNCHANGED vars
  <2>1. Opened' = Opened
    BY <1>2 DEF vars, Opened
  <2> QED BY <1>2, <2>1, CapturesNow, CapturesNext DEF vars, KnowsOpen
<1>3. CASE HostCall
  <2>1. host = Idle /\ (exit' = "RUNNING" => exit = "RUNNING") /\ up' = up
    BY <1>3 DEF HostCall, AddNative, HostPush, HostPop, RunFunction
  <2>2. SUFFICES ASSUME exit' = "RUNNING" PROVE Captures(counts)'
    BY DEF Captures
  <2>3. Opened = {}
    BY <2>1, <2>2, CapturesNow DEF KnowsOpen
  <2>4. Opened' = {}
    BY <2>1, <2>3 DEF Opened
  <2> QED BY <2>4, NothingOpens
<1> QED BY <1>1, <1>2, <1>3

CapturesHold == Captures(prog.counts)

LEMMA AlwaysCaptures ==
    Spec /\ []AccountedExactly => [](BalancedNow /\ LevelNow /\ CapturesHold)
<1>1. Init => CapturesHold
  BY DEF Init, InitMachine, CapturesHold, Captures, Opened, NoUpvalues
<1>2. Inv /\ BalancedNow /\ LevelNow /\ AccountedExactly /\ CapturesHold /\ [Next]_vars => CapturesHold'
  <2>1. SUFFICES ASSUME Inv, BalancedNow, LevelNow, AccountedExactly, CapturesHold, [Next]_vars
                 PROVE  CapturesHold'
    OBVIOUS
  <2>2. PICK counts : counts = prog.counts /\ counts = prog'.counts
    BY <2>1, ProgramIsFixed
  <2>3. KnowsOpen(counts)
    BY <2>1, <2>2 DEF KnowsOpen, Knows, Works, AccountedExactly, Accounted, BalancedNow, LevelNow,
       CapturesHold
  <2>4. PICK fs \in SUBSET FunctionObjects, h \in Nat : Typed(fs, h) /\ UpvaluesOK(fs, h, up)
    BY <2>1, InvParts
  <2>5. CASE Execute
    <3>1. Captures(counts)'
      BY <2>3, <2>4, <2>5, ExecuteCaptures
    <3> QED BY <2>2, <3>1, CapturesNext DEF CapturesHold
  <2>6. CASE FinishRun \/ HostCall \/ UNCHANGED vars
    <3>1. Captures(counts)'
      BY <2>3, <2>4, <2>6, HostCaptures
    <3> QED BY <2>2, <3>1, CapturesNext DEF CapturesHold
  <2> QED BY <2>1, <2>5, <2>6 DEF Next
<1> QED BY <1>1, <1>2, AlwaysInv, AlwaysLevel, PTL DEF Spec

\* NoDanglingUpvalue of module Balance: no open upvalue points to a cell that
\* the frames no longer hold, so no push changes a captured variable.
THEOREM MachineNoDanglingUpvalue == Spec /\ []AccountedExactly => []NoDanglingUpvalue
<1>1. BalancedNow /\ LevelNow /\ CapturesHold => NoDanglingUpvalue
  BY DEF CapturesHold, Captures, NoDanglingUpvalue, Running, Opened
<1> QED BY <1>1, AlwaysCaptures, PTL

------------------------------------------------------------------------------
(***************************************************************************)
(* Counts of upvalues.  Where the counts also say how many upvalues each   *)
(* function names, no value that a program reaches lacks one, and nothing  *)
(* undefined is executed.                                                  *)
(***************************************************************************)
Trusts(counts) == KnowsOpen(counts) /\ Resolved(prog, counts) /\ Supplied(counts) /\ ~Strands

AllWhole(counts, s)      == \A a \in 0 .. s.size - 1 : Whole(counts, s.cells[a])
UpvaluesWhole(counts, w) == \A u \in 1 .. Len(w.heap) : Whole(counts, w.heap[u].closed)
GlobalsWhole(counts, g)  == \A name \in DOMAIN g : Whole(counts, g[name])

\* What is to be shown of an instruction that goes on in its function.
KeepsWhole(counts) ==
    /\ exit' # "UNDEFINED"
    /\ exit' = "RUNNING" => /\ AllWhole(counts, stack')
                            /\ UpvaluesWhole(counts, up') /\ GlobalsWhole(counts, globals')

\* What an instruction finds, but for the one that finishes a closure.
LEMMA WholeNow ==
    ASSUME NEW counts, Trusts(counts), NEW ops, At(ops)
    PROVE  /\ Instr.op # "OP_CLOSURE" => AllWhole(counts, stack)
           /\ UpvaluesWhole(counts, up) /\ GlobalsWhole(counts, globals)
           /\ \A n \in 1 .. Len(calls) :
                LET a == IF n = Len(calls) THEN pc ELSE calls[n + 1].return_addr
                IN  counts.upvalues[a] <= Len(calls[n].closure)
           /\ exit = "RUNNING" /\ Knows(counts) /\ Works(counts)
<1>1. exit = "RUNNING" /\ Knows(counts) /\ Works(counts)
  BY DEF Trusts, KnowsOpen, Knows, At, Running
<1>2. Instr.op # "OP_CLOSURE" => AllWhole(counts, stack)
  BY <1>1 DEF Trusts, Supplied, AllWhole, Unfinished
<1> QED BY <1>1, <1>2 DEF Trusts, Supplied, UpvaluesWhole, GlobalsWhole

\* What the instructions and the natives make has all its upvalues.
LEMMA MadeWhole ==
    ASSUME NEW counts
    PROVE  /\ Whole(counts, Null)
           /\ \A n : Whole(counts, Number(n)) /\ Whole(counts, Boolean(n)) /\ Whole(counts, Char(n))
           /\ \A s : Whole(counts, Object(String(s))) /\ Whole(counts, Object(Native(s)))
BY VMAssumption DEF Whole, IsKind, IsObject, Null, Number, Boolean, Char, Object, String, Native,
   Garbage

\* The operations of the stack.
LEMMA PushWhole ==
    ASSUME NEW V, NEW s \in StackOf(V), NEW counts, AllWhole(counts, s), NEW v, Whole(counts, v)
    PROVE  AllWhole(counts, Push(s, v))
<1>1. CASE CanPush(s)
  <2>1. PICK c : c = [s.cells EXCEPT ![s.size] = v]
    OBVIOUS
  <2>2. Push(s, v).cells = c /\ Push(s, v).size = s.size + 1
    BY <1>1, <2>1 DEF Push
  <2>3. s.size \in Addresses /\ s.size \in Nat
    BY <1>1, StackShape, MaxSizeAssumption DEF CanPush, Addresses
  <2>4. ASSUME NEW a \in 0 .. s.size PROVE Whole(counts, c[a])
    <3>1. CASE a = s.size
      BY <2>1, <2>3, <3>1, StackShape
    <3>2. CASE a # s.size
      <4>1. a \in 0 .. s.size - 1
        BY <2>3, <3>2
      <4>2. c[a] = s.cells[a]
        BY <2>1, <3>2, <4>1, StackShape
      <4> QED BY <4>1, <4>2 DEF AllWhole
    <3> QED BY <3>1, <3>2
  <2> QED BY <2>2, <2>3, <2>4 DEF AllWhole
<1>2. CASE ~CanPush(s)
  BY <1>2 DEF Push
<1> QED BY <1>1, <1>2

LEMMA ShrinkWhole ==
    ASSUME NEW V, NEW s \in StackOf(V), NEW counts, AllWhole(counts, s)
    PROVE  /\ AllWhole(counts, Pop(s))
           /\ \A n \in Nat : AllWhole(counts, PopN(s, n)) /\ AllWhole(counts, SeekTo(s, n))
<1>1. ASSUME NEW n \in Int, n <= s.size PROVE AllWhole(counts, [s EXCEPT !.size = n])
  <2>1. PICK t : t = [s EXCEPT !.size = n]
    OBVIOUS
  <2>2. t.size = n /\ t.cells = s.cells
    BY <2>1 DEF StackOf
  <2>3. \A a \in 0 .. n - 1 : a \in 0 .. s.size - 1
    BY <1>1, StackShape
  <2> QED BY <2>1, <2>2, <2>3 DEF AllWhole
<1>2. s.size \in Nat /\ s.size - 1 <= s.size
  BY StackShape
<1>3. AllWhole(counts, Pop(s))
  BY <1>1, <1>2 DEF Pop
<1>4. ASSUME NEW n \in Nat PROVE AllWhole(counts, PopN(s, n)) /\ AllWhole(counts, SeekTo(s, n))
  <2>1. s.size - n \in Int /\ s.size - n <= s.size
    BY <1>2
  <2>2. AllWhole(counts, PopN(s, n))
    BY <1>1, <2>1 DEF PopN
  <2>3. CASE n > s.size
    BY <2>2, <2>3 DEF SeekTo
  <2>4. CASE n <= s.size
    BY <1>1, <1>2, <2>2, <2>4 DEF SeekTo
  <2> QED BY <1>2, <2>3, <2>4
<1> QED BY <1>3, <1>4

LEMMA CopyWhole ==
    ASSUME NEW V, NEW s \in StackOf(V), NEW counts, AllWhole(counts, s), NEW a \in Nat, a < s.size
    PROVE  AllWhole(counts, Copy(s, a))
<1>1. CASE CanCopy(s, a)
  <2>1. CanPush(s)
    BY <1>1, StackShape, MaxSizeAssumption DEF CanCopy, CanPush
  <2>2. Copy(s, a) = Push(s, s.cells[a])
    BY <1>1, <2>1 DEF Copy, Push
  <2>3. Whole(counts, s.cells[a])
    BY StackShape DEF AllWhole
  <2> QED BY <2>2, <2>3, PushWhole
<1>2. CASE ~CanCopy(s, a)
  BY <1>2 DEF Copy
<1> QED BY <1>1, <1>2

LEMMA AssignWhole ==
    ASSUME NEW V, NEW s \in StackOf(V), NEW counts, AllWhole(counts, s), NEW a, NEW v,
           Whole(counts, v)
    PROVE  AllWhole(counts, [s EXCEPT !.cells = [@ EXCEPT ![a] = v]])
<1>1. PICK c : c = [s.cells EXCEPT ![a] = v]
  OBVIOUS
<1>2. PICK t : t = [s EXCEPT !.cells = [@ EXCEPT ![a] = v]]
  OBVIOUS
<1>3. t.size = s.size /\ t.cells = c
  BY <1>1, <1>2 DEF StackOf
<1>4. ASSUME NEW b \in 0 .. s.size - 1 PROVE Whole(counts, c[b])
  <2>1. b \in Addresses
    BY StackShape, MaxSizeAssumption DEF Addresses
  <2>2. c[b] = v \/ c[b] = s.cells[b]
    BY <1>1, <2>1, StackShape
  <2> QED BY <2>2 DEF AllWhole
<1> QED BY <1>2, <1>3, <1>4 DEF AllWhole

LEMMA SetWhole ==
    ASSUME NEW V, NEW s \in StackOf(V), NEW counts, AllWhole(counts, s), NEW a, NEW v,
           Whole(counts, v)
    PROVE  AllWhole(counts, Set(s, a, v))
<1>1. [s EXCEPT !.cells[a] = v] = [s EXCEPT !.cells = [@ EXCEPT ![a] = v]]
  OBVIOUS
<1> QED BY <1>1, AssignWhole DEF Set

\* What an instruction that is not OP_CLOSURE may take for granted.
LEMMA WholeRoom ==
    ASSUME NEW fs \in SUBSET FunctionObjects,
           NEW h, Typed(fs, h), NEW counts, Trusts(counts), NEW ops, At(ops), "OP_CLOSURE" \notin ops
    PROVE  /\ exit = "RUNNING" /\ Works(counts) /\ Knows(counts)
           /\ stack \in StackOf(ValueOf(fs, h)) /\ stack.size \in Nat
           /\ AllWhole(counts, stack)
           /\ UpvaluesWhole(counts, up) /\ GlobalsWhole(counts, globals)
           /\ CanPop(stack) => Whole(counts, Peek(stack)) /\ Peek(stack) # Indeterminate
<1>1. Works(counts) /\ Knows(counts) /\ exit = "RUNNING"
  BY WholeNow
<1>2. Instr.op # "OP_CLOSURE"
  BY DEF At
<1>3. stack \in StackOf(ValueOf(fs, h)) /\ stack.size \in Nat
  BY <1>1, Room
<1>4. AllWhole(counts, stack) /\ UpvaluesWhole(counts, up) /\ GlobalsWhole(counts, globals)
  BY <1>2, WholeNow
<1>5. CanPop(stack) => stack.size - 1 \in 0 .. stack.size - 1
  BY <1>3 DEF CanPop
<1>6. CanPop(stack) => Whole(counts, Peek(stack))
  BY <1>4, <1>5 DEF AllWhole, Peek
<1>7. CanPop(stack) => Peek(stack) # Indeterminate
  BY <1>6 DEF Whole
<1> QED BY <1>1, <1>3, <1>4, <1>6, <1>7

\* Instructions that only touch the stack.
LEMMA StackKeepsWhole ==
    ASSUME NEW counts, exit' # "UNDEFINED", UNCHANGED <<up, globals>>,
           UpvaluesWhole(counts, up), GlobalsWhole(counts, globals),
           exit' = "RUNNING" => AllWhole(counts, stack')
    PROVE  KeepsWhole(counts)
BY DEF KeepsWhole

LEMMA PushOrHaltWhole ==
    ASSUME NEW V, NEW s \in StackOf(V), NEW counts, AllWhole(counts, s), NEW v, Whole(counts, v),
           PushOrHalt(s, v), exit = "RUNNING"
    PROVE  exit' # "UNDEFINED" /\ AllWhole(counts, stack')
BY PushWhole DEF PushOrHalt

\* A literal that is no function.
LEMMA LiteralWhole ==
    ASSUME NEW counts, At({"OP_NUMBER", "OP_STRING", "OP_CHAR", "OP_TRUE", "OP_FALSE", "OP_NULL"})
    PROVE  Whole(counts, Literal(Instr))
BY MadeWhole DEF Literal, At

LEMMA PushLiteralWhole ==
    ASSUME NEW fs \in SUBSET FunctionObjects,
           NEW h, Typed(fs, h), NEW counts, Trusts(counts), PushLiteral, Instr.op # "OP_FUNCTION"
    PROVE  KeepsWhole(counts)
<1> DEFINE ops == {"OP_NUMBER", "OP_STRING", "OP_CHAR", "OP_TRUE", "OP_FALSE", "OP_NULL"}
<1>1. At(ops) /\ PushOrHalt(stack, Literal(Instr)) /\ UNCHANGED <<up, globals>>
  BY DEF PushLiteral, At
<1>2. "OP_CLOSURE" \notin ops
  OBVIOUS
<1>3. Whole(counts, Literal(Instr))
  BY <1>1, LiteralWhole
<1> HIDE DEF ops
<1> QED BY <1>1, <1>2, <1>3, WholeRoom, PushOrHaltWhole, StackKeepsWhole

LEMMA BinaryOpWhole ==
    ASSUME NEW fs \in SUBSET FunctionObjects,
           NEW h, Typed(fs, h), NEW counts, Trusts(counts), BinaryOp
    PROVE  KeepsWhole(counts)
<1>1. At(Arithmetic) /\ "OP_CLOSURE" \notin Arithmetic
  BY DEF BinaryOp, Arithmetic
<1>2. /\ exit = "RUNNING" /\ Works(counts)
      /\ stack \in StackOf(ValueOf(fs, h)) /\ stack.size \in Nat /\ AllWhole(counts, stack)
      /\ UpvaluesWhole(counts, up) /\ GlobalsWhole(counts, globals)
  BY <1>1, WholeRoom
<1>3. stack.size >= 2
  <2>1. Takes(Instr) = 2
    BY <1>1 DEF At, Takes, Arithmetic
  <2>2. Bottom \in Nat /\ Bottom + Takes(Instr) <= stack.size
    BY <1>1, <1>2, Room
  <2> QED BY <1>2, <2>1, <2>2
<1>4. PICK rest : rest = Pop(Pop(stack))
  OBVIOUS
<1>5. CanPop(stack) /\ Pop(stack) \in StackOf(ValueOf(fs, h)) /\ Pop(stack).size = stack.size - 1
  BY <1>2, <1>3, PopEffect, PopTyped DEF CanPop
<1>6. CanPop(Pop(stack)) /\ rest \in StackOf(ValueOf(fs, h)) /\ AllWhole(counts, rest)
      /\ AllWhole(counts, Pop(stack))
  BY <1>2, <1>3, <1>4, <1>5, PopTyped, ShrinkWhole DEF CanPop
<1>7. PICK left, right : left = Peek(Pop(stack)) /\ right = Peek(stack)
  OBVIOUS
<1>8. Whole(counts, left) /\ Whole(counts, right)
  <2>1. stack.size - 1 \in 0 .. stack.size - 1 /\ stack.size - 2 \in 0 .. Pop(stack).size - 1
        /\ Pop(stack).size - 1 = stack.size - 2
    BY <1>2, <1>3, <1>5
  <2> QED BY <1>2, <1>6, <1>7, <2>1 DEF AllWhole, Peek
<1>9. ~(stack.size < 2 \/ Indeterminate \in {left, right})
  BY <1>2, <1>3, <1>8 DEF Whole
<1>10. /\ UNCHANGED <<up, globals>>
       /\ \/ \E n : PushOrHalt(rest, Number(n))
          \/ \E s : PushOrHalt(rest, Object(String(s)))
          \/ \E v : RuntimeError(v, "EXIT_UNSUPPORTED_OPERATION")
          \/ RuntimeError(rest, "EXIT_INCORRECT_TYPE")
  BY <1>4, <1>7, <1>9, Zenon DEF BinaryOp
<1>11. ASSUME NEW v, Whole(counts, v), PushOrHalt(rest, v) PROVE KeepsWhole(counts)
  BY <1>2, <1>6, <1>10, <1>11, PushOrHaltWhole, StackKeepsWhole
<1>12. ASSUME NEW st, NEW reason \in {"EXIT_UNSUPPORTED_OPERATION", "EXIT_INCORRECT_TYPE"},
             RuntimeError(st, reason)
       PROVE  KeepsWhole(counts)
  BY <1>12 DEF RuntimeError, KeepsWhole
<1> QED BY <1>10, <1>11, <1>12, MadeWhole

LEMMA StepWhole ==
    ASSUME NEW fs \in SUBSET FunctionObjects,
           NEW h, Typed(fs, h), NEW counts, Trusts(counts), Step \/ Negate
    PROVE  KeepsWhole(counts)
<1> DEFINE ops == {"OP_ADDONE", "OP_SUBONE", "OP_NEGATE"}
<1>1. At(ops) /\ "OP_CLOSURE" \notin ops /\ Instr.op \in ops
  BY DEF Step, Negate, At
<1>2. /\ exit = "RUNNING" /\ stack \in StackOf(ValueOf(fs, h)) /\ AllWhole(counts, stack)
      /\ UpvaluesWhole(counts, up) /\ GlobalsWhole(counts, globals) /\ Works(counts)
      /\ (CanPop(stack) => Peek(stack) # Indeterminate)
  <2> HIDE DEF ops
  <2> QED BY <1>1, WholeRoom
<1>3. PICK rest : rest = Pop(stack)
  OBVIOUS
<1>4. CanPop(stack) /\ ~StackEmpty /\ rest \in StackOf(ValueOf(fs, h))
  <2>1. Takes(Instr) >= 1
    BY <1>1 DEF Takes, Arithmetic
  <2> HIDE DEF ops
  <2> QED BY <1>1, <1>2, <1>3, <2>1, FindsOperand
<1>5. AllWhole(counts, rest)
  BY <1>2, <1>3, ShrinkWhole
<1>6. CASE Step
  <2>1. /\ UNCHANGED <<up, globals>>
        /\ \/ \E n : PushOrHalt(rest, Number(n))
           \/ RuntimeError(rest, "EXIT_INCORRECT_TYPE")
    BY <1>2, <1>3, <1>4, <1>6, Zenon DEF Step
  <2>2. CASE \E n : PushOrHalt(rest, Number(n))
    BY <1>2, <1>4, <1>5, <2>1, <2>2, MadeWhole, PushOrHaltWhole, StackKeepsWhole
  <2>3. CASE RuntimeError(rest, "EXIT_INCORRECT_TYPE")
    BY <2>3 DEF RuntimeError, KeepsWhole
  <2> QED BY <2>1, <2>2, <2>3
<1>7. CASE Negate
  <2>1. /\ UNCHANGED <<up, globals>>
        /\ \/ \E n : PushOrHalt(rest, Number(n))
           \/ stack' = rest /\ exit' = exit
    BY <1>2, <1>3, <1>4, <1>7, Zenon DEF Negate
  <2>2. CASE \E n : PushOrHalt(rest, Number(n))
    BY <1>2, <1>4, <1>5, <2>1, <2>2, MadeWhole, PushOrHaltWhole, StackKeepsWhole
  <2>3. CASE stack' = rest /\ exit' = exit
    BY <1>2, <1>5, <2>1, <2>3, StackKeepsWhole
  <2> QED BY <2>1, <2>2, <2>3
<1> QED BY <1>6, <1>7

\* Instructions that drop values, or jump.
LEMMA PopOpWhole ==
    ASSUME NEW fs \in SUBSET FunctionObjects,
           NEW h, Typed(fs, h), NEW counts, Trusts(counts), PopOp \/ PopNOp
    PROVE  KeepsWhole(counts)
<1> DEFINE ops == {"OP_POP", "OP_POPN"}
<1>1. At(ops) /\ "OP_CLOSURE" \notin ops /\ Instr.op \in ops
  BY DEF PopOp, PopNOp, At
<1>2. /\ exit = "RUNNING" /\ stack \in StackOf(ValueOf(fs, h)) /\ AllWhole(counts, stack)
      /\ UpvaluesWhole(counts, up) /\ GlobalsWhole(counts, globals)
  <2> HIDE DEF ops
  <2> QED BY <1>1, WholeRoom
<1>3. CASE PopOp
  BY <1>2, <1>3, ShrinkWhole, StackKeepsWhole DEF PopOp, StackEmpty
<1>4. CASE PopNOp
  <2>1. Instr.count % U8 \in Nat
    <3>1. Instr.op = "OP_POPN" /\ Instr \in Instructions
      BY <1>1, <1>4, Fetched DEF PopNOp, At
    <3>2. Instr.count \in Int
      BY <3>1, Operands
    <3> QED BY <3>2, ModRange
  <2>2. AllWhole(counts, PopN(stack, Instr.count % U8))
    BY <1>2, <2>1, ShrinkWhole
  <2> QED BY <1>2, <1>4, <2>2, StackKeepsWhole DEF PopNOp
<1> QED BY <1>3, <1>4

LEMMA JumpWhole ==
    ASSUME NEW fs \in SUBSET FunctionObjects,
           NEW h, Typed(fs, h), NEW counts, Trusts(counts), JumpOp \/ JumpFalse
    PROVE  KeepsWhole(counts)
<1> DEFINE ops == {"OP_JMP", "OP_JMP_FALSE"}
<1>1. At(ops) /\ "OP_CLOSURE" \notin ops /\ Instr.op \in ops
  BY DEF JumpOp, JumpFalse, At
<1>2. /\ exit = "RUNNING" /\ AllWhole(counts, stack) /\ Works(counts)
      /\ UpvaluesWhole(counts, up) /\ GlobalsWhole(counts, globals)
      /\ (CanPop(stack) => Peek(stack) # Indeterminate)
  <2> HIDE DEF ops
  <2> QED BY <1>1, WholeRoom
<1>3. CASE JumpOp
  BY <1>2, <1>3, StackKeepsWhole DEF JumpOp, Jump
<1>4. CASE JumpFalse
  <2>1. Instr.op = "OP_JMP_FALSE"
    BY <1>4 DEF JumpFalse, At
  <2>2. CanPop(stack)
    <3>1. Takes(Instr) >= 1
      BY <2>1 DEF Takes, Arithmetic
    <3> HIDE DEF ops
    <3> QED BY <1>1, <1>2, <3>1, FindsOperand
  <2> QED BY <1>2, <1>4, <2>2, StackKeepsWhole DEF JumpFalse, Jump
<1> QED BY <1>3, <1>4

\* The code of a function runs in a frame.
LEMMA RunsInFrame ==
    ASSUME NEW fs \in SUBSET FunctionObjects,
           NEW h, Typed(fs, h), NEW counts, Trusts(counts), NEW ops, At(ops), Instr.op \in InFrame
    PROVE  HasFrame
<1>1. Works(counts)
  BY WholeNow
<1>2. pc \in DOMAIN counts.cells /\ (pc \in counts.setup <=> ~HasFrame)
  BY <1>1, Room
<1> QED BY <1>2 DEF Trusts, Resolved, Instr

LEMMA TopOpWhole ==
    ASSUME NEW fs \in SUBSET FunctionObjects,
           NEW h, Typed(fs, h), NEW counts, Trusts(counts), TopOp
    PROVE  KeepsWhole(counts)
<1> DEFINE ops == {"OP_TOP"}
<1>1. At(ops) /\ "OP_CLOSURE" \notin ops /\ Instr.op \in ops
  BY DEF TopOp, At
<1>2. /\ exit = "RUNNING" /\ stack \in StackOf(ValueOf(fs, h)) /\ AllWhole(counts, stack)
      /\ UpvaluesWhole(counts, up) /\ GlobalsWhole(counts, globals) /\ Works(counts)
      /\ stack.size \in Nat
  <2> HIDE DEF ops
  <2> QED BY <1>1, WholeRoom
<1>3. stack.size - 1 \in Nat /\ stack.size <= MaxSize
  <2>1. Takes(Instr) >= 1
    BY <1>1 DEF Takes, Arithmetic
  <2>2. CanPop(stack)
    <3> HIDE DEF ops
    <3> QED BY <1>1, <1>2, <2>1, FindsOperand
  <2> QED BY <1>2, <2>2, StackShape DEF CanPop
<1>4. (stack.size - 1) % U32 = stack.size - 1
  <2>1. stack.size - 1 < MaxSize + U8
    BY <1>2, <1>3, VMAssumption, MaxSizeAssumption
  <2> QED BY <1>3, <2>1, Unwrapped
<1>5. AllWhole(counts, Copy(stack, (stack.size - 1) % U32))
  <2>1. stack.size - 1 < stack.size
    BY <1>2
  <2> QED BY <1>2, <1>3, <1>4, <2>1, CopyWhole
<1> QED BY <1>2, <1>5, StackKeepsWhole DEF TopOp

\* A local that the counts know lies below the top of the stack.
LEMMA LoadLocalWhole ==
    ASSUME NEW fs \in SUBSET FunctionObjects,
           NEW h, Typed(fs, h), NEW counts, Trusts(counts), LoadLocal
    PROVE  KeepsWhole(counts)
<1> DEFINE ops == {"OP_LOAD_LOCAL"}
<1>1. At(ops) /\ "OP_CLOSURE" \notin ops /\ Instr.op = "OP_LOAD_LOCAL"
  BY DEF LoadLocal, At
<1>2. /\ exit = "RUNNING" /\ stack \in StackOf(ValueOf(fs, h)) /\ AllWhole(counts, stack)
      /\ UpvaluesWhole(counts, up) /\ GlobalsWhole(counts, globals) /\ Works(counts)
      /\ stack.size \in Nat
  <2> HIDE DEF ops
  <2> QED BY <1>1, WholeRoom
<1>3. HasFrame
  BY <1>1, RunsInFrame DEF InFrame
<1>4. PICK address : address = LocalAddress(Instr.local)
  OBVIOUS
<1>5. address \in Nat /\ address < stack.size
  <2>1. Instr.local % U8 \in Nat
    <3>1. Instr \in Instructions
      BY <1>1, <1>2, Room
    <3>2. Instr.local \in Int
      BY <1>1, <3>1, Operands
    <3> QED BY <3>2, ModRange
  <2>2. PICK offset \in Nat : offset = Instr.local % U8
    BY <2>1
  <2>3. /\ counts.cells[pc] \in Nat /\ pc \in DOMAIN counts.cells /\ Bottom \in Nat
        /\ Bottom + counts.cells[pc] <= stack.size /\ stack.size <= MaxSize
    BY <1>1, <1>2, Room
  <2>4. offset < counts.cells[pc]
    BY <1>1, <1>2, <2>2, <2>3 DEF Works, Verified, Instr
  <2>5. CurrentCall.stack_addr = Bottom
    BY <1>3, CurrentFrame DEF Bottom, Base, CurrentCall
  <2>6. Bottom + offset < stack.size /\ Bottom + offset \in Nat /\ Bottom + offset < MaxSize + U8
    BY <1>2, <2>3, <2>4, VMAssumption, MaxSizeAssumption
  <2>7. (Bottom + offset) % U32 = Bottom + offset
    BY <2>6, Unwrapped
  <2>8. address = (Bottom + offset) % U32
    BY <1>4, <2>2, <2>5 DEF LocalAddress
  <2> QED BY <2>6, <2>7, <2>8
<1>6. stack' = Copy(stack, address) /\ UNCHANGED <<up, globals, exit>>
  BY <1>3, <1>4 DEF LoadLocal
<1> QED BY <1>2, <1>5, <1>6, CopyWhole, StackKeepsWhole

LEMMA SetLocalWhole ==
    ASSUME NEW fs \in SUBSET FunctionObjects,
           NEW h, Typed(fs, h), NEW counts, Trusts(counts), SetLocal
    PROVE  KeepsWhole(counts)
<1> DEFINE ops == {"OP_SET_LOCAL"}
<1>1. At(ops) /\ "OP_CLOSURE" \notin ops /\ Instr.op \in ops
  BY DEF SetLocal, At
<1>2. /\ exit = "RUNNING" /\ stack \in StackOf(ValueOf(fs, h)) /\ AllWhole(counts, stack)
      /\ UpvaluesWhole(counts, up) /\ GlobalsWhole(counts, globals) /\ Works(counts)
      /\ (CanPop(stack) => Whole(counts, Peek(stack)))
  <2> HIDE DEF ops
  <2> QED BY <1>1, WholeRoom
<1>3. HasFrame
  BY <1>1, RunsInFrame DEF InFrame
<1>4. CanPop(stack) /\ ~StackEmpty /\ Pop(stack) \in StackOf(ValueOf(fs, h))
  <2>1. Takes(Instr) >= 1
    BY <1>1 DEF Takes, Arithmetic
  <2> HIDE DEF ops
  <2> QED BY <1>1, <1>2, <2>1, FindsOperand
<1>5. /\ stack' = Set(Pop(stack), LocalAddress(Instr.local), Peek(stack))
      /\ UNCHANGED <<up, globals, exit>>
  BY <1>3, <1>4, Zenon DEF SetLocal
<1>6. AllWhole(counts, Pop(stack))
  BY <1>2, ShrinkWhole
<1>7. PICK address, v : address = LocalAddress(Instr.local) /\ v = Peek(stack)
  OBVIOUS
<1>8. AllWhole(counts, Set(Pop(stack), address, v))
  BY <1>2, <1>4, <1>6, <1>7, SetWhole
<1> QED BY <1>2, <1>5, <1>7, <1>8, StackKeepsWhole

LEMMA GlobalWhole ==
    ASSUME NEW fs \in SUBSET FunctionObjects,
           NEW h, Typed(fs, h), NEW counts, Trusts(counts), SetGlobal \/ LoadGlobal
    PROVE  KeepsWhole(counts)
<1> DEFINE ops == {"OP_DEFINE_GLOBAL", "OP_SET_GLOBAL", "OP_LOAD_GLOBAL"}
<1>1. At(ops) /\ "OP_CLOSURE" \notin ops /\ Instr.op \in ops
  BY DEF SetGlobal, LoadGlobal, At
<1>2. /\ exit = "RUNNING" /\ stack \in StackOf(ValueOf(fs, h)) /\ AllWhole(counts, stack)
      /\ UpvaluesWhole(counts, up) /\ GlobalsWhole(counts, globals) /\ Works(counts)
      /\ (CanPop(stack) => Whole(counts, Peek(stack)))
  <2> HIDE DEF ops
  <2> QED BY <1>1, WholeRoom
<1>3. CASE LoadGlobal
  <2>1. /\ stack' = StackWithGlobal(Instr.name) /\ exit' = ExitOfGlobal(Instr.name)
        /\ UNCHANGED <<up, globals>>
    BY <1>3 DEF LoadGlobal
  <2>2. exit' # "UNDEFINED"
    BY <1>2, <2>1 DEF ExitOfGlobal
  <2>3. AllWhole(counts, StackWithGlobal(Instr.name))
    BY <1>2, PushWhole DEF StackWithGlobal, Defined, GlobalsWhole
  <2> QED BY <1>2, <2>1, <2>2, <2>3, StackKeepsWhole
<1>4. CASE SetGlobal
  <2>1. PICK rest : rest = Pop(stack) /\ AllWhole(counts, rest)
    BY <1>2, ShrinkWhole
  <2>2. UNCHANGED up
    BY <1>4 DEF SetGlobal
  <2>3. \/ StackEmpty
        \/ RuntimeError(rest, "EXIT_GLOBAL_NOT_FOUND")
        \/ /\ CanPop(stack) /\ stack' = rest /\ exit' = exit
           /\ globals' = [name \in DOMAIN globals \cup {Instr.name} |->
                            IF name = Instr.name THEN Peek(stack) ELSE globals[name]]
    BY <1>4, <2>1, Zenon DEF SetGlobal
  <2>4. CASE StackEmpty \/ RuntimeError(rest, "EXIT_GLOBAL_NOT_FOUND")
    BY <2>4 DEF StackEmpty, RuntimeError, KeepsWhole
  <2>5. CASE /\ CanPop(stack) /\ stack' = rest /\ exit' = exit
             /\ globals' = [name \in DOMAIN globals \cup {Instr.name} |->
                              IF name = Instr.name THEN Peek(stack) ELSE globals[name]]
    <3>1. PICK v : v = Peek(stack) /\ Whole(counts, v)
      BY <1>2, <2>5
    <3>2. GlobalsWhole(counts, globals')
      BY <1>2, <2>5, <3>1 DEF GlobalsWhole
    <3> QED BY <1>2, <2>1, <2>2, <2>5, <3>2 DEF KeepsWhole
  <2> QED BY <2>3, <2>4, <2>5
<1> QED BY <1>3, <1>4

\* The instructions that end the run, or fetch no instruction.
LEMMA EndWhole ==
    ASSUME HaltOp \/ UnknownOp, NEW counts
    PROVE  KeepsWhole(counts)
BY DEF HaltOp, UnknownOp, KeepsWhole

\* What an open upvalue points to lies above the base of some frame.
LEMMA OpenInStack ==
    ASSUME NEW fs \in SUBSET FunctionObjects,
           NEW h \in Nat, Typed(fs, h), UpvaluesOK(fs, h, up), NEW counts, KnowsOpen(counts),
           NEW ops, At(ops), NEW x \in Opened
    PROVE  x \in 0 .. stack.size - 1
<1>1. HasFrame /\ Works(counts) /\ Knows(counts)
  BY NothingOpen DEF KnowsOpen, Knows, At
<1>2. x \in Int /\ x < stack.size
  BY <1>1, OpenBelow
<1>3. PICK m \in Nat \ {0} : m = Len(calls)
  BY <1>1, CurrentFrame
<1>4. Bounded(Opened, counts, calls, pc, stack.size)
  BY CapturesNow DEF KnowsOpen, At, Running
<1>5. \A n \in 1 .. m : calls[n].stack_addr \in Nat
  BY <1>1, <1>3, BelowTheTop
<1>6. ASSUME NEW a \in DOMAIN counts.heights, NEW n \in 1 .. m,
             x - calls[n].stack_addr \in counts.captured[a]
      PROVE  x >= 0
  <2>1. PICK low \in Nat, c \in counts.captured[a] : low = calls[n].stack_addr /\ c = x - low
    BY <1>5, <1>6
  <2>2. c \in Nat
    BY <1>1, CapturedRoom
  <2> QED BY <1>2, <2>1, <2>2
<1> DEFINE S == { n \in 1 .. m : x < calls[n].stack_addr }
<1>7. CASE S = {}
  <2>1. Within(Opened, counts, calls, pc, m, stack.size)
    BY <1>3, <1>4 DEF Bounded
  <2>2. m \in 1 .. m
    BY <1>3
  <2>3. ~(x < calls[m].stack_addr)
    BY <1>7, <2>2
  <2>4. x - calls[m].stack_addr \in counts.captured[pc]
    BY <1>2, <2>1, <2>3 DEF Within
  <2>5. pc \in DOMAIN counts.heights
    BY <1>1, HeightRoom
  <2>6. x >= 0 /\ stack.size \in Nat
    BY <1>1, <1>6, <2>2, <2>4, <2>5, Room
  <2> QED BY <1>2, <2>6
<1>8. CASE S # {}
  <2>1. PICK n \in S : \A k \in S : n <= k
    <3>1. S \subseteq Nat
      OBVIOUS
    <3> HIDE DEF S
    <3> QED BY <1>8, <3>1, LeastMember
  <2>2. PICK a, top : a = calls[n].return_addr /\ top = calls[n].stack_addr
    OBVIOUS
  <2>3. Within(Opened, counts, calls, a, n - 1, top)
    BY <1>3, <1>4, <2>1, <2>2 DEF Bounded
  <2>4. n - 1 # 0 /\ (x < calls[n - 1].stack_addr \/ x - calls[n - 1].stack_addr \in counts.captured[a])
    BY <2>1, <2>2, <2>3 DEF Within
  <2>5. n - 1 \in 1 .. m /\ n - 1 \notin S
    BY <2>1, <2>4
  <2>6. x - calls[n - 1].stack_addr \in counts.captured[a]
    BY <2>4, <2>5
  <2>7. Linked(prog, counts, calls, host.args, n)
    BY <1>1, <1>3, <2>1, Room
  <2>8. a \in DOMAIN counts.cells /\ a \notin counts.setup
    BY <2>2, <2>4, <2>7 DEF Linked
  <2>9. a \in DOMAIN counts.heights
    BY <1>1, <2>8 DEF Knows, Exact
  <2>10. x >= 0 /\ stack.size \in Nat
    BY <1>1, <1>6, <2>5, <2>6, <2>9, Room
  <2> QED BY <1>2, <2>10
<1> QED BY <1>7, <1>8

\* So every upvalue can be read and closed.
LEMMA AllReadable ==
    ASSUME NEW fs \in SUBSET FunctionObjects,
           NEW h \in Nat, Typed(fs, h), UpvaluesOK(fs, h, up), NEW counts, KnowsOpen(counts),
           NEW ops, At(ops), NEW u \in 1 .. h
    PROVE  /\ Readable(u)
           /\ up.heap[u].value = OwnCell \/ up.heap[u].value \in 0 .. stack.size - 1
<1>1. PICK a : a = up.heap[u].value
  OBVIOUS
<1>2. CASE a = OwnCell
  BY <1>1, <1>2 DEF Readable
<1>3. CASE a # OwnCell
  <2>1. a \in OpenAddressSet(up)
    BY <1>1, <1>3, OpenMeansPointed, PointersAreNotOwn DEF UpvaluesOK
  <2>2. a \in 0 .. stack.size - 1
    BY <2>1, OpenedSet, OpenInStack
  <2>3. a \in Addresses
    BY <2>2, StackShape DEF Typed
  <2> QED BY <1>1, <2>2, <2>3 DEF Readable
<1> QED BY <1>2, <1>3

\* What an upvalue holds is whole.
LEMMA DerefWhole ==
    ASSUME NEW fs \in SUBSET FunctionObjects,
           NEW h \in Nat, Typed(fs, h), UpvaluesOK(fs, h, up), NEW counts, KnowsOpen(counts),
           NEW ops, At(ops), NEW u \in 1 .. h, AllWhole(counts, stack), UpvaluesWhole(counts, up)
    PROVE  /\ Whole(counts, Deref(up, stack.cells, u))
           /\ up.heap[u].value # OwnCell => Whole(counts, stack.cells[up.heap[u].value])
<1>1. Len(up.heap) = h
  BY DEF UpvaluesOK
<1>2. up.heap[u].value = OwnCell \/ up.heap[u].value \in 0 .. stack.size - 1
  BY AllReadable
<1>3. Whole(counts, up.heap[u].closed)
  BY <1>1 DEF UpvaluesWhole
<1>4. up.heap[u].value # OwnCell => Whole(counts, stack.cells[up.heap[u].value])
  BY <1>2 DEF AllWhole
<1> QED BY <1>3, <1>4 DEF Deref

\* Closing dereferences no bad pointer, and copies whole values.
LEMMA ClosesWhole ==
    ASSUME NEW fs \in SUBSET FunctionObjects,
           NEW h \in Nat, Typed(fs, h), UpvaluesOK(fs, h, up), NEW counts, KnowsOpen(counts),
           NEW ops, At(ops), AllWhole(counts, stack), UpvaluesWhole(counts, up),
           NEW last \in Pointers
    PROVE  CanClose(last) /\ UpvaluesWhole(counts, CloseUpvalues(up, stack.cells, last))
<1>1. last \in Int /\ OwnCell < last
  BY MaxSizeAssumption DEF Pointers, Addresses, NULL, OwnCell
<1>2. WellTyped(up, Pointers, ValueOf(fs, h)) /\ Sorted(up) /\ Complete(up) /\ Len(up.heap) = h
  BY DEF UpvaluesOK
<1>3. CanClose(last)
  <2>1. SUFFICES ASSUME NEW u \in ClosedBy(up, last) PROVE u \in 1 .. h
    BY AllReadable DEF CanClose
  <2>2. PICK i \in 1 .. AtOrAbove(up, last) : u = up.open[i]
    BY DEF ClosedBy
  <2>3. i \in 1 .. Len(up.open)
    <3>1. AtOrAbove(up, last) \in 0 .. Len(up.open)
      BY <1>1, <1>2, AtOrAboveStops, PointersAreNotOwn
    <3>2. up.open \in Seq(1 .. Len(up.heap))
      BY <1>2 DEF WellTyped
    <3>3. Len(up.open) \in Nat
      BY <3>2
    <3> QED BY <2>2, <3>1, <3>3
  <2> QED BY <1>2, <2>2, <2>3, OpenEntry, PointersAreNotOwn
<1>4. PICK cells, d : cells = stack.cells /\ d = CloseUpvalues(up, cells, last)
  OBVIOUS
<1>5. Len(d.heap) = h
  <2>1. UpvaluesOK(fs, h, d)
    BY <1>3, <1>4, CloseTyped
  <2> QED BY <2>1 DEF UpvaluesOK
<1>6. ASSUME NEW u \in 1 .. h PROVE Whole(counts, d.heap[u].closed)
  <2>1. d.heap[u] = IF up.heap[u].value >= last
                      THEN [value |-> OwnCell, closed |-> cells[up.heap[u].value]]
                      ELSE up.heap[u]
    <3>1. u \in 1 .. Len(up.heap)
      BY <1>2
    <3>2. CloseUpvalues(up, cells, last).heap[u] =
            IF up.heap[u].value >= last
              THEN [value |-> OwnCell, closed |-> cells[up.heap[u].value]]
              ELSE up.heap[u]
      BY <1>1, <1>2, <3>1, CloseEffect, PointersAreNotOwn
    <3> QED BY <1>4, <3>2, Zenon
  <2>2. CASE up.heap[u].value >= last
    <3>1. up.heap[u].value # OwnCell
      BY <1>1, <2>2 DEF OwnCell
    <3>2. d.heap[u].closed = cells[up.heap[u].value]
      BY <2>1, <2>2
    <3> QED BY <1>4, <3>1, <3>2, DerefWhole
  <2>3. CASE ~(up.heap[u].value >= last)
    BY <1>2, <2>1, <2>3 DEF UpvaluesWhole
  <2> QED BY <2>2, <2>3
<1> QED BY <1>3, <1>4, <1>5, <1>6 DEF UpvaluesWhole

\* The closure that runs has the upvalue that the instruction names.
LEMMA NamesUpvalue ==
    ASSUME NEW fs \in SUBSET FunctionObjects,
           NEW h, Typed(fs, h), NEW counts, Trusts(counts),
           At({"OP_LOAD_UPVALUE"}) \/ At({"OP_SET_UPVALUE"})
    PROVE  HasUpvalue(Instr.upvalue) /\ UpvalueAt(Instr.upvalue) \in 1 .. h
<1>1. PICK ops : At(ops) /\ Instr.op \in {"OP_LOAD_UPVALUE", "OP_SET_UPVALUE"}
  BY DEF At
<1>2. HasFrame
  BY <1>1, RunsInFrame DEF InFrame
<1>3. Works(counts) /\ \A n \in 1 .. Len(calls) :
                          LET a == IF n = Len(calls) THEN pc ELSE calls[n + 1].return_addr
                          IN  counts.upvalues[a] <= Len(calls[n].closure)
  BY <1>1, WholeNow
<1>4. Instr \in Instructions /\ pc \in DOMAIN counts.cells /\ pc \notin counts.setup
  BY <1>1, <1>2, <1>3, Room
<1>5. PICK index \in Nat : index = Instr.upvalue
  BY <1>1, <1>4, Operands
<1>6. index < counts.upvalues[pc] /\ counts.upvalues[pc] \in Nat
  BY <1>1, <1>4, <1>5 DEF Trusts, Resolved, Instr
<1>7. Len(calls) \in 1 .. Len(calls) /\ CurrentCall.closure \in Seq(1 .. h)
  BY <1>2, CurrentFrame
<1>8. counts.upvalues[pc] <= Len(CurrentCall.closure)
  BY <1>3, <1>7 DEF CurrentCall
<1>9. Len(CurrentCall.closure) \in Nat
  BY <1>7
<1>10. HasUpvalue(index)
  BY <1>2, <1>6, <1>8, <1>9 DEF HasUpvalue
<1> QED BY <1>5, <1>10, UpvalueAtTyped

LEMMA LoadUpvalueWhole ==
    ASSUME NEW fs \in SUBSET FunctionObjects,
           NEW h \in Nat, Typed(fs, h), UpvaluesOK(fs, h, up), NEW counts, Trusts(counts), LoadUpvalue
    PROVE  KeepsWhole(counts)
<1> DEFINE ops == {"OP_LOAD_UPVALUE"}
<1>1. At(ops) /\ "OP_CLOSURE" \notin ops /\ KnowsOpen(counts)
  BY DEF LoadUpvalue, Trusts
<1>2. /\ exit = "RUNNING" /\ stack \in StackOf(ValueOf(fs, h)) /\ AllWhole(counts, stack)
      /\ UpvaluesWhole(counts, up) /\ GlobalsWhole(counts, globals)
  <2> HIDE DEF ops
  <2> QED BY <1>1, WholeRoom
<1>3. PICK u \in 1 .. h : u = UpvalueAt(Instr.upvalue) /\ HasUpvalue(Instr.upvalue)
  BY <1>1, NamesUpvalue
<1>4. Readable(u) /\ Whole(counts, Deref(up, stack.cells, u))
  BY <1>1, <1>2, AllReadable, DerefWhole
<1>5. PICK v : v = Deref(up, stack.cells, u)
  OBVIOUS
<1>6. PushOrHalt(stack, v) /\ UNCHANGED <<up, globals>>
  BY <1>3, <1>4, <1>5 DEF LoadUpvalue
<1> QED BY <1>2, <1>4, <1>5, <1>6, PushOrHaltWhole, StackKeepsWhole

LEMMA SetUpvalueWhole ==
    ASSUME NEW fs \in SUBSET FunctionObjects,
           NEW h \in Nat, Typed(fs, h), UpvaluesOK(fs, h, up), NEW counts, Trusts(counts), SetUpvalue
    PROVE  KeepsWhole(counts)
<1> DEFINE ops == {"OP_SET_UPVALUE"}
<1>1. At(ops) /\ "OP_CLOSURE" \notin ops /\ Instr.op \in ops /\ KnowsOpen(counts)
  BY DEF SetUpvalue, Trusts, At
<1>2. /\ exit = "RUNNING" /\ stack \in StackOf(ValueOf(fs, h)) /\ AllWhole(counts, stack)
      /\ UpvaluesWhole(counts, up) /\ GlobalsWhole(counts, globals) /\ Works(counts)
      /\ (CanPop(stack) => Whole(counts, Peek(stack)))
  <2> HIDE DEF ops
  <2> QED BY <1>1, WholeRoom
<1>3. PICK u \in 1 .. h : u = UpvalueAt(Instr.upvalue) /\ HasUpvalue(Instr.upvalue)
  BY <1>1, NamesUpvalue
<1>4. Readable(u)
  BY <1>1, AllReadable
<1>5. CanPop(stack) /\ ~StackEmpty /\ Pop(stack) \in StackOf(ValueOf(fs, h))
  <2>1. Takes(Instr) >= 1
    BY <1>1 DEF Takes, Arithmetic
  <2> HIDE DEF ops
  <2> QED BY <1>1, <1>2, <2>1, FindsOperand
<1>6. PICK rest, v : rest = Pop(stack) /\ v = Peek(stack) /\ Whole(counts, v)
  BY <1>2, <1>5
<1>7. /\ up' = AssignOwn(up, u, v) /\ UNCHANGED <<globals, exit>>
      /\ stack' = [rest EXCEPT !.cells = AssignCell(@, up, u, v)]
  BY <1>3, <1>4, <1>5, <1>6, Zenon DEF SetUpvalue
<1>8. AllWhole(counts, rest) /\ rest \in StackOf(ValueOf(fs, h))
  BY <1>2, <1>5, <1>6, ShrinkWhole
<1>9. CASE up.heap[u].value = OwnCell
  <2>1. up' = [up EXCEPT !.heap[u].closed = v] /\ stack' = [rest EXCEPT !.cells = rest.cells]
    BY <1>7, <1>9 DEF AssignOwn, AssignCell
  <2>2. stack'.cells = rest.cells /\ stack'.size = rest.size
    BY <1>8, <2>1 DEF StackOf
  <2>3. AllWhole(counts, stack')
    BY <1>8, <2>2 DEF AllWhole
  <2>4. UpvaluesWhole(counts, up')
    <3>1. up \in [heap : Seq([value : {OwnCell} \cup Pointers, closed : ValueOf(fs, h)]),
                  open : Seq(1 .. Len(up.heap))] /\ Len(up.heap) = h
      BY DEF UpvaluesOK, WellTyped
    <3>2. PICK entry : entry = [up.heap[u] EXCEPT !.closed = v]
      OBVIOUS
    <3>3. PICK heap : heap = [up.heap EXCEPT ![u] = entry]
      OBVIOUS
    <3>4. up'.heap = heap
      BY <2>1, <3>1, <3>2, <3>3
    <3>5. up.heap[u] \in [value : {OwnCell} \cup Pointers, closed : ValueOf(fs, h)]
      BY <3>1, ElementOfSeq
    <3>6. entry.closed = v
      BY <3>2, <3>5
    <3>7. Len(heap) = Len(up.heap) /\ heap[u] = entry
          /\ \A k \in 1 .. h : k # u => heap[k] = up.heap[k]
      BY <3>1, <3>3
    <3>8. \A k \in 1 .. h : Whole(counts, heap[k].closed)
      BY <1>2, <1>6, <3>1, <3>6, <3>7 DEF UpvaluesWhole
    <3> QED BY <3>1, <3>4, <3>7, <3>8 DEF UpvaluesWhole
  <2> QED BY <1>2, <1>7, <2>3, <2>4 DEF KeepsWhole
<1>10. CASE up.heap[u].value # OwnCell
  <2>1. PICK a : a = up.heap[u].value
    OBVIOUS
  <2>2. up' = up /\ stack' = [rest EXCEPT !.cells = [@ EXCEPT ![a] = v]]
    BY <1>7, <1>10, <2>1 DEF AssignOwn, AssignCell
  <2>3. AllWhole(counts, stack')
    BY <1>6, <1>8, <2>2, AssignWhole
  <2> QED BY <1>2, <1>7, <2>2, <2>3 DEF KeepsWhole
<1> QED BY <1>9, <1>10

LEMMA CloseUpvalueWhole ==
    ASSUME NEW fs \in SUBSET FunctionObjects,
           NEW h \in Nat, Typed(fs, h), UpvaluesOK(fs, h, up), NEW counts, Trusts(counts), CloseUpvalue
    PROVE  KeepsWhole(counts)
<1> DEFINE ops == {"OP_CLOSE_UPVALUE"}
<1>1. At(ops) /\ "OP_CLOSURE" \notin ops /\ KnowsOpen(counts)
  BY DEF CloseUpvalue, Trusts
<1>2. /\ exit = "RUNNING" /\ stack \in StackOf(ValueOf(fs, h)) /\ AllWhole(counts, stack)
      /\ UpvaluesWhole(counts, up) /\ GlobalsWhole(counts, globals) /\ stack.size \in Nat
  <2> HIDE DEF ops
  <2> QED BY <1>1, WholeRoom
<1>3. PICK closed : closed = Get(stack, (stack.size - 1) % U32)
  OBVIOUS
<1>4. closed \in Pointers
  <2>1. stack.size - 1 \in Int
    BY <1>2
  <2>2. (stack.size - 1) % U32 \in Nat
    BY <2>1, ModRange
  <2> QED BY <1>2, <1>3, <2>2, GetRange DEF Pointers
<1>5. CanClose(closed) /\ UpvaluesWhole(counts, CloseUpvalues(up, stack.cells, closed))
  BY <1>1, <1>2, <1>4, ClosesWhole
<1>6. /\ up' = CloseUpvalues(up, stack.cells, closed) /\ stack' = PopN(stack, 1)
      /\ UNCHANGED <<globals, exit>>
  BY <1>3, <1>5 DEF CloseUpvalue
<1>7. AllWhole(counts, stack')
  BY <1>2, <1>6, ShrinkWhole
<1> QED BY <1>2, <1>5, <1>6, <1>7 DEF KeepsWhole

\* A round of OP_CLOSURE's loop adds one upvalue to the closure; an upvalue
\* that it makes holds MAKE_NULL().
LEMMA CaptureOneWhole ==
    ASSUME NEW fs \in SUBSET FunctionObjects,
           NEW h \in Nat, NEW r, RoundOK(fs, h, r), NEW counts, UpvaluesWhole(counts, r.up),
           NEW capture \in Capture
    PROVE  /\ UpvaluesWhole(counts, CaptureOne(r, capture).up)
           /\ Len(CaptureOne(r, capture).refs) = Len(r.refs) + 1
<1>1. PICK d : d = CaptureOne(r, capture)
  OBVIOUS
<1>2. r.refs \in Seq(1 .. Len(r.up.heap))
  BY DEF RoundOK
<1>3. \A u : Len(Append(r.refs, u)) = Len(r.refs) + 1
  BY <1>2
<1>4. CASE capture.local
  <2>1. PICK cell : cell = Get(stack, (CurrentCall.stack_addr + capture.index) % U32)
    OBVIOUS
  <2>2. d = [up |-> CaptureUpvalue(r.up, cell), refs |-> Append(r.refs, Captured(r.up, cell))]
    BY <1>1, <1>4, <2>1 DEF CaptureOne
  <2>3. d.up = CaptureUpvalue(r.up, cell) /\ Len(d.refs) = Len(r.refs) + 1
    BY <1>3, <2>2
  <2>4. UpvaluesWhole(counts, Created(r.up, cell))
    <3>1. PICK heap : heap = r.up.heap
                      /\ heap \in Seq([value : {OwnCell} \cup Pointers, closed : ValueOf(fs, h)])
      BY DEF RoundOK, WellTyped
    <3>2. PICK entry : entry = [value |-> cell, closed |-> NullValue]
      OBVIOUS
    <3>3. Created(r.up, cell).heap = Append(heap, entry)
      BY <3>1, <3>2 DEF Created
    <3>4. Len(Append(heap, entry)) = Len(heap) + 1 /\ Len(heap) \in Nat
          /\ \A u \in 1 .. Len(heap) + 1 :
               Append(heap, entry)[u] = IF u = Len(heap) + 1 THEN entry ELSE heap[u]
      BY <3>1
    <3>5. Whole(counts, entry.closed)
      BY <3>2, MadeWhole, VMAssumption
    <3>6. ASSUME NEW u \in 1 .. Len(heap) + 1 PROVE Whole(counts, Append(heap, entry)[u].closed)
      <4>1. CASE u = Len(heap) + 1
        BY <3>4, <3>5, <4>1
      <4>2. CASE u # Len(heap) + 1
        <5>1. u \in 1 .. Len(heap)
          BY <3>4, <4>2
        <5> QED BY <3>1, <3>4, <4>2, <5>1 DEF UpvaluesWhole
      <4> QED BY <4>1, <4>2
    <3> QED BY <3>3, <3>4, <3>6 DEF UpvaluesWhole
  <2>5. UpvaluesWhole(counts, d.up)
    BY <2>3, <2>4 DEF CaptureUpvalue
  <2> QED BY <1>1, <2>3, <2>5
<1>5. CASE ~capture.local
  <2>1. d = [up |-> r.up, refs |-> Append(r.refs, UpvalueAt(capture.index))]
    BY <1>1, <1>5 DEF CaptureOne, RoundOK
  <2>2. d.up = r.up /\ Len(d.refs) = Len(r.refs) + 1
    BY <1>3, <2>1
  <2> QED BY <1>1, <2>2
<1> QED BY <1>4, <1>5

LEMMA CaptureAllWhole ==
    ASSUME NEW fs \in SUBSET FunctionObjects,
           NEW h \in Nat, Typed(fs, h), UpvaluesOK(fs, h, up), NEW captures \in Seq(Capture),
           \A i \in 1 .. Len(captures) : CanCapture(captures[i]),
           NEW counts, UpvaluesWhole(counts, up)
    PROVE  /\ UpvaluesWhole(counts, CaptureAll(captures).up)
           /\ Len(CaptureAll(captures).refs) = Len(captures)
<1>1. PICK n \in Nat : n = Len(captures)
  OBVIOUS
<1>2. PICK rounds : Runs(rounds, captures, n) /\ CaptureAll(captures) = rounds[n]
  BY <1>1, CaptureAllRuns
<1> DEFINE OK(m) == /\ RoundOK(fs, h, rounds[m]) /\ UpvaluesWhole(counts, rounds[m].up)
                    /\ Len(rounds[m].refs) = m
<1> DEFINE S == { m \in 0 .. n : ~ OK(m) }
<1>3. SUFFICES ASSUME S # {} PROVE FALSE
  BY <1>1, <1>2
<1>4. PICK m \in S : \A k \in S : m <= k
  <2>1. S \subseteq Nat
    OBVIOUS
  <2> HIDE DEF S
  <2> QED BY <1>3, <2>1, LeastMember
<1>5. CASE m = 0
  <2>1. PICK r : r = rounds[0]
    OBVIOUS
  <2>2. r = [up |-> up, refs |-> <<>>]
    BY <1>4, <1>5, <1>2, <2>1 DEF Runs
  <2>3. <<>> \in Seq(1 .. Len(up.heap)) /\ Len(<<>>) = 0
    OBVIOUS
  <2>4. RoundOK(fs, h, r)
    BY <2>2, <2>3 DEF RoundOK, UpvaluesOK
  <2>5. UpvaluesWhole(counts, r.up) /\ Len(r.refs) = 0
    BY <2>2, <2>3
  <2> QED BY <1>4, <1>5, <2>1, <2>4, <2>5
<1>6. CASE m # 0
  <2>1. m - 1 \in 0 .. n /\ m \in 1 .. Len(captures) /\ (m - 1) + 1 = m
    BY <1>1, <1>4, <1>6
  <2>2. PICK r : r = rounds[m - 1] /\ RoundOK(fs, h, r) /\ UpvaluesWhole(counts, r.up)
                 /\ Len(r.refs) = m - 1
    BY <1>4, <2>1
  <2>3. PICK capture \in Capture : capture = captures[m] /\ CanCapture(capture)
    BY <2>1, ElementOfSeq
  <2>4. PICK d : d = rounds[m] /\ d = CaptureOne(r, capture)
    BY <1>2, <1>4, <1>6, <2>2, <2>3 DEF Runs
  <2>5. RoundOK(fs, h, d)
    BY <2>2, <2>3, <2>4, CaptureOneTyped
  <2>6. UpvaluesWhole(counts, d.up) /\ Len(d.refs) = (m - 1) + 1
    BY <2>2, <2>3, <2>4, CaptureOneWhole
  <2> QED BY <1>4, <2>1, <2>4, <2>5, <2>6
<1> QED BY <1>5, <1>6

\* OP_CLOSURE finds what it captures, and makes a closure of the function
\* that was made for it.
LEMMA MakeClosureWhole ==
    ASSUME NEW fs \in SUBSET FunctionObjects,
           NEW h \in Nat, Typed(fs, h), UpvaluesOK(fs, h, up), NEW counts, Trusts(counts), MakeClosure
    PROVE  KeepsWhole(counts)
<1> DEFINE ops == {"OP_CLOSURE"}
<1>1. At(ops) /\ Instr.op = "OP_CLOSURE"
  BY DEF MakeClosure, At
<1>2. /\ UpvaluesWhole(counts, up) /\ GlobalsWhole(counts, globals) /\ exit = "RUNNING"
      /\ Works(counts)
      /\ \A n \in 1 .. Len(calls) :
            LET a == IF n = Len(calls) THEN pc ELSE calls[n + 1].return_addr
            IN  counts.upvalues[a] <= Len(calls[n].closure)
  BY <1>1, WholeNow
<1>3. HasFrame
  BY <1>1, RunsInFrame DEF InFrame
<1>4. /\ stack \in StackOf(ValueOf(fs, h)) /\ stack.size \in Nat /\ Instr \in Instructions
      /\ pc \in DOMAIN counts.cells /\ pc \notin counts.setup
  BY <1>1, <1>2, <1>3, Room
<1>5. PICK captures \in Seq(Capture) : captures = Instr.captures
  BY <1>1, <1>4, Operands
<1>6. CanPop(stack) /\ ~StackEmpty /\ Pop(stack) \in StackOf(ValueOf(fs, h))
      /\ Pop(stack).size = stack.size - 1
  <2>1. Takes(Instr) >= 1
    BY <1>1 DEF Takes, Arithmetic
  <2> HIDE DEF ops
  <2> QED BY <1>1, <1>2, <2>1, FindsOperand
<1>7. PICK callee, rest : callee = Peek(stack) /\ rest = Pop(stack)
  OBVIOUS
<1>8. /\ \A a \in 0 .. stack.size - 2 : Whole(counts, stack.cells[a])
      /\ Whole(counts, callee) \/ Unfinished(counts)
  <2>1. stack.size - 1 \in 0 .. stack.size - 1
    BY <1>4, <1>6 DEF CanPop
  <2>2. \A a \in 0 .. stack.size - 2 : a \in 0 .. stack.size - 1 /\ a # stack.size - 1
    BY <1>4
  <2> QED BY <1>2, <1>7, <2>1, <2>2 DEF Trusts, Supplied, Peek
<1>9. AllWhole(counts, rest)
  <2>1. rest.cells = stack.cells /\ rest.size = stack.size - 1
    BY <1>4, <1>6, <1>7, PopTyped
  <2>2. \A a \in 0 .. rest.size - 1 : a \in 0 .. stack.size - 2
    BY <1>4, <2>1
  <2> QED BY <1>8, <2>1, <2>2 DEF AllWhole
<1>10. callee # Indeterminate
  BY <1>7, <1>8, VMAssumption DEF Whole, Unfinished, IsKind, IsObject, Garbage
<1>11. ASSUME NEW i \in 1 .. Len(captures) PROVE CanCapture(captures[i])
  <2>1. captures[i] \in Capture
    BY ElementOfSeq
  <2>2. CASE captures[i].local
    BY <1>3, <2>2 DEF CanCapture
  <2>3. CASE ~captures[i].local
    <3>1. i \in DOMAIN Instr.captures
      BY <1>5
    <3>2. captures[i].index < counts.upvalues[pc] /\ counts.upvalues[pc] \in Nat
      BY <1>1, <1>4, <1>5, <2>3, <3>1 DEF Trusts, Resolved, Instr
    <3>3. Len(calls) \in 1 .. Len(calls) /\ CurrentCall.closure \in Seq(1 .. h)
      BY <1>3, CurrentFrame
    <3>4. counts.upvalues[pc] <= Len(CurrentCall.closure)
      BY <1>2, <3>3 DEF CurrentCall
    <3>5. captures[i].index < Len(CurrentCall.closure)
      <4>1. Len(CurrentCall.closure) \in Nat /\ captures[i].index \in Nat
        BY <2>1, <3>3 DEF Capture
      <4> QED BY <3>2, <3>4, <4>1
    <3> QED BY <1>3, <2>3, <3>5 DEF CanCapture, HasUpvalue
  <2> QED BY <2>2, <2>3
<1>12. PICK made : made = CaptureAll(captures)
  OBVIOUS
<1>13. UpvaluesWhole(counts, made.up) /\ Len(made.refs) = Len(captures)
  BY <1>2, <1>11, <1>12, CaptureAllWhole
<1>14. \/ RuntimeError(rest, "EXIT_USER_ERROR")
       \/ /\ IsKind(callee, "function")
          /\ up' = made.up
          /\ stack' = Push(rest, Object(Closure(callee.object, made.refs)))
          /\ UNCHANGED <<exit, globals>>
  <2>1. ~(\E c \in { captures[i] : i \in DOMAIN captures } : ~CanCapture(c))
    BY <1>5, <1>11
  <2> QED BY <1>5, <1>6, <1>7, <1>10, <1>12, <2>1, Zenon DEF MakeClosure
<1>15. CASE RuntimeError(rest, "EXIT_USER_ERROR")
  BY <1>15 DEF RuntimeError, KeepsWhole
<1>16. CASE /\ IsKind(callee, "function")
            /\ up' = made.up
            /\ stack' = Push(rest, Object(Closure(callee.object, made.refs)))
            /\ UNCHANGED <<exit, globals>>
  <2>1. PICK v : v = Object(Closure(callee.object, made.refs))
    OBVIOUS
  <2>2. Needs(prog, counts, callee.object) <= Len(captures)
    <3>1. Len(captures) \in Nat
      BY <1>5
    <3> QED BY <1>5, <1>7, <1>8, <1>16, <3>1 DEF Whole, Unfinished
  <2>3. /\ v # Indeterminate /\ ~IsKind(v, "function")
        /\ v.object.function = callee.object /\ v.object.upvalues = made.refs
    BY <2>1, VMAssumption DEF Object, Closure, Garbage, IsKind
  <2>4. Whole(counts, v)
    BY <1>13, <2>2, <2>3 DEF Whole
  <2>5. AllWhole(counts, stack')
    BY <1>6, <1>7, <1>9, <1>16, <2>1, <2>4, PushWhole
  <2> QED BY <1>2, <1>13, <1>16, <2>5 DEF KeepsWhole
<1> QED BY <1>14, <1>15, <1>16

\* Every frame has the upvalues of its code, when the last of the frames t is
\* at a.
FramesWhole(counts, t, a) ==
    \A n \in 1 .. Len(t) :
        LET b == IF n = Len(t) THEN a ELSE t[n + 1].return_addr
        IN  counts.upvalues[b] <= Len(t[n].closure)

\* Whole of module Balance, and Supplied, for a given program.
WholeIn(program, counts, v) ==
    /\ v # Indeterminate
    /\ IsKind(v, "function") => Needs(program, counts, v.object) = 0
    /\ IsKind(v, "closure") => Needs(program, counts, v.object.function) <= Len(v.object.upvalues)

LEMMA WholeInNow ==
    ASSUME NEW counts, NEW v
    PROVE  Whole(counts, v) <=> WholeIn(prog, counts, v)
BY DEF Whole, WholeIn

LEMMA SuppliedThen ==
    ASSUME NEW counts
    PROVE  Supplied(counts)' <=>
             (exit' = "RUNNING" =>
                /\ \A a \in 0 .. stack'.size - 1 :
                     \/ WholeIn(prog', counts, stack'.cells[a])
                     \/ a = stack'.size - 1 /\ Unfinished(counts)'
                /\ \A u \in 1 .. Len(up'.heap) : WholeIn(prog', counts, up'.heap[u].closed)
                /\ \A name \in DOMAIN globals' : WholeIn(prog', counts, globals'[name])
                /\ FramesWhole(counts, calls', pc'))
BY DEF Supplied, Whole, WholeIn, FramesWhole

LEMMA SuppliedNext ==
    ASSUME NEW counts, prog' = prog, KeepsWhole(counts),
           exit' = "RUNNING" => FramesWhole(counts, calls', pc')
    PROVE  Supplied(counts)'
<1>1. SUFFICES ASSUME exit' = "RUNNING" PROVE Supplied(counts)'
  BY SuppliedThen
<1>2. \A a \in 0 .. stack'.size - 1 : WholeIn(prog, counts, stack'.cells[a])
  BY <1>1, WholeInNow DEF KeepsWhole, AllWhole
<1>3. \A u \in 1 .. Len(up'.heap) : WholeIn(prog, counts, up'.heap[u].closed)
  BY <1>1, WholeInNow DEF KeepsWhole, UpvaluesWhole
<1>4. \A name \in DOMAIN globals' : WholeIn(prog, counts, globals'[name])
  BY <1>1, WholeInNow DEF KeepsWhole, GlobalsWhole
<1> QED BY <1>1, <1>2, <1>3, <1>4, SuppliedThen

\* An instruction that goes on in its function needs no more upvalues there.
LEMMA FollowsWhole ==
    ASSUME NEW fs \in SUBSET FunctionObjects,
           NEW h, Typed(fs, h), NEW counts, Trusts(counts), NEW ops, At(ops),
           NEW b \in Follows(prog, pc)
    PROVE  FramesWhole(counts, calls, b)
<1>1. /\ Works(counts)
      /\ \A n \in 1 .. Len(calls) :
            LET a == IF n = Len(calls) THEN pc ELSE calls[n + 1].return_addr
            IN  counts.upvalues[a] <= Len(calls[n].closure)
  BY WholeNow
<1>2. pc \in DOMAIN counts.cells /\ (pc \in counts.setup <=> ~HasFrame)
  BY <1>1, Room
<1>3. CASE ~HasFrame
  BY <1>3 DEF HasFrame, FramesWhole
<1>4. CASE HasFrame
  <2>1. counts.upvalues[b] = counts.upvalues[pc]
    BY <1>2, <1>4 DEF Trusts, Resolved
  <2> QED BY <1>1, <2>1 DEF FramesWhole
<1> QED BY <1>3, <1>4

LEMMA GoesAheadSupplied ==
    ASSUME NEW fs \in SUBSET FunctionObjects,
           NEW h, Typed(fs, h), NEW counts, Trusts(counts), NEW ops, At(ops),
           KeepsWhole(counts), exit' = "RUNNING" => GoesAhead, prog' = prog
    PROVE  exit' # "UNDEFINED" /\ Supplied(counts)'
<1>1. exit' = "RUNNING" => FramesWhole(counts, calls', pc')
  BY FollowsWhole DEF GoesAhead
<1>2. exit' # "UNDEFINED"
  BY DEF KeepsWhole
<1> QED BY <1>1, <1>2, SuppliedNext

\* A function that needs upvalues is pushed where it becomes a closure next.
LEMMA FunctionSupplied ==
    ASSUME NEW fs \in SUBSET FunctionObjects,
           NEW h, Typed(fs, h), NEW counts, Trusts(counts), PushLiteral, Instr.op = "OP_FUNCTION",
           exit' = "RUNNING" => GoesAhead
    PROVE  exit' # "UNDEFINED" /\ Supplied(counts)'
<1> DEFINE ops == {"OP_FUNCTION"}
<1>1. /\ At(ops) /\ pc' = AfterInstr /\ PushOrHalt(stack, Literal(Instr))
      /\ UNCHANGED <<prog, calls, up, globals>>
  BY DEF PushLiteral, At
<1>2. "OP_CLOSURE" \notin ops
  OBVIOUS
<1> HIDE DEF ops
<1>3. /\ exit = "RUNNING" /\ Works(counts) /\ stack \in StackOf(ValueOf(fs, h)) /\ stack.size \in Nat
      /\ AllWhole(counts, stack) /\ UpvaluesWhole(counts, up) /\ GlobalsWhole(counts, globals)
  BY <1>1, <1>2, WholeRoom
<1>4. exit' # "UNDEFINED"
  BY <1>1, <1>3 DEF PushOrHalt
<1>5. SUFFICES ASSUME exit' = "RUNNING" PROVE Supplied(counts)'
  BY <1>4 DEF Supplied
<1>6. FramesWhole(counts, calls', pc')
  BY <1>1, <1>5, FollowsWhole DEF GoesAhead
<1>7. PICK v : v = Object(Function(Instr.ptr, Instr.argcount)) /\ v = Literal(Instr)
  BY DEF Literal
<1>8. /\ v # Indeterminate /\ IsKind(v, "function") /\ ~IsKind(v, "closure")
      /\ v.object.ptr = Instr.ptr
  BY <1>7, VMAssumption DEF Object, Function, Garbage, IsKind, IsObject
<1>9. Needs(prog, counts, v.object) = Needs(prog, counts, Instr)
  BY <1>8 DEF Needs
<1>10. PICK next : next = CellAt(prog, pc + Width(Instr))
  OBVIOUS
<1>11. IF next.op = "OP_CLOSURE"
         THEN Needs(prog, counts, Instr) <= Len(next.captures)
         ELSE Needs(prog, counts, Instr) = 0
  <2>1. pc \in DOMAIN counts.cells
    BY <1>1, <1>3, Room
  <2> QED BY <2>1, <1>10 DEF Trusts, Resolved, Instr
<1>12. CanPush(stack) /\ stack' = Push(stack, v)
  BY <1>1, <1>5, <1>7 DEF PushOrHalt
<1>13. PICK c : c = [stack.cells EXCEPT ![stack.size] = v]
  OBVIOUS
<1>14. stack'.cells = c /\ stack'.size = stack.size + 1 /\ stack'.size - 1 = stack.size
  BY <1>3, <1>12, <1>13 DEF Push
<1>15. c[stack.size] = v /\ \A a \in 0 .. stack.size - 1 : c[a] = stack.cells[a]
  <2>1. stack.size \in Addresses
    BY <1>3, <1>12, StackShape, MaxSizeAssumption DEF CanPush, Addresses
  <2>2. stack.cells \in [Addresses -> ValueOf(fs, h)]
    BY <1>3 DEF StackOf
  <2>3. \A a \in 0 .. stack.size - 1 : a \in Addresses /\ a # stack.size
    BY <1>3, StackShape, MaxSizeAssumption DEF Addresses
  <2> QED BY <1>13, <2>1, <2>2, <2>3
<1>16. ASSUME NEW a \in 0 .. stack'.size - 1
       PROVE  WholeIn(prog', counts, stack'.cells[a]) \/ (a = stack'.size - 1 /\ Unfinished(counts)')
  <2>1. CASE a # stack.size
    <3>1. a \in 0 .. stack.size - 1
      BY <1>3, <1>14, <2>1
    <3>2. Whole(counts, stack'.cells[a])
      BY <1>3, <1>14, <1>15, <3>1 DEF AllWhole
    <3> QED BY <1>1, <3>2, WholeInNow
  <2>2. CASE a = stack.size /\ next.op # "OP_CLOSURE"
    <3>1. Whole(counts, v)
      BY <1>8, <1>9, <1>11, <2>2 DEF Whole
    <3>2. stack'.cells[a] = v
      BY <1>14, <1>15, <2>2
    <3> QED BY <1>1, <3>1, <3>2, WholeInNow
  <2>3. CASE a = stack.size /\ next.op = "OP_CLOSURE"
    <3>1. Instr' = next
      BY <1>1, <1>10 DEF Instr, AfterInstr
    <3>2. Peek(stack') = v
      BY <1>14, <1>15 DEF Peek
    <3>3. Needs(prog', counts, v.object) <= Len(next.captures)
      BY <1>1, <1>9, <1>11, <2>3
    <3>4. Unfinished(counts)'
      BY <1>8, <2>3, <3>1, <3>2, <3>3 DEF Unfinished
    <3> QED BY <1>14, <2>3, <3>4
  <2> QED BY <2>1, <2>2, <2>3
<1>17. \A u \in 1 .. Len(up'.heap) : WholeIn(prog', counts, up'.heap[u].closed)
  BY <1>1, <1>3, WholeInNow DEF UpvaluesWhole
<1>18. \A name \in DOMAIN globals' : WholeIn(prog', counts, globals'[name])
  BY <1>1, <1>3, WholeInNow DEF GlobalsWhole
<1> QED BY <1>6, <1>16, <1>17, <1>18, SuppliedThen

\* What a native leaves on the stack.
LEMMA NativeWhole ==
    ASSUME NEW fs \in SUBSET FunctionObjects,
           NEW h, NEW s \in StackOf(ValueOf(fs, h)), NEW counts, AllWhole(counts, s), NEW argcount,
           NEW name \in StandardNatives \cup HostNatives
    PROVE  AllWhole(counts, NativeResult(name, argcount, s).stack)
<1>1. PICK s1, s2, s3 : s1 = Pop(s) /\ s2 = Pop(s1) /\ s3 = Pop(s2)
  OBVIOUS
<1>2. s1 \in StackOf(ValueOf(fs, h)) /\ s2 \in StackOf(ValueOf(fs, h))
      /\ s3 \in StackOf(ValueOf(fs, h))
  BY <1>1, ArgumentTyped
<1>3. AllWhole(counts, s1) /\ AllWhole(counts, s2) /\ AllWhole(counts, s3)
  BY <1>1, <1>2, ShrinkWhole
<1>4. /\ \A n : AllWhole(counts, Push(s1, Number(n)))
      /\ \A x : AllWhole(counts, Push(s1, Object(String(x))))
      /\ \A x : AllWhole(counts, Push(s2, Object(String(x))))
      /\ \A x : AllWhole(counts, Push(s3, Object(String(x))))
      /\ \A b : AllWhole(counts, Push(s2, Boolean(b)))
  BY <1>2, <1>3, MadeWhole, PushWhole
<1>5. AllWhole(counts, NativeSize(argcount, s).stack)
  BY <1>1, <1>3, <1>4 DEF NativeSize, Result
<1>6. AllWhole(counts, NativeContains(argcount, s).stack)
  BY <1>1, <1>3, <1>4 DEF NativeContains, Result
<1>7. AllWhole(counts, NativeWrite(argcount, s).stack)
  BY <1>1, <1>3 DEF NativeWrite, Result
<1>8. AllWhole(counts, NativePrompt(argcount, s).stack)
  BY <1>1, <1>3, <1>4 DEF NativePrompt, Result
<1>9. AllWhole(counts, NativeSubstring(argcount, s).stack)
  <2>1. CASE argcount = 3
    BY <1>1, <1>3, <1>4, <2>1 DEF NativeSubstring, Result
  <2>2. CASE argcount # 3
    BY <1>1, <1>3, <1>4, <2>2 DEF NativeSubstring, Result
  <2> QED BY <2>1, <2>2
<1>10. name \in {"size", "substring", "contains", "write", "prompt"}
  BY ProgramsAssumption DEF StandardNatives
<1> QED BY <1>5, <1>6, <1>7, <1>8, <1>9, <1>10 DEF NativeResult

\* A native looks at its arguments alone.
LEMMA NativeSees ==
    ASSUME NEW V, NEW s \in StackOf(V), NEW counts, AllWhole(counts, s), NEW argcount
    PROVE  ~NativeUndefined(argcount, s)
<1>1. SUFFICES ASSUME NEW i \in 1 .. argcount, i <= s.size PROVE s.cells[s.size - i] # Indeterminate
  BY DEF NativeUndefined
<1>2. s.size - i \in 0 .. s.size - 1
  BY <1>1, StackShape
<1> QED BY <1>2 DEF AllWhole, Whole

\* What a call does when nothing undefined happens: it makes a frame that has
\* the upvalues of its function, or goes on without one.
Begins(counts) ==
    \E f, base, refs :
        /\ calls' = Append(calls, [return_addr |-> AfterInstr, stack_addr |-> base, closure |-> refs])
        /\ pc' = prog.data + f.ptr
        /\ Needs(prog, counts, f) <= Len(refs)
CallsWhole(counts) ==
    /\ exit' # "UNDEFINED"
    /\ exit' = "RUNNING" => /\ AllWhole(counts, stack') /\ UNCHANGED <<prog, up, globals>>
                            /\ (calls' = calls /\ pc' = AfterInstr) \/ Begins(counts)

LEMMA TryCallWhole ==
    ASSUME NEW fs \in SUBSET FunctionObjects,
           NEW h, Typed(fs, h), NEW counts, exit = "RUNNING",
           NEW callee \in ValueOf(fs, h), NEW argcount, NEW st \in StackOf(ValueOf(fs, h)),
           AllWhole(counts, st), Whole(counts, callee),
           ~HasFrame => ~Refused(callee, argcount), TryCall(callee, argcount, st, exit)
    PROVE  CallsWhole(counts)
<1>1. ASSUME NEW f, NEW refs, Enter(f, refs, argcount, st, exit), Needs(prog, counts, f) <= Len(refs)
      PROVE  CallsWhole(counts)
  <2>1. Begins(counts) /\ stack' = st /\ exit' = exit /\ UNCHANGED <<prog, up, globals>>
    BY <1>1 DEF Enter, Begins
  <2> QED BY <2>1 DEF CallsWhole
<1>2. ASSUME NEW f, CallFails(f, argcount, st) PROVE CallsWhole(counts)
  <2>1. exit' = CallError(f, argcount) /\ CallError(f, argcount) # "none"
    BY <1>2 DEF CallFails, RuntimeError
  <2>2. CallError(f, argcount) \notin {"UNDEFINED", "RUNNING"}
    BY DEF CallError
  <2> QED BY <2>1, <2>2 DEF CallsWhole
<1>3. callee # Indeterminate
  BY DEF Whole
<1>4. CASE IsKind(callee, "function") /\ CallFunction(callee.object, argcount, st, exit)
  <2>1. PICK f : f = callee.object
    OBVIOUS
  <2>2. Needs(prog, counts, f) = 0
    BY <1>4, <2>1 DEF Whole
  <2>3. Needs(prog, counts, f) <= Len(<<>>)
    BY <2>2
  <2>4. CallFails(f, argcount, st) \/ Enter(f, <<>>, argcount, st, exit)
    BY <1>4, <2>1, Zenon DEF CallFunction
  <2> QED BY <1>1, <1>2, <2>3, <2>4
<1>5. CASE IsKind(callee, "closure") /\ CallClosure(callee.object, argcount, st, exit)
  <2>1. PICK f, refs : f = callee.object.function /\ refs = callee.object.upvalues
    OBVIOUS
  <2>2. Needs(prog, counts, f) <= Len(refs)
    BY <1>5, <2>1 DEF Whole
  <2>3. HasFrame \/ CallError(f, argcount) = "none"
    BY <1>5, <2>1 DEF Refused
  <2>4. CallFails(f, argcount, st) \/ Enter(f, refs, argcount, st, exit)
    BY <1>5, <2>1, <2>3, Zenon DEF CallClosure
  <2> QED BY <1>1, <1>2, <2>2, <2>4
<1>6. CASE IsKind(callee, "native") /\ CallNative(callee.object.native, argcount, st, exit)
  <2>1. PICK name \in StandardNatives \cup HostNatives : name = callee.object.native
    BY <1>6, KnownKinds
  <2>2. PICK result \in Returned(fs, h) : result = NativeResult(name, argcount, st)
    BY NativeResultTyped
  <2>3. ~NativeUndefined(argcount, st) /\ AllWhole(counts, result.stack)
    BY <2>2, NativeSees, NativeWhole
  <2>4. /\ stack' = result.stack /\ exit' = IF result.exit = "none" THEN exit ELSE result.exit
        /\ pc' = AfterInstr /\ UNCHANGED <<prog, calls, up, globals>>
    BY <1>6, <2>1, <2>2, <2>3 DEF CallNative
  <2>5. result.exit \in {"none", "EXIT_USER_ERROR"}
    BY DEF Returned
  <2> QED BY <2>3, <2>4, <2>5 DEF CallsWhole
<1>7. CASE RuntimeError(st, "EXIT_INCORRECT_TYPE")
  BY <1>7 DEF RuntimeError, CallsWhole
<1> QED BY <1>3, <1>4, <1>5, <1>6, <1>7, Zenon DEF TryCall

\* The new frame, and those below it.
LEMMA CallSupplied ==
    ASSUME NEW fs \in SUBSET FunctionObjects,
           NEW h, Typed(fs, h), NEW counts, UpvaluesWhole(counts, up), GlobalsWhole(counts, globals),
           CallsWhole(counts), FramesWhole(counts, calls, AfterInstr)
    PROVE  exit' # "UNDEFINED" /\ Supplied(counts)'
<1>1. exit' # "UNDEFINED"
  BY DEF CallsWhole
<1>2. CASE exit' # "RUNNING"
  BY <1>1, <1>2, SuppliedThen
<1>3. CASE exit' = "RUNNING"
  <2>1. UNCHANGED <<prog, up, globals>> /\ KeepsWhole(counts)
    BY <1>1, <1>3 DEF CallsWhole, KeepsWhole
  <2>2. CASE calls' = calls /\ pc' = AfterInstr
    BY <1>1, <2>1, <2>2, SuppliedNext
  <2>3. CASE Begins(counts)
    <3>1. PICK f, base, refs :
            /\ calls' = Append(calls, [return_addr |-> AfterInstr, stack_addr |-> base, closure |-> refs])
            /\ pc' = prog.data + f.ptr
            /\ Needs(prog, counts, f) <= Len(refs)
      BY <2>3 DEF Begins
    <3>2. PICK frame : frame = [return_addr |-> AfterInstr, stack_addr |-> base, closure |-> refs]
      OBVIOUS
    <3>3. PICK t : t = Append(calls, frame)
      OBVIOUS
    <3>4. calls \in Seq(Frames(h)) /\ Len(calls) \in Nat
      BY DEF Typed, CallsOK
    <3>5. /\ Len(t) = Len(calls) + 1 /\ t[Len(calls) + 1] = frame
          /\ \A k \in 1 .. Len(calls) : t[k] = calls[k]
      BY <3>3, <3>4
    <3>6. ASSUME NEW n \in 1 .. Len(t)
          PROVE  counts.upvalues[IF n = Len(t) THEN pc' ELSE t[n + 1].return_addr] <= Len(t[n].closure)
      <4>1. CASE n = Len(t)
        <5>1. t[n].closure = refs
          BY <3>2, <3>5, <4>1
        <5>2. counts.upvalues[pc'] <= Len(refs)
          BY <3>1 DEF Needs
        <5> QED BY <4>1, <5>1, <5>2
      <4>2. CASE n = Len(calls)
        <5>1. n # Len(t) /\ t[n + 1].return_addr = AfterInstr /\ t[n] = calls[n] /\ n \in 1 .. Len(calls)
          BY <3>2, <3>4, <3>5, <4>2
        <5>2. counts.upvalues[AfterInstr] <= Len(calls[n].closure)
          BY <4>2, <5>1 DEF FramesWhole
        <5> QED BY <5>1, <5>2
      <4>3. CASE n # Len(t) /\ n # Len(calls)
        <5>1. n \in 1 .. Len(calls) /\ n + 1 \in 1 .. Len(calls)
          BY <3>4, <3>5, <4>3
        <5>2. t[n] = calls[n] /\ t[n + 1] = calls[n + 1]
          BY <3>5, <5>1
        <5>3. counts.upvalues[calls[n + 1].return_addr] <= Len(calls[n].closure)
          BY <4>3, <5>1 DEF FramesWhole
        <5> QED BY <4>3, <5>2, <5>3
      <4> QED BY <4>1, <4>2, <4>3
    <3>7. FramesWhole(counts, t, pc')
      BY <3>6 DEF FramesWhole
    <3>8. calls' = t
      BY <3>1, <3>2, <3>3
    <3> QED BY <1>1, <2>1, <3>7, <3>8, SuppliedNext
  <2> QED BY <1>3, <2>2, <2>3 DEF CallsWhole
<1> QED BY <1>2, <1>3

LEMMA OpCallSupplied ==
    ASSUME NEW fs \in SUBSET FunctionObjects,
           NEW h, Typed(fs, h), NEW counts, Trusts(counts), Call
    PROVE  exit' # "UNDEFINED" /\ Supplied(counts)'
<1> DEFINE ops == {"OP_CALL"}
<1>1. At(ops) /\ "OP_CLOSURE" \notin ops /\ Instr.op = "OP_CALL"
  BY DEF Call, At
<1> HIDE DEF ops
<1>2. /\ exit = "RUNNING" /\ Works(counts) /\ stack \in StackOf(ValueOf(fs, h))
      /\ AllWhole(counts, stack) /\ UpvaluesWhole(counts, up) /\ GlobalsWhole(counts, globals)
      /\ (CanPop(stack) => Whole(counts, Peek(stack)))
  BY <1>1, WholeRoom
<1>3. PICK argcount \in Nat : argcount = Instr.argcount
  BY <1>1, Fetched, Operands
<1>4. CanPop(stack) /\ ~StackEmpty /\ Pop(stack) \in StackOf(ValueOf(fs, h))
  <2>1. Takes(Instr) = argcount + 1
    BY <1>1, <1>3 DEF Takes, Arithmetic
  <2>2. Takes(Instr) >= 1
    BY <2>1
  <2> QED BY <1>1, <1>2, <2>2, FindsOperand
<1>5. PICK st, callee : st = Pop(stack) /\ callee = Peek(stack)
  OBVIOUS
<1>6. st \in StackOf(ValueOf(fs, h)) /\ callee \in ValueOf(fs, h) /\ AllWhole(counts, st)
      /\ Whole(counts, callee)
  BY <1>2, <1>4, <1>5, PopTyped, ShrinkWhole
<1>7. TryCall(callee, argcount, st, exit)
  BY <1>3, <1>4, <1>5 DEF Call
<1>8. ~HasFrame => ~Refused(callee, argcount)
  <2>1. At({"OP_CALL"})
    BY <1>1 DEF At
  <2> QED BY <1>3, <1>4, <1>5, <2>1 DEF Trusts, Strands
<1>9. CallsWhole(counts)
  BY <1>2, <1>6, <1>7, <1>8, TryCallWhole
<1>10. FramesWhole(counts, calls, AfterInstr)
  <2>1. Instr.op \in Sequential
    BY <1>1 DEF Sequential, KnownOps, WithPtr, WithByte
  <2> QED BY <1>1, <2>1, NextFollows, FollowsWhole
<1> QED BY <1>2, <1>9, <1>10, CallSupplied

LEMMA BeginSupplied ==
    ASSUME NEW fs \in SUBSET FunctionObjects,
           NEW h, Typed(fs, h), NEW counts, Trusts(counts), Begin
    PROVE  exit' # "UNDEFINED" /\ Supplied(counts)'
<1> DEFINE ops == {"OP_BEGIN"}
<1>1. At(ops) /\ "OP_CLOSURE" \notin ops /\ Instr.op = "OP_BEGIN" /\ At({"OP_BEGIN"})
  BY DEF Begin, At
<1> HIDE DEF ops
<1>2. /\ exit = "RUNNING" /\ Works(counts) /\ stack \in StackOf(ValueOf(fs, h)) /\ stack.size \in Nat
      /\ AllWhole(counts, stack) /\ UpvaluesWhole(counts, up) /\ GlobalsWhole(counts, globals)
  BY <1>1, WholeRoom
<1>3. pc \in DOMAIN counts.cells /\ (pc \in counts.setup <=> ~HasFrame)
  BY <1>1, <1>2, Room
<1>4. ~HasFrame
  BY <1>1, <1>2, <1>3 DEF Works, Verified, Instr
<1>5. CanPush(stack) /\ Defined(host.function)
  BY <1>1, <1>2 DEF Works, LosesValue, At
<1>6. PICK v : v = globals[host.function] /\ v \in ValueOf(fs, h) /\ Whole(counts, v)
  BY <1>2, <1>5 DEF Defined, GlobalsWhole, Typed, GlobalsOK
<1>7. PICK st : st = Push(stack, v) /\ st = StackWithGlobal(host.function)
  BY <1>5, <1>6 DEF StackWithGlobal
<1>8. st \in StackOf(ValueOf(fs, h)) /\ st.size = stack.size + 1 /\ AllWhole(counts, st)
  BY <1>2, <1>5, <1>6, <1>7, PushTyped, PushEffect, PushWhole
<1>9. CanPop(st) /\ Pop(st) \in StackOf(ValueOf(fs, h)) /\ AllWhole(counts, Pop(st))
  <2>1. CanPop(st)
    BY <1>2, <1>8 DEF CanPop
  <2> QED BY <1>8, <2>1, PopTyped, ShrinkWhole
<1>10. Peek(st) = v
  <2>1. stack.size \in Addresses /\ stack.cells \in [Addresses -> ValueOf(fs, h)]
    BY <1>2, <1>5, StackShape, MaxSizeAssumption DEF CanPush, Addresses, StackOf
  <2>2. st.cells = [stack.cells EXCEPT ![stack.size] = v]
    BY <1>5, <1>7 DEF Push
  <2>3. st.cells[stack.size] = v
    BY <2>1, <2>2
  <2>4. st.size - 1 = stack.size
    BY <1>2, <1>8
  <2> QED BY <2>3, <2>4 DEF Peek
<1>11. PICK argcount, rest : argcount = host.args % U8 /\ rest = Pop(st)
  OBVIOUS
<1>12. TryCall(v, argcount, rest, exit)
  BY <1>5, <1>7, <1>9, <1>10, <1>11 DEF Begin, ExitOfGlobal
<1>13. ~Refused(v, argcount)
  BY <1>1, <1>4, <1>5, <1>6, <1>11 DEF Trusts, Strands
<1>14. CallsWhole(counts)
  BY <1>2, <1>6, <1>9, <1>11, <1>12, <1>13, TryCallWhole
<1>15. FramesWhole(counts, calls, AfterInstr)
  BY <1>4 DEF HasFrame, FramesWhole
<1> QED BY <1>2, <1>14, <1>15, CallSupplied

\* Leaving a frame takes the machine back to code whose upvalues are there.
LEMMA LeaveSupplied ==
    ASSUME NEW fs \in SUBSET FunctionObjects,
           NEW h, Typed(fs, h), NEW counts, Trusts(counts), NEW ops, At(ops), HasFrame,
           NEW last, LeaveFrame(last), KeepsWhole(counts)
    PROVE  exit' # "UNDEFINED" /\ Supplied(counts)'
<1>1. PICK n \in Nat \ {0} : n = Len(calls)
  BY CurrentFrame
<1>2. PICK t : t = Front(calls)
  OBVIOUS
<1>3. calls \in Seq(Frames(h))
  BY DEF Typed, CallsOK
<1>4. Len(t) = n - 1 /\ \A k \in 1 .. n - 1 : t[k] = calls[k]
  BY <1>1, <1>2, <1>3 DEF Front
<1>5. FramesWhole(counts, calls, pc)
  BY WholeNow DEF FramesWhole
<1>6. PICK a : a = CurrentCall.return_addr /\ a = calls[n].return_addr
  BY <1>1 DEF CurrentCall
<1>7. ASSUME NEW k \in 1 .. Len(t)
      PROVE  counts.upvalues[IF k = Len(t) THEN a ELSE t[k + 1].return_addr] <= Len(t[k].closure)
  <2>1. k \in 1 .. Len(calls) /\ k # Len(calls) /\ t[k] = calls[k]
    BY <1>1, <1>4
  <2>2. counts.upvalues[calls[k + 1].return_addr] <= Len(calls[k].closure)
    BY <1>5, <2>1 DEF FramesWhole
  <2>3. CASE k = Len(t)
    <3>1. k + 1 = n
      BY <1>1, <1>4, <2>3
    <3> QED BY <1>6, <2>1, <2>2, <2>3, <3>1
  <2>4. CASE k # Len(t)
    <3>1. k + 1 \in 1 .. n - 1
      BY <1>1, <1>4, <2>4
    <3>2. t[k + 1] = calls[k + 1]
      BY <1>4, <3>1
    <3> QED BY <2>1, <2>2, <2>4, <3>2
  <2> QED BY <2>3, <2>4
<1>8. FramesWhole(counts, t, a)
  BY <1>7 DEF FramesWhole
<1>9. calls' = t /\ pc' = a /\ prog' = prog
  BY <1>2, <1>6 DEF LeaveFrame
<1>10. exit' # "UNDEFINED"
  BY DEF KeepsWhole
<1> QED BY <1>8, <1>9, <1>10, SuppliedNext

LEMMA ReturnVoidSupplied ==
    ASSUME NEW fs \in SUBSET FunctionObjects,
           NEW h \in Nat, Typed(fs, h), UpvaluesOK(fs, h, up), NEW counts, Trusts(counts), ReturnVoid
    PROVE  exit' # "UNDEFINED" /\ Supplied(counts)'
<1> DEFINE ops == {"OP_RETURN_VOID"}
<1>1. At(ops) /\ "OP_CLOSURE" \notin ops /\ Instr.op \in InFrame /\ KnowsOpen(counts)
  BY DEF ReturnVoid, At, InFrame, Trusts
<1> HIDE DEF ops
<1>2. /\ exit = "RUNNING" /\ stack \in StackOf(ValueOf(fs, h)) /\ AllWhole(counts, stack)
      /\ UpvaluesWhole(counts, up) /\ GlobalsWhole(counts, globals)
  BY <1>1, WholeRoom
<1>3. HasFrame
  BY <1>1, RunsInFrame
<1>4. PICK last \in Pointers : last = FrameBase
  BY <1>2, <1>3, FrameBaseTyped DEF FrameBase
<1>5. CanClose(last) /\ UpvaluesWhole(counts, CloseUpvalues(up, stack.cells, last))
  BY <1>1, <1>2, ClosesWhole
<1>6. LeaveFrame(last) /\ stack' = Return(stack) /\ exit' = exit
  BY <1>3, <1>4, <1>5 DEF ReturnVoid
<1>7. AllWhole(counts, Return(stack))
  <2>1. CurrentCall.stack_addr \in Nat
    BY <1>3, CurrentFrame
  <2> QED BY <1>2, <2>1, ShrinkWhole DEF Return
<1>8. up' = CloseUpvalues(up, stack.cells, last) /\ globals' = globals
  BY <1>6 DEF LeaveFrame
<1>9. KeepsWhole(counts)
  BY <1>2, <1>5, <1>6, <1>7, <1>8 DEF KeepsWhole
<1> QED BY <1>1, <1>3, <1>6, <1>9, LeaveSupplied

LEMMA ReturnValueSupplied ==
    ASSUME NEW fs \in SUBSET FunctionObjects,
           NEW h \in Nat, Typed(fs, h), UpvaluesOK(fs, h, up), NEW counts, Trusts(counts), ReturnValue
    PROVE  exit' # "UNDEFINED" /\ Supplied(counts)'
<1> DEFINE ops == {"OP_RETURN_VALUE"}
<1>1. At(ops) /\ "OP_CLOSURE" \notin ops /\ Instr.op \in InFrame /\ KnowsOpen(counts)
      /\ Instr.op = "OP_RETURN_VALUE"
  BY DEF ReturnValue, At, InFrame, Trusts
<1> HIDE DEF ops
<1>2. /\ exit = "RUNNING" /\ stack \in StackOf(ValueOf(fs, h)) /\ AllWhole(counts, stack)
      /\ UpvaluesWhole(counts, up) /\ GlobalsWhole(counts, globals) /\ Works(counts)
      /\ (CanPop(stack) => Whole(counts, Peek(stack)))
  BY <1>1, WholeRoom
<1>3. HasFrame /\ CurrentCall.stack_addr \in Nat
  BY <1>1, RunsInFrame, CurrentFrame
<1>4. CanPop(stack) /\ ~StackEmpty /\ Pop(stack) \in StackOf(ValueOf(fs, h))
  <2>1. Takes(Instr) >= 1
    BY <1>1 DEF Takes, Arithmetic
  <2> QED BY <1>1, <1>2, <2>1, FindsOperand
<1>5. PICK rest : rest = Pop(stack) /\ rest \in StackOf(ValueOf(fs, h)) /\ AllWhole(counts, rest)
  BY <1>2, <1>4, ShrinkWhole
<1>6. PICK last \in Pointers : last = Get(rest, CurrentCall.stack_addr)
  BY <1>3, <1>5, FrameBaseTyped
<1>7. CanClose(last) /\ UpvaluesWhole(counts, CloseUpvalues(up, stack.cells, last))
  BY <1>1, <1>2, ClosesWhole
<1>8. PICK st, v : st = Return(rest) /\ v = Peek(stack)
  OBVIOUS
<1>9. st \in StackOf(ValueOf(fs, h)) /\ AllWhole(counts, st) /\ Whole(counts, v)
  <2>1. Return(rest) \in StackOf(ValueOf(fs, h))
    BY <1>3, <1>5, FrameBaseTyped
  <2>2. AllWhole(counts, Return(rest))
    BY <1>3, <1>5, ShrinkWhole DEF Return
  <2> QED BY <1>2, <1>4, <1>8, <2>1, <2>2
<1>10. LeaveFrame(last) /\ (PushOrHalt(st, v) \/ (stack' = st /\ exit' = exit))
  BY <1>3, <1>4, <1>5, <1>6, <1>7, <1>8, Zenon DEF ReturnValue
<1>11. exit' # "UNDEFINED" /\ AllWhole(counts, stack')
  BY <1>2, <1>9, <1>10, PushOrHaltWhole
<1>12. up' = CloseUpvalues(up, stack.cells, last) /\ globals' = globals
  BY <1>10 DEF LeaveFrame
<1>13. KeepsWhole(counts)
  BY <1>2, <1>7, <1>11, <1>12 DEF KeepsWhole
<1> QED BY <1>1, <1>3, <1>10, <1>13, LeaveSupplied

\* An instruction that stays in its function, but for one that makes it.
LEMMA StaysWhole ==
    ASSUME NEW fs \in SUBSET FunctionObjects,
           NEW h \in Nat, Typed(fs, h), UpvaluesOK(fs, h, up), NEW counts, Trusts(counts), Execute
    PROVE  \/ KeepsWhole(counts) \/ FetchStray
           \/ PushLiteral /\ Instr.op = "OP_FUNCTION"
           \/ Call \/ Begin \/ ReturnVoid \/ ReturnValue
<1>1. PushLiteral => KeepsWhole(counts) \/ Instr.op = "OP_FUNCTION"
  BY PushLiteralWhole
<1>2. BinaryOp => KeepsWhole(counts)
  BY BinaryOpWhole
<1>3. Step \/ Negate => KeepsWhole(counts)
  BY StepWhole
<1>4. PopOp \/ PopNOp => KeepsWhole(counts)
  BY PopOpWhole
<1>5. JumpOp \/ JumpFalse => KeepsWhole(counts)
  BY JumpWhole
<1>6. TopOp => KeepsWhole(counts)
  BY TopOpWhole
<1>7. LoadLocal => KeepsWhole(counts)
  BY LoadLocalWhole
<1>8. SetLocal => KeepsWhole(counts)
  BY SetLocalWhole
<1>9. SetGlobal \/ LoadGlobal => KeepsWhole(counts)
  BY GlobalWhole
<1>10. HaltOp \/ UnknownOp => KeepsWhole(counts)
  BY EndWhole
<1>11. LoadUpvalue => KeepsWhole(counts)
  BY LoadUpvalueWhole
<1>12. SetUpvalue => KeepsWhole(counts)
  BY SetUpvalueWhole
<1>13. CloseUpvalue => KeepsWhole(counts)
  BY CloseUpvalueWhole
<1>14. MakeClosure => KeepsWhole(counts)
  BY MakeClosureWhole
<1> QED BY <1>1, <1>2, <1>3, <1>4, <1>5, <1>6, <1>7, <1>8, <1>9, <1>10, <1>11, <1>12, <1>13, <1>14
        DEF Execute

\* A stray byte is fetched at the end of the program only.
LEMMA StraysAtEnd ==
    ASSUME NEW counts, Works(counts), FetchStray
    PROVE  calls = <<>> /\ pc = TotalSize(prog)
<1>1. Covered(counts, pc, calls, host.args, stack.size) \/ (calls = <<>> /\ pc = TotalSize(prog))
  BY DEF FetchStray, Running, Works, Balanced
<1>2. pc \notin DOMAIN counts.cells
  BY DEF FetchStray, Works, Verified
<1> QED BY <1>1, <1>2 DEF Covered

\* Every instruction of a program whose counts of upvalues are right.
LEMMA ExecuteSupplied ==
    ASSUME NEW fs \in SUBSET FunctionObjects,
           NEW h \in Nat, Typed(fs, h), UpvaluesOK(fs, h, up), NEW counts, Trusts(counts), Execute,
           prog' = prog
    PROVE  /\ Supplied(counts)'
           /\ exit' = "UNDEFINED" => calls' = <<>> /\ pc' = TotalSize(prog')
<1>1. Works(counts) /\ Knows(counts) /\ Sequel(counts)
  <2>1. Works(counts) /\ Knows(counts)
    BY DEF Trusts, KnowsOpen, Knows
  <2> QED BY <2>1, ExecuteSequel
<1>2. CASE FetchStray
  <2>1. calls = <<>> /\ pc = TotalSize(prog)
    BY <1>1, <1>2, StraysAtEnd
  <2>2. exit' # "RUNNING" /\ UNCHANGED <<prog, calls, pc>>
    BY <1>2 DEF FetchStray
  <2> QED BY <2>1, <2>2, SuppliedThen DEF TotalSize
<1>3. CASE PushLiteral /\ Instr.op = "OP_FUNCTION"
  <2>1. exit' = "RUNNING" => GoesAhead
    BY <1>1, <1>3 DEF Sequel, Leaping
  <2> QED BY <1>3, <2>1, FunctionSupplied
<1>4. CASE Call \/ Begin \/ ReturnVoid \/ ReturnValue
  BY <1>4, OpCallSupplied, BeginSupplied, ReturnVoidSupplied, ReturnValueSupplied
<1>5. CASE KeepsWhole(counts) /\ ~(Call \/ Begin \/ ReturnVoid \/ ReturnValue)
  <2>1. CASE exit' # "RUNNING"
    BY <1>5, <2>1, SuppliedThen DEF KeepsWhole
  <2>2. CASE exit' = "RUNNING"
    <3>1. At({Instr.op}) /\ Instr.op \notin Leaping
      BY <1>5, <2>2, OnlyLeaps
    <3>2. GoesAhead
      BY <1>1, <2>2, <3>1 DEF Sequel
    <3> QED BY <1>5, <2>2, <3>1, <3>2, GoesAheadSupplied
  <2> QED BY <2>1, <2>2
<1> QED BY <1>2, <1>3, <1>4, <1>5, StaysWhole

\* While the host has not started the program, no closure is being made.
LEMMA IdleWhole ==
    ASSUME NEW counts, Trusts(counts), host = Idle, exit = "RUNNING"
    PROVE  /\ calls = <<>> /\ AllWhole(counts, stack)
           /\ UpvaluesWhole(counts, up) /\ GlobalsWhole(counts, globals)
<1>1. Works(counts)
  BY DEF Trusts, KnowsOpen, Knows
<1>2. calls = <<>> /\ pc = prog.data + prog.start
  BY <1>1 DEF Works, Balanced
<1>3. pc \in counts.setup /\ pc \in DOMAIN counts.cells
  BY <1>1, <1>2 DEF Works, Verified
<1>4. Instr.op # "OP_CLOSURE"
  BY <1>3 DEF Trusts, Resolved, InFrame, Instr
<1>5. AllWhole(counts, stack)
  BY <1>4 DEF Trusts, Supplied, AllWhole, Unfinished
<1> QED BY <1>2, <1>5 DEF Trusts, Supplied, UpvaluesWhole, GlobalsWhole

\* The host pushes no closure, and its functions need no upvalues.
LEMMA HostValueWhole ==
    ASSUME NEW counts, Resolved(prog, counts), NEW v \in HostValues
    PROVE  Whole(counts, v)
<1>1. v \in PlainValues
  BY ProgramsAssumption
<1>2. v # Indeterminate /\ ~IsKind(v, "closure")
  BY <1>1, VMAssumption DEF PlainValues, FunctionObjects, IsKind, IsObject, Null, Garbage
<1> QED BY <1>2 DEF Resolved, Whole

LEMMA HostSupplied ==
    ASSUME NEW fs \in SUBSET FunctionObjects,
           NEW h, Typed(fs, h), NEW counts, Trusts(counts), FinishRun \/ HostCall \/ UNCHANGED vars
    PROVE  /\ Supplied(counts)'
           /\ exit' = "UNDEFINED" => exit = "UNDEFINED" /\ UNCHANGED <<prog, calls, pc>>
<1>1. CASE FinishRun
  BY <1>1, SuppliedThen DEF FinishRun
<1>2. CASE UNCHANGED vars
  <2>1. Supplied(counts)' <=> Supplied(counts)
    BY <1>2 DEF vars, Supplied, Whole, Needs, Unfinished, Instr
  <2> QED BY <1>2, <2>1 DEF vars, Trusts
<1>3. CASE HostCall
  <2>1. /\ host = Idle /\ exit' \in {exit, "EXIT_GLOBAL_ALREADY_EXISTS"}
        /\ UNCHANGED <<prog, calls, pc, up>>
    BY <1>3 DEF HostCall, AddNative, HostPush, HostPop, RunFunction
  <2>2. CASE exit' # "RUNNING"
    BY <2>1, <2>2, SuppliedThen
  <2>3. CASE exit' = "RUNNING"
    <3>1. exit = "RUNNING"
      BY <2>1, <2>3
    <3>2. /\ calls = <<>> /\ AllWhole(counts, stack)
          /\ UpvaluesWhole(counts, up) /\ GlobalsWhole(counts, globals)
      BY <2>1, <3>1, IdleWhole
    <3>3. stack \in StackOf(ValueOf(fs, h))
      BY DEF Typed
    <3>4. AllWhole(counts, stack')
      <4>1. CASE \E v \in HostValues : HostPush(v)
        <5>1. PICK v \in HostValues : stack' = Push(stack, v)
          BY <4>1 DEF HostPush
        <5>2. Whole(counts, v)
          BY HostValueWhole DEF Trusts
        <5> QED BY <3>2, <3>3, <5>1, <5>2, PushWhole
      <4>2. CASE HostPop
        BY <3>2, <3>3, <4>2, ShrinkWhole DEF HostPop
      <4>3. CASE stack' = stack
        BY <3>2, <4>3
      <4> QED BY <1>3, <4>1, <4>2, <4>3 DEF HostCall, AddNative, RunFunction
    <3>5. GlobalsWhole(counts, globals')
      <4>1. CASE \E name \in HostNatives : AddNative(name)
        <5>1. PICK name \in HostNatives :
                globals' = [n \in DOMAIN globals \cup {name} |->
                              IF n = name THEN Object(Native(name)) ELSE globals[n]]
          BY <4>1 DEF AddNative
        <5>2. PICK v : v = Object(Native(name)) /\ Whole(counts, v)
          BY MadeWhole
        <5> QED BY <3>2, <5>1, <5>2 DEF GlobalsWhole
      <4>2. CASE globals' = globals
        BY <3>2, <4>2
      <4> QED BY <1>3, <4>1, <4>2 DEF HostCall, HostPush, HostPop, RunFunction
    <3>6. KeepsWhole(counts)
      BY <2>1, <2>3, <3>2, <3>4, <3>5 DEF KeepsWhole
    <3>7. FramesWhole(counts, calls', pc')
      BY <2>1, <3>2 DEF FramesWhole
    <3> QED BY <2>1, <2>3, <3>6, <3>7, SuppliedNext
  <2> QED BY <2>1, <2>2, <2>3
<1> QED BY <1>1, <1>2, <1>3

SuppliedNow == Supplied(prog.counts) /\ DefinedUntilReturn

LEMMA SuppliedInit ==
    ASSUME Init
    PROVE  SuppliedNow
<1>1. stack.size = 0 /\ calls = <<>> /\ Len(up.heap) = 0 /\ exit = "RUNNING"
  BY DEF Init, InitMachine, CreateStack, NoUpvalues
<1>2. \A a \in 0 .. stack.size - 1 : FALSE
  BY <1>1
<1>3. \A u \in 1 .. Len(up.heap) : FALSE
  BY <1>1
<1>4. \A n \in 1 .. Len(calls) : FALSE
  BY <1>1
<1>5. \A name \in DOMAIN globals : Whole(prog.counts, globals[name])
  BY MadeWhole DEF Init, InitMachine
<1> QED BY <1>1, <1>2, <1>3, <1>4, <1>5 DEF SuppliedNow, Supplied, DefinedUntilReturn

\* Before the function that OP_BEGIN called has returned to the end of the
\* program, nothing undefined is executed.
LEMMA SuppliedStep ==
    ASSUME Inv, BalancedNow, LevelNow, CapturesHold, FullyAccounted, SuppliedNow, [Next]_vars
    PROVE  SuppliedNow'
<1>1. PICK counts : counts = prog.counts /\ counts = prog'.counts /\ prog' = prog
  BY ProgramIsFixed
<1>2. Trusts(counts)
  BY <1>1 DEF Trusts, KnowsOpen, Knows, Works, FullyAccounted, AccountedExactly, Accounted,
     BalancedNow, LevelNow, CapturesHold, SuppliedNow
<1>3. PICK fs \in SUBSET FunctionObjects, h \in Nat : Typed(fs, h) /\ UpvaluesOK(fs, h, up)
  BY InvParts
<1>4. /\ Supplied(counts)'
      /\ exit' = "UNDEFINED" => calls' = <<>> /\ pc' = TotalSize(prog')
  <2>1. CASE Execute
    BY <1>1, <1>2, <1>3, <2>1, ExecuteSupplied
  <2>2. CASE FinishRun \/ HostCall \/ UNCHANGED vars
    <3>1. /\ Supplied(counts)'
          /\ exit' = "UNDEFINED" => exit = "UNDEFINED" /\ UNCHANGED <<prog, calls, pc>>
      BY <1>2, <1>3, <2>2, HostSupplied
    <3> QED BY <3>1 DEF SuppliedNow, DefinedUntilReturn, TotalSize
  <2> QED BY <2>1, <2>2 DEF Next
<1>5. Supplied(prog.counts)'
  BY <1>1, <1>4, SuppliedThen DEF Supplied
<1> QED BY <1>4, <1>5 DEF SuppliedNow, DefinedUntilReturn

\* DefinedUntilReturn of module Balance: until the function that the host asked
\* for has returned to the end of the program, the machine reads no cell that
\* nobody wrote, no frame and no upvalue that there is not.
THEOREM MachineDefinedUntilReturn == Spec /\ []FullyAccounted => []DefinedUntilReturn
<1>1. Init => SuppliedNow
  BY SuppliedInit
<1>2. /\ Inv /\ BalancedNow /\ LevelNow /\ CapturesHold /\ FullyAccounted /\ SuppliedNow
      /\ [Next]_vars
      => SuppliedNow'
  BY SuppliedStep
<1>3. FullyAccounted => AccountedExactly
  BY DEF FullyAccounted
<1>4. SuppliedNow => DefinedUntilReturn
  BY DEF SuppliedNow
<1> QED BY <1>1, <1>2, <1>3, <1>4, AlwaysInv, AlwaysCaptures, PTL DEF Spec
==============================================================================
