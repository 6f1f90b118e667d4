------------------------------- MODULE Bytecode -------------------------------
(***************************************************************************)
(* What the compiler and the VM share: values (src/vm/primitive.h and      *)
(* object.h), instructions (src/vm/ops.h) and the layout of a program      *)
(* (ch_program of src/vm/chapman.h).                                       *)
(*                                                                         *)
(* Objects are values here: the language has no operator that tells two    *)
(* objects of the same content apart.  A string is the sequence of its     *)
(* character codes, a variable's name a TLA+ string.  An instruction       *)
(* carries its literal (a number, a string, a name) instead of a pointer   *)
(* to the program's data section.                                          *)
(*                                                                         *)
(* The bytecode section is a sequence of cells, one for each byte: the     *)
(* first byte of an instruction holds the instruction, each further byte   *)
(* is an Operand.  The cell at offset 0 is the first of the sequence.      *)
(***************************************************************************)
EXTENDS Sequences, Integers

CONSTANT NumberBound   \* bound: the largest number in absolute value

(***************************************************************************)
(* Values                                                                  *)
(***************************************************************************)
Null       == [type |-> "null"]
Number(n)  == [type |-> "number", number |-> n]
Boolean(b) == [type |-> "boolean", boolean |-> b]
Char(c)    == [type |-> "char", char |-> c]
Object(o)  == [type |-> "object", object |-> o]

\* A ch_primitive that was never assigned.
Garbage    == [type |-> "indeterminate"]

String(s)                 == [kind |-> "string", string |-> s]
Function(ptr, argcount)   == [kind |-> "function", ptr |-> ptr, argcount |-> argcount]
Closure(function, upvals) == [kind |-> "closure", function |-> function, upvalues |-> upvals]
Native(name)              == [kind |-> "native", native |-> name]

IsNumber(v) == v.type = "number"
IsObject(v) == v.type = "object"
IsKind(v, kind) == IsObject(v) /\ v.object.kind = kind

\* ch_primitive_isfalsy, for every value but an indeterminate one.
IsFalsy(v) ==
    \/ v.type = "null"
    \/ v.type = "boolean" /\ ~v.boolean
    \/ v.type = "number" /\ v.number = 0
    \/ v.type = "char" /\ v.char = 0
    \/ IsKind(v, "string") /\ v.object.string = <<>>

(***************************************************************************)
(* Arithmetic on doubles.  A double absorbs additions once it is large     *)
(* enough: a result beyond NumberBound stays at NumberBound.  A quotient   *)
(* that is no integer of the model (a fraction, an infinity, a NaN) is     *)
(* some number other than 0, and which one is left open.                   *)
(***************************************************************************)
Numbers == -NumberBound .. NumberBound

Rounded(n) == IF n > NumberBound THEN NumberBound
              ELSE IF n < -NumberBound THEN -NumberBound ELSE n

Quotients(a, b) ==
    IF b # 0 /\ \E q \in Numbers : q * b = a
      THEN { q \in Numbers : q * b = a }
      ELSE Numbers \ {0}

(***************************************************************************)
(* Instructions                                                            *)
(***************************************************************************)
Operand == [op |-> "operand"]

\* Bytes of a pointer or jump offset (ch_dataptr, ch_jmpptr), and of a count.
PtrSize == 4
ArgcountSize == 1

WithPtr == {"OP_NUMBER", "OP_STRING", "OP_POPN", "OP_LOAD_LOCAL", "OP_SET_LOCAL",
            "OP_DEFINE_GLOBAL", "OP_SET_GLOBAL", "OP_LOAD_GLOBAL",
            "OP_JMP", "OP_JMP_FALSE"}
WithByte == {"OP_CHAR", "OP_LOAD_UPVALUE", "OP_SET_UPVALUE", "OP_CALL"}
Arithmetic == {"OP_ADD", "OP_SUB", "OP_MUL", "OP_DIV"}

\* The size in bytes of an instruction with its operands.
Width(instr) ==
    CASE instr.op \in WithPtr      -> 1 + PtrSize
      [] instr.op \in WithByte     -> 1 + ArgcountSize
      [] instr.op = "OP_FUNCTION"  -> 1 + PtrSize + ArgcountSize
      [] instr.op = "OP_CLOSURE"   -> 1 + ArgcountSize
                                        + 2 * ArgcountSize * Len(instr.captures)
      [] OTHER                     -> 1

\* The bytes of one instruction.
Encode(instr) == [i \in 1 .. Width(instr) |-> IF i = 1 THEN instr ELSE Operand]

\* What an instruction may be: any opcode, with the operands it has in the
\* bytecode.  Every sequence of bytes decodes to these, compiled or not.
WithOperands == WithPtr \cup WithByte \cup {"OP_FUNCTION", "OP_CLOSURE"}
Capture == [local : BOOLEAN, index : Nat]
Instructions ==
    [op : STRING \ WithOperands]
    \cup [op : {"OP_NUMBER"}, number : Int]
    \cup [op : {"OP_STRING"}, string : Seq(Nat)]
    \cup [op : {"OP_CHAR"}, char : Nat]
    \cup [op : {"OP_POPN"}, count : Nat]
    \cup [op : {"OP_LOAD_LOCAL", "OP_SET_LOCAL"}, local : Nat]
    \cup [op : {"OP_LOAD_UPVALUE", "OP_SET_UPVALUE"}, upvalue : Nat]
    \cup [op : {"OP_DEFINE_GLOBAL", "OP_SET_GLOBAL", "OP_LOAD_GLOBAL"}, name : STRING]
    \cup [op : {"OP_CALL"}, argcount : Nat]
    \cup [op : {"OP_JMP", "OP_JMP_FALSE"}, offset : Int]
    \cup [op : {"OP_FUNCTION"}, ptr : Nat, argcount : Nat]
    \cup [op : {"OP_CLOSURE"}, captures : Seq(Capture)]

(***************************************************************************)
(* Programs: "code" is the bytecode section, "data" the size of the data   *)
(* section before it, "start" where the program setup begins.              *)
(***************************************************************************)
Program(code, data, start) == [code |-> code, data |-> data, start |-> start]

IsProgram(program) ==
    program.code \in Seq(Instructions) /\ program.data \in Nat /\ program.start \in Nat

TotalSize(program) == program.data + Len(program.code)

\* IS_PROGRAM_PTR_SAFE; a pointer is its distance from the program's start.
IsProgramPtrSafe(program, ptr) == ptr >= 0 /\ ptr < TotalSize(program)

CellAt(program, ptr) == program.code[ptr - program.data + 1]

\* Does an instruction of the program begin at ptr?
HasInstruction(program, ptr) ==
    /\ ptr >= program.data /\ ptr < TotalSize(program)
    /\ CellAt(program, ptr).op # "operand"
==============================================================================
