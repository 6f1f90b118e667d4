------------------------------ MODULE Disassembler ------------------------------
(***************************************************************************)
(* ch_disassemble (src/vm/disassembler.c), which compiler/main.c calls on  *)
(* what it has compiled.  It walks the bytecode section with widths of its *)
(* own, which must be those the compiler emits and the VM steps over.      *)
(*                                                                         *)
(* A line of the listing is the offset printed for an instruction, with    *)
(* the address printed for its operand when that is a place in the         *)
(* bytecode.  The listing is followed up to the first OP_CHAR: the switch  *)
(* has no case for it, so the walk goes on in its operand, and what that   *)
(* and all behind it are taken for depends on the character.               *)
(***************************************************************************)
EXTENDS Bytecode

NoAddress == -1
Line(offset, opcode, address) == [offset |-> offset, op |-> opcode, address |-> address]

\* Variant: the pairs of a closure count as one byte each.
PrintedOperandsShort(instr) ==
    IF instr.op = "OP_CLOSURE" THEN ArgcountSize + ArgcountSize * Len(instr.captures)
    ELSE Width(instr) - 1

\* What the case for the opcode adds to i: the sizes that its calls of
\* print_ptr, print_argcount, print_jump_ptr and so on return.
PrintedOperands(instr) ==
    CASE instr.op \in {"OP_NUMBER", "OP_STRING", "OP_POPN", "OP_LOAD_LOCAL", "OP_SET_LOCAL",
                       "OP_LOAD_GLOBAL", "OP_DEFINE_GLOBAL", "OP_SET_GLOBAL",
                       "OP_JMP", "OP_JMP_FALSE"} -> PtrSize
      [] instr.op \in {"OP_LOAD_UPVALUE", "OP_SET_UPVALUE", "OP_CALL", "OP_NATIVE"} -> ArgcountSize
      [] instr.op = "OP_FUNCTION" -> PtrSize + ArgcountSize
      [] instr.op = "OP_CLOSURE" -> ArgcountSize + Len(instr.captures) * (ArgcountSize * 2)
      [] OTHER -> 0

\* print_function_ptr and print_jump_ptr, whose i is behind the opcode.
Resolved(program, instr, i) ==
    CASE instr.op = "OP_FUNCTION" -> instr.ptr + program.data
      [] instr.op \in {"OP_JMP", "OP_JMP_FALSE"} -> i + instr.offset + PtrSize
      [] OTHER -> NoAddress

\* The lines that ch_disassemble prints.
Listing(program) ==
    LET from[i \in Nat] ==
            IF i >= TotalSize(program) THEN <<>>
            ELSE LET instr == CellAt(program, i)
                     line  == Line(i, instr.op, Resolved(program, instr, i + 1))
                 IN  <<line>> \o IF instr.op = "OP_CHAR" THEN <<>>
                                 ELSE from[i + 1 + PrintedOperands(instr)]
    IN  from[program.data]
==============================================================================
