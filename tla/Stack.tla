-------------------------------- MODULE Stack --------------------------------
(***************************************************************************)
(* ch_stack, the value stack of src/vm/stack.c.                            *)
(*                                                                         *)
(* A stack is a record: "cells" is the block malloc'd by ch_stack_create,  *)
(* "size" the number of live cells.  Popping only lowers the size, so a    *)
(* dropped value stays in its cell and can be read again through an        *)
(* address that is not below the size: the model keeps those stale cells.  *)
(* An address is an offset into the block; NULL is the C null pointer,     *)
(* below every address as it is in the build.                              *)
(*                                                                         *)
(* Each C function that reports success as a bool is split in two: a       *)
(* predicate that says when it succeeds and an operator for the stack it   *)
(* leaves.                                                                 *)
(***************************************************************************)
EXTENDS Integers

CONSTANTS MaxSize,        \* ch_stack.max_size (1000 in ch_stack_create)
          Indeterminate   \* what an uninitialised ch_primitive holds

ASSUME MaxSizeAssumption == MaxSize \in Nat \ {0}

NULL == -1

Addresses == 0 .. MaxSize - 1

\* The stacks of values of V: what every operator below preserves.
StackOf(V) == [cells : [Addresses -> V], size : 0 .. MaxSize]

CreateStack == [cells |-> [a \in Addresses |-> Indeterminate], size |-> 0]

\* Variant: room for one value more than there are cells.
CanPushOneMore(stack) == stack.size <= MaxSize

CanPush(stack) == stack.size < MaxSize
Push(stack, v) ==
    IF CanPush(stack)
      THEN [cells |-> [stack.cells EXCEPT ![stack.size] = v], size |-> stack.size + 1]
      ELSE stack

CanPop(stack) == stack.size > 0
Peek(stack)   == stack.cells[stack.size - 1]
Pop(stack)    == IF CanPop(stack) THEN [stack EXCEPT !.size = @ - 1] ELSE stack

PopN(stack, n) == IF stack.size < n THEN stack ELSE [stack EXCEPT !.size = @ - n]

\* Note the "<=": the cell just above the top counts as addressable.
AddressOk(stack, address) == address <= stack.size

\* Variant: the copy does not look for room.
CanCopyAnyway(stack, address) == AddressOk(stack, address)

CanCopy(stack, address) == AddressOk(stack, address) /\ stack.size # MaxSize
Copy(stack, address) ==
    IF CanCopy(stack, address)
      THEN [cells |-> [stack.cells EXCEPT ![stack.size] = stack.cells[address]],
            size  |-> stack.size + 1]
      ELSE stack

SeekTo(stack, address) ==
    IF address > stack.size THEN stack ELSE [stack EXCEPT !.size = address]

Set(stack, address, v) ==
    IF AddressOk(stack, address) THEN [stack EXCEPT !.cells[address] = v] ELSE stack

Get(stack, address) == IF AddressOk(stack, address) THEN address ELSE NULL
==============================================================================
