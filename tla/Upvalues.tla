------------------------------- MODULE Upvalues -------------------------------
(***************************************************************************)
(* The local variables of the running functions and the upvalues through   *)
(* which closures reach them: the part of ch_context that capture_upvalue, *)
(* close_upvalues, OP_SET_LOCAL, OP_SET_UPVALUE and the returns share.     *)
(*                                                                         *)
(* Every operation is the effect that the handler of the same name has on  *)
(* the stack and on the upvalues.  The compiler's contract is the guard of *)
(* PopLocal: it emits OP_POP for a variable that goes out of scope only    *)
(* when nothing captured it, OP_CLOSE_UPVALUE otherwise (end_scope).       *)
(* Module VM runs whole programs and assumes no such contract.             *)
(***************************************************************************)
EXTENDS Stack, UpvalueList

CONSTANTS Value,         \* the values variables hold
          MaxUpvalues    \* bound: how many upvalues a behaviour allocates

ASSUME UpvaluesAssumption ==
    /\ MaxUpvalues \in Nat
    /\ Indeterminate \notin Value
    /\ NullValue \in Value

VARIABLES stack,   \* context->stack, a stack of module Stack
          up       \* the upvalues and their open list, of module UpvalueList

vars == <<stack, up>>

OpenAddresses == { OpenAt(up, i) : i \in 1 .. Len(up.open) }

Init == stack = CreateStack /\ up = NoUpvalues

\* A variable declaration, or an argument: its value is pushed.
PushLocal(v) ==
    /\ CanPush(stack)
    /\ stack' = Push(stack, v)
    /\ UNCHANGED up

SetLocal(address, v) ==
    /\ stack' = Set(stack, address, v)
    /\ UNCHANGED up

\* One round of OP_CLOSURE's loop, for a variable of the enclosing function.
Capture(address) ==
    /\ IsShared(up, Get(stack, address)) \/ Len(up.heap) < MaxUpvalues
    /\ up' = CaptureUpvalue(up, Get(stack, address))
    /\ UNCHANGED stack

SetUpvalue(u, v) ==
    /\ up' = AssignOwn(up, u, v)
    /\ stack' = [stack EXCEPT !.cells = AssignCell(@, up, u, v)]

PopLocal ==
    /\ CanPop(stack)
    /\ stack.size - 1 \notin OpenAddresses
    /\ stack' = Pop(stack)
    /\ UNCHANGED up

CloseUpvalue ==
    /\ CanPop(stack)
    /\ up' = CloseUpvalues(up, stack.cells, Get(stack, stack.size - 1))
    /\ stack' = PopN(stack, 1)

\* Variant: the upvalues of the frame stay open.
ReturnLeavingOpen(base) ==
    /\ UNCHANGED up
    /\ stack' = SeekTo(stack, base)

\* call_return, for a frame whose first variable is at base.
Return(base) ==
    /\ up' = CloseUpvalues(up, stack.cells, Get(stack, base))
    /\ stack' = SeekTo(stack, base)

Next ==
    \/ \E v \in Value : PushLocal(v)
    \/ \E address \in 0 .. stack.size - 1, v \in Value : SetLocal(address, v)
    \/ \E address \in 0 .. stack.size - 1 : Capture(address)
    \/ \E u \in 1 .. Len(up.heap), v \in Value : SetUpvalue(u, v)
    \/ PopLocal
    \/ CloseUpvalue
    \/ \E base \in 0 .. stack.size : Return(base)

Spec == Init /\ [][Next]_vars
------------------------------------------------------------------------------
(***************************************************************************)
(* Properties                                                              *)
(***************************************************************************)

Upvalue == [value : {OwnCell} \cup Addresses, closed : Value]

\* The shape of the state: live cells hold values, the stack and the heap
\* are within their bounds.
TypeOK ==
    /\ stack \in StackOf(Value \cup {Indeterminate})
    /\ \A a \in 0 .. stack.size - 1 : stack.cells[a] \in Value
    /\ up \in [heap : Seq(Upvalue), open : Seq(1 .. Len(up.heap))]

\* The open list is sorted by address, the highest first, with no address
\* twice.  Both loops of vm.c stop at the first upvalue below the address
\* they look for, so a list out of order would hide an open upvalue.
OpenListSorted == Sorted(up)

\* The open list holds exactly the upvalues that still point to the stack.
OpenListComplete == Complete(up)

\* No open upvalue points at or above the top of the stack, to a cell that
\* the next push overwrites: returning from a function and leaving a block
\* close every upvalue they cut off.
NoDanglingUpvalue ==
    \A i \in 1 .. Len(up.open) : OpenAt(up, i) < stack.size

\* The upvalue that captures the cell, 0 if there is none.
UpvalueOf(address) ==
    IF \E i \in 1 .. Len(up.open) : OpenAt(up, i) = address
      THEN up.open[CHOOSE i \in 1 .. Len(up.open) : OpenAt(up, i) = address]
      ELSE 0

\* Refinement: the upvalues of vm.c behave as boxes.
AbstractLocals ==
    [i \in 1 .. stack.size |->
        IF UpvalueOf(i - 1) = 0
          THEN [box |-> 0, value |-> stack.cells[i - 1]]
          ELSE [box |-> UpvalueOf(i - 1), value |-> "boxed"]]

AbstractBoxes == [u \in 1 .. Len(up.heap) |-> Deref(up, stack.cells, u)]

B == INSTANCE Boxes WITH locals <- AbstractLocals, boxes <- AbstractBoxes,
                         MaxLocals <- MaxSize, MaxBoxes <- MaxUpvalues

\* Every behaviour of the stack and the open list is a behaviour of boxes:
\* closures and the enclosing function always see the same variable, before
\* and after it leaves the stack.
ImplementsBoxes == B!Spec
==============================================================================
