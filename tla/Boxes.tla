-------------------------------- MODULE Boxes --------------------------------
(***************************************************************************)
(* What upvalues promise.  A local variable that some closure captures is  *)
(* a box: from the first capture on, the enclosing function and all its    *)
(* closures read and write one and the same box, whatever happens to the   *)
(* stack.  Boxes are never lost and never copied.                          *)
(*                                                                         *)
(* src/vm/vm.c has no boxes: it leaves a captured variable in its stack    *)
(* cell, links the cell in a list of open upvalues and copies it out when  *)
(* the variable goes away.  Module Upvalues models that, and implements    *)
(* this specification.                                                     *)
(***************************************************************************)
EXTENDS Sequences, Integers

CONSTANTS Value, MaxLocals, MaxBoxes

VARIABLES locals,   \* the live local variables, oldest first
          boxes     \* the content of every box ever made

vars == <<locals, boxes>>

Plain(v) == [box |-> 0, value |-> v]          \* a variable nobody has captured
Boxed(b) == [box |-> b, value |-> "boxed"]    \* a variable that lives in box b
IsBoxed(l) == l.box # 0

Init == locals = <<>> /\ boxes = <<>>

Declare(v) ==
    /\ Len(locals) < MaxLocals
    /\ locals' = Append(locals, Plain(v))
    /\ UNCHANGED boxes

Assign(i, v) ==
    IF IsBoxed(locals[i])
      THEN boxes' = [boxes EXCEPT ![locals[i].box] = v] /\ UNCHANGED locals
      ELSE locals' = [locals EXCEPT ![i] = Plain(v)] /\ UNCHANGED boxes

\* A closure captures local i: it gets the variable's box, a new one if
\* the variable had none.
Capture(i) ==
    /\ ~IsBoxed(locals[i])
    /\ Len(boxes) < MaxBoxes
    /\ boxes' = Append(boxes, locals[i].value)
    /\ locals' = [locals EXCEPT ![i] = Boxed(Len(boxes) + 1)]

AssignBox(b, v) == boxes' = [boxes EXCEPT ![b] = v] /\ UNCHANGED locals

\* Variables above the first n go out of scope; their boxes remain.
Leave(n) == locals' = SubSeq(locals, 1, n) /\ UNCHANGED boxes

Next ==
    \/ \E v \in Value : Declare(v)
    \/ \E i \in 1 .. Len(locals) : Capture(i) \/ \E v \in Value : Assign(i, v)
    \/ \E b \in 1 .. Len(boxes), v \in Value : AssignBox(b, v)
    \/ \E n \in 0 .. Len(locals) : Leave(n)

Spec == Init /\ [][Next]_vars
==============================================================================
