----------------------------- MODULE UpvalueList -----------------------------
(***************************************************************************)
(* ch_upvalue and the two functions of src/vm/vm.c that manage them.       *)
(*                                                                         *)
(* "heap" holds every ch_upvalue ever allocated, in allocation order, and  *)
(* "open" is the linked list context->open_upvalues as a sequence of       *)
(* indices into heap, head first.  The field "value" is the C pointer of   *)
(* the same name: the address of a stack cell while the upvalue is open,   *)
(* OwnCell (the pointer &upvalue->closed) once it is closed.               *)
(***************************************************************************)
EXTENDS Sequences, Integers

CONSTANT NullValue   \* MAKE_NULL(), the initial content of the closed cell

OwnCell == -2

NoUpvalues == [heap |-> <<>>, open |-> <<>>]

\* The pointer of the i-th upvalue of the open list.
OpenAt(up, i) == up.heap[up.open[i]].value

\* How many upvalues capture_upvalue's loop steps over: those at the head
\* of the list that lie above the address.
Above(up, address) ==
    CHOOSE k \in 0 .. Len(up.open) :
        /\ \A i \in 1 .. k : OpenAt(up, i) > address
        /\ k < Len(up.open) => OpenAt(up, k + 1) <= address

\* How many upvalues close_upvalues closes.
AtOrAbove(up, last) ==
    CHOOSE k \in 0 .. Len(up.open) :
        /\ \A i \in 1 .. k : OpenAt(up, i) >= last
        /\ k < Len(up.open) => OpenAt(up, k + 1) < last

\* What the list holds for the address, if anything, is at that place.
IsShared(up, address) ==
    LET k == Above(up, address)
    IN  k < Len(up.open) /\ OpenAt(up, k + 1) = address

\* Variant: a new upvalue always becomes the head of the list.
CreatedAtHead(up, address) ==
    [heap |-> Append(up.heap, [value |-> address, closed |-> NullValue]),
     open |-> <<Len(up.heap) + 1>> \o up.open]

Created(up, address) ==
    LET k == Above(up, address)
    IN  [heap |-> Append(up.heap, [value |-> address, closed |-> NullValue]),
         open |-> SubSeq(up.open, 1, k) \o <<Len(up.heap) + 1>>
                    \o SubSeq(up.open, k + 1, Len(up.open))]

\* capture_upvalue: the upvalues after the call, and the upvalue returned.
CaptureUpvalue(up, address) ==
    IF IsShared(up, address) THEN up ELSE Created(up, address)
Captured(up, address) ==
    IF IsShared(up, address) THEN up.open[Above(up, address) + 1] ELSE Len(up.heap) + 1

ClosedBy(up, last) == { up.open[i] : i \in 1 .. AtOrAbove(up, last) }

\* Variant: the pointer is not redirected to the upvalue's own cell.
CloseWithoutRedirect(up, cells, last) ==
    [heap |-> [u \in 1 .. Len(up.heap) |->
                IF u \in ClosedBy(up, last)
                  THEN [up.heap[u] EXCEPT !.closed = cells[up.heap[u].value]] ELSE up.heap[u]],
     open |-> SubSeq(up.open, AtOrAbove(up, last) + 1, Len(up.open))]

\* Variant: the value of the cell is not copied.
CloseWithoutCopy(up, cells, last) ==
    [heap |-> [u \in 1 .. Len(up.heap) |->
                IF u \in ClosedBy(up, last) THEN [up.heap[u] EXCEPT !.value = OwnCell]
                                            ELSE up.heap[u]],
     open |-> SubSeq(up.open, AtOrAbove(up, last) + 1, Len(up.open))]

\* close_upvalues: every upvalue at or above last takes a copy of its cell.
CloseUpvalues(up, cells, last) ==
    [heap |-> [u \in 1 .. Len(up.heap) |->
                IF u \in ClosedBy(up, last)
                  THEN [value |-> OwnCell, closed |-> cells[up.heap[u].value]]
                  ELSE up.heap[u]],
     open |-> SubSeq(up.open, AtOrAbove(up, last) + 1, Len(up.open))]

\* *upvalue->value.
Deref(up, cells, u) ==
    IF up.heap[u].value = OwnCell THEN up.heap[u].closed ELSE cells[up.heap[u].value]

\* Assignment to *upvalue->value: in the upvalue itself or in a stack cell.
AssignOwn(up, u, v) ==
    IF up.heap[u].value = OwnCell THEN [up EXCEPT !.heap[u].closed = v] ELSE up
AssignCell(cells, up, u, v) ==
    IF up.heap[u].value = OwnCell THEN cells ELSE [cells EXCEPT ![up.heap[u].value] = v]

(***************************************************************************)
(* What must hold of the list for the loops above to find what they look   *)
(* for.                                                                    *)
(***************************************************************************)
\* Sorted by address, the highest first, with no address twice.
Sorted(up) == \A i, j \in 1 .. Len(up.open) : i < j => OpenAt(up, i) > OpenAt(up, j)

\* The list holds exactly the upvalues that are not closed.
Complete(up) ==
    \A u \in 1 .. Len(up.heap) :
        up.heap[u].value # OwnCell <=> \E i \in 1 .. Len(up.open) : up.open[i] = u
==============================================================================
