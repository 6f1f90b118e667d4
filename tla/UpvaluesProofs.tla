---------------------------- MODULE UpvaluesProofs ----------------------------
(***************************************************************************)
(* The safety of Upvalues, for stacks and heaps of every size: the list of *)
(* open upvalues stays sorted and complete, and no upvalue is left behind  *)
(* when the stack shrinks.                                                 *)
(*                                                                         *)
(* The four invariants are inductive together.  Each needs the others:     *)
(* capture_upvalue inserts where it should only into a sorted list,        *)
(* close_upvalues reaches every upvalue it must close only in a sorted and *)
(* complete one, and what it copies are values only if no upvalue points   *)
(* above the live cells.                                                   *)
(***************************************************************************)
EXTENDS Upvalues, MemoryProofs

Inv ==
    /\ TypeOK
    /\ OpenListSorted
    /\ OpenListComplete
    /\ NoDanglingUpvalue

\* The invariant in the terms of the lemmas about stacks and lists.
Good(s, w) ==
    /\ Live(s, Value)
    /\ WellTyped(w, Addresses, Value)
    /\ Sorted(w)
    /\ Complete(w)
    /\ \A a \in OpenAddressSet(w) : a < s.size

LEMMA InvIsGood == Inv <=> Good(stack, up)
BY DEF Inv, Good, TypeOK, Live, WellTyped, Upvalue, OpenListSorted, OpenListComplete,
       NoDanglingUpvalue, OpenAddressSet

LEMMA NextInvIsGood == Inv' <=> Good(stack', up')
BY DEF Inv, Good, TypeOK, Live, WellTyped, Upvalue, OpenListSorted, OpenListComplete,
       NoDanglingUpvalue, OpenAddressSet

\* The cell an open upvalue points to is live.
LEMMA OpenIsLive ==
    ASSUME NEW s, NEW w, Good(s, w), NEW a \in OpenAddressSet(w)
    PROVE  a \in 0 .. s.size - 1 /\ s.cells[a] \in Value
<1>1. PICK i \in 1 .. Len(w.open) : a = OpenAt(w, i)
  BY DEF OpenAddressSet
<1>2. Addresses \in SUBSET Int /\ OwnCell \notin Addresses /\ Addresses \subseteq Nat
  BY MaxSizeAssumption DEF Addresses, OwnCell
<1>3. /\ w.open[i] \in 1 .. Len(w.heap)
      /\ OpenAt(w, i) \in {OwnCell} \cup Addresses
  BY <1>2, OpenEntry DEF Good
<1>4. w.heap[w.open[i]].value # OwnCell
  BY <1>3 DEF Good, Complete
<1>5. a \in Nat
  BY <1>1, <1>2, <1>3, <1>4 DEF OpenAt
<1>6. s.size \in Nat /\ a < s.size
  BY MaxSizeAssumption DEF Good, Live, StackOf
<1> QED BY <1>5, <1>6 DEF Good, Live

LEMMA InitGood == Init => Inv
<1>1. SUFFICES ASSUME Init PROVE Good(stack, up)
  BY InvIsGood
<1>2. Live(stack, Value)
  BY <1>1, CreateLive DEF Init
<1>3. up = [heap |-> <<>>, open |-> <<>>] /\ Len(up.heap) = 0 /\ Len(up.open) = 0
  BY <1>1 DEF Init, NoUpvalues
<1>4. WellTyped(up, Addresses, Value)
  BY <1>3 DEF WellTyped
<1>5. Sorted(up) /\ Complete(up) /\ OpenAddressSet(up) = {}
  BY <1>3 DEF Sorted, Complete, OpenAddressSet
<1> QED BY <1>2, <1>4, <1>5 DEF Good

\* Closing what lies at or above last, as a return or the end of a block
\* does, leaves upvalues that suit a stack cut down to that size.
LEMMA CloseGood ==
    ASSUME NEW s, NEW w, Good(s, w), NEW last \in 0 .. s.size
    PROVE  Good([s EXCEPT !.size = last], CloseUpvalues(w, s.cells, last))
<1>1. Addresses \in SUBSET Int /\ OwnCell \notin Addresses /\ last \in Int
  BY MaxSizeAssumption DEF Addresses, OwnCell
<1>2. \A a \in OpenAddressSet(w) : a >= last => s.cells[a] \in Value
  BY OpenIsLive
<1>3. PICK cells : cells = s.cells
  OBVIOUS
<1>4. /\ WellTyped(CloseUpvalues(w, cells, last), Addresses, Value)
      /\ Sorted(CloseUpvalues(w, cells, last))
      /\ Complete(CloseUpvalues(w, cells, last))
      /\ Keeps(w, last, CloseUpvalues(w, cells, last))
  BY <1>1, <1>2, <1>3, CloseProperties DEF Good
<1>5. PICK t : t = [s EXCEPT !.size = last]
  OBVIOUS
<1>6. Live(t, Value) /\ t.size = last
  BY <1>5, LowerLive DEF Good
<1> QED BY <1>3, <1>4, <1>5, <1>6 DEF Good, Keeps

\* Every step keeps the invariant.
LEMMA NextGood == Inv /\ [Next]_vars => Inv'
<1>1. SUFFICES ASSUME Good(stack, up), [Next]_vars PROVE Good(stack', up')
  BY InvIsGood, NextInvIsGood
<1>2. /\ Live(stack, Value) /\ WellTyped(up, Addresses, Value)
      /\ Sorted(up) /\ Complete(up)
      /\ \A a \in OpenAddressSet(up) : a < stack.size
  BY <1>1 DEF Good
<1>3. stack.size \in 0 .. MaxSize /\ stack.size \in Nat
  BY <1>2, MaxSizeAssumption DEF Live, StackOf
<1>4. /\ Addresses \in SUBSET Int /\ OwnCell \notin Addresses
      /\ \A a \in 0 .. stack.size - 1 : a \in Addresses
  BY <1>3, MaxSizeAssumption DEF Addresses, OwnCell
<1>5. \A a \in OpenAddressSet(up) : a \in 0 .. stack.size - 1
  BY <1>1, OpenIsLive
<1>6. OpenAddresses = OpenAddressSet(up)
  BY DEF OpenAddresses, OpenAddressSet
\* ch_stack_get gives back every address that is not above the size.
<1>7. \A a \in 0 .. stack.size : Get(stack, a) = a
  BY <1>3 DEF Get, AddressOk
<1>8. ASSUME NEW v \in Value, PushLocal(v) PROVE Good(stack', up')
  <2>1. CanPush(stack) /\ stack' = Push(stack, v) /\ up' = up
    BY <1>8 DEF PushLocal
  <2>2. Live(stack', Value) /\ stack'.size = stack.size + 1
    BY <1>2, <2>1, PushLive
  <2>3. \A a \in OpenAddressSet(up) : a < stack.size + 1
    BY <1>3, <1>5
  <2> QED BY <1>2, <2>1, <2>2, <2>3 DEF Good
<1>9. ASSUME NEW a \in 0 .. stack.size - 1, NEW v \in Value, SetLocal(a, v)
      PROVE  Good(stack', up')
  <2>1. stack' = [stack EXCEPT !.cells = [stack.cells EXCEPT ![a] = v]] /\ up' = up
    BY <1>3, <1>9 DEF SetLocal, Set, AddressOk
  <2>2. Live(stack', Value) /\ stack'.size = stack.size
    BY <1>2, <2>1, AssignLive
  <2> QED BY <1>2, <2>1, <2>2 DEF Good
<1>10. ASSUME NEW a \in 0 .. stack.size - 1, Capture(a) PROVE Good(stack', up')
  <2>1. a \in Addresses /\ a < stack.size
    BY <1>3, <1>4
  <2>2. Get(stack, a) = a
    BY <1>3, <1>7
  <2>3. stack' = stack /\ up' = CaptureUpvalue(up, a)
    BY <1>10, <2>2 DEF Capture
  <2>4. /\ WellTyped(CaptureUpvalue(up, a), Addresses, Value)
        /\ Sorted(CaptureUpvalue(up, a)) /\ Complete(CaptureUpvalue(up, a))
        /\ Adds(up, a, CaptureUpvalue(up, a))
    BY <1>2, <1>4, <2>1, UpvaluesAssumption, CaptureProperties
  <2> QED BY <1>2, <2>1, <2>3, <2>4 DEF Good, Adds
<1>11. ASSUME NEW u \in 1 .. Len(up.heap), NEW v \in Value, SetUpvalue(u, v)
       PROVE  Good(stack', up')
  <2>1. CASE up.heap[u].value = OwnCell
    <3>1. stack' = [stack EXCEPT !.cells = stack.cells]
      BY <1>11, <2>1 DEF SetUpvalue, AssignCell
    <3>2. stack' = stack
      BY <1>2, <3>1 DEF Live, StackOf
    <3>3. up' = AssignOwn(up, u, v)
      BY <1>11 DEF SetUpvalue
    <3> QED BY <1>2, <1>4, <3>2, <3>3, AssignProperties DEF Good
  <2>2. CASE up.heap[u].value # OwnCell
    <3>1. PICK a : a = up.heap[u].value
      OBVIOUS
    <3>2. \E i \in 1 .. Len(up.open) : up.open[i] = u
      BY <1>2, <2>2 DEF Complete
    <3>3. a \in OpenAddressSet(up)
      BY <3>1, <3>2 DEF OpenAddressSet, OpenAt
    <3>4. a \in 0 .. stack.size - 1
      BY <1>5, <3>3
    <3>5. up' = up /\ stack' = [stack EXCEPT !.cells = [stack.cells EXCEPT ![a] = v]]
      BY <1>11, <2>2, <3>1 DEF SetUpvalue, AssignOwn, AssignCell
    <3>6. Live(stack', Value) /\ stack'.size = stack.size
      BY <1>2, <3>4, <3>5, AssignLive
    <3> QED BY <1>2, <3>5, <3>6 DEF Good
  <2> QED BY <2>1, <2>2
<1>12. ASSUME PopLocal PROVE Good(stack', up')
  <2>1. /\ stack.size > 0 /\ stack.size - 1 \notin OpenAddressSet(up)
        /\ stack' = [stack EXCEPT !.size = stack.size - 1] /\ up' = up
    BY <1>6, <1>12 DEF PopLocal, CanPop, Pop
  <2>2. stack.size - 1 \in 0 .. stack.size
    BY <1>3, <2>1
  <2>3. Live(stack', Value) /\ stack'.size = stack.size - 1
    BY <1>2, <2>1, <2>2, LowerLive
  <2>4. ASSUME NEW a \in OpenAddressSet(up) PROVE a < stack.size - 1
    <3>1. a \in 0 .. stack.size - 1 /\ a # stack.size - 1
      BY <1>5, <2>1
    <3> QED BY <1>3, <3>1
  <2> QED BY <1>2, <2>1, <2>3, <2>4 DEF Good
<1>13. ASSUME CloseUpvalue PROVE Good(stack', up')
  <2>1. stack.size - 1 \in 0 .. stack.size
    BY <1>3, <1>13 DEF CloseUpvalue, CanPop
  <2>2. stack' = [stack EXCEPT !.size = stack.size - 1]
    BY <1>3, <1>13, <2>1 DEF CloseUpvalue, PopN
  <2>3. up' = CloseUpvalues(up, stack.cells, stack.size - 1)
    BY <1>7, <1>13, <2>1 DEF CloseUpvalue
  <2> QED BY <1>1, <2>1, <2>2, <2>3, CloseGood
<1>14. ASSUME NEW base \in 0 .. stack.size, Return(base) PROVE Good(stack', up')
  <2>1. stack' = [stack EXCEPT !.size = base]
    BY <1>3, <1>14 DEF Return, SeekTo
  <2>2. up' = CloseUpvalues(up, stack.cells, base)
    BY <1>7, <1>14 DEF Return
  <2> QED BY <1>1, <2>1, <2>2, CloseGood
<1>15. CASE UNCHANGED vars
  BY <1>1, <1>15 DEF vars
<1> QED BY <1>1, <1>8, <1>9, <1>10, <1>11, <1>12, <1>13, <1>14, <1>15 DEF Next

LEMMA Invariant == Spec => []Inv
BY InitGood, NextGood, PTL DEF Spec

\* The stack and the upvalues keep their shape, and every live cell holds a
\* value: no handler shows a cell nothing was written to.
THEOREM SpecTypeOK == Spec => []TypeOK
BY Invariant, PTL DEF Inv

\* However captures, assignments, blocks and returns follow each other, the
\* list that both loops of vm.c search stays sorted.
THEOREM SpecOpenListSorted == Spec => []OpenListSorted
BY Invariant, PTL DEF Inv

\* No upvalue that still points to the stack is ever lost from the list.
THEOREM SpecOpenListComplete == Spec => []OpenListComplete
BY Invariant, PTL DEF Inv

\* No upvalue outlives the stack cell it points to.
THEOREM SpecNoDanglingUpvalue == Spec => []NoDanglingUpvalue
BY Invariant, PTL DEF Inv

------------------------------------------------------------------------------
(***************************************************************************)
(* The upvalues of vm.c behave as boxes: each step of Upvalues is a step   *)
(* of Boxes or leaves the locals and the boxes as they are.                *)
(*                                                                         *)
(* A cell belongs to the box of the one upvalue that points to it.  That   *)
(* there is at most one, and that the open list leads to it, is what the   *)
(* invariant says; without it a box could be lost or split in two.         *)
(***************************************************************************)
\* The refinement mapping, for any stack and any upvalues.
BoxOf(w, a) ==
    IF \E i \in 1 .. Len(w.open) : OpenAt(w, i) = a
      THEN w.open[CHOOSE i \in 1 .. Len(w.open) : OpenAt(w, i) = a]
      ELSE 0

LocalAt(s, w, a) ==
    IF BoxOf(w, a) = 0 THEN [box |-> 0, value |-> s.cells[a]]
                       ELSE [box |-> BoxOf(w, a), value |-> "boxed"]

LocalsOf(s, w) == [i \in 1 .. s.size |-> LocalAt(s, w, i - 1)]
BoxesOf(s, w) == [u \in 1 .. Len(w.heap) |-> Deref(w, s.cells, u)]

LEMMA Mapping ==
    /\ AbstractLocals = LocalsOf(stack, up)
    /\ AbstractBoxes = BoxesOf(stack, up)
BY DEF AbstractLocals, AbstractBoxes, LocalsOf, BoxesOf, LocalAt, BoxOf, UpvalueOf

LEMMA NextMapping ==
    /\ AbstractLocals' = LocalsOf(stack', up')
    /\ AbstractBoxes' = BoxesOf(stack', up')
BY DEF AbstractLocals, AbstractBoxes, LocalsOf, BoxesOf, LocalAt, BoxOf, UpvalueOf

\* What Good says of addresses and of the entries of the heap.
LEMMA GoodFacts ==
    ASSUME NEW s, NEW w, Good(s, w)
    PROVE  /\ s.size \in Nat /\ s.size <= MaxSize /\ Len(w.heap) \in Nat
           /\ Addresses \in SUBSET Int /\ OwnCell \notin Addresses
           /\ DOMAIN s.cells = Addresses
           /\ \A a \in 0 .. s.size - 1 : a \in Addresses /\ s.cells[a] \in Value
           /\ \A u \in 1 .. Len(w.heap) :
                /\ w.heap[u].closed \in Value
                /\ w.heap[u].value # OwnCell => w.heap[u].value \in 0 .. s.size - 1
<1>1. /\ s.size \in 0 .. MaxSize /\ s.cells \in [Addresses -> Value \cup {Indeterminate}]
      /\ MaxSize \in Nat
  BY MaxSizeAssumption DEF Good, Live, StackOf
<1>2. Addresses \in SUBSET Int /\ OwnCell \notin Addresses
  BY MaxSizeAssumption DEF Addresses, OwnCell
<1>3. \A a \in 0 .. s.size - 1 : a \in Addresses /\ s.cells[a] \in Value
  BY <1>1 DEF Good, Live, Addresses
<1>4. PICK U : U = [value : {OwnCell} \cup Addresses, closed : Value]
  OBVIOUS
<1>5. w.heap \in Seq(U) /\ Len(w.heap) \in Nat
  BY <1>4 DEF Good, WellTyped
<1>6. \A u \in 1 .. Len(w.heap) : w.heap[u] \in U
  BY <1>5, ElementOfSeq
<1>7. ASSUME NEW u \in 1 .. Len(w.heap), w.heap[u].value # OwnCell
      PROVE  w.heap[u].value \in 0 .. s.size - 1
  <2>1. w.heap[u].value \in OpenAddressSet(w)
    BY <1>2, <1>7, OpenMeansPointed DEF Good
  <2> QED BY <2>1, OpenIsLive
<1> QED BY <1>1, <1>2, <1>3, <1>4, <1>5, <1>6, <1>7

\* The box of a cell is the upvalue that points to it.
LEMMA BoxOfPointed ==
    ASSUME NEW s, NEW w, Good(s, w), NEW u \in 1 .. Len(w.heap), w.heap[u].value # OwnCell
    PROVE  BoxOf(w, w.heap[u].value) = u
<1>1. PICK a : a = w.heap[u].value
  OBVIOUS
<1>2. \E i \in 1 .. Len(w.open) : OpenAt(w, i) = a
  BY <1>1 DEF Good, Complete, OpenAt
<1>3. PICK i \in 1 .. Len(w.open) :
        OpenAt(w, i) = a /\ i = CHOOSE j \in 1 .. Len(w.open) : OpenAt(w, j) = a
  BY <1>2
<1>4. BoxOf(w, a) = w.open[i]
  BY <1>2, <1>3 DEF BoxOf
<1>5. Addresses \in SUBSET Int /\ OwnCell \notin Addresses
  BY GoodFacts
<1>6. w.open[i] \in 1 .. Len(w.heap) /\ w.heap[w.open[i]].value = a
  BY <1>3, <1>5, OpenEntry DEF OpenAt, Good
<1>7. w.open[i] = u
  BY <1>1, <1>5, <1>6, OneUpvalue DEF Good
<1> QED BY <1>1, <1>4, <1>7

\* A cell that no upvalue points to has none.
LEMMA BoxOfOthers ==
    ASSUME NEW s, NEW w, Good(s, w), NEW a, a # OwnCell,
           \A u \in 1 .. Len(w.heap) : w.heap[u].value # a
    PROVE  BoxOf(w, a) = 0
<1>1. Addresses \in SUBSET Int /\ OwnCell \notin Addresses
  BY GoodFacts
<1>2. a \notin OpenAddressSet(w)
  BY <1>1, OpenMeansPointed DEF Good
<1> QED BY <1>2 DEF BoxOf, OpenAddressSet

\* The same upvalue points to the cell, or none does.
PointedAlike(w, d, a) ==
    \A u : (u \in 1 .. Len(w.heap) /\ w.heap[u].value = a)
             <=> (u \in 1 .. Len(d.heap) /\ d.heap[u].value = a)

\* Then it has the same box.
LEMMA SameBox ==
    ASSUME NEW s, NEW w, Good(s, w), NEW t, NEW d, Good(t, d), NEW a, a # OwnCell,
           PointedAlike(w, d, a)
    PROVE  BoxOf(w, a) = BoxOf(d, a)
<1>1. CASE \E u \in 1 .. Len(w.heap) : w.heap[u].value = a
  <2>1. PICK u \in 1 .. Len(w.heap) : w.heap[u].value = a
    BY <1>1
  <2>2. u \in 1 .. Len(d.heap) /\ d.heap[u].value = a
    BY <2>1 DEF PointedAlike
  <2> QED BY <2>1, <2>2, BoxOfPointed
<1>2. CASE ~ \E u \in 1 .. Len(w.heap) : w.heap[u].value = a
  <2>1. \A u \in 1 .. Len(w.heap) : w.heap[u].value # a
    BY <1>2
  <2>2. \A u \in 1 .. Len(d.heap) : d.heap[u].value # a
    BY <1>2 DEF PointedAlike
  <2> QED BY <2>1, <2>2, BoxOfOthers
<1> QED BY <1>1, <1>2

\* The locals and the boxes are sequences.
LEMMA MappedShape ==
    ASSUME NEW s, NEW w, Good(s, w)
    PROVE  /\ LocalsOf(s, w) \in Seq({ LocalAt(s, w, i - 1) : i \in 1 .. s.size })
           /\ Len(LocalsOf(s, w)) = s.size
           /\ \A i \in 1 .. s.size : LocalsOf(s, w)[i] = LocalAt(s, w, i - 1)
           /\ BoxesOf(s, w) \in Seq(Value)
           /\ Len(BoxesOf(s, w)) = Len(w.heap)
           /\ \A u \in 1 .. Len(w.heap) : BoxesOf(s, w)[u] = Deref(w, s.cells, u)
<1>1. PICK n \in Nat : n = s.size
  BY GoodFacts
<1>2. PICK h \in Nat : h = Len(w.heap)
  BY GoodFacts
<1>3. PICK L : L = { LocalAt(s, w, i - 1) : i \in 1 .. s.size }
  OBVIOUS
<1>4. LocalsOf(s, w) \in [1 .. n -> L]
  BY <1>1, <1>3 DEF LocalsOf
<1>5. \A u \in 1 .. h : Deref(w, s.cells, u) \in Value
  BY <1>2, GoodFacts DEF Deref
<1>6. BoxesOf(s, w) \in [1 .. h -> Value]
  BY <1>2, <1>5 DEF BoxesOf
<1>7. \A i \in 1 .. s.size : LocalsOf(s, w)[i] = LocalAt(s, w, i - 1)
  BY DEF LocalsOf
<1>8. \A u \in 1 .. Len(w.heap) : BoxesOf(s, w)[u] = Deref(w, s.cells, u)
  BY DEF BoxesOf
<1>9. LocalsOf(s, w) \in Seq(L) /\ Len(LocalsOf(s, w)) = n
  BY <1>4
<1>10. BoxesOf(s, w) \in Seq(Value) /\ Len(BoxesOf(s, w)) = h
  BY <1>6
<1> QED BY <1>1, <1>2, <1>3, <1>7, <1>8, <1>9, <1>10

\* A sequence of length n with one more element, as a function.
Appended(q, n, e) == [i \in 1 .. n + 1 |-> IF i \in 1 .. n THEN q[i] ELSE e]

LEMMA AppendIsFunction ==
    ASSUME NEW S, NEW q \in Seq(S), NEW e, NEW n, n = Len(q)
    PROVE  Append(q, e) = Appended(q, n, e)
<1>1. PICK T : T = S \cup {e}
  OBVIOUS
<1>2. q \in Seq(T) /\ e \in T /\ n \in Nat
  BY <1>1, SeqMonotonic, LenProperties
<1>3. PICK f : f = [i \in 1 .. n + 1 |-> IF i \in 1 .. n THEN q[i] ELSE e]
  OBVIOUS
<1>4. f \in [1 .. n + 1 -> T]
  BY <1>1, <1>2, <1>3, ElementOfSeq
<1>5. f \in Seq(T) /\ Len(f) = n + 1
  BY <1>2, <1>4
<1>6. /\ Append(q, e) \in Seq(T) /\ Len(Append(q, e)) = n + 1
      /\ \A i \in 1 .. n + 1 : Append(q, e)[i] = f[i]
  BY <1>2, <1>3
<1>7. Append(q, e) = f
  BY <1>5, <1>6, SeqEqual
<1> QED BY <1>3, <1>7 DEF Appended

\* The addresses of cells are not the pointer of a closed upvalue.
LEMMA CellsAreNotOwn == \A a \in Nat : a \in Int /\ a # OwnCell
BY DEF OwnCell

\* A new variable is in no box, whatever was in its cell.
LEMMA PushMaps ==
    ASSUME NEW s, NEW w, Good(s, w), NEW v \in Value, CanPush(s), Good(Push(s, v), w)
    PROVE  /\ LocalsOf(Push(s, v), w) = Append(LocalsOf(s, w), [box |-> 0, value |-> v])
           /\ BoxesOf(Push(s, v), w) = BoxesOf(s, w)
<1>1. PICK n \in Nat : n = s.size
  BY GoodFacts
<1>2. PICK t : t = Push(s, v)
  OBVIOUS
<1>3. /\ t.size = n + 1 /\ n \in Addresses /\ t.cells[n] = v
      /\ \A a \in 0 .. n - 1 : t.cells[a] = s.cells[a]
  <2>1. t.size = n + 1 /\ t.cells = [s.cells EXCEPT ![n] = v] /\ n \in 0 .. t.size - 1
    BY <1>1, <1>2 DEF Push
  <2>2. n \in Addresses /\ DOMAIN s.cells = Addresses /\ \A a \in 0 .. n - 1 : a \in Addresses
    BY <1>1, <1>2, <2>1, GoodFacts
  <2> QED BY <2>1, <2>2
<1>4. \A u \in 1 .. Len(w.heap) : w.heap[u].value # OwnCell => w.heap[u].value \in 0 .. n - 1
  BY <1>1, GoodFacts
<1>5. BoxOf(w, n) = 0
  <2>1. \A u \in 1 .. Len(w.heap) : w.heap[u].value # n
    BY <1>4, CellsAreNotOwn
  <2> QED BY <2>1, CellsAreNotOwn, BoxOfOthers
<1>6. LocalAt(t, w, n) = [box |-> 0, value |-> v]
  BY <1>3, <1>5 DEF LocalAt
<1>7. \A a \in 0 .. n - 1 : LocalAt(t, w, a) = LocalAt(s, w, a)
  BY <1>3 DEF LocalAt
<1>8. LocalsOf(t, w) = Append(LocalsOf(s, w), [box |-> 0, value |-> v])
  <2>1. PICK e : e = [box |-> 0, value |-> v]
    OBVIOUS
  <2>2. PICK L : L = { LocalAt(s, w, i - 1) : i \in 1 .. s.size }
    OBVIOUS
  <2>3. PICK ls : ls = LocalsOf(s, w)
    OBVIOUS
  <2>4. ls \in Seq(L) /\ Len(ls) = n /\ \A i \in 1 .. n : ls[i] = LocalAt(s, w, i - 1)
    BY <1>1, <2>2, <2>3, MappedShape
  <2>5. Append(ls, e) = Appended(ls, n, e)
    BY <2>4, AppendIsFunction
  <2>6. ASSUME NEW i \in 1 .. n + 1
        PROVE  LocalAt(t, w, i - 1) = IF i \in 1 .. n THEN ls[i] ELSE e
    <3>1. CASE i \in 1 .. n
      <4>1. i - 1 \in 0 .. n - 1
        BY <3>1
      <4> QED BY <1>7, <2>4, <3>1, <4>1
    <3>2. CASE i \notin 1 .. n
      <4>1. i - 1 = n
        BY <3>2
      <4> QED BY <1>6, <2>1, <3>2, <4>1
    <3> QED BY <3>1, <3>2
  <2>7. LocalsOf(t, w) = [i \in 1 .. n + 1 |-> LocalAt(t, w, i - 1)]
    BY <1>3 DEF LocalsOf
  <2> QED BY <2>1, <2>3, <2>5, <2>6, <2>7 DEF Appended
<1>9. BoxesOf(t, w) = BoxesOf(s, w)
  BY <1>3, <1>4 DEF BoxesOf, Deref
<1> QED BY <1>2, <1>8, <1>9

\* The stack with one cell changed.
Assigned(s, a, v) == [s EXCEPT !.cells = [s.cells EXCEPT ![a] = v]]

LEMMA AssignedCells ==
    ASSUME NEW s, NEW w, Good(s, w), NEW a \in 0 .. s.size - 1, NEW v
    PROVE  /\ Assigned(s, a, v).size = s.size
           /\ Assigned(s, a, v).cells[a] = v
           /\ \A c \in 0 .. s.size - 1 : c # a => Assigned(s, a, v).cells[c] = s.cells[c]
<1>1. /\ s \in [cells : [Addresses -> Value \cup {Indeterminate}], size : 0 .. MaxSize]
      /\ DOMAIN s.cells = Addresses
      /\ \A c \in 0 .. s.size - 1 : c \in Addresses
  BY GoodFacts DEF Good, Live, StackOf
<1> QED BY <1>1 DEF Assigned

\* Assignment to a variable that an upvalue points to: only its box changes.
LEMMA AssignPointedMaps ==
    ASSUME NEW s, NEW w, Good(s, w), NEW v \in Value,
           NEW b \in 1 .. Len(w.heap), w.heap[b].value # OwnCell
    PROVE  /\ LocalsOf(Assigned(s, w.heap[b].value, v), w) = LocalsOf(s, w)
           /\ BoxesOf(Assigned(s, w.heap[b].value, v), w) = [BoxesOf(s, w) EXCEPT ![b] = v]
<1>1. PICK a : a = w.heap[b].value
  OBVIOUS
<1>2. a \in 0 .. s.size - 1 /\ s.size \in Nat
  BY <1>1, GoodFacts
<1>3. PICK t : t = Assigned(s, a, v)
  OBVIOUS
<1>4. /\ t.size = s.size /\ t.cells[a] = v
      /\ \A c \in 0 .. s.size - 1 : c # a => t.cells[c] = s.cells[c]
  BY <1>2, <1>3, AssignedCells
<1>5. BoxOf(w, a) = b /\ b # 0
  BY <1>1, BoxOfPointed, GoodFacts
<1>6. \A c \in 0 .. s.size - 1 : LocalAt(t, w, c) = LocalAt(s, w, c)
  BY <1>4, <1>5 DEF LocalAt
<1>7. \A i \in 1 .. s.size : i - 1 \in 0 .. s.size - 1
  BY <1>2
<1>8. LocalsOf(t, w) = LocalsOf(s, w)
  BY <1>4, <1>6, <1>7 DEF LocalsOf
<1>9. ASSUME NEW u \in 1 .. Len(w.heap)
      PROVE  Deref(w, t.cells, u) = IF u = b THEN v ELSE Deref(w, s.cells, u)
  <2>1. u # b => w.heap[u].value = OwnCell \/ w.heap[u].value # a
    BY <1>1, GoodFacts, OneUpvalue DEF Good
  <2>2. w.heap[u].value # OwnCell => w.heap[u].value \in 0 .. s.size - 1
    BY GoodFacts
  <2> QED BY <1>1, <1>4, <2>1, <2>2 DEF Deref
<1>10. BoxesOf(t, w) = [BoxesOf(s, w) EXCEPT ![b] = v]
  BY <1>9 DEF BoxesOf
<1> QED BY <1>1, <1>3, <1>8, <1>10

\* Assignment to a variable that is in no box.
LEMMA AssignPlainMaps ==
    ASSUME NEW s, NEW w, Good(s, w), NEW v \in Value, NEW a \in 0 .. s.size - 1,
           \A u \in 1 .. Len(w.heap) : w.heap[u].value # a
    PROVE  /\ LocalsOf(Assigned(s, a, v), w)
                = [LocalsOf(s, w) EXCEPT ![a + 1] = [box |-> 0, value |-> v]]
           /\ BoxesOf(Assigned(s, a, v), w) = BoxesOf(s, w)
<1>1. s.size \in Nat
  BY GoodFacts
<1>2. PICK t : t = Assigned(s, a, v)
  OBVIOUS
<1>3. /\ t.size = s.size /\ t.cells[a] = v
      /\ \A c \in 0 .. s.size - 1 : c # a => t.cells[c] = s.cells[c]
  BY <1>2, AssignedCells
<1>4. BoxOf(w, a) = 0
  BY <1>1, CellsAreNotOwn, BoxOfOthers
<1>5. ASSUME NEW i \in 1 .. s.size
      PROVE  LocalAt(t, w, i - 1) = IF i = a + 1 THEN [box |-> 0, value |-> v]
                                                 ELSE LocalAt(s, w, i - 1)
  <2>1. CASE i = a + 1
    <3>1. i - 1 = a
      BY <1>1, <2>1
    <3> QED BY <1>3, <1>4, <2>1, <3>1 DEF LocalAt
  <2>2. CASE i # a + 1
    <3>1. i - 1 \in 0 .. s.size - 1 /\ i - 1 # a
      BY <1>1, <2>2
    <3> QED BY <1>3, <2>2, <3>1 DEF LocalAt
  <2> QED BY <2>1, <2>2
<1>6. LocalsOf(t, w) = [LocalsOf(s, w) EXCEPT ![a + 1] = [box |-> 0, value |-> v]]
  BY <1>3, <1>5 DEF LocalsOf
<1>7. ASSUME NEW u \in 1 .. Len(w.heap) PROVE Deref(w, t.cells, u) = Deref(w, s.cells, u)
  <2>1. w.heap[u].value # OwnCell => w.heap[u].value \in 0 .. s.size - 1
    BY GoodFacts
  <2> QED BY <1>3, <2>1 DEF Deref
<1>8. BoxesOf(t, w) = BoxesOf(s, w)
  BY <1>7 DEF BoxesOf
<1> QED BY <1>2, <1>6, <1>8

\* The first capture of a variable puts it in a new box, with its value.
LEMMA CaptureMaps ==
    ASSUME NEW s, NEW w, Good(s, w), NEW a \in 0 .. s.size - 1,
           ~IsShared(w, a), Good(s, Created(w, a))
    PROVE  /\ BoxOf(w, a) = 0
           /\ LocalsOf(s, Created(w, a))
                = [LocalsOf(s, w) EXCEPT ![a + 1] = [box |-> Len(w.heap) + 1, value |-> "boxed"]]
           /\ BoxesOf(s, Created(w, a)) = Append(BoxesOf(s, w), s.cells[a])
<1>1. PICK h \in Nat : h = Len(w.heap)
  BY GoodFacts
<1>2. s.size \in Nat /\ a \in Nat /\ a \in Int /\ a # OwnCell
  BY GoodFacts, CellsAreNotOwn
<1>3. PICK d : d = Created(w, a)
  OBVIOUS
<1>4. PICK e : e = [value |-> a, closed |-> NullValue]
  OBVIOUS
<1>5. /\ Len(d.heap) = h + 1 /\ d.heap[h + 1] = e
      /\ \A u \in 1 .. h : d.heap[u] = w.heap[u]
  <2>1. d.heap = Append(w.heap, e)
    BY <1>3, <1>4 DEF Created
  <2>2. PICK U : U = [value : {OwnCell} \cup Addresses, closed : Value]
    OBVIOUS
  <2>3. w.heap \in Seq(U)
    BY <2>2 DEF Good, WellTyped
  <2> QED BY <1>1, <2>1, <2>3, AppendProperties
<1>6. a \notin OpenAddressSet(w)
  BY <1>2, GoodFacts, SharedIsOpen DEF Good
<1>7. \A u \in 1 .. Len(w.heap) : w.heap[u].value # a
  BY <1>2, <1>6, GoodFacts, OpenMeansPointed DEF Good
<1>8. BoxOf(w, a) = 0
  BY <1>2, <1>7, BoxOfOthers
<1>9. BoxOf(d, a) = h + 1
  <2>1. h + 1 \in 1 .. Len(d.heap) /\ d.heap[h + 1].value = a
    BY <1>4, <1>5
  <2> QED BY <1>2, <1>3, <2>1, BoxOfPointed
<1>10. ASSUME NEW c \in 0 .. s.size - 1, c # a PROVE BoxOf(d, c) = BoxOf(w, c)
  <2>1. c # OwnCell
    BY <1>2, CellsAreNotOwn
  <2>2. PointedAlike(w, d, c)
    <3>1. ASSUME NEW u, u \in 1 .. h + 1, u \notin 1 .. h PROVE u = h + 1
      BY <3>1
    <3> QED BY <3>1, <1>1, <1>4, <1>5, <1>10 DEF PointedAlike
  <2> QED BY <1>3, <2>1, <2>2, SameBox
<1>11. ASSUME NEW i \in 1 .. s.size
       PROVE  LocalAt(s, d, i - 1) = IF i = a + 1 THEN [box |-> h + 1, value |-> "boxed"]
                                                  ELSE LocalAt(s, w, i - 1)
  <2>1. CASE i = a + 1
    <3>1. i - 1 = a /\ h + 1 # 0
      BY <1>2, <2>1
    <3> QED BY <1>9, <2>1, <3>1 DEF LocalAt
  <2>2. CASE i # a + 1
    <3>1. i - 1 \in 0 .. s.size - 1 /\ i - 1 # a
      BY <1>2, <2>2
    <3> QED BY <1>10, <2>2, <3>1 DEF LocalAt
  <2> QED BY <2>1, <2>2
<1>12. LocalsOf(s, d)
         = [LocalsOf(s, w) EXCEPT ![a + 1] = [box |-> h + 1, value |-> "boxed"]]
  BY <1>11 DEF LocalsOf
<1>13. BoxesOf(s, d) = Append(BoxesOf(s, w), s.cells[a])
  <2>1. PICK q : q = BoxesOf(s, w)
    OBVIOUS
  <2>2. q \in Seq(Value) /\ h = Len(q) /\ \A u \in 1 .. h : q[u] = Deref(w, s.cells, u)
    BY <1>1, <2>1, MappedShape
  <2>3. Append(q, s.cells[a]) = Appended(q, h, s.cells[a])
    BY <2>2, AppendIsFunction
  <2>4. ASSUME NEW u \in 1 .. h + 1
        PROVE  Deref(d, s.cells, u) = IF u \in 1 .. h THEN q[u] ELSE s.cells[a]
    <3>1. CASE u \in 1 .. h
      BY <1>5, <2>2, <3>1 DEF Deref
    <3>2. CASE u \notin 1 .. h
      <4>1. u = h + 1
        BY <3>2
      <4> QED BY <1>2, <1>4, <1>5, <3>2, <4>1 DEF Deref
    <3> QED BY <3>1, <3>2
  <2>5. BoxesOf(s, d) = [u \in 1 .. h + 1 |-> Deref(d, s.cells, u)]
    BY <1>5 DEF BoxesOf
  <2> QED BY <2>1, <2>3, <2>4, <2>5 DEF Appended
<1> QED BY <1>1, <1>3, <1>8, <1>12, <1>13

\* The content of a box that has left the stack is its own cell.
LEMMA AssignOwnMaps ==
    ASSUME NEW s, NEW w, Good(s, w), NEW v \in Value,
           NEW b \in 1 .. Len(w.heap), w.heap[b].value = OwnCell,
           NEW d, d = [w EXCEPT !.heap[b].closed = v], Good(s, d)
    PROVE  /\ LocalsOf(s, d) = LocalsOf(s, w)
           /\ BoxesOf(s, d) = [BoxesOf(s, w) EXCEPT ![b] = v]
<1>1. PICK U : U = [value : {OwnCell} \cup Addresses, closed : Value]
  OBVIOUS
<1>2. PICK h \in Nat : h = Len(w.heap)
  BY GoodFacts
<1>3. w.heap \in Seq(U) /\ \A u \in 1 .. h : w.heap[u] \in U
  BY <1>1, <1>2, ElementOfSeq DEF Good, WellTyped
<1>4. PICK heap : heap = [w.heap EXCEPT ![b].closed = v]
  OBVIOUS
<1>5. d.heap = heap
  BY <1>4 DEF Good, WellTyped
<1>6. /\ Len(heap) = h
      /\ heap[b].value = w.heap[b].value /\ heap[b].closed = v
      /\ \A u \in 1 .. h : u # b => heap[u] = w.heap[u]
  BY <1>1, <1>2, <1>3, <1>4
<1>7. ASSUME NEW a \in 0 .. s.size - 1 PROVE BoxOf(d, a) = BoxOf(w, a)
  <2>1. a # OwnCell
    BY GoodFacts, CellsAreNotOwn
  <2>2. PointedAlike(w, d, a)
    BY <1>2, <1>5, <1>6 DEF PointedAlike
  <2> QED BY <2>1, <2>2, SameBox
<1>8. \A i \in 1 .. s.size : i - 1 \in 0 .. s.size - 1
  BY GoodFacts
<1>9. LocalsOf(s, d) = LocalsOf(s, w)
  BY <1>7, <1>8 DEF LocalsOf, LocalAt
<1>10. \A u \in 1 .. h : Deref(d, s.cells, u) = IF u = b THEN v ELSE Deref(w, s.cells, u)
  BY <1>5, <1>6 DEF Deref
<1>11. BoxesOf(s, d) = [BoxesOf(s, w) EXCEPT ![b] = v]
  BY <1>2, <1>5, <1>6, <1>10 DEF BoxesOf
<1> QED BY <1>9, <1>11

\* The first n elements of a sequence, as a function.
FirstOf(q, n) == [i \in 1 .. n |-> q[i]]

LEMMA SubSeqIsFunction ==
    ASSUME NEW S, NEW q \in Seq(S), NEW n \in 0 .. Len(q)
    PROVE  SubSeq(q, 1, n) = FirstOf(q, n)
<1>1. PICK f : f = FirstOf(q, n)
  OBVIOUS
<1>2. Len(q) \in Nat /\ n \in Nat /\ n <= Len(q)
  OBVIOUS
<1>3. \A i \in 1 .. n : i \in 1 .. Len(q)
  BY <1>2
<1>4. f \in [1 .. n -> S] /\ \A i \in 1 .. n : f[i] = q[i]
  BY <1>1, <1>3, ElementOfSeq DEF FirstOf
<1>5. f \in Seq(S) /\ Len(f) = n
  BY <1>2, <1>4
<1>6. /\ SubSeq(q, 1, n) \in Seq(S) /\ Len(SubSeq(q, 1, n)) = n
      /\ \A i \in 1 .. n : SubSeq(q, 1, n)[i] = q[i]
  BY <1>2
<1>7. SubSeq(q, 1, n) = f
  BY <1>4, <1>5, <1>6, SeqEqual
<1> QED BY <1>1, <1>7

\* What remains when the stack is cut down to the cells below last: the
\* locals below last, and every box, whether the upvalues that pointed above
\* were closed or there were none.
LEMMA LeaveMaps ==
    ASSUME NEW s, NEW w, Good(s, w), NEW last \in 0 .. s.size,
           NEW t, t.size = last, NEW d, Good(t, d),
           \A c \in 0 .. last - 1 : t.cells[c] = s.cells[c],
           Len(d.heap) = Len(w.heap),
           \A u \in 1 .. Len(w.heap) :
              d.heap[u] = IF w.heap[u].value >= last
                            THEN [value |-> OwnCell, closed |-> s.cells[w.heap[u].value]]
                            ELSE w.heap[u]
    PROVE  /\ LocalsOf(t, d) = SubSeq(LocalsOf(s, w), 1, last)
           /\ BoxesOf(t, d) = BoxesOf(s, w)
<1>1. PICK h \in Nat : h = Len(w.heap)
  BY GoodFacts
<1>2. s.size \in Nat /\ last \in Nat /\ OwnCell \in Int /\ OwnCell < 0
  BY GoodFacts DEF OwnCell
<1>3. \A u \in 1 .. h : w.heap[u].value = OwnCell \/ w.heap[u].value \in 0 .. s.size - 1
  BY <1>1, GoodFacts
<1>4. \A u \in 1 .. h : w.heap[u].value \in Int
  BY <1>2, <1>3
<1>5. ASSUME NEW u \in 1 .. h, w.heap[u].value < last PROVE d.heap[u] = w.heap[u]
  <2>1. ~(w.heap[u].value >= last)
    BY <1>2, <1>4, <1>5
  <2> QED BY <1>1, <2>1
<1>6. ASSUME NEW u \in 1 .. h, ~(w.heap[u].value < last)
       PROVE  /\ w.heap[u].value # OwnCell
              /\ d.heap[u].value = OwnCell
              /\ d.heap[u].closed = s.cells[w.heap[u].value]
  <2>1. w.heap[u].value >= last /\ w.heap[u].value # OwnCell
    BY <1>2, <1>4, <1>6
  <2>2. d.heap[u] = [value |-> OwnCell, closed |-> s.cells[w.heap[u].value]]
    BY <1>1, <2>1
  <2> QED BY <2>1, <2>2
<1>7. ASSUME NEW c \in 0 .. last - 1 PROVE BoxOf(w, c) = BoxOf(d, c)
  <2>1. c # OwnCell
    BY <1>2
  <2>2. ASSUME NEW u \in 1 .. h PROVE w.heap[u].value = c <=> d.heap[u].value = c
    <3>1. CASE w.heap[u].value < last
      BY <1>5, <3>1
    <3>2. CASE ~(w.heap[u].value < last)
      BY <1>2, <1>7, <1>6, <2>1, <3>2
    <3> QED BY <3>1, <3>2
  <2>3. PointedAlike(w, d, c)
    BY <1>1, <2>2 DEF PointedAlike
  <2> QED BY <2>1, <2>3, SameBox
<1>8. ASSUME NEW i \in 1 .. last PROVE LocalAt(t, d, i - 1) = LocalsOf(s, w)[i]
  <2>1. i \in 1 .. s.size /\ i - 1 \in 0 .. last - 1
    BY <1>2
  <2>2. LocalsOf(s, w)[i] = LocalAt(s, w, i - 1)
    BY <2>1, MappedShape
  <2> QED BY <1>7, <2>1, <2>2 DEF LocalAt
<1>9. PICK L : L = { LocalAt(s, w, i - 1) : i \in 1 .. s.size }
  OBVIOUS
<1>10. PICK q : q = LocalsOf(s, w)
  OBVIOUS
<1>11. q \in Seq(L) /\ Len(q) = s.size
  BY <1>9, <1>10, MappedShape
<1>12. SubSeq(q, 1, last) = FirstOf(q, last)
  BY <1>11, SubSeqIsFunction
<1>13. LocalsOf(t, d) = FirstOf(q, last)
  BY <1>8, <1>10 DEF LocalsOf, FirstOf
<1>14. ASSUME NEW u \in 1 .. h PROVE Deref(d, t.cells, u) = Deref(w, s.cells, u)
  <2>1. CASE w.heap[u].value < last
    <3>1. d.heap[u] = w.heap[u]
      BY <1>5, <2>1
    <3>2. w.heap[u].value # OwnCell => w.heap[u].value \in 0 .. last - 1
      BY <1>2, <1>3, <2>1
    <3> QED BY <3>1, <3>2 DEF Deref
  <2>2. CASE ~(w.heap[u].value < last)
    BY <1>6, <2>2 DEF Deref
  <2> QED BY <2>1, <2>2
<1>15. BoxesOf(t, d) = BoxesOf(s, w)
  BY <1>1, <1>14 DEF BoxesOf
<1> QED BY <1>10, <1>12, <1>13, <1>15

\* Leaving a block or a function that closes its upvalues.
LEMMA CloseMaps ==
    ASSUME NEW s, NEW w, Good(s, w), NEW last \in 0 .. s.size
    PROVE  LET t == [s EXCEPT !.size = last]
               d == CloseUpvalues(w, s.cells, last)
           IN  /\ LocalsOf(t, d) = SubSeq(LocalsOf(s, w), 1, last)
               /\ BoxesOf(t, d) = BoxesOf(s, w)
<1>1. PICK t : t = [s EXCEPT !.size = last]
  OBVIOUS
<1>2. PICK d : d = CloseUpvalues(w, s.cells, last)
  OBVIOUS
<1>3. t.size = last /\ t.cells = s.cells
  BY <1>1, LowerLive DEF Good
<1>4. Good(t, d)
  BY <1>1, <1>2, CloseGood
<1>5. last \in Int /\ OwnCell < last
  BY GoodFacts DEF OwnCell
<1>6. Len(d.heap) = Len(w.heap)
  <2>1. PICK h \in Nat : h = Len(w.heap)
    BY GoodFacts
  <2>2. DOMAIN d.heap = 1 .. h
    BY <1>2, <2>1 DEF CloseUpvalues
  <2>3. PICK U : d.heap \in Seq(U)
    BY <1>4 DEF Good, WellTyped
  <2>4. DOMAIN d.heap = 1 .. Len(d.heap) /\ Len(d.heap) \in Nat
    BY <2>3, LenProperties
  <2> QED BY <2>1, <2>2, <2>4
<1>7. ASSUME NEW u \in 1 .. Len(w.heap)
      PROVE  d.heap[u] = IF w.heap[u].value >= last
                           THEN [value |-> OwnCell, closed |-> s.cells[w.heap[u].value]]
                           ELSE w.heap[u]
  BY <1>2, <1>5, GoodFacts, CloseEffect DEF Good
<1>8. LocalsOf(t, d) = SubSeq(LocalsOf(s, w), 1, last) /\ BoxesOf(t, d) = BoxesOf(s, w)
  BY <1>3, <1>4, <1>6, <1>7, LeaveMaps
<1> QED BY <1>1, <1>2, <1>8

\* The initial state has no locals and no boxes.
LEMMA InitMaps == Init => B!Init
<1>1. SUFFICES ASSUME Init PROVE AbstractLocals = <<>> /\ AbstractBoxes = <<>>
  BY DEF B!Init
<1>2. Good(stack, up)
  BY <1>1, InitGood, InvIsGood
<1>3. stack.size = 0 /\ up.heap = <<>> /\ Len(up.heap) = 0
  BY <1>1, CreateLive DEF Init, NoUpvalues
<1>4. PICK L : AbstractLocals \in Seq(L) /\ Len(AbstractLocals) = 0
  BY <1>2, <1>3, Mapping, MappedShape
<1>5. AbstractBoxes \in Seq(Value) /\ Len(AbstractBoxes) = 0
  BY <1>2, <1>3, Mapping, MappedShape
<1> QED BY <1>4, <1>5, EmptySeq

\* Every step is a step of the boxes, or none.
LEMMA NextMaps == Inv /\ Inv' /\ [Next]_vars => [B!Next]_(B!vars)
<1>1. SUFFICES ASSUME Good(stack, up), Good(stack', up'), [Next]_vars
               PROVE  B!Next \/ UNCHANGED <<AbstractLocals, AbstractBoxes>>
  BY InvIsGood, NextInvIsGood DEF B!vars
<1>2. /\ AbstractLocals = LocalsOf(stack, up) /\ AbstractBoxes = BoxesOf(stack, up)
      /\ AbstractLocals' = LocalsOf(stack', up') /\ AbstractBoxes' = BoxesOf(stack', up')
  BY Mapping, NextMapping
<1>3. /\ Len(AbstractLocals) = stack.size /\ Len(AbstractBoxes) = Len(up.heap)
      /\ \A i \in 1 .. stack.size : AbstractLocals[i] = LocalAt(stack, up, i - 1)
  BY <1>1, <1>2, MappedShape
<1>4. stack.size \in Nat /\ stack.size <= MaxSize /\ Len(up.heap) \in Nat
  BY <1>1, GoodFacts
\* ch_stack_get gives back every address that is not above the size.
<1>5. \A a \in 0 .. stack.size : Get(stack, a) = a
  BY <1>4 DEF Get, AddressOk
<1>6. \A a \in 0 .. stack.size - 1 :
        a + 1 \in 1 .. Len(AbstractLocals) /\ AbstractLocals[a + 1] = LocalAt(stack, up, a)
  <2>1. \A a \in 0 .. stack.size - 1 : a + 1 \in 1 .. stack.size /\ (a + 1) - 1 = a
    BY <1>4
  <2> QED BY <2>1, <1>3
<1>7. ASSUME NEW v \in Value, PushLocal(v) PROVE B!Declare(v)
  <2>1. CanPush(stack) /\ stack' = Push(stack, v) /\ up' = up
    BY <1>7 DEF PushLocal
  <2>2. /\ AbstractLocals' = Append(AbstractLocals, [box |-> 0, value |-> v])
        /\ AbstractBoxes' = AbstractBoxes
    BY <1>1, <1>2, <2>1, PushMaps
  <2>3. Len(AbstractLocals) < MaxSize
    BY <1>3, <2>1 DEF CanPush
  <2> QED BY <2>2, <2>3 DEF B!Declare, B!Plain
<1>8. ASSUME NEW a \in 0 .. stack.size - 1, NEW v \in Value, SetLocal(a, v)
      PROVE  B!Assign(a + 1, v)
  <2>1. stack' = Assigned(stack, a, v) /\ up' = up
    BY <1>4, <1>8 DEF SetLocal, Set, AddressOk, Assigned
  <2>2. a # OwnCell
    BY <1>4, CellsAreNotOwn
  <2>3. CASE \E u \in 1 .. Len(up.heap) : up.heap[u].value = a
    <3>1. PICK u \in 1 .. Len(up.heap) : up.heap[u].value = a
      BY <2>3
    <3>2. BoxOf(up, a) = u /\ u # 0
      BY <1>1, <1>4, <2>2, <3>1, BoxOfPointed
    <3>a. LocalAt(stack, up, a) = [box |-> u, value |-> "boxed"]
      BY <3>2 DEF LocalAt
    <3>b. AbstractLocals[a + 1] = LocalAt(stack, up, a)
      BY <1>6
    <3>3. AbstractLocals[a + 1].box = u
      BY <3>a, <3>b
    <3>4. AbstractLocals' = AbstractLocals /\ AbstractBoxes' = [AbstractBoxes EXCEPT ![u] = v]
      <4>1. stack' = Assigned(stack, up.heap[u].value, v) /\ up' = up
        BY <2>1, <3>1
      <4>2. up.heap[u].value # OwnCell
        BY <2>2, <3>1
      <4>3. PICK b : b = up.heap[u].value
        OBVIOUS
      <4>4. PICK t : t = Assigned(stack, b, v)
        OBVIOUS
      <4>5. /\ LocalsOf(t, up) = LocalsOf(stack, up)
            /\ BoxesOf(t, up) = [BoxesOf(stack, up) EXCEPT ![u] = v]
        BY <1>1, <4>2, <4>3, <4>4, AssignPointedMaps
      <4>6. stack' = t /\ up' = up
        BY <4>1, <4>3, <4>4
      <4> QED BY <1>2, <4>5, <4>6
    <3> QED BY <3>2, <3>3, <3>4 DEF B!Assign, B!IsBoxed
  <2>4. CASE ~ \E u \in 1 .. Len(up.heap) : up.heap[u].value = a
    <3>1. \A u \in 1 .. Len(up.heap) : up.heap[u].value # a
      BY <2>4
    <3>2. BoxOf(up, a) = 0
      BY <1>1, <2>2, <3>1, BoxOfOthers
    <3>a. LocalAt(stack, up, a) = [box |-> 0, value |-> stack.cells[a]]
      BY <3>2 DEF LocalAt
    <3>b. AbstractLocals[a + 1] = LocalAt(stack, up, a)
      BY <1>6
    <3>3. AbstractLocals[a + 1].box = 0
      BY <3>a, <3>b
    <3>4. /\ AbstractLocals' = [AbstractLocals EXCEPT ![a + 1] = [box |-> 0, value |-> v]]
          /\ AbstractBoxes' = AbstractBoxes
      BY <1>1, <1>2, <2>1, <3>1, AssignPlainMaps
    <3> QED BY <3>3, <3>4 DEF B!Assign, B!IsBoxed, B!Plain
  <2> QED BY <2>3, <2>4
<1>9. ASSUME NEW a \in 0 .. stack.size - 1, Capture(a)
      PROVE  B!Capture(a + 1) \/ UNCHANGED <<AbstractLocals, AbstractBoxes>>
  <2>1. Get(stack, a) = a
    BY <1>4, <1>5
  <2>2. stack' = stack /\ up' = CaptureUpvalue(up, a)
    BY <1>9, <2>1 DEF Capture
  <2>3. CASE IsShared(up, a)
    <3>1. up' = up
      BY <2>2, <2>3 DEF CaptureUpvalue
    <3> QED BY <1>2, <2>2, <3>1
  <2>4. CASE ~IsShared(up, a)
    <3>1. up' = Created(up, a)
      BY <2>2, <2>4 DEF CaptureUpvalue
    <3>2. Len(AbstractBoxes) < MaxUpvalues
      BY <1>3, <1>9, <2>1, <2>4 DEF Capture
    <3>3. /\ BoxOf(up, a) = 0
          /\ AbstractLocals' = [AbstractLocals EXCEPT
                                  ![a + 1] = [box |-> Len(up.heap) + 1, value |-> "boxed"]]
          /\ AbstractBoxes' = Append(AbstractBoxes, stack.cells[a])
      BY <1>1, <1>2, <2>2, <2>4, <3>1, CaptureMaps
    <3>a. LocalAt(stack, up, a) = [box |-> 0, value |-> stack.cells[a]]
      BY <3>3 DEF LocalAt
    <3>b. AbstractLocals[a + 1] = LocalAt(stack, up, a)
      BY <1>6
    <3>4. AbstractLocals[a + 1].box = 0 /\ AbstractLocals[a + 1].value = stack.cells[a]
      BY <3>a, <3>b
    <3> QED BY <1>3, <3>2, <3>3, <3>4 DEF B!Capture, B!IsBoxed, B!Boxed
  <2> QED BY <2>3, <2>4
<1>10. ASSUME NEW u \in 1 .. Len(up.heap), NEW v \in Value, SetUpvalue(u, v)
       PROVE  B!AssignBox(u, v)
  <2>1. CASE up.heap[u].value = OwnCell
    <3>1. up' = [up EXCEPT !.heap[u].closed = v]
      BY <1>10, <2>1 DEF SetUpvalue, AssignOwn
    <3>2. stack' = [stack EXCEPT !.cells = stack.cells]
      BY <1>10, <2>1 DEF SetUpvalue, AssignCell
    <3>3. stack' = stack
      BY <1>1, <3>2 DEF Good, Live, StackOf
    <3>4. AbstractLocals' = AbstractLocals /\ AbstractBoxes' = [AbstractBoxes EXCEPT ![u] = v]
      BY <1>1, <1>2, <2>1, <3>1, <3>3, AssignOwnMaps
    <3> QED BY <3>4 DEF B!AssignBox
  <2>2. CASE up.heap[u].value # OwnCell
    <3>1. up' = up /\ stack' = Assigned(stack, up.heap[u].value, v)
      BY <1>10, <2>2 DEF SetUpvalue, AssignOwn, AssignCell, Assigned
    <3>2. AbstractLocals' = AbstractLocals /\ AbstractBoxes' = [AbstractBoxes EXCEPT ![u] = v]
      BY <1>1, <1>2, <2>2, <3>1, AssignPointedMaps
    <3> QED BY <3>2 DEF B!AssignBox
  <2> QED BY <2>1, <2>2
\* Closing what lies at or above the new size.
<1>11. ASSUME NEW base \in 0 .. stack.size, stack' = [stack EXCEPT !.size = base],
              up' = CloseUpvalues(up, stack.cells, base)
       PROVE  B!Leave(base)
  BY <1>1, <1>2, <1>11, CloseMaps DEF B!Leave
<1>12. ASSUME PopLocal PROVE B!Leave(stack.size - 1) /\ stack.size - 1 \in 0 .. stack.size
  <2>1. /\ stack.size > 0 /\ stack.size - 1 \notin OpenAddressSet(up)
        /\ stack' = [stack EXCEPT !.size = stack.size - 1] /\ up' = up
    BY <1>12 DEF PopLocal, CanPop, Pop, OpenAddresses, OpenAddressSet
  <2>2. PICK last : last = stack.size - 1
    OBVIOUS
  <2>3. last \in 0 .. stack.size /\ last # OwnCell
    BY <1>4, <2>1, <2>2, CellsAreNotOwn
  <2>4. stack'.size = last /\ stack'.cells = stack.cells
    BY <1>1, <2>1, <2>2, <2>3, LowerLive DEF Good
  <2>5. ASSUME NEW u \in 1 .. Len(up.heap) PROVE ~(up.heap[u].value >= last)
    <3>1. up.heap[u].value # last
      BY <1>1, <2>1, <2>2, <2>3, GoodFacts, OpenMeansPointed DEF Good
    <3>2. up.heap[u].value = OwnCell \/ up.heap[u].value \in 0 .. stack.size - 1
      BY <1>1, GoodFacts
    <3>3. OwnCell \in Int /\ OwnCell < 0
      BY DEF OwnCell
    <3> QED BY <1>4, <2>2, <2>3, <3>1, <3>2, <3>3
  <2>6. /\ AbstractLocals' = SubSeq(AbstractLocals, 1, last)
        /\ AbstractBoxes' = AbstractBoxes
    <3>1. PICK t : t = stack'
      OBVIOUS
    <3>2. PICK d : d = up'
      OBVIOUS
    <3>3. Good(t, d)
      BY <1>1, <3>1, <3>2
    <3>4. t.size = last /\ \A c \in 0 .. last - 1 : t.cells[c] = stack.cells[c]
      BY <2>4, <3>1
    <3>5. /\ Len(d.heap) = Len(up.heap)
          /\ \A u \in 1 .. Len(up.heap) :
                d.heap[u] = IF up.heap[u].value >= last
                              THEN [value |-> OwnCell, closed |-> stack.cells[up.heap[u].value]]
                              ELSE up.heap[u]
      BY <2>1, <2>5, <3>2
    <3>6. /\ LocalsOf(t, d) = SubSeq(LocalsOf(stack, up), 1, last)
          /\ BoxesOf(t, d) = BoxesOf(stack, up)
      BY <1>1, <2>3, <3>3, <3>4, <3>5, LeaveMaps
    <3> QED BY <1>2, <3>1, <3>2, <3>6
  <2> QED BY <2>2, <2>3, <2>6 DEF B!Leave
<1>13. ASSUME CloseUpvalue PROVE B!Leave(stack.size - 1) /\ stack.size - 1 \in 0 .. stack.size
  <2>1. stack.size - 1 \in 0 .. stack.size
    BY <1>4, <1>13 DEF CloseUpvalue, CanPop
  <2>2. stack' = [stack EXCEPT !.size = stack.size - 1]
    BY <1>4, <1>13, <2>1 DEF CloseUpvalue, PopN
  <2>3. up' = CloseUpvalues(up, stack.cells, stack.size - 1)
    BY <1>5, <1>13, <2>1 DEF CloseUpvalue
  <2> QED BY <1>11, <2>1, <2>2, <2>3
<1>14. ASSUME NEW base \in 0 .. stack.size, Return(base) PROVE B!Leave(base)
  <2>1. stack' = [stack EXCEPT !.size = base]
    BY <1>4, <1>14 DEF Return, SeekTo
  <2>2. up' = CloseUpvalues(up, stack.cells, base)
    BY <1>5, <1>14 DEF Return
  <2> QED BY <1>11, <2>1, <2>2
<1>15. CASE UNCHANGED vars
  BY <1>2, <1>15 DEF vars
<1>16. ASSUME Next PROVE B!Next \/ UNCHANGED <<AbstractLocals, AbstractBoxes>>
  <2>1. ASSUME NEW v \in Value, PushLocal(v) PROVE B!Next
    BY <1>7, <2>1 DEF B!Next
  <2>2. ASSUME NEW a \in 0 .. stack.size - 1, NEW v \in Value, SetLocal(a, v) PROVE B!Next
    BY <1>6, <1>8, <2>2 DEF B!Next
  <2>3. ASSUME NEW a \in 0 .. stack.size - 1, Capture(a)
        PROVE  B!Next \/ UNCHANGED <<AbstractLocals, AbstractBoxes>>
    BY <1>6, <1>9, <2>3 DEF B!Next
  <2>4. ASSUME NEW u \in 1 .. Len(up.heap), NEW v \in Value, SetUpvalue(u, v) PROVE B!Next
    BY <1>3, <1>10, <2>4 DEF B!Next
  <2>5. ASSUME NEW n \in 0 .. stack.size, B!Leave(n) PROVE B!Next
    BY <1>3, <2>5 DEF B!Next
  <2>6. CASE PopLocal
    BY <1>12, <2>5, <2>6
  <2>7. CASE CloseUpvalue
    BY <1>13, <2>5, <2>7
  <2>8. ASSUME NEW base \in 0 .. stack.size, Return(base) PROVE B!Next
    BY <1>14, <2>5, <2>8
  <2> QED BY <1>16, <2>1, <2>2, <2>3, <2>4, <2>6, <2>7, <2>8 DEF Next
<1> QED BY <1>1, <1>15, <1>16

\* The upvalues of vm.c keep the promise of Boxes: a variable that closures
\* captured stays one variable for all of them and for the function that
\* declared it, while it is on the stack and after it has left.
THEOREM SpecImplementsBoxes == Spec => ImplementsBoxes
BY InitMaps, NextMaps, Invariant, PTL DEF Spec, ImplementsBoxes, B!Spec
==============================================================================
