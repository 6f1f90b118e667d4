---------------------------- MODULE MemoryProofs ----------------------------
(***************************************************************************)
(* The facts about modules Stack and UpvalueList that the proofs of their  *)
(* users cite: what the operations of the stack preserve, and what the two *)
(* loops over the open upvalues find, whatever the list.  No specification *)
(* is named here; Upvalues and VM use the same operators.                  *)
(***************************************************************************)
EXTENDS Stack, UpvalueList, SequenceTheorems, WellFoundedInduction, TLAPS

(***************************************************************************)
(* The stack.                                                              *)
(***************************************************************************)
\* A stack whose live cells hold values of V; the others may hold anything
\* of V or what malloc left there.
Live(s, V) ==
    /\ s \in StackOf(V \cup {Indeterminate})
    /\ \A a \in 0 .. s.size - 1 : s.cells[a] \in V

\* What ch_stack_create returns has no live cell.
LEMMA CreateLive ==
    ASSUME NEW V
    PROVE  Live(CreateStack, V) /\ CreateStack.size = 0
BY MaxSizeAssumption DEF Live, CreateStack, StackOf, Addresses

\* ch_stack_push, when there is room: one more live cell.
LEMMA PushLive ==
    ASSUME NEW V, NEW s, Live(s, V), CanPush(s), NEW v \in V
    PROVE  Live(Push(s, v), V) /\ Push(s, v).size = s.size + 1
<1>1. s.cells \in [Addresses -> V \cup {Indeterminate}] /\ s.size \in 0 .. MaxSize
  BY DEF Live, StackOf
<1>2. s.size \in Addresses /\ s.size \in Nat /\ s.size + 1 \in 0 .. MaxSize
  BY <1>1, MaxSizeAssumption DEF CanPush, Addresses
<1>3. PICK c : c = [s.cells EXCEPT ![s.size] = v]
  OBVIOUS
<1>4. Push(s, v) = [cells |-> c, size |-> s.size + 1]
  BY <1>3 DEF Push
<1>5. c \in [Addresses -> V \cup {Indeterminate}]
  BY <1>1, <1>3
<1>6. c[s.size] = v /\ \A a \in Addresses : a # s.size => c[a] = s.cells[a]
  BY <1>1, <1>2, <1>3
<1>7. ASSUME NEW a \in 0 .. s.size PROVE c[a] \in V
  <2>1. a = s.size \/ a \in 0 .. s.size - 1
    BY <1>2
  <2>2. a \in Addresses
    BY <1>2, MaxSizeAssumption DEF Addresses
  <2> QED BY <1>6, <2>1, <2>2 DEF Live
<1>8. Push(s, v).cells = c /\ Push(s, v).size = s.size + 1
  BY <1>4
<1>9. Push(s, v) \in StackOf(V \cup {Indeterminate})
  BY <1>2, <1>4, <1>5 DEF StackOf
<1>10. (s.size + 1) - 1 = s.size
  BY <1>2
<1> QED BY <1>7, <1>8, <1>9, <1>10 DEF Live

\* An assignment to a live cell.
LEMMA AssignLive ==
    ASSUME NEW V, NEW s, Live(s, V), NEW address \in 0 .. s.size - 1, NEW v \in V
    PROVE  /\ Live([s EXCEPT !.cells = [s.cells EXCEPT ![address] = v]], V)
           /\ [s EXCEPT !.cells = [s.cells EXCEPT ![address] = v]].size = s.size
<1>1. s.cells \in [Addresses -> V \cup {Indeterminate}] /\ s.size \in 0 .. MaxSize
  BY DEF Live, StackOf
<1>2. PICK c : c = [s.cells EXCEPT ![address] = v]
  OBVIOUS
<1>3. c \in [Addresses -> V \cup {Indeterminate}]
  BY <1>1, <1>2
<1>4. \A a \in 0 .. s.size - 1 : a \in Addresses
  BY <1>1, MaxSizeAssumption DEF Addresses
<1>5. \A a \in 0 .. s.size - 1 : c[a] \in V
  BY <1>1, <1>2, <1>4 DEF Live
<1>6. PICK t : t = [s EXCEPT !.cells = c]
  OBVIOUS
<1>7. t \in StackOf(V \cup {Indeterminate}) /\ t.cells = c /\ t.size = s.size
  BY <1>3, <1>6 DEF Live, StackOf
<1> QED BY <1>2, <1>5, <1>6, <1>7 DEF Live

\* Whatever lowers the size leaves the cells alone.
LEMMA LowerLive ==
    ASSUME NEW V, NEW s, Live(s, V), NEW n \in 0 .. s.size
    PROVE  /\ Live([s EXCEPT !.size = n], V)
           /\ [s EXCEPT !.size = n].size = n
           /\ [s EXCEPT !.size = n].cells = s.cells
<1>1. s.size \in 0 .. MaxSize
  BY DEF Live, StackOf
<1>2. n \in 0 .. MaxSize /\ \A a \in 0 .. n - 1 : a \in 0 .. s.size - 1
  BY <1>1, MaxSizeAssumption
<1>3. PICK t : t = [s EXCEPT !.size = n]
  OBVIOUS
<1>4. t \in StackOf(V \cup {Indeterminate}) /\ t.cells = s.cells /\ t.size = n
  BY <1>2, <1>3 DEF Live, StackOf
<1> QED BY <1>2, <1>3, <1>4 DEF Live

\* Every operation keeps the cells and the size within the block.
LEMMA StackShape ==
    ASSUME NEW V, NEW s \in StackOf(V)
    PROVE  /\ s.size \in Nat /\ s.size <= MaxSize
           /\ s.cells \in [Addresses -> V]
           /\ \A a \in 0 .. s.size - 1 : a \in Addresses /\ s.cells[a] \in V
BY MaxSizeAssumption DEF StackOf, Addresses

LEMMA ResizedTyped ==
    ASSUME NEW V, NEW s \in StackOf(V), NEW n \in 0 .. s.size
    PROVE  [s EXCEPT !.size = n] \in StackOf(V) /\ [s EXCEPT !.size = n].size = n
<1>1. n \in 0 .. MaxSize
  BY MaxSizeAssumption DEF StackOf
<1> QED BY <1>1 DEF StackOf

LEMMA WrittenTyped ==
    ASSUME NEW V, NEW s \in StackOf(V), NEW a \in Addresses, NEW v \in V, NEW n \in 0 .. MaxSize
    PROVE  [cells |-> [s.cells EXCEPT ![a] = v], size |-> n] \in StackOf(V)
<1>1. [s.cells EXCEPT ![a] = v] \in [Addresses -> V]
  BY StackShape
<1> QED BY <1>1 DEF StackOf

LEMMA PushTyped ==
    ASSUME NEW V, NEW s \in StackOf(V), NEW v \in V
    PROVE  Push(s, v) \in StackOf(V)
<1>1. CASE CanPush(s)
  <2>1. s.size \in Addresses /\ s.size + 1 \in 0 .. MaxSize
    BY <1>1, StackShape, MaxSizeAssumption DEF CanPush, Addresses
  <2> QED BY <1>1, <2>1, WrittenTyped DEF Push
<1> QED BY <1>1 DEF Push

LEMMA PopTyped ==
    ASSUME NEW V, NEW s \in StackOf(V)
    PROVE  /\ Pop(s) \in StackOf(V)
           /\ Pop(s).cells = s.cells
           /\ CanPop(s) => Peek(s) \in V /\ Pop(s).size = s.size - 1
<1>1. CASE CanPop(s)
  <2>1. s.size - 1 \in 0 .. s.size /\ s.size - 1 \in 0 .. s.size - 1
    BY <1>1, StackShape DEF CanPop
  <2>2. Pop(s) = [s EXCEPT !.size = s.size - 1]
    BY <1>1 DEF Pop
  <2>3. [s EXCEPT !.size = s.size - 1].cells = s.cells
    BY DEF StackOf
  <2>4. Peek(s) \in V
    BY <2>1, StackShape DEF Peek
  <2> QED BY <2>1, <2>2, <2>3, <2>4, ResizedTyped
<1> QED BY <1>1 DEF Pop

LEMMA PopNTyped ==
    ASSUME NEW V, NEW s \in StackOf(V), NEW n \in Nat
    PROVE  PopN(s, n) \in StackOf(V)
<1>1. CASE ~(s.size < n)
  <2>1. s.size - n \in 0 .. s.size
    BY <1>1, StackShape
  <2> QED BY <1>1, <2>1, ResizedTyped DEF PopN
<1> QED BY <1>1 DEF PopN

LEMMA SeekTyped ==
    ASSUME NEW V, NEW s \in StackOf(V), NEW a \in Nat
    PROVE  SeekTo(s, a) \in StackOf(V)
<1>1. CASE ~(a > s.size)
  <2>1. a \in 0 .. s.size
    BY <1>1, StackShape
  <2> QED BY <1>1, <2>1, ResizedTyped DEF SeekTo
<1> QED BY <1>1 DEF SeekTo

\* ch_stack_copy: the address just above the top may be copied too.
LEMMA CopyTyped ==
    ASSUME NEW V, NEW s \in StackOf(V), NEW a \in Nat
    PROVE  Copy(s, a) \in StackOf(V)
<1>1. CASE CanCopy(s, a)
  <2>1. s.size \in Addresses /\ s.size + 1 \in 0 .. MaxSize /\ a \in Addresses
    BY <1>1, StackShape, MaxSizeAssumption DEF CanCopy, AddressOk, Addresses
  <2>2. s.cells[a] \in V
    BY <2>1, StackShape
  <2> QED BY <1>1, <2>1, <2>2, WrittenTyped DEF Copy
<1> QED BY <1>1 DEF Copy

\* ch_stack_set: the cell just above the top is in the block unless the stack
\* is full.
LEMMA SetTyped ==
    ASSUME NEW V, NEW s \in StackOf(V), s.size < MaxSize, NEW a \in Nat, NEW v \in V
    PROVE  Set(s, a, v) \in StackOf(V)
<1>1. CASE AddressOk(s, a)
  <2>1. a \in Addresses
    BY <1>1, StackShape, MaxSizeAssumption DEF AddressOk, Addresses
  <2>2. [s.cells EXCEPT ![a] = v] \in [Addresses -> V]
    BY <2>1, StackShape
  <2> QED BY <1>1, <2>2 DEF Set, StackOf
<1> QED BY <1>1 DEF Set

LEMMA GetRange ==
    ASSUME NEW V, NEW s \in StackOf(V), NEW a \in Nat
    PROVE  /\ Get(s, a) \in Addresses \cup {NULL, MaxSize}
           /\ a <= s.size => Get(s, a) = a
           /\ a > s.size => Get(s, a) = NULL
BY StackShape, MaxSizeAssumption DEF Get, AddressOk, Addresses

(***************************************************************************)
(* The upvalues.                                                           *)
(***************************************************************************)
\* Upvalues whose addresses are from A and whose closed cells hold values
\* from V.
WellTyped(w, A, V) ==
    w \in [heap : Seq([value : {OwnCell} \cup A, closed : V]), open : Seq(1 .. Len(w.heap))]

\* A set of natural numbers that is not empty has a smallest member.
LEMMA LeastMember ==
    ASSUME NEW S, S \subseteq Nat, S # {}
    PROVE  \E n \in S : \A m \in S : n <= m
<1> DEFINE R == { p \in Nat \X Nat : p[1] < p[2] }
<1>1. IsWellFoundedOn(R, Nat)
  BY NatLessThanWellFounded DEF OpToRel
<1> HIDE DEF R
<1>2. PICK n \in S : \A m \in S : ~ (<<m, n>> \in R)
  BY <1>1, WFMin
<1>3. ASSUME NEW m \in S PROVE n <= m
  <2>1. m < n => <<m, n>> \in R
    BY DEF R
  <2> QED BY <2>1, <1>2
<1> QED BY <1>3

\* What an entry of the open list refers to.
LEMMA OpenEntry ==
    ASSUME NEW A \in SUBSET Int, OwnCell \notin A, NEW V, NEW w, WellTyped(w, A, V), NEW i \in 1 .. Len(w.open)
    PROVE  /\ w.open[i] \in 1 .. Len(w.heap)
           /\ w.heap[w.open[i]] \in [value : {OwnCell} \cup A, closed : V]
           /\ OpenAt(w, i) \in Int
           /\ OpenAt(w, i) \in {OwnCell} \cup A
<1>1. w.open \in Seq(1 .. Len(w.heap)) /\ w.heap \in Seq([value : {OwnCell} \cup A, closed : V])
  BY DEF WellTyped
<1>2. w.open[i] \in 1 .. Len(w.heap)
  BY <1>1
<1>3. w.heap[w.open[i]] \in [value : {OwnCell} \cup A, closed : V]
  BY <1>1, <1>2, ElementOfSeq
<1>4. OpenAt(w, i) \in {OwnCell} \cup A
  BY <1>3 DEF OpenAt
<1>5. OwnCell \in Int
  BY DEF OwnCell
<1>6. {OwnCell} \cup A \subseteq Int
  BY <1>5
<1>7. OpenAt(w, i) \in Int
  BY <1>4, <1>6
<1> QED BY <1>2, <1>3, <1>4, <1>7

\* capture_upvalue's loop steps over the upvalues above the address and
\* stops at the first one that is not.
LEMMA AboveStops ==
    ASSUME NEW A \in SUBSET Int, OwnCell \notin A, NEW V, NEW w, WellTyped(w, A, V), NEW address \in Int
    PROVE  /\ Above(w, address) \in 0 .. Len(w.open)
           /\ \A i \in 1 .. Above(w, address) : OpenAt(w, i) > address
           /\ Above(w, address) < Len(w.open) => OpenAt(w, Above(w, address) + 1) <= address
<1> DEFINE Stops == { k \in 0 .. Len(w.open) :
                        k < Len(w.open) => OpenAt(w, k + 1) <= address }
<1>1. Len(w.open) \in Nat
  BY DEF WellTyped
<1>2. Len(w.open) \in Stops /\ Stops \subseteq Nat
  BY <1>1
<1>3. PICK n \in Stops : \A m \in Stops : n <= m
  BY <1>2, LeastMember
<1>4. ASSUME NEW i \in 1 .. n PROVE OpenAt(w, i) > address
  <2>1. i - 1 \in 0 .. Len(w.open) /\ i - 1 < n /\ i \in 1 .. Len(w.open)
    BY <1>1, <1>3
  <2>2. i - 1 \notin Stops
    BY <2>1, <1>1, <1>3
  <2>3. OpenAt(w, i) \in Int
    BY <2>1, OpenEntry
  <2> QED BY <2>1, <2>2, <2>3
<1>5. /\ n \in 0 .. Len(w.open)
      /\ \A i \in 1 .. n : OpenAt(w, i) > address
      /\ n < Len(w.open) => OpenAt(w, n + 1) <= address
  BY <1>3, <1>4
<1> HIDE DEF Stops
<1> QED BY <1>5 DEF Above

\* close_upvalues' loop, likewise.
LEMMA AtOrAboveStops ==
    ASSUME NEW A \in SUBSET Int, OwnCell \notin A, NEW V, NEW w, WellTyped(w, A, V), NEW last \in Int
    PROVE  /\ AtOrAbove(w, last) \in 0 .. Len(w.open)
           /\ \A i \in 1 .. AtOrAbove(w, last) : OpenAt(w, i) >= last
           /\ AtOrAbove(w, last) < Len(w.open) => OpenAt(w, AtOrAbove(w, last) + 1) < last
<1> DEFINE Stops == { k \in 0 .. Len(w.open) :
                        k < Len(w.open) => OpenAt(w, k + 1) < last }
<1>1. Len(w.open) \in Nat
  BY DEF WellTyped
<1>2. Len(w.open) \in Stops /\ Stops \subseteq Nat
  BY <1>1
<1>3. PICK n \in Stops : \A m \in Stops : n <= m
  BY <1>2, LeastMember
<1>4. ASSUME NEW i \in 1 .. n PROVE OpenAt(w, i) >= last
  <2>1. i - 1 \in 0 .. Len(w.open) /\ i - 1 < n /\ i \in 1 .. Len(w.open)
    BY <1>1, <1>3
  <2>2. i - 1 \notin Stops
    BY <2>1, <1>1, <1>3
  <2>3. OpenAt(w, i) \in Int
    BY <2>1, OpenEntry
  <2> QED BY <2>1, <2>2, <2>3
<1>5. /\ n \in 0 .. Len(w.open)
      /\ \A i \in 1 .. n : OpenAt(w, i) >= last
      /\ n < Len(w.open) => OpenAt(w, n + 1) < last
  BY <1>3, <1>4
<1> HIDE DEF Stops
<1> QED BY <1>5 DEF AtOrAbove

\* A sequence with one more element after the first k.
Inserted(s, k, e) == SubSeq(s, 1, k) \o <<e>> \o SubSeq(s, k + 1, Len(s))

\* What that means for its length and its elements.
Extends(t, s, k, e) ==
    /\ Len(t) = Len(s) + 1
    /\ \A i \in 1 .. k : t[i] = s[i]
    /\ t[k + 1] = e
    /\ \A i \in k + 1 .. Len(s) : t[i + 1] = s[i]

LEMMA InsertedProperties ==
    ASSUME NEW S, NEW s \in Seq(S), NEW k \in 0 .. Len(s), NEW e \in S
    PROVE  /\ Inserted(s, k, e) \in Seq(S)
           /\ Extends(Inserted(s, k, e), s, k, e)
<1> DEFINE front == SubSeq(s, 1, k)
           back  == SubSeq(s, k + 1, Len(s))
<1>1. Len(s) \in Nat /\ k \in Nat /\ k <= Len(s)
  OBVIOUS
<1>2. /\ front \in Seq(S) /\ Len(front) = k
      /\ \A i \in 1 .. k : front[i] = s[i]
  BY <1>1
<1>3. /\ back \in Seq(S) /\ Len(back) = Len(s) - k
      /\ \A i \in 1 .. Len(s) - k : back[i] = s[i + k]
  BY <1>1
<1> DEFINE start == front \o <<e>>
<1>4. /\ start \in Seq(S) /\ Len(start) = k + 1
      /\ \A i \in 1 .. k + 1 : start[i] = IF i <= k THEN s[i] ELSE e
  <2> HIDE DEF front, back
  <2> QED BY <1>1, <1>2
<1>5. Inserted(s, k, e) = start \o back
  BY DEF Inserted
<1> HIDE DEF front, back, start
<1>6. /\ start \o back \in Seq(S)
      /\ Len(start \o back) = Len(s) + 1
      /\ \A i \in 1 .. Len(s) + 1 :
           (start \o back)[i] = IF i <= k + 1 THEN start[i] ELSE back[i - (k + 1)]
  <2>1. start \in Seq(S) /\ back \in Seq(S)
    BY <1>3, <1>4
  <2>2. Len(start) = k + 1 /\ Len(back) = Len(s) - k /\ (k + 1) + (Len(s) - k) = Len(s) + 1
    BY <1>1, <1>3, <1>4
  <2>3. PICK m : m = Len(start) + Len(back)
    OBVIOUS
  <2>4. /\ start \o back \in Seq(S)
        /\ Len(start \o back) = m
        /\ \A i \in 1 .. m : (start \o back)[i] =
                IF i <= Len(start) THEN start[i] ELSE back[i - Len(start)]
    BY <2>1, <2>3, ConcatProperties, Zenon
  <2>5. m = Len(s) + 1
    BY <2>2, <2>3
  <2> QED BY <2>2, <2>4, <2>5, Zenon
<1>7. ASSUME NEW i \in 1 .. k PROVE Inserted(s, k, e)[i] = s[i]
  <2>1. i \in 1 .. Len(s) + 1 /\ i \in 1 .. k + 1 /\ i <= k
    BY <1>1
  <2> QED BY <2>1, <1>4, <1>5, <1>6
<1>8. Inserted(s, k, e)[k + 1] = e
  <2>1. k + 1 \in 1 .. Len(s) + 1 /\ k + 1 \in 1 .. k + 1 /\ ~ (k + 1 <= k)
    BY <1>1
  <2> QED BY <2>1, <1>1, <1>4, <1>5, <1>6
<1>9. ASSUME NEW i \in k + 1 .. Len(s) PROVE Inserted(s, k, e)[i + 1] = s[i]
  <2>1. /\ i + 1 \in 1 .. Len(s) + 1 /\ ~ (i + 1 <= k + 1)
        /\ (i + 1) - (k + 1) = i - k /\ i - k \in 1 .. Len(s) - k /\ (i - k) + k = i
    BY <1>1
  <2> QED BY <2>1, <1>3, <1>5, <1>6
<1> QED BY <1>5, <1>6, <1>7, <1>8, <1>9 DEF Extends

\* The addresses of the open upvalues.
OpenAddressSet(w) == { OpenAt(w, i) : i \in 1 .. Len(w.open) }

\* The first k entries of the open list lie above the address, the others
\* below it.
Splits(w, k, address) ==
    /\ \A i \in 1 .. k : OpenAt(w, i) > address
    /\ \A i \in k + 1 .. Len(w.open) : OpenAt(w, i) < address

\* c is w with a new upvalue for the address after the first k open ones.
Links(w, k, address, c) ==
    /\ Len(c.heap) = Len(w.heap) + 1
    /\ \A u \in 1 .. Len(w.heap) : c.heap[u] = w.heap[u]
    /\ c.heap[Len(w.heap) + 1].value = address
    /\ Extends(c.open, w.open, k, Len(w.heap) + 1)

\* Linking a new upvalue where the address splits the list keeps the list
\* sorted and complete.
LEMMA LinksProperties ==
    ASSUME NEW A \in SUBSET Int, OwnCell \notin A, NEW V, NEW address \in A,
           NEW w, WellTyped(w, A, V), Sorted(w), Complete(w),
           NEW k \in 0 .. Len(w.open), Splits(w, k, address),
           NEW c, Links(w, k, address, c)
    PROVE  /\ Sorted(c)
           /\ Complete(c)
           /\ OpenAddressSet(c) = OpenAddressSet(w) \cup {address}
<1>1. PICK n \in Nat : n = Len(w.open)
  BY DEF WellTyped
<1>2. PICK h \in Nat : h = Len(w.heap)
  BY DEF WellTyped
<1>3. k \in Nat /\ k <= n /\ Len(c.open) = n + 1 /\ Len(c.heap) = h + 1
  BY <1>1, <1>2 DEF Links, Extends
<1>4. \A i \in 1 .. n : OpenAt(w, i) \in Int /\ w.open[i] \in 1 .. h
  BY <1>1, <1>2, OpenEntry
<1>5. address \in Int /\ address # OwnCell
  OBVIOUS
<1>6. /\ \A u \in 1 .. h : c.heap[u] = w.heap[u]
      /\ c.heap[h + 1].value = address
  BY <1>2 DEF Links
<1>7. /\ \A i \in 1 .. k : c.open[i] = w.open[i]
      /\ c.open[k + 1] = h + 1
      /\ \A i \in k + 1 .. n : c.open[i + 1] = w.open[i]
  BY <1>1, <1>2 DEF Links, Extends
<1>8. /\ \A i \in 1 .. k : OpenAt(w, i) > address
      /\ \A i \in k + 1 .. n : OpenAt(w, i) < address
  BY <1>1 DEF Splits
<1>9. \A i \in 1 .. k : i \in 1 .. n
  BY <1>3
<1>10. \A i \in k + 1 .. n : i \in 1 .. n /\ i + 1 \in 1 .. n + 1
  BY <1>3
\* An entry of the new list is one of the first k, the new one, or one of
\* the others, one place further.
<1>11. \A j \in 1 .. n + 1 : \/ j \in 1 .. k
                             \/ j = k + 1
                             \/ \E i \in k + 1 .. n : j = i + 1
  <2>1. ASSUME NEW j \in 1 .. n + 1, ~ (j \in 1 .. k), j # k + 1
        PROVE  j - 1 \in k + 1 .. n /\ j = (j - 1) + 1
    BY <2>1, <1>3
  <2> QED BY <2>1
<1>12. \A i \in 1 .. k : OpenAt(c, i) = OpenAt(w, i)
  BY <1>4, <1>6, <1>7, <1>9 DEF OpenAt
<1>13. OpenAt(c, k + 1) = address
  BY <1>6, <1>7 DEF OpenAt
<1>14. \A i \in k + 1 .. n : OpenAt(c, i + 1) = OpenAt(w, i)
  BY <1>4, <1>6, <1>7, <1>10 DEF OpenAt
<1>15. \A i, j \in 1 .. n : i < j => OpenAt(w, i) > OpenAt(w, j)
  BY <1>1 DEF Sorted
<1>16. Sorted(c)
  <2>1. SUFFICES ASSUME NEW i \in 1 .. n + 1, NEW j \in 1 .. n + 1, i < j
                 PROVE  OpenAt(c, i) > OpenAt(c, j)
    BY <1>3 DEF Sorted
  <2>2. CASE j \in 1 .. k
    <3>1. i \in 1 .. k
      BY <2>1, <2>2
    <3> QED BY <3>1, <2>1, <2>2, <1>9, <1>12, <1>15
  <2>3. CASE j = k + 1
    <3>1. i \in 1 .. k
      BY <2>1, <2>3
    <3> QED BY <3>1, <2>3, <1>8, <1>12, <1>13
  <2>4. ASSUME NEW b \in k + 1 .. n, j = b + 1 PROVE OpenAt(c, i) > OpenAt(c, j)
    <3>1. /\ OpenAt(c, j) = OpenAt(w, b) /\ OpenAt(w, b) < address
          /\ b \in 1 .. n /\ OpenAt(w, b) \in Int
      BY <2>4, <1>4, <1>8, <1>10, <1>14
    <3>2. CASE i \in 1 .. k
      <4>1. /\ OpenAt(c, i) = OpenAt(w, i) /\ OpenAt(w, i) > address
            /\ OpenAt(w, i) \in Int
        BY <3>2, <1>4, <1>8, <1>9, <1>12
      <4> QED BY <3>1, <4>1, <1>5
    <3>3. CASE i = k + 1
      BY <3>1, <3>3, <1>5, <1>13
    <3>4. ASSUME NEW a \in k + 1 .. n, i = a + 1 PROVE OpenAt(c, i) > OpenAt(c, j)
      <4>1. a < b
        BY <2>1, <2>4, <3>4
      <4>2. a \in 1 .. n /\ OpenAt(c, i) = OpenAt(w, a)
        BY <3>4, <1>10, <1>14
      <4> QED BY <3>1, <4>1, <4>2, <1>15
    <3> QED BY <3>2, <3>3, <3>4, <1>11
  <2> QED BY <2>2, <2>3, <2>4, <1>11
<1>17. Complete(c)
  <2>1. SUFFICES ASSUME NEW u \in 1 .. h + 1
                 PROVE  c.heap[u].value # OwnCell <=> \E i \in 1 .. n + 1 : c.open[i] = u
    BY <1>3 DEF Complete
  <2>2. CASE u = h + 1
    <3>1. k + 1 \in 1 .. n + 1
      BY <1>3
    <3> QED BY <2>2, <3>1, <1>5, <1>6, <1>7
  <2>3. CASE u \in 1 .. h
    <3>1. c.heap[u].value # OwnCell <=> \E i \in 1 .. n : w.open[i] = u
      BY <2>3, <1>1, <1>2, <1>6 DEF Complete
    <3>2. ASSUME NEW i \in 1 .. n, w.open[i] = u PROVE \E j \in 1 .. n + 1 : c.open[j] = u
      <4>1. CASE i \in 1 .. k
        BY <4>1, <3>2, <1>7
      <4>2. CASE i \in k + 1 .. n
        BY <4>2, <3>2, <1>7, <1>10
      <4> QED BY <4>1, <4>2, <1>3
    <3>3. ASSUME NEW j \in 1 .. n + 1, c.open[j] = u PROVE \E i \in 1 .. n : w.open[i] = u
      <4>1. j # k + 1
        <5>1. u # h + 1
          BY <2>3
        <5> QED BY <5>1, <3>3, <1>7
      <4>2. CASE j \in 1 .. k
        BY <4>2, <3>3, <1>7, <1>9
      <4>3. CASE \E i \in k + 1 .. n : j = i + 1
        BY <4>3, <3>3, <1>7, <1>10
      <4> QED BY <4>1, <4>2, <4>3, <1>11
    <3> QED BY <3>1, <3>2, <3>3
  <2> QED BY <2>2, <2>3
<1>18. OpenAddressSet(c) = OpenAddressSet(w) \cup {address}
  <2>1. ASSUME NEW j \in 1 .. n + 1
        PROVE  OpenAt(c, j) = address \/ \E i \in 1 .. n : OpenAt(c, j) = OpenAt(w, i)
    BY <1>9, <1>10, <1>11, <1>12, <1>13, <1>14
  <2>2. ASSUME NEW i \in 1 .. n PROVE \E j \in 1 .. n + 1 : OpenAt(c, j) = OpenAt(w, i)
    <3>1. CASE i \in 1 .. k
      BY <3>1, <1>12
    <3>2. CASE i \in k + 1 .. n
      BY <3>2, <1>10, <1>14
    <3> QED BY <3>1, <3>2, <1>3
  <2>3. k + 1 \in 1 .. n + 1
    BY <1>3
  <2> QED BY <2>1, <2>2, <2>3, <1>1, <1>3, <1>13 DEF OpenAddressSet
<1> QED BY <1>16, <1>17, <1>18

\* c has one open address more than w.
Adds(w, address, c) == OpenAddressSet(c) = OpenAddressSet(w) \cup {address}

\* capture_upvalue, when it finds no upvalue for the address, links a new
\* one where the list stays sorted, and loses none.
LEMMA CreatedProperties ==
    ASSUME NEW A \in SUBSET Int, OwnCell \notin A, NEW V, NullValue \in V, NEW address \in A,
           NEW w, WellTyped(w, A, V), Sorted(w), Complete(w), ~IsShared(w, address)
    PROVE  /\ WellTyped(Created(w, address), A, V)
           /\ Sorted(Created(w, address))
           /\ Complete(Created(w, address))
           /\ Adds(w, address, Created(w, address))
<1>1. PICK n \in Nat : n = Len(w.open)
  BY DEF WellTyped
<1>2. PICK h \in Nat : h = Len(w.heap)
  BY DEF WellTyped
<1>3. address \in Int
  OBVIOUS
<1>4. PICK k \in 0 .. Len(w.open) :
        /\ k = Above(w, address)
        /\ \A i \in 1 .. k : OpenAt(w, i) > address
        /\ k < Len(w.open) => OpenAt(w, k + 1) <= address
  BY <1>3, AboveStops
<1>5. k \in Nat /\ k <= n
  BY <1>1
<1>6. \A i \in 1 .. n : OpenAt(w, i) \in Int
  BY <1>1, OpenEntry
<1>7. ASSUME NEW i \in k + 1 .. n PROVE OpenAt(w, i) < address
  <2>1. k < n /\ k + 1 \in 1 .. n /\ i \in 1 .. n
    BY <1>5
  <2>2. OpenAt(w, k + 1) < address
    BY <1>1, <1>3, <1>4, <1>6, <2>1 DEF IsShared
  <2>3. i = k + 1 \/ OpenAt(w, k + 1) > OpenAt(w, i)
    BY <1>1, <1>5, <2>1 DEF Sorted
  <2> QED BY <1>3, <1>6, <2>1, <2>2, <2>3
<1>8. Splits(w, k, address)
  BY <1>1, <1>4, <1>7 DEF Splits
<1>9. PICK cell : cell = [value |-> address, closed |-> NullValue]
  OBVIOUS
<1>10. PICK U : U = [value : {OwnCell} \cup A, closed : V]
  OBVIOUS
<1>11. w.heap \in Seq(U) /\ w.open \in Seq(1 .. h) /\ cell \in U
  BY <1>2, <1>9, <1>10 DEF WellTyped
<1>12. PICK c : c = Created(w, address)
  OBVIOUS
<1>13. c = [heap |-> Append(w.heap, cell), open |-> Inserted(w.open, k, h + 1)]
  BY <1>2, <1>4, <1>9, <1>12 DEF Created, Inserted
<1>14. c.heap = Append(w.heap, cell) /\ c.open = Inserted(w.open, k, h + 1)
  BY <1>13
<1>15. /\ c.heap \in Seq(U) /\ Len(c.heap) = h + 1
       /\ \A u \in 1 .. h : c.heap[u] = w.heap[u]
       /\ c.heap[h + 1] = cell
  BY <1>2, <1>11, <1>14
<1>16. w.open \in Seq(1 .. h + 1) /\ h + 1 \in 1 .. h + 1
  <2>1. 1 .. h \subseteq 1 .. h + 1 /\ h + 1 \in 1 .. h + 1
    OBVIOUS
  <2> QED BY <2>1, <1>11, SeqMonotonic
<1>17. /\ c.open \in Seq(1 .. h + 1)
       /\ Extends(c.open, w.open, k, h + 1)
  <2>1. PICK T : T = 1 .. h + 1
    OBVIOUS
  <2>2. w.open \in Seq(T) /\ h + 1 \in T
    BY <1>16, <2>1
  <2>3. Inserted(w.open, k, h + 1) \in Seq(T) /\ Extends(Inserted(w.open, k, h + 1), w.open, k, h + 1)
    BY <2>2, InsertedProperties
  <2> QED BY <1>14, <2>1, <2>3
<1>18. Links(w, k, address, c)
  BY <1>2, <1>9, <1>15, <1>17 DEF Links
<1>19. WellTyped(c, A, V)
  BY <1>10, <1>13, <1>14, <1>15, <1>17 DEF WellTyped
<1>20. /\ Sorted(c) /\ Complete(c)
       /\ OpenAddressSet(c) = OpenAddressSet(w) \cup {address}
  BY <1>8, <1>18, LinksProperties
<1> QED BY <1>12, <1>19, <1>20 DEF Adds

\* capture_upvalue: afterwards the list also holds the address.
LEMMA CaptureProperties ==
    ASSUME NEW A \in SUBSET Int, OwnCell \notin A, NEW V, NullValue \in V, NEW address \in A,
           NEW w, WellTyped(w, A, V), Sorted(w), Complete(w)
    PROVE  /\ WellTyped(CaptureUpvalue(w, address), A, V)
           /\ Sorted(CaptureUpvalue(w, address))
           /\ Complete(CaptureUpvalue(w, address))
           /\ Adds(w, address, CaptureUpvalue(w, address))
<1>1. CASE IsShared(w, address)
  <2>1. address \in Int /\ Len(w.open) \in Nat
    BY DEF WellTyped
  <2>2. Above(w, address) \in 0 .. Len(w.open)
    BY <2>1, AboveStops
  <2>3. Above(w, address) + 1 \in 1 .. Len(w.open) /\ OpenAt(w, Above(w, address) + 1) = address
    BY <1>1, <2>1, <2>2 DEF IsShared
  <2>4. OpenAddressSet(w) = OpenAddressSet(w) \cup {address}
    BY <2>3 DEF OpenAddressSet
  <2> QED BY <1>1, <2>4 DEF CaptureUpvalue, Adds
<1>2. CASE ~IsShared(w, address)
  <2>1. CaptureUpvalue(w, address) = Created(w, address)
    BY <1>2 DEF CaptureUpvalue
  <2>2. WellTyped(Created(w, address), A, V)
    BY <1>2, CreatedProperties
  <2>3. Sorted(Created(w, address)) /\ Complete(Created(w, address))
    BY <1>2, CreatedProperties
  <2>4. Adds(w, address, Created(w, address))
    BY <1>2, CreatedProperties
  <2> QED BY <2>1, <2>2, <2>3, <2>4
<1> QED BY <1>1, <1>2

\* The open addresses of d are those of w below last.
Keeps(w, last, d) == OpenAddressSet(d) = { a \in OpenAddressSet(w) : a < last }

\* close_upvalues: exactly the upvalues below last stay open, and what the
\* others take over are values.
LEMMA CloseProperties ==
    ASSUME NEW A \in SUBSET Int, OwnCell \notin A, NEW V, NEW last \in Int,
           NEW w, WellTyped(w, A, V), Sorted(w), Complete(w),
           NEW cells, \A a \in OpenAddressSet(w) : a >= last => cells[a] \in V
    PROVE  /\ WellTyped(CloseUpvalues(w, cells, last), A, V)
           /\ Sorted(CloseUpvalues(w, cells, last))
           /\ Complete(CloseUpvalues(w, cells, last))
           /\ Keeps(w, last, CloseUpvalues(w, cells, last))
<1>1. PICK n \in Nat : n = Len(w.open)
  BY DEF WellTyped
<1>2. PICK h \in Nat : h = Len(w.heap)
  BY DEF WellTyped
<1>3. PICK k \in 0 .. Len(w.open) :
        /\ k = AtOrAbove(w, last)
        /\ \A i \in 1 .. k : OpenAt(w, i) >= last
        /\ k < Len(w.open) => OpenAt(w, k + 1) < last
  BY AtOrAboveStops
<1>4. k \in Nat /\ k <= n
  BY <1>1
<1>5. \A i \in 1 .. n : OpenAt(w, i) \in Int /\ w.open[i] \in 1 .. h
  BY <1>1, <1>2, OpenEntry
<1>6. \A i, j \in 1 .. n : i < j => OpenAt(w, i) > OpenAt(w, j)
  BY <1>1 DEF Sorted
<1>7. \A i \in 1 .. k : i \in 1 .. n
  BY <1>4
<1>8. \A i \in k + 1 .. n : i \in 1 .. n
  BY <1>4
<1>9. ASSUME NEW i \in k + 1 .. n PROVE OpenAt(w, i) < last
  <2>1. k < n /\ k + 1 \in 1 .. n /\ i \in 1 .. n
    BY <1>4
  <2>2. OpenAt(w, k + 1) < last
    BY <1>1, <1>3, <2>1
  <2>3. i = k + 1 \/ OpenAt(w, k + 1) > OpenAt(w, i)
    BY <1>4, <1>6, <2>1
  <2> QED BY <1>5, <2>1, <2>2, <2>3
<1>10. PICK C : C = { w.open[i] : i \in 1 .. k }
  OBVIOUS
<1>11. ASSUME NEW i \in k + 1 .. n PROVE w.open[i] \notin C
  <2>1. ASSUME NEW j \in 1 .. k, w.open[j] = w.open[i] PROVE FALSE
    <3>1. OpenAt(w, j) = OpenAt(w, i)
      BY <2>1 DEF OpenAt
    <3>2. OpenAt(w, j) >= last /\ OpenAt(w, i) < last /\ OpenAt(w, i) \in Int
      BY <1>3, <1>5, <1>8, <1>9
    <3> QED BY <3>1, <3>2
  <2> QED BY <2>1, <1>10
<1>12. PICK U : U = [value : {OwnCell} \cup A, closed : V]
  OBVIOUS
<1>13. w.heap \in Seq(U) /\ w.open \in Seq(1 .. h)
  BY <1>2, <1>12 DEF WellTyped
<1>14. \A u \in 1 .. h : w.heap[u] \in U
  BY <1>2, <1>13, ElementOfSeq
<1>15. PICK d : d = CloseUpvalues(w, cells, last)
  OBVIOUS
<1>16. d = [heap |-> [u \in 1 .. h |->
                       IF u \in C THEN [value |-> OwnCell, closed |-> cells[w.heap[u].value]]
                                  ELSE w.heap[u]],
            open |-> SubSeq(w.open, k + 1, n)]
  BY <1>1, <1>2, <1>3, <1>10, <1>15 DEF CloseUpvalues, ClosedBy
<1>17. \A u \in 1 .. h : d.heap[u] = IF u \in C
                                       THEN [value |-> OwnCell, closed |-> cells[w.heap[u].value]]
                                       ELSE w.heap[u]
  BY <1>16
<1>18. ASSUME NEW u \in 1 .. h PROVE d.heap[u] \in U
  <2>1. CASE u \in C
    <3>1. PICK i \in 1 .. k : u = w.open[i]
      BY <2>1, <1>10
    <3>2. w.heap[u].value \in OpenAddressSet(w) /\ w.heap[u].value >= last
      BY <3>1, <1>1, <1>3, <1>7 DEF OpenAddressSet, OpenAt
    <3>3. cells[w.heap[u].value] \in V
      BY <3>2
    <3>4. PICK v \in V : v = cells[w.heap[u].value]
      BY <3>3
    <3>5. d.heap[u] = [value |-> OwnCell, closed |-> v]
      BY <2>1, <3>4, <1>17
    <3> QED BY <3>5, <1>12
  <2>2. CASE u \notin C
    BY <2>2, <1>14, <1>17
  <2> QED BY <2>1, <2>2
<1>19. d.heap \in Seq(U) /\ Len(d.heap) = h
  <2>1. d.heap \in [1 .. h -> U]
    <3>1. d.heap = [u \in 1 .. h |-> d.heap[u]]
      BY <1>16
    <3> QED BY <3>1, <1>18
  <2> QED BY <2>1
<1>20. /\ d.open \in Seq(1 .. h) /\ Len(d.open) = n - k
       /\ \A i \in 1 .. n - k : d.open[i] = w.open[i + k]
  <2>1. d.open = SubSeq(w.open, k + 1, n)
    BY <1>16
  <2> QED BY <2>1, <1>1, <1>4, <1>13
<1>21. \A i \in 1 .. n - k : i + k \in k + 1 .. n
  BY <1>4
<1>22. \A i \in k + 1 .. n : i - k \in 1 .. n - k /\ (i - k) + k = i
  BY <1>4
<1>23. n - k \in Nat
  BY <1>4
<1>24. ASSUME NEW i \in 1 .. n - k PROVE OpenAt(d, i) = OpenAt(w, i + k)
  <2>1. PICK m \in k + 1 .. n : m = i + k
    BY <1>21
  <2>2. d.open[i] = w.open[m] /\ w.open[m] \in 1 .. h /\ w.open[m] \notin C
    BY <2>1, <1>5, <1>8, <1>11, <1>20
  <2>3. d.heap[w.open[m]] = w.heap[w.open[m]]
    BY <2>2, <1>17
  <2> QED BY <2>1, <2>2, <2>3 DEF OpenAt
<1>25. WellTyped(d, A, V)
  BY <1>12, <1>16, <1>19, <1>20 DEF WellTyped
<1>26. Sorted(d)
  <2>1. SUFFICES ASSUME NEW i \in 1 .. n - k, NEW j \in 1 .. n - k, i < j
                 PROVE  OpenAt(d, i) > OpenAt(d, j)
    BY <1>20 DEF Sorted
  <2>2. i + k \in 1 .. n /\ j + k \in 1 .. n /\ i + k < j + k
    BY <2>1, <1>4
  <2> QED BY <2>2, <1>6, <1>24
<1>27. Complete(d)
  <2>1. SUFFICES ASSUME NEW u \in 1 .. h
                 PROVE  d.heap[u].value # OwnCell <=> \E i \in 1 .. n - k : d.open[i] = u
    BY <1>19, <1>20 DEF Complete
  <2>2. w.heap[u].value # OwnCell <=> \E i \in 1 .. n : w.open[i] = u
    BY <1>1, <1>2 DEF Complete
  <2>3. CASE u \in C
    <3>1. d.heap[u].value = OwnCell
      <4>1. d.heap[u] = [value |-> OwnCell, closed |-> cells[w.heap[u].value]]
        BY <2>3, <1>17
      <4> QED BY <4>1
    <3>2. ASSUME NEW i \in 1 .. n - k, d.open[i] = u PROVE FALSE
      BY <3>2, <2>3, <1>11, <1>20, <1>21
    <3> QED BY <3>1, <3>2
  <2>4. CASE u \notin C
    <3>1. d.heap[u].value = w.heap[u].value
      BY <2>4, <1>17
    <3>2. ASSUME NEW i \in 1 .. n, w.open[i] = u PROVE \E j \in 1 .. n - k : d.open[j] = u
      <4>1. i \notin 1 .. k
        BY <3>2, <2>4, <1>10
      <4>2. i \in k + 1 .. n
        BY <4>1, <1>4
      <4> QED BY <3>2, <4>2, <1>20, <1>22
    <3>3. ASSUME NEW j \in 1 .. n - k, d.open[j] = u PROVE \E i \in 1 .. n : w.open[i] = u
      BY <3>3, <1>8, <1>20, <1>21
    <3> QED BY <3>1, <3>2, <3>3, <2>2
  <2> QED BY <2>3, <2>4
<1>28. OpenAddressSet(d) = { a \in OpenAddressSet(w) : a < last }
  <2>1. ASSUME NEW i \in 1 .. n - k
        PROVE  OpenAt(d, i) \in OpenAddressSet(w) /\ OpenAt(d, i) < last
    BY <1>1, <1>8, <1>9, <1>21, <1>24 DEF OpenAddressSet
  <2>2. ASSUME NEW i \in 1 .. n, OpenAt(w, i) < last
        PROVE  \E j \in 1 .. n - k : OpenAt(d, j) = OpenAt(w, i)
    <3>1. i \notin 1 .. k
      BY <2>2, <1>3, <1>5
    <3>2. i \in k + 1 .. n
      BY <3>1, <1>4
    <3> QED BY <3>2, <1>22, <1>24
  <2>3. OpenAddressSet(d) = { OpenAt(d, i) : i \in 1 .. n - k }
    BY <1>20 DEF OpenAddressSet
  <2>4. OpenAddressSet(w) = { OpenAt(w, i) : i \in 1 .. n }
    BY <1>1 DEF OpenAddressSet
  <2> QED BY <2>1, <2>2, <2>3, <2>4
<1> QED BY <1>15, <1>25, <1>26, <1>27, <1>28 DEF Keeps

\* No two upvalues point to the same cell of the stack.
LEMMA OneUpvalue ==
    ASSUME NEW A \in SUBSET Int, OwnCell \notin A, NEW V,
           NEW w, WellTyped(w, A, V), Sorted(w), Complete(w),
           NEW u \in 1 .. Len(w.heap), NEW v \in 1 .. Len(w.heap),
           w.heap[u].value # OwnCell, w.heap[u].value = w.heap[v].value
    PROVE  u = v
<1>1. PICK i \in 1 .. Len(w.open) : w.open[i] = u
  BY DEF Complete
<1>2. PICK j \in 1 .. Len(w.open) : w.open[j] = v
  BY DEF Complete
<1>3. OpenAt(w, i) = OpenAt(w, j)
  BY <1>1, <1>2 DEF OpenAt
<1>4. OpenAt(w, i) \in Int /\ OpenAt(w, j) \in Int /\ Len(w.open) \in Nat
  <2>1. OpenAt(w, i) \in Int
    BY OpenEntry
  <2>2. OpenAt(w, j) \in Int
    BY OpenEntry
  <2> QED BY <2>1, <2>2 DEF WellTyped
<1>5. ~(i < j) /\ ~(j < i)
  BY <1>3, <1>4 DEF Sorted
<1> QED BY <1>1, <1>2, <1>4, <1>5

\* An address is one of the open addresses when an upvalue points to it.
LEMMA OpenMeansPointed ==
    ASSUME NEW A \in SUBSET Int, OwnCell \notin A, NEW V,
           NEW w, WellTyped(w, A, V), Complete(w), NEW a, a # OwnCell
    PROVE  a \in OpenAddressSet(w) <=> \E u \in 1 .. Len(w.heap) : w.heap[u].value = a
<1>1. ASSUME NEW i \in 1 .. Len(w.open), a = OpenAt(w, i)
      PROVE  \E u \in 1 .. Len(w.heap) : w.heap[u].value = a
  BY <1>1, OpenEntry DEF OpenAt
<1>2. ASSUME NEW u \in 1 .. Len(w.heap), w.heap[u].value = a
      PROVE  a \in OpenAddressSet(w)
  <2>1. PICK i \in 1 .. Len(w.open) : w.open[i] = u
    BY <1>2 DEF Complete
  <2> QED BY <1>2, <2>1 DEF OpenAddressSet, OpenAt
<1> QED BY <1>1, <1>2 DEF OpenAddressSet

\* capture_upvalue's search in a sorted list finds the address if it is there.
LEMMA SharedIsOpen ==
    ASSUME NEW A \in SUBSET Int, OwnCell \notin A, NEW V,
           NEW w, WellTyped(w, A, V), Sorted(w), NEW address \in Int
    PROVE  IsShared(w, address) <=> address \in OpenAddressSet(w)
<1>1. PICK n \in Nat : n = Len(w.open)
  BY DEF WellTyped
<1>2. PICK k \in 0 .. n :
        /\ k = Above(w, address)
        /\ \A i \in 1 .. k : OpenAt(w, i) > address
        /\ k < n => OpenAt(w, k + 1) <= address
  BY <1>1, AboveStops
<1>3. \A i \in 1 .. n : OpenAt(w, i) \in Int
  BY <1>1, OpenEntry
<1>4. ASSUME IsShared(w, address) PROVE address \in OpenAddressSet(w)
  BY <1>1, <1>2, <1>4 DEF IsShared, OpenAddressSet
<1>5. ASSUME NEW i \in 1 .. n, OpenAt(w, i) = address PROVE IsShared(w, address)
  <2>1. ~(i \in 1 .. k)
    BY <1>2, <1>5
  <2>2. k < n /\ k + 1 \in 1 .. n /\ (i = k + 1 \/ k + 1 < i)
    BY <2>1
  <2>3. k + 1 < i => OpenAt(w, k + 1) > OpenAt(w, i)
    BY <1>1, <2>2 DEF Sorted
  <2>4. OpenAt(w, k + 1) = address
    BY <1>2, <1>3, <1>5, <2>2, <2>3
  <2> QED BY <1>1, <1>2, <2>2, <2>4 DEF IsShared
<1> QED BY <1>1, <1>4, <1>5 DEF OpenAddressSet

\* close_upvalues closes the upvalues that point to last or above, and only
\* these: each takes a copy of its cell.
LEMMA CloseEffect ==
    ASSUME NEW A \in SUBSET Int, OwnCell \notin A, NEW V, NEW last \in Int, OwnCell < last,
           NEW w, WellTyped(w, A, V), Sorted(w), Complete(w), NEW cells,
           NEW u \in 1 .. Len(w.heap)
    PROVE  /\ u \in ClosedBy(w, last) <=> w.heap[u].value >= last
           /\ Len(CloseUpvalues(w, cells, last).heap) = Len(w.heap)
           /\ CloseUpvalues(w, cells, last).heap[u] =
                IF w.heap[u].value >= last
                  THEN [value |-> OwnCell, closed |-> cells[w.heap[u].value]]
                  ELSE w.heap[u]
<1>1. PICK n \in Nat : n = Len(w.open)
  BY DEF WellTyped
<1>2. PICK k \in 0 .. n :
        /\ k = AtOrAbove(w, last)
        /\ \A i \in 1 .. k : OpenAt(w, i) >= last
        /\ k < n => OpenAt(w, k + 1) < last
  BY <1>1, AtOrAboveStops
<1>3. \A i \in 1 .. n : OpenAt(w, i) \in Int
  BY <1>1, OpenEntry
<1>4. ClosedBy(w, last) = { w.open[i] : i \in 1 .. k }
  BY <1>2 DEF ClosedBy
<1>5. ASSUME u \in ClosedBy(w, last) PROVE w.heap[u].value >= last
  BY <1>2, <1>4, <1>5 DEF OpenAt
<1>6. ASSUME w.heap[u].value >= last PROVE u \in ClosedBy(w, last)
  <2>1. OwnCell \in Int
    BY DEF OwnCell
  <2>2. w.heap[u].value # OwnCell
    BY <1>6, <2>1
  <2>3. PICK i \in 1 .. n : w.open[i] = u
    BY <1>1, <2>2 DEF Complete
  <2>4. OpenAt(w, i) >= last
    BY <1>6, <2>3 DEF OpenAt
  <2>5. CASE i \in 1 .. k
    BY <1>4, <2>3, <2>5
  <2>6. CASE i \notin 1 .. k
    <3>1. k < n /\ k + 1 \in 1 .. n /\ (i = k + 1 \/ k + 1 < i)
      BY <2>6
    <3>2. k + 1 < i => OpenAt(w, k + 1) > OpenAt(w, i)
      BY <1>1, <3>1 DEF Sorted
    <3> QED BY <1>2, <1>3, <2>4, <3>1, <3>2
  <2> QED BY <2>5, <2>6
<1>7. PICK C : C = ClosedBy(w, last)
  OBVIOUS
<1>8. PICK h \in Nat : h = Len(w.heap)
  BY DEF WellTyped
<1>9. PICK heap : heap = [v \in 1 .. h |->
                            IF v \in C THEN [value |-> OwnCell, closed |-> cells[w.heap[v].value]]
                                       ELSE w.heap[v]]
  OBVIOUS
<1>10. CloseUpvalues(w, cells, last).heap = heap
  BY <1>7, <1>8, <1>9 DEF CloseUpvalues
<1>11. Len(heap) = h
  <2>1. PICK S : S = {heap[v] : v \in 1 .. h}
    OBVIOUS
  <2>2. heap \in [1 .. h -> S]
    BY <1>9, <2>1
  <2> QED BY <2>2
<1>12. heap[u] = IF u \in C THEN [value |-> OwnCell, closed |-> cells[w.heap[u].value]]
                            ELSE w.heap[u]
  BY <1>8, <1>9
<1> QED BY <1>5, <1>6, <1>7, <1>8, <1>10, <1>11, <1>12

\* Assignment through an upvalue changes at most a closed cell, no pointer.
LEMMA AssignProperties ==
    ASSUME NEW A \in SUBSET Int, OwnCell \notin A, NEW V,
           NEW w, WellTyped(w, A, V), Sorted(w), Complete(w),
           NEW u \in 1 .. Len(w.heap), NEW v \in V
    PROVE  /\ WellTyped(AssignOwn(w, u, v), A, V)
           /\ Sorted(AssignOwn(w, u, v))
           /\ Complete(AssignOwn(w, u, v))
           /\ Len(AssignOwn(w, u, v).heap) = Len(w.heap)
           /\ OpenAddressSet(AssignOwn(w, u, v)) = OpenAddressSet(w)
<1>1. CASE w.heap[u].value # OwnCell
  BY <1>1 DEF AssignOwn
<1>2. CASE w.heap[u].value = OwnCell
  <2>1. PICK d : d = AssignOwn(w, u, v)
    OBVIOUS
  <2>2. d = [w EXCEPT !.heap[u].closed = v]
    BY <1>2, <2>1 DEF AssignOwn
  <2>3. w.heap[u] \in [value : {OwnCell} \cup A, closed : V]
    BY ElementOfSeq DEF WellTyped
  <2>4. PICK heap : heap = [w.heap EXCEPT ![u].closed = v]
    OBVIOUS
  <2>5. d = [heap |-> heap, open |-> w.open]
    BY <2>2, <2>4 DEF WellTyped
  <2>6. /\ heap \in Seq([value : {OwnCell} \cup A, closed : V])
        /\ Len(heap) = Len(w.heap)
        /\ \A n \in 1 .. Len(w.heap) : heap[n].value = w.heap[n].value
    BY <2>3, <2>4 DEF WellTyped
  <2>7. d.heap = heap /\ d.open = w.open
    BY <2>5
  <2>8. WellTyped(d, A, V)
    BY <2>5, <2>6 DEF WellTyped
  <2>9. \A i \in 1 .. Len(w.open) : OpenAt(d, i) = OpenAt(w, i)
    BY <2>6, <2>7, OpenEntry DEF OpenAt
  <2>10. Sorted(d)
    BY <2>7, <2>9 DEF Sorted
  <2>11. Complete(d)
    BY <2>6, <2>7 DEF Complete
  <2>12. OpenAddressSet(d) = OpenAddressSet(w)
    BY <2>7, <2>9 DEF OpenAddressSet
  <2> QED BY <2>1, <2>6, <2>7, <2>8, <2>10, <2>11, <2>12
<1> QED BY <1>1, <1>2

\* What capture_upvalue returns is an upvalue of the heap it leaves, and no
\* upvalue ever goes away.
LEMMA CapturedProperties ==
    ASSUME NEW A \in SUBSET Int, OwnCell \notin A, NEW V, NEW address \in A,
           NEW w, WellTyped(w, A, V)
    PROVE  /\ Len(CaptureUpvalue(w, address).heap) \in Len(w.heap) .. Len(w.heap) + 1
           /\ Captured(w, address) \in 1 .. Len(CaptureUpvalue(w, address).heap)
<1>1. Len(w.heap) \in Nat /\ Len(w.open) \in Nat
  BY DEF WellTyped
<1>2. CASE IsShared(w, address)
  <2>1. Above(w, address) \in 0 .. Len(w.open)
    BY AboveStops
  <2>2. Above(w, address) + 1 \in 1 .. Len(w.open)
    BY <1>1, <1>2, <2>1 DEF IsShared
  <2>3. w.open[Above(w, address) + 1] \in 1 .. Len(w.heap)
    BY <2>2, OpenEntry
  <2> QED BY <1>1, <1>2, <2>3 DEF CaptureUpvalue, Captured
<1>3. CASE ~IsShared(w, address)
  <2>1. PICK heap : heap = w.heap
    OBVIOUS
  <2>2. PICK S : heap \in Seq(S)
    BY <2>1 DEF WellTyped
  <2>3. Created(w, address).heap = Append(heap, [value |-> address, closed |-> NullValue])
    BY <2>1 DEF Created
  <2>4. Len(Created(w, address).heap) = Len(heap) + 1
    BY <2>2, <2>3
  <2> QED BY <1>1, <1>3, <2>1, <2>4 DEF CaptureUpvalue, Captured
<1> QED BY <1>2, <1>3
==============================================================================
