------------------------------ MODULE TableProofs ------------------------------
(***************************************************************************)
(* What every function of table.c keeps and answers, for every set of keys *)
(* with any hashes, however they collide, and every capacity.              *)
(***************************************************************************)
EXTENDS Table, FiniteSetTheorems, WellFoundedInduction, TLAPS

------------------------------------------------------------------------------
(***************************************************************************)
(* Arithmetic                                                              *)
(***************************************************************************)
\* A set of natural numbers that is not empty has a smallest member.
LEMMA LeastMember ==
    ASSUME NEW S, S \subseteq Nat, S # {}
    PROVE  \E n \in S : \A m \in S : n <= m
<1> DEFINE R == { p \in Nat \X Nat : p[1] < p[2] }
<1>1. IsWellFoundedOn(R, Nat)
  BY NatLessThanWellFounded DEF OpToRel
<1> HIDE DEF R
<1>2. PICK n \in S : \A m \in S : ~ (<<m, n>> \in R)
  BY <1>1, WFMin
<1>3. ASSUME NEW m \in S PROVE n <= m
  <2>1. m < n => <<m, n>> \in R
    BY DEF R
  <2> QED BY <2>1, <1>2
<1> QED BY <1>3

\* A doubled power of two is one: an odd divisor of 2c divides c.
LEMMA PowerDoubled ==
    ASSUME NEW c, PowerOfTwo(c)
    PROVE  PowerOfTwo(2 * c)
<1>1. c \in Nat \ {0} /\ \A d, q \in 1 .. c : c = d * q => d = 1 \/ d % 2 = 0
  BY DEF PowerOfTwo
<1>2. ASSUME NEW d \in 1 .. 2 * c, NEW q \in 1 .. 2 * c, 2 * c = d * q, d % 2 # 0
      PROVE  d = 1
  <2>1. PICK e \in Int : d = 2 * e + 1
    <3>1. d = 2 * (d \div 2) + 1
      BY <1>1, <1>2
    <3>2. d \div 2 \in Int
      BY <1>1
    <3> QED BY <3>1, <3>2
  <2>2. PICK r \in Int : r = c - e * q
    BY <1>1
  <2>3. d * q = 2 * (e * q) + q
    BY <1>1, <2>1
  <2>4. q = 2 * r
    BY <1>1, <1>2, <2>2, <2>3
  <2>5. d * q = 2 * (d * r)
    BY <1>1, <2>4
  <2>6. c = d * r
    BY <1>1, <1>2, <2>5
  <2>7. r >= 1
    BY <1>1, <2>4
  <2>8. d <= c /\ r <= c
    BY <1>1, <2>6, <2>7
  <2> QED BY <1>1, <1>2, <2>6, <2>7, <2>8
<1> QED BY <1>1, <1>2 DEF PowerOfTwo

------------------------------------------------------------------------------
(***************************************************************************)
(* The invariant of a table.  K are the keys, V the values.                *)
(***************************************************************************)
Entries(c, K, V) == [0 .. c - 1 -> [key : K \cup {NoKey}, value : V]]

Shape(t, K, V) ==
    /\ t \in [capacity : Nat, size : Nat, entries : Entries(t.capacity, K, V)]
    /\ NoKey \notin K /\ \A k \in K : k.hash \in Nat

\* No key stands twice.
Unique(t) ==
    \A i, j \in DOMAIN t.entries :
        t.entries[i].key # NoKey /\ t.entries[i].key = t.entries[j].key => i = j

\* No free entry lies between where a key belongs and where it stands.
Reachable(t) ==
    \A i, j \in DOMAIN t.entries :
        /\ t.entries[i].key # NoKey
        /\ Distance(t, t.entries[i].key.hash, j) <= Distance(t, t.entries[i].key.hash, i)
        => t.entries[j] # Free

\* The load that ch_table_set keeps, and the capacities it chooses.
Roomy(t) == 4 * t.size <= 3 * t.capacity
CapacityOK(t) ==
    \/ t.capacity = 0
    \/ PowerOfTwo(t.capacity) /\ t.capacity >= MinCapacity

TableOK(t, K, V) ==
    Shape(t, K, V) /\ Unique(t) /\ Reachable(t) /\ SizeIsUsed(t) /\ Roomy(t) /\ CapacityOK(t)

LEMMA ShapeFacts ==
    ASSUME NEW K, NEW V, NEW t, Shape(t, K, V)
    PROVE  /\ t.capacity \in Nat /\ t.size \in Nat
           /\ t = [capacity |-> t.capacity, size |-> t.size, entries |-> t.entries]
           /\ t.entries \in [0 .. t.capacity - 1 -> [key : K \cup {NoKey}, value : V]]
           /\ DOMAIN t.entries = 0 .. t.capacity - 1
           /\ \A i \in 0 .. t.capacity - 1 : /\ t.entries[i].key \in K \cup {NoKey}
                                            /\ t.entries[i].value \in V
                                            /\ t.entries[i] = Entry(t.entries[i].key, t.entries[i].value)
           /\ NoKey \notin K /\ \A k \in K : k.hash \in Nat
<1>1. t \in [capacity : Nat, size : Nat, entries : Entries(t.capacity, K, V)]
  BY DEF Shape
<1>2. t.entries \in [0 .. t.capacity - 1 -> [key : K \cup {NoKey}, value : V]]
  BY <1>1 DEF Entries
<1>3. \A i \in 0 .. t.capacity - 1 : t.entries[i] \in [key : K \cup {NoKey}, value : V]
  BY <1>2
<1> QED BY <1>1, <1>2, <1>3 DEF Shape, Entry

LEMMA EmptyTableOK ==
    ASSUME NEW K, NEW V, NoKey \notin K, \A k \in K : k.hash \in Nat
    PROVE  TableOK(EmptyTable, K, V)
<1>1. 0 .. 0 - 1 = {}
  OBVIOUS
<1>2. PICK t : t = EmptyTable
  OBVIOUS
<1>3. t.capacity = 0 /\ t.size = 0 /\ DOMAIN t.entries = {}
  BY <1>2 DEF EmptyTable
<1>4. Shape(t, K, V)
  BY <1>1, <1>2 DEF EmptyTable, Shape, Entries
<1>5. SizeIsUsed(t)
  <2>1. Used(t.entries) = {}
    BY <1>3 DEF Used
  <2> QED BY <1>3, <2>1, FS_EmptySet DEF SizeIsUsed
<1> QED BY <1>2, <1>3, <1>4, <1>5 DEF TableOK, Unique, Reachable, Roomy, CapacityOK

------------------------------------------------------------------------------
(***************************************************************************)
(* Searching                                                               *)
(***************************************************************************)
LEMMA DistanceRange ==
    ASSUME NEW t, t.capacity \in Nat \ {0}, NEW hash \in Int
    PROVE  \A i \in 0 .. t.capacity - 1 : /\ Distance(t, hash, i) \in Nat
                                          /\ Distance(t, hash, i) \in Int
BY DEF Distance

LEMMA Division ==
    ASSUME NEW a \in Int, NEW c \in Nat \ {0}
    PROVE  a = c * (a \div c) + (a % c) /\ a % c \in Int /\ a \div c \in Int
OBVIOUS

\* A search passes every entry once: two entries are never equally far.
LEMMA DistanceInjective ==
    ASSUME NEW t, t.capacity \in Nat \ {0}, NEW hash \in Int,
           NEW i \in 0 .. t.capacity - 1, NEW j \in 0 .. t.capacity - 1,
           Distance(t, hash, i) = Distance(t, hash, j)
    PROVE  i = j
<1>1. PICK c \in Nat \ {0} : c = t.capacity
  OBVIOUS
<1>2. PICK q, p, r \in Int : /\ i - hash = c * q + r
                             /\ j - hash = c * p + r
  <2>1. PICK a \in Int, b \in Int : a = i - hash /\ b = j - hash
    BY <1>1
  <2>2. a % c = b % c
    BY <1>1, <2>1 DEF Distance
  <2>3. /\ a = c * (a \div c) + (a % c) /\ a % c \in Int /\ a \div c \in Int
        /\ b = c * (b \div c) + (b % c) /\ b \div c \in Int
    BY Division
  <2>4. b = c * (b \div c) + (a % c)
    BY <2>2, <2>3
  <2>5. i - hash = c * (a \div c) + (a % c)
    BY <2>1, <2>3
  <2>6. j - hash = c * (b \div c) + (a % c)
    BY <2>1, <2>4
  <2> HIDE <2>1, <2>2
  <2> QED BY <2>3, <2>5, <2>6, Zenon
<1>3. PICK d \in Int : d = q - p
  OBVIOUS
<1>4. i - j = c * q - c * p
  BY <1>1, <1>2
<1>5. c * q - c * p = c * d
  BY <1>3
<1>6. i - j = c * d
  BY <1>4, <1>5
<1>7. d = 0
  BY <1>1, <1>6
<1> QED BY <1>1, <1>6, <1>7

\* The search stops at the nearest of the entries it stops at.
LEMMA FirstOfIsNearest ==
    ASSUME NEW t, t.capacity \in Nat \ {0}, NEW hash \in Int,
           NEW stops, stops \subseteq 0 .. t.capacity - 1, stops # {}
    PROVE  /\ FirstOf(t, hash, stops) \in stops
           /\ \A j \in stops : Distance(t, hash, FirstOf(t, hash, stops)) <= Distance(t, hash, j)
<1> DEFINE S == { Distance(t, hash, i) : i \in stops }
<1>1. S \subseteq Nat /\ S # {}
  BY DistanceRange
<1>2. PICK n \in S : \A m \in S : n <= m
  <2> HIDE DEF S
  <2> QED BY <1>1, LeastMember
<1>3. \E i \in stops : \A j \in stops : Distance(t, hash, i) <= Distance(t, hash, j)
  BY <1>2
<1> QED BY <1>3 DEF FirstOf

\* A table that is not full has an entry at which a search ends.
LEMMA HasRoom ==
    ASSUME NEW K, NEW V, NEW t, Shape(t, K, V), SizeIsUsed(t), t.size < t.capacity
    PROVE  \E i \in 0 .. t.capacity - 1 : t.entries[i] = Free
<1>1. t.capacity \in Nat /\ DOMAIN t.entries = 0 .. t.capacity - 1
  BY ShapeFacts
<1>2. SUFFICES ASSUME \A i \in 0 .. t.capacity - 1 : t.entries[i] # Free
               PROVE  FALSE
  OBVIOUS
<1>3. Used(t.entries) = 0 .. t.capacity - 1
  BY <1>1, <1>2 DEF Used
<1>4. Cardinality(0 .. t.capacity - 1) = t.capacity
  BY <1>1, FS_Interval
<1> QED BY <1>3, <1>4, <1>1, ShapeFacts DEF SizeIsUsed

LEMMA UsedIsFinite ==
    ASSUME NEW K, NEW V, NEW t, Shape(t, K, V)
    PROVE  IsFiniteSet(Used(t.entries))
<1>1. t.capacity \in Nat /\ DOMAIN t.entries = 0 .. t.capacity - 1
  BY ShapeFacts
<1>2. Used(t.entries) \in SUBSET (0 .. t.capacity - 1)
  BY <1>1 DEF Used
<1>3. IsFiniteSet(0 .. t.capacity - 1)
  <2>1. 0 \in Int /\ t.capacity - 1 \in Int
    BY <1>1
  <2> QED BY <2>1, FS_Interval
<1> QED BY <1>2, <1>3, FS_Subset

\* A key that is there is found where it stands.
LEMMA FindPresent ==
    ASSUME NEW K, NEW V, NEW t, Shape(t, K, V), Unique(t), Reachable(t),
           NEW i \in 0 .. t.capacity - 1, t.entries[i].key # NoKey
    PROVE  FindEntry(t, t.entries[i].key) = i
<1> DEFINE k == t.entries[i].key
           stops == StopsFor(t, k)
           stop == FirstOf(t, k.hash, stops)
<1>1. t.capacity \in Nat \ {0} /\ DOMAIN t.entries = 0 .. t.capacity - 1 /\ k.hash \in Int
  BY ShapeFacts
<1>2. stops \subseteq 0 .. t.capacity - 1 /\ i \in stops
  BY <1>1 DEF StopsFor
<1>3. stop \in stops /\ Distance(t, k.hash, stop) <= Distance(t, k.hash, i)
  BY <1>1, <1>2, FirstOfIsNearest
<1>4. t.entries[stop] # Free
  BY <1>1, <1>2, <1>3 DEF Reachable
<1>5. t.entries[stop].key = k
  BY <1>3, <1>4 DEF StopsFor
<1>6. stop = i
  BY <1>1, <1>2, <1>3, <1>5 DEF Unique
<1> QED BY <1>4, <1>6 DEF FindEntry

\* A key that is not there is found the first entry on its way that it may
\* take: no free entry comes before it.
Placeable(t, k, f) ==
    /\ f \in 0 .. t.capacity - 1
    /\ t.entries[f] \in {Free, Tombstone}
    /\ \A j \in 0 .. t.capacity - 1 :
         Distance(t, k.hash, j) < Distance(t, k.hash, f) => t.entries[j] # Free

Absent(t, k) == \A i \in 0 .. t.capacity - 1 : t.entries[i].key # k

LEMMA FindAbsent ==
    ASSUME NEW K, NEW V, NEW t, Shape(t, K, V), NEW k \in K, Absent(t, k),
           \E i \in 0 .. t.capacity - 1 : t.entries[i] = Free
    PROVE  Placeable(t, k, FindEntry(t, k))
<1> DEFINE stops == StopsFor(t, k)
           stop == FirstOf(t, k.hash, stops)
           passed == { i \in Tombstones(t) : Distance(t, k.hash, i) < Distance(t, k.hash, stop) }
<1>1. t.capacity \in Nat \ {0} /\ DOMAIN t.entries = 0 .. t.capacity - 1 /\ k.hash \in Int
  BY ShapeFacts
<1>2. stops \subseteq 0 .. t.capacity - 1 /\ stops # {}
  BY <1>1 DEF StopsFor
<1>3. stop \in stops /\ \A j \in stops : Distance(t, k.hash, stop) <= Distance(t, k.hash, j)
  BY <1>1, <1>2, FirstOfIsNearest
<1>4. t.entries[stop] = Free /\ stop \in 0 .. t.capacity - 1
  BY <1>2, <1>3 DEF StopsFor, Absent
<1>5. \A j \in 0 .. t.capacity - 1 :
        Distance(t, k.hash, j) < Distance(t, k.hash, stop) => t.entries[j] # Free
  <2>1. ASSUME NEW j \in 0 .. t.capacity - 1, t.entries[j] = Free
        PROVE  Distance(t, k.hash, stop) <= Distance(t, k.hash, j)
    BY <1>1, <1>3, <2>1 DEF StopsFor
  <2>2. \A j \in 0 .. t.capacity - 1 : Distance(t, k.hash, j) \in Int
    <3> HIDE DEF stop, stops, passed
    <3> QED BY <1>1, DistanceRange
  <2> QED BY <1>4, <2>1, <2>2
<1>6. CASE passed = {}
  <2>1. FindEntry(t, k) = stop
    BY <1>6 DEF FindEntry
  <2> QED BY <1>4, <1>5, <2>1 DEF Placeable
<1>7. CASE passed # {}
  <2> DEFINE f == FirstOf(t, k.hash, passed)
  <2>1. passed \subseteq 0 .. t.capacity - 1
    BY <1>1 DEF Tombstones
  <2>2. f \in passed
    <3> HIDE DEF passed
    <3> QED BY <1>1, <1>7, <2>1, FirstOfIsNearest
  <2>3. FindEntry(t, k) = f
    <3>1. stop # Never
      BY <1>1, <1>4 DEF Never
    <3> QED BY <1>4, <1>7, <3>1 DEF FindEntry
  <2>4. f \in 0 .. t.capacity - 1 /\ t.entries[f] = Tombstone
    BY <2>1, <2>2 DEF Tombstones
  <2>5. Distance(t, k.hash, f) < Distance(t, k.hash, stop)
    BY <2>2
  <2>6. \A j \in 0 .. t.capacity - 1 :
          Distance(t, k.hash, j) < Distance(t, k.hash, f) => t.entries[j] # Free
    <3>1. \A j \in 0 .. t.capacity - 1 : Distance(t, k.hash, j) \in Int
      <4> HIDE DEF f, stop, stops, passed
      <4> QED BY <1>1, DistanceRange
    <3> HIDE DEF f, stop, passed
    <3> QED BY <1>4, <1>5, <2>4, <2>5, <3>1
  <2> QED BY <2>3, <2>4, <2>6 DEF Placeable
<1> QED BY <1>6, <1>7

------------------------------------------------------------------------------
(***************************************************************************)
(* Putting an entry                                                        *)
(***************************************************************************)
\* Where a search for the key may stop.
Fits(t, k, f) ==
    /\ f \in 0 .. t.capacity - 1
    /\ t.entries[f].key = k \/ (Absent(t, k) /\ Placeable(t, k, f))

LEMMA FoundFits ==
    ASSUME NEW K, NEW V, NEW t, Shape(t, K, V), Unique(t), Reachable(t), NEW k \in K,
           \E i \in 0 .. t.capacity - 1 : t.entries[i] = Free
    PROVE  Fits(t, k, FindEntry(t, k))
<1>1. CASE Absent(t, k)
  BY <1>1, FindAbsent DEF Fits, Placeable
<1>2. CASE ~Absent(t, k)
  <2>1. PICK i \in 0 .. t.capacity - 1 : t.entries[i].key = k
    BY <1>2 DEF Absent
  <2>2. k # NoKey
    BY ShapeFacts
  <2>3. FindEntry(t, k) = i
    BY <2>1, <2>2, FindPresent
  <2> QED BY <2>1, <2>3 DEF Fits
<1> QED BY <1>1, <1>2

LEMMA PutEntries ==
    ASSUME NEW K, NEW V, NEW t, Shape(t, K, V), NEW f \in 0 .. t.capacity - 1,
           NEW k \in K, NEW v \in V
    PROVE  /\ Put(t, f, k, v).capacity = t.capacity
           /\ Put(t, f, k, v).size = IF t.entries[f] = Free THEN t.size + 1 ELSE t.size
           /\ Put(t, f, k, v).entries = [t.entries EXCEPT ![f] = Entry(k, v)]
           /\ DOMAIN Put(t, f, k, v).entries = 0 .. t.capacity - 1
           /\ Put(t, f, k, v).entries[f] = Entry(k, v)
           /\ \A i \in 0 .. t.capacity - 1 : i # f => Put(t, f, k, v).entries[i] = t.entries[i]
           /\ Shape(Put(t, f, k, v), K, V)
<1>1. /\ t = [capacity |-> t.capacity, size |-> t.size, entries |-> t.entries]
      /\ t.entries \in [0 .. t.capacity - 1 -> [key : K \cup {NoKey}, value : V]]
      /\ t.capacity \in Nat /\ t.size \in Nat
  BY ShapeFacts
<1>2. PICK c, s, e, u : /\ c = t.capacity /\ s = t.size /\ e = t.entries
                        /\ u = Put(t, f, k, v)
  OBVIOUS
<1>3. u = [capacity |-> c, size |-> IF e[f] = Free THEN s + 1 ELSE s,
           entries |-> [e EXCEPT ![f] = Entry(k, v)]]
  BY <1>1, <1>2 DEF Put
<1>4. [e EXCEPT ![f] = Entry(k, v)] \in [0 .. c - 1 -> [key : K \cup {NoKey}, value : V]]
  BY <1>1, <1>2 DEF Entry
<1>5. u.capacity = c /\ u.entries = [e EXCEPT ![f] = Entry(k, v)]
  BY <1>3
<1>6. u.size = IF e[f] = Free THEN s + 1 ELSE s
  BY <1>3
<1>7. u.size \in Nat
  BY <1>1, <1>2, <1>6
<1>8. u = [capacity |-> u.capacity, size |-> u.size, entries |-> u.entries]
  BY <1>3
<1>9. Shape(u, K, V)
  <2>1. c \in Nat /\ u.entries \in [0 .. c - 1 -> [key : K \cup {NoKey}, value : V]]
    BY <1>1, <1>2, <1>4, <1>5
  <2>2. u \in [capacity : Nat, size : Nat, entries : Entries(u.capacity, K, V)]
    BY <1>5, <1>7, <1>8, <2>1 DEF Entries
  <2> QED BY <2>2 DEF Shape
<1>10. \A i \in 0 .. c - 1 : u.entries[i] = IF i = f THEN Entry(k, v) ELSE e[i]
  BY <1>1, <1>2, <1>5
<1>11. DOMAIN u.entries = 0 .. c - 1
  BY <1>1, <1>2, <1>5
<1> QED BY <1>2, <1>5, <1>6, <1>9, <1>10, <1>11

LEMMA PutOK ==
    ASSUME NEW K, NEW V, NEW t, Shape(t, K, V), Unique(t), Reachable(t), SizeIsUsed(t),
           NEW k \in K, NEW v \in V, NEW f, Fits(t, k, f)
    PROVE  /\ Shape(Put(t, f, k, v), K, V)
           /\ Unique(Put(t, f, k, v))
           /\ Reachable(Put(t, f, k, v))
           /\ SizeIsUsed(Put(t, f, k, v))
           /\ Put(t, f, k, v).capacity = t.capacity
           /\ Put(t, f, k, v).size <= t.size + 1
<1>1. f \in 0 .. t.capacity - 1 /\ t.capacity \in Nat \ {0} /\ t.size \in Nat
      /\ DOMAIN t.entries = 0 .. t.capacity - 1
  BY ShapeFacts DEF Fits
<1>2. k # NoKey /\ k.hash \in Int /\ \A x \in K : x.hash \in Int
  BY ShapeFacts
<1>3. PICK u : u = Put(t, f, k, v)
  OBVIOUS
<1>4. /\ u.capacity = t.capacity
      /\ u.size = IF t.entries[f] = Free THEN t.size + 1 ELSE t.size
      /\ u.entries = [t.entries EXCEPT ![f] = Entry(k, v)]
      /\ DOMAIN u.entries = 0 .. t.capacity - 1
      /\ u.entries[f] = Entry(k, v)
      /\ \A i \in 0 .. t.capacity - 1 : i # f => u.entries[i] = t.entries[i]
      /\ Shape(u, K, V)
  BY <1>1, <1>3, PutEntries
<1>5. u.entries[f].key = k /\ u.entries[f] # Free
  BY <1>2, <1>4 DEF Entry, Free
<1>6. \A i \in 0 .. t.capacity - 1 : t.entries[i].key = k => i = f
  BY <1>1, <1>2 DEF Fits, Absent, Unique
<1>7. Unique(u)
  <2>1. ASSUME NEW i \in 0 .. t.capacity - 1, NEW j \in 0 .. t.capacity - 1,
               u.entries[i].key # NoKey, u.entries[i].key = u.entries[j].key
        PROVE  i = j
    <3>1. CASE i = f \/ j = f
      BY <1>4, <1>5, <1>6, <2>1, <3>1
    <3>2. CASE i # f /\ j # f
      BY <1>1, <1>4, <2>1, <3>2 DEF Unique
    <3> QED BY <3>1, <3>2
  <2> QED BY <1>4, <2>1 DEF Unique
<1>8. Reachable(u)
  <2>1. ASSUME NEW i \in 0 .. t.capacity - 1, NEW j \in 0 .. t.capacity - 1,
               u.entries[i].key # NoKey,
               Distance(t, u.entries[i].key.hash, j) <= Distance(t, u.entries[i].key.hash, i)
        PROVE  u.entries[j] # Free
    <3>1. CASE j = f
      BY <1>5, <3>1
    <3>2. CASE j # f /\ i # f
      <4>1. u.entries[i] = t.entries[i] /\ u.entries[j] = t.entries[j]
        BY <1>4, <3>2
      <4> QED BY <1>1, <2>1, <4>1 DEF Reachable
    <3>3. CASE j # f /\ i = f
      <4>1. Distance(t, k.hash, j) <= Distance(t, k.hash, f)
        BY <1>5, <2>1, <3>3
      <4>2. CASE t.entries[f].key = k
        BY <1>1, <1>2, <1>4, <3>3, <4>1, <4>2 DEF Reachable
      <4>3. CASE Placeable(t, k, f)
        <5>1. Distance(t, k.hash, j) # Distance(t, k.hash, f)
          BY <1>1, <1>2, <3>3, DistanceInjective
        <5>2. Distance(t, k.hash, j) \in Int /\ Distance(t, k.hash, f) \in Int
          BY <1>1, <1>2, DistanceRange
        <5>3. Distance(t, k.hash, j) < Distance(t, k.hash, f)
          BY <4>1, <5>1, <5>2
        <5> QED BY <1>4, <3>3, <4>3, <5>3 DEF Placeable
      <4> QED BY <4>2, <4>3 DEF Fits
    <3> QED BY <3>1, <3>2, <3>3
  <2>2. ASSUME NEW i \in 0 .. t.capacity - 1, NEW j \in 0 .. t.capacity - 1,
               u.entries[i].key # NoKey,
               Distance(u, u.entries[i].key.hash, j) <= Distance(u, u.entries[i].key.hash, i)
        PROVE  u.entries[j] # Free
    BY <1>4, <2>1, <2>2 DEF Distance
  <2> QED BY <1>4, <2>2 DEF Reachable
<1>9. SizeIsUsed(u)
  <2>1. Used(u.entries) = Used(t.entries) \cup {f}
    BY <1>1, <1>4, <1>5 DEF Used
  <2>2. f \in Used(t.entries) <=> t.entries[f] # Free
    BY <1>1 DEF Used
  <2>3. IsFiniteSet(Used(t.entries))
    BY UsedIsFinite
  <2>4. Cardinality(Used(t.entries) \cup {f}) =
          IF f \in Used(t.entries) THEN t.size ELSE t.size + 1
    BY <2>3, FS_AddElement DEF SizeIsUsed
  <2> QED BY <1>4, <2>1, <2>2, <2>4 DEF SizeIsUsed
<1>10. u.size <= t.size + 1
  BY <1>1, <1>4
<1> QED BY <1>3, <1>4, <1>7, <1>8, <1>9, <1>10

------------------------------------------------------------------------------
(***************************************************************************)
(* The map a table stands for                                              *)
(***************************************************************************)
Holds(t, k, v) == \E i \in 0 .. t.capacity - 1 : t.entries[i] = Entry(k, v)

LEMMA ContentsFacts ==
    ASSUME NEW K, NEW V, NEW t, Shape(t, K, V), Unique(t)
    PROVE  /\ Contents(t) = [k \in DOMAIN Contents(t) |-> Contents(t)[k]]
           /\ DOMAIN Contents(t) \subseteq K
           /\ \A k \in K : k \in DOMAIN Contents(t) <=> ~Absent(t, k)
           /\ \A k \in K, v \in V : Holds(t, k, v) <=> k \in DOMAIN Contents(t) /\ Contents(t)[k] = v
           /\ \A k \in DOMAIN Contents(t) : Contents(t)[k] \in V /\ Holds(t, k, Contents(t)[k])
<1> DEFINE Keys == { t.entries[i].key : i \in DOMAIN t.entries } \ {NoKey}
           Place(k) == CHOOSE i \in DOMAIN t.entries : t.entries[i].key = k
<1>1. /\ DOMAIN t.entries = 0 .. t.capacity - 1
      /\ \A i \in 0 .. t.capacity - 1 : /\ t.entries[i].key \in K \cup {NoKey}
                                       /\ t.entries[i].value \in V
                                       /\ t.entries[i] = Entry(t.entries[i].key, t.entries[i].value)
      /\ NoKey \notin K
  BY ShapeFacts
<1>2. PICK m : m = Contents(t)
  OBVIOUS
<1>3. m = [k \in Keys |-> t.entries[Place(k)].value]
  BY <1>2 DEF Contents
<1>4. DOMAIN m = Keys /\ \A k \in Keys : m[k] = t.entries[Place(k)].value
  BY <1>3
<1>5. m = [k \in DOMAIN m |-> m[k]]
  BY <1>3
<1>6. Keys \subseteq K
  BY <1>1
<1>7. \A k \in K : k \in Keys <=> ~Absent(t, k)
  BY <1>1 DEF Absent
<1>8. \A k \in Keys : Place(k) \in 0 .. t.capacity - 1 /\ t.entries[Place(k)].key = k
  BY <1>1
<1>9. \A k \in Keys : m[k] \in V /\ Holds(t, k, m[k])
  BY <1>1, <1>4, <1>8 DEF Holds
<1>10. ASSUME NEW k \in K, NEW v \in V, Holds(t, k, v)
       PROVE  k \in Keys /\ m[k] = v
  <2>1. PICK i \in 0 .. t.capacity - 1 : t.entries[i] = Entry(k, v)
    BY <1>10 DEF Holds
  <2>2. t.entries[i].key = k /\ t.entries[i].value = v /\ k # NoKey
    BY <1>1, <2>1 DEF Entry
  <2>3. k \in Keys
    BY <1>1, <2>2
  <2>4. Place(k) = i
    BY <1>1, <1>8, <2>2, <2>3 DEF Unique
  <2> QED BY <1>4, <2>2, <2>3, <2>4
<1> HIDE DEF Keys
<1> QED BY <1>2, <1>4, <1>5, <1>6, <1>7, <1>9, <1>10

LEMMA SameContents ==
    ASSUME NEW K, NEW V, NEW t, Shape(t, K, V), Unique(t), NEW u, Shape(u, K, V), Unique(u),
           \A k \in K, v \in V : Holds(t, k, v) <=> Holds(u, k, v)
    PROVE  Contents(t) = Contents(u)
<1>1. PICK m, n : m = Contents(t) /\ n = Contents(u)
  OBVIOUS
<1>2. /\ m = [k \in DOMAIN m |-> m[k]]
      /\ DOMAIN m \subseteq K
      /\ \A k \in K, v \in V : Holds(t, k, v) <=> k \in DOMAIN m /\ m[k] = v
      /\ \A k \in DOMAIN m : m[k] \in V
  BY <1>1, ContentsFacts
<1>3. /\ n = [k \in DOMAIN n |-> n[k]]
      /\ DOMAIN n \subseteq K
      /\ \A k \in K, v \in V : Holds(u, k, v) <=> k \in DOMAIN n /\ n[k] = v
      /\ \A k \in DOMAIN n : n[k] \in V
  BY <1>1, ContentsFacts
<1>4. \A k \in K, v \in V : (k \in DOMAIN m /\ m[k] = v) <=> (k \in DOMAIN n /\ n[k] = v)
  BY <1>2, <1>3
<1>5. DOMAIN m = DOMAIN n
  BY <1>2, <1>3, <1>4
<1>6. \A k \in DOMAIN m : m[k] = n[k]
  BY <1>2, <1>3, <1>4
<1>7. m = n
  BY <1>2, <1>3, <1>5, <1>6
<1> QED BY <1>1, <1>7

\* What becomes of the map when a key is set, and when it is removed.
With(m, k, v) == [x \in DOMAIN m \union {k} |-> IF x = k THEN v ELSE m[x]]
Without(m, k) == [x \in DOMAIN m \ {k} |-> m[x]]

LEMMA PutHolds ==
    ASSUME NEW K, NEW V, NEW t, Shape(t, K, V), Unique(t),
           NEW k \in K, NEW v \in V, NEW f, Fits(t, k, f), NEW x \in K, NEW w \in V
    PROVE  Holds(Put(t, f, k, v), x, w) <=> IF x = k THEN w = v ELSE Holds(t, x, w)
<1>1. f \in 0 .. t.capacity - 1
  BY DEF Fits
<1>2. PICK u : u = Put(t, f, k, v)
  OBVIOUS
<1>3. /\ u.capacity = t.capacity
      /\ u.size = IF t.entries[f] = Free THEN t.size + 1 ELSE t.size
      /\ u.entries = [t.entries EXCEPT ![f] = Entry(k, v)]
      /\ DOMAIN u.entries = 0 .. t.capacity - 1
      /\ u.entries[f] = Entry(k, v)
      /\ \A i \in 0 .. t.capacity - 1 : i # f => u.entries[i] = t.entries[i]
      /\ Shape(u, K, V)
  BY <1>1, <1>2, PutEntries
<1>4. \A i \in 0 .. t.capacity - 1 : t.entries[i].key = k => i = f
  <2>1. k # NoKey /\ DOMAIN t.entries = 0 .. t.capacity - 1
    BY ShapeFacts
  <2> QED BY <1>1, <2>1 DEF Fits, Absent, Unique
<1>5. t.entries[f].key = k \/ t.entries[f].key = NoKey
  BY DEF Fits, Placeable, Free, Tombstone, Entry
<1>6. NoKey \notin K
  BY ShapeFacts
<1>7. CASE x = k
  <2>1. Holds(u, k, v)
    BY <1>1, <1>3 DEF Holds
  <2>2. ASSUME Holds(u, k, w) PROVE w = v
    <3>1. PICK i \in 0 .. t.capacity - 1 : u.entries[i] = Entry(k, w)
      BY <1>3, <2>2 DEF Holds
    <3>2. i = f
      BY <1>3, <1>4, <3>1 DEF Entry
    <3> QED BY <1>3, <3>1, <3>2 DEF Entry
  <2> QED BY <1>2, <1>7, <2>1, <2>2
<1>8. CASE x # k
  <2>1. u.entries[f] # Entry(x, w)
    BY <1>3, <1>8 DEF Entry
  <2>2. t.entries[f] # Entry(x, w)
    BY <1>5, <1>6, <1>8 DEF Entry
  <2>3. Holds(u, x, w) <=> Holds(t, x, w)
    BY <1>3, <2>1, <2>2 DEF Holds
  <2> QED BY <1>2, <1>8, <2>3
<1> QED BY <1>7, <1>8

LEMMA PutContents ==
    ASSUME NEW K, NEW V, NEW t, Shape(t, K, V), Unique(t), Reachable(t), SizeIsUsed(t),
           NEW k \in K, NEW v \in V, NEW f, Fits(t, k, f)
    PROVE  Contents(Put(t, f, k, v)) = With(Contents(t), k, v)
<1>1. PICK u : u = Put(t, f, k, v)
  OBVIOUS
<1>2. Shape(u, K, V) /\ Unique(u)
  BY <1>1, PutOK
<1>3. \A x \in K, w \in V : Holds(u, x, w) <=> IF x = k THEN w = v ELSE Holds(t, x, w)
  BY <1>1, PutHolds
<1>4. PICK m, n : m = Contents(t) /\ n = Contents(u)
  OBVIOUS
<1>5. /\ DOMAIN m \subseteq K
      /\ \A x \in K, w \in V : Holds(t, x, w) <=> x \in DOMAIN m /\ m[x] = w
      /\ \A x \in DOMAIN m : m[x] \in V
  BY <1>4, ContentsFacts
<1>6. /\ n = [x \in DOMAIN n |-> n[x]]
      /\ DOMAIN n \subseteq K
      /\ \A x \in K, w \in V : Holds(u, x, w) <=> x \in DOMAIN n /\ n[x] = w
      /\ \A x \in DOMAIN n : n[x] \in V
  BY <1>2, <1>4, ContentsFacts
<1>7. \A x \in K, w \in V : (x \in DOMAIN n /\ n[x] = w)
                             <=> IF x = k THEN w = v ELSE x \in DOMAIN m /\ m[x] = w
  BY <1>3, <1>5, <1>6
<1>8. DOMAIN n = DOMAIN m \union {k}
  BY <1>5, <1>6, <1>7
<1>9. \A x \in DOMAIN n : n[x] = IF x = k THEN v ELSE m[x]
  BY <1>5, <1>6, <1>7
<1>10. n = With(m, k, v)
  BY <1>6, <1>8, <1>9 DEF With
<1> QED BY <1>1, <1>4, <1>10

------------------------------------------------------------------------------
(***************************************************************************)
(* Growing: the loop of adjust_capacity                                    *)
(***************************************************************************)
\* The tables that the first n rounds leave, one after another.
Moves(tables, t, c, n) ==
    tables = [m \in 0 .. n |-> IF m = 0 THEN Fresh(c) ELSE Reinserted(tables[m - 1], t.entries[m - 1])]

LEMMA MovesExist ==
    ASSUME NEW t, NEW c, NEW n \in Nat
    PROVE  \E tables : Moves(tables, t, c, n)
<1> DEFINE S == { m \in Nat : ~ \E tables : Moves(tables, t, c, m) }
<1>1. SUFFICES ASSUME S # {} PROVE FALSE
  OBVIOUS
<1>2. PICK m \in S : \A k \in S : m <= k
  <2>1. S \subseteq Nat
    OBVIOUS
  <2> HIDE DEF S
  <2> QED BY <1>1, <2>1, LeastMember
<1>3. m # 0
  <2>1. PICK tables : tables = [k \in 0 .. 0 |-> Fresh(c)]
    OBVIOUS
  <2>2. \A k \in 0 .. 0 : k = 0
    OBVIOUS
  <2>3. Moves(tables, t, c, 0)
    BY <2>1, <2>2 DEF Moves
  <2> QED BY <2>3
<1>4. PICK tables : Moves(tables, t, c, m - 1)
  BY <1>2, <1>3
<1>5. PICK more : more = [k \in 0 .. m |-> IF k = m THEN Reinserted(tables[m - 1], t.entries[m - 1])
                                                  ELSE tables[k]]
  OBVIOUS
<1>6. ASSUME NEW k \in 0 .. m
      PROVE  more[k] = IF k = 0 THEN Fresh(c) ELSE Reinserted(more[k - 1], t.entries[k - 1])
  <2>1. CASE k = 0
    <3>1. more[0] = tables[0] /\ 0 \in 0 .. m - 1
      BY <1>3, <1>5
    <3> QED BY <1>4, <2>1, <3>1 DEF Moves
  <2>2. CASE k # 0 /\ k # m
    <3>1. k \in 0 .. m - 1 /\ k - 1 \in 0 .. m /\ k - 1 # m
      BY <2>2
    <3>2. more[k] = tables[k] /\ more[k - 1] = tables[k - 1]
      BY <1>5, <2>2, <3>1
    <3>3. tables[k] = Reinserted(tables[k - 1], t.entries[k - 1])
      BY <1>4, <2>2, <3>1 DEF Moves
    <3> QED BY <2>2, <3>2, <3>3
  <2>3. CASE k # 0 /\ k = m
    <3>1. k - 1 \in 0 .. m /\ k - 1 # m
      BY <2>3
    <3>2. more[k] = Reinserted(tables[k - 1], t.entries[k - 1]) /\ more[k - 1] = tables[k - 1]
      BY <1>5, <2>3, <3>1
    <3> QED BY <2>3, <3>2
  <2> QED BY <2>1, <2>2, <2>3
<1>7. more = [k \in 0 .. m |-> IF k = 0 THEN Fresh(c) ELSE Reinserted(more[k - 1], t.entries[k - 1])]
  BY <1>5, <1>6
<1>8. Moves(more, t, c, m)
  BY <1>7 DEF Moves
<1> QED BY <1>2, <1>8

LEMMA AdjustCapacityMoves ==
    ASSUME NEW t, t.capacity \in Nat, NEW c
    PROVE  \E tables : Moves(tables, t, c, t.capacity) /\ AdjustCapacity(t, c) = tables[t.capacity]
<1>1. \E tables : Moves(tables, t, c, t.capacity)
  BY MovesExist
<1>2. PICK tables :
        tables = CHOOSE after : after = [n \in 0 .. t.capacity |->
                                           IF n = 0 THEN Fresh(c)
                                                    ELSE Reinserted(after[n - 1], t.entries[n - 1])]
  OBVIOUS
<1>3. Moves(tables, t, c, t.capacity)
  BY <1>1, <1>2 DEF Moves
<1>4. AdjustCapacity(t, c) = tables[t.capacity]
  BY <1>2, Zenon DEF AdjustCapacity
<1> QED BY <1>3, <1>4

\* What the first n rounds have done: the table a holds what the first n
\* entries of t hold, and has no tombstone.
Rehashed(t, K, V, c, n, a) ==
    /\ Shape(a, K, V) /\ Unique(a) /\ Reachable(a) /\ SizeIsUsed(a)
    /\ a.capacity = c /\ a.size <= n
    /\ \A i \in 0 .. c - 1 : a.entries[i].key = NoKey => a.entries[i] = Free
    /\ \A k \in K, v \in V : Holds(a, k, v) <=> \E j \in 0 .. n - 1 : t.entries[j] = Entry(k, v)

LEMMA FreshRehashed ==
    ASSUME NEW K, NEW V, NEW t, Shape(t, K, V), NEW c \in Nat, NullValue \in V
    PROVE  Rehashed(t, K, V, c, 0, Fresh(c))
<1>1. PICK a : a = Fresh(c)
  OBVIOUS
<1>2. a.capacity = c /\ a.size = 0 /\ DOMAIN a.entries = 0 .. c - 1
  BY <1>1 DEF Fresh
<1>3. \A i \in 0 .. c - 1 : a.entries[i] = Free /\ a.entries[i].key = NoKey
  BY <1>1 DEF Fresh, Free, Entry
<1>4. NoKey \notin K /\ \A k \in K : k.hash \in Nat
  BY ShapeFacts
<1>5. Shape(a, K, V)
  <2>1. Free \in [key : K \cup {NoKey}, value : V]
    BY DEF Free, Entry
  <2>2. a \in [capacity : Nat, size : Nat, entries : [0 .. c - 1 -> [key : K \cup {NoKey}, value : V]]]
    BY <1>1, <2>1 DEF Fresh
  <2> QED BY <1>2, <1>4, <2>2 DEF Shape, Entries
<1>6. SizeIsUsed(a)
  <2>1. Used(a.entries) = {}
    BY <1>2, <1>3 DEF Used
  <2> QED BY <1>2, <2>1, FS_EmptySet DEF SizeIsUsed
<1>7. Unique(a) /\ Reachable(a)
  BY <1>2, <1>3 DEF Unique, Reachable
<1>8. \A k \in K, v \in V : ~Holds(a, k, v)
  BY <1>2, <1>3, <1>4 DEF Holds, Entry
<1>9. 0 .. 0 - 1 = {}
  OBVIOUS
<1> QED BY <1>1, <1>2, <1>3, <1>5, <1>6, <1>7, <1>8, <1>9 DEF Rehashed

LEMMA ReinsertedRehashed ==
    ASSUME NEW K, NEW V, NEW t, Shape(t, K, V), Unique(t),
           NEW c, NEW n \in 0 .. t.capacity - 1, c > t.capacity,
           NEW a, Rehashed(t, K, V, c, n, a)
    PROVE  Rehashed(t, K, V, c, n + 1, Reinserted(a, t.entries[n]))
<1>1. PICK e : e = t.entries[n]
  OBVIOUS
<1>2. /\ e.key \in K \cup {NoKey} /\ e.value \in V /\ e = Entry(e.key, e.value)
      /\ t.capacity \in Nat /\ NoKey \notin K
      /\ DOMAIN t.entries = 0 .. t.capacity - 1
  BY <1>1, ShapeFacts
<1>3. /\ Shape(a, K, V) /\ Unique(a) /\ Reachable(a) /\ SizeIsUsed(a)
      /\ a.capacity = c /\ a.size <= n
      /\ \A i \in 0 .. c - 1 : a.entries[i].key = NoKey => a.entries[i] = Free
      /\ \A k \in K, v \in V : Holds(a, k, v) <=> \E j \in 0 .. n - 1 : t.entries[j] = Entry(k, v)
  BY DEF Rehashed
<1>4. \A j : j \in 0 .. (n + 1) - 1 <=> j \in 0 .. n - 1 \/ j = n
  BY <1>2
<1>5. CASE e.key = NoKey
  <2>1. Reinserted(a, e) = a
    BY <1>5 DEF Reinserted
  <2>2. \A k \in K, v \in V : e # Entry(k, v)
    BY <1>2, <1>5 DEF Entry
  <2>3. \A k \in K, v \in V :
          Holds(a, k, v) <=> \E j \in 0 .. (n + 1) - 1 : t.entries[j] = Entry(k, v)
    BY <1>1, <1>3, <1>4, <2>2
  <2>4. a.size <= n + 1
    BY <1>3, ShapeFacts
  <2> QED BY <1>1, <1>3, <2>1, <2>3, <2>4 DEF Rehashed
<1>6. CASE e.key # NoKey
  <2>1. PICK k \in K, v \in V : k = e.key /\ v = e.value /\ e = Entry(k, v)
    BY <1>2, <1>6
  <2>2. a.capacity \in Nat /\ a.size \in Nat /\ a.size < a.capacity
    BY <1>2, <1>3, ShapeFacts
  <2>3. \E i \in 0 .. a.capacity - 1 : a.entries[i] = Free
    BY <1>3, <2>2, HasRoom
  <2>4. Absent(a, k)
    <3>1. SUFFICES ASSUME NEW i \in 0 .. a.capacity - 1, a.entries[i].key = k
                   PROVE  FALSE
      BY DEF Absent
    <3>2. PICK w \in V : a.entries[i] = Entry(k, w)
      BY <1>3, <3>1, ShapeFacts
    <3>3. PICK j \in 0 .. n - 1 : t.entries[j] = Entry(k, w)
      BY <1>3, <3>2 DEF Holds
    <3>4. t.entries[j].key = t.entries[n].key /\ t.entries[j].key # NoKey
      BY <1>1, <1>2, <2>1, <3>3 DEF Entry
    <3>5. j \in 0 .. t.capacity - 1 /\ j # n
      BY <1>2
    <3> QED BY <1>2, <3>4, <3>5 DEF Unique
  <2>5. PICK f : f = FindEntry(a, k)
    OBVIOUS
  <2>6. Fits(a, k, f)
    BY <1>3, <2>3, <2>5, FoundFits
  <2>7. f \in 0 .. c - 1 /\ a.entries[f] = Free
    <3>1. f \in 0 .. c - 1 /\ a.entries[f] \in {Free, Tombstone}
      BY <1>3, <2>4, <2>6 DEF Fits, Placeable, Absent
    <3>2. a.entries[f].key = NoKey
      BY <3>1 DEF Free, Tombstone, Entry
    <3> QED BY <1>3, <3>1, <3>2
  <2>8. Reinserted(a, e) = Put(a, f, k, v)
    <3>1. /\ a = [capacity |-> a.capacity, size |-> a.size, entries |-> a.entries]
          /\ a.entries \in [0 .. a.capacity - 1 -> [key : K \cup {NoKey}, value : V]]
          /\ a.capacity \in Nat /\ a.size \in Nat
      BY <1>3, ShapeFacts
    <3> PICK s, g : s = a.size /\ g = a.entries
      OBVIOUS
    <3>2. PICK b, d : b = Reinserted(a, e) /\ d = Put(a, f, k, v)
      OBVIOUS
    <3>3. b = [capacity |-> a.capacity, size |-> s + 1, entries |-> [g EXCEPT ![f] = e]]
      BY <1>6, <2>1, <2>5, <2>7, <3>1, <3>2 DEF Reinserted
    <3>4. d = [capacity |-> a.capacity, size |-> s + 1, entries |-> [g EXCEPT ![f] = e]]
      BY <2>1, <2>7, <3>1, <3>2 DEF Put
    <3> QED BY <3>2, <3>3, <3>4
  <2>9. PICK u : u = Put(a, f, k, v)
    OBVIOUS
  <2>10. /\ Shape(u, K, V) /\ Unique(u) /\ Reachable(u) /\ SizeIsUsed(u)
         /\ u.capacity = a.capacity /\ u.size <= a.size + 1
    BY <1>3, <2>6, <2>9, PutOK
  <2>11. \A x \in K, w \in V : Holds(u, x, w) <=> IF x = k THEN w = v ELSE Holds(a, x, w)
    BY <1>3, <2>6, <2>9, PutHolds
  <2>12. \A w \in V : ~Holds(a, k, w)
    BY <2>4 DEF Holds, Absent, Entry
  <2>13. \A x \in K, w \in V : Holds(u, x, w) <=> Holds(a, x, w) \/ e = Entry(x, w)
    BY <2>1, <2>11, <2>12 DEF Entry
  <2>14. \A x \in K, w \in V :
           Holds(u, x, w) <=> \E j \in 0 .. (n + 1) - 1 : t.entries[j] = Entry(x, w)
    BY <1>1, <1>3, <1>4, <2>13
  <2>15. \A i \in 0 .. c - 1 : u.entries[i].key = NoKey => u.entries[i] = Free
    <3>1. /\ u.capacity = a.capacity
          /\ u.size = IF a.entries[f] = Free THEN a.size + 1 ELSE a.size
          /\ u.entries = [a.entries EXCEPT ![f] = Entry(k, v)]
          /\ DOMAIN u.entries = 0 .. a.capacity - 1
          /\ u.entries[f] = Entry(k, v)
          /\ \A i \in 0 .. a.capacity - 1 : i # f => u.entries[i] = a.entries[i]
          /\ Shape(u, K, V)
      BY <1>3, <2>7, <2>9, PutEntries
    <3>2. u.entries[f].key # NoKey
      BY <1>2, <3>1 DEF Entry
    <3> QED BY <1>3, <3>1, <3>2
  <2>16. u.size <= n + 1
    <3>1. u.size \in Nat /\ a.size \in Nat
      BY <1>3, <2>10, ShapeFacts
    <3> QED BY <1>3, <2>10, <3>1
  <2> QED BY <1>1, <1>3, <2>8, <2>9, <2>10, <2>14, <2>15, <2>16 DEF Rehashed
<1> QED BY <1>5, <1>6

LEMMA AllRehashed ==
    ASSUME NEW K, NEW V, NEW t, Shape(t, K, V), Unique(t), NullValue \in V,
           NEW c \in Nat, c > t.capacity
    PROVE  Rehashed(t, K, V, c, t.capacity, AdjustCapacity(t, c))
<1>1. t.capacity \in Nat
  BY ShapeFacts
<1>2. PICK tables : /\ Moves(tables, t, c, t.capacity)
                    /\ AdjustCapacity(t, c) = tables[t.capacity]
  BY <1>1, AdjustCapacityMoves
<1>3. /\ tables[0] = Fresh(c)
      /\ \A m \in 1 .. t.capacity : tables[m] = Reinserted(tables[m - 1], t.entries[m - 1])
  BY <1>1, <1>2 DEF Moves
<1> DEFINE S == { m \in 0 .. t.capacity : ~Rehashed(t, K, V, c, m, tables[m]) }
<1>4. ASSUME S # {} PROVE FALSE
  <2>1. PICK m \in S : \A k \in S : m <= k
    <3>1. S \subseteq Nat
      OBVIOUS
    <3> HIDE DEF S
    <3> QED BY <1>4, <3>1, LeastMember
  <2>2. m # 0
    BY <1>3, FreshRehashed
  <2>3. Rehashed(t, K, V, c, m - 1, tables[m - 1])
    BY <1>1, <2>1, <2>2
  <2>4. m - 1 \in 0 .. t.capacity - 1
    BY <1>1, <2>1, <2>2
  <2>5. Rehashed(t, K, V, c, (m - 1) + 1, Reinserted(tables[m - 1], t.entries[m - 1]))
    BY <2>3, <2>4, ReinsertedRehashed
  <2>6. (m - 1) + 1 = m /\ m \in 1 .. t.capacity
    BY <1>1, <2>1, <2>2
  <2> QED BY <1>3, <2>1, <2>5, <2>6
<1> QED BY <1>1, <1>2, <1>4

\* Growing keeps the table, the map it stands for, and makes room for a key.
LEMMA GrownOK ==
    ASSUME NEW K, NEW V, NEW t, TableOK(t, K, V), NullValue \in V
    PROVE  /\ TableOK(Grown(t), K, V)
           /\ Contents(Grown(t)) = Contents(t)
           /\ 4 * (Grown(t).size + 1) <= 3 * Grown(t).capacity
           /\ \E i \in 0 .. Grown(t).capacity - 1 : Grown(t).entries[i] = Free
<1>1. /\ Shape(t, K, V) /\ Unique(t) /\ Reachable(t) /\ SizeIsUsed(t)
      /\ 4 * t.size <= 3 * t.capacity
      /\ t.capacity = 0 \/ (PowerOfTwo(t.capacity) /\ t.capacity >= MinCapacity)
  BY DEF TableOK, Roomy, CapacityOK
<1>2. t.capacity \in Nat /\ t.size \in Nat
  BY <1>1, ShapeFacts
<1>3. PICK g : g = Grown(t)
  OBVIOUS
<1>4. MinCapacity \in Nat /\ MinCapacity > 1 /\ PowerOfTwo(MinCapacity)
  BY TableAssumption DEF PowerOfTwo
<1>5. /\ TableOK(g, K, V) /\ Contents(g) = Contents(t)
      /\ 4 * (g.size + 1) <= 3 * g.capacity
  <2>1. CASE ~MustGrow(t)
    <3>1. g = t
      BY <1>3, <2>1 DEF Grown
    <3> QED BY <1>2, <2>1, <3>1 DEF MustGrow
  <2>2. CASE MustGrow(t)
    <3>1. PICK c : c = GrowCapacity(t.capacity)
      OBVIOUS
    <3>2. c \in Nat /\ c > t.capacity /\ PowerOfTwo(c) /\ c >= MinCapacity
          /\ 4 * (t.capacity + 1) <= 3 * c
      <4>1. CASE t.capacity = 0
        <5>1. c = MinCapacity
          BY <1>4, <3>1, <4>1 DEF GrowCapacity
        <5> QED BY <1>4, <4>1, <5>1
      <4>2. CASE t.capacity >= MinCapacity /\ PowerOfTwo(t.capacity)
        <5>1. c = 2 * t.capacity
          BY <1>2, <1>4, <3>1, <4>2 DEF GrowCapacity
        <5>2. PowerOfTwo(c)
          BY <4>2, <5>1, PowerDoubled
        <5> QED BY <1>2, <1>4, <4>2, <5>1, <5>2
      <4> QED BY <1>1, <4>1, <4>2
    <3>3. g = AdjustCapacity(t, c)
      BY <1>3, <2>2, <3>1 DEF Grown
    <3>4. Rehashed(t, K, V, c, t.capacity, g)
      BY <1>1, <3>2, <3>3, AllRehashed
    <3>5. /\ Shape(g, K, V) /\ Unique(g) /\ Reachable(g) /\ SizeIsUsed(g)
          /\ g.capacity = c /\ g.size <= t.capacity
          /\ \A k \in K, v \in V : Holds(g, k, v)
                                   <=> \E j \in 0 .. t.capacity - 1 : t.entries[j] = Entry(k, v)
      BY <3>4 DEF Rehashed
    <3>6. g.size \in Nat
      BY <3>5, ShapeFacts
    <3>7. \A k \in K, v \in V : Holds(g, k, v) <=> Holds(t, k, v)
      BY <3>5 DEF Holds
    <3>8. Contents(g) = Contents(t)
      BY <1>1, <3>5, <3>7, SameContents
    <3>9. 4 * (g.size + 1) <= 3 * g.capacity
      BY <1>2, <3>2, <3>5, <3>6
    <3>10. Roomy(g)
      BY <3>2, <3>5, <3>6, <3>9 DEF Roomy
    <3> QED BY <3>2, <3>5, <3>8, <3>9, <3>10 DEF TableOK, CapacityOK
  <2> QED BY <2>1, <2>2
<1>6. g.size < g.capacity
  <2>1. g.size \in Nat /\ g.capacity \in Nat
    BY <1>5, ShapeFacts DEF TableOK
  <2> QED BY <1>5, <2>1
<1>7. \E i \in 0 .. g.capacity - 1 : g.entries[i] = Free
  BY <1>5, <1>6, HasRoom DEF TableOK
<1> QED BY <1>3, <1>5, <1>7

------------------------------------------------------------------------------
(***************************************************************************)
(* The functions of table.h                                                *)
(***************************************************************************)
\* ch_table_set
LEMMA SetOK ==
    ASSUME NEW K, NEW V, NEW t, TableOK(t, K, V), NullValue \in V, NEW k \in K, NEW v \in V
    PROVE  /\ TableOK(TableSet(t, k, v), K, V)
           /\ Contents(TableSet(t, k, v)) = With(Contents(t), k, v)
           /\ IsNew(t, k) <=> k \notin DOMAIN Contents(t)
<1>1. PICK g, f, u : g = Grown(t) /\ f = FindEntry(g, k) /\ u = Put(g, f, k, v)
  OBVIOUS
<1>2. /\ TableOK(g, K, V) /\ Contents(g) = Contents(t)
      /\ 4 * (g.size + 1) <= 3 * g.capacity
      /\ \E i \in 0 .. g.capacity - 1 : g.entries[i] = Free
  BY <1>1, GrownOK
<1>3. /\ Shape(g, K, V) /\ Unique(g) /\ Reachable(g) /\ SizeIsUsed(g) /\ CapacityOK(g)
  BY <1>2 DEF TableOK
<1>4. Fits(g, k, f)
  BY <1>1, <1>2, <1>3, FoundFits
<1>5. /\ Shape(u, K, V) /\ Unique(u) /\ Reachable(u) /\ SizeIsUsed(u)
      /\ u.capacity = g.capacity /\ u.size <= g.size + 1
  BY <1>1, <1>3, <1>4, PutOK
<1>6. Roomy(u)
  <2>1. u.size \in Nat /\ g.size \in Nat /\ g.capacity \in Nat
    BY <1>3, <1>5, ShapeFacts
  <2> QED BY <1>2, <1>5, <2>1 DEF Roomy
<1>7. CapacityOK(u)
  BY <1>3, <1>5 DEF CapacityOK
<1>8. Contents(u) = With(Contents(g), k, v)
  BY <1>1, <1>3, <1>4, PutContents
<1>9. IsNew(t, k) <=> k \notin DOMAIN Contents(t)
  <2>1. IsNew(t, k) <=> g.entries[f].key = NoKey
    BY <1>1 DEF IsNew
  <2>2. k \in DOMAIN Contents(g) <=> ~Absent(g, k)
    BY <1>3, ContentsFacts
  <2>3. k # NoKey
    BY <1>3, ShapeFacts
  <2>4. CASE g.entries[f].key = k
    BY <1>2, <1>4, <2>1, <2>2, <2>3, <2>4 DEF Fits, Absent
  <2>5. CASE Absent(g, k) /\ Placeable(g, k, f)
    <3>1. g.entries[f].key = NoKey
      BY <2>5 DEF Placeable, Free, Tombstone, Entry
    <3> QED BY <1>2, <2>1, <2>2, <2>5, <3>1
  <2> QED BY <1>4, <2>4, <2>5 DEF Fits
<1>10. u = TableSet(t, k, v)
  BY <1>1 DEF TableSet
<1> QED BY <1>2, <1>5, <1>6, <1>7, <1>8, <1>9, <1>10 DEF TableOK

\* A table that is used has an entry at which every search ends.
LEMMA SearchEnds ==
    ASSUME NEW K, NEW V, NEW t, TableOK(t, K, V), t.capacity # 0
    PROVE  \E i \in 0 .. t.capacity - 1 : t.entries[i] = Free
<1>1. Shape(t, K, V) /\ SizeIsUsed(t) /\ 4 * t.size <= 3 * t.capacity
  BY DEF TableOK, Roomy
<1>2. t.size \in Nat /\ t.capacity \in Nat
  BY <1>1, ShapeFacts
<1> QED BY <1>1, <1>2, HasRoom

LEMMA HasIsBoolean ==
    ASSUME NEW t, NEW k
    PROVE  Has(t, k) \in BOOLEAN
<1>1. PICK p, q : p = (t.size # 0) /\ q = (t.entries[FindEntry(t, k)].key # NoKey)
  OBVIOUS
<1>2. p \in BOOLEAN /\ q \in BOOLEAN /\ Has(t, k) = (p /\ q)
  BY <1>1, Zenon DEF Has
<1> QED BY <1>2

\* Whether a lookup finds the key, and where.
LEMMA HasOK ==
    ASSUME NEW K, NEW V, NEW t, TableOK(t, K, V), NEW k \in K
    PROVE  /\ Has(t, k) <=> k \in DOMAIN Contents(t)
           /\ Has(t, k) => /\ FindEntry(t, k) \in 0 .. t.capacity - 1
                           /\ t.entries[FindEntry(t, k)].key = k
<1>1. /\ Shape(t, K, V) /\ Unique(t) /\ Reachable(t) /\ SizeIsUsed(t)
      /\ 4 * t.size <= 3 * t.capacity
  BY DEF TableOK, Roomy
<1>2. /\ t.size \in Nat /\ t.capacity \in Nat /\ k # NoKey
      /\ DOMAIN t.entries = 0 .. t.capacity - 1
  BY <1>1, ShapeFacts
<1>3. k \in DOMAIN Contents(t) <=> ~Absent(t, k)
  BY <1>1, ContentsFacts
<1>4. CASE Absent(t, k)
  <2>1. SUFFICES ASSUME t.size # 0 PROVE t.entries[FindEntry(t, k)].key = NoKey
    BY <1>3, <1>4 DEF Has
  <2>2. t.capacity # 0
    BY <1>1, <1>2, <2>1
  <2>3. \E i \in 0 .. t.capacity - 1 : t.entries[i] = Free
    BY <2>2, SearchEnds
  <2>4. Placeable(t, k, FindEntry(t, k))
    BY <1>1, <1>4, <2>3, FindAbsent
  <2> QED BY <2>4 DEF Placeable, Free, Tombstone, Entry
<1>5. CASE ~Absent(t, k)
  <2>1. PICK i \in 0 .. t.capacity - 1 : t.entries[i].key = k
    BY <1>5 DEF Absent
  <2>2. FindEntry(t, k) = i
    BY <1>1, <1>2, <2>1, FindPresent
  <2>3. t.size # 0
    <3>1. i \in Used(t.entries)
      BY <1>2, <2>1 DEF Used, Free, Entry
    <3>2. IsFiniteSet(Used(t.entries))
      BY <1>1, UsedIsFinite
    <3> QED BY <1>1, <3>1, <3>2, FS_EmptySet DEF SizeIsUsed
  <2> QED BY <1>2, <1>3, <1>5, <2>1, <2>2, <2>3 DEF Has
<1> QED BY <1>4, <1>5

\* ch_table_get
LEMMA GetOK ==
    ASSUME NEW K, NEW V, NEW t, TableOK(t, K, V), NEW k \in K, Has(t, k)
    PROVE  TableGet(t, k) = Contents(t)[k]
<1>1. Shape(t, K, V) /\ Unique(t)
  BY DEF TableOK
<1>2. PICK i \in 0 .. t.capacity - 1 : i = FindEntry(t, k) /\ t.entries[i].key = k
  BY HasOK
<1>3. t.entries[i] = Entry(k, t.entries[i].value) /\ t.entries[i].value \in V
  BY <1>1, <1>2, ShapeFacts
<1>4. Holds(t, k, t.entries[i].value)
  BY <1>3 DEF Holds
<1>5. Contents(t)[k] = t.entries[i].value
  BY <1>1, <1>3, <1>4, ContentsFacts
<1> QED BY <1>2, <1>5 DEF TableGet

\* An assignment through the pointer that ch_table_get returned
LEMMA AssignOK ==
    ASSUME NEW K, NEW V, NEW t, TableOK(t, K, V), NEW k \in K, NEW v \in V, Has(t, k)
    PROVE  /\ TableOK(TableAssign(t, k, v), K, V)
           /\ Contents(TableAssign(t, k, v)) = With(Contents(t), k, v)
<1>1. /\ Shape(t, K, V) /\ Unique(t) /\ Reachable(t) /\ SizeIsUsed(t) /\ Roomy(t) /\ CapacityOK(t)
  BY DEF TableOK
<1>2. PICK f \in 0 .. t.capacity - 1 : f = FindEntry(t, k) /\ t.entries[f].key = k
  BY HasOK
<1>3. Fits(t, k, f)
  BY <1>2 DEF Fits
<1>4. /\ t = [capacity |-> t.capacity, size |-> t.size, entries |-> t.entries]
      /\ t.entries \in [0 .. t.capacity - 1 -> [key : K \cup {NoKey}, value : V]]
      /\ t.entries[f] = Entry(k, t.entries[f].value) /\ k # NoKey
  BY <1>1, <1>2, ShapeFacts
<1>5. PICK c, s, e, d, w : /\ c = t.capacity /\ s = t.size /\ e = t.entries
                           /\ d = e[f] /\ w = d.value
  OBVIOUS
<1>6. PICK a, u : a = TableAssign(t, k, v) /\ u = Put(t, f, k, v)
  OBVIOUS
<1>7. u = [capacity |-> c, size |-> s, entries |-> [e EXCEPT ![f] = Entry(k, v)]]
  <2>1. t.entries[f] # Free
    BY <1>2, <1>4 DEF Free, Entry
  <2> QED BY <1>4, <1>5, <1>6, <2>1 DEF Put
<1>8. a = [capacity |-> c, size |-> s, entries |-> [e EXCEPT ![f] = [d EXCEPT !.value = v]]]
  BY <1>2, <1>4, <1>5, <1>6 DEF TableAssign
<1>9. [d EXCEPT !.value = v] = Entry(k, v)
  <2>1. d = [key |-> k, value |-> w]
    BY <1>4, <1>5 DEF Entry
  <2>2. PICK b : b = [d EXCEPT !.value = v]
    OBVIOUS
  <2>3. b = [key |-> k, value |-> v]
    BY <2>1, <2>2
  <2> QED BY <2>2, <2>3 DEF Entry
<1>10. a = u
  BY <1>7, <1>8, <1>9, Zenon
<1>11. /\ Shape(u, K, V) /\ Unique(u) /\ Reachable(u) /\ SizeIsUsed(u)
       /\ u.capacity = t.capacity /\ u.size <= t.size + 1
  BY <1>1, <1>3, <1>6, PutOK
<1>12. u.size = t.size
  BY <1>5, <1>7
<1>13. Roomy(u) /\ CapacityOK(u)
  BY <1>1, <1>11, <1>12 DEF Roomy, CapacityOK
<1>14. Contents(u) = With(Contents(t), k, v)
  BY <1>1, <1>3, <1>6, PutContents
<1> QED BY <1>6, <1>10, <1>11, <1>13, <1>14 DEF TableOK

\* Removing the key of an entry: the tombstone still counts as used.
LEMMA BuriedOK ==
    ASSUME NEW K, NEW V, NEW t, TableOK(t, K, V), TrueValue \in V,
           NEW f \in 0 .. t.capacity - 1, t.entries[f].key # NoKey,
           NEW u, u = [t EXCEPT !.entries[f] = Tombstone]
    PROVE  /\ TableOK(u, K, V)
           /\ Contents(u) = Without(Contents(t), t.entries[f].key)
<1>1. /\ Shape(t, K, V) /\ Unique(t) /\ Reachable(t) /\ SizeIsUsed(t) /\ Roomy(t) /\ CapacityOK(t)
  BY DEF TableOK
<1>2. /\ t = [capacity |-> t.capacity, size |-> t.size, entries |-> t.entries]
      /\ t.entries \in [0 .. t.capacity - 1 -> [key : K \cup {NoKey}, value : V]]
      /\ DOMAIN t.entries = 0 .. t.capacity - 1
      /\ t.capacity \in Nat /\ t.size \in Nat /\ NoKey \notin K
      /\ t.entries[f].key \in K /\ t.entries[f] = Entry(t.entries[f].key, t.entries[f].value)
  BY <1>1, ShapeFacts
<1>3. PICK c, s, e : c = t.capacity /\ s = t.size /\ e = t.entries
  OBVIOUS
<1>4. u = [capacity |-> c, size |-> s, entries |-> [e EXCEPT ![f] = Tombstone]]
  BY <1>2, <1>3
<1>5. /\ u.capacity = t.capacity /\ u.size = t.size
      /\ DOMAIN u.entries = 0 .. t.capacity - 1
      /\ u.entries[f] = Tombstone
      /\ \A i \in 0 .. t.capacity - 1 : i # f => u.entries[i] = t.entries[i]
  BY <1>2, <1>3, <1>4
<1>6. Tombstone.key = NoKey /\ Tombstone # Free
  BY TableAssumption DEF Tombstone, Free, Entry
<1>7. Shape(u, K, V)
  <2>1. Tombstone \in [key : K \cup {NoKey}, value : V]
    BY DEF Tombstone, Entry
  <2>2. [e EXCEPT ![f] = Tombstone] \in [0 .. c - 1 -> [key : K \cup {NoKey}, value : V]]
    BY <1>2, <1>3, <2>1
  <2>3. u \in [capacity : Nat, size : Nat, entries : Entries(c, K, V)]
    BY <1>2, <1>3, <1>4, <2>2 DEF Entries
  <2> QED BY <1>1, <1>3, <1>5, <2>3 DEF Shape
<1>8. Unique(u)
  BY <1>1, <1>2, <1>5, <1>6 DEF Unique
<1>9. Reachable(u)
  <2>1. ASSUME NEW i \in 0 .. t.capacity - 1, NEW j \in 0 .. t.capacity - 1,
               u.entries[i].key # NoKey,
               Distance(u, u.entries[i].key.hash, j) <= Distance(u, u.entries[i].key.hash, i)
        PROVE  u.entries[j] # Free
    <3>1. i # f /\ u.entries[i] = t.entries[i]
      BY <1>5, <1>6, <2>1
    <3>2. Distance(t, t.entries[i].key.hash, j) <= Distance(t, t.entries[i].key.hash, i)
      BY <1>5, <2>1, <3>1 DEF Distance
    <3>3. t.entries[j] # Free
      BY <1>1, <1>2, <2>1, <3>1, <3>2 DEF Reachable
    <3> QED BY <1>5, <1>6, <3>3
  <2> QED BY <1>5, <2>1 DEF Reachable
<1>10. SizeIsUsed(u)
  <2>1. t.entries[f] # Free
    BY <1>2 DEF Free, Entry
  <2>2. Used(u.entries) = Used(t.entries)
    BY <1>2, <1>5, <1>6, <2>1 DEF Used
  <2> QED BY <1>1, <1>5, <2>2 DEF SizeIsUsed
<1>11. TableOK(u, K, V)
  BY <1>1, <1>5, <1>7, <1>8, <1>9, <1>10 DEF TableOK, Roomy, CapacityOK
<1>12. Contents(u) = Without(Contents(t), t.entries[f].key)
  <2>1. PICK k \in K : k = t.entries[f].key
    BY <1>2
  <2>2. \A x \in K, v \in V : Holds(u, x, v) <=> x # k /\ Holds(t, x, v)
    <3>1. ASSUME NEW x \in K, NEW v \in V, Holds(u, x, v) PROVE x # k /\ Holds(t, x, v)
      <4>1. PICK i \in 0 .. t.capacity - 1 : u.entries[i] = Entry(x, v)
        BY <1>5, <3>1 DEF Holds
      <4>2. i # f
        BY <1>2, <1>5, <1>6, <4>1 DEF Entry
      <4>3. t.entries[i] = Entry(x, v)
        BY <1>5, <4>1, <4>2
      <4>4. t.entries[i].key = x
        BY <4>3 DEF Entry
      <4>5. x # k
        BY <1>1, <1>2, <2>1, <4>2, <4>4 DEF Unique
      <4> QED BY <4>3, <4>5 DEF Holds
    <3>2. ASSUME NEW x \in K, NEW v \in V, x # k, Holds(t, x, v) PROVE Holds(u, x, v)
      <4>1. PICK i \in 0 .. t.capacity - 1 : t.entries[i] = Entry(x, v)
        BY <3>2 DEF Holds
      <4>2. i # f
        BY <2>1, <3>2, <4>1 DEF Entry
      <4> QED BY <1>5, <4>1, <4>2 DEF Holds
    <3> QED BY <3>1, <3>2
  <2>3. PICK m, n : m = Contents(t) /\ n = Contents(u)
    OBVIOUS
  <2>4. /\ DOMAIN m \subseteq K
        /\ \A x \in K, v \in V : Holds(t, x, v) <=> x \in DOMAIN m /\ m[x] = v
        /\ \A x \in DOMAIN m : m[x] \in V
    BY <1>1, <2>3, ContentsFacts
  <2>5. /\ n = [x \in DOMAIN n |-> n[x]]
        /\ DOMAIN n \subseteq K
        /\ \A x \in K, v \in V : Holds(u, x, v) <=> x \in DOMAIN n /\ n[x] = v
        /\ \A x \in DOMAIN n : n[x] \in V
    BY <1>7, <1>8, <2>3, ContentsFacts
  <2>6. \A x \in K, v \in V : (x \in DOMAIN n /\ n[x] = v)
                               <=> (x # k /\ x \in DOMAIN m /\ m[x] = v)
    BY <2>2, <2>4, <2>5
  <2>7. DOMAIN n = DOMAIN m \ {k}
    BY <2>4, <2>5, <2>6
  <2>8. \A x \in DOMAIN n : n[x] = m[x]
    BY <2>4, <2>5, <2>6
  <2>9. n = Without(m, k)
    BY <2>5, <2>7, <2>8 DEF Without
  <2> QED BY <2>1, <2>3, <2>9
<1> QED BY <1>11, <1>12

\* ch_table_delete
LEMMA DeleteOK ==
    ASSUME NEW K, NEW V, NEW t, TableOK(t, K, V), TrueValue \in V, NEW k \in K
    PROVE  /\ TableOK(TableDelete(t, k), K, V)
           /\ Contents(TableDelete(t, k)) = Without(Contents(t), k)
<1>1. Shape(t, K, V) /\ Unique(t)
  BY DEF TableOK
<1>2. k # NoKey
  BY <1>1, ShapeFacts
<1>3. CASE Has(t, k)
  <2>1. PICK f \in 0 .. t.capacity - 1 : f = FindEntry(t, k) /\ t.entries[f].key = k
    BY <1>3, HasOK
  <2>2. PICK u : u = [t EXCEPT !.entries[f] = Tombstone]
    OBVIOUS
  <2>3. TableDelete(t, k) = u
    BY <1>3, <2>1, <2>2 DEF TableDelete
  <2>4. t.entries[f].key # NoKey
    BY <1>2, <2>1
  <2>5. TableOK(u, K, V) /\ Contents(u) = Without(Contents(t), t.entries[f].key)
    BY <2>2, <2>4, BuriedOK
  <2> QED BY <2>1, <2>3, <2>5
<1>4. CASE ~Has(t, k)
  <2>1. TableDelete(t, k) = t
    BY <1>4 DEF TableDelete
  <2>2. PICK m : m = Contents(t)
    OBVIOUS
  <2>3. k \notin DOMAIN m
    BY <1>4, <2>2, HasOK
  <2>4. m = [x \in DOMAIN m |-> m[x]]
    BY <1>1, <2>2, ContentsFacts
  <2>5. DOMAIN m \ {k} = DOMAIN m
    BY <2>3
  <2>6. m = Without(m, k)
    BY <2>4, <2>5 DEF Without
  <2> QED BY <2>1, <2>2, <2>6
<1> QED BY <1>3, <1>4

\* ch_table_find_string: the key of this content and hash, when there is one.
IsString(t, i, content, hash) ==
    /\ t.entries[i].key # NoKey
    /\ t.entries[i].key.content = content
    /\ t.entries[i].key.hash = hash

LEMMA FindStringPresent ==
    ASSUME NEW K, NEW V, NEW t, TableOK(t, K, V), NEW content, NEW hash,
           NEW i \in 0 .. t.capacity - 1, IsString(t, i, content, hash),
           \A j \in 0 .. t.capacity - 1 :
              IsString(t, j, content, hash) => t.entries[j].key = t.entries[i].key
    PROVE  FindString(t, content, hash) = t.entries[i].key
<1> DEFINE stops == StopsAtString(t, content, hash)
           stop == FirstOf(t, hash, stops)
<1>1. Shape(t, K, V) /\ Unique(t) /\ Reachable(t) /\ SizeIsUsed(t)
  BY DEF TableOK
<1>2. t.capacity \in Nat \ {0} /\ DOMAIN t.entries = 0 .. t.capacity - 1 /\ hash \in Int
  BY <1>1, ShapeFacts DEF IsString
<1>3. stops \subseteq 0 .. t.capacity - 1 /\ i \in stops
  BY <1>2 DEF StopsAtString, IsString
<1>4. stop \in stops /\ Distance(t, hash, stop) <= Distance(t, hash, i)
  BY <1>2, <1>3, FirstOfIsNearest
<1>5. t.entries[stop] # Free
  BY <1>1, <1>2, <1>3, <1>4 DEF Reachable, IsString
<1>6. t.entries[stop].key = t.entries[i].key
  BY <1>2, <1>4, <1>5 DEF StopsAtString, IsString
<1>7. t.size # 0
  <2>1. i \in Used(t.entries)
    BY <1>2 DEF Used, Free, Entry, IsString
  <2>2. IsFiniteSet(Used(t.entries))
    BY <1>1, UsedIsFinite
  <2> QED BY <1>1, <2>1, <2>2, FS_EmptySet DEF SizeIsUsed
<1> QED BY <1>6, <1>7 DEF FindString

LEMMA FindStringAbsent ==
    ASSUME NEW K, NEW V, NEW t, TableOK(t, K, V), NEW content, NEW hash \in Int,
           \A j \in 0 .. t.capacity - 1 : ~IsString(t, j, content, hash)
    PROVE  FindString(t, content, hash) = NoKey
<1> DEFINE stops == StopsAtString(t, content, hash)
           stop == FirstOf(t, hash, stops)
<1>1. Shape(t, K, V) /\ 4 * t.size <= 3 * t.capacity
  BY DEF TableOK, Roomy
<1>2. /\ t.capacity \in Nat /\ t.size \in Nat
      /\ DOMAIN t.entries = 0 .. t.capacity - 1
  BY <1>1, ShapeFacts
<1>3. SUFFICES ASSUME t.size # 0 PROVE t.entries[stop].key = NoKey
  BY DEF FindString
<1>4. t.capacity # 0
  BY <1>1, <1>2, <1>3
<1>5. \E i \in 0 .. t.capacity - 1 : t.entries[i] = Free
  BY <1>4, SearchEnds
<1>6. stops \subseteq 0 .. t.capacity - 1 /\ stops # {}
  BY <1>2, <1>5 DEF StopsAtString
<1>7. stop \in stops
  BY <1>2, <1>4, <1>6, FirstOfIsNearest
<1>8. t.entries[stop] = Free
  BY <1>2, <1>7 DEF StopsAtString, IsString
<1> QED BY <1>8 DEF Free, Entry

\* When no other key has its content, the key that is found is that key.
LEMMA FindStringOK ==
    ASSUME NEW K, NEW V, NEW t, TableOK(t, K, V), NEW k \in K,
           \A x \in K : x.content = k.content => x = k
    PROVE  FindString(t, k.content, k.hash) = IF k \in DOMAIN Contents(t) THEN k ELSE NoKey
<1>1. Shape(t, K, V) /\ Unique(t)
  BY DEF TableOK
<1>2. /\ \A i \in 0 .. t.capacity - 1 : t.entries[i].key \in K \cup {NoKey}
      /\ k # NoKey /\ k.hash \in Int
  BY <1>1, ShapeFacts
<1>3. k \in DOMAIN Contents(t) <=> ~Absent(t, k)
  BY <1>1, ContentsFacts
<1>4. \A i \in 0 .. t.capacity - 1 : IsString(t, i, k.content, k.hash) => t.entries[i].key = k
  BY <1>2 DEF IsString
<1>5. CASE Absent(t, k)
  <2>1. \A i \in 0 .. t.capacity - 1 : ~IsString(t, i, k.content, k.hash)
    BY <1>4, <1>5 DEF Absent
  <2>2. FindString(t, k.content, k.hash) = NoKey
    BY <1>2, <2>1, FindStringAbsent
  <2> QED BY <1>3, <1>5, <2>2
<1>6. CASE ~Absent(t, k)
  <2>1. PICK i \in 0 .. t.capacity - 1 : t.entries[i].key = k
    BY <1>6 DEF Absent
  <2>2. IsString(t, i, k.content, k.hash)
    BY <1>2, <2>1 DEF IsString
  <2>3. \A j \in 0 .. t.capacity - 1 :
          IsString(t, j, k.content, k.hash) => t.entries[j].key = t.entries[i].key
    BY <1>4, <2>1
  <2>4. FindString(t, k.content, k.hash) = t.entries[i].key
    BY <2>2, <2>3, FindStringPresent
  <2> QED BY <1>3, <1>6, <2>1, <2>4
<1> QED BY <1>5, <1>6
==============================================================================
