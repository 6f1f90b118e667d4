---------------------------- MODULE HashTableProofs ----------------------------
(***************************************************************************)
(* A ch_table, whatever its callers do: its searches end, its size is      *)
(* right, and it answers as a map.  The theorems hold for any keys with    *)
(* any hashes and without a limit on the capacity: MaxCapacity may be any  *)
(* number.  TableProofs has what each function keeps.                      *)
(***************************************************************************)
EXTENDS HashTable, TableProofs

Values == Value \cup {NullValue, TrueValue}

\* The inductive invariant: SearchesEnd and SizeCountsUsed do not follow from
\* themselves, since growing moves the keys to where a search finds a place.
Inv == TableOK(table, Key, Values)

LEMMA InitInv == Init => Inv
BY EmptyTableOK, HashTableAssumption DEF Init, Inv

LEMMA NextInv ==
    ASSUME Inv, [Next]_vars
    PROVE  Inv'
<1> NullValue \in Values /\ TrueValue \in Values /\ Value \subseteq Values
  BY DEF Values
<1>1. TableOK(table, Key, Values)
  BY DEF Inv
<1>2. ASSUME NEW k \in Key, NEW v \in Value, Set(k, v) PROVE Inv'
  <2>1. table' = TableSet(table, k, v)
    BY <1>2 DEF Set
  <2> QED BY <1>1, <2>1, SetOK DEF Inv
<1>3. ASSUME NEW k \in Key, NEW v \in Value, Assign(k, v) PROVE Inv'
  <2>1. Has(table, k) /\ table' = TableAssign(table, k, v)
    BY <1>3 DEF Assign
  <2> QED BY <1>1, <2>1, AssignOK DEF Inv
<1>4. ASSUME NEW k \in Key, Delete(k) PROVE Inv'
  <2>1. table' = TableDelete(table, k)
    BY <1>4 DEF Delete
  <2> QED BY <1>1, <2>1, DeleteOK DEF Inv
<1>5. ASSUME NEW k \in Key, Get(k) \/ Find(k) PROVE Inv'
  BY <1>1, <1>5 DEF Get, Find, Inv
<1>6. CASE UNCHANGED vars
  BY <1>1, <1>6 DEF vars, Inv
<1> QED BY <1>2, <1>3, <1>4, <1>5, <1>6 DEF Next

LEMMA SpecInv == Spec => []Inv
BY InitInv, NextInv, PTL DEF Spec

\* find_entry and ch_table_find_string return: the capacity is a power of two,
\* so that the masked index visits every entry, and one entry is free.
THEOREM TableSearchesEnd == Spec => []SearchesEnd
<1>1. ASSUME Inv PROVE SearchesEnd
  <2>1. TableOK(table, Key, Values)
    BY <1>1 DEF Inv
  <2>2. DOMAIN table.entries = 0 .. table.capacity - 1
    BY <2>1, ShapeFacts DEF TableOK
  <2>3. table.capacity > 0 => \E i \in DOMAIN table.entries : table.entries[i] = Free
    BY <2>1, <2>2, SearchEnds
  <2> QED BY <2>1, <2>3 DEF SearchesEnd, HasFree, TableOK, CapacityOK
<1> QED BY <1>1, SpecInv, PTL

\* The size that ch_table_set compares with the load never drifts from the
\* number of used entries.
THEOREM TableSizeCounts == Spec => []SizeCountsUsed
<1>1. ASSUME Inv PROVE SizeCountsUsed
  BY <1>1 DEF Inv, TableOK, SizeCountsUsed
<1> QED BY <1>1, SpecInv, PTL

------------------------------------------------------------------------------
LEMMA InitIsMap ==
    ASSUME Init PROVE Abstract!Init
<1>1. PICK m : m = Contents(table)
  OBVIOUS
<1>2. DOMAIN table.entries = {}
  BY DEF Init, EmptyTable
<1>3. m = [k \in DOMAIN m |-> m[k]] /\ DOMAIN m = {}
  BY <1>1, <1>2 DEF Contents
<1>4. m = [k \in {} |-> Missing]
  BY <1>3
<1> QED BY <1>1, <1>4 DEF Init, Abstract!Init

LEMMA StepIsMapStep ==
    ASSUME Inv, [Next]_vars
    PROVE  [Abstract!Next]_(Abstract!vars)
<1> NullValue \in Values /\ TrueValue \in Values /\ Value \subseteq Values
  BY DEF Values
<1>1. TableOK(table, Key, Values)
  BY DEF Inv
<1>2. ASSUME NEW k \in Key, NEW v \in Value, Set(k, v) PROVE Abstract!Set(k, v)
  <2>1. table' = TableSet(table, k, v) /\ answer' = <<"set", k, IsNew(table, k)>>
    BY <1>2 DEF Set
  <2>2. Contents(table') = With(Contents(table), k, v)
    BY <1>1, <2>1, SetOK
  <2>3. IsNew(table, k) = (k \notin DOMAIN Contents(table))
    <3>1. IsNew(table, k) <=> k \notin DOMAIN Contents(table)
      BY <1>1, SetOK
    <3> QED BY <3>1, Zenon DEF IsNew
  <2> QED BY <2>1, <2>2, <2>3 DEF Abstract!Set, With
<1>3. ASSUME NEW k \in Key, NEW v \in Value, Assign(k, v) PROVE Abstract!Assign(k, v)
  <2>1. Has(table, k) /\ table' = TableAssign(table, k, v) /\ answer' = <<"assign", k, v>>
    BY <1>3 DEF Assign
  <2>2. PICK m, n : m = Contents(table) /\ n = Contents(table')
    OBVIOUS
  <2>3. n = With(m, k, v)
    BY <1>1, <2>1, <2>2, AssignOK
  <2>4. k \in DOMAIN m
    BY <1>1, <2>1, <2>2, HasOK
  <2>5. m = [x \in DOMAIN m |-> m[x]]
    BY <1>1, <2>2, ContentsFacts DEF TableOK
  <2>6. n = [m EXCEPT ![k] = v]
    <3>1. DOMAIN m \union {k} = DOMAIN m
      BY <2>4
    <3>2. n = [x \in DOMAIN m |-> IF x = k THEN v ELSE m[x]]
      BY <2>3, <3>1 DEF With
    <3> QED BY <2>4, <2>5, <3>2
  <2> QED BY <2>1, <2>2, <2>4, <2>6 DEF Abstract!Assign
<1>4. ASSUME NEW k \in Key, Get(k) PROVE Abstract!Get(k)
  <2>1. /\ answer' = <<"get", k, IF Has(table, k) THEN TableGet(table, k) ELSE Missing>>
        /\ table' = table
    BY <1>4 DEF Get
  <2>2. Has(table, k) <=> k \in DOMAIN Contents(table)
    BY <1>1, HasOK
  <2>3. Has(table, k) => TableGet(table, k) = Contents(table)[k]
    BY <1>1, GetOK
  <2> QED BY <2>1, <2>2, <2>3 DEF Abstract!Get
<1>5. ASSUME NEW k \in Key, Delete(k) PROVE Abstract!Delete(k)
  <2>1. table' = TableDelete(table, k) /\ answer' = <<"delete", k, Has(table, k)>>
    BY <1>5 DEF Delete
  <2>2. Contents(table') = Without(Contents(table), k)
    BY <1>1, <2>1, DeleteOK
  <2>3. Has(table, k) = (k \in DOMAIN Contents(table))
    <3>1. Has(table, k) <=> k \in DOMAIN Contents(table)
      BY <1>1, HasOK
    <3> QED BY <3>1, HasIsBoolean
  <2> QED BY <2>1, <2>2, <2>3 DEF Abstract!Delete, Without
<1>6. ASSUME NEW k \in Key, Find(k) PROVE Abstract!FindString(k)
  <2>1. answer' = <<"find", k, FindString(table, k.content, k.hash)>> /\ table' = table
    BY <1>6 DEF Find
  <2>2. FindString(table, k.content, k.hash)
          = IF k \in DOMAIN Contents(table) THEN k ELSE NoKey
    BY <1>1, HashTableAssumption, FindStringOK
  <2> QED BY <2>1, <2>2 DEF Abstract!FindString
<1>7. CASE UNCHANGED vars
  <2>1. table' = table /\ answer' = answer
    BY <1>7 DEF vars
  <2> QED BY <2>1 DEF Abstract!vars
<1>8. CASE Next
  BY <1>2, <1>3, <1>4, <1>5, <1>6, <1>8 DEF Next, Abstract!Next
<1> QED BY <1>7, <1>8

\* Every call answers as it would from the map, after any sets, deletions and
\* growths: a table of C with tombstones refines a partial function.
THEOREM SpecImplementsMap == Spec => ImplementsMap
BY InitIsMap, StepIsMapStep, SpecInv, PTL DEF Spec, ImplementsMap, Abstract!Spec
==============================================================================
