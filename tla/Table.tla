--------------------------------- MODULE Table ---------------------------------
(***************************************************************************)
(* ch_table of src/vm/table.c: a hash table with open addressing, linear   *)
(* probing and tombstones.                                                 *)
(*                                                                         *)
(* A key is a pointer to a ch_string, whose hash was computed when it was  *)
(* made; here it is a record with the fields content and hash, and two     *)
(* keys are the same pointer when they are the same record.  An entry with *)
(* no key is free when its value is null and a tombstone otherwise; an     *)
(* entry with a key may hold any value, null included.                     *)
(*                                                                         *)
(* The probing loops run until they find what they stop at.  An index of   *)
(* Never says that there is nothing to stop at: the loop does not end.     *)
(***************************************************************************)
EXTENDS Integers, FiniteSets

CONSTANTS MinCapacity,     \* what GROW_CAPACITY starts with (8)
          NoKey,           \* the key NULL
          NullValue,       \* MAKE_NULL()
          TrueValue        \* MAKE_BOOLEAN(true), the value of a tombstone

\* No odd number but 1 divides it.
PowerOfTwo(c) ==
    c \in Nat \ {0} /\ \A d, q \in 1 .. c : c = d * q => d = 1 \/ d % 2 = 0

\* "& (capacity - 1)" is "% capacity" for a power of two.
ASSUME TableAssumption ==
    /\ PowerOfTwo(MinCapacity) /\ MinCapacity > 1
    /\ NullValue # TrueValue

Never == -1

Entry(key, value) == [key |-> key, value |-> value]
Free == Entry(NoKey, NullValue)
Tombstone == Entry(NoKey, TrueValue)

\* The entries that count against the load of the table.
Used(entries) == { i \in DOMAIN entries : entries[i] # Free }

EmptyTable == [capacity |-> 0, size |-> 0, entries |-> [i \in {} |-> Free]]

Fresh(capacity) ==
    [capacity |-> capacity, size |-> 0, entries |-> [i \in 0 .. capacity - 1 |-> Free]]

\* The entries that make a search stop: a free one, and the key it is for.
StopsFor(table, key) ==
    { i \in DOMAIN table.entries : table.entries[i] = Free \/ table.entries[i].key = key }
Tombstones(table) == { i \in DOMAIN table.entries : table.entries[i] = Tombstone }

\* The number of entries a search for the hash steps over before entry i.
Distance(table, hash, i) == (i - hash) % table.capacity

\* Where a search that stops at any of these entries stops.
FirstOf(table, hash, stops) ==
    IF stops = {} THEN Never
    ELSE CHOOSE i \in stops : \A j \in stops : Distance(table, hash, i) <= Distance(table, hash, j)

\* find_entry: the entry of the key, or else the one to put it in, the first
\* tombstone on the way if there is one.
FindEntry(table, key) ==
    LET stop == FirstOf(table, key.hash, StopsFor(table, key))
        passed == { i \in Tombstones(table) :
                      Distance(table, key.hash, i) < Distance(table, key.hash, stop) }
    IN  IF stop = Never \/ table.entries[stop] # Free \/ passed = {}
          THEN stop ELSE FirstOf(table, key.hash, passed)

\* What adjust_capacity does with an entry of the old block: its key moves,
\* a tombstone is left behind.
Reinserted(table, e) ==
    IF e.key = NoKey THEN table
    ELSE [table EXCEPT !.entries[FindEntry(table, e.key)] = e, !.size = @ + 1]

\* adjust_capacity: the entries of the old block are moved one after another.
AdjustCapacity(table, capacity) ==
    LET after[n \in 0 .. table.capacity] ==
            IF n = 0 THEN Fresh(capacity) ELSE Reinserted(after[n - 1], table.entries[n - 1])
    IN  after[table.capacity]

\* GROW_CAPACITY
GrowCapacity(capacity) == IF capacity < MinCapacity THEN MinCapacity ELSE 2 * capacity

\* Variant: the table grows when it is full.
MustGrowWhenFull(table) == table.size + 1 > table.capacity

\* size + 1 > capacity * TABLE_MAX_LOAD, which is 0.75.
MustGrow(table) == 4 * (table.size + 1) > 3 * table.capacity

\* The table in which ch_table_set looks for its entry.
Grown(table) ==
    IF MustGrow(table) THEN AdjustCapacity(table, GrowCapacity(table.capacity)) ELSE table

\* Variant: every new key counts, also one that takes a tombstone's place.
PutCountingEvery(table, i, key, value) ==
    [table EXCEPT !.entries[i] = Entry(key, value),
                  !.size = IF table.entries[i].key = NoKey THEN @ + 1 ELSE @]

Put(table, i, key, value) ==
    [table EXCEPT !.entries[i] = Entry(key, value),
                  !.size = IF table.entries[i] = Free THEN @ + 1 ELSE @]

\* ch_table_set: the table it leaves, and whether the key is new.
TableSet(table, key, value) == Put(Grown(table), FindEntry(Grown(table), key), key, value)
IsNew(table, key) == Grown(table).entries[FindEntry(Grown(table), key)].key = NoKey

Has(table, key) ==
    table.size # 0 /\ table.entries[FindEntry(table, key)].key # NoKey

\* ch_table_get returns a pointer to the value of this entry.
TableGet(table, key) == table.entries[FindEntry(table, key)].value

\* *ch_table_get(table, key) = value.
TableAssign(table, key, value) ==
    [table EXCEPT !.entries[FindEntry(table, key)].value = value]

\* Variant: a deleted entry is free again.
TableDeleteFreeing(table, key) ==
    IF Has(table, key) THEN [table EXCEPT !.entries[FindEntry(table, key)] = Free] ELSE table

\* ch_table_delete leaves a tombstone, which still counts.
TableDelete(table, key) ==
    IF Has(table, key)
      THEN [table EXCEPT !.entries[FindEntry(table, key)] = Tombstone] ELSE table

\* ch_table_find_string, for a content with this hash.  The code runs memcmp
\* before it compares sizes, and so reads behind the end of a shorter key;
\* what it returns does not depend on that, and memory is not modelled here.
StopsAtString(table, content, hash) ==
    { i \in DOMAIN table.entries :
        \/ table.entries[i] = Free
        \/ /\ table.entries[i].key # NoKey
           /\ table.entries[i].key.content = content
           /\ table.entries[i].key.hash = hash }

FindString(table, content, hash) ==
    IF table.size = 0 THEN NoKey
    ELSE table.entries[FirstOf(table, hash, StopsAtString(table, content, hash))].key

\* The map from keys to values that a table stands for.
Contents(table) ==
    [k \in { table.entries[i].key : i \in DOMAIN table.entries } \ {NoKey} |->
        table.entries[CHOOSE i \in DOMAIN table.entries : table.entries[i].key = k].value]

(***************************************************************************)
(* What must hold of a table for the searches above to end and to find     *)
(* what was set.                                                           *)
(***************************************************************************)
\* The size counts the used entries, tombstones included.
SizeIsUsed(table) ==
    Cardinality(Used(table.entries)) = table.size

\* There is an entry at which an unsuccessful search ends.
HasFree(table) == table.capacity > 0 => \E i \in DOMAIN table.entries : table.entries[i] = Free
==============================================================================
