------------------------------- MODULE HashTable -------------------------------
(***************************************************************************)
(* One ch_table and every sequence of calls of src/vm/table.h: setting,    *)
(* looking up, assigning through a looked-up pointer, deleting and looking *)
(* for a string.  The caller never keeps the pointer ch_table_get returns  *)
(* past its next call, which may free the block it points into.            *)
(*                                                                         *)
(* A key stands for its content: the callers intern their strings, so that *)
(* two keys never have the same content (module Interning).                *)
(***************************************************************************)
EXTENDS Table

CONSTANTS Key,          \* the ch_strings: records of content and hash
          Value,        \* what is stored, null included
          MaxCapacity   \* bound: the table grows no further

Missing == "NULL"       \* the null pointer a lookup answers with

ASSUME HashTableAssumption ==
    /\ \A k \in Key : k.hash \in Nat
    /\ \A k, l \in Key : k.content = l.content => k = l
    /\ NoKey \notin Key /\ Missing \notin Value

VARIABLES table,    \* the ch_table
          answer    \* the last call and what it returned

vars == <<table, answer>>

Init == table = EmptyTable /\ answer = <<"none">>

Set(k, v) ==
    /\ Grown(table).capacity <= MaxCapacity
    /\ table' = TableSet(table, k, v)
    /\ answer' = <<"set", k, IsNew(table, k)>>

Get(k) ==
    /\ answer' = <<"get", k, IF Has(table, k) THEN TableGet(table, k) ELSE Missing>>
    /\ UNCHANGED table

Assign(k, v) ==
    /\ Has(table, k)
    /\ table' = TableAssign(table, k, v)
    /\ answer' = <<"assign", k, v>>

Delete(k) ==
    /\ answer' = <<"delete", k, Has(table, k)>>
    /\ table' = TableDelete(table, k)

Find(k) ==
    /\ answer' = <<"find", k, FindString(table, k.content, k.hash)>>
    /\ UNCHANGED table

Next ==
    \E k \in Key :
        \/ \E v \in Value : Set(k, v) \/ Assign(k, v)
        \/ Get(k) \/ Delete(k) \/ Find(k)

Spec == Init /\ [][Next]_vars

------------------------------------------------------------------------------
\* Every search ends.  Masking with capacity - 1 leads a search to every entry
\* only if the capacity is a power of two; and one entry must never have been
\* used, although the tombstones of deleted keys are only cleared when the
\* table grows.
SearchesEnd ==
    /\ table.capacity = 0 \/ PowerOfTwo(table.capacity)
    /\ HasFree(table)

\* The size that ch_table_set compares with the load is the number of used
\* entries, whatever the order of sets and deletes.
SizeCountsUsed == SizeIsUsed(table)

Abstract == INSTANCE Map WITH map <- Contents(table)

\* The table answers every call as that map, through growth, collisions and
\* tombstones.
ImplementsMap == Abstract!Spec
==============================================================================
