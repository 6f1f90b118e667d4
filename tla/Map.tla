---------------------------------- MODULE Map ----------------------------------
(***************************************************************************)
(* What a ch_table promises (src/vm/table.h): a partial function from keys *)
(* to values.  Each operation answers from the function alone, whatever    *)
(* was set and deleted before.                                             *)
(***************************************************************************)
EXTENDS Integers

CONSTANTS Key, Value,
          Missing,   \* the answer NULL of ch_table_get
          NoKey      \* the answer NULL of ch_table_find_string

VARIABLES map,      \* the keys that are set, with their values
          answer    \* the last operation, its key and what it returned

vars == <<map, answer>>

Init == map = [k \in {} |-> Missing] /\ answer = <<"none">>

\* Set tells whether the key is new.
Set(k, v) ==
    /\ answer' = <<"set", k, k \notin DOMAIN map>>
    /\ map' = [x \in DOMAIN map \union {k} |-> IF x = k THEN v ELSE map[x]]

Get(k) ==
    /\ answer' = <<"get", k, IF k \in DOMAIN map THEN map[k] ELSE Missing>>
    /\ UNCHANGED map

\* Assignment through the pointer that a lookup returned.
Assign(k, v) ==
    /\ k \in DOMAIN map
    /\ map' = [map EXCEPT ![k] = v]
    /\ answer' = <<"assign", k, v>>

\* Delete tells whether the key was there.
Delete(k) ==
    /\ answer' = <<"delete", k, k \in DOMAIN map>>
    /\ map' = [x \in DOMAIN map \ {k} |-> map[x]]

\* The key of this content, if it is set.
FindString(k) ==
    /\ answer' = <<"find", k, IF k \in DOMAIN map THEN k ELSE NoKey>>
    /\ UNCHANGED map

Next ==
    \E k \in Key :
        \/ \E v \in Value : Set(k, v) \/ Assign(k, v)
        \/ Get(k) \/ Delete(k) \/ FindString(k)

Spec == Init /\ [][Next]_vars
==============================================================================
