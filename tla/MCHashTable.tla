------------------------------ MODULE MCHashTable ------------------------------
(***************************************************************************)
(* Tables of four and eight entries and keys that collide: three with the  *)
(* hash of the last entry of a small table, whose searches go round, and   *)
(* others in their way.                                                    *)
(***************************************************************************)
EXTENDS HashTable

Keys == { [content |-> "a", hash |-> 3], [content |-> "b", hash |-> 3],
          [content |-> "c", hash |-> 7], [content |-> "d", hash |-> 0],
          [content |-> "e", hash |-> 8] }
==============================================================================
