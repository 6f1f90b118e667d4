------------------------------ MODULE MCInterning ------------------------------
(***************************************************************************)
(* Two letters and the strings of both, made as literals, by              *)
(* concatenation and by substring, and a hash that makes most of them      *)
(* collide: the table of strings grows twice.                              *)
(***************************************************************************)
EXTENDS Interning

Texts == {<<"a">>, <<"b">>, <<"a", "b">>, <<"b", "a">>}
Hashes == [c \in Texts |-> IF c[1] = "a" THEN 3 ELSE 8 - Len(c)]
Names2 == {<<"a">>, <<"a", "b">>}
==============================================================================
