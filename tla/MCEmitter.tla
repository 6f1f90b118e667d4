------------------------------- MODULE MCEmitter -------------------------------
(***************************************************************************)
(* Blobs that are full after two literals, so that every block grows, some *)
(* of them past twice its first size, and three literals whose keys        *)
(* collide.                                                                *)
(***************************************************************************)
EXTENDS Emitter

Texts == {<<>>, <<65>>, <<66, 0>>}
Hashes == [c \in Texts |-> 3]
==============================================================================
