------------------------------ MODULE MCUpvalues ------------------------------
(***************************************************************************)
(* A small instance of Upvalues: a stack of three cells, three values and  *)
(* up to three upvalues, enough to capture out of order, to share, to      *)
(* close one, some or all of the open upvalues and to capture a cell again *)
(* after its first variable is gone.                                       *)
(***************************************************************************)
EXTENDS Upvalues

==============================================================================
