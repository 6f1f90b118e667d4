-------------------------------- MODULE Claims --------------------------------
(***************************************************************************)
(* What comments and declarations of the repository say of the running     *)
(* program, and what the code does not do.  Each of these properties is    *)
(* quoted, and refuted by a run of its own.                                *)
(***************************************************************************)
EXTENDS Pipeline

\* src/vm/vm.c:290, on the operands that binary_op_args took from the stack:
\* "Args are popped in reverse order".  The first operand of a subtraction
\* is the one on the left.
SubtractsRightFromLeft == ReturnsResult
==============================================================================
