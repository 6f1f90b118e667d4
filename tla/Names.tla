--------------------------------- MODULE Names ---------------------------------
(***************************************************************************)
(* What a program and its host see of the globals: a value for each name,  *)
(* whichever string object the name arrives in.  Module VM takes this for  *)
(* granted; Interning shows that the tables of strings and globals and the *)
(* strings' interning implement it.                                        *)
(***************************************************************************)
CONSTANTS Name, Value, Missing

VARIABLES globals,   \* the names that are defined, with their values
          outcome    \* the last operation, its name and what came of it

vars == <<globals, outcome>>

Init == globals = [n \in {} |-> Missing] /\ outcome = <<"none">>

With(n, v) == [x \in DOMAIN globals \union {n} |-> IF x = n THEN v ELSE globals[x]]

\* A definition in the program: an error if the name is defined.
Define(n, v) ==
    /\ outcome' = <<"define", n, n \notin DOMAIN globals>>
    /\ globals' = IF n \in DOMAIN globals THEN globals ELSE With(n, v)

\* An assignment in the program: an error if the name is not defined.
Assign(n, v) ==
    /\ outcome' = <<"assign", n, n \in DOMAIN globals>>
    /\ globals' = IF n \in DOMAIN globals THEN With(n, v) ELSE globals

\* A native the host adds: it replaces a value the name has, and that is an
\* error too.
Add(n, v) ==
    /\ outcome' = <<"add", n, n \notin DOMAIN globals>>
    /\ globals' = With(n, v)

Look(n) ==
    /\ outcome' = <<"look", n, IF n \in DOMAIN globals THEN globals[n] ELSE Missing>>
    /\ UNCHANGED globals

Next == \E n \in Name : Look(n) \/ \E v \in Value : Define(n, v) \/ Assign(n, v) \/ Add(n, v)

Spec == Init /\ [][Next]_vars
==============================================================================
