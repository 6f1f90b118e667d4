--------------------------------- MODULE MCVM ---------------------------------
(***************************************************************************)
(* Instances of VM on programs written directly in bytecode: every body of *)
(* a given length over an alphabet of instructions, valid or not.  The     *)
(* programs share one layout: a function at offset 0, the main function    *)
(* after it, and the program setup that defines main and begins.           *)
(***************************************************************************)
EXTENDS VM

Op(op)             == [op |-> op]
OpNumber(n)        == [op |-> "OP_NUMBER", number |-> n]
OpString(s)        == [op |-> "OP_STRING", string |-> s]
OpGlobal(op, name) == [op |-> op, name |-> name]
OpLocal(op, i)     == [op |-> op, local |-> i]
OpUpvalue(op, i)   == [op |-> op, upvalue |-> i]
OpFunction(ptr, n) == [op |-> "OP_FUNCTION", ptr |-> ptr, argcount |-> n]
OpClosure(cs)      == [op |-> "OP_CLOSURE", captures |-> cs]
OpCall(n)          == [op |-> "OP_CALL", argcount |-> n]
OpPopN(n)          == [op |-> "OP_POPN", count |-> n]
OpJump(op, offset) == [op |-> op, offset |-> offset]
Local(i)           == [local |-> TRUE, index |-> i]
Outer(i)           == [local |-> FALSE, index |-> i]

Code(body) == FlattenSeq([i \in DOMAIN body |-> Encode(body[i])])

Assemble(inner, main) ==
    LET innerCode == Code(inner)
        mainCode  == Code(main)
        setup     == Code(<<OpFunction(Len(innerCode), 0),
                            OpGlobal("OP_DEFINE_GLOBAL", "main"), Op("OP_BEGIN")>>)
    IN  Program(innerCode \o mainCode \o setup, 2, Len(innerCode) + Len(mainCode))

\* Bodies of n instructions of an alphabet, between a given start and end.
Bodies(start, alphabet, n, end) ==
    { start \o body \o end : body \in [1 .. n -> alphabet] }

\* Every opcode, with operands in and out of range.
AllOps ==
    { Op(op) : op \in {"OP_HALT", "OP_POP", "OP_TOP", "OP_NEGATE", "OP_ADD", "OP_ADDONE",
                       "OP_SUBONE", "OP_SUB", "OP_MUL", "OP_DIV", "OP_NULL",
                       "OP_CLOSE_UPVALUE", "OP_RETURN_VOID", "OP_RETURN_VALUE",
                       "OP_BEGIN", "OP_NATIVE"} }
    \cup {OpNumber(0), OpNumber(2), OpString(<<>>), OpString(<<1>>),
          [op |-> "OP_CHAR", char |-> 0], Op("OP_TRUE"),
          OpGlobal("OP_DEFINE_GLOBAL", "x"), OpGlobal("OP_SET_GLOBAL", "x"),
          OpGlobal("OP_LOAD_GLOBAL", "x"), OpGlobal("OP_LOAD_GLOBAL", "size"),
          OpGlobal("OP_LOAD_GLOBAL", "contains"), OpGlobal("OP_LOAD_GLOBAL", "substring"),
          OpGlobal("OP_LOAD_GLOBAL", "main"),
          OpLocal("OP_LOAD_LOCAL", 0), OpLocal("OP_LOAD_LOCAL", 6), OpLocal("OP_SET_LOCAL", 1),
          OpUpvalue("OP_LOAD_UPVALUE", 0), OpUpvalue("OP_SET_UPVALUE", 0),
          OpFunction(0, 1), OpClosure(<<Local(0), Local(0)>>), OpClosure(<<Outer(0)>>),
          OpCall(0), OpCall(1), OpCall(3), OpPopN(1),
          OpJump("OP_JMP", -5), OpJump("OP_JMP", -4), OpJump("OP_JMP", 1), OpJump("OP_JMP_FALSE", -90), OpJump("OP_JMP_FALSE", 1)}

\* What closures are made of: two locals to capture, a function that reads
\* and writes what it captured, calls, blocks that end, returns.
ClosureOps ==
    {OpFunction(0, 0), OpClosure(<<Local(0)>>), OpClosure(<<Local(1), Local(0)>>),
     OpClosure(<<Local(0), Local(2)>>), OpCall(0), OpLocal("OP_SET_LOCAL", 0),
     Op("OP_CLOSE_UPVALUE"), Op("OP_POP")}

(***************************************************************************)
(* The programs of the run: any two instructions on stacks of several      *)
(* heights, and any five of the instructions that handle closures.         *)
(***************************************************************************)
OpsInner == <<Op("OP_NULL"), Op("OP_RETURN_VALUE")>>
OpsMains == UNION { Bodies(start, AllOps, 2, <<Op("OP_RETURN_VOID")>>) :
                    start \in {<<>>, <<OpNumber(0), OpNumber(2)>>,
                               <<OpString(<<1>>), OpString(<<1, 2>>), OpNumber(1)>>,
                               [i \in 1 .. 5 |-> OpNumber(1)]} }

ClosureInner ==
    <<OpNumber(0), OpUpvalue("OP_SET_UPVALUE", 0), OpUpvalue("OP_LOAD_UPVALUE", 0),
      Op("OP_RETURN_VALUE")>>
ClosureMains ==
    Bodies(<<OpNumber(1), OpNumber(2)>>, ClosureOps, 5, <<Op("OP_RETURN_VALUE")>>)

\* Init of VM, choosing a program at a time: TLC would build the set
\* Programs as a whole several times over, so the runs leave it empty.
MCInit ==
    /\ \/ \E main \in OpsMains : prog = Assemble(OpsInner, main)
       \/ \E main \in ClosureMains : prog = Assemble(ClosureInner, main)
    /\ InitMachine

MCSpec == MCInit /\ [][Next]_vars
==============================================================================
