------------------------------ MODULE SourceText ------------------------------
(***************************************************************************)
(* The compiler on every text an author may type into a function: texts of *)
(* up to MaxPhrases phrases, most of them wrong, so that errors occur at   *)
(* every place and synchronize_in_function resumes at every place.         *)
(***************************************************************************)
EXTENDS Compiler, Disassembler

CONSTANTS Phrases,      \* sequences of tokens, what the author types at once
          MaxPhrases    \* bound: phrases of a text

VARIABLES text,     \* the tokens typed so far between the braces of main
          typed,    \* how many phrases they are
          output    \* what ch_compile makes of the function

vars == <<text, typed, output>>

\* As compile of src/test/utils.h: the text between "#main() {" and "}".
Wrapped(tokens) ==
    <<Token("TK_POUND"), Id("main"), Token("TK_POPEN"), Token("TK_PCLOSE"), Token("TK_COPEN")>>
      \o tokens \o <<Token("TK_CCLOSE")>>

Init ==
    /\ text = <<>>
    /\ typed = 0
    /\ output = Compile(Wrapped(<<>>))

Type(phrase) ==
    /\ typed < MaxPhrases
    /\ text' = text \o phrase
    /\ typed' = typed + 1
    /\ output' = Compile(Wrapped(text \o phrase))

Next == \E phrase \in Phrases : Type(phrase)

Spec == Init /\ [][Next]_vars

------------------------------------------------------------------------------
(***************************************************************************)
(* Properties                                                              *)
(***************************************************************************)
Accepted == output.ok /\ ~output.crashed

Code == output.program.code
Positions == 0 .. Len(Code) - 1
InstrAt(i) == Code[i + 1]
IsInstr(i) == i \in Positions /\ InstrAt(i).op # "operand"

Positioned(ops) == { i \in Positions : InstrAt(i).op \in ops }

\* Where the functions of the program begin, its setup included.
FunctionStarts == { InstrAt(i).ptr : i \in Positioned({"OP_FUNCTION"}) } \cup {output.program.start}

StartOf(i) == Max({ start \in FunctionStarts : start <= i })

\* A jump of an accepted program lands on an instruction of the function it
\* is in, never on an operand or in another function.
JumpsLand ==
    Accepted =>
        \A i \in Positioned({"OP_JMP", "OP_JMP_FALSE"}) :
            LET target == i + Width(InstrAt(i)) + InstrAt(i).offset
            IN  IsInstr(target) /\ StartOf(target) = StartOf(i)

\* The upvalues a function's closure is made with: those its OP_CLOSURE,
\* the instruction after its OP_FUNCTION, lists.
CapturesOf(start) ==
    LET i == CHOOSE i \in Positioned({"OP_FUNCTION"}) : InstrAt(i).ptr = start
        next == i + Width(InstrAt(i))
    IN  IF start # output.program.start /\ InstrAt(next).op = "OP_CLOSURE"
          THEN InstrAt(next).captures ELSE <<>>

\* Every upvalue a function uses, or hands to a closure it makes, is one of
\* those its own closure is made with.
UpvaluesResolved ==
    Accepted =>
        /\ \A i \in Positioned({"OP_LOAD_UPVALUE", "OP_SET_UPVALUE"}) :
             InstrAt(i).upvalue < Len(CapturesOf(StartOf(i)))
        /\ \A i \in Positioned({"OP_CLOSURE"}) : \A j \in DOMAIN InstrAt(i).captures :
             LET capture == InstrAt(i).captures[j]
             IN  ~capture.local => capture.index < Len(CapturesOf(StartOf(i)))

Tokens(kind) == { i \in DOMAIN text : text[i].kind = kind }

\* However the compiler recovers from errors, it accepts no text in which
\* a brace or a parenthesis is missing.
AcceptedIsBalanced ==
    Accepted =>
        /\ Cardinality(Tokens("TK_COPEN")) = Cardinality(Tokens("TK_CCLOSE"))
        /\ Cardinality(Tokens("TK_POPEN")) = Cardinality(Tokens("TK_PCLOSE"))

\* The program with a data section in front of its code.
WithData == [output.program EXCEPT !.data = 3]

\* The disassembler lists the instructions of an accepted program, all of them
\* and nothing else, up to the first character literal; and every address it
\* prints, where a jump goes or a function begins, is that of an instruction.
ListsInstructions ==
    Accepted =>
        LET lines   == Listing(WithData)
            offsets == { lines[n].offset : n \in DOMAIN lines }
            listed  == IF Last(lines).op = "OP_CHAR" THEN Last(lines).offset ELSE TotalSize(WithData)
        IN  /\ offsets = { i \in 3 .. listed : HasInstruction(WithData, i) }
            /\ \A n \in DOMAIN lines :
                 lines[n].address = NoAddress \/ HasInstruction(WithData, lines[n].address)

------------------------------------------------------------------------------
(***************************************************************************)
(* A claim of the source that the code does not keep                       *)
(***************************************************************************)
\* src/compiler/compiler.c:240: "Error recovery used when the error occurs
\* inside a function declaration".  A compilation that does not come back from
\* an error inside a function has at least used that recovery, and left panic
\* mode: it does not die of the C stack before it reaches the recovery.  (No
\* text nests MaxDepth parse calls unless the parser stands still.)
RecoveryIsUsed == ~(output.crashed /\ output.panic)
==============================================================================
