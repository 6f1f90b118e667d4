------------------------------ MODULE MCPipeline ------------------------------
(***************************************************************************)
(* The sources the runs of Pipeline compile and execute.                   *)
(***************************************************************************)
EXTENDS Claims

\* Every sequence of n statements of a set.
Sequences(statements, n) == { FlattenSeq(s) : s \in [1 .. n -> statements] }

(***************************************************************************)
(* Statements whose code keeps the compiler's count of the stack: blocks,  *)
(* closures that escape, share and nest, loops, calls, endless recursion.  *)
(***************************************************************************)
GlobalPart ==
    DeclareVal("u", Num(2)) \o FunctionOf("loop", <<>>, CallOf("loop", <<>>) \o Semi)
    \o FunctionOf("add", Comma(Name("a"), Name("b")),
                  ReturnOf(Infixed(Name("a"), "TK_PLUS", Name("b"))))

ReturnsX == ReturnOf(Name("x"))

Disciplined ==
    { DeclareVal("y", Name("x")), AssignTo("x", Num(2)), Increment("x") \o Semi,
      AssignTo("u", CallOf("add", Comma(Name("x"), Name("u")))),
      FunctionOf("f", <<>>, FunctionOf("k", <<>>, AssignTo("x", Num(3)))
                              \o CallOf("k", <<>>) \o Semi),
      FunctionOf("g", <<>>, DeclareVal("w", Num(4)) \o Decrement("w") \o Semi \o ReturnsX),
      CallOf("f", <<>>) \o Semi, AssignTo("x", CallOf("g", <<>>)),
      CallOf("loop", <<>>) \o Semi,
      Braces(DeclareVal("z", Num(4)) \o FunctionOf("h", <<>>, Increment("z") \o Semi)
               \o AssignTo("x", Name("h"))),
      ForLoop(DeclareVal("i", Num(2)), Name("i"), Decrement("i"),
              Braces(FunctionOf("h", <<>>, ReturnOf(Name("i")))
                       \o AssignTo("x", CallOf("h", <<>>)))),
      CallOf("x", <<>>) \o Semi,
      ReturnOf(Infixed(Name("x"), "TK_AND", Name("g")))}

DisciplineSources ==
    { Source(GlobalPart \o Main(DeclareVal("x", Num(1)) \o body)) :
        body \in Sequences(Disciplined, 3) }

(***************************************************************************)
(* Statements that break that count: conditions stay on the stack, calls   *)
(* leave values, loops declare anew in every round.                        *)
(***************************************************************************)
IfOf(e, body) == Keyword("TK_IF", Parens(e) \o Braces(body))
ElseOf(body) == Keyword("TK_ELSE", Braces(body))
WhileOf(e, body) == Keyword("TK_WHILE", Parens(e) \o Braces(body))
DoWhileOf(e, body) == Keyword("TK_DO", Braces(body) \o Keyword("TK_WHILE", Parens(e)))

Undisciplined ==
    { DeclareVal("y", Name("x")), AssignTo("x", Num(2)),
      FunctionOf("g", <<>>, DeclareVal("w", Num(4)) \o Decrement("w") \o Semi
                                \o Decrement("x") \o Semi \o ReturnsX),
      FunctionOf("g", Name("p"), FunctionOf("k", <<>>, AssignTo("p", Num(3)))
                                   \o CallOf("k", <<>>) \o Semi \o ReturnOf(Name("k"))),
      CallOf("g", <<>>) \o Semi, CallOf("loop", <<>>) \o Semi,
      AssignTo("x", CallOf("g", Name("x"))),
      IfOf(Name("x"), DeclareVal("z", Num(1)) \o AssignTo("x", Num(0))),
      IfOf(Name("u"), FunctionOf("h", <<>>, Decrement("x") \o Semi \o ReturnsX))
        \o ElseOf(Decrement("x") \o Semi),
      WhileOf(Name("x"), Decrement("x") \o Semi),
      DoWhileOf(CallOf("g", <<>>), Decrement("u") \o Semi),
      ForLoop(DeclareVal("i", Num(2)), Name("i"), Decrement("i"),
              DeclareVal("j", Name("i")) \o FunctionOf("h", <<>>, ReturnOf(Name("j")))),
      ReturnOf(Keyword("TK_MINUS", Name("g"))) }

UndisciplinedSources ==
    { Source(GlobalPart \o Main(DeclareVal("x", Num(1)) \o body)) :
        body \in Sequences(Undisciplined, 3) }

(***************************************************************************)
(* Expressions, as operands with operators between them, and their meaning *)
(* read off the whole expression at once: the operators that bind least    *)
(* are applied last, "or" before "and" before "+" before "*".              *)
(***************************************************************************)
RECURSIVE Meaning(_, _, _)
Meaning(e, from, to) ==
    LET places(kinds) == { i \in from .. to - 1 : e.operators[i] \in kinds }
        leftOf(i)  == Meaning(e, from, i)
        rightOf(i) == Meaning(e, i + 1, to)
    IN  CASE from = to -> e.operands[from]
          [] from # to /\ places({"TK_OR"}) # {} ->
               LET i == Min(places({"TK_OR"}))
               IN  IF leftOf(i) # 0 THEN leftOf(i) ELSE rightOf(i)
          [] from # to /\ places({"TK_OR"}) = {} /\ places({"TK_AND"}) # {} ->
               LET i == Min(places({"TK_AND"}))
               IN  IF leftOf(i) = 0 THEN 0 ELSE rightOf(i)
          [] OTHER ->
               LET sums == places({"TK_PLUS", "TK_MINUS"})
                   i    == Max(IF sums # {} THEN sums ELSE places({"TK_STAR"}))
               IN  CASE e.operators[i] = "TK_PLUS"  -> leftOf(i) + rightOf(i)
                     [] e.operators[i] = "TK_MINUS" -> leftOf(i) - rightOf(i)
                     [] e.operators[i] = "TK_STAR"  -> leftOf(i) * rightOf(i)

\* A negative operand is written with the unary minus.
Literally(n) == IF n < 0 THEN Keyword("TK_MINUS", Num(-n)) ELSE Num(n)

Written(e) ==
    FlattenSeq([i \in DOMAIN e.operands |->
        IF i \in DOMAIN e.operators THEN Append(Literally(e.operands[i]), Token(e.operators[i]))
                                    ELSE Literally(e.operands[i])])

Expressions(operands, operators, n) ==
    [operands : [1 .. n -> operands], operators : [1 .. n - 1 -> operators]]

ReturnSource(e) ==
    SourceOf(Main(ReturnOf(Written(e))), Number(Meaning(e, 1, Len(e.operands))))

ExpressionSources ==
    { ReturnSource(e) : e \in Expressions({0, 2, -1},
                                          {"TK_OR", "TK_AND", "TK_PLUS", "TK_STAR"}, 4) }

SubtractionSources == { ReturnSource(e) : e \in Expressions({1, 2}, {"TK_MINUS"}, 2) }

(***************************************************************************)
(* Programs with a known result: those of src/test, and some that use what  *)
(* the tests do not.                                                       *)
(***************************************************************************)
Sum(n, m) ==
    Main(DeclareVal("x", Literally(n)) \o DeclareVal("y", Literally(m))
           \o ReturnOf(Infixed(Name("x"), "TK_PLUS", Name("y"))))

TestSources ==
    { \* tests_closure.c
      SourceOf(Main(DeclareVal("x", Num(10)) \o FunctionOf("closure", <<>>, ReturnsX)
                      \o ReturnOf(CallOf("closure", <<>>))), Number(10)),
      SourceOf(Main(DeclareVal("x", Num(10))
                      \o FunctionOf("closure", <<>>, AssignTo("x", Num(20)))
                      \o CallOf("closure", <<>>) \o Semi \o ReturnsX), Number(20)),
      SourceOf(Main(FunctionOf("enclosing", <<>>,
                               DeclareVal("x", Num(10)) \o FunctionOf("closure", <<>>, ReturnsX)
                                 \o ReturnOf(Name("closure")))
                      \o DeclareVal("closure", CallOf("enclosing", <<>>))
                      \o ReturnOf(CallOf("closure", <<>>))), Number(10)),
      \* tests_math.c
      SourceOf(Sum(10, 20), Number(30)), SourceOf(Sum(-27, -43), Number(-70)),
      SourceOf(Sum(42, -42), Number(0)),
      \* tests_parse.c
      SourceOf(Main(DeclareVal("x", Num(122)) \o ReturnsX), Number(122)),
      SourceOf(Main(DeclareVal("x", Str(<<1, 2>>)) \o ReturnsX), Object(String(<<1, 2>>))) }

\* Counters made by make() that do not share; steps before and after a use;
\* a loop that sums; a character.
ProgramSources ==
    { SourceOf(
        FunctionOf("make", <<>>,
            DeclareVal("n", Num(0))
              \o FunctionOf("next", <<>>, Increment("n") \o Semi \o ReturnOf(Name("n")))
              \o ReturnOf(Name("next")))
        \o Main(DeclareVal("a", CallOf("make", <<>>)) \o DeclareVal("b", CallOf("make", <<>>))
                  \o DeclareVal("x", Num(0))
                  \o AssignTo("x", CallOf("a", <<>>)) \o AssignTo("x", CallOf("b", <<>>))
                  \o AssignTo("x", CallOf("a", <<>>))
                  \o ReturnOf(Infixed(Name("x"), "TK_PLUS", CallOf("b", <<>>)))), Number(4)),
      SourceOf(Main(DeclareVal("x", Num(1))
                      \o ReturnOf(Infixed(Increment("x"), "TK_PLUS",
                                          Keyword("TK_PLUS_PLUS", Name("x"))))), Number(4)),
      SourceOf(Main(DeclareVal("s", Num(0))
                      \o ForLoop(DeclareVal("i", Num(3)), Name("i"), Decrement("i"),
                                 AssignTo("s", Infixed(Name("s"), "TK_PLUS", Name("i"))))
                      \o ReturnOf(Name("s"))), Number(6)),
      SourceOf(Main(DeclareVal("c", <<CharToken(1)>>)
                      \o ReturnOf(Infixed(Keyword("TK_MINUS", Num(1)), "TK_AND", Name("c")))),
               Char(1)) }

MeaningSources == ExpressionSources \cup TestSources \cup ProgramSources

(***************************************************************************)
(* The sources of the runs discipline and confinement                      *)
(***************************************************************************)
CountedSources == DisciplineSources \cup MeaningSources
AllSources == DisciplineSources \cup UndisciplinedSources

(***************************************************************************)
(* A host that pushes arguments and calls functions by name: examples/ask, *)
(* a function of two parameters, a native, and a name nobody defined.      *)
(***************************************************************************)
Filename == Object(String(<<9>>))
MCHostValues == {Filename, Object(Native("substring"))}

AskFunction ==
    FunctionOf("ask", Name("file"),
        DeclareVal("answers", Str(<<>>))
        \o AssignTo("answers", Infixed(Infixed(Name("answers"), "TK_PLUS", Str(<<1>>)),
                                       "TK_PLUS", CallOf("prompt", Str(<<2>>))))
        \o AssignTo("answers", Infixed(Infixed(Name("answers"), "TK_PLUS", Str(<<3>>)),
                                       "TK_PLUS", CallOf("prompt", Str(<<4>>))))
        \o CallOf("write", Comma(Name("file"), Name("answers"))) \o Semi)

AskSource ==
    Source(DeclareVal("u", Num(2)) \o AskFunction
           \o FunctionOf("pair", Comma(Name("a"), Name("b")),
                         AssignTo("u", Infixed(Name("a"), "TK_PLUS", Name("b")))
                           \o ReturnOf(Name("a"))))

AskSources == {AskSource}

\* src/examples/ask/README.md: the program "asks questions to the user, and
\* stores the answers into the specified file".  When ask calls write, it
\* is with the host's file name and with each question's label and answer.
AskWritesAnswers ==
    [][At({"OP_CALL"}) /\ host.function = "ask" /\ CanPop(stack)
         /\ Peek(stack) = Object(Native("write")) /\ exit' = exit =>
             /\ stack.cells[stack.size - 2] =
                  Object(String(<<1>> \o Answer(<<2>>) \o <<3>> \o Answer(<<4>>)))
             /\ stack.cells[stack.size - 3] = Filename]_vars
==============================================================================
