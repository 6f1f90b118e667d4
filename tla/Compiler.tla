------------------------------- MODULE Compiler -------------------------------
(***************************************************************************)
(* The single-pass compiler of src/compiler/compiler.c: a recursive        *)
(* descent over the tokens that emits bytecode as it goes.                 *)
(*                                                                         *)
(* ch_compilation is a record that every parse function takes and returns. *)
(* "scopes" and "blobs" are the chains of ch_scope and ch_emit_scope, the  *)
(* innermost last; the first scope is the global one, and code emitted     *)
(* with one blob left is global code.  "functions" is function_bytecode,   *)
(* the code of the committed functions.                                    *)
(*                                                                         *)
(* A C stack is finite: "depth" counts nested calls of function_statement  *)
(* and parse, and a compilation that nests MaxDepth of them has crashed.   *)
(*                                                                         *)
(* "marks" is no part of the program.  It notes, where a statement of a    *)
(* function begins or a list of statements ends, the offset in its code    *)
(* and the number of locals the compiler counts there.                     *)
(***************************************************************************)
EXTENDS Bytecode, SequencesExt

CONSTANTS ByteValues,   \* 2^8, the modulus of uint8_t
          MaxDepth      \* bound: nested parse calls the C stack has room for

(***************************************************************************)
(* Tokens: the kind, and for names and literals what was read.             *)
(***************************************************************************)
Token(kind)      == [kind |-> kind]
EOF              == Token("TK_EOF")
Id(name)         == [kind |-> "TK_ID", name |-> name]
NumberToken(n)   == [kind |-> "TK_NUM", number |-> n]
StringToken(s)   == [kind |-> "TK_STRING", string |-> s]
CharToken(c)     == [kind |-> "TK_CHAR", char |-> c]

\* Text for which ch_token_next reports an error.
Erroneous == Token("erroneous")

EmptyScope == [locals |-> <<>>, upvalues |-> <<>>]

Compilation(tokens) ==
    [tokens |-> tokens, previous |-> EOF, current |-> EOF,
     panic |-> FALSE, errors |-> FALSE, depth |-> 0, crashed |-> FALSE,
     scopes |-> <<EmptyScope>>, blobs |-> <<(<<>>)>>, functions |-> <<>>,
     marks |-> <<{}>>, committed |-> {}]

------------------------------------------------------------------------------
(***************************************************************************)
(* Tokens and errors                                                       *)
(***************************************************************************)
\* Erroneous tokens are skipped and leave no trace in the compilation.
Advance(c) ==
    LET i == SelectInSeq(c.tokens, LAMBDA token : token # Erroneous)
    IN  [c EXCEPT !.previous = c.current,
                  !.current  = IF i = 0 THEN EOF ELSE c.tokens[i],
                  !.tokens   = IF i = 0 THEN <<>> ELSE SubSeq(@, i + 1, Len(@))]

Error(c) == [c EXCEPT !.panic = TRUE, !.errors = TRUE]

\* Would consume and opt_consume accept the current token?
Accepts(c, kind) == ~c.panic /\ c.current.kind = kind

OptConsume(c, kind) == IF Accepts(c, kind) THEN Advance(c) ELSE c
Consume(c, kind)    == IF Accepts(c, kind) THEN Advance(c) ELSE Error(c)

Semicolon(c) == Consume(c, "TK_SEMI")

RECURSIVE SkipOutside(_), SkipInside(_)
SkipOutside(c) ==
    IF \/ c.current.kind \in {"TK_EOF", "TK_POUND", "TK_CCLOSE"}
       \/ c.previous.kind = "TK_SEMI"
      THEN c ELSE SkipOutside(Advance(c))

SkipInside(c) ==
    CASE c.current.kind \in {"TK_EOF", "TK_CCLOSE", "TK_VAL"} -> c
      [] c.current.kind = "TK_SEMI" -> Advance(c)
      [] OTHER -> SkipInside(Advance(c))

SynchronizeOutsideFunction(c) == SkipOutside(Advance([c EXCEPT !.panic = FALSE]))
SynchronizeInFunction(c)      == SkipInside([c EXCEPT !.panic = FALSE])

------------------------------------------------------------------------------
(***************************************************************************)
(* Emitting                                                                *)
(***************************************************************************)
Blob(c) == Last(c.blobs)

Emit(c, instr) == [c EXCEPT !.blobs[Len(c.blobs)] = @ \o Encode(instr)]
EmitOp(c, op)  == Emit(c, [op |-> op])

EmittingGlobally(c) == Len(c.blobs) = 1

BeginBlob(c) == [c EXCEPT !.blobs = Append(@, <<>>), !.marks = Append(@, {})]

\* ch_emit_commit_scope: the innermost blob joins the functions.  The code
\* it returns a pointer to begins at Len(c.functions).
CommitBlob(c) ==
    [c EXCEPT !.functions = @ \o Blob(c), !.blobs = Front(@), !.marks = Front(@),
              !.committed = @ \cup { [at |-> Len(c.functions) + mark.at,
                                      locals |-> mark.locals] : mark \in Last(c.marks) }]

\* The place of the operand of the jump that was emitted last.
PatchAddress(c) == Len(Blob(c)) - PtrSize

EmitJump(c, op) == Emit(c, [op |-> op, offset |-> 0])

\* ch_emit_patch_ptr.  At an address that is not the operand of a jump it
\* overwrites four bytes of other instructions: none of them is one any more.
PatchPtr(c, offset, address) ==
    LET blob == Blob(c)
        patched ==
            IF address >= 1 /\ blob[address].op \in {"OP_JMP", "OP_JMP_FALSE"}
              THEN [blob EXCEPT ![address].offset = offset]
              ELSE [i \in DOMAIN blob |->
                     IF i \in address + 1 .. address + PtrSize THEN Operand ELSE blob[i]]
    IN  IF address + PtrSize > Len(blob) THEN c
        ELSE [c EXCEPT !.blobs[Len(c.blobs)] = patched]

\* Variant: the distance counts from the operand, not from its end.
PatchJumpFromOperand(c, address) == PatchPtr(c, Len(Blob(c)) - address, address)

PatchJump(c, address) == PatchPtr(c, Len(Blob(c)) - address - PtrSize, address)

RecordLoop(c) == Len(Blob(c))

EmitLoop(c, start) ==
    LET jump == EmitJump(c, "OP_JMP")
    IN  PatchPtr(jump, -(Len(Blob(jump)) - start), PatchAddress(jump))

------------------------------------------------------------------------------
(***************************************************************************)
(* Variables                                                               *)
(***************************************************************************)
CurrentScope(c) == Last(c.scopes)

\* scope_lookup: the latest local of that name, -1 if there is none.
ScopeLookup(scope, name) == SelectLastInSeq(scope.locals, LAMBDA l : l.name = name) - 1

AddLocal(c, name) ==
    [c EXCEPT !.scopes[Len(c.scopes)].locals = Append(@, [name |-> name, captured |-> FALSE])]

AddGlobal(c, name) == Emit(c, [op |-> "OP_DEFINE_GLOBAL", name |-> name])

\* A name is looked up in the whole function: a block cannot redeclare it.
AddVariable(c, name) ==
    IF Len(CurrentScope(c).locals) = ByteValues - 1 THEN Error(c)
    ELSE IF ScopeLookup(CurrentScope(c), name) # -1 THEN Error(c)
    ELSE IF EmittingGlobally(c) THEN AddGlobal(c, name)
    ELSE AddLocal(c, name)

\* Variant: the index of a new upvalue is one too high.
AddUpvalueOneHigh(c, level, offset, local) ==
    [comp  |-> [c EXCEPT !.scopes[level].upvalues =
                           Append(@, [local |-> local, index |-> offset])],
     index |-> Len(c.scopes[level].upvalues) + 1]

\* add_upvalue, in the scope of the given level.
AddUpvalue(c, level, offset, local) ==
    LET known == c.scopes[level].upvalues
        place == SelectInSeq(known, LAMBDA u : u = [local |-> local, index |-> offset])
    IN  IF place # 0 THEN [comp |-> c, index |-> place - 1]
        ELSE IF Len(known) = ByteValues - 1 THEN [comp |-> Error(c), index |-> 0]
        ELSE [comp  |-> [c EXCEPT !.scopes[level].upvalues =
                                    Append(@, [local |-> local, index |-> offset])],
              index |-> Len(known)]

\* upvalue_lookup from the scope of the given level; index -1 if not found.
RECURSIVE UpvalueLookup(_, _, _)
UpvalueLookup(c, level, name) ==
    IF level = 1 THEN [comp |-> c, index |-> -1]
    ELSE LET offset == ScopeLookup(c.scopes[level - 1], name)
             through(outer) == IF outer.index = -1 THEN outer
                               ELSE AddUpvalue(outer.comp, level, outer.index, FALSE)
         IN  IF offset # -1
               THEN AddUpvalue([c EXCEPT !.scopes[level - 1].locals[offset + 1].captured = TRUE],
                               level, offset, TRUE)
               ELSE through(UpvalueLookup(c, level - 1, name))

\* load_variable and set_variable: the three instructions differ only.
AccessVariable(c, name, localOp, upvalueOp, globalOp) ==
    LET offset == ScopeLookup(CurrentScope(c), name)
        outside(found) ==
            Emit(found.comp, IF found.index # -1 THEN [op |-> upvalueOp, upvalue |-> found.index]
                                                 ELSE [op |-> globalOp, name |-> name])
    IN  IF offset # -1 THEN Emit(c, [op |-> localOp, local |-> offset])
                       ELSE outside(UpvalueLookup(c, Len(c.scopes), name))

LoadVariable(c, name) ==
    AccessVariable(c, name, "OP_LOAD_LOCAL", "OP_LOAD_UPVALUE", "OP_LOAD_GLOBAL")
SetVariable(c, name) ==
    AccessVariable(c, name, "OP_SET_LOCAL", "OP_SET_UPVALUE", "OP_SET_GLOBAL")

\* Notes that a statement begins here, or that a list of statements ends.
Mark(c) ==
    [c EXCEPT !.marks[Len(c.marks)] =
        @ \cup {[at |-> Len(Blob(c)), locals |-> Len(CurrentScope(c).locals)]}]

BeginScope(c) == Len(CurrentScope(c).locals)

\* Variant: a captured variable is dropped like any other.
RECURSIVE EndScopeLeavingOpen(_, _)
EndScopeLeavingOpen(c, mark) ==
    IF Len(CurrentScope(c).locals) = mark THEN c
    ELSE EndScopeLeavingOpen([EmitOp(c, "OP_POP")
                               EXCEPT !.scopes[Len(c.scopes)].locals = Front(@)], mark)

\* end_scope: the variables of the block leave the stack, the last one
\* first, and those that some closure captured are closed.
RECURSIVE EndScope(_, _)
EndScope(c, mark) ==
    LET locals == CurrentScope(c).locals
    IN  IF Len(locals) = mark THEN c
        ELSE EndScope([EmitOp(c, IF Last(locals).captured THEN "OP_CLOSE_UPVALUE"
                                                          ELSE "OP_POP")
                         EXCEPT !.scopes[Len(c.scopes)].locals = Front(@)],
                      mark)

------------------------------------------------------------------------------
(***************************************************************************)
(* Expressions                                                             *)
(***************************************************************************)
Assignment == 1
OrPrec     == 2
AndPrec    == 3
Term       == 6
Factor     == 7
Unary      == 8

\* Variant: factors bind like terms.
PrecedenceOfTerms(kind) ==
    CASE kind \in {"TK_MINUS", "TK_PLUS", "TK_FSLASH", "TK_STAR"} -> Term
      [] kind = "TK_AND" -> AndPrec
      [] kind = "TK_OR"  -> OrPrec
      [] OTHER -> 0

\* The precedence column of rules: 0 (PREC_NONE) for all other tokens.
Precedence(kind) ==
    CASE kind \in {"TK_MINUS", "TK_PLUS"}  -> Term
      [] kind \in {"TK_FSLASH", "TK_STAR"} -> Factor
      [] kind = "TK_AND" -> AndPrec
      [] kind = "TK_OR"  -> OrPrec
      [] OTHER -> 0

\* The tokens with a prefix_parse.
PrefixTokens == {"TK_POPEN", "TK_MINUS", "TK_NUM", "TK_STRING", "TK_ID", "TK_FALSE",
                 "TK_TRUE", "TK_CHAR", "TK_NULL", "TK_PLUS_PLUS", "TK_MINUS_MINUS"}

BinaryOpcode(kind) ==
    CASE kind = "TK_PLUS"   -> "OP_ADD"
      [] kind = "TK_MINUS"  -> "OP_SUB"
      [] kind = "TK_STAR"   -> "OP_MUL"
      [] kind = "TK_FSLASH" -> "OP_DIV"

\* parse and function_statement are the two functions through which all
\* others recurse; Nested is both, told apart by its second argument.
RECURSIVE Nested(_, _), InfixLoop(_, _), Arguments(_, _, _), Statements(_), ArgList(_, _)

AStatement           == 0
FunctionStatement(c) == Nested(c, AStatement)
Parse(c, prec)       == Nested(c, prec)
Expression(c)        == Parse(c, Assignment)

AfterArgument(c, argcount) ==
    IF c.current.kind = "TK_COMMA" THEN Arguments(Advance(c), argcount, TRUE)
                                   ELSE Arguments(c, argcount, FALSE)

\* invocation_arguments' loop: the compilation, the arguments counted so
\* far, and whether a comma was the last thing read.
Arguments(c, argcount, comma) ==
    IF c.crashed \/ c.current.kind \in {"TK_PCLOSE", "TK_EOF"}
      THEN [comp |-> IF comma THEN Error(c) ELSE c, argcount |-> argcount]
      ELSE AfterArgument(Expression(c), (argcount + 1) % ByteValues)

EmitCall(arguments, name) ==
    Emit(LoadVariable(Consume(arguments.comp, "TK_PCLOSE"), name),
         [op |-> "OP_CALL", argcount |-> arguments.argcount])

Invocation(c, name) == EmitCall(Arguments(Consume(c, "TK_POPEN"), 0, FALSE), name)

Assignement(c, name) ==
    IF ~Accepts(c, "TK_EQ") THEN Error(c)
    ELSE SetVariable(Expression(Advance(c)), name)

StepOpcode(kind) == IF kind = "TK_PLUS_PLUS" THEN "OP_ADDONE" ELSE "OP_SUBONE"

PostfixIdentifier(c, name) ==
    IF Accepts(c, "TK_PLUS_PLUS") \/ Accepts(c, "TK_MINUS_MINUS")
      THEN LET operator == Advance(c)
           IN  SetVariable(EmitOp(EmitOp(operator, "OP_TOP"),
                                  StepOpcode(operator.previous.kind)), name)
      ELSE c

\* Variant: the value of an expression statement stays on the stack.
IdentifierKept(c, isStatement) ==
    LET name == c.previous.name
    IN  CASE c.current.kind = "TK_POPEN" -> Invocation(c, name)
          [] c.current.kind = "TK_EQ"    -> Assignement(c, name)
          [] OTHER -> PostfixIdentifier(LoadVariable(c, name), name)

\* Variant: calls and assignments are popped too, though they leave nothing.
IdentifierAlwaysPopped(c, isStatement) ==
    LET popped(done) == IF isStatement THEN EmitOp(done, "OP_POP") ELSE done
    IN  popped(IdentifierKept(c, isStatement))

\* identifier, with the identifier as previous token.
Identifier(c, isStatement) ==
    LET name           == c.previous.name
        popped(loaded) == IF isStatement THEN EmitOp(loaded, "OP_POP") ELSE loaded
    IN  CASE c.current.kind = "TK_POPEN" -> Invocation(c, name)
          [] c.current.kind = "TK_EQ"    -> Assignement(c, name)
          [] OTHER -> popped(PostfixIdentifier(LoadVariable(c, name), name))

PrefixIdentifier(c) ==
    IF ~Accepts(c, "TK_ID") THEN Error(c)
    ELSE LET identifier == Advance(c)
             name       == identifier.previous.name
             stepped    == EmitOp(LoadVariable(identifier, name), StepOpcode(c.previous.kind))
         IN  SetVariable(EmitOp(stepped, "OP_TOP"), name)

\* The prefix_parse of the previous token.
Prefix(c) ==
    LET token == c.previous
    IN  CASE token.kind = "TK_POPEN"  -> Consume(Expression(c), "TK_PCLOSE")
          [] token.kind = "TK_MINUS"  -> EmitOp(Parse(c, Unary), "OP_NEGATE")
          [] token.kind = "TK_NUM"    -> Emit(c, [op |-> "OP_NUMBER", number |-> token.number])
          [] token.kind = "TK_STRING" -> Emit(c, [op |-> "OP_STRING", string |-> token.string])
          [] token.kind = "TK_CHAR"   -> Emit(c, [op |-> "OP_CHAR", char |-> token.char])
          [] token.kind = "TK_TRUE"   -> EmitOp(c, "OP_TRUE")
          [] token.kind = "TK_FALSE"  -> EmitOp(c, "OP_FALSE")
          [] token.kind = "TK_NULL"   -> EmitOp(c, "OP_NULL")
          [] token.kind = "TK_ID"     -> Identifier(c, FALSE)
          [] OTHER                    -> PrefixIdentifier(c)

And(c) ==
    LET jump == EmitJump(c, "OP_JMP_FALSE")
    IN  PatchJump(Parse(EmitOp(jump, "OP_POP"), AndPrec), PatchAddress(jump))

Or(c) ==
    LET false == EmitJump(c, "OP_JMP_FALSE")
        true  == EmitJump(false, "OP_JMP")
        right == EmitOp(PatchJump(true, PatchAddress(false)), "OP_POP")
    IN  PatchJump(Parse(right, OrPrec), PatchAddress(true))

Binary(c) ==
    LET kind == c.previous.kind
    IN  EmitOp(Parse(c, Precedence(kind) + 1), BinaryOpcode(kind))

\* The infix_parse of the previous token.
Infix(c) ==
    CASE c.previous.kind = "TK_AND" -> And(c)
      [] c.previous.kind = "TK_OR"  -> Or(c)
      [] OTHER                      -> Binary(c)

InfixLoop(c, prec) ==
    IF c.crashed \/ prec > Precedence(c.current.kind) THEN c
    ELSE InfixLoop(Infix(Advance(c)), prec)

\* parse, with the first token of the expression as previous token.
ParseBody(c, prec) ==
    IF c.previous.kind \in PrefixTokens THEN InfixLoop(Prefix(c), prec) ELSE Error(c)

------------------------------------------------------------------------------
(***************************************************************************)
(* Statements                                                              *)
(***************************************************************************)
Declaration(c) ==
    LET name  == Advance(c)
        equal == Consume(name, "TK_EQ")
    IN  IF ~Accepts(c, "TK_ID") THEN Error(c)
        ELSE AddVariable(IF Accepts(name, "TK_EQ") THEN Expression(equal) ELSE equal,
                         name.previous.name)

ReturnStatement(c) ==
    LET start == Consume(c, "TK_RETURN")
    IN  IF start.current.kind = "TK_SEMI" THEN EmitOp(start, "OP_RETURN_VOID")
        ELSE EmitOp(Expression(start), "OP_RETURN_VALUE")

\* scope: the statements between two braces.
Statements(c) ==
    IF c.crashed \/ c.current.kind \in {"TK_CCLOSE", "TK_EOF"} THEN Mark(c)
    ELSE Statements(FunctionStatement(c))

\* Variant: the closing brace may be missing.
ScopeUnclosed(c) == OptConsume(Statements(Consume(c, "TK_COPEN")), "TK_CCLOSE")

Scope(c) == Consume(Statements(Consume(c, "TK_COPEN")), "TK_CCLOSE")

\* A scope of its own: the variables it declares end with it.
Block(c) == EndScope(Scope(c), BeginScope(c))

\* The branches are scopes without begin_scope and end_scope, and the
\* condition stays on the stack.  true and false are the compilations after
\* the jumps to patch.
ElseBranch(true, false) ==
    PatchJump(Scope(PatchJump(true, PatchAddress(false))), PatchAddress(true))

AfterThen(c, false) ==
    IF Accepts(c, "TK_ELSE") THEN ElseBranch(EmitJump(Advance(c), "OP_JMP"), false)
                             ELSE PatchJump(c, PatchAddress(false))

IfBranches(false) == AfterThen(Scope(false), false)

IfStatement(c) ==
    IfBranches(EmitJump(Consume(Expression(Consume(Consume(c, "TK_IF"), "TK_POPEN")),
                                "TK_PCLOSE"),
                        "OP_JMP_FALSE"))

\* The condition is popped where the loop goes on, not where it ends.
WhileLoop(false, start) ==
    PatchJump(EmitLoop(Block(Consume(EmitOp(false, "OP_POP"), "TK_PCLOSE")), start),
              PatchAddress(false))

WhileStatement(c) ==
    LET start == Consume(Consume(c, "TK_WHILE"), "TK_POPEN")
    IN  WhileLoop(EmitJump(Expression(start), "OP_JMP_FALSE"), RecordLoop(start))

\* The address of the exit jump is kept in a uint8_t.
DoWhileLoop(exit, start) ==
    PatchJump(EmitLoop(EmitOp(exit, "OP_POP"), start), PatchAddress(exit) % ByteValues)

DoWhileStatement(c) ==
    LET start == Consume(c, "TK_DO")
        body  == Consume(Consume(Block(start), "TK_WHILE"), "TK_POPEN")
    IN  Consume(DoWhileLoop(EmitJump(Expression(body), "OP_JMP_FALSE"), RecordLoop(start)),
                "TK_PCLOSE")

ForInitializer(c) ==
    IF Accepts(c, "TK_SEMI") THEN Advance(c)
    ELSE IF Accepts(c, "TK_VAL") THEN Semicolon(Declaration(Advance(c)))
    ELSE c

\* The jump over the increment, the increment and the jump back to the
\* condition; the body then jumps to the increment.
ForIncrement(body, start) ==
    PatchJump(EmitLoop(Consume(EmitOp(Expression(body), "OP_POP"), "TK_PCLOSE"), start),
              PatchAddress(body))

\* Variant: the body jumps back to the condition, past the increment.
ForBodyPastIncrement(c, start) ==
    EmitLoop(Scope(IF ~Accepts(c, "TK_PCLOSE") THEN ForIncrement(EmitJump(c, "OP_JMP"), start)
                                               ELSE Advance(c)), start)

\* The increment and the body, of a loop that begins at start.  If there is
\* an increment, it begins after the five bytes of the jump over it.
ForBody(c, start) ==
    LET hasIncrement == ~Accepts(c, "TK_PCLOSE")
    IN  EmitLoop(Scope(IF hasIncrement THEN ForIncrement(EmitJump(c, "OP_JMP"), start)
                                       ELSE Advance(c)),
                 IF hasIncrement THEN RecordLoop(c) + 1 + PtrSize ELSE start)

ForCondition(exit, start) ==
    EmitOp(PatchJump(ForBody(EmitOp(exit, "OP_POP"), start), PatchAddress(exit)), "OP_POP")

ForLoopFrom(start) ==
    IF Accepts(start, "TK_SEMI")
      THEN ForBody(Advance(start), RecordLoop(start))
      ELSE ForCondition(EmitJump(Semicolon(Expression(start)), "OP_JMP_FALSE"),
                        RecordLoop(start))

ForStatement(c) ==
    EndScope(ForLoopFrom(ForInitializer(Consume(Consume(c, "TK_FOR"), "TK_POPEN"))),
             BeginScope(c))

------------------------------------------------------------------------------
(***************************************************************************)
(* Functions and programs                                                  *)
(***************************************************************************)
\* function_arglist's loop, after argcount parameters.  A parameter that is
\* not a name ends the list at once, and counts as none.
ArgList(c, argcount) ==
    LET name == AddLocal(Advance(c), c.current.name)
    IN  IF c.current.kind = "TK_PCLOSE" THEN [comp |-> Consume(c, "TK_PCLOSE"), argcount |-> argcount]
        ELSE IF argcount + 1 >= ByteValues - 1
          THEN [comp |-> Consume(Error(c), "TK_PCLOSE"), argcount |-> argcount + 1]
        ELSE IF ~Accepts(c, "TK_ID") THEN [comp |-> Error(c), argcount |-> 0]
        ELSE ArgList(IF name.current.kind = "TK_PCLOSE" THEN name ELSE Consume(name, "TK_COMMA"),
                     argcount + 1)

\* closure: one pair of bytes for each upvalue of the function just parsed.
EmitClosure(c) ==
    Emit(c, [op |-> "OP_CLOSURE", captures |-> CurrentScope(c).upvalues])

\* The code of the function joins the others; OP_FUNCTION makes it a value.
EmitFunction(c, argcount) ==
    Emit(CommitBlob(c),
         [op |-> "OP_FUNCTION", ptr |-> Len(c.functions), argcount |-> argcount])

FunctionBody(args) ==
    EmitFunction(EmitOp(EndScope(Scope(args.comp), 0), "OP_RETURN_VOID"), args.argcount)

LeaveFunction(c) ==
    [IF EmittingGlobally(c) THEN c ELSE EmitClosure(c) EXCEPT !.scopes = Front(@)]

\* function.  Without a name it returns at once, and leaves its scope (a
\* variable of the returning C function) in comp->scope.
FunctionDeclaration(c) ==
    LET pound == Consume([c EXCEPT !.scopes = Append(@, EmptyScope)], "TK_POUND")
        name  == Advance(pound)
    IN  IF ~Accepts(pound, "TK_ID") THEN Error(pound)
        ELSE AddVariable(
               LeaveFunction(FunctionBody(ArgList(Consume(BeginBlob(name), "TK_POPEN"), 0))),
               name.previous.name)

\* function_statement, without what it does first and last.
StatementBody(c) ==
    CASE c.current.kind = "TK_VAL"    -> Semicolon(Declaration(Advance(c)))
      [] c.current.kind = "TK_COPEN"  -> Block(c)
      [] c.current.kind = "TK_RETURN" -> Semicolon(ReturnStatement(c))
      [] c.current.kind = "TK_POUND"  -> FunctionDeclaration(c)
      [] c.current.kind = "TK_ID"     -> Semicolon(Identifier(Advance(c), TRUE))
      [] c.current.kind = "TK_IF"     -> IfStatement(c)
      [] c.current.kind = "TK_WHILE"  -> WhileStatement(c)
      [] c.current.kind = "TK_DO"     -> OptConsume(DoWhileStatement(c), "TK_SEMI")
      [] c.current.kind = "TK_FOR"    -> ForStatement(c)
      [] OTHER                        -> Error(c)

\* What function_statement does after a statement, if it gets there.
Resume(c) == IF c.panic /\ ~c.crashed THEN SynchronizeInFunction(c) ELSE c

\* function_statement and parse: one call deeper, and back.
Nested(c, what) ==
    LET deeper == [c EXCEPT !.depth = @ + 1]
    IN  IF c.crashed \/ c.depth = MaxDepth THEN [c EXCEPT !.crashed = TRUE]
        ELSE IF what = AStatement
          THEN [Resume(StatementBody(Mark(deeper))) EXCEPT !.depth = c.depth]
        ELSE [ParseBody(Advance(deeper), what) EXCEPT !.depth = c.depth]

GlobalStatement(c) ==
    CASE c.current.kind = "TK_VAL"   -> Semicolon(Declaration(Advance(c)))
      [] c.current.kind = "TK_POUND" -> FunctionDeclaration(c)
      [] OTHER                       -> Error(c)

RECURSIVE GlobalStatements(_)
GlobalStatements(c) ==
    IF c.crashed \/ c.current.kind = "TK_EOF" THEN c
    ELSE GlobalStatements(GlobalStatement(IF c.panic THEN SynchronizeOutsideFunction(c) ELSE c))

\* What ch_compile returns, the program it leaves in *output, the marks of the
\* program's functions, and whether the parser was in panic mode at the end.
Output(c) ==
    LET committed == CommitBlob(c)
    IN  [crashed |-> committed.crashed,
         panic   |-> committed.panic,
         ok      |-> ~committed.errors,
         program |-> Program(committed.functions, 0, Len(c.functions)),
         marks   |-> committed.committed]

\* ch_compile.
Compile(tokens) ==
    Output(EmitOp(Consume(GlobalStatements(Advance(Compilation(tokens))), "TK_EOF"), "OP_BEGIN"))
==============================================================================
