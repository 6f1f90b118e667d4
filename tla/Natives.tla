------------------------------- MODULE Natives -------------------------------
(***************************************************************************)
(* Native functions: those of src/vm/natives.c, which ch_newvm registers,  *)
(* and write and prompt, which the host of examples/ask adds.              *)
(*                                                                         *)
(* A native takes its arguments from the stack with ch_pop, the last one   *)
(* first, and pushes its result, if any.  Its checks are those of          *)
(* src/vm/type_check.c; ch_popnumber, unlike ch_popstring, reports nothing *)
(* when it fails.                                                          *)
(***************************************************************************)
EXTENDS Stack, Bytecode

\* What a native function does: the stack it leaves and the exit it sets,
\* "none" if it reports nothing.
Result(st, reason) == [stack |-> st, exit |-> reason]

\* ch_pop: MAKE_NULL() if the stack is empty.
Popped(st) == IF CanPop(st) THEN Peek(st) ELSE Null

NativeSize(argcount, st) ==
    IF argcount # 1 THEN Result(st, "EXIT_USER_ERROR")
    ELSE IF ~IsKind(Popped(st), "string") THEN Result(Pop(st), "EXIT_USER_ERROR")
    ELSE Result(Push(Pop(st), Number(Rounded(Len(Popped(st).object.string)))), "none")

\* ch_substring, on indices converted from double to size_t: a negative one
\* becomes larger than any size.
HasSubstring(s, start, end) ==
    /\ start >= 0 /\ end >= 0
    /\ start < end /\ start < Len(s) /\ end <= Len(s)

\* An index that is not a number makes the native return without reporting
\* an error and without a result.
NativeSubstring(argcount, st) ==
    LET st1 == IF argcount = 3 THEN Pop(st) ELSE st    \* the end is popped
        st2 == Pop(st1)                                \* the start is popped
        st3 == Pop(st2)                                \* the string is popped
        string == Popped(st2).object.string
        start  == Popped(st1).number
        end    == IF argcount = 3 THEN Popped(st).number ELSE Len(string)
    IN  IF argcount \notin {2, 3} THEN Result(st, "EXIT_USER_ERROR")
        ELSE IF argcount = 3 /\ ~IsNumber(Popped(st)) THEN Result(st1, "none")
        ELSE IF ~IsNumber(Popped(st1)) THEN Result(st2, "none")
        ELSE IF ~IsKind(Popped(st2), "string") THEN Result(st3, "EXIT_USER_ERROR")
        ELSE IF HasSubstring(string, start, end)
          THEN Result(Push(st3, Object(String(SubSeq(string, start + 1, end)))), "none")
        ELSE Result(st3, "EXIT_USER_ERROR")

Occurs(needle, haystack) ==
    \E i \in 0 .. Len(haystack) - Len(needle) :
        SubSeq(haystack, i + 1, i + Len(needle)) = needle

NativeContains(argcount, st) ==
    LET needle == Popped(st)
        haystack == Popped(Pop(st))
    IN  IF argcount # 2 THEN Result(st, "EXIT_USER_ERROR")
        ELSE IF ~IsKind(needle, "string") THEN Result(Pop(st), "EXIT_USER_ERROR")
        ELSE IF ~IsKind(haystack, "string") THEN Result(Pop(Pop(st)), "EXIT_USER_ERROR")
        ELSE Result(Push(Pop(Pop(st)),
                         Boolean(Occurs(needle.object.string, haystack.object.string))),
                    "none")

\* write of examples/ask, a host's native: it takes two strings and, unlike
\* the natives above, leaves no result.
NativeWrite(argcount, st) ==
    IF argcount # 2 THEN Result(st, "EXIT_USER_ERROR")
    ELSE IF ~IsKind(Popped(st), "string") THEN Result(Pop(st), "EXIT_USER_ERROR")
    ELSE IF ~IsKind(Popped(Pop(st)), "string") THEN Result(Pop(Pop(st)), "EXIT_USER_ERROR")
    ELSE Result(Pop(Pop(st)), "none")

\* prompt of examples/ask: it takes a question and leaves the user's answer,
\* a line of any content; the model's user answers each question its own way,
\* and always does.  (At the end of the input fgets fails, and prompt goes on with
\* a buffer that nobody wrote; that is left out.)
Answer(question) == question \o <<0>>

NativePrompt(argcount, st) ==
    IF argcount # 1 THEN Result(st, "EXIT_USER_ERROR")
    ELSE IF ~IsKind(Popped(st), "string") THEN Result(Pop(st), "EXIT_USER_ERROR")
    ELSE Result(Push(Pop(st), Object(String(Answer(Popped(st).object.string)))), "none")

NativeResult(name, argcount, st) ==
    CASE name = "size"      -> NativeSize(argcount, st)
      [] name = "substring" -> NativeSubstring(argcount, st)
      [] name = "contains"  -> NativeContains(argcount, st)
      [] name = "write"     -> NativeWrite(argcount, st)
      [] name = "prompt"    -> NativePrompt(argcount, st)

\* Does the native look at a value nobody wrote?
NativeUndefined(argcount, st) ==
    \E i \in 1 .. argcount : i <= st.size /\ st.cells[st.size - i] = Indeterminate
==============================================================================
