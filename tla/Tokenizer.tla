------------------------------- MODULE Tokenizer -------------------------------
(***************************************************************************)
(* The tokenizer, src/compiler/token.c.  An action is one turn of the loop *)
(* in ch_token_next: it skips what separates tokens, or returns.  The      *)
(* parser calls ch_token_next again until it has had the end of the text;  *)
(* advance (src/compiler/compiler.c) skips the calls that report an error. *)
(*                                                                         *)
(* The text is followed by the null character its loader puts there; the   *)
(* tokenizer looks ahead without comparing with the end of the text, and   *)
(* "beyond" is whatever character lies behind the null character.          *)
(***************************************************************************)
EXTENDS Integers, SequencesExt

CONSTANTS Texts,         \* the program texts, sequences of characters
          Beyonds,       \* what may lie behind a text in memory
          Letters,       \* what isalpha accepts
          Digits,        \* what isdigit accepts
          Keywords,      \* the spellings in the table of keywords
          MaxIdLength,   \* MAX_ID_LENGTH
          LineValues     \* 2^16, the modulus of uint16_t

Nul == "NUL"
Quote == "\""
Blanks == {" ", "\t", "\r"}
Single == {"=", ";", ",", "(", ")", "{", "}", "#", "*"}

ASSUME TokenizerAssumption ==
    /\ Letters \intersect Digits = {}
    /\ \A c \in {Nul, "\n", "'", Quote, "/", "+", "-", "&", "|", "."} \union Blanks \union Single :
          c \notin Letters \union Digits
    /\ Texts \subseteq Seq(STRING)
    /\ MaxIdLength \in Nat
    /\ LineValues \in Nat \ {0}

VARIABLES text,      \* state->program
          beyond,
          current,   \* state->current, as an offset
          start,     \* the variable of ch_token_next
          from,      \* where the call began
          line,      \* state->line
          tokens,    \* what the calls have returned
          looked     \* no call has read beyond this offset

vars == <<text, beyond, current, start, from, line, tokens, looked>>

Size == Len(text)

\* *(program + i)
At(i) == IF i < Size THEN text[i + 1] ELSE IF i = Size THEN Nul ELSE beyond

IsAtEnd == current >= Size
Here == At(current)
Ahead == At(current + 1)

Init ==
    /\ text \in Texts
    /\ beyond \in Beyonds
    /\ current = 0 /\ start = 0 /\ from = 0
    /\ line = 1 % LineValues
    /\ tokens = <<>>
    /\ looked = 0

Finished == tokens # <<>> /\ Last(tokens).kind = "TK_EOF"

Turn == ~Finished /\ ~IsAtEnd

\* A token from start to end: the place of its lexeme and the call's extent.
Token(kind, first, end) ==
    [kind |-> kind, first |-> first, end |-> end, from |-> from, line |-> line]

\* The call returns; the next one begins where it ends.
Return(kind, first, end, next, farthest) ==
    /\ tokens' = Append(tokens, Token(kind, first, end))
    /\ current' = next /\ start' = next /\ from' = next
    /\ looked' = Max({looked, farthest})
    /\ UNCHANGED <<text, beyond, line>>

Fail(next, farthest) == Return("error", start, next, next, farthest)

\* The call goes on, with the token that begins at first, or not before next.
Continue(first, next, lines, farthest) ==
    /\ current' = next /\ start' = first
    /\ line' = (line + lines) % LineValues
    /\ looked' = Max({looked, farthest})
    /\ UNCHANGED <<text, beyond, from, tokens>>

\* The first offset from i on whose character is not in the class.
After(i, class) == Min({ j \in i .. Size : At(j) \notin class })

------------------------------------------------------------------------------
Blank   == Turn /\ Here \in Blanks /\ Continue(current + 1, current + 1, 0, current)
Newline == Turn /\ Here = "\n" /\ Continue(current + 1, current + 1, 1, current)

Symbol == Turn /\ Here \in Single /\ Return(Here, start, current + 1, current + 1, current)

\* A null character within the text ends it too.
NulChar == Turn /\ Here = Nul /\ Return("TK_EOF", start, current + 1, current + 1, current)

Doubled(c) == CASE c = "+" -> "++" [] c = "-" -> "--" [] c = "&" -> "&&" [] c = "|" -> "||"

\* "+" and "++", "-" and "--"
PlusMinus ==
    /\ Turn /\ Here \in {"+", "-"}
    /\ LET end == IF Ahead = Here THEN current + 2 ELSE current + 1
       IN  Return(IF Ahead = Here THEN Doubled(Here) ELSE Here, start, end, end, current + 1)

\* "&&" and "||"; alone they are errors.
AndOr ==
    /\ Turn /\ Here \in {"&", "|"}
    /\ IF Ahead = Here THEN Return(Doubled(Here), start, current + 2, current + 2, current + 1)
                       ELSE Fail(current + 1, current + 1)

\* '' and 'c'.  The second character ahead is read even when the first one
\* is the null character behind the text.
CharLiteral ==
    /\ Turn /\ Here = "'"
    /\ IF Ahead = "'"
         THEN Return("TK_CHAR", start, current + 2, current + 2, current + 1)
       ELSE IF At(current + 2) = "'"
         THEN Return("TK_CHAR", start, current + 3, current + 3, current + 2)
       ELSE Fail(current + 1, current + 2)

\* Variant: a comment ends at an end of line only.
EndOfLineUnchecked == Min({ i \in current .. Size + 2 : i = Size + 2 \/ At(i) = "\n" })

\* Up to the end of the line or of the text.  The start of the token follows
\* one character behind; what comes next, an end of line or of the text, has
\* no use for it.
EndOfLine == Min({ i \in current .. Size : i = Size \/ At(i) = "\n" })

\* Variant: a comment takes the end of its line with it.
CommentWithEnd ==
    /\ Turn /\ Here = "/" /\ Ahead = "/"
    /\ Continue(EndOfLine + 1, EndOfLine + 1, 0, EndOfLine)

Comment ==
    /\ Turn /\ Here = "/" /\ Ahead = "/"
    /\ Continue(EndOfLine - 1, EndOfLine, 0, EndOfLine)
Slash ==
    /\ Turn /\ Here = "/" /\ Ahead # "/"
    /\ Return("/", start, current + 1, current + 1, current + 1)

\* A string may go on over lines, which are not counted; one that is not
\* closed takes the rest of the text.
StringLiteral ==
    /\ Turn /\ Here = Quote
    /\ LET end == Min({ i \in current + 1 .. Size : i = Size \/ At(i) = Quote })
       IN  IF end >= Size THEN Fail(Size, Size)
           ELSE Return("TK_STRING", start + 1, end, end + 1, end)

\* Variant: a backslash takes the place of what follows it.
CleanedDropping(first, end) ==
    LET copy[i \in first .. Size + 2] ==
          IF i >= end THEN <<>>
          ELSE IF At(i) = "\\" THEN copy[i + 2] ELSE <<i>> \o copy[i + 1]
    IN  copy[first]

\* string() of compiler.c, which copies the lexeme without its backslashes,
\* each of which makes it copy the next character whatever that is: the
\* offsets of the characters it copies.
Cleaned(first, end) ==
    LET copy[i \in first .. Size + 2] ==
          IF i >= end THEN <<>>
          ELSE IF At(i) = "\\" THEN <<i + 1>> \o copy[i + 2] ELSE <<i>> \o copy[i + 1]
    IN  copy[first]

Spelling(first, end) == SubSeq(text, first + 1, end)

\* parse_token_kind
KindOf(spelling) == IF spelling \in Keywords THEN "keyword" ELSE "TK_ID"

IdChars == Letters \union Digits
Identifier ==
    /\ Turn /\ Here \in Letters
    /\ LET end == After(current, IdChars)
       IN  IF end - start >= MaxIdLength THEN Fail(end, end)
           ELSE Return(KindOf(Spelling(start, end)), start, end, end, end)

\* Variant: a point need not be followed by a digit.
NumberEndingInPoint ==
    /\ Turn /\ Here \in Digits
    /\ LET whole == After(current, Digits)
           end == IF At(whole) = "." THEN After(whole + 1, Digits) ELSE whole
       IN  Return("TK_NUM", start, end, end, end)

\* Digits, and after a point more digits, at least one.
Number ==
    /\ Turn /\ Here \in Digits
    /\ LET whole == After(current, Digits)
           end == IF At(whole) = "." THEN After(whole + 1, Digits) ELSE whole
       IN  IF end = whole + 1 THEN Fail(end, end)
           ELSE Return("TK_NUM", start, end, end, end)

Known == Blanks \union Single \union Letters \union Digits
           \union {Nul, "\n", "+", "-", "&", "|", "'", "/", Quote}

\* Variant: an unknown character is left where it is.
UnknownKept == Turn /\ Here \notin Known /\ Continue(current, current, 0, current)

Unknown == Turn /\ Here \notin Known /\ Fail(current + 1, current)

EndOfText == ~Finished /\ IsAtEnd /\ Return("TK_EOF", current, current, current, looked)

Next ==
    \/ Blank \/ Newline \/ Comment
    \/ Symbol \/ NulChar \/ PlusMinus \/ AndOr \/ Slash
    \/ CharLiteral \/ StringLiteral \/ Identifier \/ Number \/ Unknown
    \/ EndOfText

\* The parser goes on asking until the end.
Spec == Init /\ [][Next]_vars /\ WF_vars(Next)

------------------------------------------------------------------------------
(***************************************************************************)
(* What the tokens of the language look like, from first to end, without a *)
(* word about how they are found.                                          *)
(***************************************************************************)
All(first, end, class) == \A i \in first .. end - 1 : At(i) \in class

IsWord(first, end) == first < end /\ At(first) \in Letters /\ All(first, end, IdChars)

IsNumeral(first, end) ==
    \/ first < end /\ All(first, end, Digits)
    \/ \E point \in first + 1 .. end - 2 :
         At(point) = "." /\ All(first, point, Digits) /\ All(point + 1, end, Digits)

IsQuoted(first, end) ==
    /\ first + 2 <= end /\ At(first) = Quote /\ At(end - 1) = Quote
    /\ \A i \in first + 1 .. end - 2 : At(i) # Quote

IsCharacter(first, end) ==
    /\ end - first \in {2, 3} /\ At(first) = "'" /\ At(end - 1) = "'"
    /\ end - first = 3 => At(first + 1) # "'"

IsSign(first, end) ==
    \/ end = first + 1 /\ At(first) \in Single \union {"+", "-", "/"}
    \/ end = first + 2 /\ At(first) \in {"+", "-", "&", "|"} /\ At(first + 1) = At(first)

IsLexeme(first, end) ==
    \/ IsWord(first, end) \/ IsNumeral(first, end) \/ IsQuoted(first, end)
    \/ IsCharacter(first, end) \/ IsSign(first, end)

\* Characters that no token has: blanks, ends of lines and comments.
InComment(first, i) ==
    \E k \in first .. i : /\ At(k) = "/" /\ At(k + 1) = "/"
                          /\ \A j \in k .. i : At(j) # "\n"
Separates(first, i) == At(i) \in Blanks \union {"\n"} \/ InComment(first, i)

\* Where the characters of a token begin and end, with the quotes that its
\* lexeme leaves out.
FirstOf(t) == IF t.kind = "TK_STRING" THEN t.first - 1 ELSE t.first
EndOf(t)   == IF t.kind = "TK_STRING" THEN t.end + 1 ELSE t.end

\* The calls split the text: each begins where the one before it ended, skips
\* nothing but separators, and returns a lexeme of the language, the longest
\* at its place.
TextIsSplit ==
    \A n \in DOMAIN tokens :
        LET t == tokens[n]
        IN  /\ t.from = IF n = 1 THEN 0 ELSE EndOf(tokens[n - 1])
            /\ \A i \in t.from .. FirstOf(t) - 1 : Separates(t.from, i)
            /\ t.kind \notin {"error", "TK_EOF"} /\ EndOf(t) <= Size =>
                 /\ IsLexeme(FirstOf(t), EndOf(t))
                 /\ \A end \in EndOf(t) + 1 .. Size : ~IsLexeme(FirstOf(t), end)

\* A backslash escapes when an even number of them stands right before it.
Escapes(first, i) ==
    /\ At(i) = "\\"
    /\ \E k \in first .. i : /\ (i - k) % 2 = 0
                            /\ \A j \in k .. i : At(j) = "\\"
                            /\ (k = first \/ At(k - 1) # "\\")
\* Of a string exactly the backslashes that escape are left out.  The quote
\* behind a string that ends in such a backslash is copied too, and nothing
\* behind the quote.
EscapesRemoved ==
    \A t \in Range(tokens) : t.kind = "TK_STRING" =>
        LET copied == Cleaned(t.first, t.end)
            kept == { i \in t.first .. t.end - 1 : ~Escapes(t.first, i) }
        IN  Range(copied) = IF t.end > t.first /\ Escapes(t.first, t.end - 1)
                              THEN kept \union {t.end} ELSE kept

InLiteral(i) ==
    \E t \in Range(tokens) : t.kind \in {"TK_STRING", "TK_CHAR"} /\ i \in t.first .. t.end - 1

\* The line of a token counts the ends of lines before it, wherever comments
\* are, up to what the counter holds; except for the ends of lines within
\* strings and characters: these are lost.
LinesCounted ==
    \A t \in Range(tokens) : t.kind \notin {"error", "TK_EOF"} =>
        t.line = (1 + Cardinality({ i \in 0 .. t.first - 1 : At(i) = "\n" /\ ~InLiteral(i) }))
                    % LineValues

\* Only a quote at the end of the text makes the tokenizer look further than
\* the null character behind it, and by one character.
LooksNoFurther ==
    looked <= IF Size > 0 /\ At(Size - 1) = "'" THEN Size + 1 ELSE Size

\* Whatever the text, the calls come to TK_EOF, and not before the end: it
\* stands behind the text, or at a null character within it that no string,
\* character or comment has taken in.
EndIsReached ==
    /\ <>Finished
    /\ [](Finished => LET at == Last(tokens).first
                      IN  \/ at >= Size
                          \/ At(at) = Nul /\ ~InComment(Last(tokens).from, at))
==============================================================================
