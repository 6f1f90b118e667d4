--------------------------- MODULE TokenizerProofs ---------------------------
(***************************************************************************)
(* The tokenizer, for every text: it splits it into longest lexemes, looks *)
(* no further than one character behind the null character, and counts     *)
(* lines; and string() leaves out the backslashes that escape.             *)
(*                                                                         *)
(* Every step either goes on (Advances) or returns a token (Yields).  What *)
(* these two say of the characters between is proved action by action;     *)
(* the invariants follow from the two alone.                               *)
(***************************************************************************)
EXTENDS Tokenizer, SequenceTheorems, FiniteSetTheorems, WellFoundedInduction, TLAPS

\* A set of natural numbers that is not empty has a smallest member.
LEMMA MinIsLeast ==
    ASSUME NEW S, S \subseteq Nat, S # {}
    PROVE  Min(S) \in S /\ \A m \in S : Min(S) <= m
<1> DEFINE R == { p \in Nat \X Nat : p[1] < p[2] }
<1>1. IsWellFoundedOn(R, Nat)
  BY NatLessThanWellFounded DEF OpToRel
<1> HIDE DEF R
<1>2. PICK n \in S : \A m \in S : ~ (<<m, n>> \in R)
  BY <1>1, WFMin
<1>3. ASSUME NEW m \in S PROVE n <= m
  <2>1. m < n => <<m, n>> \in R
    BY DEF R
  <2> QED BY <2>1, <1>2
<1> QED BY <1>3 DEF Min

LEMMA MaxOfTwo ==
    ASSUME NEW a \in Int, NEW b \in Int
    PROVE  Max({a, b}) \in {a, b} /\ a <= Max({a, b}) /\ b <= Max({a, b})
<1>1. \E x \in {a, b} : \A y \in {a, b} : x >= y
  <2>1. CASE a >= b
    BY <2>1
  <2>2. CASE ~(a >= b)
    BY <2>2
  <2> QED BY <2>1, <2>2
<1> QED BY <1>1 DEF Max

------------------------------------------------------------------------------
(***************************************************************************)
(* Looking ahead                                                           *)
(***************************************************************************)
LEMMA TextFacts ==
    ASSUME text \in Seq(STRING)
    PROVE  Size \in Nat /\ At(Size) = Nul
BY DEF Size, At

\* Nul, the ends of lines, the quotes and the signs are in no class of
\* characters.
LEMMA Classes ==
    /\ \A c \in {Nul, "\n", "'", Quote, "/", "+", "-", "&", "|", "."} \union Blanks \union Single :
          c \notin Letters /\ c \notin Digits /\ c \notin IdChars
    /\ Letters \subseteq IdChars /\ Digits \subseteq IdChars
    /\ \A c : ~(c \in Letters /\ c \in Digits)
BY TokenizerAssumption DEF IdChars

LEMMA AfterStops ==
    ASSUME text \in Seq(STRING), NEW i \in 0 .. Size, NEW class, Nul \notin class
    PROVE  /\ After(i, class) \in i .. Size
           /\ At(After(i, class)) \notin class
           /\ \A j \in i .. After(i, class) - 1 : At(j) \in class
<1> DEFINE S == { j \in i .. Size : At(j) \notin class }
<1>1. Size \in Nat /\ Size \in S /\ S \subseteq Nat
  BY TextFacts
<1>2. Min(S) \in S /\ \A m \in S : Min(S) <= m
  <2> HIDE DEF S
  <2> QED BY <1>1, MinIsLeast
<1>3. PICK n \in S : n = After(i, class) /\ \A m \in S : n <= m
  BY <1>2 DEF After
<1>4. ASSUME NEW j \in i .. n - 1 PROVE At(j) \in class
  <2>1. j \in i .. Size /\ ~(n <= j)
    BY <1>1
  <2> QED BY <1>3, <2>1
<1> QED BY <1>3, <1>4

LEMMA EndOfLineStops ==
    ASSUME text \in Seq(STRING), current \in Nat, current < Size
    PROVE  /\ EndOfLine \in current .. Size
           /\ EndOfLine = Size \/ At(EndOfLine) = "\n"
           /\ \A j \in current .. EndOfLine - 1 : At(j) # "\n"
<1> DEFINE S == { i \in current .. Size : i = Size \/ At(i) = "\n" }
<1>1. Size \in Nat /\ Size \in S /\ S \subseteq Nat
  BY TextFacts
<1>2. Min(S) \in S /\ \A m \in S : Min(S) <= m
  <2> HIDE DEF S
  <2> QED BY <1>1, MinIsLeast
<1>3. PICK n \in S : n = EndOfLine /\ \A m \in S : n <= m
  BY <1>2 DEF EndOfLine
<1>4. ASSUME NEW j \in current .. n - 1 PROVE At(j) # "\n"
  <2>1. j \in current .. Size /\ ~(n <= j)
    BY <1>1
  <2> QED BY <1>3, <2>1
<1> QED BY <1>3, <1>4

\* Where StringLiteral stops.
EndQuote == Min({ i \in current + 1 .. Size : i = Size \/ At(i) = Quote })

LEMMA EndQuoteStops ==
    ASSUME text \in Seq(STRING), current \in Nat, current < Size
    PROVE  /\ EndQuote \in current + 1 .. Size
           /\ EndQuote = Size \/ At(EndQuote) = Quote
           /\ \A j \in current + 1 .. EndQuote - 1 : At(j) # Quote
<1> DEFINE S == { i \in current + 1 .. Size : i = Size \/ At(i) = Quote }
<1>1. Size \in Nat /\ Size \in S /\ S \subseteq Nat
  BY TextFacts
<1>2. Min(S) \in S /\ \A m \in S : Min(S) <= m
  <2> HIDE DEF S
  <2> QED BY <1>1, MinIsLeast
<1>3. PICK n \in S : n = EndQuote /\ \A m \in S : n <= m
  BY <1>2 DEF EndQuote
<1>4. ASSUME NEW j \in current + 1 .. n - 1 PROVE At(j) # Quote
  <2>1. j \in current + 1 .. Size /\ ~(n <= j)
    BY <1>1
  <2> QED BY <1>3, <2>1
<1> QED BY <1>3, <1>4

------------------------------------------------------------------------------
(***************************************************************************)
(* Lexemes                                                                 *)
(***************************************************************************)
Signs == Single \union {"+", "-", "/", "&", "|"}

Kinds ==
    Single \union {"error", "TK_EOF", "TK_STRING", "TK_CHAR", "TK_NUM", "TK_ID", "keyword",
                   "/", "+", "-", "++", "--", "&&", "||"}

LEMMA QuoteDiffers == Quote \notin Signs \union Blanks \union {Nul, "\n", "'", ".", "\\"}
BY Zenon DEF Quote, Signs, Single, Blanks, Nul

\* The first character of a lexeme tells what it is.
LEMMA FirstTells ==
    ASSUME NEW f \in Nat, NEW e \in Int, IsLexeme(f, e)
    PROVE  \/ At(f) \in Letters /\ IsWord(f, e)
           \/ At(f) \in Digits /\ IsNumeral(f, e)
           \/ At(f) = Quote /\ IsQuoted(f, e)
           \/ At(f) = "'" /\ IsCharacter(f, e)
           \/ At(f) \in Signs /\ IsSign(f, e)
<1>1. CASE IsWord(f, e)
  BY <1>1 DEF IsWord
<1>2. CASE IsNumeral(f, e)
  <2>1. CASE f < e /\ All(f, e, Digits)
    <3>1. f \in f .. e - 1
      BY <2>1
    <3> QED BY <1>2, <2>1, <3>1 DEF All
  <2>2. CASE ~(f < e /\ All(f, e, Digits))
    <3>1. PICK point \in f + 1 .. e - 2 : All(f, point, Digits)
      BY <1>2, <2>2 DEF IsNumeral
    <3>2. f \in f .. point - 1
      OBVIOUS
    <3> QED BY <1>2, <3>1, <3>2 DEF All
  <2> QED BY <2>1, <2>2
<1>3. CASE IsQuoted(f, e)
  BY <1>3 DEF IsQuoted
<1>4. CASE IsCharacter(f, e)
  BY <1>4 DEF IsCharacter
<1>5. CASE IsSign(f, e)
  BY <1>5 DEF IsSign, Signs
<1> QED BY <1>1, <1>2, <1>3, <1>4, <1>5 DEF IsLexeme

\* A lexeme and none longer.
IsLongest(first, end) ==
    IsLexeme(first, end) /\ \A e \in end + 1 .. Size : ~IsLexeme(first, e)

LEMMA LongestWord ==
    ASSUME text \in Seq(STRING), NEW f \in Nat, f < Size, At(f) \in Letters, NEW e, e = After(f, IdChars)
    PROVE  /\ e \in f + 1 .. Size
           /\ IsLongest(f, e)
           /\ \A i \in f .. e - 1 : At(i) # "\n"
<1>1. f \in 0 .. Size /\ Size \in Nat /\ Nul \notin IdChars /\ "\n" \notin IdChars
  BY TextFacts, Classes
<1>2. e \in f .. Size /\ At(e) \notin IdChars /\ \A j \in f .. e - 1 : At(j) \in IdChars
  BY <1>1, AfterStops
<1>3. e # f
  BY <1>2, Classes
<1>4. e \in f + 1 .. Size
  BY <1>1, <1>2, <1>3
<1>5. IsLexeme(f, e)
  BY <1>2, <1>4 DEF IsLexeme, IsWord, All
<1>6. ASSUME NEW d \in e + 1 .. Size PROVE ~IsLexeme(f, d)
  <2>1. e \in f .. d - 1 /\ d \in Int
    BY <1>1, <1>4
  <2>2. ~IsWord(f, d)
    BY <1>2, <2>1 DEF IsWord, All
  <2>3. At(f) \notin Digits /\ At(f) # Quote /\ At(f) # "'" /\ At(f) \notin Signs
    BY Classes DEF Signs
  <2> QED BY <2>1, <2>2, <2>3, FirstTells
<1> QED BY <1>1, <1>2, <1>4, <1>5, <1>6 DEF IsLongest

LEMMA LongestNumeral ==
    ASSUME text \in Seq(STRING), NEW f \in Nat, f < Size, At(f) \in Digits,
           NEW whole, whole = After(f, Digits),
           NEW e, e = IF At(whole) = "." THEN After(whole + 1, Digits) ELSE whole
    PROVE  /\ e \in f + 1 .. Size
           /\ e # whole + 1 => IsLongest(f, e)
           /\ \A i \in f .. e - 1 : At(i) # "\n"
<1>1. f \in 0 .. Size /\ Size \in Nat /\ Nul \notin Digits /\ "\n" \notin Digits /\ "." \notin Digits
  BY TextFacts, Classes
<1>2. whole \in f .. Size /\ At(whole) \notin Digits /\ \A j \in f .. whole - 1 : At(j) \in Digits
  BY <1>1, AfterStops
<1>3. whole # f
  BY <1>2
<1>4. whole \in f + 1 .. Size
  BY <1>1, <1>2, <1>3
<1>5. ASSUME NEW d \in whole + 1 .. Size, IsLexeme(f, d)
      PROVE  \E point \in f + 1 .. d - 2 :
               At(point) = "." /\ point = whole /\ All(point + 1, d, Digits)
  <2>1. whole \in f .. d - 1 /\ d \in Int
    BY <1>1, <1>4
  <2>2. At(f) \notin Letters /\ At(f) # Quote /\ At(f) # "'" /\ At(f) \notin Signs
    BY Classes DEF Signs
  <2>3. IsNumeral(f, d)
    BY <1>5, <2>1, <2>2, FirstTells
  <2>4. ~All(f, d, Digits)
    BY <1>2, <2>1 DEF All
  <2>5. PICK point \in f + 1 .. d - 2 :
          At(point) = "." /\ All(f, point, Digits) /\ All(point + 1, d, Digits)
    BY <2>3, <2>4 DEF IsNumeral
  <2>6. ~(point < whole)
    <3>1. point < whole => point \in f .. whole - 1
      BY <1>1, <1>4
    <3> QED BY <1>1, <1>2, <2>5, <3>1
  <2>7. ~(whole < point)
    <3>1. whole < point => whole \in f .. point - 1
      BY <1>1, <1>4
    <3> QED BY <1>2, <2>5, <3>1 DEF All
  <2>8. point = whole
    BY <1>1, <1>4, <2>1, <2>6, <2>7
  <2> QED BY <2>5, <2>8
<1>6. CASE At(whole) # "."
  <2>1. e = whole
    BY <1>6
  <2>2. IsLexeme(f, e)
    BY <1>2, <1>4, <2>1 DEF IsLexeme, IsNumeral, All
  <2>3. \A d \in e + 1 .. Size : ~IsLexeme(f, d)
    BY <1>5, <1>6, <2>1
  <2> QED BY <1>1, <1>2, <1>4, <2>1, <2>2, <2>3 DEF IsLongest
<1>7. CASE At(whole) = "."
  <2>1. whole # Size /\ e = After(whole + 1, Digits)
    BY <1>7, TextFacts DEF Nul
  <2>2. whole + 1 \in 0 .. Size
    BY <1>1, <1>4, <2>1
  <2>3. /\ e \in whole + 1 .. Size /\ At(e) \notin Digits
        /\ \A j \in whole + 1 .. e - 1 : At(j) \in Digits
    <3>1. PICK second : second = whole + 1
      OBVIOUS
    <3>2. second \in 0 .. Size /\ e = After(second, Digits)
      BY <2>1, <2>2, <3>1
    <3>3. /\ e \in second .. Size /\ At(e) \notin Digits
          /\ \A j \in second .. e - 1 : At(j) \in Digits
      BY <1>1, <3>2, AfterStops
    <3> QED BY <3>1, <3>3
  <2>4. e \in f + 1 .. Size
    BY <1>1, <1>4, <2>3
  <2>5. ASSUME e # whole + 1 PROVE IsLexeme(f, e)
    <3>1. whole \in f + 1 .. e - 2
      BY <1>1, <1>4, <2>3, <2>5
    <3>2. All(f, whole, Digits) /\ All(whole + 1, e, Digits)
      BY <1>2, <2>3 DEF All
    <3> QED BY <1>7, <3>1, <3>2 DEF IsLexeme, IsNumeral
  <2>6. ASSUME NEW d \in e + 1 .. Size, IsLexeme(f, d) PROVE FALSE
    <3>1. d \in whole + 1 .. Size /\ e \in whole + 1 .. d - 1
      BY <1>1, <1>4, <2>3
    <3>2. All(whole + 1, d, Digits)
      BY <1>5, <2>6, <3>1
    <3> QED BY <2>3, <3>1, <3>2 DEF All
  <2>7. ASSUME NEW i \in f .. e - 1 PROVE At(i) # "\n"
    <3>1. i \in f .. whole - 1 \/ i = whole \/ i \in whole + 1 .. e - 1
      BY <1>1, <1>4, <2>3
    <3> QED BY <1>1, <1>2, <1>7, <2>3, <3>1
  <2> QED BY <2>4, <2>5, <2>6, <2>7 DEF IsLongest
<1> QED BY <1>6, <1>7

LEMMA LongestString ==
    ASSUME NEW f \in Nat, At(f) = Quote, NEW e \in f + 1 .. Size - 1, At(e) = Quote, Size \in Nat,
           \A j \in f + 1 .. e - 1 : At(j) # Quote
    PROVE  IsLongest(f, e + 1)
<1>1. IsLexeme(f, e + 1)
  <2>1. f + 2 <= e + 1 /\ (e + 1) - 1 = e /\ (e + 1) - 2 = e - 1
    OBVIOUS
  <2> QED BY <2>1 DEF IsLexeme, IsQuoted
<1>2. ASSUME NEW d \in (e + 1) + 1 .. Size, IsLexeme(f, d) PROVE FALSE
  <2>1. d \in Int /\ e \in f + 1 .. d - 2
    OBVIOUS
  <2>2. At(f) \notin Letters /\ At(f) \notin Digits /\ At(f) # "'" /\ At(f) \notin Signs
    BY Classes, QuoteDiffers
  <2>3. IsQuoted(f, d)
    BY <1>2, <2>1, <2>2, FirstTells
  <2> QED BY <2>1, <2>3 DEF IsQuoted
<1> QED BY <1>1, <1>2 DEF IsLongest

LEMMA LongestCharacter ==
    ASSUME NEW f \in Nat, At(f) = "'", Size \in Nat, NEW e,
           \/ e = f + 2 /\ At(f + 1) = "'"
           \/ e = f + 3 /\ At(f + 2) = "'" /\ At(f + 1) # "'"
    PROVE  IsLongest(f, e)
<1>1. IsLexeme(f, e)
  <2>1. e - f \in {2, 3} /\ At(e - 1) = "'" /\ (e - f = 3 => At(f + 1) # "'")
    <3>1. (f + 2) - f = 2 /\ (f + 3) - f = 3 /\ (f + 2) - 1 = f + 1 /\ (f + 3) - 1 = f + 2
      OBVIOUS
    <3> QED BY <3>1
  <2> QED BY <2>1 DEF IsLexeme, IsCharacter
<1>2. ASSUME NEW d \in e + 1 .. Size, IsLexeme(f, d) PROVE FALSE
  <2>1. d \in Int
    OBVIOUS
  <2>2. At(f) \notin Letters /\ At(f) \notin Digits /\ At(f) # Quote /\ At(f) \notin Signs
    BY Classes, QuoteDiffers DEF Signs, Single
  <2>3. IsCharacter(f, d)
    BY <1>2, <2>1, <2>2, FirstTells
  <2>4. d - f \in {2, 3} /\ (d - f = 3 => At(f + 1) # "'")
    BY <2>3 DEF IsCharacter
  <2>5. d > e
    OBVIOUS
  <2> QED BY <2>1, <2>4, <2>5
<1> QED BY <1>1, <1>2 DEF IsLongest

LEMMA LongestSign ==
    ASSUME NEW f \in Nat, Size \in Nat, NEW e,
           \/ e = f + 1 /\ At(f) \in Single \union {"/"}
           \/ e = f + 1 /\ At(f) \in {"+", "-"} /\ At(f + 1) # At(f)
           \/ e = f + 2 /\ At(f) \in {"+", "-", "&", "|"} /\ At(f + 1) = At(f)
    PROVE  IsLongest(f, e)
<1>1. IsSign(f, e)
  BY DEF IsSign
<1>2. At(f) \in Signs
  BY DEF Signs
<1>3. ASSUME NEW d \in e + 1 .. Size, IsLexeme(f, d) PROVE FALSE
  <2>1. d \in Int /\ d > e
    OBVIOUS
  <2>2. At(f) \notin Letters /\ At(f) \notin Digits /\ At(f) # Quote /\ At(f) # "'"
    BY <1>2, Classes, QuoteDiffers DEF Signs, Single
  <2>3. IsSign(f, d)
    BY <1>3, <2>1, <2>2, FirstTells
  <2>4. d = f + 2 /\ At(f) \in {"+", "-", "&", "|"} /\ At(f + 1) = At(f)
    BY <2>1, <2>3 DEF IsSign
  <2>5. At(f) \notin Single \union {"/"}
    BY <2>4 DEF Single
  <2>6. e # f + 2
    BY <2>1, <2>4
  <2> QED BY <2>4, <2>5, <2>6
<1> QED BY <1>1, <1>3 DEF IsLongest, IsLexeme

------------------------------------------------------------------------------
(***************************************************************************)
(* What a step does                                                        *)
(***************************************************************************)
\* The start of the token is where the text is read, but after a comment.
Places ==
    /\ text \in Seq(STRING)
    /\ current \in Nat /\ start \in Nat /\ from \in Nat /\ looked \in Nat
    /\ from <= start /\ from <= current
    /\ \/ start = current
       \/ start + 1 = current /\ (current >= Size \/ At(current) = "\n")

Furthest == IF Size > 0 /\ At(Size - 1) = "'" THEN Size + 1 ELSE Size

\* The step goes on behind characters that no token has.
Advances(first, next, lines, farthest) ==
    /\ Continue(first, next, lines, farthest)
    /\ ~Finished
    /\ current < Size /\ next \in current + 1 .. Size
    /\ \/ first = next
       \/ first \in current .. Size /\ first + 1 = next /\ (next >= Size \/ At(next) = "\n")
    /\ \A i \in current .. next - 1 : Separates(current, i)
    /\ \/ lines = 0 /\ \A i \in current .. next - 1 : At(i) # "\n"
       \/ lines = 1 /\ next = current + 1 /\ At(current) = "\n"
    /\ farthest \in 0 .. Furthest

Literal(kind) == kind \in {"TK_STRING", "TK_CHAR"}

\* The step returns a token whose characters begin here, the longest there is.
Yields(kind, first, end, next, farthest) ==
    /\ Return(kind, first, end, next, farthest)
    /\ ~Finished
    /\ kind \in Kinds
    /\ first \in Nat /\ end \in Nat /\ next \in Nat /\ current <= first /\ first <= end
    /\ IF kind = "TK_STRING" THEN first = current + 1 /\ next = end + 1 /\ end < Size
                             ELSE first = current /\ next = end
    /\ kind \notin {"error", "TK_EOF"} => current < Size
    /\ kind \notin {"error", "TK_EOF"} /\ next <= Size => IsLongest(current, next)
    /\ next < Size \/ kind # "error" =>
          \A i \in current .. next - 1 : At(i) = "\n" => Literal(kind) /\ i \in first .. end - 1
    /\ farthest = looked \/ farthest \in 0 .. Furthest

\* The step is one of the two.
Moves ==
    \/ \E first, next, lines, farthest : Advances(first, next, lines, farthest)
    \/ \E kind, first, end, next, farthest : Yields(kind, first, end, next, farthest)

\* Within the text, where a token begins.
LEMMA TurnFacts ==
    ASSUME Places, Turn
    PROVE  /\ ~Finished /\ Size \in Nat /\ current \in Nat /\ current < Size
           /\ Furthest \in Nat /\ Size <= Furthest
           /\ At(current) # "\n" => start = current
           /\ current + 1 <= Size
BY TextFacts DEF Places, Turn, IsAtEnd, Furthest

LEMMA Single1 ==
    ASSUME NEW n \in Nat
    PROVE  \A i : i \in n .. (n + 1) - 1 <=> i = n
OBVIOUS

LEMMA BlankMoves == ASSUME Places, Blank \/ Newline PROVE Moves
<1>1. /\ ~Finished /\ Size \in Nat /\ current \in Nat /\ current < Size
      /\ Furthest \in Nat /\ Size <= Furthest
  BY TurnFacts DEF Blank, Newline
<1>2. Separates(current, current) /\ (At(current) = "\n" \/ At(current) # "\n")
  BY DEF Blank, Newline, Separates, Here
<1>3. PICK lines \in {0, 1} : /\ Continue(current + 1, current + 1, lines, current)
                              /\ lines = 1 <=> At(current) = "\n"
  <2>1. CASE Blank
    <3>1. At(current) # "\n" /\ Continue(current + 1, current + 1, 0, current)
      BY <2>1 DEF Blank, Here, Blanks
    <3> QED BY <3>1
  <2>2. CASE Newline
    <3>1. At(current) = "\n" /\ Continue(current + 1, current + 1, 1, current)
      BY <2>2 DEF Newline, Here
    <3> QED BY <3>1
  <2> QED BY <2>1, <2>2
<1>4. Advances(current + 1, current + 1, lines, current)
  <2>1. current + 1 \in current + 1 .. Size /\ current \in 0 .. Furthest
    BY <1>1
  <2> QED BY <1>1, <1>2, <1>3, <2>1, Single1 DEF Advances
<1> QED BY <1>4 DEF Moves

LEMMA CommentMoves == ASSUME Places, Comment PROVE Moves
<1>1. /\ ~Finished /\ Size \in Nat /\ current \in Nat /\ current < Size
      /\ Furthest \in Nat /\ Size <= Furthest
  BY TurnFacts DEF Comment
<1>2. At(current) = "/" /\ At(current + 1) = "/" /\ Continue(EndOfLine - 1, EndOfLine, 0, EndOfLine)
  BY DEF Comment, Here, Ahead
<1>3. PICK e : e = EndOfLine
  OBVIOUS
<1>4. /\ e \in current .. Size
      /\ e = Size \/ At(e) = "\n"
      /\ \A j \in current .. e - 1 : At(j) # "\n"
  BY <1>1, <1>3, EndOfLineStops DEF Places
<1>5. e # current
  BY <1>1, <1>2, <1>4
<1>6. e \in current + 1 .. Size /\ e - 1 \in current .. Size /\ (e - 1) + 1 = e /\ e \in 0 .. Furthest
  BY <1>1, <1>4, <1>5
<1>7. ASSUME NEW i \in current .. e - 1 PROVE Separates(current, i)
  <2>1. current \in current .. i /\ \A j \in current .. i : j \in current .. e - 1
    BY <1>1, <1>6
  <2> QED BY <1>2, <1>4, <2>1 DEF Separates, InComment
<1>8. Advances(e - 1, e, 0, e)
  BY <1>1, <1>2, <1>3, <1>4, <1>6, <1>7 DEF Advances
<1> QED BY <1>8 DEF Moves

\* A token that no string is, from here to end.
LEMMA PlainMoves ==
    ASSUME Places, ~Finished, NEW kind \in Kinds, kind # "TK_STRING", NEW end \in Nat, current <= end,
           NEW farthest, farthest = looked \/ farthest \in 0 .. Furthest,
           Return(kind, current, end, end, farthest),
           kind \notin {"error", "TK_EOF"} => current < Size,
           kind \notin {"error", "TK_EOF"} /\ end <= Size => IsLongest(current, end),
           end < Size \/ kind # "error" =>
             kind = "TK_CHAR" \/ \A i \in current .. end - 1 : At(i) # "\n"
    PROVE  Moves
<1>1. Yields(kind, current, end, end, farthest)
  BY DEF Yields, Places, Literal
<1> QED BY <1>1 DEF Moves

LEMMA SignMoves ==
    ASSUME Places, Symbol \/ NulChar \/ PlusMinus \/ AndOr \/ Slash \/ Unknown
    PROVE  Moves
<1>1. Turn
  BY DEF Symbol, NulChar, PlusMinus, AndOr, Slash, Unknown
<1>2. /\ ~Finished /\ Size \in Nat /\ current \in Nat /\ current < Size
      /\ Furthest \in Nat /\ Size <= Furthest /\ current + 1 <= Size
  BY <1>1, TurnFacts
<1>3. At(current) # "\n"
  BY Zenon DEF Symbol, NulChar, PlusMinus, AndOr, Slash, Unknown, Here, Single, Nul, Known
<1>4. start = current
  BY <1>1, <1>3, TurnFacts
<1>5. current + 1 \in Nat /\ current + 2 \in Nat /\ current \in 0 .. Furthest /\ current + 1 \in 0 .. Furthest
  BY <1>2
<1>6. \A i \in current .. (current + 1) - 1 : At(i) # "\n"
  BY <1>2, <1>3, Single1
<1>7. ASSUME NEW kind \in Kinds, kind # "TK_STRING", NEW farthest \in {current, current + 1},
             Return(kind, start, current + 1, current + 1, farthest),
             kind \in {"error", "TK_EOF"} \/ IsLongest(current, current + 1)
      PROVE  Moves
  BY <1>2, <1>4, <1>5, <1>6, <1>7, PlainMoves
<1>8. ASSUME At(current) \in {"+", "-", "&", "|"}, At(current + 1) = At(current),
             Return(Doubled(At(current)), start, current + 2, current + 2, current + 1)
      PROVE  Moves
  <2>1. IsLongest(current, current + 2)
    BY <1>2, <1>8, LongestSign
  <2>2. Doubled(At(current)) \in {"++", "--", "&&", "||"}
    BY <1>8 DEF Doubled
  <2>3. \A i \in current .. (current + 2) - 1 : i = current \/ i = current + 1
    BY <1>2
  <2>4. \A i \in current .. (current + 2) - 1 : At(i) # "\n"
    BY <1>8, <2>3
  <2>5. Doubled(At(current)) \notin {"TK_STRING", "error", "TK_EOF"}
    BY <2>2
  <2>6. current <= current + 2 /\ Doubled(At(current)) \in Kinds
    BY <1>2, <2>2 DEF Kinds
  <2> QED BY <1>2, <1>4, <1>5, <1>8, <2>1, <2>4, <2>5, <2>6, PlainMoves
<1>9. CASE Symbol
  <2>1. At(current) \in Single /\ Return(At(current), start, current + 1, current + 1, current)
    BY <1>9 DEF Symbol, Here
  <2>2. At(current) # "TK_STRING" /\ At(current) \in Kinds
    BY <2>1 DEF Single, Kinds
  <2>3. IsLongest(current, current + 1)
    BY <1>2, <2>1, LongestSign
  <2> QED BY <1>7, <2>1, <2>2, <2>3
<1>10. CASE NulChar
  BY <1>7, <1>10 DEF NulChar, Kinds
<1>11. CASE PlusMinus
  <2>1. CASE At(current + 1) = At(current)
    BY <1>8, <1>11, <2>1 DEF PlusMinus, Here, Ahead
  <2>2. CASE At(current + 1) # At(current)
    <3>1. At(current) \in {"+", "-"} /\ Return(At(current), start, current + 1, current + 1, current + 1)
      BY <1>11, <2>2 DEF PlusMinus, Here, Ahead
    <3>2. IsLongest(current, current + 1)
      BY <1>2, <2>2, <3>1, LongestSign
    <3>3. At(current) \in Kinds
      BY <3>1 DEF Kinds
    <3> QED BY <1>7, <3>1, <3>2, <3>3
  <2> QED BY <2>1, <2>2
<1>12. CASE AndOr
  <2>1. CASE At(current + 1) = At(current)
    BY <1>8, <1>12, <2>1 DEF AndOr, Here, Ahead
  <2>2. CASE At(current + 1) # At(current)
    BY <1>7, <1>12, <2>2 DEF AndOr, Here, Ahead, Fail, Kinds
  <2> QED BY <2>1, <2>2
<1>13. CASE Slash
  <2>1. At(current) = "/" /\ Return("/", start, current + 1, current + 1, current + 1)
    BY <1>13 DEF Slash, Here
  <2>2. IsLongest(current, current + 1)
    BY <1>2, <2>1, LongestSign
  <2>3. "/" \in Kinds
    BY DEF Kinds
  <2> QED BY <1>7, <2>1, <2>2, <2>3
<1>14. CASE Unknown
  BY <1>7, <1>14 DEF Unknown, Fail, Kinds
<1> QED BY <1>9, <1>10, <1>11, <1>12, <1>13, <1>14

LEMMA CharLiteralMoves == ASSUME Places, CharLiteral PROVE Moves
<1>1. /\ ~Finished /\ Size \in Nat /\ current \in Nat /\ current < Size
      /\ Furthest \in Nat /\ Size <= Furthest /\ current + 1 <= Size
  BY TurnFacts DEF CharLiteral
<1>2. Turn /\ At(current) = "'"
  BY DEF CharLiteral, Here
<1>3. start = current
  BY <1>2, TurnFacts
<1>4. current + 1 \in 0 .. Furthest /\ current + 2 \in 0 .. Furthest
  <2>1. CASE current = Size - 1
    <3>1. Furthest = Size + 1
      BY <1>1, <1>2, <2>1 DEF Furthest
    <3> QED BY <1>1, <2>1, <3>1
  <2>2. CASE current # Size - 1
    BY <1>1, <2>2
  <2> QED BY <2>1, <2>2
<1>5. /\ current + 1 \in Nat /\ current + 2 \in Nat /\ current + 3 \in Nat
      /\ current <= current + 1 /\ current <= current + 2 /\ current <= current + 3
  BY <1>1
<1>6. CASE At(current + 1) = "'"
  <2>1. Return("TK_CHAR", current, current + 2, current + 2, current + 1)
    BY <1>3, <1>6 DEF CharLiteral, Ahead
  <2>2. IsLongest(current, current + 2)
    BY <1>1, <1>2, <1>6, LongestCharacter
  <2> QED BY <1>1, <1>4, <1>5, <2>1, <2>2, PlainMoves DEF Kinds
<1>7. CASE At(current + 1) # "'" /\ At(current + 2) = "'"
  <2>1. Return("TK_CHAR", current, current + 3, current + 3, current + 2)
    BY <1>3, <1>7 DEF CharLiteral, Ahead
  <2>2. IsLongest(current, current + 3)
    BY <1>1, <1>2, <1>7, LongestCharacter
  <2> QED BY <1>1, <1>4, <1>5, <2>1, <2>2, PlainMoves DEF Kinds
<1>8. CASE At(current + 1) # "'" /\ At(current + 2) # "'"
  <2>1. Return("error", current, current + 1, current + 1, current + 2)
    BY <1>3, <1>8 DEF CharLiteral, Ahead, Fail
  <2>2. \A i \in current .. (current + 1) - 1 : At(i) # "\n"
    BY <1>1, <1>2, Single1
  <2> QED BY <1>1, <1>4, <1>5, <2>1, <2>2, PlainMoves DEF Kinds
<1> QED BY <1>6, <1>7, <1>8

LEMMA StringLiteralMoves == ASSUME Places, StringLiteral PROVE Moves
<1>1. /\ ~Finished /\ Size \in Nat /\ current \in Nat /\ current < Size
      /\ Furthest \in Nat /\ Size <= Furthest
  BY TurnFacts DEF StringLiteral
<1>2. Turn /\ At(current) = Quote
  BY DEF StringLiteral, Here
<1>3. start = current
  BY <1>2, TurnFacts, QuoteDiffers
<1>4. PICK e : e = EndQuote
  OBVIOUS
<1>5. /\ e \in current + 1 .. Size
      /\ e = Size \/ At(e) = Quote
      /\ \A j \in current + 1 .. e - 1 : At(j) # Quote
  BY <1>1, <1>4, EndQuoteStops DEF Places
<1>6. IF e >= Size THEN Fail(Size, Size) ELSE Return("TK_STRING", start + 1, e, e + 1, e)
  BY <1>4 DEF StringLiteral, EndQuote
<1>7. CASE e >= Size
  <2>1. Return("error", current, Size, Size, Size)
    BY <1>3, <1>6, <1>7 DEF Fail
  <2>2. Size \in 0 .. Furthest /\ current <= Size /\ ~(Size < Size)
    BY <1>1
  <2> QED BY <1>1, <2>1, <2>2, PlainMoves DEF Kinds
<1>8. CASE e < Size
  <2>1. Return("TK_STRING", current + 1, e, e + 1, e) /\ At(e) = Quote
    BY <1>1, <1>3, <1>5, <1>6, <1>8
  <2>2. e \in current + 1 .. Size - 1
    BY <1>1, <1>5, <1>8
  <2>3. IsLongest(current, e + 1)
    BY <1>1, <1>2, <1>5, <2>1, <2>2, LongestString
  <2>4. ASSUME NEW i \in current .. (e + 1) - 1, At(i) = "\n" PROVE i \in current + 1 .. e - 1
    <3>1. i # current /\ i # e
      BY <1>2, <2>1, <2>4, QuoteDiffers
    <3> QED BY <1>1, <2>2, <3>1
  <2>5. e \in Nat /\ current + 1 \in Nat /\ e + 1 \in Nat /\ e \in 0 .. Furthest
    BY <1>1, <2>2
  <2>6. Yields("TK_STRING", current + 1, e, e + 1, e)
    BY <1>1, <1>8, <2>1, <2>2, <2>3, <2>4, <2>5 DEF Yields, Literal, Kinds
  <2> QED BY <2>6 DEF Moves
<1> QED BY <1>1, <1>5, <1>7, <1>8

LEMMA IdentifierMoves == ASSUME Places, Identifier PROVE Moves
<1>1. /\ ~Finished /\ Size \in Nat /\ current \in Nat /\ current < Size
      /\ Furthest \in Nat /\ Size <= Furthest
  BY TurnFacts DEF Identifier
<1>2. Turn /\ At(current) \in Letters
  BY DEF Identifier, Here
<1>3. start = current
  BY <1>2, TurnFacts, Classes
<1>4. PICK e : e = After(current, IdChars)
  OBVIOUS
<1>5. /\ e \in current + 1 .. Size
      /\ IsLongest(current, e)
      /\ \A i \in current .. e - 1 : At(i) # "\n"
  BY <1>1, <1>2, <1>4, LongestWord DEF Places
<1>6. e \in Nat /\ current <= e /\ e \in 0 .. Furthest
  BY <1>1, <1>5
<1>7. \E kind \in {"error", "keyword", "TK_ID"} : Return(kind, current, e, e, e)
  BY <1>3, <1>4 DEF Identifier, Fail, KindOf
<1> QED BY <1>1, <1>5, <1>6, <1>7, PlainMoves DEF Kinds

LEMMA NumberMoves == ASSUME Places, Number PROVE Moves
<1>1. /\ ~Finished /\ Size \in Nat /\ current \in Nat /\ current < Size
      /\ Furthest \in Nat /\ Size <= Furthest
  BY TurnFacts DEF Number
<1>2. Turn /\ At(current) \in Digits
  BY DEF Number, Here
<1>3. start = current
  BY <1>2, TurnFacts, Classes
<1>4. PICK whole : whole = After(current, Digits)
  OBVIOUS
<1>5. PICK e : e = IF At(whole) = "." THEN After(whole + 1, Digits) ELSE whole
  OBVIOUS
<1>6. /\ e \in current + 1 .. Size
      /\ e # whole + 1 => IsLongest(current, e)
      /\ \A i \in current .. e - 1 : At(i) # "\n"
  BY <1>1, <1>2, <1>4, <1>5, LongestNumeral DEF Places
<1>7. e \in Nat /\ current <= e /\ e \in 0 .. Furthest
  BY <1>1, <1>6
<1>8. IF e = whole + 1 THEN Return("error", current, e, e, e) ELSE Return("TK_NUM", current, e, e, e)
  BY <1>3, <1>4, <1>5, Zenon DEF Number, Fail
<1> QED BY <1>1, <1>6, <1>7, <1>8, PlainMoves DEF Kinds

LEMMA EndOfTextMoves == ASSUME Places, EndOfText PROVE Moves
<1>1. ~Finished /\ current \in Nat /\ Size \in Nat /\ current >= Size
  BY TextFacts DEF EndOfText, IsAtEnd, Places
<1>2. Return("TK_EOF", current, current, current, looked)
  BY DEF EndOfText
<1> QED BY <1>1, <1>2, PlainMoves DEF Kinds

LEMMA NextMoves == ASSUME Places, Next PROVE Moves
BY BlankMoves, CommentMoves, SignMoves, CharLiteralMoves, StringLiteralMoves, IdentifierMoves,
   NumberMoves, EndOfTextMoves DEF Next

------------------------------------------------------------------------------
(***************************************************************************)
(* Places, extents and lexemes                                             *)
(***************************************************************************)
\* The text does not change.
LEMMA SameText ==
    ASSUME UNCHANGED <<text, beyond>>
    PROVE  /\ Size' = Size /\ Furthest' = Furthest
           /\ \A i : At(i)' = At(i)
           /\ \A f, i : Separates(f, i)' <=> Separates(f, i)
           /\ \A f, e : IsLexeme(f, e)' <=> IsLexeme(f, e)
<1>1. Size' = Size /\ \A i : At(i)' = At(i)
  BY DEF Size, At
<1>2. Furthest' = Furthest
  BY DEF Furthest, At, Size
<1>3. \A f, i : Separates(f, i)' <=> Separates(f, i)
  BY DEF Separates, InComment, At, Size
<1>4. \A f, e : IsLexeme(f, e)' <=> IsLexeme(f, e)
  BY DEF IsLexeme, IsWord, IsNumeral, IsQuoted, IsCharacter, IsSign, All, At, Size
<1> QED BY <1>1, <1>2, <1>3, <1>4

Tokens == [kind : Kinds, first : Nat, end : Nat, from : Nat, line : Nat]

\* The tokens lie one behind the other before what is being read, and a
\* string has a quote behind it.
Extents ==
    /\ tokens \in Seq(Tokens)
    /\ line \in 0 .. LineValues - 1
    /\ \A n \in DOMAIN tokens :
          /\ tokens[n].first <= tokens[n].end /\ EndOf(tokens[n]) <= from
          /\ tokens[n].kind = "TK_STRING" => tokens[n].end < Size

\* The call began where the one before it ended, and has skipped nothing but
\* separators.
Skipped ==
    /\ from = IF tokens = <<>> THEN 0 ELSE EndOf(tokens[Len(tokens)])
    /\ \A i \in from .. current - 1 : Separates(from, i)

Reading == Places /\ looked <= Furthest /\ Extents /\ Skipped /\ TextIsSplit

LEMMA InitReading == Init => Reading
<1> SUFFICES ASSUME Init PROVE Reading
  OBVIOUS
<1>1. text \in Seq(STRING) /\ Size \in Nat
  BY TokenizerAssumption, TextFacts DEF Init
<1>2. Places
  BY <1>1 DEF Places, Init
<1>3. looked <= Furthest
  BY <1>1 DEF Furthest, Init
<1>4. 1 % LineValues \in 0 .. LineValues - 1
  BY TokenizerAssumption
<1>5. Extents
  BY <1>4 DEF Extents, Init
<1>6. Skipped /\ TextIsSplit
  BY DEF Skipped, TextIsSplit, Init
<1> QED BY <1>2, <1>3, <1>5, <1>6 DEF Reading

LEMMA StillSeparates ==
    ASSUME NEW f \in Nat, NEW g \in Nat, f <= g, NEW i \in Int, Separates(g, i)
    PROVE  Separates(f, i)
BY DEF Separates, InComment

LEMMA AdvancesReading ==
    ASSUME Reading, NEW first, NEW next, NEW lines, NEW farthest, Advances(first, next, lines, farthest)
    PROVE  Reading'
<1>1. /\ text \in Seq(STRING) /\ Size \in Nat /\ Furthest \in Int
      /\ current \in Nat /\ from \in Nat /\ looked \in Nat /\ from <= current
  BY TextFacts DEF Reading, Places, Furthest
<1>2. /\ next \in current + 1 .. Size /\ farthest \in 0 .. Furthest
      /\ \/ first = next
         \/ first \in current .. Size /\ first + 1 = next /\ (next >= Size \/ At(next) = "\n")
      /\ \A i \in current .. next - 1 : Separates(current, i)
      /\ lines \in {0, 1}
  BY DEF Advances
<1>3. /\ current' = next /\ start' = first
      /\ line' = (line + lines) % LineValues
      /\ looked' = Max({looked, farthest})
      /\ UNCHANGED <<text, beyond, from, tokens>>
  BY DEF Advances, Continue
<1>4. /\ Size' = Size /\ Furthest' = Furthest
      /\ \A i : At(i)' = At(i)
      /\ \A f, i : Separates(f, i)' <=> Separates(f, i)
      /\ \A f, e : IsLexeme(f, e)' <=> IsLexeme(f, e)
  BY <1>3, SameText
<1>5. At(current)' = At(next)
  BY <1>3 DEF At, Size
<1>6. looked' \in Nat /\ looked' <= Furthest
  <2>1. farthest \in Int /\ looked \in Int /\ looked <= Furthest
    BY <1>1, <1>2 DEF Reading
  <2>2. looked' \in {looked, farthest}
    BY <1>3, <2>1, MaxOfTwo
  <2> QED BY <1>1, <1>2, <2>1, <2>2
<1>7. Places'
  <2>1. first \in Nat /\ next \in Nat /\ current <= first /\ from <= first /\ from <= next
    BY <1>1, <1>2
  <2> QED BY <1>1, <1>2, <1>3, <1>4, <1>5, <1>6, <2>1 DEF Places
<1>8. line' \in 0 .. LineValues - 1
  <2>1. line + lines \in Nat
    BY <1>2, TokenizerAssumption DEF Reading, Extents
  <2> QED BY <1>3, <2>1, TokenizerAssumption
<1>9. Extents'
  BY <1>3, <1>4, <1>8 DEF Reading, Extents
<1>10. ASSUME NEW i \in from .. next - 1 PROVE Separates(from, i)
  <2>1. i \in from .. current - 1 \/ i \in current .. next - 1
    BY <1>1, <1>2
  <2>2. i \in Int
    OBVIOUS
  <2> QED BY <1>1, <1>2, <2>1, <2>2, StillSeparates DEF Reading, Skipped
<1>11. Skipped'
  BY <1>3, <1>4, <1>10 DEF Reading, Skipped
<1>12. TextIsSplit'
  BY <1>3, <1>4 DEF Reading, TextIsSplit
<1> QED BY <1>4, <1>6, <1>7, <1>9, <1>11, <1>12 DEF Reading

\* What Return leaves.
LEMMA YieldsTokens ==
    ASSUME Reading, NEW kind, NEW first, NEW end, NEW next, NEW farthest,
           Yields(kind, first, end, next, farthest)
    PROVE  /\ Token(kind, first, end) \in Tokens
           /\ FirstOf(Token(kind, first, end)) = current /\ EndOf(Token(kind, first, end)) = next
           /\ current <= next
           /\ tokens' \in Seq(Tokens) /\ Len(tokens') = Len(tokens) + 1 /\ Len(tokens) \in Nat
           /\ \A n \in 1 .. Len(tokens) : tokens'[n] = tokens[n] /\ tokens[n] \in Tokens
           /\ tokens'[Len(tokens) + 1] = Token(kind, first, end)
<1>1. /\ kind \in Kinds /\ first \in Nat /\ end \in Nat /\ next \in Nat /\ current <= first /\ first <= end
      /\ IF kind = "TK_STRING" THEN first = current + 1 /\ next = end + 1 /\ end < Size
                               ELSE first = current /\ next = end
      /\ tokens' = Append(tokens, Token(kind, first, end))
  BY DEF Yields, Return
<1>2. line \in Nat /\ from \in Nat /\ current \in Nat /\ tokens \in Seq(Tokens)
  BY TokenizerAssumption DEF Reading, Extents, Places
<1>3. Token(kind, first, end) \in Tokens
  BY <1>1, <1>2 DEF Token, Tokens
<1>4. FirstOf(Token(kind, first, end)) = current /\ EndOf(Token(kind, first, end)) = next
  <2>1. (current + 1) - 1 = current
    BY <1>2
  <2> QED BY <1>1, <2>1 DEF Token, FirstOf, EndOf
<1>5. current <= next
  BY <1>1, <1>2
<1>6. PICK tok \in Tokens : tok = Token(kind, first, end)
  BY <1>3
<1>7. tokens' = Append(tokens, tok)
  BY <1>1, <1>6
<1>8. /\ tokens' \in Seq(Tokens) /\ Len(tokens') = Len(tokens) + 1 /\ Len(tokens) \in Nat
      /\ \A n \in 1 .. Len(tokens) : tokens'[n] = tokens[n] /\ tokens[n] \in Tokens
      /\ tokens'[Len(tokens) + 1] = tok
  BY <1>2, <1>7
<1> QED BY <1>3, <1>4, <1>5, <1>6, <1>8

LEMMA YieldsReading ==
    ASSUME Reading, NEW kind, NEW first, NEW end, NEW next, NEW farthest,
           Yields(kind, first, end, next, farthest)
    PROVE  Reading'
<1>1. /\ text \in Seq(STRING) /\ Size \in Nat /\ Furthest \in Int
      /\ current \in Nat /\ from \in Nat /\ looked \in Nat /\ from <= current
      /\ line \in 0 .. LineValues - 1 /\ looked <= Furthest
      /\ tokens \in Seq(Tokens)
  BY TextFacts DEF Reading, Places, Furthest, Extents
<1>2. /\ first \in Nat /\ end \in Nat /\ next \in Nat /\ current <= first /\ first <= end
      /\ kind = "TK_STRING" => end < Size
      /\ kind \notin {"error", "TK_EOF"} /\ next <= Size => IsLongest(current, next)
      /\ farthest = looked \/ farthest \in 0 .. Furthest
  BY DEF Yields
<1>3. /\ current' = next /\ start' = next /\ from' = next
      /\ looked' = Max({looked, farthest})
      /\ UNCHANGED <<text, beyond, line>>
  BY DEF Yields, Return
<1>4. /\ Size' = Size /\ Furthest' = Furthest
      /\ \A i : At(i)' = At(i)
      /\ \A f, i : Separates(f, i)' <=> Separates(f, i)
      /\ \A f, e : IsLexeme(f, e)' <=> IsLexeme(f, e)
  BY <1>3, SameText
<1>5. looked' \in Nat /\ looked' <= Furthest
  <2>1. farthest \in Int /\ looked \in Int /\ looked <= Furthest
    BY <1>1, <1>2 DEF Reading
  <2>2. looked' \in {looked, farthest}
    BY <1>3, <2>1, MaxOfTwo
  <2> QED BY <1>1, <1>2, <2>1, <2>2
<1>6. Places'
  BY <1>1, <1>2, <1>3, <1>5 DEF Places
<1>7. PICK tok : tok = Token(kind, first, end)
  OBVIOUS
<1>8. /\ tok \in Tokens
      /\ FirstOf(tok) = current /\ EndOf(tok) = next
      /\ current <= next
      /\ tokens' \in Seq(Tokens) /\ Len(tokens') = Len(tokens) + 1 /\ Len(tokens) \in Nat
      /\ \A n \in 1 .. Len(tokens) : tokens'[n] = tokens[n] /\ tokens[n] \in Tokens
      /\ tokens'[Len(tokens) + 1] = tok
  BY <1>7, YieldsTokens
<1>9. DOMAIN tokens = 1 .. Len(tokens) /\ DOMAIN tokens' = 1 .. Len(tokens) + 1
  BY <1>1, <1>8, LenProperties
<1>10. tok.kind = kind /\ tok.first = first /\ tok.end = end /\ tok.from = from
  BY <1>7 DEF Token
<1>11. \A n \in DOMAIN tokens' : n \in DOMAIN tokens \/ n = Len(tokens) + 1
  BY <1>8, <1>9
<1>12. Extents'
  <2>1. ASSUME NEW n \in DOMAIN tokens'
        PROVE  /\ tokens'[n].first <= tokens'[n].end /\ EndOf(tokens'[n]) <= next
               /\ tokens'[n].kind = "TK_STRING" => tokens'[n].end < Size
    <3>1. CASE n \in DOMAIN tokens
      <4>1. PICK u \in Tokens : u = tokens[n] /\ u = tokens'[n]
        BY <1>8, <1>9, <3>1
      <4>2. u.first <= u.end /\ EndOf(u) <= from /\ (u.kind = "TK_STRING" => u.end < Size)
        BY <3>1, <4>1 DEF Reading, Extents
      <4>3. EndOf(u) \in Nat
        BY DEF EndOf, Tokens
      <4> QED BY <1>1, <1>2, <1>8, <4>1, <4>2, <4>3
    <3>2. CASE n = Len(tokens) + 1
      BY <1>2, <1>8, <1>10, <3>2
    <3> QED BY <1>11, <3>1, <3>2
  <2> QED BY <1>1, <1>3, <1>4, <1>8, <2>1 DEF Extents
<1>13. Skipped'
  <2>1. tokens' # <<>> /\ from' = EndOf(tokens'[Len(tokens')])
    BY <1>3, <1>8
  <2>2. \A i \in next .. next - 1 : FALSE
    BY <1>2
  <2> QED BY <1>3, <2>1, <2>2 DEF Skipped
<1>14. ASSUME NEW n \in DOMAIN tokens'
       PROVE  /\ tokens'[n].from = IF n = 1 THEN 0 ELSE EndOf(tokens'[n - 1])
              /\ \A i \in tokens'[n].from .. FirstOf(tokens'[n]) - 1 : Separates(tokens'[n].from, i)
              /\ tokens'[n].kind \notin {"error", "TK_EOF"} /\ EndOf(tokens'[n]) <= Size =>
                   IsLongest(FirstOf(tokens'[n]), EndOf(tokens'[n]))
  <2>1. CASE n \in DOMAIN tokens
    <3>1. tokens'[n] = tokens[n] /\ (n # 1 => tokens'[n - 1] = tokens[n - 1])
      BY <1>8, <1>9, <2>1
    <3> QED BY <2>1, <3>1 DEF Reading, TextIsSplit, IsLongest
  <2>2. CASE n = Len(tokens) + 1
    <3>1. from = IF n = 1 THEN 0 ELSE EndOf(tokens'[n - 1])
      <4>1. CASE tokens = <<>>
        BY <1>1, <2>2, <4>1 DEF Reading, Skipped
      <4>2. CASE tokens # <<>>
        <5>1. Len(tokens) \in 1 .. Len(tokens) /\ n # 1 /\ n - 1 = Len(tokens)
          BY <1>1, <2>2, <4>2, EmptySeq
        <5> QED BY <1>8, <4>2, <5>1 DEF Reading, Skipped
      <4> QED BY <4>1, <4>2
    <3>2. tokens'[n] = tok
      BY <1>8, <2>2
    <3> QED BY <1>2, <1>8, <1>10, <3>1, <3>2 DEF Reading, Skipped
  <2> QED BY <1>11, <2>1, <2>2
<1>15. TextIsSplit'
  BY <1>4, <1>14 DEF TextIsSplit, IsLongest
<1> QED BY <1>4, <1>5, <1>6, <1>12, <1>13, <1>15 DEF Reading

LEMMA NextReading == Reading /\ [Next]_vars => Reading'
<1> SUFFICES ASSUME Reading, [Next]_vars PROVE Reading'
  OBVIOUS
<1>1. CASE Next
  BY <1>1, NextMoves, AdvancesReading, YieldsReading DEF Moves, Reading
<1>2. CASE UNCHANGED vars
  <2>1. UNCHANGED <<text, beyond, current, start, from, line, tokens, looked>>
    BY <1>2 DEF vars
  <2>2. At(current)' = At(current)
    BY <2>1 DEF At, Size
  <2>3. /\ Size' = Size /\ Furthest' = Furthest
        /\ \A i : At(i)' = At(i)
        /\ \A f, i : Separates(f, i)' <=> Separates(f, i)
        /\ \A f, e : IsLexeme(f, e)' <=> IsLexeme(f, e)
    BY <2>1, SameText
  <2>4. Places'
    BY <2>1, <2>2, <2>3 DEF Reading, Places
  <2> QED BY <2>1, <2>3, <2>4 DEF Reading, Extents, Skipped, TextIsSplit
<1> QED BY <1>1, <1>2

LEMMA SpecReading == Spec => []Reading
BY InitReading, NextReading, PTL DEF Spec

\* Whatever the text, and whatever lies behind it: the calls of ch_token_next
\* split it into the longest lexemes of the language and separators.
THEOREM TokenizerTextIsSplit == Spec => []TextIsSplit
<1>1. Reading => TextIsSplit
  BY DEF Reading
<1> QED BY <1>1, SpecReading, PTL

\* The tokenizer never reads behind the null character, but for one character
\* when a quote is the last of the text.
THEOREM TokenizerLooksNoFurther == Spec => []LooksNoFurther
<1>1. Reading => LooksNoFurther
  BY DEF Reading, LooksNoFurther, Furthest
<1> QED BY <1>1, SpecReading, PTL

------------------------------------------------------------------------------
(***************************************************************************)
(* Escapes: what string() copies                                           *)
(***************************************************************************)
\* The backslashes that end at i begin at k.
Run(first, i, k) ==
    /\ k \in first .. i
    /\ \A j \in k .. i : At(j) = "\\"
    /\ k = first \/ At(k - 1) # "\\"

LEMMA OneRun ==
    ASSUME NEW first \in Nat, NEW i \in Nat, first <= i, At(i) = "\\"
    PROVE  /\ \E k : Run(first, i, k)
           /\ \A k, m : Run(first, i, k) /\ Run(first, i, m) => k = m
<1>1. \E k : Run(first, i, k)
  <2> DEFINE S == { k \in first .. i : \A j \in k .. i : At(j) = "\\" }
  <2>1. i \in S /\ S \subseteq Nat
    OBVIOUS
  <2>2. Min(S) \in S /\ \A m \in S : Min(S) <= m
    <3> HIDE DEF S
    <3> QED BY <2>1, MinIsLeast
  <2>3. PICK k \in S : \A m \in S : k <= m
    BY <2>2
  <2>4. ASSUME k # first PROVE At(k - 1) # "\\"
    <3>1. k - 1 \in first .. i /\ ~(k <= k - 1)
      BY <2>4
    <3>2. k - 1 \notin S
      BY <2>3, <3>1
    <3>3. \A j \in k - 1 .. i : j = k - 1 \/ j \in k .. i
      BY <3>1
    <3> QED BY <3>1, <3>2, <3>3
  <2> QED BY <2>3, <2>4 DEF Run
<1>2. ASSUME NEW k, NEW m, Run(first, i, k), Run(first, i, m), k < m PROVE FALSE
  <2>1. k \in first .. i /\ m \in first .. i /\ \A j \in k .. i : At(j) = "\\"
    BY <1>2 DEF Run
  <2>2. m - 1 \in k .. i /\ m # first
    BY <1>2, <2>1
  <2> QED BY <1>2, <2>1, <2>2 DEF Run
<1>3. ASSUME NEW k, NEW m, Run(first, i, k), Run(first, i, m) PROVE k = m
  <2>1. k \in Int /\ m \in Int
    BY <1>3 DEF Run
  <2> QED BY <1>2, <1>3, <2>1
<1> QED BY <1>1, <1>3

LEMMA EscapesByRun ==
    ASSUME NEW first \in Nat, NEW i \in Nat
    PROVE  Escapes(first, i) <=> At(i) = "\\" /\ \E k : Run(first, i, k) /\ (i - k) % 2 = 0
BY DEF Escapes, Run

\* A backslash escapes unless the character before it does.
LEMMA EscapesAlternate ==
    ASSUME NEW first \in Nat, NEW i \in Nat, first <= i
    PROVE  /\ At(i) = "\\" /\ (i = first \/ ~Escapes(first, i - 1)) => Escapes(first, i)
           /\ Escapes(first, i) => ~Escapes(first, i + 1)
<1>1. ASSUME At(i) = "\\", i = first \/ ~Escapes(first, i - 1) PROVE Escapes(first, i)
  <2>1. PICK k : Run(first, i, k)
    BY <1>1, OneRun
  <2>2. k \in first .. i
    BY <2>1 DEF Run
  <2>3. CASE k = i
    <3>1. (i - k) % 2 = 0
      BY <2>3
    <3> QED BY <1>1, <2>1, <3>1, EscapesByRun
  <2>4. CASE k # i
    <3>1. i - 1 \in Nat /\ k \in first .. i - 1 /\ i # first
      BY <2>2, <2>4
    <3>2. Run(first, i - 1, k) /\ At(i - 1) = "\\"
      BY <2>1, <3>1 DEF Run
    <3>3. ~Escapes(first, i - 1)
      BY <1>1, <3>1
    <3>4. ((i - 1) - k) % 2 # 0
      BY <3>1, <3>2, <3>3, EscapesByRun
    <3>5. (i - k) % 2 = 0
      BY <3>1, <3>4
    <3> QED BY <1>1, <2>1, <3>5, EscapesByRun
  <2> QED BY <2>3, <2>4
<1>2. ASSUME Escapes(first, i), Escapes(first, i + 1) PROVE FALSE
  <2>1. PICK k : Run(first, i, k) /\ (i - k) % 2 = 0
    BY <1>2, EscapesByRun
  <2>2. PICK m : Run(first, i + 1, m) /\ ((i + 1) - m) % 2 = 0
    BY <1>2, EscapesByRun
  <2>3. At(i) = "\\" /\ k \in first .. i /\ m \in first .. i + 1
    BY <1>2, <2>1, <2>2 DEF Run, Escapes
  <2>4. m # i + 1
    <3>1. ASSUME m = i + 1 PROVE FALSE
      <4>1. m - 1 = i /\ m # first
        BY <2>3, <3>1
      <4> QED BY <2>2, <2>3, <4>1 DEF Run
    <3> QED BY <3>1
  <2>5. Run(first, i, m)
    BY <2>2, <2>3, <2>4 DEF Run
  <2>6. m = k
    BY <2>1, <2>3, <2>5, OneRun
  <2> QED BY <2>1, <2>2, <2>3, <2>6
<1> QED BY <1>1, <1>2

\* The function of Cleaned, from lo on.
Copying(copy, lo, end) ==
    copy = [i \in lo .. Size + 2 |->
              IF i >= end THEN <<>>
              ELSE IF At(i) = "\\" THEN <<i + 1>> \o copy[i + 2] ELSE <<i>> \o copy[i + 1]]

LEMMA CopyingExists ==
    ASSUME Size \in Nat, NEW end \in 0 .. Size, NEW first \in 0 .. end
    PROVE  \E copy : Copying(copy, first, end)
<1> DEFINE S == { m \in 0 .. end : ~ \E copy : Copying(copy, end - m, end) }
<1>1. SUFFICES ASSUME S # {} PROVE FALSE
  <2>1. end - first \in 0 .. end /\ end - (end - first) = first
    OBVIOUS
  <2>2. S = {} => \E copy : Copying(copy, end - (end - first), end)
    BY <2>1
  <2> QED BY <2>1, <2>2
<1>2. PICK m \in S : \A k \in S : m <= k
  <2>1. S \subseteq Nat
    OBVIOUS
  <2>2. Min(S) \in S /\ \A k \in S : Min(S) <= k
    <3> HIDE DEF S
    <3> QED BY <1>1, <2>1, MinIsLeast
  <2> QED BY <2>2
<1>3. m # 0
  <2>1. PICK copy : copy = [i \in end .. Size + 2 |-> <<>>]
    OBVIOUS
  <2>2. \A i \in end .. Size + 2 : i >= end
    OBVIOUS
  <2>3. Copying(copy, end, end)
    BY <2>1, <2>2 DEF Copying
  <2>4. end - 0 = end
    OBVIOUS
  <2> QED BY <2>3, <2>4
<1>4. PICK lo \in 0 .. end - 1 : lo = end - m /\ lo + 1 = end - (m - 1) /\ m - 1 \in 0 .. end
  BY <1>3
<1>5. PICK copy : Copying(copy, lo + 1, end)
  BY <1>2, <1>4
<1>6. PICK value : value = IF At(lo) = "\\" THEN <<lo + 1>> \o copy[lo + 2] ELSE <<lo>> \o copy[lo + 1]
  OBVIOUS
<1>7. PICK more : more = [i \in lo .. Size + 2 |-> IF i = lo THEN value ELSE copy[i]]
  OBVIOUS
<1>8. \A i \in lo + 1 .. Size + 2 : i \in lo .. Size + 2 /\ i # lo /\ more[i] = copy[i]
  BY <1>7
<1>9. ASSUME NEW i \in lo .. Size + 2
      PROVE  more[i] = IF i >= end THEN <<>>
                       ELSE IF At(i) = "\\" THEN <<i + 1>> \o more[i + 2] ELSE <<i>> \o more[i + 1]
  <2>1. CASE i = lo
    <3>1. lo + 1 \in lo + 1 .. Size + 2 /\ lo + 2 \in lo + 1 .. Size + 2 /\ ~(lo >= end)
      BY <1>4
    <3>2. more[lo + 1] = copy[lo + 1] /\ more[lo + 2] = copy[lo + 2] /\ more[lo] = value
      BY <1>7, <1>8, <2>1, <3>1
    <3> QED BY <1>6, <2>1, <3>1, <3>2
  <2>2. CASE i # lo
    <3>1. i \in lo + 1 .. Size + 2
      BY <2>2
    <3>2. more[i] = copy[i]
      BY <1>8, <3>1
    <3>3. copy[i] = IF i >= end THEN <<>>
                    ELSE IF At(i) = "\\" THEN <<i + 1>> \o copy[i + 2] ELSE <<i>> \o copy[i + 1]
      BY <1>5, <3>1 DEF Copying
    <3>4. CASE i >= end
      BY <3>2, <3>3, <3>4
    <3>5. CASE ~(i >= end)
      <4>1. i + 1 \in lo + 1 .. Size + 2 /\ i + 2 \in lo + 1 .. Size + 2
        BY <3>1, <3>5
      <4>2. more[i + 1] = copy[i + 1] /\ more[i + 2] = copy[i + 2]
        BY <1>8, <4>1
      <4> QED BY <3>2, <3>3, <4>2
    <3> QED BY <3>4, <3>5
  <2> QED BY <2>1, <2>2
<1>10. Copying(more, lo, end)
  BY <1>7, <1>9 DEF Copying
<1> QED BY <1>2, <1>4, <1>10

LEMMA CleanedCopies ==
    ASSUME Size \in Nat, NEW end \in 0 .. Size, NEW first \in 0 .. end
    PROVE  \E copy : Copying(copy, first, end) /\ Cleaned(first, end) = copy[first]
<1>1. \E copy : Copying(copy, first, end)
  BY CopyingExists
<1>2. PICK copy :
        copy = CHOOSE c : c = [i \in first .. Size + 2 |->
                                 IF i >= end THEN <<>>
                                 ELSE IF At(i) = "\\" THEN <<i + 1>> \o c[i + 2] ELSE <<i>> \o c[i + 1]]
  OBVIOUS
<1>3. Copying(copy, first, end)
  BY <1>1, <1>2 DEF Copying
<1>4. Cleaned(first, end) = copy[first]
  BY <1>2, Zenon DEF Cleaned
<1> QED BY <1>3, <1>4

LEMMA RangePrepended ==
    ASSUME NEW n \in Nat, NEW s \in Seq(Nat)
    PROVE  <<n>> \o s \in Seq(Nat) /\ Range(<<n>> \o s) = {n} \union Range(s)
<1>1. <<n>> \in Seq(Nat) /\ Len(<<n>>) = 1 /\ <<n>>[1] = n
  OBVIOUS
<1>2. PICK one \in Seq(Nat) : one = <<n>> /\ Len(one) = 1 /\ one[1] = n
  BY <1>1
<1>3. PICK u : u = one \o s
  OBVIOUS
<1>4. /\ u \in Seq(Nat) /\ Len(u) = 1 + Len(s) /\ Len(s) \in Nat
      /\ \A i \in 1 .. 1 + Len(s) : u[i] = IF i <= 1 THEN one[i] ELSE s[i - 1]
  BY <1>2, <1>3, ConcatProperties, LenProperties
<1>5. DOMAIN u = 1 .. 1 + Len(s) /\ DOMAIN s = 1 .. Len(s)
  BY <1>4, LenProperties
<1>6. u[1] = n /\ 1 \in DOMAIN u
  BY <1>2, <1>4, <1>5
<1>7. ASSUME NEW i \in DOMAIN s PROVE i + 1 \in DOMAIN u /\ u[i + 1] = s[i]
  <2>1. i \in Int /\ i + 1 \in 1 .. 1 + Len(s) /\ ~(i + 1 <= 1) /\ (i + 1) - 1 = i
    BY <1>4, <1>5
  <2> QED BY <1>4, <1>5, <2>1
<1>8. \A i \in DOMAIN u : u[i] = n \/ (i - 1 \in DOMAIN s /\ u[i] = s[i - 1])
  BY <1>2, <1>4, <1>5
<1>9. Range(u) = {n} \union Range(s)
  BY <1>6, <1>7, <1>8 DEF Range
<1> QED BY <1>2, <1>3, <1>4, <1>9

\* What is to be left of the characters from i to end, in a string that
\* begins at first.
Kept(first, i, end) ==
    { j \in i .. end - 1 : ~Escapes(first, j) }
      \union (IF end > i /\ Escapes(first, end - 1) THEN {end} ELSE {})

\* At the places where the loop of string() arrives, it copies what is to be
\* left: by induction on the distance to the end.
LEMMA CopiesKept ==
    ASSUME Size \in Nat, NEW end \in 0 .. Size, NEW first \in 0 .. end,
           NEW copy, Copying(copy, first, end)
    PROVE  copy[first] \in Seq(Nat) /\ Range(copy[first]) = Kept(first, first, end)
<1> DEFINE Arrives(i) == i = first \/ ~Escapes(first, i - 1)
           Good(i) == copy[i] \in Seq(Nat) /\ Range(copy[i]) = Kept(first, i, end)
           S == { m \in 0 .. end - first : Arrives(end - m) /\ ~Good(end - m) }
<1>1. SUFFICES ASSUME S # {} PROVE FALSE
  <2>1. end - first \in 0 .. end - first /\ end - (end - first) = first
    OBVIOUS
  <2>2. S = {} => Good(first)
    BY <2>1
  <2> QED BY <2>2
<1>2. PICK m \in S : \A k \in S : m <= k
  <2>1. S \subseteq Nat
    OBVIOUS
  <2>2. Min(S) \in S /\ \A k \in S : Min(S) <= k
    <3> HIDE DEF S
    <3> QED BY <1>1, <2>1, MinIsLeast
  <2> QED BY <2>2
<1>3. PICK i \in first .. end : i = end - m
  OBVIOUS
<1>4. Arrives(i) /\ ~Good(i)
  BY <1>2, <1>3
<1>5. ASSUME NEW j \in i + 1 .. end, Arrives(j) PROVE Good(j)
  <2>1. end - j \in 0 .. end - first /\ ~(m <= end - j) /\ end - (end - j) = j
    BY <1>3
  <2>2. end - j \notin S
    BY <1>2, <2>1
  <2> QED BY <1>5, <2>1, <2>2
<1>6. copy[i] = IF i >= end THEN <<>>
                ELSE IF At(i) = "\\" THEN <<i + 1>> \o copy[i + 2] ELSE <<i>> \o copy[i + 1]
  <2>1. i \in first .. Size + 2
    OBVIOUS
  <2> QED BY <2>1 DEF Copying
<1>7. /\ At(i) = "\\" => Escapes(first, i) /\ ~Escapes(first, i + 1)
      /\ At(i) # "\\" => ~Escapes(first, i)
  <2>1. i \in Nat /\ first \in Nat /\ first <= i
    OBVIOUS
  <2> QED BY <1>4, <2>1, EscapesAlternate DEF Escapes
<1> HIDE DEF S
<1>8. CASE i = end
  <2>1. copy[i] = <<>>
    BY <1>6, <1>8
  <2>2. Kept(first, i, end) = {}
    BY <1>8 DEF Kept
  <2>3. Range(<<>>) = {} /\ <<>> \in Seq(Nat)
    BY EmptySeq DEF Range
  <2> QED BY <1>4, <2>1, <2>2, <2>3
<1>9. CASE i < end /\ At(i) # "\\"
  <2>1. i + 1 \in i + 1 .. end /\ Arrives(i + 1) /\ (i + 1) - 1 = i /\ i \in Nat
    BY <1>7, <1>9
  <2>2. Good(i + 1)
    BY <1>5, <2>1
  <2>3. copy[i] = <<i>> \o copy[i + 1]
    BY <1>6, <1>9
  <2>4. copy[i] \in Seq(Nat) /\ Range(copy[i]) = {i} \union Kept(first, i + 1, end)
    <3>1. PICK s \in Seq(Nat) : s = copy[i + 1]
      BY <2>2
    <3> QED BY <2>1, <2>2, <2>3, <3>1, RangePrepended
  <2>5. \A j : j \in i .. end - 1 <=> j = i \/ j \in i + 1 .. end - 1
    BY <1>9
  <2>6. (end > i + 1 /\ Escapes(first, end - 1)) <=> (end > i /\ Escapes(first, end - 1))
    <3>1. end = i + 1 \/ end > i + 1
      BY <1>9
    <3>2. end = i + 1 => end - 1 = i
      OBVIOUS
    <3> QED BY <1>7, <1>9, <3>1, <3>2
  <2>7. Kept(first, i, end) = {i} \union Kept(first, i + 1, end)
    BY <1>7, <1>9, <2>5, <2>6 DEF Kept
  <2> QED BY <1>4, <2>4, <2>7
<1>10. CASE i < end /\ At(i) = "\\"
  <2>1. copy[i] = <<i + 1>> \o copy[i + 2] /\ i + 1 \in Nat
    BY <1>6, <1>10
  <2>2. CASE i + 1 = end
    <3>1. copy[i + 2] = <<>>
      <4>1. i + 2 \in first .. Size + 2 /\ i + 2 >= end
        BY <2>2
      <4> QED BY <4>1 DEF Copying
    <3>2. Range(<<>>) = {} /\ <<>> \in Seq(Nat)
      BY EmptySeq DEF Range
    <3>3. copy[i] \in Seq(Nat) /\ Range(copy[i]) = {i + 1}
      <4>1. PICK s \in Seq(Nat) : s = copy[i + 2] /\ Range(s) = {}
        BY <3>1, <3>2
      <4> QED BY <2>1, <4>1, RangePrepended
    <3>4. end - 1 = i /\ end > i /\ \A j \in i .. end - 1 : j = i
      BY <2>2
    <3>5. Kept(first, i, end) = {i + 1}
      BY <1>7, <1>10, <2>2, <3>4 DEF Kept
    <3> QED BY <1>4, <3>3, <3>5
  <2>3. CASE i + 1 < end
    <3>1. i + 2 \in i + 1 .. end /\ Arrives(i + 2) /\ (i + 2) - 1 = i + 1
      BY <1>7, <1>10, <2>3
    <3>2. Good(i + 2)
      BY <1>5, <3>1
    <3>3. copy[i] \in Seq(Nat) /\ Range(copy[i]) = {i + 1} \union Kept(first, i + 2, end)
      <4>1. PICK s \in Seq(Nat) : s = copy[i + 2]
        BY <3>2
      <4> QED BY <2>1, <3>2, <4>1, RangePrepended
    <3>4. \A j : j \in i .. end - 1 <=> j = i \/ j = i + 1 \/ j \in i + 2 .. end - 1
      BY <2>3
    <3>5. (end > i + 2 /\ Escapes(first, end - 1)) <=> (end > i /\ Escapes(first, end - 1))
      <4>1. end = i + 2 \/ end > i + 2
        BY <2>3
      <4>2. end = i + 2 => end - 1 = i + 1
        OBVIOUS
      <4> QED BY <1>7, <1>10, <4>1, <4>2
    <3>6. Kept(first, i, end) = {i + 1} \union Kept(first, i + 2, end)
      BY <1>7, <1>10, <3>4, <3>5 DEF Kept
    <3> QED BY <1>4, <3>3, <3>6
  <2> QED BY <1>10, <2>2, <2>3
<1> QED BY <1>8, <1>9, <1>10

\* string() leaves out of each string the backslashes that escape and no
\* others, however many stand in a row.
THEOREM TokenizerEscapesRemoved == Spec => []EscapesRemoved
<1>1. ASSUME Reading PROVE EscapesRemoved
  <2>1. SUFFICES ASSUME NEW u \in Range(tokens), u.kind = "TK_STRING"
                 PROVE  Range(Cleaned(u.first, u.end)) =
                          LET kept == { i \in u.first .. u.end - 1 : ~Escapes(u.first, i) }
                          IN  IF u.end > u.first /\ Escapes(u.first, u.end - 1)
                                THEN kept \union {u.end} ELSE kept
    BY Zenon DEF EscapesRemoved
  <2>2. Size \in Nat /\ tokens \in Seq(Tokens)
    BY <1>1, TextFacts DEF Reading, Places, Extents
  <2>3. PICK n \in 1 .. Len(tokens) : u = tokens[n]
    BY <2>2, LenProperties DEF Range
  <2>4. u \in Tokens /\ n \in DOMAIN tokens
    BY <2>2, <2>3, LenProperties
  <2>5. PICK first \in Nat, end \in Nat : first = u.first /\ end = u.end
    BY <2>4 DEF Tokens
  <2>6. first <= end /\ end < Size
    BY <1>1, <2>1, <2>3, <2>4, <2>5 DEF Reading, Extents
  <2>7. end \in 0 .. Size /\ first \in 0 .. end
    BY <2>2, <2>6
  <2>8. PICK copy : Copying(copy, first, end) /\ Cleaned(first, end) = copy[first]
    BY <2>2, <2>7, CleanedCopies
  <2>9. Range(copy[first]) = Kept(first, first, end)
    BY <2>2, <2>7, <2>8, CopiesKept
  <2> QED BY <2>5, <2>8, <2>9 DEF Kept
<1> QED BY <1>1, SpecReading, PTL

------------------------------------------------------------------------------
(***************************************************************************)
(* Lines                                                                   *)
(***************************************************************************)
LEMMA Division ==
    ASSUME NEW y \in Int, NEW n \in Nat \ {0}
    PROVE  y = n * (y \div n) + (y % n) /\ y % n \in 0 .. n - 1 /\ y \div n \in Int
OBVIOUS

LEMMA Remainder ==
    ASSUME NEW y \in Int, NEW n \in Nat \ {0}, NEW q \in Int, NEW r \in 0 .. n - 1, y = n * q + r
    PROVE  y % n = r
<1>1. PICK p \in Int, s \in 0 .. n - 1 : y = n * p + s /\ s = y % n
  BY Division
<1>2. PICK d \in Int : d = q - p
  OBVIOUS
<1>3. s - r = n * q - n * p
  <2>1. PICK a \in Int, b \in Int : a = n * q /\ b = n * p
    OBVIOUS
  <2>2. a + r = b + s
    BY <1>1, <2>1
  <2>3. s - r = a - b
    BY <2>2
  <2> QED BY <2>1, <2>3
<1>4. n * q - n * p = n * d
  BY <1>2
<1>5. s - r = n * d
  BY <1>3, <1>4
<1>6. d = 0
  <2>1. s - r < n /\ r - s < n
    OBVIOUS
  <2> HIDE <1>1
  <2>2. CASE d >= 1
    <3>1. n * d >= n
      BY <2>2
    <3> QED BY <1>5, <2>1, <3>1
  <2>3. CASE d <= -1
    <3>1. n * d <= -n
      BY <2>3
    <3> QED BY <1>5, <2>1, <3>1
  <2> QED BY <2>2, <2>3
<1>7. s = r
  <2>1. n * d = 0
    BY <1>6
  <2> QED BY <1>5, <2>1
<1> QED BY <1>1, <1>7

\* A counter modulo n counts on.
LEMMA CountsOn ==
    ASSUME NEW x \in Nat, NEW n \in Nat \ {0}
    PROVE  ((x % n) + 1) % n = (x + 1) % n
<1>1. PICK q \in Int, r \in 0 .. n - 1 : x = n * q + r /\ r = x % n
  <2>1. x \in Int
    OBVIOUS
  <2>2. x = n * (x \div n) + (x % n) /\ x % n \in 0 .. n - 1 /\ x \div n \in Int
    BY <2>1, Division
  <2> QED BY <2>2, Zenon
<1>2. PICK y \in Int : y = x + 1
  OBVIOUS
<1>3. CASE r + 1 = n
  <2>1. PICK p \in Int : p = q + 1
    OBVIOUS
  <2>2. n * p = n * q + n
    BY <2>1
  <2>3. PICK z \in 0 .. n - 1 : z = 0
    OBVIOUS
  <2>4. y = n * p + z
    <3>1. PICK m \in Int : m = n * q
      OBVIOUS
    <3>2. y = (m + r) + 1 /\ n * p = m + n
      BY <1>1, <1>2, <2>2, <3>1
    <3> QED BY <1>3, <2>3, <3>2
  <2>5. y % n = 0
    BY <2>3, <2>4, Remainder
  <2>6. (r + 1) % n = 0
    BY <1>3
  <2> QED BY <1>1, <1>2, <2>5, <2>6
<1>4. CASE r + 1 # n
  <2>1. PICK s \in 0 .. n - 1 : s = r + 1
    BY <1>4
  <2>2. y = n * q + s
    <3>1. PICK m \in Int : m = n * q
      OBVIOUS
    <3>2. y = (m + r) + 1
      BY <1>1, <1>2, <3>1
    <3> QED BY <2>1, <3>1, <3>2
  <2>3. y % n = s
    BY <2>2, Remainder
  <2>4. s % n = s
    OBVIOUS
  <2> QED BY <1>1, <1>2, <2>1, <2>3, <2>4
<1> QED BY <1>3, <1>4

\* The ends of lines before an offset that lie in no literal of ts.
Lines(ts, before) ==
    { i \in 0 .. before - 1 :
        At(i) = "\n" /\ ~ \E n \in DOMAIN ts : Literal(ts[n].kind) /\ i \in ts[n].first .. ts[n].end - 1 }

LineAt(ts, before) == (1 + Cardinality(Lines(ts, before))) % LineValues

\* The counter is right where it will be used: not behind the text.
Counting ==
    /\ current < Size => line = LineAt(tokens, current)
    /\ \A n \in DOMAIN tokens :
          tokens[n].kind \notin {"error", "TK_EOF"} => tokens[n].line = LineAt(tokens, tokens[n].first)

LEMMA LinesFinite ==
    ASSUME NEW ts, NEW before \in Int
    PROVE  IsFiniteSet(Lines(ts, before)) /\ Cardinality(Lines(ts, before)) \in Nat
<1>1. IsFiniteSet(0 .. before - 1)
  BY FS_Interval
<1>2. Lines(ts, before) \in SUBSET (0 .. before - 1)
  BY DEF Lines
<1> QED BY <1>1, <1>2, FS_Subset, FS_CardinalityType

LEMMA AdvancesCounting ==
    ASSUME Reading, Counting, NEW first, NEW next, NEW lines, NEW farthest,
           Advances(first, next, lines, farthest)
    PROVE  Counting'
<1>1. /\ next \in current + 1 .. Size /\ current < Size
      /\ \/ lines = 0 /\ \A i \in current .. next - 1 : At(i) # "\n"
         \/ lines = 1 /\ next = current + 1 /\ At(current) = "\n"
      /\ current' = next
      /\ line' = (line + lines) % LineValues
      /\ UNCHANGED <<text, beyond, tokens>>
  BY DEF Advances, Continue
<1>2. current \in Nat /\ from \in Nat /\ from <= current /\ Size \in Nat /\ tokens \in Seq(Tokens)
  BY TextFacts DEF Reading, Places, Extents
<1>3. line \in 0 .. LineValues - 1 /\ line = LineAt(tokens, current) /\ LineValues \in Nat \ {0}
  BY <1>1, TokenizerAssumption DEF Reading, Extents, Counting
<1>4. Size' = Size
  BY <1>1, SameText
<1>5. line' = LineAt(tokens, next)
  <2>1. CASE lines = 0 /\ \A i \in current .. next - 1 : At(i) # "\n"
    <3>1. line' = line
      BY <1>1, <1>3, <2>1
    <3>2. \A i : At(i) = "\n" => (i \in 0 .. next - 1 <=> i \in 0 .. current - 1)
      BY <1>1, <1>2, <2>1
    <3>3. Lines(tokens, next) = Lines(tokens, current)
      BY <3>2 DEF Lines
    <3> QED BY <1>3, <3>1, <3>3 DEF LineAt
  <2>2. CASE lines = 1 /\ next = current + 1 /\ At(current) = "\n"
    <3>1. ASSUME NEW n \in DOMAIN tokens PROVE current \notin tokens[n].first .. tokens[n].end - 1
      <4>1. tokens[n] \in Tokens
        BY <1>2, LenProperties
      <4>2. tokens[n].end \in Nat /\ tokens[n].end <= EndOf(tokens[n]) /\ EndOf(tokens[n]) \in Nat
        BY <4>1 DEF EndOf, Tokens
      <4>3. EndOf(tokens[n]) <= from
        BY DEF Reading, Extents
      <4> QED BY <1>2, <4>2, <4>3
    <3>2. \A i : i \in 0 .. next - 1 <=> i \in 0 .. current - 1 \/ i = current
      BY <1>2, <2>2
    <3>3. Lines(tokens, next) = Lines(tokens, current) \union {current}
      BY <2>2, <3>1, <3>2 DEF Lines
    <3>4. current \notin Lines(tokens, current)
      BY <1>2 DEF Lines
    <3>5. PICK c \in Nat : c = Cardinality(Lines(tokens, current)) /\ IsFiniteSet(Lines(tokens, current))
      BY <1>2, LinesFinite
    <3>6. Cardinality(Lines(tokens, next)) = c + 1
      BY <3>3, <3>4, <3>5, FS_AddElement
    <3>7. line = (1 + c) % LineValues
      BY <1>3, <3>5 DEF LineAt
    <3>8. PICK x \in Nat : x = 1 + c /\ x + 1 = 1 + (c + 1)
      BY <3>5
    <3>9. line' = (x + 1) % LineValues
      BY <1>1, <1>3, <2>2, <3>7, <3>8, CountsOn
    <3> QED BY <3>6, <3>8, <3>9 DEF LineAt
  <2> QED BY <1>1, <2>1, <2>2
<1>6. LineAt(tokens, current)' = LineAt(tokens, next)
  BY <1>1 DEF LineAt, Lines, At, Size
<1>7. \A n \in DOMAIN tokens : LineAt(tokens, tokens[n].first)' = LineAt(tokens, tokens[n].first)
  BY <1>1 DEF LineAt, Lines, At, Size
<1> QED BY <1>1, <1>4, <1>5, <1>6, <1>7 DEF Counting

\* A token behind an offset does not change which ends of lines before it
\* count.
LEMMA LinesBefore ==
    ASSUME NEW ts, NEW us, NEW before \in Int, NEW n \in Nat,
           DOMAIN ts = 1 .. n, DOMAIN us = 1 .. n + 1,
           \A m \in 1 .. n : us[m] = ts[m],
           us[n + 1].first \in Int, before <= us[n + 1].first
    PROVE  Lines(us, before) = Lines(ts, before)
<1>1. \A i \in 0 .. before - 1 : i \notin us[n + 1].first .. us[n + 1].end - 1
  OBVIOUS
<1>2. \A m : m \in 1 .. n + 1 <=> m \in 1 .. n \/ m = n + 1
  OBVIOUS
<1>3. \A i \in 0 .. before - 1 :
        (\E m \in DOMAIN us : Literal(us[m].kind) /\ i \in us[m].first .. us[m].end - 1)
          <=> \E m \in DOMAIN ts : Literal(ts[m].kind) /\ i \in ts[m].first .. ts[m].end - 1
  BY <1>1, <1>2
<1> QED BY <1>3 DEF Lines

LEMMA YieldsCounting ==
    ASSUME Reading, Counting, NEW kind, NEW first, NEW end, NEW next, NEW farthest,
           Yields(kind, first, end, next, farthest)
    PROVE  Counting'
<1>1. /\ first \in Nat /\ end \in Nat /\ next \in Nat /\ current <= first /\ first <= end
      /\ first \in {current, current + 1}
      /\ kind \notin {"error", "TK_EOF"} => current < Size
      /\ next < Size \/ kind # "error" =>
            \A i \in current .. next - 1 : At(i) = "\n" => Literal(kind) /\ i \in first .. end - 1
      /\ end <= next
  BY DEF Yields
<1>2. current' = next /\ UNCHANGED <<text, beyond, line>>
  BY DEF Yields, Return
<1>3. /\ current \in Nat /\ from \in Nat /\ from <= current /\ Size \in Nat
      /\ tokens \in Seq(Tokens)
  BY TextFacts DEF Reading, Places, Extents
<1>4. PICK tok : tok = Token(kind, first, end)
  OBVIOUS
<1>5. PICK n \in Nat : n = Len(tokens)
  BY <1>3, LenProperties
<1>6. /\ tok \in Tokens /\ current <= next
      /\ tokens' \in Seq(Tokens) /\ Len(tokens') = n + 1
      /\ \A m \in 1 .. n : tokens'[m] = tokens[m] /\ tokens[m] \in Tokens
      /\ tokens'[n + 1] = tok
  BY <1>4, <1>5, YieldsTokens
<1>7. DOMAIN tokens = 1 .. n /\ DOMAIN tokens' = 1 .. n + 1
  BY <1>3, <1>5, <1>6, LenProperties
<1>8. tok.kind = kind /\ tok.first = first /\ tok.end = end /\ tok.line = line
  BY <1>4 DEF Token
<1>9. PICK us : us = tokens'
  OBVIOUS
<1>10. ASSUME NEW before \in Int, before <= first PROVE Lines(us, before) = Lines(tokens, before)
  BY <1>1, <1>6, <1>7, <1>8, <1>9, <1>10, LinesBefore
<1>11. ASSUME next < Size PROVE line = LineAt(us, next)
  <2>1. line = LineAt(tokens, current)
    BY <1>1, <1>3, <1>6, <1>11 DEF Counting
  <2>2. ASSUME NEW i \in current .. next - 1, At(i) = "\n"
        PROVE  \E m \in DOMAIN us : Literal(us[m].kind) /\ i \in us[m].first .. us[m].end - 1
    <3>1. Literal(kind) /\ i \in first .. end - 1
      BY <1>1, <1>11, <2>2
    <3>2. n + 1 \in DOMAIN us /\ us[n + 1] = tok
      BY <1>6, <1>7, <1>9
    <3> QED BY <1>8, <3>1, <3>2
  <2>3. \A i : i \in 0 .. next - 1 <=> i \in 0 .. current - 1 \/ i \in current .. next - 1
    BY <1>3, <1>6, <1>1
  <2>4. Lines(us, next) = Lines(us, current)
    BY <2>2, <2>3 DEF Lines
  <2>5. Lines(us, current) = Lines(tokens, current)
    BY <1>1, <1>3, <1>10
  <2> QED BY <2>1, <2>4, <2>5 DEF LineAt
<1>12. ASSUME NEW m \in DOMAIN us, us[m].kind \notin {"error", "TK_EOF"}
       PROVE  us[m].line = LineAt(us, us[m].first)
  <2>1. CASE m \in 1 .. n
    <3>1. PICK u \in Tokens : u = tokens[m] /\ u = us[m] /\ m \in DOMAIN tokens
      BY <1>6, <1>7, <1>9, <2>1
    <3>2. u.line = LineAt(tokens, u.first)
      BY <1>12, <3>1 DEF Counting
    <3>3. u.first \in Nat /\ u.end \in Nat /\ EndOf(u) \in Nat /\ u.end <= EndOf(u)
      BY DEF Tokens, EndOf
    <3>4. u.first <= u.end /\ EndOf(u) <= from
      BY <3>1 DEF Reading, Extents
    <3>5. u.first <= first
      BY <1>1, <1>3, <3>3, <3>4
    <3>6. Lines(us, u.first) = Lines(tokens, u.first)
      BY <1>10, <3>3, <3>5
    <3> QED BY <3>1, <3>2, <3>6 DEF LineAt
  <2>2. CASE m = n + 1
    <3>1. us[m] = tok /\ kind \notin {"error", "TK_EOF"}
      BY <1>6, <1>8, <1>9, <1>12, <2>2
    <3>2. line = LineAt(tokens, current)
      BY <1>1, <3>1 DEF Counting
    <3>3. Lines(us, first) = Lines(tokens, first)
      BY <1>1, <1>10
    <3>4. Lines(tokens, first) = Lines(tokens, current)
      <4>1. CASE first = current
        BY <4>1
      <4>2. CASE first = current + 1
        <5>1. At(current) # "\n"
          <6>1. first <= next
            BY <1>1, <1>6
          <6>2. current \in current .. next - 1 /\ current \notin first .. end - 1
            BY <1>1, <1>3, <4>2, <6>1
          <6> QED BY <1>1, <3>1, <6>2
        <5>2. \A i : i \in 0 .. first - 1 <=> i \in 0 .. current - 1 \/ i = current
          BY <1>3, <4>2
        <5> QED BY <5>1, <5>2 DEF Lines
      <4> QED BY <1>1, <4>1, <4>2
    <3> QED BY <1>8, <3>1, <3>2, <3>3, <3>4 DEF LineAt
  <2> QED BY <1>6, <1>7, <1>9, <2>1, <2>2
<1>13. Size' = Size
  BY <1>2, SameText
<1>14. LineAt(tokens, current)' = LineAt(us, next)
  BY <1>2, <1>9 DEF LineAt, Lines, At, Size
<1>15. \A m \in DOMAIN us : LineAt(tokens, tokens[m].first)' = LineAt(us, us[m].first)
  BY <1>2, <1>9 DEF LineAt, Lines, At, Size
<1> QED BY <1>2, <1>9, <1>11, <1>12, <1>13, <1>14, <1>15 DEF Counting

LEMMA InitCounting == Init => Counting
<1> SUFFICES ASSUME Init PROVE Counting
  OBVIOUS
<1>1. tokens = <<>> /\ current = 0 /\ line = 1 % LineValues
  BY DEF Init
<1>2. Lines(tokens, current) = {}
  <2>1. 0 .. 0 - 1 = {}
    OBVIOUS
  <2> QED BY <1>1, <2>1 DEF Lines
<1>3. LineAt(tokens, current) = 1 % LineValues
  BY <1>2, FS_EmptySet DEF LineAt
<1> QED BY <1>1, <1>3 DEF Counting

LEMMA NextCounting == Reading /\ Counting /\ [Next]_vars => Counting'
<1> SUFFICES ASSUME Reading, Counting, [Next]_vars PROVE Counting'
  OBVIOUS
<1>1. CASE Next
  BY <1>1, NextMoves, AdvancesCounting, YieldsCounting DEF Moves, Reading
<1>2. CASE UNCHANGED vars
  <2>1. UNCHANGED <<text, beyond, current, line, tokens>>
    BY <1>2 DEF vars
  <2>2. LineAt(tokens, current)' = LineAt(tokens, current) /\ Size' = Size
    BY <2>1 DEF LineAt, Lines, At, Size
  <2>3. \A n \in DOMAIN tokens : LineAt(tokens, tokens[n].first)' = LineAt(tokens, tokens[n].first)
    BY <2>1 DEF LineAt, Lines, At, Size
  <2> QED BY <2>1, <2>2, <2>3 DEF Counting
<1> QED BY <1>1, <1>2

\* The line of a token counts the ends of lines before it that lie in no
\* string or character, as far as the counter goes before it wraps.
THEOREM TokenizerLinesCounted == Spec => []LinesCounted
<1>1. ASSUME Reading, Counting PROVE LinesCounted
  <2>1. SUFFICES ASSUME NEW u \in Range(tokens), u.kind \notin {"error", "TK_EOF"}
                 PROVE  u.line = (1 + Cardinality({ i \in 0 .. u.first - 1 : At(i) = "\n" /\ ~InLiteral(i) }))
                                   % LineValues
    BY DEF LinesCounted
  <2>2. PICK n \in DOMAIN tokens : u = tokens[n]
    BY DEF Range
  <2>3. u.line = LineAt(tokens, u.first)
    BY <1>1, <2>1, <2>2 DEF Counting
  <2>4. \A i : InLiteral(i) <=>
                 \E m \in DOMAIN tokens : Literal(tokens[m].kind) /\ i \in tokens[m].first .. tokens[m].end - 1
    BY DEF InLiteral, Literal, Range
  <2>5. Lines(tokens, u.first) = { i \in 0 .. u.first - 1 : At(i) = "\n" /\ ~InLiteral(i) }
    BY <2>4 DEF Lines
  <2> QED BY <2>3, <2>5 DEF LineAt
<1>2. Init => Reading /\ Counting
  BY InitReading, InitCounting
<1>3. Reading /\ Counting /\ [Next]_vars => (Reading /\ Counting)'
  BY NextReading, NextCounting
<1> QED BY <1>1, <1>2, <1>3, PTL DEF Spec
==============================================================================
