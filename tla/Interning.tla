------------------------------- MODULE Interning -------------------------------
(***************************************************************************)
(* The strings of a ch_context: src/vm/object.c makes a ch_string only for *)
(* a content that the table context->strings does not hold, so that the    *)
(* tables, which compare keys as pointers, can be asked by content.  The   *)
(* globals are a second table, whose keys are such strings.                *)
(*                                                                         *)
(* A ch_string is a record: its content and hash, the block its field      *)
(* value points to, and a number that tells objects of the same content    *)
(* apart.  A block is Program (the program's data section or the host's    *)
(* text) or one that malloc returned.                                      *)
(***************************************************************************)
EXTENDS Table, Sequences

CONSTANTS Content,     \* the contents a string may have: sequences
          HashOf,      \* ch_hash_string, any function
          Name,        \* the contents that name globals
          Value        \* the values of globals

Missing == "NULL"
Program == <<"program">>

\* The ch_strings that there may be.
String == [content : Content, hash : Nat, block : {Program} \cup (Content \X Nat), object : Nat]

ASSUME InterningAssumption ==
    /\ HashOf \in [Content -> Nat]
    /\ Name \subseteq Content
    /\ NullValue \in Value
    /\ NoKey \notin String

VARIABLES strings,    \* context->strings
          globals,    \* context->globals
          heap,       \* every ch_string that was made
          blocks,     \* the blocks of characters that are allocated
          outcome     \* the last use of a global, or "none"

vars == <<strings, globals, heap, blocks, outcome>>

Init ==
    /\ strings = EmptyTable
    /\ globals = EmptyTable
    /\ heap = {}
    /\ blocks = {}
    /\ outcome = <<"none">>

Copies(c) == { s \in heap : s.content = c }

NewString(c, block) ==
    [content |-> c, hash |-> HashOf[c], block |-> block, object |-> Cardinality(Copies(c)) + 1]

\* A block that malloc may return for a content: none of those in use.
NewBlock(c) == <<c, CHOOSE n \in 1 .. Cardinality(blocks) + 1 :
                       <<c, n>> \notin blocks /\ \A m \in 1 .. n - 1 : <<c, m>> \in blocks>>

Interned(c) == FindString(strings, c, HashOf[c])
IsInterned(c) == Interned(c) # NoKey

\* ch_loadstring: the string it returns, and what it makes.
Loaded(c, copy) ==
    IF IsInterned(c) THEN Interned(c) ELSE NewString(c, IF copy THEN NewBlock(c) ELSE Program)

\* Variant: the string is made without looking for one.
LoadAlways(c, copy) ==
    LET string == NewString(c, IF copy THEN NewBlock(c) ELSE Program)
    IN  /\ strings' = TableSet(strings, string, NullValue)
        /\ heap' = heap \union {string}
        /\ blocks' = IF copy THEN blocks \union {NewBlock(c)} ELSE blocks

Load(c, copy) ==
    LET string == Loaded(c, copy)
    IN  IF IsInterned(c) THEN UNCHANGED <<strings, heap, blocks>>
        ELSE /\ strings' = TableSet(strings, string, NullValue)
             /\ heap' = heap \union {string}
             /\ blocks' = IF copy THEN blocks \union {string.block} ELSE blocks

\* Variant: the allocated characters stay allocated when the content is known.
RegisterKeeping(c) ==
    /\ blocks' = blocks \union {NewBlock(c)}
    /\ LET string == NewString(c, NewBlock(c))
       IN  IF IsInterned(c) THEN UNCHANGED <<strings, heap>>
           ELSE strings' = TableSet(strings, string, NullValue) /\ heap' = heap \union {string}

\* register_allocated_string, for characters that were just allocated: they
\* are freed when the content is known.
Register(c) ==
    LET string == NewString(c, NewBlock(c))
    IN  IF IsInterned(c) THEN UNCHANGED <<strings, heap, blocks>>
        ELSE /\ strings' = TableSet(strings, string, NullValue)
             /\ heap' = heap \union {string}
             /\ blocks' = blocks \union {string.block}

\* ch_concatstring
Concat(left, right) ==
    /\ left.content \o right.content \in Content
    /\ Register(left.content \o right.content)
    /\ UNCHANGED <<globals, outcome>>

\* ch_substring, within its bounds
Substring(target, start, end) ==
    /\ start < end /\ end <= Len(target.content)
    /\ SubSeq(target.content, start + 1, end) \in Content
    /\ Register(SubSeq(target.content, start + 1, end))
    /\ UNCHANGED <<globals, outcome>>

\* ch_loadstring by a literal of the program or by the host
LoadString(c, copy) == Load(c, copy) /\ UNCHANGED <<globals, outcome>>

\* Variant: a definition replaces the value that the name has.
SetGlobalReplacing(c, v, create) ==
    LET name == Loaded(c, FALSE)
        found == Has(globals, name)
    IN  /\ Load(c, FALSE)
        /\ outcome' = <<IF create THEN "define" ELSE "assign", c, found # create>>
        /\ globals' = IF create \/ found THEN TableSet(globals, name, v) ELSE globals

\* set_global, with the name read_string reads
SetGlobal(c, v, create) ==
    LET name == Loaded(c, FALSE)
        found == Has(globals, name)
    IN  /\ Load(c, FALSE)
        /\ outcome' = <<IF create THEN "define" ELSE "assign", c, found # create>>
        /\ globals' = IF create /\ ~found THEN TableSet(globals, name, v)
                      ELSE IF ~create /\ found THEN TableAssign(globals, name, v)
                      ELSE globals

\* get_global: what it pushes
GetGlobal(c) ==
    LET name == Loaded(c, FALSE)
    IN  /\ Load(c, FALSE)
        /\ outcome' = <<"look", c, IF Has(globals, name) THEN TableGet(globals, name) ELSE Missing>>
        /\ UNCHANGED globals

\* ch_addnative: add_global reports a name that is already defined, after it
\* has replaced the value.
AddNative(c, v) ==
    LET name == Loaded(c, TRUE)
    IN  /\ Load(c, TRUE)
        /\ outcome' = <<"add", c, IsNew(globals, name)>>
        /\ globals' = TableSet(globals, name, v)

Next ==
    \/ \E c \in Content, copy \in BOOLEAN : LoadString(c, copy)
    \/ \E s, t \in heap : Concat(s, t)
    \/ \E s \in heap : \E start, end \in 0 .. Len(s.content) : Substring(s, start, end)
    \/ \E c \in Name, v \in Value :
         AddNative(c, v) \/ \E create \in BOOLEAN : SetGlobal(c, v, create)
    \/ \E c \in Name : GetGlobal(c)

Spec == Init /\ [][Next]_vars

------------------------------------------------------------------------------
\* Two strings of the same content are the same object, whichever way they
\* were made: comparing pointers is comparing contents.
OneObjectPerContent == \A s, t \in heap : s.content = t.content => s = t

\* Every block of characters that was allocated is some string's or has been
\* freed: whichever of its callers made it, and whether the content was known.
BlocksAreStrings == blocks = { s.block : s \in heap } \ {Program}

\* The globals as a function of names, instead of strings.
ByName(map) ==
    [c \in { s.content : s \in DOMAIN map } |-> map[CHOOSE s \in DOMAIN map : s.content = c]]

Abstract == INSTANCE Names WITH globals <- ByName(Contents(globals))

\* set_global, get_global and ch_addnative behave as on that function, though
\* each looks the name up anew among the strings.
ImplementsNames == Abstract!Spec
==============================================================================
