---------------------------- MODULE InterningProofs ----------------------------
(***************************************************************************)
(* The strings of a context are interned, whatever is loaded, concatenated *)
(* or cut out, and however the contents hash; and the globals, which are   *)
(* keyed by those strings, are a function of names.                        *)
(***************************************************************************)
EXTENDS Interning, TableProofs

Values == Value \cup {TrueValue}

(***************************************************************************)
(* The inductive invariant.  The table of strings holds exactly the        *)
(* strings that were made, so that looking for a content before making a   *)
(* string is enough to make one string of each.                            *)
(***************************************************************************)
Interns ==
    /\ heap \subseteq String /\ IsFiniteSet(heap) /\ IsFiniteSet(blocks)
    /\ \A s \in heap : s.hash = HashOf[s.content]
    /\ OneObjectPerContent
    /\ BlocksAreStrings
    /\ TableOK(strings, String, Values)
    /\ DOMAIN Contents(strings) = heap

GlobalsOK ==
    /\ TableOK(globals, String, Values)
    /\ DOMAIN Contents(globals) \subseteq heap

Inv == Interns /\ GlobalsOK

LEMMA Constants ==
    /\ NullValue \in Values /\ TrueValue \in Values /\ Value \subseteq Values
    /\ NoKey \notin String /\ \A s \in String : s.hash \in Nat
    /\ \A c \in Content : HashOf[c] \in Nat
BY InterningAssumption DEF Values, String

LEMMA EmptyContents == DOMAIN Contents(EmptyTable) = {}
<1>1. DOMAIN EmptyTable.entries = {}
  BY DEF EmptyTable
<1> QED BY <1>1 DEF Contents

LEMMA InitInv == Init => Inv
<1> SUFFICES ASSUME Init PROVE Inv
  OBVIOUS
<1>1. TableOK(EmptyTable, String, Values)
  BY Constants, EmptyTableOK
<1>2. heap = {} /\ blocks = {} /\ strings = EmptyTable /\ globals = EmptyTable
  BY DEF Init
<1> QED BY <1>1, <1>2, EmptyContents, FS_EmptySet
     DEF Inv, Interns, GlobalsOK, OneObjectPerContent, BlocksAreStrings

\* ch_table_find_string finds the string of a content, if one was made.
LEMMA InternedOK ==
    ASSUME Interns, NEW c \in Content
    PROVE  /\ \A s \in heap : s.content = c => Interned(c) = s
           /\ (\A s \in heap : s.content # c) => Interned(c) = NoKey
<1>1. /\ TableOK(strings, String, Values) /\ DOMAIN Contents(strings) = heap
      /\ heap \subseteq String /\ \A s \in heap : s.hash = HashOf[s.content]
      /\ \A s, r \in heap : s.content = r.content => s = r
  BY DEF Interns, OneObjectPerContent
<1>2. PICK t : t = strings
  OBVIOUS
<1>3. TableOK(t, String, Values) /\ Shape(t, String, Values) /\ Unique(t)
  BY <1>1, <1>2 DEF TableOK
<1>4. \A s \in String : s \in heap <=> \E i \in 0 .. t.capacity - 1 : t.entries[i].key = s
  BY <1>1, <1>2, <1>3, ContentsFacts DEF Absent
<1>5. \A i \in 0 .. t.capacity - 1 : t.entries[i].key \in String \cup {NoKey}
  BY <1>3, ShapeFacts
<1>6. \A i \in 0 .. t.capacity - 1 :
        IsString(t, i, c, HashOf[c]) => t.entries[i].key \in heap /\ t.entries[i].key.content = c
  BY <1>4, <1>5 DEF IsString
<1>7. Interned(c) = FindString(t, c, HashOf[c])
  BY <1>2 DEF Interned
<1>8. ASSUME NEW s \in heap, s.content = c
      PROVE  Interned(c) = s
  <2>1. PICK i \in 0 .. t.capacity - 1 : t.entries[i].key = s
    BY <1>1, <1>4
  <2>2. IsString(t, i, c, HashOf[c])
    BY <1>1, <1>8, <2>1, Constants DEF IsString
  <2>3. \A j \in 0 .. t.capacity - 1 :
          IsString(t, j, c, HashOf[c]) => t.entries[j].key = t.entries[i].key
    BY <1>1, <1>6, <1>8, <2>1
  <2> QED BY <1>3, <1>7, <2>1, <2>2, <2>3, FindStringPresent
<1>9. ASSUME \A s \in heap : s.content # c
      PROVE  Interned(c) = NoKey
  <2>1. \A j \in 0 .. t.capacity - 1 : ~IsString(t, j, c, HashOf[c])
    BY <1>6, <1>9
  <2>2. HashOf[c] \in Int
    BY Constants
  <2> QED BY <1>3, <1>7, <2>1, <2>2, FindStringAbsent
<1> QED BY <1>8, <1>9

\* malloc returns a block that is not in use: there is always one.
LEMMA NewBlockOK ==
    ASSUME IsFiniteSet(blocks), NEW c \in Content
    PROVE  NewBlock(c) \in Content \X Nat /\ NewBlock(c) \notin blocks
<1>1. PICK k \in Nat : k = Cardinality(blocks)
  BY FS_CardinalityType
<1> DEFINE S == { n \in 1 .. k + 1 : <<c, n>> \notin blocks }
<1>2. ASSUME S = {} PROVE FALSE
  <2>1. PICK f : f = [n \in 1 .. k + 1 |-> <<c, n>>]
    OBVIOUS
  <2>2. f \in [1 .. k + 1 -> blocks]
    BY <1>2, <2>1
  <2>3. \A m, n \in 1 .. k + 1 : f[m] = f[n] => m = n
    BY <2>1
  <2>4. IsFiniteSet(1 .. k + 1) /\ Cardinality(1 .. k + 1) = k + 1
    <3>1. 1 \in Int /\ k + 1 \in Int
      BY <1>1
    <3> QED BY <1>1, <3>1, FS_Interval
  <2>5. \E m, n \in 1 .. k + 1 : m # n /\ f[m] = f[n]
    BY <1>1, <2>2, <2>4, FS_PigeonHole
  <2> QED BY <2>3, <2>5
<1>3. PICK n \in S : \A m \in S : n <= m
  <2>1. S \subseteq Nat
    BY <1>1
  <2> HIDE DEF S
  <2> QED BY <1>2, <2>1, LeastMember
<1>4. /\ n \in 1 .. Cardinality(blocks) + 1
      /\ <<c, n>> \notin blocks /\ \A m \in 1 .. n - 1 : <<c, m>> \in blocks
  BY <1>1, <1>3
<1>5. PICK r \in 1 .. k + 1 : NewBlock(c) = <<c, r>> /\ <<c, r>> \notin blocks
  BY <1>1, <1>4 DEF NewBlock
<1> QED BY <1>1, <1>5

LEMMA NewStringOK ==
    ASSUME Interns, NEW c \in Content, NEW block \in {Program} \cup (Content \X Nat)
    PROVE  /\ NewString(c, block) \in String
           /\ NewString(c, block).content = c
           /\ NewString(c, block).hash = HashOf[c]
           /\ NewString(c, block).block = block
<1>1. Copies(c) \in SUBSET heap /\ IsFiniteSet(heap)
  BY DEF Interns, Copies
<1>2. IsFiniteSet(Copies(c))
  BY <1>1, FS_Subset
<1>3. Cardinality(Copies(c)) \in Nat
  BY <1>2, FS_CardinalityType
<1> QED BY <1>3, Constants DEF NewString, String

------------------------------------------------------------------------------
(***************************************************************************)
(* Making strings                                                          *)
(***************************************************************************)
\* A string of a new content enters the table, the heap and, unless it is the
\* program's, the blocks.
LEMMA MakeOK ==
    ASSUME Interns, NEW s \in String, s.hash = HashOf[s.content],
           \A r \in heap : r.content # s.content,
           strings' = TableSet(strings, s, NullValue),
           heap' = heap \union {s},
           blocks' = IF s.block = Program THEN blocks ELSE blocks \union {s.block}
    PROVE  Interns'
<1>1. /\ TableOK(strings, String, Values) /\ DOMAIN Contents(strings) = heap
      /\ heap \subseteq String /\ IsFiniteSet(heap) /\ IsFiniteSet(blocks)
      /\ \A r \in heap : r.hash = HashOf[r.content]
      /\ \A q, r \in heap : q.content = r.content => q = r
      /\ blocks = { r.block : r \in heap } \ {Program}
  BY DEF Interns, OneObjectPerContent, BlocksAreStrings
<1>2. TableOK(strings', String, Values)
      /\ Contents(strings') = With(Contents(strings), s, NullValue)
  BY <1>1, Constants, SetOK
<1>3. DOMAIN Contents(strings') = heap'
  BY <1>1, <1>2 DEF With
<1>4. heap' \subseteq String /\ IsFiniteSet(heap') /\ IsFiniteSet(blocks')
  BY <1>1, FS_AddElement
<1>5. \A r \in heap' : r.hash = HashOf[r.content]
  BY <1>1
<1>6. \A q, r \in heap' : q.content = r.content => q = r
  BY <1>1
<1>7. blocks' = { r.block : r \in heap' } \ {Program}
  BY <1>1
<1> QED BY <1>2, <1>3, <1>4, <1>5, <1>6, <1>7 DEF Interns, OneObjectPerContent, BlocksAreStrings

\* ch_loadstring returns the only string of its content.
LEMMA LoadOK ==
    ASSUME Interns, NEW c \in Content, NEW copy \in BOOLEAN, Load(c, copy)
    PROVE  /\ Interns'
           /\ heap \subseteq heap'
           /\ Loaded(c, copy) \in heap' /\ Loaded(c, copy).content = c
           /\ Loaded(c, copy) \in String
<1>1. heap \subseteq String /\ IsFiniteSet(blocks) /\ NoKey \notin String
  BY Constants DEF Interns
<1>2. CASE \E s \in heap : s.content = c
  <2>1. PICK s \in heap : s.content = c
    BY <1>2
  <2>2. Interned(c) = s /\ s # NoKey
    BY <1>1, <2>1, InternedOK
  <2>3. IsInterned(c) /\ Loaded(c, copy) = s
    BY <2>2 DEF IsInterned, Loaded
  <2>4. UNCHANGED <<strings, heap, blocks>>
    BY <2>3 DEF Load
  <2> QED BY <1>1, <2>1, <2>3, <2>4 DEF Interns, OneObjectPerContent, BlocksAreStrings
<1>3. CASE \A s \in heap : s.content # c
  <2>1. ~IsInterned(c)
    BY <1>3, InternedOK DEF IsInterned
  <2>2. PICK block : block = IF copy THEN NewBlock(c) ELSE Program
    OBVIOUS
  <2>3. NewBlock(c) \in Content \X Nat
    BY <1>1, NewBlockOK
  <2>4. block \in {Program} \cup (Content \X Nat) /\ (block = Program <=> ~copy)
    BY <2>2, <2>3 DEF Program
  <2>5. PICK s : s = NewString(c, block)
    OBVIOUS
  <2>6. s \in String /\ s.content = c /\ s.hash = HashOf[c] /\ s.block = block
    BY <2>4, <2>5, NewStringOK
  <2>7. Loaded(c, copy) = s
    BY <2>1, <2>2, <2>5 DEF Loaded
  <2>8. /\ strings' = TableSet(strings, s, NullValue)
        /\ heap' = heap \union {s}
        /\ blocks' = IF copy THEN blocks \union {s.block} ELSE blocks
    BY <2>1, <2>7 DEF Load
  <2>9. blocks' = IF s.block = Program THEN blocks ELSE blocks \union {s.block}
    BY <2>4, <2>6, <2>8
  <2>10. Interns'
    BY <1>3, <2>6, <2>8, <2>9, MakeOK
  <2> QED BY <2>6, <2>7, <2>8, <2>10
<1> QED BY <1>2, <1>3

\* register_allocated_string
LEMMA RegisterOK ==
    ASSUME Interns, NEW c \in Content, Register(c)
    PROVE  Interns' /\ heap \subseteq heap'
<1>1. heap \subseteq String /\ IsFiniteSet(blocks) /\ NoKey \notin String
  BY Constants DEF Interns
<1>2. CASE \E s \in heap : s.content = c
  <2>1. PICK s \in heap : s.content = c
    BY <1>2
  <2>2. Interned(c) = s /\ s # NoKey
    BY <1>1, <2>1, InternedOK
  <2>3. UNCHANGED <<strings, heap, blocks>>
    BY <2>2 DEF Register, IsInterned
  <2> QED BY <2>3 DEF Interns, OneObjectPerContent, BlocksAreStrings
<1>3. CASE \A s \in heap : s.content # c
  <2>1. ~IsInterned(c)
    BY <1>3, InternedOK DEF IsInterned
  <2>2. PICK block : block = NewBlock(c)
    OBVIOUS
  <2>3. block \in Content \X Nat
    BY <1>1, <2>2, NewBlockOK
  <2>4. block # Program
    BY <2>3 DEF Program
  <2>5. PICK s : s = NewString(c, block)
    OBVIOUS
  <2>6. s \in String /\ s.content = c /\ s.hash = HashOf[c] /\ s.block = block
    BY <2>3, <2>5, NewStringOK
  <2>7. /\ strings' = TableSet(strings, s, NullValue)
        /\ heap' = heap \union {s}
        /\ blocks' = blocks \union {s.block}
    BY <2>1, <2>2, <2>5 DEF Register
  <2>8. blocks' = IF s.block = Program THEN blocks ELSE blocks \union {s.block}
    BY <2>4, <2>6, <2>7
  <2> QED BY <1>3, <2>6, <2>7, <2>8, MakeOK
<1> QED BY <1>2, <1>3

------------------------------------------------------------------------------
(***************************************************************************)
(* Globals by name                                                         *)
(***************************************************************************)
\* No two strings of S have the same content.
OneEach(S) == \A s, r \in S : s.content = r.content => s = r

LEMMA ByNameFacts ==
    ASSUME NEW m, OneEach(DOMAIN m)
    PROVE  /\ ByName(m) = [c \in DOMAIN ByName(m) |-> ByName(m)[c]]
           /\ \A c : c \in DOMAIN ByName(m) <=> \E s \in DOMAIN m : s.content = c
           /\ \A s \in DOMAIN m : ByName(m)[s.content] = m[s]
<1> DEFINE C == { s.content : s \in DOMAIN m }
           Of(c) == CHOOSE s \in DOMAIN m : s.content = c
<1>1. PICK b : b = ByName(m)
  OBVIOUS
<1>2. b = [c \in C |-> m[Of(c)]]
  BY <1>1 DEF ByName
<1>3. \A s \in DOMAIN m : Of(s.content) = s
  BY DEF OneEach
<1>4. DOMAIN b = C /\ \A c \in C : b[c] = m[Of(c)]
  BY <1>2
<1>5. b = [c \in DOMAIN b |-> b[c]]
  BY <1>2
<1>6. \A s \in DOMAIN m : s.content \in C /\ b[s.content] = m[s]
  BY <1>3, <1>4
<1> QED BY <1>1, <1>4, <1>5, <1>6

\* Setting a string sets its name.
LEMMA ByNameWith ==
    ASSUME NEW m, NEW s, OneEach(DOMAIN m \union {s}), NEW v
    PROVE  ByName(With(m, s, v)) = With(ByName(m), s.content, v)
<1>1. PICK n : n = With(m, s, v)
  OBVIOUS
<1>2. DOMAIN n = DOMAIN m \union {s} /\ \A r \in DOMAIN n : n[r] = IF r = s THEN v ELSE m[r]
  BY <1>1 DEF With
<1>3. OneEach(DOMAIN m) /\ OneEach(DOMAIN n)
  BY <1>2 DEF OneEach
<1>4. PICK b, d : b = ByName(m) /\ d = ByName(n)
  OBVIOUS
<1>5. /\ \A c : c \in DOMAIN b <=> \E r \in DOMAIN m : r.content = c
      /\ \A r \in DOMAIN m : b[r.content] = m[r]
  BY <1>3, <1>4, ByNameFacts
<1>6. /\ d = [c \in DOMAIN d |-> d[c]]
      /\ \A c : c \in DOMAIN d <=> \E r \in DOMAIN n : r.content = c
      /\ \A r \in DOMAIN n : d[r.content] = n[r]
  BY <1>3, <1>4, ByNameFacts
<1>7. DOMAIN d = DOMAIN b \union {s.content}
  <2>1. \A r : r \in DOMAIN n <=> r \in DOMAIN m \/ r = s
    BY <1>2
  <2>2. \A c : c \in DOMAIN d <=> c \in DOMAIN b \/ c = s.content
    BY <1>5, <1>6, <2>1
  <2> QED BY <2>2
<1>8. ASSUME NEW c \in DOMAIN d PROVE d[c] = IF c = s.content THEN v ELSE b[c]
  <2>1. PICK r \in DOMAIN n : r.content = c
    BY <1>6
  <2>2. d[c] = n[r]
    BY <1>6, <2>1
  <2>3. CASE r = s
    BY <1>2, <2>1, <2>2, <2>3
  <2>4. CASE r # s
    <3>1. r \in DOMAIN m /\ c # s.content
      BY <1>2, <2>1, <2>4 DEF OneEach
    <3> QED BY <1>2, <1>5, <2>1, <2>2, <2>4, <3>1
  <2> QED BY <2>3, <2>4
<1>9. d = With(b, s.content, v)
  BY <1>6, <1>7, <1>8 DEF With
<1> QED BY <1>1, <1>4, <1>9

\* A name is defined when its string is a key of the globals, whether that
\* string was made before or just now.
LEMMA NamedOK ==
    ASSUME Interns, GlobalsOK, NEW c \in Content, NEW copy \in BOOLEAN, Load(c, copy),
           NEW s, s = Loaded(c, copy)
    PROVE  /\ s \in String /\ s.content = c
           /\ OneEach(DOMAIN Contents(globals) \union {s})
           /\ Has(globals, s) <=> c \in DOMAIN ByName(Contents(globals))
           /\ IsNew(globals, s) <=> c \notin DOMAIN ByName(Contents(globals))
           /\ Has(globals, s) => TableGet(globals, s) = ByName(Contents(globals))[c]
<1>1. /\ Interns' /\ heap \subseteq heap'
      /\ s \in heap' /\ s.content = c /\ s \in String
  BY LoadOK
<1>2. TableOK(globals, String, Values) /\ DOMAIN Contents(globals) \subseteq heap
  BY DEF GlobalsOK
<1>3. \A q, r \in heap' : q.content = r.content => q = r
  BY <1>1 DEF Interns, OneObjectPerContent
<1>4. PICK m : m = Contents(globals)
  OBVIOUS
<1>5. OneEach(DOMAIN m \union {s}) /\ OneEach(DOMAIN m)
  BY <1>1, <1>2, <1>3, <1>4 DEF OneEach
<1>6. s \in DOMAIN m <=> c \in DOMAIN ByName(m)
  BY <1>1, <1>5, ByNameFacts DEF OneEach
<1>7. Has(globals, s) <=> s \in DOMAIN m
  BY <1>1, <1>2, <1>4, HasOK
<1>8. IsNew(globals, s) <=> s \notin DOMAIN m
  BY <1>1, <1>2, <1>4, Constants, SetOK
<1>9. Has(globals, s) => TableGet(globals, s) = m[s]
  BY <1>1, <1>2, <1>4, GetOK
<1>10. s \in DOMAIN m => ByName(m)[c] = m[s]
  BY <1>1, <1>5, ByNameFacts
<1> QED BY <1>1, <1>4, <1>5, <1>6, <1>7, <1>8, <1>9, <1>10

\* What a table of globals becomes by a value that is set or assigned.
LEMMA GlobalSet ==
    ASSUME GlobalsOK, NEW s \in String, s \in heap', heap \subseteq heap', NEW v \in Value,
           \/ globals' = TableSet(globals, s, v)
           \/ Has(globals, s) /\ globals' = TableAssign(globals, s, v)
    PROVE  /\ GlobalsOK'
           /\ Contents(globals') = With(Contents(globals), s, v)
<1>1. TableOK(globals, String, Values) /\ DOMAIN Contents(globals) \subseteq heap
  BY DEF GlobalsOK
<1>2. v \in Values
  BY Constants
<1>3. TableOK(globals', String, Values) /\ Contents(globals') = With(Contents(globals), s, v)
  <2>1. CASE globals' = TableSet(globals, s, v)
    BY <1>1, <1>2, <2>1, Constants, SetOK
  <2>2. CASE Has(globals, s) /\ globals' = TableAssign(globals, s, v)
    BY <1>1, <1>2, <2>2, AssignOK
  <2> QED BY <2>1, <2>2
<1>4. DOMAIN Contents(globals') \subseteq heap'
  BY <1>1, <1>3 DEF With
<1> QED BY <1>3, <1>4 DEF GlobalsOK

------------------------------------------------------------------------------
(***************************************************************************)
(* The steps                                                               *)
(***************************************************************************)
LEMMA SameGlobals ==
    ASSUME GlobalsOK, UNCHANGED globals, heap \subseteq heap'
    PROVE  GlobalsOK'
BY DEF GlobalsOK

LEMMA SetGlobalInv ==
    ASSUME Inv, NEW c \in Name, NEW v \in Value, NEW create \in BOOLEAN, SetGlobal(c, v, create)
    PROVE  Inv' /\ (Abstract!Define(c, v) \/ Abstract!Assign(c, v))
<1>1. PICK s : s = Loaded(c, FALSE)
  OBVIOUS
<1> PICK found \in BOOLEAN : found = Has(globals, s)
  BY HasIsBoolean
<1>2. /\ Load(c, FALSE) /\ c \in Content
      /\ outcome' = <<IF create THEN "define" ELSE "assign", c, found # create>>
      /\ globals' = IF create /\ ~found THEN TableSet(globals, s, v)
                    ELSE IF ~create /\ found THEN TableAssign(globals, s, v)
                    ELSE globals
  BY <1>1, InterningAssumption DEF SetGlobal
<1>3. Interns /\ GlobalsOK
  BY DEF Inv
<1>4. /\ Interns' /\ heap \subseteq heap' /\ s \in heap'
  BY <1>1, <1>2, <1>3, LoadOK
<1>5. PICK m, b : m = Contents(globals) /\ b = ByName(m)
  OBVIOUS
<1>6. /\ s \in String /\ s.content = c
      /\ OneEach(DOMAIN m \union {s})
      /\ found <=> c \in DOMAIN b
  BY <1>1, <1>2, <1>3, <1>5, NamedOK
<1>7. ByName(With(m, s, v)) = With(b, c, v)
  BY <1>5, <1>6, ByNameWith
<1>8. found \in BOOLEAN
  OBVIOUS
<1>9. CASE create = found
  <2>1. globals' = globals
    BY <1>2, <1>9
  <2>2. GlobalsOK'
    BY <1>3, <1>4, <2>1, SameGlobals
  <2>3. CASE create
    <3>1. c \in DOMAIN b /\ outcome' = <<"define", c, c \notin DOMAIN b>>
      BY <1>2, <1>6, <1>9, <2>3
    <3>2. Abstract!Define(c, v)
      BY <1>5, <2>1, <3>1 DEF Abstract!Define
    <3> QED BY <1>4, <2>2, <3>2 DEF Inv
  <2>4. CASE ~create
    <3>1. c \notin DOMAIN b /\ outcome' = <<"assign", c, c \in DOMAIN b>>
      BY <1>2, <1>6, <1>9, <2>4
    <3>2. Abstract!Assign(c, v)
      BY <1>5, <2>1, <3>1 DEF Abstract!Assign
    <3> QED BY <1>4, <2>2, <3>2 DEF Inv
  <2> QED BY <2>3, <2>4
<1>10. CASE create # found
  <2>1. globals' = TableSet(globals, s, v) \/ (found /\ globals' = TableAssign(globals, s, v))
    BY <1>2, <1>8, <1>10
  <2>2. GlobalsOK' /\ Contents(globals') = With(m, s, v)
    BY <1>1, <1>3, <1>4, <1>5, <1>6, <2>1, GlobalSet
  <2>3. ByName(Contents(globals')) = With(b, c, v)
    BY <1>7, <2>2
  <2>4. CASE create
    <3>1. c \notin DOMAIN b /\ outcome' = <<"define", c, c \notin DOMAIN b>>
      BY <1>2, <1>6, <1>8, <1>10, <2>4
    <3>2. Abstract!Define(c, v)
      BY <1>5, <2>3, <3>1 DEF Abstract!Define, Abstract!With, With
    <3> QED BY <1>4, <2>2, <3>2 DEF Inv
  <2>5. CASE ~create
    <3>1. c \in DOMAIN b /\ outcome' = <<"assign", c, c \in DOMAIN b>>
      BY <1>2, <1>6, <1>8, <1>10, <2>5
    <3>2. Abstract!Assign(c, v)
      BY <1>5, <2>3, <3>1 DEF Abstract!Assign, Abstract!With, With
    <3> QED BY <1>4, <2>2, <3>2 DEF Inv
  <2> QED BY <2>4, <2>5
<1> QED BY <1>9, <1>10

LEMMA AddNativeInv ==
    ASSUME Inv, NEW c \in Name, NEW v \in Value, AddNative(c, v)
    PROVE  Inv' /\ Abstract!Add(c, v)
<1>1. PICK s : s = Loaded(c, TRUE)
  OBVIOUS
<1>2. /\ Load(c, TRUE) /\ c \in Content
      /\ outcome' = <<"add", c, IsNew(globals, s)>>
      /\ globals' = TableSet(globals, s, v)
  BY <1>1, InterningAssumption DEF AddNative
<1>3. Interns /\ GlobalsOK
  BY DEF Inv
<1>4. /\ Interns' /\ heap \subseteq heap' /\ s \in heap'
  BY <1>1, <1>2, <1>3, LoadOK
<1>5. PICK m, b : m = Contents(globals) /\ b = ByName(m)
  OBVIOUS
<1>6. /\ s \in String /\ s.content = c
      /\ OneEach(DOMAIN m \union {s})
      /\ IsNew(globals, s) <=> c \notin DOMAIN b
  BY <1>1, <1>2, <1>3, <1>5, NamedOK
<1>7. IsNew(globals, s) = (c \notin DOMAIN b)
  BY <1>6, Zenon DEF IsNew
<1>8. GlobalsOK' /\ Contents(globals') = With(m, s, v)
  BY <1>2, <1>3, <1>4, <1>5, <1>6, GlobalSet
<1>9. ByName(Contents(globals')) = With(b, c, v)
  BY <1>5, <1>6, <1>8, ByNameWith
<1>10. Abstract!Add(c, v)
  BY <1>2, <1>5, <1>7, <1>9 DEF Abstract!Add, Abstract!With, With
<1> QED BY <1>4, <1>8, <1>10 DEF Inv

LEMMA GetGlobalInv ==
    ASSUME Inv, NEW c \in Name, GetGlobal(c)
    PROVE  Inv' /\ Abstract!Look(c)
<1>1. PICK s : s = Loaded(c, FALSE)
  OBVIOUS
<1>2. /\ Load(c, FALSE) /\ c \in Content
      /\ outcome' = <<"look", c, IF Has(globals, s) THEN TableGet(globals, s) ELSE Missing>>
      /\ globals' = globals
  BY <1>1, InterningAssumption DEF GetGlobal
<1>3. Interns /\ GlobalsOK
  BY DEF Inv
<1>4. Interns' /\ heap \subseteq heap'
  BY <1>2, <1>3, LoadOK
<1>5. PICK b : b = ByName(Contents(globals))
  OBVIOUS
<1>6. /\ Has(globals, s) <=> c \in DOMAIN b
      /\ Has(globals, s) => TableGet(globals, s) = b[c]
  BY <1>1, <1>2, <1>3, <1>5, NamedOK
<1>7. Abstract!Look(c)
  BY <1>2, <1>5, <1>6 DEF Abstract!Look
<1> QED BY <1>2, <1>3, <1>4, <1>7, SameGlobals DEF Inv

LEMMA StepOK ==
    ASSUME Inv, [Next]_vars
    PROVE  Inv' /\ [Abstract!Next]_(Abstract!vars)
<1>1. Interns /\ GlobalsOK
  BY DEF Inv
<1>2. ASSUME NEW c \in Content, UNCHANGED <<globals, outcome>>,
             (\E copy \in BOOLEAN : Load(c, copy)) \/ Register(c)
      PROVE  Inv' /\ UNCHANGED Abstract!vars
  <2>1. Interns' /\ heap \subseteq heap'
    BY <1>1, <1>2, LoadOK, RegisterOK
  <2>2. GlobalsOK'
    BY <1>1, <1>2, <2>1, SameGlobals
  <2>3. globals' = globals /\ outcome' = outcome
    BY <1>2
  <2> QED BY <2>1, <2>2, <2>3 DEF Inv, Abstract!vars
<1>3. CASE \E c \in Content, copy \in BOOLEAN : LoadString(c, copy)
  BY <1>2, <1>3 DEF LoadString
<1>4. CASE \E s, t \in heap : Concat(s, t)
  BY <1>2, <1>4 DEF Concat
<1>5. CASE \E s \in heap : \E start, end \in 0 .. Len(s.content) : Substring(s, start, end)
  BY <1>2, <1>5 DEF Substring
<1>6. CASE \E c \in Name, v \in Value :
             AddNative(c, v) \/ \E create \in BOOLEAN : SetGlobal(c, v, create)
  BY <1>6, AddNativeInv, SetGlobalInv DEF Abstract!Next
<1>7. CASE \E c \in Name : GetGlobal(c)
  BY <1>7, GetGlobalInv DEF Abstract!Next
<1>8. CASE UNCHANGED vars
  <2>1. /\ strings' = strings /\ globals' = globals /\ heap' = heap
        /\ blocks' = blocks /\ outcome' = outcome
    BY <1>8 DEF vars
  <2> QED BY <2>1, <1>1 DEF Inv, Interns, GlobalsOK, OneObjectPerContent, BlocksAreStrings,
                            Abstract!vars
<1> QED BY <1>3, <1>4, <1>5, <1>6, <1>7, <1>8 DEF Next

LEMMA SpecInv == Spec => []Inv
BY InitInv, StepOK, PTL DEF Spec

------------------------------------------------------------------------------
\* Comparing two ch_string pointers compares their contents, for any hash
\* function and whichever way the strings were made.
THEOREM InterningOneObject == Spec => []OneObjectPerContent
<1>1. Inv => OneObjectPerContent
  BY DEF Inv, Interns
<1> QED BY <1>1, SpecInv, PTL

\* No characters of a string are freed and none are leaked.
THEOREM InterningBlocks == Spec => []BlocksAreStrings
<1>1. Inv => BlocksAreStrings
  BY DEF Inv, Interns
<1> QED BY <1>1, SpecInv, PTL

LEMMA InitIsNames ==
    ASSUME Init PROVE Abstract!Init
<1>1. PICK b : b = ByName(Contents(globals))
  OBVIOUS
<1>2. DOMAIN Contents(globals) = {}
  BY EmptyContents DEF Init
<1>3. b = [c \in DOMAIN b |-> b[c]] /\ DOMAIN b = {}
  BY <1>1, <1>2 DEF ByName
<1>4. b = [n \in {} |-> Missing]
  BY <1>3
<1> QED BY <1>1, <1>4 DEF Init, Abstract!Init

\* A program and its host see one value for each name, though each use of a
\* global finds or makes the name's string first and two tables are searched.
THEOREM SpecImplementsNames == Spec => ImplementsNames
BY InitIsNames, StepOK, SpecInv, PTL DEF Spec, ImplementsNames, Abstract!Spec
==============================================================================
