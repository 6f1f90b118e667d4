----------------------------- MODULE EmitterProofs -----------------------------
(***************************************************************************)
(* The emitter, for programs of any size and blocks of any first size: no  *)
(* write leaves a block that realloc has not moved, and what the compiler  *)
(* wrote into the program is what the VM reads from it.                    *)
(***************************************************************************)
EXTENDS Emitter, TableProofs, SequenceTheorems

------------------------------------------------------------------------------
(***************************************************************************)
(* Numbers                                                                 *)
(***************************************************************************)
\* What four bytes can say.
Int32 == { n \in Int : -2147483648 <= n /\ n <= 2147483647 }

LEMMA LittleEndianBytes ==
    ASSUME NEW n \in Int
    PROVE  LittleEndian(n) \in Seq(Byte) /\ Len(LittleEndian(n)) = 4
<1>1. /\ n % 256 \in Byte /\ (n \div 256) % 256 \in Byte
      /\ (n \div 65536) % 256 \in Byte /\ (n \div 16777216) % 256 \in Byte
  BY SMT DEF Byte
<1> QED BY <1>1, SMT DEF LittleEndian

LEMMA FourDigits ==
    ASSUME NEW n \in Int
    PROVE  n = (n % 256) + 256 * ((n \div 256) % 256) + 65536 * ((n \div 65536) % 256)
                 + 16777216 * (n \div 16777216)
BY SMT

\* The sign is in the last of the four bytes.
LEMMA TopByte ==
    ASSUME NEW n \in Int32, NEW d, d = (n \div 16777216) % 256
    PROVE  n \div 16777216 = IF d < 128 THEN d ELSE d - 256
<1>1. n \in Int /\ n <= 2147483647 /\ -2147483648 <= n
  BY SMT DEF Int32
<1>2. PICK q \in Int : q = n \div 16777216
  BY <1>1, SMT
<1>3. q <= 127 /\ q >= -128
  BY <1>1, <1>2, SMT
<1>4. d = q % 256 /\ d \in Int
  BY <1>2, SMT
<1>5. q = IF d < 128 THEN d ELSE d - 256
  BY <1>3, <1>4, SMT
<1> QED BY <1>2, <1>5, SMT

\* A number that four bytes can say is read back as it was written.
LEMMA ReadBack ==
    ASSUME NEW n \in Int32, NEW bytes, NEW at \in Nat,
           \A i \in 1 .. 4 : bytes[at + i] = LittleEndian(n)[i]
    PROVE  ReadPtr(bytes, at) = n
<1>1. n \in Int
  BY SMT DEF Int32
<1>2. PICK a, b, c, d, q \in Int : /\ a = n % 256 /\ b = (n \div 256) % 256
                                   /\ c = (n \div 65536) % 256 /\ d = (n \div 16777216) % 256
                                   /\ q = n \div 16777216
  BY <1>1, SMT
<1>3. PICK e : e = LittleEndian(n)
  OBVIOUS
<1>4. e[1] = a /\ e[2] = b /\ e[3] = c /\ e[4] = d
  BY <1>2, <1>3, SMT DEF LittleEndian
<1>5. bytes[at + 1] = a /\ bytes[at + 2] = b /\ bytes[at + 3] = c /\ bytes[at + 4] = d
  BY <1>3, <1>4, SMT
<1>6. n = a + 256 * b + 65536 * c + 16777216 * q
  BY <1>1, <1>2, FourDigits, SMT
<1>7. q = IF d < 128 THEN d ELSE d - 256
  BY <1>2, TopByte, SMT
<1> HIDE <1>2
<1>8. a + 256 * (b + 256 * (c + 256 * q)) = n
  BY <1>6, SMT
<1> QED BY <1>5, <1>7, <1>8, SMT DEF ReadPtr

------------------------------------------------------------------------------
(***************************************************************************)
(* Blobs                                                                   *)
(***************************************************************************)
\* The room is never less than what was written, nor than the size that
\* decides about growing, which stays what it was at first.
BlobRecord == [start : Nat, current : [block : Nat, offset : Nat],
               size : Nat, room : Nat, bytes : Seq(Byte), astray : BOOLEAN]

Counted(b) ==
    /\ b \in BlobRecord
    /\ b.size = InitialSize /\ InitialSize <= b.room
    /\ b.current.offset = Len(b.bytes)
    /\ b.current.block <= b.start

\* Between the writes a blob has gone astray if it dangles, and only then.
BlobOK(b) == /\ Counted(b) /\ Len(b.bytes) <= b.room
             /\ b.astray <=> ~PointsIntoBlock(b)

LEMMA MaxOfTwo ==
    ASSUME NEW a \in Nat, NEW b \in Nat
    PROVE  Max({a, b}) \in Nat /\ a <= Max({a, b}) /\ b <= Max({a, b})
<1>1. \E x \in {a, b} : \A y \in {a, b} : x >= y
  OBVIOUS
<1>2. Max({a, b}) \in {a, b} /\ \A y \in {a, b} : Max({a, b}) >= y
  BY <1>1 DEF Max
<1> QED BY <1>2

LEMMA CreateBlobOK == BlobOK(CreateBlob) /\ PointsIntoBlock(CreateBlob) /\ CreateBlob.bytes = <<>>
<1>1. InitialSize \in Nat
  BY BlobAssumption
<1>2. <<>> \in Seq(Byte) /\ Len(<<>>) = 0
  OBVIOUS
<1> QED BY <1>1, <1>2 DEF CreateBlob, BlobOK, Counted, BlobRecord, PointsIntoBlock

LEMMA ReallocatedOK ==
    ASSUME NEW b, BlobOK(b), NEW n \in Nat, NEW moves \in BOOLEAN
    PROVE  /\ Counted(Reallocated(b, n, moves))
           /\ Reallocated(b, n, moves).bytes = b.bytes
           /\ Reallocated(b, n, moves).astray = b.astray
           /\ Len(b.bytes) + n <= Reallocated(b, n, moves).room
           /\ PointsIntoBlock(Reallocated(b, n, moves)) => PointsIntoBlock(b)
<1>1. /\ b \in [start : Nat, current : [block : Nat, offset : Nat],
                size : Nat, room : Nat, bytes : Seq(Byte), astray : BOOLEAN]
      /\ b.size = InitialSize /\ InitialSize <= b.room
      /\ b.current.offset = Len(b.bytes) /\ Len(b.bytes) <= b.room
      /\ b.current.block <= b.start
      /\ InitialSize \in Nat \ {0} /\ Growth \in Nat \ {0}
  BY BlobAssumption DEF BlobOK, Counted, BlobRecord
<1>2. PICK r : r = Reallocated(b, n, moves)
  OBVIOUS
<1>3. PICK len \in Nat : len = Len(b.bytes)
  BY <1>1
<1>4. CASE ~MustReallocate(b, n)
  <2>1. r = b
    BY <1>2, <1>4 DEF Reallocated
  <2>2. len + n <= b.room
    BY <1>1, <1>3, <1>4 DEF MustReallocate, ContentSize
  <2> QED BY <1>2, <1>3, <2>1, <2>2 DEF BlobOK
<1>5. CASE MustReallocate(b, n)
  <2>1. InitialSize * Growth \in Nat /\ InitialSize <= InitialSize * Growth
    BY <1>1
  <2>2. PICK room \in Nat : /\ room = Max({b.size * Growth, ContentSize(b) + n})
                            /\ InitialSize <= room /\ len + n <= room
    <3>1. b.size * Growth \in Nat /\ ContentSize(b) + n \in Nat
      BY <1>1, <1>3, <2>1 DEF ContentSize
    <3>2. /\ Max({b.size * Growth, ContentSize(b) + n}) \in Nat
          /\ b.size * Growth <= Max({b.size * Growth, ContentSize(b) + n})
          /\ ContentSize(b) + n <= Max({b.size * Growth, ContentSize(b) + n})
      BY <3>1, MaxOfTwo
    <3> QED BY <1>1, <1>3, <2>1, <3>1, <3>2 DEF ContentSize
  <2>3. PICK start \in Nat : start = IF moves THEN b.start + 1 ELSE b.start
    BY <1>1
  <2>4. r = [b EXCEPT !.room = room, !.start = start]
    BY <1>1, <1>2, <1>5, <2>2, <2>3 DEF Reallocated
  <2>5. /\ r.start = start /\ r.current = b.current /\ r.size = b.size
        /\ r.room = room /\ r.bytes = b.bytes /\ r.astray = b.astray
    BY <1>1, <2>4
  <2>6. r \in BlobRecord
    BY <1>1, <2>4 DEF BlobRecord
  <2>7. b.current.block <= start /\ (b.current.block = start => b.current.block = b.start)
    BY <1>1, <2>3
  <2>8. Counted(r)
    BY <1>1, <1>3, <2>2, <2>5, <2>6, <2>7 DEF Counted
  <2> QED BY <1>2, <1>3, <2>2, <2>5, <2>7, <2>8 DEF PointsIntoBlock
<1> QED BY <1>4, <1>5

\* ch_emit_write: it appends, and leaves its block when current dangles, and
\* only then.
LEMMA WriteOK ==
    ASSUME NEW b, BlobOK(b), NEW d \in Seq(Byte), NEW moves \in BOOLEAN
    PROVE  /\ BlobOK(Write(b, d, moves))
           /\ PointsIntoBlock(Write(b, d, moves)) => /\ PointsIntoBlock(b)
                                                     /\ Write(b, d, moves).bytes = b.bytes \o d
<1>1. PICK n \in Nat : n = Len(d)
  OBVIOUS
<1>2. PICK g, w : g = Reallocated(b, n, moves) /\ w = Write(b, d, moves)
  OBVIOUS
<1>3. /\ Counted(g) /\ g.bytes = b.bytes /\ g.astray = b.astray /\ Len(g.bytes) + n <= g.room
      /\ PointsIntoBlock(g) => PointsIntoBlock(b)
  BY <1>2, ReallocatedOK
<1>4. /\ g \in [start : Nat, current : [block : Nat, offset : Nat],
                size : Nat, room : Nat, bytes : Seq(Byte), astray : BOOLEAN]
      /\ g.size = InitialSize /\ InitialSize <= g.room
      /\ g.current.offset = Len(g.bytes)
      /\ g.current.block <= g.start
  BY <1>3 DEF Counted, BlobRecord
<1>5. PICK s, k, o, z, r, y : /\ s = g.start /\ k = g.current.block /\ o = g.current.offset
                              /\ z = g.size /\ r = g.room /\ y = g.bytes
  OBVIOUS
<1>6. PICK x \in BOOLEAN : x <=> g.astray \/ LeavesBlock(g, n)
  OBVIOUS
<1>7. x <=> k # s
  <2>1. o + n <= r /\ (g.astray => k # s)
    BY <1>3, <1>4, <1>5 DEF BlobOK, PointsIntoBlock
  <2>2. LeavesBlock(g, n) <=> k # s
    BY <1>1, <1>4, <1>5, <2>1 DEF LeavesBlock, PointsIntoBlock, ContentSize
  <2> QED BY <1>6, <2>1, <2>2
<1>8. PICK c, e : c = [block |-> k, offset |-> o + n] /\ e = y \o d
  OBVIOUS
<1>9. w = [g EXCEPT !.bytes = e, !.current = c, !.astray = x]
  <2>1. w = Written(g, d)
    BY <1>1, <1>2 DEF Write
  <2>2. (g.astray \/ LeavesBlock(g, Len(d))) = x
    BY <1>1, <1>4, <1>6 DEF LeavesBlock
  <2> QED BY <1>1, <1>5, <1>8, <2>1, <2>2 DEF Written
<1>10. /\ w.start = s /\ w.current = c /\ w.size = z /\ w.room = r /\ w.bytes = e /\ w.astray = x
       /\ w.current.block = k /\ w.current.offset = o + n
  BY <1>4, <1>5, <1>8, <1>9
<1>11. e \in Seq(Byte) /\ Len(e) = o + n /\ o \in Nat /\ c \in [block : Nat, offset : Nat]
  BY <1>1, <1>4, <1>5, <1>8
<1>12. w \in BlobRecord
  BY <1>4, <1>9, <1>11 DEF BlobRecord
<1>13. Counted(w) /\ Len(w.bytes) <= w.room
  BY <1>1, <1>3, <1>4, <1>5, <1>10, <1>11, <1>12 DEF Counted
<1>14. BlobOK(w)
  BY <1>7, <1>10, <1>13 DEF BlobOK, PointsIntoBlock
<1>15. PointsIntoBlock(w) => PointsIntoBlock(b) /\ w.bytes = b.bytes \o d
  BY <1>3, <1>5, <1>8, <1>10 DEF PointsIntoBlock
<1> QED BY <1>2, <1>14, <1>15

\* ch_emit_patch_ptr replaces four bytes that were written before.
LEMMA PatchOK ==
    ASSUME NEW b, BlobOK(b), NEW n \in Int, NEW at \in Nat
    PROVE  /\ BlobOK(PatchBytes(b, n, at))
           /\ PointsIntoBlock(PatchBytes(b, n, at)) <=> PointsIntoBlock(b)
           /\ Len(PatchBytes(b, n, at).bytes) = Len(b.bytes)
           /\ \A i \in 1 .. Len(b.bytes) :
                i \notin at + 1 .. at + 4 => PatchBytes(b, n, at).bytes[i] = b.bytes[i]
           /\ at + 4 <= Len(b.bytes) =>
                \A i \in 1 .. 4 : PatchBytes(b, n, at).bytes[at + i] = LittleEndian(n)[i]
<1>1. /\ b \in [start : Nat, current : [block : Nat, offset : Nat],
                size : Nat, room : Nat, bytes : Seq(Byte), astray : BOOLEAN]
      /\ b.size = InitialSize /\ InitialSize <= b.room
      /\ b.current.offset = Len(b.bytes) /\ Len(b.bytes) <= b.room
      /\ b.current.block <= b.start
  BY DEF BlobOK, Counted, BlobRecord
<1>2. PICK p : p = PatchBytes(b, n, at)
  OBVIOUS
<1>3. PICK len \in Nat : len = Len(b.bytes) /\ DOMAIN b.bytes = 1 .. len
  BY <1>1
<1>4. CASE at + 4 > len
  BY <1>1, <1>2, <1>3, <1>4 DEF PatchBytes, ContentSize, PtrBytes
<1>5. CASE at + 4 <= len
  <2>1. PICK e : e = LittleEndian(n)
    OBVIOUS
  <2>2. e \in Seq(Byte) /\ Len(e) = 4
    BY <2>1, LittleEndianBytes
  <2>3. PICK y : y = [i \in 1 .. len |-> IF i \in at + 1 .. at + 4 THEN e[i - at] ELSE b.bytes[i]]
    OBVIOUS
  <2>4. p = [b EXCEPT !.bytes = y]
    BY <1>1, <1>2, <1>3, <1>5, <2>1, <2>3 DEF PatchBytes, ContentSize, PtrBytes
  <2>5. \A i \in 1 .. len : y[i] \in Byte
    <3>1. ASSUME NEW i \in 1 .. len, i \in at + 1 .. at + 4 PROVE e[i - at] \in Byte
      <4>1. PICK j \in 1 .. 4 : j = i - at
        BY <3>1
      <4>2. e[j] \in Byte
        BY <2>2, ElementOfSeq
      <4> QED BY <4>1, <4>2
    <3>2. \A i \in 1 .. len : b.bytes[i] \in Byte
      BY <1>1, <1>3
    <3> QED BY <2>3, <3>1, <3>2
  <2>6. y \in Seq(Byte) /\ Len(y) = len
    BY <2>3, <2>5
  <2>7. /\ p.start = b.start /\ p.current = b.current /\ p.size = b.size
        /\ p.room = b.room /\ p.bytes = y /\ p.astray = b.astray
    BY <1>1, <2>4
  <2>8. p \in BlobRecord
    BY <1>1, <2>4, <2>6 DEF BlobRecord
  <2>9. BlobOK(p)
    BY <1>1, <1>3, <2>6, <2>7, <2>8 DEF BlobOK, Counted, PointsIntoBlock
  <2>10. \A i \in 1 .. len : i \notin at + 1 .. at + 4 => y[i] = b.bytes[i]
    BY <2>3
  <2>11. ASSUME NEW i \in 1 .. 4 PROVE y[at + i] = e[i]
    <3>1. at + i \in 1 .. len /\ at + i \in at + 1 .. at + 4 /\ (at + i) - at = i
      BY <1>5
    <3> QED BY <2>3, <3>1
  <2> QED BY <1>2, <1>3, <2>1, <2>6, <2>7, <2>9, <2>10, <2>11 DEF PointsIntoBlock
<1> QED BY <1>3, <1>4, <1>5

LEMMA OpPtrOK ==
    ASSUME NEW b, BlobOK(b), NEW n \in Int, NEW moves \in BOOLEAN
    PROVE  /\ BlobOK(WriteOpPtr(b, n, moves))
           /\ PointsIntoBlock(WriteOpPtr(b, n, moves)) =>
                /\ PointsIntoBlock(b)
                /\ WriteOpPtr(b, n, moves).bytes = (b.bytes \o Op) \o LittleEndian(n)
<1>1. Op \in Seq(Byte) /\ LittleEndian(n) \in Seq(Byte)
  BY LittleEndianBytes DEF Op, Byte
<1>2. PICK w : w = Write(b, Op, moves)
  OBVIOUS
<1>3. BlobOK(w) /\ (PointsIntoBlock(w) => PointsIntoBlock(b) /\ w.bytes = b.bytes \o Op)
  BY <1>1, <1>2, WriteOK
<1>4. PICK e : e = LittleEndian(n)
  OBVIOUS
<1>5. PICK v : v = Write(w, e, moves)
  OBVIOUS
<1>6. BlobOK(v) /\ (PointsIntoBlock(v) => PointsIntoBlock(w) /\ v.bytes = w.bytes \o e)
  BY <1>1, <1>3, <1>4, <1>5, WriteOK
<1>7. v = WriteOpPtr(b, n, moves)
  BY <1>2, <1>4, <1>5 DEF WriteOpPtr
<1> QED BY <1>3, <1>4, <1>6, <1>7

LEMMA StringOK ==
    ASSUME NEW b, BlobOK(b), NEW c \in Content, NEW moves \in BOOLEAN
    PROVE  /\ BlobOK(WriteString(b, c, moves))
           /\ PointsIntoBlock(WriteString(b, c, moves)) =>
                /\ PointsIntoBlock(b)
                /\ WriteString(b, c, moves).bytes
                     = ((b.bytes \o LittleEndian(Len(c))) \o c) \o <<0>>
<1>1. c \in Seq(Byte) /\ Len(c) \in Int /\ <<0>> \in Seq(Byte)
  BY EmitterAssumption DEF Byte
<1>2. PICK e : e = LittleEndian(Len(c)) /\ e \in Seq(Byte)
  BY <1>1, LittleEndianBytes
<1>3. PICK w : w = Write(b, e, moves)
  OBVIOUS
<1>4. BlobOK(w) /\ (PointsIntoBlock(w) => PointsIntoBlock(b) /\ w.bytes = b.bytes \o e)
  BY <1>2, <1>3, WriteOK
<1>5. PICK v : v = Write(w, c, moves)
  OBVIOUS
<1>6. BlobOK(v) /\ (PointsIntoBlock(v) => PointsIntoBlock(w) /\ v.bytes = w.bytes \o c)
  BY <1>1, <1>4, <1>5, WriteOK
<1>7. PICK u : u = Write(v, <<0>>, moves)
  OBVIOUS
<1>8. BlobOK(u) /\ (PointsIntoBlock(u) => PointsIntoBlock(v) /\ u.bytes = v.bytes \o <<0>>)
  BY <1>1, <1>6, <1>7, WriteOK
<1>9. u = WriteString(b, c, moves)
  BY <1>2, <1>3, <1>5, <1>7 DEF WriteString
<1> QED BY <1>2, <1>4, <1>6, <1>8, <1>9

------------------------------------------------------------------------------
(***************************************************************************)
(* The blobs of the scopes                                                 *)
(***************************************************************************)
ScopesOK(sc) == sc \in Seq(BlobRecord) /\ \A i \in 1 .. Len(sc) : BlobOK(sc[i])

\* The innermost scope is given another blob.
Replaced(s2, sc, w) == s2 = [sc EXCEPT ![Len(sc)] = w]

LEMMA CodeReplaced ==
    ASSUME NEW sc, ScopesOK(sc), sc # <<>>, NEW w, BlobOK(w),
           NEW s2, Replaced(s2, sc, w)
    PROVE  /\ Len(sc) \in Nat \ {0} /\ BlobOK(Last(sc)) /\ Last(sc) = sc[Len(sc)]
           /\ ScopesOK(s2) /\ Len(s2) = Len(sc) /\ s2[Len(sc)] = w
           /\ \A i \in 1 .. Len(sc) : i # Len(sc) => s2[i] = sc[i]
<1>1. sc \in Seq(BlobRecord) /\ \A i \in 1 .. Len(sc) : BlobOK(sc[i])
  BY DEF ScopesOK
<1>2. PICK n \in Nat \ {0} : n = Len(sc) /\ n \in 1 .. Len(sc)
  BY <1>1
<1>3. w \in BlobRecord
  BY DEF BlobOK, Counted
<1>4. s2 \in Seq(BlobRecord) /\ Len(s2) = n
  BY <1>1, <1>2, <1>3 DEF Replaced
<1>5. s2[n] = w /\ \A i \in 1 .. n : i # n => s2[i] = sc[i]
  BY <1>1, <1>2 DEF Replaced
<1>6. \A i \in 1 .. n : BlobOK(s2[i])
  BY <1>1, <1>2, <1>5
<1>7. Last(sc) = sc[n]
  BY <1>2 DEF Last
<1> QED BY <1>1, <1>2, <1>4, <1>5, <1>6, <1>7 DEF ScopesOK

\* A scope is opened.
LEMMA ScopeAdded ==
    ASSUME NEW sc, ScopesOK(sc), NEW s2, s2 = Append(sc, CreateBlob)
    PROVE  /\ ScopesOK(s2) /\ Len(s2) = Len(sc) + 1 /\ s2[Len(sc) + 1] = CreateBlob
           /\ \A i \in 1 .. Len(sc) : s2[i] = sc[i]
<1>1. sc \in Seq(BlobRecord) /\ \A i \in 1 .. Len(sc) : BlobOK(sc[i])
  BY DEF ScopesOK
<1>2. PICK b : b = CreateBlob
  OBVIOUS
<1>3. b \in BlobRecord /\ BlobOK(b)
  BY <1>2, CreateBlobOK DEF BlobOK, Counted
<1>4. /\ s2 \in Seq(BlobRecord) /\ Len(s2) = Len(sc) + 1 /\ s2[Len(sc) + 1] = b
      /\ \A i \in 1 .. Len(sc) : s2[i] = sc[i]
  BY <1>1, <1>2, <1>3
<1>5. \A i \in 1 .. Len(sc) + 1 : BlobOK(s2[i])
  <2>1. PICK n \in Nat : n = Len(sc)
    BY <1>1
  <2>2. \A i \in 1 .. n + 1 : i \in 1 .. n \/ i = n + 1
    OBVIOUS
  <2> QED BY <1>1, <1>3, <1>4, <2>1, <2>2
<1> QED BY <1>2, <1>4, <1>5 DEF ScopesOK

\* A scope is closed, and the one around it given another blob.
Removed(s2, sc, w) == s2 = [Front(sc) EXCEPT ![Len(sc) - 1] = w]

LEMMA ScopeRemoved ==
    ASSUME NEW sc, ScopesOK(sc), Len(sc) > 1, NEW w, BlobOK(w),
           NEW s2, Removed(s2, sc, w)
    PROVE  /\ Len(sc) \in Nat /\ BlobOK(Last(sc)) /\ Last(sc) = sc[Len(sc)]
           /\ Front(sc)[Len(sc) - 1] = sc[Len(sc) - 1]
           /\ ScopesOK(s2) /\ Len(s2) = Len(sc) - 1 /\ s2[Len(sc) - 1] = w
           /\ \A i \in 1 .. Len(sc) - 1 : i # Len(sc) - 1 => s2[i] = sc[i]
<1>1. sc \in Seq(BlobRecord) /\ \A i \in 1 .. Len(sc) : BlobOK(sc[i])
  BY DEF ScopesOK
<1>2. PICK n \in Nat \ {0} : n = Len(sc) - 1 /\ Len(sc) = n + 1
  BY <1>1
<1>3. PICK f : f = Front(sc)
  OBVIOUS
<1>4. f \in Seq(BlobRecord) /\ Len(f) = n /\ \A i \in 1 .. n : f[i] = sc[i]
  <2>1. f = SubSeq(sc, 1, n)
    BY <1>2, <1>3 DEF Front
  <2> QED BY <1>1, <1>2, <2>1, SubSeqProperties
<1>5. w \in BlobRecord
  BY DEF BlobOK, Counted
<1>6. s2 = [f EXCEPT ![n] = w]
  BY <1>2, <1>3 DEF Removed
<1>7. s2 \in Seq(BlobRecord) /\ Len(s2) = n
  <2>1. n \in 1 .. Len(f)
    BY <1>4
  <2>2. \A i \in 1 .. n : f[i] \in BlobRecord
    BY <1>4, ElementOfSeq
  <2>3. PICK g : g = [i \in 1 .. n |-> IF i = n THEN w ELSE f[i]]
    OBVIOUS
  <2>4. g \in Seq(BlobRecord) /\ Len(g) = n
    BY <1>5, <2>2, <2>3
  <2>5. DOMAIN f = 1 .. n
    BY <1>4
  <2>6. g = s2
    BY <1>6, <2>3, <2>5, Zenon
  <2> QED BY <2>4, <2>6
<1>8. s2[n] = w /\ \A i \in 1 .. n : i # n => s2[i] = sc[i]
  BY <1>4, <1>6
<1>9. \A i \in 1 .. n : BlobOK(s2[i])
  BY <1>1, <1>2, <1>8
<1>10. Last(sc) = sc[n + 1] /\ BlobOK(sc[n + 1])
  BY <1>1, <1>2 DEF Last
<1> QED BY <1>2, <1>3, <1>4, <1>7, <1>8, <1>9, <1>10 DEF ScopesOK

------------------------------------------------------------------------------
(***************************************************************************)
(* No write leaves its block                                               *)
(***************************************************************************)
Keys == { Key(c) : c \in Content }
Addresses == Nat \cup {NullValue, TrueValue}

PoolOK ==
    /\ TableOK(pool, Keys, Addresses)
    /\ \A k \in DOMAIN Contents(pool) : Contents(pool)[k] \in Nat

Memory ==
    /\ ScopesOK(scopes) /\ BlobOK(functions) /\ BlobOK(data)
    /\ PoolOK
    /\ literals \subseteq [ptr : Nat, content : Content]
    /\ pending \subseteq [scope : Nat, at : Nat]
    /\ targets \subseteq [scope : Nat, at : Nat, offset : Int]

LEMMA KeyFacts ==
    /\ NoKey \notin Keys /\ \A k \in Keys : k.hash \in Nat
    /\ \A c \in Content : Key(c) \in Keys /\ Key(c).content = c /\ Key(c).hash = HashOf[c]
    /\ \A k, l \in Keys : k.content = l.content => k = l
    /\ \A k \in Keys : k.content \in Content
BY EmitterAssumption DEF Keys, Key

\* The pool finds the key of a literal if, and only if, it was added.
LEMMA PooledOK ==
    ASSUME PoolOK, NEW c \in Content
    PROVE  Pooled(c) = IF Key(c) \in DOMAIN Contents(pool) THEN Key(c) ELSE NoKey
<1>1. PICK k \in Keys : k = Key(c)
  BY KeyFacts
<1>2. \A x \in Keys : x.content = k.content => x = k
  BY KeyFacts
<1>3. FindString(pool, k.content, k.hash) = IF k \in DOMAIN Contents(pool) THEN k ELSE NoKey
  BY <1>2, FindStringOK DEF PoolOK
<1> QED BY <1>1, <1>3, KeyFacts DEF Pooled

\* What emit_string returns.
LEMMA AddressOK ==
    ASSUME Memory, NEW c \in Content
    PROVE  /\ EmitString(c) \in Nat
           /\ Pooled(c) # NoKey => /\ Key(c) \in DOMAIN Contents(pool)
                                   /\ EmitString(c) = Contents(pool)[Key(c)]
           /\ Pooled(c) = NoKey => EmitString(c) = Len(data.bytes)
<1>1. PICK k \in Keys : k = Key(c)
  BY KeyFacts
<1>2. PoolOK /\ TableOK(pool, Keys, Addresses)
  BY DEF Memory, PoolOK
<1>3. CASE Pooled(c) # NoKey
  <2>1. Pooled(c) = k /\ k \in DOMAIN Contents(pool)
    BY <1>1, <1>2, <1>3, PooledOK
  <2>2. Has(pool, k)
    BY <1>2, <2>1, HasOK
  <2>3. TableGet(pool, k) = Contents(pool)[k]
    BY <1>2, <2>2, GetOK
  <2>4. EmitString(c) = Contents(pool)[k]
    BY <1>3, <2>1, <2>3 DEF EmitString
  <2> QED BY <1>1, <1>2, <1>3, <2>1, <2>4 DEF PoolOK
<1>4. CASE Pooled(c) = NoKey
  <2>1. EmitString(c) = data.current.offset
    BY <1>4 DEF EmitString, WritePtr, ContentSize
  <2>2. data.current.offset = Len(data.bytes) /\ Len(data.bytes) \in Nat
    BY DEF Memory, BlobOK, Counted, BlobRecord
  <2> QED BY <1>4, <2>1, <2>2
<1> QED BY <1>3, <1>4

\* What emit_string leaves.
LEMMA AddStringOK ==
    ASSUME Memory, NEW c \in Content, NEW moves \in BOOLEAN, AddString(c, moves)
    PROVE  /\ BlobOK(data') /\ PoolOK'
           /\ Pooled(c) # NoKey => data' = data /\ pool' = pool
           /\ Pooled(c) = NoKey => /\ data' = WriteString(data, c, moves)
                                   /\ Contents(pool') = With(Contents(pool), Key(c), Len(data.bytes))
<1>1. PICK k \in Keys : k = Key(c)
  BY KeyFacts
<1>2. /\ PoolOK /\ TableOK(pool, Keys, Addresses) /\ BlobOK(data)
      /\ \A x \in DOMAIN Contents(pool) : Contents(pool)[x] \in Nat
  BY DEF Memory, PoolOK
<1>3. CASE Pooled(c) # NoKey
  <2>1. data' = data /\ pool' = pool
    BY <1>3 DEF AddString
  <2> QED BY <1>2, <1>3, <2>1 DEF PoolOK
<1>4. CASE Pooled(c) = NoKey
  <2>1. data' = WriteString(data, c, moves) /\ pool' = TableSet(pool, Key(c), WritePtr(data))
    BY <1>4 DEF AddString
  <2>2. PICK a \in Nat : a = WritePtr(data) /\ a = Len(data.bytes)
    BY <1>2 DEF BlobOK, Counted, BlobRecord, WritePtr, ContentSize
  <2>3. BlobOK(data')
    BY <1>2, <2>1, StringOK
  <2>4. a \in Addresses /\ NullValue \in Addresses
    BY DEF Addresses
  <2>5. TableOK(pool', Keys, Addresses) /\ Contents(pool') = With(Contents(pool), k, a)
    BY <1>1, <1>2, <2>1, <2>2, <2>4, SetOK
  <2>6. \A x \in DOMAIN Contents(pool') : Contents(pool')[x] \in Nat
    BY <1>2, <2>5 DEF With
  <2> QED BY <1>1, <1>4, <2>1, <2>2, <2>3, <2>5, <2>6 DEF PoolOK
<1> QED BY <1>3, <1>4

LEMMA InitMemory == Init => Memory
<1> SUFFICES ASSUME Init PROVE Memory
  OBVIOUS
<1>1. PICK b : b = CreateBlob /\ BlobOK(b) /\ b \in BlobRecord
  BY CreateBlobOK DEF BlobOK, Counted
<1>2. ScopesOK(scopes)
  BY <1>1 DEF Init, ScopesOK
<1>3. BlobOK(functions) /\ BlobOK(data)
  BY <1>1 DEF Init
<1>4. TableOK(pool, Keys, Addresses) /\ DOMAIN Contents(pool) = {}
  <2>1. PICK t : t = EmptyTable
    OBVIOUS
  <2>2. TableOK(t, Keys, Addresses)
    BY <2>1, KeyFacts, EmptyTableOK
  <2>3. DOMAIN Contents(t) = {}
    BY <2>1 DEF EmptyTable, Contents, Used
  <2> QED BY <2>1, <2>2, <2>3 DEF Init
<1>5. PoolOK
  BY <1>4 DEF PoolOK
<1> QED BY <1>2, <1>3, <1>5 DEF Init, Memory

\* An instruction with a number is added to the innermost scope.
LEMMA EmittedOK ==
    ASSUME Memory, scopes # <<>>, NEW n \in Int, NEW moves \in BOOLEAN, EmitOpPtr(n, moves)
    PROVE  ScopesOK(scopes') /\ ScopesOK(scopes) /\ BlobOK(Code) /\ Code = scopes[Len(scopes)]
           /\ Len(scopes') = Len(scopes) /\ Len(scopes) \in Nat \ {0}
           /\ scopes'[Len(scopes)] = WriteOpPtr(Code, n, moves)
           /\ \A i \in 1 .. Len(scopes) : i # Len(scopes) => scopes'[i] = scopes[i]
<1>1. ScopesOK(scopes)
  BY DEF Memory
<1>2. Len(scopes) \in Nat \ {0} /\ BlobOK(scopes[Len(scopes)])
  BY <1>1 DEF ScopesOK
<1>3. PICK w : w = WriteOpPtr(scopes[Len(scopes)], n, moves)
  OBVIOUS
<1>4. BlobOK(w)
  BY <1>2, <1>3, OpPtrOK
<1>5. PICK s2 : s2 = scopes' /\ Replaced(s2, scopes, w)
  BY <1>3 DEF EmitOpPtr, Replaced
<1>6. /\ Len(scopes) \in Nat \ {0} /\ BlobOK(Last(scopes)) /\ Last(scopes) = scopes[Len(scopes)]
      /\ ScopesOK(s2) /\ Len(s2) = Len(scopes) /\ s2[Len(scopes)] = w
      /\ \A i \in 1 .. Len(scopes) : i # Len(scopes) => s2[i] = scopes[i]
  BY <1>1, <1>4, <1>5, CodeReplaced
<1> QED BY <1>1, <1>2, <1>3, <1>5, <1>6 DEF Code

LEMMA StringLiteralMemory ==
    ASSUME Memory, NEW c \in Content, NEW moves \in BOOLEAN, StringLiteral(c, moves)
    PROVE  Memory'
<1>1. scopes # <<>> /\ EmitString(c) \in Nat
  BY AddressOK DEF StringLiteral, Compiling
<1>2. ScopesOK(scopes')
  BY <1>1, EmittedOK DEF StringLiteral
<1>3. BlobOK(data') /\ PoolOK'
  BY AddStringOK DEF StringLiteral
<1>4. literals' \subseteq [ptr : Nat, content : Content]
  BY <1>1 DEF StringLiteral, Memory
<1> QED BY <1>2, <1>3, <1>4 DEF Memory, StringLiteral

LEMMA EmitJumpMemory ==
    ASSUME Memory, NEW moves \in BOOLEAN, EmitJump(moves)
    PROVE  Memory'
<1>1. ScopesOK(scopes') /\ BlobOK(Code) /\ Len(scopes) \in Nat
  BY EmittedOK DEF EmitJump, Compiling
<1>2. ContentSize(Code) + 1 \in Nat
  BY <1>1 DEF BlobOK, Counted, BlobRecord, ContentSize
<1>3. pending' \subseteq [scope : Nat, at : Nat]
  BY <1>1, <1>2 DEF EmitJump, Memory
<1> QED BY <1>1, <1>3 DEF Memory, EmitJump, PoolOK

LEMMA CodeOK ==
    ASSUME Memory, scopes # <<>>
    PROVE  /\ ScopesOK(scopes) /\ Len(scopes) \in Nat \ {0}
           /\ Code = scopes[Len(scopes)] /\ BlobOK(Code)
           /\ ContentSize(Code) = Len(Code.bytes) /\ Len(Code.bytes) \in Nat
<1>1. ScopesOK(scopes) /\ Len(scopes) \in Nat \ {0}
  BY DEF Memory, ScopesOK
<1>2. Code = scopes[Len(scopes)] /\ BlobOK(Code)
  BY <1>1 DEF Code, Last, ScopesOK
<1> QED BY <1>1, <1>2 DEF BlobOK, Counted, BlobRecord, ContentSize

LEMMA PatchJumpMemory ==
    ASSUME Memory, NEW jump \in pending, PatchJump(jump)
    PROVE  Memory'
<1>1. scopes # <<>> /\ jump \in [scope : Nat, at : Nat]
  BY DEF PatchJump, Compiling, Memory
<1>2. /\ ScopesOK(scopes) /\ Len(scopes) \in Nat \ {0}
      /\ Code = scopes[Len(scopes)] /\ BlobOK(Code)
      /\ ContentSize(Code) = Len(Code.bytes) /\ Len(Code.bytes) \in Nat
  BY <1>1, CodeOK
<1>3. PICK offset \in Int : offset = ContentSize(Code) - jump.at - PtrBytes
  BY <1>1, <1>2 DEF PtrBytes
<1>4. PICK w : w = PatchBytes(scopes[Len(scopes)], offset, jump.at)
  OBVIOUS
<1>5. BlobOK(w)
  BY <1>1, <1>2, <1>4, PatchOK
<1>6. PICK s2 : s2 = scopes' /\ Replaced(s2, scopes, w)
  BY <1>3, <1>4 DEF PatchJump, Replaced
<1>7. ScopesOK(s2)
  BY <1>1, <1>2, <1>5, <1>6, CodeReplaced
<1>8. targets' \subseteq [scope : Nat, at : Nat, offset : Int]
  BY <1>1, <1>2, <1>3 DEF PatchJump, Memory
<1>9. pending' \subseteq [scope : Nat, at : Nat]
  BY DEF PatchJump, Memory
<1> QED BY <1>6, <1>7, <1>8, <1>9 DEF Memory, PatchJump, PoolOK

LEMMA EmitLoopMemory ==
    ASSUME Memory, NEW moves \in BOOLEAN, EmitLoop(moves)
    PROVE  Memory'
<1>1. scopes # <<>>
  BY DEF EmitLoop, Compiling
<1>2. /\ ScopesOK(scopes) /\ Len(scopes) \in Nat \ {0}
      /\ Code = scopes[Len(scopes)] /\ BlobOK(Code)
      /\ ContentSize(Code) = Len(Code.bytes) /\ Len(Code.bytes) \in Nat
  BY <1>1, CodeOK
<1>3. PICK at \in Nat, offset \in Int : at = ContentSize(Code) + 1 /\ offset = -(at + PtrBytes)
  BY <1>2 DEF PtrBytes
<1>4. PICK v : v = WriteOpPtr(scopes[Len(scopes)], 0, moves)
  OBVIOUS
<1>5. BlobOK(v)
  BY <1>2, <1>4, OpPtrOK
<1>6. PICK w : w = PatchBytes(v, offset, at)
  OBVIOUS
<1>7. BlobOK(w)
  BY <1>3, <1>5, <1>6, PatchOK
<1>8. PICK s2 : s2 = scopes' /\ Replaced(s2, scopes, w)
  BY <1>3, <1>4, <1>6 DEF EmitLoop, Replaced
<1>9. ScopesOK(s2)
  BY <1>1, <1>2, <1>7, <1>8, CodeReplaced
<1>10. targets' \subseteq [scope : Nat, at : Nat, offset : Int]
  BY <1>2, <1>3 DEF EmitLoop, Memory
<1> QED BY <1>8, <1>9, <1>10 DEF Memory, EmitLoop, PoolOK

LEMMA BeginFunctionMemory == ASSUME Memory, BeginFunction PROVE Memory'
<1>1. ScopesOK(scopes)
  BY DEF Memory
<1>2. PICK s2 : s2 = scopes' /\ s2 = Append(scopes, CreateBlob)
  BY DEF BeginFunction
<1>3. ScopesOK(s2)
  BY <1>1, <1>2, ScopeAdded
<1> QED BY <1>2, <1>3 DEF Memory, BeginFunction, PoolOK

LEMMA MovedOK ==
    ASSUME Memory, NEW scope \in Nat, NEW by \in Nat
    PROVE  Moved(scope, by) \subseteq [scope : Nat, at : Nat, offset : Int]
<1>1. \A t \in targets : t \in [scope : Nat, at : Nat, offset : Int]
  BY DEF Memory
<1>2. \A t \in targets : [scope |-> 0, at |-> t.at + by, offset |-> t.offset]
                           \in [scope : Nat, at : Nat, offset : Int]
  BY <1>1
<1> QED BY <1>1, <1>2 DEF Moved

\* The function that the innermost scope holds, with its last return.
LEMMA CommittedOK ==
    ASSUME Memory, scopes # <<>>, NEW moves \in BOOLEAN, NEW body, body = Write(Code, Op, moves)
    PROVE  /\ BlobOK(body) /\ BlobOK(Write(functions, body.bytes, moves))
           /\ PointsIntoBlock(body) => PointsIntoBlock(Code) /\ body.bytes = Code.bytes \o Op
           /\ PointsIntoBlock(Write(functions, body.bytes, moves)) =>
                PointsIntoBlock(functions)
                /\ Write(functions, body.bytes, moves).bytes = functions.bytes \o body.bytes
           /\ WritePtr(functions) = Len(functions.bytes) /\ WritePtr(functions) \in Nat
<1>1. Op \in Seq(Byte)
  BY DEF Op, Byte
<1>2. BlobOK(Code) /\ BlobOK(functions)
  BY CodeOK DEF Memory
<1>3. BlobOK(body) /\ (PointsIntoBlock(body) => PointsIntoBlock(Code) /\ body.bytes = Code.bytes \o Op)
  BY <1>1, <1>2, WriteOK
<1>4. body.bytes \in Seq(Byte)
  BY <1>3 DEF BlobOK, Counted, BlobRecord
<1>5. /\ BlobOK(Write(functions, body.bytes, moves))
      /\ PointsIntoBlock(Write(functions, body.bytes, moves)) =>
           PointsIntoBlock(functions)
           /\ Write(functions, body.bytes, moves).bytes = functions.bytes \o body.bytes
  BY <1>2, <1>4, WriteOK
<1>6. WritePtr(functions) = Len(functions.bytes) /\ WritePtr(functions) \in Nat
  BY <1>2 DEF BlobOK, Counted, BlobRecord, WritePtr, ContentSize
<1> QED BY <1>3, <1>5, <1>6

\* OP_FUNCTION, its address and its arity.
LEMMA FunctionRefOK ==
    ASSUME NEW b, BlobOK(b), NEW n \in Nat, NEW moves \in BOOLEAN
    PROVE  /\ BlobOK(Write(WriteOpPtr(b, n, moves), <<0>>, moves))
           /\ PointsIntoBlock(Write(WriteOpPtr(b, n, moves), <<0>>, moves)) =>
                /\ PointsIntoBlock(b)
                /\ Write(WriteOpPtr(b, n, moves), <<0>>, moves).bytes
                     = ((b.bytes \o Op) \o LittleEndian(n)) \o <<0>>
<1>1. <<0>> \in Seq(Byte)
  BY DEF Byte
<1>2. PICK w : w = WriteOpPtr(b, n, moves)
  OBVIOUS
<1>3. PICK e : e = LittleEndian(n)
  OBVIOUS
<1>4. BlobOK(w) /\ (PointsIntoBlock(w) => PointsIntoBlock(b) /\ w.bytes = (b.bytes \o Op) \o e)
  <2>1. /\ BlobOK(w)
        /\ PointsIntoBlock(w) =>
             PointsIntoBlock(b) /\ w.bytes = (b.bytes \o Op) \o LittleEndian(n)
    BY <1>2, OpPtrOK
  <2> QED BY <1>3, <2>1
<1>5. PICK v : v = Write(w, <<0>>, moves)
  OBVIOUS
<1>6. BlobOK(v) /\ (PointsIntoBlock(v) => PointsIntoBlock(w) /\ v.bytes = w.bytes \o <<0>>)
  BY <1>1, <1>4, <1>5, WriteOK
<1> QED BY <1>2, <1>3, <1>4, <1>5, <1>6

\* The commit of a body that has gone astray leaves nothing but its scope.
LEMMA CommitAstrayMemory ==
    ASSUME Memory, scopes # <<>>, NEW body, BlobOK(body), CommitAstray(body)
    PROVE  Memory'
<1>1. PICK s2 : s2 = scopes' /\ Replaced(s2, scopes, body)
  BY DEF CommitAstray, Replaced
<1>2. ScopesOK(scopes)
  BY DEF Memory
<1>3. ScopesOK(s2)
  BY <1>1, <1>2, CodeReplaced
<1> QED BY <1>1, <1>3 DEF Memory, CommitAstray, PoolOK

LEMMA EndFunctionMemory ==
    ASSUME Memory, NEW moves \in BOOLEAN, EndFunction(moves)
    PROVE  Memory'
<1>1. scopes # <<>> /\ Len(scopes) > 1
  BY DEF EndFunction, Compiling
<1>2. /\ ScopesOK(scopes) /\ Len(scopes) \in Nat \ {0} /\ BlobOK(Code)
  BY <1>1, CodeOK
<1>3. PICK body : body = Write(Code, Op, moves)
  OBVIOUS
<1>4. /\ BlobOK(body) /\ BlobOK(Write(functions, body.bytes, moves))
      /\ WritePtr(functions) \in Nat
  BY <1>1, <1>3, CommittedOK
<1>5. CASE CommitAstray(body)
  BY <1>1, <1>4, <1>5, CommitAstrayMemory
<1>6. CASE ~CommitAstray(body)
  <2>1. PICK n \in Nat : n = Len(scopes) - 1 /\ n \in 1 .. Len(scopes)
    <3>1. PICK len \in Nat : len = Len(scopes) /\ len > 1
      BY <1>1, <1>2
    <3>2. len - 1 \in Nat /\ len - 1 \in 1 .. len
      BY <3>1
    <3> QED BY <3>1, <3>2
  <2>2. PICK w : w = Write(WriteOpPtr(scopes[n], WritePtr(functions), moves), <<0>>, moves)
    OBVIOUS
  <2>3. BlobOK(w)
    BY <1>2, <1>4, <2>1, <2>2, FunctionRefOK DEF ScopesOK
  <2>4. Front(scopes)[n] = scopes[n]
    <3>1. Front(scopes) = SubSeq(scopes, 1, n)
      BY <2>1 DEF Front
    <3> QED BY <1>1, <1>2, <2>1, <3>1, SubSeqProperties DEF ScopesOK
  <2>5. /\ functions' = Write(functions, body.bytes, moves)
        /\ scopes' = [Front(scopes) EXCEPT ![n] =
                        Write(WriteOpPtr(@, WritePtr(functions), moves), <<0>>, moves)]
        /\ targets' = Moved(Len(scopes), WritePtr(functions))
        /\ UNCHANGED <<data, pool, program, literals, pending>>
    BY <1>3, <1>6, <2>1 DEF EndFunction
  <2>6. PICK s2 : s2 = scopes' /\ Removed(s2, scopes, w)
    BY <2>1, <2>2, <2>4, <2>5 DEF Removed
  <2>7. ScopesOK(s2)
    BY <1>1, <1>2, <2>1, <2>3, <2>6, ScopeRemoved
  <2>8. targets' \subseteq [scope : Nat, at : Nat, offset : Int]
    BY <1>2, <1>4, <2>5, MovedOK
  <2>9. BlobOK(functions')
    BY <1>4, <2>5
  <2> QED BY <2>5, <2>6, <2>7, <2>8, <2>9 DEF Memory, PoolOK
<1> QED BY <1>5, <1>6

LEMMA AssembleMemory ==
    ASSUME Memory, NEW moves \in BOOLEAN, Assemble(moves)
    PROVE  Memory'
<1>1. scopes # <<>>
  BY DEF Assemble, Compiling
<1>2. PICK body, all : body = Write(Code, Op, moves) /\ all = Write(functions, body.bytes, moves)
  OBVIOUS
<1>3. BlobOK(body) /\ BlobOK(all) /\ WritePtr(functions) \in Nat
  BY <1>1, <1>2, CommittedOK
<1>4. CASE CommitAstray(body)
  BY <1>1, <1>3, <1>4, CommitAstrayMemory
<1>5. CASE ~CommitAstray(body)
  <2>1. /\ functions' = all /\ UNCHANGED <<data, pool, literals, pending>>
        /\ \/ scopes' = <<>> /\ targets' = Moved(1, WritePtr(functions))
           \/ UNCHANGED <<scopes, targets>>
    BY <1>2, <1>5 DEF Assemble
  <2>2. ScopesOK(scopes')
    <3>1. PICK s2 : s2 = scopes'
      OBVIOUS
    <3>2. ScopesOK(<<>>) /\ ScopesOK(scopes)
      BY DEF ScopesOK, Memory
    <3>3. s2 = <<>> \/ s2 = scopes
      BY <2>1, <3>1
    <3>4. ScopesOK(s2)
      BY <3>2, <3>3
    <3> QED BY <3>1, <3>4
  <2>3. targets' \subseteq [scope : Nat, at : Nat, offset : Int]
    BY <1>3, <2>1, MovedOK DEF Memory
  <2> QED BY <1>3, <2>1, <2>2, <2>3 DEF Memory, PoolOK
<1> QED BY <1>4, <1>5

LEMMA NextMemory == Memory /\ [Next]_vars => Memory'
<1> SUFFICES ASSUME Memory, [Next]_vars PROVE Memory'
  OBVIOUS
<1>1. CASE BeginFunction
  BY <1>1, BeginFunctionMemory
<1>2. ASSUME NEW jump \in pending, PatchJump(jump) PROVE Memory'
  BY <1>2, PatchJumpMemory
<1>3. ASSUME NEW moves \in BOOLEAN, NEW c \in Content, StringLiteral(c, moves) PROVE Memory'
  BY <1>3, StringLiteralMemory
<1>4. ASSUME NEW moves \in BOOLEAN, EmitJump(moves) PROVE Memory'
  BY <1>4, EmitJumpMemory
<1>5. ASSUME NEW moves \in BOOLEAN, EmitLoop(moves) PROVE Memory'
  BY <1>5, EmitLoopMemory
<1>6. ASSUME NEW moves \in BOOLEAN, EndFunction(moves) PROVE Memory'
  BY <1>6, EndFunctionMemory
<1>7. ASSUME NEW moves \in BOOLEAN, Assemble(moves) PROVE Memory'
  BY <1>7, AssembleMemory
<1>8. CASE UNCHANGED vars
  BY <1>8 DEF vars, Memory, PoolOK
<1> QED BY <1>1, <1>2, <1>3, <1>4, <1>5, <1>6, <1>7, <1>8 DEF Next

LEMMA MemoryWritesInBlock == Memory => WritesInBlockUnlessMoved
<1> SUFFICES ASSUME Memory PROVE WritesInBlockUnlessMoved
  OBVIOUS
<1>1. \A blob \in Blobs : BlobOK(blob)
  <2>1. \A i \in DOMAIN scopes : BlobOK(scopes[i])
    BY DEF Memory, ScopesOK
  <2> QED BY <2>1 DEF Memory, Blobs
<1> QED BY <1>1 DEF WritesInBlockUnlessMoved, BlobOK

\* The emitter writes outside a blob's block if realloc has moved that block,
\* and only then: the size that ch_emit_write never brings up to date is at
\* most the room, so that what it compares leaves room enough; and the current
\* pointer that it leaves where it was is written through at once.
THEOREM SpecWritesInBlockUnlessMoved == Spec => []WritesInBlockUnlessMoved
<1>1. Init => Memory
  BY InitMemory
<1>2. Memory /\ [Next]_vars => Memory'
  BY NextMemory
<1>3. Memory => WritesInBlockUnlessMoved
  BY MemoryWritesInBlock
<1> QED BY <1>1, <1>2, <1>3, PTL DEF Spec

------------------------------------------------------------------------------
(***************************************************************************)
(* What is so as long as no current pointer dangles                        *)
(***************************************************************************)
LEMMA NotAstray ==
    ASSUME Memory, scopes # <<>>, NEW body, BlobOK(body), Sound'
    PROVE  ~CommitAstray(body)
<1> SUFFICES ASSUME CommitAstray(body) PROVE FALSE
  OBVIOUS
<1>1. PICK s2 : s2 = scopes' /\ Replaced(s2, scopes, body)
  BY DEF CommitAstray, Replaced
<1>2. ScopesOK(scopes)
  BY DEF Memory
<1>3. ScopesOK(s2) /\ Len(scopes) \in 1 .. Len(s2) /\ s2[Len(scopes)] = body
  BY <1>1, <1>2, CodeReplaced
<1>4. PointsIntoBlock(body)
  BY <1>1, <1>3 DEF Sound, ScopesOK
<1> QED BY <1>4 DEF CommitAstray

\* The program is assembled.
LEMMA Assembled ==
    ASSUME Memory, NEW moves \in BOOLEAN, Assemble(moves), Sound',
           NEW body, body = Write(Code, Op, moves),
           NEW all, all = Write(functions, body.bytes, moves)
    PROVE  /\ PointsIntoBlock(body) /\ PointsIntoBlock(all)
           /\ program' = [bytes |-> data.bytes \o all.bytes, data |-> Len(data.bytes),
                          start |-> WritePtr(functions)]
           /\ targets' = Moved(1, WritePtr(functions))
           /\ UNCHANGED <<data, pool, literals, pending>>
<1>1. scopes # <<>>
  BY DEF Assemble, Compiling
<1>2. ~CommitAstray(body)
  BY <1>1, CommittedOK, NotAstray
<1>3. PointsIntoBlock(body) /\ functions' = all /\ UNCHANGED <<data, pool, literals, pending>>
  BY <1>2 DEF Assemble
<1>4. PointsIntoBlock(all)
  BY <1>3 DEF Sound
<1> QED BY <1>2, <1>3, <1>4 DEF Assemble, Joined

------------------------------------------------------------------------------
(***************************************************************************)
(* Numbers and strings stay where they were written                        *)
(***************************************************************************)
Joins(t, s, d) ==
    /\ t \in Seq(Byte) /\ Len(t) = Len(s) + Len(d)
    /\ \A i \in 1 .. Len(s) : t[i] = s[i]
    /\ \A i \in 1 .. Len(d) : t[Len(s) + i] = d[i]

LEMMA JoinsBoth ==
    ASSUME NEW s \in Seq(Byte), NEW d \in Seq(Byte)
    PROVE  Joins(s \o d, s, d)
BY DEF Joins

LEMMA SameBytes ==
    ASSUME NEW s, NEW t, NEW at \in Nat, NEW by \in Nat,
           \A i \in 1 .. 4 : t[by + i] = s[at + i]
    PROVE  ReadPtr(t, by) = ReadPtr(s, at)
<1>1. t[by + 1] = s[at + 1] /\ t[by + 2] = s[at + 2] /\ t[by + 3] = s[at + 3] /\ t[by + 4] = s[at + 4]
  OBVIOUS
<1> QED BY <1>1 DEF ReadPtr

\* More is written after a number, or before it.
LEMMA ReadAppended ==
    ASSUME NEW s \in Seq(Byte), NEW d \in Seq(Byte), NEW at \in Nat, at + 4 <= Len(s)
    PROVE  ReadPtr(s \o d, at) = ReadPtr(s, at)
<1>1. PICK t : t = s \o d
  OBVIOUS
<1>2. \A i \in 1 .. Len(s) : t[i] = s[i]
  BY <1>1
<1>3. \A i \in 1 .. 4 : t[at + i] = s[at + i]
  BY <1>2
<1> QED BY <1>1, <1>3, SameBytes

LEMMA ReadPrepended ==
    ASSUME NEW s \in Seq(Byte), NEW d \in Seq(Byte), NEW at \in Nat, at + 4 <= Len(s)
    PROVE  ReadPtr(d \o s, Len(d) + at) = ReadPtr(s, at)
<1>1. PICK t : t = d \o s
  OBVIOUS
<1>2. PICK by \in Nat : by = Len(d) + at
  OBVIOUS
<1>3. \A i \in 1 .. Len(s) : t[Len(d) + i] = s[i]
  BY <1>1, JoinsBoth DEF Joins
<1>4. \A i \in 1 .. 4 : at + i \in 1 .. Len(s) /\ Len(d) + (at + i) = by + i
  BY <1>2
<1>5. \A i \in 1 .. 4 : t[by + i] = s[at + i]
  BY <1>3, <1>4
<1> QED BY <1>1, <1>2, <1>5, SameBytes

\* The literal is in the bytes: its length, its text and a null byte.
Stored(bytes, ptr, c) ==
    /\ ptr + 4 + Len(c) < Len(bytes)
    /\ ReadPtr(bytes, ptr) = Len(c)
    /\ \A i \in 1 .. Len(c) : bytes[ptr + 4 + i] = c[i]
    /\ bytes[ptr + 4 + Len(c) + 1] = 0

LEMMA StoredReads ==
    ASSUME NEW s \in Seq(Byte), NEW l \in [ptr : Nat, content : Content], Stored(s, l.ptr, l.content)
    PROVE  ReadsAs(s, l)
<1>1. PICK c \in Content, p \in Nat : c = l.content /\ p = l.ptr /\ c \in Seq(Byte)
  BY EmitterAssumption
<1>2. PICK n \in Nat : n = Len(c)
  BY <1>1
<1>3. /\ p + 4 + n < Len(s) /\ ReadPtr(s, p) = n
      /\ \A i \in 1 .. n : s[p + 4 + i] = c[i]
      /\ s[p + 4 + n + 1] = 0
  BY <1>1, <1>2 DEF Stored
<1>4. LoadString(s, p) = c
  <2>1. PICK t : t = SubSeq(s, p + 4 + 1, p + 4 + n)
    OBVIOUS
  <2>2. t \in Seq(Byte) /\ Len(t) = n /\ \A i \in 1 .. n : t[i] = s[p + 4 + i]
    <3>1. PICK from, to \in Int : from = p + 4 + 1 /\ to = p + 4 + n
      OBVIOUS
    <3>2. from >= 1 /\ to <= Len(s) /\ to - from + 1 = n /\ from <= to + 1
      BY <1>3, <3>1
    <3>3. t = SubSeq(s, from, to)
      BY <2>1, <3>1
    <3>4. Len(t) = n /\ t \in Seq(Byte)
      BY <3>2, <3>3
    <3>5. \A i \in 1 .. n : t[i] = s[from + i - 1]
      BY <3>2, <3>3
    <3> QED BY <3>1, <3>4, <3>5
  <2>3. \A i \in 1 .. n : t[i] = c[i]
    BY <1>3, <2>2
  <2>4. t = c
    BY <1>1, <1>2, <2>2, <2>3, SeqEqual
  <2> QED BY <1>3, <2>1, <2>4 DEF LoadString, PtrBytes
<1> QED BY <1>1, <1>2, <1>3, <1>4 DEF ReadsAs, PtrBytes

LEMMA StoredAppended ==
    ASSUME NEW s \in Seq(Byte), NEW d \in Seq(Byte), NEW p \in Nat, NEW c \in Content,
           Stored(s, p, c)
    PROVE  Stored(s \o d, p, c)
<1>1. PICK n \in Nat, len \in Nat : n = Len(c) /\ len = Len(s)
  BY EmitterAssumption
<1>2. /\ p + 4 + n < len /\ ReadPtr(s, p) = n
      /\ \A i \in 1 .. n : s[p + 4 + i] = c[i]
      /\ s[p + 4 + n + 1] = 0
  BY <1>1 DEF Stored
<1>3. PICK t : t = s \o d
  OBVIOUS
<1>4. Len(t) >= len /\ Len(t) \in Nat /\ \A i \in 1 .. len : t[i] = s[i]
  BY <1>1, <1>3
<1>5. ReadPtr(t, p) = n
  BY <1>1, <1>2, <1>3, ReadAppended
<1>6. \A i \in 1 .. n : t[p + 4 + i] = c[i]
  BY <1>1, <1>2, <1>4
<1>7. t[p + 4 + n + 1] = 0
  BY <1>1, <1>2, <1>4
<1> QED BY <1>1, <1>2, <1>3, <1>4, <1>5, <1>6, <1>7 DEF Stored

\* What EMIT_DATA_STRING writes.
LEMMA StoredWritten ==
    ASSUME NEW s \in Seq(Byte), NEW c \in Content, Len(c) \in Int32
    PROVE  Stored(((s \o LittleEndian(Len(c))) \o c) \o <<0>>, Len(s), c)
<1>1. c \in Seq(Byte)
  BY EmitterAssumption
<1>2. PICK n \in Nat, p \in Nat : n = Len(c) /\ p = Len(s) /\ n \in Int32
  BY <1>1
<1>3. PICK e : e = LittleEndian(n) /\ e \in Seq(Byte) /\ Len(e) = 4
  BY <1>2, LittleEndianBytes
<1>4. PICK a : a = s \o e
  OBVIOUS
<1>5. a \in Seq(Byte) /\ Len(a) = p + 4 /\ \A i \in 1 .. 4 : a[p + i] = e[i]
  <2>1. Joins(a, s, e)
    BY <1>3, <1>4, JoinsBoth
  <2> QED BY <1>2, <1>3, <2>1 DEF Joins
<1>6. ReadPtr(a, p) = n
  BY <1>2, <1>3, <1>5, ReadBack
<1>7. PICK b : b = a \o c
  OBVIOUS
<1>8. b \in Seq(Byte) /\ Len(b) = p + 4 + n /\ \A i \in 1 .. n : b[p + 4 + i] = c[i]
  <2>1. Joins(b, a, c)
    BY <1>1, <1>5, <1>7, JoinsBoth
  <2> QED BY <1>2, <1>5, <2>1 DEF Joins
<1>9. ReadPtr(b, p) = n
  BY <1>1, <1>2, <1>5, <1>6, <1>7, ReadAppended
<1>10. PICK z : z = <<0>> /\ z \in Seq(Byte) /\ Len(z) = 1 /\ z[1] = 0
  <2>1. 0 \in Byte
    BY DEF Byte
  <2>2. <<0>> \in Seq(Byte) /\ Len(<<0>>) = 1 /\ <<0>>[1] = 0
    BY <2>1
  <2> QED BY <2>2
<1>11. PICK t : t = b \o z
  OBVIOUS
<1>12. Len(t) = p + 4 + n + 1 /\ t[p + 4 + n + 1] = 0
  <2>1. Joins(t, b, z)
    BY <1>8, <1>10, <1>11, JoinsBoth
  <2> QED BY <1>2, <1>8, <1>10, <2>1 DEF Joins
<1>13. ReadPtr(t, p) = n
  <2>1. p + 4 <= Len(b)
    BY <1>2, <1>8
  <2>2. ReadPtr(b \o z, p) = ReadPtr(b, p)
    BY <1>2, <1>8, <1>10, <2>1, ReadAppended
  <2> QED BY <1>9, <1>11, <2>2
<1>14. \A i \in 1 .. n : t[p + 4 + i] = c[i]
  <2>1. PICK len \in Nat : len = Len(b) /\ len = p + 4 + n
    BY <1>8
  <2>2. \A i \in 1 .. len : t[i] = b[i]
    BY <1>8, <1>10, <1>11, <2>1
  <2>3. \A i \in 1 .. n : p + 4 + i \in 1 .. len
    BY <2>1
  <2> QED BY <1>8, <2>2, <2>3
<1>15. Stored(t, p, c)
  BY <1>2, <1>12, <1>13, <1>14 DEF Stored
<1> QED BY <1>2, <1>3, <1>4, <1>7, <1>10, <1>11, <1>15

------------------------------------------------------------------------------
(***************************************************************************)
(* Literals                                                                *)
(***************************************************************************)
\* The length of a literal is a number that four bytes can say.
ShortLiterals == \A c \in Content : Len(c) \in Int32

\* Whatever address a literal was given, and whatever address the pool would
\* give it, it is stored there.
Literals ==
    Sound =>
      /\ \A l \in literals : Stored(data.bytes, l.ptr, l.content)
      /\ \A k \in DOMAIN Contents(pool) : Stored(data.bytes, Contents(pool)[k], k.content)
      /\ program # NoProgram => \A l \in literals : Stored(program.bytes, l.ptr, l.content)

LEMMA InitLiterals == Init => Literals
<1> SUFFICES ASSUME Init PROVE Literals
  OBVIOUS
<1>1. DOMAIN Contents(pool) = {}
  BY DEF Init, EmptyTable, Contents
<1> QED BY <1>1 DEF Init, Literals

LEMMA StringLiteralLiterals ==
    ASSUME ShortLiterals, Memory, Literals,
           NEW c \in Content, NEW moves \in BOOLEAN, StringLiteral(c, moves)
    PROVE  Literals'
<1> SUFFICES ASSUME Sound'
             PROVE  /\ \A l \in literals' : Stored(data'.bytes, l.ptr, l.content)
                    /\ \A k \in DOMAIN Contents(pool') :
                         Stored(data'.bytes, Contents(pool')[k], k.content)
  BY DEF Literals, StringLiteral, Compiling
<1>1. Sound /\ AddString(c, moves) /\ PointsIntoBlock(data')
      /\ literals' = literals \union {[ptr |-> EmitString(c), content |-> c]}
  BY DEF StringLiteral, Sound
<1>2. /\ \A l \in literals : Stored(data.bytes, l.ptr, l.content)
      /\ \A k \in DOMAIN Contents(pool) : Stored(data.bytes, Contents(pool)[k], k.content)
  BY <1>1 DEF Literals
<1>3. /\ \A l \in literals : l.ptr \in Nat /\ l.content \in Content
      /\ \A k \in DOMAIN Contents(pool) : Contents(pool)[k] \in Nat /\ k \in Keys
      /\ BlobOK(data) /\ data.bytes \in Seq(Byte)
  <2>1. DOMAIN Contents(pool) \subseteq Keys
    <3>1. PICK t : t = pool /\ TableOK(t, Keys, Addresses)
      BY DEF Memory, PoolOK
    <3>2. Shape(t, Keys, Addresses) /\ Unique(t)
      BY <3>1 DEF TableOK
    <3>3. DOMAIN Contents(t) \subseteq Keys
      BY <3>2, ContentsFacts
    <3> QED BY <3>1, <3>3
  <2> QED BY <2>1 DEF Memory, PoolOK, BlobOK, Counted, BlobRecord
<1>4. CASE Pooled(c) # NoKey
  <2>1. data' = data /\ pool' = pool
    BY <1>1, <1>4, AddStringOK
  <2>2. Key(c) \in DOMAIN Contents(pool) /\ EmitString(c) = Contents(pool)[Key(c)]
    BY <1>4, AddressOK
  <2>3. Stored(data.bytes, EmitString(c), c)
    BY <1>2, <2>2, KeyFacts
  <2> QED BY <1>1, <1>2, <2>1, <2>3
<1>5. CASE Pooled(c) = NoKey
  <2>1. /\ data' = WriteString(data, c, moves)
        /\ Contents(pool') = With(Contents(pool), Key(c), Len(data.bytes))
    BY <1>1, <1>5, AddStringOK
  <2>2. PICK e : e = LittleEndian(Len(c)) /\ e \in Seq(Byte)
    <3>1. Len(c) \in Int
      BY EmitterAssumption
    <3> QED BY <3>1, LittleEndianBytes
  <2>3. data'.bytes = ((data.bytes \o e) \o c) \o <<0>>
    BY <1>1, <1>3, <2>1, <2>2, StringOK
  <2>4. Stored(data'.bytes, Len(data.bytes), c)
    BY <1>3, <2>2, <2>3, StoredWritten DEF ShortLiterals
  <2>5. ASSUME NEW p \in Nat, NEW d \in Content, Stored(data.bytes, p, d)
        PROVE  Stored(data'.bytes, p, d)
    <3>1. c \in Seq(Byte) /\ <<0>> \in Seq(Byte)
      BY EmitterAssumption DEF Byte
    <3>2. PICK a : a = data.bytes \o e
      OBVIOUS
    <3>3. a \in Seq(Byte) /\ Stored(a, p, d)
      BY <1>3, <2>2, <2>5, <3>2, StoredAppended
    <3>4. PICK b : b = a \o c
      OBVIOUS
    <3>5. b \in Seq(Byte) /\ Stored(b, p, d)
      BY <3>1, <3>3, <3>4, StoredAppended
    <3>6. Stored(b \o <<0>>, p, d)
      BY <3>1, <3>5, StoredAppended
    <3> QED BY <2>3, <3>2, <3>4, <3>6
  <2>6. EmitString(c) = Len(data.bytes)
    BY <1>5, AddressOK
  <2>7. \A l \in literals' : Stored(data'.bytes, l.ptr, l.content)
    <3>1. \A l \in literals : Stored(data'.bytes, l.ptr, l.content)
      BY <1>2, <1>3, <2>5
    <3> QED BY <1>1, <2>4, <2>6, <3>1
  <2>8. ASSUME NEW k \in DOMAIN Contents(pool')
        PROVE  Stored(data'.bytes, Contents(pool')[k], k.content)
    <3>1. CASE k = Key(c)
      <4>1. Contents(pool')[k] = Len(data.bytes) /\ k.content = c
        BY <2>1, <2>8, <3>1, KeyFacts DEF With
      <4> QED BY <2>4, <4>1
    <3>2. CASE k # Key(c)
      <4>1. k \in DOMAIN Contents(pool) /\ Contents(pool')[k] = Contents(pool)[k]
        BY <2>1, <2>8, <3>2 DEF With
      <4>2. Contents(pool)[k] \in Nat /\ k.content \in Content
        BY <1>3, <4>1, KeyFacts
      <4> QED BY <1>2, <2>5, <4>1, <4>2
    <3> QED BY <3>1, <3>2
  <2> QED BY <2>7, <2>8
<1> QED BY <1>4, <1>5

\* The other actions write no data.
LEMMA AssembleLiterals ==
    ASSUME Memory, Literals, NEW moves \in BOOLEAN, Assemble(moves)
    PROVE  Literals'
<1> SUFFICES ASSUME Sound' PROVE Literals'
  BY DEF Literals
<1>1. Sound /\ scopes # <<>>
  BY DEF Assemble, Compiling
<1>2. PICK body, all : body = Write(Code, Op, moves) /\ all = Write(functions, body.bytes, moves)
  OBVIOUS
<1>3. BlobOK(all)
  BY <1>1, <1>2, CommittedOK
<1>4. /\ program' = [bytes |-> data.bytes \o all.bytes, data |-> Len(data.bytes),
                     start |-> WritePtr(functions)]
      /\ UNCHANGED <<data, pool, literals, pending>>
  BY <1>2, Assembled
<1>5. all.bytes \in Seq(Byte) /\ data.bytes \in Seq(Byte)
  BY <1>3 DEF BlobOK, Counted, BlobRecord, Memory
<1>6. \A l \in literals : l.ptr \in Nat /\ l.content \in Content
  BY DEF Memory
<1>7. \A l \in literals : Stored(data.bytes, l.ptr, l.content)
  BY <1>1 DEF Literals
<1>8. \A l \in literals : Stored(program'.bytes, l.ptr, l.content)
  BY <1>4, <1>5, <1>6, <1>7, StoredAppended
<1> QED BY <1>1, <1>4, <1>8 DEF Literals

LEMMA NextLiterals ==
    ASSUME ShortLiterals
    PROVE  Memory /\ Literals /\ [Next]_vars => Literals'
<1> SUFFICES ASSUME Memory, Literals, [Next]_vars PROVE Literals'
  OBVIOUS
<1>1. ASSUME Sound, program = NoProgram, UNCHANGED <<data, pool, literals, program>>
      PROVE  Literals'
  BY <1>1 DEF Literals
<1>2. CASE BeginFunction
  BY <1>1, <1>2 DEF BeginFunction, Compiling
<1>3. ASSUME NEW jump \in pending, PatchJump(jump) PROVE Literals'
  BY <1>1, <1>3 DEF PatchJump, Compiling
<1>4. ASSUME NEW moves \in BOOLEAN, NEW c \in Content, StringLiteral(c, moves) PROVE Literals'
  BY <1>4, StringLiteralLiterals
<1>5. ASSUME NEW moves \in BOOLEAN, EmitJump(moves) PROVE Literals'
  BY <1>1, <1>5 DEF EmitJump, Compiling
<1>6. ASSUME NEW moves \in BOOLEAN, EmitLoop(moves) PROVE Literals'
  BY <1>1, <1>6 DEF EmitLoop, Compiling
<1>7. ASSUME NEW moves \in BOOLEAN, EndFunction(moves) PROVE Literals'
  BY <1>1, <1>7 DEF EndFunction, CommitAstray, Compiling
<1>8. ASSUME NEW moves \in BOOLEAN, Assemble(moves) PROVE Literals'
  BY <1>8, AssembleLiterals
<1>9. CASE UNCHANGED vars
  BY <1>9 DEF vars, Literals, Sound
<1> QED BY <1>2, <1>3, <1>4, <1>5, <1>6, <1>7, <1>8, <1>9 DEF Next

\* What assembled programs hold is a sequence of bytes.
ProgramOK == program # NoProgram => program.bytes \in Seq(Byte)

LEMMA NextProgram == Memory /\ ProgramOK /\ [Next]_vars => ProgramOK'
<1> SUFFICES ASSUME Memory, ProgramOK, [Next]_vars PROVE ProgramOK'
  OBVIOUS
<1>1. ASSUME program' = program PROVE ProgramOK'
  BY <1>1 DEF ProgramOK
<1>2. ASSUME NEW moves \in BOOLEAN, Assemble(moves) PROVE ProgramOK'
  <2>1. PICK body, all : body = Write(Code, Op, moves) /\ all = Write(functions, body.bytes, moves)
    OBVIOUS
  <2>2. BlobOK(all)
    BY <1>2, <2>1, CommittedOK DEF Assemble, Compiling
  <2>3. program' = program \/ program'.bytes = Joined(all).bytes
    BY <1>2, <2>1 DEF Assemble, CommitAstray
  <2>4. Joined(all).bytes \in Seq(Byte)
    BY <2>2 DEF Joined, BlobOK, Counted, BlobRecord, Memory
  <2> QED BY <1>1, <2>3, <2>4 DEF ProgramOK
<1>3. CASE UNCHANGED vars
  BY <1>1, <1>3 DEF vars
<1> QED BY <1>1, <1>2, <1>3
        DEF Next, BeginFunction, PatchJump, StringLiteral, EmitJump, EmitLoop, EndFunction,
            CommitAstray

LEMMA LiteralsAreReadable ==
    Memory /\ ProgramOK /\ Literals => LiteralsReadable
<1> SUFFICES ASSUME Memory, ProgramOK, Literals, Sound, NEW l \in literals
             PROVE  /\ ReadsAs(data.bytes, l)
                    /\ program # NoProgram => ReadsAs(program.bytes, l)
  BY DEF LiteralsReadable
<1>1. l \in [ptr : Nat, content : Content] /\ data.bytes \in Seq(Byte)
  BY DEF Memory, BlobOK, Counted, BlobRecord
<1>2. ReadsAs(data.bytes, l)
  BY <1>1, StoredReads DEF Literals
<1>3. ASSUME program # NoProgram PROVE ReadsAs(program.bytes, l)
  BY <1>1, <1>3, StoredReads DEF Literals, ProgramOK
<1> QED BY <1>2, <1>3

\* At every address that emit_string returned, the VM reads the literal with
\* its null byte, from the data and from the program that ch_emit_assemble
\* makes of it, as long as no realloc has moved a block and no literal is as
\* long as 2^31 bytes.
THEOREM SpecLiteralsReadable == ASSUME ShortLiterals PROVE Spec => []LiteralsReadable
<1>1. Init => Memory /\ ProgramOK /\ Literals
  BY InitMemory, InitLiterals DEF Init, ProgramOK
<1>2. Memory /\ ProgramOK /\ Literals /\ [Next]_vars => (Memory /\ ProgramOK /\ Literals)'
  BY NextMemory, NextProgram, NextLiterals
<1>3. Memory /\ ProgramOK /\ Literals => LiteralsReadable
  BY LiteralsAreReadable
<1> QED BY <1>1, <1>2, <1>3, PTL DEF Spec
------------------------------------------------------------------------------
(***************************************************************************)
(* Jumps                                                                   *)
(***************************************************************************)
\* The distances within a function are numbers that four bytes can say.
ShortFunctions == MaxCode + 6 <= 2147483647

\* Two offsets share no byte.
Apart(a, b) == a + 4 <= b \/ b + 4 <= a

CodeBytes(scope) == IF scope = 0 THEN functions.bytes ELSE scopes[scope].bytes

Lands(bytes, t) == t.at + 4 <= Len(bytes) /\ ReadPtr(bytes, t.at) = t.offset

\* An enclosing function waits with the bytes it had when the inner one began.
Lengths ==
    \A i \in 1 .. Len(scopes) :
        Len(scopes[i].bytes) <= MaxCode + (IF i = Len(scopes) THEN 6 ELSE 0)
TargetsLand == \A t \in targets : t.scope \in 0 .. Len(scopes) /\ Lands(CodeBytes(t.scope), t)
PendingFit ==
    \A j \in pending : j.scope \in 1 .. Len(scopes) /\ j.at + 4 <= Len(scopes[j.scope].bytes)
PendingApart == \A j, k \in pending : j.scope = k.scope /\ j # k => Apart(j.at, k.at)
TargetsApart == \A j \in pending, t \in targets : j.scope = t.scope => Apart(j.at, t.at)

\* While compiling: a jump that is still to be patched is apart from every
\* other offset of its function, so that patch_jump disturbs none of them.
Patchable == Lengths /\ TargetsLand /\ PendingFit /\ PendingApart /\ TargetsApart

Jumps ==
    Sound => IF program = NoProgram THEN Patchable
             ELSE \A t \in targets : ReadPtr(program.bytes, program.data + t.at) = t.offset

LEMMA JumpsAreReadBack == Jumps => JumpsReadBack
<1> SUFFICES ASSUME Jumps, Sound, NEW t \in targets
             PROVE  IF program = NoProgram THEN ReadPtr(CodeBytes(t.scope), t.at) = t.offset
                    ELSE ReadPtr(program.bytes, program.data + t.at) = t.offset
  BY DEF JumpsReadBack, CodeBytes
<1> QED BY DEF Jumps, Patchable, TargetsLand, Lands

LEMMA InitJumps == Init => Jumps
<1> SUFFICES ASSUME Init PROVE Patchable
  BY DEF Init, Jumps
<1>1. Len(scopes) = 1 /\ scopes[1] = CreateBlob
  BY DEF Init
<1>2. Len(scopes[1].bytes) = 0
  BY <1>1, CreateBlobOK
<1>3. Lengths
  BY <1>1, <1>2, EmitterAssumption DEF Lengths
<1> QED BY <1>3 DEF Init, Patchable, TargetsLand, PendingFit, PendingApart, TargetsApart

LEMMA LandsKept ==
    ASSUME NEW t \in [scope : Nat, at : Nat, offset : Int], NEW a, Lands(a, t),
           NEW b, Len(a) \in Nat, Len(b) \in Nat, Len(a) <= Len(b),
           \A i \in 1 .. 4 : b[t.at + i] = a[t.at + i]
    PROVE  Lands(b, t)
<1>1. PICK at \in Nat : at = t.at
  OBVIOUS
<1>2. \A i \in 1 .. 4 : b[at + i] = a[at + i]
  BY <1>1
<1>3. ReadPtr(b, at) = ReadPtr(a, at)
  BY <1>2, SameBytes
<1> QED BY <1>1, <1>3 DEF Lands

\* Bytes are added to the innermost function, or an offset in it is patched.
LEMMA OffsetsKept ==
    ASSUME Memory, scopes # <<>>, ScopesOK(scopes'), NEW n, n = Len(scopes), Len(scopes') = n,
           functions' = functions, TargetsLand, PendingFit,
           \A i \in 1 .. n : i # n => scopes'[i] = scopes[i],
           Len(scopes[n].bytes) <= Len(scopes'[n].bytes),
           \A t \in targets : t.scope = n =>
             \A i \in 1 .. 4 : scopes'[n].bytes[t.at + i] = scopes[n].bytes[t.at + i]
    PROVE  /\ \A t \in targets : t.scope \in 0 .. n /\ Lands(CodeBytes(t.scope)', t)
           /\ \A j \in pending : j.scope \in 1 .. n /\ j.at + 4 <= Len(scopes'[j.scope].bytes)
<1>1. n \in Nat \ {0} /\ BlobOK(scopes[n]) /\ BlobOK(scopes'[n])
  BY CodeOK DEF ScopesOK
<1>2. Len(scopes[n].bytes) \in Nat /\ Len(scopes'[n].bytes) \in Nat
  BY <1>1 DEF BlobOK, Counted, BlobRecord
<1>3. ASSUME NEW t \in targets PROVE t.scope \in 0 .. n /\ Lands(CodeBytes(t.scope)', t)
  <2>1. /\ t \in [scope : Nat, at : Nat, offset : Int] /\ t.scope \in 0 .. n
        /\ Lands(CodeBytes(t.scope), t)
    BY <1>3 DEF Memory, TargetsLand
  <2>2. CASE t.scope = n
    <3>1. CodeBytes(t.scope) = scopes[n].bytes /\ CodeBytes(t.scope)' = scopes'[n].bytes
      BY <1>1, <2>2 DEF CodeBytes
    <3>2. Lands(scopes'[n].bytes, t)
      BY <1>2, <2>1, <2>2, <3>1, LandsKept
    <3> QED BY <2>1, <3>1, <3>2
  <2>3. CASE t.scope # n
    <3>1. CodeBytes(t.scope)' = CodeBytes(t.scope)
      BY <1>1, <2>1, <2>3 DEF CodeBytes
    <3> QED BY <2>1, <3>1
  <2> QED BY <2>2, <2>3
<1>4. ASSUME NEW j \in pending PROVE j.scope \in 1 .. n /\ j.at + 4 <= Len(scopes'[j.scope].bytes)
  <2>1. j.scope \in 1 .. n /\ j.at + 4 <= Len(scopes[j.scope].bytes) /\ j.at \in Nat
    BY <1>4 DEF PendingFit, Memory
  <2>2. CASE j.scope = n
    BY <1>2, <2>1, <2>2
  <2>3. CASE j.scope # n
    BY <2>1, <2>3
  <2> QED BY <2>1, <2>2, <2>3
<1> QED BY <1>3, <1>4

\* An instruction with a number, after the bytes that were there.
ExtendsBy(t, s, x) ==
    /\ t \in Seq(Byte) /\ Len(t) = Len(s) + 5
    /\ \A i \in 1 .. Len(s) : t[i] = s[i]
    /\ \A i \in 1 .. 4 : t[Len(s) + 1 + i] = LittleEndian(x)[i]

LEMMA OpPtrBytes ==
    ASSUME NEW s \in Seq(Byte), NEW x \in Int
    PROVE  ExtendsBy((s \o Op) \o LittleEndian(x), s, x)
<1>1. Op \in Seq(Byte) /\ Len(Op) = 1
  BY DEF Op, Byte
<1>2. PICK e : e = LittleEndian(x) /\ e \in Seq(Byte) /\ Len(e) = 4
  BY LittleEndianBytes
<1>3. PICK a : a = s \o Op /\ Joins(a, s, Op)
  BY <1>1, JoinsBoth
<1>4. PICK t : t = a \o e /\ Joins(t, a, e)
  <2>1. a \in Seq(Byte)
    BY <1>3 DEF Joins
  <2> QED BY <1>2, <2>1, JoinsBoth
<1>5. PICK n \in Nat : n = Len(s)
  OBVIOUS
<1>6. Len(a) = n + 1 /\ \A i \in 1 .. n : a[i] = s[i]
  BY <1>1, <1>3, <1>5 DEF Joins
<1>7. t \in Seq(Byte) /\ Len(t) = n + 5
  BY <1>2, <1>4, <1>5, <1>6 DEF Joins
<1>8. \A i \in 1 .. n : t[i] = s[i]
  BY <1>4, <1>5, <1>6 DEF Joins
<1>9. \A i \in 1 .. 4 : t[n + 1 + i] = e[i]
  BY <1>2, <1>4, <1>6 DEF Joins
<1>10. ExtendsBy(t, s, x)
  BY <1>2, <1>5, <1>7, <1>8, <1>9 DEF ExtendsBy
<1> QED BY <1>2, <1>3, <1>4, <1>10

\* No offset of a function is beyond its bytes.
LEMMA WithinCode ==
    ASSUME Memory, scopes # <<>>, TargetsLand, PendingFit, NEW n, n = Len(scopes)
    PROVE  /\ \A t \in targets : t.scope = n => t.at \in Nat /\ t.at + 4 <= Len(scopes[n].bytes)
           /\ \A j \in pending : j.scope = n => j.at \in Nat /\ j.at + 4 <= Len(scopes[n].bytes)
<1>1. n # 0
  BY CodeOK
<1> QED BY <1>1 DEF TargetsLand, PendingFit, Lands, CodeBytes, Memory

\* The bytes of an instruction that the innermost function gets.
LEMMA EmittedBytes ==
    ASSUME Memory, scopes # <<>>, NEW x \in Int, NEW moves \in BOOLEAN, EmitOpPtr(x, moves), Sound',
           NEW n, n = Len(scopes)
    PROVE  /\ n \in Nat \ {0} /\ ScopesOK(scopes') /\ Len(scopes') = n
           /\ Len(scopes[n].bytes) \in Nat /\ ContentSize(Code) = Len(scopes[n].bytes)
           /\ \A i \in 1 .. n : i # n => scopes'[i] = scopes[i]
           /\ ExtendsBy(scopes'[n].bytes, scopes[n].bytes, x)
<1>1. /\ ScopesOK(scopes') /\ BlobOK(Code) /\ Code = scopes[n]
      /\ Len(scopes') = n /\ n \in Nat \ {0}
      /\ scopes'[n] = WriteOpPtr(Code, x, moves)
      /\ \A i \in 1 .. n : i # n => scopes'[i] = scopes[i]
  BY EmittedOK
<1>2. PointsIntoBlock(scopes'[n])
  BY <1>1 DEF Sound, ScopesOK
<1>3. PICK b, w : b = scopes[n] /\ w = scopes'[n] /\ w = WriteOpPtr(b, x, moves)
  BY <1>1
<1>4. w.bytes = (b.bytes \o Op) \o LittleEndian(x)
  BY <1>1, <1>2, <1>3, OpPtrOK
<1>5. b.bytes \in Seq(Byte)
  BY <1>1, <1>3 DEF BlobOK, Counted, BlobRecord
<1>6. ExtendsBy(w.bytes, b.bytes, x)
  BY <1>4, <1>5, OpPtrBytes
<1>7. Len(b.bytes) \in Nat /\ ContentSize(Code) = Len(b.bytes)
  BY <1>1, <1>3 DEF BlobOK, Counted, BlobRecord, ContentSize
<1> QED BY <1>1, <1>3, <1>6, <1>7

\* The same, and what it leaves of the offsets.
LEMMA InstructionJumps ==
    ASSUME Memory, Patchable, scopes # <<>>, functions' = functions, CodeFits,
           NEW x \in Int, NEW moves \in BOOLEAN, EmitOpPtr(x, moves), Sound'
    PROVE  /\ Lengths'
           /\ \A t \in targets : t.scope \in 0 .. Len(scopes') /\ Lands(CodeBytes(t.scope)', t)
           /\ \A j \in pending : /\ j.scope \in 1 .. Len(scopes')
                                 /\ j.at + 4 <= Len(scopes'[j.scope].bytes)
<1>1. PICK n : n = Len(scopes)
  OBVIOUS
<1>2. /\ n \in Nat \ {0} /\ ScopesOK(scopes') /\ Len(scopes') = n
      /\ Len(scopes[n].bytes) \in Nat /\ ContentSize(Code) = Len(scopes[n].bytes)
      /\ \A i \in 1 .. n : i # n => scopes'[i] = scopes[i]
      /\ ExtendsBy(scopes'[n].bytes, scopes[n].bytes, x)
  BY <1>1, EmittedBytes
<1>3. /\ \A t \in targets : t.scope = n => t.at \in Nat /\ t.at + 4 <= Len(scopes[n].bytes)
      /\ TargetsLand /\ PendingFit /\ Lengths
  BY <1>1, WithinCode DEF Patchable
<1>4. Len(scopes'[n].bytes) = Len(scopes[n].bytes) + 5
  BY <1>2 DEF ExtendsBy
<1>5. \A t \in targets : t.scope = n =>
        \A i \in 1 .. 4 : scopes'[n].bytes[t.at + i] = scopes[n].bytes[t.at + i]
  <2>1. PICK a, b : a = scopes[n].bytes /\ b = scopes'[n].bytes /\ \A i \in 1 .. Len(a) : b[i] = a[i]
    BY <1>2 DEF ExtendsBy
  <2>2. ASSUME NEW t \in targets, t.scope = n, NEW i \in 1 .. 4 PROVE t.at + i \in 1 .. Len(a)
    BY <1>2, <1>3, <2>1, <2>2
  <2> QED BY <2>1, <2>2
<1>6. Len(scopes[n].bytes) <= Len(scopes'[n].bytes)
  BY <1>2, <1>4
<1>7. /\ \A t \in targets : t.scope \in 0 .. n /\ Lands(CodeBytes(t.scope)', t)
      /\ \A j \in pending : j.scope \in 1 .. n /\ j.at + 4 <= Len(scopes'[j.scope].bytes)
  BY <1>1, <1>2, <1>3, <1>5, <1>6, OffsetsKept
<1>8. Lengths'
  <2>1. Len(scopes'[n].bytes) <= MaxCode + 6
    BY <1>2, <1>4, EmitterAssumption DEF CodeFits
  <2>2. \A i \in 1 .. n : i # n => Len(scopes'[i].bytes) <= MaxCode + 0
    BY <1>1, <1>2, <1>3 DEF Lengths
  <2> QED BY <1>2, <2>1, <2>2 DEF Lengths
<1> QED BY <1>2, <1>7, <1>8

LEMMA StringLiteralJumps ==
    ASSUME Memory, Patchable, NEW c \in Content, NEW moves \in BOOLEAN, StringLiteral(c, moves), Sound'
    PROVE  Patchable'
<1>1. /\ scopes # <<>> /\ EmitString(c) \in Nat /\ CodeFits /\ functions' = functions
      /\ targets' = targets /\ pending' = pending /\ EmitOpPtr(EmitString(c), moves)
  BY AddressOK DEF StringLiteral, Compiling
<1>2. /\ Lengths'
      /\ \A t \in targets : t.scope \in 0 .. Len(scopes') /\ Lands(CodeBytes(t.scope)', t)
      /\ \A j \in pending : /\ j.scope \in 1 .. Len(scopes')
                            /\ j.at + 4 <= Len(scopes'[j.scope].bytes)
  BY <1>1, InstructionJumps
<1> QED BY <1>1, <1>2 DEF Patchable, TargetsLand, PendingFit, PendingApart, TargetsApart

LEMMA EmitJumpJumps ==
    ASSUME Memory, Patchable, NEW moves \in BOOLEAN, EmitJump(moves), Sound'
    PROVE  Patchable'
<1>1. /\ scopes # <<>> /\ CodeFits /\ functions' = functions
      /\ targets' = targets /\ EmitOpPtr(0, moves)
  BY DEF EmitJump, Compiling
<1>2. /\ Lengths'
      /\ \A t \in targets : t.scope \in 0 .. Len(scopes') /\ Lands(CodeBytes(t.scope)', t)
      /\ \A j \in pending : /\ j.scope \in 1 .. Len(scopes')
                            /\ j.at + 4 <= Len(scopes'[j.scope].bytes)
  BY <1>1, InstructionJumps
<1>3. PICK n : n = Len(scopes)
  OBVIOUS
<1>4. /\ n \in Nat \ {0} /\ Len(scopes') = n
      /\ Len(scopes[n].bytes) \in Nat /\ ContentSize(Code) = Len(scopes[n].bytes)
      /\ ExtendsBy(scopes'[n].bytes, scopes[n].bytes, 0)
  BY <1>1, <1>3, EmittedBytes
<1>5. /\ \A t \in targets : t.scope = n => t.at \in Nat /\ t.at + 4 <= Len(scopes[n].bytes)
      /\ \A j \in pending : j.scope = n => j.at \in Nat /\ j.at + 4 <= Len(scopes[n].bytes)
  BY <1>1, <1>3, WithinCode DEF Patchable
<1>6. PICK at \in Nat : at = Len(scopes[n].bytes) + 1
  BY <1>4
<1>7. PICK new : new = [scope |-> n, at |-> at] /\ pending' = pending \union {new}
  BY <1>3, <1>4, <1>6 DEF EmitJump
<1>8. \A j \in pending : j.scope = n => Apart(j.at, at) /\ Apart(at, j.at)
  BY <1>4, <1>5, <1>6 DEF Apart
<1>9. \A t \in targets : t.scope = n => Apart(at, t.at)
  BY <1>4, <1>5, <1>6 DEF Apart
<1>10. PendingFit'
  <2>1. new.scope \in 1 .. Len(scopes') /\ new.at + 4 <= Len(scopes'[new.scope].bytes)
    BY <1>4, <1>6, <1>7 DEF ExtendsBy
  <2> QED BY <1>2, <1>7, <2>1 DEF PendingFit
<1>11. PendingApart'
  BY <1>7, <1>8 DEF PendingApart, Patchable
<1>12. TargetsApart'
  BY <1>1, <1>7, <1>9 DEF TargetsApart, Patchable
<1> QED BY <1>1, <1>2, <1>10, <1>11, <1>12 DEF Patchable, TargetsLand

LEMMA PatchJumpJumps ==
    ASSUME ShortFunctions, Memory, Patchable, NEW jump \in pending, PatchJump(jump), Sound'
    PROVE  Patchable'
<1>1. /\ scopes # <<>> /\ jump \in [scope : Nat, at : Nat] /\ functions' = functions
      /\ pending' = pending \ {jump} /\ jump.scope = Len(scopes)
  BY DEF PatchJump, Compiling, Memory
<1>2. PICK n : n = Len(scopes)
  OBVIOUS
<1>3. /\ ScopesOK(scopes) /\ n \in Nat \ {0}
      /\ Code = scopes[n] /\ BlobOK(scopes[n])
      /\ ContentSize(Code) = Len(scopes[n].bytes) /\ Len(scopes[n].bytes) \in Nat
  BY <1>1, <1>2, CodeOK
<1>4. PICK at \in Nat, offset \in Int : at = jump.at /\ offset = Len(scopes[n].bytes) - at - 4
  <2>1. jump.at \in Nat
    BY <1>1
  <2>2. Len(scopes[n].bytes) - jump.at - 4 \in Int
    BY <1>3, <2>1
  <2> QED BY <2>1, <2>2
<1>5. at + 4 <= Len(scopes[n].bytes) /\ Len(scopes[n].bytes) <= MaxCode + 6
  BY <1>1, <1>2, <1>3, <1>4 DEF Patchable, PendingFit, Lengths
<1>6. offset \in Int32
  <2>1. PICK len \in Nat, max \in Nat : len = Len(scopes[n].bytes) /\ max = MaxCode
    BY <1>3, EmitterAssumption
  <2>2. offset = len - at - 4 /\ at + 4 <= len /\ len <= max + 6 /\ max + 6 <= 2147483647
    BY <1>4, <1>5, <2>1, SMT DEF ShortFunctions
  <2> QED BY <2>2, SMT DEF Int32
<1>7. PICK b, w : b = scopes[n] /\ w = PatchBytes(b, offset, at)
  OBVIOUS
<1>8. /\ BlobOK(w) /\ Len(w.bytes) = Len(b.bytes)
      /\ \A i \in 1 .. Len(b.bytes) : i \notin at + 1 .. at + 4 => w.bytes[i] = b.bytes[i]
      /\ \A i \in 1 .. 4 : w.bytes[at + i] = LittleEndian(offset)[i]
  <2>1. /\ BlobOK(w) /\ (PointsIntoBlock(w) <=> PointsIntoBlock(b))
        /\ Len(w.bytes) = Len(b.bytes)
        /\ \A i \in 1 .. Len(b.bytes) : i \notin at + 1 .. at + 4 => w.bytes[i] = b.bytes[i]
        /\ at + 4 <= Len(b.bytes) => \A i \in 1 .. 4 : w.bytes[at + i] = LittleEndian(offset)[i]
    <3>1. BlobOK(b)
      BY <1>3, <1>7
    <3> QED BY <1>7, <3>1, PatchOK
  <2> QED BY <1>5, <1>7, <2>1
<1>9. PICK s2 : s2 = scopes' /\ Replaced(s2, scopes, w)
  BY <1>2, <1>3, <1>4, <1>7 DEF PatchJump, Replaced, PtrBytes
<1>10. /\ Len(scopes) \in Nat \ {0} /\ BlobOK(Last(scopes)) /\ Last(scopes) = scopes[Len(scopes)]
       /\ ScopesOK(s2) /\ Len(s2) = Len(scopes) /\ s2[Len(scopes)] = w
       /\ \A i \in 1 .. Len(scopes) : i # Len(scopes) => s2[i] = scopes[i]
  BY <1>1, <1>3, <1>8, <1>9, CodeReplaced
<1>11. /\ ScopesOK(scopes') /\ Len(scopes') = n /\ scopes'[n] = w
       /\ \A i \in 1 .. n : i # n => scopes'[i] = scopes[i]
  BY <1>2, <1>9, <1>10
<1>12. \A t \in targets : t.scope = n => t.at \in Nat /\ t.at + 4 <= Len(scopes[n].bytes)
  BY <1>1, <1>2, WithinCode DEF Patchable
<1>13. \A t \in targets : t.scope = n => Apart(at, t.at)
  BY <1>1, <1>2, <1>4 DEF Patchable, TargetsApart
<1>14. \A t \in targets : t.scope = n =>
         \A i \in 1 .. 4 : scopes'[n].bytes[t.at + i] = scopes[n].bytes[t.at + i]
  <2>1. ASSUME NEW t \in targets, t.scope = n, NEW i \in 1 .. 4
        PROVE  t.at + i \in 1 .. Len(b.bytes) /\ t.at + i \notin at + 1 .. at + 4
    <3>1. PICK len \in Nat : len = Len(b.bytes)
      BY <1>3, <1>7
    <3>2. PICK q \in Nat : q = t.at /\ q + 4 <= len
      BY <1>7, <1>12, <2>1, <3>1
    <3>3. at + 4 <= q \/ q + 4 <= at
      BY <1>13, <2>1, <3>2 DEF Apart
    <3> QED BY <3>1, <3>2, <3>3
  <2> QED BY <1>7, <1>8, <1>11, <2>1
<1>15. Len(scopes[n].bytes) <= Len(scopes'[n].bytes)
  BY <1>3, <1>7, <1>8, <1>11
<1>16. TargetsLand /\ PendingFit
  BY DEF Patchable
<1>17. /\ \A t \in targets : t.scope \in 0 .. n /\ Lands(CodeBytes(t.scope)', t)
       /\ \A j \in pending : j.scope \in 1 .. n /\ j.at + 4 <= Len(scopes'[j.scope].bytes)
  BY <1>1, <1>2, <1>11, <1>14, <1>15, <1>16, OffsetsKept
<1>18. PICK new : /\ new = [scope |-> n, at |-> at, offset |-> offset]
                  /\ targets' = targets \union {new}
  BY <1>2, <1>3, <1>4 DEF PatchJump, PtrBytes
<1>19. new.scope \in 0 .. n /\ Lands(CodeBytes(new.scope)', new)
  <2>1. ReadPtr(w.bytes, at) = offset
    BY <1>6, <1>8, ReadBack
  <2>2. CodeBytes(n)' = w.bytes
    BY <1>3, <1>11 DEF CodeBytes
  <2> QED BY <1>3, <1>5, <1>7, <1>8, <1>18, <2>1, <2>2 DEF Lands
<1>20. Lengths'
  BY <1>2, <1>7, <1>8, <1>11 DEF Lengths, Patchable
<1>21. TargetsLand' /\ PendingFit'
  BY <1>1, <1>11, <1>17, <1>18, <1>19 DEF TargetsLand, PendingFit
<1>22. PendingApart'
  BY <1>1 DEF PendingApart, Patchable
<1>23. TargetsApart'
  BY <1>1, <1>2, <1>4, <1>18 DEF TargetsApart, PendingApart, Patchable
<1> QED BY <1>20, <1>21, <1>22, <1>23 DEF Patchable

LEMMA EmitLoopJumps ==
    ASSUME ShortFunctions, Memory, Patchable, NEW moves \in BOOLEAN, EmitLoop(moves), Sound'
    PROVE  Patchable'
<1>1. scopes # <<>> /\ functions' = functions /\ pending' = pending /\ CodeFits
  BY DEF EmitLoop, Compiling
<1>2. PICK n : n = Len(scopes)
  OBVIOUS
<1>3. /\ ScopesOK(scopes) /\ n \in Nat \ {0}
      /\ Code = scopes[n] /\ BlobOK(scopes[n])
      /\ ContentSize(Code) = Len(scopes[n].bytes) /\ Len(scopes[n].bytes) \in Nat
  BY <1>1, <1>2, CodeOK
<1>4. PICK len \in Nat, at \in Nat, offset \in Int :
        len = Len(scopes[n].bytes) /\ at = len + 1 /\ offset = -(at + 4)
  BY <1>3
<1>5. len <= MaxCode
  BY <1>1, <1>3, <1>4 DEF CodeFits
<1>6. offset \in Int32
  BY <1>4, <1>5, EmitterAssumption, SMT DEF Int32, ShortFunctions
<1>7. PICK z \in Int : z = 0
  OBVIOUS
<1>7a. PICK b, v, w : /\ b = scopes[n] /\ v = WriteOpPtr(b, z, moves)
                      /\ w = PatchBytes(v, offset, at)
  OBVIOUS
<1>8. /\ BlobOK(v)
      /\ PointsIntoBlock(v) => /\ PointsIntoBlock(b)
                               /\ v.bytes = (b.bytes \o Op) \o LittleEndian(z)
  BY <1>3, <1>7a, OpPtrOK
<1>9. /\ BlobOK(w) /\ (PointsIntoBlock(w) <=> PointsIntoBlock(v))
      /\ Len(w.bytes) = Len(v.bytes)
      /\ \A i \in 1 .. Len(v.bytes) : i \notin at + 1 .. at + 4 => w.bytes[i] = v.bytes[i]
      /\ at + 4 <= Len(v.bytes) => \A i \in 1 .. 4 : w.bytes[at + i] = LittleEndian(offset)[i]
  BY <1>7, <1>7a, <1>8, PatchOK
<1>10. PICK s2 : s2 = scopes' /\ Replaced(s2, scopes, w)
  <2>1. /\ scopes' = [scopes EXCEPT ![Len(scopes)] =
                       PatchBytes(WriteOpPtr(scopes[n], 0, moves), -(Len(scopes[n].bytes) + 1 + 4),
                                  Len(scopes[n].bytes) + 1)]
    BY <1>2, <1>3 DEF EmitLoop, PtrBytes
  <2>2. scopes' = [scopes EXCEPT ![Len(scopes)] = w]
    BY <1>4, <1>7, <1>7a, <2>1
  <2> QED BY <2>2 DEF Replaced
<1>11. /\ Len(scopes) \in Nat \ {0} /\ BlobOK(Last(scopes)) /\ Last(scopes) = scopes[Len(scopes)]
       /\ ScopesOK(s2) /\ Len(s2) = Len(scopes) /\ s2[Len(scopes)] = w
       /\ \A i \in 1 .. Len(scopes) : i # Len(scopes) => s2[i] = scopes[i]
  BY <1>1, <1>3, <1>9, <1>10, CodeReplaced
<1>12. /\ ScopesOK(scopes') /\ Len(scopes') = n /\ scopes'[n] = w
       /\ \A i \in 1 .. n : i # n => scopes'[i] = scopes[i]
  BY <1>2, <1>10, <1>11
<1>13. PointsIntoBlock(v)
  BY <1>3, <1>9, <1>12 DEF Sound, ScopesOK
<1>14. ExtendsBy(v.bytes, b.bytes, z)
  <2>1. b.bytes \in Seq(Byte)
    BY <1>3, <1>7a DEF BlobOK, Counted, BlobRecord
  <2> QED BY <1>8, <1>13, <2>1, OpPtrBytes
<1>15. Len(v.bytes) = len + 5 /\ \A i \in 1 .. len : v.bytes[i] = b.bytes[i]
  BY <1>4, <1>7, <1>7a, <1>14 DEF ExtendsBy
<1>16. /\ Len(w.bytes) = len + 5 /\ \A i \in 1 .. len : w.bytes[i] = b.bytes[i]
       /\ \A i \in 1 .. 4 : w.bytes[at + i] = LittleEndian(offset)[i]
  <2>1. at = len + 1
    BY <1>4
  <2>2. \A i \in 1 .. len : i \in 1 .. Len(v.bytes) /\ i \notin at + 1 .. at + 4
    BY <1>15, <2>1
  <2>3. \A i \in 1 .. len : w.bytes[i] = b.bytes[i]
    BY <1>9, <1>15, <2>2
  <2>4. at + 4 <= Len(v.bytes)
    BY <1>15, <2>1
  <2> QED BY <1>9, <1>15, <2>3, <2>4
<1>17. /\ \A t \in targets : t.scope = n => t.at \in Nat /\ t.at + 4 <= len
       /\ \A j \in pending : j.scope = n => j.at \in Nat /\ j.at + 4 <= len
  BY <1>1, <1>2, <1>4, WithinCode DEF Patchable
<1>18. \A t \in targets : t.scope = n =>
         \A i \in 1 .. 4 : scopes'[n].bytes[t.at + i] = scopes[n].bytes[t.at + i]
  <2>1. ASSUME NEW t \in targets, t.scope = n, NEW i \in 1 .. 4 PROVE t.at + i \in 1 .. len
    BY <1>17, <2>1
  <2> QED BY <1>7, <1>7a, <1>12, <1>16, <2>1
<1>19. Len(scopes[n].bytes) <= Len(scopes'[n].bytes)
  BY <1>4, <1>12, <1>16
<1>20. TargetsLand /\ PendingFit
  BY DEF Patchable
<1>21. /\ \A t \in targets : t.scope \in 0 .. n /\ Lands(CodeBytes(t.scope)', t)
       /\ \A j \in pending : j.scope \in 1 .. n /\ j.at + 4 <= Len(scopes'[j.scope].bytes)
  BY <1>1, <1>2, <1>12, <1>18, <1>19, <1>20, OffsetsKept
<1>22. PICK new : /\ new = [scope |-> n, at |-> at, offset |-> offset]
                  /\ targets' = targets \union {new}
  BY <1>2, <1>3, <1>4 DEF EmitLoop, PtrBytes
<1>23. new.scope \in 0 .. n /\ Lands(CodeBytes(new.scope)', new)
  <2>1. ReadPtr(w.bytes, at) = offset
    BY <1>6, <1>16, ReadBack
  <2>2. CodeBytes(n)' = w.bytes
    BY <1>3, <1>12 DEF CodeBytes
  <2> QED BY <1>3, <1>4, <1>16, <1>22, <2>1, <2>2 DEF Lands
<1>24. Lengths'
  <2>1. Len(scopes'[n].bytes) <= MaxCode + 6
    BY <1>5, <1>12, <1>16, EmitterAssumption
  <2>2. \A i \in 1 .. n : i # n => Len(scopes'[i].bytes) <= MaxCode + 0
    BY <1>2, <1>12 DEF Lengths, Patchable
  <2> QED BY <1>12, <2>1, <2>2 DEF Lengths
<1>25. TargetsLand' /\ PendingFit'
  BY <1>1, <1>12, <1>21, <1>22, <1>23 DEF TargetsLand, PendingFit
<1>26. PendingApart'
  BY <1>1 DEF PendingApart, Patchable
<1>27. TargetsApart'
  <2>1. \A j \in pending : j.scope = n => Apart(j.at, at)
    BY <1>4, <1>17 DEF Apart
  <2> QED BY <1>1, <1>22, <2>1 DEF TargetsApart, Patchable
<1> QED BY <1>24, <1>25, <1>26, <1>27 DEF Patchable
\* The enclosing function waits, and the new one has no bytes yet.
LEMMA BeginFunctionJumps == ASSUME Memory, Patchable, BeginFunction, Sound' PROVE Patchable'
<1>1. /\ scopes # <<>> /\ functions' = functions /\ CodeFits
      /\ targets' = targets /\ pending' = pending
  BY DEF BeginFunction, Compiling
<1>2. PICK n : n = Len(scopes)
  OBVIOUS
<1>3. /\ ScopesOK(scopes) /\ n \in Nat \ {0} /\ Code = scopes[n]
      /\ ContentSize(Code) = Len(scopes[n].bytes)
  BY <1>1, <1>2, CodeOK
<1>4. PICK s2 : s2 = scopes' /\ s2 = Append(scopes, CreateBlob)
  BY DEF BeginFunction
<1>5. /\ ScopesOK(s2) /\ Len(s2) = Len(scopes) + 1 /\ s2[Len(scopes) + 1] = CreateBlob
      /\ \A i \in 1 .. Len(scopes) : s2[i] = scopes[i]
  BY <1>3, <1>4, ScopeAdded
<1>6. /\ Len(scopes') = n + 1 /\ scopes'[n + 1] = CreateBlob
      /\ \A i \in 1 .. n : scopes'[i] = scopes[i]
  BY <1>2, <1>4, <1>5
<1>7. Lengths'
  <2>1. Len(scopes'[n + 1].bytes) = 0
    BY <1>6, CreateBlobOK
  <2>2. Len(scopes[n].bytes) <= MaxCode + 0
    BY <1>1, <1>3, EmitterAssumption DEF CodeFits
  <2>3. \A i \in 1 .. n : Len(scopes[i].bytes) <= MaxCode + 0
    BY <1>2, <2>2 DEF Patchable, Lengths
  <2>4. \A i \in 1 .. n : Len(scopes'[i].bytes) <= MaxCode + 0
    BY <1>6, <2>3
  <2>5. \A i \in 1 .. n + 1 : i \in 1 .. n \/ i = n + 1
    BY <1>3
  <2> QED BY <1>3, <1>6, <2>1, <2>4, <2>5, EmitterAssumption DEF Lengths
<1>8. TargetsLand'
  <2>1. ASSUME NEW t \in targets
        PROVE  t.scope \in 0 .. n + 1 /\ CodeBytes(t.scope)' = CodeBytes(t.scope)
    <3>1. t.scope \in 0 .. n
      BY <1>2 DEF Patchable, TargetsLand
    <3> QED BY <1>1, <1>3, <1>6, <3>1 DEF CodeBytes
  <2>2. \A t \in targets : Lands(CodeBytes(t.scope), t)
    BY DEF Patchable, TargetsLand
  <2> QED BY <1>1, <1>6, <2>1, <2>2 DEF TargetsLand
<1>9. PendingFit'
  <2>1. ASSUME NEW j \in pending
        PROVE  j.scope \in 1 .. n + 1 /\ j.at + 4 <= Len(scopes'[j.scope].bytes)
    <3>1. j.scope \in 1 .. n /\ j.at + 4 <= Len(scopes[j.scope].bytes)
      BY <1>2 DEF Patchable, PendingFit
    <3> QED BY <1>3, <1>6, <3>1
  <2> QED BY <1>1, <1>6, <2>1 DEF PendingFit
<1> QED BY <1>1, <1>7, <1>8, <1>9 DEF Patchable, PendingApart, TargetsApart

\* Where the offsets of a function come to lie when it is committed.
LEMMA CommittedLands ==
    ASSUME NEW t \in [scope : Nat, at : Nat, offset : Int],
           NEW f \in Seq(Byte), NEW s \in Seq(Byte), Lands(s, t), NEW d \in Seq(Byte),
           NEW u, u = [scope |-> 0, at |-> t.at + Len(f), offset |-> t.offset]
    PROVE  Lands(f \o (s \o d), u)
<1>1. PICK at \in Nat, n \in Nat, len \in Nat : at = t.at /\ n = Len(f) /\ len = Len(s)
  OBVIOUS
<1>2. at + 4 <= len /\ ReadPtr(s, at) = t.offset
  BY <1>1 DEF Lands
<1>3. PICK a : a = s \o d /\ Joins(a, s, d)
  BY JoinsBoth
<1>4. a \in Seq(Byte) /\ at + 4 <= Len(a) /\ Len(a) \in Nat
  BY <1>1, <1>2, <1>3 DEF Joins
<1>5. ReadPtr(a, at) = t.offset
  BY <1>1, <1>2, <1>3, ReadAppended
<1>6. PICK b : b = f \o a /\ Joins(b, f, a)
  BY <1>4, JoinsBoth
<1>7. ReadPtr(b, Len(f) + at) = t.offset
  BY <1>4, <1>5, <1>6, ReadPrepended
<1>8. Len(b) = n + Len(a)
  BY <1>1, <1>6 DEF Joins
<1>9. u.at = Len(f) + at /\ u.offset = t.offset /\ u.at + 4 <= Len(b)
  BY <1>1, <1>4, <1>8
<1>10. Lands(b, u)
  BY <1>7, <1>9 DEF Lands
<1> QED BY <1>3, <1>6, <1>10

LEMMA AppendedLands ==
    ASSUME NEW t \in [scope : Nat, at : Nat, offset : Int],
           NEW s \in Seq(Byte), Lands(s, t), NEW d \in Seq(Byte)
    PROVE  Lands(s \o d, t)
<1>1. PICK at \in Nat, len \in Nat : at = t.at /\ len = Len(s)
  OBVIOUS
<1>2. at + 4 <= len /\ ReadPtr(s, at) = t.offset
  BY <1>1 DEF Lands
<1>3. PICK a : a = s \o d /\ Joins(a, s, d)
  BY JoinsBoth
<1>4. ReadPtr(a, at) = t.offset
  BY <1>1, <1>2, <1>3, ReadAppended
<1>5. at + 4 <= Len(a)
  BY <1>1, <1>2, <1>3 DEF Joins
<1> QED BY <1>1, <1>3, <1>4, <1>5 DEF Lands

\* The offsets of the functions, when the innermost function is added to them.
LEMMA MovedLand ==
    ASSUME Memory, TargetsLand, scopes # <<>>, NEW n, n = Len(scopes),
           NEW t \in targets, NEW u,
           u = IF t.scope = n THEN [scope |-> 0, at |-> t.at + Len(functions.bytes), offset |-> t.offset]
               ELSE t
    PROVE  /\ u \in [scope : Nat, at : Nat, offset : Int]
           /\ u.scope = 0 => Lands(functions.bytes \o (scopes[n].bytes \o Op), u)
           /\ u.scope # 0 => u = t /\ u.scope \in 1 .. n /\ u.scope # n
<1>1. /\ n \in Nat \ {0} /\ BlobOK(functions) /\ BlobOK(scopes[n])
      /\ t \in [scope : Nat, at : Nat, offset : Int]
      /\ t.scope \in 0 .. n /\ Lands(CodeBytes(t.scope), t)
  BY CodeOK DEF TargetsLand, Memory
<1>2. PICK f \in Seq(Byte) : f = functions.bytes
  BY <1>1 DEF BlobOK, Counted, BlobRecord
<1>3. PICK s \in Seq(Byte) : s = scopes[n].bytes
  BY <1>1 DEF BlobOK, Counted, BlobRecord
<1>4. Op \in Seq(Byte)
  BY DEF Op, Byte
<1>5. CASE t.scope = n
  <2>1. u = [scope |-> 0, at |-> t.at + Len(f), offset |-> t.offset]
    BY <1>2, <1>5
  <2>2. Lands(s, t)
    BY <1>1, <1>3, <1>5 DEF CodeBytes
  <2>3. Lands(f \o (s \o Op), u)
    BY <1>1, <1>4, <2>1, <2>2, CommittedLands
  <2> QED BY <1>1, <1>2, <1>3, <2>1, <2>3
<1>6. CASE t.scope # n
  <2>1. u = t
    BY <1>6
  <2>2. CASE t.scope = 0
    <3>1. Lands(f, t)
      BY <1>1, <1>2, <2>2 DEF CodeBytes
    <3>2. PICK d \in Seq(Byte) : d = s \o Op
      <4>1. s \o Op \in Seq(Byte)
        BY <1>4
      <4> QED BY <4>1
    <3>3. Lands(f \o d, t)
      BY <1>1, <3>1, <3>2, AppendedLands
    <3> QED BY <1>1, <1>2, <1>3, <2>1, <2>2, <3>2, <3>3
  <2>3. CASE t.scope # 0
    BY <1>1, <1>6, <2>1, <2>3
  <2> QED BY <2>2, <2>3
<1> QED BY <1>5, <1>6

LEMMA MovedTargets ==
    ASSUME Memory, TargetsLand, scopes # <<>>, NEW n, n = Len(scopes),
           NEW u \in Moved(n, WritePtr(functions))
    PROVE  /\ u \in [scope : Nat, at : Nat, offset : Int]
           /\ u.scope = 0 => Lands(functions.bytes \o (scopes[n].bytes \o Op), u)
           /\ u.scope # 0 => u \in targets /\ u.scope \in 1 .. n /\ u.scope # n
<1>1. WritePtr(functions) = Len(functions.bytes)
  BY DEF Memory, BlobOK, Counted, BlobRecord, WritePtr, ContentSize
<1>2. PICK t \in targets :
        u = IF t.scope = n THEN [scope |-> 0, at |-> t.at + Len(functions.bytes), offset |-> t.offset]
            ELSE t
  BY <1>1 DEF Moved
<1>3. /\ u \in [scope : Nat, at : Nat, offset : Int]
      /\ u.scope = 0 => Lands(functions.bytes \o (scopes[n].bytes \o Op), u)
      /\ u.scope # 0 => u = t /\ u.scope \in 1 .. n /\ u.scope # n
  BY <1>2, MovedLand
<1> QED BY <1>3

LEMMA EndFunctionJumps ==
    ASSUME Memory, Patchable, NEW moves \in BOOLEAN, EndFunction(moves), Sound'
    PROVE  Patchable'
<1>1. /\ scopes # <<>> /\ Len(scopes) > 1 /\ pending' = pending
      /\ \A j \in pending : j.scope # Len(scopes)
  BY DEF EndFunction, CommitAstray, Compiling
<1>2. /\ ScopesOK(scopes) /\ Len(scopes) \in Nat \ {0} /\ Code = scopes[Len(scopes)]
  BY <1>1, CodeOK
<1>3. PICK n \in Nat, m \in Nat : n = Len(scopes) /\ m = n - 1 /\ m \in 1 .. n /\ m > 0
  BY <1>1, <1>2
<1>4. PICK body : body = Write(Code, Op, moves)
  OBVIOUS
<1>5. /\ BlobOK(body) /\ WritePtr(functions) \in Nat
      /\ PointsIntoBlock(body) => body.bytes = Code.bytes \o Op
      /\ PointsIntoBlock(Write(functions, body.bytes, moves)) =>
           Write(functions, body.bytes, moves).bytes = functions.bytes \o body.bytes
  BY <1>1, <1>4, CommittedOK
<1>5a. ~CommitAstray(body)
  BY <1>1, <1>5, NotAstray
<1>5b. /\ PointsIntoBlock(body) /\ functions' = Write(functions, body.bytes, moves)
       /\ scopes' = [Front(scopes) EXCEPT ![m] =
                       Write(WriteOpPtr(@, WritePtr(functions), moves), <<0>>, moves)]
       /\ targets' = Moved(n, WritePtr(functions))
  BY <1>3, <1>4, <1>5a DEF EndFunction
<1>6. functions'.bytes = functions.bytes \o (scopes[n].bytes \o Op)
  <2>1. PointsIntoBlock(functions')
    BY DEF Sound
  <2> QED BY <1>2, <1>3, <1>5, <1>5b, <2>1
<1>7. PICK b, w : b = scopes[m] /\ w = Write(WriteOpPtr(b, WritePtr(functions), moves), <<0>>, moves)
  OBVIOUS
<1>8. BlobOK(b)
  BY <1>2, <1>3, <1>7 DEF ScopesOK
<1>9. /\ BlobOK(w)
      /\ PointsIntoBlock(w) =>
           /\ PointsIntoBlock(b)
           /\ w.bytes = ((b.bytes \o Op) \o LittleEndian(WritePtr(functions))) \o <<0>>
  BY <1>5, <1>7, <1>8, FunctionRefOK
<1>10. Front(scopes)[m] = scopes[m]
  <2>1. Front(scopes) = SubSeq(scopes, 1, m)
    BY <1>3 DEF Front
  <2> QED BY <1>1, <1>2, <1>3, <2>1, SubSeqProperties DEF ScopesOK
<1>11. PICK s2 : s2 = scopes' /\ Removed(s2, scopes, w)
  BY <1>3, <1>5b, <1>7, <1>10 DEF Removed
<1>12. /\ Len(scopes) \in Nat /\ BlobOK(Last(scopes)) /\ Last(scopes) = scopes[Len(scopes)]
       /\ Front(scopes)[Len(scopes) - 1] = scopes[Len(scopes) - 1]
       /\ ScopesOK(s2) /\ Len(s2) = Len(scopes) - 1 /\ s2[Len(scopes) - 1] = w
       /\ \A i \in 1 .. Len(scopes) - 1 : i # Len(scopes) - 1 => s2[i] = scopes[i]
  BY <1>1, <1>2, <1>3, <1>9, <1>11, ScopeRemoved
<1>13. /\ ScopesOK(scopes') /\ Len(scopes') = m /\ scopes'[m] = w
       /\ \A i \in 1 .. m : i # m => scopes'[i] = scopes[i]
  BY <1>3, <1>11, <1>12
<1>14. PointsIntoBlock(w)
  BY <1>3, <1>13 DEF Sound, ScopesOK
<1>15. PICK old \in Seq(Byte), new \in Seq(Byte) : old = b.bytes /\ new = w.bytes
  BY <1>8, <1>9 DEF BlobOK, Counted, BlobRecord
<1>16. PICK len \in Nat : len = Len(old)
  BY <1>15
<1>17. Len(new) = len + 6 /\ \A i \in 1 .. len : new[i] = old[i]
  <2>1. PICK x \in Int : x = WritePtr(functions)
    BY <1>5
  <2>2. PICK a : a = (old \o Op) \o LittleEndian(x)
    OBVIOUS
  <2>3. ExtendsBy(a, old, x)
    BY <1>15, <2>1, <2>2, OpPtrBytes
  <2>4. PICK z : z = <<0>> /\ z \in Seq(Byte) /\ Len(z) = 1
    <3>1. 0 \in Byte
      BY DEF Byte
    <3>2. <<0>> \in Seq(Byte) /\ Len(<<0>>) = 1
      BY <3>1
    <3> QED BY <3>2
  <2>5. new = a \o z
    BY <1>9, <1>14, <1>15, <2>1, <2>2, <2>4
  <2>6. a \in Seq(Byte) /\ Len(a) = len + 5 /\ \A i \in 1 .. len : a[i] = old[i]
    BY <1>16, <2>3 DEF ExtendsBy
  <2>7. Joins(new, a, z)
    BY <2>4, <2>5, <2>6, JoinsBoth
  <2> QED BY <2>4, <2>6, <2>7 DEF Joins
<1>18. TargetsLand /\ PendingFit /\ Lengths
  BY DEF Patchable
<1>19. \A t \in targets' : /\ t \in [scope : Nat, at : Nat, offset : Int]
                           /\ t.scope = 0 => Lands(functions'.bytes, t)
                           /\ t.scope # 0 => t \in targets /\ t.scope \in 1 .. m
  <2>1. ASSUME NEW t \in targets'
        PROVE  /\ t \in [scope : Nat, at : Nat, offset : Int]
               /\ t.scope = 0 => Lands(functions.bytes \o (scopes[n].bytes \o Op), t)
               /\ t.scope # 0 => t \in targets /\ t.scope \in 1 .. n /\ t.scope # n
    <3>1. t \in Moved(n, WritePtr(functions))
      BY <1>5b, <2>1
    <3> QED BY <1>1, <1>3, <1>18, <3>1, MovedTargets
  <2> QED BY <1>3, <1>6, <2>1
<1>20. TargetsLand'
  <2>1. ASSUME NEW t \in targets' PROVE t.scope \in 0 .. m /\ Lands(CodeBytes(t.scope)', t)
    <3>1. CASE t.scope = 0
      BY <1>3, <1>19, <2>1, <3>1 DEF CodeBytes
    <3>2. CASE t.scope # 0 /\ t.scope = m
      <4>1. t \in targets /\ t \in [scope : Nat, at : Nat, offset : Int]
        BY <1>19, <2>1, <3>2
      <4>2. Lands(old, t)
        BY <1>3, <1>7, <1>15, <1>18, <3>2, <4>1 DEF TargetsLand, CodeBytes
      <4>3. t.at \in Nat /\ t.at + 4 <= len
        BY <1>16, <4>1, <4>2 DEF Lands
      <4>4. \A i \in 1 .. 4 : new[t.at + i] = old[t.at + i]
        <5>1. \A i \in 1 .. 4 : t.at + i \in 1 .. len
          BY <4>3
        <5> QED BY <1>17, <5>1
      <4>5. Len(old) \in Nat /\ Len(new) \in Nat /\ Len(old) <= Len(new)
        BY <1>16, <1>17
      <4>6. Lands(new, t)
        BY <4>1, <4>2, <4>4, <4>5, LandsKept
      <4>7. CodeBytes(m)' = new
        BY <1>3, <1>13, <1>15 DEF CodeBytes
      <4> QED BY <1>3, <3>2, <4>6, <4>7
    <3>3. CASE t.scope # 0 /\ t.scope # m
      <4>1. t \in targets /\ t.scope \in 1 .. m
        BY <1>19, <2>1, <3>3
      <4>2. CodeBytes(t.scope)' = CodeBytes(t.scope)
        BY <1>13, <3>3, <4>1 DEF CodeBytes
      <4> QED BY <1>18, <4>1, <4>2 DEF TargetsLand
    <3> QED BY <3>1, <3>2, <3>3
  <2> QED BY <1>13, <2>1 DEF TargetsLand
<1>21. PendingFit'
  <2>1. ASSUME NEW j \in pending
        PROVE  j.scope \in 1 .. m /\ j.at + 4 <= Len(scopes'[j.scope].bytes)
    <3>1. j.scope \in 1 .. m /\ j.at + 4 <= Len(scopes[j.scope].bytes) /\ j.at \in Nat
      BY <1>1, <1>3, <1>18 DEF PendingFit, Memory
    <3>2. CASE j.scope = m
      BY <1>7, <1>13, <1>15, <1>16, <1>17, <3>1, <3>2
    <3>3. CASE j.scope # m
      BY <1>13, <3>1, <3>3
    <3> QED BY <3>1, <3>2, <3>3
  <2> QED BY <1>1, <1>13, <2>1 DEF PendingFit
<1>22. Lengths'
  <2>1. \A i \in 1 .. m : Len(scopes[i].bytes) <= MaxCode + 0
    <3>1. \A i \in 1 .. m : i \in 1 .. Len(scopes) /\ i # Len(scopes)
      BY <1>3
    <3> QED BY <1>18, <3>1 DEF Lengths
  <2>2. Len(scopes'[m].bytes) <= MaxCode + 6
    <3>1. len <= MaxCode + 0
      BY <1>3, <1>7, <1>15, <1>16, <2>1
    <3> QED BY <1>13, <1>15, <1>17, <3>1, EmitterAssumption
  <2>3. \A i \in 1 .. m : i # m => Len(scopes'[i].bytes) <= MaxCode + 0
    BY <1>13, <2>1
  <2> QED BY <1>13, <2>2, <2>3 DEF Lengths
<1>23. PendingApart'
  BY <1>1 DEF PendingApart, Patchable
<1>24. TargetsApart'
  <2>1. ASSUME NEW j \in pending, NEW t \in targets', j.scope = t.scope PROVE t \in targets
    <3>1. j.scope # 0
      BY <1>18 DEF PendingFit
    <3> QED BY <1>19, <2>1, <3>1
  <2> QED BY <1>1, <2>1 DEF TargetsApart, Patchable
<1> QED BY <1>20, <1>21, <1>22, <1>23, <1>24 DEF Patchable

LEMMA AssembleJumps ==
    ASSUME Memory, Patchable, NEW moves \in BOOLEAN, Assemble(moves), Sound'
    PROVE  /\ program' # NoProgram
           /\ \A t \in targets' : ReadPtr(program'.bytes, program'.data + t.at) = t.offset
<1>1. scopes # <<>> /\ Len(scopes) = 1
  BY DEF Assemble, Compiling
<1>2. PICK n : n = Len(scopes) /\ n = 1
  BY <1>1
<1>3. Code = scopes[n]
  BY <1>1, <1>2, CodeOK
<1>4. PICK body, all : body = Write(Code, Op, moves) /\ all = Write(functions, body.bytes, moves)
  OBVIOUS
<1>5. /\ BlobOK(all) /\ WritePtr(functions) \in Nat
      /\ PointsIntoBlock(body) => body.bytes = Code.bytes \o Op
      /\ PointsIntoBlock(all) => all.bytes = functions.bytes \o body.bytes
  BY <1>1, <1>4, CommittedOK
<1>6. /\ PointsIntoBlock(body) /\ PointsIntoBlock(all)
      /\ targets' = Moved(n, WritePtr(functions))
  BY <1>2, <1>4, Assembled
<1>7. all.bytes = functions.bytes \o (scopes[n].bytes \o Op)
  BY <1>3, <1>5, <1>6
<1>8. program' = [bytes |-> data.bytes \o all.bytes, data |-> Len(data.bytes),
                  start |-> WritePtr(functions)]
  BY <1>4, Assembled
<1>9. program'.start # NoProgram.start
  BY <1>5, <1>8 DEF NoProgram
<1>10. ASSUME NEW t \in targets' PROVE ReadPtr(program'.bytes, program'.data + t.at) = t.offset
  <2>1. t \in Moved(n, WritePtr(functions))
    BY <1>6, <1>10
  <2>2. /\ t \in [scope : Nat, at : Nat, offset : Int]
        /\ t.scope = 0 => Lands(functions.bytes \o (scopes[n].bytes \o Op), t)
        /\ t.scope # 0 => t \in targets /\ t.scope \in 1 .. n /\ t.scope # n
    BY <1>1, <1>2, <2>1, MovedTargets DEF Patchable
  <2>3. t.scope = 0
    BY <1>2, <2>2
  <2>4. PICK a \in Seq(Byte), d \in Seq(Byte) : a = all.bytes /\ d = data.bytes
    BY <1>5 DEF BlobOK, Counted, BlobRecord, Memory
  <2>5. PICK at \in Nat : at = t.at
    BY <2>2
  <2>6. at + 4 <= Len(a) /\ ReadPtr(a, at) = t.offset
    BY <1>7, <2>2, <2>3, <2>4, <2>5 DEF Lands
  <2>7. ReadPtr(d \o a, Len(d) + at) = t.offset
    BY <2>6, ReadPrepended
  <2> QED BY <1>8, <2>4, <2>5, <2>7
<1> QED BY <1>9, <1>10

LEMMA NextJumps ==
    ASSUME ShortFunctions
    PROVE  Memory /\ Jumps /\ [Next]_vars => Jumps'
<1> SUFFICES ASSUME Memory, Jumps, [Next]_vars, Sound'
             PROVE  IF program' = NoProgram THEN Patchable'
                    ELSE \A t \in targets' : ReadPtr(program'.bytes, program'.data + t.at) = t.offset
  BY DEF Jumps
<1>1. ASSUME Compiling, Sound PROVE Patchable
  BY <1>1 DEF Jumps, Compiling
<1>2. ASSUME Compiling, UNCHANGED program, Patchable'
      PROVE  IF program' = NoProgram THEN Patchable'
             ELSE \A t \in targets' : ReadPtr(program'.bytes, program'.data + t.at) = t.offset
  BY <1>2 DEF Compiling
<1>3. CASE BeginFunction
  BY <1>1, <1>2, <1>3, BeginFunctionJumps DEF BeginFunction
<1>4. ASSUME NEW jump \in pending, PatchJump(jump) PROVE UNCHANGED program /\ Compiling /\ Patchable'
  BY <1>1, <1>4, PatchJumpJumps DEF PatchJump
<1>5. ASSUME NEW moves \in BOOLEAN, NEW c \in Content, StringLiteral(c, moves)
      PROVE  UNCHANGED program /\ Compiling /\ Patchable'
  BY <1>1, <1>5, StringLiteralJumps DEF StringLiteral
<1>6. ASSUME NEW moves \in BOOLEAN, EmitJump(moves)
      PROVE  UNCHANGED program /\ Compiling /\ Patchable'
  BY <1>1, <1>6, EmitJumpJumps DEF EmitJump
<1>7. ASSUME NEW moves \in BOOLEAN, EmitLoop(moves)
      PROVE  UNCHANGED program /\ Compiling /\ Patchable'
  BY <1>1, <1>7, EmitLoopJumps DEF EmitLoop
<1>8. ASSUME NEW moves \in BOOLEAN, EndFunction(moves)
      PROVE  UNCHANGED program /\ Compiling /\ Patchable'
  BY <1>1, <1>8, EndFunctionJumps DEF EndFunction, CommitAstray
<1>9. ASSUME NEW moves \in BOOLEAN, Assemble(moves)
      PROVE  /\ program' # NoProgram
             /\ \A t \in targets' : ReadPtr(program'.bytes, program'.data + t.at) = t.offset
  BY <1>1, <1>9, AssembleJumps DEF Assemble
<1>10. CASE UNCHANGED vars
  <2>1. UNCHANGED <<scopes, functions, data, program, pending, targets>>
    BY <1>10 DEF vars
  <2>2. Sound
    BY <2>1 DEF Sound
  <2>3. Patchable => Patchable'
    BY <2>1 DEF Patchable, Lengths, TargetsLand, PendingFit, PendingApart, TargetsApart, CodeBytes
  <2> QED BY <2>1, <2>2, <2>3 DEF Jumps
<1> QED BY <1>2, <1>3, <1>4, <1>5, <1>6, <1>7, <1>8, <1>9, <1>10 DEF Next

\* Every offset that patch_jump and emit_loop wrote is read back as it was
\* written: in the open function, among the committed functions and in the
\* assembled program, as long as no realloc has moved a block and no function
\* is as long as 2^31 bytes.
THEOREM SpecJumpsReadBack == ASSUME ShortFunctions PROVE Spec => []JumpsReadBack
<1>1. Init => Memory /\ Jumps
  BY InitMemory, InitJumps
<1>2. Memory /\ Jumps /\ [Next]_vars => (Memory /\ Jumps)'
  BY NextMemory, NextJumps
<1>3. Memory /\ Jumps => JumpsReadBack
  BY JumpsAreReadBack
<1> QED BY <1>1, <1>2, <1>3, PTL DEF Spec
==============================================================================
