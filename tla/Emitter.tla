-------------------------------- MODULE Emitter --------------------------------
(***************************************************************************)
(* The emitter (src/compiler/emit.c) as the compiler's parse functions use *)
(* it: bytecode goes to the blob of the innermost emit scope, literals to  *)
(* the data blob, a finished function's bytecode to the function blob, and *)
(* ch_emit_assemble joins data and functions into one program, of which    *)
(* the VM reads strings, numbers and jump offsets again.                   *)
(*                                                                         *)
(* Module Compiler says what is emitted and keeps instructions whole; this *)
(* module has the bytes, their addresses and the memory they are in.       *)
(***************************************************************************)
EXTENDS Blob, Table

CONSTANTS Content,     \* the contents of string literals and global names
          HashOf,      \* ch_hash_string
          MaxCode,     \* bound: bytes of a function when an instruction is added
          MaxData,     \* bound: bytes of data when a literal is added
          MaxScopes    \* bound: functions in functions

ASSUME EmitterAssumption ==
    /\ Content \subseteq Seq(Byte)
    /\ HashOf \in [Content -> Nat]
    /\ NoKey \notin [content : Content, hash : Nat]
    /\ MaxCode \in Nat /\ MaxData \in Nat /\ MaxScopes \in Nat

VARIABLES scopes,      \* the blobs of the open emit scopes, the global one first
          functions,   \* emit.function_bytecode
          data,        \* emit.data
          pool,        \* comp->strings: literal -> address in data
          program,     \* what ch_emit_assemble returned, or NoProgram
          \* what the compiler has relied on:
          literals,    \* the addresses of strings it was given
          pending,     \* jumps of the open scopes that have no target yet
          targets      \* the offsets of jumps that have one, scope by scope,
                       \* and last those of the committed functions

vars == <<scopes, functions, data, pool, program, literals, pending, targets>>

NoProgram == [bytes |-> <<>>, data |-> 0, start |-> -1]

Code == Last(scopes)

\* Any one-byte instruction; its opcode does not matter here.
Op == <<1>>

Init ==
    /\ scopes = <<CreateBlob>>
    /\ functions = CreateBlob
    /\ data = CreateBlob
    /\ pool = EmptyTable
    /\ program = NoProgram
    /\ literals = {}
    /\ pending = {}
    /\ targets = {}

Compiling == program = NoProgram /\ scopes # <<>>

\* No blob's current pointer dangles.  A handler in which one comes to dangle
\* writes through it all the same; that is undefined, and the model ends there.
Sound == PointsIntoBlock(data) /\ PointsIntoBlock(functions)
         /\ \A i \in DOMAIN scopes : PointsIntoBlock(scopes[i])

CodeFits == ContentSize(Code) <= MaxCode

\* EMIT_OP and EMIT_PTR, two writes.
WriteOpPtr(blob, ptr, moves) == Write(Write(blob, Op, moves), LittleEndian(ptr), moves)
EmitOpPtr(ptr, moves) ==
    scopes' = [scopes EXCEPT ![Len(scopes)] = WriteOpPtr(@, ptr, moves)]

\* Variant: without the null byte.
WriteUnterminated(blob, c, moves) ==
    Write(Write(blob, LittleEndian(Len(c)), moves), c, moves)

\* EMIT_DATA_STRING: the length, the bytes and a null byte, three writes.
WriteString(blob, c, moves) ==
    Write(Write(Write(blob, LittleEndian(Len(c)), moves), c, moves), <<0>>, moves)

Key(c) == [content |-> c, hash |-> HashOf[c]]
Pooled(c) == FindString(pool, c, HashOf[c])

\* emit_string: the address it returns, and what it changes.
EmitString(c) == IF Pooled(c) # NoKey THEN TableGet(pool, Pooled(c)) ELSE WritePtr(data)
AddString(c, moves) ==
    IF Pooled(c) # NoKey THEN UNCHANGED <<data, pool>>
    ELSE /\ data' = WriteString(data, c, moves)
         /\ pool' = TableSet(pool, Key(c), WritePtr(data))

\* string(), and the instructions that name a global.
StringLiteral(c, moves) ==
    /\ Compiling /\ Sound
    /\ CodeFits /\ ContentSize(data) <= MaxData
    /\ AddString(c, moves)
    /\ EmitOpPtr(EmitString(c), moves)
    /\ literals' = literals \union {[ptr |-> EmitString(c), content |-> c]}
    /\ UNCHANGED <<functions, program, pending, targets>>

\* emit_jump, of which patch_jump is to set the offset.
EmitJump(moves) ==
    /\ Compiling /\ Sound
    /\ CodeFits
    /\ EmitOpPtr(0, moves)
    /\ pending' = pending \union {[scope |-> Len(scopes), at |-> ContentSize(Code) + 1]}
    /\ UNCHANGED <<functions, data, pool, program, literals, targets>>

\* patch_jump
PatchJump(jump) ==
    LET offset == ContentSize(Code) - jump.at - PtrBytes
    IN  /\ Compiling /\ Sound
        /\ jump.scope = Len(scopes)
        /\ scopes' = [scopes EXCEPT ![Len(scopes)] = PatchBytes(@, offset, jump.at)]
        /\ pending' = pending \ {jump}
        /\ targets' = targets \union {[scope |-> Len(scopes), at |-> jump.at, offset |-> offset]}
        /\ UNCHANGED <<functions, data, pool, program, literals>>

\* emit_loop, back to the beginning of the function.
EmitLoop(moves) ==
    LET at == ContentSize(Code) + 1
        offset == -(at + PtrBytes)
    IN  /\ Compiling /\ Sound
        /\ CodeFits
        /\ scopes' = [scopes EXCEPT ![Len(scopes)] =
                        PatchBytes(WriteOpPtr(@, 0, moves), offset, at)]
        /\ targets' = targets \union {[scope |-> Len(scopes), at |-> at, offset |-> offset]}
        /\ UNCHANGED <<functions, data, pool, program, literals, pending>>

\* ch_emit_create_scope
BeginFunction ==
    /\ Compiling /\ Sound
    /\ Len(scopes) < MaxScopes /\ CodeFits
    /\ scopes' = Append(scopes, CreateBlob)
    /\ UNCHANGED <<functions, data, pool, program, literals, pending, targets>>

\* The offsets of a scope's jumps, where they come to lie among the functions.
Moved(scope, by) ==
    { IF t.scope = scope THEN [scope |-> 0, at |-> t.at + by, offset |-> t.offset] ELSE t :
        t \in targets }

\* The last instruction of a function went astray, and how many bytes the
\* commit then copies is no number that the model knows.
CommitAstray(body) ==
    /\ ~PointsIntoBlock(body)
    /\ scopes' = [scopes EXCEPT ![Len(scopes)] = body]
    /\ UNCHANGED <<functions, data, pool, program, literals, pending, targets>>

\* ch_emit_commit_scope, after the return that ends every function, and the
\* OP_FUNCTION that the enclosing scope gets.  The bytes of an OP_CLOSURE may
\* follow; they are like any others, and left out.
EndFunction(moves) ==
    LET body == Write(Code, Op, moves)
    IN  /\ Compiling /\ Sound
        /\ Len(scopes) > 1
        /\ \A jump \in pending : jump.scope # Len(scopes)
        /\ \/ CommitAstray(body)
           \/ /\ PointsIntoBlock(body)
              /\ functions' = Write(functions, body.bytes, moves)
              /\ scopes' = [Front(scopes) EXCEPT ![Len(scopes) - 1] =
                              Write(WriteOpPtr(@, WritePtr(functions), moves), <<0>>, moves)]
              /\ targets' = Moved(Len(scopes), WritePtr(functions))
              /\ UNCHANGED <<data, pool, program, literals, pending>>

\* Variant: the functions come before the data.
JoinedFunctionsFirst(code) == [bytes |-> code.bytes \o data.bytes, data |-> Len(data.bytes)]

\* The end of ch_compile: OP_BEGIN, the commit of the global scope, and
\* ch_emit_assemble, which does not know what to copy if the commit went astray.
Joined(code) == [bytes |-> data.bytes \o code.bytes, data |-> Len(data.bytes)]
Assemble(moves) ==
    LET body == Write(Code, Op, moves)
        all == Write(functions, body.bytes, moves)
    IN  /\ Compiling /\ Sound
        /\ Len(scopes) = 1 /\ pending = {}
        /\ \/ CommitAstray(body)
           \/ /\ PointsIntoBlock(body)
              /\ functions' = all
              /\ UNCHANGED <<data, pool, literals, pending>>
              /\ IF PointsIntoBlock(all)
                   THEN /\ program' = [bytes |-> Joined(all).bytes, data |-> Joined(all).data,
                                       start |-> WritePtr(functions)]
                        /\ scopes' = <<>>
                        /\ targets' = Moved(1, WritePtr(functions))
                   ELSE UNCHANGED <<program, scopes, targets>>

Next ==
    \/ BeginFunction
    \/ \E jump \in pending : PatchJump(jump)
    \/ \E moves \in BOOLEAN :
         \/ \E c \in Content : StringLiteral(c, moves)
         \/ EmitJump(moves) \/ EmitLoop(moves) \/ EndFunction(moves) \/ Assemble(moves)

Spec == Init /\ [][Next]_vars

------------------------------------------------------------------------------
Blobs == { scopes[i] : i \in DOMAIN scopes } \union {functions, data}

\* A write leaves its block exactly when realloc has moved the block: as long
\* as it has not, the room is enough for whatever is written, even though the
\* size that decides about growing is never brought up to date; and once it
\* has, the write that made it grow is the first to go elsewhere.
WritesInBlockUnlessMoved == \A blob \in Blobs : blob.astray <=> ~PointsIntoBlock(blob)

\* ch_bytecode_load_string
LoadString(bytes, ptr) == SubSeq(bytes, ptr + PtrBytes + 1, ptr + PtrBytes + ReadPtr(bytes, ptr))
ReadsAs(bytes, literal) ==
    /\ literal.ptr + PtrBytes + Len(literal.content) < Len(bytes)
    /\ LoadString(bytes, literal.ptr) = literal.content
    /\ bytes[literal.ptr + PtrBytes + Len(literal.content) + 1] = 0

\* At the address the compiler was given, the VM reads the literal, with the
\* null byte that natives rely on: from the data blob and from the program,
\* unless a block has moved.
LiteralsReadable ==
    Sound => \A literal \in literals :
        /\ ReadsAs(data.bytes, literal)
        /\ program # NoProgram => ReadsAs(program.bytes, literal)

\* The offset of a patched jump is read back unchanged, before and after its
\* function is committed and the program is assembled, unless a block moved.
JumpsReadBack ==
    Sound => \A t \in targets :
        LET bytes == IF t.scope = 0 THEN functions.bytes ELSE scopes[t.scope].bytes
        IN  IF program = NoProgram THEN ReadPtr(bytes, t.at) = t.offset
            ELSE ReadPtr(program.bytes, program.data + t.at) = t.offset
==============================================================================
