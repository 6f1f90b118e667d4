---------------------------------- MODULE Blob ----------------------------------
(***************************************************************************)
(* ch_blob of src/compiler/emit.c, the growing byte buffer of the emitter, *)
(* and the numbers that are kept in it, four bytes in little-endian order. *)
(*                                                                         *)
(* "start" names the block the blob owns and "room" is that block's        *)
(* length; "current" is a pointer, a block and an offset into it; "size"   *)
(* is the field of that name; "bytes" is what was written through current, *)
(* which lies at the start of the block unless the blob has gone "astray": *)
(* a memcpy has written elsewhere.  A pointer into a block that realloc    *)
(* has moved is dangling.                                                  *)
(***************************************************************************)
EXTENDS Integers, SequencesExt

CONSTANTS InitialSize,   \* INITIAL_BLOB_SIZE (10000)
          Growth         \* CH_BLOB_BUFFER_GROWTH_MULTIPLIER (2)

ASSUME BlobAssumption == InitialSize \in Nat \ {0} /\ Growth \in Nat \ {0}

(***************************************************************************)
(* Numbers                                                                 *)
(***************************************************************************)
Byte == 0 .. 255
PtrBytes == 4

\* ch_uint32_to_le_array, of a number or of the bits of a negative one.
LittleEndian(n) ==
    <<n % 256, (n \div 256) % 256, (n \div 65536) % 256, (n \div 16777216) % 256>>

\* READ_U32, and the jump offset that VM_READ_JMPPTR makes of it: a number is
\* at most half of what four bytes hold.
ReadPtr(bytes, at) ==
    bytes[at + 1] + 256 * (bytes[at + 2] + 256 * (bytes[at + 3] + 256 *
        (IF bytes[at + 4] < 128 THEN bytes[at + 4] ELSE bytes[at + 4] - 256)))

(***************************************************************************)
(* Blobs                                                                   *)
(***************************************************************************)
CreateBlob == [start |-> 0, current |-> [block |-> 0, offset |-> 0],
               size |-> InitialSize, room |-> InitialSize, bytes |-> <<>>,
               astray |-> FALSE]

PointsIntoBlock(blob) == blob.current.block = blob.start

\* CH_BLOB_CONTENT_SIZE.  Between two blocks the distance is any number; the
\* model keeps the offset, and says nothing of such a blob that depends on it.
ContentSize(blob) == blob.current.offset

\* Variant: room for what the blob holds, not for what is written.
MustReallocateLate(blob, n) == ContentSize(blob) >= blob.size

MustReallocate(blob, n) == ContentSize(blob) + n >= blob.size

\* realloc, which may move the block.  The code sets current to the new start
\* plus its distance from the new start, that is, leaves it where it was; and
\* it does not record the new size, so that MIN(CH_DATAPTR_MAX, ...) has no
\* effect on blobs that fit 32 bits.
Reallocated(blob, n, moves) ==
    IF ~MustReallocate(blob, n) THEN blob
    ELSE [blob EXCEPT !.room = Max({blob.size * Growth, ContentSize(blob) + n}),
                      !.start = IF moves THEN @ + 1 ELSE @]

\* Does memcpy write n bytes at current outside the block?
LeavesBlock(blob, n) == ~PointsIntoBlock(blob) \/ ContentSize(blob) + n > blob.room

\* ch_emit_write: the blob it leaves, and the address it returns.
Written(blob, data) ==
    [blob EXCEPT !.bytes = @ \o data,
                 !.current = [block |-> @.block, offset |-> @.offset + Len(data)],
                 !.astray = @ \/ LeavesBlock(blob, Len(data))]
Write(blob, data, moves) == Written(Reallocated(blob, Len(data), moves), data)
WritePtr(blob) == ContentSize(blob)

\* Four bytes at an address; out of range it does nothing.
PatchBytes(blob, value, at) ==
    IF at + PtrBytes > ContentSize(blob) THEN blob
    ELSE [blob EXCEPT !.bytes = [i \in DOMAIN @ |->
             IF i \in at + 1 .. at + PtrBytes THEN LittleEndian(value)[i - at] ELSE @[i]]]
==============================================================================
