------------------------- MODULE MemoryBlockDevice -------------------------
(***************************************************************************)
(* MemoryBlockDevice (src/src/storage/memory_block_device.cpp): an array   *)
(* of bytes that is read, written and flushed in whole blocks.  Each       *)
(* operation is a pure function of the array `data'; address `offset' of   *)
(* the code is index offset + 1 here.                                      *)
(***************************************************************************)
EXTENDS Integers, Sequences

CONSTANTS BlockSize,  \* block_size, as given to the constructor
          SizeBytes   \* size_bytes, as given to the constructor

ASSUME GeometryAssumption == BlockSize \in Nat /\ SizeBytes \in Nat

(* valid_: the constructor accepted the geometry.                          *)
valid == BlockSize # 0 /\ SizeBytes # 0 /\ SizeBytes % BlockSize = 0

(* data_ after construction; it stays empty when the geometry is invalid.  *)
InitialData == [a \in 1 .. (IF valid THEN SizeBytes ELSE 0) |-> 0]

ValidateAccess(data, offset, length) ==
  IF \/ ~valid
     \/ offset % BlockSize # 0
     \/ length % BlockSize # 0
     \/ offset > Len(data)
     \/ length > Len(data) - offset
  THEN "InvalidArgument" ELSE "Ok"

(* The addresses an access touches.                                        *)
Extent(offset, length) == offset + 1 .. offset + length

(* Read copies into the first `length' bytes of the caller's buffer.       *)
DeviceRead(data, offset, length, buffer) ==
  [k \in DOMAIN buffer |-> IF k <= length THEN data[offset + k] ELSE buffer[k]]

(* Write copies the first `length' bytes of the caller's buffer.           *)
DeviceWrite(data, offset, length, buffer) ==
  [a \in DOMAIN data |->
     IF a \in Extent(offset, length) THEN buffer[a - offset] ELSE data[a]]

=============================================================================
