-------------------------------- MODULE File --------------------------------
(***************************************************************************)
(* What the users of vfs_read and vfs_write may expect of a regular file,  *)
(* whatever file system implements it: a growing array of bytes of at most *)
(* MAX_SIZE.  A write stores its bytes or fails and changes nothing; a     *)
(* read returns what is there.  Bytes that a write beyond the end skips    *)
(* over are not defined.                                                   *)
(***************************************************************************)
EXTENDS Integers, Sequences

CONSTANTS
    Byte,
    MAX_SIZE,
    Offsets,   \* the offsets of requests
    Buffers    \* what is written

VARIABLES
    contents,  \* the bytes of the file; offset i is element i + 1
    result     \* of the last call

Larger(a, b)  == IF a > b THEN a ELSE b
Smaller(a, b) == IF a < b THEN a ELSE b

Failed    == [call |-> "failed", bytes |-> <<>>]
Wrote(b)  == [call |-> "wrote", bytes |-> b]
Got(b)    == [call |-> "read", bytes |-> b]

Init == contents = <<>> /\ result = Failed

Write(offset, buffer) ==
    /\ offset + Len(buffer) <= MAX_SIZE
    /\ contents' \in [1 .. Larger(Len(contents), offset + Len(buffer)) -> Byte]
    /\ \A i \in DOMAIN buffer : contents'[offset + i] = buffer[i]
    /\ \A i \in DOMAIN contents \ (offset + 1 .. offset + Len(buffer)) :
          contents'[i] = contents[i]
    /\ result' = Wrote(buffer)

Read(offset, size) ==
    /\ result' = Got(SubSeq(contents, offset + 1,
                            Smaller(Len(contents), offset + size)))
    /\ UNCHANGED contents

Fail == result' = Failed /\ UNCHANGED contents

Next ==
    \/ \E offset \in Offsets, buffer \in Buffers : Write(offset, buffer)
    \/ \E offset, size \in Offsets : Read(offset, size)
    \/ Fail

Spec == Init /\ [][Next]_<<contents, result>>
=============================================================================
