------------------------------ MODULE RamFile ------------------------------
(***************************************************************************)
(* One regular file of the RAM file system: ramfs_read and ramfs_write of  *)
(* kernel/fs/ramfs.c, reached through vfs_read and vfs_write.              *)
(*                                                                         *)
(* The file's bytes are in a heap buffer of `capacity` bytes, replaced by  *)
(* a larger one when a write needs it.  kmalloc does not clear memory: a   *)
(* new buffer holds any bytes.                                             *)
(***************************************************************************)
EXTENDS Integers, Sequences

CONSTANTS
    WORD,                 \* 2^32: the range of size_t and off_t
    RAMFS_MAX_FILE_SIZE,
    Byte,
    Offsets,              \* the offsets and sizes of requests
    Buffers               \* what is written

(***************************************************************************)
(* The end of a request fits in 32 bits.  ramfs_write does not test it:    *)
(* where offset + size wraps, new_size is small and the memcpy runs off    *)
(* the buffer.  The only calls of vfs_write and vfs_read in the kernel are *)
(* those of test_filesystem, with offset 0 and a few bytes.                *)
(***************************************************************************)
ASSUME RamFileAssumption ==
    /\ WORD \in Nat /\ RAMFS_MAX_FILE_SIZE \in Nat
    /\ 2 * RAMFS_MAX_FILE_SIZE < WORD
    /\ Offsets \subseteq Nat /\ Buffers \subseteq Seq(Byte)
    /\ \A o \in Offsets, b \in Buffers : o + Len(b) < WORD

VARIABLES
    private_data,  \* the node has a ramfs_file_t
    data,          \* its buffer; a function on 0 .. capacity - 1
    size,
    capacity,
    node_size,     \* node->size
    returned,      \* of the last call
    refused        \* new_size of the last call, if ramfs_write rejected it
                   \* for its size; -1 otherwise

ramfile_vars == <<private_data, data, size, capacity, node_size, returned, refused>>

F == INSTANCE File WITH MAX_SIZE <- RAMFS_MAX_FILE_SIZE,
                        contents <- [k \in 1 .. size |-> data[k - 1]],
                        result <- returned

-----------------------------------------------------------------------------
(***************************************************************************)
(* ramfs_create_node for a VFS_FILE; the second kmalloc may fail.          *)
(***************************************************************************)
RamFileInit ==
    /\ private_data \in BOOLEAN
    /\ data = [i \in {} |-> i]
    /\ size = 0 /\ capacity = 0 /\ node_size = 0
    /\ returned = F!Failed /\ refused = -1

RequestFails(n) ==
    /\ returned' = F!Failed
    /\ refused' = n
    /\ UNCHANGED <<private_data, data, size, capacity, node_size>>

(***************************************************************************)
(* Mutant of NewCapacity: a doubled size above the limit is rejected, not  *)
(* limited.                                                                *)
(***************************************************************************)
NewCapacityOrNone(new_size) ==
    IF new_size * 2 > RAMFS_MAX_FILE_SIZE THEN 0 ELSE new_size * 2

NewCapacity(new_size) ==
    F!Smaller((new_size * 2) % WORD, RAMFS_MAX_FILE_SIZE)

(***************************************************************************)
(* Mutant of CopyIn: the new buffer replaces the old one uncopied.         *)
(***************************************************************************)
CopyInUncopied(buffer, offset, old, kept) ==
    [i \in DOMAIN old |->
        IF i \in offset .. offset + Len(buffer) - 1
        THEN buffer[i - offset + 1]
        ELSE old[i]]

(***************************************************************************)
(* The memcpy of ramfs_write into buffer old, after the one that moves the *)
(* first kept bytes of data there when the buffer is new.                  *)
(***************************************************************************)
CopyIn(buffer, offset, old, kept) ==
    [i \in DOMAIN old |->
        IF i \in offset .. offset + Len(buffer) - 1
        THEN buffer[i - offset + 1]
        ELSE IF i < kept THEN data[i] ELSE old[i]]

(***************************************************************************)
(* The end of ramfs_write.                                                 *)
(***************************************************************************)
Store(new_data, new_size, buffer) ==
    /\ data' = new_data
    /\ size' = F!Larger(new_size, size)
    /\ node_size' = size'
    /\ returned' = F!Wrote(buffer) /\ refused' = -1
    /\ UNCHANGED private_data

ramfs_write(offset, buffer) ==
    LET new_size == (offset + Len(buffer)) % WORD
        new_cap  == NewCapacity(new_size)
    IN  \/ ~private_data /\ RequestFails(-1)
        \/ /\ private_data /\ new_size <= capacity
           /\ Store(CopyIn(buffer, offset, data, size), new_size, buffer)
           /\ UNCHANGED capacity
        \/ /\ private_data /\ new_size > capacity
           /\ \/ new_size > new_cap /\ RequestFails(new_size)
              \/ new_size <= new_cap /\ RequestFails(-1)   \* kmalloc returns NULL
              \/ /\ new_size <= new_cap
                 /\ \E fresh \in [0 .. new_cap - 1 -> Byte] :
                       Store(CopyIn(buffer, offset, fresh, size), new_size,
                             buffer)
                 /\ capacity' = new_cap

ramfs_read(offset, n) ==
    \/ ~private_data /\ RequestFails(-1)
    \/ /\ private_data
       /\ returned' = F!Got(IF offset >= size THEN <<>>
                            ELSE [i \in 1 .. F!Smaller(n, size - offset)
                                    |-> data[offset + i - 1]])
       /\ refused' = -1
       /\ UNCHANGED <<private_data, data, size, capacity, node_size>>

(***************************************************************************)
(* Every ramfs node has the read and write operations, so the VFS calls    *)
(* reach them.                                                             *)
(***************************************************************************)
vfs_write(offset, buffer) == ramfs_write(offset, buffer)
vfs_read(offset, n) == ramfs_read(offset, n)

RamFileNext ==
    \/ \E offset \in Offsets, buffer \in Buffers : vfs_write(offset, buffer)
    \/ \E offset, n \in Offsets : vfs_read(offset, n)

RamFileSpec == RamFileInit /\ [][RamFileNext]_ramfile_vars

-----------------------------------------------------------------------------
(***************************************************************************)
(* Type invariant of ramfs_file_t: the buffer is as long as `capacity`     *)
(* says, holds the file and never exceeds RAMFS_MAX_FILE_SIZE.             *)
(***************************************************************************)
RamFileTypeOK ==
    /\ private_data \in BOOLEAN
    /\ capacity \in 0 .. RAMFS_MAX_FILE_SIZE
    /\ data \in [0 .. capacity - 1 -> Byte]
    /\ size \in 0 .. capacity
    /\ node_size = size
    /\ refused \in -1 .. WORD

(***************************************************************************)
(* A write is refused for its size only when the file would exceed         *)
(* RAMFS_MAX_FILE_SIZE: the doubling of the capacity never stands in the   *)
(* way of a file that would fit.                                           *)
(***************************************************************************)
RefusedOnlyTooLarge == refused # -1 => refused > RAMFS_MAX_FILE_SIZE

(***************************************************************************)
(* ramfs_read and ramfs_write implement File: bytes written are kept, over *)
(* every later write, growth and move of the buffer; what a read returns   *)
(* is what was written; and a call that fails has changed nothing.         *)
(***************************************************************************)
ImplementsFile == F!Spec
=============================================================================
