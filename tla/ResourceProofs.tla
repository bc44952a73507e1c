--------------------------- MODULE ResourceProofs ---------------------------
(***************************************************************************)
(* The three parts of the kernel that keep books.  A regular file of       *)
(* ramfs.c, for every file size limit, word size, set of requests and set  *)
(* of bytes that satisfy RamFileAssumption: its invariants, and that it    *)
(* implements File.  The list of drivers and their life cycle, for any     *)
(* number of drivers, any names and any MAX_DRIVERS.  The physical frames, *)
(* for every memory map, every number of frames and every sequence of      *)
(* calls.                                                                  *)
(***************************************************************************)
EXTENDS DriverManager, PMM, RamFile, FiniteSetTheorems, TLAPS

(***************************************************************************)
(* A request does not wrap 32 bits: new_size in ramfs_write is the end of  *)
(* the request.                                                            *)
(***************************************************************************)
LEMMA NewSizeExact ==
    ASSUME NEW offset \in Offsets, NEW buffer \in Buffers
    PROVE  /\ offset \in Nat /\ buffer \in Seq(Byte) /\ Len(buffer) \in Nat
           /\ (offset + Len(buffer)) % WORD = offset + Len(buffer)
<1>1. offset \in Nat /\ buffer \in Seq(Byte) /\ Len(buffer) \in Nat
  BY RamFileAssumption
<1>2. offset + Len(buffer) < WORD /\ WORD \in Nat
  BY RamFileAssumption
<1>3. \A a \in Nat : a < WORD => a % WORD = a
  BY <1>2
<1> QED  BY <1>1, <1>2, <1>3

(***************************************************************************)
(* The capacity that ramfs_write asks for never exceeds the limit, and a   *)
(* size within the limit always fits into it.                              *)
(***************************************************************************)
LEMMA NewCapacityFits ==
    ASSUME NEW n \in Nat
    PROVE  /\ NewCapacity(n) \in 0 .. RAMFS_MAX_FILE_SIZE
           /\ n <= RAMFS_MAX_FILE_SIZE => n <= NewCapacity(n)
<1> DEFINE doubled == (n * 2) % WORD
<1>1. WORD \in Nat \ {0} /\ RAMFS_MAX_FILE_SIZE \in Nat /\ 2 * RAMFS_MAX_FILE_SIZE < WORD
  BY RamFileAssumption
<1>2. doubled \in Nat
  BY <1>1
<1>3. n <= RAMFS_MAX_FILE_SIZE => doubled = n * 2
  <2>1. \A a \in Nat : a < WORD => a % WORD = a
    BY <1>1
  <2> QED  BY <1>1, <2>1
<1>4. NewCapacity(n) = IF doubled < RAMFS_MAX_FILE_SIZE THEN doubled ELSE RAMFS_MAX_FILE_SIZE
  BY DEF NewCapacity, F!Smaller
<1> HIDE DEF doubled
<1> QED  BY <1>1, <1>2, <1>3, <1>4

-----------------------------------------------------------------------------
FileInv == RamFileTypeOK /\ RefusedOnlyTooLarge

(***************************************************************************)
(* An empty file satisfies the invariant.                                  *)
(***************************************************************************)
LEMMA InitFileInv == RamFileInit => FileInv
  BY RamFileAssumption DEF RamFileInit, FileInv, RamFileTypeOK, RefusedOnlyTooLarge, F!Failed

(***************************************************************************)
(* What the memcpy calls of ramfs_write leave in a buffer of cap bytes.    *)
(***************************************************************************)
LEMMA CopyInBytes ==
    ASSUME RamFileTypeOK, NEW offset \in Offsets, NEW buffer \in Buffers,
           NEW cap \in Nat, NEW old \in [0 .. cap - 1 -> Byte],
           NEW kept \in 0 .. capacity
    PROVE  CopyIn(buffer, offset, old, kept) \in [0 .. cap - 1 -> Byte]
<1>1. ASSUME NEW e \in 0 .. cap - 1
      PROVE  CopyIn(buffer, offset, old, kept)[e] \in Byte
  <2>1. CASE e \in offset .. offset + Len(buffer) - 1
    BY <2>1, NewSizeExact DEF CopyIn
  <2>2. CASE e \notin offset .. offset + Len(buffer) - 1 /\ e < kept
    BY <2>2 DEF CopyIn, RamFileTypeOK
  <2>3. CASE e \notin offset .. offset + Len(buffer) - 1 /\ ~(e < kept)
    BY <2>3 DEF CopyIn
  <2> QED  BY <2>1, <2>2, <2>3
<1> QED  BY <1>1 DEF CopyIn

(***************************************************************************)
(* So does a file after a request that failed.                             *)
(***************************************************************************)
LEMMA FailsKeepsInv ==
    ASSUME FileInv, NEW n, RequestFails(n),
           n = -1 \/ (n \in 0 .. WORD /\ n > RAMFS_MAX_FILE_SIZE)
    PROVE  FileInv'
  BY RamFileAssumption DEF FileInv, RamFileTypeOK, RefusedOnlyTooLarge, RequestFails

(***************************************************************************)
(* And one after a write into a buffer that holds the old and the new      *)
(* contents.                                                               *)
(***************************************************************************)
LEMMA StoreKeepsInv ==
    ASSUME FileInv, NEW offset \in Offsets, NEW buffer \in Buffers,
           NEW cap \in 0 .. RAMFS_MAX_FILE_SIZE, NEW old \in [0 .. cap - 1 -> Byte],
           offset + Len(buffer) <= cap, size <= cap, capacity' = cap,
           Store(CopyIn(buffer, offset, old, size), offset + Len(buffer), buffer)
    PROVE  FileInv'
<1>1. cap \in Nat /\ size \in 0 .. capacity
  BY RamFileAssumption DEF FileInv, RamFileTypeOK
<1>2. data' \in [0 .. cap - 1 -> Byte]
  BY <1>1, CopyInBytes DEF Store, FileInv
<1>3. size' \in 0 .. cap /\ node_size' = size'
  BY <1>1, NewSizeExact DEF Store, F!Larger, FileInv, RamFileTypeOK
<1> QED  BY <1>2, <1>3, RamFileAssumption
         DEF Store, FileInv, RamFileTypeOK, RefusedOnlyTooLarge

(***************************************************************************)
(* Every call of vfs_read and vfs_write preserves the invariant.           *)
(***************************************************************************)
LEMMA NextFileInv == FileInv /\ [RamFileNext]_ramfile_vars => FileInv'
<1> SUFFICES ASSUME FileInv, [RamFileNext]_ramfile_vars PROVE FileInv'
  OBVIOUS
<1>1. ASSUME NEW offset \in Offsets, NEW buffer \in Buffers,
             ramfs_write(offset, buffer)
      PROVE  FileInv'
  <2> DEFINE new_size == offset + Len(buffer)
             new_cap  == NewCapacity(new_size)
  <2>0. /\ new_size \in Nat /\ new_size < WORD
        /\ (offset + Len(buffer)) % WORD = new_size
    BY NewSizeExact, RamFileAssumption
  <2>1. CASE RequestFails(-1)
    BY <2>1, FailsKeepsInv
  <2>2. CASE new_size > new_cap /\ RequestFails(new_size)
    <3>1. new_size > RAMFS_MAX_FILE_SIZE
      BY <2>0, <2>2, NewCapacityFits, RamFileAssumption
    <3> QED  BY <2>0, <2>2, <3>1, FailsKeepsInv, RamFileAssumption
  <2>3. CASE /\ new_size <= capacity /\ capacity' = capacity
             /\ Store(CopyIn(buffer, offset, data, size), new_size, buffer)
    <3>1. /\ capacity \in 0 .. RAMFS_MAX_FILE_SIZE /\ data \in [0 .. capacity - 1 -> Byte]
          /\ size <= capacity
      BY RamFileAssumption DEF FileInv, RamFileTypeOK
    <3> QED  BY <2>3, <3>1, StoreKeepsInv
  <2>4. CASE /\ new_size > capacity /\ new_size <= new_cap /\ capacity' = new_cap
             /\ \E fresh \in [0 .. new_cap - 1 -> Byte] :
                   Store(CopyIn(buffer, offset, fresh, size), new_size, buffer)
    <3>1. new_cap \in 0 .. RAMFS_MAX_FILE_SIZE
      BY <2>0, NewCapacityFits
    <3>2. size <= new_cap
      BY <2>0, <2>4, <3>1, RamFileAssumption DEF FileInv, RamFileTypeOK
    <3> HIDE DEF new_cap
    <3>3. PICK fresh \in [0 .. new_cap - 1 -> Byte] :
             Store(CopyIn(buffer, offset, fresh, size), new_size, buffer)
      BY <2>4
    <3> QED  BY <2>4, <3>1, <3>2, <3>3, StoreKeepsInv
  <2> QED  BY <1>1, <2>0, <2>1, <2>2, <2>3, <2>4 DEF ramfs_write
<1>2. ASSUME NEW offset \in Offsets, NEW n \in Offsets, ramfs_read(offset, n)
      PROVE  FileInv'
  <2>1. CASE RequestFails(-1)
    BY <2>1, FailsKeepsInv
  <2>2. CASE refused' = -1 /\ UNCHANGED <<private_data, data, size, capacity, node_size>>
    BY <2>2, RamFileAssumption DEF FileInv, RamFileTypeOK, RefusedOnlyTooLarge
  <2> QED  BY <1>2, <2>1, <2>2 DEF ramfs_read
<1>3. CASE UNCHANGED ramfile_vars
  BY <1>3 DEF ramfile_vars, FileInv, RamFileTypeOK, RefusedOnlyTooLarge
<1> QED  BY <1>1, <1>2, <1>3 DEF RamFileNext, vfs_write, vfs_read

(***************************************************************************)
(* The buffer of a ramfs_file_t has the length its fields say, after any   *)
(* reads and writes whose end does not wrap 32 bits.                       *)
(***************************************************************************)
THEOREM FileTypes == RamFileSpec => []RamFileTypeOK
  BY InitFileInv, NextFileInv, PTL DEF RamFileSpec, FileInv

(***************************************************************************)
(* ramfs_write refuses a request for its size only if the file would grow  *)
(* beyond RAMFS_MAX_FILE_SIZE.                                             *)
(***************************************************************************)
THEOREM RefusalsJustified == RamFileSpec => []RefusedOnlyTooLarge
  BY InitFileInv, NextFileInv, PTL DEF RamFileSpec, FileInv

-----------------------------------------------------------------------------
(***************************************************************************)
(* The file that the buffer represents.                                    *)
(***************************************************************************)
Contents == [k \in 1 .. size |-> data[k - 1]]

(***************************************************************************)
(* The contents are as many bytes as the file's size.                      *)
(***************************************************************************)
LEMMA ContentsSeq ==
    ASSUME RamFileTypeOK
    PROVE  /\ Contents \in [1 .. size -> Byte] /\ Len(Contents) = size
           /\ size \in Nat /\ DOMAIN Contents = 1 .. size
<1>1. size \in Nat /\ \A e \in 1 .. size : data[e - 1] \in Byte
  BY RamFileAssumption DEF RamFileTypeOK
<1> QED  BY <1>1 DEF Contents

(***************************************************************************)
(* They still are after a step.                                            *)
(***************************************************************************)
LEMMA ContentsSeqNext == RamFileTypeOK' => Contents' \in [1 .. size' -> Byte]
<1>1. ASSUME NEW c \in 0 .. RAMFS_MAX_FILE_SIZE, NEW s \in 0 .. c,
             NEW d \in [0 .. c - 1 -> Byte]
      PROVE  [e \in 1 .. s |-> d[e - 1]] \in [1 .. s -> Byte]
  BY RamFileAssumption
<1> QED  BY <1>1, Zenon DEF RamFileTypeOK, Contents

(***************************************************************************)
(* The end of ramfs_write is a Write of File: the bytes of the request are *)
(* in the file, the bytes outside of it are those of before, and the file  *)
(* ends where the longer of the two does.                                  *)
(***************************************************************************)
LEMMA StoreIsWrite ==
    ASSUME FileInv, FileInv', NEW offset \in Offsets, NEW buffer \in Buffers,
           NEW cap \in 0 .. RAMFS_MAX_FILE_SIZE, NEW old \in [0 .. cap - 1 -> Byte],
           offset + Len(buffer) <= cap, size <= cap,
           Store(CopyIn(buffer, offset, old, size), offset + Len(buffer), buffer)
    PROVE  F!Write(offset, buffer)
<1> DEFINE n == Len(buffer)
<1>1. /\ offset \in Nat /\ n \in Nat /\ size \in Nat /\ cap \in Nat
      /\ buffer \in Seq(Byte) /\ DOMAIN buffer = 1 .. n
  BY NewSizeExact, ContentsSeq, RamFileAssumption DEF FileInv
<1>2. /\ Len(Contents) = size /\ DOMAIN Contents = 1 .. size
      /\ Contents' \in [1 .. size' -> Byte]
  <2>1. RamFileTypeOK /\ RamFileTypeOK'
    BY DEF FileInv
  <2> QED  BY <2>1, ContentsSeq, ContentsSeqNext
<1>3. size' = F!Larger(size, offset + n)
  BY <1>1 DEF Store, F!Larger
<1>4. \A e \in 0 .. cap - 1 :
         data'[e] = IF e \in offset .. offset + n - 1 THEN buffer[e - offset + 1]
                    ELSE IF e < size THEN data[e] ELSE old[e]
  BY DEF Store, CopyIn
<1>5. size' <= cap /\ size' \in Nat /\ size <= size' /\ offset + n <= size'
  BY <1>1, <1>3 DEF F!Larger
<1>6. \A e \in 1 .. size' : Contents'[e] = data'[e - 1]
  BY DEF Contents
<1>7. ASSUME NEW e \in DOMAIN buffer PROVE Contents'[offset + e] = buffer[e]
  <2>1. e \in 1 .. n /\ offset + e \in 1 .. size' /\ offset + e - 1 \in 0 .. cap - 1
    BY <1>1, <1>5
  <2>2. offset + e - 1 \in offset .. offset + n - 1 /\ (offset + e - 1) - offset + 1 = e
    BY SMTT(30), <1>1, <2>1
  <2>3. Contents'[offset + e] = data'[offset + e - 1]
    <3>1. PICK x \in 1 .. size' : x = offset + e
      BY Zenon, <2>1
    <3>2. Contents'[x] = data'[x - 1]
      BY Zenon, <1>6, <3>1
    <3>3. x - 1 = offset + e - 1
      BY <1>1, <2>1, <3>1
    <3> QED  BY Zenon, <3>1, <3>2, <3>3
  <2>4. data'[offset + e - 1] = buffer[(offset + e - 1) - offset + 1]
    BY <1>4, <2>1, <2>2
  <2> QED  BY <2>2, <2>3, <2>4
<1>8. ASSUME NEW e \in DOMAIN Contents \ (offset + 1 .. offset + n)
      PROVE  Contents'[e] = Contents[e]
  <2>1. /\ e \in 1 .. size /\ e \in 1 .. size' /\ e - 1 \in 0 .. cap - 1
        /\ e - 1 \notin offset .. offset + n - 1 /\ e - 1 < size
    BY <1>1, <1>2, <1>5
  <2>2. Contents'[e] = data'[e - 1] /\ Contents[e] = data[e - 1]
    BY <1>6, <2>1 DEF Contents
  <2>3. data'[e - 1] = data[e - 1]
    BY <1>4, <2>1
  <2> QED  BY <2>2, <2>3
<1>9. offset + n <= RAMFS_MAX_FILE_SIZE /\ returned' = F!Wrote(buffer)
  BY <1>1, RamFileAssumption DEF Store
<1>10. Contents' \in [1 .. F!Larger(Len(Contents), offset + n) -> Byte]
  BY <1>2, <1>3
<1> QED  BY Zenon, <1>7, <1>8, <1>9, <1>10 DEF F!Write, Contents

(***************************************************************************)
(* What ramfs_read copies out is the part of the file that was asked for.  *)
(***************************************************************************)
LEMMA ReadIsRead ==
    ASSUME RamFileTypeOK, NEW offset \in Offsets, NEW n \in Offsets
    PROVE  (IF offset >= size THEN <<>>
            ELSE [e \in 1 .. F!Smaller(n, size - offset) |-> data[offset + e - 1]])
           = SubSeq(Contents, offset + 1, F!Smaller(Len(Contents), offset + n))
<1> DEFINE end == F!Smaller(Len(Contents), offset + n)
<1>1. /\ offset \in Nat /\ n \in Nat /\ size \in Nat /\ Len(Contents) = size
      /\ \A e \in 1 .. size : Contents[e] = data[e - 1]
  BY RamFileAssumption, ContentsSeq DEF Contents
<1>2. end \in Nat /\ end <= size /\ end = IF size < offset + n THEN size ELSE offset + n
  BY <1>1 DEF F!Smaller
<1>3. SubSeq(Contents, offset + 1, end)
         = [e \in 1 .. (end - offset) |-> Contents[offset + e]]
  BY <1>1, <1>2
<1>4. CASE offset >= size
  <2>1. 1 .. (end - offset) = {}
    BY <1>1, <1>2, <1>4
  <2>2. [e \in 1 .. (end - offset) |-> Contents[offset + e]] = <<>>
    BY <2>1
  <2> QED  BY Zenon, <1>3, <1>4, <2>2
<1>5. CASE offset < size
  <2>1. end - offset = F!Smaller(n, size - offset)
    BY <1>1, <1>2, <1>5 DEF F!Smaller
  <2>2. \A e \in 1 .. (end - offset) : /\ offset + e \in 1 .. size
                                       /\ Contents[offset + e] = data[offset + e - 1]
    BY SMTT(30), <1>1, <1>2
  <2> HIDE DEF end
  <2>3. [e \in 1 .. (end - offset) |-> Contents[offset + e]]
           = [e \in 1 .. (end - offset) |-> data[offset + e - 1]]
    BY <2>2
  <2>4. SubSeq(Contents, offset + 1, end)
           = [e \in 1 .. F!Smaller(n, size - offset) |-> data[offset + e - 1]]
    BY <1>3, <2>1, <2>3
  <2>5. ~(offset >= size)
    BY <1>1, <1>5
  <2> QED  BY <2>4, <2>5 DEF end
<1> QED  BY <1>1, <1>4, <1>5

(***************************************************************************)
(* Every step of vfs_read and vfs_write is a step of File or leaves the    *)
(* file as it is.                                                          *)
(***************************************************************************)
LEMMA StepImplements ==
    ASSUME FileInv, FileInv', [RamFileNext]_ramfile_vars
    PROVE  [F!Next]_<<Contents, returned>>
<1>0. ASSUME NEW n, RequestFails(n) PROVE F!Next
  BY <1>0 DEF RequestFails, F!Next, F!Fail, Contents
<1>1. ASSUME NEW offset \in Offsets, NEW buffer \in Buffers,
             ramfs_write(offset, buffer)
      PROVE  F!Next
  <2> DEFINE new_size == offset + Len(buffer)
             new_cap  == NewCapacity(new_size)
  <2>0. /\ new_size \in Nat /\ (offset + Len(buffer)) % WORD = new_size
    BY NewSizeExact
  <2>1. CASE \E n : RequestFails(n)
    BY <1>0, <2>1
  <2>2. CASE /\ new_size <= capacity
             /\ Store(CopyIn(buffer, offset, data, size), new_size, buffer)
    <3>1. /\ capacity \in 0 .. RAMFS_MAX_FILE_SIZE /\ data \in [0 .. capacity - 1 -> Byte]
          /\ size <= capacity
      BY RamFileAssumption DEF FileInv, RamFileTypeOK
    <3>2. F!Write(offset, buffer)
      BY <2>2, <3>1, StoreIsWrite
    <3> QED  BY <3>2 DEF F!Next
  <2>3. CASE /\ new_size > capacity /\ new_size <= new_cap
             /\ \E fresh \in [0 .. new_cap - 1 -> Byte] :
                   Store(CopyIn(buffer, offset, fresh, size), new_size, buffer)
    <3>1. new_cap \in 0 .. RAMFS_MAX_FILE_SIZE
      BY <2>0, NewCapacityFits
    <3>2. size <= new_cap
      BY SMTT(30), <2>0, <2>3, <3>1, RamFileAssumption DEF FileInv, RamFileTypeOK
    <3> HIDE DEF new_cap
    <3>3. PICK fresh \in [0 .. new_cap - 1 -> Byte] :
             Store(CopyIn(buffer, offset, fresh, size), new_size, buffer)
      BY <2>3
    <3>4. F!Write(offset, buffer)
      BY <2>3, <3>1, <3>2, <3>3, StoreIsWrite
    <3> QED  BY <3>4 DEF F!Next
  <2> QED  BY <1>1, <2>0, <2>1, <2>2, <2>3 DEF ramfs_write
<1>2. ASSUME NEW offset \in Offsets, NEW n \in Offsets, ramfs_read(offset, n)
      PROVE  F!Next
  <2>1. CASE RequestFails(-1)
    BY <1>0, <2>1
  <2>2. CASE ~RequestFails(-1)
    <3>1. /\ returned' = F!Got(SubSeq(Contents, offset + 1,
                                    F!Smaller(Len(Contents), offset + n)))
          /\ Contents' = Contents
      BY Zenon, <1>2, <2>2, ReadIsRead DEF ramfs_read, Contents, FileInv
    <3>2. F!Read(offset, n)
      BY <3>1 DEF F!Read, Contents
    <3> QED  BY <3>2 DEF F!Next
  <2> QED  BY <2>1, <2>2
<1>3. CASE UNCHANGED ramfile_vars
  BY <1>3 DEF ramfile_vars, Contents
<1> QED  BY <1>1, <1>2, <1>3 DEF RamFileNext, vfs_write, vfs_read

(***************************************************************************)
(* ramfs_read and ramfs_write implement File, for files of every size and  *)
(* requests whose end does not wrap 32 bits: a write keeps all bytes it    *)
(* does not name, over every growth of the buffer, a read returns what is  *)
(* in the file, and a failed call changes nothing.                         *)
(***************************************************************************)
THEOREM RamFileImplementsFile == RamFileSpec => ImplementsFile
<1>1. RamFileInit => F!Init
  BY DEF RamFileInit, F!Init
<1>2. FileInv /\ FileInv' /\ [RamFileNext]_ramfile_vars => [F!Next]_<<Contents, returned>>
  BY StepImplements
<1> QED  BY <1>1, <1>2, InitFileInv, NextFileInv, PTL
         DEF RamFileSpec, ImplementsFile, F!Spec, Contents

-----------------------------------------------------------------------------
(***************************************************************************)
(* The list of drivers.  The links of driver.c represent a list of         *)
(* different drivers; driver_register puts one in front of it,             *)
(* driver_unregister takes one out.                                        *)
(***************************************************************************)

(***************************************************************************)
(* The i-th object of a linked list, for any head and any links: At for    *)
(* the state before and after a step.                                      *)
(***************************************************************************)
Nth(head, nxt, e) ==
    LET d[k \in Nat] ==
          IF k = 0 THEN head
          ELSE LET p == d[k - 1] IN IF p = NULL THEN NULL ELSE nxt[p]
    IN  d[e]

(***************************************************************************)
(* The first n values of q are the drivers of the list, from its head on.  *)
(***************************************************************************)
Chain(head, nxt, q, n) ==
    /\ \A e \in 1 .. n : q[e] \in Driver
    /\ head = IF n = 0 THEN NULL ELSE q[1]
    /\ \A e \in 1 .. n : nxt[q[e]] = IF e = n THEN NULL ELSE q[e + 1]
    /\ \A e, j \in 1 .. n : q[e] = q[j] => e = j

(***************************************************************************)
(* A set of numbers that is not empty has a smallest member.               *)
(***************************************************************************)
LEMMA SmallestMember ==
    ASSUME NEW T \in SUBSET Nat, T # {}
    PROVE  \E x \in T : \A y \in T : x <= y
<1>1. PICK x \in T : \A y \in T : ~(<<y, x>> \in OpToRel(<, Nat))
  BY ZenonT(60), NatLessThanWellFounded, WFMin
<1>2. \A y \in T : ~(y < x)
  BY ZenonT(60), <1>1 DEF OpToRel
<1> QED  BY <1>2

(***************************************************************************)
(* Induction: a set that contains 0 and, with every number, the next one   *)
(* contains all of them.                                                   *)
(***************************************************************************)
LEMMA Inductive ==
    ASSUME NEW S, 0 \in S, \A n \in Nat : n \in S => n + 1 \in S
    PROVE  \A n \in Nat : n \in S
<1> DEFINE T == {n \in Nat : n \notin S}
<1> SUFFICES ASSUME T # {} PROVE FALSE
  OBVIOUS
<1>1. PICK x \in T : \A y \in T : x <= y
  <2> HIDE DEF T
  <2>1. T \in SUBSET Nat
    BY DEF T
  <2> QED  BY <2>1, SmallestMember
<1>2. x # 0 /\ x - 1 \in Nat /\ x - 1 \notin T
  BY <1>1
<1> QED  BY <1>1, <1>2

(***************************************************************************)
(* Walking the links of a list, as the loops of driver.c do, visits its    *)
(* members in order and then ends.                                         *)
(***************************************************************************)
LEMMA NthOfChain ==
    ASSUME NEW head, NEW nxt, NEW q, NEW n \in Nat, Chain(head, nxt, q, n)
    PROVE  \A e \in Nat : Nth(head, nxt, e) = IF e < n THEN q[e + 1] ELSE NULL
<1> DEFINE d == CHOOSE d : d = [k \in Nat |-> IF k = 0 THEN head ELSE
                     LET p == d[k - 1] IN IF p = NULL THEN NULL ELSE nxt[p]]
           f == [k \in Nat |-> IF k < n THEN q[k + 1] ELSE NULL]
<1>1. \A e \in Nat : Nth(head, nxt, e) = d[e]
  BY DEF Nth
<1>2. f = [k \in Nat |-> IF k = 0 THEN head ELSE
                     LET p == f[k - 1] IN IF p = NULL THEN NULL ELSE nxt[p]]
  <2>1. ASSUME NEW k \in Nat, k # 0
        PROVE  f[k] = IF f[k - 1] = NULL THEN NULL ELSE nxt[f[k - 1]]
    <3>1. k - 1 \in Nat /\ (k - 1) + 1 = k
      BY <2>1
    <3>2. CASE k - 1 < n
      <4>1. k \in 1 .. n /\ f[k - 1] = q[k]
        BY <2>1, <3>1, <3>2
      <4>2. q[k] # NULL /\ nxt[q[k]] = IF k = n THEN NULL ELSE q[k + 1]
        BY <4>1, DriverAssumption DEF Chain
      <4>3. f[k] = IF k = n THEN NULL ELSE q[k + 1]
        BY <4>1
      <4> QED  BY <4>1, <4>2, <4>3
    <3>3. CASE ~(k - 1 < n)
      BY <3>1, <3>3
    <3> QED  BY <3>2, <3>3
  <2>2. f[0] = head
    BY DEF Chain
  <2> QED  BY <2>1, <2>2
<1>3. d = [k \in Nat |-> IF k = 0 THEN head ELSE
                     LET p == d[k - 1] IN IF p = NULL THEN NULL ELSE nxt[p]]
  <2> HIDE DEF f
  <2> QED BY Zenon, <1>2
<1> DEFINE S == {e \in Nat : d[e] = f[e]}
<1> HIDE DEF d
<1>4. 0 \in S
  BY Zenon, <1>2, <1>3
<1>5. ASSUME NEW e \in Nat, e \in S PROVE e + 1 \in S
  <2> HIDE DEF f
  <2> DEFINE j == e + 1
  <2>0. j \in Nat /\ j - 1 = e /\ j # 0 OBVIOUS
  <2> HIDE DEF j
  <2>1. d[j] = LET p == d[e] IN IF p = NULL THEN NULL ELSE nxt[p]
    BY <1>3, <2>0
  <2>2. f[j] = LET p == f[e] IN IF p = NULL THEN NULL ELSE nxt[p]
    BY <1>2, <2>0
  <2> QED BY <1>5, <2>1, <2>2, <2>0 DEF j
<1> HIDE DEF S
<1>6. \A e \in Nat : e \in S
  BY <1>4, <1>5, Inductive
<1> QED BY <1>1, <1>6 DEF S

(***************************************************************************)
(* At is Nth, for the list before and for the list after a step.           *)
(***************************************************************************)
LEMMA AtIsNth ==
    /\ \A e : At(e) = Nth(driver_list, next, e)
    /\ \A e : At(e)' = Nth(driver_list', next', e)
BY DEF At, Nth

(***************************************************************************)
(* A list of different drivers has no more members than there are drivers. *)
(***************************************************************************)
LEMMA ChainFits ==
    ASSUME NEW head, NEW nxt, NEW q, NEW n \in Nat, Chain(head, nxt, q, n)
    PROVE  /\ Cardinality(Driver) \in Nat
           /\ n <= Cardinality(Driver)
           /\ Cardinality({q[e] : e \in 1 .. n}) = n
<1> DEFINE S == {q[e] : e \in 1 .. n}
           f == [e \in 1 .. n |-> q[e]]
<1>1. S \in SUBSET Driver
  BY DEF Chain
<1>2. f \in Bijection(1 .. n, S)
  <2>1. f \in [1 .. n -> S]
    OBVIOUS
  <2>2. \A e, j \in 1 .. n : f[e] = f[j] => e = j
    BY DEF Chain
  <2>3. \A x \in S : \E e \in 1 .. n : f[e] = x
    OBVIOUS
  <2> HIDE DEF f, S
  <2> QED  BY <2>1, <2>2, <2>3 DEF Bijection, Injection, Surjection, IsInjective
<1> HIDE DEF f, S
<1>3. Cardinality(S) = n
  BY <1>2, FS_CountingElements DEF ExistsBijection
<1>4. Cardinality(Driver) \in Nat /\ Cardinality(S) <= Cardinality(Driver)
  BY <1>1, FS_Subset, FS_CardinalityType, DriverAssumption
<1> QED  BY <1>3, <1>4 DEF S

(***************************************************************************)
(* The drivers in a list.                                                  *)
(***************************************************************************)
Members(q, n) == {q[e] : e \in 1 .. n}

(***************************************************************************)
(* Every loop over the list of driver.c ends, and sees exactly the members *)
(* of the list.                                                            *)
(***************************************************************************)
LEMMA ListedOfChain ==
    ASSUME NEW head, NEW nxt, NEW q, NEW n \in Nat, Chain(head, nxt, q, n)
    PROVE  /\ Nth(head, nxt, Cardinality(Driver)) = NULL
           /\ {Nth(head, nxt, e) : e \in Indices} \ {NULL} = Members(q, n)
<1>1. Cardinality(Driver) \in Nat /\ n <= Cardinality(Driver)
  BY Zenon, ChainFits
<1>2. \A e \in Nat : Nth(head, nxt, e) = IF e < n THEN q[e + 1] ELSE NULL
  BY NthOfChain
<1>3. \A e \in 1 .. n : q[e] \in Driver /\ q[e] # NULL
  BY DriverAssumption DEF Chain
<1>4. ASSUME NEW d \in Members(q, n) PROVE d \in {Nth(head, nxt, e) : e \in Indices} \ {NULL}
  <2>1. PICK e \in 1 .. n : d = q[e]
    BY DEF Members
  <2>2. e - 1 \in Indices /\ e - 1 \in Nat /\ Nth(head, nxt, e - 1) = q[e]
    BY <1>1, <1>2, <2>1 DEF Indices
  <2> QED  BY <1>3, <2>1, <2>2
<1>5. ASSUME NEW e \in Indices, Nth(head, nxt, e) # NULL PROVE Nth(head, nxt, e) \in Members(q, n)
  <2>1. e \in Nat
    BY <1>1 DEF Indices
  <2>2. e < n /\ Nth(head, nxt, e) = q[e + 1]
    BY <1>2, <1>5, <2>1
  <2> QED  BY <2>1, <2>2 DEF Members
<1> QED  BY <1>1, <1>2, <1>4, <1>5

(***************************************************************************)
(* q is the list of driver.c: it has driver_count members of different     *)
(* names, the drivers that are not UNLOADED.                               *)
(***************************************************************************)
DriversListed(q) ==
    /\ Chain(driver_list, next, q, driver_count)
    /\ Members(q, driver_count) = {d \in Driver : state[d] # "UNLOADED"}
    /\ \A e, j \in 1 .. driver_count : NameOf[q[e]] = NameOf[q[j]] => e = j

(***************************************************************************)
(* The inductive invariant: the list that the links represent exists. A    *)
(* driver that driver_unregister has removed keeps a stale link, so the    *)
(* links alone do not say which drivers are in the list.                   *)
(***************************************************************************)
DriverInv == /\ DriverTypeOK
        /\ InitMatchesCleanup
        /\ \E q \in [1 .. driver_count -> Driver] : DriversListed(q)

(***************************************************************************)
(* driver_find and the loop of driver_unregister find a driver of that     *)
(* name in the list, and none if it has none; the pointer that             *)
(* driver_unregister changes is the one of the predecessor.                *)
(***************************************************************************)
LEMMA FoundInChain ==
    ASSUME DriverTypeOK, NEW q, Chain(driver_list, next, q, driver_count), NEW name
    PROVE  /\ \A e \in Indices : IsFound(name, e) =>
                  /\ e + 1 \in 1 .. driver_count
                  /\ At(e) = q[e + 1] /\ NameOf[q[e + 1]] = name
                  /\ e # 0 => At(e - 1) = q[e]
           /\ \A d \in driver_find(name) : d \in Members(q, driver_count)
           /\ driver_find(name) = {} =>
                  \A d \in Members(q, driver_count) : NameOf[d] # name
<1> DEFINE n == driver_count
<1>0. n \in Nat
  BY DriverAssumption DEF DriverTypeOK
<1>1. Cardinality(Driver) \in Nat /\ n <= Cardinality(Driver)
  BY Zenon, <1>0, ChainFits
<1>2. \A e \in Nat : At(e) = IF e < n THEN q[e + 1] ELSE NULL
  BY <1>0, NthOfChain, AtIsNth
<1>3. \A e \in 1 .. n : q[e] \in Driver /\ q[e] # NULL
  BY DriverAssumption DEF Chain
<1>4. ASSUME NEW e \in Indices, IsFound(name, e)
      PROVE  /\ e + 1 \in 1 .. n
             /\ At(e) = q[e + 1] /\ NameOf[q[e + 1]] = name
             /\ e # 0 => At(e - 1) = q[e]
  <2>1. e \in Nat
    BY <1>1 DEF Indices
  <2>2. e < n /\ At(e) = q[e + 1]
    BY <1>2, <1>4, <2>1 DEF IsFound
  <2>3. e # 0 => At(e - 1) = q[e]
    BY <1>0, <1>2, <2>1, <2>2
  <2> QED  BY <1>0, <1>4, <2>1, <2>2, <2>3 DEF IsFound
<1>5. \A d \in driver_find(name) : d \in Members(q, n)
  BY <1>4 DEF driver_find, Members
<1>6. ASSUME NEW d \in Members(q, n), NameOf[d] = name PROVE driver_find(name) # {}
  <2> DEFINE T == {k \in Nat : k < n /\ NameOf[q[k + 1]] = name}
  <2>1. PICK e \in 1 .. n : d = q[e]
    BY DEF Members
  <2>2. e - 1 \in T
    BY <1>0, <1>6, <2>1
  <2>3. T \in SUBSET Nat /\ T # {}
    BY <2>2
  <2> HIDE DEF T
  <2>4. PICK k \in T : \A j \in T : k <= j
    BY <2>3, SmallestMember
  <2>5. k \in Nat /\ k < n /\ NameOf[q[k + 1]] = name /\ k \in Indices
    BY <1>0, <1>1, <2>4 DEF T, Indices
  <2>6. At(k) = q[k + 1] /\ q[k + 1] # NULL
    BY <1>0, <1>2, <1>3, <2>5
  <2>7. ASSUME NEW j \in 0 .. k - 1 PROVE NameOf[At(j)] # name
    <3>1. j \in Nat /\ j < n /\ j \notin T
      BY <1>0, <2>4, <2>5
    <3>2. At(j) = q[j + 1]
      BY <1>2, <3>1
    <3> QED  BY <3>1, <3>2 DEF T
  <2>8. IsFound(name, k)
    BY <2>5, <2>6, <2>7 DEF IsFound
  <2> QED  BY <2>5, <2>8 DEF driver_find
<1> QED  BY <1>4, <1>5, <1>6

(***************************************************************************)
(* The invariant implies ListIntact.                                       *)
(***************************************************************************)
LEMMA DriverInvListIntact == DriverInv => ListIntact
<1> SUFFICES ASSUME DriverInv PROVE ListIntact
  OBVIOUS
<1>1. PICK q \in [1 .. driver_count -> Driver] : DriversListed(q)
  BY DEF DriverInv
<1>2. DriverTypeOK /\ driver_count \in Nat
  BY DriverAssumption DEF DriverInv, DriverTypeOK
<1>3. At(Cardinality(Driver)) = NULL /\ Listed = Members(q, driver_count)
  BY <1>1, <1>2, ListedOfChain, AtIsNth DEF DriversListed, Listed
<1>4. Cardinality(Listed) = driver_count
  BY <1>1, <1>2, <1>3, ChainFits DEF DriversListed, Members
<1>5. \A c, d \in Listed : NameOf[c] = NameOf[d] => c = d
  BY <1>1, <1>3 DEF DriversListed, Members
<1> QED  BY <1>1, <1>2, <1>3, <1>4, <1>5 DEF ListIntact, DriversListed

(***************************************************************************)
(* The empty list of the start.                                            *)
(***************************************************************************)
LEMMA InitDriverInv == DriverInit => DriverInv
<1> SUFFICES ASSUME DriverInit PROVE DriverInv
  OBVIOUS
<1>1. DriverTypeOK /\ InitMatchesCleanup
  BY DriverAssumption DEF DriverInit, DriverTypeOK, InitMatchesCleanup
<1> DEFINE q == [e \in 1 .. 0 |-> NULL]
<1>2. q \in [1 .. driver_count -> Driver]
  BY DEF DriverInit
<1>3. DriversListed(q)
  BY DEF DriverInit, DriversListed, Chain, Members
<1> QED  BY Zenon, <1>1, <1>2, <1>3 DEF DriverInv

(***************************************************************************)
(* driver_register, which puts the driver in front of the list, when the   *)
(* list is not full and the name is not taken.                             *)
(***************************************************************************)
LEMMA RegisterDriverInv ==
    ASSUME DriverInv, NEW drv \in Driver, driver_register(drv)
    PROVE  DriverInv'
<1> DEFINE n == driver_count
<1>1. PICK q \in [1 .. n -> Driver] : DriversListed(q)
  BY DEF DriverInv
<1>2. DriverTypeOK /\ n \in Nat /\ n < MAX_DRIVERS /\ MAX_DRIVERS \in Nat
  BY DriverAssumption DEF DriverInv, DriverTypeOK, driver_register, MayRegister
<1>3. \A d \in Members(q, n) : NameOf[d] # NameOf[drv]
  BY <1>1, <1>2, FoundInChain DEF DriversListed, driver_register, MayRegister
<1>4. drv \notin Members(q, n) /\ state[drv] = "UNLOADED"
  BY <1>1, <1>3 DEF DriversListed
<1>5. PICK q2 \in [1 .. n + 1 -> Driver] :
           \A e \in 1 .. n + 1 : q2[e] = IF e = 1 THEN drv ELSE q[e - 1]
  <2> DEFINE r == [e \in 1 .. n + 1 |-> IF e = 1 THEN drv ELSE q[e - 1]]
  <2>1. r \in [1 .. n + 1 -> Driver]
    BY <1>1, <1>2
  <2> QED  BY Zenon, <2>1
<1>6. /\ driver_list' = drv /\ n' = n + 1 /\ running' = running
      /\ state' = [state EXCEPT ![drv] = "LOADED"]
      /\ next' = [next EXCEPT ![drv] = driver_list]
  BY DEF driver_register
<1>7. DriverTypeOK' /\ InitMatchesCleanup'
  <2>1. DriverTypeOK'
    BY <1>2, <1>6 DEF DriverTypeOK
  <2>2. InitMatchesCleanup'
    BY <1>4, <1>6, DriverAssumption DEF DriverInv, DriverTypeOK, InitMatchesCleanup
  <2> QED  BY <2>1, <2>2
<1>8. \A e \in 1 .. n : q[e] # drv /\ q[e] \in Driver /\ NameOf[q[e]] # NameOf[drv]
  BY <1>1, <1>3, <1>4 DEF Members
<1>9. Chain(driver_list', next', q2, n + 1)
  <2>1. Chain(driver_list, next, q, n)
    BY <1>1 DEF DriversListed
  <2>2. next'[drv] = driver_list /\ \A d \in Driver \ {drv} : next'[d] = next[d]
    BY <1>2, <1>6 DEF DriverTypeOK
  <2>3. \A e \in 1 .. n + 1 : next'[q2[e]] = IF e = n + 1 THEN NULL ELSE q2[e + 1]
    <3>1. TAKE e \in 1 .. n + 1
    <3>2. CASE e = 1
      BY <1>2, <1>5, <2>1, <2>2, <3>2 DEF Chain
    <3>3. CASE e > 1
      <4>1. e - 1 \in 1 .. n /\ q2[e] = q[e - 1] /\ (e - 1) + 1 = e
        BY <1>2, <1>5, <3>3
      <4>2. next'[q2[e]] = IF e - 1 = n THEN NULL ELSE q[e]
        BY <1>8, <2>1, <2>2, <4>1 DEF Chain
      <4>3. e # n + 1 => q2[e + 1] = q[e]
        BY <1>2, <1>5, <3>3
      <4> QED  BY <1>2, <4>2, <4>3
    <3> QED  BY <1>2, <3>2, <3>3
  <2>4. ASSUME NEW e \in 1 .. n + 1, NEW j \in 1 .. n + 1, q2[e] = q2[j]
        PROVE  e = j
    <3>1. \A l \in 1 .. n + 1 : l # 1 => l - 1 \in 1 .. n /\ q2[l] = q[l - 1] /\ q2[l] # drv
      BY <1>2, <1>5, <1>8
    <3>2. q2[1] = drv
      BY <1>2, <1>5
    <3> QED  BY <2>1, <2>4, <3>1, <3>2 DEF Chain
  <2> QED  BY <1>2, <1>5, <1>6, <2>3, <2>4 DEF Chain
<1>10. Members(q2, n + 1) = Members(q, n) \cup {drv}
  <2>1. \A e \in 1 .. n : e + 1 \in 1 .. n + 1 /\ q2[e + 1] = q[e]
    BY <1>2, <1>5
  <2>2. q2[1] = drv /\ 1 \in 1 .. n + 1
    BY <1>2, <1>5
  <2>3. \A e \in 1 .. n + 1 : e = 1 \/ (e - 1 \in 1 .. n /\ q2[e] = q[e - 1])
    BY <1>2, <1>5
  <2> QED  BY <2>1, <2>2, <2>3 DEF Members
<1>11. Members(q2, n + 1) = {d \in Driver : state'[d] # "UNLOADED"}
  BY <1>1, <1>2, <1>6, <1>10 DEF DriversListed, DriverTypeOK
<1>12. ASSUME NEW e \in 1 .. n + 1, NEW j \in 1 .. n + 1, NameOf[q2[e]] = NameOf[q2[j]]
       PROVE  e = j
  <2>1. \A l \in 1 .. n + 1 : l # 1 => /\ l - 1 \in 1 .. n /\ q2[l] = q[l - 1]
                                       /\ NameOf[q2[l]] # NameOf[drv]
    BY <1>2, <1>5, <1>8
  <2>2. q2[1] = drv
    BY <1>2, <1>5
  <2>3. \A l, m \in 1 .. n : NameOf[q[l]] = NameOf[q[m]] => l = m
    BY <1>1 DEF DriversListed
  <2> QED  BY <1>12, <2>1, <2>2, <2>3
<1>13. DriversListed(q2)'
  BY <1>6, <1>9, <1>11, <1>12 DEF DriversListed
<1> QED  BY <1>5, <1>6, <1>7, <1>13 DEF DriverInv

(***************************************************************************)
(* The counts after a cleanup: those of the drivers still ACTIVE when the  *)
(* one cleaned up is LOADED or UNLOADED.                                   *)
(***************************************************************************)
LEMMA CleanupMatches ==
    ASSUME DriverTypeOK, InitMatchesCleanup, NEW drv \in Driver,
           NEW st \in {"LOADED", "UNLOADED"},
           running' = Cleanup(drv), state' = [state EXCEPT ![drv] = st]
    PROVE  running' \in [Driver -> Int] /\ InitMatchesCleanup'
<1>1. running' \in [Driver -> Int]
  BY DEF DriverTypeOK, Cleanup
<1>2. ASSUME NEW d \in Driver
      PROVE  running'[d] = IF d \in HasOps /\ state'[d] = "ACTIVE" THEN 1 ELSE 0
  <2>1. CASE d # drv
    BY <2>1 DEF DriverTypeOK, InitMatchesCleanup, Cleanup
  <2>2. CASE d = drv
    BY <2>2 DEF DriverTypeOK, InitMatchesCleanup, Cleanup
  <2> QED  BY <2>1, <2>2
<1> QED  BY <1>1, <1>2 DEF InitMatchesCleanup

(***************************************************************************)
(* The counts after driver_load has run a driver's init.                   *)
(***************************************************************************)
LEMMA LoadMatches ==
    ASSUME DriverTypeOK, InitMatchesCleanup, NEW drv \in Driver,
           state[drv] # "ACTIVE",
           \/ /\ state' = [state EXCEPT ![drv] = "ACTIVE"]
              /\ running' = IF drv \in HasOps
                            THEN [running EXCEPT ![drv] = @ + 1] ELSE running
           \/ /\ drv \in HasOps
              /\ state' = [state EXCEPT ![drv] = "ERROR"]
              /\ UNCHANGED running
    PROVE  running' \in [Driver -> Int] /\ InitMatchesCleanup'
<1>1. running' \in [Driver -> Int]
  BY DEF DriverTypeOK
<1>2. ASSUME NEW d \in Driver
      PROVE  running'[d] = IF d \in HasOps /\ state'[d] = "ACTIVE" THEN 1 ELSE 0
  <2>1. CASE d # drv
    BY <2>1 DEF DriverTypeOK, InitMatchesCleanup
  <2>2. CASE d = drv
    BY <2>2 DEF DriverTypeOK, InitMatchesCleanup
  <2> QED  BY <2>1, <2>2
<1> QED  BY <1>1, <1>2 DEF InitMatchesCleanup

(***************************************************************************)
(* driver_unregister: the list without the driver, whether it is the       *)
(* first, in the middle or the last.                                       *)
(***************************************************************************)
LEMMA UnregisterDriverInv ==
    ASSUME DriverInv, NEW name \in Name, driver_unregister(name)
    PROVE  DriverInv'
<1> DEFINE n == driver_count
<1>1. PICK q \in [1 .. n -> Driver] : DriversListed(q)
  BY DEF DriverInv
<1>2. DriverTypeOK /\ InitMatchesCleanup /\ n \in Nat
  BY DriverAssumption DEF DriverInv, DriverTypeOK
<1>3. Chain(driver_list, next, q, n)
  BY <1>1 DEF DriversListed
<1>4. PICK e \in Indices :
          /\ IsFound(name, e)
          /\ running' = Cleanup(At(e))
          /\ IF e = 0
             THEN driver_list' = next[At(e)] /\ UNCHANGED next
             ELSE /\ next' = [next EXCEPT ![At(e - 1)] = next[At(e)]]
                  /\ UNCHANGED driver_list
          /\ state' = [state EXCEPT ![At(e)] = "UNLOADED"]
          /\ driver_count' = driver_count - 1
  BY Zenon DEF driver_unregister
<1>5. e + 1 \in 1 .. n /\ At(e) = q[e + 1] /\ (e # 0 => At(e - 1) = q[e])
  <2>1. \A j \in Indices : IsFound(name, j) =>
            /\ j + 1 \in 1 .. n
            /\ At(j) = q[j + 1] /\ NameOf[q[j + 1]] = name
            /\ j # 0 => At(j - 1) = q[j]
    BY Zenon, <1>2, <1>3, FoundInChain
  <2> QED  BY <1>4, <2>1
<1>6. PICK k \in 1 .. n : k = e + 1
  BY <1>5
<1>7. PICK drv \in Driver : drv = q[k]
  BY <1>1, <1>6
<1>8. /\ n' = n - 1 /\ n - 1 \in Nat
      /\ running' = Cleanup(drv) /\ state' = [state EXCEPT ![drv] = "UNLOADED"]
      /\ k = 1 => driver_list' = next[drv] /\ next' = next
      /\ k > 1 => driver_list' = driver_list /\ next' = [next EXCEPT ![q[k - 1]] = next[drv]]
  <2>1. k \in Nat /\ e = k - 1 /\ At(e) = drv /\ n - 1 \in Nat
    BY <1>2, <1>5, <1>6, <1>7, ChainFits, <1>3 DEF Indices
  <2>2. k = 1 => e = 0
    BY <2>1
  <2>3. k > 1 => e # 0 /\ At(e - 1) = q[k - 1]
    BY <1>5, <2>1
  <2> QED  BY Zenon, <1>4, <2>1, <2>2, <2>3
<1>9. DriverTypeOK' /\ InitMatchesCleanup'
  <2>1. running' \in [Driver -> Int]
    BY Zenon, <1>2, <1>7, <1>8, CleanupMatches
  <2>2. driver_list' \in Driver \cup {NULL} /\ next' \in [Driver -> Driver \cup {NULL}]
    <3>1. driver_list \in Driver \cup {NULL} /\ next \in [Driver -> Driver \cup {NULL}]
      BY <1>2 DEF DriverTypeOK
    <3>2. next[drv] \in Driver \cup {NULL}
      BY <1>7, <3>1
    <3>3. CASE k = 1
      BY <1>8, <3>1, <3>2, <3>3
    <3>4. CASE k > 1
      BY <1>8, <3>1, <3>2, <3>4
    <3> QED  BY <1>6, <3>3, <3>4
  <2>3. DriverTypeOK'
    <3>1. n \in 0 .. MAX_DRIVERS /\ MAX_DRIVERS \in Nat
      BY <1>2, DriverAssumption DEF DriverTypeOK
    <3>2. n' \in 0 .. MAX_DRIVERS
      BY <1>8, <3>1
    <3>3. state' \in [Driver -> {"UNLOADED", "LOADED", "ACTIVE", "ERROR"}]
      BY <1>2, <1>8 DEF DriverTypeOK
    <3> QED  BY <2>1, <2>2, <3>2, <3>3 DEF DriverTypeOK
  <2>4. InitMatchesCleanup'
    BY Zenon, <1>2, <1>7, <1>8, CleanupMatches
  <2> QED  BY <2>3, <2>4
<1>10. PICK q2 \in [1 .. n - 1 -> Driver] :
           \A j \in 1 .. n - 1 : q2[j] = IF j < k THEN q[j] ELSE q[j + 1]
  <2> DEFINE r == [j \in 1 .. n - 1 |-> IF j < k THEN q[j] ELSE q[j + 1]]
  <2>1. r \in [1 .. n - 1 -> Driver]
    BY <1>1, <1>2
  <2> QED  BY Zenon, <2>1
<1>11. /\ \A j \in 1 .. n : q[j] \in Driver
       /\ \A j, l \in 1 .. n : q[j] = q[l] => j = l
       /\ \A j \in 1 .. n : next[q[j]] = IF j = n THEN NULL ELSE q[j + 1]
       /\ driver_list = q[1]
  BY <1>2, <1>3, <1>8 DEF Chain
<1>12. \A j, l \in 1 .. n - 1 : q2[j] = q2[l] => j = l
  <2> SUFFICES ASSUME NEW j \in 1 .. n - 1, NEW l \in 1 .. n - 1, q2[j] = q2[l]
               PROVE  j = l
    BY Zenon
  <2>1. PICK a \in 1 .. n : a = IF j < k THEN j ELSE j + 1
    BY <1>2
  <2>2. PICK b \in 1 .. n : b = IF l < k THEN l ELSE l + 1
    BY <1>2
  <2>3. q2[j] = q[a] /\ q2[l] = q[b]
    BY Zenon, <1>10, <2>1, <2>2
  <2>4. a = b
    BY Zenon, <1>11, <2>3
  <2> QED  BY <1>2, <2>1, <2>2, <2>4
<1>13. Chain(driver_list', next', q2, n - 1)
  <2>1. CASE k = 1
    <3>1. \A j \in 1 .. n - 1 : j + 1 \in 1 .. n /\ q2[j] = q[j + 1] /\ q2[j] \in Driver
      BY <1>2, <1>10, <2>1
    <3>2. n - 1 \in Nat /\ next' = next /\ driver_list' = next[q[1]]
      BY <1>2, <1>7, <1>8, <2>1
    <3>3. driver_list' = IF n - 1 = 0 THEN NULL ELSE q2[1]
      BY <1>2, <1>10, <1>11, <2>1, <3>2
    <3>4. ASSUME NEW j \in 1 .. n - 1
          PROVE  next'[q2[j]] = IF j = n - 1 THEN NULL ELSE q2[j + 1]
      <4>1. next'[q2[j]] = IF j + 1 = n THEN NULL ELSE q[(j + 1) + 1]
        BY <1>11, <3>1, <3>2
      <4>2. j # n - 1 => q2[j + 1] = q[(j + 1) + 1]
        BY <1>2, <3>1
      <4> QED  BY <1>2, <4>1, <4>2
    <3> QED  BY <1>12, <3>1, <3>3, <3>4 DEF Chain
  <2>2. CASE k > 1
    <3>1. next'[q[k - 1]] = next[drv] /\ \A d \in Driver \ {q[k - 1]} : next'[d] = next[d]
      BY <1>2, <1>8, <1>11, <2>2 DEF DriverTypeOK
    <3>2. ASSUME NEW j \in 1 .. n - 1
          PROVE  next'[q2[j]] = IF j = n - 1 THEN NULL ELSE q2[j + 1]
      <4>1. CASE j < k - 1
        BY <1>2, <1>10, <1>11, <3>1, <4>1
      <4>2. CASE j = k - 1
        BY <1>2, <1>7, <1>10, <1>11, <3>1, <4>2
      <4>3. CASE j > k - 1
        <5>1. q2[j] = q[j + 1] /\ j + 1 \in 1 .. n /\ j + 1 # k - 1 /\ k - 1 \in 1 .. n
          BY <1>2, <1>10, <2>2, <4>3
        <5>2. next'[q2[j]] = IF j + 1 = n THEN NULL ELSE q[j + 2]
          BY <1>11, <3>1, <5>1
        <5>3. j # n - 1 => q2[j + 1] = q[j + 2]
          BY <1>2, <1>10, <4>3
        <5> QED  BY <1>2, <5>2, <5>3
      <4> QED  BY <4>1, <4>2, <4>3
    <3>3. driver_list' = IF n - 1 = 0 THEN NULL ELSE q2[1]
      <4>1. n - 1 # 0 /\ 1 \in 1 .. n - 1
        BY <1>2, <2>2
      <4>2. q2[1] = q[1]
        BY <1>10, <2>2, <4>1
      <4> QED  BY <1>8, <1>11, <2>2, <4>1, <4>2
    <3> QED  BY <1>8, <1>10, <1>12, <3>2, <3>3 DEF Chain
  <2> QED  BY <2>1, <2>2
<1>14. Members(q2, n - 1) = Members(q, n) \ {drv}
  <2>1. ASSUME NEW j \in 1 .. n - 1 PROVE q2[j] \in Members(q, n) \ {drv}
    <3>1. PICK l \in 1 .. n : q2[j] = q[l] /\ l # k
      BY <1>2, <1>10
    <3> QED  BY <1>7, <1>11, <3>1 DEF Members
  <2>2. ASSUME NEW j \in 1 .. n, q[j] # drv PROVE q[j] \in Members(q2, n - 1)
    <3>1. CASE j < k
      <4>1. j \in 1 .. n - 1 /\ q2[j] = q[j]
        BY <1>2, <1>10, <3>1
      <4> QED  BY <4>1 DEF Members
    <3>2. CASE j > k
      <4>1. j - 1 \in 1 .. n - 1 /\ q2[j - 1] = q[j]
        BY <1>2, <1>10, <3>2
      <4> QED  BY <4>1 DEF Members
    <3> QED  BY <1>7, <2>2, <3>1, <3>2
  <2> QED  BY <2>1, <2>2 DEF Members
<1>15. Members(q2, n - 1) = {d \in Driver : state'[d] # "UNLOADED"}
  BY <1>1, <1>2, <1>8, <1>14 DEF DriversListed, DriverTypeOK
<1>16. \A j, l \in 1 .. n - 1 : NameOf[q2[j]] = NameOf[q2[l]] => j = l
  BY <1>1, <1>2, <1>10 DEF DriversListed
<1>17. DriversListed(q2)'
  BY <1>8, <1>13, <1>15, <1>16 DEF DriversListed
<1> QED  BY <1>8, <1>9, <1>10, <1>17 DEF DriverInv

(***************************************************************************)
(* A change of a registered driver's state leaves the list alone.          *)
(***************************************************************************)
LEMMA StateDriverInv ==
    ASSUME DriverInv, NEW drv \in Driver, state[drv] # "UNLOADED",
           NEW st \in {"LOADED", "ACTIVE", "ERROR"},
           state' = [state EXCEPT ![drv] = st],
           DriverTypeOK', InitMatchesCleanup',
           UNCHANGED <<driver_list, driver_count, next>>
    PROVE  DriverInv'
<1>1. PICK q \in [1 .. driver_count -> Driver] : DriversListed(q)
  BY DEF DriverInv
<1>2. {d \in Driver : state'[d] # "UNLOADED"} = {d \in Driver : state[d] # "UNLOADED"}
  BY DEF DriverInv, DriverTypeOK
<1>3. DriversListed(q)'
  BY <1>1, <1>2 DEF DriversListed, Chain, Members
<1> QED  BY <1>1, <1>3 DEF DriverInv

(***************************************************************************)
(* What driver_find returns is a registered driver.                        *)
(***************************************************************************)
LEMMA FoundIsDriver ==
    ASSUME DriverInv, NEW name, NEW drv \in driver_find(name)
    PROVE  drv \in Driver /\ state[drv] # "UNLOADED"
<1>1. PICK q \in [1 .. driver_count -> Driver] : DriversListed(q)
  BY DEF DriverInv
<1>2. drv \in Members(q, driver_count)
  BY <1>1, FoundInChain DEF DriverInv, DriversListed
<1> QED  BY <1>1, <1>2 DEF DriversListed

(***************************************************************************)
(* Every call of driver.c preserves the invariant.                         *)
(***************************************************************************)
LEMMA NextDriverInv == DriverInv /\ [DriverNext]_driver_vars => DriverInv'
<1> SUFFICES ASSUME DriverInv, [DriverNext]_driver_vars PROVE DriverInv'
  OBVIOUS
<1>1. ASSUME NEW drv \in Driver, driver_register(drv) PROVE DriverInv'
  BY <1>1, RegisterDriverInv
<1>2. ASSUME NEW name \in Name, driver_unregister(name) PROVE DriverInv'
  BY <1>2, UnregisterDriverInv
<1>3. ASSUME NEW name \in Name, driver_load(name) PROVE DriverInv'
  <2>1. PICK drv \in driver_find(name) :
            /\ state[drv] # "ACTIVE"
            /\ \/ /\ state' = [state EXCEPT ![drv] = "ACTIVE"]
                  /\ running' = IF drv \in HasOps
                                THEN [running EXCEPT ![drv] = @ + 1] ELSE running
               \/ /\ drv \in HasOps
                  /\ state' = [state EXCEPT ![drv] = "ERROR"]
                  /\ UNCHANGED running
            /\ UNCHANGED <<driver_list, driver_count, next>>
    BY <1>3 DEF driver_load
  <2>2. drv \in Driver /\ state[drv] # "UNLOADED"
    BY <2>1, FoundIsDriver
  <2>3. running' \in [Driver -> Int] /\ InitMatchesCleanup'
    BY Zenon, <2>1, <2>2, LoadMatches DEF DriverInv
  <2>4. DriverTypeOK'
    BY <2>1, <2>2, <2>3 DEF DriverInv, DriverTypeOK
  <2> QED  BY <2>1, <2>2, <2>3, <2>4, StateDriverInv
<1>4. ASSUME NEW name \in Name, driver_unload(name) PROVE DriverInv'
  <2>1. PICK drv \in driver_find(name) :
            /\ state[drv] = "ACTIVE"
            /\ running' = Cleanup(drv)
            /\ state' = [state EXCEPT ![drv] = "LOADED"]
            /\ UNCHANGED <<driver_list, driver_count, next>>
    BY Zenon, <1>4 DEF driver_unload
  <2>2. drv \in Driver /\ state[drv] # "UNLOADED"
    BY <2>1, FoundIsDriver
  <2>3. running' \in [Driver -> Int] /\ InitMatchesCleanup'
    BY Zenon, <2>1, <2>2, CleanupMatches DEF DriverInv
  <2>4. DriverTypeOK'
    BY Zenon, <2>1, <2>2, <2>3 DEF DriverInv, DriverTypeOK
  <2> QED  BY Zenon, <2>1, <2>2, <2>3, <2>4, StateDriverInv
<1>5. CASE UNCHANGED driver_vars
  <2>1. UNCHANGED <<driver_list, driver_count, next, state, running>>
    BY <1>5 DEF driver_vars
  <2>2. DriverTypeOK' /\ InitMatchesCleanup'
    BY <2>1 DEF DriverInv, DriverTypeOK, InitMatchesCleanup
  <2>3. PICK q \in [1 .. driver_count -> Driver] : DriversListed(q)
    BY DEF DriverInv
  <2>4. DriversListed(q)'
    BY <2>1, <2>3 DEF DriversListed, Chain, Members
  <2> QED  BY <2>1, <2>2, <2>3, <2>4 DEF DriverInv
<1> QED  BY <1>1, <1>2, <1>3, <1>4, <1>5 DEF DriverNext

(***************************************************************************)
(* For every set of drivers, every naming and every MAX_DRIVERS: the list  *)
(* of driver.c ends, and holds driver_count drivers of different names,    *)
(* exactly those that are not UNLOADED, over every order of                *)
(* driver_register, driver_load, driver_unload and driver_unregister.      *)
(***************************************************************************)
THEOREM DriverListIntact == DriverSpec => []ListIntact
<1>1. DriverInv => ListIntact
  BY DriverInvListIntact
<1> QED  BY <1>1, InitDriverInv, NextDriverInv, PTL DEF DriverSpec

(***************************************************************************)
(* For the same: a driver has been initialised once more than cleaned up   *)
(* while driver.c marks it ACTIVE, and as often otherwise.                 *)
(***************************************************************************)
THEOREM InitsMatched == DriverSpec => []InitMatchesCleanup
<1>1. DriverInv => InitMatchesCleanup
  BY DEF DriverInv
<1> QED  BY <1>1, InitDriverInv, NextDriverInv, PTL DEF DriverSpec

-----------------------------------------------------------------------------
(***************************************************************************)
(* The frames.                                                             *)
(***************************************************************************)

(***************************************************************************)
(* What the second loop of pmm_init has done when it looks at region i:    *)
(* the free frames are the managed ones an earlier region clears.          *)
(***************************************************************************)
ClearedSoFar ==
    pc = "clear" =>
        /\ owned = {}
        /\ \A f \in Frames \ frame_bitmap :
              /\ f \in Managed
              /\ \E j \in 1 .. i - 1 : j <= Len(mbi.mmap)
                                       /\ Clears(mbi.mmap[j], f)

(***************************************************************************)
(* Nothing is held before pmm_init is done.                                *)
(***************************************************************************)
NoneOwnedBefore == pc # "up" => owned = {}

FramesInv == PMMTypeOK /\ OwnedMarked /\ LowReserved /\ ClearedSoFar /\ NoneOwnedBefore

(***************************************************************************)
(* The values pmm_init computes are in range.                              *)
(***************************************************************************)
LEMMA CapType == \A n \in Nat : Cap(n) \in 0 .. BITMAP_FRAMES
BY PMMAssumption DEF Cap

(***************************************************************************)
(* A remainder is a natural number.                                        *)
(***************************************************************************)
LEMMA ModNat == ASSUME NEW a \in Nat, NEW b \in Nat \ {0} PROVE a % b \in Nat
OBVIOUS

(***************************************************************************)
(* Sums and differences of 32-bit counters are 32-bit counters.            *)
(***************************************************************************)
LEMMA Wrap32 ==
    ASSUME NEW a \in 0 .. UINT32 - 1, NEW n \in 0 .. UINT32 - 1
    PROVE  Add32(a, n) \in 0 .. UINT32 - 1 /\ Sub32(a, n) \in 0 .. UINT32 - 1
BY PMMAssumption DEF Add32, Sub32

(***************************************************************************)
(* Any set of frames is finite and smaller than UINT32.                    *)
(***************************************************************************)
LEMMA FrameSets ==
    ASSUME NEW n \in 0 .. BITMAP_FRAMES, NEW S \in SUBSET (0 .. n - 1)
    PROVE  IsFiniteSet(S) /\ Cardinality(S) \in 0 .. n /\ n < UINT32
<1>1. IsFiniteSet(0 .. n - 1) /\ Cardinality(0 .. n - 1) = n
  BY FS_Interval, PMMAssumption
<1>2. IsFiniteSet(S) /\ Cardinality(S) <= Cardinality(0 .. n - 1)
  BY ZenonT(60), <1>1, FS_Subset
<1>3. Cardinality(S) \in Nat
  BY <1>2, FS_CardinalityType
<1> QED  BY <1>1, <1>2, <1>3, PMMAssumption

(***************************************************************************)
(* The information of the boot loader does not change.                     *)
(***************************************************************************)
LEMMA MapKept == [PMMNext]_pmm_vars => mbi' = mbi
BY ZenonT(60)
DEF PMMNext, pmm_vars, InitNoMap, InitMap, ScanRegion, ScanDone, ClearRegion, ReserveLow,
    AllocFrame, AllocFails, FreeFrame, MarkUsed

(***************************************************************************)
(* Before pmm_init nobody holds a frame, and the counter is right.         *)
(***************************************************************************)
LEMMA InitEstablishes == PMMInit => FramesInv /\ Accounting
<1> SUFFICES ASSUME PMMInit PROVE FramesInv /\ Accounting
  OBVIOUS
<1>0. oom \in BOOLEAN
  BY Zenon DEF PMMInit
<1>1. PMMTypeOK
  BY <1>0, PMMAssumption DEF PMMInit, PMMTypeOK
<1>2. OwnedMarked /\ LowReserved /\ ClearedSoFar /\ NoneOwnedBefore
  BY DEF PMMInit, OwnedMarked, LowReserved, ClearedSoFar, NoneOwnedBefore
<1>3. Accounting
  BY DEF PMMInit, Accounting
<1> QED  BY <1>1, <1>2, <1>3 DEF FramesInv

(***************************************************************************)
(* Every step of pmm.c preserves the inductive invariant.                  *)
(***************************************************************************)
LEMMA NextPreserves == FramesInv /\ [PMMNext]_pmm_vars => FramesInv'
<1> SUFFICES ASSUME FramesInv, [PMMNext]_pmm_vars PROVE FramesInv'
  OBVIOUS
<1>0. PMMTypeOK /\ OwnedMarked /\ LowReserved /\ ClearedSoFar /\ NoneOwnedBefore
  BY Zenon DEF FramesInv
<1>len. Len(mbi.mmap) \in Nat
  BY <1>0, PMMAssumption DEF PMMTypeOK, BootInfo
<1>1. CASE InitNoMap
  <2>1. (mbi.mem_upper + LOW_KB) % UINT32 \in Nat
    BY <1>0, PMMAssumption DEF PMMTypeOK, BootInfo
  <2>2. ((mbi.mem_upper + LOW_KB) % UINT32) \div PAGE_KB \in Nat
    BY <2>1, PMMAssumption
  <2>3. total_frames' \in 0 .. BITMAP_FRAMES
    BY <1>1, <2>2, CapType DEF InitNoMap
  <2>4. PMMTypeOK'
    BY <1>0, <1>1, <2>3, PMMAssumption DEF InitNoMap, PMMTypeOK, NoneOwnedBefore, Managed
  <2>inv. (OwnedMarked /\ LowReserved /\ ClearedSoFar /\ NoneOwnedBefore)'
    BY <1>0, <1>1, PMMAssumption
    DEF InitNoMap, OwnedMarked, LowReserved, ClearedSoFar, NoneOwnedBefore,
        Low, Frames
  <2> QED  BY Zenon, <2>4, <2>inv DEF FramesInv
<1>2. CASE InitMap
  BY <1>0, <1>2
  DEF InitMap, FramesInv, PMMTypeOK, OwnedMarked, LowReserved, ClearedSoFar, NoneOwnedBefore,
      Managed
<1>3. CASE ScanRegion
  <2>1. (mbi.mmap[i].addr + mbi.mmap[i].len) % UINT32 \in Nat
    <3>1. i \in 1 .. Len(mbi.mmap) /\ mbi.mmap \in Seq(Region)
      BY <1>0, <1>3, <1>len, PMMAssumption DEF ScanRegion, PMMTypeOK, BootInfo
    <3>2. mbi.mmap[i] \in Region
      BY <3>1
    <3>3. mbi.mmap[i].addr + mbi.mmap[i].len \in Nat
      BY <3>2 DEF Region
    <3> QED  BY <3>3, ModNat, PMMAssumption
  <2> QED
    BY <1>0, <1>3, <2>1
    DEF ScanRegion, FramesInv, PMMTypeOK, OwnedMarked, LowReserved, ClearedSoFar,
        NoneOwnedBefore, Managed
<1>4. CASE ScanDone
  <2>1. mem_end \div PAGE_SIZE \in Nat
    BY <1>0, PMMAssumption DEF PMMTypeOK
  <2>2. total_frames' \in 0 .. BITMAP_FRAMES
    BY <1>4, <2>1, CapType DEF ScanDone
  <2>3. PMMTypeOK'
    BY <1>0, <1>4, <2>2, PMMAssumption DEF ScanDone, PMMTypeOK, NoneOwnedBefore, Managed
  <2>inv. (OwnedMarked /\ LowReserved /\ ClearedSoFar /\ NoneOwnedBefore)'
    BY <1>0, <1>4
    DEF ScanDone, OwnedMarked, LowReserved, ClearedSoFar, NoneOwnedBefore
  <2> QED  BY Zenon, <2>3, <2>inv DEF FramesInv
<1>5. CASE ClearRegion
  <2> DEFINE cleared == {f \in Managed : Clears(mbi.mmap[i], f)}
  <2>1. Cardinality(cleared) \in 0 .. UINT32 - 1
    BY <1>0, FrameSets, PMMAssumption DEF PMMTypeOK, Managed
  <2>2. used_frames' \in 0 .. UINT32 - 1
    BY <1>0, <1>5, <2>1, Wrap32 DEF ClearRegion, PMMTypeOK
  <2>3. PMMTypeOK'
    BY <1>0, <1>5, <2>2 DEF ClearRegion, PMMTypeOK, Managed
  <2>4. ClearedSoFar'
    <3>a. /\ owned = {} /\ owned' = owned /\ mbi' = mbi /\ i' = i + 1
          /\ total_frames' = total_frames /\ i \in Nat \ {0}
      BY <1>0, <1>5 DEF ClearRegion, ClearedSoFar, PMMTypeOK
    <3>b. Managed' = Managed /\ 1 .. i' - 1 = 1 .. i
      BY <3>a DEF Managed
    <3> SUFFICES ASSUME NEW f \in Frames, f \notin frame_bitmap'
                 PROVE  /\ f \in Managed
                        /\ \E j \in 1 .. i : j <= Len(mbi.mmap)
                                             /\ Clears(mbi.mmap[j], f)
      BY <1>0, <3>a, <3>b, ZenonT(60) DEF ClearedSoFar
    <3>1. CASE f \in cleared
      BY <1>0, <1>5, <3>1, <1>len DEF ClearRegion, PMMTypeOK
    <3>2. CASE f \notin frame_bitmap
      BY <1>0, <1>5, <3>2 DEF ClearRegion, ClearedSoFar, PMMTypeOK
    <3> QED  BY <1>5, <3>1, <3>2 DEF ClearRegion
  <2>inv. (OwnedMarked /\ LowReserved /\ ClearedSoFar /\ NoneOwnedBefore)'
    BY <1>0, <1>5, <2>4
    DEF ClearRegion, OwnedMarked, LowReserved, NoneOwnedBefore
  <2> QED  BY Zenon, <2>3, <2>inv DEF FramesInv
<1>6. CASE ReserveLow
  <2>1. Low \ frame_bitmap \in SUBSET (0 .. RESERVED - 1)
    BY DEF Low
  <2>2. Cardinality(Low \ frame_bitmap) \in 0 .. UINT32 - 1
    BY <2>1, FrameSets, PMMAssumption
  <2>3. used_frames' \in 0 .. UINT32 - 1
    BY <1>0, <1>6, <2>2, Wrap32 DEF ReserveLow, PMMTypeOK
  <2>4. Low \subseteq Frames
    BY PMMAssumption DEF Low, Frames
  <2>5. PMMTypeOK'
    BY <1>0, <1>6, <2>3, <2>4 DEF ReserveLow, PMMTypeOK, Managed
  <2>inv. (OwnedMarked /\ LowReserved /\ ClearedSoFar /\ NoneOwnedBefore)'
    BY <1>0, <1>6
    DEF ReserveLow, OwnedMarked, LowReserved, ClearedSoFar, NoneOwnedBefore, Low
  <2> QED  BY Zenon, <2>5, <2>inv DEF FramesInv
<1>7. CASE AllocFrame
  <2>1. used_frames' \in 0 .. UINT32 - 1
    BY <1>0, <1>7, Wrap32, PMMAssumption DEF AllocFrame, PMMTypeOK
  <2>2. PICK f \in Candidates :
           /\ frame_bitmap' = frame_bitmap \cup {f}
           /\ owned' = IF f = 0 THEN owned ELSE owned \cup {f}
    BY <1>7 DEF AllocFrame
  <2>3. f \in Managed /\ f \in Frames /\ f \notin frame_bitmap
    BY <1>0, <2>2, PMMAssumption DEF Candidates, Managed, Frames, PMMTypeOK
  <2>4. PMMTypeOK'
    BY ZenonT(60), <1>0, <1>7, <2>1, <2>2, <2>3 DEF AllocFrame, PMMTypeOK, Managed
  <2>inv. (OwnedMarked /\ LowReserved /\ ClearedSoFar /\ NoneOwnedBefore)'
    BY <1>0, <1>7, <2>2, <2>3
    DEF AllocFrame, OwnedMarked, LowReserved, ClearedSoFar, NoneOwnedBefore, Low
  <2> QED  BY Zenon, <2>4, <2>inv DEF FramesInv
<1>8. CASE AllocFails
  BY <1>0, <1>8
  DEF AllocFails, FramesInv, PMMTypeOK, OwnedMarked, LowReserved, ClearedSoFar, NoneOwnedBefore,
      Managed
<1>9. ASSUME NEW f \in 0 .. BITMAP_FRAMES, FreeFrame(f)
      PROVE  FramesInv'
  <2>0. Sub32(used_frames, 1) \in 0 .. UINT32 - 1
    BY <1>0, Wrap32, PMMAssumption DEF PMMTypeOK
  <2>1. used_frames' \in 0 .. UINT32 - 1
    BY <1>0, <1>9, <2>0 DEF FreeFrame, PMMTypeOK
  <2>2. PMMTypeOK'
    BY ZenonT(60), <1>0, <1>9, <2>1 DEF FreeFrame, PMMTypeOK, Managed
  <2>inv. (OwnedMarked /\ LowReserved /\ ClearedSoFar /\ NoneOwnedBefore)'
    BY <1>0, <1>9
    DEF FreeFrame, OwnedMarked, LowReserved, ClearedSoFar, NoneOwnedBefore,
        Low, PMMTypeOK, Managed
  <2> QED  BY Zenon, <2>2, <2>inv DEF FramesInv
<1>10. ASSUME NEW f \in 0 .. BITMAP_FRAMES, MarkUsed(f)
       PROVE  FramesInv'
  <2>0. Add32(used_frames, 1) \in 0 .. UINT32 - 1
    BY <1>0, Wrap32, PMMAssumption DEF PMMTypeOK
  <2>1. used_frames' \in 0 .. UINT32 - 1
    BY <1>0, <1>10, <2>0 DEF MarkUsed, PMMTypeOK
  <2>2. f < total_frames => f \in Managed /\ f \in Frames
    BY <1>0, PMMAssumption DEF PMMTypeOK, Managed, Frames
  <2>3. PMMTypeOK'
    BY ZenonT(60), <1>0, <1>10, <2>1, <2>2 DEF MarkUsed, PMMTypeOK, Managed
  <2>inv. (OwnedMarked /\ LowReserved /\ ClearedSoFar /\ NoneOwnedBefore)'
    BY <1>0, <1>10, <2>2
    DEF MarkUsed, OwnedMarked, LowReserved, ClearedSoFar, NoneOwnedBefore, Low
  <2> QED  BY Zenon, <2>3, <2>inv DEF FramesInv
<1>11. CASE UNCHANGED pmm_vars
  BY <1>0, <1>11
  DEF pmm_vars, FramesInv, PMMTypeOK, OwnedMarked, LowReserved, ClearedSoFar, NoneOwnedBefore,
      Managed
<1> QED
  BY Zenon, <1>1, <1>2, <1>3, <1>4, <1>5, <1>6, <1>7, <1>8, <1>9, <1>10, <1>11 DEF PMMNext

(***************************************************************************)
(* Every step keeps the counter equal to the number of marked frames, for  *)
(* a map without aliasing.                                                 *)
(***************************************************************************)
LEMMA NextAccounting ==
    FramesInv /\ Accounting /\ NoAlias(mbi) /\ [PMMNext]_pmm_vars => Accounting'
<1> SUFFICES ASSUME FramesInv, Accounting, NoAlias(mbi), [PMMNext]_pmm_vars
             PROVE  Accounting'
  OBVIOUS
<1> DEFINE used == frame_bitmap \cap Managed
<1>ty. /\ mbi \in BootInfos /\ i \in Nat \ {0} /\ frame_bitmap \subseteq Frames
       /\ total_frames \in 0 .. BITMAP_FRAMES /\ total_frames' \in 0 .. BITMAP_FRAMES
  BY Zenon, NextPreserves DEF FramesInv, PMMTypeOK
<1>cl. ClearedSoFar
  BY Zenon DEF FramesInv
<1>used. IsFiniteSet(used) /\ Cardinality(used) \in 0 .. total_frames
         /\ total_frames < UINT32 /\ total_frames \in Nat /\ UINT32 \in Nat
  BY <1>ty, FrameSets, PMMAssumption DEF Managed
<1>all. ASSUME total_frames' \in 0 .. BITMAP_FRAMES, frame_bitmap' = Frames
        PROVE  Cardinality(frame_bitmap' \cap Managed') = total_frames'
  <2>1. frame_bitmap' \cap Managed' = 0 .. total_frames' - 1
    BY <1>all, PMMAssumption DEF Frames, Managed
  <2>2. total_frames' \in Nat
    BY <1>all
  <2>3. Cardinality(0 .. total_frames' - 1) = total_frames'
    BY <2>2, FS_Interval
  <2> QED  BY ZenonT(60), <2>1, <2>3
<1>1. CASE InitNoMap
  BY <1>1, <1>ty, <1>all DEF InitNoMap, Accounting
<1>2. CASE InitMap
  BY <1>2 DEF InitMap, Accounting
<1>3. CASE ScanRegion
  BY <1>3 DEF ScanRegion, Accounting
<1>4. CASE ScanDone
  BY <1>4, <1>ty, <1>all DEF ScanDone, Accounting
<1>5. CASE ClearRegion
  <2> DEFINE cleared == {f \in Managed : Clears(mbi.mmap[i], f)}
  <2>1. cleared \subseteq used
    <3> SUFFICES ASSUME NEW f \in cleared, f \notin frame_bitmap PROVE FALSE
      OBVIOUS
    <3>1. f \in Frames
      BY <1>ty, PMMAssumption DEF Managed, Frames
    <3>2. PICK j \in 1 .. i - 1 : j <= Len(mbi.mmap) /\ Clears(mbi.mmap[j], f)
      BY <1>5, <1>cl, <3>1 DEF ClearRegion, ClearedSoFar
    <3>3. i \in 1 .. Len(mbi.mmap) /\ j \in 1 .. Len(mbi.mmap)
      BY <1>5, <1>ty, <3>2, PMMAssumption DEF ClearRegion, BootInfo
    <3>4. j = i
      BY <3>1, <3>2, <3>3 DEF NoAlias
    <3> QED  BY <3>2, <3>3, <3>4
  <2>2. frame_bitmap' \cap Managed' = used \ cleared /\ used \cap cleared = cleared
    BY <1>5, <2>1 DEF ClearRegion, Managed
  <2>3. Cardinality(used \ cleared) = Cardinality(used) - Cardinality(cleared)
    BY ZenonT(60), <1>used, <2>2, FS_Difference
  <2>4. Cardinality(cleared) \in Nat /\ Cardinality(cleared) <= Cardinality(used)
    BY <1>used, <2>1, FS_Subset, FS_CardinalityType
  <2>5. used_frames' = Cardinality(used) - Cardinality(cleared)
    BY Zenon, <1>5, <1>used, <2>4 DEF ClearRegion, Accounting, Sub32
  <2> QED  BY ZenonT(60), <1>5, <2>2, <2>3, <2>5 DEF ClearRegion, Accounting
<1>6. CASE ReserveLow
  <2> DEFINE new == Low \ frame_bitmap
  <2>1. new \subseteq Managed
    <3>1. new \subseteq Frames \ frame_bitmap
      BY PMMAssumption DEF Low, Frames
    <3>2. Frames \ frame_bitmap \subseteq Managed
      BY Zenon, <1>6, <1>cl DEF ReserveLow, ClearedSoFar
    <3> QED  BY Zenon, <3>1, <3>2
  <2>2. frame_bitmap' \cap Managed' = used \cup new /\ used \cap new = {}
    BY <1>6, <2>1 DEF ReserveLow, Managed
  <2>3. IsFiniteSet(new) /\ Cardinality(new) \in Nat
    BY <1>ty, <2>1, FrameSets DEF Managed
  <2>4. Cardinality(used \cup new) = Cardinality(used) + Cardinality(new)
    <3>1. Cardinality(used \cap new) = 0
      BY <2>2, FS_EmptySet
    <3>2. Cardinality(used \cup new)
             = Cardinality(used) + Cardinality(new) - Cardinality(used \cap new)
      BY <1>used, <2>3, FS_Union
    <3> QED  BY <1>used, <2>3, <3>1, <3>2
  <2>5. used \cup new \in SUBSET Managed
    BY <2>1
  <2>6. Cardinality(used \cup new) <= total_frames
    BY <1>ty, <2>5, FrameSets DEF Managed
  <2>7. used_frames' = Cardinality(used) + Cardinality(new)
    BY <1>6, <1>used, <2>3, <2>4, <2>6 DEF ReserveLow, Accounting, Add32
  <2> QED  BY ZenonT(60), <1>6, <2>2, <2>4, <2>7 DEF ReserveLow, Accounting
<1>add. ASSUME NEW f \in Managed, f \notin frame_bitmap, pc = "up", pc' = "up",
               frame_bitmap' = frame_bitmap \cup {f},
               total_frames' = total_frames, mbi' = mbi,
               used_frames' = Add32(used_frames, 1)
        PROVE  Accounting'
  <2>1. frame_bitmap' \cap Managed' = used \cup {f} /\ f \notin used
    BY <1>add DEF Managed
  <2>2. Cardinality(used \cup {f}) = Cardinality(used) + 1
    BY ZenonT(60), <1>used, <2>1, FS_AddElement
  <2>3. used \cup {f} \in SUBSET Managed
    BY <1>add
  <2>4. Cardinality(used \cup {f}) <= total_frames
    BY <1>ty, <2>3, FrameSets DEF Managed
  <2>5. used_frames' = Cardinality(used) + 1
    BY <1>add, <1>used, <2>2, <2>4 DEF Accounting, Add32
  <2> QED  BY <1>add, <2>1, <2>2, <2>5 DEF Accounting
<1>same. ASSUME pc' = pc, frame_bitmap' = frame_bitmap, mbi' = mbi,
                total_frames' = total_frames, used_frames' = used_frames
         PROVE  Accounting'
  BY <1>same DEF Accounting, Managed
<1>7. CASE AllocFrame
  <2>1. PICK f \in Candidates : frame_bitmap' = frame_bitmap \cup {f}
    BY <1>7 DEF AllocFrame
  <2>2. f \in Managed /\ f \notin frame_bitmap
    BY <1>ty, <2>1 DEF Candidates, Managed
  <2> QED  BY <1>7, <1>add, <2>1, <2>2 DEF AllocFrame
<1>8. CASE AllocFails
  BY <1>8, <1>same DEF AllocFails
<1>9. ASSUME NEW f \in 0 .. BITMAP_FRAMES, FreeFrame(f)
      PROVE  Accounting'
  <2>1. CASE f < total_frames /\ f \in frame_bitmap
    <3>1. f \in used
      BY <1>ty, <2>1 DEF Managed
    <3>2. frame_bitmap' \cap Managed' = used \ {f}
      BY <1>9, <2>1 DEF FreeFrame, Managed
    <3>3. Cardinality(used \ {f}) = Cardinality(used) - 1
      BY ZenonT(60), <1>used, <3>1, FS_RemoveElement
    <3>4. Cardinality(used \ {f}) \in Nat
      BY ZenonT(60), <1>used, FS_RemoveElement, FS_CardinalityType
    <3>5. used_frames' = Cardinality(used) - 1
      BY <1>9, <1>used, <2>1, <3>3, <3>4 DEF FreeFrame, Accounting, Sub32
    <3> QED  BY <1>9, <3>2, <3>3, <3>5 DEF FreeFrame, Accounting
  <2>2. CASE ~(f < total_frames /\ f \in frame_bitmap)
    BY <1>9, <2>2, <1>same DEF FreeFrame
  <2> QED  BY <2>1, <2>2
<1>10. ASSUME NEW f \in 0 .. BITMAP_FRAMES, MarkUsed(f)
       PROVE  Accounting'
  <2>1. CASE f < total_frames /\ f \notin frame_bitmap
    <3>1. f \in Managed
      BY <1>ty, <2>1 DEF Managed
    <3> QED  BY <1>10, <2>1, <3>1, <1>add DEF MarkUsed
  <2>2. CASE ~(f < total_frames /\ f \notin frame_bitmap)
    BY <1>10, <2>2, <1>same DEF MarkUsed
  <2> QED  BY <2>1, <2>2
<1>11. CASE UNCHANGED pmm_vars
  BY <1>11, <1>same DEF pmm_vars
<1> QED
  BY Zenon, <1>1, <1>2, <1>3, <1>4, <1>5, <1>6, <1>7, <1>8, <1>9, <1>10, <1>11 DEF PMMNext

-----------------------------------------------------------------------------
(***************************************************************************)
(* The counters of pmm.c are always in range, whatever map the boot loader *)
(* passes.                                                                 *)
(***************************************************************************)
THEOREM FrameTypes == PMMSpec => []PMMTypeOK
<1>1. FramesInv => PMMTypeOK
  BY DEF FramesInv
<1> QED  BY <1>1, InitEstablishes, NextPreserves, PTL DEF PMMSpec

(***************************************************************************)
(* A frame a caller holds is never handed out again by pmm_alloc_frame.    *)
(***************************************************************************)
THEOREM HeldFramesAreMarked == PMMSpec => []OwnedMarked
<1>1. FramesInv => OwnedMarked
  BY DEF FramesInv
<1> QED  BY <1>1, InitEstablishes, NextPreserves, PTL DEF PMMSpec

(***************************************************************************)
(* The first megabyte stays out of pmm_alloc_frame's hands.                *)
(***************************************************************************)
THEOREM FirstMegabyteReserved == PMMSpec => []LowReserved
<1>1. FramesInv => LowReserved
  BY DEF FramesInv
<1> QED  BY <1>1, InitEstablishes, NextPreserves, PTL DEF PMMSpec

(***************************************************************************)
(* For a map without aliasing the used_frames counter is exact after       *)
(* pmm_init and after every later call.                                    *)
(***************************************************************************)
THEOREM CounterIsExact == PMMSpec => []Accounting
<1>1. FramesInv /\ Accounting /\ [PMMNext]_pmm_vars => Accounting'
  <2>1. [PMMNext]_pmm_vars => mbi' = mbi
    BY MapKept
  <2>2. CASE NoAlias(mbi)
    BY <2>2, NextAccounting
  <2>3. ASSUME ~NoAlias(mbi), mbi' = mbi PROVE Accounting'
    BY <2>3 DEF Accounting
  <2> QED  BY Zenon, <2>1, <2>2, <2>3
<1> QED  BY <1>1, InitEstablishes, NextPreserves, PTL DEF PMMSpec

-----------------------------------------------------------------------------
(***************************************************************************)
(* The roundings of the second loop of pmm_init: the first whole frame and *)
(* the frame after the last whole one.                                     *)
(***************************************************************************)
LEMMA WholeFrames ==
    ASSUME NEW p \in Nat \ {0}, NEW a \in Nat, NEW e \in Nat, NEW f \in Nat,
           (a + p - 1) \div p <= f, f < e \div p
    PROVE  a <= f * p /\ (f + 1) * p <= e
<1> DEFINE s == (a + p - 1) \div p
           t == e \div p
<1>1. /\ s \in Nat /\ a + p - 1 <= s * p + (p - 1)
      /\ t \in Nat /\ t * p <= e
  OBVIOUS
<1> HIDE DEF s, t
<1>2. s <= f /\ f + 1 <= t
  BY <1>1 DEF s, t
<1>3. PICK c \in Nat, d \in Nat : f = s + c /\ t = f + 1 + d
  BY <1>1, <1>2
<1>4. f * p = s * p + c * p /\ t * p = (f + 1) * p + d * p
  BY <1>1, <1>3
<1>5. c * p >= 0 /\ d * p >= 0
  OBVIOUS
<1> QED  BY <1>1, <1>4, <1>5

(***************************************************************************)
(* A frame that a region below 4 GB clears lies inside it.                 *)
(***************************************************************************)
LEMMA ClearsOnlyRam ==
    ASSUME NEW r \in Region, NEW f \in Frames, Clears(r, f), Below4GB(r)
    PROVE  /\ r.available /\ r.addr <= f * PAGE_SIZE
           /\ (f + 1) * PAGE_SIZE <= r.addr + r.len
<1>1. /\ UINT32 \in Nat /\ PAGE_SIZE \in Nat \ {0} /\ f \in Nat
      /\ r.addr \in Nat /\ r.len \in Nat
      /\ r.addr + r.len <= UINT32 /\ r.addr + PAGE_SIZE <= UINT32
  BY PMMAssumption DEF Frames, Region, Below4GB
<1>2. UINT32 \in Nat \ {0} /\ \A x \in Nat : x < UINT32 => x % UINT32 = x
  BY <1>1
<1>3. r.addr % UINT32 = r.addr /\ (r.addr + PAGE_SIZE - 1) % UINT32 = r.addr + PAGE_SIZE - 1
  BY <1>1, <1>2
<1>4. /\ r.available
      /\ (r.addr + PAGE_SIZE - 1) \div PAGE_SIZE <= f
      /\ f < ((r.addr + (r.len % UINT32)) % UINT32) \div PAGE_SIZE
  BY <1>3 DEF Clears
<1>5. 0 % UINT32 = 0 /\ UINT32 % UINT32 = 0 /\ 0 \div PAGE_SIZE = 0
  BY <1>1, <1>2
<1>6. r.len < UINT32
  <2> SUFFICES ASSUME r.len = UINT32 PROVE FALSE
    BY <1>1
  <2>1. r.addr + (r.len % UINT32) = 0
    BY <1>1, <1>5
  <2> QED  BY <1>1, <1>4, <1>5, <2>1
<1>7. r.len % UINT32 = r.len
  BY <1>1, <1>2, <1>6
<1>8. r.addr + r.len < UINT32
  <2> SUFFICES ASSUME r.addr + r.len = UINT32 PROVE FALSE
    BY <1>1
  <2> QED  BY <1>1, <1>4, <1>5, <1>7
<1>9. (r.addr + r.len) % UINT32 = r.addr + r.len
  BY <1>1, <1>2, <1>8
<1>10. f < (r.addr + r.len) \div PAGE_SIZE
  BY <1>4, <1>7, <1>9
<1>11. r.addr + r.len \in Nat
  BY <1>1
<1>12. r.addr <= f * PAGE_SIZE /\ (f + 1) * PAGE_SIZE <= r.addr + r.len
  BY Zenon, <1>1, <1>4, <1>10, <1>11, WholeFrames
<1> QED  BY <1>4, <1>12

(***************************************************************************)
(* Every step of pmm_init and every call keeps the free frames in RAM.     *)
(***************************************************************************)
LEMMA NextFreeIsRam ==
    ASSUME FramesInv, FreeIsRam, [PMMNext]_pmm_vars PROVE FreeIsRam'
<1>1. mbi' = mbi
  BY MapKept
<1> SUFFICES ASSUME \A j \in DOMAIN mbi.mmap : Below4GB(mbi.mmap[j]),
                    NEW f \in owned' \cup (Frames \ frame_bitmap')
             PROVE  pc' = "init" \/ InRam(f)
  BY <1>1 DEF FreeIsRam, InRam
<1>2. PMMTypeOK /\ NoneOwnedBefore
  BY DEF FramesInv
<1>3. f \in owned \cup (Frames \ frame_bitmap) => pc = "init" \/ InRam(f)
  BY DEF FreeIsRam
<1>4. pc = "init" => owned = {}
  BY <1>2 DEF NoneOwnedBefore
<1>5. CASE InitNoMap \/ InitMap
  <2>1. pc = "init" /\ owned' = owned /\ frame_bitmap' = Frames
    BY <1>5 DEF InitNoMap, InitMap
  <2> QED  BY <1>4, <2>1
<1>6. CASE ScanRegion \/ AllocFails \/ UNCHANGED pmm_vars
  <2>1. UNCHANGED <<pc, owned, frame_bitmap>>
    BY <1>6 DEF ScanRegion, AllocFails, pmm_vars
  <2> QED  BY <1>3, <2>1
<1>7. CASE ScanDone
  <2>1. pc # "up" /\ owned' = owned /\ frame_bitmap' = Frames
    BY <1>7 DEF ScanDone
  <2> QED  BY <1>2, <2>1 DEF NoneOwnedBefore
<1>8. CASE ClearRegion
  <2>1. /\ pc = "clear" /\ owned' = owned /\ i <= Len(mbi.mmap)
        /\ frame_bitmap' =
              frame_bitmap \ {g \in Managed : Clears(mbi.mmap[i], g)}
    BY Zenon, <1>8 DEF ClearRegion
  <2>2. CASE f \in owned \cup (Frames \ frame_bitmap)
    BY Zenon, <1>3, <2>1, <2>2
  <2>3. CASE f \notin owned \cup (Frames \ frame_bitmap)
    <3>1. f \in Frames /\ Clears(mbi.mmap[i], f)
      BY <2>1, <2>3
    <3>2. mbi.mmap \in Seq(Region) /\ i \in DOMAIN mbi.mmap
      BY <1>2, <2>1, PMMAssumption DEF PMMTypeOK, BootInfo
    <3>3. mbi.mmap[i] \in Region
      BY <3>2
    <3> QED  BY <3>1, <3>2, <3>3, ClearsOnlyRam DEF InRam
  <2> QED  BY Zenon, <2>2, <2>3
<1>9. CASE ReserveLow
  <2>1. /\ pc = "clear" /\ owned' = owned
        /\ frame_bitmap' = frame_bitmap \cup Low
    BY <1>9 DEF ReserveLow
  <2> QED  BY <1>3, <2>1
<1>10. CASE AllocFrame
  <2>1. /\ pc = "up"
        /\ \E g \in Candidates :
              /\ frame_bitmap' = frame_bitmap \cup {g}
              /\ owned' = owned \/ owned' = owned \cup {g}
    BY <1>10 DEF AllocFrame
  <2>2. Candidates \subseteq Frames \ frame_bitmap
    BY <1>2, PMMAssumption DEF Candidates, PMMTypeOK, Frames
  <2>3. f \in owned \cup (Frames \ frame_bitmap)
    BY <2>1, <2>2
  <2> QED  BY <1>3, <2>1, <2>3
<1>11. ASSUME NEW g \in 0 .. BITMAP_FRAMES, FreeFrame(g)
       PROVE  InRam(f)
  <2>1. /\ pc = "up" /\ owned' = owned \ {g}
        /\ \/ frame_bitmap' = frame_bitmap
           \/ g \in owned /\ frame_bitmap' = frame_bitmap \ {g}
    BY <1>2, <1>11, PMMAssumption DEF FreeFrame, PMMTypeOK
  <2>2. f \in owned \cup (Frames \ frame_bitmap)
    BY <2>1
  <2> QED  BY <1>3, <2>1, <2>2
<1>12. ASSUME NEW g \in 0 .. BITMAP_FRAMES, MarkUsed(g)
       PROVE  InRam(f)
  <2>1. /\ pc = "up"
        /\ \/ UNCHANGED <<frame_bitmap, owned>>
           \/ /\ g < total_frames /\ g \notin frame_bitmap
              /\ frame_bitmap' = frame_bitmap \cup {g}
              /\ owned' = owned \cup {g}
    BY <1>12 DEF MarkUsed
  <2>2. g < total_frames => g \in Frames
    BY <1>2, PMMAssumption DEF PMMTypeOK, Frames
  <2>3. f \in owned \cup (Frames \ frame_bitmap)
    BY <2>1, <2>2
  <2> QED  BY <1>3, <2>1, <2>3
<1> QED
  BY Zenon, <1>5, <1>6, <1>7, <1>8, <1>9, <1>10, <1>11, <1>12 DEF PMMNext

(***************************************************************************)
(* For a map whose regions end by 4 GB, none of them starting in the last  *)
(* page before it, every frame that is free or held lies wholly inside a   *)
(* region reported as available.                                           *)
(***************************************************************************)
THEOREM OnlyRamIsFree == PMMSpec => []FreeIsRam
<1>1. PMMInit => FreeIsRam
  BY DEF PMMInit, FreeIsRam
<1>2. FramesInv /\ FreeIsRam /\ [PMMNext]_pmm_vars => FreeIsRam'
  BY NextFreeIsRam
<1> QED  BY <1>1, <1>2, InitEstablishes, NextPreserves, PTL DEF PMMSpec

(***************************************************************************)
(* After a failed pmm_alloc_frame, no whole byte of the bitmap has a 0.    *)
(***************************************************************************)
NoneSeen == oom => pc = "up" /\ Candidates = {}

(***************************************************************************)
(* After a failed pmm_alloc_frame there is no frame it could find until    *)
(* one is freed.                                                           *)
(***************************************************************************)
LEMMA NextNoneSeen == NoneSeen /\ [PMMNext]_pmm_vars => NoneSeen'
<1> SUFFICES ASSUME NoneSeen, [PMMNext]_pmm_vars PROVE NoneSeen'
  OBVIOUS
<1>1. CASE InitNoMap \/ InitMap \/ ScanRegion \/ ScanDone \/ ClearRegion
           \/ ReserveLow
  <2>1. pc # "up" /\ oom' = oom
    BY Zenon, <1>1
    DEF InitNoMap, InitMap, ScanRegion, ScanDone, ClearRegion, ReserveLow
  <2> QED  BY Zenon, <2>1 DEF NoneSeen
<1>2. CASE AllocFrame \/ \E f \in 0 .. BITMAP_FRAMES : FreeFrame(f) \/ MarkUsed(f)
  <2>1. ~oom'
    BY <1>2 DEF AllocFrame, FreeFrame, MarkUsed
  <2> QED  BY Zenon, <2>1 DEF NoneSeen
<1>3. CASE AllocFails
  BY <1>3 DEF AllocFails, NoneSeen, Candidates
<1>4. CASE UNCHANGED pmm_vars
  BY <1>4 DEF pmm_vars, NoneSeen, Candidates
<1> QED  BY <1>1, <1>2, <1>3, <1>4 DEF PMMNext

(***************************************************************************)
(* For every number of frames, exhaustion hides at most the frames of the  *)
(* last, incomplete byte.                                                  *)
(***************************************************************************)
THEOREM ExhaustionHidesTail == PMMSpec => []OutOfMemoryLosesOnlyTail
<1>1. FramesInv /\ NoneSeen => OutOfMemoryLosesOnlyTail
  <2> SUFFICES ASSUME PMMTypeOK, Candidates = {}
               PROVE  Cardinality(Managed \ frame_bitmap) <= total_frames % 8
    BY DEF FramesInv, NoneSeen, OutOfMemoryLosesOnlyTail
  <2> DEFINE n == total_frames
             m == 8 * (n \div 8)
  <2>1. n \in Nat /\ m \in Nat /\ m <= n /\ n - m = n % 8
    BY PMMAssumption DEF PMMTypeOK
  <2>2. Managed \ frame_bitmap \subseteq m .. n - 1
    <3> SUFFICES ASSUME NEW f \in Managed, f \notin frame_bitmap
                 PROVE  f \in m .. n - 1
      OBVIOUS
    <3>1. f \notin 0 .. m - 1
      BY DEF Candidates
    <3> HIDE DEF m
    <3> QED  BY <2>1, <3>1 DEF Managed
  <2> HIDE DEF m
  <2>3. IsFiniteSet(m .. n - 1) /\ Cardinality(m .. n - 1) = n - m
    <3>1. m \in Int /\ n - 1 \in Int
      BY <2>1
    <3>2. /\ IsFiniteSet(m .. n - 1)
          /\ Cardinality(m .. n - 1) =
                IF m > n - 1 THEN 0 ELSE (n - 1) - m + 1
      BY ZenonT(60), <3>1, FS_Interval
    <3> QED  BY <2>1, <3>2
  <2>4. Cardinality(Managed \ frame_bitmap) <= Cardinality(m .. n - 1)
    BY ZenonT(60), <2>2, <2>3, FS_Subset
  <2> QED  BY <2>1, <2>3, <2>4
<1>2. PMMInit => NoneSeen
  BY DEF PMMInit, NoneSeen
<1> QED
  BY <1>1, <1>2, InitEstablishes, NextPreserves, NextNoneSeen, PTL DEF PMMSpec
=============================================================================
