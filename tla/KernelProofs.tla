---------------------------- MODULE KernelProofs ----------------------------
(***************************************************************************)
(* The safety properties of the kernel's thread, its boot and its          *)
(* interrupts, for every set of lines and faults, every size of the ring   *)
(* buffer and of a word, every frequency and duration: first what the      *)
(* steps of the keyboard's and of the timer's code preserve, then the      *)
(* boot, then the steps of the whole kernel.                               *)
(***************************************************************************)
EXTENDS Kernel, TLAPS

-----------------------------------------------------------------------------
(***************************************************************************)
(* The keyboard's ring buffer, for every size of the buffer and every      *)
(* number of keys.                                                         *)
(***************************************************************************)

(***************************************************************************)
(* Remainders: a number is the divisor times its quotient plus its         *)
(* remainder, which is determined by that.                                 *)
(***************************************************************************)

(***************************************************************************)
(* Division with remainder.                                                *)
(***************************************************************************)
LEMMA DivMod ==
    ASSUME NEW n \in Nat \ {0}, NEW a \in Nat
    PROVE  /\ a \div n \in Nat /\ a % n \in 0 .. n - 1
           /\ a = n * (a \div n) + (a % n)
  OBVIOUS

(***************************************************************************)
(* A remainder is an index of the ring.                                    *)
(***************************************************************************)
LEMMA ModInSlot ==
    ASSUME NEW a \in Nat PROVE a % KB_BUFFER_SIZE \in Slot
  <1>1. KB_BUFFER_SIZE \in Nat \ {0}
    BY KeyboardAssumption
  <1> QED
    BY <1>1, DivMod DEF Slot

(***************************************************************************)
(* The remainder of a number that is given as a multiple and a rest.       *)
(***************************************************************************)
LEMMA ModUnique ==
    ASSUME NEW n \in Nat \ {0}, NEW q \in Nat, NEW r \in 0 .. n - 1
    PROVE  (n * q + r) % n = r
  <1> DEFINE a == n * q + r
             p == a \div n
             s == a % n
  <1>1. a \in Nat
    OBVIOUS
  <1>2. p \in Nat /\ s \in 0 .. n - 1 /\ n * q + r = n * p + s
    BY ZenonT(60), <1>1, DivMod
  <1> HIDE DEF p, s
  <1>3. p = q
    <2>1. CASE p > q
      <3>1. PICK d \in Nat : p = q + 1 + d
        BY <2>1, <1>2
      <3>2. n * p = n * q + n + n * d /\ n * d >= 0
        BY <3>1
      <3> QED
        BY <3>2, <1>2
    <2>2. CASE q > p
      <3>1. PICK d \in Nat : q = p + 1 + d
        BY <2>2, <1>2
      <3>2. n * q = n * p + n + n * d /\ n * d >= 0
        BY <3>1, <1>2
      <3> QED
        BY <3>2, <1>2
    <2> QED
      BY <2>1, <2>2, <1>2
  <1>4. s = r
    BY <1>2, <1>3
  <1> QED
    BY <1>4 DEF s

(***************************************************************************)
(* After, which advances an index of the ring, counts modulo its size.     *)
(***************************************************************************)
LEMMA NextMod ==
    ASSUME NEW n \in Nat \ {0}, NEW a \in Nat
    PROVE  ((a % n) + 1) % n = (a + 1) % n
  <1> DEFINE q == a \div n
             r == a % n
  <1>1. q \in Nat /\ r \in 0 .. n - 1 /\ a = n * q + r
    BY ZenonT(60), DivMod
  <1> HIDE DEF q, r
  <1>2. CASE r + 1 < n
    <2>1. (n * q + (r + 1)) % n = r + 1 /\ (n * 0 + (r + 1)) % n = r + 1
      BY <1>1, <1>2, ModUnique
    <2>2. a + 1 = n * q + (r + 1) /\ n * 0 + (r + 1) = r + 1
      BY <1>1
    <2> QED
      BY <2>1, <2>2 DEF r
  <1>3. CASE r + 1 = n
    <2>1. (n * (q + 1) + 0) % n = 0 /\ (n * 1 + 0) % n = 0
      BY <1>1, ModUnique
    <2>2. a + 1 = n * (q + 1) + 0 /\ n * 1 + 0 = r + 1
      BY <1>1, <1>3
    <2> QED
      BY <2>1, <2>2 DEF r
  <1> QED
    BY <1>1, <1>2, <1>3

(***************************************************************************)
(* Two keys that go to the same slot are a multiple of its size apart.     *)
(***************************************************************************)
LEMMA SameMod ==
    ASSUME NEW n \in Nat \ {0}, NEW a \in Nat, NEW b \in Nat, a <= b,
           a % n = b % n
    PROVE  (b - a) % n = 0
  <1> DEFINE p == a \div n
             q == b \div n
             r == a % n
  <1>1. p \in Nat /\ q \in Nat /\ r \in 0 .. n - 1
        /\ a = n * p + r /\ b = n * q + r
    BY ZenonT(60), DivMod
  <1> HIDE DEF p, q, r
  <1>2. q >= p
    <2> SUFFICES ASSUME p > q PROVE FALSE
      BY <1>1
    <2>1. PICK d \in Nat : p = q + 1 + d
      BY <1>1
    <2>2. n * p = n * q + n + n * d /\ n * d >= 0
      BY <2>1, <1>1
    <2> QED
      BY <2>2, <1>1
  <1>3. PICK d \in Nat : q = p + d
    BY <1>1, <1>2
  <1>4. b - a = n * d + 0
    BY <1>1, <1>3
  <1> QED
    BY <1>4, ModUnique

(***************************************************************************)
(* Less than the size apart and in the same slot: the same key.            *)
(***************************************************************************)
LEMMA ModApart ==
    ASSUME NEW n \in Nat \ {0}, NEW d \in Nat, d % n = 0, d < n
    PROVE  d = 0
  <1>1. (n * 0 + d) % n = d
    BY ModUnique
  <1> QED
    BY <1>1

-----------------------------------------------------------------------------
(***************************************************************************)
(* Key k goes to slot (k - 1) % KB_BUFFER_SIZE.  The slot of a key that    *)
(* was stored holds it, or a later key of the same slot.                   *)
(***************************************************************************)
SlotsHold(buffer, last) ==
    \A k \in 1 .. last :
        LET v == buffer[(k - 1) % KB_BUFFER_SIZE]
        IN  v \in k .. last /\ (v - k) % KB_BUFFER_SIZE = 0

(***************************************************************************)
(* Where the next key is read: the driver's read has its own copy of       *)
(* kb_read_idx.                                                            *)
(***************************************************************************)
Position == IF pc = "kb_copy" THEN kb_reg.idx ELSE kb_read_idx

(***************************************************************************)
(* The invariant of the ring: the indices are the numbers of keys stored   *)
(* and returned, modulo the size; what keyboard_getchar loaded is at most  *)
(* what kb_count is now.                                                   *)
(***************************************************************************)
KeyboardInv ==
    /\ KeyboardTypeOK /\ KeysInOrder /\ KeysNeverStale
    /\ SlotsHold(kb_buffer, accepted)
    /\ kb_write_idx = accepted % KB_BUFFER_SIZE
    /\ Running => Position = returned % KB_BUFFER_SIZE
    /\ returned <= accepted
    /\ pc = "kb_store" => kb_reg.count \in 1 .. kb_count
    /\ pc = "kb_store" /\ ~raced => kb_reg.count = kb_count
    /\ pc = "kb_take" /\ ~raced => kb_count < KB_BUFFER_SIZE
    /\ pc = "boot" => accepted = 0 /\ returned = 0

(***************************************************************************)
(* What storing the next key does to the slots.                            *)
(***************************************************************************)
LEMMA SlotsHoldNext ==
    ASSUME NEW buffer \in [Slot -> Nat], NEW last \in Nat,
           SlotsHold(buffer, last)
    PROVE  SlotsHold([buffer EXCEPT ![last % KB_BUFFER_SIZE] = last + 1],
                     last + 1)
  <1> DEFINE n == KB_BUFFER_SIZE
             b == [buffer EXCEPT ![last % n] = last + 1]
  <1> SUFFICES ASSUME NEW k \in 1 .. last + 1
               PROVE  /\ b[(k - 1) % n] \in k .. last + 1
                      /\ (b[(k - 1) % n] - k) % n = 0
    BY SMTT(30) DEF SlotsHold
  <1>1. n \in Nat \ {0} /\ k - 1 \in Nat /\ k - 1 <= last
    BY KeyboardAssumption
  <1>2. last % n \in Slot /\ (k - 1) % n \in Slot
    BY ZenonT(60), <1>1, ModInSlot
  <1>3. CASE (k - 1) % n = last % n
    <2>1. b[(k - 1) % n] = last + 1
      BY <1>2, <1>3
    <2>2. (last - (k - 1)) % n = 0
      BY ZenonT(60), <1>1, <1>3, SameMod
    <2>3. last - (k - 1) = (last + 1) - k
      BY <1>1
    <2> QED
      BY <2>1, <2>2, <2>3
  <1>4. CASE (k - 1) % n # last % n
    <2>1. k \in 1 .. last
      BY <1>1, <1>4
    <2>2. b[(k - 1) % n] = buffer[(k - 1) % n]
      BY <1>2, <1>4
    <2>3. /\ buffer[(k - 1) % n] \in k .. last
          /\ (buffer[(k - 1) % n] - k) % n = 0
      BY <2>1 DEF SlotsHold
    <2> HIDE DEF b, n
    <2> QED
      BY <2>2, <2>3
  <1> QED
    BY <1>3, <1>4

(***************************************************************************)
(* What a reader finds where the next key is due.                          *)
(***************************************************************************)
LEMMA ReadsDue ==
    ASSUME SlotsHold(kb_buffer, accepted), NEW r \in Nat,
           accepted \in Nat, r < accepted
    PROVE  LET v == kb_buffer[r % KB_BUFFER_SIZE]
           IN  /\ v \in r + 1 .. accepted
               /\ (v - (r + 1)) % KB_BUFFER_SIZE = 0
               /\ accepted - r <= KB_BUFFER_SIZE => v = r + 1
  <1> DEFINE n == KB_BUFFER_SIZE
             v == kb_buffer[r % n]
  <1>1. n \in Nat \ {0}
    BY KeyboardAssumption
  <1>2. r + 1 \in 1 .. accepted /\ (r + 1) - 1 = r
    OBVIOUS
  <1>3. v \in r + 1 .. accepted /\ (v - (r + 1)) % n = 0
    BY <1>2 DEF SlotsHold
  <1> HIDE DEF n, v
  <1>4. ASSUME accepted - r <= n PROVE v = r + 1
    <2>1. v - (r + 1) \in Nat /\ v - (r + 1) < n
      BY <1>1, <1>3, <1>4
    <2>2. v - (r + 1) = 0
      BY <1>1, <1>3, <2>1, ModApart
    <2> QED
      BY <1>3, <2>2
  <1> QED
    BY <1>3, <1>4 DEF v, n

-----------------------------------------------------------------------------
(***************************************************************************)
(* The initial state.                                                      *)
(***************************************************************************)
LEMMA KeyboardInvInit ==
    ASSUME KeyboardInit, pc = "boot" PROVE KeyboardInv
  <1>1. 0 % KB_BUFFER_SIZE = 0 /\ 0 \in Slot /\ 0 \in 0 .. MaxKeys
    BY KeyboardAssumption, ModUnique DEF Slot
  <1>2. KeyboardTypeOK
    <2>1. kb_reg \in [count : 0 .. KB_BUFFER_SIZE, idx : Slot, left : Nat]
      BY <1>1, KeyboardAssumption DEF KeyboardInit, NoRegs
    <2>2. raced \in BOOLEAN
      BY ZenonT(60) DEF KeyboardInit
    <2>3. kb_buffer \in [Slot -> 0 .. MaxKeys]
      BY <1>1 DEF KeyboardInit
    <2> QED
      BY <1>1, <2>1, <2>2, <2>3, KeyboardAssumption
      DEF KeyboardInit, KeyboardTypeOK
  <1>3. KeysInOrder /\ KeysNeverStale
    BY <1>1 DEF KeyboardInit, KeysInOrder, KeysNeverStale, Pending, Running
  <1>4. SlotsHold(kb_buffer, accepted)
    BY DEF KeyboardInit, SlotsHold
  <1> QED
    BY <1>1, <1>2, <1>3, <1>4 DEF KeyboardInit, KeyboardInv, Position

(***************************************************************************)
(* Steps that leave the keyboard alone, and do not move the thread into or *)
(* out of the middle of a reader's accesses, unless for good.              *)
(***************************************************************************)
LEMMA KeyboardInvElsewhere ==
    ASSUME KeyboardInv, UNCHANGED keyboard,
           \/ pc' = pc
           \/ pc' \in {"panic", "away"}
           \/ Running /\ ~Reading /\ ~Reading' /\ pc' # "boot"
    PROVE  KeyboardInv'
  <1> USE DEF keyboard, ring, reader
  <1>1. KeyboardTypeOK' /\ SlotsHold(kb_buffer, accepted)'
    BY DEF KeyboardInv, KeyboardTypeOK, SlotsHold
  <1>2. KeysInOrder' /\ KeysNeverStale'
    BY DEF KeyboardInv, KeysInOrder, KeysNeverStale, Pending, Running, Reading
  <1>3. Running' => Position' = returned' % KB_BUFFER_SIZE
    BY DEF KeyboardInv, Position, Running, Reading
  <1> QED
    BY <1>1, <1>2, <1>3 DEF KeyboardInv, Reading

(***************************************************************************)
(* keyboard_init.                                                          *)
(***************************************************************************)
LEMMA KeyboardInvBoot ==
    ASSUME KeyboardInv, keyboard_init, pc = "boot", pc' = pc
    PROVE  KeyboardInv'
  <1> USE DEF reader
  <1>1. 0 % KB_BUFFER_SIZE = 0 /\ 0 \in Slot /\ KB_BUFFER_SIZE \in Nat \ {0}
    BY KeyboardAssumption, ModUnique DEF Slot
  <1>2. KeyboardTypeOK' /\ SlotsHold(kb_buffer, accepted)'
    BY <1>1 DEF KeyboardInv, KeyboardTypeOK, SlotsHold, keyboard_init
  <1>3. KeysInOrder' /\ KeysNeverStale'
    BY <1>1 DEF KeyboardInv, KeyboardTypeOK, KeysInOrder, KeysNeverStale,
                Pending, Running, keyboard_init
  <1> QED
    BY <1>1, <1>2, <1>3 DEF KeyboardInv, Position, keyboard_init

(***************************************************************************)
(* keyboard_callback, in the middle of a reader's accesses or not.         *)
(***************************************************************************)
LEMMA KeyboardInvCallback ==
    ASSUME KeyboardInv, NEW scancode, keyboard_callback(scancode),
           Running, pc # "boot", pc' = pc
    PROVE  KeyboardInv'
  <1>1. CASE ~(scancode = "char" /\ HasRoom)
    BY <1>1, KeyboardInvElsewhere DEF keyboard_callback
  <1>2. CASE scancode = "char" /\ HasRoom
    <2> DEFINE n == KB_BUFFER_SIZE
    <2>1. /\ accepted < MaxKeys /\ accepted' = accepted + 1
          /\ kb_buffer' = [kb_buffer EXCEPT ![kb_write_idx] = accepted + 1]
          /\ kb_write_idx' = After(kb_write_idx)
          /\ kb_count' = kb_count + 1 /\ kb_count < n
          /\ raced' = (raced \/ Reading)
          /\ UNCHANGED <<kb_read_idx, kb_reg, returned, got>>
      BY <1>2 DEF keyboard_callback, HasRoom, reader
    <2>2. n \in Nat \ {0} /\ MaxKeys \in Nat
      BY KeyboardAssumption
    <2>3. KeyboardTypeOK
      BY DEF KeyboardInv
    <2>4. /\ accepted \in Nat /\ kb_buffer \in [Slot -> Nat]
          /\ accepted' \in 0 .. MaxKeys /\ kb_count' \in 0 .. n
      BY <2>1, <2>2, <2>3 DEF KeyboardTypeOK
    <2>5. SlotsHold(kb_buffer', accepted')
      BY ZenonT(60), <2>1, <2>4, SlotsHoldNext DEF KeyboardInv
    <2>6. kb_write_idx' = accepted' % n /\ kb_write_idx' \in Slot
      <3>1. kb_write_idx' = (accepted + 1) % n
        BY <2>1, <2>2, <2>4, NextMod DEF KeyboardInv, After
      <3> QED
        BY <3>1, <2>1, <2>4, ModInSlot
    <2>7. KeyboardTypeOK'
      <3>1. kb_buffer' \in [Slot -> 0 .. MaxKeys]
        BY <2>1, <2>3, <2>4 DEF KeyboardTypeOK
      <3>2. raced' \in BOOLEAN
        BY <2>1, <2>3 DEF KeyboardTypeOK, Reading
      <3> QED
        BY <2>1, <2>3, <2>4, <2>6, <3>1, <3>2 DEF KeyboardTypeOK
    <2>8. KeysInOrder'
      <3>1. SUFFICES ASSUME ~raced'
                     PROVE  got' = returned' /\ Pending' = accepted' - returned'
        BY DEF KeysInOrder
      <3>2. ~raced /\ ~Reading
        BY <2>1, <3>1, Zenon
      <3>3. got = returned /\ kb_count = accepted - returned
        BY <3>2 DEF KeyboardInv, KeysInOrder, Pending, Reading
      <3>4. Pending' = kb_count'
        BY <3>2 DEF Pending, Reading
      <3> QED
        BY <2>1, <2>3, <2>2, <3>3, <3>4 DEF KeyboardTypeOK
    <2>9. KeysNeverStale'
      <3>1. Pending' <= accepted' - returned'
        BY <2>1, <2>2, <2>3 DEF KeyboardInv, KeyboardTypeOK, KeysNeverStale,
              Pending, Running
      <3> QED
        BY <3>1, <2>1 DEF KeyboardInv, KeysNeverStale
    <2>10. Position' = returned' % n
      BY <2>1 DEF KeyboardInv, Position
    <2>11. returned' <= accepted'
      BY <2>1, <2>3, <2>2 DEF KeyboardInv, KeyboardTypeOK
    <2>12. pc = "kb_store" => kb_reg'.count \in 1 .. kb_count'
      BY <2>1, <2>2, <2>3 DEF KeyboardInv, KeyboardTypeOK
    <2>13. Reading => raced'
      BY ZenonT(60), <2>1
    <2> QED
      BY <2>5, <2>6, <2>7, <2>8, <2>9, <2>10, <2>11, <2>12, <2>13
      DEF KeyboardInv, Reading
  <1> QED
    BY <1>1, <1>2


(***************************************************************************)
(* keyboard_getchar.                                                       *)
(***************************************************************************)
LEMMA KeyboardInvGetchar ==
    ASSUME KeyboardInv, GetcharStep PROVE KeyboardInv'
  <1> DEFINE n == KB_BUFFER_SIZE
  <1>1. n \in Nat \ {0} /\ MaxKeys \in Nat /\ KeyboardTypeOK
    BY KeyboardAssumption DEF KeyboardInv
  <1>2. CASE GetcharTest
    <2>1. /\ pc = "kb_test"
          /\ pc' = (IF kb_count = 0 THEN "kb_hlt" ELSE "kb_store")
          /\ kb_reg' = [count |-> kb_count, idx |-> 0, left |-> 0]
          /\ UNCHANGED <<kb_buffer, kb_read_idx, kb_write_idx, kb_count,
                         accepted, returned, got, raced>>
      BY <1>2 DEF GetcharTest, Goto, NoRegs, ring
    <2>2. KeyboardTypeOK'
      BY <1>1, <2>1 DEF KeyboardTypeOK, Slot
    <2>3. KeysInOrder' /\ KeysNeverStale'
      BY <2>1 DEF KeyboardInv, KeysInOrder, KeysNeverStale, Pending, Running
    <2>4. Position' = returned' % n
      BY <2>1 DEF KeyboardInv, Position, Running
    <2>5. pc' = "kb_store" => kb_reg'.count \in 1 .. kb_count'
                              /\ kb_reg'.count = kb_count'
      BY <1>1, <2>1 DEF KeyboardTypeOK
    <2>6. SlotsHold(kb_buffer, accepted)'
      BY <2>1 DEF KeyboardInv, SlotsHold
    <2> QED
      BY <2>1, <2>2, <2>3, <2>4, <2>5, <2>6 DEF KeyboardInv
  <1>3. CASE GetcharHlt
    BY <1>3, KeyboardInvElsewhere DEF GetcharHlt, Hlt, Reading, Running
  <1>4. CASE GetcharStore
    <2>1. /\ pc = "kb_store" /\ pc' = "kb_take"
          /\ kb_count' = kb_reg.count - 1
          /\ kb_reg' = [count |-> 0, idx |-> 0, left |-> 0]
          /\ UNCHANGED <<kb_buffer, kb_read_idx, kb_write_idx,
                         accepted, returned, got, raced>>
      BY <1>4 DEF GetcharStore, Goto, NoRegs
    <2>2. kb_reg.count \in 1 .. kb_count /\ kb_count \in 0 .. n
      BY <1>1, <2>1 DEF KeyboardInv, KeyboardTypeOK
    <2>3. KeyboardTypeOK'
      BY SMTT(30), <1>1, <2>1, <2>2 DEF KeyboardTypeOK, Slot
    <2>4. kb_count' + 1 = kb_reg.count /\ kb_count' < n
      BY <1>1, <2>1, <2>2
    <2>5. KeysInOrder'
      BY <2>1, <2>2, <2>4
      DEF KeyboardInv, KeysInOrder, Pending, Running
    <2>6. KeysNeverStale'
      <3>1. kb_count <= accepted - returned
        BY <2>1 DEF KeyboardInv, KeysNeverStale, Pending, Running
      <3>2. Pending' <= accepted' - returned'
        BY <1>1, <2>1, <2>2, <2>4, <3>1 DEF Pending, KeyboardTypeOK
      <3> QED
        BY <2>1, <3>2 DEF KeyboardInv, KeysNeverStale
    <2>7. Position' = returned' % n
      BY <2>1 DEF KeyboardInv, Position, Running
    <2>8. SlotsHold(kb_buffer, accepted)'
      BY <2>1 DEF KeyboardInv, SlotsHold
    <2> QED
      BY <2>1, <2>3, <2>4, <2>5, <2>6, <2>7, <2>8 DEF KeyboardInv
  <1>5. CASE GetcharTake
    <2>1. /\ pc = "kb_take" /\ pc' = "idle"
          /\ got' = kb_buffer[kb_read_idx] /\ returned' = returned + 1
          /\ kb_read_idx' = After(kb_read_idx)
          /\ UNCHANGED <<kb_buffer, kb_write_idx, kb_count, kb_reg, accepted,
                         raced>>
      BY <1>5 DEF GetcharTake, Goto, Idle
    <2>2. /\ accepted \in 0 .. MaxKeys /\ returned \in Nat
          /\ kb_count \in 0 .. n
      BY <1>1 DEF KeyboardTypeOK
    <2>3. kb_count + 1 <= accepted - returned
      BY <2>1 DEF KeyboardInv, KeysNeverStale, Pending, Running
    <2>4. kb_read_idx = returned % n
      BY <2>1 DEF KeyboardInv, Position, Running
    <2>5. /\ got' \in returned' .. accepted
          /\ (got' - returned') % n = 0
          /\ accepted - returned <= n => got' = returned'
      <3>1. returned < accepted /\ accepted \in Nat
        BY <1>1, <2>1, <2>2, <2>3
      <3>2. got' = kb_buffer[returned % n] /\ returned' = returned + 1
        BY <2>1, <2>4
      <3>3. SlotsHold(kb_buffer, accepted)
        BY DEF KeyboardInv
      <3> QED
        BY <2>2, <3>1, <3>2, <3>3, ReadsDue
    <2>6. kb_read_idx' = returned' % n /\ kb_read_idx' \in Slot
      <3>1. kb_read_idx' = (returned + 1) % n
        BY ZenonT(60), <2>1, <2>2, <2>4, <1>1, NextMod DEF After
      <3> QED
        <4>1. returned + 1 \in Nat /\ returned' = returned + 1
          BY <2>1, <2>2
        <4> QED
          BY <3>1, <4>1, ModInSlot
    <2>7. KeyboardTypeOK'
      BY <1>1, <2>1, <2>2, <2>3, <2>5, <2>6 DEF KeyboardTypeOK
    <2>8. KeysInOrder'
      <3>1. SUFFICES ASSUME ~raced
                     PROVE  got' = returned' /\ kb_count = accepted - returned'
        BY <2>1 DEF KeysInOrder, Pending
      <3>2. kb_count + 1 = accepted - returned /\ kb_count < n
        BY <2>1, <3>1 DEF KeyboardInv, KeysInOrder, Pending, Running
      <3> QED
        BY <1>1, <2>1, <2>2, <2>5, <3>2
    <2>9. KeysNeverStale'
      BY <1>1, <2>1, <2>2, <2>3, <2>5 DEF KeysNeverStale, Pending
    <2>10. SlotsHold(kb_buffer, accepted)'
      BY <2>1 DEF KeyboardInv, SlotsHold
    <2>11. returned' <= accepted'
      BY <2>1, <2>2, <2>3
    <2> QED
      BY <2>1, <2>6, <2>7, <2>8, <2>9, <2>10, <2>11 DEF KeyboardInv, Position
  <1> QED
    BY <1>2, <1>3, <1>4, <1>5 DEF GetcharStep

(***************************************************************************)
(* keyboard_driver_read.                                                   *)
(***************************************************************************)
LEMMA KeyboardInvRead ==
    ASSUME KeyboardInv,
           ReadStep \/ \E size \in Nat : ReadLoad(size)
    PROVE  KeyboardInv'
  <1> DEFINE n == KB_BUFFER_SIZE
  <1>1. n \in Nat \ {0} /\ MaxKeys \in Nat /\ KeyboardTypeOK
    BY KeyboardAssumption DEF KeyboardInv
  <1>2. ASSUME NEW size \in Nat, ReadLoad(size) PROVE KeyboardInv'
    <2>1. /\ pc = "idle" /\ pc' = "kb_copy"
          /\ kb_reg' = [count |-> kb_count, idx |-> kb_read_idx, left |-> size]
          /\ UNCHANGED <<kb_buffer, kb_read_idx, kb_write_idx, kb_count,
                         accepted, returned, got, raced>>
      BY <1>2 DEF ReadLoad, Goto, Idle, ring
    <2>2. KeyboardTypeOK'
      BY <1>1, <2>1 DEF KeyboardTypeOK
    <2>3. KeysInOrder' /\ KeysNeverStale'
      BY <2>1 DEF KeyboardInv, KeysInOrder, KeysNeverStale, Pending, Running
    <2>4. Position' = returned' % n
      BY <2>1 DEF KeyboardInv, Position, Running
    <2>5. SlotsHold(kb_buffer, accepted)'
      BY <2>1 DEF KeyboardInv, SlotsHold
    <2> QED
      BY <2>1, <2>2, <2>3, <2>4, <2>5 DEF KeyboardInv
  <1>3. CASE ReadCopy
    <2>1. /\ pc = "kb_copy" /\ pc' = "kb_copy" /\ kb_reg.count > 0
          /\ kb_reg.left > 0
          /\ got' = kb_buffer[kb_reg.idx] /\ returned' = returned + 1
          /\ kb_reg' = [count |-> kb_reg.count - 1, idx |-> After(kb_reg.idx),
                        left |-> kb_reg.left - 1]
          /\ UNCHANGED <<kb_buffer, kb_read_idx, kb_write_idx, kb_count,
                         accepted, raced>>
      BY <1>3 DEF ReadCopy, Goto, ring
    <2>2. /\ accepted \in 0 .. MaxKeys /\ returned \in Nat
          /\ kb_reg.count \in 0 .. n /\ kb_reg.left \in Nat
      BY <1>1 DEF KeyboardTypeOK
    <2>3. kb_reg.count <= accepted - returned
      BY <2>1 DEF KeyboardInv, KeysNeverStale, Pending, Running
    <2>4. kb_reg.idx = returned % n
      BY <2>1 DEF KeyboardInv, Position, Running
    <2>5. /\ got' \in returned' .. accepted
          /\ (got' - returned') % n = 0
          /\ accepted - returned <= n => got' = returned'
      <3>1. returned < accepted /\ accepted \in Nat
        BY <1>1, <2>1, <2>2, <2>3
      <3>2. got' = kb_buffer[returned % n] /\ returned' = returned + 1
        BY <2>1, <2>4
      <3>3. SlotsHold(kb_buffer, accepted)
        BY DEF KeyboardInv
      <3> QED
        BY <2>2, <3>1, <3>2, <3>3, ReadsDue
    <2>6. After(kb_reg.idx) = returned' % n /\ After(kb_reg.idx) \in Slot
      <3>1. After(kb_reg.idx) = (returned + 1) % n
        BY <2>2, <2>4, <1>1, NextMod DEF After
      <3> QED
        <4>1. returned + 1 \in Nat /\ returned' = returned + 1
          BY <2>1, <2>2
        <4> QED
          BY <3>1, <4>1, ModInSlot
    <2>7. /\ kb_reg' \in [count : 0 .. n, idx : Slot, left : Nat]
          /\ kb_reg'.count = kb_reg.count - 1
          /\ kb_reg'.idx = returned' % n
      BY <1>1, <2>1, <2>2, <2>6
    <2>8. KeyboardTypeOK'
      BY SMTT(30), <1>1, <2>1, <2>2, <2>3, <2>5, <2>7 DEF KeyboardTypeOK
    <2>9. KeysInOrder'
      <3>1. SUFFICES ASSUME ~raced
                     PROVE  /\ got' = returned'
                            /\ kb_reg'.count = accepted - returned'
        BY <2>1 DEF KeysInOrder, Pending
      <3>2. kb_reg.count = accepted - returned
        BY <2>1, <3>1 DEF KeyboardInv, KeysInOrder, Pending, Running
      <3> QED
        BY SMTT(30), <1>1, <2>1, <2>2, <2>5, <2>7, <3>2
    <2>10. KeysNeverStale'
      BY <1>1, <2>1, <2>2, <2>3, <2>5, <2>7 DEF KeysNeverStale, Pending
    <2>11. SlotsHold(kb_buffer, accepted)'
      BY <2>1 DEF KeyboardInv, SlotsHold
    <2>12. returned' <= accepted'
      BY <2>1, <2>2, <2>3
    <2> QED
      BY SMTT(30), <2>1, <2>7, <2>8, <2>9, <2>10, <2>11, <2>12 DEF KeyboardInv, Position
  <1>4. CASE ReadStore
    <2>1. /\ pc = "kb_copy" /\ pc' = "idle"
          /\ kb_read_idx' = kb_reg.idx /\ kb_count' = kb_reg.count
          /\ kb_reg' = [count |-> 0, idx |-> 0, left |-> 0]
          /\ UNCHANGED <<kb_buffer, kb_write_idx, accepted, returned, got,
                         raced>>
      BY <1>4 DEF ReadStore, Goto, Idle, NoRegs
    <2>2. KeyboardTypeOK'
      BY <1>1, <2>1 DEF KeyboardTypeOK, Slot
    <2>3. KeysInOrder' /\ KeysNeverStale'
      BY <2>1 DEF KeyboardInv, KeysInOrder, KeysNeverStale, Pending, Running
    <2>4. Position' = returned' % n
      BY <2>1 DEF KeyboardInv, Position, Running
    <2>5. SlotsHold(kb_buffer, accepted)'
      BY <2>1 DEF KeyboardInv, SlotsHold
    <2> QED
      BY <2>1, <2>2, <2>3, <2>4, <2>5 DEF KeyboardInv
  <1> QED
    BY <1>2, <1>3, <1>4 DEF ReadStep

-----------------------------------------------------------------------------
(***************************************************************************)
(* The timer, for every size of a word, frequency and duration.            *)
(***************************************************************************)

(***************************************************************************)
(* The invariant of the timer.  Between the two loads, the low word is the *)
(* one that timer_ticks had when the call began.  Later target is late     *)
(* enough, and the high word that the loop has loaded is not too high.     *)
(***************************************************************************)
TimerInv ==
    /\ TimerTypeOK
    /\ began <= Now
    /\ pc \in {"tm_get", "tm_target"} =>
          \E h \in 0 .. timer_ticks.hi :
              began = Number([lo |-> tm_reg.lo, hi |-> h])
    /\ pc \in {"tm_hlt", "tm_high", "tm_low"} =>
          began + SleepTicks <= tm_reg.target
    /\ pc = "tm_low" => tm_reg.hi <= timer_ticks.hi
    /\ pc = "boot" => began = 0

(***************************************************************************)
(* Products are monotonic.                                                 *)
(***************************************************************************)
LEMMA ProductOrder ==
    ASSUME NEW a \in Nat, NEW b \in Nat, NEW w \in Nat, a <= b
    PROVE  a * w <= b * w /\ (a < b => a * w + w <= b * w)
  <1>1. PICK d \in Nat : b = a + d
    OBVIOUS
  <1>2. b * w = a * w + d * w /\ d * w \in Nat
    BY <1>1
  <1>3. ASSUME a < b PROVE d * w >= w
    <2>1. PICK e \in Nat : d = e + 1
      BY <1>1, <1>3
    <2>2. d * w = e * w + w /\ e * w \in Nat
      BY <2>1
    <2> QED
      BY <2>2
  <1> QED
    BY <1>2, <1>3

(***************************************************************************)
(* A number is the remainder and the quotient of itself when it is small.  *)
(***************************************************************************)
LEMMA SmallRemainder ==
    ASSUME NEW x \in Nat, x < WORD PROVE x % WORD = x
  <1>1. \A a \in Nat : a < WORD => a % WORD = a
    BY TimerAssumption
  <1> QED
    BY <1>1

(***************************************************************************)
(* A number's quotient, given its two words.                               *)
(***************************************************************************)
LEMMA HighWord ==
    ASSUME NEW lo \in 0 .. WORD - 1, NEW hi \in Nat
    PROVE  (hi * WORD + lo) \div WORD = hi
  <1> DEFINE x == hi * WORD + lo
             q == x \div WORD
             r == x % WORD
  <1>1. WORD \in Nat \ {0}
    BY TimerAssumption
  <1>2. x \in Nat
    BY <1>1
  <1>3. q \in Nat /\ r \in 0 .. WORD - 1 /\ x = q * WORD + r
    BY <1>1, <1>2
  <1> HIDE DEF q, r
  <1>4. hi <= q
    <2> SUFFICES ASSUME q < hi PROVE FALSE
      BY <1>3
    <2> QED
      BY <1>1, <1>3, ProductOrder
  <1>5. q <= hi
    <2> SUFFICES ASSUME hi < q PROVE FALSE
      BY <1>3
    <2> QED
      BY <1>1, <1>3, ProductOrder
  <1> QED
    BY <1>3, <1>4, <1>5 DEF q

-----------------------------------------------------------------------------
(***************************************************************************)
(* The time that a call has read lies where TornOnlyAtWrap has it, and not *)
(* before the call.                                                        *)
(***************************************************************************)
LEMMA TornRead ==
    ASSUME TimerInv, pc \in {"tm_get", "tm_target"}
    PROVE  TornOnlyAtWrap /\ TicksRead \in Nat /\ began <= TicksRead
  <1>1. /\ WORD \in Nat \ {0} /\ tm_reg.lo \in 0 .. WORD - 1
        /\ timer_ticks.lo \in 0 .. WORD - 1 /\ timer_ticks.hi \in Nat
        /\ began \in Nat
    BY TimerAssumption DEF TimerInv, TimerTypeOK
  <1>2. PICK h \in 0 .. timer_ticks.hi : began = h * WORD + tm_reg.lo
    BY DEF TimerInv, Number
  <1>3. /\ TicksRead = timer_ticks.hi * WORD + tm_reg.lo
        /\ Now = timer_ticks.hi * WORD + timer_ticks.lo
    BY DEF TicksRead, Now, Number
  <1>4. /\ timer_ticks.hi * WORD \in Nat /\ h * WORD \in Nat
        /\ h * WORD <= timer_ticks.hi * WORD
        /\ h < timer_ticks.hi => h * WORD + WORD <= timer_ticks.hi * WORD
    BY <1>1, <1>2, ProductOrder
  <1>5. TicksRead \in Nat /\ Now \in Nat /\ began <= TicksRead
    BY <1>1, <1>2, <1>3, <1>4
  <1>6. CASE h = timer_ticks.hi
    <2>1. TicksRead = began
      BY <1>6, <1>2, <1>3
    <2>2. TicksRead \in began .. Now
      BY <2>1, <1>1, <1>5 DEF TimerInv
    <2> QED
      BY <2>2, <1>5 DEF TornOnlyAtWrap
  <1>7. CASE h < timer_ticks.hi
    <2>1. began \div WORD = h
      <3>1. (h * WORD + tm_reg.lo) \div WORD = h
        BY SMTT(60), <1>1, <1>2, HighWord
      <3> QED
        BY <3>1, <1>2
    <2>2. Now \div WORD = timer_ticks.hi
      BY ZenonT(60), <1>1, <1>3, HighWord
    <2>3. LowWordWrapped
      BY <2>1, <2>2, <1>7 DEF LowWordWrapped
    <2>4. TicksRead \in began .. Now \/ TicksRead \in Now .. Now + WORD
      BY <1>1, <1>3, <1>4, <1>5
    <2> QED
      BY <2>3, <2>4, <1>5 DEF TornOnlyAtWrap
  <1> QED
    BY <1>1, <1>2, <1>6, <1>7

(***************************************************************************)
(* The initial state.                                                      *)
(***************************************************************************)
LEMMA TimerInvInit ==
    ASSUME TimerInit, pc = "boot" PROVE TimerInv
  <1>1. TimerTypeOK
    BY TimerAssumption DEF TimerInit, TimerTypeOK, NoWords
  <1>2. began = 0 /\ Now = 0
    BY TimerAssumption DEF TimerInit, Now, Number
  <1> QED
    BY <1>1, <1>2 DEF TimerInv

(***************************************************************************)
(* Steps that leave the timer alone, and do not move the thread into the   *)
(* middle of a call.                                                       *)
(***************************************************************************)
LEMMA TimerInvElsewhere ==
    ASSUME TimerInv, UNCHANGED timer,
           \/ pc' = pc
           \/ pc' \notin {"boot", "tm_get", "tm_target", "tm_hlt", "tm_high",
                          "tm_low"}
    PROVE  TimerInv'
  BY SMTT(30) DEF TimerInv, TimerTypeOK, Now, Number, SleepTicks, timer

(***************************************************************************)
(* timer_init.                                                             *)
(***************************************************************************)
LEMMA TimerInvBoot ==
    ASSUME TimerInv, timer_init, pc = "boot", pc' = pc PROVE TimerInv'
  <1>1. TimerTypeOK'
    BY TimerAssumption DEF TimerInv, TimerTypeOK, timer_init
  <1>2. began' = 0 /\ Now' = 0
    BY TimerAssumption DEF TimerInv, timer_init, Now, Number
  <1> QED
    BY <1>1, <1>2 DEF TimerInv

(***************************************************************************)
(* timer_callback: one tick, or, at the bound, none.                       *)
(***************************************************************************)
LEMMA Tick ==
    ASSUME TimerTypeOK, timer_callback
    PROVE  /\ timer_ticks' \in [lo : 0 .. WORD - 1, hi : Nat]
           /\ Now' \in Nat /\ Now' >= Now
           /\ timer_ticks'.hi >= timer_ticks.hi
  <1> DEFINE t == timer_ticks
  <1>1. /\ WORD \in Nat \ {0} /\ t.lo \in 0 .. WORD - 1 /\ t.hi \in Nat
        /\ t = [lo |-> t.lo, hi |-> t.hi]
    BY TimerAssumption DEF TimerTypeOK
  <1>2. CASE timer_ticks' = t
    BY <1>1, <1>2 DEF Now, Number
  <1>3. CASE t.lo = WORD - 1 /\ timer_ticks' = [lo |-> 0, hi |-> t.hi + 1]
    <2>1. (t.hi + 1) * WORD + 0 = t.hi * WORD + t.lo + 1
      BY <1>1, <1>3
    <2> QED
      BY <2>1, <1>1, <1>3 DEF Now, Number
  <1>4. CASE t.lo # WORD - 1 /\ timer_ticks' = [t EXCEPT !.lo = @ + 1]
    <2>1. timer_ticks' = [lo |-> t.lo + 1, hi |-> t.hi]
      BY <1>1, <1>4
    <2> QED
      BY <2>1, <1>1, <1>4 DEF Now, Number
  <1> QED
    BY <1>2, <1>3, <1>4 DEF timer_callback

(***************************************************************************)
(* A timer interrupt, wherever it comes in timer_sleep, preserves          *)
(* TimerInv.                                                               *)
(***************************************************************************)
LEMMA TimerInvCallback ==
    ASSUME TimerInv, timer_callback, pc # "boot",
           pc' = pc \/ pc' = "away"
    PROVE  TimerInv'
  <1>1. TimerTypeOK
    BY DEF TimerInv
  <1>2. /\ timer_ticks' \in [lo : 0 .. WORD - 1, hi : Nat]
        /\ Now' \in Nat /\ Now' >= Now
        /\ timer_ticks'.hi >= timer_ticks.hi
    BY <1>1, Tick
  <1>3. UNCHANGED <<timer_frequency, tm_reg, ms, began>>
    BY DEF timer_callback
  <1>4. timer_ticks.hi \in Nat /\ began \in Nat /\ Now \in Nat
        /\ tm_reg.hi \in Nat
    BY <1>1, TimerAssumption DEF TimerTypeOK, Now, Number
  <1>5. TimerTypeOK' /\ began' <= Now'
    BY <1>1, <1>2, <1>3, <1>4 DEF TimerTypeOK, TimerInv
  <1>6. ASSUME pc' \in {"tm_get", "tm_target"}
        PROVE  \E h \in 0 .. timer_ticks'.hi :
                  began' = Number([lo |-> tm_reg'.lo, hi |-> h])
    <2>1. PICK h \in 0 .. timer_ticks.hi :
                  began = Number([lo |-> tm_reg.lo, hi |-> h])
      BY <1>6 DEF TimerInv
    <2>2. h \in 0 .. timer_ticks'.hi
      BY <1>2, <1>4, <2>1
    <2> QED
      BY <2>1, <2>2, <1>3
  <1>7. SleepTicks' = SleepTicks
    BY <1>3 DEF SleepTicks
  <1>8. pc' = "tm_low" => tm_reg'.hi <= timer_ticks'.hi
    BY SMTT(30), <1>2, <1>3, <1>4 DEF TimerInv
  <1> QED
    BY <1>3, <1>5, <1>6, <1>7, <1>8 DEF TimerInv

-----------------------------------------------------------------------------
(***************************************************************************)
(* A call begins, or ends.                                                 *)
(***************************************************************************)
LEMMA TimerInvBegin ==
    ASSUME TimerInv, NEW t \in Durations \cup {0},
           NEW to \in {"tm_get", "tm_target"}, Begin(to, t)
    PROVE  TimerInv'
  <1>1. /\ pc' = to /\ ms' = t /\ began' = Now
        /\ tm_reg' = [lo |-> timer_ticks.lo, hi |-> 0, target |-> 0]
        /\ UNCHANGED <<timer_ticks, timer_frequency>>
    BY DEF Begin, Goto, NoWords
  <1>2. /\ timer_ticks.lo \in 0 .. WORD - 1 /\ timer_ticks.hi \in Nat
        /\ Now \in Nat /\ WORD \in Nat
    BY TimerAssumption DEF TimerInv, TimerTypeOK, Now, Number
  <1>3. TimerTypeOK'
    BY <1>1, <1>2 DEF TimerInv, TimerTypeOK
  <1>4. Now' = Now
    BY <1>1 DEF Now, Number
  <1>5. began' = Number([lo |-> tm_reg'.lo, hi |-> timer_ticks'.hi])
    BY <1>1 DEF Now, Number
  <1>6. timer_ticks'.hi \in 0 .. timer_ticks'.hi
    BY <1>1, <1>2
  <1>7. \E h \in 0 .. timer_ticks'.hi :
            began' = Number([lo |-> tm_reg'.lo, hi |-> h])
    BY <1>5, <1>6
  <1> QED
    BY <1>1, <1>2, <1>3, <1>4, <1>7 DEF TimerInv

(***************************************************************************)
(* So does the end of a call.                                              *)
(***************************************************************************)
LEMMA TimerInvEnd ==
    ASSUME TimerInv, NEW from, End(from) PROVE TimerInv'
  <1>1. /\ pc' = "idle" /\ ms' = 0 /\ began' = 0
        /\ tm_reg' = [lo |-> 0, hi |-> 0, target |-> 0]
        /\ UNCHANGED <<timer_ticks, timer_frequency>>
    BY DEF End, Goto, NoWords
  <1>2. Now' = Now /\ Now \in Nat
    BY <1>1, TimerAssumption DEF TimerInv, TimerTypeOK, Now, Number
  <1>3. TimerTypeOK'
    BY <1>1, TimerAssumption DEF TimerInv, TimerTypeOK
  <1> QED
    BY <1>1, <1>2, <1>3 DEF TimerInv

(***************************************************************************)
(* timer_sleep.                                                            *)
(***************************************************************************)
LEMMA SleepTicksNat ==
    ASSUME TimerTypeOK PROVE SleepTicks \in Nat
  <1>1. ms * timer_frequency \in Nat /\ WORD \in Nat \ {0} /\ MSEC \in Nat \ {0}
    BY TimerAssumption DEF TimerTypeOK
  <1>2. (ms * timer_frequency) % WORD \in Nat
    BY <1>1
  <1> QED
    BY <1>1, <1>2 DEF SleepTicks

(***************************************************************************)
(* So does every step of timer_sleep.                                      *)
(***************************************************************************)
LEMMA TimerInvSleep ==
    ASSUME TimerInv, SleepStep PROVE TimerInv'
  <1>1. /\ TimerTypeOK /\ timer_ticks.hi \in Nat /\ SleepTicks \in Nat
        /\ tm_reg \in [lo : 0 .. WORD - 1, hi : Nat, target : Nat]
        /\ WORD \in Nat \ {0}
    BY SleepTicksNat, TimerAssumption DEF TimerInv, TimerTypeOK
  <1>2. CASE SleepTarget /\ SleepTicks = 0
    BY SMTT(30), <1>2, TimerInvEnd DEF SleepTarget
  <1>3. CASE SleepTarget /\ SleepTicks # 0
    <2>1. /\ pc = "tm_target" /\ pc' = "tm_hlt"
          /\ tm_reg' = [lo |-> 0, hi |-> 0, target |-> TicksRead + SleepTicks]
          /\ UNCHANGED <<timer_ticks, timer_frequency, ms, began>>
      BY <1>3 DEF SleepTarget, Goto, NoWords
    <2>2. TicksRead \in Nat /\ began <= TicksRead
      BY <2>1, TornRead
    <2>3. TimerTypeOK'
      BY <1>1, <2>1, <2>2 DEF TimerTypeOK
    <2>4. Now' = Now /\ SleepTicks' = SleepTicks
      BY <2>1 DEF Now, Number, SleepTicks
    <2>5. began' + SleepTicks' <= tm_reg'.target
      BY <1>1, <2>1, <2>2, <2>4 DEF TimerTypeOK
    <2> QED
      BY <2>1, <2>3, <2>4, <2>5 DEF TimerInv
  <1>4. CASE SleepHlt
    BY <1>4 DEF SleepHlt, Hlt, TimerInv, TimerTypeOK, Now, Number, SleepTicks,
                timer
  <1>5. CASE SleepHigh
    <2>1. /\ pc = "tm_high" /\ pc' = "tm_low"
          /\ tm_reg' = [lo |-> tm_reg.lo, hi |-> timer_ticks.hi,
                        target |-> tm_reg.target]
          /\ UNCHANGED <<timer_ticks, timer_frequency, ms, began>>
      BY <1>1, <1>5 DEF SleepHigh, Goto
    <2>2. TimerTypeOK'
      BY <1>1, <2>1 DEF TimerTypeOK
    <2>3. Now' = Now /\ SleepTicks' = SleepTicks
      BY <2>1 DEF Now, Number, SleepTicks
    <2> QED
      BY <1>1, <2>1, <2>2, <2>3 DEF TimerInv
  <1>6. CASE SleepLow
    <2>1. CASE End("tm_low")
      BY <2>1, TimerInvEnd
    <2>2. CASE ~End("tm_low")
      <3>1. /\ pc = "tm_low" /\ pc' = "tm_hlt"
            /\ tm_reg' = [lo |-> tm_reg.lo, hi |-> 0,
                          target |-> tm_reg.target]
            /\ UNCHANGED <<timer_ticks, timer_frequency, ms, began>>
        BY <1>1, <1>6, <2>2 DEF SleepLow, Goto
      <3>2. TimerTypeOK'
        BY <1>1, <3>1 DEF TimerTypeOK
      <3>3. Now' = Now /\ SleepTicks' = SleepTicks
        BY <3>1 DEF Now, Number, SleepTicks
      <3> QED
        BY <1>1, <3>1, <3>2, <3>3 DEF TimerInv
    <2> QED
      BY <2>1, <2>2
  <1> QED
    BY <1>2, <1>3, <1>4, <1>5, <1>6 DEF SleepStep

(***************************************************************************)
(* When timer_sleep returns, the ticks have come.                          *)
(***************************************************************************)
LEMMA SleptEnough ==
    ASSUME TimerInv, SleepStep, pc' = "idle", ms * timer_frequency < WORD
    PROVE  Now - began >= (ms * timer_frequency) \div MSEC
  <1>1. /\ TimerTypeOK /\ SleepTicks \in Nat /\ Now \in Nat /\ began \in Nat
        /\ WORD \in Nat \ {0} /\ ms * timer_frequency \in Nat
    BY SleepTicksNat, TimerAssumption DEF TimerInv, TimerTypeOK, Now, Number
  <1>2. SleepTicks = (ms * timer_frequency) \div MSEC
    BY <1>1, SmallRemainder DEF SleepTicks
  <1>3. CASE SleepTarget
    <2>1. SleepTicks = 0
      BY <1>3 DEF SleepTarget, Goto
    <2> QED
      BY <1>1, <1>2, <2>1 DEF TimerInv
  <1>4. CASE SleepLow
    <2>1. /\ pc = "tm_low"
          /\ Number([lo |-> timer_ticks.lo, hi |-> tm_reg.hi]) >= tm_reg.target
      BY <1>4 DEF SleepLow, Goto, End
    <2>2. /\ began + SleepTicks <= tm_reg.target
          /\ tm_reg.hi <= timer_ticks.hi
      BY <2>1 DEF TimerInv
    <2>3. /\ tm_reg.hi \in Nat /\ timer_ticks.hi \in Nat /\ tm_reg.target \in Nat
          /\ timer_ticks.lo \in Nat
      BY <1>1 DEF TimerTypeOK
    <2>4. tm_reg.hi * WORD <= timer_ticks.hi * WORD
      BY <1>1, <2>2, <2>3, ProductOrder
    <2>5. Number([lo |-> timer_ticks.lo, hi |-> tm_reg.hi]) <= Now
      BY <1>1, <2>3, <2>4 DEF Now, Number
    <2>6. Number([lo |-> timer_ticks.lo, hi |-> tm_reg.hi]) \in Nat
      BY <1>1, <2>3 DEF Number
    <2> QED
      BY <1>1, <1>2, <2>1, <2>2, <2>3, <2>5, <2>6
  <1>5. ~SleepHlt /\ ~SleepHigh
    BY DEF SleepHlt, SleepHigh, Hlt, Goto
  <1> QED
    BY <1>3, <1>4, <1>5 DEF SleepStep

-----------------------------------------------------------------------------
(***************************************************************************)
(* How far kernel_main has come determines what is set up.  Interrupts are *)
(* on only after the last call, while the thread runs.                     *)
(***************************************************************************)
SysType ==
    [frames : BOOLEAN, heap : BOOLEAN, root : BOOLEAN, current : BOOLEAN,
     drivers : SUBSET {"pit_timer", "ps2_keyboard"},
     ready : SUBSET {"worker_a", "worker_b"}]

BootInv ==
    /\ InterruptsTypeOK
    /\ boot \in 0 .. 15 /\ sys \in SysType
    /\ in_service = {}
    /\ pc = "boot" => boot < 15
    /\ iflag => boot = 15 /\ pc \notin {"boot", "stopped", "panic", "away"}
    /\ boot >= 2 => gates = (0 .. 47) \cup {SYSCALL_VECTOR}
    /\ boot >= 4 => sys.heap
    /\ boot = 5 => sys.drivers = {}
    /\ boot = 6 => sys.drivers = {"pit_timer"}
    /\ boot >= 7 => sys.drivers = {"pit_timer", "ps2_keyboard"}
    /\ boot >= 6 => isr_handlers[32] = "timer"
    /\ boot >= 7 => isr_handlers[33] = "keyboard"
    /\ boot >= 12 => isr_handlers[SYSCALL_VECTOR] = "syscall"
    /\ boot >= 9 => sys.root
    /\ boot >= 10 => (sys.frames => sys.current)
    /\ boot >= 14 => (sys.frames => sys.ready # {})

(***************************************************************************)
(* The place of each call in kernel_main.                                  *)
(***************************************************************************)
LEMMA CallPlace ==
    ASSUME NEW b \in 0 .. 14
    PROVE  /\ BootOrder[b + 1] = "gdt_init" => b = 0
           /\ BootOrder[b + 1] = "idt_init" => b = 1
           /\ BootOrder[b + 1] = "pmm_init" => b = 2
           /\ BootOrder[b + 1] = "kheap_init" => b = 3
           /\ BootOrder[b + 1] = "driver_manager_init" => b = 4
           /\ BootOrder[b + 1] = "timer_init" => b = 5
           /\ BootOrder[b + 1] = "keyboard_init" => b = 6
           /\ BootOrder[b + 1] = "vfs_init" => b = 7
           /\ BootOrder[b + 1] = "ramfs_init" => b = 8
           /\ BootOrder[b + 1] = "process_init" => b = 9
           /\ BootOrder[b + 1] = "scheduler_init" => b = 10
           /\ BootOrder[b + 1] = "syscall_init" => b = 11
           /\ BootOrder[b + 1] = "test_filesystem" => b = 12
           /\ BootOrder[b + 1] = "process_create" => b = 13
           /\ BootOrder[b + 1] = "sti" => b = 14
  BY DEF BootOrder

(***************************************************************************)
(* The vectors that have handlers exist.                                   *)
(***************************************************************************)
LEMMA HandledVectors ==
    {32, 33, SYSCALL_VECTOR} \subseteq Vector /\ SYSCALL_VECTOR = 128
  BY KernelAssumption DEF Vector, SYSCALL_VECTOR

(***************************************************************************)
(* irq_handler acknowledges what it was called for, also when the second   *)
(* controller or nobody raised it.                                         *)
(***************************************************************************)
LEMMA EndOfOne ==
    ASSUME NEW lines, NEW chip, NEW n \in Int, lines \cap chip = {n}
    PROVE  EndOfInterrupt(lines, chip) = lines \ {n}
  <1>1. Min({n}) = n
    BY DEF Min
  <1> QED
    BY <1>1 DEF EndOfInterrupt

(***************************************************************************)
(* irq_handler acknowledges the line at both controllers where it has to,  *)
(* spurious interrupts included.                                           *)
(***************************************************************************)
LEMMA Acknowledges ==
    ASSUME in_service = {}, NEW n \in 0 .. 15,
           \/ irq_handler(n, InService(n))
           \/ n = 7 /\ irq_handler(7, in_service)
           \/ n = 15 /\ irq_handler(15, in_service \cup {2})
    PROVE  in_service' = {}
  <1>1. EndOfInterrupt({}, First) = {}
    BY DEF EndOfInterrupt
  <1>2. EndOfInterrupt({2}, First) = {}
    BY EndOfOne DEF First
  <1>3. CASE irq_handler(n, InService(n)) /\ n \in First
    <2>1. InService(n) = {n} /\ ~(32 + n >= 40)
      BY <1>3 DEF InService, First, Second
    <2>2. EndOfInterrupt({n}, First) = {n} \ {n}
      BY <1>3, EndOfOne
    <2> QED
      BY ZenonT(60), <1>3, <2>1, <2>2 DEF irq_handler
  <1>4. CASE irq_handler(n, InService(n)) /\ n \in Second
    <2>1. InService(n) = {n, 2} /\ 32 + n >= 40
      BY <1>4 DEF InService, Second
    <2>2. EndOfInterrupt({n, 2}, Second) = {n, 2} \ {n}
      <3>1. {n, 2} \cap Second = {n}
        <4>1. n \in Second /\ 2 \notin Second
          BY <1>4 DEF Second
        <4> QED
          BY <4>1, Zenon
      <3> QED
        BY <3>1, EndOfOne
    <2>3. {n, 2} \ {n} = {2}
      BY <1>4 DEF Second
    <2> QED
      BY <1>2, <1>4, <2>1, <2>2, <2>3 DEF irq_handler
  <1>5. CASE n = 7 /\ irq_handler(7, in_service)
    BY <1>1, <1>5 DEF irq_handler
  <1>6. CASE n = 15 /\ irq_handler(15, in_service \cup {2})
    <2>1. EndOfInterrupt({2}, Second) = {2} /\ in_service \cup {2} = {2}
      BY DEF EndOfInterrupt, Second
    <2> QED
      BY <1>2, <1>6, <2>1 DEF irq_handler
  <1>7. n \in First \/ n \in Second
    BY DEF First, Second
  <1> QED
    BY <1>3, <1>4, <1>5, <1>6, <1>7

-----------------------------------------------------------------------------
(***************************************************************************)
(* BootInv: the initial state.                                             *)
(***************************************************************************)
LEMMA BootInvInit ==
    ASSUME Init PROVE BootInv
  <1>1. InterruptsTypeOK
    BY ZenonT(60) DEF Init, InterruptsInit, InterruptsTypeOK
  <1>2. sys \in SysType /\ boot = 0 /\ iflag = FALSE /\ in_service = {}
    BY DEF Init, InterruptsInit, SysType
  <1> QED
    BY <1>1, <1>2 DEF BootInv

(***************************************************************************)
(* A call of kernel_main.                                                  *)
(***************************************************************************)
LEMMA CallFacts ==
    ASSUME BootInv, NEW name, Calls(name)
    PROVE  /\ boot \in 0 .. 14 /\ boot' = boot + 1
           /\ BootOrder[boot + 1] = name
           /\ pc = "boot" /\ ~iflag /\ halted' = halted
  <1>1. pc = "boot" /\ boot' = boot + 1 /\ BootOrder[boot + 1] = name
        /\ halted' = halted
    BY DEF Calls
  <1>2. boot \in 0 .. 14
    BY <1>1 DEF BootInv
  <1>3. ~iflag
    BY SMTT(30), <1>1 DEF BootInv
  <1> QED
    BY <1>1, <1>2, <1>3

(***************************************************************************)
(* idt_init preserves BootInv.                                             *)
(***************************************************************************)
LEMMA BootInvIdt ==
    ASSUME BootInv, BootIdt PROVE BootInv'
  <1>1. Calls("idt_init")
    BY DEF BootIdt
  <1>2. boot = 1 /\ boot' = 2 /\ pc = "boot" /\ ~iflag /\ halted' = halted
    BY <1>1, CallFacts, CallPlace
  <1>3. /\ gates' = (0 .. 47) \cup {SYSCALL_VECTOR}
        /\ isr_handlers' = [v \in Vector |-> "none"] /\ in_service' = {}
        /\ UNCHANGED <<pc, iflag, sys>>
    BY SMTT(30) DEF BootIdt, idt_init
  <1>4. InterruptsTypeOK'
    <2>1. gates' \subseteq 0 .. 255
      BY <1>3 DEF SYSCALL_VECTOR
    <2>2. isr_handlers' \in [Vector -> {"none", "timer", "keyboard", "syscall"}]
      BY <1>3
    <2> QED
      BY <1>2, <1>3, <2>1, <2>2 DEF InterruptsTypeOK, BootInv
  <1>5. sys' \in SysType /\ ~iflag'
    BY <1>2, <1>3 DEF BootInv
  <1> QED
    BY <1>2, <1>3, <1>4, <1>5 DEF BootInv

(***************************************************************************)
(* What isr_register_handler does to the table.                            *)
(***************************************************************************)
LEMMA Registers ==
    ASSUME InterruptsTypeOK, NEW n \in {32, 33, SYSCALL_VECTOR},
           NEW h \in {"timer", "keyboard", "syscall"},
           isr_register_handler(n, h)
    PROVE  /\ isr_handlers' \in
                 [Vector -> {"none", "timer", "keyboard", "syscall"}]
           /\ isr_handlers'[n] = h
           /\ \A v \in {32, 33, SYSCALL_VECTOR} \ {n} :
                  isr_handlers'[v] = isr_handlers[v]
  <1>1. isr_handlers \in [Vector -> {"none", "timer", "keyboard", "syscall"}]
    BY DEF InterruptsTypeOK
  <1>2. n \in Vector /\ {32, 33, SYSCALL_VECTOR} \subseteq Vector
    BY HandledVectors
  <1>3. isr_handlers' = [isr_handlers EXCEPT ![n] = h]
    BY DEF isr_register_handler
  <1> QED
    BY <1>1, <1>2, <1>3

(***************************************************************************)
(* timer_init preserves BootInv.                                           *)
(***************************************************************************)
LEMMA BootInvTimer ==
    ASSUME BootInv, BootTimer PROVE BootInv'
  <1>1. Calls("timer_init")
    BY DEF BootTimer
  <1>2. boot = 5 /\ boot' = 6 /\ pc = "boot" /\ ~iflag /\ halted' = halted
    BY <1>1, CallFacts, CallPlace
  <1>3. /\ isr_register_handler(32, "timer")
        /\ sys' = [sys EXCEPT !.drivers = sys.drivers \cup {"pit_timer"}]
        /\ UNCHANGED <<pc, iflag, gates, in_service>>
    BY SMTT(30) DEF BootTimer
  <1>4. InterruptsTypeOK /\ sys \in SysType /\ sys.heap /\ sys.drivers = {}
    BY <1>2 DEF BootInv
  <1>5. /\ isr_handlers' \in [Vector -> {"none", "timer", "keyboard", "syscall"}]
        /\ isr_handlers'[32] = "timer"
    BY <1>3, <1>4, Registers
  <1>6. InterruptsTypeOK'
    BY <1>2, <1>3, <1>4, <1>5 DEF InterruptsTypeOK
  <1>7. sys' \in SysType /\ sys'.drivers = {"pit_timer"} /\ sys'.heap
    BY <1>3, <1>4 DEF SysType
  <1> QED
    BY <1>2, <1>3, <1>5, <1>6, <1>7 DEF BootInv

(***************************************************************************)
(* keyboard_init preserves BootInv.                                        *)
(***************************************************************************)
LEMMA BootInvKeyboard ==
    ASSUME BootInv, BootKeyboard PROVE BootInv'
  <1>1. Calls("keyboard_init")
    BY DEF BootKeyboard
  <1>2. boot = 6 /\ boot' = 7 /\ pc = "boot" /\ ~iflag /\ halted' = halted
    BY <1>1, CallFacts, CallPlace
  <1>3. /\ isr_register_handler(33, "keyboard")
        /\ sys' = [sys EXCEPT !.drivers = sys.drivers \cup {"ps2_keyboard"}]
        /\ UNCHANGED <<pc, iflag, gates, in_service>>
    BY SMTT(30) DEF BootKeyboard
  <1>4. /\ InterruptsTypeOK /\ sys \in SysType /\ sys.heap
        /\ sys.drivers = {"pit_timer"} /\ isr_handlers[32] = "timer"
    BY <1>2 DEF BootInv
  <1>5. /\ isr_handlers' \in [Vector -> {"none", "timer", "keyboard", "syscall"}]
        /\ isr_handlers'[33] = "keyboard"
        /\ isr_handlers'[32] = isr_handlers[32]
    BY <1>3, <1>4, Registers
  <1>6. InterruptsTypeOK'
    BY <1>2, <1>3, <1>4, <1>5 DEF InterruptsTypeOK
  <1>7. /\ sys' \in SysType /\ sys'.heap
        /\ sys'.drivers = {"pit_timer", "ps2_keyboard"}
    BY SMTT(30), <1>3, <1>4 DEF SysType
  <1> QED
    BY <1>2, <1>3, <1>4, <1>5, <1>6, <1>7 DEF BootInv

(***************************************************************************)
(* syscall_init preserves BootInv.                                         *)
(***************************************************************************)
LEMMA BootInvSyscall ==
    ASSUME BootInv, syscall_init PROVE BootInv'
  <1>1. Calls("syscall_init")
    BY DEF syscall_init
  <1>2. boot = 11 /\ boot' = 12 /\ pc = "boot" /\ ~iflag /\ halted' = halted
    BY <1>1, CallFacts, CallPlace
  <1>3. /\ isr_register_handler(SYSCALL_VECTOR, "syscall")
        /\ UNCHANGED <<pc, iflag, gates, in_service, sys>>
    BY SMTT(30) DEF syscall_init
  <1>4. /\ InterruptsTypeOK
        /\ isr_handlers[32] = "timer" /\ isr_handlers[33] = "keyboard"
    BY <1>2 DEF BootInv
  <1>5. /\ isr_handlers' \in [Vector -> {"none", "timer", "keyboard", "syscall"}]
        /\ isr_handlers'[SYSCALL_VECTOR] = "syscall"
        /\ isr_handlers'[32] = isr_handlers[32]
        /\ isr_handlers'[33] = isr_handlers[33]
    BY <1>3, <1>4, Registers, HandledVectors
  <1>6. InterruptsTypeOK'
    BY <1>2, <1>3, <1>4, <1>5 DEF InterruptsTypeOK
  <1> QED
    BY <1>2, <1>3, <1>4, <1>5, <1>6 DEF BootInv

(***************************************************************************)
(* The other calls of kernel_main preserve BootInv.                        *)
(***************************************************************************)
LEMMA BootInvOther ==
    ASSUME BootInv, BootOther PROVE BootInv'
  <1>1. UNCHANGED <<pc, iflag, gates, isr_handlers, in_service>>
    BY DEF BootOther
  <1>2. sys \in SysType
    BY SMTT(30) DEF BootInv
  <1>3. ASSUME NEW name, Calls(name), sys' \in SysType,
               boot >= 3 => sys'.heap,
               IF boot = 4 THEN sys'.drivers = {}
                           ELSE sys'.drivers = sys.drivers,
               boot >= 8 => sys'.root,
               boot >= 9 => (sys'.frames => sys'.current),
               boot >= 13 => (sys'.frames => sys'.ready # {}),
               boot \notin {1, 5, 6, 11, 14}
        PROVE  BootInv'
    <2>1. /\ boot \in 0 .. 14 /\ boot' = boot + 1 /\ pc = "boot" /\ ~iflag
          /\ halted' = halted
      BY SMTT(30), <1>3, CallFacts
    <2>2. InterruptsTypeOK'
      BY SMTT(30), <1>1, <2>1 DEF BootInv, InterruptsTypeOK
    <2>3. /\ boot' >= 2 => gates' = (0 .. 47) \cup {SYSCALL_VECTOR}
          /\ boot' >= 6 => isr_handlers'[32] = "timer"
          /\ boot' >= 7 => isr_handlers'[33] = "keyboard"
          /\ boot' >= 12 => isr_handlers'[SYSCALL_VECTOR] = "syscall"
      BY SMTT(30), <1>1, <1>3, <2>1 DEF BootInv
    <2>4. /\ boot' = 5 => sys'.drivers = {}
          /\ boot' = 6 => sys'.drivers = {"pit_timer"}
          /\ boot' >= 7 => sys'.drivers = {"pit_timer", "ps2_keyboard"}
      BY SMTT(30), <1>3, <2>1 DEF BootInv
    <2>5. /\ boot' >= 4 => sys'.heap
          /\ boot' >= 9 => sys'.root
          /\ boot' >= 10 => (sys'.frames => sys'.current)
          /\ boot' >= 14 => (sys'.frames => sys'.ready # {})
      BY SMTT(30), <1>3, <2>1
    <2>6. boot' \in 0 .. 15 /\ boot' < 15 /\ in_service' = {} /\ ~iflag'
      BY <1>1, <1>3, <2>1 DEF BootInv
    <2> QED
      BY SMTT(30), <1>3, <2>2, <2>3, <2>4, <2>5, <2>6 DEF BootInv
  <1>4. CASE Calls("gdt_init") /\ UNCHANGED sys
    <2>1. boot = 0
      BY <1>4, CallFacts, CallPlace
    <2> QED
      BY <1>2, <1>3, <1>4, <2>1
  <1>5. CASE Calls("test_filesystem") /\ UNCHANGED sys
    <2>1. boot = 12
      BY SMTT(30), <1>5, CallFacts, CallPlace
    <2>2. sys.heap /\ sys.root /\ (sys.frames => sys.current)
      BY <2>1 DEF BootInv
    <2> QED
      BY <1>2, <1>3, <1>5, <2>1, <2>2
  <1>6. ASSUME Calls("pmm_init"), NEW f \in BOOLEAN,
               sys' = [sys EXCEPT !.frames = f]
        PROVE  BootInv'
    <2>1. boot = 2
      BY <1>6, CallFacts, CallPlace
    <2>2. sys' \in SysType /\ sys'.drivers = sys.drivers
      BY <1>2, <1>6 DEF SysType
    <2> QED
      BY <1>3, <1>6, <2>1, <2>2
  <1>7. CASE Calls("kheap_init") /\ sys' = [sys EXCEPT !.heap = TRUE]
    <2>1. boot = 3
      BY <1>7, CallFacts, CallPlace
    <2>2. sys' \in SysType /\ sys'.drivers = sys.drivers /\ sys'.heap
      BY ZenonT(60), <1>2, <1>7 DEF SysType
    <2> QED
      BY <1>3, <1>7, <2>1, <2>2
  <1>8. CASE Calls("driver_manager_init") /\ sys' = [sys EXCEPT !.drivers = {}]
    <2>1. boot = 4
      BY <1>8, CallFacts, CallPlace
    <2>2. sys' \in SysType /\ sys'.drivers = {} /\ sys'.heap = sys.heap
      BY <1>2, <1>8 DEF SysType
    <2>3. sys.heap
      BY <2>1 DEF BootInv
    <2> QED
      BY <1>3, <1>8, <2>1, <2>2, <2>3
  <1>9. CASE Calls("vfs_init") /\ sys' = [sys EXCEPT !.root = FALSE]
    <2>1. boot = 7
      BY <1>9, CallFacts, CallPlace
    <2>2. /\ sys' \in SysType /\ sys'.drivers = sys.drivers
          /\ sys'.heap = sys.heap
      BY ZenonT(60), <1>2, <1>9 DEF SysType
    <2>3. sys.heap
      BY <2>1 DEF BootInv
    <2> QED
      BY <1>3, <1>9, <2>1, <2>2, <2>3
  <1>10. CASE /\ Calls("ramfs_init")
              /\ sys' = [sys EXCEPT !.root = sys.root \/ sys.heap]
    <2>1. boot = 8
      BY <1>10, CallFacts, CallPlace
    <2>2. sys.heap
      BY <2>1 DEF BootInv
    <2>3. /\ sys' \in SysType /\ sys'.drivers = sys.drivers
          /\ sys'.heap = sys.heap /\ sys'.root
      BY ZenonT(60), <1>2, <1>10, <2>2 DEF SysType
    <2> QED
      BY <1>3, <1>10, <2>1, <2>2, <2>3
  <1>11. CASE /\ Calls("process_init")
              /\ sys' = [sys EXCEPT !.current = sys.heap /\ sys.frames]
    <2>1. boot = 9
      BY <1>11, CallFacts, CallPlace
    <2>2. sys.heap /\ sys.root
      BY <2>1 DEF BootInv
    <2>3. /\ sys' \in SysType /\ sys'.drivers = sys.drivers
          /\ sys'.heap = sys.heap /\ sys'.root = sys.root
          /\ sys'.frames = sys.frames /\ (sys.frames => sys'.current)
      BY ZenonT(60), <1>2, <1>11, <2>2 DEF SysType
    <2> QED
      BY <1>3, <1>11, <2>1, <2>2, <2>3
  <1>12. CASE Calls("scheduler_init") /\ sys' = [sys EXCEPT !.ready = {}]
    <2>1. boot = 10
      BY <1>12, CallFacts, CallPlace
    <2>2. sys.heap /\ sys.root /\ (sys.frames => sys.current)
      BY <2>1 DEF BootInv
    <2>3. /\ sys' \in SysType /\ sys'.drivers = sys.drivers
          /\ sys'.heap = sys.heap /\ sys'.root = sys.root
          /\ sys'.frames = sys.frames /\ sys'.current = sys.current
      BY <1>2, <1>12 DEF SysType
    <2> QED
      BY <1>3, <1>12, <2>1, <2>2, <2>3
  <1>13. CASE /\ Calls("process_create") /\ sys.heap /\ sys.frames
              /\ sys' = [sys EXCEPT !.ready =
                            sys.ready \cup {"worker_a", "worker_b"}]
    <2>1. boot = 13
      BY <1>13, CallFacts, CallPlace
    <2>2. sys.heap /\ sys.root /\ (sys.frames => sys.current)
      BY <2>1 DEF BootInv
    <2>3. /\ sys' \in SysType /\ sys'.drivers = sys.drivers
          /\ sys'.heap = sys.heap /\ sys'.root = sys.root
          /\ sys'.frames = sys.frames /\ sys'.current = sys.current
          /\ sys'.ready # {}
      BY ZenonT(60), <1>2, <1>13 DEF SysType
    <2> QED
      BY <1>3, <1>13, <2>1, <2>2, <2>3
  <1>14. CASE Calls("process_create") /\ ~(sys.heap /\ sys.frames) /\ UNCHANGED sys
    <2>1. boot = 13
      BY SMTT(30), <1>14, CallFacts, CallPlace
    <2>2. sys.heap /\ sys.root /\ ~sys.frames
      BY SMTT(30), <2>1, <1>14 DEF BootInv
    <2> QED
      BY SMTT(30), <1>2, <1>3, <1>14, <2>1, <2>2
  <1> QED
    BY <1>4, <1>5, <1>6, <1>7, <1>8, <1>9, <1>10, <1>11, <1>12, <1>13, <1>14
    DEF BootOther

(***************************************************************************)
(* Turning interrupts on preserves BootInv: everything is set up by then.  *)
(***************************************************************************)
LEMMA BootInvSti ==
    ASSUME BootInv, BootSti PROVE BootInv'
  <1>1. Calls("sti")
    BY DEF BootSti
  <1>2. boot = 14 /\ boot' = 15 /\ pc = "boot" /\ halted' = halted
    BY <1>1, CallFacts, CallPlace
  <1>3. /\ iflag' = TRUE /\ pc' = "idle"
        /\ UNCHANGED <<gates, isr_handlers, in_service, sys>>
    BY SMTT(30) DEF BootSti
  <1>4. InterruptsTypeOK'
    BY SMTT(30), <1>2, <1>3 DEF BootInv, InterruptsTypeOK
  <1> QED
    BY <1>2, <1>3, <1>4 DEF BootInv

(***************************************************************************)
(* Steps that change none of what kernel_main has set up.                  *)
(***************************************************************************)
LEMMA BootInvElsewhere ==
    ASSUME BootInv, UNCHANGED <<gates, isr_handlers, boot, sys>>,
           in_service' = {}, halted' \in BOOLEAN, pc' = pc \/ pc' # "boot",
           \/ iflag' = iflag /\ pc' \notin {"stopped", "panic", "away"}
           \/ iflag' = FALSE
           \/ UNCHANGED <<iflag, pc>>
           \/ ~iflag /\ iflag' = iflag
    PROVE  BootInv'
  <1>1. InterruptsTypeOK'
    <2>1. iflag' \in BOOLEAN
      BY ZenonT(60) DEF BootInv, InterruptsTypeOK
    <2> QED
      BY <2>1 DEF BootInv, InterruptsTypeOK
  <1>2. iflag' => boot' = 15 /\ pc' \notin {"boot", "stopped", "panic", "away"}
    BY ZenonT(60) DEF BootInv
  <1>3. pc' = "boot" => boot' < 15
    BY DEF BootInv
  <1> QED
    BY SMTT(30), <1>1, <1>2, <1>3 DEF BootInv

-----------------------------------------------------------------------------
(***************************************************************************)
(* The interrupt flag and the thread's place, in the steps of Thread.      *)
(***************************************************************************)
ThreadPlaces ==
    {"idle", "kb_test", "kb_hlt", "kb_store", "kb_take", "kb_copy",
     "tm_get", "tm_target", "tm_hlt", "tm_high", "tm_low"}

(***************************************************************************)
(* The thread's calls do not touch gates, handlers and controllers.        *)
(***************************************************************************)
LEMMA ThreadMoves ==
    ASSUME Thread
    PROVE  /\ UNCHANGED <<gates, isr_handlers, in_service, iflag, boot, sys>>
           /\ halted' \in {halted, TRUE}
           /\ pc \in ThreadPlaces /\ pc' \in ThreadPlaces
           /\ eax' = 0
  <1> USE DEF ThreadPlaces, Goto, Hlt, Idle
  <1>1. UNCHANGED <<boot, sys>> /\ eax' = 0
    BY DEF Thread
  <1> DEFINE Moves == /\ UNCHANGED <<gates, isr_handlers, in_service, iflag>>
                      /\ halted' \in {halted, TRUE}
                      /\ pc \in ThreadPlaces /\ pc' \in ThreadPlaces
  <1>2. CASE IdleHlt
    BY <1>1, <1>2 DEF IdleHlt
  <1>3. CASE ThreadCalls
    BY ZenonT(60), <1>1, <1>3 DEF ThreadCalls, ReadLoad, SleepCall, Begin
  <1>4. CASE GetcharStep
    BY ZenonT(60), <1>1, <1>4 DEF GetcharStep, GetcharTest, GetcharHlt, GetcharStore,
                      GetcharTake
  <1>5. CASE ReadStep
    BY ZenonT(60), <1>1, <1>5 DEF ReadStep, ReadCopy, ReadStore
  <1>6. CASE SleepStep
    BY ZenonT(60), <1>1, <1>6 DEF SleepStep, SleepTarget, SleepHlt, SleepHigh, SleepLow, End
  <1>7. CASE End("tm_get")
    BY <1>1, <1>7 DEF End
  <1> QED
    BY ZenonT(60), <1>2, <1>3, <1>4, <1>5, <1>6, <1>7 DEF Thread, ThreadSteps

(***************************************************************************)
(* An interrupt finds the thread where it runs, and acknowledges its line. *)
(***************************************************************************)
Interrupt == TimerInterrupt \/ KeyboardInterrupt \/ OtherInterrupt

(***************************************************************************)
(* An interrupt leaves no line in service, and the thread where it was or  *)
(* switched away.                                                          *)
(***************************************************************************)
LEMMA InterruptMoves ==
    ASSUME BootInv, Interrupt
    PROVE  /\ pc \notin {"boot", "stopped", "panic", "away"}
           /\ in_service' = {} /\ halted' = FALSE
           /\ UNCHANGED <<gates, isr_handlers, boot, sys, eax>>
           /\ \/ UNCHANGED <<pc, iflag>>
              \/ pc' = "away" /\ iflag' = FALSE
  <1>1. in_service = {} /\ Irq \subseteq 0 .. 15
    BY InterruptsAssumption DEF BootInv
  <1>2. iflag => pc \notin {"boot", "stopped", "panic", "away"}
    BY DEF BootInv
  <1>3. CASE TimerInterrupt
    <2>1. iflag /\ irq_handler(0, InService(0))
      BY <1>3 DEF TimerInterrupt, Deliverable
    <2>2. in_service' = {}
      BY <1>1, <2>1, Acknowledges
    <2> QED
      BY ZenonT(60), <1>2, <1>3, <2>1, <2>2 DEF TimerInterrupt, Returns, SwitchAway
  <1>4. CASE KeyboardInterrupt
    <2>1. iflag /\ irq_handler(1, InService(1))
      BY <1>4 DEF KeyboardInterrupt, Deliverable
    <2>2. in_service' = {}
      BY <1>1, <2>1, Acknowledges
    <2> QED
      BY <1>2, <1>4, <2>1, <2>2 DEF KeyboardInterrupt, Returns
  <1>5. CASE OtherInterrupt
    <2>1. PICK n \in Irq :
             /\ Deliverable(n)
             /\ \/ irq_handler(n, InService(n))
                \/ n = 7 /\ irq_handler(7, in_service)
                \/ n = 15 /\ irq_handler(15, in_service \cup {2})
      BY SMTT(30), <1>5 DEF OtherInterrupt
    <2>2. in_service' = {}
      <3>1. n \in 0 .. 15
        BY <1>1
      <3> QED
        BY <1>1, <2>1, <3>1, Acknowledges
    <2>3. iflag
      BY <2>1 DEF Deliverable
    <2> QED
      BY <1>2, <1>5, <2>2, <2>3 DEF OtherInterrupt, Returns
  <1> QED
    BY ZenonT(60), <1>3, <1>4, <1>5 DEF Interrupt

(***************************************************************************)
(* A system call and an exception.                                         *)
(***************************************************************************)
LEMMA SyscallMoves ==
    ASSUME Syscall
    PROVE  /\ UNCHANGED <<gates, isr_handlers, in_service, halted, keyboard,
                          timer, boot, sys>>
           /\ \/ UNCHANGED <<pc, iflag>>
              \/ pc' = "away" /\ iflag' = FALSE
           /\ eax' = eax \/ eax' \in {-1, 0, 2}
  <1>1. PICK num \in 0 .. NUM_SYSCALLS, fd \in {0, 1}, size \in {0, 2} :
          IF num \in {SYSCALL_EXIT, SYSCALL_YIELD} /\ sys.ready # {}
          THEN SwitchAway /\ UNCHANGED eax
          ELSE eax' \in syscall_handler(num, fd, size) /\ UNCHANGED <<pc, iflag>>
    BY DEF Syscall
  <1>2. syscall_handler(num, fd, size) \subseteq {-1, 0, 2}
    BY DEF syscall_handler, sys_write, sys_getpid
  <1>3. /\ \/ UNCHANGED <<pc, iflag>>
           \/ pc' = "away" /\ iflag' = FALSE
        /\ eax' = eax \/ eax' \in {-1, 0, 2}
    BY <1>1, <1>2 DEF SwitchAway
  <1> QED
    BY SMTT(30), <1>3 DEF Syscall

(***************************************************************************)
(* An exception ends in a panic and touches nothing else.                  *)
(***************************************************************************)
LEMMA ExceptionMoves ==
    ASSUME Exception
    PROVE  /\ UNCHANGED <<gates, isr_handlers, in_service, keyboard,
                          timer, boot, sys, eax>>
           /\ pc' = "panic" /\ iflag' = FALSE /\ halted' = TRUE
  BY DEF Exception, Panic

(***************************************************************************)
(* BootInv is preserved.                                                   *)
(***************************************************************************)
LEMMA BootInvNext ==
    ASSUME BootInv, [Next]_vars PROVE BootInv'
  <1>1. in_service = {} /\ halted \in BOOLEAN
    BY DEF BootInv, InterruptsTypeOK
  <1>2. CASE kernel_main
    <2>1. CASE BadMagic
      <3>1. /\ ~iflag /\ iflag' = iflag /\ pc' = "stopped" /\ halted' = TRUE
            /\ UNCHANGED <<gates, isr_handlers, in_service, boot, sys>>
        BY <2>1 DEF BadMagic, BootInv
      <3> QED
        BY SMTT(30), <1>1, <3>1, BootInvElsewhere
    <2> QED
      BY <1>2, <2>1, BootInvIdt, BootInvTimer, BootInvKeyboard, BootInvSyscall,
         BootInvOther, BootInvSti DEF kernel_main
  <1>3. CASE Thread
    <2>1. /\ UNCHANGED <<gates, isr_handlers, in_service, iflag, boot, sys>>
          /\ halted' \in BOOLEAN
          /\ pc' \notin {"boot", "stopped", "panic", "away"}
      BY ZenonT(60), <1>1, <1>3, ThreadMoves DEF ThreadPlaces
    <2> QED
      BY ZenonT(60), <1>1, <2>1, BootInvElsewhere
  <1>4. CASE Syscall
    <2>1. /\ UNCHANGED <<gates, isr_handlers, in_service, halted, boot, sys>>
          /\ \/ UNCHANGED <<pc, iflag>>
             \/ pc' = "away" /\ iflag' = FALSE
      BY ZenonT(60), <1>4, SyscallMoves
    <2> QED
      BY ZenonT(60), <1>1, <2>1, BootInvElsewhere
  <1>5. CASE Interrupt
    <2>1. /\ UNCHANGED <<gates, isr_handlers, boot, sys>>
          /\ in_service' = {} /\ halted' \in BOOLEAN
          /\ \/ UNCHANGED <<pc, iflag>>
             \/ pc' = "away" /\ iflag' = FALSE
      BY ZenonT(60), <1>5, InterruptMoves
    <2> QED
      BY ZenonT(60), <2>1, BootInvElsewhere
  <1>6. CASE Exception
    <2>1. /\ UNCHANGED <<gates, isr_handlers, in_service, boot, sys>>
          /\ pc' = "panic" /\ iflag' = FALSE /\ halted' \in BOOLEAN
      BY <1>6, ExceptionMoves
    <2> QED
      BY ZenonT(60), <1>1, <2>1, BootInvElsewhere
  <1>7. CASE UNCHANGED vars
    <2>1. UNCHANGED <<gates, isr_handlers, in_service, halted, iflag, pc, boot,
                      sys>>
      BY <1>7 DEF vars, cpu
    <2> QED
      BY <1>1, <2>1, BootInvElsewhere
  <1> QED
    BY SMTT(30), <1>2, <1>3, <1>4, <1>5, <1>6, <1>7 DEF Next, Interrupt

(***************************************************************************)
(* KeyboardInv is preserved.                                               *)
(***************************************************************************)
LEMMA KeyboardInvNext ==
    ASSUME BootInv, KeyboardInv, [Next]_vars PROVE KeyboardInv'
  <1>1. CASE kernel_main
    <2>1. CASE BootKeyboard
      <3>1. keyboard_init /\ pc = "boot" /\ pc' = pc
        BY <2>1 DEF BootKeyboard, Calls
      <3> QED
        BY <3>1, KeyboardInvBoot
    <2>2. CASE BootIdt \/ BootTimer \/ syscall_init \/ BootOther
      <3>1. UNCHANGED keyboard /\ pc' = pc
        BY <2>2 DEF BootIdt, BootTimer, syscall_init, BootOther
      <3> QED
        BY <3>1, KeyboardInvElsewhere
    <2>3. CASE BootSti \/ BadMagic
      <3>1. UNCHANGED keyboard /\ pc = "boot" /\ pc' \in {"idle", "stopped"}
        BY <2>3 DEF BootSti, BadMagic, Calls
      <3> QED
        BY <3>1, KeyboardInvElsewhere DEF Running, Reading
    <2> QED
      BY <1>1, <2>1, <2>2, <2>3 DEF kernel_main
  <1>2. CASE Thread
    <2>1. CASE GetcharStep
      BY <2>1, KeyboardInvGetchar
    <2>2. CASE ReadStep \/ \E size \in ReadSizes : ReadLoad(size)
      BY <2>2, KernelAssumption, KeyboardInvRead
    <2>3. CASE \/ IdleHlt
               \/ Goto("idle", "kb_test") /\ UNCHANGED <<keyboard, timer>>
      <3>1. UNCHANGED keyboard /\ pc = "idle" /\ pc' \in {"idle", "kb_test"}
        BY <2>3 DEF IdleHlt, Hlt, Goto
      <3> QED
        BY <3>1, KeyboardInvElsewhere DEF Running, Reading
    <2>4. CASE /\ UNCHANGED keyboard
               /\ \/ \E t \in Durations : SleepCall(t)
                  \/ Begin("tm_get", 0) \/ SleepStep \/ End("tm_get")
      <3>1. /\ pc \in {"idle", "tm_get", "tm_target", "tm_hlt", "tm_high",
                        "tm_low"}
            /\ pc' \in {"idle", "tm_get", "tm_target", "tm_hlt", "tm_high",
                         "tm_low"}
        BY <2>4 DEF SleepCall, Begin, End, SleepStep, SleepTarget, SleepHlt,
                    SleepHigh, SleepLow, Goto, Hlt
      <3> QED
        BY <2>4, <3>1, KeyboardInvElsewhere DEF Running, Reading
    <2> QED
      <3>1. CASE IdleHlt
        BY <2>3, <3>1
      <3>2. CASE ThreadCalls
        BY <2>2, <2>3, <2>4, <3>2, Zenon DEF ThreadCalls
      <3>3. CASE ThreadSteps
        BY <2>1, <2>2, <2>4, <3>3, Zenon DEF ThreadSteps
      <3> QED
        BY <1>2, <3>1, <3>2, <3>3 DEF Thread
  <1>3. CASE Syscall
    <2>1. UNCHANGED keyboard /\ (pc' = pc \/ pc' = "away")
      BY ZenonT(60), <1>3, SyscallMoves
    <2> QED
      BY <2>1, KeyboardInvElsewhere
  <1>4. CASE TimerInterrupt \/ OtherInterrupt
    <2>1. UNCHANGED keyboard /\ (pc' = pc \/ pc' = "away")
      BY ZenonT(60), <1>4, InterruptMoves DEF Interrupt, TimerInterrupt, OtherInterrupt
    <2> QED
      BY <2>1, KeyboardInvElsewhere
  <1>5. CASE KeyboardInterrupt
    <2>1. PICK scancode \in {"release", "dead", "char"} :
             keyboard_callback(scancode)
      BY <1>5 DEF KeyboardInterrupt
    <2>2. pc' = pc /\ pc # "boot" /\ Running
      BY ZenonT(60), <1>5, InterruptMoves
      DEF Interrupt, KeyboardInterrupt, Returns, Running
    <2> QED
      BY <2>1, <2>2, KeyboardInvCallback
  <1>6. CASE Exception
    <2>1. UNCHANGED keyboard /\ pc' = "panic"
      BY <1>6, ExceptionMoves
    <2> QED
      BY <2>1, KeyboardInvElsewhere
  <1>7. CASE UNCHANGED vars
    <2>1. UNCHANGED keyboard /\ pc' = pc
      BY <1>7 DEF vars, cpu
    <2> QED
      BY <2>1, KeyboardInvElsewhere
  <1> QED
    BY <1>1, <1>2, <1>3, <1>4, <1>5, <1>6, <1>7 DEF Next

(***************************************************************************)
(* TimerInv is preserved.                                                  *)
(***************************************************************************)
LEMMA TimerInvNext ==
    ASSUME BootInv, TimerInv, [Next]_vars PROVE TimerInv'
  <1>1. CASE kernel_main
    <2>1. CASE BootTimer
      <3>1. timer_init /\ pc = "boot" /\ pc' = pc
        BY <2>1 DEF BootTimer, Calls
      <3> QED
        BY <3>1, TimerInvBoot
    <2>2. CASE BootIdt \/ BootKeyboard \/ syscall_init \/ BootOther
      <3>1. UNCHANGED timer /\ pc' = pc
        BY <2>2 DEF BootIdt, BootKeyboard, syscall_init, BootOther
      <3> QED
        BY <3>1, TimerInvElsewhere
    <2>3. CASE BootSti \/ BadMagic
      <3>1. UNCHANGED timer /\ pc' \in {"idle", "stopped"}
        BY <2>3 DEF BootSti, BadMagic
      <3> QED
        BY <3>1, TimerInvElsewhere
    <2> QED
      BY <1>1, <2>1, <2>2, <2>3 DEF kernel_main
  <1>2. CASE Thread
    <2>1. CASE SleepStep
      BY <2>1, TimerInvSleep
    <2>2. CASE End("tm_get")
      BY <2>2, TimerInvEnd
    <2>3. CASE (\E t \in Durations : SleepCall(t)) \/ Begin("tm_get", 0)
      BY <2>3, TimerInvBegin DEF SleepCall
    <2>4. CASE /\ UNCHANGED timer
               /\ \/ IdleHlt \/ Goto("idle", "kb_test")
                  \/ \E size \in ReadSizes : ReadLoad(size)
                  \/ GetcharStep \/ ReadStep
      <3>1. pc' \in {"idle", "kb_test", "kb_hlt", "kb_store", "kb_take",
                     "kb_copy"}
        BY <2>4 DEF IdleHlt, Goto, Hlt, ReadLoad, ReadStep, ReadCopy, ReadStore,
                    GetcharStep, GetcharTest, GetcharHlt, GetcharStore,
                    GetcharTake, Idle
      <3> QED
        BY <2>4, <3>1, TimerInvElsewhere
    <2> QED
      BY <1>2, <2>1, <2>2, <2>3, <2>4
      DEF Thread, IdleHlt, ThreadCalls, ThreadSteps
  <1>3. CASE Syscall
    <2>1. UNCHANGED timer /\ (pc' = pc \/ pc' = "away")
      BY ZenonT(60), <1>3, SyscallMoves
    <2> QED
      BY <2>1, TimerInvElsewhere
  <1>4. CASE TimerInterrupt
    <2>1. timer_callback /\ pc # "boot" /\ (pc' = pc \/ pc' = "away")
      BY ZenonT(60), <1>4, InterruptMoves DEF Interrupt, TimerInterrupt
    <2> QED
      BY <2>1, TimerInvCallback
  <1>5. CASE KeyboardInterrupt \/ OtherInterrupt
    <2>1. UNCHANGED timer /\ pc' = pc
      BY <1>5 DEF KeyboardInterrupt, OtherInterrupt, Returns
    <2> QED
      BY <2>1, TimerInvElsewhere
  <1>6. CASE Exception
    <2>1. UNCHANGED timer /\ pc' = "panic"
      BY <1>6, ExceptionMoves
    <2> QED
      BY <2>1, TimerInvElsewhere
  <1>7. CASE UNCHANGED vars
    <2>1. UNCHANGED timer /\ pc' = pc
      BY <1>7 DEF vars, cpu
    <2> QED
      BY <2>1, TimerInvElsewhere
  <1> QED
    BY <1>1, <1>2, <1>3, <1>4, <1>5, <1>6, <1>7 DEF Next

-----------------------------------------------------------------------------
KernelInv ==
    BootInv /\ KeyboardInv /\ TimerInv /\ eax \in {-1, 0, 2}

(***************************************************************************)
(* The invariants of the boot, the keyboard and the timer hold together.   *)
(***************************************************************************)
LEMMA KernelInvariant == Spec => []KernelInv
  <1>1. Init => KernelInv
    <2> SUFFICES ASSUME Init PROVE KernelInv
      BY SMTT(30)
    <2>1. pc = "boot" /\ KeyboardInit /\ TimerInit /\ eax = 0
      BY DEF Init, InterruptsInit
    <2> QED
      BY <2>1, BootInvInit, KeyboardInvInit, TimerInvInit DEF KernelInv
  <1>2. KernelInv /\ [Next]_vars => KernelInv'
    <2> SUFFICES ASSUME KernelInv, [Next]_vars PROVE KernelInv'
      OBVIOUS
    <2>1. BootInv' /\ KeyboardInv' /\ TimerInv'
      BY BootInvNext, KeyboardInvNext, TimerInvNext DEF KernelInv
    <2>2. eax' = eax \/ eax' \in {-1, 0, 2}
      <3>1. CASE kernel_main
        BY <3>1 DEF kernel_main, BootIdt, BootTimer, BootKeyboard, syscall_init,
                    BootOther, BootSti, BadMagic, Calls
      <3>2. CASE Thread
        BY SMTT(30), <3>2 DEF Thread
      <3>3. CASE Interrupt
        BY <3>3 DEF Interrupt, TimerInterrupt, KeyboardInterrupt, OtherInterrupt
      <3> QED
        BY ZenonT(60), <3>1, <3>2, <3>3, SyscallMoves, ExceptionMoves
        DEF Next, Interrupt, vars
    <2> QED
      BY <2>1, <2>2 DEF KernelInv
  <1> QED
    BY <1>1, <1>2, PTL DEF Spec

(***************************************************************************)
(* The types of the kernel's state, kb_count and the indices within the    *)
(* buffer's size included.                                                 *)
(***************************************************************************)
THEOREM KernelTypes == Spec => []TypeOK
  <1>1. KernelInv => TypeOK
    <2>1. Len(BootOrder) = 15
      BY SMTT(30) DEF BootOrder
    <2> QED
      BY <2>1 DEF KernelInv, BootInv, KeyboardInv, TimerInv, TypeOK
  <1> QED
    BY <1>1, KernelInvariant, PTL

(***************************************************************************)
(* kernel_main's order of initialisation loses nothing: BootComplete.      *)
(***************************************************************************)
THEOREM BootLosesNothing == Spec => []BootComplete
  <1>1. KernelInv => BootComplete
    <2> SUFFICES ASSUME BootInv, iflag PROVE BootComplete
      BY SMTT(30) DEF KernelInv, BootComplete
    <2>1. boot = 15
      BY DEF BootInv
    <2>2. Vector \subseteq gates
      <3>1. gates = (0 .. 47) \cup {SYSCALL_VECTOR}
        BY <2>1 DEF BootInv
      <3>2. Fault \subseteq 0 .. 47 /\ \A n \in Irq : 32 + n \in 0 .. 47
        BY SMTT(30), InterruptsAssumption
      <3> QED
        BY <3>1, <3>2, Zenon DEF Vector
    <2> QED
      BY SMTT(30), <2>1, <2>2 DEF BootInv, BootComplete
  <1> QED
    BY <1>1, KernelInvariant, PTL

(***************************************************************************)
(* irq_handler leaves no line in service, whichever lines there are.       *)
(***************************************************************************)
THEOREM EveryLineAcknowledged == Spec => []LinesAcknowledged
  <1>1. KernelInv => LinesAcknowledged
    BY DEF KernelInv, BootInv, LinesAcknowledged
  <1> QED
    BY <1>1, KernelInvariant, PTL

(***************************************************************************)
(* The ring buffer of keyboard.c, for every KB_BUFFER_SIZE: as long as no  *)
(* key arrives in the middle of a reader's accesses, keys are read in the  *)
(* order in which keyboard_callback stored them.                           *)
(***************************************************************************)
THEOREM KeysReadInOrder == Spec => []KeysInOrder
  <1>1. KernelInv => KeysInOrder
    BY DEF KernelInv, KeyboardInv
  <1> QED
    BY <1>1, KernelInvariant, PTL

(***************************************************************************)
(* Whenever a key arrives, keyboard_getchar and keyboard_read return the   *)
(* key that is due or a newer one: never an empty slot or an older key.    *)
(***************************************************************************)
THEOREM NoStaleKeyRead == Spec => []KeysNeverStale
  <1>1. KernelInv => KeysNeverStale
    BY DEF KernelInv, KeyboardInv
  <1> QED
    BY <1>1, KernelInvariant, PTL

(***************************************************************************)
(* timer_get_ticks and timer_sleep read a time between the call and now,   *)
(* unless the low word wraps between the loads.                            *)
(***************************************************************************)
THEOREM TicksTornOnlyAtWrap == Spec => []TornOnlyAtWrap
  <1>1. KernelInv => TornOnlyAtWrap
    BY TornRead DEF KernelInv, TornOnlyAtWrap
  <1> QED
    BY <1>1, KernelInvariant, PTL

(***************************************************************************)
(* timer_sleep does not return early, for every duration and frequency     *)
(* whose product fits in a word.                                           *)
(***************************************************************************)
THEOREM SleepNeverShort == Spec => SleepsLongEnough
  <1>1. KernelInv /\ [Next]_vars =>
          [ Sleeping /\ pc' = "idle" /\ ms * timer_frequency < WORD
            => Now - began >= (ms * timer_frequency) \div MSEC ]_<<pc, timer>>
    <2> SUFFICES ASSUME KernelInv, [Next]_vars, Sleeping, pc' = "idle",
                        ms * timer_frequency < WORD
                 PROVE  Now - began >= (ms * timer_frequency) \div MSEC
      OBVIOUS
    <2>1. pc \in {"tm_target", "tm_hlt", "tm_high", "tm_low"} /\ pc' # pc
          /\ pc' \notin {"away", "panic"} /\ pc # "boot"
      BY DEF Sleeping
    <2>2. ~UNCHANGED vars
      BY <2>1 DEF vars, cpu
    <2>3. ~kernel_main
      BY <2>1 DEF kernel_main, BootIdt, BootTimer, BootKeyboard, syscall_init,
                  BootOther, BootSti, BadMagic, Calls
    <2>4. ~Syscall /\ ~Exception
      BY <2>1, SyscallMoves, ExceptionMoves
    <2>5. ~Interrupt
      BY ZenonT(60), <2>1, InterruptMoves DEF KernelInv
    <2>6. Thread
      BY SMTT(30), <2>2, <2>3, <2>4, <2>5 DEF Next, Interrupt
    <2>7. SleepStep
      BY <2>1, <2>6 DEF Thread, IdleHlt, ThreadCalls, ThreadSteps, Goto, Hlt,
          ReadLoad, ReadStep, ReadCopy, ReadStore, GetcharStep, GetcharTest,
          GetcharHlt, GetcharStore, GetcharTake, Idle, SleepCall, Begin, End
    <2> QED
      BY <2>7, SleptEnough DEF KernelInv
  <1> QED
    BY <1>1, KernelInvariant, PTL DEF Spec, SleepsLongEnough
=============================================================================
