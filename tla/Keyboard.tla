------------------------------ MODULE Keyboard ------------------------------
(***************************************************************************)
(* The PS/2 keyboard, kernel/drivers/keyboard.c: a ring buffer that the    *)
(* interrupt handler fills and keyboard_getchar and the driver's read      *)
(* empty.                                                                  *)
(*                                                                         *)
(* The readers run with interrupts on and share kb_count with the handler  *)
(* without protection.  Their steps are the accesses of the compiled code  *)
(* (gcc -m32 -O2): keyboard_getchar stores the decremented kb_count before *)
(* it reads the buffer; the driver's read works on copies of kb_read_idx   *)
(* and kb_count, and stores both at the end.  A character is represented   *)
(* by the number of the key press that the handler stored.                 *)
(***************************************************************************)
EXTENDS Interrupts

CONSTANTS
    KB_BUFFER_SIZE,
    MaxKeys         \* bound: key presses that are stored

ASSUME KeyboardAssumption ==
    KB_BUFFER_SIZE \in Nat \ {0} /\ MaxKeys \in Nat

VARIABLES
    kb_buffer, kb_read_idx, kb_write_idx, kb_count,
    kb_reg,         \* the reader's registers: count, idx, and the size that
                    \* is left of a driver's read; NoRegs when not in use
    accepted,       \* history: the keys stored,
    returned,       \* the number of keys given to readers,
    got,            \* the last of them,
    raced           \* and whether a key was stored between a reader's load of
                    \* kb_count and the end of its accesses

ring == <<kb_buffer, kb_read_idx, kb_write_idx, kb_count>>
reader == <<kb_reg, returned, got>>
keyboard == <<ring, reader, accepted, raced>>

Slot == 0 .. KB_BUFFER_SIZE - 1
Idle == "idle"

NoRegs == [count |-> 0, idx |-> 0, left |-> 0]

KeyboardInit ==
    /\ kb_buffer = [i \in Slot |-> 0]
    /\ kb_read_idx = 0 /\ kb_write_idx = 0 /\ kb_count = 0
    /\ kb_reg = NoRegs
    /\ accepted = 0 /\ returned = 0 /\ got = 0
    /\ raced = FALSE

-----------------------------------------------------------------------------
After(i) == (i + 1) % KB_BUFFER_SIZE

(***************************************************************************)
(* keyboard_init, called once, before any key.                             *)
(***************************************************************************)
keyboard_init ==
    /\ kb_read_idx' = 0 /\ kb_write_idx' = 0 /\ kb_count' = 0
    /\ UNCHANGED <<kb_buffer, reader, accepted, raced>>

Reading == pc \in {"kb_store", "kb_take", "kb_copy"}

HasRoom == kb_count < KB_BUFFER_SIZE

(***************************************************************************)
(* keyboard_callback: the release of a key, a key without a character, or  *)
(* one with.                                                               *)
(***************************************************************************)
keyboard_callback(scancode) ==
    IF scancode = "char" /\ HasRoom
    THEN /\ accepted < MaxKeys
         /\ accepted' = accepted + 1
         /\ kb_buffer' = [kb_buffer EXCEPT ![kb_write_idx] = accepted + 1]
         /\ kb_write_idx' = After(kb_write_idx)
         /\ kb_count' = kb_count + 1
         /\ raced' = (raced \/ Reading)
         /\ UNCHANGED <<kb_read_idx, reader>>
    ELSE UNCHANGED keyboard

-----------------------------------------------------------------------------
(***************************************************************************)
(* keyboard_getchar: test kb_count and hlt while it is 0; store the        *)
(* decremented count; take the character and advance kb_read_idx.          *)
(***************************************************************************)
GetcharTest ==
    /\ Goto("kb_test", IF kb_count = 0 THEN "kb_hlt" ELSE "kb_store")
    /\ kb_reg' = [NoRegs EXCEPT !.count = kb_count]
    /\ UNCHANGED <<ring, accepted, returned, got, raced>>

(***************************************************************************)
(* Mutants of GetcharHlt: the thread takes a key without looking again at  *)
(* kb_count; it never looks again.                                         *)
(***************************************************************************)
GetcharHltOnce == Hlt("kb_hlt", "kb_take") /\ UNCHANGED keyboard

GetcharHltAgain == Hlt("kb_hlt", "kb_hlt") /\ UNCHANGED keyboard

GetcharHlt == Hlt("kb_hlt", "kb_test") /\ UNCHANGED keyboard

GetcharStore ==
    /\ Goto("kb_store", "kb_take")
    /\ kb_count' = kb_reg.count - 1
    /\ kb_reg' = NoRegs
    /\ UNCHANGED <<kb_buffer, kb_read_idx, kb_write_idx, accepted, returned,
                   got, raced>>

(***************************************************************************)
(* Mutant of GetcharTake: kb_read_idx is not advanced.                     *)
(***************************************************************************)
GetcharTakeStays ==
    /\ Goto("kb_take", Idle)
    /\ got' = kb_buffer[kb_read_idx]
    /\ returned' = returned + 1
    /\ UNCHANGED <<ring, kb_reg, accepted, raced>>

GetcharTake ==
    /\ Goto("kb_take", Idle)
    /\ got' = kb_buffer[kb_read_idx]
    /\ returned' = returned + 1
    /\ kb_read_idx' = After(kb_read_idx)
    /\ UNCHANGED <<kb_buffer, kb_write_idx, kb_count, kb_reg, accepted, raced>>

(***************************************************************************)
(* keyboard_driver_read of size characters at most.                        *)
(***************************************************************************)
ReadLoad(size) ==
    /\ size > 0 /\ kb_count > 0        \* otherwise nothing is done
    /\ Goto(Idle, "kb_copy")
    /\ kb_reg' = [count |-> kb_count, idx |-> kb_read_idx, left |-> size]
    /\ UNCHANGED <<ring, accepted, returned, got, raced>>

ReadCopy ==
    /\ kb_reg.left > 0 /\ kb_reg.count > 0
    /\ Goto("kb_copy", "kb_copy")
    /\ got' = kb_buffer[kb_reg.idx]
    /\ returned' = returned + 1
    /\ kb_reg' = [count |-> kb_reg.count - 1, idx |-> After(kb_reg.idx),
                  left |-> kb_reg.left - 1]
    /\ UNCHANGED <<ring, accepted, raced>>

ReadStore ==
    /\ kb_reg.left = 0 \/ kb_reg.count = 0
    /\ Goto("kb_copy", Idle)
    /\ kb_read_idx' = kb_reg.idx /\ kb_count' = kb_reg.count
    /\ kb_reg' = NoRegs
    /\ UNCHANGED <<kb_buffer, kb_write_idx, accepted, returned, got, raced>>

GetcharStep == GetcharTest \/ GetcharHlt \/ GetcharStore \/ GetcharTake
ReadStep == ReadCopy \/ ReadStore

-----------------------------------------------------------------------------
(***************************************************************************)
(* The keys still to be read, as kb_count and the reader's registers have  *)
(* it: keyboard_getchar has counted a key down that it has not read yet,   *)
(* the driver's read has read keys that it has not counted down.           *)
(***************************************************************************)
Pending ==
    IF pc = "kb_take" THEN kb_count + 1
    ELSE IF pc = "kb_copy" THEN kb_reg.count
    ELSE kb_count

(***************************************************************************)
(* The reader has not been cut off in the middle of its accesses.          *)
(***************************************************************************)
Running == pc \notin {"panic", "away"}

KeyboardTypeOK ==
    /\ kb_buffer \in [Slot -> 0 .. MaxKeys]
    /\ kb_read_idx \in Slot /\ kb_write_idx \in Slot
    /\ kb_count \in 0 .. KB_BUFFER_SIZE
    /\ kb_reg \in [count : 0 .. KB_BUFFER_SIZE, idx : Slot, left : Nat]
    /\ accepted \in 0 .. MaxKeys /\ returned \in 0 .. MaxKeys
    /\ got \in 0 .. MaxKeys /\ raced \in BOOLEAN

(***************************************************************************)
(* As long as no key arrives in the middle of a reader's accesses, keys    *)
(* are read in the order in which keyboard_callback stored them, none      *)
(* twice, and none that was stored is forgotten.  This is what the         *)
(* unprotected kb_count can guarantee: a key in the middle is counted out  *)
(* again by the reader's store, and a full buffer then overwrites keys.    *)
(***************************************************************************)
KeysInOrder ==
    Running /\ ~raced => got = returned /\ Pending = accepted - returned

(***************************************************************************)
(* Whatever arrives in the middle of a reader's accesses, kb_count never   *)
(* promises a key that is not there, and a reader gets the key that is due *)
(* or a newer one that has overwritten it: never an empty slot, never a    *)
(* key from before the one due.                                            *)
(***************************************************************************)
KeysNeverStale ==
    /\ Running => Pending <= accepted - returned
    /\ got >= returned /\ (got - returned) % KB_BUFFER_SIZE = 0
=============================================================================
