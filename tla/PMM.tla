-------------------------------- MODULE PMM --------------------------------
(***************************************************************************)
(* The physical memory manager, kernel/memory/pmm.c.                       *)
(*                                                                         *)
(* frame_bitmap is the set of frames whose bit is 1 (in use).  pmm_init    *)
(* is modelled loop iteration by loop iteration, because its counter       *)
(* arithmetic on a boot loader's memory map is where it can go wrong; the  *)
(* other functions are one action each.  The kernel is single threaded     *)
(* with interrupts off whenever it calls this module.                      *)
(*                                                                         *)
(* A frame is named by its number; the code passes frame * PAGE_SIZE and   *)
(* divides by PAGE_SIZE again.  uint32_t arithmetic wraps at UINT32.       *)
(***************************************************************************)
EXTENDS Integers, Sequences, FiniteSets

CONSTANTS
    UINT32,         \* 2^32: the range of uint32_t
    PAGE_SIZE,      \* bytes in a frame (4096)
    PAGE_KB,        \* kilobytes in a frame (4), the divisor of the no-map path
    LOW_KB,         \* kilobytes below mem_upper (1024)
    BITMAP_FRAMES,  \* BITMAP_SIZE * 8: the frames the bitmap can describe
    RESERVED,       \* the frames below 1 MB (256)
    BootInfos       \* the multiboot_info_t records a boot loader may pass

(***************************************************************************)
(* A memory map region has a 64-bit addr and len.  flag20 is the bit 0x20  *)
(* of mbi->flags, which the code tests.  A Multiboot loader announces a    *)
(* memory map by the bit 0x40: there may be a map that the code ignores.   *)
(***************************************************************************)
Region == [addr : Nat, len : Nat, available : BOOLEAN]

BootInfo == [flag20 : BOOLEAN, mem_upper : Nat, mmap : Seq(Region)]

ASSUME PMMAssumption ==
    /\ UINT32 \in Nat /\ PAGE_SIZE \in Nat \ {0} /\ PAGE_KB \in Nat \ {0}
    /\ LOW_KB \in Nat /\ BITMAP_FRAMES \in Nat \ {0} /\ RESERVED \in Nat
    /\ RESERVED <= BITMAP_FRAMES /\ BITMAP_FRAMES < UINT32
    /\ BootInfos \subseteq BootInfo

VARIABLES
    mbi,            \* the argument of pmm_init
    pc,             \* where pmm_init is: "init", "scan", "clear", then "up"
    i,              \* the region the current loop of pmm_init looks at
    mem_end,        \* its local variable of the same name
    frame_bitmap,   \* the set of frames whose bit is set
    total_frames,
    used_frames,
    owned,          \* the frames callers hold: returned by pmm_alloc_frame or
                    \* claimed with pmm_mark_used and not yet given back
    oom             \* the last call was a pmm_alloc_frame that printed
                    \* "Out of physical memory!" and returned 0

pmm_vars == <<mbi, pc, i, mem_end, frame_bitmap, total_frames, used_frames,
              owned, oom>>

-----------------------------------------------------------------------------
Frames  == 0 .. BITMAP_FRAMES - 1
Managed == 0 .. total_frames - 1
Low     == 0 .. RESERVED - 1

(***************************************************************************)
(* used_frames++ and used_frames -= n on a uint32_t.                       *)
(***************************************************************************)
Add32(a, n) == IF a + n < UINT32 THEN a + n ELSE a + n - UINT32
Sub32(a, n) == IF n <= a THEN a - n ELSE a - n + UINT32

Cap(n) == IF n > BITMAP_FRAMES THEN BITMAP_FRAMES ELSE n

(***************************************************************************)
(* Mutant of Clears: the start of a region is rounded down.                *)
(***************************************************************************)
ClearsRoundDown(r, f) ==
    LET addr == r.addr % UINT32
        len  == r.len % UINT32
    IN  /\ r.available
        /\ addr \div PAGE_SIZE <= f
        /\ f < ((addr + len) % UINT32) \div PAGE_SIZE

(***************************************************************************)
(* The loop over one region clears frame f.  addr and len are truncated    *)
(* to 32 bits before the rounding, and the roundings themselves wrap.      *)
(***************************************************************************)
Clears(r, f) ==
    LET addr        == r.addr % UINT32
        len         == r.len % UINT32
        frame_start == ((addr + PAGE_SIZE - 1) % UINT32) \div PAGE_SIZE
        frame_end   == ((addr + len) % UINT32) \div PAGE_SIZE
    IN  r.available /\ frame_start <= f /\ f < frame_end

(***************************************************************************)
(* Mutant of Candidates: the scan stops one byte early.                    *)
(***************************************************************************)
CandidatesShort ==
    {f \in 0 .. 8 * ((total_frames \div 8) - 1) - 1 : f \notin frame_bitmap}

(***************************************************************************)
(* bitmap_find_free looks at whole bytes of the bitmap only: the last      *)
(* total_frames % 8 frames are never candidates.                           *)
(***************************************************************************)
Candidates == {f \in 0 .. 8 * (total_frames \div 8) - 1 : f \notin frame_bitmap}

IsFirstFree(f) == f \in Candidates /\ \A g \in Candidates : f <= g

-----------------------------------------------------------------------------
PMMInit ==
    /\ mbi \in BootInfos
    /\ pc = "init" /\ i = 1 /\ mem_end = 0
    /\ frame_bitmap = {} /\ total_frames = 0 /\ used_frames = 0
    /\ owned = {} /\ oom = FALSE

(***************************************************************************)
(* pmm_init without flag 0x20: every frame stays marked as used.           *)
(***************************************************************************)
InitNoMap ==
    /\ pc = "init" /\ ~mbi.flag20
    /\ total_frames' = Cap(((mbi.mem_upper + LOW_KB) % UINT32) \div PAGE_KB)
    /\ used_frames' = total_frames'
    /\ frame_bitmap' = Frames
    /\ pc' = "up"
    /\ UNCHANGED <<mbi, i, mem_end, owned, oom>>

InitMap ==
    /\ pc = "init" /\ mbi.flag20
    /\ frame_bitmap' = Frames
    /\ pc' = "scan"
    /\ UNCHANGED <<mbi, i, mem_end, total_frames, used_frames, owned, oom>>

(***************************************************************************)
(* First loop: the largest (truncated) end of any region.                  *)
(***************************************************************************)
ScanRegion ==
    /\ pc = "scan" /\ i <= Len(mbi.mmap)
    /\ LET region_end == (mbi.mmap[i].addr + mbi.mmap[i].len) % UINT32
       IN  mem_end' = IF region_end > mem_end THEN region_end ELSE mem_end
    /\ i' = i + 1
    /\ UNCHANGED <<mbi, pc, frame_bitmap, total_frames, used_frames, owned, oom>>

ScanDone ==
    /\ pc = "scan" /\ i > Len(mbi.mmap)
    /\ total_frames' = Cap(mem_end \div PAGE_SIZE)
    /\ used_frames' = total_frames'
    /\ frame_bitmap' = Frames
    /\ i' = 1
    /\ pc' = "clear"
    /\ UNCHANGED <<mbi, mem_end, owned, oom>>

(***************************************************************************)
(* Second loop: free the frames of an available region.  used_frames is    *)
(* decremented for every frame of the region, free already or not.         *)
(***************************************************************************)
ClearRegion ==
    /\ pc = "clear" /\ i <= Len(mbi.mmap)
    /\ LET cleared == {f \in Managed : Clears(mbi.mmap[i], f)}
       IN  /\ frame_bitmap' = frame_bitmap \ cleared
           /\ used_frames' = Sub32(used_frames, Cardinality(cleared))
    /\ i' = i + 1
    /\ UNCHANGED <<mbi, pc, mem_end, total_frames, owned, oom>>

(***************************************************************************)
(* Mutant of ReserveLow: i < 255 in the loop.                              *)
(***************************************************************************)
ReserveLowShort ==
    /\ pc = "clear" /\ i > Len(mbi.mmap)
    /\ frame_bitmap' = frame_bitmap \cup (Low \ {RESERVED - 1})
    /\ used_frames' = Add32(used_frames,
                            Cardinality((Low \ {RESERVED - 1}) \ frame_bitmap))
    /\ pc' = "up"
    /\ UNCHANGED <<mbi, i, mem_end, total_frames, owned, oom>>

(***************************************************************************)
(* Last loop: reserve the first megabyte.                                  *)
(***************************************************************************)
ReserveLow ==
    /\ pc = "clear" /\ i > Len(mbi.mmap)
    /\ frame_bitmap' = frame_bitmap \cup Low
    /\ used_frames' = Add32(used_frames, Cardinality(Low \ frame_bitmap))
    /\ pc' = "up"
    /\ UNCHANGED <<mbi, i, mem_end, total_frames, owned, oom>>

-----------------------------------------------------------------------------
(***************************************************************************)
(* Mutant of AllocFrame: bitmap_set(frame) is forgotten.                   *)
(***************************************************************************)
AllocFrameUnmarked ==
    /\ pc = "up"
    /\ \E f \in Candidates :
          /\ IsFirstFree(f)
          /\ owned' = IF f = 0 THEN owned ELSE owned \cup {f}
    /\ used_frames' = Add32(used_frames, 1)
    /\ oom' = FALSE
    /\ UNCHANGED <<mbi, pc, i, mem_end, frame_bitmap, total_frames>>

(***************************************************************************)
(* pmm_alloc_frame.  The address of frame 0 is the error value 0, so a     *)
(* caller that is given frame 0 takes it for a failure.                    *)
(***************************************************************************)
AllocFrame ==
    /\ pc = "up"
    /\ \E f \in Candidates :
          /\ IsFirstFree(f)
          /\ frame_bitmap' = frame_bitmap \cup {f}
          /\ owned' = IF f = 0 THEN owned ELSE owned \cup {f}
    /\ used_frames' = Add32(used_frames, 1)
    /\ oom' = FALSE
    /\ UNCHANGED <<mbi, pc, i, mem_end, total_frames>>

AllocFails ==
    /\ pc = "up" /\ Candidates = {}
    /\ oom' = TRUE
    /\ UNCHANGED <<mbi, pc, i, mem_end, frame_bitmap, total_frames,
                   used_frames, owned>>

(***************************************************************************)
(* Mutant of FreeFrame: the test of the frame's bit is dropped.            *)
(***************************************************************************)
FreeFrameUntested(f) ==
    /\ pc = "up"
    /\ f \in owned \/ f \notin frame_bitmap \/ f >= total_frames
    /\ IF f < total_frames
       THEN /\ frame_bitmap' = frame_bitmap \ {f}
            /\ used_frames' = Sub32(used_frames, 1)
       ELSE UNCHANGED <<frame_bitmap, used_frames>>
    /\ owned' = owned \ {f}
    /\ oom' = FALSE
    /\ UNCHANGED <<mbi, pc, i, mem_end, total_frames>>

(***************************************************************************)
(* pmm_free_frame and its alias pmm_mark_free.  Callers give back frames   *)
(* they hold; giving back a frame that is free already, or that the        *)
(* manager does not know, is ignored by the code and allowed here.  The    *)
(* code would also release a frame that pmm_init reserved; its one caller  *)
(* in the kernel is vmm_destroy_address_space, which gives back what vmm.c *)
(* got (FramesAccounted in ProcessSpaces).                                 *)
(***************************************************************************)
FreeFrame(f) ==
    /\ pc = "up"
    /\ f \in owned \/ f \notin frame_bitmap \/ f >= total_frames
    /\ IF f < total_frames /\ f \in frame_bitmap
       THEN /\ frame_bitmap' = frame_bitmap \ {f}
            /\ used_frames' = Sub32(used_frames, 1)
       ELSE UNCHANGED <<frame_bitmap, used_frames>>
    /\ owned' = owned \ {f}
    /\ oom' = FALSE
    /\ UNCHANGED <<mbi, pc, i, mem_end, total_frames>>

(***************************************************************************)
(* pmm_mark_used.                                                          *)
(***************************************************************************)
MarkUsed(f) ==
    /\ pc = "up"
    /\ IF f < total_frames /\ f \notin frame_bitmap
       THEN /\ frame_bitmap' = frame_bitmap \cup {f}
            /\ used_frames' = Add32(used_frames, 1)
            /\ owned' = owned \cup {f}
       ELSE UNCHANGED <<frame_bitmap, used_frames, owned>>
    /\ oom' = FALSE
    /\ UNCHANGED <<mbi, pc, i, mem_end, total_frames>>

PMMNext ==
    \/ InitNoMap \/ InitMap \/ ScanRegion \/ ScanDone
    \/ ClearRegion \/ ReserveLow
    \/ AllocFrame \/ AllocFails
    \/ \E f \in 0 .. BITMAP_FRAMES : FreeFrame(f) \/ MarkUsed(f)

PMMSpec == PMMInit /\ [][PMMNext]_pmm_vars

-----------------------------------------------------------------------------
(***************************************************************************)
(* Type invariant: the counters of pmm.c stay 32-bit numbers, and          *)
(* total_frames never exceeds what the bitmap describes, whatever map the  *)
(* boot loader passes.                                                     *)
(***************************************************************************)
PMMTypeOK ==
    /\ mbi \in BootInfos
    /\ pc \in {"init", "scan", "clear", "up"}
    /\ i \in Nat \ {0}
    /\ mem_end \in Nat
    /\ frame_bitmap \subseteq Frames
    /\ total_frames \in 0 .. BITMAP_FRAMES
    /\ used_frames \in 0 .. UINT32 - 1
    /\ owned \subseteq Managed
    /\ oom \in BOOLEAN

(***************************************************************************)
(* No frame is cleared for two regions of the map: the regions do not      *)
(* overlap, also after their addresses are cut to 32 bits.                 *)
(***************************************************************************)
NoAlias(m) ==
    \A j, k \in 1 .. Len(m.mmap) : \A f \in Frames :
        Clears(m.mmap[j], f) /\ Clears(m.mmap[k], f) => j = k

(***************************************************************************)
(* The counter agrees with the bitmap once total_frames is set: the        *)
(* used_frames that pmm_init logs, and that pmm_get_used_frames and        *)
(* pmm_get_free_frames report, is the number of marked managed frames, for *)
(* every map without aliasing and every sequence of allocations and        *)
(* releases, double releases included.                                     *)
(***************************************************************************)
Accounting ==
    NoAlias(mbi) => used_frames = IF pc \in {"clear", "up"}
                                  THEN Cardinality(frame_bitmap \cap Managed)
                                  ELSE 0

(***************************************************************************)
(* A frame that a caller of pmm_alloc_frame or pmm_mark_used holds is      *)
(* marked, so that pmm_alloc_frame cannot hand it to a second caller.      *)
(***************************************************************************)
OwnedMarked == owned \subseteq frame_bitmap

(***************************************************************************)
(* Once pmm_init is done, no frame of the first megabyte is free or held   *)
(* by a caller, and so pmm_alloc_frame never returns frame 0, whose        *)
(* address is its error value ("Reserve first 1 MB", pmm.c line 94).       *)
(***************************************************************************)
LowReserved == pc = "up" => /\ Low \subseteq frame_bitmap
                            /\ owned \cap Low = {}

(***************************************************************************)
(* Frame f lies inside a region the loader reported as available.          *)
(***************************************************************************)
InRam(f) ==
    \E j \in DOMAIN mbi.mmap :
        /\ mbi.mmap[j].available
        /\ mbi.mmap[j].addr <= f * PAGE_SIZE
        /\ (f + 1) * PAGE_SIZE <= mbi.mmap[j].addr + mbi.mmap[j].len

(***************************************************************************)
(* The region ends by 4 GB, and rounding its start up does not wrap.       *)
(***************************************************************************)
Below4GB(r) == r.addr + r.len <= UINT32 /\ r.addr + PAGE_SIZE <= UINT32

(***************************************************************************)
(* For a map that ends by 4 GB and has no region that starts inside the    *)
(* last page before it, the roundings of pmm_init only ever release frames *)
(* wholly inside available memory: every free frame and every frame a      *)
(* caller holds is real RAM.  A region in that last page would wrap        *)
(* frame_start to 0 and release every frame.                               *)
(***************************************************************************)
FreeIsRam ==
    (\A j \in DOMAIN mbi.mmap : Below4GB(mbi.mmap[j]))
    => \A f \in owned \cup (Frames \ frame_bitmap) : pc = "init" \/ InRam(f)

(***************************************************************************)
(* When pmm_alloc_frame reports that memory is exhausted, the frames that  *)
(* are still free are at most the total_frames % 8 that the byte-wise scan *)
(* of bitmap_find_free cannot see.                                         *)
(***************************************************************************)
OutOfMemoryLosesOnlyTail ==
    oom => Cardinality(Managed \ frame_bitmap) <= total_frames % 8
=============================================================================
