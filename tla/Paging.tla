------------------------------- MODULE Paging -------------------------------
(***************************************************************************)
(* Address spaces: kernel/memory/vmm.c over the frames of pmm.c.           *)
(*                                                                         *)
(* A page_directory_t is three frames long (entries, tables_physical and   *)
(* physical_addr, ALIGNED(PAGE_SIZE)), but pmm_alloc_frame gives it one.   *)
(* So memory is modelled word by word: the second and the third frame of a *)
(* directory are whatever else is there.  A word is a frame number and the *)
(* present bit; no code looks at the other flags.                          *)
(*                                                                         *)
(* The kernel as shipped never calls vmm_init: kernel_directory is NULL,   *)
(* and processes are created and switched to with the translation off.     *)
(* Pages are mapped only after vmm_init.  Its identity map covers all of   *)
(* memory here, so that memory can be accessed by frame number; whether    *)
(* this stays so is KernelMapped.                                          *)
(*                                                                         *)
(* Next is every function of vmm.c, called in any order.  How process.c    *)
(* and scheduler.c call them is the module ProcessSpaces.                  *)
(***************************************************************************)
EXTENDS Integers, FiniteSetsExt

CONSTANTS
    ENTRIES,    \* the words of a frame, and the entries of a table (1024)
    FRAMES,     \* the frames of memory, as many as pmm.c looks at
    Taken,      \* the frames others have allocated
    LowMemory,  \* what the first frame may contain
    Pages,      \* the pages callers map: <<table_idx, page_idx>>
    Targets     \* the frames they map them to

Frame == 0 .. FRAMES - 1
Entry == 0 .. ENTRIES - 1

Absent(frame)  == [frame |-> frame, present |-> FALSE]
Present(frame) == [frame |-> frame, present |-> TRUE]
Word  == [frame : Entry, present : BOOLEAN]
Blank == [i \in Entry |-> Absent(0)]

ASSUME PagingAssumption ==
    /\ ENTRIES \in Nat /\ FRAMES \in 1 .. ENTRIES
    /\ {0} \cup Targets \subseteq Frame /\ 0 \in Taken /\ Taken \subseteq Frame
    /\ LowMemory \subseteq [Entry -> Word]
    /\ Pages \subseteq (Entry \ {0}) \X Entry

VARIABLES
    mem,                \* the words of every frame
    frame_bitmap,       \* the frames pmm.c has marked
    kernel_directory,   \* the frame of the directory; 0 is NULL
    current_directory,
    cr3,
    spaces              \* the directories that exist, the kernel's included

vars == <<mem, frame_bitmap, kernel_directory, current_directory, cr3, spaces>>

-----------------------------------------------------------------------------
(***************************************************************************)
(* pmm_alloc_frame, as PMM has it: the first free frame; 0 if there is     *)
(* none.                                                                   *)
(***************************************************************************)
Free(bitmap) == Frame \ bitmap
pmm_alloc_frame(bitmap) == IF Free(bitmap) = {} THEN 0 ELSE Min(Free(bitmap))

(***************************************************************************)
(* Writing word i of a frame, and memset(.., 0, ..) of some frames.  There *)
(* is nothing behind the last one.                                         *)
(***************************************************************************)
Put(m, frame, i, w) ==
    [f \in Frame |-> IF f = frame THEN [m[f] EXCEPT ![i] = w] ELSE m[f]]
Clear(m, frames) == [f \in Frame |-> IF f \in frames THEN Blank ELSE m[f]]

physical_addr(m, dir) == IF dir + 2 \in Frame THEN m[dir + 2][0].frame ELSE 0

(***************************************************************************)
(* Mutant of NewDirectory: physical_addr is set before the memset.         *)
(***************************************************************************)
NewDirectoryCleared(m, dir) ==
    Clear(Put(m, dir + 2, 0, Absent(dir)), dir .. dir + 2)

(***************************************************************************)
(* The start of vmm_init and of vmm_create_address_space: clear the        *)
(* directory and set physical_addr.                                        *)
(***************************************************************************)
NewDirectory(m, dir) == Put(Clear(m, dir .. dir + 2), dir + 2, 0, Absent(dir))

(***************************************************************************)
(* The rest of get_or_create_table once a frame is allocated.              *)
(***************************************************************************)
NewTable(m, dir, i, table) ==
    Clear(Put(Put(m, dir, i, Present(table)), dir + 1, i, Absent(table)), {table})

(***************************************************************************)
(* get_or_create_table: the memory, the bitmap and the table, 0 for NULL.  *)
(***************************************************************************)
get_or_create_table(m, bitmap, dir, i) ==
    LET table == pmm_alloc_frame(bitmap)
    IN  IF m[dir][i].present
        THEN [mem |-> m, bitmap |-> bitmap, table |-> m[dir][i].frame]
        ELSE IF table = 0
        THEN [mem |-> m, bitmap |-> bitmap, table |-> 0]
        ELSE [mem |-> NewTable(m, dir, i, table),
              bitmap |-> bitmap \cup {table}, table |-> table]

Mapped(m, bitmap, dir, i, p, phys) ==
    LET got == get_or_create_table(m, bitmap, dir, i)
    IN  IF got.table = 0 THEN got
        ELSE [got EXCEPT !.mem = Put(@, got.table, p, Present(phys))]

-----------------------------------------------------------------------------
Init ==
    /\ \E low \in LowMemory : mem = [f \in Frame |-> IF f = 0 THEN low ELSE Blank]
    /\ frame_bitmap = Taken
    /\ kernel_directory = 0 /\ current_directory = 0 /\ cr3 = 0
    /\ spaces = {}

(***************************************************************************)
(* vmm_init, called at boot or never.  The code does not test whether it   *)
(* got a frame: at boot there is one.  The VGA page is one of the pages    *)
(* that the loop maps.                                                     *)
(***************************************************************************)
vmm_init ==
    LET dir == pmm_alloc_frame(frame_bitmap)
        map[n \in 0 .. ENTRIES] ==
            IF n = 0
            THEN [mem |-> NewDirectory(mem, dir), bitmap |-> frame_bitmap \cup {dir},
                  table |-> 0]
            ELSE LET last == map[n - 1]
                 IN  Mapped(last.mem, last.bitmap, dir, 0, n - 1, n - 1)
    IN  /\ kernel_directory = 0 /\ spaces = {} /\ dir # 0
        /\ mem' = map[ENTRIES].mem
        /\ frame_bitmap' = map[ENTRIES].bitmap
        /\ kernel_directory' = dir
        /\ current_directory' = dir
        /\ cr3' = physical_addr(mem', dir)
        /\ spaces' = {dir}

(***************************************************************************)
(* Mutant of CopyKernel: it copies what its comment says, the upper half.  *)
(***************************************************************************)
CopyKernelUpper(m, dir) ==
    [m EXCEPT ![dir] = [i \in Entry |->
        IF i >= ENTRIES \div 2 /\ m[kernel_directory][i].present
        THEN m[kernel_directory][i] ELSE m[dir][i]]]

(***************************************************************************)
(* The loop of vmm_create_address_space.  With a NULL kernel_directory it  *)
(* reads the first frame of memory.                                        *)
(***************************************************************************)
CopyKernel(m, dir) ==
    [m EXCEPT ![dir] = [i \in Entry |->
        IF m[kernel_directory][i].present
        THEN m[kernel_directory][i] ELSE m[dir][i]]]

vmm_create_address_space ==
    LET dir == pmm_alloc_frame(frame_bitmap)
    IN  /\ dir # 0
        /\ mem' = CopyKernel(NewDirectory(mem, dir), dir)
        /\ frame_bitmap' = frame_bitmap \cup {dir}
        /\ spaces' = spaces \cup {dir}
        /\ UNCHANGED <<kernel_directory, current_directory, cr3>>

(***************************************************************************)
(* Mutant of Released: the kernel's tables are not spared.                 *)
(***************************************************************************)
ReleasedAll(dir) ==
    {mem[dir][i].frame : i \in {j \in Entry : mem[dir][j].present}}

(***************************************************************************)
(* The tables that vmm_destroy_address_space frees: those at indices where *)
(* the kernel has none now.                                                *)
(***************************************************************************)
Released(dir) ==
    {mem[dir][i].frame : i \in {j \in Entry : /\ mem[dir][j].present
                                              /\ ~mem[kernel_directory][j].present}}

(***************************************************************************)
(* Callers destroy a space that is not in use.                             *)
(***************************************************************************)
vmm_destroy_address_space(dir) ==
    /\ dir # kernel_directory /\ dir # current_directory
    /\ frame_bitmap' = frame_bitmap \ (Released(dir) \cup {physical_addr(mem, dir)})
    /\ spaces' = spaces \ {dir}
    /\ UNCHANGED <<mem, kernel_directory, current_directory, cr3>>

vmm_switch_directory(dir) ==
    /\ current_directory' = dir
    /\ cr3' = physical_addr(mem, dir)
    /\ UNCHANGED <<mem, frame_bitmap, kernel_directory, spaces>>

vmm_map_page(dir, i, p, phys) ==
    /\ kernel_directory # 0
    /\ LET mapped == Mapped(mem, frame_bitmap, dir, i, p, phys)
       IN  /\ mem' = mapped.mem
           /\ frame_bitmap' = mapped.bitmap
    /\ UNCHANGED <<kernel_directory, current_directory, cr3, spaces>>

vmm_unmap_page(dir, i, p) ==
    /\ kernel_directory # 0
    /\ mem[dir][i].present
    /\ mem' = Put(mem, mem[dir][i].frame, p, Absent(0))
    /\ UNCHANGED <<frame_bitmap, kernel_directory, current_directory, cr3, spaces>>

(***************************************************************************)
(* vmm_get_physical of the first byte of a page, in frames.                *)
(***************************************************************************)
vmm_get_physical(dir, i, p) ==
    IF mem[dir][i].present /\ mem[mem[dir][i].frame][p].present
    THEN mem[mem[dir][i].frame][p].frame ELSE 0

Next ==
    \/ vmm_init
    \/ vmm_create_address_space
    \/ \E dir \in spaces :
          \/ vmm_destroy_address_space(dir)
          \/ vmm_switch_directory(dir)
          \/ \E page \in Pages :
                \/ \E phys \in Targets : vmm_map_page(dir, page[1], page[2], phys)
                \/ vmm_unmap_page(dir, page[1], page[2])

Spec == Init /\ [][Next]_vars

-----------------------------------------------------------------------------
(***************************************************************************)
(* Type invariant: the variables of vmm.c hold directories that exist, and *)
(* only frames that exist are handed out.                                  *)
(***************************************************************************)
TypeOK ==
    /\ mem \in [Frame -> [Entry -> Word]]
    /\ frame_bitmap \subseteq Frame
    /\ kernel_directory \in spaces \cup {0}
    /\ current_directory \in spaces \cup {0}
    /\ cr3 \in Entry
    /\ spaces \subseteq Frame \ {0}

(***************************************************************************)
(* From vmm_init on, the first 4 MB are mapped to themselves in every      *)
(* space ("Identity-map the first 4 MB for kernel and hardware", vmm.c     *)
(* line 43), whatever is mapped elsewhere: vmm.c and the rest of the       *)
(* kernel use physical addresses as pointers.  It is not so when callers   *)
(* map pages; it is so while they only create processes (ProcessSpaces).   *)
(***************************************************************************)
KernelMapped ==
    kernel_directory # 0 =>
        \A dir \in spaces, p \in Entry :
            p \in Frame => /\ mem[dir][0].present
                           /\ vmm_get_physical(dir, 0, p) = p
                           /\ mem[mem[dir][0].frame][p].present
=============================================================================
