--------------------------- MODULE ProcessSpaces ---------------------------
(***************************************************************************)
(* How the kernel uses the address spaces of vmm.c: process_init and       *)
(* process_create of kernel/process/process.c make them, context_switch of *)
(* kernel/process/scheduler.c switches to them.  There is no other caller: *)
(* no page is mapped but by vmm_init, process_terminate gives no space     *)
(* back, and only a process_create that finds no memory for the stack      *)
(* destroys one, the one it has just made.                                 *)
(*                                                                         *)
(* vmm_init may have run before; the kernel as shipped does not call it.   *)
(* These calls are not interrupted (AtomicCalls in Scheduler), so that     *)
(* there is at most one process_create at a time and no switch in it.      *)
(***************************************************************************)
EXTENDS Paging

VARIABLES
    step,   \* "boot" before process_init, "idle" in its process_create,
            \* "create" in a later one, "run" otherwise
    fresh,  \* the directory that process_create has got; 0 outside it
    users,  \* the directories that are some process's page_directory
    made    \* history: the frames that have been a directory

process == <<step, fresh, users, made>>

(***************************************************************************)
(* vmm_init does not test whether it gets frames for the directory and the *)
(* table: at boot there are two.                                           *)
(***************************************************************************)
ASSUME BootAssumption == \E f, g \in Frame \ Taken : f # g

-----------------------------------------------------------------------------
ProcessInit == Init /\ step = "boot" /\ fresh = 0 /\ users = {} /\ made = {}

BootPaging ==
    /\ step = "boot"
    /\ vmm_init
    /\ made' = {kernel_directory'}
    /\ UNCHANGED <<step, fresh, users>>

(***************************************************************************)
(* process_create for the idle process returns NULL before it has a        *)
(* directory.  Later calls that do change nothing here.                    *)
(***************************************************************************)
NoIdle ==
    /\ step = "boot"
    /\ step' = "run"
    /\ UNCHANGED <<vars, fresh, users, made>>

(***************************************************************************)
(* process_create up to the kmalloc of the stack.                          *)
(***************************************************************************)
GetDirectory ==
    /\ step \in {"boot", "run"}
    /\ vmm_create_address_space
    /\ step' = IF step = "boot" THEN "idle" ELSE "create"
    /\ fresh' = pmm_alloc_frame(frame_bitmap)
    /\ made' = made \cup {fresh'}
    /\ UNCHANGED users

(***************************************************************************)
(* The rest of it.  process_init then replaces the page_directory of the   *)
(* idle process by the kernel's, or NULL; its own stays allocated.         *)
(***************************************************************************)
GetStack ==
    /\ step \in {"idle", "create"}
    /\ users' = users \cup (IF step = "idle" THEN {kernel_directory} \ {0} ELSE {fresh})
    /\ step' = "run" /\ fresh' = 0
    /\ UNCHANGED <<vars, made>>

NoStack ==
    /\ step \in {"idle", "create"}
    /\ vmm_destroy_address_space(fresh)
    /\ step' = "run" /\ fresh' = 0
    /\ UNCHANGED <<users, made>>

(***************************************************************************)
(* context_switch to a process with a page_directory.                      *)
(***************************************************************************)
Switch(dir) ==
    /\ step = "run"
    /\ vmm_switch_directory(dir)
    /\ UNCHANGED process

ProcessNext ==
    \/ BootPaging \/ NoIdle
    \/ GetDirectory \/ GetStack \/ NoStack
    \/ \E dir \in users : Switch(dir)

ProcessSpec == ProcessInit /\ [][ProcessNext]_<<vars, process>>

-----------------------------------------------------------------------------
(***************************************************************************)
(* A directory's tables and the tables that vmm_init has made, read back   *)
(* from memory.                                                            *)
(***************************************************************************)
TableOf(dir, n) == IF mem[dir][n].present THEN mem[dir][n].frame ELSE 0
Tables ==
    IF kernel_directory = 0 THEN {}
    ELSE {TableOf(kernel_directory, n) : n \in Entry} \ {0}

Abstract == INSTANCE AddressSpaces WITH
    Index     <- Entry,
    kernel    <- kernel_directory,
    inherited <- [n \in Entry |-> TableOf(kernel_directory, n)],
    tables    <- [dir \in spaces |-> [n \in Entry |-> TableOf(dir, n)]],
    pages     <- [table \in Tables |-> [p \in Entry |->
                    IF mem[table][p].present THEN mem[table][p].frame ELSE -1]]

(***************************************************************************)
(* The words in memory are the address spaces that AddressSpaces           *)
(* describes, wherever the free frames lie: although the memset of         *)
(* vmm_create_address_space runs over two frames that it was not given, it *)
(* never reaches the entries of another directory or the kernel's table.   *)
(* What a space inherits without vmm_init are the words at address 0.      *)
(***************************************************************************)
ImplementsAddressSpaces == Abstract!Spec

(***************************************************************************)
(* No directory has been put in the last two frames of memory, where       *)
(* physical_addr lies outside it.                                          *)
(***************************************************************************)
InMemory == \A dir \in made : dir + 2 \in Frame

(***************************************************************************)
(* The marked frames are those of others, the directories and the kernel's *)
(* table, all different: vmm_destroy_address_space finds the right frame   *)
(* in physical_addr, releases it, and no table that it only copied, also   *)
(* if kernel_directory is NULL.  Processes lose at most one directory: the *)
(* one that process_init takes from the idle process.                      *)
(***************************************************************************)
FramesAccounted ==
    InMemory =>
        /\ frame_bitmap = Taken \cup spaces \cup Tables
        /\ (spaces \cup Tables) \cap Taken = {} /\ spaces \cap Tables = {}
        /\ \A lost, dir \in spaces \ (users \cup {kernel_directory, fresh}) : lost = dir

(***************************************************************************)
(* What vmm_switch_directory loads into CR3 for each directory.  It is the *)
(* directory itself exactly until a later one is put in one of the two     *)
(* frames behind it: one directly behind it clears physical_addr, and one  *)
(* in the frame after that has its first entry there.  The kernel's        *)
(* directory also loses it to its own table.                               *)
(***************************************************************************)
Loaded(dir) ==
    IF dir + 2 \in made THEN TableOf(kernel_directory, 0)
    ELSE IF dir + 1 \in made \/ dir + 2 \in Tables THEN 0
    ELSE dir

LoadedExactly ==
    \A dir \in spaces : dir + 2 \in Frame => physical_addr(mem, dir) = Loaded(dir)
=============================================================================
