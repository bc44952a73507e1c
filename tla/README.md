# NexusKernel in TLA+

Specifications of NexusKernel, a small x86 kernel in C (`src/kernel`), written
from its source, model-checked with TLC and, except for liveness, proved with
TLAPS.

## The system and its parts

| Part | Source | Module | Status |
|---|---|---|---|
| Physical memory manager: a bitmap of page frames | `memory/pmm.c` | `PMM` | modelled, proved |
| Kernel heap: `kmalloc`, `kfree`, `krealloc` | `memory/kheap.c` | `KHeap` | modelled, proved |
| Address spaces | `memory/vmm.c` | `Paging`, `ProcessSpaces`, against `AddressSpaces` | modelled; proved as processes use them |
| Processes and pids | `process/process.c` | `Scheduler` | modelled, proved |
| Ready queue, time slices, context switch | `process/scheduler.c` | `Scheduler` | modelled, proved |
| Contents of a RAM file | `fs/ramfs.c`, read and write | `RamFile`, against `File` | modelled, proved |
| Directory tree, paths, mounts | `fs/ramfs.c`, `fs/vfs.c` | `FileSystem` | modelled, proved |
| Driver framework | `drivers/driver.c` | `DriverManager` | modelled, proved |
| Interrupt dispatch | `cpu/idt.c` | `Interrupts` | modelled, proved |
| Keyboard | `drivers/keyboard.c` | `Keyboard` | modelled, proved |
| Timer | `drivers/timer.c` | `Timer` | modelled, proved |
| System calls | `syscall/syscall.c` | `Kernel`; effects in `Scheduler`, `FileSystem`, `Console` | modelled |
| Kernel entry | `kernel_main.c` | `Kernel`, `Scheduler` | all but the self-test, proved |
| Console and `kprintf` | `lib/stdio.c` | `Console` | modelled, proved |
| String functions | `lib/string.c` | `Strings`, used by `Console` | modelled, proved |
| GDT and TSS | `cpu/gdt.c` | `Scheduler` (stack of the TSS) | partly |
| Boot assembly, port I/O, types | | | not modelled: no state of their own |

`kernel_main` initialises the parts in order with interrupts off, creates two
processes that call `scheduler_yield` forever, turns interrupts on and halts.
From then on the timer interrupt calls `scheduler_tick`.  Processes need a heap
block, a page directory (a frame) and a stack (heap again).  The file system
allocates its nodes and buffers from the heap.  System calls enter through an
interrupt gate, so they run with interrupts off.

`PROJECT.json` lists the parts, the runs, the source lines of every definition,
the hazards of the code with the properties that cover them, the findings and
the theorems.

## How the modules correspond to the code

Definitions have the names of the C functions where one definition models one
function.  A definition with *Mutant of* in its comment is a deliberately wrong
variant, used to see that a property notices the mistake.

**PMM.**  `frame_bitmap` is the set of frames whose bit is 1.  `pmm_init` is
modelled one loop iteration per step (`InitNoMap`; `InitMap`, `ScanRegion`,
`ScanDone`, `ClearRegion`, `ReserveLow`), with addresses cut to 32 bits and
counters that wrap, because that arithmetic is where it can go wrong.
`AllocFrame`, `AllocFails`, `FreeFrame` and `MarkUsed` are the functions.
`owned`, the frames callers hold, and `oom` are history.

**KHeap.**  `heap` maps the offset of each block header to its fields.
`split_block` and `coalesce_block` are functions on it, and the calls are
actions.  `live` is what the callers hold; `failed` remembers a request that
was refused.  The search of `kmalloc` is stated as "the lowest free block that
fits": the list is in address order by `Tiling`, which is proved.  `krealloc`
copies all of the old block; for a size whose rounding wraps 32 bits the new
block is smaller, and the copy overwrites headers.  `CopyAndFree` models that
step and records it in `overrun`; no call follows it, because what a walk of
such a list does is not determined.  The properties say `Intact` where they
speak of the time before.

**Paging, ProcessSpaces, AddressSpaces.**  A `page_directory_t` is three frames
long and gets one, so `Paging` models memory word by word: whatever lies in the
two frames behind a directory is what `tables_physical` and `physical_addr`
share their place with.  A word is a frame number and the present bit.  With a
NULL `kernel_directory`, which is how the kernel is shipped, the loops read the
first frame of memory.  `spaces` are the directories that exist.  `Spec` of
`Paging` calls the functions of `vmm.c` in any order.  The kernel does not:
pages are mapped by `vmm_init` alone, if it is called, spaces are created by
`process_create`, switched to by `context_switch`, and destroyed only by a
`process_create` that gets no stack.  `ProcessSpaces` is that use, on the same
words, with `process_create` in two steps.  It takes from `AtomicCalls` of
`Scheduler` that nothing else runs between them.  `AddressSpaces` describes
spaces without memory: the tables each has, what new ones inherit, and the pages
a table maps.  The refinement mapping reads them back from the words.

**Scheduler.**  `process_table`, `next_pid`, `current_process`, the fields of
each `process_t`, and the ready queue as head, tail and next pointers.  The
machine is the executing thread (`cpu`), the interrupt flag and the TSS; of
`vmm_switch_directory` it has `current_directory`.  What that function loads
into CR3 is `physical_addr` of the directory, which is not always the directory
itself: see `LoadedExactly` in `ProcessSpaces`.
`cpu` and `current_process` differ: the code assigns the latter once, in
`process_init`.  `context_switch` saves the executing thread in `prev` and
continues with what `next` has saved.  `queue` and `slice` are history.
`Calls` says which functions processes call: all of them, or, for the kernel
as it is shipped, none besides `scheduler_yield`.

**File, RamFile.**  `File` is what a user of a file may expect.  `RamFile` is
`ramfs_read` and `ramfs_write` with the heap buffer, its capacity and its
growth.  A new buffer holds arbitrary bytes, since `kmalloc` does not clear it.
The refinement mapping takes the first `size` bytes of the buffer.

**FileSystem.**  Nodes are heap blocks with `parent`, `children` and
`next_sibling` pointers.  `dir_ops` says whether the node's operations include
create, unlink and mkdir: only directories made by `ramfs_do_mkdir` and roots
have them.  `Stored` is the effect of `strncpy` on a name, which `StoresName`, a
part of `CopiesExactly` in `Console`, confirms.  A path is the sequence of its
components; that `vfs_resolve_path` finds them in a string is `SplitsPath`.
Inode numbers, permissions and owners are left out: no code reads them.

**DriverManager.**  The list with its `next` pointers, the state of each driver
and, as history, how much more often each has had a successful `init` than a
`cleanup` (`running`), so that a repeated call of either shows.

**Interrupts, Keyboard, Timer, Kernel.**  `Kernel` composes the other three.
One thread executes `kernel_main`; `pc` is the place it has reached.  An
interrupt is one step, because every gate clears the interrupt flag, and it can
come between any two accesses of the thread's code to shared memory.  What those
accesses are is taken from the code that `gcc -m32 -O2` makes of the source,
since nothing is `volatile`: `keyboard_getchar` stores the decremented
`kb_count` before it reads the buffer, the driver's read works on copies, and
`timer_ticks` is loaded word by word.  `Interrupts` has the gates, the handlers
and the two 8259 controllers with their lines in service; the controllers are
external and modelled from how `irq_handler` uses them.  A key is the number of
its press.  `accepted`, `returned`, `got`, `raced` and `began` are history.

The parts with modules of their own appear in `Kernel` as a record `sys` of what
others need: whether the heap works, which drivers are listed, whether there is
a root, and so on.  The repository contains no caller of `timer_sleep` or
`keyboard_getchar` yet; the model lets the thread of `kernel_main` call them
from its idle loop.  The scheduler takes the processor from that thread for good
(`SwitchAway`): the first process that yields saves its own context over the one
saved for `current_process`, as `Scheduler` shows.

**Strings, Console.**  `Strings` has the functions of `string.c` as operators on
a memory of bytes, and the loop of `vfs_resolve_path` over its copy of a path.
`Console` is the screen, with one step per character, and `kprintf` as the
characters it passes on.  Loops are recursive functions: of the bytes copied
(`CopyUp`, `CopyDown`), the quotients (`Digits`), the rounds of `kprintf`
(`Output`) and those of the walk along a path (`PathNames`).  `paper` is
history: what a printer would have made of the same characters.  The model has
arbitrary memories, because the string functions are given whatever other parts
have put there.

## What the runs check

Passing runs (TLC explores all reachable states of the instance):

| Run | Instance | Shows |
|---|---|---|
| `frames` | 20 frames, 32-bit arithmetic scaled to 64; memory maps with holes, unaligned and high regions | held frames are marked; the counter counts the bitmap; the first megabyte is reserved; only RAM is free; exhaustion hides at most `total_frames % 8` frames |
| `heap` | 120 bytes, sizes up to wrapping ones, alignment 32 | blocks tile the heap, have one owner, hold the request; failure means no room; everything can be given back; only a size that wraps makes `krealloc` overrun a block |
| `process_spaces` | 12 frames of 12 words, all but the first and one in the middle free; with and without `vmm_init` | no space changes another's tables or pages; frames are neither shared nor, but for one, lost; what CR3 gets for each space |
| `scheduler` | idle and three processes, four pids, quantum 2, all calls, fairness | queue links, pids, atomicity, order of switches; nobody waits in the queue for ever |
| `file` | files up to 5 bytes, 32-bit sizes scaled to 16 | `RamFile` implements `File`; refusals only above the limit |
| `tree` | four nodes, two mounts, a short, a cut, a long and a slashed name | lists well linked, names apart, resolution finds every node, what can be lost |
| `drivers` | five drivers, two of one name, room for three | list intact, each init matched by one cleanup |
| `kernel` | a ring of two keys, four key presses, words of six values, five lines on both controllers, one fault | the boot order loses nothing; every interrupt is acknowledged; what readers of keys and ticks get when interrupted anywhere; sleeping and reading end |
| `console` | a screen of 3 by 3, tabs of 2, numbers up to 1023, every memory of five bytes out of `\0`, `/` and `a` | the screen shows the last lines; numbers read back; the string functions do what their names say; paths are split into components |

The type invariants of `PMM` (`PMMTypeOK`), `RamFile` (`RamFileTypeOK`),
`KHeap`, `Scheduler` and `Kernel` are theorems, as are `FullyCoalesced` of the
heap and `OwnEnvironment` of the scheduler (the TSS and `current_directory`
belong to the executing process); the runs do not repeat them.  `TreeLinked` and
`ListIntact` include the type invariants of the others.

The bounds are the least at which the interesting cases occur: a hole and a
partial byte in the frame map; a heap with room for four of the smallest
requests, so that a block can have allocated and free neighbours on both sides;
a queue with a head, a middle and a tail; pids that run out and are reused; a
file that grows twice and meets the limit; a directory with three children or
three levels; a driver in the middle of the list and a full list; directories
directly behind one another, one frame apart, and behind the kernel's table, up
to the end of memory; twice as many key presses as the buffer holds, and ticks
that pass the end of the low word during a sleep;
a tab that leaves the screen, one that does not, and more lines than it has.
File system nodes are interchangeable, and `tree`, which checks no liveness,
uses symmetry.

Runs that end in a counterexample, each against a sentence of the repository
(quoted in the findings of `PROJECT.json`):

| Run | The code |
|---|---|
| `scheduler_turns` | does not put a yielding process back: no round robin |
| `scheduler_preempts` | enters a process with interrupts off, so that the timer cannot take the processor from it: no preemption |
| `paging_contiguous` | gives a directory of three frames one: the second table overwrites an entry of the first, and a page of the kernel is no longer mapped |

More deviations show as limits of properties that hold, or in the actions:

* `pmm_init` looks at flag 0x20, a section table, for the memory map that 0x40
  announces (`InitNoMap`).  The last `total_frames % 8` frames are never
  allocated (`OutOfMemoryLosesOnlyTail`).  The frame counter is exact only
  without regions that alias below 4 GB (`Accounting`), and a region that starts
  in the last page below 4 GB releases every frame (`Below4GB` in `FreeIsRam`).
* A slice lasts `SCHEDULER_QUANTUM` + 1 ticks (the bound on `slice` in `TypeOK`,
  which is proved).  A process that is terminated while in the ready queue stays
  there and runs again (`Terminate` and `Dispatch`).  `AtomicCalls`, which all
  of the unlocked code depends on, holds for the reason that
  `scheduler_preempts` shows: no process runs with interrupts on.
* A directory reaches over the two frames behind the one it gets.  A later
  directory there clears `physical_addr` or puts its first entry in its place,
  and a switch to the earlier space then loads that into CR3 (`LoadedExactly`).
  The directory that `process_init` takes from the idle process stays allocated,
  as do those of terminated processes (`FramesAccounted`).
* Mounts other than `/` are recorded and never consulted (`vfs_resolve_path`).
* A key that arrives between a reader's load and store of `kb_count` is counted
  out again (`raced` in `KeysInOrder`); one that arrives between the test and
  `hlt` waits for the next timer interrupt (`GetcharReturns`).
* `timer_ticks` read while its low word wraps is up to 2^32 too large
  (`TornOnlyAtWrap`), and `ms * timer_frequency` wraps (`SleepsLongEnough`).
* The smallest `int32_t` may print as a lone minus (`NumbersReadBack`);
  `strncpy` writes up to n + 1 bytes (`StoresName`).

### Fairness

`scheduler_preempts` assumes weak fairness of `kernel_main` reaching `sti` and
of the timer interrupt while it is enabled, and nothing of the processes: a
process that only computes is what preemption is for.  If the switch left
interrupts on, the property would hold.

`scheduler` and `scheduler_turns` assume weak fairness of three things:
`kernel_main` reaches `sti` (straight-line code), the timer chip keeps raising
interrupts while they are enabled, and a process, like the loop of a demo
process, calls `scheduler_yield` again and again.  Nothing is assumed of a
process's other calls, which in `scheduler` it may make in between.

`kernel` assumes that the thread goes on with a call it has begun, unless it is
in `hlt` (straight-line code and loops), and that the timer keeps interrupting.
It does not assume that keys are pressed, that calls are made, or anything of
the other lines.  `SleepEnds` and `GetcharReturns` allow for a panic and for the
switch away; deadlock is not checked there, because those states, and the wrong
magic number, end the thread.

## What is proved

The proof modules establish the properties below for every value of the
constants that satisfies the modules' assumptions: positive sizes, a bitmap and
a heap that fit in 32 bits, distinct special values, a timer and a keyboard
line, path components that are not empty, memory that the identity map of
`vmm_init` covers, paper longer than the screen, a memory for strings that is
one block, an argument for the first conversion of every format, two free frames
at boot, and requests to a file whose end does not wrap 32 bits.

* **PMM** (`ResourceProofs`): `PMMTypeOK`, `OwnedMarked`, `LowReserved`,
  `Accounting`, `FreeIsRam`, `OutOfMemoryLosesOnlyTail`.  The first three need
  an invariant of the steps of `pmm_init`: nobody holds a frame before it ends,
  and up to then only frames below `total_frames` have been cleared.
  `Accounting` also needs that the frames of a region are still marked when the
  loop reaches it, which follows from the absence of aliasing.  `FreeIsRam` adds
  that what has been cleared so far is RAM, by a lemma on the rounding of a
  region to whole frames; it is this lemma that fails for a region in the last
  page below 4 GB.
* **KHeap** (`KHeapProofs`): `TypeOK`, `Tiling`, `FullyCoalesced`, `LiveBlocks`,
  `RequestsFit`, `FailsOnlyWhenFull`, `AllReturned`.  `HeapInv` is inductive. It
  says that the heap is tiled and coalesced, that `LiveBlocks` holds, that
  nothing exists before `kheap_init`, and that after a failed `kmalloc` no free
  block fits the request.  Merging preserves the tiling only because the links
  agree with the addresses, and `kfree` restores coalescing only because there
  was none missing before.  Lemmas say what splitting, absorbing and releasing
  do to a tiled heap.  `FailsOnlyWhenFull` and `AllReturned` follow from
  `HeapInv`: in a tiled and coalesced heap the gaps between allocated blocks are
  single free blocks.  `RequestsFit` is inductive relative to `HeapInv`; it
  excepts requests whose rounding or alignment wraps 32 bits, and says that only
  such a request ends the others by an overrun: without wrapping `kmalloc`
  returns at least `new_size` bytes, more than the old block has.
* **ProcessSpaces** (`PagingProofs`): `KernelMapped`, `FramesAccounted`,
  `LoadedExactly`, and `ImplementsAddressSpaces`, that what `vmm.c` writes to
  memory word by word for processes is a step of `AddressSpaces` or a stutter.
  They hold for any set of reserved frames that leaves two free, adjacent or
  not.  The overflow of a directory is harmless to the entries of others because
  of an order: `pmm_alloc_frame` returns the lowest free frame, and the only
  directory given back is the one made last, so that a new one always lies above
  all there have been, and clears upwards.  `SInv` is inductive.  It adds this
  order to the properties, and that every space has the present entries of the
  kernel's directory, that the kernel's table maps every page to itself, and
  what there is at each step of `process_create`.  The loop of `vmm_init` is a
  recursive function; a lemma says what it has written after n rounds.  For the
  functions of `vmm.c` in any order `KernelMapped` is false
  (`paging_contiguous`), and the others have no counterpart.
* **Scheduler** (`SchedulerProofs`): `TypeOK`, `QueueLinked`, `PidFindsProcess`,
  `AtomicCalls`, `OwnEnvironment`, `OldestFirst`.  They are inductive together
  with facts about the processes: the context of every process but idle is its
  entry point, the idle process is not queued while it is marked as running, and
  a queued or tabled process has been created.  Lemmas on linked lists say what
  adding, taking the head and removing do to the sequence the links represent.
* **RamFile** (`ResourceProofs`): `RamFileTypeOK`, `RefusedOnlyTooLarge`, and
  `ImplementsFile`, that every step of `RamFile` is a step of `File` or a
  stutter.  The invariant is that size, capacity and buffer agree.  The argument
  is that a new capacity holds the new size without wrapping, and that the first
  `size` bytes survive a change of the buffer.
* **FileSystem** (`FileSystemProofs`): `TreeLinked`, `UniqueNames`,
  `ResolveFindsNode`, and the action property `LostOnlyBelowUnlinked`.  `IInv`
  is inductive: every allocated node, also one that is no longer reachable, has
  a list of children that ends, whose members are allocated, point back to it
  and have names apart.  It has to include the unreachable nodes because
  `vfs_unlink` of a directory with children leaves them allocated, with a parent
  pointer to a block that is used again.  Lemmas say that putting a node in
  front of a list and taking one out leave the other lists alone, that
  `ramfs_finddir` stops at the child of that name, that the reachable nodes are
  the least set that contains the roots and is closed under children, and that a
  step of `vfs_resolve_path` undoes one of following the parent pointers.
* **DriverManager** (`ResourceProofs`): `ListIntact`, `InitMatchesCleanup`.
  The invariant is that the links represent a list of exactly the registered
  drivers; the stale link of a removed driver is why the links alone do not say
  so.  The count of `init` and `cleanup` calls needs that a driver outside the
  list is not `ACTIVE`.
* **Kernel** (`KernelProofs`, with the lemmas on the keyboard and the timer):
  `TypeOK`, `BootComplete`, `LinesAcknowledged`, `KeysInOrder`,
  `KeysNeverStale`, `TornOnlyAtWrap`, `SleepsLongEnough`.  `BootInv` says for
  each number of calls made what is set up by then.  `KeyboardInv` says that the
  indices are the numbers of keys stored and read, modulo the buffer size, and
  that every slot holds the last key that was stored there: a reader gets the
  key due or, after a race, one a multiple of the buffer size newer.  `TimerInv`
  says what the loaded words and the target have to do with the time of the
  call; a high word loaded early only makes the sleep longer.

* **Console** (`ConsoleProofs`): `TypeOK`, `ShowsLastLines`,
  `NumbersReadBack`, for screens and words of any size.  `ScreenInv` is
  inductive.  It says that the paper has at least as many lines as the screen,
  that the last of them are the rows of `vga_buffer`, and that the cursor is
  where the pen is.  Scrolling preserves it because the rows move towards the
  start of the buffer and `memmove` copies from the first byte on: every byte is
  read before it is overwritten.  `NumbersReadBack` rests on a lemma on the loop
  that divides by the base: the digits of the quotient followed by that of the
  remainder read as the dividend, and a leading zero would be the digit of a
  quotient that is 0, where the loop has stopped.
* **Strings** (`TextProofs`): `CopiesExactly`, `ComparesText`, `SplitsPath`, for
  a memory of any size and contents.  A copy loop is exact if it never reads an
  address it has written; `memmove` chooses its direction so that this holds.
  `strncpy` has two cases, a name that is cut and one that is padded.  The loops
  of `strcmp` and `strncmp` stop at the first place where the texts part, and a
  lemma says that the difference there is their lexicographic order.  For
  `SplitsPath` the invariant of the loop (`Walk`) is that the path from the
  token on is still as it was, although separators before it have become NULs,
  that the token is at the start of the path or behind a slash, and that the
  names looked up are the components that start before it.  A round moves the
  token on, so the loop is over after as many rounds as there are characters.

Where a proof needs induction (the length of a list, the depth of a tree, the
rounds of a loop), it takes the smallest number for which a claim fails, from
the well-foundedness of the naturals, and derives a contradiction.  That a
recursive function exists, and so is what its definition says, is proved the
same way: the loop's function for n rounds is extended by one more.

Only model-checked: liveness (`AddedRuns`, `SleepEnds`, `GetcharReturns`), which
is outside the prover's reach, and the three counterexamples.  `strchr` and
`strrchr` have no property of their own: `strchr` is used in `SplitsPath`, and
nothing in the kernel calls `strrchr`.

## Not modelled

* `boot.s`, the register frames of `isr.s` and the port instructions:
  straight-line assembly whose correctness is a matter of encoding.
* The bit layout of descriptors in `gdt.c`: constants, written once.
* The particular sequence of calls of `test_filesystem`: each call is an action
  of `FileSystem` or `RamFile`, whose runs include the sequence's steps in any
  order.
* The kernel's image, which `linker.ld` puts at 1 MB.  `pmm_init` reserves only
  what lies below, which is among the hazards; `ProcessSpaces` assumes that the
  frames it is given hold nothing that others use.
* The access flags of pages, the colour of the screen, the PIT's divisor: no
  property distinguishes their values.
* Calls outside their contract: freeing a pointer that `kmalloc_aligned` has
  moved, adding a process that is in the queue, releasing a frame that
  `pmm_init` reserved, offsets that wrap 32 bits in a file.
  No code in the repository makes them.
