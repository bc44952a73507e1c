------------------------------- MODULE Kernel -------------------------------
(***************************************************************************)
(* kernel_main and what runs on its thread: the order of initialisation,   *)
(* then interrupts, the devices' functions and system calls.               *)
(*                                                                         *)
(* Nothing in the repository calls timer_sleep, keyboard_getchar and the   *)
(* like yet; here the thread of kernel_main calls them from its idle loop. *)
(* The parts that have modules of their own appear with what the others    *)
(* need of them.                                                           *)
(***************************************************************************)
EXTENDS Keyboard, Timer, Sequences

CONSTANTS
    ReadSizes       \* the sizes the keyboard driver's read is called with

ASSUME KernelAssumption == {0, 1} \subseteq Irq /\ ReadSizes \subseteq Nat

VARIABLES
    boot,           \* how many calls of BootOrder kernel_main has made
    sys,            \* what the calls have set up: see Init
    eax             \* what the last system call returned

vars == <<cpu, keyboard, timer, boot, sys, eax>>

(***************************************************************************)
(* Mutant of BootOrder: a driver comes before the driver manager.          *)
(***************************************************************************)
BootOrderLateManager == <<"gdt_init", "idt_init", "pmm_init", "kheap_init",
    "timer_init", "driver_manager_init", "keyboard_init", "vfs_init",
    "ramfs_init", "process_init", "scheduler_init", "syscall_init",
    "test_filesystem", "process_create", "sti">>

BootOrder == <<"gdt_init", "idt_init", "pmm_init", "kheap_init",
    "driver_manager_init", "timer_init", "keyboard_init", "vfs_init",
    "ramfs_init", "process_init", "scheduler_init", "syscall_init",
    "test_filesystem", "process_create", "sti">>

Init ==
    /\ InterruptsInit /\ KeyboardInit /\ TimerInit
    /\ boot = 0
    /\ sys = [frames |-> FALSE,     \* pmm_init has found memory to manage
              heap |-> FALSE,       \* heap_initialized
              drivers |-> {},       \* the names in driver_list
              root |-> FALSE,       \* vfs_root is set
              current |-> FALSE,    \* current_process is set
              ready |-> {}]         \* the ready queue
    /\ eax = 0

-----------------------------------------------------------------------------
Calls(name) ==
    /\ pc = "boot" /\ BootOrder[boot + 1] = name
    /\ boot' = boot + 1
    /\ UNCHANGED <<halted, eax>>

BootIdt ==
    /\ Calls("idt_init") /\ idt_init
    /\ UNCHANGED <<pc, iflag, keyboard, timer, sys>>

BootTimer ==
    /\ Calls("timer_init") /\ timer_init
    /\ isr_register_handler(32, "timer")
    /\ sys' = [sys EXCEPT !.drivers = @ \cup {"pit_timer"}]
    /\ UNCHANGED <<pc, iflag, gates, in_service, keyboard>>

BootKeyboard ==
    /\ Calls("keyboard_init") /\ keyboard_init
    /\ isr_register_handler(33, "keyboard")
    /\ sys' = [sys EXCEPT !.drivers = @ \cup {"ps2_keyboard"}]
    /\ UNCHANGED <<pc, iflag, gates, in_service, timer>>

syscall_init ==
    /\ Calls("syscall_init")
    /\ isr_register_handler(SYSCALL_VECTOR, "syscall")
    /\ UNCHANGED <<pc, iflag, gates, in_service, keyboard, timer, sys>>

(***************************************************************************)
(* The other calls.  kmalloc fails before kheap_init, and process_create   *)
(* without a frame for the page directory.                                 *)
(***************************************************************************)
BootOther ==
    /\ \/ /\ Calls("gdt_init") \/ Calls("test_filesystem")
          /\ UNCHANGED sys
       \/ Calls("pmm_init") /\ \E f \in BOOLEAN : sys' = [sys EXCEPT !.frames = f]
       \/ Calls("kheap_init") /\ sys' = [sys EXCEPT !.heap = TRUE]
       \/ Calls("driver_manager_init") /\ sys' = [sys EXCEPT !.drivers = {}]
       \/ Calls("vfs_init") /\ sys' = [sys EXCEPT !.root = FALSE]
       \/ Calls("ramfs_init") /\ sys' = [sys EXCEPT !.root = @ \/ sys.heap]
       \/ /\ Calls("process_init")
          /\ sys' = [sys EXCEPT !.current = sys.heap /\ sys.frames]
       \/ Calls("scheduler_init") /\ sys' = [sys EXCEPT !.ready = {}]
       \/ /\ Calls("process_create") /\ sys.heap /\ sys.frames
          /\ sys' = [sys EXCEPT !.ready = @ \cup {"worker_a", "worker_b"}]
       \/ /\ Calls("process_create") /\ ~(sys.heap /\ sys.frames)
          /\ UNCHANGED sys
    /\ UNCHANGED <<pc, iflag, gates, isr_handlers, in_service, keyboard, timer>>

BootSti ==
    /\ Calls("sti")
    /\ iflag' = TRUE /\ pc' = "idle"
    /\ UNCHANGED <<gates, isr_handlers, in_service, keyboard, timer, sys>>

(***************************************************************************)
(* The wrong magic number: cli and hlt forever.                            *)
(***************************************************************************)
BadMagic ==
    /\ pc = "boot" /\ boot = 0
    /\ pc' = "stopped" /\ halted' = TRUE
    /\ UNCHANGED <<gates, isr_handlers, in_service, iflag, keyboard, timer,
                   boot, sys, eax>>

kernel_main ==
    \/ BootIdt \/ BootTimer \/ BootKeyboard \/ syscall_init
    \/ BootOther \/ BootSti \/ BadMagic

-----------------------------------------------------------------------------
(***************************************************************************)
(* The scheduler takes the processor from this thread for good: the first  *)
(* process that yields saves its own context over the one saved for        *)
(* current_process (see Scheduler), and processes run with interrupts off. *)
(***************************************************************************)
SwitchAway == sys.ready # {} /\ pc' = "away" /\ iflag' = FALSE

(***************************************************************************)
(* An interrupt: acknowledge it, call the handler, return to the thread,   *)
(* which leaves hlt().  A spurious interrupt has no line in service.       *)
(***************************************************************************)
Returns == UNCHANGED <<pc, iflag, gates, isr_handlers>> /\ halted' = FALSE

TimerInterrupt ==
    /\ Deliverable(0) /\ irq_handler(0, InService(0))
    /\ isr_handlers[32] = "timer" /\ timer_callback
    /\ \/ Returns
       \/ SwitchAway /\ halted' = FALSE /\ UNCHANGED <<gates, isr_handlers>>
    /\ UNCHANGED <<keyboard, boot, sys, eax>>

KeyboardInterrupt ==
    /\ Deliverable(1) /\ irq_handler(1, InService(1))
    /\ isr_handlers[33] = "keyboard"
    /\ \E scancode \in {"release", "dead", "char"} : keyboard_callback(scancode)
    /\ Returns
    /\ UNCHANGED <<timer, boot, sys, eax>>

OtherInterrupt ==
    /\ \E n \in Irq :
          /\ isr_handlers[32 + n] = "none" /\ Deliverable(n)
          /\ \/ irq_handler(n, InService(n))
             \/ n = 7 /\ irq_handler(7, in_service)
             \/ n = 15 /\ irq_handler(15, in_service \cup {2})
    /\ Returns
    /\ UNCHANGED <<keyboard, timer, boot, sys, eax>>

Exception ==
    /\ \E v \in Fault : Panic(v)
    /\ UNCHANGED <<keyboard, timer, boot, sys, eax>>

-----------------------------------------------------------------------------
(***************************************************************************)
(* int 0x80 from the thread: what each function of syscall_table returns.  *)
(* Their effects are actions of Scheduler, FileSystem and Console.         *)
(***************************************************************************)
NUM_SYSCALLS == 12
SYSCALL_EXIT == 0
SYSCALL_READ == 1
SYSCALL_WRITE == 2
SYSCALL_OPEN == 3
SYSCALL_FORK == 5
SYSCALL_GETPID == 6
SYSCALL_YIELD == 7
SYSCALL_SBRK == 8
SYSCALL_MKDIR == 9
SYSCALL_UNLINK == 10
SYSCALL_STAT == 11

Unimplemented == {SYSCALL_READ, SYSCALL_FORK, SYSCALL_SBRK, SYSCALL_STAT}

sys_write(fd, size) == IF fd \in {1, 2} THEN size ELSE -1

sys_getpid == IF sys.current THEN 0 ELSE -1

syscall_handler(num, fd, size) ==
    IF num >= NUM_SYSCALLS \/ num \in Unimplemented THEN {-1}
    ELSE IF num = SYSCALL_WRITE THEN {sys_write(fd, size)}
    ELSE IF num = SYSCALL_GETPID THEN {sys_getpid}
    ELSE IF num \in {SYSCALL_OPEN, SYSCALL_MKDIR, SYSCALL_UNLINK}
    THEN IF sys.root THEN {0, -1} ELSE {-1}
    ELSE {0}

Syscall ==
    /\ isr_handlers[SYSCALL_VECTOR] = "syscall" /\ pc = "idle" /\ ~halted
    /\ \E num \in 0 .. NUM_SYSCALLS, fd \in {0, 1}, size \in {0, 2} :
          IF num \in {SYSCALL_EXIT, SYSCALL_YIELD} /\ sys.ready # {}
          THEN SwitchAway /\ UNCHANGED eax
          ELSE eax' \in syscall_handler(num, fd, size) /\ UNCHANGED <<pc, iflag>>
    /\ UNCHANGED <<gates, isr_handlers, in_service, halted, keyboard, timer,
                   boot, sys>>

-----------------------------------------------------------------------------
(***************************************************************************)
(* The thread: the idle loop, and calls of the devices' functions.         *)
(***************************************************************************)
IdleHlt == Hlt("idle", "idle") /\ UNCHANGED <<keyboard, timer>>

ThreadCalls ==
    \/ Goto("idle", "kb_test") /\ UNCHANGED <<keyboard, timer>>
    \/ \E size \in ReadSizes : ReadLoad(size) /\ UNCHANGED timer
    \/ \E t \in Durations : SleepCall(t) /\ UNCHANGED keyboard
    \/ Begin("tm_get", 0) /\ UNCHANGED keyboard

ThreadSteps ==
    \/ (GetcharStep \/ ReadStep) /\ UNCHANGED timer
    \/ (SleepStep \/ End("tm_get")) /\ UNCHANGED keyboard

Thread ==
    /\ IdleHlt \/ ThreadCalls \/ ThreadSteps
    /\ eax' = 0                        \* dead
    /\ UNCHANGED <<boot, sys>>

Next ==
    \/ kernel_main \/ Thread \/ Syscall
    \/ TimerInterrupt \/ KeyboardInterrupt \/ OtherInterrupt \/ Exception

(***************************************************************************)
(* Fairness: code that runs goes on, and the timer chip keeps raising its  *)
(* line.                                                                   *)
(***************************************************************************)
Spec ==
    /\ Init /\ [][Next]_vars
    /\ WF_vars(ThreadSteps /\ Thread)
    /\ WF_vars(TimerInterrupt)

-----------------------------------------------------------------------------
(***************************************************************************)
(* Type invariant of the kernel: among others, keyboard_callback and the   *)
(* readers keep kb_count and the indices inside the ring buffer.           *)
(***************************************************************************)
TypeOK ==
    /\ InterruptsTypeOK /\ KeyboardTypeOK /\ TimerTypeOK
    /\ boot \in 0 .. Len(BootOrder)
    /\ eax \in {-1, 0, 2}

(***************************************************************************)
(* The order of kernel_main: when interrupts are turned on, no later       *)
(* initialisation has wiped out what an earlier one registered.  Every     *)
(* vector has its gate, the devices and the system calls their handlers,   *)
(* both drivers are listed, / is mounted, and, given memory, the demo      *)
(* processes wait in the queue.                                            *)
(***************************************************************************)
BootComplete ==
    iflag => /\ Vector \subseteq gates
             /\ isr_handlers[32] = "timer" /\ isr_handlers[33] = "keyboard"
             /\ isr_handlers[SYSCALL_VECTOR] = "syscall"
             /\ sys.drivers = {"pit_timer", "ps2_keyboard"}
             /\ sys.root
             /\ sys.frames => sys.current /\ sys.ready # {}

(***************************************************************************)
(* irq_handler leaves no line in service, whether the line has a handler   *)
(* or not, comes through the second controller or is spurious: no device   *)
(* is cut off, and also the thread that a switch takes away leaves the     *)
(* controllers ready.                                                      *)
(***************************************************************************)
LinesAcknowledged == in_service = {}

(***************************************************************************)
(* A sleep ends, a tick between the test of timer_ticks and hlt() or       *)
(* between the loads of its words notwithstanding, unless the kernel       *)
(* panics or the scheduler takes the processor away for good.              *)
(***************************************************************************)
SleepEnds == Sleeping ~> pc \in {"idle", "panic", "away"}

(***************************************************************************)
(* keyboard_getchar returns once there is a key.  A key that arrives       *)
(* between its test of kb_count and hlt() does not wake it; the next timer *)
(* interrupt does.                                                         *)
(***************************************************************************)
GetcharReturns ==
    pc \in {"kb_test", "kb_hlt"} /\ kb_count > 0
       ~> pc \in {"idle", "panic", "away"}
=============================================================================
