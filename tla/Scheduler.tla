----------------------------- MODULE Scheduler -----------------------------
(***************************************************************************)
(* Processes and the scheduler: kernel/process/process.c and               *)
(* kernel/process/scheduler.c, with the parts of the timer, the system     *)
(* calls and kernel_main that drive them.                                  *)
(*                                                                         *)
(* A thread is a stack that code runs on: the boot thread, which executes  *)
(* kernel_main, or a process running its entry function.  cpu is the       *)
(* thread that executes.  current_process is a variable of the code, and   *)
(* not the same thing: only process_init assigns it.                       *)
(*                                                                         *)
(* A call into this code is one step.  It is not interrupted: interrupt    *)
(* gates and the boot sequence keep the interrupt flag off, which the      *)
(* invariant AtomicCalls establishes rather than assumes.                  *)
(***************************************************************************)
EXTENDS Integers, Sequences, Functions

CONSTANTS
    Proc,           \* the process_t structures kmalloc can return
    Idle,           \* the one process_init allocates
    BOOT,           \* the boot thread
    NULL,
    MAX_PROCESSES,
    QUANTUM,        \* SCHEDULER_QUANTUM
    Calls           \* the functions that processes call besides
                    \* scheduler_yield; the demo processes call no other

Threads == Proc \cup {BOOT}

AllCalls == {"create", "add", "remove", "terminate", "block", "unblock",
             "exit", "sys_yield"}

ASSUME SchedulerAssumption ==
    /\ Idle \in Proc /\ BOOT \notin Proc /\ NULL \notin Threads
    /\ MAX_PROCESSES \in Nat /\ MAX_PROCESSES >= 2
    /\ QUANTUM \in Nat
    /\ Calls \subseteq AllCalls

VARIABLES
    process_table,      \* the process of each pid, or NULL
    next_pid,
    current_process,
    pid, state,         \* fields of each process_t
    context,            \* its saved eip, and esp by the thread it points into
    ready,              \* ready_queue_head, ready_queue_tail, proc->next
    ticks_remaining,
    cpu,                \* the thread that executes
    intr,               \* the interrupt flag
    tss_esp0,           \* the process whose kernel stack the TSS holds
    current_directory,  \* the process whose page directory was last given to
                        \* vmm_switch_directory
    queue,              \* history: the processes added to the ready queue and
                        \* not taken out, oldest first
    slice               \* history: timer interrupts since ticks_remaining was
                        \* last set to the quantum

table == <<process_table, next_pid, pid>>
machine == <<cpu, context, tss_esp0, current_directory>>
clock == <<ticks_remaining, slice>>
vars == <<table, current_process, state, ready, queue, machine, clock, intr>>

Pids == 0 .. MAX_PROCESSES - 1
Queued == Range(queue)

-----------------------------------------------------------------------------
(***************************************************************************)
(* The ready queue: a list linked through proc->next.                      *)
(***************************************************************************)

(***************************************************************************)
(* Mutants of scheduler_add: the process becomes the head of the queue;    *)
(* the tail pointer is not moved.                                          *)
(***************************************************************************)
scheduler_add_front(r, p) ==
    [head |-> p, tail |-> IF r.head = NULL THEN p ELSE r.tail,
     next |-> [r.next EXCEPT ![p] = r.head]]

scheduler_add_stale_tail(r, p) ==
    LET next == [r.next EXCEPT ![p] = NULL]
    IN  IF r.head = NULL
        THEN [head |-> p, tail |-> p, next |-> next]
        ELSE [head |-> r.head, tail |-> r.tail,
              next |-> [next EXCEPT ![r.tail] = p]]

scheduler_add(r, p) ==
    LET next == [r.next EXCEPT ![p] = NULL]
    IN  IF r.head = NULL
        THEN [head |-> p, tail |-> p, next |-> next]
        ELSE [head |-> r.head, tail |-> p,
              next |-> [next EXCEPT ![r.tail] = p]]

(***************************************************************************)
(* Taking the head, in scheduler_tick and scheduler_yield: proc->next is   *)
(* left as it is.                                                          *)
(***************************************************************************)
TakeHead(r) ==
    [head |-> r.next[r.head],
     tail |-> IF r.next[r.head] = NULL THEN NULL ELSE r.tail,
     next |-> r.next]

(***************************************************************************)
(* scheduler_remove; members are the processes its search walks over.      *)
(***************************************************************************)
scheduler_remove(r, p, members) ==
    IF r.head = p
    THEN [TakeHead(r) EXCEPT !.next = [r.next EXCEPT ![p] = NULL]]
    ELSE IF \E prev \in members : r.next[prev] = p
    THEN LET prev == CHOOSE x \in members : r.next[x] = p
         IN  [head |-> r.head,
              tail |-> IF r.tail = p THEN prev ELSE r.tail,
              next |-> [r.next EXCEPT ![prev] = r.next[p], ![p] = NULL]]
    ELSE r

-----------------------------------------------------------------------------
(***************************************************************************)
(* process_get_next_pid returns n: the first free slot from next_pid       *)
(* upward, else the first free slot from 1.  The mutant takes next_pid     *)
(* itself without looking at the slot.                                     *)
(***************************************************************************)
IsNextPidUnchecked(n) ==
    n = IF next_pid < MAX_PROCESSES THEN next_pid ELSE 1

IsNextPid(n) ==
    LET Free(i) == process_table[i] = NULL
        above   == next_pid .. MAX_PROCESSES - 1
    IN  /\ Free(n)
        /\ \/ n \in above /\ \A i \in next_pid .. n - 1 : ~Free(i)
           \/ /\ \A i \in above : ~Free(i)
              /\ n \in 1 .. next_pid - 1
              /\ \A i \in 1 .. n - 1 : ~Free(i)

(***************************************************************************)
(* The state of an unused process_t, and of one with an entry function.    *)
(***************************************************************************)
Zeroed   == [eip |-> "none", esp |-> NULL]
Entry(p) == [eip |-> "entry", esp |-> p]

(***************************************************************************)
(* After process_init, which gives the idle process slot 1 and pid 0, and  *)
(* scheduler_init; the creation of the idle process may have failed.       *)
(***************************************************************************)
Init ==
    /\ \E idle \in {Idle, NULL} :
          /\ process_table = [i \in Pids |-> IF i = 1 THEN idle ELSE NULL]
          /\ current_process = idle
          /\ state = [p \in Proc |-> IF p = idle THEN "RUNNING" ELSE "UNUSED"]
    /\ next_pid = 2
    /\ pid = [p \in Proc |-> 0]
    /\ context = [p \in Proc |-> Zeroed]
    /\ ready = [head |-> NULL, tail |-> NULL, next |-> [p \in Proc |-> NULL]]
    /\ queue = <<>>
    /\ ticks_remaining = QUANTUM /\ slice = 0
    /\ cpu = BOOT /\ intr = FALSE
    /\ tss_esp0 = NULL /\ current_directory = NULL

(***************************************************************************)
(* kernel_main before sti, and a process that uses the named function.     *)
(***************************************************************************)
Booting == cpu = BOOT /\ ~intr
May(call) == cpu \in Proc /\ call \in Calls

-----------------------------------------------------------------------------
(***************************************************************************)
(* process_create with an entry function.  Without a free slot it returns  *)
(* NULL and changes nothing.                                               *)
(***************************************************************************)
Create(p) ==
    /\ Booting \/ May("create")
    /\ p # Idle /\ state[p] = "UNUSED"
    /\ \E n \in Pids :
          /\ IsNextPid(n)
          /\ next_pid' = n + 1
          /\ pid' = [pid EXCEPT ![p] = n]
          /\ process_table' = [process_table EXCEPT ![n] = p]
    /\ state' = [state EXCEPT ![p] = "READY"]
    /\ context' = [context EXCEPT ![p] = Entry(p)]
    /\ ready' = [ready EXCEPT !.next[p] = NULL]
    /\ UNCHANGED <<current_process, queue, cpu, tss_esp0, current_directory,
                   clock, intr>>

(***************************************************************************)
(* process_create when the memory for the process_t, its page directory    *)
(* or its stack runs out: everything is given back, except next_pid.       *)
(***************************************************************************)
CreateFails ==
    /\ Booting \/ May("create")
    /\ \E n \in Pids : IsNextPid(n) /\ next_pid' = n + 1
    /\ UNCHANGED <<process_table, pid, current_process, state, ready, queue,
                   machine, clock, intr>>

(***************************************************************************)
(* scheduler_add for a ready process that is not in the queue, as the      *)
(* callers in kernel_main use it.                                          *)
(***************************************************************************)
Add(p) ==
    /\ Booting \/ May("add")
    /\ state[p] = "READY" /\ p \notin Queued
    /\ ready' = scheduler_add(ready, p)
    /\ queue' = Append(queue, p)
    /\ UNCHANGED <<table, current_process, state, machine, clock, intr>>

(***************************************************************************)
(* scheduler_remove, in the queue or not.                                  *)
(***************************************************************************)
Without(q, k) == SubSeq(q, 1, k - 1) \o SubSeq(q, k + 1, Len(q))

RemoveProc(p) ==
    /\ May("remove")
    /\ ready' = scheduler_remove(ready, p, Queued)
    /\ \/ p \notin Queued /\ queue' = queue
       \/ \E k \in DOMAIN queue : queue[k] = p /\ queue' = Without(queue, k)
    /\ UNCHANGED <<table, current_process, state, machine, clock, intr>>

(***************************************************************************)
(* process_table after process_terminate.                                  *)
(***************************************************************************)
TerminatedTable(p) ==
    IF pid[p] > 0 /\ pid[p] < MAX_PROCESSES
    THEN [process_table EXCEPT ![pid[p]] = NULL]
    ELSE process_table

(***************************************************************************)
(* process_terminate of a process found through its pid.  It may be in the *)
(* ready queue, and stays there.                                           *)
(***************************************************************************)
Terminate(p) ==
    /\ May("terminate")
    /\ \E i \in Pids : process_table[i] = p
    /\ state' = [state EXCEPT ![p] = "TERMINATED"]
    /\ process_table' = TerminatedTable(p)
    /\ UNCHANGED <<next_pid, pid, current_process, ready, queue, machine,
                   clock, intr>>

-----------------------------------------------------------------------------
(***************************************************************************)
(* context_switch saves the executing thread in prev and goes on with the  *)
(* context of next, at next's entry function or at a saved point.  The     *)
(* idle process has no page directory: vmm_init is never called, so that   *)
(* vmm_get_kernel_directory returns NULL.  current_directory is the        *)
(* variable of vmm.c.  What CR3 gets is a word of the directory, two       *)
(* frames behind it, which another process_create may have cleared: the    *)
(* module ProcessSpaces says when.                                         *)
(***************************************************************************)
context_switch(prev, next) ==
    IF prev = next
    THEN UNCHANGED machine
    ELSE /\ context' = [context EXCEPT ![prev] = [eip |-> "resume", esp |-> cpu]]
         /\ cpu' = context[next].esp
         /\ tss_esp0' = next
         /\ current_directory' = IF next = Idle THEN current_directory ELSE next

(***************************************************************************)
(* The common end of scheduler_tick and scheduler_yield, from process      *)
(* states s: the head of the queue runs, and current_process goes to the   *)
(* tail if it is marked as running.                                        *)
(***************************************************************************)
Dispatch(s) ==
    LET next    == ready.head
        requeue == s[current_process] = "RUNNING"
        rest    == TakeHead(ready)
    IN  /\ ready' = IF requeue THEN scheduler_add(rest, current_process)
                               ELSE rest
        /\ queue' = IF requeue THEN Append(Tail(queue), current_process)
                               ELSE Tail(queue)
        /\ state' = [[s EXCEPT ![current_process] = IF requeue THEN "READY"
                                                               ELSE @]
                        EXCEPT ![next] = "RUNNING"]
        /\ context_switch(current_process, next)

NewSlice == ticks_remaining' = QUANTUM /\ slice' = 0

(***************************************************************************)
(* scheduler_yield, from process states s.                                 *)
(***************************************************************************)
scheduler_yield(s) ==
    IF current_process = NULL \/ ready.head = NULL
    THEN state' = s /\ UNCHANGED <<ready, queue, machine, clock>>
    ELSE NewSlice /\ Dispatch(s)

-----------------------------------------------------------------------------
(***************************************************************************)
(* sti in kernel_main, after which the boot thread only halts.             *)
(***************************************************************************)
Sti ==
    /\ Booting
    /\ intr' = TRUE
    /\ UNCHANGED <<table, current_process, state, ready, queue, machine, clock>>

(***************************************************************************)
(* The timer interrupt: timer_callback calls scheduler_tick.               *)
(***************************************************************************)
TickDown ==
    /\ intr
    /\ ticks_remaining > 0
    /\ ticks_remaining' = ticks_remaining - 1
    /\ slice' = slice + 1
    /\ UNCHANGED <<table, current_process, state, ready, queue, machine, intr>>

(***************************************************************************)
(* Mutant of TickExpires: the interrupt flag is on in the new thread.      *)
(***************************************************************************)
TickExpiresTrapGate ==
    /\ intr
    /\ ticks_remaining = 0
    /\ NewSlice
    /\ IF current_process = NULL \/ ready.head \in {NULL, current_process}
       THEN UNCHANGED <<state, ready, queue, machine>>
       ELSE Dispatch(state)
    /\ UNCHANGED <<table, current_process, intr>>

(***************************************************************************)
(* The quantum is used up.  The interrupt gate has cleared the interrupt   *)
(* flag; only the iret of a handler that returns sets it again, and a      *)
(* handler that switches jumps to the new thread instead.                  *)
(***************************************************************************)
TickExpires ==
    /\ intr
    /\ ticks_remaining = 0
    /\ NewSlice
    /\ IF current_process = NULL \/ ready.head \in {NULL, current_process}
       THEN UNCHANGED <<state, ready, queue, machine, intr>>
       ELSE Dispatch(state) /\ intr' = FALSE
    /\ UNCHANGED <<table, current_process>>

(***************************************************************************)
(* What a process does: the demo processes call scheduler_yield forever.   *)
(***************************************************************************)
Yield ==
    /\ cpu \in Proc
    /\ scheduler_yield(state)
    /\ UNCHANGED <<table, current_process, intr>>

SysYield == May("sys_yield") /\ Yield

(***************************************************************************)
(* sys_exit terminates current_process, whoever called it, and yields.     *)
(* Without a current_process, it and scheduler_block_current do nothing.   *)
(***************************************************************************)
SysExit ==
    /\ May("exit")
    /\ current_process # NULL
    /\ process_table' = TerminatedTable(current_process)
    /\ scheduler_yield([state EXCEPT ![current_process] = "TERMINATED"])
    /\ UNCHANGED <<next_pid, pid, current_process, intr>>

Block ==
    /\ May("block")
    /\ current_process # NULL
    /\ scheduler_yield([state EXCEPT ![current_process] = "BLOCKED"])
    /\ UNCHANGED <<table, current_process, intr>>

(***************************************************************************)
(* scheduler_unblock of a blocked process that is not in the queue.        *)
(***************************************************************************)
Unblock(p) ==
    /\ May("unblock")
    /\ state[p] = "BLOCKED" /\ p \notin Queued
    /\ state' = [state EXCEPT ![p] = "READY"]
    /\ ready' = scheduler_add(ready, p)
    /\ queue' = Append(queue, p)
    /\ UNCHANGED <<table, current_process, machine, clock, intr>>

Next ==
    \/ CreateFails
    \/ \E p \in Proc : Create(p) \/ Add(p) \/ RemoveProc(p) \/ Terminate(p)
                       \/ Unblock(p)
    \/ Sti \/ TickDown \/ TickExpires
    \/ Yield \/ SysYield \/ SysExit \/ Block

Spec == Init /\ [][Next]_vars

(***************************************************************************)
(* kernel_main reaches sti, the timer chip keeps raising interrupts, and   *)
(* the loop of a demo process keeps calling scheduler_yield.               *)
(***************************************************************************)
Fairness == WF_vars(Sti) /\ WF_vars(TickDown \/ TickExpires) /\ WF_vars(Yield)

FairSpec == Spec /\ Fairness

(***************************************************************************)
(* The same boot and timer with processes that need not yield.             *)
(***************************************************************************)
TimerSpec == Spec /\ WF_vars(Sti) /\ WF_vars(TickDown \/ TickExpires)

-----------------------------------------------------------------------------
States == {"UNUSED", "READY", "RUNNING", "BLOCKED", "TERMINATED"}

Saved == [eip : {"none", "entry", "resume"}, esp : Threads \cup {NULL}]

(***************************************************************************)
(* Type invariant.  It includes that next_pid never passes the end of      *)
(* process_table; that cpu is a thread: no context_switch ever loads the   *)
(* zeroed context of the idle process and jumps to address 0; and that the *)
(* timer interrupt after the QUANTUM-th at the latest ends a time slice.   *)
(***************************************************************************)
TypeOK ==
    /\ process_table \in [Pids -> Proc \cup {NULL}]
    /\ next_pid \in 1 .. MAX_PROCESSES
    /\ current_process \in {Idle, NULL}
    /\ pid \in [Proc -> Pids]
    /\ state \in [Proc -> States]
    /\ context \in [Proc -> Saved]
    /\ ready \in [head : Proc \cup {NULL}, tail : Proc \cup {NULL},
                  next : [Proc -> Proc \cup {NULL}]]
    /\ queue \in Seq(Proc)
    /\ ticks_remaining \in 0 .. QUANTUM /\ slice \in 0 .. QUANTUM
    /\ cpu \in Threads
    /\ intr \in BOOLEAN
    /\ tss_esp0 \in Proc \cup {NULL}
    /\ current_directory \in Proc \cup {NULL}

(***************************************************************************)
(* The links of r are those of a list with the elements q: head, tail and  *)
(* next pointers agree, the last next is NULL, and no process is in the    *)
(* list twice.                                                             *)
(***************************************************************************)
Linked(r, q) ==
    /\ r.head = IF q = <<>> THEN NULL ELSE q[1]
    /\ r.tail = IF q = <<>> THEN NULL ELSE q[Len(q)]
    /\ \A i \in 1 .. Len(q) :
          r.next[q[i]] = IF i = Len(q) THEN NULL ELSE q[i + 1]
    /\ \A i, j \in 1 .. Len(q) : q[i] = q[j] => i = j

(***************************************************************************)
(* The ready queue of scheduler.c holds exactly the processes that were    *)
(* added and not taken out, in that order: scheduler_add, scheduler_remove *)
(* and the two inlined removals of the head lose none, duplicate none and  *)
(* never close a cycle, stale next pointers notwithstanding.               *)
(***************************************************************************)
QueueLinked == Linked(ready, queue)

(***************************************************************************)
(* The process in a slot of process_table has the slot's number as its     *)
(* pid, and process_get_by_pid finds every ready process by its pid, so    *)
(* that no two have the same one although process_get_next_pid reuses      *)
(* them.  The idle process, whose pid is reset to 0, keeps slot 1.         *)
(***************************************************************************)
PidFindsProcess ==
    /\ \A i \in Pids :
          /\ process_table[i] \in Proc \ {Idle} => pid[process_table[i]] = i
          /\ process_table[i] = Idle => i = 1
    /\ \A p \in Proc \ {Idle} :
          state[p] = "READY" => process_table[pid[p]] = p

(***************************************************************************)
(* Interrupts are on only while the boot thread halts.  A timer interrupt  *)
(* can therefore not come in the middle of a call that a process makes     *)
(* into scheduler.c or process.c, none of which takes a lock.  It cannot   *)
(* come at any other moment of a process either, which is not what the     *)
(* documentation says: see Preemptive below.                               *)
(***************************************************************************)
AtomicCalls == intr => cpu = BOOT

(***************************************************************************)
(* The TSS and current_directory belong to the process that executes:      *)
(* context_switch never leaves the stack of one process with the kernel    *)
(* stack or the page directory of another, also when it returns early.     *)
(***************************************************************************)
OwnEnvironment ==
    cpu \in Proc => tss_esp0 = cpu /\ current_directory = cpu

(***************************************************************************)
(* A switch goes to the process that has waited longest in the ready       *)
(* queue, and takes it out of the queue; and a process besides the idle    *)
(* one leaves the queue only to run, or because scheduler_remove takes it  *)
(* out.                                                                    *)
(***************************************************************************)
OldestFirst ==
    [][ /\ cpu' # cpu => queue # <<>> /\ cpu' = queue[1] /\ cpu' \notin Range(queue')
        /\ \A p \in Queued \ {Idle} :
              p \notin Range(queue') => cpu' = p \/ RemoveProc(p) ]_vars

(***************************************************************************)
(* If the idle process exists, a process in the ready queue does not wait  *)
(* there for ever, whatever else processes call: a timer interrupt and     *)
(* then yields bring it to the head, unless it is removed.                 *)
(***************************************************************************)
AddedRuns ==
    \A p \in Proc \ {Idle} :
        (current_process # NULL /\ p \in Queued) ~> (cpu = p \/ p \notin Queued)

-----------------------------------------------------------------------------
(***************************************************************************)
(* What the documentation claims, and two runs refute.                     *)
(***************************************************************************)

(***************************************************************************)
(* "Round-robin scheduling - Fair" (README.md line 64): processes that     *)
(* yield in a loop take turns forever.                                     *)
(***************************************************************************)
FairRoundRobin ==
    \A p \in Proc \ {Idle} : <>(cpu = p) => []<>(cpu = p)

(***************************************************************************)
(* "preemptive scheduling with configurable time quantum" (README.md line  *)
(* 64): the timer takes the CPU from a process that does not yield while   *)
(* another one waits in the ready queue.                                   *)
(***************************************************************************)
Preemptive ==
    \A p \in Proc \ {Idle} :
        (cpu = p /\ Queued \ {Idle, p} # {}) ~> cpu # p
=============================================================================
