----------------------------- MODULE Interrupts -----------------------------
(***************************************************************************)
(* Interrupt dispatch, kernel/cpu/idt.c: the gates, the table of handlers, *)
(* and the two interrupt controllers that irq_handler acknowledges.        *)
(*                                                                         *)
(* One kernel thread executes; pc is the place in the modelled code that   *)
(* it has reached.  All gates are interrupt gates: a handler runs with     *)
(* the interrupt flag off, so that an interrupt is one step.               *)
(***************************************************************************)
EXTENDS Integers, FiniteSetsExt

CONSTANTS
    Irq,            \* the lines that devices raise
    Fault           \* the processor exceptions that occur

SYSCALL_VECTOR == 128
Vector == Fault \cup {32 + n : n \in Irq} \cup {SYSCALL_VECTOR}

ASSUME InterruptsAssumption ==
    Irq \subseteq 0 .. 15 /\ Fault \subseteq 0 .. 31

VARIABLES
    gates,          \* the vectors whose entry in idt_entries is set
    isr_handlers,   \* the handler of each vector, or "none"
    in_service,     \* the lines the controllers wait to see acknowledged
    iflag,          \* the interrupt flag
    halted,         \* the processor waits in hlt()
    pc

cpu == <<gates, isr_handlers, in_service, iflag, halted, pc>>

InterruptsInit ==
    /\ gates = {} /\ isr_handlers = [v \in Vector |-> "none"]
    /\ in_service = {}
    /\ iflag = FALSE /\ halted = FALSE
    /\ pc = "boot"

-----------------------------------------------------------------------------
(***************************************************************************)
(* idt_init: gates 0 to 47 and 128; earlier handlers are forgotten.        *)
(***************************************************************************)
idt_init ==
    /\ gates' = (0 .. 47) \cup {SYSCALL_VECTOR}
    /\ isr_handlers' = [v \in Vector |-> "none"]
    /\ in_service' = {}

isr_register_handler(n, handler) ==
    isr_handlers' = [isr_handlers EXCEPT ![n] = handler]

(***************************************************************************)
(* The 8259 controllers.  Lines 8 to 15 reach the first one through its    *)
(* line 2.  A line in service holds back itself and the lines below it;    *)
(* command 0x20 ends the service of the highest line of one controller.    *)
(***************************************************************************)
First == 0 .. 7
Second == 8 .. 15

Rank(n) == IF n \in Second THEN 2 ELSE n

Deliverable(n) ==
    /\ iflag
    /\ \A m \in in_service \cap First : Rank(n) < m
    /\ n \in Second => \A m \in in_service \cap Second : n < m

InService(n) ==
    in_service \cup {n} \cup (IF n \in Second THEN {2} ELSE {})

EndOfInterrupt(lines, chip) ==
    IF lines \cap chip = {} THEN lines ELSE lines \ {Min(lines \cap chip)}

(***************************************************************************)
(* Mutant of irq_handler: only lines with a handler are acknowledged.      *)
(***************************************************************************)
irq_handler_if_handled(n, lines) ==
    in_service' =
        IF isr_handlers[32 + n] = "none" THEN lines
        ELSE EndOfInterrupt(EndOfInterrupt(lines, Second), First)

(***************************************************************************)
(* irq_handler up to the call of the handler, which the composition adds;  *)
(* lines are in service on entry.                                          *)
(***************************************************************************)
irq_handler(n, lines) ==
    in_service' =
        EndOfInterrupt(IF 32 + n >= 40 THEN EndOfInterrupt(lines, Second)
                       ELSE lines, First)

(***************************************************************************)
(* isr_handler for an exception without a handler: the kernel stops.       *)
(***************************************************************************)
Panic(v) ==
    /\ v \in gates /\ isr_handlers[v] = "none" /\ v < 32
    /\ ~halted /\ pc \notin {"panic", "away"} /\ pc' = "panic"
    /\ iflag' = FALSE /\ halted' = TRUE
    /\ UNCHANGED <<gates, isr_handlers, in_service>>

(***************************************************************************)
(* The thread moves from one place to the next; it stops in hlt() until an *)
(* interrupt.                                                              *)
(***************************************************************************)
Goto(from, to) ==
    /\ pc = from /\ ~halted
    /\ pc' = to
    /\ UNCHANGED <<gates, isr_handlers, in_service, iflag, halted>>

Hlt(from, to) ==
    /\ pc = from /\ ~halted
    /\ pc' = to /\ halted' = TRUE
    /\ UNCHANGED <<gates, isr_handlers, in_service, iflag>>

(***************************************************************************)
(* The type of this state.                                                 *)
(***************************************************************************)
InterruptsTypeOK ==
    /\ gates \subseteq 0 .. 255
    /\ isr_handlers \in [Vector -> {"none", "timer", "keyboard", "syscall"}]
    /\ in_service \subseteq 0 .. 15
    /\ iflag \in BOOLEAN /\ halted \in BOOLEAN
=============================================================================
