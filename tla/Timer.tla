-------------------------------- MODULE Timer --------------------------------
(***************************************************************************)
(* The timer, kernel/drivers/timer.c: timer_ticks, which the interrupt     *)
(* handler increments, and the functions that read it with interrupts on.  *)
(*                                                                         *)
(* timer_ticks has two 32-bit words.  The compiled code (gcc -m32 -O2)     *)
(* loads them one after the other: the low word first in timer_get_ticks   *)
(* and at the start of timer_sleep, the high word first in its loop.  The  *)
(* handler's increment is not interrupted.                                 *)
(***************************************************************************)
EXTENDS Interrupts

CONSTANTS
    WORD,           \* 2^32
    MSEC,           \* the 1000 of timer_sleep
    TIMER_HZ,
    Durations,      \* the values of ms that timer_sleep is called with
    MaxTicks,       \* bound: the ticks that are counted when no sleeper
                    \* waits for a later one
    LastCall        \* bound: no call begins after this many ticks

ASSUME TimerAssumption ==
    /\ WORD \in Nat \ {0} /\ MSEC \in Nat \ {0} /\ TIMER_HZ \in Nat \ {0}
    /\ Durations \subseteq 0 .. WORD - 1
    /\ MaxTicks \in Nat /\ LastCall \in Nat

VARIABLES
    timer_ticks,        \* its low and its high word
    timer_frequency,
    tm_reg,             \* the caller's registers: the words loaded, target;
                        \* what a finished call leaves in them is dead
    ms,                 \* the argument of timer_sleep
    began               \* history: the ticks when the call began

timer == <<timer_ticks, timer_frequency, tm_reg, ms, began>>

Number(t) == t.hi * WORD + t.lo
Now == Number(timer_ticks)

NoWords == [lo |-> 0, hi |-> 0, target |-> 0]

TimerInit ==
    /\ timer_ticks = [lo |-> 0, hi |-> 0] /\ timer_frequency = 0
    /\ tm_reg = NoWords
    /\ ms = 0 /\ began = 0

-----------------------------------------------------------------------------
timer_init ==
    /\ timer_frequency' = TIMER_HZ
    /\ timer_ticks' = [lo |-> 0, hi |-> 0]
    /\ UNCHANGED <<tm_reg, ms, began>>

(***************************************************************************)
(* Mutant of timer_callback: the high word is forgotten.                   *)
(***************************************************************************)
timer_callback_no_carry ==
    /\ timer_ticks' = IF timer_ticks.lo = WORD - 1
                      THEN [timer_ticks EXCEPT !.lo = 0]
                      ELSE [timer_ticks EXCEPT !.lo = @ + 1]
    /\ UNCHANGED <<timer_frequency, tm_reg, ms, began>>

(***************************************************************************)
(* timer_callback, without its call of scheduler_tick.                     *)
(***************************************************************************)
timer_callback ==
    /\ timer_ticks' = IF Now >= MaxTicks /\ Now >= tm_reg.target
                      THEN timer_ticks
                      ELSE IF timer_ticks.lo = WORD - 1
                      THEN [lo |-> 0, hi |-> timer_ticks.hi + 1]
                      ELSE [timer_ticks EXCEPT !.lo = @ + 1]
    /\ UNCHANGED <<timer_frequency, tm_reg, ms, began>>

(***************************************************************************)
(* A call begins with a load of the low word, and ends.                    *)
(***************************************************************************)
Begin(to, t) ==
    /\ Now <= LastCall
    /\ Goto("idle", to)
    /\ tm_reg' = [NoWords EXCEPT !.lo = timer_ticks.lo]
    /\ ms' = t /\ began' = Now
    /\ UNCHANGED <<timer_ticks, timer_frequency>>

End(from) ==
    /\ Goto(from, "idle")
    /\ tm_reg' = NoWords /\ ms' = 0 /\ began' = 0
    /\ UNCHANGED <<timer_ticks, timer_frequency>>

(***************************************************************************)
(* timer_get_ticks: the value of timer_ticks when its high word is loaded  *)
(* after the low one.                                                      *)
(***************************************************************************)
TicksRead == Number([lo |-> tm_reg.lo, hi |-> timer_ticks.hi])

(***************************************************************************)
(* timer_sleep: load the low word; load the high word, compute target and  *)
(* compare; hlt; load the high word; compare with the low word.            *)
(***************************************************************************)
SleepCall(t) == Begin("tm_target", t)

(***************************************************************************)
(* Mutant of SleepTicks: the division comes first.                         *)
(***************************************************************************)
SleepTicksDivided == (ms \div MSEC) * timer_frequency % WORD

SleepTicks == (ms * timer_frequency % WORD) \div MSEC

SleepTarget ==
    IF SleepTicks = 0 THEN End("tm_target")
    ELSE /\ Goto("tm_target", "tm_hlt")
         /\ tm_reg' = [NoWords EXCEPT !.target = TicksRead + SleepTicks]
         /\ UNCHANGED <<timer_ticks, timer_frequency, ms, began>>

(***************************************************************************)
(* Mutant of SleepHlt: the thread does not look at timer_ticks again.      *)
(***************************************************************************)
SleepHltAgain == Hlt("tm_hlt", "tm_hlt") /\ UNCHANGED timer

SleepHlt == Hlt("tm_hlt", "tm_high") /\ UNCHANGED timer

SleepHigh ==
    /\ Goto("tm_high", "tm_low")
    /\ tm_reg' = [tm_reg EXCEPT !.hi = timer_ticks.hi]
    /\ UNCHANGED <<timer_ticks, timer_frequency, ms, began>>

SleepLow ==
    IF Number([lo |-> timer_ticks.lo, hi |-> tm_reg.hi]) >= tm_reg.target
    THEN End("tm_low")
    ELSE /\ Goto("tm_low", "tm_hlt")
         /\ tm_reg' = [tm_reg EXCEPT !.hi = 0]
         /\ UNCHANGED <<timer_ticks, timer_frequency, ms, began>>

SleepStep == SleepTarget \/ SleepHlt \/ SleepHigh \/ SleepLow
Sleeping == pc \in {"tm_target", "tm_hlt", "tm_high", "tm_low"}

-----------------------------------------------------------------------------
TimerTypeOK ==
    /\ timer_ticks \in [lo : 0 .. WORD - 1, hi : Nat]
    /\ timer_frequency \in {0, TIMER_HZ}
    /\ tm_reg \in [lo : 0 .. WORD - 1, hi : Nat, target : Nat]
    /\ ms \in Durations \cup {0} /\ began \in Nat

(***************************************************************************)
(* timer_sleep does not return before ms milliseconds' worth of ticks have *)
(* come, although a tick may fall between its loads of the two words, as   *)
(* long as ms * timer_frequency fits in 32 bits.  A larger product wraps,  *)
(* and the sleep is short.                                                 *)
(***************************************************************************)
SleepsLongEnough ==
    [][ Sleeping /\ pc' = "idle" /\ ms * timer_frequency < WORD
        => Now - began >= (ms * timer_frequency) \div MSEC ]_<<pc, timer>>

LowWordWrapped == began \div WORD < Now \div WORD

(***************************************************************************)
(* What timer_get_ticks returns, and the time from which timer_sleep       *)
(* counts, lies between the call and the end of the two loads, except when *)
(* the low word wraps between them: then it is up to 2^32 ticks too late.  *)
(***************************************************************************)
TornOnlyAtWrap ==
    pc \in {"tm_get", "tm_target"} =>
        \/ TicksRead \in began .. Now
        \/ LowWordWrapped /\ TicksRead \in Now .. Now + WORD
=============================================================================
