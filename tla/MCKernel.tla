------------------------------ MODULE MCKernel ------------------------------
(***************************************************************************)
(* A small instance of Kernel: a buffer of two keys; a word of six values, *)
(* so that the low word of timer_ticks wraps and so does the product of    *)
(* the longest sleep; a sleep of no tick; lines with and without a handler *)
(* on both controllers.                                                    *)
(***************************************************************************)
EXTENDS Kernel

MCIrq == {0, 1, 7, 12, 15}
MCFault == {14}
MCDurations == {0, 1, 3}
MCReadSizes == {1, 2}
=============================================================================
