----------------------------- MODULE MCConsole -----------------------------
(***************************************************************************)
(* An instance of Console.  The string functions are looked at on every    *)
(* memory.  Characters are printed with one of them, which has no strings, *)
(* and from another the output of calls of kprintf is looked at, for every *)
(* number.                                                                 *)
(***************************************************************************)
EXTENDS Console

MCAddr == 0 .. 4
MCByte == {NUL, SLASH, 97}

MCScreens == {[c \in Cells |-> ch] : ch \in {SPACE, 97}}

Characters == {<<<<c>>, <<>>>> : c \in {97, LF, CR, HT, BS}}

Conversions ==
    {<<<<PERCENT, conv>>, <<w>>>> : conv \in {100, 117, 120}, w \in 0 .. WORD - 1}
    \cup {<<<<PERCENT, PERCENT, PERCENT, 45, 97>>, <<>>>>,
          <<<<PERCENT, 115, LF, PERCENT, 99>>, <<1, 97>>>>}

MCCalls == Characters \cup Conversions

ScreenMemory == [a \in Addr |-> 97]
TextMemory   == [a \in Addr |-> IF a \in {1, 2} THEN 97 ELSE NUL]

MCNext ==
    \/ /\ mem = ScreenMemory
       /\ vga_putchar \/ \E call \in Characters : kprintf(call[1], call[2])
    \/ /\ mem = TextMemory
       /\ \E call \in Conversions : kprintf(call[1], call[2])
    \/ UNCHANGED vars

MCSpec == Init /\ [][MCNext]_vars
=============================================================================
