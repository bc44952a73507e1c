------------------------------- MODULE MCPMM -------------------------------
(***************************************************************************)
(* Instances of PMM for TLC: two-byte frames, addresses below 4 GB are     *)
(* 0 .. 63, and the bitmap describes 20 frames.                            *)
(***************************************************************************)
EXTENDS PMM

Avail(a, l) == [addr |-> a, len |-> l, available |-> TRUE]
Hole(a, l)  == [addr |-> a, len |-> l, available |-> FALSE]

Map(regions) == [flag20 |-> TRUE, mem_upper |-> 20, mmap |-> regions]

(***************************************************************************)
(* A PC map with a hole and a total that is not a multiple of 8 frames;    *)
(* unaligned regions; more memory than the bitmap describes; a region that *)
(* ends at 4 GB exactly; the memory size fields only; and a map without    *)
(* the flag that the code tests.                                           *)
(***************************************************************************)
PlainMaps ==
    { Map(<<Avail(0, 3), Hole(3, 1), Avail(4, 18)>>),
      Map(<<Avail(1, 8), Hole(9, 2), Avail(11, 9)>>),
      Map(<<Avail(0, 4), Hole(4, 28), Avail(34, 20)>>),
      Map(<<Avail(2, 18), Avail(44, 20)>>),
      [flag20 |-> FALSE, mem_upper |-> 30, mmap |-> <<>>],
      [flag20 |-> FALSE, mem_upper |-> 20, mmap |-> <<Avail(0, 20)>>] }

(***************************************************************************)
(* Memory above 4 GB (addresses from 64): cut to 32 bits, its frames are   *)
(* those of the memory at 0.  A region inside the last page before 4 GB:   *)
(* its start, rounded up, is 0.                                            *)
(***************************************************************************)
HighMaps == { Map(<<Avail(0, 20), Avail(64, 22)>>),
              Map(<<Avail(2, 18), Avail(63, 0)>>) }

MCBootInfos == PlainMaps \cup HighMaps
=============================================================================
