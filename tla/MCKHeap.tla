------------------------------ MODULE MCKHeap ------------------------------
(***************************************************************************)
(* A heap of 15 eight-byte words with requests that leave no rest, a rest  *)
(* too small to split off, and a rest that is split off; WORD - 3 wraps to *)
(* a block of size 0.                                                      *)
(***************************************************************************)
EXTENDS KHeap

MCSizes == {0, 8, 12, 40, WORD - 3}

MCAlignments == {32}
=============================================================================
