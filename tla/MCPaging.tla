------------------------------ MODULE MCPaging ------------------------------
(***************************************************************************)
(* Instances of Paging.  Contiguous is the memory of a kernel that has     *)
(* just booted: all frames are free but the first.                         *)
(***************************************************************************)
EXTENDS Paging

Contiguous == {0}

MCLowMemory ==
    {[i \in Entry |-> IF i = 1 THEN Present(3) ELSE Absent(2)]}

MCPages   == {<<1, 0>>, <<1, 2>>}
MCTargets == {5}
=============================================================================
