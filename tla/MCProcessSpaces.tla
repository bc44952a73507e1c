-------------------------- MODULE MCProcessSpaces --------------------------
(***************************************************************************)
(* An instance of ProcessSpaces: two regions of free memory, as pmm_init   *)
(* leaves them, above the frame at address 0 and behind a reserved one.    *)
(***************************************************************************)
EXTENDS ProcessSpaces

Reserved == {0, 7}

MCLowMemory ==
    {Blank, [n \in Entry |-> IF n \in {0, 1} THEN Present(n + 3) ELSE Absent(2)]}

NoPages   == {}
NoTargets == {}
=============================================================================
