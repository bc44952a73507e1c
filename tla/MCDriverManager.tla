-------------------------- MODULE MCDriverManager --------------------------
(***************************************************************************)
(* Five drivers, two of them of the same name and one without operations,  *)
(* and room for three in the list.                                         *)
(***************************************************************************)
EXTENDS DriverManager

CONSTANTS d1, d2, d3, d4, d5

MCDriver == {d1, d2, d3, d4, d5}
MCName   == {"a", "b", "c", "d"}
MCNameOf == [d \in MCDriver |-> CASE d \in {d1, d2} -> "a"
                                  [] d = d3 -> "b"
                                  [] d = d4 -> "c"
                                  [] d = d5 -> "d"]
MCHasOps == MCDriver \ {d3}
=============================================================================
