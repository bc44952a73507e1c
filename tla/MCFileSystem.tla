---------------------------- MODULE MCFileSystem ----------------------------
(***************************************************************************)
(* Four nodes; a short name, a name of the greatest length with a longer   *)
(* one that is cut to it, and a name with a slash.                         *)
(***************************************************************************)
EXTENDS FileSystem, TLC

MCName      == {"a", "cut", "long", "a/a"}
MCComponent == {"a", "cut", "long"}
MCStored    == [n \in MCName |-> IF n = "long" THEN "cut" ELSE n]
MCPaths     == {<<>>, <<"a">>, <<"a", "", "a">>}

Symmetry == Permutations(Node)
=============================================================================
