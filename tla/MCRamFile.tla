----------------------------- MODULE MCRamFile -----------------------------
(***************************************************************************)
(* A file of at most 5 bytes, with writes that fit, that grow it once or   *)
(* twice, that leave a gap, and that are too large.                        *)
(***************************************************************************)
EXTENDS RamFile

MCByte    == {0, 1}
MCOffsets == 0 .. 6
MCBuffers == {<<>>, <<0>>, <<1>>, <<1, 0>>, <<0, 1, 1>>}
=============================================================================
