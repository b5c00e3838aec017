------------------------------ MODULE FatFileMC -----------------------------
(***************************************************************************)
(* The file object on a card of three clusters of two sectors of two       *)
(* bytes, opened for reading and writing or for reading only.              *)
(***************************************************************************)
EXTENDS FatFile

ModesMC == {{"read"}, {"read", "write"}}
=============================================================================
