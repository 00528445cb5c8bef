------------------------ MODULE MCPayloadExtraction -------------------------
(***************************************************************************)
(* Instance of PayloadExtraction for TLC: a payload of three files, so that  *)
(* a directory can be empty, partial or whole.                             *)
(***************************************************************************)
EXTENDS PayloadExtraction

CONSTANTS f1, f2, f3

AllFiles == {f1, f2, f3}
InOrder == <<f1, f2, f3>>
=============================================================================
