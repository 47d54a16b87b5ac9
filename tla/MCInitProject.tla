--------------------------- MODULE MCInitProject ---------------------------
(* Small instances of InitProject for TLC.                                   *)
EXTENDS InitProject
=============================================================================
