--------------------------- MODULE MCLongOperation ---------------------------
(* Small instances of LongOperation for TLC.                                 *)
EXTENDS LongOperation
=============================================================================
