-------------------------- MODULE MCQuickDatabase --------------------------
(* Small instances of QuickDatabase for TLC.                                 *)
EXTENDS QuickDatabase
=============================================================================
