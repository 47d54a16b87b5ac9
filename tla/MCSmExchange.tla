---------------------------- MODULE MCSmExchange ----------------------------
(* Small instances of SmExchange for TLC.                                    *)
EXTENDS SmExchange
=============================================================================
