---------------------------- MODULE MCCloudAuth ----------------------------
(* Small instances of CloudAuth for TLC.                                     *)
EXTENDS CloudAuth, TLC

\* Accounts and invocations are interchangeable: no definition tells one from another.
Symmetry == Permutations(Account) \cup Permutations(Proc)
=============================================================================
