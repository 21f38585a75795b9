---------------------------- MODULE MCVaultLoop ----------------------------
(* VaultLoop on small instances; notes and loops are interchangeable. *)
EXTENDS VaultLoop, TLC

Symmetry == Permutations(Notes) \cup Permutations(Loops)
=============================================================================
