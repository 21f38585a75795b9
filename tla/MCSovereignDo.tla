---------------------------- MODULE MCSovereignDo ----------------------------
(* SovereignDo on small instances. *)
EXTENDS SovereignDo, TLC

Symmetry == Permutations(Procs) \cup Permutations(Contents)
=============================================================================
