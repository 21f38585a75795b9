-------------------------- MODULE MCTaskManifests --------------------------
(* TaskManifests on small instances; handlers and tasks are interchangeable *)
(* in the safety runs.                                                      *)
EXTENDS TaskManifests, TLC

Symmetry == Permutations(Tasks) \cup Permutations(Handlers)
=============================================================================
