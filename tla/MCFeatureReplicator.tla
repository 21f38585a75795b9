------------------------ MODULE MCFeatureReplicator ------------------------
(* FeatureReplicator on small instances; commands are interchangeable. *)
EXTENDS FeatureReplicator, TLC

CONSTANTS f0, f1

\* One hunk, two files, and two hunks for one file.
OneHunk == {<<f0>>}
TwoFiles == {<<f0, f1>>}
OneFileTwice == {<<f0, f0>>}
SmallTemplates == OneHunk \cup TwoFiles \cup OneFileTwice

\* Two hunks are what backups and rollbacks are about: two targets and an edit do.  One
\* hunk is enough for the counts, which take more targets and commands.
Small == IF Len(hunks) = 1 THEN edits = 0 ELSE runs <= 2 /\ begun <= 2

Symmetry == Permutations(Commands)
=============================================================================
