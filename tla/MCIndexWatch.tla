---------------------------- MODULE MCIndexWatch ----------------------------
(* IndexWatch on small instances; files are interchangeable. *)
EXTENDS IndexWatch, TLC

Symmetry == Permutations(Files)

\* A state in which two builders have run at once is checked and not gone on from: the
\* properties say nothing of what comes after it.
Apart == ~mixed
=============================================================================
