--------------------------- MODULE MCObjectStore ---------------------------
(* Small instances of ObjectStore for TLC.                                 *)
EXTENDS ObjectStore, TLC

\* The requests are interchangeable.
Symmetry == Permutations(Reqs)
=============================================================================
