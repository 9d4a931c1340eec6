------------------------------- MODULE MCIam -------------------------------
(* Small instances of Iam for TLC.                                         *)
EXTENDS Iam

Symmetry == Permutations(Reqs) \cup Permutations(Names)
=============================================================================
