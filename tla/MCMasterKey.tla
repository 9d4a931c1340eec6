---------------------------- MODULE MCMasterKey ----------------------------
(* Small instances of MasterKey for TLC.                                   *)
EXTENDS MasterKey, TLC

\* The processes are interchangeable, and so are the keys of operators.
Symmetry == Permutations(Procs) \cup Permutations(EnvKeys)
=============================================================================
