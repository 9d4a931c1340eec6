---------------------------- MODULE MCObjectRead ----------------------------
(* Small instances of ObjectRead for TLC.                                   *)
EXTENDS ObjectRead

\* An empty object; one part; parts that end within a chunk and at its end.
MCLayouts == {<<0>>, <<3>>, <<2, 3>>, <<3, 1, 2>>}
=============================================================================
