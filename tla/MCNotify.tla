----------------------------- MODULE MCNotify -----------------------------
(* Small instances of Notify for TLC.                                     *)
EXTENDS Notify, TLC

\* Handlers are interchangeable, and so are the in-memory workers.
Symmetry == Permutations(Handlers) \cup Permutations(MemWorkers)

\* Each queue alone, with two handlers, and both together.
EachQueue ==
  {[targets |-> {"disk"}, limit |-> 1, handlers |-> Handlers],
   [targets |-> {"disk"}, limit |-> 2, handlers |-> Handlers],
   [targets |-> {"mem"}, limit |-> 0, handlers |-> Handlers]}

BothQueues ==
  {[targets |-> {"disk", "mem"}, limit |-> 1, handlers |-> {CHOOSE h \in Handlers : TRUE}]}

EveryQueue == EachQueue \cup BothQueues

\* A disk queue without a limit.
Unlimited == {[targets |-> {"disk"}, limit |-> 0, handlers |-> Handlers]}
=============================================================================
