---------------------------- MODULE DurableQueue ----------------------------
(***************************************************************************)
(* What a queue directory promises to those who push and to the receiver:   *)
(* at-least-once delivery. A message that was accepted is held until it was *)
(* received or refused, the receiver may get it again as long as it is      *)
(* held, and a message let go of never comes back. The workers, retries,    *)
(* stops, crashes and restarts of the implementation are not seen.          *)
(***************************************************************************)

CONSTANT Messages

VARIABLES
  accepted, \* messages the queue has taken
  held,     \* those it still holds
  received, \* those that reached the receiver at least once
  refused   \* those it was told to give up, or had to

qvars == <<accepted, held, received, refused>>

QInit == accepted = {} /\ held = {} /\ received = {} /\ refused = {}

Accept(m) ==
  /\ m \notin accepted
  /\ accepted' = accepted \cup {m}
  /\ held' = held \cup {m}
  /\ UNCHANGED <<received, refused>>

Receive(m) ==
  /\ m \in held
  /\ received' = received \cup {m}
  /\ UNCHANGED <<accepted, held, refused>>

Refuse(m) ==
  /\ m \in held
  /\ refused' = refused \cup {m}
  /\ UNCHANGED <<accepted, held, received>>

Forget(m) ==
  /\ m \in held \cap (received \cup refused)
  /\ held' = held \ {m}
  /\ UNCHANGED <<accepted, received, refused>>

QNext == \E m \in Messages : Accept(m) \/ Receive(m) \/ Refuse(m) \/ Forget(m)

QSpec == QInit /\ [][QNext]_qvars
=============================================================================
