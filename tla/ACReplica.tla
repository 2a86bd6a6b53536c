----------------------------- MODULE ACReplica -----------------------------
(***************************************************************************)
(* What the air conditioner's two stores promise: the controller publishes *)
(* states under ever larger versions, until its store is damaged; Django's *)
(* copy is always one of the published states, and never an older one than *)
(* it was before.  How commands, conflicts, retries and notifications      *)
(* achieve it is left to ACControl, which implements this module.          *)
(***************************************************************************)
EXTENDS Naturals

CONSTANTS States, Default

VARIABLES
  published,  \* every [ver, state] the controller has had
  copy,       \* the [ver, state] Django has stored
  damaged     \* has the controller lost count of its versions

First == [ver |-> 0, state |-> Default]

ReplicaInit == published = {First} /\ copy = First /\ damaged = FALSE

(* The controller enters a new state, under a version above all others if  *)
(* it remembers them.                                                      *)
Publish ==
  /\ \E e \in published' :
        /\ published' = published \cup {e}
        /\ e.state \in States
        /\ damaged \/ \A d \in published : d.ver < e.ver
  /\ UNCHANGED <<copy, damaged>>

(* Django stores a state the controller has published. *)
Follow ==
  /\ copy' \in published
  /\ copy.ver <= copy'.ver
  /\ UNCHANGED <<published, damaged>>

(* The controller loses its state, and with it its version. *)
Damage == damaged' = TRUE /\ UNCHANGED <<published, copy>>

ReplicaNext == Publish \/ Follow \/ Damage

ReplicaSpec == ReplicaInit /\ [][ReplicaNext]_<<published, copy, damaged>>
=============================================================================
