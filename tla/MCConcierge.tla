----------------------------- MODULE MCConcierge -----------------------------
(* Concierge on small instances. *)
EXTENDS Concierge, TLC

Symmetry == Permutations(Requests) \cup Permutations(Workers)
=============================================================================
