---------------------------- MODULE MCACControl ----------------------------
(* ACControl on small instances: an AC state of two fields, two values each. *)
EXTENDS ACControl, TLC

FieldsMC  == {"power", "temperature"}
DefaultMC == [f \in FieldsMC |-> 0]

(* One change of each field, and one that takes a field back to the default. *)
PatchesMC == {("power" :> 1), ("temperature" :> 1), ("power" :> 0)}

Symmetry == Permutations(Calls)
=============================================================================
