-------------------------- MODULE MCStaffForwarding --------------------------
(* StaffForwarding on small instances. *)
EXTENDS StaffForwarding
=============================================================================
