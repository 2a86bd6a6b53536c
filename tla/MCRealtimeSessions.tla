-------------------------- MODULE MCRealtimeSessions --------------------------
(* RealtimeSessions on small instances. *)
EXTENDS RealtimeSessions, TLC

Symmetry == Permutations(Sessions) \cup Permutations(Handlers)
              \cup Permutations(RequestIds) \cup Permutations(CallIds)

(* What a session was given to remember is read by no action, and by no     *)
(* property of the run that uses this view, but for its type, which every   *)
(* step keeps: states that differ in nothing else have the same future, and *)
(* are explored once.                                                       *)
NoHistory == <<stay, session, boundTo, overdue, messages, tools, hpc, hrow, abandoned,
               executed, staff, failures>>
=============================================================================
