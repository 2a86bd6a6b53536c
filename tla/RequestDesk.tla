---------------------------- MODULE RequestDesk ----------------------------
(***************************************************************************)
(* What the kiosk promises a guest who types or speaks to the concierge:   *)
(* the desk takes one request at a time, settles it once, and forgets      *)
(* every request of a stay when the stay is reset.  Nothing is said here   *)
(* of workers, brokers, tables or events; Concierge implements this.       *)
(***************************************************************************)
CONSTANT Requests

VARIABLE phase      \* phase[r]: where request r stands

Phases == {"new", "open", "complete", "failed", "erased"}

DeskInit == phase = [r \in Requests |-> "new"]

(* A new request is taken when no other is open; whatever was open before  *)
(* has been settled by then, at the latest in this very step.              *)
Accept(r) ==
  /\ phase[r] = "new"
  /\ phase' \in [Requests -> Phases]
  /\ phase'[r] = "open"
  /\ \A q \in Requests \ {r} :
        IF phase[q] = "open" THEN phase'[q] \in {"complete", "failed"}
                             ELSE phase'[q] = phase[q]

(* The open request gets its outcome. *)
Settle(r) ==
  /\ phase[r] = "open"
  /\ \E outcome \in {"complete", "failed"} :
        phase' = [phase EXCEPT ![r] = outcome]

(* The stay is reset: what it asked is erased, whatever its outcome. *)
Erase ==
  phase' = [r \in Requests |-> IF phase[r] = "new" THEN "new" ELSE "erased"]

DeskNext ==
  \/ \E r \in Requests : Accept(r) \/ Settle(r)
  \/ Erase

DeskSpec == DeskInit /\ [][DeskNext]_phase
=============================================================================
