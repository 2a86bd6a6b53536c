----------------------------- MODULE ToolLedger -----------------------------
(***************************************************************************)
(* What the realtime server promises of the tool calls the model makes: a  *)
(* call is reserved in the stay it was made in, executed at most once and  *)
(* only after that, answered at most once and only after that, and asks    *)
(* the staff for something only while its stay lasts.  Nothing is said     *)
(* here of sessions, tabs, threads and rows; RealtimeSessions implements   *)
(* this.                                                                   *)
(***************************************************************************)
EXTENDS Naturals

CONSTANTS Stays, CallIds

VARIABLES
  stay,      \* the current stay
  phase,     \* phase[c]: where call c of the current stay stands
  orphans,   \* calls <<n, c>> of earlier stays that are still under way
  executed,  \* executed[k]: how often call k was executed
  asked      \* the calls that have asked the staff for something

Calls == Stays \X CallIds

LedgerInit ==
  /\ stay = 1
  /\ phase = [c \in CallIds |-> "new"]
  /\ orphans = {}
  /\ executed = [k \in Calls |-> 0]
  /\ asked = {}

Moves(c, from, to) ==
  /\ phase[c] = from /\ phase'[c] = to
  /\ phase' = [phase EXCEPT ![c] = to]

ReserveCall(c) ==
  /\ UNCHANGED <<stay, executed, asked>>
  /\ Moves(c, "new", "reserved")
  /\ UNCHANGED orphans

ExecuteCall(c) ==
  /\ executed[<<stay, c>>] = 0 /\ phase[c] = "reserved"
  /\ executed' = [executed EXCEPT ![<<stay, c>>] = 1]
  /\ asked' \in {asked, asked \cup {<<stay, c>>}}
  /\ UNCHANGED <<stay, phase, orphans>>

AnswerCall(c) ==
  /\ executed[<<stay, c>>] = 1
  /\ UNCHANGED <<stay, executed, asked>>
  /\ Moves(c, "reserved", "answered")
  /\ UNCHANGED orphans

(* The stay ends, and with it every call of it; those that are under way   *)
(* may be left to themselves ...                                           *)
EndStay ==
  /\ stay' = stay + 1
  /\ phase' = [c \in CallIds |-> "new"]
  /\ orphans \subseteq orphans'
  /\ \A k \in orphans' \ orphans :
       k[1] = stay /\ phase[k[2]] = "reserved" /\ executed[k] = 0
  /\ UNCHANGED <<executed, asked>>

(* ... and may still be executed, but ask nobody for anything. *)
ExecuteOrphan(k) ==
  /\ executed[k] = 0
  /\ executed' = [executed EXCEPT ![k] = 1]
  /\ orphans' = orphans \ {k}
  /\ UNCHANGED <<stay, phase, asked>>

(* Calls that are under way are forgotten: their threads raise before the  *)
(* tool runs, or the server dies and with it everything.                   *)
Forget ==
  /\ orphans' \subseteq orphans /\ orphans' # orphans
  /\ UNCHANGED <<stay, phase, executed, asked>>

LedgerNext ==
  \/ \E c \in CallIds : ReserveCall(c) \/ ExecuteCall(c) \/ AnswerCall(c)
  \/ \E k \in orphans : ExecuteOrphan(k)
  \/ EndStay
  \/ Forget

LedgerSpec == LedgerInit /\ [][LedgerNext]_<<stay, phase, orphans, executed, asked>>
=============================================================================
