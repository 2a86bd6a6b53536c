--------------------------- MODULE StaffForwarding ---------------------------
(***************************************************************************)
(* What happens to a request for the hotel's staff after a tool stored it  *)
(* (core/tools.py): a Celery task forwards it to the hotel's SaaS          *)
(* (tasks.forward_staff_request_task, integrations/saas.py), with retries, *)
(* and records the outcome in the row.                                     *)
(*                                                                         *)
(* Redis may lose a task or deliver it once more, a process may die, the   *)
(* SaaS may take a request and its answer be lost, and the database may    *)
(* refuse a save: these are faults, and they are counted.  That the SaaS   *)
(* refuses a request, or cannot be reached, is not one.  It may also       *)
(* answer what it never should, a redirection or a body that is no object: *)
(* the code takes the one for a delivery and trips over the other.         *)
(***************************************************************************)
EXTENDS Naturals

CONSTANTS
  Staff,       \* requests to the staff
  Workers,     \* executions of Celery tasks at one time
  MaxRetries,  \* retry_kwargs: max_retries
  MaxFaults    \* bound: faults in a behaviour

ASSUME StaffAssumption == MaxRetries \in Nat /\ MaxFaults \in Nat

VARIABLES
  row,       \* row[r]: delivery_status of the StaffRequest, "none" before it
  sending,   \* sending[r]: how far enqueue_forwarding is, after the commit
  tasks,     \* tasks[m]: copies of task message m in Redis
  work,      \* work[w]: what execution w has in hand
  taken,     \* taken[r]: how often the SaaS has taken the request: 0, 1, or more
  odd,       \* requests that got an answer no SaaS of ours should give
  faults     \* faults so far

vars == <<row, sending, tasks, work, taken, odd, faults>>

Statuses == {"none", "queued", "delivered", "failed", "disabled"}
Task     == [req : Staff, try : 0..MaxRetries]
Outcomes == {"accepted", "rejected", "error", "disabled"}
Job      == [req : Staff, try : 0..MaxRetries, step : {"post"} \cup Outcomes]
Nothing  == <<>>
Many     == 2

Init ==
  /\ row = [r \in Staff |-> "none"]
  /\ sending = [r \in Staff |-> "no"]
  /\ tasks = [m \in Task |-> 0]
  /\ work = [w \in Workers |-> Nothing]
  /\ taken = [r \in Staff |-> 0] /\ odd = {}
  /\ faults = 0

Fault == faults < MaxFaults /\ faults' = faults + 1

With(m)    == [tasks EXCEPT ![m] = @ + 1]
Without(m) == [tasks EXCEPT ![m] = @ - 1]

-----------------------------------------------------------------------------
(* _staff_request_local: the row is committed, then the task is queued. *)

RequestStaff(r) ==
  /\ row[r] = "none"
  /\ row' = [row EXCEPT ![r] = "queued"]
  /\ sending' = [sending EXCEPT ![r] = "due"]
  /\ UNCHANGED <<tasks, work, taken, odd, faults>>

First(r) == [req |-> r, try |-> 0]

(* Mutant of QueueTask: the task is queued before the commit, finds no row  *)
(* and is gone.                                                             *)
QueueTaskEarly(r) ==
  /\ sending[r] = "due"
  /\ sending' = [sending EXCEPT ![r] = "no"]
  /\ UNCHANGED <<row, tasks, work, taken, odd, faults>>

QueueTask(r) ==
  /\ sending[r] = "due"
  /\ sending' = [sending EXCEPT ![r] = "no"]
  /\ tasks' = With(First(r))
  /\ UNCHANGED <<row, work, taken, odd, faults>>

(* delay raises; the task may be in Redis all the same. *)
QueueRefused(r) ==
  /\ sending[r] = "due"
  /\ Fault
  /\ sending' = [sending EXCEPT ![r] = "refused"]
  /\ tasks' \in {tasks, With(First(r))}
  /\ UNCHANGED <<row, work, taken, odd>>

(* The except block: FAILED, whatever the row says by now. *)
MarkUnqueued(r) ==
  /\ sending[r] = "refused"
  /\ sending' = [sending EXCEPT ![r] = "no"]
  /\ row' = [row EXCEPT ![r] = "failed"]
  /\ UNCHANGED <<tasks, work, taken, odd, faults>>

(* The process that called the tool dies after the commit. *)
AskerDies(r) ==
  /\ sending[r] # "no"
  /\ Fault
  /\ sending' = [sending EXCEPT ![r] = "no"]
  /\ UNCHANGED <<row, tasks, work, taken, odd>>

-----------------------------------------------------------------------------
(* forward_staff_request_task *)

LoseTask(m) ==
  /\ tasks[m] > 0
  /\ Fault
  /\ tasks' = Without(m)
  /\ UNCHANGED <<row, sending, work, taken, odd>>

(* Mutant of Deliver: acknowledged late, so the message stays in Redis. *)
DeliverLate(m) == tasks[m] > 0 /\ UNCHANGED <<tasks, faults>>

(* The broker delivers m, perhaps not for the last time. *)
Deliver(m) ==
  /\ tasks[m] > 0
  /\ \/ tasks' = Without(m) /\ UNCHANGED faults
     \/ tasks' = tasks /\ Fault

(* The row and the configuration are read; forwarding may be switched off. *)
Take(w, m) ==
  /\ work[w] = Nothing
  /\ Deliver(m)
  /\ \E step \in {"post", "disabled"} :
       work' = [work EXCEPT ![w] = [req |-> m.req, try |-> m.try, step |-> step]]
  /\ UNCHANGED <<row, sending, taken, odd>>

Doing(w, step) == work[w] # Nothing /\ work[w].step = step

Taken(w) == taken' = [taken EXCEPT ![work[w].req] = IF @ = 0 THEN 1 ELSE Many]

(* The SaaS takes the request and says so, 2xx with an object or with       *)
(* nothing in it; its answer comes, or is lost.                             *)
SaasTakes(w) ==
  /\ Doing(w, "post") /\ Taken(w)
  /\ \/ work' = [work EXCEPT ![w].step = "accepted"] /\ UNCHANGED faults
     \/ work' = [work EXCEPT ![w].step = "error"] /\ Fault
  /\ UNCHANGED <<row, sending, tasks, odd>>

(* It answers 4xx, or another error, or is out of reach. *)
SaasRefuses(w) ==
  /\ Doing(w, "post")
  /\ \E step \in {"rejected", "error"} : work' = [work EXCEPT ![w].step = step]
  /\ UNCHANGED <<row, sending, tasks, taken, odd, faults>>

(* Mutant of Again: retried without a limit. *)
AgainForever(job) == With([req |-> job.req, try |-> job.try])

(* autoretry_for: the task is queued again, up to max_retries times. *)
Again(job) ==
  IF job.try < MaxRetries THEN With([req |-> job.req, try |-> job.try + 1]) ELSE tasks

Astray(w) == odd' = odd \cup {work[w].req}

(* follow_redirects: after 301, 302 or 303 the client asks again with GET,  *)
(* and its 2xx counts, although no request was posted there.                *)
SaasRedirects(w) ==
  /\ Doing(w, "post") /\ Astray(w)
  /\ work' = [work EXCEPT ![w].step = "accepted"]
  /\ UNCHANGED <<row, sending, tasks, taken, faults>>

(* Taken, but 2xx with a list, a string or a number: response.get raises    *)
(* before anything is saved, and the task is retried.                       *)
SaasBabbles(w) ==
  /\ Doing(w, "post") /\ Astray(w) /\ Taken(w)
  /\ tasks' = Again(work[w])
  /\ work' = [work EXCEPT ![w] = Nothing]
  /\ UNCHANGED <<row, sending, faults>>

(* Mutant of Recorded: every answer of the SaaS counts as delivered. *)
RecordedAnswered(step) ==
  CASE step \in {"accepted", "rejected"} -> "delivered"
    [] step = "disabled" -> "disabled"
    [] OTHER -> "failed"

Recorded(step) ==
  CASE step = "accepted" -> "delivered"
    [] step = "disabled" -> "disabled"
    [] OTHER -> "failed"

(* Mutant of Save: without the return after a delivery. *)
SaveRetriesAll(w) ==
  /\ work[w] # Nothing /\ work[w].step # "post"
  /\ row' = [row EXCEPT ![work[w].req] = Recorded(work[w].step)]
  /\ tasks' = IF work[w].step \in {"error", "accepted"} THEN Again(work[w]) ELSE tasks
  /\ work' = [work EXCEPT ![w] = Nothing]
  /\ UNCHANGED <<sending, taken, odd, faults>>

(* The outcome is saved over what the row says by now; an error that is not *)
(* the request's own (4xx) is raised, and the task retried.                 *)
Save(w) ==
  /\ work[w] # Nothing /\ work[w].step # "post"
  /\ row' = [row EXCEPT ![work[w].req] = Recorded(work[w].step)]
  /\ tasks' = IF work[w].step = "error" THEN Again(work[w]) ELSE tasks
  /\ work' = [work EXCEPT ![w] = Nothing]
  /\ UNCHANGED <<sending, taken, odd, faults>>

(* Anything else raises, as a save that finds the database locked. *)
Raise(w) ==
  /\ work[w] # Nothing
  /\ Fault
  /\ tasks' = Again(work[w])
  /\ work' = [work EXCEPT ![w] = Nothing]
  /\ UNCHANGED <<row, sending, taken, odd>>

(* The worker dies; its task was acknowledged when it was taken. *)
Crash(w) ==
  /\ work[w] # Nothing
  /\ Fault
  /\ work' = [work EXCEPT ![w] = Nothing]
  /\ UNCHANGED <<row, sending, tasks, taken, odd>>

Run(w) ==
  SaasTakes(w) \/ SaasRefuses(w) \/ SaasRedirects(w) \/ SaasBabbles(w) \/ Save(w)

Next ==
  \/ \E r \in Staff :
       \/ RequestStaff(r) \/ QueueTask(r) \/ QueueRefused(r) \/ MarkUnqueued(r)
       \/ AskerDies(r)
  \/ \E m \in Task : LoseTask(m) \/ \E w \in Workers : Take(w, m)
  \/ \E w \in Workers : Run(w) \/ Raise(w) \/ Crash(w)

Spec == Init /\ [][Next]_vars

(* The asking process goes on, a live worker takes tasks, and every post    *)
(* and save ends (saas_timeout_seconds, the database's busy timeout).       *)
Fairness ==
  /\ \A r \in Staff : WF_vars(QueueTask(r) \/ MarkUnqueued(r))
  /\ \A w \in Workers : WF_vars(\E m \in Task : Take(w, m)) /\ WF_vars(Run(w))

FairSpec == Spec /\ Fairness

-----------------------------------------------------------------------------
(* Properties *)

(* Every variable has its type. *)
TypeOK ==
  /\ row \in [Staff -> Statuses]
  /\ sending \in [Staff -> {"no", "due", "refused"}]
  /\ tasks \in [Task -> Nat]
  /\ work \in [Workers -> Job \cup {Nothing}]
  /\ taken \in [Staff -> 0..Many] /\ odd \subseteq Staff
  /\ faults \in 0..MaxFaults

(* "Operators can distinguish local acceptance from remote delivery": a row *)
(* says "delivered" only if the SaaS has taken the request, with faults,    *)
(* duplicates and late saves of other executions, too.  It takes a SaaS      *)
(* that redirects no post.                                                  *)
DeliveredWasTaken == \A r \in Staff \ odd : row[r] = "delivered" => taken[r] > 0

Queued(r)  == \E m \in Task : m.req = r /\ tasks[m] > 0
HeldBy(w, r) == work[w] # Nothing /\ work[w].req = r
Settled(r) == row[r] # "none" /\ sending[r] = "no" /\ ~Queued(r)
                /\ \A w \in Workers : ~HeldBy(w, r)

(* Without a fault the staff gets a request at most once, however often it  *)
(* was retried, and in the end the row is right about it, if the SaaS       *)
(* answers as it should.                                                    *)
RowIsRight ==
  faults = 0 => \A r \in Staff \ odd :
    taken[r] <= 1 /\ (Settled(r) => (row[r] = "delivered" <=> taken[r] = 1))

(* Nothing is forwarded that is not stored: "Save the local request first". *)
StoredFirst ==
  \A r \in Staff : row[r] = "none" =>
    sending[r] = "no" /\ taken[r] = 0 /\ ~Queued(r) /\ \A w \in Workers : ~HeldBy(w, r)

(* An execution about to save "delivered" was told so by the SaaS. *)
AcceptedWasTaken ==
  \A w \in Workers :
    Doing(w, "accepted") /\ work[w].req \notin odd => taken[work[w].req] > 0

(* Without a fault a request is in one place, due, queued or held, and has  *)
(* not been taken before an execution holds the answer that says so.        *)
Fresh(r) == row[r] # "delivered" /\ (r \notin odd => taken[r] = 0)

DueAlone ==
  \A r \in Staff :
    /\ sending[r] # "refused"
    /\ sending[r] = "due" => Fresh(r) /\ ~Queued(r) /\ \A w \in Workers : ~HeldBy(w, r)

QueuedAlone ==
  \A r \in Staff : Queued(r) => Fresh(r) /\ \A w \in Workers : ~HeldBy(w, r)

OneTask ==
  \A m, n \in Task :
    /\ tasks[m] <= 1
    /\ tasks[m] > 0 /\ tasks[n] > 0 /\ m.req = n.req => m = n

HeldAlone ==
  \A w \in Workers, r \in Staff : HeldBy(w, r) =>
    /\ row[r] # "delivered"
    /\ r \notin odd => taken[r] = IF work[w].step = "accepted" THEN 1 ELSE 0
    /\ \A v \in Workers : HeldBy(v, r) => v = w

InOnePlace == faults = 0 => DueAlone /\ QueuedAlone /\ OneTask /\ HeldAlone

(* The safety of forwarding in one inductive invariant. *)
StaffInv ==
  /\ TypeOK /\ DeliveredWasTaken /\ RowIsRight
  /\ StoredFirst /\ AcceptedWasTaken /\ InOnePlace

(* Unless there is a fault (something lost, dead or refused, a task of      *)
(* Redis doubled, an exception), or the SaaS answers what trips the code,   *)
(* no request stays "queued".                                               *)
EveryRequestForwarded ==
  \A r \in Staff : row[r] = "queued" ~> row[r] # "queued" \/ r \in odd \/ faults # 0

(* "Do not retry ... indefinitely": all posting comes to an end, whatever   *)
(* the SaaS answers.                                                        *)
ForwardingEnds ==
  <>[](\A r \in Staff : row[r] = "none" \/ Settled(r))
=============================================================================
