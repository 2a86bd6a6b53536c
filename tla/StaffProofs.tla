----------------------------- MODULE StaffProofs -----------------------------
(* Theorems about StaffForwarding: one inductive invariant, StaffInv.  Its  *)
(* conjunct InOnePlace says where a request is while nothing has failed; it *)
(* is what makes RowIsRight inductive.                                      *)
EXTENDS StaffForwarding, TLAPS

USE DEF Nothing, Many

(* A job in hand has its fields, and is not the empty hand. *)
LEMMA JobsAreWork ==
  ASSUME TypeOK, NEW w \in Workers, work[w] # Nothing
  PROVE  work[w] \in Job /\ work[w].req \in Staff
BY DEF TypeOK, Job

(* Whoever posts has a job in hand. *)
LEMMA Posting ==
  ASSUME TypeOK, NEW w \in Workers, Doing(w, "post")
  PROVE  work[w] # Nothing /\ work[w] \in Job /\ work[w].req \in Staff
BY JobsAreWork DEF Doing

LEMMA NewJob ==
  ASSUME NEW r \in Staff, NEW t \in 0..MaxRetries, NEW s \in {"post"} \cup Outcomes
  PROVE  [req |-> r, try |-> t, step |-> s] \in Job
         /\ [req |-> r, try |-> t, step |-> s] # Nothing
BY DEF Job

(* A job goes on: only its step changes, and it stays in hand. *)
LEMMA NextStep ==
  ASSUME NEW j \in Job, NEW s \in Outcomes
  PROVE  LET k == [j EXCEPT !.step = s]
         IN  k \in Job /\ k.req = j.req /\ k.step = s /\ k # Nothing
BY DEF Job

(* What an answer of the SaaS changes. *)
LEMMA Answers ==
  ASSUME TypeOK, NEW w \in Workers, SaasTakes(w) \/ SaasRefuses(w) \/ SaasRedirects(w)
  PROVE  /\ \E s \in Outcomes : work' = [work EXCEPT ![w].step = s]
         /\ work' \in [Workers -> Job \cup {Nothing}]
         /\ work'[w].req = work[w].req /\ work[w].req \in Staff
         /\ work'[w] # Nothing
         /\ \A v \in Workers \ {w} : work'[v] = work[v]
<1>1. PICK s \in Outcomes : work' = [work EXCEPT ![w].step = s]
  BY DEF SaasTakes, SaasRefuses, SaasRedirects, Outcomes
<1>2. work[w] \in Job
  BY JobsAreWork DEF SaasTakes, SaasRefuses, SaasRedirects, Doing
<1> DEFINE k == [work[w] EXCEPT !.step = s]
<1>3. k \in Job /\ k.req = work[w].req /\ k # Nothing
  BY <1>2, NextStep
<1>4. work' = [work EXCEPT ![w] = k]
  BY <1>1
<1> HIDE DEF k
<1>5. work' \in [Workers -> Job \cup {Nothing}] /\ work'[w] = k
        /\ \A v \in Workers \ {w} : work'[v] = work[v]
  BY <1>3, <1>4 DEF TypeOK
<1> QED BY <1>1, <1>2, <1>3, <1>5 DEF Job

(* The SaaS only ever takes more. *)
LEMMA TakenGrows ==
  ASSUME TypeOK, NEW w \in Workers, SaasTakes(w) \/ SaasBabbles(w)
  PROVE  /\ taken' \in [Staff -> 0..Many]
         /\ taken'[work[w].req] = IF taken[work[w].req] = 0 THEN 1 ELSE Many
         /\ \A r \in Staff : r # work[w].req => taken'[r] = taken[r]
         /\ \A r \in Staff : taken[r] > 0 => taken'[r] > 0
<1>1. taken' = [taken EXCEPT ![work[w].req] = IF @ = 0 THEN 1 ELSE Many]
  BY DEF SaasTakes, SaasBabbles, Taken
<1>2. work[w].req \in Staff
  BY Posting DEF SaasTakes, SaasBabbles
<1> QED BY <1>1, <1>2 DEF TypeOK

LEMMA Refused ==
  ASSUME TypeOK, NEW w \in Workers, SaasRefuses(w)
  PROVE  work'[w].step # "accepted"
<1>1. PICK s \in {"rejected", "error"} : work' = [work EXCEPT ![w].step = s]
  BY DEF SaasRefuses
<1>2. work[w] \in Job
  BY JobsAreWork DEF SaasRefuses, Doing
<1> DEFINE k == [work[w] EXCEPT !.step = s]
<1>3. k.step = s
  BY <1>2, NextStep DEF Outcomes
<1>4. work' = [work EXCEPT ![w] = k]
  BY <1>1
<1> HIDE DEF k
<1>5. work'[w] = k
  BY <1>4 DEF TypeOK
<1> QED BY <1>3, <1>5

(* A retry is a task of the same request, or none. *)
LEMMA AgainIsTask ==
  ASSUME TypeOK, NEW job \in Job
  PROVE  \/ Again(job) = tasks
         \/ \E m \in Task : m.req = job.req /\ Again(job) = With(m)
<1>1. CASE job.try < MaxRetries
  <2>1. [req |-> job.req, try |-> job.try + 1] \in Task
    BY <1>1, StaffAssumption DEF Job, Task
  <2> QED BY <1>1, <2>1 DEF Again
<1> QED BY <1>1 DEF Again

LEMMA FirstIsTask ==
  ASSUME NEW r \in Staff
  PROVE  First(r) \in Task /\ First(r).req = r
BY StaffAssumption DEF First, Task

(* Putting a task in Redis, or taking one out, keeps the type. *)
LEMMA WithType ==
  ASSUME TypeOK, NEW m \in Task
  PROVE  With(m) \in [Task -> Nat]
BY DEF TypeOK, With

LEMMA WithoutType ==
  ASSUME TypeOK, NEW m \in Task, tasks[m] > 0
  PROVE  Without(m) \in [Task -> Nat]
BY DEF TypeOK, Without

-----------------------------------------------------------------------------
LEMMA InitHolds == Init => StaffInv
BY StaffAssumption DEF Init, StaffInv, TypeOK, DeliveredWasTaken, RowIsRight, StoredFirst,
   AcceptedWasTaken, InOnePlace, DueAlone, QueuedAlone, OneTask, HeldAlone, Statuses, Queued, HeldBy, Settled, Doing, Fresh

LEMMA TypeStep ==
  ASSUME TypeOK, [Next]_vars
  PROVE  TypeOK'
<1> USE StaffAssumption
<1>1. ASSUME NEW r \in Staff, RequestStaff(r) PROVE TypeOK'
  BY <1>1 DEF TypeOK, RequestStaff, Statuses
<1>2. ASSUME NEW r \in Staff, QueueTask(r) PROVE TypeOK'
  BY <1>2, FirstIsTask, WithType DEF TypeOK, QueueTask
<1>3. ASSUME NEW r \in Staff, QueueRefused(r) PROVE TypeOK'
  <2>1. tasks' \in [Task -> Nat]
    BY <1>3, FirstIsTask, WithType DEF TypeOK, QueueRefused
  <2>2. faults' \in 0..MaxFaults
    BY <1>3 DEF TypeOK, QueueRefused, Fault
  <2> QED BY <1>3, <2>1, <2>2 DEF TypeOK, QueueRefused
<1>4. ASSUME NEW r \in Staff, MarkUnqueued(r) PROVE TypeOK'
  BY <1>4 DEF TypeOK, MarkUnqueued, Statuses
<1>5. ASSUME NEW r \in Staff, AskerDies(r) PROVE TypeOK'
  BY <1>5 DEF TypeOK, AskerDies, Fault
<1>6. ASSUME NEW m \in Task, LoseTask(m) PROVE TypeOK'
  BY <1>6, WithoutType DEF TypeOK, LoseTask, Fault
<1>7. ASSUME NEW m \in Task, NEW w \in Workers, Take(w, m) PROVE TypeOK'
  <2>1. tasks' \in [Task -> Nat] /\ faults' \in 0..MaxFaults
    BY <1>7, WithoutType DEF TypeOK, Take, Deliver, Fault
  <2>2. work' \in [Workers -> Job \cup {Nothing}]
    <3>1. m.req \in Staff /\ m.try \in 0..MaxRetries
      BY DEF Task
    <3>2. PICK step \in {"post", "disabled"} :
            work' = [work EXCEPT ![w] = [req |-> m.req, try |-> m.try, step |-> step]]
      BY <1>7 DEF Take
    <3>3. [req |-> m.req, try |-> m.try, step |-> step] \in Job
      BY <3>1, NewJob DEF Outcomes
    <3> QED BY <3>2, <3>3 DEF TypeOK
  <2> QED BY <1>7, <2>1, <2>2 DEF TypeOK, Take
<1>8. ASSUME NEW w \in Workers, SaasTakes(w) PROVE TypeOK'
  <2>1. work' \in [Workers -> Job \cup {Nothing}]
    BY <1>8, Answers
  <2>2. taken' \in [Staff -> 0..Many]
    BY <1>8, TakenGrows
  <2> QED BY <1>8, <2>1, <2>2 DEF TypeOK, SaasTakes, Fault
<1>14. ASSUME NEW w \in Workers, SaasRedirects(w) PROVE TypeOK'
  BY <1>14, Answers DEF TypeOK, SaasRedirects, Astray
<1>15. ASSUME NEW w \in Workers, SaasBabbles(w) PROVE TypeOK'
  <2>1. work[w] \in Job /\ work[w].req \in Staff
    BY <1>15, Posting DEF SaasBabbles
  <2>2. tasks' \in [Task -> Nat]
    BY <1>15, <2>1, AgainIsTask, WithType DEF SaasBabbles, TypeOK
  <2> QED BY <1>15, <2>1, <2>2, TakenGrows DEF TypeOK, SaasBabbles, Astray
<1>9. ASSUME NEW w \in Workers, SaasRefuses(w) PROVE TypeOK'
  BY <1>9, Answers DEF TypeOK, SaasRefuses
<1>10. ASSUME NEW w \in Workers, Save(w) PROVE TypeOK'
  <2>1. work[w] \in Job
    BY <1>10, JobsAreWork DEF Save
  <2>2. tasks' \in [Task -> Nat]
    BY <1>10, <2>1, AgainIsTask, WithType DEF Save, TypeOK
  <2> QED BY <1>10, <2>2 DEF TypeOK, Save, Recorded, Statuses
<1>11. ASSUME NEW w \in Workers, Raise(w) PROVE TypeOK'
  <2>1. work[w] \in Job
    BY <1>11, JobsAreWork DEF Raise
  <2>2. tasks' \in [Task -> Nat]
    BY <1>11, <2>1, AgainIsTask, WithType DEF Raise, TypeOK
  <2> QED BY <1>11, <2>2 DEF TypeOK, Raise, Fault
<1>12. ASSUME NEW w \in Workers, Crash(w) PROVE TypeOK'
  BY <1>12 DEF TypeOK, Crash, Fault
<1>13. CASE UNCHANGED vars
  BY <1>13 DEF vars, TypeOK
<1> QED
  BY <1>1, <1>2, <1>3, <1>4, <1>5, <1>6, <1>7, <1>8, <1>9, <1>10, <1>11, <1>12, <1>13,
     <1>14, <1>15
     DEF Next, Run

-----------------------------------------------------------------------------
(* What the SaaS has taken stays taken, and a row becomes "delivered" only  *)
(* by the save of an accepted post.                                         *)
LEMMA TakenStep ==
  ASSUME TypeOK, TypeOK', AcceptedWasTaken, DeliveredWasTaken, [Next]_vars
  PROVE  AcceptedWasTaken' /\ DeliveredWasTaken'
<1>1. ASSUME NEW r \in Staff, RequestStaff(r) \/ MarkUnqueued(r)
      PROVE  AcceptedWasTaken' /\ DeliveredWasTaken'
  BY <1>1 DEF RequestStaff, MarkUnqueued, TypeOK, AcceptedWasTaken, DeliveredWasTaken, Doing, Job
<1>2. CASE UNCHANGED <<row, work, taken, odd>>
  BY <1>2 DEF AcceptedWasTaken, DeliveredWasTaken, Doing
<1>3. ASSUME NEW m \in Task, NEW w \in Workers, Take(w, m)
      PROVE  AcceptedWasTaken' /\ DeliveredWasTaken'
  BY <1>3 DEF Take, TypeOK, AcceptedWasTaken, DeliveredWasTaken, Doing
<1>4. ASSUME NEW w \in Workers, SaasTakes(w)
      PROVE  AcceptedWasTaken' /\ DeliveredWasTaken'
  <2>1. \A v \in Workers \ {w} :
          Doing(v, "accepted")' /\ work'[v].req \notin odd => taken'[work'[v].req] > 0
    BY <1>4, Answers, TakenGrows, JobsAreWork DEF AcceptedWasTaken, Doing
  <2>2. taken'[work'[w].req] > 0
    BY <1>4, Answers, TakenGrows
  <2>3. UNCHANGED <<row, odd>>
    BY <1>4 DEF SaasTakes
  <2> QED BY <1>4, <2>1, <2>2, <2>3, TakenGrows DEF AcceptedWasTaken, DeliveredWasTaken
<1>5. ASSUME NEW w \in Workers, SaasRefuses(w)
      PROVE  AcceptedWasTaken' /\ DeliveredWasTaken'
  BY <1>5, Answers, Refused DEF SaasRefuses, AcceptedWasTaken, DeliveredWasTaken, Doing
<1>6. ASSUME NEW w \in Workers, Save(w)
      PROVE  AcceptedWasTaken' /\ DeliveredWasTaken'
  <2>1. work[w].req \in Staff
    BY <1>6, JobsAreWork DEF Save
  <2>2. Recorded(work[w].step) = "delivered" => work[w].step = "accepted"
    BY DEF Recorded
  <2>3. DeliveredWasTaken'
    BY <1>6, <2>1, <2>2 DEF Save, TypeOK, AcceptedWasTaken, DeliveredWasTaken, Doing
  <2>4. AcceptedWasTaken'
    BY <1>6 DEF Save, TypeOK, AcceptedWasTaken, Doing
  <2> QED BY <2>3, <2>4
<1>7. ASSUME NEW w \in Workers, Raise(w) \/ Crash(w)
      PROVE  AcceptedWasTaken' /\ DeliveredWasTaken'
  BY <1>7 DEF Raise, Crash, TypeOK, AcceptedWasTaken, DeliveredWasTaken, Doing
<1>8. ASSUME NEW w \in Workers, SaasRedirects(w)
      PROVE  AcceptedWasTaken' /\ DeliveredWasTaken'
  <2>1. odd' = odd \cup {work[w].req} /\ UNCHANGED <<row, taken>>
    BY <1>8 DEF SaasRedirects, Astray
  <2>2. \A v \in Workers \ {w} : Doing(v, "accepted")' /\ work'[v].req \notin odd' => taken'[work'[v].req] > 0
    BY <1>8, <2>1, Answers DEF AcceptedWasTaken, Doing
  <2>3. work'[w].req \in odd'
    BY <1>8, <2>1, Answers
  <2> QED BY <2>1, <2>2, <2>3 DEF AcceptedWasTaken, DeliveredWasTaken
<1>9. ASSUME NEW w \in Workers, SaasBabbles(w)
      PROVE  AcceptedWasTaken' /\ DeliveredWasTaken'
  <2>1. odd \subseteq odd' /\ UNCHANGED row /\ work' = [work EXCEPT ![w] = Nothing]
    BY <1>9 DEF SaasBabbles, Astray
  <2>2. \A v \in Workers : Doing(v, "accepted")' => Doing(v, "accepted") /\ work'[v] = work[v]
    BY <2>1 DEF TypeOK, Doing
  <2>3. \A v \in Workers : Doing(v, "accepted") => work[v].req \in Staff
    BY JobsAreWork DEF Doing
  <2> QED BY <1>9, <2>1, <2>2, <2>3, TakenGrows DEF AcceptedWasTaken, DeliveredWasTaken
<1> QED
  BY <1>1, <1>2, <1>3, <1>4, <1>5, <1>6, <1>7, <1>8, <1>9
     DEF Next, Run, vars, QueueTask, QueueRefused, AskerDies, LoseTask

-----------------------------------------------------------------------------
(* Where tasks are, after one was queued or delivered. *)
LEMMA QueuedAfterWith ==
  ASSUME TypeOK, NEW m \in Task, tasks' = With(m), NEW r \in Staff
  PROVE  Queued(r)' <=> Queued(r) \/ m.req = r
BY DEF TypeOK, With, Queued

LEMMA QueuedAfterWithout ==
  ASSUME TypeOK, NEW m \in Task, tasks[m] > 0, tasks' = Without(m), NEW r \in Staff
  PROVE  Queued(r)' => Queued(r)
BY DEF TypeOK, Without, Queued

(* What a broker delivers leaves no task that was not there. *)
LEMMA DeliverQueued ==
  ASSUME TypeOK, NEW m \in Task, Deliver(m), NEW r \in Staff
  PROVE  Queued(r)' => Queued(r)
<1>1. CASE tasks' = Without(m)
  BY <1>1, QueuedAfterWithout DEF Deliver
<1>2. CASE tasks' = tasks
  BY <1>2 DEF Queued
<1> QED BY <1>1, <1>2 DEF Deliver

(* An execution that ends queues at most a task of its own request. *)
LEMMA AgainQueued ==
  ASSUME TypeOK, NEW w \in Workers, work[w] # Nothing,
         tasks' \in {tasks, Again(work[w])}, NEW r \in Staff
  PROVE  Queued(r)' => Queued(r) \/ HeldBy(w, r)
<1>1. CASE tasks' = tasks
  BY <1>1 DEF Queued
<1>2. ASSUME NEW m \in Task, m.req = work[w].req, tasks' = With(m)
      PROVE  Queued(r)' => Queued(r) \/ HeldBy(w, r)
  BY <1>2, QueuedAfterWith DEF HeldBy
<1> QED BY <1>1, <1>2, JobsAreWork, AgainIsTask

LEMMA StoredStep ==
  ASSUME TypeOK, TypeOK', StoredFirst, [Next]_vars
  PROVE  StoredFirst'
<1> SUFFICES ASSUME NEW r \in Staff, row'[r] = "none"
             PROVE  /\ sending'[r] = "no" /\ taken'[r] = 0 /\ ~Queued(r)'
                    /\ \A w \in Workers : ~HeldBy(w, r)'
  BY DEF StoredFirst
<1> DEFINE Goal == /\ sending'[r] = "no" /\ taken'[r] = 0 /\ ~Queued(r)'
                   /\ \A w \in Workers : ~HeldBy(w, r)'
<1> USE DEF StoredFirst
<1>1. ASSUME NEW q \in Staff, RequestStaff(q) PROVE Goal
  BY <1>1 DEF RequestStaff, TypeOK, Queued, HeldBy
<1>2. ASSUME NEW q \in Staff, QueueTask(q) PROVE Goal
  BY <1>2, FirstIsTask, QueuedAfterWith DEF QueueTask, TypeOK, HeldBy
<1>3. ASSUME NEW q \in Staff, QueueRefused(q) PROVE Goal
  <2>1. q # r /\ ~Queued(r)
    BY <1>3 DEF QueueRefused
  <2>2. CASE tasks' = tasks
    BY <1>3, <2>1, <2>2 DEF QueueRefused, TypeOK, HeldBy, Queued
  <2>3. CASE tasks' = With(First(q))
    <3>1. ~Queued(r)'
      BY <2>1, <2>3, FirstIsTask, QueuedAfterWith
    <3> QED BY <1>3, <2>1, <3>1 DEF QueueRefused, TypeOK, HeldBy
  <2> QED BY <1>3, <2>2, <2>3 DEF QueueRefused
<1>4. ASSUME NEW q \in Staff, MarkUnqueued(q) PROVE Goal
  BY <1>4 DEF MarkUnqueued, TypeOK, HeldBy, Queued
<1>5. ASSUME NEW q \in Staff, AskerDies(q) PROVE Goal
  BY <1>5 DEF AskerDies, TypeOK, HeldBy, Queued
<1>6. ASSUME NEW m \in Task, LoseTask(m) PROVE Goal
  BY <1>6, QueuedAfterWithout DEF LoseTask, TypeOK, HeldBy
<1>7. ASSUME NEW m \in Task, NEW w \in Workers, Take(w, m) PROVE Goal
  <2>1. ~Queued(r) /\ UNCHANGED <<row, sending, taken>>
    BY <1>7 DEF Take
  <2>2. m.req # r
    BY <1>7, <2>1 DEF Take, Deliver, Queued
  <2>3. \A v \in Workers : ~HeldBy(v, r)'
    BY <1>7, <2>1, <2>2 DEF Take, TypeOK, HeldBy
  <2> QED BY <1>7, <2>1, <2>3, DeliverQueued DEF Take
<1>8. ASSUME NEW w \in Workers, SaasTakes(w) \/ SaasRefuses(w) \/ SaasRedirects(w)
      PROVE  Goal
  <2>1. UNCHANGED <<row, sending, tasks>> /\ ~HeldBy(w, r) /\ work[w] # Nothing
    BY <1>8 DEF SaasTakes, SaasRefuses, SaasRedirects, Doing
  <2>2. \A v \in Workers : ~HeldBy(v, r)'
    BY <1>8, <2>1, Answers DEF HeldBy
  <2>3. taken'[r] = 0
    <3>1. CASE SaasTakes(w)
      BY <2>1, <3>1, TakenGrows DEF HeldBy
    <3>2. CASE SaasRefuses(w) \/ SaasRedirects(w)
      BY <2>1, <3>2 DEF SaasRefuses, SaasRedirects
    <3> QED BY <1>8, <3>1, <3>2
  <2> QED BY <2>1, <2>2, <2>3 DEF Queued
<1>9. ASSUME NEW w \in Workers, Save(w) \/ Raise(w) PROVE Goal
  <2>1. row[r] = "none"
    BY <1>9, JobsAreWork DEF Save, Raise, TypeOK, Recorded
  <2>2. UNCHANGED <<sending, taken>> /\ work[w] # Nothing
          /\ tasks' \in {tasks, Again(work[w])}
          /\ work' = [work EXCEPT ![w] = Nothing]
    BY <1>9 DEF Save, Raise
  <2> QED BY <2>1, <2>2, AgainQueued DEF TypeOK, HeldBy
<1>10. ASSUME NEW w \in Workers, Crash(w) PROVE Goal
  BY <1>10 DEF Crash, TypeOK, HeldBy, Queued
<1>12. ASSUME NEW w \in Workers, SaasBabbles(w) PROVE Goal
  <2>1. /\ UNCHANGED <<row, sending>> /\ work[w] # Nothing
        /\ tasks' = Again(work[w]) /\ work' = [work EXCEPT ![w] = Nothing]
    BY <1>12, Posting DEF SaasBabbles
  <2>2. ~HeldBy(w, r) /\ ~Queued(r) /\ taken[r] = 0
    BY <2>1
  <2>3. taken'[r] = 0
    BY <1>12, <2>1, <2>2, TakenGrows DEF HeldBy
  <2>4. ~Queued(r)'
    BY <2>1, <2>2, AgainQueued
  <2> QED BY <2>1, <2>3, <2>4 DEF TypeOK, HeldBy
<1>11. CASE UNCHANGED vars
  BY <1>11 DEF vars, HeldBy, Queued
<1> QED
  BY <1>1, <1>2, <1>3, <1>4, <1>5, <1>6, <1>7, <1>8, <1>9, <1>10, <1>11, <1>12 DEF Next, Run

-----------------------------------------------------------------------------
(* A first task of a request is its only one. *)
LEMMA OneTaskAfterWith ==
  ASSUME TypeOK, OneTask, NEW m \in Task, tasks' = With(m), ~Queued(m.req)
  PROVE  OneTask'
BY DEF TypeOK, OneTask, With, Queued

(* Once delivered without a fault, a task has no other copy. *)
LEMMA TakenFromQueue ==
  ASSUME TypeOK, OneTask, NEW m \in Task, tasks[m] > 0, tasks' = Without(m)
  PROVE  OneTask' /\ ~Queued(m.req)'
<1>1. \A n \in Task : tasks'[n] = IF n = m THEN 0 ELSE tasks[n]
  BY DEF TypeOK, OneTask, Without
<1> QED BY <1>1 DEF TypeOK, OneTask, Queued

LEMMA PlaceStep ==
  ASSUME TypeOK, TypeOK', StoredFirst, InOnePlace, [Next]_vars
  PROVE  InOnePlace'
<1> DEFINE Alone == DueAlone /\ QueuedAlone /\ OneTask /\ HeldAlone
<1> SUFFICES ASSUME faults' = 0 PROVE Alone'
  BY DEF InOnePlace
<1>0. faults = 0 /\ Alone
  <2>1. faults' = faults \/ faults' = faults + 1
    BY DEF Next, Run, vars, Fault, RequestStaff, QueueTask, QueueRefused, MarkUnqueued,
       AskerDies, LoseTask, Take, Deliver, SaasTakes, SaasRefuses,
       SaasRedirects, SaasBabbles, Save, Raise, Crash
  <2> QED BY <2>1 DEF InOnePlace, TypeOK
<1>a. ~Fault
  BY <1>0 DEF Fault
<1>1. ASSUME NEW q \in Staff, RequestStaff(q) PROVE Alone'
  BY <1>0, <1>1 DEF RequestStaff, TypeOK, StoredFirst, DueAlone, QueuedAlone, OneTask, HeldAlone,
     Fresh, Queued, HeldBy
<1>2. ASSUME NEW q \in Staff, QueueTask(q) PROVE Alone'
  <2> DEFINE m == First(q)
  <2>1. m \in Task /\ m.req = q
    BY FirstIsTask
  <2>2. ~Queued(q) /\ Fresh(q) /\ \A w \in Workers : ~HeldBy(w, q)
    BY <1>0, <1>2 DEF QueueTask, DueAlone
  <2>3. tasks' = With(m)
    BY <1>2 DEF QueueTask
  <2> HIDE DEF m
  <2>4. \A r \in Staff : Queued(r)' <=> Queued(r) \/ r = q
    BY <2>1, <2>3, QueuedAfterWith
  <2>5. OneTask'
    BY <1>0, <2>1, <2>2, <2>3, OneTaskAfterWith
  <2>6. UNCHANGED <<row, work, taken, odd>>
          /\ \A r \in Staff : sending'[r] = IF r = q THEN "no" ELSE sending[r]
    BY <1>2 DEF QueueTask, TypeOK
  <2> QED BY <1>0, <2>2, <2>4, <2>5, <2>6 DEF DueAlone, QueuedAlone, HeldAlone, Fresh, HeldBy
<1>3. ASSUME NEW m \in Task, NEW w \in Workers, Take(w, m) PROVE Alone'
  <2>1. tasks[m] > 0 /\ tasks' = Without(m) /\ m.req \in Staff
    BY <1>a, <1>3 DEF Take, Deliver, Task
  <2>2. OneTask' /\ ~Queued(m.req)' /\ \A r \in Staff : Queued(r)' => Queued(r)
    BY <1>0, <2>1, TakenFromQueue, QueuedAfterWithout
  <2>3. Queued(m.req) /\ Fresh(m.req) /\ sending[m.req] = "no"
          /\ \A v \in Workers : ~HeldBy(v, m.req)
    BY <1>0, <2>1 DEF Queued, QueuedAlone, DueAlone, TypeOK
  <2>4. UNCHANGED <<row, sending, taken, odd>>
    BY <1>3 DEF Take
  <2>5. /\ work[w] = Nothing /\ work'[w].req = m.req /\ work'[w].step # "accepted"
        /\ \A v \in Workers \ {w} : work'[v] = work[v]
    BY <1>3 DEF Take, TypeOK
  <2>6. \A v \in Workers, r \in Staff :
          HeldBy(v, r)' => (HeldBy(v, r) /\ v # w) \/ (v = w /\ r = m.req)
    BY <2>5 DEF HeldBy
  <2>7. DueAlone' /\ QueuedAlone'
    BY <1>0, <2>2, <2>3, <2>4, <2>6 DEF DueAlone, QueuedAlone, Fresh
  <2>8. HeldAlone'
    BY <1>0, <2>3, <2>4, <2>5, <2>6 DEF HeldAlone, Fresh, TypeOK
  <2> QED BY <2>2, <2>7, <2>8
<1>4. ASSUME NEW w \in Workers, SaasTakes(w) PROVE Alone'
  <2> DEFINE q == work[w].req
  <2>1. /\ work[w] # Nothing /\ work[w].step = "post" /\ q \in Staff
        /\ UNCHANGED <<row, sending, tasks, odd>>
    BY <1>4, JobsAreWork DEF SaasTakes, Doing
  <2>2. HeldBy(w, q) /\ (q \notin odd => taken[q] = 0) /\ row[q] # "delivered"
    BY <1>0, <2>1 DEF HeldAlone, HeldBy
  <2>3. \A r \in Staff : r \notin odd => taken'[r] = IF r = q THEN 1 ELSE taken[r]
    BY <1>4, <2>2, TakenGrows
  <2>4. \A v \in Workers, r \in Staff : HeldBy(v, r)' <=> HeldBy(v, r)
    BY <1>4, <2>1, Answers DEF HeldBy
  <2>5. work'[w].step = "accepted"
    <3>1. work' = [work EXCEPT ![w].step = "accepted"]
      BY <1>4, <1>a DEF SaasTakes
    <3>2. work[w] \in Job
      BY <2>1, JobsAreWork
    <3> DEFINE k == [work[w] EXCEPT !.step = "accepted"]
    <3>3. k.step = "accepted"
      BY <3>2, NextStep DEF Outcomes
    <3>4. work' = [work EXCEPT ![w] = k]
      BY <3>1
    <3> HIDE DEF k
    <3>5. work'[w] = k
      BY <3>4 DEF TypeOK
    <3> QED BY <3>3, <3>5
  <2>6. \A v \in Workers \ {w} : work'[v] = work[v]
    BY <1>4, Answers
  <2>7. sending[q] = "no" /\ ~Queued(q) /\ \A v \in Workers : HeldBy(v, q) => v = w
    BY <1>0, <2>1, <2>2 DEF DueAlone, QueuedAlone, HeldAlone, TypeOK
  <2> HIDE DEF q
  <2>8. DueAlone' /\ QueuedAlone' /\ OneTask'
    BY <1>0, <2>1, <2>3, <2>4, <2>7 DEF DueAlone, QueuedAlone, OneTask, Fresh, Queued
  <2>9. HeldAlone'
    BY <1>0, <2>1, <2>2, <2>3, <2>4, <2>5, <2>6, <2>7 DEF HeldAlone, HeldBy
  <2> QED BY <2>8, <2>9
<1>5. ASSUME NEW w \in Workers, SaasRefuses(w) PROVE Alone'
  <2>1. /\ work[w] # Nothing /\ work[w].step = "post"
        /\ UNCHANGED <<row, sending, tasks, taken, odd>>
    BY <1>5 DEF SaasRefuses, Doing
  <2>2. \A v \in Workers, r \in Staff : HeldBy(v, r)' <=> HeldBy(v, r)
    BY <1>5, <2>1, Answers DEF HeldBy
  <2>3. work'[w].step # "accepted"
    BY <1>5, Refused
  <2>4. \A v \in Workers \ {w} : work'[v] = work[v]
    BY <1>5, Answers
  <2>5. DueAlone' /\ QueuedAlone' /\ OneTask'
    BY <1>0, <2>1, <2>2 DEF DueAlone, QueuedAlone, OneTask, Fresh, Queued
  <2>6. HeldAlone'
    BY <1>0, <2>1, <2>2, <2>3, <2>4 DEF HeldAlone
  <2> QED BY <2>5, <2>6
<1>6. ASSUME NEW w \in Workers, Save(w) PROVE Alone'
  <2> DEFINE q == work[w].req
  <2>1. work[w] \in Job /\ q \in Staff /\ HeldBy(w, q)
    BY <1>6, JobsAreWork DEF Save, HeldBy
  <2>2. /\ sending[q] = "no" /\ ~Queued(q)
        /\ \A v \in Workers : HeldBy(v, q) => v = w
        /\ q \notin odd => taken[q] = IF work[w].step = "accepted" THEN 1 ELSE 0
    BY <1>0, <2>1 DEF DueAlone, QueuedAlone, HeldAlone, TypeOK
  <2>3. /\ UNCHANGED <<sending, taken, odd>>
        /\ row'[q] = Recorded(work[w].step)
        /\ \A r \in Staff : r # q => row'[r] = row[r]
        /\ work'[w] = Nothing /\ \A v \in Workers \ {w} : work'[v] = work[v]
    BY <1>6, <2>1 DEF Save, TypeOK
  <2>4. \A v \in Workers, r \in Staff : HeldBy(v, r)' <=> HeldBy(v, r) /\ v # w
    BY <2>3 DEF HeldBy
  <2>5. OneTask' /\ \A r \in Staff : Queued(r)' =>
                      Queued(r) \/ (r = q /\ work[w].step = "error")
    <3>1. CASE tasks' = tasks
      BY <1>0, <3>1 DEF OneTask, Queued
    <3>2. CASE work[w].step = "error" /\ tasks' = Again(work[w]) /\ tasks' # tasks
      <4>1. PICK m \in Task : m.req = q /\ tasks' = With(m)
        BY <2>1, <3>2, AgainIsTask
      <4>2. OneTask'
        BY <1>0, <2>2, <4>1, OneTaskAfterWith
      <4>3. \A r \in Staff : Queued(r)' => Queued(r) \/ r = q
        BY <4>1, QueuedAfterWith
      <4> QED BY <3>2, <4>2, <4>3
    <3> QED BY <1>6, <3>1, <3>2 DEF Save
  <2>6. work[w].step = "error" => row'[q] # "delivered" /\ (q \notin odd => taken[q] = 0)
    BY <2>2, <2>3 DEF Recorded
  <2> HIDE DEF q
  <2>7. DueAlone'
    BY <1>0, <2>2, <2>3, <2>4, <2>5 DEF DueAlone, Fresh
  <2>8. QueuedAlone'
    BY <1>0, <2>2, <2>3, <2>4, <2>5, <2>6 DEF QueuedAlone, Fresh
  <2>9. HeldAlone'
    BY <1>0, <2>2, <2>3, <2>4 DEF HeldAlone
  <2> QED BY <2>5, <2>7, <2>8, <2>9
<1>10. ASSUME NEW w \in Workers, SaasRedirects(w) PROVE Alone'
  <2>1. /\ UNCHANGED <<row, sending, tasks, taken>> /\ work[w] # Nothing
        /\ odd' = odd \cup {work[w].req}
    BY <1>10 DEF SaasRedirects, Astray, Doing
  <2>2. \A v \in Workers, r \in Staff : HeldBy(v, r)' <=> HeldBy(v, r)
    BY <1>10, <2>1, Answers DEF HeldBy
  <2>3. \A v \in Workers \ {w} : work'[v] = work[v]
    BY <1>10, Answers
  <2>4. \A r \in Staff : HeldBy(w, r) => r \in odd'
    BY <2>1 DEF HeldBy
  <2>5. DueAlone' /\ QueuedAlone' /\ OneTask'
    BY <1>0, <2>1, <2>2 DEF DueAlone, QueuedAlone, OneTask, Fresh, Queued
  <2>6. HeldAlone'
    BY <1>0, <2>1, <2>2, <2>3, <2>4 DEF HeldAlone
  <2> QED BY <2>5, <2>6
<1>11. ASSUME NEW w \in Workers, SaasBabbles(w) PROVE Alone'
  <2> DEFINE q == work[w].req
  <2>1. work[w] \in Job /\ q \in Staff /\ HeldBy(w, q)
    BY <1>11, Posting DEF SaasBabbles, HeldBy
  <2>2. /\ sending[q] = "no" /\ ~Queued(q) /\ row[q] # "delivered"
        /\ \A v \in Workers : HeldBy(v, q) => v = w
    BY <1>0, <2>1 DEF DueAlone, QueuedAlone, HeldAlone, TypeOK
  <2>3. /\ UNCHANGED <<row, sending>> /\ tasks' = Again(work[w])
        /\ odd' = odd \cup {q} /\ \A r \in Staff : r # q => taken'[r] = taken[r]
        /\ work'[w] = Nothing /\ \A v \in Workers \ {w} : work'[v] = work[v]
    BY <1>11, <2>1, TakenGrows DEF SaasBabbles, Astray, TypeOK
  <2>4. \A v \in Workers, r \in Staff : HeldBy(v, r)' <=> HeldBy(v, r) /\ v # w
    BY <2>3 DEF HeldBy
  <2>5. OneTask' /\ \A r \in Staff : Queued(r)' => Queued(r) \/ r = q
    <3>1. CASE tasks' = tasks
      BY <1>0, <3>1 DEF OneTask, Queued
    <3>2. CASE tasks' # tasks
      <4>1. PICK m \in Task : m.req = q /\ tasks' = With(m)
        BY <2>1, <2>3, <3>2, AgainIsTask
      <4> QED BY <1>0, <2>2, <4>1, OneTaskAfterWith, QueuedAfterWith
    <3> QED BY <3>1, <3>2
  <2> HIDE DEF q
  <2>6. DueAlone'
    BY <1>0, <2>2, <2>3, <2>4, <2>5 DEF DueAlone, Fresh
  <2>7. QueuedAlone'
    BY <1>0, <2>2, <2>3, <2>4, <2>5 DEF QueuedAlone, Fresh
  <2>8. HeldAlone'
    BY <1>0, <2>2, <2>3, <2>4 DEF HeldAlone
  <2> QED BY <2>5, <2>6, <2>7, <2>8
<1>7. CASE UNCHANGED vars
  BY <1>0, <1>7 DEF vars, DueAlone, QueuedAlone, OneTask, HeldAlone, Fresh, Queued, HeldBy
<1>8. \A q \in Staff : ~QueueRefused(q) /\ ~MarkUnqueued(q) /\ ~AskerDies(q)
  BY <1>0, <1>a DEF QueueRefused, MarkUnqueued, AskerDies, DueAlone
<1>9. /\ \A m \in Task : ~LoseTask(m)
      /\ \A w \in Workers : ~Raise(w) /\ ~Crash(w)
  BY <1>a DEF LoseTask, Raise, Crash
<1> QED
  BY <1>1, <1>2, <1>3, <1>4, <1>5, <1>6, <1>7, <1>8, <1>9, <1>10, <1>11
     DEF Next, Run

-----------------------------------------------------------------------------
(* RowIsRight: a request that is settled after a step was settled before it *)
(* with the same row, unless the step saved its outcome.                    *)
LEMMA RowStep ==
  ASSUME TypeOK, TypeOK', StoredFirst, InOnePlace, InOnePlace', RowIsRight, [Next]_vars
  PROVE  RowIsRight'
<1> SUFFICES ASSUME faults' = 0, NEW r \in Staff \ odd'
             PROVE  taken'[r] <= 1 /\ (Settled(r)' => (row'[r] = "delivered" <=> taken'[r] = 1))
  BY DEF RowIsRight
<1> DEFINE Right == taken'[r] <= 1 /\ (Settled(r)' => (row'[r] = "delivered" <=> taken'[r] = 1))
<1>0. /\ faults = 0 /\ taken[r] <= 1 /\ r \notin odd
      /\ Settled(r) => (row[r] = "delivered" <=> taken[r] = 1)
  <2>1. faults' = faults \/ faults' = faults + 1
    BY DEF Next, Run, vars, Fault, RequestStaff, QueueTask, QueueRefused, MarkUnqueued,
       AskerDies, LoseTask, Take, Deliver, SaasTakes, SaasRefuses,
       SaasRedirects, SaasBabbles, Save, Raise, Crash
  <2>2. odd \subseteq odd'
    BY DEF Next, Run, vars, RequestStaff, QueueTask, QueueRefused, MarkUnqueued,
       AskerDies, LoseTask, Take, Deliver, SaasTakes, SaasRefuses,
       SaasRedirects, SaasBabbles, Astray, Save, Raise, Crash
  <2> QED BY <2>1, <2>2 DEF RowIsRight, TypeOK
<1>a. ~Fault
  BY <1>0 DEF Fault
<1>b. ASSUME row'[r] = row[r], taken'[r] = taken[r], Settled(r)' => Settled(r)
      PROVE  Right
  BY <1>0, <1>b
<1>1. ASSUME NEW q \in Staff, RequestStaff(q) PROVE Right
  <2>1. CASE q = r
    BY <1>0, <1>1, <2>1 DEF RequestStaff, TypeOK, Settled
  <2>2. CASE q # r
    BY <1>b, <1>1, <2>2 DEF RequestStaff, TypeOK, Settled, Queued, HeldBy
  <2> QED BY <2>1, <2>2
<1>2. ASSUME NEW q \in Staff, QueueTask(q) PROVE Right
  <2>1. Queued(r)' <=> Queued(r) \/ q = r
    BY <1>2, FirstIsTask, QueuedAfterWith DEF QueueTask
  <2> QED BY <1>b, <1>2, <2>1 DEF QueueTask, TypeOK, Settled, HeldBy
<1>3. ASSUME NEW m \in Task, NEW w \in Workers, Take(w, m) PROVE Right
  <2>1. UNCHANGED <<row, sending, taken>>
    BY <1>3 DEF Take
  <2>2. CASE m.req = r
    <3>1. HeldBy(w, r)'
      BY <1>3, <2>2 DEF Take, TypeOK, HeldBy
    <3> QED BY <1>b, <2>1, <3>1 DEF Settled
  <2>3. CASE m.req # r
    <3>1. Queued(r) => Queued(r)'
      <4>1. tasks' = Without(m)
        BY <1>a, <1>3 DEF Take, Deliver
      <4> QED BY <2>3, <4>1 DEF Without, Queued, TypeOK
    <3>2. \A v \in Workers : HeldBy(v, r) => HeldBy(v, r)'
      BY <1>3 DEF Take, TypeOK, HeldBy
    <3> QED BY <1>b, <2>1, <3>1, <3>2 DEF Settled
  <2> QED BY <2>2, <2>3
<1>4. ASSUME NEW w \in Workers, SaasTakes(w) \/ SaasRefuses(w) \/ SaasRedirects(w)
      PROVE  Right
  <2>1. /\ UNCHANGED <<row, sending, tasks>>
        /\ work[w] # Nothing /\ work[w].step = "post"
    BY <1>4 DEF SaasTakes, SaasRefuses, SaasRedirects, Doing
  <2>2. \A v \in Workers : HeldBy(v, r)' <=> HeldBy(v, r)
    BY <1>4, <2>1, Answers DEF HeldBy
  <2>3. CASE ~HeldBy(w, r)
    <3>1. taken'[r] = taken[r]
      <4>1. CASE SaasTakes(w)
        BY <2>1, <2>3, <4>1, TakenGrows DEF HeldBy
      <4>2. CASE SaasRefuses(w) \/ SaasRedirects(w)
        BY <4>2 DEF SaasRefuses, SaasRedirects
      <4> QED BY <1>4, <4>1, <4>2
    <3> QED BY <1>b, <2>1, <2>2, <3>1 DEF Settled, Queued
  <2>4. CASE HeldBy(w, r)
    <3>1. ~Settled(r)' /\ HeldBy(w, r)'
      BY <2>2, <2>4 DEF Settled
    <3>2. taken'[r] <= 1
      BY <3>1 DEF InOnePlace, HeldAlone
    <3> QED BY <3>1, <3>2
  <2> QED BY <2>3, <2>4
<1>5. ASSUME NEW w \in Workers, Save(w) PROVE Right
  <2>1. work[w] \in Job /\ work[w] # Nothing /\ UNCHANGED <<sending, taken>>
    BY <1>5, JobsAreWork DEF Save
  <2>2. CASE HeldBy(w, r)
    <3>1. row'[r] = Recorded(work[w].step) /\ work[w].step # "post"
      BY <1>5, <2>2 DEF Save, TypeOK, HeldBy
    <3>2. taken[r] = IF work[w].step = "accepted" THEN 1 ELSE 0
      BY <1>0, <2>2 DEF InOnePlace, HeldAlone
    <3>3. Recorded(work[w].step) = "delivered" <=> work[w].step = "accepted"
      BY <2>1 DEF Recorded, Job, Outcomes
    <3> QED BY <2>1, <3>1, <3>2, <3>3
  <2>3. CASE ~HeldBy(w, r)
    <3>1. row'[r] = row[r] /\ \A v \in Workers : HeldBy(v, r) => HeldBy(v, r)'
      BY <1>5, <2>1, <2>3 DEF Save, TypeOK, HeldBy
    <3>2. Queued(r) => Queued(r)'
      <4>1. CASE tasks' = tasks
        BY <4>1 DEF Queued
      <4>2. ASSUME NEW m \in Task, m.req = work[w].req, tasks' = With(m)
            PROVE  Queued(r) => Queued(r)'
        BY <4>2, QueuedAfterWith
      <4> QED BY <1>5, <2>1, <4>1, <4>2, AgainIsTask DEF Save
    <3> QED BY <1>b, <2>1, <3>1, <3>2 DEF Settled
  <2> QED BY <2>2, <2>3
<1>9. ASSUME NEW w \in Workers, SaasBabbles(w) PROVE Right
  <2>1. /\ work[w] \in Job /\ work[w] # Nothing /\ work[w].req # r
        /\ UNCHANGED <<row, sending>> /\ tasks' = Again(work[w])
    BY <1>9, Posting DEF SaasBabbles, Astray
  <2>2. taken'[r] = taken[r]
    BY <1>9, <2>1, TakenGrows
  <2>3. \A v \in Workers : HeldBy(v, r) => HeldBy(v, r)'
    BY <1>9, <2>1 DEF SaasBabbles, TypeOK, HeldBy
  <2>4. Queued(r) => Queued(r)'
    <3>1. CASE tasks' = tasks
      BY <3>1 DEF Queued
    <3>2. ASSUME NEW m \in Task, m.req = work[w].req, tasks' = With(m)
          PROVE  Queued(r) => Queued(r)'
      BY <3>2, QueuedAfterWith
    <3> QED BY <2>1, <3>1, <3>2, AgainIsTask
  <2> QED BY <1>b, <2>1, <2>2, <2>3, <2>4 DEF Settled
<1>6. CASE UNCHANGED vars
  BY <1>b, <1>6 DEF vars, Settled, Queued, HeldBy
<1>7. \A q \in Staff : ~QueueRefused(q) /\ ~MarkUnqueued(q) /\ ~AskerDies(q)
  BY <1>0, <1>a DEF QueueRefused, MarkUnqueued, AskerDies, InOnePlace, DueAlone
<1>8. /\ \A m \in Task : ~LoseTask(m)
      /\ \A w \in Workers : ~Raise(w) /\ ~Crash(w)
  BY <1>a DEF LoseTask, Raise, Crash
<1> QED
  BY <1>1, <1>2, <1>3, <1>4, <1>5, <1>6, <1>7, <1>8, <1>9 DEF Next, Run

-----------------------------------------------------------------------------
(* Whatever is lost, repeated or dies, forwarding keeps its invariant.      *)
THEOREM StaffInvariant == Spec => []StaffInv
<1>1. Init => StaffInv
  BY InitHolds
<1>2. StaffInv /\ [Next]_vars => StaffInv'
  <2> SUFFICES ASSUME StaffInv, [Next]_vars PROVE StaffInv'
    OBVIOUS
  <2>1. TypeOK'
    BY TypeStep DEF StaffInv
  <2>2. AcceptedWasTaken' /\ DeliveredWasTaken'
    BY <2>1, TakenStep DEF StaffInv
  <2>3. StoredFirst'
    BY <2>1, StoredStep DEF StaffInv
  <2>4. InOnePlace'
    BY <2>1, PlaceStep DEF StaffInv
  <2>5. RowIsRight'
    BY <2>1, <2>4, RowStep DEF StaffInv
  <2> QED BY <2>1, <2>2, <2>3, <2>4, <2>5 DEF StaffInv
<1> QED BY <1>1, <1>2, PTL DEF Spec

(* A row that says "delivered" is about a request the SaaS has taken.       *)
THEOREM DeliveredIsTrue == Spec => []DeliveredWasTaken
<1>1. StaffInv => DeliveredWasTaken
  BY DEF StaffInv
<1> QED BY <1>1, StaffInvariant, PTL

(* Without a fault nothing is forwarded twice, and settled rows are right.  *)
THEOREM RowsAreRight == Spec => []RowIsRight
<1>1. StaffInv => RowIsRight
  BY DEF StaffInv
<1> QED BY <1>1, StaffInvariant, PTL

-----------------------------------------------------------------------------
(* What a fault-free step is, and that it brings one request nearer to its  *)
(* end.                                                                     *)

(* Without a fault, only these happen. *)
LEMMA FaultFree ==
  ASSUME TypeOK, InOnePlace, [Next]_vars, faults' = 0
  PROVE  /\ faults = 0 /\ ~Fault
         /\ \/ \E q \in Staff : RequestStaff(q) \/ QueueTask(q)
            \/ \E w \in Workers, m \in Task : Take(w, m)
            \/ \E w \in Workers : Run(w)
            \/ UNCHANGED vars
<1>1. faults' = faults \/ faults' = faults + 1
  BY DEF Next, Run, vars, Fault, RequestStaff, QueueTask, QueueRefused, MarkUnqueued,
     AskerDies, LoseTask, Take, Deliver, SaasTakes, SaasRefuses,
       SaasRedirects, SaasBabbles, Save, Raise, Crash
<1>2. faults = 0 /\ ~Fault
  BY <1>1 DEF TypeOK, Fault
<1>3. \A q \in Staff : ~QueueRefused(q) /\ ~MarkUnqueued(q) /\ ~AskerDies(q)
  BY <1>2 DEF QueueRefused, MarkUnqueued, AskerDies, InOnePlace, DueAlone
<1>4. /\ \A m \in Task : ~LoseTask(m)
      /\ \A w \in Workers : ~Raise(w) /\ ~Crash(w)
  BY <1>2 DEF LoseTask, Raise, Crash
<1> QED BY <1>2, <1>3, <1>4 DEF Next

(* Without a fault the staff's row never loses a delivery it has recorded,  *)
(* though every execution saves over what the row says (_save).             *)
DeliveredIsKept ==
  [][faults' = 0 =>
       \A r \in Staff : row[r] = "delivered" => row'[r] = "delivered"]_vars

THEOREM DeliveriesAreKept == Spec => DeliveredIsKept
<1>1. StaffInv /\ [Next]_vars
        => [faults' = 0 =>
              \A r \in Staff : row[r] = "delivered" => row'[r] = "delivered"]_vars
  <2> SUFFICES ASSUME StaffInv, [Next]_vars, faults' = 0, NEW r \in Staff,
                      row[r] = "delivered"
               PROVE  row'[r] = "delivered"
    OBVIOUS
  <2> USE DEF StaffInv
  <2>1. ASSUME NEW q \in Staff, RequestStaff(q) PROVE row'[r] = row[r]
    BY <2>1 DEF RequestStaff, TypeOK
  <2>2. ASSUME NEW w \in Workers, Save(w) PROVE row'[r] = row[r]
    <3>1. HeldBy(w, work[w].req) /\ work[w].req \in Staff
      BY <2>2, JobsAreWork DEF Save, HeldBy
    <3>2. work[w].req # r
      BY <3>1, FaultFree DEF InOnePlace, HeldAlone
    <3> QED BY <2>2, <3>2 DEF Save, TypeOK
  <2>3. ASSUME NEW w \in Workers, Run(w), ~Save(w) PROVE row'[r] = row[r]
    BY <2>3 DEF Run, SaasTakes, SaasRefuses, SaasRedirects, SaasBabbles
  <2>4. ASSUME NEW w \in Workers, NEW m \in Task, Take(w, m) PROVE row'[r] = row[r]
    BY <2>4 DEF Take
  <2>5. ASSUME NEW q \in Staff, QueueTask(q) PROVE row'[r] = row[r]
    BY <2>5 DEF QueueTask
  <2> QED BY <2>1, <2>2, <2>3, <2>4, <2>5, FaultFree DEF vars
<1> QED BY <1>1, StaffInvariant, PTL DEF Spec, DeliveredIsKept

(* Request r is at most n steps from being settled: a retry costs three, a  *)
(* delivery, an answer and a save.                                          *)
Attempts(try) == 3 * (MaxRetries + 1 - try)

Within(r, n) ==
  /\ row[r] = "none" => n >= Attempts(0) + 2
  /\ sending[r] = "due" => n >= Attempts(0) + 1
  /\ \A m \in Task : m.req = r /\ tasks[m] > 0 => n >= Attempts(m.try)
  /\ \A w \in Workers : HeldBy(w, r) =>
       n >= Attempts(work[w].try) - (IF work[w].step = "post" THEN 1 ELSE 2)

(* A step of request r takes it one step nearer, and leaves the others.     *)
Nearer(r) ==
  /\ \A n \in Nat : Within(r, n) => n > 0 /\ Within(r, n - 1)'
  /\ \A q \in Staff \ {r}, n \in Nat : Within(q, n) => Within(q, n)'

LEMMA WithinBound ==
  ASSUME TypeOK, NEW r \in Staff
  PROVE  Within(r, Attempts(0) + 2)
<1>1. \A t \in 0..MaxRetries : Attempts(t) <= Attempts(0)
  BY StaffAssumption DEF Attempts
<1>2. Attempts(0) \in Nat /\ \A t \in 0..MaxRetries : Attempts(t) \in Nat
  BY StaffAssumption DEF Attempts
<1>3. \A m \in Task : m.try \in 0..MaxRetries
  BY DEF Task
<1>4. \A w \in Workers : HeldBy(w, r) => work[w].try \in 0..MaxRetries
  BY JobsAreWork DEF HeldBy, Job
<1> HIDE DEF Attempts
<1> QED BY <1>1, <1>2, <1>3, <1>4 DEF Within

(* No step is left just when the request is settled. *)
LEMMA WithinNone ==
  ASSUME TypeOK, InOnePlace, faults = 0, NEW r \in Staff
  PROVE  Within(r, 0) <=> Settled(r)
<1>1. sending[r] \in {"no", "due"}
  BY DEF TypeOK, InOnePlace, DueAlone
<1>2. \A t \in 0..MaxRetries : Attempts(t) \in Nat /\ Attempts(t) > 2
  BY StaffAssumption DEF Attempts
<1>3. 0 \in 0..MaxRetries /\ \A m \in Task : m.try \in 0..MaxRetries
  BY StaffAssumption DEF Task
<1>4. \A w \in Workers : HeldBy(w, r) => work[w].try \in 0..MaxRetries
  BY JobsAreWork DEF HeldBy, Job
<1>5. \A m \in Task : tasks[m] \in Nat
  BY DEF TypeOK
<1> HIDE DEF Attempts
<1>6. Within(r, 0) => Settled(r)
  BY <1>1, <1>2, <1>3, <1>4, <1>5 DEF Within, Settled, Queued
<1>7. Settled(r) => Within(r, 0)
  BY DEF Within, Settled, Queued
<1> QED BY <1>6, <1>7

(* Only what changed about another request would have to be looked at.      *)
LEMMA OthersStay ==
  ASSUME NEW q \in Staff, row'[q] = row[q], sending'[q] = sending[q],
         \A m \in Task : m.req = q => tasks'[m] = tasks[m],
         \A w \in Workers : HeldBy(w, q)' => HeldBy(w, q) /\ work'[w] = work[w],
         NEW n \in Nat, Within(q, n)
  PROVE  Within(q, n)'
BY DEF Within, Attempts

LEMMA RequestNearer ==
  ASSUME StaffInv, NEW r \in Staff, RequestStaff(r)
  PROVE  Nearer(r)
<1> USE DEF StaffInv
<1>1. /\ row[r] = "none" /\ row'[r] = "queued" /\ sending'[r] = "due"
      /\ UNCHANGED <<tasks, work>>
      /\ \A q \in Staff \ {r} : row'[q] = row[q] /\ sending'[q] = sending[q]
  BY DEF RequestStaff, TypeOK
<1>2. ~Queued(r) /\ \A w \in Workers : ~HeldBy(w, r)
  BY <1>1 DEF StoredFirst
<1>3. Attempts(0) \in Nat
  BY StaffAssumption DEF Attempts
<1>4. ASSUME NEW n \in Nat, Within(r, n)
      PROVE  n > 0 /\ Within(r, n - 1)'
  <2>1. n >= Attempts(0) + 2
    BY <1>1, <1>4 DEF Within
  <2>2. Attempts(0)' = Attempts(0)
    BY DEF Attempts
  <2> QED BY <1>1, <1>2, <1>3, <2>1, <2>2 DEF Within, Queued, HeldBy
<1>5. ASSUME NEW q \in Staff \ {r}, NEW n \in Nat, Within(q, n)
      PROVE  Within(q, n)'
  BY <1>1, <1>5, OthersStay DEF HeldBy
<1> QED BY <1>4, <1>5 DEF Nearer

LEMMA QueueNearer ==
  ASSUME StaffInv, faults = 0, NEW r \in Staff, QueueTask(r)
  PROVE  Nearer(r)
<1> USE DEF StaffInv
<1>1. /\ sending[r] = "due" /\ sending'[r] = "no" /\ tasks' = With(First(r))
      /\ UNCHANGED <<row, work>>
      /\ \A q \in Staff \ {r} : sending'[q] = sending[q]
  BY DEF QueueTask, TypeOK
<1>2. ~Queued(r) /\ \A w \in Workers : ~HeldBy(w, r)
  BY <1>1 DEF InOnePlace, DueAlone
<1>3. row[r] # "none"
  BY <1>1 DEF StoredFirst
<1>4. Attempts(0) \in Nat
  BY StaffAssumption DEF Attempts
<1>5. First(r) \in Task /\ First(r).req = r /\ First(r).try = 0
  BY FirstIsTask DEF First
<1>6. \A m \in Task : tasks'[m] = IF m = First(r) THEN tasks[m] + 1 ELSE tasks[m]
  BY <1>1, <1>5 DEF With, TypeOK
<1>7. ASSUME NEW n \in Nat, Within(r, n)
      PROVE  n > 0 /\ Within(r, n - 1)'
  <2>1. n >= Attempts(0) + 1
    BY <1>1, <1>7 DEF Within
  <2>2. \A m \in Task : m.req = r /\ tasks'[m] > 0 => m.try = 0
    BY <1>2, <1>5, <1>6 DEF Queued
  <2> QED BY <1>1, <1>2, <1>3, <1>4, <2>1, <2>2 DEF Within, HeldBy, Attempts
<1>8. ASSUME NEW q \in Staff \ {r}, NEW n \in Nat, Within(q, n)
      PROVE  Within(q, n)'
  <2>1. \A m \in Task : m.req = q => tasks'[m] = tasks[m]
    BY <1>5, <1>6
  <2> QED BY <1>1, <1>8, <2>1, OthersStay DEF HeldBy
<1> QED BY <1>7, <1>8 DEF Nearer

LEMMA TakeNearer ==
  ASSUME StaffInv, faults = 0, ~Fault, NEW w \in Workers, NEW m \in Task, Take(w, m)
  PROVE  m.req \in Staff /\ Nearer(m.req)
<1> USE DEF StaffInv
<1> DEFINE r == m.req
<1>1. /\ tasks[m] > 0 /\ tasks' = Without(m) /\ r \in Staff
      /\ m.try \in 0..MaxRetries /\ UNCHANGED <<row, sending>>
  BY DEF Take, Deliver, Task
<1>2. /\ work[w] = Nothing /\ work'[w] # Nothing
      /\ work'[w].req = r /\ work'[w].try = m.try
      /\ \A v \in Workers \ {w} : work'[v] = work[v]
  BY DEF Take, TypeOK
<1>3. Queued(r) /\ ~Queued(r)'
  BY <1>1, TakenFromQueue DEF Queued, InOnePlace
<1>4. sending[r] # "due" /\ row[r] # "none" /\ \A v \in Workers : ~HeldBy(v, r)
  BY <1>1, <1>3 DEF InOnePlace, DueAlone, QueuedAlone, StoredFirst
<1>5. Attempts(m.try) \in Nat /\ Attempts(m.try) > 0
  BY <1>1, StaffAssumption DEF Attempts
<1>6. ASSUME NEW n \in Nat, Within(r, n)
      PROVE  n > 0 /\ Within(r, n - 1)'
  <2>1. n >= Attempts(m.try)
    BY <1>1, <1>6 DEF Within
  <2>2. \A v \in Workers : HeldBy(v, r)' => v = w
    BY <1>2, <1>4 DEF HeldBy
  <2>3. Attempts(work[w].try)' = Attempts(m.try)
    BY <1>2 DEF Attempts
  <2>4. \A v \in Workers : HeldBy(v, r)' =>
          n - 1 >= Attempts(work[v].try)' - (IF work'[v].step = "post" THEN 1 ELSE 2)
    BY <1>5, <2>1, <2>2, <2>3
  <2>5. \A k \in Task : ~(k.req = r /\ tasks'[k] > 0)
    BY <1>3 DEF Queued
  <2> HIDE DEF r
  <2> QED BY <1>1, <1>4, <1>5, <2>1, <2>4, <2>5 DEF Within
<1>7. ASSUME NEW q \in Staff \ {r}, NEW n \in Nat, Within(q, n)
      PROVE  Within(q, n)'
  <2>1. \A k \in Task : k.req = q => tasks'[k] = tasks[k]
    BY <1>1 DEF Without, TypeOK
  <2>2. \A v \in Workers : HeldBy(v, q)' => HeldBy(v, q) /\ work'[v] = work[v]
    BY <1>2 DEF HeldBy
  <2> QED BY <1>1, <1>7, <2>1, <2>2, OthersStay
<1> QED BY <1>1, <1>6, <1>7 DEF Nearer

LEMMA AnswerNearer ==
  ASSUME StaffInv, faults = 0, NEW w \in Workers,
         SaasTakes(w) \/ SaasRefuses(w) \/ SaasRedirects(w)
  PROVE  \E r \in Staff : Nearer(r)
<1> USE DEF StaffInv
<1>0. PICK r \in Staff : r = work[w].req
  BY Answers
<1>1. /\ work[w] # Nothing /\ work[w].step = "post" /\ work[w] \in Job
      /\ UNCHANGED <<row, sending, tasks>>
  BY JobsAreWork DEF SaasTakes, SaasRefuses, SaasRedirects, Doing
<1>2. /\ work'[w].req = r /\ work'[w] # Nothing /\ work'[w].try = work[w].try
      /\ work'[w].step # "post" /\ \A v \in Workers \ {w} : work'[v] = work[v]
  <2>1. PICK s \in Outcomes : work' = [work EXCEPT ![w].step = s]
    BY Answers
  <2>2. work'[w] = [work[w] EXCEPT !.step = s]
    BY <2>1 DEF TypeOK
  <2> QED BY <1>0, <1>1, <2>1, <2>2, Answers DEF Job, Outcomes
<1>3. HeldBy(w, r)
  BY <1>0, <1>1 DEF HeldBy
<1>4. /\ sending[r] # "due" /\ row[r] # "none" /\ ~Queued(r)
      /\ \A v \in Workers : HeldBy(v, r) => v = w
  BY <1>3 DEF InOnePlace, DueAlone, QueuedAlone, HeldAlone, StoredFirst
<1>5. Attempts(work[w].try) \in Nat /\ Attempts(work[w].try) > 2
  BY <1>1, StaffAssumption DEF Attempts, Job
<1>6. ASSUME NEW n \in Nat, Within(r, n)
      PROVE  n > 0 /\ Within(r, n - 1)'
  <2>1. n >= Attempts(work[w].try) - 1
    BY <1>1, <1>3, <1>6 DEF Within
  <2>2. \A v \in Workers : HeldBy(v, r)' => v = w
    BY <1>2, <1>4 DEF HeldBy
  <2>3. Attempts(work[w].try)' = Attempts(work[w].try)
    BY <1>2 DEF Attempts
  <2>4. \A v \in Workers : HeldBy(v, r)' =>
          n - 1 >= Attempts(work[v].try)' - (IF work'[v].step = "post" THEN 1 ELSE 2)
    BY <1>2, <1>5, <2>1, <2>2, <2>3
  <2>5. \A k \in Task : ~(k.req = r /\ tasks'[k] > 0)
    BY <1>1, <1>4 DEF Queued
  <2> QED BY <1>1, <1>4, <1>5, <2>1, <2>4, <2>5 DEF Within
<1>7. ASSUME NEW q \in Staff \ {r}, NEW n \in Nat, Within(q, n)
      PROVE  Within(q, n)'
  <2>1. \A v \in Workers : HeldBy(v, q)' => HeldBy(v, q) /\ work'[v] = work[v]
    BY <1>2 DEF HeldBy
  <2> QED BY <1>1, <1>7, <2>1, OthersStay
<1>8. Nearer(r)
  BY <1>6, <1>7 DEF Nearer
<1> QED BY <1>8

LEMMA SaveNearer ==
  ASSUME StaffInv, faults = 0, NEW w \in Workers, Save(w) \/ SaasBabbles(w)
  PROVE  \E r \in Staff : Nearer(r)
<1> USE DEF StaffInv
<1>0. PICK r \in Staff : r = work[w].req
  BY JobsAreWork, Posting DEF Save, SaasBabbles
<1>1. /\ work[w] # Nothing /\ work[w] \in Job
      /\ UNCHANGED sending /\ tasks' \in {tasks, Again(work[w])}
      /\ work'[w] = Nothing /\ \A v \in Workers \ {w} : work'[v] = work[v]
      /\ row'[r] # "none" /\ \A q \in Staff \ {r} : row'[q] = row[q]
  <2>1. CASE Save(w)
    BY <1>0, <2>1, JobsAreWork DEF Save, TypeOK, Recorded
  <2>2. CASE SaasBabbles(w)
    <3>1. row[r] # "none"
      BY <1>0, <2>2, Posting DEF SaasBabbles, StoredFirst, HeldBy
    <3> QED BY <1>0, <2>2, <3>1, Posting DEF SaasBabbles, TypeOK
  <2> QED BY <2>1, <2>2
<1>2. HeldBy(w, r)
  BY <1>0, <1>1 DEF HeldBy
<1>3. /\ sending[r] # "due" /\ ~Queued(r)
      /\ \A v \in Workers : HeldBy(v, r) => v = w
  BY <1>2 DEF InOnePlace, DueAlone, QueuedAlone, HeldAlone
<1> DEFINE t == work[w].try
<1>4. t \in 0..MaxRetries /\ MaxRetries \in Nat
  BY <1>1, StaffAssumption DEF Job
<1>5. /\ \A k \in Task : k.req # r => tasks'[k] = tasks[k]
      /\ \A k \in Task : k.req = r /\ tasks'[k] > 0 => k.try = t + 1
  <2>1. CASE tasks' = tasks
    BY <1>3, <2>1 DEF Queued
  <2>2. CASE tasks' = Again(work[w]) /\ t < MaxRetries
    <3> DEFINE m == [req |-> r, try |-> t + 1]
    <3>1. m \in Task /\ m.req = r /\ m.try = t + 1 /\ tasks' = With(m)
      BY <1>0, <1>4, <2>2 DEF Again, Task
    <3> HIDE DEF m
    <3>2. \A k \in Task : tasks'[k] = IF k = m THEN tasks[k] + 1 ELSE tasks[k]
      BY <3>1 DEF With, TypeOK
    <3> QED BY <1>3, <3>1, <3>2 DEF Queued
  <2>3. CASE tasks' = Again(work[w]) /\ ~(t < MaxRetries)
    BY <2>1, <2>3 DEF Again
  <2> QED BY <1>1, <2>1, <2>2, <2>3
<1>6. ASSUME NEW n \in Nat, Within(r, n)
      PROVE  n > 0 /\ Within(r, n - 1)'
  <2>0. Attempts(t) \in Nat
    BY <1>4 DEF Attempts
  <2>1. n >= Attempts(t) - 2
    BY <1>1, <1>2, <1>6, <2>0 DEF Within
  <2>2. \A v \in Workers : ~HeldBy(v, r)'
    BY <1>1, <1>3 DEF HeldBy
  <2>3. n > 0 /\ \A k \in Task : k.req = r /\ tasks'[k] > 0 => n - 1 >= Attempts(k.try)
    BY <1>4, <1>5, <2>1 DEF Attempts
  <2> HIDE DEF t
  <2> QED BY <1>1, <1>3, <2>2, <2>3 DEF Within, Attempts
<1>7. ASSUME NEW q \in Staff \ {r}, NEW n \in Nat, Within(q, n)
      PROVE  Within(q, n)'
  <2>1. \A v \in Workers : HeldBy(v, q)' => HeldBy(v, q) /\ work'[v] = work[v]
    BY <1>1 DEF HeldBy
  <2> QED BY <1>1, <1>5, <1>7, <2>1, OthersStay
<1>8. Nearer(r)
  BY <1>6, <1>7 DEF Nearer
<1> QED BY <1>8

(* A request, once asked for, has at most three steps for each attempt and  *)
(* one to be queued; every step without a fault is one of these.            *)
ForwardingIsBounded ==
  \A r \in Staff :
    /\ Within(r, Attempts(0) + 2)
    /\ faults = 0 => (Within(r, 0) <=> Settled(r))

EveryStepCounts == [][faults' = 0 => \E r \in Staff : Nearer(r)]_vars

(* "Do not retry ... indefinitely": without a fault, forwarding comes to    *)
(* an end after 3 * MaxRetries + 5 steps per request at the latest, in      *)
(* whatever order executions run and whatever the SaaS answers, and no      *)
(* fairness is needed for that (forward_staff_request_task, retry_kwargs).  *)
THEOREM ForwardingIsFinite == Spec => []ForwardingIsBounded /\ EveryStepCounts
<1>1. StaffInv => ForwardingIsBounded
  BY WithinBound, WithinNone DEF StaffInv, ForwardingIsBounded
<1>2. StaffInv /\ [Next]_vars => [faults' = 0 => \E r \in Staff : Nearer(r)]_vars
  <2> SUFFICES ASSUME StaffInv, [Next]_vars, faults' = 0, ~UNCHANGED vars
               PROVE  \E r \in Staff : Nearer(r)
    OBVIOUS
  <2>1. faults = 0 /\ ~Fault
    BY FaultFree DEF StaffInv
  <2>2. CASE \E q \in Staff : RequestStaff(q) \/ QueueTask(q)
    BY <2>1, <2>2, RequestNearer, QueueNearer
  <2>3. CASE \E w \in Workers, m \in Task : Take(w, m)
    BY <2>1, <2>3, TakeNearer
  <2>4. CASE \E w \in Workers : Run(w)
    BY <2>1, <2>4, AnswerNearer, SaveNearer DEF Run
  <2> QED BY <2>2, <2>3, <2>4, FaultFree DEF StaffInv
<1> QED BY <1>1, <1>2, StaffInvariant, PTL DEF Spec, EveryStepCounts
=============================================================================
