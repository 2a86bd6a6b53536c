------------------------------ MODULE Concierge ------------------------------
(***************************************************************************)
(* The text concierge: a guest's message is stored by the web process      *)
(* (services.enqueue_message), handed to a Celery worker over Redis, run   *)
(* by the agent (tasks.run_concierge_task, core/agent_engine) and answered *)
(* over the stay's channel group, while the stay may be reset at any       *)
(* moment (views.ResetView).                                               *)
(*                                                                         *)
(* A step is one transaction or one autocommitted statement: SQLite        *)
(* serialises writers, and nothing else orders two processes.  A stay id   *)
(* is a fresh UUID at every reset; here stays are numbered in order.       *)
(***************************************************************************)
EXTENDS Naturals, FiniteSets

CONSTANTS
  Requests,       \* request ids the web process may hand out
  Workers,        \* Celery worker processes
  NoRequest,      \* what an idle worker works on
  MaxStays,       \* bound: number of stays in a behaviour
  MaxIterations,  \* agent_engine.MAX_ITERATIONS
  MaxCalls,       \* bound: tool calls in one model response
  MaxRetries,     \* max_retries of run_concierge_task
  MaxFaults       \* bound: crashes, lost and redelivered task messages

ASSUME ConciergeAssumption ==
  /\ NoRequest \notin Requests
  /\ MaxStays \in Nat /\ MaxRetries \in Nat /\ MaxFaults \in Nat
  /\ MaxIterations \in Nat \ {0} /\ MaxCalls \in Nat \ {0}

VARIABLES
  stay,       \* ChaletConfig.current_stay_id
  stayOf,     \* stayOf[r]: the stay request r was accepted in, 0 before that
  status,     \* status[r]: status of r's USER row, "none" when there is no row
  stale,      \* USER rows older than KIOSK_STALE_REQUEST_SECONDS
  rows,       \* <<r, role>>: ASSISTANT and TOOL rows, stored under stayOf[r]
  staff,      \* requests whose tools created a StaffRequest
  started,    \* started[r]: number of AGENT_STARTED audit rows
  completed,  \* requests with an AGENT_COMPLETED audit row
  unsent,     \* accepted requests whose task is not yet sent to the broker
  queue,      \* task messages in Redis
  pc,         \* pc[w]: where worker w stands in run_concierge_task
  job,        \* job[w]: the request worker w handles
  iter,       \* iter[w]: the agent loop's iteration
  calls,      \* calls[w]: tool calls of the response still to execute
  published,  \* published[r]: terminal events sent to the stay's group
  faults      \* faults so far

db     == <<stay, stayOf, status, stale, rows, staff, started, completed>>
broker == <<unsent, queue, faults>>
agent  == <<job, iter, calls>>
vars   == <<stay, stayOf, status, stale, rows, staff, started, completed,
            unsent, queue, pc, job, iter, calls, published, faults>>

ActiveStatus == {"queued", "streaming"}
Statuses     == ActiveStatus \cup {"none", "complete", "failed"}
Roles        == {"assistant", "tool"}
Terminal     == {"complete", "cancelled", "error"}
Task         == [req : Requests, try : 0..MaxRetries]

(* Where a worker stands.  ClaimedSteps is the run after the claim and      *)
(* TrySteps the try block, where any statement may raise.                   *)
ClaimedSteps == {"start", "load", "model", "tool", "checkTool", "createTool",
                 "checkAnswer", "createAnswer", "publish", "cancel",
                 "finish", "speak"}
TrySteps     == ClaimedSteps \cup {"claim"}
Steps        == TrySteps \cup {"idle", "failing", "report"}

Init ==
  /\ stay = 1
  /\ stayOf = [r \in Requests |-> 0]
  /\ status = [r \in Requests |-> "none"]
  /\ stale = {} /\ rows = {} /\ staff = {} /\ completed = {}
  /\ started = [r \in Requests |-> 0]
  /\ unsent = {} /\ queue = {} /\ faults = 0
  /\ pc = [w \in Workers |-> "idle"]
  /\ job = [w \in Workers |-> NoRequest]
  /\ iter = [w \in Workers |-> 0]
  /\ calls = [w \in Workers |-> 0]
  /\ published = [r \in Requests |-> {}]

-----------------------------------------------------------------------------
(* The web process *)

Answered(r) == <<r, "assistant">> \in rows

(* Mutants of RecoveredStatus: the age is looked at first; a timed-out      *)
(* request is completed; the age is not looked at.                          *)
RecoveredStatusAgeFirst(r) ==
  IF stayOf[r] # stay \/ status[r] \notin ActiveStatus THEN status[r]
  ELSE IF r \in stale THEN "failed"
  ELSE IF Answered(r) \/ r \in completed THEN "complete"
  ELSE status[r]

RecoveredStatusAgeCompletes(r) ==
  IF stayOf[r] # stay \/ status[r] \notin ActiveStatus THEN status[r]
  ELSE IF Answered(r) \/ r \in completed \/ r \in stale THEN "complete"
  ELSE status[r]

RecoveredStatusNoAge(r) ==
  IF stayOf[r] # stay \/ status[r] \notin ActiveStatus THEN status[r]
  ELSE IF Answered(r) \/ r \in completed THEN "complete"
  ELSE status[r]

(* The status enqueue_message leaves on an earlier USER row of the stay: an *)
(* answered or audited request is completed before age is looked at.        *)
RecoveredStatus(r) ==
  IF stayOf[r] # stay \/ status[r] \notin ActiveStatus THEN status[r]
  ELSE IF Answered(r) \/ r \in completed THEN "complete"
  ELSE IF r \in stale THEN "failed"
  ELSE status[r]

(* Mutant of Busy: a request that is already streaming does not count. *)
BusyOnlyQueued ==
  \E q \in Requests : stayOf[q] = stay /\ RecoveredStatus(q) = "queued"

(* AgentBusyError: a request is still active after the recovery.  Raising   *)
(* it rolls the recovery back, so a refused message changes nothing.        *)
Busy == \E q \in Requests : stayOf[q] = stay /\ RecoveredStatus(q) \in ActiveStatus

Enqueue(r) ==
  /\ stayOf[r] = 0
  /\ ~Busy
  /\ stayOf' = [stayOf EXCEPT ![r] = stay]
  /\ status' = [q \in Requests |-> IF q = r THEN "queued" ELSE RecoveredStatus(q)]
  /\ unsent' = unsent \cup {r}
  /\ UNCHANGED <<stay, stale, rows, staff, started, completed, queue, faults,
                 pc, agent, published>>

(* run_concierge_task.delay, after the commit. *)
SendTask(r) ==
  /\ r \in unsent
  /\ unsent' = unsent \ {r}
  /\ queue' = queue \cup {[req |-> r, try |-> 0]}
  /\ UNCHANGED <<db, pc, agent, published, faults>>

(* KIOSK_STALE_REQUEST_SECONDS go by while the USER row waits. *)
Age(r) ==
  /\ status[r] \in ActiveStatus
  /\ r \notin stale
  /\ stale' = stale \cup {r}
  /\ UNCHANGED <<stay, stayOf, status, rows, staff, started, completed,
                 broker, pc, agent, published>>

(* ResetView.post: delete the stay's messages and rotate the stay id.       *)
Reset ==
  /\ stay < MaxStays
  /\ stay' = stay + 1
  /\ status' = [r \in Requests |-> IF stayOf[r] = stay THEN "none" ELSE status[r]]
  /\ rows' = {m \in rows : stayOf[m[1]] # stay}
  /\ UNCHANGED <<stayOf, stale, staff, started, completed, broker, pc, agent,
                 published>>

-----------------------------------------------------------------------------
(* The broker's and the processes' faults, counted together *)

Fault == faults < MaxFaults /\ faults' = faults + 1

(* Redis refuses the task, or the web process dies before sending it. *)
SendFails(r) ==
  /\ r \in unsent
  /\ Fault
  /\ unsent' = unsent \ {r}
  /\ UNCHANGED <<db, queue, pc, agent, published>>

(* Redis restarts without persistence, or evicts the key. *)
LoseTask(m) ==
  /\ m \in queue
  /\ Fault
  /\ queue' = queue \ {m}
  /\ UNCHANGED <<db, unsent, pc, agent, published>>

(* The worker dies.  Its task was acknowledged when it was taken: nobody    *)
(* runs it again.                                                           *)
Crash(w) ==
  /\ pc[w] # "idle"
  /\ Fault
  /\ pc' = [pc EXCEPT ![w] = "idle"]
  /\ UNCHANGED <<db, unsent, queue, agent, published>>

-----------------------------------------------------------------------------
(* The worker: run_concierge_task *)

Goto(w, step) == pc' = [pc EXCEPT ![w] = step]

Moves(w, from, to) == pc[w] = from /\ Goto(w, to)

(* Taking message m off the broker and sending the messages "again"; the    *)
(* broker may deliver m once more.                                          *)
Consume(m, again) ==
  \/ queue' = (queue \ {m}) \cup again /\ UNCHANGED faults
  \/ queue' = queue \cup again /\ Fault

(* The USER row is gone: retry later, max_retries times. *)
TakeMissing(w, m) ==
  /\ pc[w] = "idle" /\ m \in queue
  /\ status[m.req] = "none"
  /\ Consume(m, IF m.try < MaxRetries THEN {[m EXCEPT !.try = @ + 1]} ELSE {})
  /\ UNCHANGED <<db, unsent, pc, agent, published>>

(* The request is running or settled: the duplicate returns. *)
TakeSettled(w, m) ==
  /\ pc[w] = "idle" /\ m \in queue
  /\ status[m.req] \notin {"none", "queued"}
  /\ Consume(m, {})
  /\ UNCHANGED <<db, unsent, pc, agent, published>>

TakeQueued(w, m) ==
  /\ m \in queue
  /\ status[m.req] = "queued"
  /\ Moves(w, "idle", "claim")
  /\ job' = [job EXCEPT ![w] = m.req]
  /\ Consume(m, {})
  /\ UNCHANGED <<db, unsent, iter, calls, published>>

(* Mutant of Claim: the UPDATE forgets the status it read. *)
ClaimAnyStatus(w) ==
  LET r == job[w] IN
  /\ pc[w] = "claim"
  /\ IF status[r] # "none"
       THEN status' = [status EXCEPT ![r] = "streaming"] /\ Goto(w, "start")
       ELSE UNCHANGED status /\ Goto(w, "idle")
  /\ UNCHANGED <<stay, stayOf, stale, rows, staff, started, completed, broker,
                 agent, published>>

(* UPDATE ... SET status = streaming WHERE status = queued: one worker wins *)
Claim(w) ==
  LET r == job[w] IN
  /\ pc[w] = "claim"
  /\ IF status[r] = "queued"
       THEN status' = [status EXCEPT ![r] = "streaming"] /\ Goto(w, "start")
       ELSE UNCHANGED status /\ Goto(w, "idle")
  /\ UNCHANGED <<stay, stayOf, stale, rows, staff, started, completed, broker,
                 agent, published>>

(* The AGENT_STARTED audit row. *)
Start(w) ==
  /\ Moves(w, "start", "load")
  /\ started' = [started EXCEPT ![job[w]] = @ + 1]
  /\ UNCHANGED <<stay, stayOf, status, stale, rows, staff, completed, broker,
                 agent, published>>

(* _load_context refuses a stay that was reset. *)
Load(w) ==
  /\ pc[w] = "load"
  /\ Goto(w, IF stayOf[job[w]] = stay THEN "model" ELSE "failing")
  /\ iter' = [iter EXCEPT ![w] = 1]
  /\ UNCHANGED <<db, broker, job, calls, published>>

(* The model answers with text. *)
ModelAnswers(w) ==
  /\ Moves(w, "model", "checkAnswer")
  /\ UNCHANGED <<db, broker, agent, published>>

(* The model asks for n tool calls, executed one after the other. *)
ModelCallsTools(w) ==
  /\ Moves(w, "model", "tool")
  /\ \E n \in 1..MaxCalls : calls' = [calls EXCEPT ![w] = n]
  /\ UNCHANGED <<db, broker, job, iter, published>>

(* execute_tool.  One that asks the staff for something checks the stay and *)
(* creates the StaffRequest in one transaction; others leave no row here.   *)
RunTool(w) ==
  LET r == job[w] IN
  /\ Moves(w, "tool", "checkTool")
  /\ staff' \in {staff, IF stayOf[r] = stay THEN staff \cup {r} ELSE staff}
  /\ UNCHANGED <<stay, stayOf, status, stale, rows, started, completed, broker,
                 agent, published>>

(* Mutant of NextCall: no limit on the iterations. *)
NextCallUnlimited(w) ==
  IF calls[w] > 1
    THEN Goto(w, "tool") /\ calls' = [calls EXCEPT ![w] = @ - 1] /\ UNCHANGED iter
  ELSE /\ calls' = [calls EXCEPT ![w] = 0]
       /\ Goto(w, "model") /\ UNCHANGED iter

(* After a tool call: the next one, the next iteration or the safety limit. *)
NextCall(w) ==
  IF calls[w] > 1
    THEN Goto(w, "tool") /\ calls' = [calls EXCEPT ![w] = @ - 1] /\ UNCHANGED iter
  ELSE /\ calls' = [calls EXCEPT ![w] = 0]
       /\ IF iter[w] < MaxIterations
            THEN Goto(w, "model") /\ iter' = [iter EXCEPT ![w] = @ + 1]
            ELSE Goto(w, "failing") /\ UNCHANGED iter

(* _save_message reads the current stay ... *)
CheckTool(w) ==
  /\ pc[w] = "checkTool"
  /\ IF stayOf[job[w]] = stay
       THEN Goto(w, "createTool") /\ UNCHANGED <<iter, calls>>
       ELSE NextCall(w)
  /\ UNCHANGED <<db, broker, job, published>>

(* Mutant of CheckAnswer: an answer is announced without being stored. *)
CheckAnswerNotStored(w) ==
  /\ pc[w] = "checkAnswer"
  /\ Goto(w, IF stayOf[job[w]] = stay THEN "publish" ELSE "cancel")
  /\ UNCHANGED <<db, broker, agent, published>>

CheckAnswer(w) ==
  /\ pc[w] = "checkAnswer"
  /\ Goto(w, IF stayOf[job[w]] = stay THEN "createAnswer" ELSE "cancel")
  /\ UNCHANGED <<db, broker, agent, published>>

(* ... and then, in a statement of its own, inserts the row. *)
CreateTool(w) ==
  /\ pc[w] = "createTool"
  /\ rows' = rows \cup {<<job[w], "tool">>}
  /\ NextCall(w)
  /\ UNCHANGED <<stay, stayOf, status, stale, staff, started, completed, broker,
                 job, published>>

CreateAnswer(w) ==
  /\ Moves(w, "createAnswer", "publish")
  /\ rows' = rows \cup {<<job[w], "assistant">>}
  /\ UNCHANGED <<stay, stayOf, status, stale, staff, started, completed, broker,
                 agent, published>>

Publish(r, event) == published' = [published EXCEPT ![r] = @ \cup {event}]

PublishComplete(w) ==
  /\ Moves(w, "publish", "finish")
  /\ Publish(job[w], "complete")
  /\ UNCHANGED <<db, broker, agent>>

PublishCancelled(w) ==
  /\ Moves(w, "cancel", "finish")
  /\ Publish(job[w], "cancelled")
  /\ UNCHANGED <<db, broker, agent>>

(* Mutant of SettleRow: settled rows are updated too. *)
SettleRowAlways(r, s) ==
  status' = IF status[r] # "none" THEN [status EXCEPT ![r] = s] ELSE status

(* UPDATE of the USER row to s, if it is still queued or streaming. *)
SettleRow(r, s) ==
  status' = IF status[r] \in ActiveStatus THEN [status EXCEPT ![r] = s] ELSE status

(* Mutant of Finish: only a queued row is completed. *)
FinishQueuedOnly(w) ==
  /\ Moves(w, "finish", "speak")
  /\ status' = IF status[job[w]] = "queued" THEN [status EXCEPT ![job[w]] = "complete"]
               ELSE status
  /\ UNCHANGED <<stay, stayOf, stale, rows, staff, started, completed, broker,
                 agent, published>>

(* _mark_request_complete *)
Finish(w) ==
  /\ Moves(w, "finish", "speak")
  /\ SettleRow(job[w], "complete")
  /\ UNCHANGED <<stay, stayOf, stale, rows, staff, started, completed, broker,
                 agent, published>>

(* Speech is synthesised and the AGENT_COMPLETED audit row ends the task. *)
Speak(w) ==
  /\ Moves(w, "speak", "idle")
  /\ completed' = completed \cup {job[w]}
  /\ UNCHANGED <<stay, stayOf, status, stale, rows, staff, started, broker,
                 agent, published>>

(* Any statement of the try block may raise: the model, Redis, a locked     *)
(* database, speech synthesis, an empty response.                           *)
Raise(w) ==
  /\ pc[w] \in TrySteps
  /\ Goto(w, "failing")
  /\ UNCHANGED <<db, broker, agent, published>>

(* The except block: fail the USER row, audit, then publish the error. *)
FailRequest(w) ==
  /\ Moves(w, "failing", "report")
  /\ SettleRow(job[w], "failed")
  /\ UNCHANGED <<stay, stayOf, stale, rows, staff, started, completed, broker,
                 agent, published>>

ReportFailure(w) ==
  /\ Moves(w, "report", "idle")
  /\ Publish(job[w], "error")
  /\ UNCHANGED <<db, broker, agent>>

Take(w) ==
  \E m \in queue : TakeMissing(w, m) \/ TakeSettled(w, m) \/ TakeQueued(w, m)

Run(w) ==
  \/ Claim(w) \/ Start(w) \/ Load(w)
  \/ ModelAnswers(w) \/ ModelCallsTools(w)
  \/ RunTool(w) \/ CheckTool(w) \/ CreateTool(w)
  \/ CheckAnswer(w) \/ CreateAnswer(w)
  \/ PublishComplete(w) \/ PublishCancelled(w)
  \/ Finish(w) \/ Speak(w)
  \/ Raise(w) \/ FailRequest(w) \/ ReportFailure(w)

Next ==
  \/ \E r \in Requests : Enqueue(r) \/ SendTask(r) \/ SendFails(r) \/ Age(r)
  \/ Reset
  \/ \E m \in queue : LoseTask(m)
  \/ \E w \in Workers : Take(w) \/ Run(w) \/ Crash(w)

Spec == Init /\ [][Next]_vars

(* The web process sends what it committed, a live worker takes messages    *)
(* and goes on with its run (every call to the model, Redis and the         *)
(* database times out), and time passes.  Guests need not write or reset.   *)
Fairness ==
  /\ \A r \in Requests : WF_vars(SendTask(r)) /\ WF_vars(Age(r))
  /\ \A w \in Workers : WF_vars(Take(w)) /\ WF_vars(Run(w))

FairSpec == Spec /\ Fairness

-----------------------------------------------------------------------------
(* Properties *)

(* Every variable has its type, and a worker that is not idle a request. *)
TypeOK ==
  /\ stay \in 1..(MaxStays + 1)
  /\ stayOf \in [Requests -> 0..(MaxStays + 1)]
  /\ status \in [Requests -> Statuses]
  /\ stale \subseteq Requests /\ staff \subseteq Requests
  /\ completed \subseteq Requests /\ unsent \subseteq Requests
  /\ rows \subseteq Requests \X Roles
  /\ started \in [Requests -> Nat]
  /\ queue \subseteq Task
  /\ pc \in [Workers -> Steps]
  /\ job \in [Workers -> Requests \cup {NoRequest}]
  /\ \A w \in Workers : pc[w] # "idle" => job[w] \in Requests
  /\ iter \in [Workers -> 0..MaxIterations]
  /\ calls \in [Workers -> 0..MaxCalls]
  /\ published \in [Requests -> SUBSET Terminal]
  /\ faults \in 0..MaxFaults

(* The concierge has at most one request in hand, and it belongs to the     *)
(* current stay: enqueue_message's busy check holds against slow workers,   *)
(* recovered requests whose worker is still running, and resets.            *)
AtMostOneActive ==
  \A q, r \in Requests :
    status[q] \in ActiveStatus /\ status[r] \in ActiveStatus
      => q = r /\ stayOf[q] = stay

(* However often the broker delivers a task, the agent runs a request once: *)
(* never two workers on it at a time, never a second AGENT_STARTED row.     *)
RunOnce ==
  /\ \A r \in Requests : started[r] <= 1
  /\ \A v, w \in Workers :
        pc[v] \in ClaimedSteps /\ pc[w] \in ClaimedSteps /\ job[v] = job[w] => v = w

(* A request shown as complete has its answer stored, whichever of the      *)
(* worker and the recovery in enqueue_message completed it.                 *)
CompleteMeansAnswered ==
  \A r \in Requests : status[r] = "complete" => Answered(r)

(* A "complete" event the guest received can be reloaded from the database  *)
(* as long as the stay lasts: the answer is stored before it is announced.  *)
AnnouncedIsStored ==
  \A r \in Requests :
    "complete" \in published[r] /\ stayOf[r] = stay => Answered(r)

(* The AGENT_COMPLETED row, written last and in its own statement, never    *)
(* contradicts the USER row: no audited request is still active.            *)
AuditAgreesWithRow ==
  \A r \in completed : status[r] \notin ActiveStatus

(* What ties the rows to the workers, inductive where the properties above  *)
(* are not.  Only accepted requests are in flight, and only rows of the     *)
(* current stay exist ...                                                   *)
InFlightIsAccepted ==
  /\ \A r \in Requests : stayOf[r] <= stay
  /\ \A r \in Requests : status[r] # "none" => stayOf[r] = stay
  /\ \A r \in Requests :
        stayOf[r] = 0 => r \notin unsent /\ started[r] = 0 /\ r \notin completed
                         /\ published[r] = {}
  /\ \A m \in queue : stayOf[m.req] # 0
  /\ \A w \in Workers :
        pc[w] # "idle" => stayOf[job[w]] # 0

(* ... a claimed request never returns to the queue ... *)
ClaimIsFinal ==
  /\ \A w \in Workers :
        /\ pc[w] \in ClaimedSteps => status[job[w]] # "queued"
        /\ pc[w] = "start" => started[job[w]] = 0
  /\ \A r \in Requests : started[r] # 0 => status[r] # "queued"

(* ... and a worker past the answer has stored it, unless its stay is gone. *)
AnswerIsKept ==
  \A w \in Workers :
    /\ pc[w] \in {"publish", "finish", "speak"} /\ stayOf[job[w]] = stay
         => Answered(job[w])
    /\ pc[w] = "cancel" => stayOf[job[w]] # stay
    /\ pc[w] = "speak" => status[job[w]] \notin ActiveStatus
CompletedIsAnswered ==
  \A r \in completed : stayOf[r] = stay => Answered(r)

(* Nobody is forgotten: as long as nothing was lost, an active request is   *)
(* about to be sent, in Redis, or with a worker that will claim it, run it  *)
(* or fail it.  Raising, retries, duplicates, recoveries and resets part    *)
(* none from its worker; EveryRequestSettles rests on it.                   *)
Carrying     == {"claim", "failing"}
RunningSteps == (ClaimedSteps \ {"speak"}) \cup {"failing"}

NoneIsStranded ==
  faults = 0 =>
    \A r \in Requests :
      /\ status[r] = "queued" =>
           \/ r \in unsent
           \/ \E m \in queue : m.req = r
           \/ \E w \in Workers : job[w] = r /\ pc[w] \in Carrying
      /\ status[r] = "streaming" =>
           \E w \in Workers : job[w] = r /\ pc[w] \in RunningSteps

(* The safety of the concierge in one inductive invariant. *)
ConciergeInv ==
  /\ TypeOK
  /\ AtMostOneActive
  /\ RunOnce
  /\ CompleteMeansAnswered
  /\ AnnouncedIsStored
  /\ AuditAgreesWithRow
  /\ InFlightIsAccepted
  /\ ClaimIsFinal
  /\ AnswerIsKept
  /\ CompletedIsAnswered
  /\ NoneIsStranded

(* A settled request stays as it was settled until a reset deletes it: a    *)
(* late worker does not revive or overturn what the recovery settled, and   *)
(* the recovery does not overturn what the worker settled.                  *)
SettledIsFinal ==
  [][\A r \in Requests :
       status[r] \in {"complete", "failed"}
         => \/ status'[r] = status[r]
            \/ status'[r] = "none" /\ stay' # stay]_vars

(* The recovery never times out a request whose answer is already stored,   *)
(* as when the worker died between storing the answer and completing it.    *)
AnsweredNeverTimedOut ==
  [][\A r \in Requests :
       status[r] \in ActiveStatus /\ status'[r] = "failed" /\ UNCHANGED pc
         => ~Answered(r)]_vars

(* The concierge keeps the desk's promise: one open request, settled once,  *)
(* erased by a reset.                                                       *)
DeskPhase ==
  [r \in Requests |->
     IF stayOf[r] = 0 THEN "new"
     ELSE IF status[r] = "none" THEN "erased"
     ELSE IF status[r] \in ActiveStatus THEN "open"
     ELSE status[r]]

Desk == INSTANCE RequestDesk WITH phase <- DeskPhase

DeskRefinement == Desk!DeskSpec

(* "A worker restart cannot block all later requests": whatever is lost,    *)
(* the concierge does not stay busy.                                        *)
NeverBusyForever == Busy ~> ~Busy

(* "An OpenAI exception cannot leave the kiosk permanently busy": unless a   *)
(* process dies or a task is lost, every accepted request is settled, even  *)
(* if no later message comes whose recovery would do it.                    *)
EveryRequestSettles ==
  \A r \in Requests :
    status[r] \in ActiveStatus ~> status[r] \notin ActiveStatus \/ faults # 0

(* "Publish exactly one terminal event for every request: complete, failed, *)
(* or cancelled": not two of them.                                          *)
OneTerminalEvent == \A r \in Requests : Cardinality(published[r]) <= 1

(* "Reset reliably removes private stay memory": no message of an earlier   *)
(* stay is in the database.                                                 *)
ResetErasesStay == \A m \in rows : stayOf[m[1]] = stay
=============================================================================
