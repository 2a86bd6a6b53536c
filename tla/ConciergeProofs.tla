--------------------------- MODULE ConciergeProofs ---------------------------
(***************************************************************************)
(* Concierge for every set of requests and workers and every bound.        *)
(***************************************************************************)
EXTENDS Concierge, TLAPS

(* What the step of a worker, the web process or a fault can be. *)
LEMMA StepCases ==
  ASSUME [Next]_vars
  PROVE  \/ \E r \in Requests : Enqueue(r) \/ SendTask(r) \/ SendFails(r) \/ Age(r)
         \/ Reset
         \/ \E m \in queue : LoseTask(m)
         \/ \E w \in Workers : \E m \in queue :
              TakeMissing(w, m) \/ TakeSettled(w, m) \/ TakeQueued(w, m)
         \/ \E w \in Workers :
              \/ Claim(w) \/ Start(w) \/ Load(w)
              \/ ModelAnswers(w) \/ ModelCallsTools(w)
              \/ RunTool(w) \/ CheckTool(w) \/ CreateTool(w)
              \/ CheckAnswer(w) \/ CreateAnswer(w)
              \/ PublishComplete(w) \/ PublishCancelled(w)
              \/ Finish(w) \/ Speak(w)
              \/ Raise(w) \/ FailRequest(w) \/ ReportFailure(w) \/ Crash(w)
         \/ UNCHANGED vars
  BY DEF Next, Take, Run

(* Every step keeps the types. *)
LEMMA TypeStep == TypeOK /\ [Next]_vars => TypeOK'
<1> SUFFICES ASSUME TypeOK, [Next]_vars PROVE TypeOK'
  OBVIOUS
<1> USE ConciergeAssumption DEF TypeOK, Statuses, ActiveStatus, Roles, Terminal, Task,
        Steps, TrySteps, ClaimedSteps, db, broker, agent
<1>1. ASSUME NEW r \in Requests, Enqueue(r) PROVE TypeOK'
  BY <1>1 DEF Enqueue, RecoveredStatus
<1>2. ASSUME NEW r \in Requests, SendTask(r) PROVE TypeOK'
  BY <1>2 DEF SendTask
<1>3. ASSUME NEW r \in Requests, SendFails(r) PROVE TypeOK'
  BY <1>3 DEF SendFails, Fault
<1>4. ASSUME NEW r \in Requests, Age(r) PROVE TypeOK'
  BY <1>4 DEF Age
<1>5. ASSUME Reset PROVE TypeOK'
  BY <1>5 DEF Reset
<1>6. ASSUME NEW m \in queue, LoseTask(m) PROVE TypeOK'
  BY <1>6 DEF LoseTask, Fault
<1>7. ASSUME NEW w \in Workers, NEW m \in queue, TakeMissing(w, m) PROVE TypeOK'
  BY <1>7 DEF TakeMissing, Consume, Fault
<1>8. ASSUME NEW w \in Workers, NEW m \in queue, TakeSettled(w, m) PROVE TypeOK'
  BY <1>8 DEF TakeSettled, Consume, Fault
<1>9. ASSUME NEW w \in Workers, NEW m \in queue, TakeQueued(w, m) PROVE TypeOK'
  BY <1>9 DEF TakeQueued, Consume, Fault, Moves, Goto
<1>10. ASSUME NEW w \in Workers, Claim(w) PROVE TypeOK'
  BY <1>10 DEF Claim, Goto
<1>11. ASSUME NEW w \in Workers, Start(w) PROVE TypeOK'
  BY <1>11 DEF Start, Moves, Goto
<1>12. ASSUME NEW w \in Workers, Load(w) PROVE TypeOK'
  BY <1>12 DEF Load, Goto
<1>13. ASSUME NEW w \in Workers, ModelAnswers(w) PROVE TypeOK'
  BY <1>13 DEF ModelAnswers, Moves, Goto
<1>14. ASSUME NEW w \in Workers, ModelCallsTools(w) PROVE TypeOK'
  BY <1>14 DEF ModelCallsTools, Moves, Goto
<1>15. ASSUME NEW w \in Workers, RunTool(w) PROVE TypeOK'
  BY <1>15 DEF RunTool, Moves, Goto
<1>16. ASSUME NEW w \in Workers, CheckTool(w) PROVE TypeOK'
  BY <1>16 DEF CheckTool, NextCall, Goto
<1>17. ASSUME NEW w \in Workers, CreateTool(w) PROVE TypeOK'
  BY <1>17 DEF CreateTool, NextCall, Goto
<1>18. ASSUME NEW w \in Workers, CheckAnswer(w) PROVE TypeOK'
  BY <1>18 DEF CheckAnswer, Goto
<1>19. ASSUME NEW w \in Workers, CreateAnswer(w) PROVE TypeOK'
  BY <1>19 DEF CreateAnswer, Moves, Goto
<1>20. ASSUME NEW w \in Workers, PublishComplete(w) PROVE TypeOK'
  BY <1>20 DEF PublishComplete, Publish, Moves, Goto
<1>21. ASSUME NEW w \in Workers, PublishCancelled(w) PROVE TypeOK'
  BY <1>21 DEF PublishCancelled, Publish, Moves, Goto
<1>22. ASSUME NEW w \in Workers, Finish(w) PROVE TypeOK'
  BY <1>22 DEF Finish, SettleRow, Moves, Goto
<1>23. ASSUME NEW w \in Workers, Speak(w) PROVE TypeOK'
  BY <1>23 DEF Speak, Moves, Goto
<1>24. ASSUME NEW w \in Workers, Raise(w) PROVE TypeOK'
  BY <1>24 DEF Raise, Goto
<1>25. ASSUME NEW w \in Workers, FailRequest(w) PROVE TypeOK'
  BY <1>25 DEF FailRequest, SettleRow, Moves, Goto
<1>26. ASSUME NEW w \in Workers, ReportFailure(w) PROVE TypeOK'
  BY <1>26 DEF ReportFailure, Publish, Moves, Goto
<1>27. ASSUME NEW w \in Workers, Crash(w) PROVE TypeOK'
  BY <1>27 DEF Crash, Fault
<1>28. CASE UNCHANGED vars
  BY <1>28 DEF vars
<1>29. QED
  BY StepCases, <1>1, <1>2, <1>3, <1>4, <1>5, <1>6, <1>7, <1>8, <1>9, <1>10, <1>11,
     <1>12, <1>13, <1>14, <1>15, <1>16, <1>17, <1>18, <1>19, <1>20, <1>21, <1>22, <1>23,
     <1>24, <1>25, <1>26, <1>27, <1>28

(* Every variable keeps its type: TypeOK is an invariant. *)
THEOREM TypeCorrect == Spec => []TypeOK
<1>1. Init => TypeOK
  BY ConciergeAssumption DEF Init, TypeOK, Statuses, ActiveStatus, Roles, Terminal,
     Task, Steps, TrySteps, ClaimedSteps
<1>2. QED
  BY <1>1, TypeStep, PTL DEF Spec

(* Rows and messages in flight are of accepted requests. *)
LEMMA InFlightStep ==
  ASSUME TypeOK, InFlightIsAccepted, [Next]_vars
  PROVE  InFlightIsAccepted'
<1> USE ConciergeAssumption DEF TypeOK, Statuses, ActiveStatus, Roles, Terminal,
     Task, Steps, TrySteps, ClaimedSteps, db, broker, agent, InFlightIsAccepted
<1>1. ASSUME NEW r \in Requests, Enqueue(r) PROVE InFlightIsAccepted'
  BY <1>1 DEF Enqueue, RecoveredStatus, Answered
<1>2. ASSUME NEW r \in Requests, SendTask(r) PROVE InFlightIsAccepted'
  BY <1>2 DEF SendTask
<1>3. ASSUME NEW r \in Requests, SendFails(r) PROVE InFlightIsAccepted'
  BY <1>3 DEF SendFails, Fault
<1>4. ASSUME NEW r \in Requests, Age(r) PROVE InFlightIsAccepted'
  BY <1>4 DEF Age
<1>5. ASSUME Reset PROVE InFlightIsAccepted'
  BY <1>5 DEF Reset
<1>6. ASSUME NEW m \in queue, LoseTask(m) PROVE InFlightIsAccepted'
  BY <1>6 DEF LoseTask, Fault
<1>7. ASSUME NEW w \in Workers, NEW m \in queue, TakeMissing(w, m)
      PROVE  InFlightIsAccepted'
  BY <1>7 DEF TakeMissing, Consume, Fault
<1>8. ASSUME NEW w \in Workers, NEW m \in queue, TakeSettled(w, m)
      PROVE  InFlightIsAccepted'
  BY <1>8 DEF TakeSettled, Consume, Fault
<1>9. ASSUME NEW w \in Workers, NEW m \in queue, TakeQueued(w, m)
      PROVE  InFlightIsAccepted'
  BY <1>9 DEF TakeQueued, Consume, Fault, Moves, Goto
<1>10. ASSUME NEW w \in Workers, Claim(w) PROVE InFlightIsAccepted'
  BY <1>10 DEF Claim, Goto
<1>11. ASSUME NEW w \in Workers, Start(w) PROVE InFlightIsAccepted'
  BY <1>11 DEF Start, Moves, Goto
<1>12. ASSUME NEW w \in Workers, Load(w) PROVE InFlightIsAccepted'
  BY <1>12 DEF Load, Goto
<1>13. ASSUME NEW w \in Workers, ModelAnswers(w) PROVE InFlightIsAccepted'
  BY <1>13 DEF ModelAnswers, Moves, Goto
<1>14. ASSUME NEW w \in Workers, ModelCallsTools(w) PROVE InFlightIsAccepted'
  BY <1>14 DEF ModelCallsTools, Moves, Goto
<1>15. ASSUME NEW w \in Workers, RunTool(w) PROVE InFlightIsAccepted'
  BY <1>15 DEF RunTool, Moves, Goto
<1>16. ASSUME NEW w \in Workers, CheckTool(w) PROVE InFlightIsAccepted'
  BY <1>16 DEF CheckTool, NextCall, Goto
<1>17. ASSUME NEW w \in Workers, CreateTool(w) PROVE InFlightIsAccepted'
  BY <1>17 DEF CreateTool, NextCall, Goto
<1>18. ASSUME NEW w \in Workers, CheckAnswer(w) PROVE InFlightIsAccepted'
  BY <1>18 DEF CheckAnswer, Goto
<1>19. ASSUME NEW w \in Workers, CreateAnswer(w) PROVE InFlightIsAccepted'
  BY <1>19 DEF CreateAnswer, Moves, Goto
<1>20. ASSUME NEW w \in Workers, PublishComplete(w) PROVE InFlightIsAccepted'
  BY <1>20 DEF PublishComplete, Publish, Moves, Goto
<1>21. ASSUME NEW w \in Workers, PublishCancelled(w) PROVE InFlightIsAccepted'
  BY <1>21 DEF PublishCancelled, Publish, Moves, Goto
<1>22. ASSUME NEW w \in Workers, Finish(w) PROVE InFlightIsAccepted'
  BY <1>22 DEF Finish, SettleRow, Moves, Goto
<1>23. ASSUME NEW w \in Workers, Speak(w) PROVE InFlightIsAccepted'
  BY <1>23 DEF Speak, Moves, Goto
<1>24. ASSUME NEW w \in Workers, Raise(w) PROVE InFlightIsAccepted'
  BY <1>24 DEF Raise, Goto
<1>25. ASSUME NEW w \in Workers, FailRequest(w) PROVE InFlightIsAccepted'
  BY <1>25 DEF FailRequest, SettleRow, Moves, Goto
<1>26. ASSUME NEW w \in Workers, ReportFailure(w) PROVE InFlightIsAccepted'
  BY <1>26 DEF ReportFailure, Publish, Moves, Goto
<1>27. ASSUME NEW w \in Workers, Crash(w) PROVE InFlightIsAccepted'
  BY <1>27 DEF Crash, Fault
<1>28. CASE UNCHANGED vars
  BY <1>28 DEF vars
<1>29. QED
  BY StepCases, <1>1, <1>2, <1>3, <1>4, <1>5, <1>6, <1>7, <1>8, <1>9, <1>10, <1>11,
     <1>12, <1>13, <1>14, <1>15, <1>16, <1>17, <1>18, <1>19, <1>20, <1>21, <1>22,
     <1>23, <1>24, <1>25, <1>26, <1>27, <1>28

(* No step makes a second request active. *)
LEMMA ActiveStep ==
  ASSUME TypeOK, InFlightIsAccepted, AtMostOneActive, [Next]_vars
  PROVE  AtMostOneActive'
<1> USE ConciergeAssumption DEF TypeOK, Statuses, ActiveStatus, Roles, Terminal,
     Task, Steps, TrySteps, ClaimedSteps, db, broker, agent, InFlightIsAccepted,
     AtMostOneActive, Busy
<1>1. ASSUME NEW r \in Requests, Enqueue(r) PROVE AtMostOneActive'
  BY <1>1 DEF Enqueue, RecoveredStatus, Answered
<1>2. ASSUME NEW r \in Requests, SendTask(r) PROVE AtMostOneActive'
  BY <1>2 DEF SendTask
<1>3. ASSUME NEW r \in Requests, SendFails(r) PROVE AtMostOneActive'
  BY <1>3 DEF SendFails, Fault
<1>4. ASSUME NEW r \in Requests, Age(r) PROVE AtMostOneActive'
  BY <1>4 DEF Age
<1>5. ASSUME Reset PROVE AtMostOneActive'
  BY <1>5 DEF Reset
<1>6. ASSUME NEW m \in queue, LoseTask(m) PROVE AtMostOneActive'
  BY <1>6 DEF LoseTask, Fault
<1>7. ASSUME NEW w \in Workers, NEW m \in queue, TakeMissing(w, m)
      PROVE  AtMostOneActive'
  BY <1>7 DEF TakeMissing, Consume, Fault
<1>8. ASSUME NEW w \in Workers, NEW m \in queue, TakeSettled(w, m)
      PROVE  AtMostOneActive'
  BY <1>8 DEF TakeSettled, Consume, Fault
<1>9. ASSUME NEW w \in Workers, NEW m \in queue, TakeQueued(w, m) PROVE AtMostOneActive'
  BY <1>9 DEF TakeQueued, Consume, Fault, Moves, Goto
<1>10. ASSUME NEW w \in Workers, Claim(w) PROVE AtMostOneActive'
  BY <1>10 DEF Claim, Goto
<1>11. ASSUME NEW w \in Workers, Start(w) PROVE AtMostOneActive'
  BY <1>11 DEF Start, Moves, Goto
<1>12. ASSUME NEW w \in Workers, Load(w) PROVE AtMostOneActive'
  BY <1>12 DEF Load, Goto
<1>13. ASSUME NEW w \in Workers, ModelAnswers(w) PROVE AtMostOneActive'
  BY <1>13 DEF ModelAnswers, Moves, Goto
<1>14. ASSUME NEW w \in Workers, ModelCallsTools(w) PROVE AtMostOneActive'
  BY <1>14 DEF ModelCallsTools, Moves, Goto
<1>15. ASSUME NEW w \in Workers, RunTool(w) PROVE AtMostOneActive'
  BY <1>15 DEF RunTool, Moves, Goto
<1>16. ASSUME NEW w \in Workers, CheckTool(w) PROVE AtMostOneActive'
  BY <1>16 DEF CheckTool, NextCall, Goto
<1>17. ASSUME NEW w \in Workers, CreateTool(w) PROVE AtMostOneActive'
  BY <1>17 DEF CreateTool, NextCall, Goto
<1>18. ASSUME NEW w \in Workers, CheckAnswer(w) PROVE AtMostOneActive'
  BY <1>18 DEF CheckAnswer, Goto
<1>19. ASSUME NEW w \in Workers, CreateAnswer(w) PROVE AtMostOneActive'
  BY <1>19 DEF CreateAnswer, Moves, Goto
<1>20. ASSUME NEW w \in Workers, PublishComplete(w) PROVE AtMostOneActive'
  BY <1>20 DEF PublishComplete, Publish, Moves, Goto
<1>21. ASSUME NEW w \in Workers, PublishCancelled(w) PROVE AtMostOneActive'
  BY <1>21 DEF PublishCancelled, Publish, Moves, Goto
<1>22. ASSUME NEW w \in Workers, Finish(w) PROVE AtMostOneActive'
  BY <1>22 DEF Finish, SettleRow, Moves, Goto
<1>23. ASSUME NEW w \in Workers, Speak(w) PROVE AtMostOneActive'
  BY <1>23 DEF Speak, Moves, Goto
<1>24. ASSUME NEW w \in Workers, Raise(w) PROVE AtMostOneActive'
  BY <1>24 DEF Raise, Goto
<1>25. ASSUME NEW w \in Workers, FailRequest(w) PROVE AtMostOneActive'
  BY <1>25 DEF FailRequest, SettleRow, Moves, Goto
<1>26. ASSUME NEW w \in Workers, ReportFailure(w) PROVE AtMostOneActive'
  BY <1>26 DEF ReportFailure, Publish, Moves, Goto
<1>27. ASSUME NEW w \in Workers, Crash(w) PROVE AtMostOneActive'
  BY <1>27 DEF Crash, Fault
<1>28. CASE UNCHANGED vars
  BY <1>28 DEF vars
<1>29. QED
  BY StepCases, <1>1, <1>2, <1>3, <1>4, <1>5, <1>6, <1>7, <1>8, <1>9, <1>10, <1>11,
     <1>12, <1>13, <1>14, <1>15, <1>16, <1>17, <1>18, <1>19, <1>20, <1>21, <1>22,
     <1>23, <1>24, <1>25, <1>26, <1>27, <1>28

(* No step claims a request twice. *)
LEMMA ClaimStep ==
  ASSUME TypeOK, InFlightIsAccepted, ClaimIsFinal, RunOnce, [Next]_vars
  PROVE  (ClaimIsFinal /\ RunOnce)'
<1> USE ConciergeAssumption DEF TypeOK, Statuses, ActiveStatus, Roles, Terminal,
     Task, Steps, TrySteps, ClaimedSteps, db, broker, agent, InFlightIsAccepted,
     ClaimIsFinal, RunOnce
<1>1. ASSUME NEW r \in Requests, Enqueue(r) PROVE (ClaimIsFinal /\ RunOnce)'
  BY <1>1 DEF Enqueue, RecoveredStatus, Answered
<1>2. ASSUME NEW r \in Requests, SendTask(r) PROVE (ClaimIsFinal /\ RunOnce)'
  BY <1>2 DEF SendTask
<1>3. ASSUME NEW r \in Requests, SendFails(r) PROVE (ClaimIsFinal /\ RunOnce)'
  BY <1>3 DEF SendFails, Fault
<1>4. ASSUME NEW r \in Requests, Age(r) PROVE (ClaimIsFinal /\ RunOnce)'
  BY <1>4 DEF Age
<1>5. ASSUME Reset PROVE (ClaimIsFinal /\ RunOnce)'
  BY <1>5 DEF Reset
<1>6. ASSUME NEW m \in queue, LoseTask(m) PROVE (ClaimIsFinal /\ RunOnce)'
  BY <1>6 DEF LoseTask, Fault
<1>7. ASSUME NEW w \in Workers, NEW m \in queue, TakeMissing(w, m)
      PROVE  (ClaimIsFinal /\ RunOnce)'
  BY <1>7 DEF TakeMissing, Consume, Fault
<1>8. ASSUME NEW w \in Workers, NEW m \in queue, TakeSettled(w, m)
      PROVE  (ClaimIsFinal /\ RunOnce)'
  BY <1>8 DEF TakeSettled, Consume, Fault
<1>9. ASSUME NEW w \in Workers, NEW m \in queue, TakeQueued(w, m)
      PROVE  (ClaimIsFinal /\ RunOnce)'
  BY <1>9 DEF TakeQueued, Consume, Fault, Moves, Goto
<1>10. ASSUME NEW w \in Workers, Claim(w) PROVE (ClaimIsFinal /\ RunOnce)'
  BY <1>10 DEF Claim, Goto
<1>11. ASSUME NEW w \in Workers, Start(w) PROVE (ClaimIsFinal /\ RunOnce)'
  BY <1>11 DEF Start, Moves, Goto
<1>12. ASSUME NEW w \in Workers, Load(w) PROVE (ClaimIsFinal /\ RunOnce)'
  BY <1>12 DEF Load, Goto
<1>13. ASSUME NEW w \in Workers, ModelAnswers(w) PROVE (ClaimIsFinal /\ RunOnce)'
  BY <1>13 DEF ModelAnswers, Moves, Goto
<1>14. ASSUME NEW w \in Workers, ModelCallsTools(w) PROVE (ClaimIsFinal /\ RunOnce)'
  BY <1>14 DEF ModelCallsTools, Moves, Goto
<1>15. ASSUME NEW w \in Workers, RunTool(w) PROVE (ClaimIsFinal /\ RunOnce)'
  BY <1>15 DEF RunTool, Moves, Goto
<1>16. ASSUME NEW w \in Workers, CheckTool(w) PROVE (ClaimIsFinal /\ RunOnce)'
  BY <1>16 DEF CheckTool, NextCall, Goto
<1>17. ASSUME NEW w \in Workers, CreateTool(w) PROVE (ClaimIsFinal /\ RunOnce)'
  BY <1>17 DEF CreateTool, NextCall, Goto
<1>18. ASSUME NEW w \in Workers, CheckAnswer(w) PROVE (ClaimIsFinal /\ RunOnce)'
  BY <1>18 DEF CheckAnswer, Goto
<1>19. ASSUME NEW w \in Workers, CreateAnswer(w) PROVE (ClaimIsFinal /\ RunOnce)'
  BY <1>19 DEF CreateAnswer, Moves, Goto
<1>20. ASSUME NEW w \in Workers, PublishComplete(w) PROVE (ClaimIsFinal /\ RunOnce)'
  BY <1>20 DEF PublishComplete, Publish, Moves, Goto
<1>21. ASSUME NEW w \in Workers, PublishCancelled(w) PROVE (ClaimIsFinal /\ RunOnce)'
  BY <1>21 DEF PublishCancelled, Publish, Moves, Goto
<1>22. ASSUME NEW w \in Workers, Finish(w) PROVE (ClaimIsFinal /\ RunOnce)'
  BY <1>22 DEF Finish, SettleRow, Moves, Goto
<1>23. ASSUME NEW w \in Workers, Speak(w) PROVE (ClaimIsFinal /\ RunOnce)'
  BY <1>23 DEF Speak, Moves, Goto
<1>24. ASSUME NEW w \in Workers, Raise(w) PROVE (ClaimIsFinal /\ RunOnce)'
  BY <1>24 DEF Raise, Goto
<1>25. ASSUME NEW w \in Workers, FailRequest(w) PROVE (ClaimIsFinal /\ RunOnce)'
  BY <1>25 DEF FailRequest, SettleRow, Moves, Goto
<1>26. ASSUME NEW w \in Workers, ReportFailure(w) PROVE (ClaimIsFinal /\ RunOnce)'
  BY <1>26 DEF ReportFailure, Publish, Moves, Goto
<1>27. ASSUME NEW w \in Workers, Crash(w) PROVE (ClaimIsFinal /\ RunOnce)'
  BY <1>27 DEF Crash, Fault
<1>28. CASE UNCHANGED vars
  BY <1>28 DEF vars
<1>29. QED
  BY StepCases, <1>1, <1>2, <1>3, <1>4, <1>5, <1>6, <1>7, <1>8, <1>9, <1>10, <1>11,
     <1>12, <1>13, <1>14, <1>15, <1>16, <1>17, <1>18, <1>19, <1>20, <1>21, <1>22,
     <1>23, <1>24, <1>25, <1>26, <1>27, <1>28

AnswerInv ==
  /\ CompleteMeansAnswered
  /\ AuditAgreesWithRow
  /\ AnnouncedIsStored
  /\ AnswerIsKept
  /\ CompletedIsAnswered

(* No step completes a request that has no answer, or loses the answer. *)
LEMMA AnswerStep ==
  ASSUME TypeOK, InFlightIsAccepted, AnswerInv, [Next]_vars
  PROVE  AnswerInv'
<1> USE ConciergeAssumption DEF TypeOK, Statuses, ActiveStatus, Roles, Terminal,
     Task, Steps, TrySteps, ClaimedSteps, db, broker, agent, InFlightIsAccepted,
     AnswerInv, CompleteMeansAnswered, AuditAgreesWithRow, AnnouncedIsStored, AnswerIsKept,
     CompletedIsAnswered, Answered
<1>1. ASSUME NEW r \in Requests, Enqueue(r) PROVE AnswerInv'
  BY <1>1 DEF Enqueue, RecoveredStatus, Answered
<1>2. ASSUME NEW r \in Requests, SendTask(r) PROVE AnswerInv'
  BY <1>2 DEF SendTask
<1>3. ASSUME NEW r \in Requests, SendFails(r) PROVE AnswerInv'
  BY <1>3 DEF SendFails, Fault
<1>4. ASSUME NEW r \in Requests, Age(r) PROVE AnswerInv'
  BY <1>4 DEF Age
<1>5. ASSUME Reset PROVE AnswerInv'
  BY <1>5 DEF Reset
<1>6. ASSUME NEW m \in queue, LoseTask(m) PROVE AnswerInv'
  BY <1>6 DEF LoseTask, Fault
<1>7. ASSUME NEW w \in Workers, NEW m \in queue, TakeMissing(w, m) PROVE AnswerInv'
  BY <1>7 DEF TakeMissing, Consume, Fault
<1>8. ASSUME NEW w \in Workers, NEW m \in queue, TakeSettled(w, m) PROVE AnswerInv'
  BY <1>8 DEF TakeSettled, Consume, Fault
<1>9. ASSUME NEW w \in Workers, NEW m \in queue, TakeQueued(w, m) PROVE AnswerInv'
  BY <1>9 DEF TakeQueued, Consume, Fault, Moves, Goto
<1>10. ASSUME NEW w \in Workers, Claim(w) PROVE AnswerInv'
  BY <1>10 DEF Claim, Goto
<1>11. ASSUME NEW w \in Workers, Start(w) PROVE AnswerInv'
  BY <1>11 DEF Start, Moves, Goto
<1>12. ASSUME NEW w \in Workers, Load(w) PROVE AnswerInv'
  BY <1>12 DEF Load, Goto
<1>13. ASSUME NEW w \in Workers, ModelAnswers(w) PROVE AnswerInv'
  BY <1>13 DEF ModelAnswers, Moves, Goto
<1>14. ASSUME NEW w \in Workers, ModelCallsTools(w) PROVE AnswerInv'
  BY <1>14 DEF ModelCallsTools, Moves, Goto
<1>15. ASSUME NEW w \in Workers, RunTool(w) PROVE AnswerInv'
  BY <1>15 DEF RunTool, Moves, Goto
<1>16. ASSUME NEW w \in Workers, CheckTool(w) PROVE AnswerInv'
  BY <1>16 DEF CheckTool, NextCall, Goto
<1>17. ASSUME NEW w \in Workers, CreateTool(w) PROVE AnswerInv'
  BY <1>17 DEF CreateTool, NextCall, Goto
<1>18. ASSUME NEW w \in Workers, CheckAnswer(w) PROVE AnswerInv'
  BY <1>18 DEF CheckAnswer, Goto
<1>19. ASSUME NEW w \in Workers, CreateAnswer(w) PROVE AnswerInv'
  BY <1>19 DEF CreateAnswer, Moves, Goto
<1>20. ASSUME NEW w \in Workers, PublishComplete(w) PROVE AnswerInv'
  BY <1>20 DEF PublishComplete, Publish, Moves, Goto
<1>21. ASSUME NEW w \in Workers, PublishCancelled(w) PROVE AnswerInv'
  BY <1>21 DEF PublishCancelled, Publish, Moves, Goto
<1>22. ASSUME NEW w \in Workers, Finish(w) PROVE AnswerInv'
  BY <1>22 DEF Finish, SettleRow, Moves, Goto
<1>23. ASSUME NEW w \in Workers, Speak(w) PROVE AnswerInv'
  BY <1>23 DEF Speak, Moves, Goto
<1>24. ASSUME NEW w \in Workers, Raise(w) PROVE AnswerInv'
  BY <1>24 DEF Raise, Goto
<1>25. ASSUME NEW w \in Workers, FailRequest(w) PROVE AnswerInv'
  BY <1>25 DEF FailRequest, SettleRow, Moves, Goto
<1>26. ASSUME NEW w \in Workers, ReportFailure(w) PROVE AnswerInv'
  BY <1>26 DEF ReportFailure, Publish, Moves, Goto
<1>27. ASSUME NEW w \in Workers, Crash(w) PROVE AnswerInv'
  BY <1>27 DEF Crash, Fault
<1>28. CASE UNCHANGED vars
  BY <1>28 DEF vars
<1>29. QED
  BY StepCases, <1>1, <1>2, <1>3, <1>4, <1>5, <1>6, <1>7, <1>8, <1>9, <1>10, <1>11,
     <1>12, <1>13, <1>14, <1>15, <1>16, <1>17, <1>18, <1>19, <1>20, <1>21, <1>22,
     <1>23, <1>24, <1>25, <1>26, <1>27, <1>28

(* No step leaves an active request without somebody who will settle it. *)
LEMMA StrandStep ==
  ASSUME TypeOK, InFlightIsAccepted, AnswerIsKept, NoneIsStranded, [Next]_vars
  PROVE  NoneIsStranded'
<1> USE ConciergeAssumption DEF TypeOK, Statuses, ActiveStatus, Task, Steps, TrySteps,
     ClaimedSteps, Carrying, RunningSteps, db, broker, agent, NoneIsStranded
<1>1. ASSUME NEW r \in Requests, Enqueue(r) PROVE NoneIsStranded'
  <2>1. UNCHANGED <<faults, queue, pc, job>> /\ unsent' = unsent \cup {r}
    BY <1>1 DEF Enqueue
  <2>2. \A q \in Requests : status'[q] \in ActiveStatus => q = r \/ status'[q] = status[q]
    BY <1>1 DEF Enqueue, RecoveredStatus
  <2>3. status'[r] = "queued"
    BY <1>1 DEF Enqueue
  <2>4. QED
    BY <2>1, <2>2, <2>3
<1>2. ASSUME NEW r \in Requests, SendTask(r) PROVE NoneIsStranded'
  <2> DEFINE sent == [req |-> r, try |-> 0]
  <2>1. sent \in queue' /\ sent.req = r
    BY <1>2 DEF SendTask
  <2>2. \A n \in queue : n \in queue'
    BY <1>2 DEF SendTask
  <2>3. UNCHANGED <<faults, status, pc, job>> /\ unsent' = unsent \ {r}
    BY <1>2 DEF SendTask
  <2> HIDE DEF sent
  <2>4. QED
    BY <2>1, <2>2, <2>3
<1>3. ASSUME NEW r \in Requests, SendFails(r) PROVE NoneIsStranded'
  BY <1>3 DEF SendFails, Fault
<1>4. ASSUME NEW r \in Requests, Age(r) PROVE NoneIsStranded'
  BY <1>4 DEF Age
<1>5. ASSUME Reset PROVE NoneIsStranded'
  BY <1>5 DEF Reset
<1>6. ASSUME NEW m \in queue, LoseTask(m) PROVE NoneIsStranded'
  BY <1>6 DEF LoseTask, Fault
<1>7. ASSUME NEW w \in Workers, NEW m \in queue, TakeMissing(w, m) PROVE NoneIsStranded'
  <2>1. UNCHANGED <<status, unsent, pc, job>> /\ status[m.req] = "none"
    BY <1>7 DEF TakeMissing
  <2>2. faults' = 0 => faults = 0 /\ \A n \in queue : n.req # m.req => n \in queue'
    BY <1>7 DEF TakeMissing, Consume, Fault
  <2>3. QED
    BY <2>1, <2>2
<1>8. ASSUME NEW w \in Workers, NEW m \in queue, TakeSettled(w, m) PROVE NoneIsStranded'
  <2>1. UNCHANGED <<status, unsent, pc, job>> /\ status[m.req] # "queued"
    BY <1>8 DEF TakeSettled
  <2>2. faults' = 0 => faults = 0 /\ \A n \in queue : n.req # m.req => n \in queue'
    BY <1>8 DEF TakeSettled, Consume, Fault
  <2>3. QED
    BY <2>1, <2>2
<1>9. ASSUME NEW w \in Workers, NEW m \in queue, TakeQueued(w, m) PROVE NoneIsStranded'
  BY <1>9 DEF TakeQueued, Consume, Fault, Moves, Goto
<1>10. ASSUME NEW w \in Workers, Claim(w) PROVE NoneIsStranded'
  BY <1>10 DEF Claim, Goto
<1>11. ASSUME NEW w \in Workers, Start(w) PROVE NoneIsStranded'
  BY <1>11 DEF Start, Moves, Goto
<1>12. ASSUME NEW w \in Workers, Load(w) PROVE NoneIsStranded'
  BY <1>12 DEF Load, Goto
<1>13. ASSUME NEW w \in Workers, ModelAnswers(w) PROVE NoneIsStranded'
  BY <1>13 DEF ModelAnswers, Moves, Goto
<1>14. ASSUME NEW w \in Workers, ModelCallsTools(w) PROVE NoneIsStranded'
  BY <1>14 DEF ModelCallsTools, Moves, Goto
<1>15. ASSUME NEW w \in Workers, RunTool(w) PROVE NoneIsStranded'
  BY <1>15 DEF RunTool, Moves, Goto
<1>16. ASSUME NEW w \in Workers, CheckTool(w) PROVE NoneIsStranded'
  BY <1>16 DEF CheckTool, NextCall, Goto
<1>17. ASSUME NEW w \in Workers, CreateTool(w) PROVE NoneIsStranded'
  BY <1>17 DEF CreateTool, NextCall, Goto
<1>18. ASSUME NEW w \in Workers, CheckAnswer(w) PROVE NoneIsStranded'
  BY <1>18 DEF CheckAnswer, Goto
<1>19. ASSUME NEW w \in Workers, CreateAnswer(w) PROVE NoneIsStranded'
  BY <1>19 DEF CreateAnswer, Moves, Goto
<1>20. ASSUME NEW w \in Workers, PublishComplete(w) PROVE NoneIsStranded'
  BY <1>20 DEF PublishComplete, Publish, Moves, Goto
<1>21. ASSUME NEW w \in Workers, PublishCancelled(w) PROVE NoneIsStranded'
  BY <1>21 DEF PublishCancelled, Publish, Moves, Goto
<1>22. ASSUME NEW w \in Workers, Finish(w) PROVE NoneIsStranded'
  BY <1>22 DEF Finish, SettleRow, Moves, Goto
<1>23. ASSUME NEW w \in Workers, Speak(w) PROVE NoneIsStranded'
  BY <1>23 DEF Speak, Moves, Goto
<1>24. ASSUME NEW w \in Workers, Raise(w) PROVE NoneIsStranded'
  BY <1>24 DEF Raise, Goto
<1>25. ASSUME NEW w \in Workers, FailRequest(w) PROVE NoneIsStranded'
  BY <1>25 DEF FailRequest, SettleRow, Moves, Goto
<1>26. ASSUME NEW w \in Workers, ReportFailure(w) PROVE NoneIsStranded'
  BY <1>26 DEF ReportFailure, Publish, Moves, Goto
<1>27. ASSUME NEW w \in Workers, Crash(w) PROVE NoneIsStranded'
  BY <1>27 DEF Crash, Fault
<1>28. CASE UNCHANGED vars
  BY <1>28 DEF vars
<1>29. QED
  BY StepCases, <1>1, <1>2, <1>3, <1>4, <1>5, <1>6, <1>7, <1>8, <1>9, <1>10, <1>11,
     <1>12, <1>13, <1>14, <1>15, <1>16, <1>17, <1>18, <1>19, <1>20, <1>21, <1>22,
     <1>23, <1>24, <1>25, <1>26, <1>27, <1>28

(* The strengthened invariant is inductive. *)
THEOREM ConciergeInvariant == Spec => []ConciergeInv
<1>1. Init => ConciergeInv
  BY ConciergeAssumption DEF Init, ConciergeInv, TypeOK, Statuses, ActiveStatus, Roles,
     Terminal, Task, Steps, TrySteps, ClaimedSteps, AtMostOneActive, RunOnce,
     CompleteMeansAnswered, AnnouncedIsStored, AuditAgreesWithRow, InFlightIsAccepted,
     ClaimIsFinal, AnswerIsKept, CompletedIsAnswered, NoneIsStranded
<1>2. ConciergeInv /\ [Next]_vars => ConciergeInv'
  BY TypeStep, InFlightStep, ActiveStep, ClaimStep, AnswerStep, StrandStep DEF ConciergeInv, AnswerInv
<1>3. QED
  BY <1>1, <1>2, PTL DEF Spec

(* At any time at most one request is active, and it is of the current stay. *)
THEOREM OneRequestAtATime == Spec => []AtMostOneActive
<1>1. ConciergeInv => AtMostOneActive
  BY DEF ConciergeInv
<1>2. QED
  BY <1>1, ConciergeInvariant, PTL

(* The agent runs a request at most once, however often it is delivered. *)
THEOREM AgentRunsOnce == Spec => []RunOnce
<1>1. ConciergeInv => RunOnce
  BY DEF ConciergeInv
<1>2. QED
  BY <1>1, ConciergeInvariant, PTL

(* Unless something is lost, an active request is always with somebody who  *)
(* will take it further, whatever raises, repeats, is recovered or reset.   *)
THEOREM NobodyIsForgotten == Spec => []NoneIsStranded
<1>1. ConciergeInv => NoneIsStranded
  BY DEF ConciergeInv
<1>2. QED
  BY <1>1, ConciergeInvariant, PTL

(* A complete request has its answer stored. *)
THEOREM CompleteIsAnswered == Spec => []CompleteMeansAnswered
<1>1. ConciergeInv => CompleteMeansAnswered
  BY DEF ConciergeInv
<1>2. QED
  BY <1>1, ConciergeInvariant, PTL

(* The steps that leave the USER rows alone, and the few that do not. *)
LEMMA RowSteps ==
  ASSUME TypeOK, [Next]_vars
  PROVE  \/ UNCHANGED <<stay, stayOf, status>>
         \/ \E r \in Requests : Enqueue(r)
         \/ Reset
         \/ \E w \in Workers : Claim(w) \/ Finish(w) \/ FailRequest(w)
  BY StepCases DEF SendTask, SendFails, Age, LoseTask, TakeMissing, TakeSettled,
     TakeQueued, Start, Load, ModelAnswers, ModelCallsTools, RunTool, CheckTool,
     CreateTool, CheckAnswer, CreateAnswer, PublishComplete, PublishCancelled, Speak,
     Raise, ReportFailure, Crash, db, vars

(* A settled request stays as it was settled until a reset deletes it. *)
THEOREM SettledStaysSettled == Spec => SettledIsFinal
<1>1. ConciergeInv /\ [Next]_vars
        => [\A r \in Requests :
              status[r] \in {"complete", "failed"}
                => \/ status'[r] = status[r]
                   \/ status'[r] = "none" /\ stay' # stay]_vars
  <2> SUFFICES ASSUME ConciergeInv, [Next]_vars, NEW r \in Requests,
                      status[r] \in {"complete", "failed"}
               PROVE  status'[r] = status[r] \/ (status'[r] = "none" /\ stay' # stay)
    OBVIOUS
  <2> USE DEF ConciergeInv, TypeOK, ActiveStatus, Statuses
  <2>1. ASSUME NEW q \in Requests, Enqueue(q) PROVE status'[r] = status[r]
    BY <2>1 DEF Enqueue, RecoveredStatus, InFlightIsAccepted
  <2>2. ASSUME Reset PROVE status'[r] = "none" /\ stay' # stay
    BY <2>2 DEF Reset, InFlightIsAccepted
  <2>3. ASSUME NEW w \in Workers, Claim(w) PROVE status'[r] = status[r]
    BY <2>3 DEF Claim
  <2>4. ASSUME NEW w \in Workers, Finish(w) \/ FailRequest(w)
        PROVE  status'[r] = status[r]
    BY <2>4 DEF Finish, FailRequest, SettleRow
  <2>5. QED
    BY RowSteps, <2>1, <2>2, <2>3, <2>4
<1>2. QED
  BY <1>1, ConciergeInvariant, PTL DEF Spec, SettledIsFinal

(* The recovery never times out a request whose answer is stored. *)
THEOREM RecoveryRespectsAnswers == Spec => AnsweredNeverTimedOut
<1>1. ConciergeInv /\ [Next]_vars
        => [\A r \in Requests :
              status[r] \in ActiveStatus /\ status'[r] = "failed" /\ UNCHANGED pc
                => ~Answered(r)]_vars
  <2> SUFFICES ASSUME ConciergeInv, [Next]_vars, NEW r \in Requests,
                      status[r] \in ActiveStatus, status'[r] = "failed", UNCHANGED pc
               PROVE  ~Answered(r)
    OBVIOUS
  <2> USE DEF ConciergeInv, TypeOK, ActiveStatus, Statuses
  <2>1. ASSUME NEW q \in Requests, Enqueue(q) PROVE ~Answered(r)
    BY <2>1 DEF Enqueue, RecoveredStatus
  <2>2. ASSUME Reset PROVE FALSE
    BY <2>2 DEF Reset
  <2>3. ASSUME NEW w \in Workers, Claim(w) PROVE FALSE
    BY <2>3 DEF Claim
  <2>4. ASSUME NEW w \in Workers, Finish(w) \/ FailRequest(w) PROVE FALSE
    BY <2>4 DEF Finish, FailRequest, Moves, Goto
  <2>5. QED
    BY RowSteps, <2>1, <2>2, <2>3, <2>4
<1>2. QED
  BY <1>1, ConciergeInvariant, PTL DEF Spec, AnsweredNeverTimedOut

(* The concierge keeps the desk's promise: its USER rows are those of one   *)
(* open request at a time, settled once and erased by a reset.              *)
THEOREM ConciergeImplementsDesk == Spec => DeskRefinement
<1>1. Init => Desk!DeskInit
  BY DEF Init, Desk!DeskInit, DeskPhase
<1>2. ASSUME ConciergeInv, [Next]_vars PROVE [Desk!DeskNext]_DeskPhase
  <2> USE <1>2 DEF ConciergeInv, TypeOK, ActiveStatus, Statuses, InFlightIsAccepted
  <2>1. ASSUME NEW r \in Requests, Enqueue(r) PROVE Desk!Accept(r)
    <3>1. /\ DeskPhase[r] = "new"
          /\ DeskPhase' \in [Requests -> Desk!Phases]
          /\ DeskPhase'[r] = "open"
      BY <2>1 DEF Enqueue, RecoveredStatus, DeskPhase, Desk!Phases
    <3>2. ASSUME NEW q \in Requests \ {r}
          PROVE  IF DeskPhase[q] = "open" THEN DeskPhase'[q] \in {"complete", "failed"}
                                          ELSE DeskPhase'[q] = DeskPhase[q]
      BY <2>1, <3>2 DEF Enqueue, Busy, RecoveredStatus, DeskPhase
    <3>3. QED
      BY <3>1, <3>2 DEF Desk!Accept
  <2>2. ASSUME Reset PROVE Desk!Erase
    BY <2>2 DEF Reset, Desk!Erase, DeskPhase
  <2>3. ASSUME NEW w \in Workers, Claim(w) PROVE UNCHANGED DeskPhase
    BY <2>3 DEF Claim, DeskPhase
  <2>4. ASSUME NEW r \in Requests, NEW s \in {"complete", "failed"}, stayOf[r] # 0,
               SettleRow(r, s), UNCHANGED <<stay, stayOf>>
        PROVE  Desk!Settle(r) \/ UNCHANGED DeskPhase
    <3>1. CASE status[r] \in ActiveStatus
      <4>1. DeskPhase[r] = "open"
        BY <2>4, <3>1 DEF DeskPhase
      <4>2. DeskPhase' = [DeskPhase EXCEPT ![r] = s]
        BY <2>4, <3>1 DEF SettleRow, DeskPhase
      <4>3. QED
        BY <4>1, <4>2 DEF Desk!Settle
    <3>2. CASE status[r] \notin ActiveStatus
      BY <2>4, <3>2 DEF SettleRow, DeskPhase
    <3>3. QED
      BY <3>1, <3>2
  <2>5. ASSUME NEW w \in Workers, Finish(w) \/ FailRequest(w)
        PROVE  Desk!Settle(job[w]) \/ UNCHANGED DeskPhase
    BY <2>4, <2>5 DEF Finish, FailRequest, Moves
  <2>6. CASE UNCHANGED <<stay, stayOf, status>>
    BY <2>6 DEF DeskPhase
  <2>7. ASSUME NEW w \in Workers, Finish(w) \/ FailRequest(w) PROVE job[w] \in Requests
    BY <2>7 DEF Finish, FailRequest, Moves
  <2>8. QED
    BY RowSteps, <2>1, <2>2, <2>3, <2>5, <2>6, <2>7 DEF Desk!DeskNext
<1>3. QED
  BY <1>1, <1>2, ConciergeInvariant, PTL DEF Spec, DeskRefinement, Desk!DeskSpec

(* An answer the browser was told of is in its row, for as long as the stay *)
(* of the request lasts: the signal of tasks.py is sent after the store.    *)
THEOREM AnnouncedAnswersAreStored == Spec => []AnnouncedIsStored
<1>1. ConciergeInv => AnnouncedIsStored
  BY DEF ConciergeInv
<1>2. QED
  BY <1>1, ConciergeInvariant, PTL

-----------------------------------------------------------------------------
(* A run of the agent comes to an end: its fuel, which every statement burns. *)

Calling == {"tool", "checkTool", "createTool"}

(* In the loop the iteration is counted, and a call in hand is one of the   *)
(* response's.                                                              *)
LoopInv ==
  \A w \in Workers :
    /\ pc[w] \in Calling \cup {"model"} => iter[w] # 0
    /\ pc[w] \in Calling => calls[w] # 0

(* The iterations a worker may still begin, the statements of an iteration, *)
(* and the statements that are left beside those.                           *)
Left(w) ==
  CASE pc[w] \in {"claim", "start", "load"} -> MaxIterations
    [] pc[w] = "model"                      -> MaxIterations + 1 - iter[w]
    [] pc[w] \in Calling                    -> MaxIterations - iter[w]
    [] OTHER                                -> 0

Iteration == 3 * MaxCalls + 1

Rank(w) ==
  CASE pc[w] = "claim"               -> 10
    [] pc[w] = "start"               -> 9
    [] pc[w] = "load"                -> 8
    [] pc[w] = "model"               -> 7
    [] pc[w] = "tool"                -> 3 * calls[w] + 7
    [] pc[w] = "checkTool"           -> 3 * calls[w] + 6
    [] pc[w] = "createTool"          -> 3 * calls[w] + 5
    [] pc[w] = "checkAnswer"         -> 7
    [] pc[w] = "createAnswer"        -> 6
    [] pc[w] \in {"publish", "cancel"} -> 5
    [] pc[w] = "finish"              -> 4
    [] pc[w] = "speak"               -> 3
    [] pc[w] = "failing"             -> 2
    [] pc[w] = "report"              -> 1
    [] OTHER                         -> 0

Fuel(w) == Iteration * Left(w) + Rank(w)

(* A worker takes a task, does a statement of its run, stops, or waits.     *)
LEMMA WorkerSteps ==
  ASSUME TypeOK, [Next]_vars, NEW w \in Workers
  PROVE  \/ pc[w] = "idle" /\ pc'[w] = "claim"
         \/ Run(w)
         \/ pc'[w] = "idle" /\ UNCHANGED <<iter, calls>>
         \/ UNCHANGED <<pc[w], iter[w], calls[w]>>
<1> USE DEF TypeOK, agent, Moves, Goto
<1>1. ASSUME NEW v \in Workers, v # w, Run(v)
      PROVE  UNCHANGED <<pc[w], iter[w], calls[w]>>
  BY <1>1 DEF Run, Claim, Start, Load, ModelAnswers, ModelCallsTools, RunTool,
     CheckTool, CreateTool, NextCall, CheckAnswer, CreateAnswer, PublishComplete,
     PublishCancelled, Finish, Speak, Raise, FailRequest, ReportFailure
<1>2. ASSUME NEW v \in Workers, NEW m \in queue,
             TakeMissing(v, m) \/ TakeSettled(v, m) \/ TakeQueued(v, m)
      PROVE  \/ pc[w] = "idle" /\ pc'[w] = "claim"
             \/ UNCHANGED <<pc[w], iter[w], calls[w]>>
  BY <1>2 DEF TakeMissing, TakeSettled, TakeQueued
<1>3. ASSUME NEW v \in Workers, Crash(v)
      PROVE  \/ pc'[w] = "idle" /\ UNCHANGED <<iter, calls>>
             \/ UNCHANGED <<pc[w], iter[w], calls[w]>>
  BY <1>3 DEF Crash
<1>4. ASSUME NEW r \in Requests, Enqueue(r) \/ SendTask(r) \/ SendFails(r) \/ Age(r)
      PROVE  UNCHANGED <<pc[w], iter[w], calls[w]>>
  BY <1>4 DEF Enqueue, SendTask, SendFails, Age
<1>5. CASE Reset \/ (\E m \in queue : LoseTask(m)) \/ UNCHANGED vars
  BY <1>5 DEF Reset, LoseTask, vars
<1>6. QED
  BY <1>1, <1>2, <1>3, <1>4, <1>5 DEF Next, Take

(* The loop's counters stay as LoopInv says. *)
LEMMA LoopStep == TypeOK /\ LoopInv /\ [Next]_vars => LoopInv'
<1> SUFFICES ASSUME TypeOK, LoopInv, [Next]_vars, NEW w \in Workers
             PROVE  /\ pc'[w] \in Calling \cup {"model"} => iter'[w] # 0
                    /\ pc'[w] \in Calling => calls'[w] # 0
  BY DEF LoopInv
<1>1. CASE Run(w)
  BY <1>1, ConciergeAssumption
     DEF TypeOK, LoopInv, Calling, Run, Claim, Start, Load, ModelAnswers,
         ModelCallsTools, RunTool, CheckTool, CreateTool, NextCall, CheckAnswer,
         CreateAnswer, PublishComplete, PublishCancelled, Finish, Speak, Raise,
         FailRequest, ReportFailure, Moves, Goto, agent
<1>2. CASE pc'[w] \in {"idle", "claim"}
  BY <1>2 DEF Calling
<1>3. CASE UNCHANGED <<pc[w], iter[w], calls[w]>>
  BY <1>3 DEF LoopInv, Calling
<1>4. QED
  BY <1>1, <1>2, <1>3, WorkerSteps

(* An iteration more is its statements more. *)
LEMMA OneMore ==
  ASSUME NEW a \in Nat, NEW b \in Nat
  PROVE  a * (b + 1) = a * b + a /\ a * b \in Nat /\ a * 0 = 0
OBVIOUS

LEMMA NotMore ==
  ASSUME NEW a \in Nat, NEW b \in Nat, NEW c \in Nat, b <= c
  PROVE  a * b <= a * c
<1>1. c - b \in Nat /\ c = b + (c - b)
  OBVIOUS
<1>2. a * (b + (c - b)) = a * b + a * (c - b)
  BY <1>1
<1>3. a * (c - b) \in Nat /\ a * b \in Nat
  BY <1>1
<1>4. QED
  BY <1>1, <1>2, <1>3

(* Fewer iterations left, or as many and fewer other statements.            *)
LEMMA LessFuel ==
  ASSUME NEW a \in Nat, NEW l \in Nat, NEW r \in Nat, NEW m \in Nat, NEW s \in Nat,
         \/ m <= l /\ s < r
         \/ m < l /\ s < r + a
  PROVE  a * m + s < a * l + r
<1>1. a * l \in Nat /\ a * m \in Nat
  BY OneMore
<1>2. CASE m <= l /\ s < r
  BY <1>1, <1>2, NotMore
<1>3. CASE m < l /\ s < r + a
  <2>1. a * (m + 1) <= a * l
    BY <1>3, NotMore
  <2>2. QED
    BY <1>1, <1>3, <2>1, OneMore
<1>4. QED
  BY <1>2, <1>3

(* What the fuel is made of are natural numbers. *)
LEMMA FuelType ==
  ASSUME TypeOK, LoopInv, NEW w \in Workers
  PROVE  /\ Left(w) \in 0..MaxIterations /\ Rank(w) \in Nat
         /\ pc[w] \in Calling => Left(w) # MaxIterations /\ Rank(w) <= Iteration + 6
         /\ pc[w] \notin Calling => Rank(w) <= 10
<1>1. /\ pc[w] \in Steps /\ iter[w] \in 0..MaxIterations /\ calls[w] \in 0..MaxCalls
      /\ MaxIterations \in Nat /\ MaxCalls \in Nat
  BY ConciergeAssumption DEF TypeOK
<1>2. Left(w) \in 0..MaxIterations
  BY <1>1 DEF Left, LoopInv, Calling
<1>3. Rank(w) \in Nat
  BY <1>1 DEF Rank
<1>4. pc[w] \in Calling => Left(w) # MaxIterations /\ Rank(w) <= Iteration + 6
  BY <1>1 DEF Left, Rank, LoopInv, Calling, Iteration
<1>5. pc[w] \notin Calling => Rank(w) <= 10
  BY <1>1 DEF Rank, Calling
<1>6. QED
  BY <1>2, <1>3, <1>4, <1>5

(* A run has never more fuel than it began with; who has none is idle.      *)
LEMMA FuelBound ==
  ASSUME TypeOK, LoopInv, NEW w \in Workers
  PROVE  /\ Fuel(w) \in 0..(Iteration * MaxIterations + 10)
         /\ Fuel(w) = 0 <=> pc[w] = "idle"
<1>1. MaxIterations \in Nat /\ Iteration \in Nat
  BY ConciergeAssumption DEF Iteration
<1>2. Left(w) \in 0..MaxIterations /\ Rank(w) \in Nat
  BY FuelType
<1>3. Iteration * Left(w) \in Nat /\ Iteration * MaxIterations \in Nat
  BY <1>1, <1>2, OneMore
<1>4. Rank(w) = 0 <=> pc[w] = "idle"
  BY ConciergeAssumption
     DEF Rank, TypeOK, Steps, TrySteps, ClaimedSteps
<1>5. pc[w] = "idle" => Left(w) = 0
  BY DEF Left, Calling
<1>6. Fuel(w) = 0 <=> pc[w] = "idle"
  BY <1>1, <1>2, <1>3, <1>4, <1>5, OneMore DEF Fuel
<1>7. CASE pc[w] \in Calling
  <2>1. Left(w) + 1 <= MaxIterations /\ Rank(w) <= Iteration + 6
    BY <1>1, <1>2, <1>7, FuelType
  <2>2. Iteration * (Left(w) + 1) <= Iteration * MaxIterations
    BY <1>1, <1>2, <2>1, NotMore
  <2>3. Iteration * (Left(w) + 1) = Iteration * Left(w) + Iteration
    BY <1>1, <1>2, OneMore
  <2>4. QED
    BY <1>1, <1>2, <1>3, <1>6, <2>1, <2>2, <2>3 DEF Fuel
<1>8. CASE pc[w] \notin Calling
  <2>1. Rank(w) <= 10 /\ Iteration * Left(w) <= Iteration * MaxIterations
    BY <1>1, <1>2, <1>8, FuelType, NotMore
  <2>2. QED
    BY <1>1, <1>2, <1>3, <1>6, <2>1 DEF Fuel
<1>9. QED
  BY <1>7, <1>8

(* Every statement of a run burns fuel. *)
LEMMA Burn ==
  ASSUME TypeOK, LoopInv, TypeOK', LoopInv', NEW w \in Workers, Run(w)
  PROVE  Fuel(w)' < Fuel(w)
<1>1. /\ pc[w] \in Steps /\ iter[w] \in 0..MaxIterations /\ calls[w] \in 0..MaxCalls
      /\ MaxIterations \in Nat \ {0} /\ MaxCalls \in Nat \ {0}
      /\ Iteration = 3 * MaxCalls + 1
      /\ pc \in [Workers -> Steps] /\ iter \in [Workers -> 0..MaxIterations]
      /\ calls \in [Workers -> 0..MaxCalls]
  BY ConciergeAssumption DEF TypeOK, Iteration
<1>2. Left(w) \in Nat /\ Rank(w) \in Nat
  BY <1>1, FuelType
<1>3. Left(w)' \in Nat /\ Rank(w)' \in Nat
  <2>1. /\ pc'[w] \in Steps /\ iter'[w] \in 0..MaxIterations
        /\ calls'[w] \in 0..MaxCalls
    BY DEF TypeOK
  <2>2. QED
    BY <1>1, <2>1 DEF Left, Rank
<1>4. \/ Left(w)' <= Left(w) /\ Rank(w)' < Rank(w)
      \/ Left(w)' < Left(w) /\ Rank(w)' < Rank(w) + Iteration
  <2> USE <1>1 DEF Moves, Goto, agent, Calling
  <2>1. CASE Claim(w) \/ Start(w)
    BY <2>1 DEF Claim, Start, Left, Rank
  <2>2. CASE Load(w)
    BY <2>2 DEF Load, Left, Rank
  <2>3. CASE ModelAnswers(w)
    BY <2>3 DEF ModelAnswers, Left, Rank
  <2>4. CASE ModelCallsTools(w)
    BY <2>4 DEF ModelCallsTools, Left, Rank
  <2>5. CASE RunTool(w)
    BY <2>5 DEF RunTool, Left, Rank
  <2>6. CASE CheckTool(w)
    BY <2>6 DEF CheckTool, NextCall, LoopInv, Left, Rank
  <2>7. CASE CreateTool(w)
    BY <2>7 DEF CreateTool, NextCall, LoopInv, Left, Rank
  <2>8. CASE CheckAnswer(w) \/ CreateAnswer(w)
    BY <2>8 DEF CheckAnswer, CreateAnswer, Left, Rank
  <2>9. CASE PublishComplete(w) \/ PublishCancelled(w)
    BY <2>9 DEF PublishComplete, PublishCancelled, Left, Rank
  <2>10. CASE Finish(w) \/ Speak(w)
    BY <2>10 DEF Finish, Speak, Left, Rank
  <2>11. CASE Raise(w)
    BY <2>11 DEF Raise, TrySteps, ClaimedSteps, LoopInv, Left, Rank
  <2>12. CASE FailRequest(w) \/ ReportFailure(w)
    BY <2>12 DEF FailRequest, ReportFailure, Left, Rank
  <2>13. QED
    BY <2>1, <2>2, <2>3, <2>4, <2>5, <2>6, <2>7, <2>8, <2>9, <2>10, <2>11, <2>12
       DEF Run
<1>5. Fuel(w) = Iteration * Left(w) + Rank(w)
      /\ Fuel(w)' = Iteration * Left(w)' + Rank(w)'
  BY DEF Fuel, Iteration
<1>6. Iteration \in Nat
  BY <1>1
<1>7. QED
  BY <1>2, <1>3, <1>4, <1>5, <1>6, LessFuel

(* A worker with a task has fuel, and at most 3 * MaxCalls + 1 for each     *)
(* iteration and 10 for the rest; every step it takes burns some, and no    *)
(* step of others gives it more.                                            *)
EnoughFuel ==
  \A w \in Workers :
    /\ Fuel(w) \in 0..(Iteration * MaxIterations + 10)
    /\ Fuel(w) = 0 <=> pc[w] = "idle"

FuelBurns ==
  [][\A w \in Workers :
       pc[w] # "idle" => \/ Fuel(w)' < Fuel(w)
                         \/ UNCHANGED <<pc[w], iter[w], calls[w]>>]_vars

(* A run of the agent is bounded, whatever the model answers, however often *)
(* it calls tools and whatever happens meanwhile: MAX_ITERATIONS, one       *)
(* response's calls, and the error path bound it (run_concierge_task).      *)
THEOREM RunsAreBounded == Spec => []EnoughFuel /\ FuelBurns
<1>1. Init => LoopInv
  BY DEF Init, LoopInv, Calling
<1>2. TypeOK /\ LoopInv => EnoughFuel
  BY FuelBound DEF EnoughFuel
<1>3. TypeOK /\ LoopInv /\ TypeOK' /\ LoopInv' /\ [Next]_vars
        => [\A w \in Workers :
              pc[w] # "idle" => \/ Fuel(w)' < Fuel(w)
                                \/ UNCHANGED <<pc[w], iter[w], calls[w]>>]_vars
  <2> SUFFICES ASSUME TypeOK, LoopInv, TypeOK', LoopInv', [Next]_vars,
                      NEW w \in Workers, pc[w] # "idle"
               PROVE  \/ Fuel(w)' < Fuel(w)
                      \/ UNCHANGED <<pc[w], iter[w], calls[w]>>
    OBVIOUS
  <2>1. CASE Run(w)
    BY <2>1, Burn
  <2>2. CASE pc'[w] = "idle"
    <3>1. Fuel(w)' = 0
      BY <2>2, ConciergeAssumption DEF Fuel, Left, Rank, Calling, Iteration
    <3>2. Fuel(w) # 0 /\ Fuel(w) \in Nat
      BY FuelBound, ConciergeAssumption
    <3>3. QED
      BY <3>1, <3>2
  <2>3. QED
    BY <2>1, <2>2, WorkerSteps
<1>4. QED
  BY <1>1, <1>2, <1>3, LoopStep, TypeCorrect, PTL DEF Spec, FuelBurns
=============================================================================
