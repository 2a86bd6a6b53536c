------------------------------ MODULE ACProofs ------------------------------
(***************************************************************************)
(* ACControl for every set of calls, fields, values, changes and           *)
(* configurations, and every bound.                                        *)
(***************************************************************************)
EXTENDS ACControl, TLAPS

(* Merging changes into a state gives a state. *)
LEMMA MergeTyped ==
  ASSUME NEW s \in States, NEW p \in AllPatches
  PROVE  Merge(s, p) \in States
BY DEF Merge, States, AllPatches

(* The empty set of changes is one. *)
LEMMA NoPatchTyped == NoPatch \in AllPatches
<1>1. NoPatch \in [{} -> Values]
  BY DEF NoPatch
<1>2. QED
  BY <1>1 DEF AllPatches

(* A request is a record, and none is the absence of one. *)
LEMMA RequestIsSomething ==
  ASSUME NEW m \in Requests
  PROVE  m # Nothing
<1>1. m = [call |-> m.call, try |-> m.try, ver |-> m.ver, patch |-> m.patch,
           cfg |-> m.cfg]
  BY DEF Requests
<1>2. DOMAIN m = {"call", "try", "ver", "patch", "cfg"}
  BY <1>1
<1>3. DOMAIN Nothing = {}
  BY DEF Nothing
<1>4. QED
  BY <1>2, <1>3

(* What a request would make of the controller's state is a state. *)
LEMMA CandidateTyped ==
  ASSUME TypeOK, NEW m \in Requests
  PROVE  Candidate(m) \in States
BY ACAssumption, MergeTyped DEF Candidate, TypeOK, Stored, Requests

(* A response reaches the call that waits for it, or nobody. *)
LEMMA AnswerStep ==
  ASSUME TypeOK, NEW m \in Requests, NEW r \in Responses, Answer(m, r)
  PROVE  /\ reply' \in [Calls -> Responses \cup {Nothing}]
         /\ \A c \in Calls : \/ reply'[c] = reply[c]
                             \/ reply'[c] = r /\ c \in Waiting
BY DEF Answer, TypeOK, Waiting

(* What the controller can answer without changing its state. *)
LEMMA ResponsesTyped ==
  ASSUME TypeOK
  PROVE  /\ Current(ctl) \in Responses
         /\ Refusal("error") \in Responses /\ Refusal("older") \in Responses
BY ACAssumption
   DEF TypeOK, Current, Refusal, Responses, Stored, Versions

(* Abandoning notifications, or dropping them, keeps what they carry. *)
LEMMA AbandonedTyped ==
  ASSUME TypeOK
  PROVE  /\ Abandoned \subseteq [body : Stored, live : BOOLEAN]
         /\ \A b \in Abandoned : \E a \in inbox : b.body = a.body
BY DEF Abandoned, TypeOK

(* The invariant holds when the devices are new. *)
LEMMA InitInv == Init => ACInv
<1>1. Init => TypeOK
  <2>1. Idle \in Locals
    BY ACAssumption, NoPatchTyped DEF Idle, Locals, Versions
  <2>2. Init => call \in [Calls -> Locals]
    BY <2>1 DEF Init
  <2>3. Init => ctl \in Stored /\ row \in Pairs /\ log \subseteq Pairs
    BY ACAssumption DEF Init, Stored, Pairs, Versions, First
  <2>4. Init => reply \in [Calls -> Responses \cup {Nothing}]
    BY DEF Init
  <2>5. Init => /\ busy \in Requests \cup {Nothing}
                /\ sync \in Stored \cup {Nothing} /\ unit \in States
    BY ACAssumption DEF Init
  <2>6. Init => /\ inbox \subseteq [body : Stored, live : BOOLEAN]
                /\ overtaken \subseteq Waiting /\ wire \subseteq Requests
    BY DEF Init
  <2>7. Init => /\ torn \in BOOLEAN /\ posting \in BOOLEAN
                /\ wiped \in BOOLEAN /\ named \in BOOLEAN
                /\ ack \in {"none", "ok", "bad"} /\ device \in Configs
    BY DEF Init
  <2>8. Init => /\ losses \in 0..MaxLosses /\ faults \in 0..MaxFaults
                /\ outside \in 0..MaxOutside
    BY ACAssumption DEF Init
  <2>9. QED
    BY <2>2, <2>3, <2>4, <2>5, <2>6, <2>7, <2>8 DEF TypeOK
<1>2. Init => VersionNamesOneState /\ RowIsConfirmed /\ LogOfController
  BY ACAssumption
     DEF Init, VersionNamesOneState, RowIsConfirmed, LogOfController, Pair, First
<1>3. Init => DoneIsKept /\ CarriedAreLogged /\ SnapshotsAreCurrent
  BY DEF Init, DoneIsKept, CarriedAreLogged, SnapshotsAreCurrent, Idle,
         Waiting, Nothing
<1>4. Init => UnitFollows /\ BusyIsTransmitted /\ RequestsAreAsked
  BY DEF Init, UnitFollows, BusyIsTransmitted, RequestsAreAsked, Nothing
<1>5. Init => DoneAsAsked /\ RepliesAreAsked
  BY DEF Init, DoneAsAsked, RepliesAreAsked, Idle
<1>6. Init => PostedIsPending /\ NewsIsPending
  BY DEF Init, PostedIsPending, NewsIsPending, Pair, First
<1>7. QED
  BY <1>1, <1>2, <1>3, <1>4, <1>5, <1>6 DEF ACInv

(* A commit enters a new state under a version above all others. *)
LEMMA CommitStep ==
  ASSUME ACInv, Commit
  PROVE  /\ ctl' \in Stored /\ ctl.ver < ctl'.ver
         /\ log' = log \cup {Pair(ctl')} /\ Pair(ctl') \in Pairs
         /\ Current(ctl') \in Responses /\ wiped' = wiped
         /\ ~wiped => \A e \in log : e.ver < ctl'.ver
<1>1. busy \in Requests /\ busy.ver <= MaxVersion /\ ctl.ver < MaxVersion
  BY DEF Commit, ACInv, TypeOK, BusyIsTransmitted
<1>2. ctl.ver \in Nat /\ busy.ver \in Nat \cup {-1} /\ busy.cfg \in Configs \cup {NoConfig}
  BY <1>1 DEF ACInv, TypeOK, Stored, Versions, Requests, NoVersion
<1>3. NewVersion(busy) \in Versions /\ ctl.ver < NewVersion(busy)
  BY <1>1, <1>2, ACAssumption DEF NewVersion, Versions
<1>4. Candidate(busy) \in States
  BY <1>1, CandidateTyped DEF ACInv
<1>5. ctl' = [ver |-> NewVersion(busy), state |-> Candidate(busy), cfg |-> busy.cfg]
  BY DEF Commit
<1>6. ctl' \in Stored /\ ctl'.ver = NewVersion(busy)
  BY <1>2, <1>3, <1>4, <1>5 DEF Stored
<1>7. Pair(ctl') \in Pairs /\ Current(ctl') \in Responses
  BY <1>6 DEF Pair, Pairs, Stored, Current, Responses
<1>8. ~wiped => \A e \in log : e.ver <= ctl.ver /\ e.ver \in Nat
  BY DEF ACInv, LogOfController, TypeOK, Pairs, Versions
<1>9. ~wiped => \A e \in log : e.ver < ctl'.ver
  BY <1>2, <1>3, <1>6, <1>8, ACAssumption DEF Versions
<1>10. log' = log \cup {Pair(ctl')} /\ wiped' = wiped
  BY DEF Commit
<1>11. QED
  BY <1>3, <1>6, <1>7, <1>9, <1>10

(* A save that is cut short leaves a state the controller has had before.  *)
LEMMA CutStep ==
  ASSUME ACInv, SaveCut
  PROVE  /\ ctl' \in Stored /\ Pair(ctl') \in log
         /\ wiped' \in BOOLEAN
         /\ wiped => wiped'
         /\ ~wiped' => Pair(ctl') = Pair(ctl)
<1> USE DEF ACInv
<1>1. First \in log /\ Pair(ctl) \in log /\ log \subseteq Pairs
  BY DEF LogOfController, TypeOK
<1>2. ASSUME ctl' = [ver |-> 0, state |-> Default, cfg |-> NoConfig]
      PROVE  ctl' \in Stored /\ Pair(ctl') \in log
  <2>1. Pair(ctl') = First
    BY <1>2 DEF Pair, First
  <2>2. ctl' \in Stored
    BY <1>2, ACAssumption DEF Stored, Versions
  <2>3. QED
    BY <1>1, <2>1, <2>2
<1>3. ASSUME NEW e \in Flash, NEW k \in Configs \ {ctl.cfg},
             ctl' = [ver |-> e.ver, state |-> e.state, cfg |-> k]
      PROVE  ctl' \in Stored /\ Pair(ctl') \in log
  <2>1. e \in log /\ e \in Pairs
    BY <1>1 DEF Flash
  <2>2. Pair(ctl') = e
    BY <1>3, <2>1 DEF Pair, Pairs
  <2>3. QED
    BY <1>3, <2>1, <2>2 DEF Stored, Pairs
<1>4. ctl' \in Stored /\ Pair(ctl') \in log
  BY <1>2, <1>3 DEF SaveCut
<1>5. wiped' = (wiped \/ Pair(ctl') # Pair(ctl))
  BY DEF SaveCut
<1>6. QED
  BY <1>4, <1>5, Zenon

(* Every variable keeps its type. *)
LEMMA TypeStep ==
  ASSUME ACInv, [Next]_vars
  PROVE  TypeOK'
<1> USE DEF ACInv
<1>1. ASSUME NEW m \in wire, Controller(m)
      PROVE  TypeOK'
  <2>1. m \in Requests /\ wire' \subseteq Requests
    BY <1>1 DEF TypeOK, Controller, TakeGet, Refuse, Unchanged, ApplyFails,
                Transmit, Serve
  <2>2. UNCHANGED <<call, syncVars, djangoVars, bounds>>
    BY <1>1 DEF Controller, TakeGet, Refuse, Unchanged, ApplyFails, Transmit, Serve
  <2>3. CASE TakeGet(m) \/ Refuse(m) \/ Unchanged(m) \/ ApplyFails(m)
    <3>1. \E r \in Responses : Answer(m, r)
      BY <2>3, ResponsesTyped DEF TakeGet, Refuse, Unchanged, ApplyFails
    <3>2. UNCHANGED ctlVars
      BY <2>3 DEF TakeGet, Refuse, Unchanged, ApplyFails
    <3>3. reply' \in [Calls -> Responses \cup {Nothing}]
      BY <2>1, <3>1, AnswerStep
    <3>4. QED
      BY <2>1, <2>2, <3>2, <3>3
         DEF TypeOK, ctlVars, syncVars, djangoVars, bounds, Waiting
  <2>4. CASE Transmit(m)
    <3>1. unit' \in States /\ busy' \in Requests /\ torn' \in BOOLEAN
          /\ UNCHANGED <<ctl, wiped, log, reply>>
      BY <2>1, <2>4, CandidateTyped DEF Transmit
    <3>2. QED
      BY <2>1, <2>2, <3>1 DEF TypeOK, syncVars, djangoVars, bounds, Waiting
  <2>5. QED
    BY <1>1, <2>3, <2>4 DEF Controller
<1>2. CASE Commit
  <2>1. ctl' \in Stored /\ log' \subseteq Pairs /\ Current(ctl') \in Responses
    BY <1>2, CommitStep DEF TypeOK
  <2>2. busy \in Requests /\ Answer(busy, Current(ctl'))
    BY <1>2 DEF Commit, TypeOK
  <2>3. reply' \in [Calls -> Responses \cup {Nothing}]
    BY <2>1, <2>2, AnswerStep
  <2>4. QED
    BY <1>2, <2>1, <2>3 DEF Commit, TypeOK, djangoVars, bounds, Waiting
<1>3. ASSUME NEW c \in Calls, Django(c)
      PROVE  TypeOK'
  <2>1. ASSUME NEW patch \in Patches, Begin(c, patch)
        PROVE  TypeOK'
    <3>1. patch \in AllPatches
      BY ACAssumption DEF AllPatches
    <3>2. row.ver \in Versions /\ row.ver + 1 \in Nat /\ device \in Configs
      BY ACAssumption DEF TypeOK, Pairs, Versions
    <3>3. Request(c, 1, row.ver + 1, patch, device) \in Requests
      BY <3>1, <3>2 DEF Request, Requests
    <3>4. call' \in [Calls -> Locals]
      BY <2>1, <3>1, <3>2 DEF Begin, TypeOK, Locals, Posted
    <3>5. Waiting \subseteq Waiting'
      BY <2>1 DEF Begin, TypeOK, Waiting, Posted
    <3>6. QED
      BY <2>1, <3>3, <3>4, <3>5
         DEF Begin, TypeOK, ctlVars, syncVars, djangoVars, bounds
  <2>2. CASE Conflict(c)
    <3>1. Request(c, 2, NoVersion, NoPatch, call[c].cfg) \in Requests
      BY NoPatchTyped DEF Request, Requests, TypeOK, Locals
    <3>2. call' \in [Calls -> Locals] /\ Waiting' = Waiting
      BY <2>2 DEF Conflict, TypeOK, Locals, Waiting
    <3>3. QED
      BY <2>2, <3>1, <3>2
         DEF Conflict, TypeOK, ctlVars, syncVars, djangoVars, bounds
  <2>3. CASE Retry(c)
    <3>1. reply[c].ver \in Versions /\ reply[c].ver + 1 \in Nat
      BY <2>3, ACAssumption DEF Retry, Confirmed, TypeOK, Responses, Versions
    <3>2. Request(c, 3, reply[c].ver + 1, call[c].patch, call[c].cfg) \in Requests
      BY <3>1 DEF Request, Requests, TypeOK, Locals
    <3>3. call' \in [Calls -> Locals] /\ Waiting' = Waiting
      BY <2>3, <3>1 DEF Retry, TypeOK, Locals, Waiting, Posted
    <3>4. reply' \in [Calls -> Responses \cup {Nothing}]
      <4>1. reply' = [reply EXCEPT ![c] = Nothing]
        BY <2>3 DEF Retry
      <4>2. QED
        BY <4>1 DEF TypeOK
    <3>5. wire' \subseteq Requests
      BY <2>3, <3>2 DEF Retry, TypeOK
    <3>6. UNCHANGED <<ctlVars, syncVars, djangoVars, bounds>>
      BY <2>3 DEF Retry
    <3>7. QED
      BY <3>3, <3>4, <3>5, <3>6
         DEF TypeOK, ctlVars, syncVars, djangoVars, bounds
  <2>4. ASSUME NEW how \in {"done", "failed"}, Ended(c, how)
        PROVE  call' \in [Calls -> Locals] /\ Waiting' = Waiting \ {c}
    BY <2>4 DEF Ended, TypeOK, Locals, Waiting
  <2>5. CASE Finish(c)
    <3>1. row' \in Pairs
      BY <2>5 DEF Finish, Confirmed, TypeOK, Responses, Pairs, Pair
    <3>2. QED
      BY <2>4, <2>5, <3>1
         DEF Finish, Ended, TypeOK, ctlVars, syncVars, bounds
  <2>6. CASE SaveLocked(c) \/ Reject(c)
    BY <2>4, <2>6
       DEF SaveLocked, Reject, Ended, TypeOK, ctlVars, syncVars, bounds
  <2>7. CASE TimeOut(c)
    <3>1. reply' \in [Calls -> Responses \cup {Nothing}]
      BY <2>7 DEF TimeOut, TypeOK
    <3>2. QED
      BY <2>4, <2>7, <3>1 DEF TimeOut, Ended, TypeOK, ctlVars, syncVars, bounds
  <2>8. QED
    BY <1>3, <2>1, <2>2, <2>3, <2>5, <2>6, <2>7 DEF Django
<1>4. CASE Notify
  <2>1. CASE PostSync
    <3>1. [body |-> sync, live |-> TRUE] \in [body : Stored, live : BOOLEAN]
      BY <2>1 DEF PostSync, TypeOK
    <3>2. QED
      BY <2>1, <3>1
         DEF PostSync, TypeOK, ctlVars, djangoVars, callVars, bounds, Waiting
  <2>2. CASE SyncAnswered
    BY <2>2 DEF SyncAnswered, TypeOK, ctlVars, djangoVars, callVars, bounds, Waiting
  <2>3. ASSUME NEW b \in inbox, HandleSync(b)
        PROVE  TypeOK'
    <3>1. row' \in Pairs /\ overtaken' \subseteq Waiting
      BY <2>3 DEF HandleSync, Overtake, TypeOK, Stored, Pairs, Pair
    <3>2. ack' \in {"none", "ok", "bad"} /\ inbox' \subseteq inbox
      BY <2>3 DEF HandleSync, TypeOK
    <3>3. QED
      BY <2>3, <3>1, <3>2
         DEF HandleSync, TypeOK, ctlVars, callVars, bounds, Waiting
  <2>4. QED
    BY <1>4, <2>1, <2>2, <2>3 DEF Notify
<1>5. CASE Disturb
  <2>1. CASE PowerLoss \/ SaveCut
    <3>1. Blackout
      BY <2>1 DEF PowerLoss, SaveCut
    <3>2. torn' \in BOOLEAN
      BY <3>1, Zenon DEF Blackout
    <3>3. losses' \in 0..MaxLosses
      BY <3>1, ACAssumption DEF Blackout, TypeOK
    <3>4. ctl' \in Stored /\ wiped' \in BOOLEAN
      BY <2>1, CutStep DEF PowerLoss, TypeOK
    <3>5. QED
      BY <3>1, <3>2, <3>3, <3>4, AbandonedTyped
         DEF Blackout, TypeOK, djangoVars, callVars, Waiting
  <2>2. CASE SyncTimesOut
    <3>1. inbox' \subseteq [body : Stored, live : BOOLEAN]
      BY <2>2, AbandonedTyped DEF SyncTimesOut, TypeOK
    <3>2. faults' \in 0..MaxFaults
      BY <2>2, ACAssumption DEF SyncTimesOut, TypeOK
    <3>3. QED
      BY <2>2, <3>1, <3>2
         DEF SyncTimesOut, TypeOK, ctlVars, djangoVars, callVars, Waiting
  <2>3. CASE OtherCommit
    BY <2>3 DEF OtherCommit, Overtake, TypeOK, ctlVars, syncVars, callVars,
                bounds, Waiting
  <2>4. ASSUME NEW b \in inbox, SyncErrs(b)
        PROVE  TypeOK'
    BY <2>4, ACAssumption
       DEF SyncErrs, TypeOK, ctlVars, djangoVars, callVars, Waiting
  <2>5. ASSUME NEW cfg \in Configs, Reconfigure(cfg)
        PROVE  TypeOK'
    BY <2>5, ACAssumption
       DEF Reconfigure, Overtake, TypeOK, ctlVars, syncVars, callVars, Waiting
  <2>6. ASSUME NEW patch \in Patches, NEW cfg \in Configs, LanCommand(patch, cfg)
        PROVE  TypeOK'
    <3>1. Request(Lan, 1, NoVersion, patch, cfg) \in Requests
      BY ACAssumption DEF Request, Requests, AllPatches
    <3>2. QED
      BY <2>6, <3>1, ACAssumption
         DEF LanCommand, TypeOK, ctlVars, syncVars, djangoVars, callVars, Waiting
  <2>7. CASE Rename
    <3>1. named' \in BOOLEAN
      BY <2>7, Zenon DEF Rename
    <3>2. QED
      BY <2>7, <3>1, ACAssumption
         DEF Rename, Overtake, TypeOK, ctlVars, syncVars, callVars, Waiting
  <2>8. QED
    BY <1>5, <2>1, <2>2, <2>3, <2>4, <2>5, <2>6, <2>7 DEF Disturb
<1>6. CASE UNCHANGED vars
  BY <1>6 DEF vars, TypeOK, Waiting
<1>7. QED
  BY <1>1, <1>2, <1>3, <1>4, <1>5, <1>6 DEF Next

-----------------------------------------------------------------------------
(* What a step does, told apart by the variables it changes. *)

(* Only Commit and a cut save change the controller's state.               *)
LEMMA ControllerStep ==
  ASSUME [Next]_vars
  PROVE  Commit \/ SaveCut \/ UNCHANGED <<ctl, log, wiped>>
BY DEF Next, vars, Controller, TakeGet, Refuse, Unchanged, ApplyFails, Transmit,
       Serve, Django, Begin, Conflict, Retry, Finish, SaveLocked, Reject, TimeOut,
       Ended, Notify, PostSync, SyncAnswered, HandleSync, Disturb, Blackout, PowerLoss, Rename,
       SyncTimesOut, OtherCommit, SyncErrs, Reconfigure, LanCommand, ctlVars

(* Only Finish and HandleSync write Django's row. *)
LEMMA RowWriters ==
  ASSUME [Next]_vars
  PROVE  \/ \E c \in Calls : Finish(c)
         \/ \E b \in inbox : HandleSync(b)
         \/ UNCHANGED row
BY DEF Next, vars, Controller, TakeGet, Refuse, Unchanged, ApplyFails, Transmit,
       Serve, Commit, Django, Begin, Conflict, Retry, SaveLocked, Reject, TimeOut,
       Ended, Notify, PostSync, SyncAnswered, Disturb, Blackout, PowerLoss, SaveCut, Rename, SyncTimesOut,
       OtherCommit, SyncErrs, Reconfigure, LanCommand, djangoVars

(* Only the controller's own actions change what it has transmitted. *)
LEMMA UnitWriters ==
  ASSUME [Next]_vars
  PROVE  \/ \E m \in wire : Transmit(m)
         \/ Commit \/ PowerLoss \/ SaveCut
         \/ UNCHANGED <<ctl, unit, busy, torn>>
BY DEF Next, vars, Controller, TakeGet, Refuse, Unchanged, ApplyFails,
       Serve, Django, Begin, Conflict, Retry, Finish, SaveLocked, Reject, TimeOut,
       Ended, Notify, PostSync, SyncAnswered, HandleSync, Disturb, Rename,
       SyncTimesOut, OtherCommit, SyncErrs, Reconfigure, LanCommand, ctlVars

(* The log stays the controller's, and a version in it names one state. *)
LEMMA LogStep ==
  ASSUME ACInv, [Next]_vars
  PROVE  /\ (VersionNamesOneState /\ LogOfController)' /\ log \subseteq log'
         /\ ~wiped' => ~wiped /\ ctl.ver <= ctl'.ver
<1>0. /\ ctl.ver \in Nat /\ losses \in Nat /\ losses' \in Nat
      /\ losses' = losses \/ losses' = losses + 1
  <2>1. losses' = losses \/ losses' = losses + 1
    BY DEF Next, vars, Controller, TakeGet, Refuse, Unchanged, ApplyFails, Transmit,
       Serve, Commit, Django, Begin, Conflict, Retry, Finish, SaveLocked, Reject,
       TimeOut, Ended, Notify, PostSync, SyncAnswered, HandleSync, Disturb,
       Blackout, PowerLoss, SaveCut, Rename, SyncTimesOut, OtherCommit, SyncErrs,
       Reconfigure, LanCommand, bounds
  <2>2. QED
    BY <2>1, ACAssumption DEF ACInv, TypeOK, Stored, Versions
<1>1. CASE Commit
  <2>1. /\ ctl' \in Stored /\ ctl.ver < ctl'.ver /\ wiped' = wiped
        /\ log' = log \cup {Pair(ctl')}
        /\ ~wiped => \A e \in log : e.ver < ctl'.ver
    BY <1>1, CommitStep
  <2>2. Pair(ctl').ver = ctl'.ver
    BY DEF Pair
  <2>3. \A e \in log' : e.ver \in Nat
    BY TypeStep, ACAssumption DEF TypeOK, Pairs, Versions
  <2>4. ctl.ver \in Nat /\ ctl'.ver \in Nat
    BY <2>1, ACAssumption DEF ACInv, TypeOK, Stored, Versions
  <2>5. VersionNamesOneState'
    BY <2>1, <2>2, <2>3, <2>4 DEF VersionNamesOneState, ACInv
  <2>6. LogOfController'
    BY <1>0, <2>1, <2>2, <2>3, <2>4 DEF LogOfController, ACInv, Pair
  <2>7. QED
    BY <2>1, <2>4, <2>5, <2>6
<1>2. CASE SaveCut
  <2>1. log' = log /\ losses' = losses + 1
    BY <1>2 DEF SaveCut, Blackout
  <2>2. Pair(ctl') \in log /\ (~wiped' => ~wiped /\ Pair(ctl') = Pair(ctl))
    BY <1>2, CutStep
  <2>3. ~wiped' => ctl'.ver = ctl.ver
    BY <2>2 DEF Pair
  <2>4. QED
    BY <1>0, <2>1, <2>2, <2>3 DEF ACInv, VersionNamesOneState, LogOfController
<1>3. CASE UNCHANGED <<ctl, log, wiped>>
  <2>1. LogOfController'
    BY <1>0, <1>3 DEF ACInv, LogOfController, Pair
  <2>2. QED
    BY <1>0, <1>3, <2>1 DEF ACInv, VersionNamesOneState
<1>4. QED
  BY <1>1, <1>2, <1>3, ControllerStep

(* The unit keeps doing what the controller believes. *)
LEMMA UnitStep ==
  ASSUME ACInv, [Next]_vars
  PROVE  (UnitFollows /\ BusyIsTransmitted)'
<1> USE DEF ACInv
<1>1. ASSUME NEW m \in wire, Transmit(m)
      PROVE  (UnitFollows /\ BusyIsTransmitted)'
  <2>1. m.ver <= MaxVersion /\ ctl.ver < MaxVersion
    BY <1>1 DEF Transmit, Acceptable
  <2>2. busy' = m /\ ~torn' /\ ctl' = ctl
    BY <1>1 DEF Transmit
  <2>3. unit' = Candidate(m)
    BY <1>1 DEF Transmit
  <2>4. Candidate(busy)' = Candidate(m)
    BY <2>2 DEF Candidate, Merge
  <2>5. busy' # Nothing
    BY <2>2, RequestIsSomething DEF TypeOK
  <2>6. QED
    BY <2>1, <2>2, <2>3, <2>4, <2>5 DEF UnitFollows, BusyIsTransmitted
<1>2. CASE Commit
  <2>1. busy' = Nothing /\ unit' = unit /\ unit = Candidate(busy)
    BY <1>2 DEF Commit, BusyIsTransmitted
  <2>2. ctl'.state = Candidate(busy)
    BY <1>2 DEF Commit
  <2>3. QED
    BY <2>1, <2>2 DEF UnitFollows, BusyIsTransmitted
<1>3. CASE PowerLoss \/ SaveCut
  <2>1. busy' = Nothing /\ unit' = unit
    BY <1>3 DEF PowerLoss, SaveCut, Blackout
  <2>2. ~torn' => ~torn /\ busy = Nothing
    BY <1>3, Zenon DEF PowerLoss, SaveCut, Blackout
  <2>3. busy = Nothing => UNCHANGED ctl
    BY <1>3 DEF PowerLoss, SaveCut
  <2>4. QED
    BY <2>1, <2>2, <2>3 DEF UnitFollows, BusyIsTransmitted
<1>4. CASE UNCHANGED <<ctl, unit, busy, torn>>
  BY <1>4 DEF UnitFollows, BusyIsTransmitted, Candidate, Merge
<1>5. QED
  BY <1>1, <1>2, <1>3, <1>4, UnitWriters

(* A reply changes only for a call that waits, to a refusal or to a state  *)
(* of the controller.                                                      *)
LEMMA ReplyStep ==
  ASSUME ACInv, [Next]_vars, NEW c \in Calls, reply'[c] # reply[c]
  PROVE  /\ c \in Waiting
         /\ \/ reply'[c] = Nothing
            \/ reply'[c].kind # "ok"
            \/ Pair(reply'[c]) \in log'
<1> USE DEF ACInv
<1>1. ASSUME NEW m \in wire, Controller(m)
      PROVE  c \in Waiting /\ (reply'[c].kind # "ok" \/ Pair(reply'[c]) \in log')
  <2>1. PICK r \in {Refusal("error"), Refusal("older"), Current(ctl)} : Answer(m, r)
    BY <1>1 DEF Controller, TakeGet, Refuse, Unchanged, ApplyFails, Transmit, Answer
  <2>2. r \in Responses /\ m \in Requests
    BY <2>1, ResponsesTyped DEF TypeOK
  <2>3. c \in Waiting /\ reply'[c] = r
    BY <2>1, <2>2, AnswerStep
  <2>4. r.kind # "ok" \/ Pair(r) = Pair(ctl)
    BY <2>1 DEF Refusal, Current, Pair
  <2>5. Pair(ctl) \in log'
    BY LogStep DEF LogOfController
  <2>6. QED
    BY <2>3, <2>4, <2>5
<1>2. CASE Commit
  <2>1. busy \in Requests /\ Current(ctl') \in Responses /\ Answer(busy, Current(ctl'))
    BY <1>2, CommitStep DEF Commit, TypeOK
  <2>2. c \in Waiting /\ reply'[c] = Current(ctl')
    BY <2>1, AnswerStep
  <2>3. Pair(Current(ctl')) = Pair(ctl')
    BY DEF Pair, Current
  <2>4. Pair(ctl') \in log'
    BY <1>2, CommitStep
  <2>5. QED
    BY <2>2, <2>3, <2>4
<1>3. ASSUME NEW d \in Calls, Django(d)
      PROVE  c \in Waiting /\ reply'[c] = Nothing
  BY <1>3 DEF Django, Begin, Conflict, Retry, Finish, SaveLocked, Reject, TimeOut,
              TypeOK
<1>4. CASE Notify \/ Disturb \/ UNCHANGED vars
  BY <1>4 DEF Notify, PostSync, SyncAnswered, HandleSync, Disturb, Blackout, PowerLoss, SaveCut, Rename,
              SyncTimesOut, OtherCommit, SyncErrs, Reconfigure, LanCommand,
              callVars, vars
<1>5. QED
  BY <1>1, <1>2, <1>3, <1>4 DEF Next

(* Everything that carries a state carries one of the controller's.        *)
LEMMA CarriedStep ==
  ASSUME ACInv, [Next]_vars
  PROVE  CarriedAreLogged'
<1> USE DEF ACInv
<1>1. log \subseteq log'
  BY LogStep
<1>2. \A c \in Calls : reply'[c] # Nothing /\ reply'[c].kind = "ok" =>
         Pair(reply'[c]) \in log'
  BY <1>1, ReplyStep DEF CarriedAreLogged
<1>3. sync' = sync \/ sync' = Nothing \/ Pair(sync') \in log'
  <2>1. CASE Commit
    BY <2>1, CommitStep DEF Commit
  <2>2. CASE ~Commit
    BY <2>2 DEF Next, vars, Controller, TakeGet, Refuse, Unchanged, ApplyFails,
         Transmit, Serve, Django, Begin, Conflict, Retry, Finish, SaveLocked,
         Reject, TimeOut, Ended, Notify, PostSync, SyncAnswered, HandleSync,
         Disturb, Blackout, PowerLoss, SaveCut, Rename, SyncTimesOut, OtherCommit, SyncErrs, Reconfigure,
         LanCommand, syncVars
  <2>3. QED
    BY <2>1, <2>2
<1>4. ASSUME NEW b \in inbox'
      PROVE  Pair(b.body) \in log'
  <2>1. \/ b \in inbox \/ b \in Abandoned
        \/ sync # Nothing /\ b = [body |-> sync, live |-> TRUE]
    BY DEF Next, vars, Controller, TakeGet, Refuse, Unchanged, ApplyFails,
         Transmit, Serve, Commit, Django, Begin, Conflict, Retry, Finish, SaveLocked,
         Reject, TimeOut, Ended, Notify, PostSync, SyncAnswered, HandleSync,
         Disturb, Blackout, PowerLoss, SaveCut, Rename, SyncTimesOut, OtherCommit, SyncErrs, Reconfigure,
         LanCommand, syncVars
  <2>2. QED
    BY <1>1, <2>1, AbandonedTyped DEF CarriedAreLogged
<1>5. QED
  BY <1>1, <1>2, <1>3, <1>4 DEF CarriedAreLogged

(* Django's row only moves forward, along the log. *)
LEMMA RowStep ==
  ASSUME ACInv, [Next]_vars
  PROVE  row' \in log /\ row.ver <= row'.ver /\ RowIsConfirmed'
<1> USE DEF ACInv
<1>0. row.ver \in Nat /\ ctl.ver \in Nat /\ ctl'.ver \in Nat
  BY TypeStep, ACAssumption DEF TypeOK, Stored, Pairs, Versions
<1>1. row' \in log /\ row.ver <= row'.ver
  <2>1. ASSUME NEW c \in Calls, Finish(c)
        PROVE  row' \in log /\ row.ver <= row'.ver
    <3>1. c \in Waiting \ overtaken /\ row' = Pair(reply[c]) /\ Confirmed(c)
      BY <2>1 DEF Finish
    <3>2. row.ver <= call[c].ver /\ call[c].ver <= reply[c].ver
      BY <3>1 DEF SnapshotsAreCurrent, Confirmed
    <3>3. call[c].ver \in Nat /\ reply[c].ver \in Nat
      BY <3>1, ACAssumption
         DEF Confirmed, TypeOK, Locals, Responses, Versions
    <3>4. QED
      BY <1>0, <3>1, <3>2, <3>3 DEF Confirmed, CarriedAreLogged, Pair
  <2>2. ASSUME NEW b \in inbox, HandleSync(b)
        PROVE  row' \in log /\ row.ver <= row'.ver
    BY <1>0, <2>2 DEF HandleSync, CarriedAreLogged, RowIsConfirmed, Pair
  <2>3. CASE UNCHANGED row
    BY <1>0, <2>3 DEF RowIsConfirmed
  <2>4. QED
    BY <2>1, <2>2, <2>3, RowWriters
<1>2. (~wiped => row'.ver <= ctl.ver) /\ row'.ver \in Nat
  BY <1>1, ACAssumption DEF LogOfController, TypeOK, Pairs, Versions
<1>3. row' \in log' /\ (~wiped' => ~wiped /\ ctl.ver <= ctl'.ver)
  BY <1>1, LogStep
<1>4. QED
  BY <1>0, <1>1, <1>2, <1>3 DEF RowIsConfirmed

(* Only Finish ends a call as done. *)
LEMMA DoneWriters ==
  ASSUME ACInv, [Next]_vars, NEW c \in Calls, call'[c].pc = "done"
  PROVE  call[c].pc = "done" \/ Finish(c)
<1> USE DEF ACInv
<1>1. ASSUME NEW d \in Calls, Django(d)
      PROVE  call[c].pc = "done" \/ Finish(c)
  <2>1. CASE Finish(d)
    BY <2>1 DEF Finish, Ended, TypeOK
  <2>2. CASE SaveLocked(d) \/ Reject(d) \/ TimeOut(d)
    BY <2>2 DEF SaveLocked, Reject, TimeOut, Ended, TypeOK, Locals
  <2>3. CASE Conflict(d)
    BY <2>3 DEF Conflict, TypeOK, Locals
  <2>4. CASE Retry(d) \/ \E patch \in Patches : Begin(d, patch)
    BY <2>4 DEF Begin, Retry, Posted, TypeOK
  <2>5. QED
    BY <1>1, <2>1, <2>2, <2>3, <2>4 DEF Django
<1>2. CASE ~\E d \in Calls : Django(d)
  BY <1>2 DEF Next, vars, Controller, TakeGet, Refuse, Unchanged, ApplyFails,
     Transmit, Serve, Commit, Notify, PostSync, SyncAnswered, HandleSync,
     Disturb, Blackout, PowerLoss, SaveCut, Rename, SyncTimesOut, OtherCommit, SyncErrs, Reconfigure,
     LanCommand, callVars
<1>3. QED
  BY <1>1, <1>2

(* A finished call keeps its reply, and the row does not fall behind it.   *)
LEMMA DoneStep ==
  ASSUME ACInv, [Next]_vars
  PROVE  DoneIsKept'
<1> USE DEF ACInv
<1> SUFFICES ASSUME NEW c \in Calls, call'[c].pc = "done"
             PROVE  reply'[c] # Nothing /\ reply'[c].ver <= row'.ver
  BY DEF DoneIsKept
<1>1. call[c].pc = "done" \/ Finish(c)
  BY DoneWriters
<1>2. row.ver \in Nat /\ row'.ver \in Nat
  BY TypeStep, ACAssumption DEF TypeOK, Pairs, Versions
<1>3. CASE call[c].pc = "done"
  <2>1. reply[c] # Nothing /\ reply[c].ver <= row.ver
    BY <1>3 DEF DoneIsKept
  <2>2. reply'[c] = reply[c]
    BY <1>3, ReplyStep DEF Waiting
  <2>3. reply[c].ver \in Nat
    BY <2>1, ACAssumption DEF TypeOK, Responses, Versions
  <2>4. QED
    BY <1>2, <2>1, <2>2, <2>3, RowStep
<1>4. CASE Finish(c)
  <2>1. reply[c] # Nothing /\ reply'[c] = reply[c] /\ row'.ver = reply[c].ver
    BY <1>4 DEF Finish, Confirmed, Pair
  <2>2. QED
    BY <1>2, <2>1
<1>5. QED
  BY <1>1, <1>3, <1>4

(* A snapshot that no commit has overtaken is of the latest row. *)
LEMMA SnapshotStep ==
  ASSUME ACInv, [Next]_vars
  PROVE  SnapshotsAreCurrent'
<1> USE DEF ACInv
<1> SUFFICES ASSUME NEW c \in Calls, c \in Waiting', c \notin overtaken'
             PROVE  row'.ver <= call'[c].ver
  BY DEF SnapshotsAreCurrent, Waiting
<1>0. row.ver \in Nat /\ call[c].ver \in Nat
  BY ACAssumption DEF TypeOK, Pairs, Versions, Locals
<1>1. row' = row
  <2>1. ASSUME NEW d \in Calls, Finish(d)
        PROVE  FALSE
    BY <2>1 DEF Finish, Ended, Waiting, TypeOK, Locals
  <2>2. ASSUME NEW b \in inbox, HandleSync(b)
        PROVE  row' = row
    BY <2>2 DEF HandleSync, Overtake, Waiting, callVars
  <2>3. QED
    BY <2>1, <2>2, RowWriters
<1>2. \/ c \in Waiting \ overtaken /\ call'[c].ver = call[c].ver
      \/ Retry(c)
      \/ call'[c].ver = row.ver
  <2>1. ASSUME NEW d \in Calls, Django(d)
        PROVE  \/ c \in Waiting \ overtaken /\ call'[c].ver = call[c].ver
               \/ Retry(c)
               \/ call'[c].ver = row.ver
    <3>1. ASSUME NEW patch \in Patches, Begin(d, patch)
          PROVE  \/ c \in Waiting \ overtaken /\ call'[c].ver = call[c].ver
                 \/ call'[c].ver = row.ver
      BY <3>1 DEF Begin, Posted, Waiting, TypeOK, djangoVars
    <3>2. CASE Conflict(d)
      BY <3>2 DEF Conflict, Waiting, TypeOK, Locals, djangoVars
    <3>3. CASE Retry(d)
      BY <3>3 DEF Retry, Posted, Waiting, TypeOK, Locals, djangoVars
    <3>4. CASE Finish(d) \/ SaveLocked(d) \/ Reject(d) \/ TimeOut(d)
      BY <3>4 DEF Finish, SaveLocked, Reject, TimeOut, Ended, Waiting, TypeOK,
                  Locals
    <3>5. QED
      BY <2>1, <3>1, <3>2, <3>3, <3>4 DEF Django
  <2>2. CASE ~\E d \in Calls : Django(d)
    BY <2>2 DEF Next, vars, Controller, TakeGet, Refuse, Unchanged, ApplyFails,
         Transmit, Serve, Commit, Notify, PostSync, SyncAnswered, HandleSync,
         Overtake, Disturb, Blackout, PowerLoss, SaveCut, Rename, SyncTimesOut, OtherCommit, SyncErrs,
         Reconfigure, LanCommand, callVars, djangoVars, Waiting
  <2>3. QED
    BY <2>1, <2>2
<1>3. CASE Retry(c)
  <2>1. c \in Waiting /\ c \notin overtaken
    BY <1>3 DEF Retry, djangoVars
  <2>2. row.ver <= call[c].ver /\ call[c].ver <= reply[c].ver
    BY <1>3, <2>1 DEF Retry, Confirmed, SnapshotsAreCurrent
  <2>3. call'[c].ver = reply[c].ver /\ reply[c].ver \in Nat
    BY <1>3, ACAssumption
       DEF Retry, Posted, Confirmed, TypeOK, Responses, Versions
  <2>4. QED
    BY <1>0, <1>1, <2>2, <2>3
<1>4. QED
  BY <1>0, <1>1, <1>2, <1>3 DEF SnapshotsAreCurrent

(* A call that has begun keeps the changes it was asked for. *)
LEMMA KeepsPatch ==
  ASSUME ACInv, [Next]_vars, NEW c \in Calls, call[c].pc # "idle"
  PROVE  call'[c].pc # "idle" /\ call'[c].patch = call[c].patch
BY DEF ACInv, Next, vars, Controller, TakeGet, Refuse, Unchanged, ApplyFails,
       Transmit, Serve, Commit, Django, Begin, Posted, Conflict, Retry, Finish,
       SaveLocked, Reject, TimeOut, Ended, Notify, PostSync, SyncAnswered,
       HandleSync, Disturb, Blackout, PowerLoss, SaveCut, Rename, SyncTimesOut, OtherCommit, SyncErrs,
       Reconfigure, LanCommand, callVars, TypeOK, Locals

(* So does every request that was posted for one. *)
LEMMA AskedStep ==
  ASSUME ACInv, [Next]_vars
  PROVE  RequestsAreAsked'
<1> USE DEF ACInv
<1>1. ASSUME NEW c \in Calls, call[c].pc # "idle"
      PROVE  call'[c].pc # "idle" /\ call'[c].patch = call[c].patch
  BY <1>1, KeepsPatch
<1>2. ASSUME NEW m \in Requests, IsAsked(m)
      PROVE  IsAsked(m)'
  BY <1>1, <1>2 DEF IsAsked, Requests
<1>3. ASSUME NEW m \in wire', m \notin wire
      PROVE  IsAsked(m)'
  <2>1. \/ \E c \in Calls, patch \in Patches : Begin(c, patch)
        \/ \E c \in Calls : Conflict(c) \/ Retry(c)
        \/ \E patch \in Patches, cfg \in Configs : LanCommand(patch, cfg)
    BY <1>3
       DEF Next, vars, Controller, TakeGet, Refuse, Unchanged, ApplyFails,
       Transmit, Serve, Commit, Django, Finish, SaveLocked, Reject, TimeOut,
       Ended, Notify, PostSync, SyncAnswered, HandleSync, Disturb, Blackout, PowerLoss, SaveCut, Rename,
       SyncTimesOut, OtherCommit, SyncErrs, Reconfigure
  <2>2. ASSUME NEW c \in Calls, NEW patch \in Patches, Begin(c, patch)
        PROVE  IsAsked(m)'
    BY <1>3, <2>2 DEF Begin, Posted, Request, IsAsked, TypeOK
  <2>3. ASSUME NEW c \in Calls, Conflict(c)
        PROVE  IsAsked(m)'
    <3>1. m = Request(c, 2, NoVersion, NoPatch, call[c].cfg) /\ c \in Waiting
      BY <1>3, <2>3 DEF Conflict
    <3>2. m.call = c /\ m.try = 2 /\ call[c].pc # "idle"
      BY <3>1 DEF Request, Waiting
    <3>3. QED
      BY <1>1, <3>2 DEF IsAsked
  <2>4. ASSUME NEW c \in Calls, Retry(c)
        PROVE  IsAsked(m)'
    <3>1. m.call = c /\ m.patch = call[c].patch /\ call[c].pc # "idle"
      BY <1>3, <2>4 DEF Retry, Request, Waiting
    <3>2. QED
      BY <1>1, <3>1 DEF IsAsked
  <2>5. ASSUME NEW patch \in Patches, NEW cfg \in Configs, LanCommand(patch, cfg)
        PROVE  IsAsked(m)'
    BY <1>3, <2>5 DEF LanCommand, Request, IsAsked
  <2>6. QED
    BY <2>1, <2>2, <2>3, <2>4, <2>5
<1>4. \A m \in wire' : IsAsked(m)'
  BY <1>2, <1>3 DEF RequestsAreAsked, TypeOK
<1>5. busy' # Nothing => IsAsked(busy)' /\ busy'.try # 2
  <2>1. ASSUME NEW m \in wire, Transmit(m)
        PROVE  IsAsked(busy)' /\ busy'.try # 2
    <3>1. busy' = m /\ m.try # 2 /\ IsAsked(m)'
      BY <1>2, <2>1 DEF Transmit, Acceptable, RequestsAreAsked, TypeOK
    <3>2. QED
      BY <3>1 DEF IsAsked
  <2>2. CASE Commit \/ PowerLoss \/ SaveCut
    BY <2>2 DEF Commit, PowerLoss, SaveCut, Blackout
  <2>3. CASE UNCHANGED busy
    <3>1. ASSUME NEW m, m = busy, busy # Nothing
          PROVE  IsAsked(m)'
      BY <1>2, <3>1 DEF RequestsAreAsked, TypeOK
    <3>2. QED
      BY <2>3, <3>1 DEF RequestsAreAsked, IsAsked
  <2>4. QED
    BY <2>1, <2>2, <2>3, UnitWriters
<1>6. QED
  BY <1>4, <1>5 DEF RequestsAreAsked

(* Who begins another attempt forgets the answer to the last one.          *)
LEMMA AttemptStep ==
  ASSUME ACInv, [Next]_vars, NEW c \in Calls, call[c].pc # "idle"
  PROVE  call'[c].try = call[c].try \/ reply'[c] = Nothing
BY DEF ACInv, Next, vars, Controller, TakeGet, Refuse, Unchanged, ApplyFails,
       Transmit, Serve, Commit, Django, Begin, Posted, Conflict, Retry, Finish,
       SaveLocked, Reject, TimeOut, Ended, Notify, PostSync, SyncAnswered,
       HandleSync, Disturb, Blackout, PowerLoss, SaveCut, Rename, SyncTimesOut, OtherCommit, SyncErrs,
       Reconfigure, LanCommand, callVars, TypeOK, Locals

(* Merged changes are in the merged state. *)
LEMMA MergeGrants ==
  ASSUME NEW s, NEW p \in AllPatches, NEW f \in DOMAIN p
  PROVE  Merge(s, p)[f] = p[f]
BY DEF Merge, AllPatches

(* A success that is new answers a GET, or grants what was asked for.      *)
LEMMA AnswerGrants ==
  ASSUME ACInv, [Next]_vars, NEW c \in Calls, reply'[c] # reply[c],
         reply'[c] # Nothing, reply'[c].kind = "ok", call[c].try # 2
  PROVE  call'[c] = call[c] /\ Granted(c)'
<1> USE DEF ACInv
<1>1. call[c].patch \in AllPatches
  BY DEF TypeOK, Locals
<1>2. ASSUME NEW m, m.call = c, IsAsked(m), m.try # 2,
             reply'[c].state = Candidate(m), call' = call
      PROVE  Granted(c)'
  <2>1. m.patch = call[c].patch
    BY <1>2, ACAssumption DEF IsAsked
  <2>2. \A f \in DOMAIN call[c].patch : Candidate(m)[f] = call[c].patch[f]
    BY <1>1, <2>1, MergeGrants DEF Candidate
  <2>3. QED
    BY <1>2, <2>2 DEF Granted
<1>3. ASSUME NEW m \in wire, Controller(m)
      PROVE  call' = call /\ Granted(c)'
  <2>1. call' = call
    BY <1>3 DEF Controller, TakeGet, Refuse, Unchanged, ApplyFails, Transmit, Serve
  <2>2. m.call = c /\ m.try = call[c].try
    BY <1>3 DEF Controller, TakeGet, Refuse, Unchanged, ApplyFails, Transmit,
                Answer, TypeOK
  <2>3. Unchanged(m)
    BY <1>3, <2>2 DEF Controller, TakeGet, Refuse, ApplyFails, Transmit, Answer,
                      Refusal, TypeOK
  <2>4. reply'[c] = Current(ctl)
    BY <2>3 DEF Unchanged, Answer, TypeOK
  <2>5. reply'[c].state = Candidate(m)
    BY <2>3, <2>4 DEF Unchanged, Changes, Current
  <2>6. QED
    BY <1>2, <2>1, <2>2, <2>5 DEF RequestsAreAsked
<1>4. CASE Commit
  <2>1. busy # Nothing /\ Answer(busy, Current(ctl')) /\ call' = call
    BY <1>4 DEF Commit
  <2>2. busy.call = c /\ reply'[c] = Current(ctl')
    BY <2>1 DEF Answer, TypeOK
  <2>3. reply'[c].state = Candidate(busy)
    BY <1>4, <2>2 DEF Commit, Current
  <2>4. QED
    BY <1>2, <2>1, <2>2, <2>3 DEF RequestsAreAsked
<1>5. ASSUME NEW d \in Calls, Django(d)
      PROVE  FALSE
  BY <1>5 DEF Django, Begin, Conflict, Retry, Finish, SaveLocked, Reject, TimeOut,
              TypeOK
<1>6. CASE Notify \/ Disturb \/ UNCHANGED vars
  BY <1>6 DEF Notify, PostSync, SyncAnswered, HandleSync, Disturb, Blackout, PowerLoss, SaveCut, Rename,
              SyncTimesOut, OtherCommit, SyncErrs, Reconfigure, LanCommand,
              callVars, vars
<1>7. QED
  BY <1>3, <1>4, <1>5, <1>6 DEF Next

(* A success that is waited for grants what was asked for. *)
LEMMA GrantStep ==
  ASSUME ACInv, [Next]_vars
  PROVE  RepliesAreAsked'
<1> USE DEF ACInv
<1> SUFFICES ASSUME NEW c \in Calls
             PROVE  /\ call'[c].pc = "idle" => reply'[c] = Nothing
                    /\ (reply'[c] # Nothing /\ reply'[c].kind = "ok"
                        /\ call'[c].try # 2) => Granted(c)'
  BY DEF RepliesAreAsked
<1>1. CASE reply'[c] = reply[c]
  <2>1. CASE call[c].pc = "idle"
    BY <1>1, <2>1 DEF RepliesAreAsked
  <2>2. CASE call[c].pc # "idle"
    BY <1>1, <2>2, KeepsPatch, AttemptStep DEF RepliesAreAsked, Granted
  <2>3. QED
    BY <2>1, <2>2
<1>2. CASE reply'[c] # reply[c]
  <2>1. call[c].pc # "idle" /\ call'[c].pc # "idle"
    BY <1>2, ReplyStep, KeepsPatch DEF Waiting
  <2>2. QED
    BY <1>2, <2>1, AnswerGrants, AttemptStep
<1>3. QED
  BY <1>1, <1>2

(* A call becomes done on such a success, and keeps it. *)
LEMMA DoneGrantedStep ==
  ASSUME ACInv, [Next]_vars
  PROVE  DoneAsAsked'
<1> USE DEF ACInv
<1> SUFFICES ASSUME NEW c \in Calls, call'[c].pc = "done"
             PROVE  Granted(c)'
  BY DEF DoneAsAsked
<1>1. CASE call[c].pc = "done"
  <2>1. reply'[c] = reply[c]
    BY <1>1, ReplyStep DEF Waiting
  <2>2. call'[c].patch = call[c].patch /\ Granted(c)
    BY <1>1, KeepsPatch DEF DoneAsAsked
  <2>3. QED
    BY <2>1, <2>2 DEF Granted
<1>2. CASE Finish(c)
  <2>1. Granted(c) /\ reply' = reply
    BY <1>2 DEF Finish, Confirmed, RepliesAreAsked
  <2>2. call'[c].patch = call[c].patch
    BY <1>2, KeepsPatch DEF Finish, Waiting
  <2>3. QED
    BY <2>1, <2>2 DEF Granted
<1>3. QED
  BY <1>1, <1>2, DoneWriters

(* Only these actions touch the notification, its post and its answer.     *)
LEMMA SyncWriters ==
  ASSUME [Next]_vars
  PROVE  \/ Commit \/ PowerLoss \/ SaveCut
         \/ PostSync \/ SyncAnswered \/ SyncTimesOut
         \/ \E b \in inbox : HandleSync(b) \/ SyncErrs(b)
         \/ \E m \in wire : Transmit(m)
         \/ UNCHANGED <<syncVars, ctl, busy, losses>>
BY DEF Next, vars, Controller, TakeGet, Refuse, Unchanged, ApplyFails, Serve,
       Django, Begin, Conflict, Retry, Finish, SaveLocked, Reject, TimeOut, Ended,
       Notify, Disturb, Rename, OtherCommit, Reconfigure, LanCommand, ctlVars,
       syncVars, bounds

(* A notification is what it carries and whether it is waited for. *)
LEMMA SameNotification ==
  ASSUME TypeOK, NEW a \in inbox, NEW b \in inbox, a.live, b.live, a.body = b.body
  PROVE  a = b
<1>1. a \in [body : Stored, live : BOOLEAN] /\ b \in [body : Stored, live : BOOLEAN]
  BY DEF TypeOK
<1>2. a.live = TRUE /\ b.live = TRUE
  BY <1>1
<1>3. QED
  BY <1>1, <1>2

(* Nobody waits for an abandoned notification. *)
LEMMA AbandonedIsDead == TypeOK => \A b \in Abandoned : ~b.live
<1> SUFFICES ASSUME TypeOK, NEW a \in inbox
             PROVE  [a EXCEPT !.live = FALSE].live = FALSE
  BY DEF Abandoned
<1>1. a \in [body : Stored, live : BOOLEAN]
  BY DEF TypeOK
<1>2. QED
  BY <1>1

(* No step posts anything but the pending state, or takes an answer for    *)
(* that of another post.                                                   *)
LEMMA PostedStep ==
  ASSUME ACInv, [Next]_vars
  PROVE  PostedIsPending'
<1> USE DEF PostedIsPending
<1>0. /\ PostedIsPending
      /\ row.ver \in Nat /\ row'.ver \in Nat /\ ctl.ver \in Nat /\ row.ver <= row'.ver
  BY TypeStep, RowStep, ACAssumption DEF ACInv, TypeOK, Pairs, Stored, Versions
<1>1. CASE Commit
  BY <1>0, <1>1 DEF Commit
<1>2. CASE PowerLoss \/ SaveCut
  <2>1. Blackout
    BY <1>2 DEF PowerLoss, SaveCut
  <2>2. sync' = Nothing /\ posting' = FALSE /\ ack' = "none" /\ inbox' = Abandoned
    BY <2>1 DEF Blackout
  <2>3. \A b \in inbox' : ~b.live
    BY <2>2, AbandonedIsDead DEF ACInv
  <2>4. QED
    BY <2>2, <2>3
<1>3. CASE PostSync
  BY <1>0, <1>3 DEF PostSync, ctlVars
<1>4. CASE SyncAnswered
  BY <1>0, <1>4 DEF SyncAnswered, ctlVars
<1>5. CASE SyncTimesOut
  <2>1. /\ posting' = FALSE /\ ack' = "none" /\ UNCHANGED <<sync, ctl, busy>>
        /\ inbox' = {b \in inbox : ~b.live} \/ inbox' = Abandoned
    BY <1>5 DEF SyncTimesOut, ctlVars
  <2>2. \A b \in inbox' : ~b.live
    BY <2>1, AbandonedIsDead DEF ACInv
  <2>3. QED
    BY <1>0, <2>1, <2>2
<1>6. ASSUME NEW b \in inbox, HandleSync(b) \/ SyncErrs(b)
      PROVE  PostedIsPending'
  <2>1. /\ inbox' = inbox \ {b} /\ UNCHANGED <<sync, posting, ctl, busy>>
        /\ b.live \/ UNCHANGED ack
    BY <1>6 DEF HandleSync, SyncErrs, ctlVars
  <2>2. CASE ~b.live
    BY <1>0, <2>1, <2>2
  <2>3. CASE b.live
    <3>1. posting /\ b.body = ctl
      BY <1>0, <2>3
    <3>2. \A a \in inbox' : ~a.live
      BY <1>0, <2>1, <2>3, SameNotification DEF ACInv
    <3>3. ack' = "ok" => ctl.ver <= row'.ver
      BY <1>0, <1>6, <2>3, <3>1 DEF HandleSync, SyncErrs, Pair
    <3>4. QED
      BY <1>0, <2>1, <3>1, <3>2, <3>3
  <2>4. QED
    BY <2>2, <2>3
<1>7. ASSUME NEW m \in wire, Transmit(m) PROVE PostedIsPending'
  BY <1>0, <1>7 DEF Transmit, Serve, syncVars, djangoVars
<1>8. CASE UNCHANGED <<syncVars, ctl, busy, losses>>
  BY <1>0, <1>8 DEF syncVars
<1>9. QED
  BY <1>1, <1>2, <1>3, <1>4, <1>5, <1>6, <1>7, <1>8, SyncWriters

(* No step drops the notification of a state that Django does not have. *)
LEMMA NewsStep ==
  ASSUME ACInv, [Next]_vars
  PROVE  NewsIsPending'
<1> USE DEF NewsIsPending
<1>0. ACInv /\ NewsIsPending
  BY DEF ACInv
<1>1. CASE Commit
  BY <1>1 DEF Commit
<1>2. CASE PowerLoss \/ SaveCut
  <2>1. losses' # 0
    BY <1>0, <1>2 DEF PowerLoss, SaveCut, Blackout, ACInv, TypeOK
  <2>2. QED
    BY <2>1
<1>3. CASE ~Commit /\ ~PowerLoss /\ ~SaveCut
  <2>1. UNCHANGED <<ctl, log>> /\ UNCHANGED losses
    BY <1>3, ControllerStep, SyncWriters
       DEF PostSync, SyncAnswered, SyncTimesOut, HandleSync, SyncErrs, Transmit,
           Serve, bounds
  <2>2. losses = 0 /\ ctl.ver <= row.ver => row' = Pair(ctl)
    <3> SUFFICES ASSUME losses = 0
                 PROVE  ctl.ver <= row.ver => row' = Pair(ctl)
      OBVIOUS
    <3>1. /\ row' \in log /\ Pair(ctl) \in log /\ row'.ver <= ctl.ver
          /\ row.ver <= row'.ver /\ ~wiped
      BY RowStep DEF ACInv, LogOfController
    <3>2. row.ver \in Nat /\ row'.ver \in Nat /\ ctl.ver \in Nat
      BY TypeStep, ACAssumption DEF ACInv, TypeOK, Pairs, Stored, Versions
    <3>3. ctl.ver <= row.ver => row'.ver = Pair(ctl).ver
      BY <3>1, <3>2 DEF Pair
    <3>4. QED
      BY <3>1, <3>3 DEF ACInv, VersionNamesOneState
  <2>3. row = Pair(ctl) => ctl.ver <= row.ver
    BY ACAssumption DEF ACInv, TypeOK, Stored, Versions, Pair
  <2>4. sync' = sync \/ (SyncAnswered /\ ack = "ok")
    BY <1>3, SyncWriters
       DEF PostSync, SyncAnswered, SyncTimesOut, HandleSync, SyncErrs, Transmit,
           Serve, syncVars
  <2>5. ack = "ok" => ctl.ver <= row.ver
    BY DEF ACInv, PostedIsPending
  <2>6. QED
    BY <1>0, <2>1, <2>2, <2>3, <2>4, <2>5 DEF Pair
<1>4. QED
  BY <1>1, <1>2, <1>3

(* The invariant is inductive. *)
LEMMA Step == ACInv /\ [Next]_vars => ACInv'
BY TypeStep, LogStep, UnitStep, CarriedStep, RowStep, DoneStep, SnapshotStep,
   AskedStep, GrantStep, DoneGrantedStep, PostedStep, NewsStep DEF ACInv

-----------------------------------------------------------------------------
(* Theorems *)

(* Every behaviour keeps the inductive invariant, so that what the two     *)
(* stores, the notifications, the requests and the snapshots carry agrees. *)
THEOREM ACInvariant == Spec => []ACInv
BY InitInv, Step, PTL DEF Spec

(* Every variable of the controller and of Django keeps its type; a        *)
(* version always fits uint32_t (applyPatch).                              *)
THEOREM TypeCorrect == Spec => []TypeOK
BY ACInvariant, PTL DEF ACInv

(* However requests, retries, clients and power losses interleave, a       *)
(* version of the controller names one state (applyPatch), until a power   *)
(* loss within saveState takes the state, and the version, out of flash.   *)
THEOREM VersionsAreUnique == Spec => []VersionNamesOneState
BY ACInvariant, PTL DEF ACInv

(* Django's row is always a state the controller had under that version    *)
(* (set_ac_state, accept_esp32_state_sync), and no newer than the          *)
(* controller's while that one's flash is whole.                           *)
THEOREM RowAlwaysConfirmed == Spec => []RowIsConfirmed
BY ACInvariant, PTL DEF ACInv

(* What a call of set_ac_state saved is never taken back behind it by a    *)
(* late notification or a slower call.                                     *)
THEOREM DoneStaysDone == Spec => []DoneIsKept
BY ACInvariant, PTL DEF ACInv

(* A call of set_ac_state is done only when the state it reports has every *)
(* change it was asked for, whatever conflicts, retries and other clients  *)
(* came between.                                                           *)
THEOREM DoneIsAsAsked == Spec => []DoneAsAsked
BY ACInvariant, PTL DEF ACInv

(* Between two transmissions, unless power was lost in the middle of one,  *)
(* the air conditioner is in the controller's state (applyPatch).          *)
THEOREM UnitObeys == Spec => []UnitFollows
BY ACInvariant, PTL DEF ACInv

(* Where the firmware knows Django's address, and until power is lost,     *)
(* Django has the controller's state or the controller still has the       *)
(* notification of it to deliver (queueACStateSync, serviceACStateSync,    *)
(* accept_esp32_state_sync).                                               *)
THEOREM NoStateIsForgotten == Spec => []NewsIsPending
BY ACInvariant, PTL DEF ACInv

(* A field changes only for a caller who asked for it (set_ac_state).      *)
THEOREM NoLostUpdates == Spec => OnlyAskedChanges
<1> DEFINE Asked == \A f \in Fields :
       ctl.cfg \in Configs /\ ctl'.cfg = ctl.cfg /\ ctl'.state[f] # ctl.state[f] =>
         /\ busy # Nothing
         /\ busy.call # Lan => /\ f \in DOMAIN call[busy.call].patch
                               /\ ctl'.state[f] = call[busy.call].patch[f]
<1>1. ACInv /\ [Next]_vars => Asked
  <2> SUFFICES ASSUME ACInv, [Next]_vars, NEW f \in Fields,
                      ctl.cfg \in Configs, ctl'.cfg = ctl.cfg, ctl'.state[f] # ctl.state[f]
               PROVE  /\ busy # Nothing
                      /\ busy.call # Lan =>
                           /\ f \in DOMAIN call[busy.call].patch
                           /\ ctl'.state[f] = call[busy.call].patch[f]
    OBVIOUS
  <2>1. ~SaveCut
    BY ACAssumption DEF SaveCut
  <2>2. Commit
    BY <2>1, ControllerStep
  <2>3. busy # Nothing /\ ctl'.state = Candidate(busy) /\ ctl'.cfg = busy.cfg
    BY <2>2 DEF Commit
  <2>4. Candidate(busy) = Merge(ctl.state, busy.patch)
    BY <2>3 DEF Candidate
  <2>5. f \in DOMAIN busy.patch /\ ctl'.state[f] = busy.patch[f]
    BY <2>3, <2>4 DEF Merge
  <2>6. QED
    BY <2>3, <2>5 DEF ACInv, RequestsAreAsked, IsAsked
<1>2. ACInv /\ [Next]_vars => [Asked]_vars
  BY <1>1
<1>3. QED
  BY <1>2, ACInvariant, PTL DEF Spec, OnlyAskedChanges

(* Django's row and the controller implement ACReplica: every step of the  *)
(* commands, conflicts and notifications publishes a newer state, follows  *)
(* a published one, damages the controller's store, or does none of it.    *)
THEOREM ImplementsReplica == Spec => ReplicaRefinement
<1>1. Init => Replica!ReplicaInit
  BY DEF Init, Replica!ReplicaInit, Replica!First, First
<1>2. ACInv /\ [Next]_vars => [Replica!ReplicaNext]_<<log, row, wiped>>
  <2> SUFFICES ASSUME ACInv, [Next]_vars
               PROVE  \/ Replica!Publish \/ Replica!Follow \/ Replica!Damage
                      \/ UNCHANGED <<log, row, wiped>>
    BY DEF Replica!ReplicaNext
  <2>1. CASE Commit
    <3>1. log' = log \cup {Pair(ctl')} /\ Pair(ctl') \in Pairs /\ wiped' = wiped
          /\ (~wiped => \A e \in log : e.ver < ctl'.ver)
      BY <2>1, CommitStep
    <3>2. Pair(ctl').state \in States /\ Pair(ctl').ver = ctl'.ver
      BY <3>1 DEF Pairs, Pair
    <3>3. row' = row
      BY <2>1 DEF Commit, djangoVars
    <3>4. QED
      BY <3>1, <3>2, <3>3 DEF Replica!Publish
  <2>2. CASE SaveCut
    <3>1. UNCHANGED <<log, row>>
      BY <2>2 DEF SaveCut, Blackout, djangoVars
    <3>2. wiped' = TRUE \/ wiped' = wiped
      BY <2>2, CutStep DEF ACInv, TypeOK
    <3>3. QED
      BY <3>1, <3>2 DEF Replica!Damage
  <2>3. CASE UNCHANGED <<ctl, log, wiped>>
    BY <2>3, RowStep DEF Replica!Follow
  <2>4. QED
    BY <2>1, <2>2, <2>3, ControllerStep
<1>3. QED
  BY <1>1, <1>2, ACInvariant, PTL
     DEF Spec, ReplicaRefinement, Replica!ReplicaSpec
=============================================================================
