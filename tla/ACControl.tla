----------------------------- MODULE ACControl -----------------------------
(***************************************************************************)
(* The state of one air conditioner, kept twice: by the ESP32 that drives  *)
(* it (ac_controller.cpp, test_esp32.ino) and by Django (ac_control.py).   *)
(* Commands go from set_ac_state to the controller over HTTP, with a       *)
(* version; the controller notifies Django of every new state, with its    *)
(* own retries.  Requests are late, lost, or served after their caller     *)
(* gave up; the controller loses power; both directions cross.             *)
(*                                                                         *)
(* The controller is one loop: it serves one request, or one notification, *)
(* at a time, but it may lose power between the transmission and the save. *)
(* set_ac_state is one deferred SQLite transaction around the exchange:    *)
(* it keeps the snapshot of its first read, and its save is refused when   *)
(* any other transaction has committed in between.                         *)
(***************************************************************************)
EXTENDS Integers, FiniteSets

CONSTANTS
  Calls,       \* calls of set_ac_state
  Fields,      \* the fields of an AC state: power, mode, temperature, ...
  Values,      \* their values
  Default,     \* defaultState()
  Patches,     \* the sets of changes guests, agents and LAN clients ask for
  Configs,     \* brand, protocol and model combinations
  NoConfig,    \* the controller has not been configured yet
  Lan,         \* a client other than Django
  Notifies,    \* is DJANGO_BASE_URL set in the firmware (it ships empty)
  TokenFits,   \* is ESP32_SYNC_TOKEN empty, or the firmware's DJANGO_SYNC_TOKEN
  MaxVersion,  \* UINT32_MAX
  MaxLosses,   \* bound: power losses of the controller
  MaxFaults,   \* bound: failed attempts to notify Django
  MaxOutside   \* bound: commands of other clients, edits of the device in admin

States == [Fields -> Values]

ASSUME ACAssumption ==
  /\ Default \in States
  /\ Patches \subseteq UNION {[F -> Values] : F \in SUBSET Fields}
  /\ NoConfig \notin Configs /\ Lan \notin Calls
  /\ Notifies \in BOOLEAN /\ TokenFits \in BOOLEAN
  /\ MaxVersion \in Nat /\ MaxLosses \in Nat
  /\ MaxFaults \in Nat /\ MaxOutside \in Nat

VARIABLES
  ctl,        \* runtime_ and config_: RAM and flash agree between two requests
  unit,       \* the last state transmitted to the air conditioner
  busy,       \* the request whose transmission is out, its state not saved
  torn,       \* power was lost there, and nothing transmitted since
  wiped,      \* history: a save was cut short, and flash lost the state
  sync,       \* pendingACSyncBody, in RAM
  posting,    \* the loop is blocked in http.POST of the notification
  ack,        \* the answer to it
  inbox,      \* notifications on their way to Django, live or given up
  row,        \* Django's ACState row
  device,     \* Django's RemoteControl row: the configuration
  named,      \* is it the only air conditioner with the controller's DEVICE_NAME
  call,       \* call[c]: the locals of set_ac_state
  reply,      \* reply[c]: the HTTP response to its last request
  overtaken,  \* calls whose snapshot another commit has overtaken
  wire,       \* requests on their way to the controller
  log,        \* history: every [ver, state] the controller has had
  losses, faults, outside

ctlVars    == <<ctl, unit, busy, torn, wiped, log>>
syncVars   == <<sync, posting, ack, inbox>>
djangoVars == <<row, device, named, overtaken>>
callVars   == <<call, reply>>
bounds     == <<losses, faults, outside>>
vars       == <<ctl, unit, busy, torn, wiped, sync, posting, ack, inbox, row,
                device, named, call, reply, overtaken, wire, log, losses, faults,
                outside>>

Nothing   == <<>>
NoPatch   == [f \in {} |-> f]
NoVersion == -1
Pair(x)   == [ver |-> x.ver, state |-> x.state]
First     == [ver |-> 0, state |-> Default]

Idle == [pc |-> "idle", ver |-> 0, cfg |-> NoConfig,
         patch |-> NoPatch, try |-> 0]

Init ==
  /\ ctl = [ver |-> 0, state |-> Default, cfg |-> NoConfig]
  /\ unit = Default /\ busy = Nothing /\ torn = FALSE /\ wiped = FALSE
  /\ sync = Nothing /\ posting = FALSE /\ ack = "none" /\ inbox = {}
  /\ row = First /\ device \in Configs /\ named = TRUE
  /\ call = [c \in Calls |-> Idle]
  /\ reply = [c \in Calls |-> Nothing]
  /\ overtaken = {} /\ wire = {} /\ log = {First}
  /\ losses = 0 /\ faults = 0 /\ outside = 0

Waiting == {c \in Calls : call[c].pc = "waiting"}

-----------------------------------------------------------------------------
(* The controller: handleSetACState and handleGetACState. *)

(* The response to request m; it is lost when its caller has given up.     *)
Answer(m, r) ==
  reply' = IF m.call \in Waiting /\ call[m.call].try = m.try
             THEN [reply EXCEPT ![m.call] = r]
             ELSE reply

Refusal(kind) == [kind |-> kind, ver |-> 0, state |-> Default, cfg |-> NoConfig]
Current(c)    == [kind |-> "ok", ver |-> c.ver, state |-> c.state, cfg |-> c.cfg]

(* The loop is free to serve request m. *)
Serve(m) ==
  /\ m \in wire /\ busy = Nothing /\ ~posting
  /\ wire' = wire \ {m}
  /\ UNCHANGED <<call, syncVars, djangoVars, bounds>>

(* applyPatch accepts the version. *)
Acceptable(m) == m.try # 2 /\ m.ver <= MaxVersion
                   /\ (m.ver = NoVersion \/ m.ver >= ctl.ver)

(* validateAndMerge; another configuration starts from the default state.  *)
Merge(state, patch) ==
  [f \in Fields |-> IF f \in DOMAIN patch THEN patch[f] ELSE state[f]]
Candidate(m) == Merge(IF ctl.cfg = m.cfg THEN ctl.state ELSE Default, m.patch)
Changes(m)   == ctl.cfg # m.cfg \/ Candidate(m) # ctl.state

TakeGet(m) ==
  /\ Serve(m) /\ m.try = 2
  /\ Answer(m, IF ctl.cfg = NoConfig THEN Refusal("error") ELSE Current(ctl))
  /\ UNCHANGED ctlVars

(* 400: the version is no uint32_t.  409: it is older than the state's.    *)
Refuse(m) ==
  /\ Serve(m) /\ m.try # 2 /\ ~Acceptable(m)
  /\ Answer(m, Refusal(IF m.ver > MaxVersion THEN "error" ELSE "older"))
  /\ UNCHANGED ctlVars

(* Success, and nothing is transmitted: the state is the one asked for.    *)
Unchanged(m) ==
  /\ Serve(m) /\ Acceptable(m) /\ ~Changes(m)
  /\ Answer(m, Current(ctl))
  /\ UNCHANGED ctlVars

(* Mutant of ApplyFails: runtime_.state is assigned before sendState. *)
ApplyFailsKeepsState(m) ==
  /\ Serve(m) /\ Acceptable(m) /\ Changes(m)
  /\ Answer(m, Refusal("error"))
  /\ ctl' = [ctl EXCEPT !.state = Candidate(m)]
  /\ UNCHANGED <<unit, busy, torn, wiped, log>>

(* The versions are exhausted, or the protocol library refuses the state.  *)
ApplyFails(m) ==
  /\ Serve(m) /\ Acceptable(m) /\ Changes(m)
  /\ Answer(m, Refusal("error"))
  /\ UNCHANGED ctlVars

(* Mutant of Transmit: without the check for UINT32_MAX. *)
TransmitExhausted(m) ==
  /\ Serve(m) /\ Acceptable(m) /\ Changes(m)
  /\ unit' = Candidate(m) /\ busy' = m /\ torn' = FALSE
  /\ UNCHANGED <<ctl, wiped, log, reply>>

(* sendState: the infrared signal is out, nothing is saved yet. *)
Transmit(m) ==
  /\ Serve(m) /\ Acceptable(m) /\ Changes(m) /\ ctl.ver < MaxVersion
  /\ unit' = Candidate(m) /\ busy' = m /\ torn' = FALSE
  /\ UNCHANGED <<ctl, wiped, log, reply>>

(* Mutant of NewVersion: the requested version is taken as it is. *)
NewVersionRequested(m) == IF m.ver # NoVersion THEN m.ver ELSE ctl.ver + 1

(* The rest of applyPatch: the new version, saveState, the response, and   *)
(* queueACStateSync, which replaces a notification still pending, if the   *)
(* firmware has been told where Django is.                                 *)
NewVersion(m) == IF m.ver > ctl.ver + 1 THEN m.ver ELSE ctl.ver + 1

Commit ==
  /\ busy # Nothing
  /\ ctl' = [ver |-> NewVersion(busy), state |-> Candidate(busy), cfg |-> busy.cfg]
  /\ log' = log \cup {Pair(ctl')}
  /\ sync' = IF Notifies THEN ctl' ELSE sync
  /\ Answer(busy, Current(ctl'))
  /\ busy' = Nothing
  /\ UNCHANGED <<unit, torn, wiped, posting, ack, inbox, call, djangoVars, wire, bounds>>

(* A notification nobody waits for any more. *)
Abandoned == {[b EXCEPT !.live = FALSE] : b \in inbox}

(* Power is lost: RAM, the connections and a pending notification are gone.*)
Blackout ==
  /\ losses < MaxLosses /\ losses' = losses + 1
  /\ torn' = (torn \/ busy # Nothing)
  /\ busy' = Nothing /\ sync' = Nothing /\ posting' = FALSE /\ ack' = "none"
  /\ inbox' = Abandoned
  /\ wire' = {}
  /\ UNCHANGED <<unit, log, djangoVars, callVars, faults, outside>>

(* Flash is not. *)
PowerLoss == Blackout /\ UNCHANGED <<ctl, wiped>>

(* saveState puts brand, protocol, model and state one after the other.    *)
(* Cut short where the configuration changes, it leaves a combination that *)
(* loadState does not support, or another one with the old state, which    *)
(* loadState drops when its temperature is out of the new range; the bytes *)
(* stay in flash, and are the state again after a later cut.               *)
Flash == {First, Pair(ctl)} \cup IF wiped THEN log ELSE {}

SaveCut ==
  /\ busy # Nothing /\ busy.cfg # ctl.cfg
  /\ Blackout
  /\ \/ ctl' = [ver |-> 0, state |-> Default, cfg |-> NoConfig]
     \/ \E e \in Flash, k \in Configs \ {ctl.cfg} :
          ctl' = [ver |-> e.ver, state |-> e.state, cfg |-> k]
  /\ wiped' = (wiped \/ Pair(ctl') # Pair(ctl))

-----------------------------------------------------------------------------
(* serviceACStateSync, and InternalACStateSyncView at the other end.       *)

PostSync ==
  /\ sync # Nothing /\ busy = Nothing /\ ~posting
  /\ posting' = TRUE /\ ack' = "none"
  /\ inbox' = inbox \cup {[body |-> sync, live |-> TRUE]}
  /\ UNCHANGED <<sync, ctlVars, djangoVars, callVars, wire, bounds>>

(* Another transaction commits: every snapshot taken before is overtaken.  *)
Overtake(calls) == overtaken' = overtaken \cup calls

(* InternalACStateSyncView lets a notification pass: the token fits (403    *)
(* otherwise), one air conditioner has its esp32_id (404 or 409), and that *)
(* one has its configuration (400).                                        *)
Welcome(body) == TokenFits /\ named /\ body.cfg = device

(* Mutant of HandleSync: without the comparison of versions. *)
HandleSyncAnyVersion(b) ==
  /\ b \in inbox
  /\ inbox' = inbox \ {b}
  /\ ack' = IF b.live THEN IF Welcome(b.body) THEN "ok" ELSE "bad" ELSE ack
  /\ IF Welcome(b.body)
       THEN row' = Pair(b.body) /\ Overtake(Waiting)
       ELSE UNCHANGED <<row, overtaken>>
  /\ UNCHANGED <<sync, posting, ctlVars, device, named, callVars, wire, bounds>>

(* accept_esp32_state_sync, in one short transaction: 2xx for an older     *)
(* version, too, which changes nothing.                                    *)
HandleSync(b) ==
  /\ b \in inbox
  /\ inbox' = inbox \ {b}
  /\ ack' = IF b.live THEN IF Welcome(b.body) THEN "ok" ELSE "bad" ELSE ack
  /\ IF Welcome(b.body) /\ b.body.ver >= row.ver
       THEN row' = Pair(b.body) /\ Overtake(Waiting)
       ELSE UNCHANGED <<row, overtaken>>
  /\ UNCHANGED <<sync, posting, ctlVars, device, named, callVars, wire, bounds>>

(* Django answers 5xx: it is restarting, or its database is locked. *)
SyncErrs(b) ==
  /\ b \in inbox
  /\ faults < MaxFaults /\ faults' = faults + 1
  /\ inbox' = inbox \ {b}
  /\ ack' = IF b.live THEN "bad" ELSE ack
  /\ UNCHANGED <<sync, posting, ctlVars, djangoVars, callVars, wire, losses, outside>>

(* Mutant of SyncAnswered: any answer ends the notification. *)
SyncAnsweredGivesUp ==
  /\ posting /\ ack # "none"
  /\ sync' = Nothing
  /\ posting' = FALSE /\ ack' = "none"
  /\ UNCHANGED <<inbox, ctlVars, djangoVars, callVars, wire, bounds>>

(* 2xx ends the notification; anything else is tried again 10 s later.     *)
SyncAnswered ==
  /\ posting /\ ack # "none"
  /\ sync' = IF ack = "ok" THEN Nothing ELSE sync
  /\ posting' = FALSE /\ ack' = "none"
  /\ UNCHANGED <<inbox, ctlVars, djangoVars, callVars, wire, bounds>>

(* The POST times out: lost, or only late. *)
SyncTimesOut ==
  /\ posting
  /\ faults < MaxFaults /\ faults' = faults + 1
  /\ posting' = FALSE /\ ack' = "none"
  /\ inbox' \in {{b \in inbox : ~b.live}, Abandoned}
  /\ UNCHANGED <<sync, ctlVars, djangoVars, callVars, wire, losses, outside>>

-----------------------------------------------------------------------------
(* Django: set_ac_state. *)

(* It reads the row, and posts only the changes, under the next version.   *)
Request(c, n, v, patch, cfg) ==
  [call |-> c, try |-> n, ver |-> v, patch |-> patch, cfg |-> cfg]
Posted(v, cfg, patch, n) ==
  [pc |-> "waiting", ver |-> v, cfg |-> cfg, patch |-> patch, try |-> n]

(* Mutant of Begin: every stored field is posted, not the changes only. *)
BeginPostsWholeState(c, patch) ==
  /\ call[c].pc = "idle"
  /\ call' = [call EXCEPT ![c] = Posted(row.ver, device, patch, 1)]
  /\ wire' = wire \cup
       {Request(c, 1, row.ver + 1, Merge(row.state, patch), device)}
  /\ UNCHANGED <<reply, ctlVars, syncVars, djangoVars, bounds>>

Begin(c, patch) ==
  /\ call[c].pc = "idle"
  /\ call' = [call EXCEPT ![c] = Posted(row.ver, device, patch, 1)]
  /\ wire' = wire \cup {Request(c, 1, row.ver + 1, patch, device)}
  /\ UNCHANGED <<reply, ctlVars, syncVars, djangoVars, bounds>>

(* _parse_esp32_response, and the check for stale_response. *)
Confirmed(c) ==
  /\ reply[c] # Nothing
  /\ reply[c].kind = "ok"
  /\ reply[c].cfg = call[c].cfg
  /\ reply[c].ver >= call[c].ver

Ended(c, how) ==
  /\ call' = [call EXCEPT ![c].pc = how]
  /\ UNCHANGED <<ctlVars, syncVars, device, named, wire, bounds>>

(* 409, state_version is older: read the controller's state... *)
Conflict(c) ==
  /\ c \in Waiting /\ call[c].try = 1
  /\ reply[c] # Nothing /\ reply[c].kind = "older"
  /\ call' = [call EXCEPT ![c].try = 2]
  /\ reply' = [reply EXCEPT ![c] = Nothing]
  /\ wire' = wire \cup {Request(c, 2, NoVersion, NoPatch, call[c].cfg)}
  /\ UNCHANGED <<ctlVars, syncVars, djangoVars, bounds>>

(* ...and post the same changes once more, above its version. *)
Retry(c) ==
  /\ c \in Waiting /\ call[c].try = 2 /\ Confirmed(c)
  /\ call' = [call EXCEPT ![c] = Posted(reply[c].ver, @.cfg, @.patch, 3)]
  /\ reply' = [reply EXCEPT ![c] = Nothing]
  /\ wire' = wire \cup {Request(c, 3, reply[c].ver + 1, call[c].patch, call[c].cfg)}
  /\ UNCHANGED <<ctlVars, syncVars, djangoVars, bounds>>

(* Mutant of Finish: the requested state is stored, not the confirmed one. *)
FinishRequested(c) ==
  /\ c \in Waiting /\ call[c].try # 2 /\ Confirmed(c)
  /\ c \notin overtaken
  /\ row' = [ver |-> reply[c].ver, state |-> Merge(row.state, call[c].patch)]
  /\ overtaken' = Waiting \ {c}
  /\ UNCHANGED reply /\ Ended(c, "done")

(* Mutant of Finish: the snapshot and the save are in two transactions. *)
FinishOvertaken(c) ==
  /\ c \in Waiting /\ call[c].try # 2 /\ Confirmed(c)
  /\ row' = Pair(reply[c])
  /\ overtaken' = Waiting \ {c}
  /\ UNCHANGED reply /\ Ended(c, "done")

(* Mutant of Finish: the state read after a conflict counts as confirmed. *)
FinishAfterRead(c) ==
  /\ c \in Waiting /\ Confirmed(c)
  /\ c \notin overtaken
  /\ row' = Pair(reply[c])
  /\ overtaken' = Waiting \ {c}
  /\ UNCHANGED reply /\ Ended(c, "done")

(* state.save() of what the controller confirmed, then the commit. *)
Finish(c) ==
  /\ c \in Waiting /\ call[c].try # 2 /\ Confirmed(c)
  /\ c \notin overtaken
  /\ row' = Pair(reply[c])
  /\ overtaken' = Waiting \ {c}
  /\ UNCHANGED reply /\ Ended(c, "done")

(* state.save() on an overtaken snapshot: database is locked. *)
SaveLocked(c) ==
  /\ c \in overtaken /\ call[c].try # 2 /\ Confirmed(c)
  /\ overtaken' = overtaken \ {c}
  /\ UNCHANGED <<row, reply>> /\ Ended(c, "failed")

(* The response is an error, or is not acceptable. *)
Reject(c) ==
  /\ c \in Waiting /\ reply[c] # Nothing /\ ~Confirmed(c)
  /\ call[c].try # 1 \/ reply[c].kind # "older"
  /\ overtaken' = overtaken \ {c}
  /\ UNCHANGED <<row, reply>> /\ Ended(c, "failed")

(* No response in AC_COMMAND_TIMEOUT_SECONDS; the controller may still     *)
(* serve the request, later.                                               *)
TimeOut(c) ==
  /\ c \in Waiting
  /\ reply' = [reply EXCEPT ![c] = Nothing]
  /\ overtaken' = overtaken \ {c}
  /\ UNCHANGED row /\ Ended(c, "failed")

(* Any other transaction of Django's commits. *)
OtherCommit ==
  /\ Waiting \ overtaken # {} /\ Overtake(Waiting)
  /\ UNCHANGED <<row, device, named, ctlVars, syncVars, callVars, wire, bounds>>

(* An administrator saves another configuration for the device. *)
Reconfigure(cfg) ==
  /\ outside < MaxOutside /\ outside' = outside + 1
  /\ cfg # device /\ device' = cfg /\ Overtake(Waiting)
  /\ UNCHANGED <<row, named, ctlVars, syncVars, callVars, wire, losses, faults>>

(* An administrator renames the device, or gives another one its name, or  *)
(* puts that right.                                                        *)
Rename ==
  /\ outside < MaxOutside /\ outside' = outside + 1
  /\ named' = ~named /\ Overtake(Waiting)
  /\ UNCHANGED <<row, device, ctlVars, syncVars, callVars, wire, losses, faults>>

(* Another client of the controller posts changes, without a version. *)
LanCommand(patch, cfg) ==
  /\ outside < MaxOutside /\ outside' = outside + 1
  /\ wire' = wire \cup {Request(Lan, 1, NoVersion, patch, cfg)}
  /\ UNCHANGED <<ctlVars, syncVars, djangoVars, callVars, losses, faults>>

-----------------------------------------------------------------------------
Controller(m) ==
  \/ TakeGet(m) \/ Refuse(m) \/ Unchanged(m) \/ ApplyFails(m) \/ Transmit(m)

Django(c) ==
  \/ \E patch \in Patches : Begin(c, patch)
  \/ Conflict(c) \/ Retry(c) \/ Finish(c) \/ SaveLocked(c) \/ Reject(c)
  \/ TimeOut(c)

Notify == PostSync \/ SyncAnswered \/ \E b \in inbox : HandleSync(b)

Disturb ==
  \/ PowerLoss \/ SaveCut \/ SyncTimesOut \/ OtherCommit \/ Rename
  \/ \E b \in inbox : SyncErrs(b)
  \/ \E cfg \in Configs : Reconfigure(cfg)
  \/ \E patch \in Patches, cfg \in Configs : LanCommand(patch, cfg)

Next ==
  \/ \E m \in wire : Controller(m)
  \/ Commit
  \/ \E c \in Calls : Django(c)
  \/ Notify
  \/ Disturb

Spec == Init /\ [][Next]_vars

(* The controller's loop comes round, Django's web server answers; nothing *)
(* is assumed of the callers of set_ac_state.                              *)
Fairness ==
  /\ WF_vars(\E m \in wire : Controller(m))
  /\ WF_vars(Commit)
  /\ WF_vars(PostSync) /\ WF_vars(SyncAnswered)
  /\ WF_vars(\E b \in inbox : HandleSync(b))

FairSpec == Spec /\ Fairness

-----------------------------------------------------------------------------
(* Invariants *)

Versions  == 0..MaxVersion
Pairs     == [ver : Versions, state : States]
Stored    == [ver : Versions, state : States, cfg : Configs \cup {NoConfig}]
Responses == [kind : {"ok", "older", "error"}, ver : Versions, state : States,
              cfg : Configs \cup {NoConfig}]
AllPatches == UNION {[F -> Values] : F \in SUBSET Fields}
Requests  == [call : Calls \cup {Lan}, try : 1..3, ver : Nat \cup {NoVersion},
              patch : AllPatches, cfg : Configs \cup {NoConfig}]
Locals    == [pc : {"idle", "waiting", "done", "failed"}, ver : Versions,
              cfg : Configs \cup {NoConfig}, patch : AllPatches, try : 0..3]

(* Every variable has its type: what is stored is a state with a version   *)
(* that fits uint32_t, what travels is a request, a response or a          *)
(* notification (ac_control.py, ac_controller.cpp, test_esp32.ino).        *)
TypeOK ==
  /\ ctl \in Stored /\ unit \in States /\ busy \in Requests \cup {Nothing}
  /\ torn \in BOOLEAN /\ wiped \in BOOLEAN /\ posting \in BOOLEAN
  /\ sync \in Stored \cup {Nothing} /\ ack \in {"none", "ok", "bad"}
  /\ inbox \subseteq [body : Stored, live : BOOLEAN]
  /\ row \in Pairs /\ device \in Configs /\ named \in BOOLEAN
  /\ overtaken \subseteq Waiting
  /\ call \in [Calls -> Locals] /\ reply \in [Calls -> Responses \cup {Nothing}]
  /\ wire \subseteq Requests /\ log \subseteq Pairs
  /\ losses \in 0..MaxLosses /\ faults \in 0..MaxFaults
  /\ outside \in 0..MaxOutside

(* A version names one state of the controller, whatever versions the      *)
(* requests asked for: Django compares versions only, and takes an equal   *)
(* one for the same state (accept_esp32_state_sync, applyPatch).  Only a   *)
(* save that was cut short starts the versions anew.                       *)
VersionNamesOneState ==
  ~wiped => \A d, e \in log : d.ver = e.ver => d = e

(* Django's row is a state the controller really had, under that version,  *)
(* and not newer than the controller's as long as that one's flash is      *)
(* whole: "persist exactly the state confirmed" (set_ac_state,             *)
(* accept_esp32_state_sync).                                               *)
RowIsConfirmed ==
  row \in log /\ (~wiped => row.ver <= ctl.ver)

(* What a call reported as done stays done: a late notification, or a      *)
(* slower call, never takes Django's row back behind it.                   *)
DoneIsKept ==
  \A c \in Calls : call[c].pc = "done" =>
     reply[c] # Nothing /\ reply[c].ver <= row.ver

(* A call is done only when the state it reports is one with every change  *)
(* it was asked for: no answer to another request, and not the state read  *)
(* to resolve a conflict (set_ac_state, handleSetACState).                 *)
Granted(c) ==
  \A f \in DOMAIN call[c].patch : reply[c].state[f] = call[c].patch[f]

DoneAsAsked ==
  \A c \in Calls : call[c].pc = "done" => Granted(c)

(* The air conditioner does what the controller believes it does, between  *)
(* two transmissions: failures, refusals and no-ops of applyPatch leave    *)
(* both alone.  Only a power loss between sendState and the end of         *)
(* saveState parts them, until the next transmission.                      *)
UnitFollows ==
  ~torn /\ busy = Nothing => unit = ctl.state

(* The log, what carries its entries, and the snapshots: what the proofs   *)
(* need beside the above.                                                  *)
LogOfController ==
  /\ First \in log /\ Pair(ctl) \in log
  /\ wiped => losses # 0
  /\ ~wiped => \A e \in log : e.ver <= ctl.ver

CarriedAreLogged ==
  /\ sync # Nothing => Pair(sync) \in log
  /\ \A b \in inbox : Pair(b.body) \in log
  /\ \A c \in Calls : reply[c] # Nothing /\ reply[c].kind = "ok" =>
        Pair(reply[c]) \in log

SnapshotsAreCurrent ==
  \A c \in Waiting \ overtaken : row.ver <= call[c].ver

BusyIsTransmitted ==
  busy # Nothing =>
    /\ ~torn /\ unit = Candidate(busy)
    /\ busy.ver <= MaxVersion /\ ctl.ver < MaxVersion

(* A request posts what its caller was asked for. *)
IsAsked(m) ==
  m.call # Lan =>
    /\ call[m.call].pc # "idle"
    /\ m.try # 2 => m.patch = call[m.call].patch

RequestsAreAsked ==
  /\ \A m \in wire : IsAsked(m)
  /\ busy # Nothing => IsAsked(busy) /\ busy.try # 2

(* A success answers the request that is waited for, unless it was a GET.  *)
RepliesAreAsked ==
  \A c \in Calls :
    /\ call[c].pc = "idle" => reply[c] = Nothing
    /\ reply[c] # Nothing /\ reply[c].kind = "ok" /\ call[c].try # 2 => Granted(c)

(* What the loop posts is what is pending, and is the controller's state;  *)
(* one answer is waited for at most, and a 2xx means that Django's row is  *)
(* not behind.                                                             *)
PostedIsPending ==
  /\ sync # Nothing => Notifies /\ sync = ctl
  /\ posting => sync # Nothing /\ busy = Nothing
  /\ ack # "none" => posting
  /\ \A b \in inbox : b.live => posting /\ ack = "none" /\ b.body = sync
  /\ ack = "ok" => ctl.ver <= row.ver

(* No state is forgotten by a firmware that knows where Django is: until    *)
(* power is lost, Django's row is the controller's state or the            *)
(* notification of that state is pending, whatever timed out, was refused, *)
(* crossed a command or came late (queueACStateSync, serviceACStateSync).  *)
(* Converges rests on it.                                                  *)
NewsIsPending ==
  Notifies /\ losses = 0 => row = Pair(ctl) \/ sync = ctl

(* The inductive invariant of ACProofs: a call that has not been overtaken *)
(* read a row that is still the latest, which is what makes its save safe. *)
ACInv ==
  /\ TypeOK /\ VersionNamesOneState /\ RowIsConfirmed /\ DoneIsKept
  /\ UnitFollows /\ LogOfController /\ CarriedAreLogged
  /\ SnapshotsAreCurrent /\ BusyIsTransmitted /\ RequestsAreAsked
  /\ DoneAsAsked /\ RepliesAreAsked
  /\ PostedIsPending /\ NewsIsPending

-----------------------------------------------------------------------------
(* Properties of steps and of behaviours *)

(* No lost update: a field of the controller changes only in a step that   *)
(* serves a request whose caller asked for that value of that field,       *)
(* however old the caller's view of the other fields was ("Send only the   *)
(* requested changes", set_ac_state).                                      *)
OnlyAskedChanges ==
  [][\A f \in Fields :
       ctl.cfg \in Configs /\ ctl'.cfg = ctl.cfg /\ ctl'.state[f] # ctl.state[f] =>
         /\ busy # Nothing
         /\ busy.call # Lan => /\ f \in DOMAIN call[busy.call].patch
                               /\ ctl'.state[f] = call[busy.call].patch[f]]_vars

(* Django's row follows the controller: ever newer states, none invented.  *)
Replica == INSTANCE ACReplica WITH published <- log, copy <- row, damaged <- wiped
ReplicaRefinement == Replica!ReplicaSpec

(* Whatever became of the calls, Django's row ends up as the controller's  *)
(* state: the notification is repeated until it is taken.  It takes an     *)
(* installation where the firmware has Django's address and token (as      *)
(* shipped it has neither), and ends where Django lets no notification of  *)
(* this controller pass: unknown or ambiguous name, other configuration.   *)
(* A power loss forgets what was pending.                                  *)
Converges ==
  Notifies /\ TokenFits =>
    <>[](losses = 0 /\ named /\ ctl.cfg = device => row = Pair(ctl))

(* README.md, AI room controls: "AC requests send only the fields the      *)
(* guest asked to change, then persist and report the exact state          *)
(* confirmed by the ESP32."                                                *)
ConfirmedIsReported ==
  \A c \in Calls :
     call[c].pc = "failed" /\ call[c].try # 2 => ~Confirmed(c)
=============================================================================
