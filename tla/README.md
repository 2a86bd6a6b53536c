# A TLA+ model of the room kiosk

The repository runs a voice and touch concierge in a hotel room: a Django
application (Daphne, Celery, Redis, SQLite) with a browser interface, which talks
to OpenAI, to a hotel SaaS, to an LG television and to ESP32 controllers that
drive the air conditioner and other infrared devices.  This directory holds
specifications of what happens when its processes, browsers and controllers run at the
same time, fail, restart and time out; the instances TLC checks; and the theorems
TLAPS proves about them for every size.

```
tlc -workers 2 -config Concierge_safety.cfg MCConcierge     # a run
tlapm ConciergeProofs.tla                                    # proofs
```

`PROJECT.json` lists components, runs, the mutants that show that each property can fail, the
source lines each definition stands for, findings, hazards and theorems.

## 1. Inventory

### Processes and what orders them

| process | what runs there | what it shares |
|---|---|---|
| Daphne | HTTP views (a thread per request), WebSocket consumers | SQLite, Redis |
| Celery worker | agent runs, staff forwarding, discovery; one at a time (`--concurrency=1 --pool=solo`, docker-compose.yml:98) | SQLite, Redis |
| Celery beat | posts `sync_remote_ips` periodically | Redis |
| Redis | Celery's queue, the channel layer, Django's cache; no persistence, `allkeys-lru` | |
| browser tabs | voice controller, realtime client, remotes, push to talk | HTTP, WebSocket, WebRTC to OpenAI |
| ESP32 controllers | the AC protocol state, IR sending and capture, their WiFi | HTTP both ways |

Three facts decide what a step of a model is.

* SQLite in WAL mode with deferred transactions: `select_for_update` locks nothing,
  writers are serialised, and a transaction that read before another one committed cannot
  write any more (`database is locked`).  A `transaction.atomic` block that writes is
  therefore one step, unless something slow happens inside of it; without the block
  every statement is a step of its own.
* Celery acknowledges a task when a worker takes it: a crash loses the task, and a Redis
  restart loses the queue; a message that is not confirmed in time is delivered again.
* HTTP callers give up, the served side does not know: a request may be executed after
  its caller has reported a failure.

### Components

| component | state | operations | interacts with | what makes it correct | module |
|---|---|---|---|---|---|
| Concierge requests (`services.py`, `tasks.py`, `core/agent_engine.py`) | USER, ASSISTANT and TOOL rows, audit rows, the Celery queue | enqueue with recovery of stale requests, claim, agent loop, settle, publish | broker, worker, stay reset, agent tools, speech | one request at a time, run once, settled once, answer stored before it is announced, never busy for ever | `Concierge`, `RequestDesk` |
| Realtime sessions (`views.py`, `core/realtime.py`) | `RealtimeSession` rows, transcript rows, TOOL rows | create, expire, close, validate and renew, store a message, reserve and run a tool | OpenAI, several tabs and threads, stay reset | only rows of the current stay, a call executed once and answered unless its thread ends, limit of tools, over is over | `RealtimeSessions`, `ToolLedger` |
| Air-conditioner control (`ac_control.py`, `ac_controller.cpp`, `test_esp32.ino`) | controller RAM and flash, pending notification, Django's `ACState` row | command, conflict and retry, commit, notify, take a notification | HTTP both ways, power losses, administrators, LAN clients | versions name states, Django's row is confirmed, no lost update, convergence | `ACControl`, `ACReplica` |
| Agent tools (`core/tools.py`) | staff requests, remote actions | the tools of the model | both conversations above, remotes, AC | effects only for the current stay | in the two, `RemotePress` and `ACControl` |
| Stay reset (`views.ResetView`) | `current_stay_id` | delete the stay's rows, rotate the id | everything above | nothing of an earlier stay survives or is added | an action of both, and of `RemotePress` |
| Staff forwarding (`core/tools.py`, `tasks.py`, `integrations/saas.py`) | `StaffRequest` rows, the Celery queue | commit, queue, post, retry, record | agent tools, Celery, SaaS | "delivered" is true, nothing is forwarded twice unless something failed or the SaaS answers as it never should, forwarding ends | `StaffForwarding` |
| Remote buttons, TV (`remote_control.py`, `tv_remote.py`, `core/tools.py`) | confirmation tokens, cooldown keys, press audit | ask, confirm, press, record | Redis, ESP32, stay reset, administrators | no unconfirmed press, cooldown, outcomes on record | `RemotePress` |
| Discovery (`device_discovery.py`, `tasks.py`, `views.py`, `admin.py`) | what a scan has found, addresses of remotes | scan, store | administrators' edits, DHCP | every remote comes to have the address of its device | `RemoteSetup` |
| Button configuration (`views.py`, `admin.py`) | remotes, buttons with unique positions and actions | create, edit, delete, save a list through a temporary area | other editors, syncs | constraints hold, swaps do not collide, a stale list changes nothing | `ButtonLayout`, `RemoteSetup` |
| Backend speech (`voice/`, `tts.js`) | chunks, playback queue | synthesise, publish, play, end the turn | channel layer | chunks in order, the turn ends | not modelled |
| WebSocket channel (`consumers.py`, `socket.js`) | group membership | connect, reconnect, receive | stay reset | a socket listens to the current stay | not modelled |
| Browser voice (`voice-controller.js`, `realtime.js`, ...) | session generations, timers | start, recover, time out, stop | OpenAI, the views | a late callback does not touch a newer session | not modelled |
| Push to talk (`push-to-talk.js`, `transcribe.py`) | recorder state | press, record, send | microphone, the views | one recorder at a time | not modelled |
| Host WiFi (`wifi.py`, `network.js`) | NetworkManager profiles | scan, connect, forget | `nmcli` | a failed attempt leaves the working profile | not modelled |
| Controller WiFi (`test_esp32.ino`) | connection state machine | poll, reconnect, portal | the served requests | it always comes back | not modelled |
| Infrared capture (`ir_capture.py`, `test_esp32.ino`) | a capture slot | arm, fill, read | the served requests | a capture is the one asked for | not modelled |
| Models, admin, serializers; prompts; rendering; deployment | declarations, wording, presentation, settings | | | | read, not modelled |

### What is hard here

* **Two writers and an await**: a row is read, something slow happens (OpenAI, the
  ESP32, a tool, a chunk of speech), the row is written.  Meanwhile the stay is reset, a
  recovery runs, a notification arrives.
* **At-most-once delivery with redelivery**: tasks may vanish or come twice.
* **Late answers**: a request whose caller gave up is served; a notification that was
  given up arrives; a worker that was declared stale finishes.
* **Two copies**: the AC state lives in the controller and in Django, and both change; the
  address of a controller lives in the network and in a row.
* **Checked once, used later**: the tool checks a button and `press_remote_button` reads it
  again; a page or a scan holds what the database said when it was loaded.
* **Constraints in the middle**: a save of many rows passes through states that must be
  unique too.
* **Statements outside of transactions**: `_save_message`, the audit rows, the event
  after the commit, the settling of the request.
* **Partial failures**: after the answer is stored and announced; after the IR signal is
  out and before the state is saved.

The hazards in `PROJECT.json` place each at its line, with the properties that
watch it, or why none does.

## 2. Plan

Modules are ordered by what a guest loses when they are wrong.

| # | module | content | state |
|---|---|---|---|
| 1 | `RequestDesk`, `Concierge` | text requests from the message to the settled row, and what the desk promises | modelled, checked, proved |
| 2 | `ToolLedger`, `RealtimeSessions` | sessions, transcripts, tools of speech-to-speech conversations, and what a tool call is promised | modelled, checked, proved |
| 3 | `ACReplica`, `ACControl` | AC state in the controller and in Django | modelled, checked, proved |
| 4 | `StaffForwarding` | commit, queueing, posting, retries, duplicate delivery of requests to the staff | modelled, checked, proved |
| 5 | `RemotePress` | confirmation tokens, cooldown, press and audit, with and without Redis | modelled, checked, proved |
| 6 | `ButtonLayout`, `RemoteSetup` | remotes and their buttons, discovery and every writer of addresses | modelled, checked, proved |

The browser's state machines, the channel, speech, and the WiFi of host and controller came
after these in the plan and are not modelled; section 7 says why.  A composition of
`Concierge` and `RealtimeSessions` under one stay was dropped: they share
`current_stay_id`, the tools and the transcript, which each only gives to a model as text, so that
each with its own `Reset` has the same steps.

Every module keeps to one shape, so that it can be proved about as well as
checked: parameters and bounds are CONSTANTS with a named assumption, one action stands for one
operation or one transaction of it, the invariant is a conjunction of named
parts, and no RECURSIVE operator is declared.  `MC...` gives symmetry and small
data, the `.cfg` files the sizes, `...Proofs` the theorems.

## 3. The modules

Each definition is headed by the name of what it translates; the lines are in
`PROJECT.json` under `map`.  Definitions whose comment starts with "Mutant" or "A mutant"
belong to no specification: each is a plausible bug in the definition that
follows it and shows that a property can fail.

### Concierge

| variable | code |
|---|---|
| `stay`, `stayOf` | `ChaletConfig.current_stay_id`, the stay a request was accepted in; UUIDs are numbered in the order of the resets |
| `status`, `stale`, `rows` | the USER row's status, its age over 180 s, the ASSISTANT and TOOL rows |
| `started`, `completed` | the audit rows AGENT_STARTED and AGENT_COMPLETED |
| `unsent`, `queue` | a committed request whose `delay` call is still to come; messages in Redis |
| `pc`, `job`, `iter`, `calls` | a worker's place in `run_concierge_task` and `run_agent` |
| `published` | terminal events sent to the stay's group |
| `staff`, `faults` | requests that created a `StaffRequest`, in a transaction that compares the stay; the count of faults |

`Enqueue` is the transaction of `enqueue_message`: it recovers earlier requests
(`RecoveredStatus`), refuses when one is still active, and inserts the row.
`SendTask` is the `delay` after the commit.  `TakeMissing`, `TakeSettled`,
`TakeQueued` and `Claim` are the head of `run_concierge_task`; the claim is one
conditional UPDATE.  `Start` to `NextCall` are `run_agent`; `CheckTool`/`CreateTool`
and `CheckAnswer`/`CreateAnswer` are the two statements of `_save_message`.
`Finish`, `Speak` end the task; `Raise` lets any statement of the `try` block
raise, `FailRequest` and `ReportFailure` are the `except` block.  `SendFails`,
`LoseTask`, `Crash` and the second disjunct of `Consume` are the faults.

Two workers are modelled although one is deployed: the code's own claim is there for
redelivery, and a second worker is what redelivery, a restart and a slow predecessor
amount to.  `RequestDesk` says what the guest is promised: one open request,
settled once, erased by a reset.

### RealtimeSessions

`session`, `boundTo`, `overdue` are the row of a session, and the thread creating
it while it has none; `history` remembers which stay's transcript went to OpenAI.  `tools` holds the TOOL rows, `done` once the result replaced the
reservation; `hpc` and `hrow` are the threads serving `RealtimeToolView`; `abandoned` remembers the
rows whose thread has ended without storing a result.

`BuildSession`, `UpstreamAnswers`, `ExpireOverdue`, `DeleteOld` and
`CreateSession` are the steps of `RealtimeSessionView.post`, which has no transaction;
`CloseSession` is the close view; `Valid` and `RefusePost` are
`_validated_realtime_session`; `PostMessage` and `PostTool` are transactions;
`ExecuteTool` runs outside of one, `StoreResult` stores what it returned.  Both may end the thread
instead, since the view catches nothing there: `ToolRaises` is `execute_tool` raising (tools.py:575 gives
`json.dumps` the `ValueError` of a schema's validator), `StoreFails` an UPDATE that is refused
(views.py:950).  `WebCrash` ends all threads.  A row such a thread had reserved answers
"tool_in_progress" until the next reset, and nothing in the code repairs it.  `Reset` is `ResetView.post`, with the rows this
module has.

`ToolLedger` is the promise without sessions, tabs, threads and rows: a call of the model is
reserved in the stay it was made in, executed at most once and only after that, answered at most
once and only after that, and asks the staff for something only while its stay lasts.  It may also never
be answered.
`CallPhase` reads the place of each call of the current stay off its TOOL row.  A call that a reset overtakes
while a thread has it in hand is one of the `Orphans`: its row is gone, `ExecuteTool` still runs, and must
then have no effect; a thread that ends may take it before.

### ACControl

`ctl` is the controller's saved state; between two requests RAM and flash agree,
so one variable stands for both.  `busy` is the one request whose infrared signal is
out and whose state is not saved: the only place where the controller's loop can be cut by a power loss
with more effect than the loss of RAM.  Cut before `saveState` (`PowerLoss`), the controller does not know
what it transmitted (`torn`).  Cut within it (`SaveCut`), it has saved some of brand, protocol, model and
state: an unsupported combination, which `loadState` takes for no configuration, or another supported one
with the old state or, when that state's temperature is out of its range, the default one and version 0; the old bytes
stay in flash, and are the state again after a later cut (`wiped`).  A cut that changes the state alone
is no case of its own, because NVS writes one entry or none.  `sync`, `posting`, `ack` and `inbox`
are the notification: pending body, blocked POST, answer, and what is on its
way, abandoned posts included.  `row` and `device` are Django's rows, and `named`
says whether the device is the only air conditioner with the controller's `DEVICE_NAME`;
`call`, `reply` and `wire` the locals of `set_ac_state`, the responses and the requests
in flight; `overtaken` the calls whose SQLite snapshot is no longer the latest.
`log` records every state the controller has had.

`TakeGet`, `Refuse`, `Unchanged`, `ApplyFails`, `Transmit` and `Commit` are
`handleGetACState`, `handleSetACState` and `applyPatch`; `PostSync`,
`SyncAnswered`, `SyncTimesOut` are `serviceACStateSync`; `HandleSync`,
`SyncErrs` the view at the other end.  The view lets a notification pass (`Welcome`) if its token fits, one air
conditioner has its name and that one has its configuration; otherwise it answers 403, 404, 409 or 400.
`queueACStateSync` returns at once when the firmware has no address of Django's, as shipped
(test_esp32.ino:69).  The constants `Notifies` and `TokenFits` are these two settings of an installation, and
the theorems hold for all values of both.  `Begin` to `TimeOut` are `set_ac_state`
with its one retry after a conflict.  `OtherCommit`, `Reconfigure`, `Rename` and
`LanCommand` stand for every other transaction, the administrator who edits a configuration or a name, and other
clients of the controller.  Versions are integers up to `MaxVersion`, which stands for
UINT32_MAX; a request above it is refused as the code refuses it.

`set_ac_state` reads the row, exchanges with the controller and saves in one deferred
transaction.  The consequence is modelled in both directions: the save of an
overtaken call is refused (`SaveLocked`), and a call that is not overtaken saves over the
row it read (`SnapshotsAreCurrent`, the heart of the proof).

`ACReplica` says what the two stores promise together: the controller publishes states
under ever larger versions, Django's copy is always one of them and never goes back.  A controller whose flash was
`damaged` may start its versions anew; the copy still follows only what was published, and versions that grow.

### StaffForwarding

`row` is `delivery_status`; `sending` follows `enqueue_forwarding`, which runs after the
commit of `_staff_request_local`; `tasks` counts the copies of each task message in
Redis, a retry being another message; `work` is what an execution of
`forward_staff_request_task` has in hand; `taken` is the SaaS's side: how often it
has taken the request; `odd` remembers the requests that got an answer no SaaS should give.

`RequestStaff`, `QueueTask`, `QueueRefused` and `MarkUnqueued` are the tool;
`Take` reads the row and the configuration; `SaasTakes` and `SaasRefuses` are the
exchange with the SaaS; `Save` records its outcome (`Recorded`) over whatever the row says by
now, and queues a retry (`Again`) after an error, not after a delivery or a 4xx.  `Raise`
is any other exception, which `autoretry_for` retries as well.  `SaasTakes` with a lost
answer, a repeated `Deliver`, `QueueRefused`, `LoseTask`, `Raise`, `Crash` and `AskerDies` are
the faults.  A SaaS that refuses or is out of reach is not a fault: that is what the
retries are for.

Two answers trip the code without a fault of ours, any number of times.  `SaasRedirects`: `follow_redirects`
(saas.py:111) turns the POST into a GET after 301, 302 or 303, whose 2xx is recorded as delivered although
nobody took the request.  `SaasBabbles`: the SaaS takes the request and answers 2xx with JSON that is no object;
`response.get` (tasks.py:261) raises before anything is saved, and the request is posted again until the
retries are used up, its row still "queued".  What is said of deliveries excepts these requests; that forwarding ends does not.

With faults a request may reach the staff twice, and a late execution may
write "failed" over "delivered"; nothing in the code prevents it.  What holds then is that
"delivered" is never said of a request the SaaS did not take, and
that forwarding ends.

### RemotePress

| variable | code |
|---|---|
| `stay`, `turns` | `current_stay_id`; the stay in which each request id of a guest began |
| `row` | a remote and one button of it: type, active and configured, `voice_enabled`, `guest_visible`, `requires_confirmation` |
| `tokens` | the signed confirmation tokens that tools have returned |
| `cool` | when the cooldown key of the button expires in Redis |
| `call`, `audit` | how far each execution of a tool or a view is; what it wrote to `KioskAuditLog` |
| `now`, `lapsed` | time in half seconds; whether Redis has failed |

`AskConfirmation` and `ToolChecks` are the two outcomes of `_press_remote_button_tool` before it
calls `press_remote_button`, which reads the row again and asks for the cooldown (`VoicePress`,
`VoiceRefused`); `ButtonPress` is the kiosk's view and the admin's test, which come to
`press_remote_button` at once.  `DeviceTool` is `_control_lg_tv` and `_set_air_conditioner`,
`DeviceView` the views of televisions and air conditioners.  `Reply` is the one request and
whatever becomes of it, `Record` the audit log.  Around them turns begin, the stay is reset, an
administrator edits the row, time passes, and Redis loses its keys.

The voice agent is an adversary here: in a turn it may use any token it was given in that turn
or in an earlier one, since `_load_context` and the realtime session show it the
conversation.  What the code then promises is `PressWasAsked`: an earlier turn of the same stay was
told to ask.  It does not promise that a token is used once, nor that the guest
said yes, and neither is claimed.  Presses at the kiosk and in the admin need no token on the server.

Three things the code does that a reader may not expect are in the model as they are:
`ex=max(1, int(seconds))` makes the 1.5 s of .env.example:49 one second (`Ttl`); a 2xx answer of
unknown shape counts as a success for a button and as a failure for a television or an air
conditioner (`Succeeded`); and the views of televisions and air conditioners write no log (`HasLog`).

A fourth contradicts a document.  README.md:74-75 says "Remote and AC outcomes are written to the kiosk audit
log"; a button's 2xx reply of `[]`, `null` or a number passes `_parse_controller_payload`, and
`payload.get("target")` (remote_control.py:269) raises before the log, outside of every handler.  The reply
"exception" of `Reply` is this one, and any error of an air conditioner that is no `ACControlError`: the
command may have been carried out, and no row says so.  `OutcomeOnRecord` excepts exactly these calls.

### ButtonLayout, RemoteSetup

`ButtonLayout` is about one save: `Halfway` is the table after some of its statements, and
`NeverClashes` says that no statement meets a row with its key or position, whatever the order of
the rows.  The update of all rows is one statement, but SQLite checks its constraints row by row,
which is why its halfway states are among them.

| variable | code |
|---|---|
| `at` | the address DHCP gave each controller, or none |
| `remote` | `device_type`, `device_name`, `device_ip`, `controller_url` of each `RemoteControl` |
| `layout` | the key, row and column of its buttons |
| `shown` | the lists of buttons with which pages were loaded, at any time |
| `job` | a thread that scans: why, for which remotes, what it has probed and found |

`CreateRemote`, `AddFromTemplate`, `AdminSave`, `PutButton`, `DeleteButton` and `DeleteRemote` are the
forms of the page and of the admin; `Save` is `button_config_save_view`, from a page of any age.
`BeginSync` and `StoreAll` are `sync_remote_ips` (the worker's task and the kiosk's button) and, for the
selected remotes only, `sync_device_ips` of the admin, which treat a remote alike (`Synced`);
`BeginPageSync` and `StoreOne` are `button_config_sync_ip_view`, which saves the name first, and
after the scan writes the address for that name, and the type and URL it had read before.  `Probe` is one
address; controllers move between the probes, so that one may be found twice, or not at all.

A device is known by a name, which may be shared: two controllers of one name leave the
address as it is.  A controller that is off keeps its remote's address, and another device may have
it by then.  Both are what the code does, and `AddressesSettle` is therefore about a remote to whose name one
controller answers.

## 4. The runs

Bounds are in the `.cfg` files.  What each run adds:

| run | instance | what it shows |
|---|---|---|
| `concierge_safety` | 2 requests, 2 workers, 2 stays, 2 iterations, 1 tool call, 1 retry, 1 fault | all safety and action properties, the inductive invariant, the refinement of `RequestDesk` |
| `concierge_settles` | 2 requests, 1 worker, 2 stays, 2 iterations, 2 calls, 1 retry, 1 fault, fair | busy always ends, whatever is lost; without a fault every request settles by its own run, exceptions included |
| `concierge_two_events` | 1 request, 1 stay | finding: two terminal events |
| `concierge_reset` | 1 request, 2 stays | finding: a row of a past stay |
| `realtime_safety` | 2 sessions, threads, requests and calls, limit 1, 3 stays, 2 failures (threads that raise, crashes) | all safety and action properties, the inductive invariant, the refinement of `ToolLedger` |
| `realtime_history` | one of each, 2 stays | finding: the memory of another stay |
| `ac_safety` | 2 calls, 1 outside event (edit, rename or LAN command), 2 configurations, 2 fields of 2 values, versions to 3, 1 power loss, also within a save | all safety and action properties, that a command reported as done was carried out as asked, the refinement of `ACReplica` |
| `ac_follows` | 1 call, 2 configurations, versions to 2, 1 loss, 1 fault, 2 outside events, fair | the inductive invariant with administrators, LAN clients, failing notifications and exhausted versions; with `Notifies` and `TokenFits`, and without a power loss, Django's row ends as the controller's state |
| `ac_reported` | 2 calls, firmware as shipped (`Notifies` FALSE) | finding: a confirmed command reported as failed |
| `staff_forwarding` | 2 requests, 2 executions, 1 retry, 2 faults, fair | the invariant and its properties; without a fault or an odd answer every request leaves "queued"; forwarding ends whatever happens |
| `remote_press` | 2 calls, 1 device, 2 turns, 2 stays, 1 token, 1 edit, 1 fault, times 0 to 2, a token's age 1, a cooldown of 3 half seconds | the invariant and its properties |
| `remote_setup` | 1 remote, 2 controllers of one name, 2 addresses, 2 threads, 2 buttons and 3 lists, 2 edits, 1 fault, fair | the invariant, saves that never collide, stores that reach their remotes (`SyncsReach`) and addresses that settle and stay (`SettledStays`, `AddressesSettle`) |

Why these bounds are enough.  The hazards are races of two: two requests, two
workers on one task, two threads on one call, a worker and a reset.  Two of each reach
all of them.  A retry of the AC is overtaken twice, by the other command and by the client on the LAN.  One fault suffices for the paths that handle faults, since no
property counts them and each fault is possible at every point; `staff_forwarding`
allows two, so that a duplicate can meet a lost answer, and one retry, the second being like the first;
`realtime_safety` allows two, so that one thread can raise and another end with the process.  That run
explores states that differ only in `history` once (VIEW `NoHistory`): no action reads that
variable, and no property of the run but its type, which every step keeps.  Two
stays give "this one" and "the one before"; `realtime_safety` has three, because
a session can be bound to one, be built from another and be posted to in a third.
`MaxVersion` 3 lets a version be skipped and exhausted.  The three patches of the AC change one field
each: concurrent commands for different fields and for the same field both occur.
`remote_press` has the two calls that a cooldown and a confirmation are about, and the times before, at and
after the expiry of a token and of a key.  In `remote_setup` the second thread is whatever overtakes the
beat's scan; the two controllers, of which one serves televisions and the other air
conditioners, are found together, one after the other at one address, or alone; the lists are one button, two,
and the two exchanged.  One fault is a move, a missed probe or a refused transaction.  Remotes meet only in the
constraint on the names of air conditioners, which is why one suffices.
Deadlock is not checked: requests, calls and stays are finitely many, so every
behaviour may stop.

### Fairness

* `Concierge!Fairness`: the web process sends what it committed; a live worker
  takes messages and goes on, because every call it makes (OpenAI, Redis, SQLite)
  has a timeout; time passes.  No guest is assumed to write or to reset, no fault
  to happen.  `EveryRequestSettles` is checked in behaviours with and without a
  later message whose recovery would settle the request; those without show that its
  own run does.
* `ACControl!Fairness`: the controller's loop comes round, its requests are served, and
  Django's web server answers a notification.  `Converges` also supposes an installation in which the firmware
  has Django's address and token, which are settings and no fairness.  Nothing is assumed of the callers.
* `StaffForwarding!Fairness`: the process that called the tool goes on after its commit, a
  live worker takes tasks, and posts and saves end (`saas_timeout_seconds`, SQLite's busy
  timeout).  The SaaS is not assumed to accept anything.

* `RemoteSetup!Fairness`: Celery beat posts the sync again and again (settings.py:104), the worker takes it, every
  probe has a timeout, and the transaction is committed when no other one interferes.  Nobody else, no other sync
  included, is assumed to do anything, and faults are finitely many.

All are weak fairness: none of these steps needs to win a race against others that
may disable it for ever, with one exception that is met by the bounds in the model
and by the code's timeouts in reality, the failures of a notification (`MaxFaults`):
convergence is promised only when the attempts do not fail for ever.

## 5. Findings

Each is a run that TLC must find violated; the quoted document is in `PROJECT.json`.

* **Two terminal events** (`OneTerminalEvent`): publishing a voice event, or the audit row, fails after
  `complete` was published, and the `except` block publishes `error`.  `synthesize_mp3` handles its own errors.
* **Reset leaves a row** (`ResetErasesStay`): `_save_message` compares the stay
  and inserts in two statements; a reset fits between them.
* **Memory of another stay** (`HistoryIsOwnStay`): `RealtimeSessionView` reads
  the configuration again after OpenAI answered.
* **Confirmed and reported failed** (`ConfirmedIsReported`): any other commit
  during the exchange with the ESP32 makes the save of a confirmed state fail.

## 6. Proofs

`ConciergeProofs`, `RealtimeProofs`, `ACProofs`, `StaffProofs`, `PressProofs` and `SetupProofs` prove the properties for every
value of the constants that meets the module's assumption (`ConciergeAssumption`,
`RealtimeAssumption`, `ACAssumption`, `StaffAssumption`, `PressAssumption`, `LayoutAssumption`, `SetupAssumption`: sizes are naturals, the distinguished values
are not members of the sets they are distinguished from).  No set is
assumed finite, apart from what the type invariant of `RealtimeSessions` says of its rows.

Each module has one inductive invariant: the properties, and what they need beside
them, the types included.  TLC checks the invariant itself in `concierge_safety`,
`realtime_safety`, `ac_follows`, `staff_forwarding`, `remote_press` and `remote_setup`.

* `ConciergeInv` adds `InFlightIsAccepted` (messages, workers and rows belong to accepted
  requests, rows with a status to the current stay), `ClaimIsFinal` (a claimed request is
  never queued again, which is what makes a redelivered task harmless),
  `AnswerIsKept` (a worker past the answer has stored it, unless its stay is
  over) and `CompletedIsAnswered`.  `AtMostOneActive` alone is not inductive: it needs to know
  that no worker revives a settled request.
* `RealtimeInv` adds `NothingFromTheFuture` and `OneHandlerPerCall`: a reserved
  call is in the hands of at most one thread, which has not executed it, and stays reserved
  while its stay lasts.  `ToolRunsOnce` follows from it, and so does that a row waiting for its
  result is in the hands of the thread that reserved it, or that thread has ended (`ReservationIsHeld`).
  `AnsweredWasExecuted` and `InHandIsStored` (a thread holds the row it reserved, or its stay is over) are there
  for the refinement: they tell in which phase of the ledger a step finds the call.
* `ACInv` adds `LogOfController` (versions grow, until a save is cut), `CarriedAreLogged` (replies and notifications carry states
  the controller had), `SnapshotsAreCurrent` (a call that was not
  overtaken read the latest row), `BusyIsTransmitted` and `RequestsAreAsked`.
  `SnapshotsAreCurrent` and the check for a stale response give that `Finish` never
  takes the row back.  `RepliesAreAsked` says that a successful reply carries what its caller asked for,
  unless the caller asked to read; a conflict, which carries somebody else's
  state, is never one.  `DoneAsAsked` follows for the caller that finishes, retry included.
* `StaffInv` adds `StoredFirst`, `AcceptedWasTaken` (an execution that saves "accepted" has
  been answered so) and `InOnePlace`: while nothing has failed, a request is due, queued once, or
  held by one execution, and has not been taken before an execution holds the answer.
  Requests with an odd answer are excepted from what is said of `taken`, not from being in one place.
  Without `InOnePlace` a second copy of a task could post what was taken, and
  `RowIsRight` is not inductive.
* `PressInv` adds `TokensRight` (a token belongs to a turn that has begun, and to its stay), `CallsRight`, and
  `KeysHeld`: a press that was let through holds its button's key until the key expires.  `CooldownHolds`
  follows for a new press because every earlier one of the button has let its key expire; alone
  it says nothing about the key that decides.
* `SetupInv` is inductive as it stands: a page's list is compared with the buttons inside the transaction
  (`Current`), so that a save covers every row that exists.  `SaveNeverCollides` is about one save: rows are moved by at least
  `Gap`, so a moved row is beyond every plain one, and temporary keys differ from each other and from plain keys.  With
  the invariant it gives `SwapsNeverCollide`.  The assumption `Plain` is needed: a button somebody keyed
  `temporary-7`, or placed in row 1000, can make a save fail, which changes nothing.

The properties under fairness are out of the provers' reach, but not the safety they rest on: that
something which still has to happen is never lost, that it comes nearer with every step, and that
nothing undoes it.  These theorems need no fairness, which only says that the steps are taken; each
is about behaviours without the faults that the property excludes.

* Beside `EveryRequestSettles`: `NobodyIsForgotten` proves `NoneIsStranded`, a part of `ConciergeInv`:
  without a fault an active request is still to be sent, or in a message of the queue, or carried by a worker
  that has not let go of it.  `RunsAreBounded` proves that the worker comes to its end.  `Fuel` of a worker is
  `Iteration` for each iteration of the loop it may still begin, and the rank of its place within one; `LoopInv` relates
  the counters of the loop to the place.  Every step of the worker burns fuel, no step of others gives it any, and a
  worker without fuel is idle.
* Beside `ForwardingEnds` and `EveryRequestForwarded`: `ForwardingIsFinite`.  `Within(r, n)` bounds what is left of
  request `r`, wherever it is: due, queued as some attempt, or held at some step.  Every step without a fault brings
  one request nearer and leaves the others.  That a request is in one place only (`InOnePlace`) is what makes the
  bound one of the request rather than of each of its copies.
* Beside `Converges`: `NoStateIsForgotten` proves `NewsIsPending`, a part of `ACInv`: where the firmware knows Django's
  address (`Notifies`), and unless power was lost, Django's row
  is the controller's state or the controller still has that state to notify.  It needs `PostedIsPending`: an answer on
  its way, or a notification that is not abandoned, is about what is pending, so that an old acknowledgement cannot clear a newer state.
* Beside `AddressesSettle`: `ScansFindWhatIsSo`, `SyncsReachRemotes` and `SettledRemotesStay` prove the three
  steps it is made of, the action properties `ScansAreAccurate`, `SyncsReach` and `SettledStays` of `RemoteSetup`.
  They are proved for every size; `remote_setup` checks the last two and `AddressesSettle` itself.
  The last one needs `Trusted` of every scan under way: a page's sync stores under the name and type it read before its scan.

| theorem | establishes |
|---|---|
| `ConciergeInvariant`, `TypeCorrect` | the invariant and the types |
| `OneRequestAtATime`, `AgentRunsOnce`, `CompleteIsAnswered`, `AnnouncedAnswersAreStored` | `AtMostOneActive`, `RunOnce`, `CompleteMeansAnswered`, `AnnouncedIsStored` |
| `SettledStaysSettled`, `RecoveryRespectsAnswers` | the action properties |
| `ConciergeImplementsDesk` | every step is a step of `RequestDesk` or a stutter, under `DeskPhase` |
| `RunsAreBounded` | a run takes at most `(3 * MaxCalls + 1) * MaxIterations + 10` steps, whatever the model answers |
| `NobodyIsForgotten` | without a fault no active request is in nobody's hands |
| `RealtimeInvariant`, `NoRowOfAnEarlierStay`, `CallsExecuteOnce`, `LimitHolds`, `ReservationsAreHeld` | the invariant and its properties |
| `OverStaysOver`, `ResultsAreFinal` | the action properties |
| `ImplementsLedger` | every step is a step of `ToolLedger` or a stutter, under `CallPhase` and `Orphans` |
| `ACInvariant`, `TypeCorrect`, `VersionsAreUnique`, `RowAlwaysConfirmed`, `DoneStaysDone`, `UnitObeys` | the invariant and its properties |
| `NoLostUpdates` | the action property `OnlyAskedChanges` |
| `DoneIsAsAsked` | a command that ended as done was carried out as asked |
| `ImplementsReplica` | every step is a step of `ACReplica` or a stutter |
| `NoStateIsForgotten` | with `Notifies` and without a power loss Django's row is the controller's state, or that state is still to be notified |
| `StaffInvariant`, `DeliveredIsTrue`, `RowsAreRight` | the invariant and its properties |
| `DeliveriesAreKept` | without a fault no execution takes a recorded delivery back |
| `ForwardingIsFinite` | without a fault a request is settled after `3 * MaxRetries + 5` steps of it, in any order, whatever the SaaS answers, oddly included |
| `PressInvariant`, `PressesWereAsked`, `CooldownsHold`, `OutcomesOnRecord` | the invariant and its properties |
| `SetupInvariant`, `SwapsNeverCollide` | the invariant; no save of a page ever collides |
| `SaveNeverCollides` | the same of one save, whatever the layout |
| `ScansFindWhatIsSo` | a scan that misses nothing finds what is so, whatever else is scanned or edited |
| `SyncsReachRemotes` | storing it gives each of its remotes the address of the one controller of its name |
| `SettledRemotesStay` | no further scan or store takes that address away |

Only model-checked: everything under fairness (`NeverBusyForever`,
`EveryRequestSettles`, `Converges`, `EveryRequestForwarded`, `ForwardingEnds`, `AddressesSettle`), since the
prover handles neither liveness under fairness nor ENABLED; the safety above is what is proved of all but the first.
There is no recursive
definition in these modules, hence no induction over data.

## 7. What is not modelled

* Concierge: the wording of prompts, answers and events; rate limits and permissions; the
  content of tool results (a tool either creates a staff request or leaves no row this module
  has); an event that is published and not received.  A failing `except` block ends the task with the row active,
  which is what `Crash` does.  A queued request that the recovery fails gets no
  terminal event: that follows from `Enqueue` and `TakeSettled`, which publish nothing,
  and is listed among the hazards.
* Realtime: the length of the time to live (it may pass at any moment while
  the session is active); the WebRTC connection; sessions of a process that died
  before the row exists leave nothing, so their id is used again.
* AC: a flash that is erased or corrupt for other reasons than a power loss within `saveState`; which ACs share a
  `DEVICE_NAME` (a flag says that they do); the token's value (a flag says that it fits); the editing
  of the row in the admin pages, the creation of the row by its first reader, the infrared encoding and
  whether the unit received the signal.
* Staff forwarding: the count `delivery_attempts`, external references and error texts; the
  two sources of the configuration (environment and row) are one choice of whether forwarding
  is switched on; the delay before a retry, which may be any.
* Remote presses: pulse timings, endpoints and error texts (a button is ready or not); who may open a
  page.  A button's request is one request: what the controller does with it is not seen.
* Remote setup: labels, icons, IR data and options of an AC; a button's `command_url`, which only counts
  while its remote has no address (`target_command_url`); a button that the admin moves to another remote; the slug of a remote.  A transaction is a
  step; one that SQLite refuses changes nothing.  Scans give up as a whole or miss single controllers; which
  interface they use is left out.
* The browser (`voice-controller.js`, `realtime.js`, `push-to-talk.js`, `tts.js`, `socket.js`): its
  behaviour is an interplay of timers with the callbacks of WebRTC, audio and
  recorder objects whose order the browser decides and the repository does not state.  What it asks of the server is in
  `Concierge`, `RealtimeSessions` and `RemotePress`, where every request may come at any time, twice, or never.
* `consumers.py` joins and leaves a group; the gap between reading the stay and joining its
  group is listed among the hazards.
* `voice/`: the chunks of one answer are synthesised concurrently and each carries its index; the order is
  restored in the browser.
* `wifi.py` and `serviceWiFi`: sequences of calls to NetworkManager and to the radio's library,
  whose effects are theirs.  `ir_capture.py`: one slot, one administrator.
* What only declares, words, renders or deploys.
