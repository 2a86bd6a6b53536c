----------------------------- MODULE RemotePress -----------------------------
(***************************************************************************)
(* How a command reaches a device: the tools of the voice agent            *)
(* (core/tools.py), the buttons of the kiosk and of the admin (views.py,   *)
(* admin.py), and the code they share (remote_control.py, tv_remote.py).   *)
(*                                                                         *)
(* A call runs in a thread of its own: it checks, waits for the controller *)
(* and writes the audit log, and between these steps the stay may be       *)
(* reset, an administrator may edit the remote, and other calls run.  A    *)
(* call that returns before it sends anything changes nothing and has no   *)
(* action.  Time is counted in half seconds.                               *)
(*                                                                         *)
(* The model of the voice agent may pass any token that it, or an earlier  *)
(* turn of the conversation, was given: tokens are signed, and a turn      *)
(* starts with the messages of the turns before it.                        *)
(***************************************************************************)
EXTENDS Integers, Sequences, FiniteSets

CONSTANTS
  Calls,       \* executions of a tool or of a view
  Devices,     \* remotes, each with the one button that is looked at
  Rows,        \* what a remote and its button may be: some of Row
  MaxAge,      \* REMOTE_CONFIRMATION_MAX_AGE_SECONDS
  Configured,  \* REMOTE_BUTTON_COOLDOWN_SECONDS
  MaxTime, MaxTurns, MaxStays, MaxTokens, MaxEdits, MaxFaults   \* bounds

(* ready: active, and a button also configured, with a valid command. *)
Row == [type : {"raw", "lg_tv", "ac"}, ready : BOOLEAN, voice : BOOLEAN,
        guest : BOOLEAN, confirm : BOOLEAN]

ASSUME PressAssumption ==
  /\ Rows \subseteq Row
  /\ MaxAge \in Nat /\ Configured \in Nat /\ MaxTime \in Nat
  /\ MaxTurns \in Nat /\ MaxStays \in Nat \ {0} /\ MaxTokens \in Nat
  /\ MaxEdits \in Nat /\ MaxFaults \in Nat

VARIABLES
  stay,     \* ChaletConfig.current_stay_id
  turns,    \* turns[r]: the stay in which turn (request) r of a guest began
  row,      \* row[d]: the remote and its button in the database
  tokens,   \* confirmation tokens given to the voice agent
  cool,     \* cool[d]: when the key of the button's cooldown expires in Redis
  call,     \* call[c]: how far call c is
  audit,    \* audit[c]: what call c wrote to KioskAuditLog
  now, lapsed, edits, faults   \* time; has Redis failed; counts

vars == <<stay, turns, row, tokens, cool, call, audit, now, lapsed, edits, faults>>

Turn  == 1..Len(turns)
Token == [dev : Devices, stay : Nat, turn : Nat, at : Nat]
Idle  == [step |-> "idle"]
Replies == {"ok", "unknown", "error", "exception"}
         \* unknown: a 2xx reply that is no JSON, or an object without a verdict;
         \* error: also a timeout, no connection; exception: an error nobody handles
Call  == [tool : {"press", "tv", "ac"}, source : {"voice", "screen"},
          dev : Devices, turn : Nat,   \* 0: no guest's turn asked
          marked : BOOLEAN,   \* did the tool see requires_confirmation
          asked : Nat,        \* when it did, if it did
          at : Nat,           \* when the cooldown let the press through
          step : {"checked", "posting", "answered", "done"},
          reply : Replies \cup {"none"}]

Init ==
  /\ stay = 1 /\ turns = <<>>
  /\ row \in [Devices -> Rows]
  /\ tokens = {}
  /\ cool = [d \in Devices |-> 0]
  /\ call = [c \in Calls |-> Idle]
  /\ audit = [c \in Calls |-> <<>>]
  /\ now = 0 /\ lapsed = FALSE /\ edits = 0 /\ faults = 0

Fault == faults < MaxFaults /\ faults' = faults + 1

-----------------------------------------------------------------------------
(* What surrounds the calls *)

(* A guest speaks or types: later calls for this turn carry its id. *)
BeginTurn ==
  /\ Len(turns) < MaxTurns
  /\ turns' = Append(turns, stay)
  /\ UNCHANGED <<stay, row, tokens, cool, call, audit, now, lapsed, edits, faults>>

(* ResetView: the next guest's stay. *)
ResetStay ==
  /\ stay < MaxStays
  /\ stay' = stay + 1
  /\ UNCHANGED <<turns, row, tokens, cool, call, audit, now, lapsed, edits, faults>>

(* An administrator saves the form of a remote or of its button. *)
EditRow(d) ==
  /\ edits < MaxEdits
  /\ edits' = edits + 1
  /\ \E new \in Rows : row' = [row EXCEPT ![d] = new]
  /\ UNCHANGED <<stay, turns, tokens, cool, call, audit, now, lapsed, faults>>

Tick ==
  /\ now < MaxTime
  /\ now' = now + 1
  /\ UNCHANGED <<stay, turns, row, tokens, cool, call, audit, lapsed, edits, faults>>

(* Redis restarts without its keys. *)
FlushRedis ==
  /\ Fault
  /\ cool' = [d \in Devices |-> 0]
  /\ lapsed' = TRUE
  /\ UNCHANGED <<stay, turns, row, tokens, call, audit, now, edits>>

-----------------------------------------------------------------------------
(* remote_control.py *)

(* _load_pressable_button *)
Pressable(d, source) == row[d].ready /\ (source = "voice" => row[d].voice)

AtLeast(a, b) == IF a >= b THEN a ELSE b

(* ex=max(1, int(seconds)): whole seconds, and at least one. *)
Ttl == IF Configured = 0 THEN 0 ELSE AtLeast(2, 2 * (Configured \div 2))

(* Mutant of CheckCooldown: the key is read but not written. *)
CheckCooldownReadOnly(d) == now >= cool[d] /\ UNCHANGED <<cool, lapsed, faults>>

(* _check_cooldown: SET NX EX, and no cooldown at all when Redis fails. *)
CheckCooldown(d) ==
  \/ /\ Configured = 0
     /\ UNCHANGED <<cool, lapsed, faults>>
  \/ /\ Configured > 0 /\ now >= cool[d]
     /\ cool' = [cool EXCEPT ![d] = now + Ttl]
     /\ UNCHANGED <<lapsed, faults>>
  \/ /\ Configured > 0 /\ Fault
     /\ lapsed' = TRUE /\ UNCHANGED cool

(* press_remote_button up to the request: the row is read again, whatever    *)
(* the tool has seen.                                                        *)
Press(c, with) ==
  /\ Pressable(with.dev, with.source)
  /\ CheckCooldown(with.dev)
  /\ call' = [call EXCEPT ![c] = [with EXCEPT !.step = "posting", !.at = now]]
  /\ UNCHANGED <<stay, turns, row, tokens, audit, now, edits>>

NewCall(tool, source, d, r) ==
  [tool |-> tool, source |-> source, dev |-> d, turn |-> r,
   marked |-> FALSE, asked |-> 0, at |-> 0,
   step |-> "posting", reply |-> "none"]

(* RemoteButtonPressView and test_button_view: the kiosk and the admin.  They *)
(* ask for a confirmation in the browser, or not at all.                      *)
ButtonPress(c, d, source) ==
  /\ call[c] = Idle
  /\ source = "kiosk" => row[d].guest
  /\ Press(c, NewCall("press", "screen", d, 0))

-----------------------------------------------------------------------------
(* core/tools.py: press_remote_button *)

(* _current_stay_matches *)
StayMatches(r) == turns[r] = stay

(* The voice agent in turn r was given the tokens of its turn and of earlier ones. *)
KnownTokens(r) == {t \in tokens : t.turn <= r}

(* Mutant of Confirms: the request id is not compared. *)
ConfirmsSameTurn(t, d, r) ==
  t.dev = d /\ t.stay = turns[r] /\ now - t.at <= MaxAge

(* Mutant of Confirms: the stay is not compared. *)
ConfirmsAnyStay(t, d, r) ==
  t.dev = d /\ t.turn # r /\ now - t.at <= MaxAge

(* _valid_confirmation_token *)
Confirms(t, d, r) ==
  /\ t.dev = d
  /\ t.stay = turns[r]
  /\ t.turn # r
  /\ now - t.at <= MaxAge

CanPress(d, r) == StayMatches(r) /\ Pressable(d, "voice") /\ row[d].type # "ac"

(* Without a valid token the tool returns one and sends nothing. *)
AskConfirmation(d, r) ==
  /\ CanPress(d, r) /\ row[d].confirm
  /\ Cardinality(tokens) < MaxTokens
  /\ tokens' = tokens \cup {[dev |-> d, stay |-> turns[r], turn |-> r, at |-> now]}
  /\ UNCHANGED <<stay, turns, row, cool, call, audit, now, lapsed, edits, faults>>

(* The tool is satisfied; press_remote_button comes next. *)
ToolChecks(c, d, r) ==
  /\ call[c] = Idle
  /\ CanPress(d, r)
  /\ row[d].confirm => \E t \in KnownTokens(r) : Confirms(t, d, r)
  /\ call' = [call EXCEPT ![c] = [NewCall("press", "voice", d, r) EXCEPT
                !.step = "checked", !.marked = row[d].confirm,
                !.asked = IF row[d].confirm THEN now ELSE 0]]
  /\ UNCHANGED <<stay, turns, row, tokens, cool, audit, now, lapsed, edits, faults>>

VoicePress(c) == call[c].step = "checked" /\ Press(c, call[c])

(* press_remote_button raises: not pressable any more, or cooling down. *)
VoiceRefused(c) ==
  /\ call[c].step = "checked"
  /\ ~Pressable(call[c].dev, "voice") \/ now < cool[call[c].dev]
  /\ call' = [call EXCEPT ![c] = Idle]
  /\ UNCHANGED <<stay, turns, row, tokens, cool, audit, now, lapsed, edits, faults>>

-----------------------------------------------------------------------------
(* Televisions and air conditioners: no token, no cooldown *)

(* _control_lg_tv, and _set_air_conditioner with controls that are visible *)
DeviceTool(c, tool, d, r) ==
  /\ call[c] = Idle
  /\ StayMatches(r)
  /\ row[d].type = (IF tool = "tv" THEN "lg_tv" ELSE "ac")
  /\ row[d].ready /\ row[d].voice
  /\ call' = [call EXCEPT ![c] = NewCall(tool, "voice", d, r)]
  /\ UNCHANGED <<stay, turns, row, tokens, cool, audit, now, lapsed, edits, faults>>

(* tv_remote_command_view, ACStateView.patch and button_config_ac_test_view:  *)
(* neither the visibility to guests nor the audit log is consulted.           *)
DeviceView(c, tool, d) ==
  /\ call[c] = Idle
  /\ row[d].type = (IF tool = "tv" THEN "lg_tv" ELSE "ac")
  /\ tool = "tv" => row[d].ready
  /\ call' = [call EXCEPT ![c] = NewCall(tool, "screen", d, 0)]
  /\ UNCHANGED <<stay, turns, row, tokens, cool, audit, now, lapsed, edits, faults>>

-----------------------------------------------------------------------------
(* The request, once, and its outcome *)

(* The command is posted; nothing is retried.  What no handler expects ends  *)
(* the call: for a button, a 2xx reply whose JSON is no object, from which    *)
(* press_remote_button then takes the target; for an air conditioner, any     *)
(* error that is not an ACControlError.  A television's client checks all.    *)
Reply(c) ==
  /\ call[c].step = "posting"
  /\ \E a \in Replies :
       /\ a = "exception" => call[c].tool # "tv"
       /\ call' = [call EXCEPT ![c].step = "answered", ![c].reply = a]
  /\ UNCHANGED <<stay, turns, row, tokens, cool, audit, now, lapsed, edits, faults>>

(* _parse_controller_payload trusts a 2xx reply that says nothing it knows;  *)
(* the other tools want an explicit success.                                 *)
Succeeded(k) == k.reply = "ok" \/ (k.reply = "unknown" /\ k.tool = "press")

(* The views of televisions and air conditioners write no log. *)
HasLog(k) == k.tool = "press" \/ k.source = "voice"

(* An error that nobody handles passes by the log. *)
Audited(k) == HasLog(k) /\ k.reply # "exception"

Outcome(k) == IF Succeeded(k) THEN "pressed" ELSE "failed"

(* Mutant of Record: a command that fails is not recorded. *)
RecordAnswers(c) ==
  /\ call[c].step = "answered"
  /\ audit' = IF Audited(call[c]) /\ call[c].reply # "error"
                THEN [audit EXCEPT ![c] = Append(@, Outcome(call[c]))]
                ELSE audit
  /\ call' = [call EXCEPT ![c].step = "done"]
  /\ UNCHANGED <<stay, turns, row, tokens, cool, now, lapsed, edits, faults>>

(* _audit, _audit_ac_control and KioskAuditLog in _control_lg_tv *)
Record(c) ==
  /\ call[c].step = "answered"
  /\ audit' = IF Audited(call[c])
                THEN [audit EXCEPT ![c] = Append(@, Outcome(call[c]))]
                ELSE audit
  /\ call' = [call EXCEPT ![c].step = "done"]
  /\ UNCHANGED <<stay, turns, row, tokens, cool, now, lapsed, edits, faults>>

(* The database refuses the log, or the process dies: the outcome is lost. *)
Lost(c) ==
  /\ call[c].step \in {"posting", "answered"}
  /\ Fault
  /\ call' = [call EXCEPT ![c].step = "done"]
  /\ UNCHANGED <<stay, turns, row, tokens, cool, audit, now, lapsed, edits>>

-----------------------------------------------------------------------------
Surroundings ==
  \/ BeginTurn \/ ResetStay \/ Tick \/ FlushRedis
  \/ \E d \in Devices : EditRow(d) \/ \E r \in Turn : AskConfirmation(d, r)

Step(c) ==
  \/ \E d \in Devices :
       \/ \E source \in {"kiosk", "admin"} : ButtonPress(c, d, source)
       \/ \E r \in Turn : ToolChecks(c, d, r)
       \/ \E tool \in {"tv", "ac"} :
            DeviceView(c, tool, d) \/ \E r \in Turn : DeviceTool(c, tool, d, r)
  \/ VoicePress(c) \/ VoiceRefused(c) \/ Reply(c) \/ Record(c) \/ Lost(c)

Next == Surroundings \/ \E c \in Calls : Step(c)

Spec == Init /\ [][Next]_vars

-----------------------------------------------------------------------------
(* Properties *)

TypeOK ==
  /\ stay \in Nat /\ turns \in Seq(Nat) /\ row \in [Devices -> Row]
  /\ tokens \subseteq Token /\ cool \in [Devices -> Nat]
  /\ call \in [Calls -> Call \cup {Idle}]
  /\ audit \in [Calls -> Seq({"pressed", "failed"})]
  /\ now \in Nat /\ lapsed \in BOOLEAN /\ edits \in Nat /\ faults \in Nat

(* press_remote_button of core/tools.py: a button the tool saw marked as     *)
(* requiring a confirmation is on its way only when an earlier turn of the   *)
(* same stay was told to ask for it, for this button and not too long ago,   *)
(* whoever else asks, presses, resets or edits in between.                   *)
PressWasAsked ==
  \A c \in Calls :
    call[c] # Idle /\ call[c].source = "voice" /\ call[c].marked =>
      \E t \in tokens :
        /\ t.dev = call[c].dev
        /\ t.stay = turns[call[c].turn] /\ t.stay = turns[t.turn]
        /\ t.turn < call[c].turn
        /\ t.at <= call[c].asked /\ call[c].asked <= t.at + MaxAge

(* press_remote_button got past _check_cooldown *)
LetThrough(c) == call[c] # Idle /\ call[c].tool = "press" /\ call[c].step # "checked"

(* _check_cooldown: while Redis works, two presses of one button are let     *)
(* through at least the whole seconds of the setting apart, by whichever of  *)
(* the voice agent, the kiosk and the admin, and from whichever threads.     *)
CooldownHolds ==
  ~lapsed => \A c, k \in Calls :
    c # k /\ LetThrough(c) /\ LetThrough(k) /\ call[c].dev = call[k].dev =>
      call[c].at + Ttl <= call[k].at \/ call[k].at + Ttl <= call[c].at

(* What became of a command that is over is on record, once, and says what   *)
(* the controller said, whatever other calls, edits and resets did meanwhile. *)
(* README.md:74 promises it of all outcomes.  The code keeps it but for our   *)
(* own failures (faults) and for replies that end the call before the log:    *)
(* such a button was pressed, and no row says so.                             *)
OutcomeOnRecord ==
  \A c \in Calls : call[c] # Idle =>
    /\ audit[c] # <<>> =>
         call[c].step = "done" /\ HasLog(call[c]) /\ audit[c] = <<Outcome(call[c])>>
    /\ call[c].step = "done" /\ faults = 0 =>
         /\ call[c].reply # "none"
         /\ HasLog(call[c]) => audit[c] # <<>> \/ call[c].reply = "exception"

(* A token belongs to a turn that has begun, and to its stay. *)
TokensRight == \A t \in tokens : t.turn \in Turn /\ t.stay = turns[t.turn] /\ t.at <= now

CallsRight ==
  \A c \in Calls :
    /\ call[c] = Idle => audit[c] = <<>>
    /\ call[c] # Idle /\ call[c].source = "voice" => call[c].turn \in Turn
    /\ call[c] # Idle /\ call[c].step = "answered" => call[c].reply # "none"

(* A press that was let through holds the key of its button until it expires. *)
KeysHeld ==
  ~lapsed /\ Configured > 0 => \A c \in Calls :
    LetThrough(c) => call[c].at + Ttl <= cool[call[c].dev]

(* The inductive invariant. *)
PressInv == TypeOK /\ TokensRight /\ CallsRight /\ KeysHeld /\ PressWasAsked /\ CooldownHolds /\ OutcomeOnRecord
=============================================================================
