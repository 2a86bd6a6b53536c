----------------------------- MODULE PressProofs -----------------------------
(***************************************************************************)
(* Proofs about RemotePress, for any number of calls, turns, stays,        *)
(* devices and faults.                                                     *)
(***************************************************************************)
EXTENDS RemotePress, SequenceTheorems, TLAPS

(* The whole seconds of the setting are a natural number. *)
LEMMA TtlNat == Ttl \in Nat
  BY PressAssumption DEF Ttl, AtLeast

(* Turns are numbered as they begin, and keep their stay. *)
LEMMA TurnsGrow ==
  ASSUME TypeOK, BeginTurn
  PROVE /\ turns' \in Seq(Nat)
        /\ Turn \subseteq Turn'
        /\ \A r \in Turn : turns'[r] = turns[r]
  <1>1. turns' = Append(turns, stay) /\ turns \in Seq(Nat) /\ stay \in Nat
    BY DEF BeginTurn, TypeOK
  <1>. QED  BY <1>1 DEF Turn

LEMMA TypeInit == Init => TypeOK
  <1>. SUFFICES ASSUME Init PROVE TypeOK
    OBVIOUS
  <1>1. row \in [Devices -> Row]
    BY PressAssumption DEF Init
  <1>2. call \in [Calls -> Call \cup {Idle}]
    BY DEF Init
  <1>3. audit \in [Calls -> Seq({"pressed", "failed"})] /\ turns \in Seq(Nat)
    BY EmptySeq DEF Init
  <1>. QED  BY <1>1, <1>2, <1>3 DEF Init, TypeOK

(* A new call is well typed. *)
LEMMA NewCallType ==
  ASSUME NEW tool \in {"press", "tv", "ac"}, NEW source \in {"voice", "screen"},
         NEW d \in Devices, NEW r \in Nat
  PROVE  NewCall(tool, source, d, r) \in Call
  BY DEF NewCall, Call

LEMMA TypeStep == TypeOK /\ [Next]_vars => TypeOK'
  <1>. SUFFICES ASSUME TypeOK, [Next]_vars PROVE TypeOK'
    OBVIOUS
  <1>. USE TtlNat
  <1>1. CASE BeginTurn
    BY <1>1, TurnsGrow DEF BeginTurn, TypeOK, Row
  <1>2. CASE ResetStay
    BY <1>2 DEF ResetStay, TypeOK, Row
  <1>3. CASE Tick
    BY <1>3 DEF Tick, TypeOK, Row
  <1>4. CASE FlushRedis
    BY <1>4 DEF FlushRedis, Fault, TypeOK, Row
  <1>5. ASSUME NEW d \in Devices, EditRow(d) PROVE TypeOK'
    BY <1>5, PressAssumption DEF EditRow, TypeOK
  <1>6. ASSUME NEW d \in Devices, NEW r \in Turn, AskConfirmation(d, r) PROVE TypeOK'
    <2>1. r \in Nat /\ turns[r] \in Nat
      BY DEF Turn, TypeOK
    <2>. QED  BY <1>6, <2>1 DEF AskConfirmation, TypeOK, Token
  <1>7. ASSUME NEW c \in Calls, NEW with \in Call, Press(c, with) PROVE TypeOK'
    <2>1. [with EXCEPT !.step = "posting", !.at = now] \in Call
      BY <1>7 DEF Call, TypeOK
    <2>2. cool' \in [Devices -> Nat] /\ lapsed' \in BOOLEAN /\ faults' \in Nat
      <3>1. with.dev \in Devices
        BY DEF Call
      <3>2. now + Ttl \in Nat
        BY DEF TypeOK
      <3>3. [cool EXCEPT ![with.dev] = now + Ttl] \in [Devices -> Nat]
        BY <3>1, <3>2 DEF TypeOK
      <3>4. cool' = cool \/ cool' = [cool EXCEPT ![with.dev] = now + Ttl]
        BY <1>7 DEF Press, CheckCooldown
      <3>5. lapsed' \in BOOLEAN /\ (faults' = faults \/ faults' = faults + 1)
        BY <1>7 DEF Press, CheckCooldown, Fault, TypeOK
      <3>. QED  BY <3>3, <3>4, <3>5 DEF TypeOK
    <2>. QED  BY <1>7, <2>1, <2>2 DEF Press, TypeOK
  <1>8. ASSUME NEW c \in Calls, NEW d \in Devices, NEW source, ButtonPress(c, d, source) PROVE TypeOK'
    BY <1>7, <1>8, NewCallType DEF ButtonPress
  <1>9. ASSUME NEW c \in Calls, NEW d \in Devices, NEW r \in Turn, ToolChecks(c, d, r) PROVE TypeOK'
    <2>1. NewCall("press", "voice", d, r) \in Call
      BY NewCallType DEF Turn
    <2>2. row[d].confirm \in BOOLEAN
      BY DEF TypeOK, Row
    <2>. QED  BY <1>9, <2>1, <2>2 DEF ToolChecks, TypeOK, Call
  <1>10. ASSUME NEW c \in Calls, NEW d \in Devices, NEW r \in Turn, NEW tool \in {"tv", "ac"},
                DeviceTool(c, tool, d, r)
         PROVE TypeOK'
    <2>1. NewCall(tool, "voice", d, r) \in Call
      BY NewCallType DEF Turn
    <2>. QED  BY <1>10, <2>1 DEF DeviceTool, TypeOK
  <1>11. ASSUME NEW c \in Calls, NEW d \in Devices, NEW tool \in {"tv", "ac"}, DeviceView(c, tool, d)
         PROVE TypeOK'
    <2>1. NewCall(tool, "screen", d, 0) \in Call
      BY NewCallType
    <2>. QED  BY <1>11, <2>1 DEF DeviceView, TypeOK
  <1>12. ASSUME NEW c \in Calls, VoicePress(c) PROVE TypeOK'
    <2>1. call[c] \in Call
      BY <1>12 DEF VoicePress, TypeOK, Idle
    <2>. QED  BY <1>7, <1>12, <2>1 DEF VoicePress
  <1>13. ASSUME NEW c \in Calls, VoiceRefused(c) PROVE TypeOK'
    BY <1>13 DEF VoiceRefused, TypeOK
  <1>14. ASSUME NEW c \in Calls, Reply(c) \/ Record(c) \/ Lost(c) PROVE TypeOK'
    <2>1. call[c] \in Call
      BY <1>14 DEF Reply, Record, Lost, TypeOK, Idle
    <2>2. call' \in [Calls -> Call \cup {Idle}]
      <3>1. \A a \in Replies : [call[c] EXCEPT !.step = "answered", !.reply = a] \in Call
        BY <2>1 DEF Call
      <3>2. [call[c] EXCEPT !.step = "done"] \in Call
        BY <2>1 DEF Call
      <3>3. CASE Reply(c)
        <4>. PICK a \in Replies : call' = [call EXCEPT ![c].step = "answered", ![c].reply = a]
          BY <3>3 DEF Reply
        <4>1. call' = [call EXCEPT ![c] = [call[c] EXCEPT !.step = "answered", !.reply = a]]
          BY DEF TypeOK
        <4>. QED  BY <3>1, <4>1 DEF TypeOK
      <3>. QED  BY <1>14, <3>2, <3>3 DEF Record, Lost, TypeOK
    <2>3. audit' \in [Calls -> Seq({"pressed", "failed"})] /\ faults' \in Nat
      <3>1. Outcome(call[c]) \in {"pressed", "failed"} /\ audit[c] \in Seq({"pressed", "failed"})
        BY DEF Outcome, TypeOK
      <3>2. Append(audit[c], Outcome(call[c])) \in Seq({"pressed", "failed"})
        BY <3>1
      <3>3. audit' = audit \/ audit' = [audit EXCEPT ![c] = Append(audit[c], Outcome(call[c]))]
        BY <1>14 DEF Reply, Record, Lost
      <3>4. faults' = faults \/ faults' = faults + 1
        BY <1>14 DEF Reply, Record, Lost, Fault
      <3>5. [audit EXCEPT ![c] = Append(audit[c], Outcome(call[c]))]
               \in [Calls -> Seq({"pressed", "failed"})]
        BY <3>2 DEF TypeOK
      <3>6. audit \in [Calls -> Seq({"pressed", "failed"})]
        BY DEF TypeOK
      <3>7. audit' \in [Calls -> Seq({"pressed", "failed"})]
        BY <3>3, <3>5, <3>6, Zenon
      <3>8. faults' \in Nat
        BY <3>4 DEF TypeOK
      <3>. QED  BY <3>7, <3>8
    <2>. QED  BY <1>14, <2>2, <2>3 DEF Reply, Record, Lost, TypeOK
  <1>15. CASE UNCHANGED vars
    BY <1>15 DEF vars, TypeOK
  <1>. QED
    BY <1>1, <1>2, <1>3, <1>4, <1>5, <1>6, <1>8, <1>9, <1>10, <1>11, <1>12, <1>13, <1>14, <1>15
       DEF Next, Surroundings, Step

-----------------------------------------------------------------------------
(* What the steps look like to the invariant: call c becomes k. *)
Becomes(c, k) ==
  /\ call' = [call EXCEPT ![c] = k]
  /\ UNCHANGED <<turns, tokens, now>>

(* Somebody was asked for k. *)
AskedFor(k) ==
  \E t \in tokens :
    /\ t.dev = k.dev
    /\ t.stay = turns[k.turn] /\ t.stay = turns[t.turn]
    /\ t.turn < k.turn
    /\ t.at <= k.asked /\ k.asked <= t.at + MaxAge

(* A call that was asked for, or need not be, keeps the promise of the tool. *)
LEMMA AskedAfter ==
  ASSUME PressInv, NEW c \in Calls, NEW k \in Call \cup {Idle}, Becomes(c, k),
         k # Idle /\ k.source = "voice" /\ k.marked => AskedFor(k)
  PROVE  PressWasAsked' /\ TokensRight'
  <1>1. \A j \in Calls : call'[j] = IF j = c THEN k ELSE call[j]
    BY DEF Becomes, PressInv, TypeOK
  <1>2. PressWasAsked'
    BY <1>1 DEF PressInv, PressWasAsked, AskedFor, Becomes
  <1>3. TokensRight'
    BY DEF PressInv, TokensRight, Becomes, Turn
  <1>. QED  BY <1>2, <1>3

(* A call that keeps its promises about its turn and its record. *)
LEMMA CallsAfter ==
  ASSUME PressInv, NEW c \in Calls, NEW k \in Call \cup {Idle}, Becomes(c, k),
         \A j \in Calls \ {c} : audit'[j] = audit[j],
         k = Idle => audit'[c] = <<>>,
         k # Idle /\ k.source = "voice" => k.turn \in Turn,
         k # Idle /\ k.step = "answered" => k.reply # "none",
         k # Idle /\ audit'[c] # <<>> =>
           k.step = "done" /\ HasLog(k) /\ audit'[c] = <<Outcome(k)>>,
         k # Idle /\ k.step = "done" /\ faults' = 0 =>
           k.reply # "none" /\ (HasLog(k) => audit'[c] # <<>> \/ k.reply = "exception"),
         faults' = 0 => faults = 0
  PROVE  CallsRight' /\ OutcomeOnRecord'
  <1>1. \A j \in Calls : call'[j] = IF j = c THEN k ELSE call[j]
    BY DEF Becomes, PressInv, TypeOK
  <1>2. Turn' = Turn
    BY DEF Becomes, Turn
  <1>3. CallsRight'
    BY <1>1, <1>2 DEF PressInv, CallsRight
  <1>4. OutcomeOnRecord'
    BY <1>1 DEF PressInv, OutcomeOnRecord
  <1>. QED  BY <1>3, <1>4

(* A call that is not let through by this step leaves the keys alone. *)
LEMMA KeysAfter ==
  ASSUME PressInv, NEW c \in Calls, NEW k \in Call \cup {Idle}, Becomes(c, k),
         UNCHANGED cool, lapsed => lapsed',
         k # Idle /\ k.tool = "press" /\ k.step # "checked" =>
           LetThrough(c) /\ k.at = call[c].at /\ k.dev = call[c].dev
  PROVE  KeysHeld' /\ CooldownHolds'
  <1>1. \A j \in Calls : call'[j] = IF j = c THEN k ELSE call[j]
    BY DEF Becomes, PressInv, TypeOK
  <1>2. \A j \in Calls : LetThrough(j)' =>
          LetThrough(j) /\ call'[j].at = call[j].at /\ call'[j].dev = call[j].dev
    BY <1>1 DEF LetThrough
  <1>3. KeysHeld'
    BY <1>2 DEF PressInv, KeysHeld, Ttl
  <1>4. CooldownHolds'
    BY <1>2 DEF PressInv, CooldownHolds, Ttl
  <1>. QED  BY <1>3, <1>4

(* A press that is let through takes the key of its button, or there is no   *)
(* cooldown, or Redis fails.                                                 *)
LEMMA KeysTaken ==
  ASSUME PressInv, NEW c \in Calls, NEW with \in Call, Press(c, with), ~LetThrough(c)
  PROVE  KeysHeld' /\ CooldownHolds'
  <1>. DEFINE k == [with EXCEPT !.step = "posting", !.at = now]
  <1>0. k.at = now /\ k.dev = with.dev /\ k # Idle
    BY DEF Call, Idle
  <1>1. \A j \in Calls : call'[j] = IF j = c THEN k ELSE call[j]
    BY DEF Press, PressInv, TypeOK
  <1>. HIDE DEF k
  <1>2. \A j \in Calls : j # c => (LetThrough(j)' <=> LetThrough(j)) /\ call'[j] = call[j]
    BY <1>1 DEF LetThrough
  <1>3. call'[c].at = now /\ call'[c].dev = with.dev /\ with.dev \in Devices
    BY <1>0, <1>1 DEF Call
  <1>4. Ttl' = Ttl /\ Ttl \in Nat /\ now \in Nat
    BY TtlNat DEF Ttl, PressInv, TypeOK
  <1>5. ASSUME NEW j \in Calls, LetThrough(j)
        PROVE  call[j].at \in Nat /\ call[j].dev \in Devices /\ cool[call[j].dev] \in Nat
    BY <1>5 DEF LetThrough, PressInv, TypeOK, Call
  <1>6. CASE ~lapsed' /\ Configured > 0
    <2>1. now >= cool[with.dev] /\ cool' = [cool EXCEPT ![with.dev] = now + Ttl] /\ ~lapsed
      BY <1>6, PressAssumption DEF Press, CheckCooldown
    <2>2. cool \in [Devices -> Nat]
      BY DEF PressInv, TypeOK
    <2>3. ASSUME NEW j \in Calls, j # c, LetThrough(j)
          PROVE  call[j].at + Ttl <= cool'[call[j].dev]
      <3>1. call[j].at + Ttl <= cool[call[j].dev]
        BY <1>6, <2>1, <2>3 DEF PressInv, KeysHeld
      <3>. QED  BY <1>3, <1>4, <1>5, <2>1, <2>2, <2>3, <3>1
    <2>4. KeysHeld'
      <3>1. ASSUME NEW j \in Calls, LetThrough(j)' PROVE call'[j].at + Ttl <= cool'[call'[j].dev]
        <4>1. CASE j = c
          BY <1>3, <1>4, <2>1, <2>2, <4>1
        <4>2. CASE j # c
          BY <1>2, <2>3, <3>1, <4>2
        <4>. QED  BY <4>1, <4>2
      <3>. QED  BY <1>4, <3>1 DEF KeysHeld
    <2>5. ASSUME NEW j \in Calls, j # c, LetThrough(j)', call'[j].dev = call'[c].dev
          PROVE  call'[j].at + Ttl <= call'[c].at
      <3>1. LetThrough(j) /\ call'[j] = call[j]
        BY <1>2, <2>5
      <3>2. call[j].at + Ttl <= cool[call[j].dev]
        BY <1>6, <2>1, <3>1 DEF PressInv, KeysHeld
      <3>. QED  BY <1>3, <1>4, <1>5, <2>1, <2>5, <3>1, <3>2
    <2>6. CooldownHolds'
      <3>. SUFFICES ASSUME NEW i \in Calls, NEW j \in Calls, i # j, LetThrough(i)', LetThrough(j)',
                           call'[i].dev = call'[j].dev
                    PROVE  call'[i].at + Ttl <= call'[j].at \/ call'[j].at + Ttl <= call'[i].at
        BY <1>4 DEF CooldownHolds
      <3>1. CASE i = c
        BY <2>5, <3>1
      <3>2. CASE j = c
        BY <2>5, <3>2
      <3>3. CASE i # c /\ j # c
        BY <1>2, <2>1, <3>3 DEF PressInv, CooldownHolds
      <3>. QED  BY <3>1, <3>2, <3>3
    <2>. QED  BY <2>4, <2>6
  <1>7. CASE lapsed'
    BY <1>7 DEF KeysHeld, CooldownHolds
  <1>8. CASE Configured = 0
    <2>1. Ttl = 0
      BY <1>8 DEF Ttl
    <2>2. \A j \in Calls : LetThrough(j)' => call'[j].at \in Nat
      BY <1>2, <1>3, <1>4, <1>5
    <2>3. CooldownHolds'
      BY <1>4, <2>1, <2>2 DEF CooldownHolds
    <2>. QED  BY <1>8, <2>3 DEF KeysHeld
  <1>. QED  BY <1>6, <1>7, <1>8, PressAssumption DEF PressInv, TypeOK

-----------------------------------------------------------------------------
(* What surrounds the calls leaves them alone. *)
LEMMA SurroundingsKeep ==
  ASSUME PressInv, Surroundings
  PROVE  PressInv'
  <1>1. UNCHANGED <<call, audit>> /\ now <= now' /\ (lapsed => lapsed') /\ (faults' = 0 => faults = 0)
    BY DEF Surroundings, BeginTurn, ResetStay, Tick, FlushRedis, Fault, EditRow, AskConfirmation,
           PressInv, TypeOK
  <1>2. cool' = cool \/ lapsed'
    BY DEF Surroundings, BeginTurn, ResetStay, Tick, FlushRedis, EditRow, AskConfirmation
  <1>3. Turn \subseteq Turn' /\ \A r \in Turn : turns'[r] = turns[r]
    <2>1. BeginTurn \/ turns' = turns
      BY DEF Surroundings, ResetStay, Tick, FlushRedis, EditRow, AskConfirmation
    <2>. QED  BY <2>1, TurnsGrow DEF PressInv, Turn
  <1>4. TypeOK'
    BY TypeStep DEF PressInv, Next
  <1>5. \A t \in tokens : t.turn \in Turn' /\ t.stay = turns'[t.turn] /\ t.at <= now'
    <2>. TAKE t \in tokens
    <2>1. t.turn \in Turn /\ t.stay = turns[t.turn] /\ t.at <= now
      BY DEF PressInv, TokensRight
    <2>2. t.at \in Nat /\ now \in Nat /\ now' \in Nat
      BY <1>4 DEF PressInv, TypeOK, Token
    <2>. QED  BY <1>1, <1>3, <2>1, <2>2
  <1>6. tokens \subseteq tokens' /\ TokensRight'
    <2>1. CASE tokens' = tokens
      BY <1>5, <2>1 DEF TokensRight
    <2>2. ASSUME NEW d \in Devices, NEW r \in Turn, AskConfirmation(d, r)
          PROVE  tokens \subseteq tokens' /\ TokensRight'
      <3>1. tokens' = tokens \cup {[dev |-> d, stay |-> turns[r], turn |-> r, at |-> now]}
        BY <2>2 DEF AskConfirmation
      <3>2. turns' = turns /\ now' = now /\ now \in Nat
        BY <2>2 DEF AskConfirmation, PressInv, TypeOK
      <3>. QED  BY <1>5, <1>3, <3>1, <3>2 DEF TokensRight
    <2>. QED  BY <2>1, <2>2 DEF Surroundings, BeginTurn, ResetStay, Tick, FlushRedis, EditRow
  <1>7. CallsRight'
    BY <1>1, <1>3 DEF PressInv, CallsRight
  <1>8. PressWasAsked'
    <2>. SUFFICES ASSUME NEW c \in Calls, call[c] # Idle, call[c].source = "voice", call[c].marked
                  PROVE  AskedFor(call[c])'
      BY <1>1 DEF PressWasAsked, AskedFor
    <2>1. PICK t \in tokens :
            /\ t.dev = call[c].dev
            /\ t.stay = turns[call[c].turn] /\ t.stay = turns[t.turn]
            /\ t.turn < call[c].turn
            /\ t.at <= call[c].asked /\ call[c].asked <= t.at + MaxAge
      BY DEF PressInv, PressWasAsked
    <2>2. call[c].turn \in Turn /\ t.turn \in Turn
      BY DEF PressInv, CallsRight, TokensRight
    <2>. QED  BY <1>1, <1>3, <1>6, <2>1, <2>2 DEF AskedFor
  <1>9. KeysHeld' /\ CooldownHolds'
    BY <1>1, <1>2 DEF PressInv, KeysHeld, CooldownHolds, LetThrough, Ttl
  <1>10. OutcomeOnRecord'
    BY <1>1 DEF PressInv, OutcomeOnRecord
  <1>. QED  BY <1>4, <1>6, <1>7, <1>8, <1>9, <1>10 DEF PressInv

(* A press: the record is empty, and the call becomes one that is let through. *)
LEMMA PressKeeps ==
  ASSUME PressInv, NEW c \in Calls, NEW with \in Call, Press(c, with), TypeOK',
         ~LetThrough(c), audit[c] = <<>>,
         with.source = "voice" => with.turn \in Turn,
         with.source = "voice" /\ with.marked => AskedFor(with)
  PROVE  PressInv'
  <1>. DEFINE k == [with EXCEPT !.step = "posting", !.at = now]
  <1>1. k \in Call
    BY DEF Call, PressInv, TypeOK
  <1>2. /\ k.source = with.source /\ k.marked = with.marked /\ k.turn = with.turn
        /\ k.dev = with.dev /\ k.asked = with.asked /\ k.step = "posting"
    BY DEF Call
  <1>3. Becomes(c, k) /\ audit' = audit /\ (faults' = 0 => faults = 0)
    BY DEF Press, Becomes, CheckCooldown, Fault, PressInv, TypeOK
  <1>. HIDE DEF k
  <1>4. PressWasAsked' /\ TokensRight'
    <2>1. k # Idle /\ k.source = "voice" /\ k.marked => AskedFor(k)
      BY <1>2 DEF AskedFor
    <2>. QED  BY <1>1, <1>3, <2>1, AskedAfter
  <1>5. CallsRight' /\ OutcomeOnRecord'
    <2>1. audit'[c] = <<>>
      BY <1>3
    <2>. QED  BY <1>1, <1>2, <1>3, <2>1, CallsAfter
  <1>6. KeysHeld' /\ CooldownHolds'
    BY KeysTaken
  <1>. QED  BY <1>4, <1>5, <1>6 DEF PressInv

(* A call that is new, and not a press that is let through. *)
LEMMA NewCallKeeps ==
  ASSUME PressInv, NEW c \in Calls, NEW k \in Call, call[c] = Idle, Becomes(c, k), TypeOK',
         UNCHANGED <<audit, cool, lapsed, faults>>,
         k.step \in {"checked", "posting"}, k.tool = "press" => k.step = "checked",
         k.source = "voice" => k.turn \in Turn,
         k.source = "voice" /\ k.marked => AskedFor(k)
  PROVE  PressInv'
  <1>1. audit'[c] = <<>>
    BY DEF PressInv, CallsRight
  <1>2. PressWasAsked' /\ TokensRight'
    BY AskedAfter
  <1>3. CallsRight' /\ OutcomeOnRecord'
    BY <1>1, CallsAfter
  <1>4. KeysHeld' /\ CooldownHolds'
    BY KeysAfter
  <1>. QED  BY <1>2, <1>3, <1>4 DEF PressInv

LEMMA InvInit == Init => PressInv
  <1>. SUFFICES ASSUME Init PROVE PressInv
    OBVIOUS
  <1>1. TypeOK
    BY TypeInit
  <1>2. tokens = {} /\ \A c \in Calls : call[c] = Idle /\ audit[c] = <<>>
    BY DEF Init
  <1>. QED
    BY <1>1, <1>2 DEF PressInv, TokensRight, CallsRight, KeysHeld, PressWasAsked, CooldownHolds,
                      OutcomeOnRecord, LetThrough

LEMMA InvStep == PressInv /\ [Next]_vars => PressInv'
  <1>. SUFFICES ASSUME PressInv, [Next]_vars PROVE PressInv'
    OBVIOUS
  <1>0. TypeOK /\ TypeOK'
    BY TypeStep DEF PressInv
  <1>1. CASE Surroundings
    BY <1>1, SurroundingsKeep
  <1>2. ASSUME NEW c \in Calls, NEW d \in Devices, NEW source, ButtonPress(c, d, source) PROVE PressInv'
    <2>. DEFINE k == NewCall("press", "screen", d, 0)
    <2>1. k \in Call /\ k.source = "screen"
      BY NewCallType DEF NewCall
    <2>2. call[c] = Idle /\ Press(c, k)
      BY <1>2 DEF ButtonPress
    <2>3. ~LetThrough(c) /\ audit[c] = <<>>
      BY <2>2 DEF LetThrough, PressInv, CallsRight
    <2>. HIDE DEF k
    <2>. QED  BY <1>0, <2>1, <2>2, <2>3, PressKeeps
  <1>3. ASSUME NEW c \in Calls, NEW d \in Devices, NEW r \in Turn, ToolChecks(c, d, r) PROVE PressInv'
    <2>. DEFINE n == NewCall("press", "voice", d, r)
                k == [n EXCEPT !.step = "checked", !.marked = row[d].confirm,
                               !.asked = IF row[d].confirm THEN now ELSE 0]
    <2>1. n \in Call /\ n.turn = r /\ n.dev = d /\ n.source = "voice" /\ n.tool = "press"
      BY NewCallType DEF NewCall, Turn
    <2>2. row[d].confirm \in BOOLEAN /\ now \in Nat
      BY <1>0 DEF TypeOK, Row
    <2>. HIDE DEF n
    <2>3. /\ k \in Call /\ k.turn = r /\ k.dev = d /\ k.source = "voice" /\ k.tool = "press"
          /\ k.step = "checked" /\ k.marked = row[d].confirm
          /\ k.asked = IF row[d].confirm THEN now ELSE 0
      BY <2>1, <2>2 DEF Call
    <2>4. Becomes(c, k) /\ call[c] = Idle /\ UNCHANGED <<audit, cool, lapsed, faults>>
      BY <1>3 DEF ToolChecks, Becomes, n
    <2>5. row[d].confirm => \E t \in tokens : t.turn <= r /\ Confirms(t, d, r)
      BY <1>3 DEF ToolChecks, KnownTokens
    <2>. HIDE DEF k
    <2>6. ASSUME k.marked PROVE AskedFor(k)
      <3>1. PICK t \in tokens : t.turn <= r /\ Confirms(t, d, r)
        BY <2>3, <2>5, <2>6
      <3>2. t.turn \in Turn /\ t.stay = turns[t.turn] /\ t.at <= now /\ t.at \in Nat
        BY <1>0 DEF PressInv, TokensRight, TypeOK, Token
      <3>3. t.turn < r
        BY <3>1, <3>2 DEF Confirms, Turn
      <3>4. k.asked = now
        BY <2>3, <2>6
      <3>5. k.asked <= t.at + MaxAge
        BY <2>2, <3>1, <3>2, <3>4, PressAssumption DEF Confirms
      <3>. QED  BY <2>3, <3>1, <3>2, <3>3, <3>4, <3>5 DEF Confirms, AskedFor
    <2>. QED  BY <1>0, <2>3, <2>4, <2>6, NewCallKeeps
  <1>4. ASSUME NEW c \in Calls, NEW d \in Devices, NEW r \in Turn, NEW tool \in {"tv", "ac"},
               DeviceTool(c, tool, d, r)
        PROVE PressInv'
    <2>. DEFINE k == NewCall(tool, "voice", d, r)
    <2>1. k \in Call /\ k.turn = r /\ ~k.marked /\ k.tool = tool /\ k.step = "posting"
      BY NewCallType DEF NewCall, Turn
    <2>2. Becomes(c, k) /\ call[c] = Idle /\ UNCHANGED <<audit, cool, lapsed, faults>>
      BY <1>4 DEF DeviceTool, Becomes
    <2>. HIDE DEF k
    <2>. QED  BY <1>0, <2>1, <2>2, NewCallKeeps
  <1>5. ASSUME NEW c \in Calls, NEW d \in Devices, NEW tool \in {"tv", "ac"}, DeviceView(c, tool, d)
        PROVE PressInv'
    <2>. DEFINE k == NewCall(tool, "screen", d, 0)
    <2>1. k \in Call /\ k.source = "screen" /\ k.tool = tool /\ k.step = "posting"
      BY NewCallType DEF NewCall
    <2>2. Becomes(c, k) /\ call[c] = Idle /\ UNCHANGED <<audit, cool, lapsed, faults>>
      BY <1>5 DEF DeviceView, Becomes
    <2>. HIDE DEF k
    <2>. QED  BY <1>0, <2>1, <2>2, NewCallKeeps
  <1>6. ASSUME NEW c \in Calls, VoicePress(c) PROVE PressInv'
    <2>1. call[c] \in Call /\ call[c].step = "checked" /\ Press(c, call[c])
      BY <1>0, <1>6 DEF VoicePress, TypeOK, Idle
    <2>2. call[c] # Idle
      BY <2>1 DEF Idle
    <2>3. ~LetThrough(c) /\ audit[c] = <<>>
      BY <2>1, <2>2 DEF LetThrough, PressInv, OutcomeOnRecord
    <2>4. call[c].source = "voice" => call[c].turn \in Turn
      BY <2>2 DEF PressInv, CallsRight
    <2>5. call[c].source = "voice" /\ call[c].marked => AskedFor(call[c])
      BY <2>2 DEF PressInv, PressWasAsked, AskedFor
    <2>. QED  BY <1>0, <2>1, <2>3, <2>4, <2>5, PressKeeps
  <1>7. ASSUME NEW c \in Calls, VoiceRefused(c) PROVE PressInv'
    <2>1. call[c].step = "checked" /\ call[c] # Idle
      BY <1>7 DEF VoiceRefused, Idle
    <2>2. audit[c] = <<>>
      BY <2>1 DEF PressInv, OutcomeOnRecord
    <2>3. Becomes(c, Idle) /\ UNCHANGED <<audit, cool, lapsed, faults>>
      BY <1>7 DEF VoiceRefused, Becomes
    <2>. QED  BY <1>0, <2>2, <2>3, AskedAfter, CallsAfter, KeysAfter DEF PressInv
  <1>8. ASSUME NEW c \in Calls, Reply(c) \/ Record(c) \/ Lost(c) PROVE PressInv'
    <2>1. call[c] \in Call /\ call[c] # Idle /\ call[c].step # "done" /\ call[c].step # "checked"
      BY <1>0, <1>8 DEF Reply, Record, Lost, TypeOK, Idle
    <2>2. PICK k \in Call : /\ Becomes(c, k) /\ k.step # "checked" /\ k.source = call[c].source
                            /\ k.turn = call[c].turn /\ k.marked = call[c].marked
                            /\ k.asked = call[c].asked /\ k.dev = call[c].dev /\ k.at = call[c].at
                            /\ k.tool = call[c].tool
                            /\ \/ Reply(c) /\ k.step = "answered" /\ k.reply # "none"
                               \/ Record(c) /\ k.step = "done" /\ k.reply = call[c].reply
                               \/ Lost(c) /\ k.step = "done"
      <3>1. CASE Reply(c)
        <4>1. PICK a \in Replies : call' = [call EXCEPT ![c].step = "answered", ![c].reply = a]
          BY <3>1 DEF Reply
        <4>. DEFINE k == [call[c] EXCEPT !.step = "answered", !.reply = a]
        <4>2. call' = [call EXCEPT ![c] = k]
          BY <1>0, <4>1 DEF TypeOK
        <4>3. k \in Call /\ k.step = "answered" /\ k.reply # "none" /\ k.source = call[c].source
              /\ k.turn = call[c].turn /\ k.marked = call[c].marked /\ k.tool = call[c].tool
              /\ k.asked = call[c].asked /\ k.dev = call[c].dev /\ k.at = call[c].at
          BY <2>1 DEF Call, Replies
        <4>4. UNCHANGED <<turns, tokens, now>>
          BY <3>1 DEF Reply
        <4>. HIDE DEF k
        <4>. QED  BY <3>1, <4>2, <4>3, <4>4 DEF Becomes
      <3>2. CASE Record(c) \/ Lost(c)
        <4>. DEFINE k == [call[c] EXCEPT !.step = "done"]
        <4>1. call' = [call EXCEPT ![c] = k] /\ UNCHANGED <<turns, tokens, now>>
          BY <1>0, <3>2 DEF TypeOK, Record, Lost
        <4>2. k \in Call /\ k.step = "done" /\ k.reply = call[c].reply /\ k.source = call[c].source
              /\ k.turn = call[c].turn /\ k.marked = call[c].marked /\ k.tool = call[c].tool
              /\ k.asked = call[c].asked /\ k.dev = call[c].dev /\ k.at = call[c].at
          BY <2>1 DEF Call
        <4>. HIDE DEF k
        <4>. QED  BY <3>2, <4>1, <4>2 DEF Becomes
      <3>. QED  BY <1>8, <3>1, <3>2
    <2>3. PressWasAsked' /\ TokensRight'
      <3>1. k.source = "voice" /\ k.marked => AskedFor(k)
        BY <2>1, <2>2 DEF PressInv, PressWasAsked, AskedFor
      <3>. QED  BY <2>2, <3>1, AskedAfter
    <2>4. KeysHeld' /\ CooldownHolds'
      <3>1. UNCHANGED <<cool, lapsed>>
        BY <1>8 DEF Reply, Record, Lost
      <3>2. k.tool = "press" => LetThrough(c)
        BY <2>1, <2>2 DEF LetThrough
      <3>. QED  BY <2>2, <3>1, <3>2, KeysAfter
    <2>5. CallsRight' /\ OutcomeOnRecord'
      <3>1. audit[c] = <<>>
        BY <2>1 DEF PressInv, OutcomeOnRecord
      <3>2. k.turn \in Turn \/ k.source # "voice"
        BY <2>1, <2>2 DEF PressInv, CallsRight
      <3>3. CASE Reply(c) /\ k.step = "answered" /\ k.reply # "none"
        <4>1. UNCHANGED <<audit, faults>>
          BY <3>3 DEF Reply
        <4>. QED  BY <2>2, <3>1, <3>2, <3>3, <4>1, CallsAfter
      <3>4. CASE Record(c) /\ k.step = "done" /\ k.reply = call[c].reply
        <4>1. /\ call[c].reply # "none" /\ faults' = faults
              /\ Audited(k) = Audited(call[c]) /\ Outcome(k) = Outcome(call[c])
          BY <2>1, <2>2, <3>4 DEF Record, PressInv, CallsRight, Audited, HasLog, Outcome, Succeeded
        <4>2. audit' = IF Audited(call[c])
                         THEN [audit EXCEPT ![c] = Append(audit[c], Outcome(call[c]))] ELSE audit
          BY <3>4 DEF Record
        <4>3. audit \in [Calls -> Seq({"pressed", "failed"})]
          BY <1>0 DEF TypeOK
        <4>4. /\ \A j \in Calls \ {c} : audit'[j] = audit[j]
              /\ audit'[c] = IF Audited(k) THEN Append(<<>>, Outcome(k)) ELSE <<>>
          BY <3>1, <4>1, <4>2, <4>3
        <4>5. Append(<<>>, Outcome(k)) = <<Outcome(k)>> /\ <<Outcome(k)>> # <<>>
          OBVIOUS
        <4>6. /\ audit'[c] # <<>> => audit'[c] = <<Outcome(k)>> /\ HasLog(k)
              /\ HasLog(k) => audit'[c] # <<>> \/ k.reply = "exception"
          BY <4>4, <4>5, Zenon DEF Audited
        <4>7. k # Idle
          BY <3>4 DEF Idle
        <4>8. k.reply # "none" /\ (faults' = 0 => faults = 0)
          BY <3>4, <4>1
        <4>. QED  BY <2>2, <3>2, <3>4, <4>4, <4>6, <4>7, <4>8, CallsAfter, Zenon
      <3>5. CASE Lost(c) /\ k.step = "done"
        <4>1. audit' = audit /\ faults' # 0
          BY <1>0, <3>5 DEF Lost, Fault, TypeOK
        <4>. QED  BY <2>2, <3>1, <3>2, <3>5, <4>1, CallsAfter
      <3>. QED  BY <2>2, <3>3, <3>4, <3>5
    <2>. QED  BY <1>0, <2>3, <2>4, <2>5 DEF PressInv
  <1>9. CASE UNCHANGED vars
    BY <1>0, <1>9 DEF vars, PressInv, TokensRight, CallsRight, KeysHeld, PressWasAsked, CooldownHolds,
             OutcomeOnRecord, LetThrough, Turn, Ttl
  <1>. QED
    BY <1>1, <1>2, <1>3, <1>4, <1>5, <1>6, <1>7, <1>8, <1>9 DEF Next, Step

(* RemotePress: everything below holds in every reachable state. *)
THEOREM PressInvariant == Spec => []PressInv
  BY InvInit, InvStep, PTL DEF Spec

(* press_remote_button: no button the tool saw marked is pressed by voice    *)
(* unless an earlier turn of the same stay was told to ask.                  *)
THEOREM PressesWereAsked == Spec => []PressWasAsked
  BY PressInvariant, PTL DEF PressInv

(* _check_cooldown: presses of one button are apart as long as Redis works.  *)
THEOREM CooldownsHold == Spec => []CooldownHolds
  BY PressInvariant, PTL DEF PressInv

(* _audit: what a command came to is on record, once, and as it was, unless  *)
(* a failure of ours or an error that nobody handles comes before the log.   *)
THEOREM OutcomesOnRecord == Spec => []OutcomeOnRecord
  BY PressInvariant, PTL DEF PressInv
=============================================================================
