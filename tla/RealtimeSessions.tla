--------------------------- MODULE RealtimeSessions ---------------------------
(***************************************************************************)
(* Speech-to-speech conversations.  The browser talks to OpenAI directly;  *)
(* Django creates the session (RealtimeSessionView), stores transcripts    *)
(* (RealtimeMessageView) and runs the tools the model calls                *)
(* (RealtimeToolView), for several tabs at once, while sessions expire,    *)
(* are closed, and the stay is reset.                                      *)
(*                                                                         *)
(* A transaction.atomic block is one step; what happens outside of one,    *)
(* the slow call to OpenAI and the execution of a tool included, is a step *)
(* of its own.  Stays are numbered in order, as in Concierge.              *)
(***************************************************************************)
EXTENDS Naturals, FiniteSets

CONSTANTS
  Sessions,   \* RealtimeSession ids
  Handlers,   \* threads of the web process serving RealtimeToolView
  RequestIds, \* request ids the browser sends with tool calls
  CallIds,    \* tool call ids of the model
  Events,     \* transcript event ids
  ToolLimit,  \* tool rows a request may have: 5
  MaxStays,   \* bound: number of stays in a behaviour
  MaxFailures \* bound: threads that raise and deaths of the web process

ASSUME RealtimeAssumption ==
  /\ ToolLimit \in Nat \ {0}
  /\ MaxStays \in Nat /\ MaxFailures \in Nat

VARIABLES
  stay,      \* ChaletConfig.current_stay_id
  session,   \* session[s]: how far its creation is, then RealtimeSession.state
  boundTo,   \* boundTo[s]: RealtimeSession.stay_id, 0 while unknown
  history,   \* history[s]: the stay whose transcript OpenAI was given, or 0
  overdue,   \* sessions whose expires_at has passed
  messages,  \* <<stay, event>>: transcript rows
  tools,     \* TOOL rows; done when the result has replaced the reservation
  hpc,       \* hpc[h]: where handler h stands
  hrow,      \* hrow[h]: the TOOL row handler h reserved
  abandoned, \* rows whose thread has ended without storing a result (history)
  executed,  \* executed[<<n, c>>]: how often call c of stay n was executed
  staff,     \* <<stay, call>>: StaffRequest rows
  failures   \* threads that raised and deaths of the process so far

sessionVars == <<session, boundTo, history, overdue>>
toolVars    == <<hpc, hrow, abandoned, executed, staff>>
vars        == <<stay, session, boundTo, history, overdue, messages, tools,
                 hpc, hrow, abandoned, executed, staff, failures>>

Stays         == 1..(MaxStays + 1)
Opening       == {"calling", "expiring", "deleting", "creating"}
Over          == {"closed", "reset", "expired"}
SessionStates == Opening \cup Over \cup {"none", "active", "deleted"}
ToolRow       == [stay : Stays, req : RequestIds, call : CallIds, done : BOOLEAN]
NoRow         == <<>>

Init ==
  /\ stay = 1
  /\ session = [s \in Sessions |-> "none"]
  /\ boundTo = [s \in Sessions |-> 0]
  /\ history = [s \in Sessions |-> 0]
  /\ overdue = {} /\ messages = {} /\ tools = {} /\ abandoned = {} /\ staff = {}
  /\ hpc = [h \in Handlers |-> "idle"]
  /\ hrow = [h \in Handlers |-> NoRow]
  /\ executed = [k \in Stays \X CallIds |-> 0]
  /\ failures = 0

-----------------------------------------------------------------------------
(* RealtimeSessionView.post *)

(* build_realtime_session reads the current stay and its messages; the      *)
(* request to OpenAI leaves with them.                                      *)
BuildSession(s) ==
  /\ session[s] = "none"
  /\ session' = [session EXCEPT ![s] = "calling"]
  /\ history' = [history EXCEPT ![s] = stay]
  /\ UNCHANGED <<stay, boundTo, overdue, messages, tools, toolVars, failures>>

(* OpenAI refuses, fails or does not answer in time: no session. *)
UpstreamFails(s) ==
  /\ session[s] = "calling"
  /\ session' = [session EXCEPT ![s] = "none"]
  /\ history' = [history EXCEPT ![s] = 0]
  /\ UNCHANGED <<stay, boundTo, overdue, messages, tools, toolVars, failures>>

(* OpenAI answers; the configuration is read again. *)
UpstreamAnswers(s) ==
  /\ session[s] = "calling"
  /\ session' = [session EXCEPT ![s] = "expiring"]
  /\ boundTo' = [boundTo EXCEPT ![s] = stay]
  /\ UNCHANGED <<stay, history, overdue, messages, tools, toolVars, failures>>

Overdue(t) == session[t] = "active" /\ t \in overdue

(* A mutant: sessions that are over are overdue, too. *)
ExpireOverdueAnyState(s) ==
  /\ session[s] = "expiring"
  /\ session' = [t \in Sessions |-> IF t = s THEN "deleting"
                                   ELSE IF t \in overdue THEN "expired"
                                   ELSE session[t]]
  /\ UNCHANGED <<stay, boundTo, history, overdue, messages, tools, toolVars, failures>>

(* Active sessions whose time is over are marked ... *)
ExpireOverdue(s) ==
  /\ session[s] = "expiring"
  /\ session' = [t \in Sessions |-> IF t = s THEN "deleting"
                                   ELSE IF Overdue(t) THEN "expired"
                                   ELSE session[t]]
  /\ UNCHANGED <<stay, boundTo, history, overdue, messages, tools, toolVars, failures>>

(* ... those that have been over for long are deleted ... *)
DeleteOld(s) ==
  /\ session[s] = "deleting"
  /\ \E old \in SUBSET {t \in Sessions : session[t] \in Over} :
       session' = [t \in Sessions |-> IF t = s THEN "creating"
                                     ELSE IF t \in old THEN "deleted"
                                     ELSE session[t]]
  /\ UNCHANGED <<stay, boundTo, history, overdue, messages, tools, toolVars, failures>>

(* ... and the new one is created, whatever the current stay is by now. *)
CreateSession(s) ==
  /\ session[s] = "creating"
  /\ session' = [session EXCEPT ![s] = "active"]
  /\ UNCHANGED <<stay, boundTo, history, overdue, messages, tools, toolVars, failures>>

(* The session's time to live goes by without a valid request. *)
ExpiryPasses(s) ==
  /\ session[s] = "active" /\ s \notin overdue
  /\ overdue' = overdue \cup {s}
  /\ UNCHANGED <<stay, session, boundTo, history, messages, tools, toolVars, failures>>

(* RealtimeSessionCloseView.post *)
CloseSession(s) ==
  /\ session[s] = "active"
  /\ session' = [session EXCEPT ![s] = "closed"]
  /\ UNCHANGED <<stay, boundTo, history, overdue, messages, tools, toolVars, failures>>

-----------------------------------------------------------------------------
(* _validated_realtime_session *)

(* A mutant: the session's own state is trusted, the stay is not compared. *)
ValidAnyStay(s) == session[s] = "active" /\ s \notin overdue

(* A session is valid when it is active, of the current stay and not        *)
(* overdue; its time to live is then renewed.                               *)
Valid(s) == session[s] = "active" /\ boundTo[s] = stay /\ s \notin overdue

(* A post with an active session that is no longer valid marks the session; *)
(* with any other session it changes nothing.                               *)
RefusePost(s) ==
  /\ session[s] = "active"
  /\ ~Valid(s)
  /\ session' = [session EXCEPT ![s] = IF boundTo[s] # stay THEN "reset" ELSE "expired"]
  /\ UNCHANGED <<stay, boundTo, history, overdue, messages, tools, toolVars, failures>>

(* RealtimeMessageView.post: a second row with the event id is a duplicate. *)
PostMessage(s, e) ==
  /\ Valid(s)
  /\ messages' = messages \cup {<<boundTo[s], e>>}
  /\ UNCHANGED <<stay, sessionVars, tools, toolVars, failures>>

-----------------------------------------------------------------------------
(* RealtimeToolView.post *)

RowsOf(n, q) == {t \in tools : t.stay = n /\ t.req = q}

Reserve(h, row) ==
  /\ hpc[h] = "idle"
  /\ tools' = tools \cup {row}
  /\ hpc' = [hpc EXCEPT ![h] = "execute"]
  /\ hrow' = [hrow EXCEPT ![h] = row]

(* A mutant: only the rows of the same request are looked at, as without    *)
(* the unique constraint on the stay and the call id.                       *)
PostToolPerRequest(h, s, q, c) ==
  LET n == boundTo[s] IN
  /\ Valid(s)
  /\ \A t \in RowsOf(n, q) : t.call # c
  /\ Cardinality(RowsOf(n, q)) < ToolLimit
  /\ Reserve(h, [stay |-> n, req |-> q, call |-> c, done |-> FALSE])
  /\ UNCHANGED <<stay, sessionVars, messages, abandoned, executed, staff, failures>>

(* A mutant: one row too many. *)
PostToolOverLimit(h, s, q, c) ==
  LET n == boundTo[s] IN
  /\ Valid(s)
  /\ \A t \in tools : t.stay = n => t.call # c
  /\ Cardinality(RowsOf(n, q)) <= ToolLimit
  /\ Reserve(h, [stay |-> n, req |-> q, call |-> c, done |-> FALSE])
  /\ UNCHANGED <<stay, sessionVars, messages, abandoned, executed, staff, failures>>

(* A mutant: a known call is reserved again, as by update_or_create. *)
PostToolAgain(h, s, q, c) ==
  LET n == boundTo[s]
      row == [stay |-> n, req |-> q, call |-> c, done |-> FALSE]
  IN
  /\ Valid(s)
  /\ hpc[h] = "idle"
  /\ Cardinality(RowsOf(n, q)) < ToolLimit
  /\ tools' = {t \in tools : t.stay # n \/ t.call # c} \cup {row}
  /\ hpc' = [hpc EXCEPT ![h] = "execute"]
  /\ hrow' = [hrow EXCEPT ![h] = row]
  /\ UNCHANGED <<stay, sessionVars, messages, abandoned, executed, staff, failures>>

(* The call is new to the stay and the request below its limit: a row is    *)
(* reserved.  A known call, of this request or another one, is answered     *)
(* with what its row holds, and nothing changes.                            *)
PostTool(h, s, q, c) ==
  LET n == boundTo[s] IN
  /\ Valid(s)
  /\ \A t \in tools : t.stay = n => t.call # c
  /\ Cardinality(RowsOf(n, q)) < ToolLimit
  /\ Reserve(h, [stay |-> n, req |-> q, call |-> c, done |-> FALSE])
  /\ UNCHANGED <<stay, sessionVars, messages, abandoned, executed, staff, failures>>

(* execute_tool, after the transaction, returns a result: that of the       *)
(* tool, or the error it was caught with.  A request to the staff is stored *)
(* in a transaction that compares the stay.                                 *)
ExecuteTool(h) ==
  LET k == <<hrow[h].stay, hrow[h].call>> IN
  /\ hpc[h] = "execute"
  /\ hpc' = [hpc EXCEPT ![h] = "store"]
  /\ executed' = [executed EXCEPT ![k] = @ + 1]
  /\ staff' \in {staff, IF k[1] = stay THEN staff \cup {k} ELSE staff}
  /\ UNCHANGED <<stay, sessionVars, messages, tools, hrow, abandoned, failures>>

(* A mutant: the result is dropped when the stay has no session any more. *)
StoreResultIfLive(h) ==
  /\ hpc[h] = "store"
  /\ hpc' = [hpc EXCEPT ![h] = "idle"]
  /\ hrow' = [hrow EXCEPT ![h] = NoRow]
  /\ tools' = IF \E s \in Sessions : Valid(s)
              THEN {IF t = hrow[h] THEN [t EXCEPT !.done = TRUE] ELSE t : t \in tools}
              ELSE tools
  /\ UNCHANGED <<stay, sessionVars, messages, abandoned, executed, staff, failures>>

(* A mutant: the result is inserted when its row is gone. *)
StoreResultUpsert(h) ==
  /\ hpc[h] = "store"
  /\ hpc' = [hpc EXCEPT ![h] = "idle"]
  /\ hrow' = [hrow EXCEPT ![h] = NoRow]
  /\ tools' = (tools \ {hrow[h]}) \cup {[hrow[h] EXCEPT !.done = TRUE]}
  /\ UNCHANGED <<stay, sessionVars, messages, abandoned, executed, staff, failures>>

(* The reserved row, if it still exists, gets the result. *)
StoreResult(h) ==
  /\ hpc[h] = "store"
  /\ hpc' = [hpc EXCEPT ![h] = "idle"]
  /\ hrow' = [hrow EXCEPT ![h] = NoRow]
  /\ tools' = {IF t = hrow[h] THEN [t EXCEPT !.done = TRUE] ELSE t : t \in tools}
  /\ UNCHANGED <<stay, sessionVars, messages, abandoned, executed, staff, failures>>

(* Threads hs end with what they have in hand, and no result is stored. *)
LetGo(hs) ==
  /\ failures < MaxFailures
  /\ failures' = failures + 1
  /\ hpc' = [h \in Handlers |-> IF h \in hs THEN "idle" ELSE hpc[h]]
  /\ hrow' = [h \in Handlers |-> IF h \in hs THEN NoRow ELSE hrow[h]]
  /\ abandoned' =
       abandoned \cup {t \in tools : \E h \in hs : hpc[h] # "idle" /\ hrow[h] = t}

(* execute_tool itself raises: the arguments are refused by a validator of  *)
(* the schema, whose ValueError is among the details that json.dumps is     *)
(* given.  The tool has not run, and the view catches nothing.              *)
ToolRaises(h) ==
  /\ hpc[h] = "execute"
  /\ LetGo({h})
  /\ UNCHANGED <<stay, sessionVars, messages, tools, executed, staff>>

(* The UPDATE that stores the result finds the database locked for longer   *)
(* than it waits, and raises.                                               *)
StoreFails(h) ==
  /\ hpc[h] = "store"
  /\ LetGo({h})
  /\ UNCHANGED <<stay, sessionVars, messages, tools, executed, staff>>

-----------------------------------------------------------------------------
(* ResetView.post: active sessions of the stay are invalidated, its rows    *)
(* deleted, the stay id rotated.                                            *)
Reset ==
  /\ stay < MaxStays
  /\ stay' = stay + 1
  /\ session' = [s \in Sessions |->
                   IF session[s] = "active" /\ boundTo[s] = stay THEN "reset" ELSE session[s]]
  /\ messages' = {m \in messages : m[1] # stay}
  /\ tools' = {t \in tools : t.stay # stay}
  /\ abandoned' = {t \in abandoned : t.stay # stay}
  /\ UNCHANGED <<boundTo, history, overdue, hpc, hrow, executed, staff, failures>>

(* The web process dies with everything it was doing. *)
WebCrash ==
  /\ session' = [s \in Sessions |-> IF session[s] \in Opening THEN "none" ELSE session[s]]
  /\ LetGo(Handlers)
  /\ UNCHANGED <<stay, boundTo, history, overdue, messages, tools, executed, staff>>

Next ==
  \/ \E s \in Sessions :
       \/ BuildSession(s) \/ UpstreamFails(s) \/ UpstreamAnswers(s)
       \/ ExpireOverdue(s) \/ DeleteOld(s) \/ CreateSession(s)
       \/ ExpiryPasses(s) \/ CloseSession(s) \/ RefusePost(s)
       \/ \E e \in Events : PostMessage(s, e)
       \/ \E h \in Handlers, q \in RequestIds, c \in CallIds : PostTool(h, s, q, c)
  \/ \E h \in Handlers :
       ExecuteTool(h) \/ StoreResult(h) \/ ToolRaises(h) \/ StoreFails(h)
  \/ Reset
  \/ WebCrash

Spec == Init /\ [][Next]_vars

-----------------------------------------------------------------------------
(* Properties *)

(* Every variable has its type, and a handler at work a reserved row. *)
TypeOK ==
  /\ stay \in Stays
  /\ session \in [Sessions -> SessionStates]
  /\ boundTo \in [Sessions -> Stays \cup {0}]
  /\ history \in [Sessions -> Stays \cup {0}]
  /\ overdue \subseteq Sessions
  /\ messages \subseteq Stays \X Events
  /\ tools \subseteq ToolRow /\ IsFiniteSet(tools)
  /\ hpc \in [Handlers -> {"idle", "execute", "store"}]
  /\ hrow \in [Handlers -> ToolRow \cup {NoRow}]
  /\ \A h \in Handlers : hpc[h] # "idle" => hrow[h] \in ToolRow
  /\ abandoned \subseteq ToolRow
  /\ executed \in [Stays \X CallIds -> Nat]
  /\ staff \subseteq Stays \X CallIds
  /\ failures \in 0..MaxFailures

(* "Events from an old browser session cannot enter a new stay", and none   *)
(* is left of an earlier one: every transcript and tool row is of the       *)
(* current stay, although a session created across a reset may be active    *)
(* for a stay that is over, and tools outlive the stay they were called in. *)
RowsOnlyCurrentStay ==
  /\ \A m \in messages : m[1] = stay
  /\ \A t \in tools : t.stay = stay

(* "Duplicate delivery cannot create duplicate actions": a tool call of the *)
(* model is executed at most once, whichever tabs and requests repeat it.   *)
ToolRunsOnce == \A k \in DOMAIN executed : executed[k] <= 1

(* A request never gets more tool rows than the limit, with several threads *)
(* reserving rows for it.                                                   *)
ToolLimitKept ==
  \A n \in Stays, q \in RequestIds : Cardinality(RowsOf(n, q)) <= ToolLimit

(* A reserved call stays "tool_in_progress" only because its own thread     *)
(* ended, by an exception or with the process: any other row without its    *)
(* result is in the hands of a thread that is about to store it, whatever   *)
(* became of the session, and of other threads, meanwhile.                  *)
ReservationIsHeld ==
  \A t \in tools :
    ~t.done => t \in abandoned \/ \E h \in Handlers : hpc[h] # "idle" /\ hrow[h] = t

(* What ties the rows to the handlers, inductive where ToolRunsOnce is not. *)
(* Nothing knows a stay that is still to come ...                           *)
Reserved(n, c) == \E t \in tools : t.stay = n /\ t.call = c

NothingFromTheFuture ==
  /\ \A s \in Sessions : boundTo[s] <= stay
  /\ \A h \in Handlers : hpc[h] # "idle" => hrow[h].stay <= stay
  /\ \A k \in DOMAIN executed : executed[k] # 0 => k[1] <= stay

(* ... and a call is in the hands of one handler, which has not executed it *)
(* before, and remains reserved as long as its stay lasts.                  *)
OneHandlerPerCall ==
  /\ \A g, h \in Handlers :
       /\ hpc[g] # "idle" /\ hpc[h] # "idle"
       /\ hrow[g].stay = hrow[h].stay /\ hrow[g].call = hrow[h].call
       => g = h
  /\ \A h \in Handlers : hpc[h] = "execute" => executed[<<hrow[h].stay, hrow[h].call>>] = 0
  /\ \A h \in Handlers :
       hpc[h] # "idle" =>
         hrow[h].done = FALSE /\ (hrow[h].stay = stay => Reserved(stay, hrow[h].call))
  /\ \A c \in CallIds : executed[<<stay, c>>] # 0 => Reserved(stay, c)

(* A result comes from an execution: a row that is answered, and a thread   *)
(* about to answer one, stand for a call that was executed; and a stay has  *)
(* one row for a call, so that nobody is shown two answers to it.           *)
AnsweredWasExecuted ==
  /\ \A t \in tools : t.done => executed[<<t.stay, t.call>>] = 1
  /\ \A h \in Handlers : hpc[h] = "store" => executed[<<hrow[h].stay, hrow[h].call>>] = 1
  /\ \A t, u \in tools : t.stay = u.stay /\ t.call = u.call => t = u

(* A row in hand that is still there is the row as it was reserved.         *)
InHandIsStored ==
  \A h \in Handlers : hpc[h] # "idle" /\ hrow[h].stay = stay => hrow[h] \in tools

(* The safety of the realtime rows in one inductive invariant. *)
RealtimeInv ==
  /\ TypeOK
  /\ RowsOnlyCurrentStay
  /\ ToolRunsOnce
  /\ ToolLimitKept
  /\ ReservationIsHeld
  /\ NothingFromTheFuture
  /\ OneHandlerPerCall
  /\ AnsweredWasExecuted
  /\ InHandIsStored

(* A session that was closed, reset or expired is never active again, even  *)
(* if a request was being validated meanwhile.                              *)
OverIsOver ==
  [][\A s \in Sessions :
       session[s] \in Over => session'[s] \in {session[s], "deleted"}]_vars

(* A tool row with its result is not touched until a reset deletes it, and  *)
(* only a reset deletes a row: a replayed call keeps its one answer.        *)
ResultIsFinal ==
  [][\A t \in tools :
       \/ t \in tools'
       \/ t.done = FALSE /\ [t EXCEPT !.done = TRUE] \in tools'
       \/ stay' # stay]_vars

(* "The transcript below is memory from this same private stay": what an    *)
(* active session was given to remember is of the stay it is bound to.      *)
HistoryIsOwnStay ==
  \A s \in Sessions : session[s] = "active" => history[s] = boundTo[s]

(* The tool calls keep the ledger's promise: reserved, executed, answered,  *)
(* each once and in this order, with several tabs and threads, retried      *)
(* posts, sessions that end, threads that raise and a server that dies      *)
(* meanwhile.  An execution that outlives its stay changes nothing but that *)
(* it took place: "a tool call from an expired session cannot create a      *)
(* staff request".                                                          *)
Key(row) == <<row.stay, row.call>>

CallPhase ==
  [c \in CallIds |->
     IF ~Reserved(stay, c) THEN "new"
     ELSE IF \E t \in tools : Key(t) = <<stay, c>> /\ t.done THEN "answered"
     ELSE "reserved"]

Orphaned(h) == hpc[h] = "execute" /\ hrow[h].stay < stay
Orphans     == {Key(hrow[h]) : h \in {g \in Handlers : Orphaned(g)}}

Ledger == INSTANCE ToolLedger
            WITH phase <- CallPhase, orphans <- Orphans, asked <- staff

LedgerRefinement == Ledger!LedgerSpec
=============================================================================
