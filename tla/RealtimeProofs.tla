--------------------------- MODULE RealtimeProofs ---------------------------
(***************************************************************************)
(* RealtimeSessions for every set of sessions, threads, requests, calls    *)
(* and events and every bound.                                             *)
(***************************************************************************)
EXTENDS RealtimeSessions, FiniteSetTheorems, TLAPS

(* Storing a result replaces the reserved row, or changes nothing. *)
LEMMA StoredRows ==
  ASSUME TypeOK, NEW h \in Handlers, StoreResult(h)
  PROVE  /\ tools' \subseteq (tools \ {hrow[h]}) \cup {[hrow[h] EXCEPT !.done = TRUE]}
         /\ hrow[h] \notin tools => tools' = tools
         /\ tools' \subseteq ToolRow
         /\ IsFiniteSet(tools')
         /\ \A n, c : Reserved(n, c) => Reserved(n, c)'
<1> DEFINE row == hrow[h]
           done == [row EXCEPT !.done = TRUE]
<1>1. row \in ToolRow /\ done \in ToolRow
  BY DEF StoreResult, TypeOK, ToolRow
<1>2. tools' = {IF t = row THEN done ELSE t : t \in tools}
  BY <1>1 DEF StoreResult
<1>3. tools' \subseteq (tools \ {row}) \cup {done}
  BY <1>2
<1>4. row \notin tools => tools' = tools
  BY <1>2
<1>5. IsFiniteSet((tools \ {row}) \cup {done})
  BY FS_RemoveElement, FS_AddElement DEF TypeOK
<1>6. IsFiniteSet(tools')
  BY <1>3, <1>5, FS_Subset
<1>7. done.stay = row.stay /\ done.call = row.call
  BY <1>1 DEF ToolRow
<1>8. \A n, c : Reserved(n, c) => Reserved(n, c)'
  BY <1>2, <1>7 DEF Reserved
<1>9. QED
  BY <1>1, <1>3, <1>4, <1>6, <1>8 DEF TypeOK

(* What PostTool does with row, the new row of call c and request q. *)
Posted(h, q, c, row) ==
  /\ row.stay = stay /\ row.req = q /\ row.call = c /\ row.done = FALSE
  /\ tools' = tools \cup {row} /\ IsFiniteSet(tools')
  /\ hpc[h] = "idle" /\ hpc' = [hpc EXCEPT ![h] = "execute"]
  /\ hrow' = [hrow EXCEPT ![h] = row]
  /\ ~Reserved(stay, c)
  /\ Cardinality(RowsOf(stay, q)) < ToolLimit
  /\ UNCHANGED <<stay, sessionVars, messages, abandoned, executed, staff, failures>>

(* A posted call gets a new row of the current stay, in the hands of h. *)
LEMMA PostedRow ==
  ASSUME TypeOK, NEW h \in Handlers, NEW s \in Sessions, NEW q \in RequestIds,
         NEW c \in CallIds, PostTool(h, s, q, c)
  PROVE  \E row \in ToolRow : Posted(h, q, c, row)
<1> DEFINE row == [stay |-> stay, req |-> q, call |-> c, done |-> FALSE]
<1>1. row \in ToolRow
  BY DEF TypeOK, ToolRow
<1>2. /\ Reserve(h, row)
      /\ Cardinality(RowsOf(stay, q)) < ToolLimit
      /\ \A t \in tools : t.stay = stay => t.call # c
      /\ UNCHANGED <<stay, sessionVars, messages, abandoned, executed, staff, failures>>
  BY DEF PostTool, Valid
<1>3. IsFiniteSet(tools \cup {row})
  BY FS_AddElement DEF TypeOK
<1> HIDE DEF row
<1>4. row.stay = stay /\ row.req = q /\ row.call = c /\ row.done = FALSE
  BY DEF row
<1>5. QED
  BY <1>1, <1>2, <1>3, <1>4 DEF Reserve, Reserved, Posted

(* Every step keeps the types. *)
LEMMA TypeStep == TypeOK /\ [Next]_vars => TypeOK'
<1> SUFFICES ASSUME TypeOK, [Next]_vars PROVE TypeOK'
  OBVIOUS
<1> USE RealtimeAssumption DEF TypeOK, SessionStates, Opening, Over, Stays, ToolRow,
      sessionVars, toolVars
<1>1. ASSUME NEW s \in Sessions, BuildSession(s) PROVE TypeOK'
  BY <1>1 DEF BuildSession
<1>2. ASSUME NEW s \in Sessions, UpstreamFails(s) PROVE TypeOK'
  BY <1>2 DEF UpstreamFails
<1>3. ASSUME NEW s \in Sessions, UpstreamAnswers(s) PROVE TypeOK'
  BY <1>3 DEF UpstreamAnswers
<1>4. ASSUME NEW s \in Sessions, ExpireOverdue(s) PROVE TypeOK'
  BY <1>4 DEF ExpireOverdue
<1>5. ASSUME NEW s \in Sessions, DeleteOld(s) PROVE TypeOK'
  BY <1>5 DEF DeleteOld
<1>6. ASSUME NEW s \in Sessions, CreateSession(s) PROVE TypeOK'
  BY <1>6 DEF CreateSession
<1>7. ASSUME NEW s \in Sessions, ExpiryPasses(s) PROVE TypeOK'
  BY <1>7 DEF ExpiryPasses
<1>8. ASSUME NEW s \in Sessions, CloseSession(s) PROVE TypeOK'
  BY <1>8 DEF CloseSession
<1>9. ASSUME NEW s \in Sessions, RefusePost(s) PROVE TypeOK'
  BY <1>9 DEF RefusePost, Valid
<1>10. ASSUME NEW s \in Sessions, NEW e \in Events, PostMessage(s, e) PROVE TypeOK'
  BY <1>10 DEF PostMessage, Valid
<1>11. ASSUME NEW h \in Handlers, NEW s \in Sessions, NEW q \in RequestIds,
              NEW c \in CallIds, PostTool(h, s, q, c)
       PROVE  TypeOK'
  <2>1. PICK row \in ToolRow : Posted(h, q, c, row)
    BY <1>11, PostedRow
  <2>2. QED
    BY <2>1 DEF Posted
<1>12. ASSUME NEW h \in Handlers, ExecuteTool(h) PROVE TypeOK'
  BY <1>12 DEF ExecuteTool
<1>13. ASSUME NEW h \in Handlers, StoreResult(h) PROVE TypeOK'
  BY <1>13, StoredRows DEF StoreResult
<1>14. ASSUME Reset PROVE TypeOK'
  BY <1>14, FS_Subset DEF Reset
<1>15. ASSUME WebCrash PROVE TypeOK'
  BY <1>15 DEF WebCrash, LetGo
<1>16. ASSUME NEW h \in Handlers, ToolRaises(h) \/ StoreFails(h) PROVE TypeOK'
  BY <1>16 DEF ToolRaises, StoreFails, LetGo
<1>17. CASE UNCHANGED vars
  BY <1>17 DEF vars, sessionVars, toolVars
<1>18. QED
  BY <1>1, <1>2, <1>3, <1>4, <1>5, <1>6, <1>7, <1>8, <1>9, <1>10, <1>11, <1>12, <1>13,
     <1>14, <1>15, <1>16, <1>17 DEF Next

(* Every variable keeps its type: TypeOK is an invariant. *)
THEOREM TypeCorrect == Spec => []TypeOK
<1>1. Init => TypeOK
  BY RealtimeAssumption, FS_EmptySet DEF Init, TypeOK, SessionStates, Stays
<1>2. QED
  BY <1>1, TypeStep, PTL DEF Spec

(* No session, handler or execution is of a stay that is still to come. *)
LEMMA FutureStep ==
  ASSUME TypeOK, NothingFromTheFuture, [Next]_vars
  PROVE  NothingFromTheFuture'
<1> USE RealtimeAssumption DEF TypeOK, Stays, ToolRow, sessionVars, toolVars,
      NothingFromTheFuture
<1>1. ASSUME NEW s \in Sessions, BuildSession(s) PROVE NothingFromTheFuture'
  BY <1>1 DEF BuildSession
<1>2. ASSUME NEW s \in Sessions, UpstreamFails(s) PROVE NothingFromTheFuture'
  BY <1>2 DEF UpstreamFails
<1>3. ASSUME NEW s \in Sessions, UpstreamAnswers(s) PROVE NothingFromTheFuture'
  BY <1>3 DEF UpstreamAnswers
<1>4. ASSUME NEW s \in Sessions, ExpireOverdue(s) PROVE NothingFromTheFuture'
  BY <1>4 DEF ExpireOverdue
<1>5. ASSUME NEW s \in Sessions, DeleteOld(s) PROVE NothingFromTheFuture'
  BY <1>5 DEF DeleteOld
<1>6. ASSUME NEW s \in Sessions, CreateSession(s) PROVE NothingFromTheFuture'
  BY <1>6 DEF CreateSession
<1>7. ASSUME NEW s \in Sessions, ExpiryPasses(s) PROVE NothingFromTheFuture'
  BY <1>7 DEF ExpiryPasses
<1>8. ASSUME NEW s \in Sessions, CloseSession(s) PROVE NothingFromTheFuture'
  BY <1>8 DEF CloseSession
<1>9. ASSUME NEW s \in Sessions, RefusePost(s) PROVE NothingFromTheFuture'
  BY <1>9 DEF RefusePost
<1>10. ASSUME NEW s \in Sessions, NEW e \in Events, PostMessage(s, e)
       PROVE  NothingFromTheFuture'
  BY <1>10 DEF PostMessage
<1>11. ASSUME NEW h \in Handlers, NEW s \in Sessions, NEW q \in RequestIds,
              NEW c \in CallIds, PostTool(h, s, q, c)
       PROVE  NothingFromTheFuture'
  <2>1. PICK row \in ToolRow : Posted(h, q, c, row)
    BY <1>11, PostedRow
  <2>2. QED
    BY <2>1 DEF Posted
<1>12. ASSUME NEW h \in Handlers, ExecuteTool(h) PROVE NothingFromTheFuture'
  BY <1>12 DEF ExecuteTool
<1>13. ASSUME NEW h \in Handlers, StoreResult(h) PROVE NothingFromTheFuture'
  BY <1>13 DEF StoreResult
<1>14. ASSUME Reset PROVE NothingFromTheFuture'
  BY <1>14 DEF Reset
<1>15. ASSUME WebCrash PROVE NothingFromTheFuture'
  BY <1>15 DEF WebCrash, LetGo
<1>16. ASSUME NEW h \in Handlers, ToolRaises(h) \/ StoreFails(h) PROVE NothingFromTheFuture'
  BY <1>16 DEF ToolRaises, StoreFails, LetGo
<1>17. CASE UNCHANGED vars
  BY <1>17 DEF vars, sessionVars, toolVars
<1>18. QED
  BY <1>1, <1>2, <1>3, <1>4, <1>5, <1>6, <1>7, <1>8, <1>9, <1>10, <1>11, <1>12, <1>13,
     <1>14, <1>15, <1>16, <1>17 DEF Next

(* Only rows of the current stay are stored, and a reset erases them. *)
LEMMA RowsStep ==
  ASSUME TypeOK, RowsOnlyCurrentStay, [Next]_vars
  PROVE  RowsOnlyCurrentStay'
<1> USE RealtimeAssumption DEF TypeOK, Stays, ToolRow, sessionVars, toolVars,
      RowsOnlyCurrentStay
<1>1. ASSUME NEW s \in Sessions, BuildSession(s) PROVE RowsOnlyCurrentStay'
  BY <1>1 DEF BuildSession
<1>2. ASSUME NEW s \in Sessions, UpstreamFails(s) PROVE RowsOnlyCurrentStay'
  BY <1>2 DEF UpstreamFails
<1>3. ASSUME NEW s \in Sessions, UpstreamAnswers(s) PROVE RowsOnlyCurrentStay'
  BY <1>3 DEF UpstreamAnswers
<1>4. ASSUME NEW s \in Sessions, ExpireOverdue(s) PROVE RowsOnlyCurrentStay'
  BY <1>4 DEF ExpireOverdue
<1>5. ASSUME NEW s \in Sessions, DeleteOld(s) PROVE RowsOnlyCurrentStay'
  BY <1>5 DEF DeleteOld
<1>6. ASSUME NEW s \in Sessions, CreateSession(s) PROVE RowsOnlyCurrentStay'
  BY <1>6 DEF CreateSession
<1>7. ASSUME NEW s \in Sessions, ExpiryPasses(s) PROVE RowsOnlyCurrentStay'
  BY <1>7 DEF ExpiryPasses
<1>8. ASSUME NEW s \in Sessions, CloseSession(s) PROVE RowsOnlyCurrentStay'
  BY <1>8 DEF CloseSession
<1>9. ASSUME NEW s \in Sessions, RefusePost(s) PROVE RowsOnlyCurrentStay'
  BY <1>9 DEF RefusePost
<1>10. ASSUME NEW s \in Sessions, NEW e \in Events, PostMessage(s, e)
       PROVE  RowsOnlyCurrentStay'
  BY <1>10 DEF PostMessage, Valid
<1>11. ASSUME NEW h \in Handlers, NEW s \in Sessions, NEW q \in RequestIds,
              NEW c \in CallIds, PostTool(h, s, q, c)
       PROVE  RowsOnlyCurrentStay'
  <2>1. PICK row \in ToolRow : Posted(h, q, c, row)
    BY <1>11, PostedRow
  <2>2. QED
    BY <2>1 DEF Posted
<1>12. ASSUME NEW h \in Handlers, ExecuteTool(h) PROVE RowsOnlyCurrentStay'
  BY <1>12 DEF ExecuteTool
<1>13. ASSUME NEW h \in Handlers, StoreResult(h) PROVE RowsOnlyCurrentStay'
  BY <1>13, StoredRows DEF StoreResult
<1>14. ASSUME Reset PROVE RowsOnlyCurrentStay'
  BY <1>14 DEF Reset
<1>15. ASSUME WebCrash PROVE RowsOnlyCurrentStay'
  BY <1>15 DEF WebCrash, LetGo
<1>16. ASSUME NEW h \in Handlers, ToolRaises(h) \/ StoreFails(h) PROVE RowsOnlyCurrentStay'
  BY <1>16 DEF ToolRaises, StoreFails, LetGo
<1>17. CASE UNCHANGED vars
  BY <1>17 DEF vars, sessionVars, toolVars
<1>18. QED
  BY <1>1, <1>2, <1>3, <1>4, <1>5, <1>6, <1>7, <1>8, <1>9, <1>10, <1>11, <1>12, <1>13,
     <1>14, <1>15, <1>16, <1>17 DEF Next

(* A call is executed by its one handler, and reserved while its stay lasts. *)
LEMMA HandlerStep ==
  ASSUME TypeOK, RowsOnlyCurrentStay, NothingFromTheFuture, OneHandlerPerCall, [Next]_vars
  PROVE  OneHandlerPerCall'
<1> USE RealtimeAssumption DEF TypeOK, Stays, ToolRow, sessionVars, toolVars,
      OneHandlerPerCall, Reserved
<1>1. ASSUME NEW s \in Sessions, BuildSession(s) PROVE OneHandlerPerCall'
  BY <1>1 DEF BuildSession
<1>2. ASSUME NEW s \in Sessions, UpstreamFails(s) PROVE OneHandlerPerCall'
  BY <1>2 DEF UpstreamFails
<1>3. ASSUME NEW s \in Sessions, UpstreamAnswers(s) PROVE OneHandlerPerCall'
  BY <1>3 DEF UpstreamAnswers
<1>4. ASSUME NEW s \in Sessions, ExpireOverdue(s) PROVE OneHandlerPerCall'
  BY <1>4 DEF ExpireOverdue
<1>5. ASSUME NEW s \in Sessions, DeleteOld(s) PROVE OneHandlerPerCall'
  BY <1>5 DEF DeleteOld
<1>6. ASSUME NEW s \in Sessions, CreateSession(s) PROVE OneHandlerPerCall'
  BY <1>6 DEF CreateSession
<1>7. ASSUME NEW s \in Sessions, ExpiryPasses(s) PROVE OneHandlerPerCall'
  BY <1>7 DEF ExpiryPasses
<1>8. ASSUME NEW s \in Sessions, CloseSession(s) PROVE OneHandlerPerCall'
  BY <1>8 DEF CloseSession
<1>9. ASSUME NEW s \in Sessions, RefusePost(s) PROVE OneHandlerPerCall'
  BY <1>9 DEF RefusePost
<1>10. ASSUME NEW s \in Sessions, NEW e \in Events, PostMessage(s, e)
       PROVE  OneHandlerPerCall'
  BY <1>10 DEF PostMessage
<1>11. ASSUME NEW h \in Handlers, NEW s \in Sessions, NEW q \in RequestIds,
              NEW c \in CallIds, PostTool(h, s, q, c)
       PROVE  OneHandlerPerCall'
  <2>1. PICK row \in ToolRow : Posted(h, q, c, row)
    BY <1>11, PostedRow
  <2>2. QED
    BY <2>1 DEF Posted
<1>12. ASSUME NEW h \in Handlers, ExecuteTool(h) PROVE OneHandlerPerCall'
  BY <1>12 DEF ExecuteTool
<1>13. ASSUME NEW h \in Handlers, StoreResult(h) PROVE OneHandlerPerCall'
  <2> HIDE DEF Reserved
  <2>1. /\ hpc[h] = "store" /\ hpc' = [hpc EXCEPT ![h] = "idle"]
        /\ hrow' = [hrow EXCEPT ![h] = NoRow]
        /\ UNCHANGED <<stay, executed>>
    BY <1>13 DEF StoreResult
  <2>2. \A n, c : Reserved(n, c) => Reserved(n, c)'
    BY <1>13, StoredRows
  <2>3. QED
    BY <2>1, <2>2
<1>14. ASSUME Reset PROVE OneHandlerPerCall'
  BY <1>14 DEF Reset, NothingFromTheFuture
<1>15. ASSUME WebCrash PROVE OneHandlerPerCall'
  BY <1>15 DEF WebCrash, LetGo
<1>16. ASSUME NEW h \in Handlers, ToolRaises(h) \/ StoreFails(h) PROVE OneHandlerPerCall'
  BY <1>16 DEF ToolRaises, StoreFails, LetGo
<1>17. CASE UNCHANGED vars
  BY <1>17 DEF vars, sessionVars, toolVars
<1>18. QED
  BY <1>1, <1>2, <1>3, <1>4, <1>5, <1>6, <1>7, <1>8, <1>9, <1>10, <1>11, <1>12, <1>13,
     <1>14, <1>15, <1>16, <1>17 DEF Next

(* A call is executed only by a handler that has not executed it before. *)
LEMMA OnceStep ==
  ASSUME TypeOK, OneHandlerPerCall, ToolRunsOnce, [Next]_vars
  PROVE  ToolRunsOnce'
<1> USE RealtimeAssumption DEF TypeOK, Stays, ToolRow, sessionVars, toolVars, ToolRunsOnce
<1>1. ASSUME NEW s \in Sessions, BuildSession(s) PROVE ToolRunsOnce'
  BY <1>1 DEF BuildSession
<1>2. ASSUME NEW s \in Sessions, UpstreamFails(s) PROVE ToolRunsOnce'
  BY <1>2 DEF UpstreamFails
<1>3. ASSUME NEW s \in Sessions, UpstreamAnswers(s) PROVE ToolRunsOnce'
  BY <1>3 DEF UpstreamAnswers
<1>4. ASSUME NEW s \in Sessions, ExpireOverdue(s) PROVE ToolRunsOnce'
  BY <1>4 DEF ExpireOverdue
<1>5. ASSUME NEW s \in Sessions, DeleteOld(s) PROVE ToolRunsOnce'
  BY <1>5 DEF DeleteOld
<1>6. ASSUME NEW s \in Sessions, CreateSession(s) PROVE ToolRunsOnce'
  BY <1>6 DEF CreateSession
<1>7. ASSUME NEW s \in Sessions, ExpiryPasses(s) PROVE ToolRunsOnce'
  BY <1>7 DEF ExpiryPasses
<1>8. ASSUME NEW s \in Sessions, CloseSession(s) PROVE ToolRunsOnce'
  BY <1>8 DEF CloseSession
<1>9. ASSUME NEW s \in Sessions, RefusePost(s) PROVE ToolRunsOnce'
  BY <1>9 DEF RefusePost
<1>10. ASSUME NEW s \in Sessions, NEW e \in Events, PostMessage(s, e)
       PROVE  ToolRunsOnce'
  BY <1>10 DEF PostMessage
<1>11. ASSUME NEW h \in Handlers, NEW s \in Sessions, NEW q \in RequestIds,
              NEW c \in CallIds, PostTool(h, s, q, c)
       PROVE  ToolRunsOnce'
  <2>1. PICK row \in ToolRow : Posted(h, q, c, row)
    BY <1>11, PostedRow
  <2>2. QED
    BY <2>1 DEF Posted
<1>12. ASSUME NEW h \in Handlers, ExecuteTool(h) PROVE ToolRunsOnce'
  BY <1>12 DEF ExecuteTool, OneHandlerPerCall
<1>13. ASSUME NEW h \in Handlers, StoreResult(h) PROVE ToolRunsOnce'
  BY <1>13 DEF StoreResult
<1>14. ASSUME Reset PROVE ToolRunsOnce'
  BY <1>14 DEF Reset
<1>15. ASSUME WebCrash PROVE ToolRunsOnce'
  BY <1>15 DEF WebCrash, LetGo
<1>16. ASSUME NEW h \in Handlers, ToolRaises(h) \/ StoreFails(h) PROVE ToolRunsOnce'
  BY <1>16 DEF ToolRaises, StoreFails, LetGo
<1>17. CASE UNCHANGED vars
  BY <1>17 DEF vars, sessionVars, toolVars
<1>18. QED
  BY <1>1, <1>2, <1>3, <1>4, <1>5, <1>6, <1>7, <1>8, <1>9, <1>10, <1>11, <1>12, <1>13,
     <1>14, <1>15, <1>16, <1>17 DEF Next

(* The rows of a request grow only when it is below the limit.              *)
LEMMA LimitStep ==
  ASSUME TypeOK, ToolLimitKept, [Next]_vars
  PROVE  ToolLimitKept'
<1> SUFFICES ASSUME NEW n \in Stays, NEW q \in RequestIds
             PROVE  Cardinality(RowsOf(n, q))' <= ToolLimit
  BY DEF ToolLimitKept
<1> DEFINE old == RowsOf(n, q)
           new == {t \in tools' : t.stay = n /\ t.req = q}
<1>1. /\ RowsOf(n, q)' = new
      /\ old \subseteq tools /\ IsFiniteSet(old)
      /\ Cardinality(old) \in Nat /\ Cardinality(old) <= ToolLimit
  BY FS_Subset, FS_CardinalityType DEF RowsOf, TypeOK, ToolLimitKept
<1>2. ASSUME new \subseteq old PROVE Cardinality(new) <= ToolLimit
  <2>1. Cardinality(new) \in Nat /\ Cardinality(new) <= Cardinality(old)
    BY <1>1, <1>2, FS_Subset, FS_CardinalityType
  <2>2. QED
    BY <1>1, <2>1, RealtimeAssumption
<1>3. ASSUME NEW h \in Handlers, NEW s \in Sessions, NEW p \in RequestIds, NEW
             c \in CallIds, PostTool(h, s, p, c)
      PROVE  Cardinality(new) <= ToolLimit
  <2>1. PICK row \in ToolRow : Posted(h, p, c, row)
    BY <1>3, PostedRow
  <2>2. CASE n = stay /\ q = p
    <3>1. new = old \cup {row}
      BY <2>1, <2>2 DEF RowsOf, Posted
    <3>2. Cardinality(new) <= Cardinality(old) + 1
      <4>1. Cardinality(old \cup {row}) = IF row \in old THEN Cardinality(old)
                                                        ELSE Cardinality(old) + 1
        BY <1>1, FS_AddElement
      <4> HIDE DEF old, new
      <4>2. QED
        BY <1>1, <3>1, <4>1
    <3>3. Cardinality(old) < ToolLimit
      BY <2>1, <2>2 DEF Posted
    <3>4. Cardinality(new) \in Nat
      BY <1>1, <3>1, FS_AddElement, FS_CardinalityType
    <3>5. QED
      BY <1>1, <3>2, <3>3, <3>4, RealtimeAssumption
  <2>3. CASE ~(n = stay /\ q = p)
    <3>1. new \subseteq old
      BY <2>1, <2>3 DEF RowsOf, Posted
    <3>2. QED
      BY <1>2, <3>1
  <2>4. QED
    BY <2>2, <2>3
<1>4. ASSUME NEW h \in Handlers, StoreResult(h) PROVE Cardinality(new) <= ToolLimit
  <2> DEFINE row == hrow[h]
             done == [row EXCEPT !.done = TRUE]
  <2>1. row \in ToolRow /\ done.stay = row.stay /\ done.req = row.req
    BY <1>4 DEF StoreResult, TypeOK, ToolRow
  <2>2. tools' = {IF t = row THEN done ELSE t : t \in tools}
    BY <1>4 DEF StoreResult
  <2>3. CASE row \in old
    <3>1. new \subseteq (old \ {row}) \cup {done}
      BY <2>1, <2>2, <2>3 DEF RowsOf
    <3>2. /\ IsFiniteSet(old \ {row})
          /\ Cardinality(old \ {row}) = Cardinality(old) - 1
      BY <1>1, <2>3, FS_RemoveElement
    <3>3. /\ IsFiniteSet((old \ {row}) \cup {done})
          /\ Cardinality((old \ {row}) \cup {done}) <= Cardinality(old)
          /\ Cardinality((old \ {row}) \cup {done}) \in Nat
      <4> DEFINE less == old \ {row}
      <4>1. IsFiniteSet(less) /\ Cardinality(less) = Cardinality(old) - 1
        BY <3>2
      <4> HIDE DEF less, done
      <4>2. /\ IsFiniteSet(less \cup {done})
            /\ Cardinality(less \cup {done}) = IF done \in less THEN Cardinality(less)
                                                ELSE Cardinality(less) + 1
        BY <4>1, FS_AddElement
      <4>3. Cardinality(less \cup {done}) <= Cardinality(old)
        BY <1>1, <4>1, <4>2
      <4>4. Cardinality(less \cup {done}) \in Nat
        BY <4>2, FS_CardinalityType
      <4>5. QED
        BY <4>2, <4>3, <4>4 DEF less
    <3>4. /\ Cardinality(new) <= Cardinality((old \ {row}) \cup {done})
          /\ Cardinality(new) \in Nat
      BY <3>1, <3>3, FS_Subset, FS_CardinalityType
    <3>5. QED
      BY <1>1, <3>3, <3>4, RealtimeAssumption
  <2>4. CASE row \notin old
    <3>1. new \subseteq old
      BY <2>1, <2>2, <2>4 DEF RowsOf
    <3>2. QED
      BY <1>2, <3>1
  <2>5. QED
    BY <2>3, <2>4
<1>5. CASE tools' \subseteq tools
  BY <1>2, <1>5 DEF RowsOf
<1>6. ASSUME ~\E h \in Handlers : StoreResult(h) \/ \E s \in Sessions, p \in
             RequestIds, c \in CallIds : PostTool(h, s, p, c)
      PROVE  tools' \subseteq tools
  BY <1>6 DEF Next, vars, sessionVars, toolVars, BuildSession, UpstreamFails,
     UpstreamAnswers,
     ExpireOverdue, DeleteOld, CreateSession, ExpiryPasses, CloseSession, RefusePost,
     PostMessage, ExecuteTool, ToolRaises, StoreFails, Reset, WebCrash
<1>7. QED
  BY <1>1, <1>3, <1>4, <1>5, <1>6

(* A row without its result stays with the thread that reserved it, unless *)
(* the thread ends.                                                         *)
LEMMA HeldStep ==
  ASSUME TypeOK, OneHandlerPerCall, ReservationIsHeld, [Next]_vars,
         NEW t \in tools', ~t.done
  PROVE  t \in abandoned' \/ \E g \in Handlers : hpc'[g] # "idle" /\ hrow'[g] = t
<1> DEFINE Held == t \in abandoned' \/ \E g \in Handlers : hpc'[g] # "idle" /\ hrow'[g] = t
<1> USE DEF TypeOK, sessionVars, toolVars
<1>1. ASSUME UNCHANGED <<tools, hpc, hrow, abandoned>> PROVE Held
  BY <1>1 DEF ReservationIsHeld
<1>2. ASSUME NEW h \in Handlers, NEW s \in Sessions, NEW q \in RequestIds,
             NEW c \in CallIds, PostTool(h, s, q, c)
      PROVE  Held
  <2>1. PICK row \in ToolRow : Posted(h, q, c, row)
    BY <1>2, PostedRow
  <2>2. CASE t = row
    BY <2>1, <2>2 DEF Posted
  <2>3. CASE t \in tools /\ t \notin abandoned
    <3>1. PICK g \in Handlers : hpc[g] # "idle" /\ hrow[g] = t
      BY <2>3 DEF ReservationIsHeld
    <3>2. QED
      BY <2>1, <3>1 DEF Posted
  <2>4. QED
    BY <2>1, <2>2, <2>3 DEF Posted
<1>3. ASSUME NEW h \in Handlers, ExecuteTool(h) PROVE Held
  <2>1. t \in tools /\ UNCHANGED <<hrow, abandoned>> /\ hpc' = [hpc EXCEPT ![h] = "store"]
    BY <1>3 DEF ExecuteTool
  <2>2. QED
    BY <2>1 DEF ReservationIsHeld
<1>4. ASSUME NEW h \in Handlers, StoreResult(h) PROVE Held
  <2>1. t \in tools /\ t # hrow[h]
    <3>1. /\ hrow[h] \in ToolRow /\ ~hrow[h].done
          /\ t \in (tools \ {hrow[h]}) \cup {[hrow[h] EXCEPT !.done = TRUE]}
      BY <1>4, StoredRows DEF StoreResult, OneHandlerPerCall
    <3>2. [hrow[h] EXCEPT !.done = TRUE].done
      BY <3>1 DEF ToolRow
    <3>3. QED
      BY <3>1, <3>2
  <2>2. t \in abandoned \/ \E g \in Handlers : hpc[g] # "idle" /\ hrow[g] = t
    BY <2>1 DEF ReservationIsHeld
  <2>3. QED
    BY <1>4, <2>1, <2>2 DEF StoreResult
<1>5. ASSUME NEW hs \in SUBSET Handlers, LetGo(hs), UNCHANGED tools PROVE Held
  <2>1. CASE t \in abandoned
    BY <1>5, <2>1 DEF LetGo
  <2>2. ASSUME NEW g \in Handlers, hpc[g] # "idle", hrow[g] = t PROVE Held
    BY <1>5, <2>2 DEF LetGo
  <2>3. QED
    BY <1>5, <2>1, <2>2 DEF ReservationIsHeld
<1>6. ASSUME NEW h \in Handlers, ToolRaises(h) \/ StoreFails(h) PROVE Held
  BY <1>5, <1>6 DEF ToolRaises, StoreFails
<1>7. CASE WebCrash
  BY <1>5, <1>7 DEF WebCrash
<1>8. CASE Reset
  <2>1. /\ t \in tools /\ t.stay # stay /\ UNCHANGED <<hpc, hrow>>
        /\ abandoned' = {u \in abandoned : u.stay # stay}
    BY <1>8 DEF Reset
  <2>2. QED
    BY <2>1 DEF ReservationIsHeld
<1>9. ASSUME ~\E h \in Handlers : \/ ExecuteTool(h) \/ StoreResult(h)
                                 \/ ToolRaises(h) \/ StoreFails(h)
                                 \/ \E s \in Sessions, q \in RequestIds, c \in CallIds :
                                      PostTool(h, s, q, c),
             ~Reset, ~WebCrash
      PROVE  UNCHANGED <<tools, hpc, hrow, abandoned>>
  BY <1>9 DEF Next, vars, BuildSession, UpstreamFails, UpstreamAnswers, ExpireOverdue,
     DeleteOld, CreateSession, ExpiryPasses, CloseSession, RefusePost, PostMessage
<1>10. QED
  BY <1>1, <1>2, <1>3, <1>4, <1>6, <1>7, <1>8, <1>9

(* Some threads end, and the tool calls stay as they are. *)
LetsGo ==
  /\ \E hs \in SUBSET Handlers : LetGo(hs)
  /\ UNCHANGED <<stay, tools, executed, staff>>

(* What can happen to the tool calls, whatever else a step does. *)
LEMMA ToolSteps ==
  ASSUME TypeOK, [Next]_vars
  PROVE  \/ UNCHANGED <<stay, tools, hpc, hrow, executed, staff>>
         \/ \E h \in Handlers, q \in RequestIds, c \in CallIds, row \in ToolRow :
              Posted(h, q, c, row)
         \/ \E h \in Handlers : ExecuteTool(h) \/ StoreResult(h)
         \/ LetsGo
         \/ Reset
<1>1. ASSUME NEW h \in Handlers, NEW s \in Sessions, NEW q \in RequestIds,
             NEW c \in CallIds, PostTool(h, s, q, c)
      PROVE  \E row \in ToolRow : Posted(h, q, c, row)
  BY <1>1, PostedRow
<1>2. ASSUME NEW h \in Handlers, ToolRaises(h) \/ StoreFails(h) PROVE LetsGo
  BY <1>2 DEF ToolRaises, StoreFails, LetsGo
<1>3. CASE WebCrash
  BY <1>3 DEF WebCrash, LetsGo
<1>4. ASSUME ~\E h \in Handlers : \/ ExecuteTool(h) \/ StoreResult(h)
                                 \/ ToolRaises(h) \/ StoreFails(h)
                                 \/ \E s \in Sessions, q \in RequestIds, c \in CallIds :
                                      PostTool(h, s, q, c),
             ~Reset, ~WebCrash
      PROVE  UNCHANGED <<stay, tools, hpc, hrow, executed, staff>>
  BY <1>4 DEF Next, vars, toolVars, BuildSession, UpstreamFails, UpstreamAnswers, ExpireOverdue,
     DeleteOld, CreateSession, ExpiryPasses, CloseSession, RefusePost, PostMessage
<1>5. QED
  BY <1>1, <1>2, <1>3, <1>4

(* Results come from executions, and calls keep one row. *)
LEMMA AnsweredStep ==
  ASSUME TypeOK, NothingFromTheFuture, OneHandlerPerCall, AnsweredWasExecuted, [Next]_vars
  PROVE  AnsweredWasExecuted'
<1> USE DEF TypeOK, ToolRow, AnsweredWasExecuted
<1>1. CASE UNCHANGED <<stay, tools, hpc, hrow, executed, staff>>
  BY <1>1
<1>2. ASSUME NEW h \in Handlers, NEW q \in RequestIds, NEW c \in CallIds,
             NEW row \in ToolRow, Posted(h, q, c, row)
      PROVE  AnsweredWasExecuted'
  BY <1>2 DEF Posted, Reserved
<1>3. ASSUME NEW h \in Handlers, ExecuteTool(h) PROVE AnsweredWasExecuted'
  <2> DEFINE k == <<hrow[h].stay, hrow[h].call>>
  <2>1. /\ hpc[h] = "execute" /\ hpc' = [hpc EXCEPT ![h] = "store"]
        /\ executed' = [executed EXCEPT ![k] = @ + 1]
        /\ k \in Stays \X CallIds /\ executed[k] = 0
        /\ UNCHANGED <<tools, hrow>>
    BY <1>3 DEF ExecuteTool, OneHandlerPerCall, toolVars
  <2>2. ASSUME NEW t \in tools, t.done PROVE executed'[<<t.stay, t.call>>] = 1
    BY <2>1, <2>2
  <2>3. ASSUME NEW g \in Handlers, hpc'[g] = "store"
        PROVE  executed'[<<hrow[g].stay, hrow[g].call>>] = 1
    BY <2>1, <2>3
  <2>4. QED
    BY <2>1, <2>2, <2>3
<1>4. ASSUME NEW h \in Handlers, StoreResult(h) PROVE AnsweredWasExecuted'
  <2> DEFINE row  == hrow[h]
             done == [row EXCEPT !.done = TRUE]
  <2>1. /\ row \in ToolRow /\ executed[<<row.stay, row.call>>] = 1
        /\ done.stay = row.stay /\ done.call = row.call
        /\ hpc' = [hpc EXCEPT ![h] = "idle"] /\ hrow' = [hrow EXCEPT ![h] = NoRow]
        /\ UNCHANGED executed
    BY <1>4 DEF StoreResult
  <2>2. /\ tools' \subseteq (tools \ {row}) \cup {done}
        /\ row \notin tools => tools' = tools
    BY <1>4, StoredRows
  <2> HIDE DEF row, done
  <2>3. \A t \in tools' : t.done => executed[<<t.stay, t.call>>] = 1
    BY <2>1, <2>2
  <2>4. \A t, u \in tools' : t.stay = u.stay /\ t.call = u.call => t = u
    BY <2>1, <2>2
  <2>5. \A g \in Handlers : hpc'[g] = "store" =>
          executed[<<hrow'[g].stay, hrow'[g].call>>] = 1
    BY <2>1
  <2>6. QED
    BY <2>1, <2>3, <2>4, <2>5
<1>5. CASE Reset
  BY <1>5 DEF Reset
<1>6. CASE LetsGo
  BY <1>6 DEF LetsGo, LetGo
<1>7. QED
  BY <1>1, <1>2, <1>3, <1>4, <1>5, <1>6, ToolSteps

(* A row of the current stay stays stored until its result is.              *)
LEMMA InHandStep ==
  ASSUME TypeOK, NothingFromTheFuture, OneHandlerPerCall, InHandIsStored, [Next]_vars
  PROVE  InHandIsStored'
<1> USE DEF TypeOK, ToolRow, InHandIsStored
<1>1. CASE UNCHANGED <<stay, tools, hpc, hrow, executed, staff>>
  BY <1>1
<1>2. ASSUME NEW h \in Handlers, NEW q \in RequestIds, NEW c \in CallIds,
             NEW row \in ToolRow, Posted(h, q, c, row)
      PROVE  InHandIsStored'
  BY <1>2 DEF Posted
<1>3. ASSUME NEW h \in Handlers, ExecuteTool(h) PROVE InHandIsStored'
  BY <1>3 DEF ExecuteTool
<1>4. ASSUME NEW h \in Handlers, StoreResult(h) PROVE InHandIsStored'
  <2>1. ASSUME NEW g \in Handlers \ {h}, hpc[g] # "idle", hrow[g].stay = stay
        PROVE  hrow[g] \in tools'
    <3>1. hrow[g] \in tools /\ hrow[g] # hrow[h]
      BY <1>4, <2>1 DEF StoreResult, OneHandlerPerCall
    <3>2. QED
      BY <1>4, <3>1 DEF StoreResult
  <2>2. QED
    BY <1>4, <2>1 DEF StoreResult
<1>5. CASE Reset
  <2>1. ASSUME NEW g \in Handlers, hpc[g] # "idle" PROVE hrow[g].stay # stay'
    BY <1>5, <2>1 DEF Reset, NothingFromTheFuture, Stays
  <2>2. QED
    BY <1>5, <2>1 DEF Reset
<1>6. CASE LetsGo
  BY <1>6 DEF LetsGo, LetGo
<1>7. QED
  BY <1>1, <1>2, <1>3, <1>4, <1>5, <1>6, ToolSteps

(* RealtimeInv is inductive. *)
THEOREM RealtimeInvariant == Spec => []RealtimeInv
<1>1. Init => RealtimeInv
  <2>1. Init => TypeOK
    BY RealtimeAssumption, FS_EmptySet DEF Init, TypeOK, SessionStates, Stays
  <2>2. Init => ToolLimitKept
    BY RealtimeAssumption, FS_EmptySet DEF Init, ToolLimitKept, RowsOf
  <2>3. QED
    BY <2>1, <2>2 DEF Init, RealtimeInv, RowsOnlyCurrentStay, ToolRunsOnce,
       ReservationIsHeld, NothingFromTheFuture, OneHandlerPerCall, AnsweredWasExecuted,
       InHandIsStored, Stays, TypeOK
<1>2. RealtimeInv /\ [Next]_vars => RealtimeInv'
  <2> SUFFICES ASSUME RealtimeInv, [Next]_vars PROVE RealtimeInv'
    OBVIOUS
  <2>1. ReservationIsHeld'
    BY HeldStep DEF RealtimeInv, ReservationIsHeld
  <2>2. QED
    BY <2>1, TypeStep, RowsStep, OnceStep, LimitStep, FutureStep, HandlerStep, AnsweredStep,
       InHandStep DEF RealtimeInv
<1>3. QED
  BY <1>1, <1>2, PTL DEF Spec

(* No transcript or tool row of an earlier stay is ever stored.             *)
THEOREM NoRowOfAnEarlierStay == Spec => []RowsOnlyCurrentStay
<1>1. RealtimeInv => RowsOnlyCurrentStay
  BY DEF RealtimeInv
<1>2. QED
  BY <1>1, RealtimeInvariant, PTL

(* No call of the model is executed twice. *)
THEOREM CallsExecuteOnce == Spec => []ToolRunsOnce
<1>1. RealtimeInv => ToolRunsOnce
  BY DEF RealtimeInv
<1>2. QED
  BY <1>1, RealtimeInvariant, PTL

(* No request gets more tool rows than the limit. *)
THEOREM LimitHolds == Spec => []ToolLimitKept
<1>1. RealtimeInv => ToolLimitKept
  BY DEF RealtimeInv
<1>2. QED
  BY <1>1, RealtimeInvariant, PTL

(* A reserved row without its result is in the hands of a thread, or the    *)
(* thread it was in the hands of has ended.                                 *)
THEOREM ReservationsAreHeld == Spec => []ReservationIsHeld
<1>1. RealtimeInv => ReservationIsHeld
  BY DEF RealtimeInv
<1>2. QED
  BY <1>1, RealtimeInvariant, PTL

(* A session that is over stays over. *)
THEOREM OverStaysOver == Spec => OverIsOver
<1>1. ASSUME TypeOK, [Next]_vars, NEW s \in Sessions, session[s] \in Over
      PROVE  session'[s] \in {session[s], "deleted"}
  BY <1>1 DEF TypeOK, Over, Overdue, Opening, Next, vars, sessionVars, toolVars,
     BuildSession,
     UpstreamFails, UpstreamAnswers, ExpireOverdue, DeleteOld, CreateSession, ExpiryPasses,
     CloseSession, RefusePost, PostMessage, PostTool, ExecuteTool, StoreResult, ToolRaises,
     StoreFails, Reset, WebCrash
<1>2. TypeOK /\ [Next]_vars =>
        [\A s \in Sessions : session[s] \in Over => session'[s] \in {session[s], "deleted"}]_vars
  BY <1>1
<1>3. QED
  BY <1>2, TypeCorrect, PTL DEF Spec, OverIsOver

(* Only a reset takes a stored result away. *)
THEOREM ResultsAreFinal == Spec => ResultIsFinal
<1> DEFINE Kept(t) == \/ t \in tools'
                      \/ t.done = FALSE /\ [t EXCEPT !.done = TRUE] \in tools'
                      \/ stay' # stay
<1>1. ASSUME RealtimeInv, [Next]_vars, NEW t \in tools PROVE Kept(t)
  <2>1. CASE \E h \in Handlers, s \in Sessions, q \in RequestIds, c \in CallIds :
               PostTool(h, s, q, c)
    BY <2>1 DEF PostTool, Reserve
  <2>2. ASSUME NEW h \in Handlers, StoreResult(h) PROVE Kept(t)
    BY <1>1, <2>2 DEF StoreResult, RealtimeInv, OneHandlerPerCall
  <2>3. CASE Reset
    BY <1>1, <2>3 DEF Reset, RealtimeInv, TypeOK, Stays
  <2>4. ASSUME ~\E h \in Handlers : StoreResult(h) \/ \E s \in Sessions, q \in RequestIds,
                                     c \in CallIds : PostTool(h, s, q, c),
               ~Reset
        PROVE  tools' = tools
    BY <1>1, <2>4 DEF Next, vars, sessionVars, toolVars, BuildSession, UpstreamFails,
       UpstreamAnswers, ExpireOverdue, DeleteOld, CreateSession, ExpiryPasses, CloseSession,
       RefusePost, PostMessage, ExecuteTool, ToolRaises, StoreFails, WebCrash
  <2>5. QED
    BY <2>1, <2>2, <2>3, <2>4
<1>2. RealtimeInv /\ [Next]_vars => [\A t \in tools : Kept(t)]_vars
  BY <1>1
<1>3. QED
  BY <1>2, RealtimeInvariant, PTL DEF Spec, ResultIsFinal

-----------------------------------------------------------------------------
(* The ledger of tool calls *)

LedgerVars == <<stay, CallPhase, Orphans, executed, staff>>

(* Where a call of the current stay stands, now and after a step. *)
LEMMA PhaseOfCall ==
  ASSUME NEW c \in CallIds
  PROVE  CallPhase[c] =
           IF ~Reserved(stay, c) THEN "new"
           ELSE IF \E t \in tools : Key(t) = <<stay, c>> /\ t.done THEN "answered"
           ELSE "reserved"
BY DEF CallPhase

LEMMA PhaseAfter ==
  ASSUME NEW c \in CallIds
  PROVE  CallPhase'[c] =
           IF ~Reserved(stay, c)' THEN "new"
           ELSE IF \E t \in tools' : Key(t) = <<stay', c>> /\ t.done THEN "answered"
           ELSE "reserved"
BY DEF CallPhase, Key

LEMMA PhaseFunction == CallPhase = [c \in CallIds |-> CallPhase[c]]
BY DEF CallPhase

LEMMA PhaseFunctionAfter == CallPhase' = [c \in CallIds |-> CallPhase'[c]]
BY DEF CallPhase

(* The call a thread has in hand is under way, and no other thread has it. *)
LEMMA HandledCall ==
  ASSUME RealtimeInv, NEW h \in Handlers, hpc[h] # "idle"
  PROVE  /\ hrow[h] \in ToolRow /\ Key(hrow[h]) \in Stays \X CallIds
         /\ hrow[h].stay \in Nat /\ stay \in Nat /\ hrow[h].stay <= stay
         /\ \A g \in Handlers : hpc[g] # "idle" /\ Key(hrow[g]) = Key(hrow[h]) => g = h
         /\ hrow[h].stay = stay => CallPhase[hrow[h].call] = "reserved"
         /\ hrow[h].stay < stay => hrow[h] \notin tools
<1> DEFINE row == hrow[h]
<1>1. /\ row \in ToolRow /\ row.stay \in Stays /\ row.call \in CallIds /\ row.stay <= stay
      /\ row.stay \in Nat /\ stay \in Nat
  BY DEF RealtimeInv, TypeOK, ToolRow, NothingFromTheFuture, Stays
<1>2. \A g \in Handlers : hpc[g] # "idle" /\ Key(hrow[g]) = Key(hrow[h]) => g = h
  BY DEF RealtimeInv, OneHandlerPerCall, Key
<1>3. ASSUME row.stay = stay PROVE CallPhase[row.call] = "reserved"
  <2>1. row \in tools /\ ~row.done
    BY <1>3 DEF RealtimeInv, InHandIsStored, OneHandlerPerCall
  <2>2. ~\E t \in tools : Key(t) = <<stay, row.call>> /\ t.done
    BY <1>3, <2>1 DEF RealtimeInv, AnsweredWasExecuted, Key
  <2>3. Reserved(stay, row.call)
    BY <1>3, <2>1 DEF Reserved
  <2>4. QED
    BY <1>1, <2>2, <2>3, PhaseOfCall
<1>4. ASSUME row.stay < stay PROVE row \notin tools
  BY <1>1, <1>4 DEF RealtimeInv, RowsOnlyCurrentStay, TypeOK, Stays
<1>5. QED
  BY <1>1, <1>2, <1>3, <1>4 DEF Key

(* A posted call is entered in the ledger. *)
LEMMA PostReserves ==
  ASSUME RealtimeInv, NEW h \in Handlers, NEW q \in RequestIds, NEW c \in CallIds,
         NEW row \in ToolRow, Posted(h, q, c, row)
  PROVE  Ledger!ReserveCall(c)
<1>1. CallPhase[c] = "new"
  BY PhaseOfCall DEF Posted
<1>2. /\ tools' = tools \cup {row} /\ Key(row) = <<stay, c>> /\ ~row.done
      /\ row.stay = stay /\ row.call = c
      /\ hpc[h] = "idle" /\ hpc' = [hpc EXCEPT ![h] = "execute"]
      /\ hrow' = [hrow EXCEPT ![h] = row] /\ UNCHANGED <<stay, executed, staff>>
  BY DEF Posted, Key, toolVars
<1>3. CallPhase'[c] = "reserved"
  <2>1. Reserved(stay, c)' /\ ~\E t \in tools' : Key(t) = <<stay, c>> /\ t.done
    BY <1>2 DEF Reserved, Posted, Key
  <2>2. QED
    BY <1>2, <2>1, PhaseAfter
<1>4. ASSUME NEW d \in CallIds, d # c
      PROVE  CallPhase'[d] = CallPhase[d]
  <2>1. Reserved(stay, d)' = Reserved(stay, d)
    BY <1>2, <1>4 DEF Reserved
  <2>2. (\E t \in tools' : Key(t) = <<stay, d>> /\ t.done)
          = (\E t \in tools : Key(t) = <<stay, d>> /\ t.done)
    BY <1>2
  <2>3. QED
    BY <1>2, <2>1, <2>2, PhaseOfCall, PhaseAfter
<1>5. CallPhase' = [CallPhase EXCEPT ![c] = "reserved"]
  BY <1>3, <1>4, PhaseFunction, PhaseFunctionAfter
<1>6. Orphans' = Orphans
  <2>1. stay \in Nat
    BY DEF RealtimeInv, TypeOK, Stays
  <2>2. \A g \in Handlers : Orphaned(g)' <=> Orphaned(g)
    BY <1>2, <2>1 DEF Orphaned, RealtimeInv, TypeOK
  <2>3. \A g \in Handlers : Orphaned(g) => hrow'[g] = hrow[g]
    BY <1>2 DEF Orphaned, RealtimeInv, TypeOK
  <2>4. QED
    BY <2>2, <2>3 DEF Orphans
<1>7. QED
  BY <1>1, <1>2, <1>3, <1>5, <1>6 DEF Ledger!ReserveCall, Ledger!Moves

(* A thread executes its call once; past the end of its stay it asks nobody. *)
LEMMA ExecuteExecutes ==
  ASSUME RealtimeInv, NEW h \in Handlers, ExecuteTool(h)
  PROVE  \/ \E c \in CallIds : Ledger!ExecuteCall(c)
         \/ \E k \in Orphans : Ledger!ExecuteOrphan(k)
<1> DEFINE k == Key(hrow[h])
<1>1. /\ hpc[h] = "execute" /\ hpc' = [hpc EXCEPT ![h] = "store"]
      /\ executed' = [executed EXCEPT ![k] = @ + 1]
      /\ staff' \in {staff, IF k[1] = stay THEN staff \cup {k} ELSE staff}
      /\ UNCHANGED <<stay, tools, hrow>>
  BY DEF ExecuteTool, Key
<1>2. /\ k \in Stays \X CallIds /\ hrow[h].stay \in Nat /\ stay \in Nat
      /\ hrow[h].stay <= stay
      /\ k[1] = hrow[h].stay /\ k = <<hrow[h].stay, hrow[h].call>>
      /\ hrow[h].call \in CallIds
      /\ \A g \in Handlers : hpc[g] # "idle" /\ Key(hrow[g]) = k => g = h
      /\ hrow[h].stay = stay => CallPhase[hrow[h].call] = "reserved"
  BY <1>1, HandledCall DEF Key, ToolRow
<1>3. executed[k] = 0 /\ executed' = [executed EXCEPT ![k] = 1]
  <2>1. executed[k] = 0
    BY <1>1 DEF RealtimeInv, OneHandlerPerCall, Key
  <2>2. QED
    BY <1>1, <1>2, <2>1 DEF RealtimeInv, TypeOK
<1>4. CallPhase' = CallPhase
  BY <1>1 DEF CallPhase, Reserved
<1>5. \A g \in Handlers : Orphaned(g)' <=> Orphaned(g) /\ g # h
  BY <1>1 DEF Orphaned, RealtimeInv, TypeOK
<1>6. CASE hrow[h].stay = stay
  <2>1. ~Orphaned(h)
    BY <1>2, <1>6 DEF Orphaned
  <2>2. Orphans' = Orphans
    BY <1>1, <1>5, <2>1 DEF Orphans
  <2>3. Ledger!ExecuteCall(hrow[h].call)
    BY <1>1, <1>2, <1>3, <1>4, <1>6, <2>2 DEF Ledger!ExecuteCall
  <2>4. QED
    BY <1>2, <2>3
<1>7. CASE hrow[h].stay < stay
  <2>1. Orphaned(h)
    BY <1>1, <1>7 DEF Orphaned
  <2>2. \A g \in Handlers : Orphaned(g) /\ Key(hrow[g]) = k => g = h
    BY <1>2 DEF Orphaned
  <2>3. k \in Orphans
    BY <2>1 DEF Orphans
  <2>4. Orphans' = Orphans \ {k}
    <3>1. Orphans' = {Key(hrow[g]) : g \in {f \in Handlers : Orphaned(f) /\ f # h}}
      BY <1>1, <1>5 DEF Orphans
    <3>2. QED
      BY <2>2, <3>1 DEF Orphans
  <2>5. staff' = staff
    BY <1>1, <1>2, <1>7
  <2>6. Ledger!ExecuteOrphan(k)
    BY <1>1, <1>3, <1>4, <2>4, <2>5 DEF Ledger!ExecuteOrphan
  <2>7. QED
    BY <2>3, <2>6
<1>8. QED
  BY <1>2, <1>6, <1>7

(* A result answers the call of its row; when a reset has deleted the row,   *)
(* nothing is to be seen of it.                                              *)
LEMMA StoreAnswers ==
  ASSUME RealtimeInv, NEW h \in Handlers, StoreResult(h)
  PROVE  (\E c \in CallIds : Ledger!AnswerCall(c)) \/ UNCHANGED LedgerVars
<1> DEFINE row  == hrow[h]
           done == [row EXCEPT !.done = TRUE]
           c    == row.call
<1>1. /\ hpc[h] = "store" /\ hpc' = [hpc EXCEPT ![h] = "idle"]
      /\ hrow' = [hrow EXCEPT ![h] = NoRow]
      /\ tools' = {IF t = row THEN done ELSE t : t \in tools}
      /\ UNCHANGED <<stay, executed, staff>>
  BY DEF StoreResult
<1>2. /\ row \in ToolRow /\ c \in CallIds /\ row.stay <= stay
      /\ row.stay \in Nat /\ stay \in Nat /\ Key(row) = <<row.stay, c>> /\ row.call = c
      /\ Key(done) = Key(row) /\ done.stay = row.stay /\ done.call = c /\ done.done
      /\ row.stay = stay => CallPhase[c] = "reserved"
      /\ row.stay < stay => row \notin tools
      /\ executed[<<row.stay, c>>] = 1
  BY <1>1, HandledCall DEF Key, RealtimeInv, AnsweredWasExecuted, ToolRow
<1>3. Orphans' = Orphans
  <2>1. \A g \in Handlers : Orphaned(g)' <=> Orphaned(g)
    BY <1>1 DEF Orphaned, RealtimeInv, TypeOK
  <2>2. \A g \in Handlers : Orphaned(g) => hrow'[g] = hrow[g]
    BY <1>1 DEF Orphaned, RealtimeInv, TypeOK
  <2>3. QED
    BY <2>1, <2>2 DEF Orphans
<1> HIDE DEF row, done, c
<1>4. CASE row.stay = stay
  <2>1. row \in tools
    BY <1>1, <1>4 DEF RealtimeInv, InHandIsStored, row
  <2>2. done \in tools'
    BY <1>1, <2>1
  <2>3. CallPhase'[c] = "answered"
    <3>1. PICK d \in CallIds : d = c
      BY <1>2
    <3>2. Reserved(stay, d)' /\ \E t \in tools' : Key(t) = <<stay', d>> /\ t.done
      BY <1>1, <1>2, <1>4, <2>2, <3>1 DEF Reserved
    <3>3. QED
      BY <3>1, <3>2, PhaseAfter
  <2>4. ASSUME NEW d \in CallIds, d # c PROVE CallPhase'[d] = CallPhase[d]
    <3>1. Reserved(stay, d)' = Reserved(stay, d)
      BY <1>1, <1>2, <2>4 DEF Reserved
    <3>2. (\E t \in tools' : Key(t) = <<stay, d>> /\ t.done)
            = (\E t \in tools : Key(t) = <<stay, d>> /\ t.done)
      BY <1>1, <1>2, <2>4
    <3>3. QED
      BY <1>1, <3>1, <3>2, PhaseOfCall, PhaseAfter
  <2>5. CallPhase' = [CallPhase EXCEPT ![c] = "answered"]
    BY <2>3, <2>4, PhaseFunction, PhaseFunctionAfter
  <2>6. Ledger!AnswerCall(c)
    BY <1>1, <1>2, <1>3, <1>4, <2>3, <2>5 DEF Ledger!AnswerCall, Ledger!Moves
  <2>7. QED
    BY <1>2, <2>6
<1>5. CASE row.stay < stay
  <2>1. tools' = tools
    BY <1>1, <1>2, <1>5
  <2>2. CallPhase' = CallPhase
    BY <1>1, <2>1 DEF CallPhase, Reserved
  <2>3. QED
    BY <1>1, <1>3, <2>2 DEF LedgerVars
<1>6. QED
  BY <1>2, <1>4, <1>5

(* A reset ends the stay of the ledger. *)
LEMMA ResetEnds ==
  ASSUME RealtimeInv, Reset
  PROVE  Ledger!EndStay
<1>1. /\ stay' = stay + 1 /\ stay \in Nat /\ tools' = {t \in tools : t.stay # stay}
      /\ \A t \in tools : t.stay = stay
      /\ UNCHANGED <<hpc, hrow, executed, staff>>
  BY DEF Reset, RealtimeInv, RowsOnlyCurrentStay, TypeOK, Stays
<1>2. CallPhase' = [c \in CallIds |-> "new"]
  BY <1>1 DEF CallPhase, Reserved
<1>3. ASSUME NEW g \in Handlers
      PROVE  /\ Orphaned(g) => Orphaned(g)'
             /\ Orphaned(g)' => Orphaned(g) \/ (hpc[g] = "execute" /\ hrow[g].stay = stay)
  <2>1. hpc[g] = "execute" => hrow[g].stay \in Nat /\ hrow[g].stay <= stay
    BY HandledCall
  <2>2. Orphaned(g)' <=> hpc[g] = "execute" /\ hrow[g].stay < stay + 1
    BY <1>1 DEF Orphaned
  <2>3. QED
    BY <1>1, <2>1, <2>2 DEF Orphaned
<1>4. Orphans \subseteq Orphans'
  BY <1>1, <1>3 DEF Orphans
<1>5. ASSUME NEW k \in Orphans' \ Orphans
      PROVE  k[1] = stay /\ CallPhase[k[2]] = "reserved" /\ executed[k] = 0
  <2>1. PICK g \in Handlers : Orphaned(g)' /\ k = Key(hrow[g])
    BY <1>1, <1>5 DEF Orphans
  <2>2. ~Orphaned(g)
    BY <1>5, <2>1 DEF Orphans
  <2>3. hpc[g] = "execute" /\ hrow[g].stay = stay
    BY <1>3, <2>1, <2>2
  <2>4. CallPhase[hrow[g].call] = "reserved"
    BY <2>3, HandledCall
  <2>5. executed[k] = 0
    BY <2>1, <2>3 DEF RealtimeInv, OneHandlerPerCall, Key
  <2>6. QED
    BY <2>1, <2>3, <2>4, <2>5 DEF Key
<1>6. QED
  BY <1>1, <1>2, <1>4, <1>5 DEF Ledger!EndStay

(* Threads that end, by an exception or with the process, forget what they  *)
(* had in hand.                                                             *)
LEMMA EndedForget ==
  ASSUME RealtimeInv, LetsGo
  PROVE  Ledger!Forget \/ UNCHANGED LedgerVars
<1>1. UNCHANGED <<stay, tools, executed, staff>>
  BY DEF LetsGo
<1>2. CallPhase' = CallPhase
  BY <1>1 DEF CallPhase, Reserved
<1>3. PICK hs \in SUBSET Handlers : LetGo(hs)
  BY DEF LetsGo
<1>4. ASSUME NEW g \in Handlers, Orphaned(g)'
      PROVE  Orphaned(g) /\ hrow'[g] = hrow[g]
  BY <1>1, <1>3, <1>4 DEF LetGo, Orphaned
<1>5. Orphans' \subseteq Orphans
  BY <1>4 DEF Orphans
<1>6. QED
  BY <1>1, <1>2, <1>5 DEF Ledger!Forget, LedgerVars

(* The tool calls of all tabs and threads, together, keep the ledger:       *)
(* RealtimeToolView and its exceptions, ResetView and a death of the web    *)
(* process.                                                                 *)
THEOREM ImplementsLedger == Spec => LedgerRefinement
<1>1. Init => Ledger!LedgerInit
  BY DEF Init, Ledger!LedgerInit, Ledger!Calls, CallPhase, Reserved, Stays, Orphans, Orphaned
<1>2. ASSUME RealtimeInv, [Next]_vars
      PROVE  [Ledger!LedgerNext]_LedgerVars
  <2>1. CASE UNCHANGED <<stay, tools, hpc, hrow, executed, staff>>
    BY <2>1 DEF CallPhase, Reserved, Orphans, Orphaned, LedgerVars
  <2>2. ASSUME NEW h \in Handlers, NEW q \in RequestIds, NEW c \in CallIds,
               NEW row \in ToolRow, Posted(h, q, c, row)
        PROVE  Ledger!LedgerNext
    BY <1>2, <2>2, PostReserves DEF Ledger!LedgerNext
  <2>3. ASSUME NEW h \in Handlers, ExecuteTool(h) PROVE Ledger!LedgerNext
    BY <1>2, <2>3, ExecuteExecutes DEF Ledger!LedgerNext
  <2>4. ASSUME NEW h \in Handlers, StoreResult(h)
        PROVE  Ledger!LedgerNext \/ UNCHANGED LedgerVars
    BY <1>2, <2>4, StoreAnswers DEF Ledger!LedgerNext
  <2>5. CASE Reset
    BY <1>2, <2>5, ResetEnds DEF Ledger!LedgerNext
  <2>6. CASE LetsGo
    BY <1>2, <2>6, EndedForget DEF Ledger!LedgerNext
  <2>7. QED
    BY <1>2, <2>1, <2>2, <2>3, <2>4, <2>5, <2>6, ToolSteps DEF RealtimeInv
<1>3. QED
  BY <1>1, <1>2, RealtimeInvariant, PTL
     DEF Spec, LedgerRefinement, Ledger!LedgerSpec, LedgerVars
=============================================================================
