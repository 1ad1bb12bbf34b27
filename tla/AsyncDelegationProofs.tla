------------------------ MODULE AsyncDelegationProofs ------------------------
(***************************************************************************)
(* Theorems about AsyncDelegation, for any number of handles, tool-call    *)
(* threads, pool threads and restarts.                                     *)
(***************************************************************************)
EXTENDS AsyncDelegation, FiniteSetTheorems, TLAPS

\* The steps of a tool call during which `chandle` names a handle.
HoldsHandle ==
  {"announce", "submit", "settle", "collect", "charge", "expired", "fail", "fail_put"}

\* A tool call works on handles this process holds, what it is about to
\* report is a result, and what it charges or fails it has closed before.
CallerInv == \A c \in Callers :
  /\ cpc[c] \in {"charge", "fail", "fail_put"} => chandle[c] \in collected
  /\ cpc[c] \in HoldsHandle => chandle[c] \in held
  /\ todo[c] \subseteq held
  /\ cpc[c] \in {"collect", "charge"} => canswer[c] \in {"output", "error", "empty"}

\* An offboarding under way is about one of the children.
AdminInv == apc # "idle" => ahandle \in Handles

TypeInv == TypeOK /\ CallerInv /\ AdminInv

\* What a put writes is a document, in the state asked for.
LEMMA Usage == \A s \in Sessions : s.tokens \in {0, 1}
BY DEF Sessions

LEMMA NoSessionIsOne == NoSession \in Sessions
BY DEF Sessions, NoSession, States

LEMMA StateDocument ==
  \A s \in Sessions : \A st \in States :
    InState(s, st) \in Sessions /\ InState(s, st).state = st
BY DEF Sessions, States, InState

LEMMA UsageDocument ==
  \A s \in Sessions : WithUsage(s) \in Sessions /\ WithUsage(s).state = s.state
BY DEF Sessions, States, WithUsage

LEMMA InitTypeInv == Init => TypeInv
BY NoSessionIsOne, ConstantsAssumption
   DEF Init, TypeInv, TypeOK, CallerInv, AdminInv, HoldsHandle, WorkerPcs, Results, CallerPcs

\* The worker thread's steps keep the types.
LEMMA WorkerType ==
  ASSUME TypeInv, NEW h \in Handles, WorkerStep(h) \/ TurnEnds(h) \/ WorkerAsk(h)
  PROVE  TypeInv'
<1> USE NoSessionIsOne DEF TypeInv, TypeOK, CallerInv, AdminInv, LogEvent, EventKinds,
      WorkerPcs, Results, durableVars, tableVars, callerVars, leaderVars, adminVars,
      historyVars, WorkerFetch, WorkerPut
<1>1. CASE WorkerStart(h)
  BY <1>1 DEF WorkerStart
<1>2. CASE WorkerBegin(h)
  BY <1>2 DEF WorkerBegin
<1>3. CASE WorkerRunning(h)
  <2>1. InState(wbuf[h], "running") \in Sessions
    BY StateDocument DEF States
  <2> QED
    BY <1>3, <2>1 DEF WorkerRunning
<1>4. CASE WorkerWaiting(h)
  <2>1. InState(wbuf[h], "waiting_human") \in Sessions
    BY StateDocument DEF States
  <2> QED
    BY <1>4, <2>1 DEF WorkerWaiting
<1>5. CASE WorkerUsage(h)
  <2>1. WithUsage(wbuf[h]) \in Sessions
    BY UsageDocument
  <2> QED
    BY <1>5, <2>1 DEF WorkerUsage
<1>6. CASE WorkerEnd(h)
  BY <1>6 DEF WorkerEnd
<1>7. CASE WorkerSettle(h)
  <2>1. InState(wbuf[h], IF wres[h] = "output" THEN "completed" ELSE "failed") \in Sessions
    BY StateDocument DEF States
  <2> QED
    BY <1>7, <2>1 DEF WorkerSettle
<1>8. CASE WorkerDelivered(h)
  BY <1>8 DEF WorkerDelivered
<1>9. CASE WorkerLate(h)
  BY <1>9 DEF WorkerLate
<1>10. CASE WorkerRestore(h)
  <2>1. InState(wbuf[h], "failed") \in Sessions
    BY StateDocument DEF States
  <2> QED
    BY <1>10, <2>1 DEF WorkerRestore
<1>11. CASE WorkerAnswer(h)
  BY <1>11 DEF WorkerAnswer
<1>12. CASE WorkerFail(h)
  BY <1>12 DEF WorkerFail
<1>13. CASE WorkerRaise(h)
  BY <1>13 DEF WorkerRaise
<1>14. CASE WorkerAsk(h)
  BY <1>14 DEF WorkerAsk
<1> QED
  BY <1>1, <1>2, <1>3, <1>4, <1>5, <1>6, <1>7, <1>8, <1>9, <1>10, <1>11, <1>12, <1>13, <1>14
     DEF WorkerStep, TurnEnds

\* The leader's tool calls keep the types.
LEMMA CallerType == ASSUME TypeInv, NEW c \in Callers, CallerNext(c) PROVE TypeInv'
<1> USE NoSessionIsOne DEF TypeInv, TypeOK, CallerInv, AdminInv, HoldsHandle, LogEvent,
      EventKinds, WorkerPcs, CallerPcs, Known, Answered, durableVars, tableVars,
      workerVars, leaderVars, adminVars, historyVars
<1>1. CASE AssignCheck(c)
  BY <1>1 DEF AssignCheck
<1>2. CASE AssignLog(c)
  BY <1>2 DEF AssignLog
<1>3. CASE AssignSubmit(c)
  BY <1>3 DEF AssignSubmit
<1>4. CASE CheckUnsettled(c)
  BY <1>4 DEF CheckUnsettled
<1>5. CASE CheckSettled(c)
  BY <1>5 DEF CheckSettled
<1>6. CASE GatherAbandon(c)
  BY <1>6 DEF GatherAbandon
<1>7. CASE GatherFetch(c)
  BY <1>7 DEF GatherFetch
<1>8. CASE Collect(c)
  <2>1. CASE chandle[c] \in collected
    <3>1. reports' \in [Handles -> SUBSET Reports]
      BY <1>8, <2>1 DEF Collect, Reports
    <3> QED
      BY <1>8, <2>1, <3>1 DEF Collect
  <2>2. CASE chandle[c] \notin collected
    BY <1>8, <2>2 DEF Collect
  <2> QED
    BY <2>1, <2>2
<1>15. CASE Charge(c) \/ ChargeRaises(c)
  <2>1. cbuf[c].tokens \in {0, 1}
    BY Usage
  <2>2. charged' \in [Handles -> Nat]
    BY <1>15, <2>1 DEF Charge, ChargeRaises
  <2>3. reports' \in [Handles -> SUBSET Reports]
    BY <1>15 DEF Charge, ChargeRaises, Reports
  <2> QED
    BY <1>15, <2>2, <2>3 DEF Charge, ChargeRaises
<1>9. CASE GatherFail(c)
  <2>1. InState(cbuf[c], "failed") \in Sessions
    BY StateDocument DEF States
  <2> QED
    BY <1>9, <2>1 DEF GatherFail, Reports
<1>10. ASSUME NEW h \in Handles, AssignCreate(c, h) PROVE TypeInv'
  <2>1. InState(sess[h], "created") \in Sessions
    BY StateDocument DEF States
  <2> QED
    BY <1>10, <2>1 DEF AssignCreate
<1>11. ASSUME NEW h \in Handles, CheckRead(c, h) PROVE TypeInv'
  BY <1>11 DEF CheckRead
<1>12. ASSUME NEW h \in Handles, GatherResult(c, h) PROVE TypeInv'
  BY <1>12 DEF GatherResult
<1>13. ASSUME NEW h \in Handles, GatherTimeout(c, h) PROVE TypeInv'
  BY <1>13 DEF GatherTimeout
<1>14. ASSUME NEW hs \in SUBSET Handles, Gather(c, hs) PROVE TypeInv'
  BY <1>14 DEF Gather
<1> QED
  BY <1>1, <1>2, <1>3, <1>4, <1>5, <1>6, <1>7, <1>8, <1>9, <1>10, <1>11, <1>12, <1>13, <1>14,
     <1>15
     DEF CallerNext, CallerStep

\* The steps of the leader's run, the administrator and the process.
ProcessStep ==
  \/ LeaderStart \/ LeaderReady \/ LeaderEnd
  \/ \E h \in Handles : SettleLost(h) \/ OffboardSee(h)
  \/ OffboardFetch \/ OffboardFail \/ Restart

LEMMA ProcessType == ASSUME TypeInv, ProcessStep PROVE TypeInv'
<1> USE NoSessionIsOne DEF TypeInv, TypeOK, CallerInv, AdminInv, LogEvent, EventKinds,
      durableVars, tableVars, workerVars, callerVars, leaderVars, adminVars, historyVars
<1>1. CASE LeaderStart
  BY <1>1 DEF LeaderStart, Unsettled, Assigned
<1>2. CASE LeaderReady
  BY <1>2 DEF LeaderReady
<1>3. CASE LeaderEnd
  BY <1>3 DEF LeaderEnd
<1>4. CASE OffboardFetch
  BY <1>4 DEF OffboardFetch
<1>5. CASE OffboardFail
  <2>1. InState(abuf, "failed") \in Sessions
    BY StateDocument DEF States
  <2> QED
    BY <1>5, <2>1 DEF OffboardFail
<1>6. CASE Restart
  <2>1. TypeOK'
    BY <1>6 DEF Restart, WorkerPcs, Results, CallerPcs
  <2>2. CallerInv' /\ AdminInv'
    BY <1>6 DEF Restart, HoldsHandle
  <2> QED
    BY <2>1, <2>2
<1>7. ASSUME NEW h \in Handles, SettleLost(h) PROVE TypeInv'
  <2>1. InState(sess[h], "failed") \in Sessions
    BY StateDocument DEF States
  <2>2. CASE h \in held
    BY <1>7, <2>2 DEF SettleLost
  <2>3. CASE h \notin held
    BY <1>7, <2>1, <2>3 DEF SettleLost
  <2> QED
    BY <2>2, <2>3
<1>8. ASSUME NEW h \in Handles, OffboardSee(h) PROVE TypeInv'
  BY <1>8 DEF OffboardSee
<1> QED
  BY <1>1, <1>2, <1>3, <1>4, <1>5, <1>6, <1>7, <1>8 DEF ProcessStep

LEMMA StutterType == TypeInv /\ UNCHANGED vars => TypeInv'
BY DEF TypeInv, TypeOK, CallerInv, AdminInv, vars, durableVars, tableVars, workerVars,
   callerVars, leaderVars, adminVars, historyVars

LEMMA NextSplit ==
  Next => \/ \E h \in Handles : WorkerStep(h) \/ TurnEnds(h) \/ WorkerAsk(h)
          \/ \E c \in Callers : CallerNext(c)
          \/ ProcessStep
BY DEF Next, ProcessStep

LEMMA TypeInvariant == Spec => []TypeInv
<1>1. TypeInv /\ [Next]_vars => TypeInv'
  BY WorkerType, CallerType, ProcessType, StutterType, NextSplit
<1> QED BY <1>1, InitTypeInv, PTL DEF Spec

\* Every variable stays in its range (the type invariant of AsyncDelegation),
\* whatever the number of threads, handles and restarts.
THEOREM TypeCorrect == Spec => []TypeOK
<1>1. TypeInv => TypeOK
  BY DEF TypeInv
<1> QED BY <1>1, TypeInvariant, PTL
-----------------------------------------------------------------------------
(***************************************************************************)
(* What exists stays in existence.  A child's document is never taken back *)
(* to "absent": record_usage is the one put that keeps the state of an     *)
(* older copy, and that copy was made of a document that existed.          *)
(***************************************************************************)
Marked(h) == \/ h \in held \union lostTodo
             \/ apc # "idle" /\ ahandle = h
             \/ events[h] # {}
             \/ charged[h] > 0
             \/ reports[h] # {}

ExistsInv == \A h \in Handles :
  /\ h \in collected => h \in held
  /\ wpc[h] # "none" => h \in held
  /\ Marked(h) => sess[h].state # "absent"
  /\ wpc[h] = "usage_put" => wbuf[h].state # "absent"

LEMMA InitExists == Init => ExistsInv
BY DEF Init, ExistsInv, Marked

LEMMA ExistsWorker ==
  ASSUME TypeInv, ExistsInv,
         NEW h \in Handles, WorkerStep(h) \/ TurnEnds(h) \/ WorkerAsk(h)
  PROVE  ExistsInv'
<1> USE DEF TypeInv, TypeOK, ExistsInv, Marked, Unsettled, Assigned, LogEvent, durableVars, tableVars, workerVars, callerVars, leaderVars, adminVars, historyVars,
      WorkerFetch, WorkerPut
<1>1. CASE WorkerStart(h)
  BY <1>1 DEF WorkerStart
<1>2. CASE WorkerBegin(h)
  BY <1>2 DEF WorkerBegin
<1>3. CASE WorkerRunning(h)
  <2>1. InState(wbuf[h], "running").state = "running"
    BY StateDocument DEF States
  <2> QED
    BY <1>3, <2>1 DEF WorkerRunning
<1>4. CASE WorkerWaiting(h)
  <2>1. InState(wbuf[h], "waiting_human").state = "waiting_human"
    BY StateDocument DEF States
  <2> QED
    BY <1>4, <2>1 DEF WorkerWaiting
<1>5. CASE WorkerUsage(h)
  <2>1. WithUsage(wbuf[h]).state = wbuf[h].state
    BY UsageDocument
  <2> QED
    BY <1>5, <2>1 DEF WorkerUsage
<1>6. CASE WorkerEnd(h)
  BY <1>6 DEF WorkerEnd
<1>7. CASE WorkerSettle(h)
  <2>1. InState(wbuf[h], IF wres[h] = "output" THEN "completed" ELSE "failed").state =
          IF wres[h] = "output" THEN "completed" ELSE "failed"
    BY StateDocument DEF States
  <2> QED
    BY <1>7, <2>1 DEF WorkerSettle
<1>8. CASE WorkerDelivered(h)
  BY <1>8 DEF WorkerDelivered
<1>9. CASE WorkerLate(h)
  BY <1>9 DEF WorkerLate
<1>10. CASE WorkerRestore(h)
  <2>1. InState(wbuf[h], "failed").state = "failed"
    BY StateDocument DEF States
  <2> QED
    BY <1>10, <2>1 DEF WorkerRestore
<1>11. CASE WorkerAnswer(h)
  BY <1>11 DEF WorkerAnswer
<1>12. CASE WorkerFail(h)
  BY <1>12 DEF WorkerFail
<1>13. CASE WorkerRaise(h)
  BY <1>13 DEF WorkerRaise
<1>14. CASE WorkerAsk(h)
  BY <1>14 DEF WorkerAsk
<1> QED
  BY <1>1, <1>2, <1>3, <1>4, <1>5, <1>6, <1>7, <1>8, <1>9, <1>10, <1>11, <1>12, <1>13, <1>14
     DEF WorkerStep, TurnEnds

LEMMA ExistsCaller ==
  ASSUME TypeInv, ExistsInv, NEW c \in Callers, CallerNext(c)
  PROVE  ExistsInv'
<1> USE DEF TypeInv, TypeOK, CallerInv, HoldsHandle, ExistsInv, Marked, Unsettled, Assigned, LogEvent, Known,
      Answered, durableVars, tableVars, workerVars, callerVars, leaderVars, adminVars, historyVars
<1>1. CASE AssignCheck(c)
  BY <1>1 DEF AssignCheck
<1>2. CASE AssignLog(c)
  BY <1>2 DEF AssignLog
<1>3. CASE AssignSubmit(c)
  BY <1>3 DEF AssignSubmit
<1>4. CASE CheckUnsettled(c)
  BY <1>4 DEF CheckUnsettled
<1>5. CASE CheckSettled(c)
  BY <1>5 DEF CheckSettled
<1>6. CASE GatherAbandon(c)
  BY <1>6 DEF GatherAbandon
<1>7. CASE GatherFetch(c)
  BY <1>7 DEF GatherFetch
<1>8. CASE Collect(c)
  BY <1>8 DEF Collect
<1>15. CASE Charge(c) \/ ChargeRaises(c)
  <2>1. cbuf[c].tokens \in {0, 1}
    BY Usage
  <2> QED
    BY <1>15, <2>1 DEF Charge, ChargeRaises
<1>9. CASE GatherFail(c)
  <2>1. InState(cbuf[c], "failed").state = "failed"
    BY StateDocument DEF States
  <2> QED
    BY <1>9, <2>1 DEF GatherFail
<1>10. ASSUME NEW h \in Handles, AssignCreate(c, h) PROVE ExistsInv'
  <2>1. InState(sess[h], "created").state = "created"
    BY StateDocument DEF States
  <2> QED
    BY <1>10, <2>1 DEF AssignCreate
<1>11. ASSUME NEW h \in Handles, CheckRead(c, h) PROVE ExistsInv'
  BY <1>11 DEF CheckRead
<1>12. ASSUME NEW h \in Handles, GatherResult(c, h) PROVE ExistsInv'
  BY <1>12 DEF GatherResult
<1>13. ASSUME NEW h \in Handles, GatherTimeout(c, h) PROVE ExistsInv'
  BY <1>13 DEF GatherTimeout
<1>14. ASSUME NEW hs \in SUBSET Handles, Gather(c, hs) PROVE ExistsInv'
  BY <1>14 DEF Gather
<1> QED
  BY <1>1, <1>2, <1>3, <1>4, <1>5, <1>6, <1>7, <1>8, <1>9, <1>10, <1>11, <1>12, <1>13, <1>14,
     <1>15
     DEF CallerNext, CallerStep

LEMMA ExistsProcess ==
  ASSUME TypeInv, ExistsInv, ProcessStep
  PROVE  ExistsInv'
<1> USE DEF TypeInv, TypeOK, AdminInv, ExistsInv, Marked, Unsettled, Assigned, LogEvent,
      durableVars, tableVars, workerVars, callerVars, leaderVars, adminVars, historyVars
<1>1. CASE LeaderStart
  BY <1>1 DEF LeaderStart
<1>2. CASE LeaderReady
  BY <1>2 DEF LeaderReady
<1>3. CASE LeaderEnd
  BY <1>3 DEF LeaderEnd
<1>4. CASE OffboardFetch
  BY <1>4 DEF OffboardFetch
<1>5. CASE OffboardFail
  <2>1. InState(abuf, "failed").state = "failed"
    BY StateDocument DEF States
  <2> QED
    BY <1>5, <2>1 DEF OffboardFail
<1>6. CASE Restart
  BY <1>6 DEF Restart
<1>7. ASSUME NEW h \in Handles, SettleLost(h) PROVE ExistsInv'
  <2>1. InState(sess[h], "failed").state = "failed"
    BY StateDocument DEF States
  <2>2. CASE h \in held
    BY <1>7, <2>2 DEF SettleLost
  <2>3. CASE h \notin held
    BY <1>7, <2>1, <2>3 DEF SettleLost
  <2> QED
    BY <2>2, <2>3
<1>8. ASSUME NEW h \in Handles, OffboardSee(h) PROVE ExistsInv'
  BY <1>8 DEF OffboardSee
<1> QED
  BY <1>1, <1>2, <1>3, <1>4, <1>5, <1>6, <1>7, <1>8 DEF ProcessStep

LEMMA ExistsStutter == ExistsInv /\ UNCHANGED vars => ExistsInv'
BY DEF ExistsInv, Marked, vars, durableVars, tableVars, workerVars, leaderVars, adminVars, historyVars

LEMMA ExistsInvariant == Spec => []ExistsInv
<1>1. TypeInv /\ ExistsInv /\ [Next]_vars => ExistsInv'
  BY ExistsWorker, ExistsCaller, ExistsProcess, ExistsStutter, NextSplit
<1> QED BY <1>1, InitExists, TypeInvariant, PTL DEF Spec
-----------------------------------------------------------------------------
(***************************************************************************)
(* The inductive invariant behind the safety properties.                   *)
(*   LostInv    a handle declared lost is held by nobody, and since its     *)
(*              session exists it is never assigned again;                  *)
(*   ChargeInv  a handle is charged by nobody before it is collected, and   *)
(*              after that by the one call that took it, once;              *)
(*   EmptyInv   a result read before the future resolved is in the hands    *)
(*              of a tool call about a given-up handle only;                *)
(*   OpenInv    while the leader's run settles lost handles, what is        *)
(*              unsettled is held or still on its list.                     *)
(***************************************************************************)
LostInv == \A h \in Handles : "assignment_lost" \in events[h] => h \notin held

ChargeInv == \A h \in Handles :
  /\ charged[h] \in {0, 1}
  /\ h \in held \ collected => charged[h] = 0
  /\ \A c \in Callers : cpc[c] = "charge" /\ chandle[c] = h =>
       /\ charged[h] = 0
       /\ \A d \in Callers : cpc[d] = "charge" /\ chandle[d] = h => d = c

EmptyInv ==
  /\ abandoned \subseteq held
  /\ \A c \in Callers :
       cpc[c] \in {"collect", "charge"} /\ canswer[c] = "empty" => chandle[c] \in abandoned
  /\ \A h \in held : "empty" \in reports[h] => h \in abandoned

OpenInv ==
  /\ leader = "settling" => Unsettled \subseteq held \union lostTodo
  /\ leader = "on" => Unsettled \subseteq held

\* A handle given up, its worker finished and no verdict of gather on its way.
GivenUpInv == \A h \in Handles :
  (h \in abandoned /\ wpc[h] = "done") =>
    BeingFailed(h) \/ sess[h].state = "failed"

SafeInv == LostInv /\ ChargeInv /\ EmptyInv /\ OpenInv /\ GivenUpInv

LEMMA InitSafe == Init => SafeInv
BY DEF Init, SafeInv, LostInv, ChargeInv, EmptyInv, OpenInv, GivenUpInv

LEMMA SafeWorker ==
  ASSUME TypeInv, ExistsInv, SafeInv,
         NEW h \in Handles, WorkerStep(h) \/ TurnEnds(h) \/ WorkerAsk(h)
  PROVE  SafeInv'
<1> USE DEF TypeInv, TypeOK, ExistsInv, Marked, SafeInv, LostInv,
      ChargeInv, EmptyInv, OpenInv, GivenUpInv, BeingFailed, Unsettled, Assigned,
      Terminal, LogEvent, durableVars, tableVars, workerVars, callerVars, leaderVars, adminVars, historyVars,
      WorkerFetch, WorkerPut
<1>1. CASE WorkerStart(h)
  BY <1>1 DEF WorkerStart
<1>2. CASE WorkerBegin(h)
  BY <1>2 DEF WorkerBegin
<1>3. CASE WorkerRunning(h)
  <2>1. InState(wbuf[h], "running").state = "running"
    BY StateDocument DEF States
  <2> QED
    BY <1>3, <2>1 DEF WorkerRunning
<1>4. CASE WorkerWaiting(h)
  <2>1. InState(wbuf[h], "waiting_human").state = "waiting_human"
    BY StateDocument DEF States
  <2> QED
    BY <1>4, <2>1 DEF WorkerWaiting
<1>5. CASE WorkerUsage(h)
  <2>1. WithUsage(wbuf[h]).state = wbuf[h].state
    BY UsageDocument
  <2> QED
    BY <1>5, <2>1 DEF WorkerUsage
<1>6. CASE WorkerEnd(h)
  BY <1>6 DEF WorkerEnd
<1>7. CASE WorkerSettle(h)
  <2>1. InState(wbuf[h], IF wres[h] = "output" THEN "completed" ELSE "failed").state =
          IF wres[h] = "output" THEN "completed" ELSE "failed"
    BY StateDocument DEF States
  <2> QED
    BY <1>7, <2>1 DEF WorkerSettle
<1>8. CASE WorkerDelivered(h)
  BY <1>8 DEF WorkerDelivered
<1>9. CASE WorkerLate(h)
  BY <1>9 DEF WorkerLate
<1>10. CASE WorkerRestore(h)
  <2>1. InState(wbuf[h], "failed").state = "failed"
    BY StateDocument DEF States
  <2> QED
    BY <1>10, <2>1 DEF WorkerRestore
<1>11. CASE WorkerAnswer(h)
  BY <1>11 DEF WorkerAnswer
<1>12. CASE WorkerFail(h)
  BY <1>12 DEF WorkerFail
<1>13. CASE WorkerRaise(h)
  BY <1>13 DEF WorkerRaise
<1>14. CASE WorkerAsk(h)
  BY <1>14 DEF WorkerAsk
<1> QED
  BY <1>1, <1>2, <1>3, <1>4, <1>5, <1>6, <1>7, <1>8, <1>9, <1>10, <1>11, <1>12, <1>13, <1>14
     DEF WorkerStep, TurnEnds

LEMMA SafeCaller ==
  ASSUME TypeInv, ExistsInv, SafeInv, NEW c \in Callers, CallerNext(c)
  PROVE  SafeInv'
<1> USE DEF TypeInv, TypeOK, CallerInv, HoldsHandle, ExistsInv, Marked, SafeInv, LostInv,
      ChargeInv, EmptyInv, OpenInv, GivenUpInv, BeingFailed, Unsettled, Assigned,
      Terminal, LogEvent, Known,
      Answered, durableVars, tableVars, workerVars, callerVars, leaderVars, adminVars, historyVars
<1>1. CASE AssignCheck(c)
  BY <1>1 DEF AssignCheck
<1>2. CASE AssignLog(c)
  BY <1>2 DEF AssignLog
<1>3. CASE AssignSubmit(c)
  BY <1>3 DEF AssignSubmit
<1>4. CASE CheckUnsettled(c)
  BY <1>4 DEF CheckUnsettled
<1>5. CASE CheckSettled(c)
  BY <1>5 DEF CheckSettled, Settled, FutureDone
<1>6. CASE GatherAbandon(c)
  BY <1>6 DEF GatherAbandon
<1>7. CASE GatherFetch(c)
  BY <1>7 DEF GatherFetch
<1>8. CASE Collect(c)
  BY <1>8 DEF Collect
<1>15. CASE Charge(c) \/ ChargeRaises(c)
  <2> DEFINE h == chandle[c]
  <2>1. cbuf[c].tokens \in {0, 1}
    BY Usage
  <2>2. /\ h \in Handles /\ h \in held /\ h \in collected /\ cpc[c] = "charge"
        /\ charged[h] = 0
        /\ \A d \in Callers : cpc[d] = "charge" /\ chandle[d] = h => d = c
    BY <1>15 DEF Charge, ChargeRaises
  <2>3. /\ UNCHANGED <<sess, events, held, collected, abandoned, wpc, leader, lostTodo>>
        /\ cpc'[c] \in {"idle", "wait"}
        /\ \A d \in Callers \ {c} : UNCHANGED <<cpc[d], chandle[d], canswer[d]>>
        /\ \E spent \in {0, 1} : charged' = [charged EXCEPT ![h] = @ + spent]
        /\ \E r \in {canswer[c], "raised"} : reports' = [reports EXCEPT ![h] = @ \union {r}]
    BY <1>15, <2>1 DEF Charge, ChargeRaises
  <2> HIDE DEF h
  <2>4. LostInv' /\ OpenInv'
    BY <2>3
  <2>5. GivenUpInv'
    BY <2>2, <2>3 DEF h
  <2>6. EmptyInv'
    BY <2>2, <2>3 DEF h
  <2>7. ChargeInv'
    BY <2>2, <2>3
  <2> QED
    BY <2>4, <2>5, <2>6, <2>7
<1>9. CASE GatherFail(c)
  <2>1. InState(cbuf[c], "failed").state = "failed"
    BY StateDocument DEF States
  <2> QED
    BY <1>9, <2>1 DEF GatherFail
<1>10. ASSUME NEW h \in Handles, AssignCreate(c, h) PROVE SafeInv'
  <2>1. InState(sess[h], "created").state = "created"
    BY StateDocument DEF States
  <2> QED
    BY <1>10, <2>1 DEF AssignCreate
<1>11. ASSUME NEW h \in Handles, CheckRead(c, h) PROVE SafeInv'
  BY <1>11 DEF CheckRead
<1>12. ASSUME NEW h \in Handles, GatherResult(c, h) PROVE SafeInv'
  BY <1>12 DEF GatherResult
<1>13. ASSUME NEW h \in Handles, GatherTimeout(c, h) PROVE SafeInv'
  BY <1>13 DEF GatherTimeout
<1>14. ASSUME NEW hs \in SUBSET Handles, Gather(c, hs) PROVE SafeInv'
  BY <1>14 DEF Gather
<1> QED
  BY <1>1, <1>2, <1>3, <1>4, <1>5, <1>6, <1>7, <1>8, <1>9, <1>10, <1>11, <1>12, <1>13, <1>14,
     <1>15
     DEF CallerNext, CallerStep

LEMMA SafeProcess ==
  ASSUME TypeInv, ExistsInv, SafeInv, ProcessStep
  PROVE  SafeInv'
<1> USE DEF TypeInv, TypeOK, AdminInv, ExistsInv, Marked, SafeInv, LostInv,
      ChargeInv, EmptyInv, OpenInv, GivenUpInv, BeingFailed, Unsettled, Assigned,
      Terminal, LogEvent,
      durableVars, tableVars, workerVars, callerVars, leaderVars, adminVars, historyVars
<1>1. CASE LeaderStart
  BY <1>1 DEF LeaderStart
<1>2. CASE LeaderReady
  BY <1>2 DEF LeaderReady
<1>3. CASE LeaderEnd
  BY <1>3 DEF LeaderEnd
<1>4. CASE OffboardFetch
  BY <1>4 DEF OffboardFetch
<1>5. CASE OffboardFail
  <2>1. InState(abuf, "failed").state = "failed"
    BY StateDocument DEF States
  <2> QED
    BY <1>5, <2>1 DEF OffboardFail
<1>6. CASE Restart
  BY <1>6 DEF Restart
<1>7. ASSUME NEW h \in Handles, SettleLost(h) PROVE SafeInv'
  <2>1. InState(sess[h], "failed").state = "failed"
    BY StateDocument DEF States
  <2>2. CASE h \in held
    BY <1>7, <2>2 DEF SettleLost
  <2>3. CASE h \notin held
    BY <1>7, <2>1, <2>3 DEF SettleLost
  <2> QED
    BY <2>2, <2>3
<1>8. ASSUME NEW h \in Handles, OffboardSee(h) PROVE SafeInv'
  BY <1>8 DEF OffboardSee
<1> QED
  BY <1>1, <1>2, <1>3, <1>4, <1>5, <1>6, <1>7, <1>8 DEF ProcessStep

LEMMA SafeStutter == SafeInv /\ UNCHANGED vars => SafeInv'
BY DEF SafeInv, LostInv, ChargeInv, EmptyInv, OpenInv, GivenUpInv, BeingFailed,
       Unsettled, Assigned, vars, durableVars, tableVars, workerVars, callerVars,
       leaderVars, historyVars

LEMMA SafeInvariant == Spec => []SafeInv
<1>1. TypeInv /\ ExistsInv /\ SafeInv /\ [Next]_vars => SafeInv'
  BY SafeWorker, SafeCaller, SafeProcess, SafeStutter, NextSplit
<1> QED BY <1>1, InitSafe, TypeInvariant, ExistsInvariant, PTL DEF Spec
-----------------------------------------------------------------------------
(***************************************************************************)
(* The theorems.                                                           *)
(***************************************************************************)
\* However many handles, threads and restarts: once a given-up handle's worker
\* has finished and gather has written its verdict (_run_assigned and gather),
\* the store agrees with what the leader was told.
THEOREM StoreKeepsTheVerdict == Spec => []GivenUpStaysFailed
<1>1. SafeInv => GivenUpStaysFailed
  BY DEF SafeInv, GivenUpInv, GivenUpStaysFailed
<1> QED BY <1>1, SafeInvariant, PTL

\* check reports a handle settled without a result only when gather gave the
\* handle up, never in the gap before the worker's future resolves.
THEOREM NoEmptyDeliveryHolds == Spec => []NoEmptyDelivery
<1>1. SafeInv => NoEmptyDelivery
  BY DEF SafeInv, EmptyInv, NoEmptyDelivery
<1> QED BY <1>1, SafeInvariant, PTL

\* _collect under the assignment lock charges a handle's usage at most once,
\* whatever checks and gathers collect it side by side.
THEOREM NeverChargedTwice == Spec => []ChargedOnce
<1>1. SafeInv => ChargedOnce
  BY DEF SafeInv, ChargeInv, ChargedOnce
<1> QED BY <1>1, SafeInvariant, PTL

\* settle_lost_handles declares lost only what no worker runs, across any
\* number of restarts.
THEOREM LostMeansNoWorker == Spec => []LostHasNoWorker
<1>1. TypeInv /\ ExistsInv /\ SafeInv => LostHasNoWorker
  BY DEF TypeInv, TypeOK, ExistsInv, SafeInv, LostInv, LostHasNoWorker
<1> QED BY <1>1, SafeInvariant, ExistsInvariant, TypeInvariant, PTL

\* When a leader's turn begins (run, after settle_lost_handles) every handle
\* still unsettled is one this process holds, after any number of restarts.
THEOREM NothingLostStaysOpen == Spec => []NothingLostIsOpen
<1>1. SafeInv => NothingLostIsOpen
  BY DEF SafeInv, OpenInv, NothingLostIsOpen
<1> QED BY <1>1, SafeInvariant, PTL
-----------------------------------------------------------------------------
(***************************************************************************)
(* What happens to the session of a worker that has finished.              *)
(***************************************************************************)
FinishedStep == \A h \in Handles :
  (wpc[h] = "done" /\ wpc'[h] = "done" /\ sess'[h].state # sess[h].state)
    => sess'[h].state = "failed"

LEMMA FinishedWorker ==
  ASSUME TypeInv, ExistsInv,
         NEW h \in Handles, WorkerStep(h) \/ TurnEnds(h) \/ WorkerAsk(h)
  PROVE  FinishedStep
<1> USE DEF TypeInv, TypeOK, CallerInv, HoldsHandle, AdminInv, ExistsInv, Marked, FinishedStep,
      Terminal, LogEvent, Answered, WorkerFetch, WorkerPut, durableVars, workerVars
<1>1. CASE WorkerStart(h)
  BY <1>1 DEF WorkerStart
<1>2. CASE WorkerBegin(h)
  BY <1>2 DEF WorkerBegin
<1>3. CASE WorkerRunning(h)
  <2>1. InState(wbuf[h], "running").state = "running"
    BY StateDocument DEF States
  <2> QED
    BY <1>3, <2>1 DEF WorkerRunning
<1>4. CASE WorkerWaiting(h)
  <2>1. InState(wbuf[h], "waiting_human").state = "waiting_human"
    BY StateDocument DEF States
  <2> QED
    BY <1>4, <2>1 DEF WorkerWaiting
<1>5. CASE WorkerUsage(h)
  <2>1. WithUsage(wbuf[h]).state = wbuf[h].state
    BY UsageDocument
  <2> QED
    BY <1>5, <2>1 DEF WorkerUsage
<1>6. CASE WorkerEnd(h)
  BY <1>6 DEF WorkerEnd
<1>7. CASE WorkerSettle(h)
  <2>1. InState(wbuf[h], IF wres[h] = "output" THEN "completed" ELSE "failed").state =
          IF wres[h] = "output" THEN "completed" ELSE "failed"
    BY StateDocument DEF States
  <2> QED
    BY <1>7, <2>1 DEF WorkerSettle
<1>8. CASE WorkerDelivered(h)
  BY <1>8 DEF WorkerDelivered
<1>9. CASE WorkerLate(h)
  BY <1>9 DEF WorkerLate
<1>10. CASE WorkerRestore(h)
  <2>1. InState(wbuf[h], "failed").state = "failed"
    BY StateDocument DEF States
  <2> QED
    BY <1>10, <2>1 DEF WorkerRestore
<1>11. CASE WorkerAnswer(h)
  BY <1>11 DEF WorkerAnswer
<1>12. CASE WorkerFail(h)
  BY <1>12 DEF WorkerFail
<1>13. CASE WorkerRaise(h)
  BY <1>13 DEF WorkerRaise
<1>14. CASE WorkerAsk(h)
  BY <1>14 DEF WorkerAsk
<1> QED
  BY <1>1, <1>2, <1>3, <1>4, <1>5, <1>6, <1>7, <1>8, <1>9, <1>10, <1>11, <1>12, <1>13, <1>14
     DEF WorkerStep, TurnEnds

LEMMA FinishedCaller ==
  ASSUME TypeInv, ExistsInv, NEW c \in Callers, CallerNext(c)
  PROVE  FinishedStep
<1> USE DEF TypeInv, TypeOK, CallerInv, HoldsHandle, AdminInv, ExistsInv, Marked, FinishedStep,
      Terminal, LogEvent, Answered, WorkerFetch, WorkerPut, durableVars, workerVars
<1>1. CASE AssignCheck(c)
  BY <1>1 DEF AssignCheck
<1>2. CASE AssignLog(c)
  BY <1>2 DEF AssignLog
<1>3. CASE AssignSubmit(c)
  BY <1>3 DEF AssignSubmit
<1>4. CASE CheckUnsettled(c)
  BY <1>4 DEF CheckUnsettled
<1>5. CASE CheckSettled(c)
  BY <1>5 DEF CheckSettled, Settled, FutureDone
<1>6. CASE GatherAbandon(c)
  BY <1>6 DEF GatherAbandon
<1>7. CASE GatherFetch(c)
  BY <1>7 DEF GatherFetch
<1>8. CASE Collect(c)
  BY <1>8 DEF Collect
<1>15. CASE Charge(c) \/ ChargeRaises(c)
  <2>1. cbuf[c].tokens \in {0, 1}
    BY Usage
  <2> QED
    BY <1>15, <2>1 DEF Charge, ChargeRaises
<1>9. CASE GatherFail(c)
  <2>1. InState(cbuf[c], "failed").state = "failed"
    BY StateDocument DEF States
  <2> QED
    BY <1>9, <2>1 DEF GatherFail
<1>10. ASSUME NEW h \in Handles, AssignCreate(c, h) PROVE FinishedStep
  <2>1. InState(sess[h], "created").state = "created"
    BY StateDocument DEF States
  <2> QED
    BY <1>10, <2>1 DEF AssignCreate
<1>11. ASSUME NEW h \in Handles, CheckRead(c, h) PROVE FinishedStep
  BY <1>11 DEF CheckRead
<1>12. ASSUME NEW h \in Handles, GatherResult(c, h) PROVE FinishedStep
  BY <1>12 DEF GatherResult
<1>13. ASSUME NEW h \in Handles, GatherTimeout(c, h) PROVE FinishedStep
  BY <1>13 DEF GatherTimeout
<1>14. ASSUME NEW hs \in SUBSET Handles, Gather(c, hs) PROVE FinishedStep
  BY <1>14 DEF Gather
<1> QED
  BY <1>1, <1>2, <1>3, <1>4, <1>5, <1>6, <1>7, <1>8, <1>9, <1>10, <1>11, <1>12, <1>13, <1>14,
     <1>15
     DEF CallerNext, CallerStep

LEMMA FinishedProcess ==
  ASSUME TypeInv, ExistsInv, ProcessStep
  PROVE  FinishedStep
<1> USE DEF TypeInv, TypeOK, CallerInv, HoldsHandle, AdminInv, ExistsInv, Marked, FinishedStep,
      Terminal, LogEvent, Answered, WorkerFetch, WorkerPut, durableVars, workerVars
<1>1. CASE LeaderStart
  BY <1>1 DEF LeaderStart
<1>2. CASE LeaderReady
  BY <1>2 DEF LeaderReady
<1>3. CASE LeaderEnd
  BY <1>3 DEF LeaderEnd
<1>4. CASE OffboardFetch
  BY <1>4 DEF OffboardFetch
<1>5. CASE OffboardFail
  <2>1. InState(abuf, "failed").state = "failed"
    BY StateDocument DEF States
  <2> QED
    BY <1>5, <2>1 DEF OffboardFail
<1>6. CASE Restart
  BY <1>6 DEF Restart
<1>7. ASSUME NEW h \in Handles, SettleLost(h) PROVE FinishedStep
  <2>1. InState(sess[h], "failed").state = "failed"
    BY StateDocument DEF States
  <2>2. CASE h \in held
    BY <1>7, <2>2 DEF SettleLost
  <2>3. CASE h \notin held
    BY <1>7, <2>1, <2>3 DEF SettleLost
  <2> QED
    BY <2>2, <2>3
<1>8. ASSUME NEW h \in Handles, OffboardSee(h) PROVE FinishedStep
  BY <1>8 DEF OffboardSee
<1> QED
  BY <1>1, <1>2, <1>3, <1>4, <1>5, <1>6, <1>7, <1>8 DEF ProcessStep

LEMMA FinishedStutter == UNCHANGED vars => FinishedStep
BY DEF FinishedStep, vars, durableVars

\* After its worker finished, a child session's state changes only to failed
\* (gather's deadline, settle_lost_handles, offboard): no older copy written
\* back by set_state or record_usage reopens or completes it.
THEOREM FinishedIsFinal == Spec => FinishedOnlyFails
<1>1. TypeInv /\ ExistsInv /\ [Next]_vars => [FinishedStep]_vars
  BY FinishedWorker, FinishedCaller, FinishedProcess, FinishedStutter, NextSplit
<1>2. Spec => [][FinishedStep]_vars
  BY <1>1, TypeInvariant, ExistsInvariant, PTL DEF Spec
<1> QED BY <1>2 DEF FinishedOnlyFails, FinishedStep
-----------------------------------------------------------------------------
(***************************************************************************)
(* The delegation implements HandleContract.  Most steps are stutters: they *)
(* leave the table, the charges and what was told alone, and bring no       *)
(* document into being.                                                     *)
(***************************************************************************)
Quiet ==
  /\ UNCHANGED <<held, collected, charged, reports>>
  /\ \A h \in Handles : BeingCharged(h)' <=> BeingCharged(h)
  /\ \A h \in Handles : sess'[h].state = "absent" <=> sess[h].state = "absent"

LEMMA QuietIsStutter == Quiet => UNCHANGED Contract!vars
BY DEF Quiet, Contract!vars, Phase

LEMMA InitContract == Init => Contract!Init
BY DEF Init, Contract!Init, Phase, NoSession, BeingCharged

\* A call that neither begins nor ends charging leaves open who is charged.
LEMMA SameCharges ==
  ASSUME NEW c \in Callers, TypeOK, TypeOK', cpc[c] # "charge", cpc'[c] # "charge",
         \A d \in Callers \ {c} : cpc'[d] = cpc[d] /\ chandle'[d] = chandle[d]
  PROVE  /\ \A h \in Handles : BeingCharged(h)' <=> BeingCharged(h)
         /\ {h \in Handles : BeingCharged(h)}' = {h \in Handles : BeingCharged(h)}
BY DEF BeingCharged

LEMMA QuietWorker ==
  ASSUME TypeInv, ExistsInv,
         NEW h \in Handles, WorkerStep(h) \/ TurnEnds(h) \/ WorkerAsk(h)
  PROVE  Quiet
<1> USE DEF TypeInv, TypeOK, ExistsInv, Marked, Quiet, WorkerFetch, WorkerPut,
      durableVars, tableVars, callerVars, historyVars, BeingCharged
<1>1. CASE WorkerStart(h)
  BY <1>1 DEF WorkerStart
<1>2. CASE WorkerBegin(h)
  BY <1>2 DEF WorkerBegin
<1>3. CASE WorkerRunning(h)
  <2>1. InState(wbuf[h], "running").state = "running"
    BY StateDocument DEF States
  <2> QED
    BY <1>3, <2>1 DEF WorkerRunning
<1>4. CASE WorkerWaiting(h)
  <2>1. InState(wbuf[h], "waiting_human").state = "waiting_human"
    BY StateDocument DEF States
  <2> QED
    BY <1>4, <2>1 DEF WorkerWaiting
<1>5. CASE WorkerUsage(h)
  <2>1. WithUsage(wbuf[h]).state = wbuf[h].state
    BY UsageDocument
  <2> QED
    BY <1>5, <2>1 DEF WorkerUsage
<1>6. CASE WorkerEnd(h)
  BY <1>6 DEF WorkerEnd
<1>7. CASE WorkerSettle(h)
  <2>1. InState(wbuf[h], IF wres[h] = "output" THEN "completed" ELSE "failed").state # "absent"
    BY StateDocument DEF States
  <2> QED
    BY <1>7, <2>1 DEF WorkerSettle
<1>8. CASE WorkerDelivered(h)
  BY <1>8 DEF WorkerDelivered
<1>9. CASE WorkerLate(h)
  BY <1>9 DEF WorkerLate
<1>10. CASE WorkerRestore(h)
  <2>1. InState(wbuf[h], "failed").state = "failed"
    BY StateDocument DEF States
  <2> QED
    BY <1>10, <2>1 DEF WorkerRestore
<1>11. CASE WorkerAnswer(h)
  BY <1>11 DEF WorkerAnswer
<1>12. CASE WorkerFail(h)
  BY <1>12 DEF WorkerFail
<1>13. CASE WorkerRaise(h)
  BY <1>13 DEF WorkerRaise
<1>14. CASE WorkerAsk(h)
  BY <1>14 DEF WorkerAsk
<1> QED
  BY <1>1, <1>2, <1>3, <1>4, <1>5, <1>6, <1>7, <1>8, <1>9, <1>10, <1>11, <1>12, <1>13, <1>14
     DEF WorkerStep, TurnEnds

LEMMA ContractCaller ==
  ASSUME TypeInv, ExistsInv, SafeInv, NEW c \in Callers, CallerNext(c)
  PROVE  Contract!Next \/ UNCHANGED Contract!vars
<1> USE DEF TypeInv, TypeOK, CallerInv, HoldsHandle, ExistsInv, Marked,
      durableVars, tableVars, historyVars
<1> DEFINE Same == /\ \A h \in Handles : BeingCharged(h)' <=> BeingCharged(h)
                   /\ {h \in Handles : BeingCharged(h)}' = {h \in Handles : BeingCharged(h)}
<1>0. ASSUME cpc[c] # "charge", cpc'[c] # "charge",
             \A d \in Callers \ {c} : cpc'[d] = cpc[d] /\ chandle'[d] = chandle[d]
      PROVE  Same
  <2>1. TypeOK'
    BY CallerType DEF TypeInv
  <2> QED
    BY <1>0, <2>1, SameCharges
<1>1. CASE AssignCheck(c)
  BY <1>0, <1>1, QuietIsStutter DEF AssignCheck, Quiet
<1>2. CASE AssignLog(c)
  BY <1>0, <1>2, QuietIsStutter DEF AssignLog, Quiet
<1>3. CASE AssignSubmit(c)
  BY <1>0, <1>3, QuietIsStutter DEF AssignSubmit, Quiet
<1>4. CASE CheckUnsettled(c)
  BY <1>0, <1>4, QuietIsStutter DEF CheckUnsettled, Quiet, Answered
<1>5. CASE CheckSettled(c)
  BY <1>0, <1>5, QuietIsStutter DEF CheckSettled, Quiet
<1>6. CASE GatherFetch(c)
  BY <1>0, <1>6, QuietIsStutter DEF GatherFetch, Quiet
<1>7. ASSUME NEW h \in Handles, CheckRead(c, h) PROVE Contract!Next \/ UNCHANGED Contract!vars
  BY <1>0, <1>7, QuietIsStutter DEF CheckRead, Quiet
<1>8. ASSUME NEW h \in Handles, GatherResult(c, h) PROVE Contract!Next \/ UNCHANGED Contract!vars
  BY <1>0, <1>8, QuietIsStutter DEF GatherResult, Quiet
<1>9. ASSUME NEW h \in Handles, GatherTimeout(c, h) PROVE Contract!Next \/ UNCHANGED Contract!vars
  BY <1>0, <1>9, QuietIsStutter DEF GatherTimeout, Quiet
<1>10. ASSUME NEW hs \in SUBSET Handles, Gather(c, hs) PROVE Contract!Next \/ UNCHANGED Contract!vars
  BY <1>0, <1>10, QuietIsStutter DEF Gather, Quiet
<1>11. ASSUME NEW h \in Handles, AssignCreate(c, h) PROVE Contract!Next
  <2>1. InState(sess[h], "created").state = "created"
    BY StateDocument DEF States
  <2>3. Same
    BY <1>0, <1>11 DEF AssignCreate
  <2>2. Contract!Assign(h)
    BY <1>11, <2>1, <2>3 DEF AssignCreate, Contract!Assign, Phase
  <2> QED
    BY <2>2 DEF Contract!Next
<1>12. CASE Collect(c)
  <2> DEFINE h == chandle[c]
  <2>1. h \in held /\ h \in Handles /\ sess[h].state # "absent" /\ canswer[c] \in {"output", "error", "empty"}
    BY <1>12 DEF Collect
  <2>2. CASE h \in collected
    <3>a. Answered(c) /\ UNCHANGED todo
      BY <1>12, <2>2 DEF Collect
    <3>b. cpc[c] # "charge"
      BY <1>12 DEF Collect
    <3>c. cpc'[c] # "charge" /\ \A d \in Callers \ {c} : cpc'[d] = cpc[d] /\ chandle'[d] = chandle[d]
      BY <3>a DEF Answered
    <3>1. Same
      BY <1>0, <3>b, <3>c
    <3>d. /\ UNCHANGED <<sess, held, charged>> /\ collected' = collected
          /\ reports' = [reports EXCEPT ![h] = @ \union {canswer[c]}]
      BY <1>12, <2>2 DEF Collect
    <3>e. canswer[c] \in Reports \ {"raised"}
      BY <2>1 DEF Reports
    <3>f. Phase(h) = "closed" /\ \A g \in Handles : Phase(g)' = Phase(g)
      BY <2>1, <2>2, <3>d DEF Phase
    <3>2. Contract!Report(h)
      BY <2>1, <3>1, <3>d, <3>e, <3>f DEF Contract!Report
    <3> QED
      BY <2>1, <3>2 DEF Contract!Next
  <2>3. CASE h \notin collected
    <3>1. {g \in Handles : BeingCharged(g)}' = {g \in Handles : BeingCharged(g)} \union {h}
      BY <1>12, <2>1, <2>3 DEF Collect, BeingCharged
    <3>2. Contract!Collect(h)
      BY <1>12, <2>1, <2>3, <3>1 DEF Collect, Contract!Collect, Phase
    <3> QED
      BY <2>1, <3>2 DEF Contract!Next
  <2> QED
    BY <2>2, <2>3
<1>15. CASE Charge(c) \/ ChargeRaises(c)
  <2> DEFINE h == chandle[c]
  <2>1. h \in Handles /\ canswer[c] \in {"output", "error", "empty"} /\ cpc[c] = "charge"
    BY <1>15 DEF Charge, ChargeRaises
  <2>2. cbuf[c].tokens \in {0, 1}
    BY Usage
  <2>3. \A d \in Callers : cpc[d] = "charge" /\ chandle[d] = h => d = c
    BY <2>1 DEF SafeInv, ChargeInv
  <2>4. cpc'[c] # "charge" /\ \A d \in Callers \ {c} : cpc'[d] = cpc[d] /\ chandle'[d] = chandle[d]
    BY <1>15 DEF Charge, ChargeRaises, Answered
  <2>5. {g \in Handles : BeingCharged(g)}' = {g \in Handles : BeingCharged(g)} \ {h}
    BY <2>1, <2>3, <2>4 DEF BeingCharged
  <2>6. BeingCharged(h)
    BY <2>1 DEF BeingCharged
  <2>7. UNCHANGED <<sess, held, collected>>
    BY <1>15 DEF Charge, ChargeRaises
  <2>8. \E spent \in {0, 1} : charged' = [charged EXCEPT ![h] = @ + spent]
    BY <1>15, <2>2 DEF Charge, ChargeRaises
  <2>9. \E r \in Reports \ {"deadline"} : reports' = [reports EXCEPT ![h] = @ \union {r}]
    BY <1>15, <2>1 DEF Charge, ChargeRaises, Reports
  <2>10. Contract!Pay(h)
    BY <2>1, <2>5, <2>6, <2>7, <2>8, <2>9 DEF Contract!Pay, Phase
  <2> QED
    BY <2>1, <2>10 DEF Contract!Next
<1>13. CASE GatherAbandon(c)
  <2> DEFINE h == chandle[c]
  <2>1. h \in held /\ h \in Handles /\ sess[h].state # "absent"
    BY <1>13 DEF GatherAbandon
  <2>4. Same
    BY <1>0, <1>13 DEF GatherAbandon
  <2>2. CASE h \in collected
    BY <1>13, <2>1, <2>2, <2>4, QuietIsStutter DEF GatherAbandon, Quiet
  <2>3. CASE h \notin collected
    <3>1. Contract!GiveUp(h)
      BY <1>13, <2>1, <2>3, <2>4 DEF GatherAbandon, Contract!GiveUp, Phase
    <3> QED
      BY <2>1, <3>1 DEF Contract!Next
  <2> QED
    BY <2>2, <2>3
<1>14. CASE GatherFail(c)
  <2> DEFINE h == chandle[c]
  <2>1. h \in held /\ h \in Handles /\ sess[h].state # "absent"
    BY <1>14 DEF GatherFail
  <2>2. InState(cbuf[c], "failed").state = "failed"
    BY StateDocument DEF States
  <2>4. Same
    BY <1>0, <1>14 DEF GatherFail, Answered
  <2>3. Contract!Report(h)
    BY <1>14, <2>1, <2>2, <2>4 DEF GatherFail, Contract!Report, Phase, Reports
  <2> QED
    BY <2>1, <2>3 DEF Contract!Next
<1> QED
  BY <1>1, <1>2, <1>3, <1>4, <1>5, <1>6, <1>7, <1>8, <1>9, <1>10, <1>11, <1>12, <1>13, <1>14,
     <1>15
     DEF CallerNext, CallerStep

LEMMA ContractProcess ==
  ASSUME TypeInv, ExistsInv, ProcessStep
  PROVE  Contract!Next \/ UNCHANGED Contract!vars
<1> USE DEF TypeInv, TypeOK, AdminInv, ExistsInv, Marked, durableVars, tableVars, callerVars, historyVars, BeingCharged
<1>1. CASE LeaderStart
  BY <1>1, QuietIsStutter DEF LeaderStart, Quiet
<1>2. CASE LeaderReady
  BY <1>2, QuietIsStutter DEF LeaderReady, Quiet
<1>3. CASE LeaderEnd
  BY <1>3, QuietIsStutter DEF LeaderEnd, Quiet
<1>4. CASE OffboardFetch
  BY <1>4, QuietIsStutter DEF OffboardFetch, Quiet
<1>5. CASE OffboardFail
  <2>1. InState(abuf, "failed").state = "failed"
    BY StateDocument DEF States
  <2> QED
    BY <1>5, <2>1, QuietIsStutter DEF OffboardFail, Quiet
<1>6. CASE Restart
  <2>1. Contract!Die
    BY <1>6 DEF Restart, Contract!Die, Phase
  <2> QED
    BY <2>1 DEF Contract!Next
<1>7. ASSUME NEW h \in Handles, SettleLost(h) PROVE UNCHANGED Contract!vars
  <2>1. InState(sess[h], "failed").state = "failed"
    BY StateDocument DEF States
  <2> QED
    BY <1>7, <2>1, QuietIsStutter DEF SettleLost, Quiet
<1>8. ASSUME NEW h \in Handles, OffboardSee(h) PROVE UNCHANGED Contract!vars
  BY <1>8, QuietIsStutter DEF OffboardSee, Quiet
<1> QED
  BY <1>1, <1>2, <1>3, <1>4, <1>5, <1>6, <1>7, <1>8 DEF ProcessStep

LEMMA ContractStutter == UNCHANGED vars => UNCHANGED Contract!vars
BY DEF vars, durableVars, tableVars, callerVars, historyVars, BeingCharged, Contract!vars, Phase

\* assign, check, gather, _collect, the worker and restarts, with every
\* interleaving of their unlocked steps, implement the contract of a handle:
\* closed once, charged at most once and only by the call that closed it by
\* collecting, told of only once closed, never back after its process died.
THEOREM DelegationKeepsContract == Spec => KeepsContract
<1>1. TypeInv /\ ExistsInv /\ SafeInv /\ [Next]_vars => [Contract!Next]_(Contract!vars)
  BY QuietWorker, QuietIsStutter, ContractCaller, ContractProcess, ContractStutter, NextSplit
<1> QED
  BY <1>1, InitContract, TypeInvariant, ExistsInvariant, SafeInvariant, PTL
     DEF Spec, KeepsContract, Contract!Spec
-----------------------------------------------------------------------------
(***************************************************************************)
(* Without an administrator, a child's document is its worker's alone      *)
(* until gather gives the handle up (or the process dies):                 *)
(*   FailInv    only what was given up is failed by gather, or once more;   *)
(*   SubmitInv  what a call is about to submit is its own, and new;        *)
(*   TermInv    a session that is over has a worker past its last reopening;*)
(*   UsageInv   an output's usage is in the document, then in the hands of *)
(*              who collects it;                                           *)
(*   PaidInv    what was collected is done, and its output is charged, in   *)
(*              the hands of the call that charges it, or that call raised. *)
(***************************************************************************)
Closing == {"finish", "finish_put", "verify", "late_put", "done"}

FailInv ==
  /\ \A c \in Callers : cpc[c] \in {"fail", "fail_put"} => chandle[c] \in abandoned
  /\ \A h \in Handles : wpc[h] = "late_put" => h \in abandoned

SubmitInv == \A c \in Callers : cpc[c] \in {"announce", "submit"} =>
  /\ wpc[chandle[c]] = "none"
  /\ \A d \in Callers :
       cpc[d] \in {"announce", "submit"} /\ chandle[d] = chandle[c] => d = c

TermInv == \A h \in held \ abandoned :
  sess[h].state \in Terminal => wpc[h] \in Closing

UsageInv == \A h \in held \ abandoned : wres[h] = "output" =>
  /\ wpc[h] \in Closing => sess[h].tokens = 1
  /\ wpc[h] = "finish_put" => wbuf[h].tokens = 1

PaidFor(h) == charged[h] = 1 \/ BeingCharged(h) \/ "raised" \in reports[h]

PaidInv ==
  /\ \A h \in held \ abandoned :
       /\ h \in collected => wpc[h] = "done" /\ (wres[h] = "output" => PaidFor(h))
       /\ "output" \in reports[h] => h \in collected /\ wres[h] = "output"
  /\ \A c \in Callers : cpc[c] \in {"collect", "charge"} /\ chandle[c] \notin abandoned =>
       /\ wpc[chandle[c]] = "done"
       /\ canswer[c] = "output" => wres[chandle[c]] = "output"
       /\ wres[chandle[c]] = "output" => cbuf[c].tokens = 1

AloneInv == /\ apc = "idle"
            /\ FailInv /\ SubmitInv /\ TermInv /\ UsageInv /\ PaidInv

\* set_state keeps the usage of the copy, record_usage has one.
LEMMA UsageKept ==
  \A s \in Sessions : WithUsage(s).tokens = 1 /\ \A st : InState(s, st).tokens = s.tokens
BY DEF Sessions, WithUsage, InState

LEMMA InitAlone == Init => AloneInv
BY DEF Init, AloneInv, FailInv, SubmitInv, TermInv, UsageInv, PaidInv, PaidFor, BeingCharged

LEMMA AloneWorker ==
  ASSUME TypeInv, ExistsInv, AloneInv,
         NEW h \in Handles, WorkerStep(h) \/ TurnEnds(h) \/ WorkerAsk(h)
  PROVE  AloneInv'
<1> USE DEF TypeInv, TypeOK, CallerInv, HoldsHandle, ExistsInv, AloneInv, FailInv, SubmitInv,
      TermInv, UsageInv, PaidInv, PaidFor, BeingCharged, Closing, Terminal, LogEvent, durableVars, tableVars,
      workerVars, callerVars, leaderVars, adminVars, historyVars, WorkerFetch, WorkerPut
<1>1. CASE WorkerStart(h)
  BY <1>1 DEF WorkerStart
<1>2. CASE WorkerBegin(h)
  BY <1>2 DEF WorkerBegin
<1>3. CASE WorkerRunning(h)
  <2>1. InState(wbuf[h], "running").state = "running"
    BY StateDocument DEF States
  <2> QED
    BY <1>3, <2>1 DEF WorkerRunning
<1>4. CASE WorkerWaiting(h)
  <2>1. InState(wbuf[h], "waiting_human").state = "waiting_human"
    BY StateDocument DEF States
  <2> QED
    BY <1>4, <2>1 DEF WorkerWaiting
<1>5. CASE WorkerUsage(h)
  <2>1. WithUsage(wbuf[h]).tokens = 1 /\ WithUsage(wbuf[h]).state = wbuf[h].state
    BY UsageKept, UsageDocument
  <2> QED
    BY <1>5, <2>1 DEF WorkerUsage
<1>6. CASE WorkerEnd(h)
  BY <1>6 DEF WorkerEnd
<1>7. CASE WorkerSettle(h)
  <2> DEFINE st == IF wres[h] = "output" THEN "completed" ELSE "failed"
  <2>1. InState(wbuf[h], st).tokens = wbuf[h].tokens
    BY UsageKept
  <2>2. /\ wpc[h] = "finish_put"
        /\ sess' = [sess EXCEPT ![h] = InState(wbuf[h], st)]
        /\ wpc'[h] \in {"done", "verify"}
        /\ \A g \in Handles \ {h} : wpc'[g] = wpc[g] /\ wbuf'[g] = wbuf[g]
        /\ UNCHANGED <<held, collected, abandoned, wres, cpc, chandle, cbuf, canswer,
                       apc, charged, reports>>
    BY <1>7 DEF WorkerSettle
  <2> HIDE DEF st
  <2>3. FailInv' /\ SubmitInv' /\ TermInv'
    BY <2>2
  <2>4. UsageInv' /\ PaidInv'
    BY <2>1, <2>2
  <2> QED
    BY <2>2, <2>3, <2>4
<1>8. CASE WorkerDelivered(h)
  BY <1>8 DEF WorkerDelivered
<1>9. CASE WorkerLate(h)
  BY <1>9 DEF WorkerLate
<1>10. CASE WorkerRestore(h)
  BY <1>10 DEF WorkerRestore
<1>11. CASE WorkerAnswer(h)
  BY <1>11 DEF WorkerAnswer
<1>12. CASE WorkerFail(h)
  BY <1>12 DEF WorkerFail
<1>13. CASE WorkerRaise(h)
  BY <1>13 DEF WorkerRaise
<1>14. CASE WorkerAsk(h)
  BY <1>14 DEF WorkerAsk
<1> QED
  BY <1>1, <1>2, <1>3, <1>4, <1>5, <1>6, <1>7, <1>8, <1>9, <1>10, <1>11, <1>12, <1>13, <1>14
     DEF WorkerStep, TurnEnds

LEMMA AloneCaller ==
  ASSUME TypeInv, ExistsInv, SafeInv, AloneInv, NEW c \in Callers, CallerNext(c)
  PROVE  AloneInv'
<1> USE DEF TypeInv, TypeOK, CallerInv, HoldsHandle, ExistsInv, Marked, AloneInv, FailInv,
      SubmitInv, TermInv, UsageInv, PaidInv, PaidFor, BeingCharged, Closing, Terminal, LogEvent, Known, Answered,
      durableVars, tableVars, workerVars, callerVars, leaderVars, adminVars, historyVars
<1>1. CASE AssignCheck(c)
  BY <1>1 DEF AssignCheck
<1>2. CASE AssignLog(c)
  BY <1>2 DEF AssignLog
<1>3. CASE AssignSubmit(c)
  BY <1>3 DEF AssignSubmit
<1>4. CASE CheckUnsettled(c)
  BY <1>4 DEF CheckUnsettled
<1>5. CASE CheckSettled(c)
  BY <1>5 DEF CheckSettled, Settled, FutureDone
<1>6. CASE GatherAbandon(c)
  BY <1>6 DEF GatherAbandon
<1>7. CASE GatherFetch(c)
  BY <1>7 DEF GatherFetch
<1>8. CASE Collect(c)
  BY <1>8 DEF Collect
<1>15. CASE Charge(c) \/ ChargeRaises(c)
  <2> DEFINE h == chandle[c]
  <2>1. cbuf[c].tokens \in {0, 1}
    BY Usage
  <2>2. /\ h \in Handles /\ h \in held /\ h \in collected /\ cpc[c] = "charge"
        /\ canswer[c] \in {"output", "error", "empty"} /\ charged[h] = 0
    BY <1>15 DEF Charge, ChargeRaises, SafeInv, ChargeInv
  <2>3. /\ UNCHANGED <<sess, held, collected, abandoned, wpc, wbuf, wres, apc>>
        /\ cpc'[c] \in {"idle", "wait"}
        /\ \A d \in Callers \ {c} :
             UNCHANGED <<cpc[d], chandle[d], canswer[d], cbuf[d]>>
        /\ \A g \in Handles \ {h} : charged'[g] = charged[g] /\ reports'[g] = reports[g]
    BY <1>15 DEF Charge, ChargeRaises
  <2>4. \/ charged'[h] = cbuf[c].tokens /\ reports'[h] = reports[h] \union {canswer[c]}
        \/ reports'[h] = reports[h] \union {"raised"}
    BY <1>15, <2>1, <2>2 DEF Charge, ChargeRaises
  <2> HIDE DEF h
  <2>5. FailInv' /\ SubmitInv' /\ TermInv' /\ UsageInv' /\ apc' = "idle"
    BY <2>2, <2>3 DEF h
  <2>6. ASSUME NEW g \in held \ abandoned
        PROVE  /\ g \in collected => wpc[g] = "done" /\ (wres[g] = "output" => PaidFor(g)')
               /\ "output" \in reports'[g] => g \in collected /\ wres[g] = "output"
    <3>1. CASE g # h
      <4>1. BeingCharged(g) => BeingCharged(g)'
        BY <2>2, <2>3, <3>1 DEF h
      <4> QED
        BY <2>3, <3>1, <4>1
    <3>2. CASE g = h
      <4>1. /\ wpc[h] = "done" /\ (wres[h] = "output" => cbuf[c].tokens = 1)
            /\ canswer[c] = "output" => wres[h] = "output"
        BY <2>2, <2>6, <3>2 DEF h
      <4>2. wres[h] = "output" => charged'[h] = 1 \/ "raised" \in reports'[h]
        BY <2>4, <4>1
      <4>3. "output" \in reports'[h] => "output" \in reports[h] \/ canswer[c] = "output"
        BY <2>4
      <4> QED
        BY <2>2, <2>6, <3>2, <4>1, <4>2, <4>3
    <3> QED
      BY <3>1, <3>2
  <2>7. PaidInv'
    <3>1. \A d \in Callers :
            cpc'[d] \in {"collect", "charge"} =>
              cpc'[d] = cpc[d] /\ UNCHANGED <<chandle[d], canswer[d], cbuf[d]>>
      BY <2>3
    <3> QED
      BY <2>3, <2>6, <3>1
  <2> QED
    BY <2>5, <2>7
<1>9. CASE GatherFail(c)
  BY <1>9 DEF GatherFail
<1>10. ASSUME NEW h \in Handles, AssignCreate(c, h) PROVE AloneInv'
  <2>1. InState(sess[h], "created").state = "created"
    BY StateDocument DEF States
  <2>2. /\ h \notin held /\ h \notin collected /\ wpc[h] = "none" /\ reports[h] = {}
        /\ \A d \in Callers : cpc[d] \in HoldsHandle => chandle[d] # h
    BY <1>10 DEF AssignCreate
  <2> QED
    BY <1>10, <2>1, <2>2 DEF AssignCreate
<1>11. ASSUME NEW h \in Handles, CheckRead(c, h) PROVE AloneInv'
  BY <1>11 DEF CheckRead
<1>12. ASSUME NEW h \in Handles, GatherResult(c, h) PROVE AloneInv'
  BY <1>12 DEF GatherResult
<1>13. ASSUME NEW h \in Handles, GatherTimeout(c, h) PROVE AloneInv'
  BY <1>13 DEF GatherTimeout
<1>14. ASSUME NEW hs \in SUBSET Handles, Gather(c, hs) PROVE AloneInv'
  BY <1>14 DEF Gather
<1> QED
  BY <1>1, <1>2, <1>3, <1>4, <1>5, <1>6, <1>7, <1>8, <1>9, <1>10, <1>11, <1>12, <1>13, <1>14,
     <1>15
     DEF CallerNext, CallerStep

LEMMA AloneProcess ==
  ASSUME TypeInv, AloneInv, ~Offboarding, ProcessStep
  PROVE  AloneInv'
<1> USE DEF TypeInv, TypeOK, AloneInv, FailInv, SubmitInv, TermInv, UsageInv, PaidInv, PaidFor, BeingCharged,
      LogEvent, durableVars, tableVars, workerVars, callerVars, leaderVars, adminVars,
      historyVars
<1>1. CASE LeaderStart \/ LeaderReady \/ LeaderEnd
  BY <1>1 DEF LeaderStart, LeaderReady, LeaderEnd
<1>2. CASE OffboardFetch \/ OffboardFail
  BY <1>2 DEF OffboardFetch, OffboardFail
<1>3. CASE Restart
  BY <1>3 DEF Restart
<1>4. ASSUME NEW h \in Handles, SettleLost(h) PROVE AloneInv'
  <2>1. CASE h \in held
    BY <1>4, <2>1 DEF SettleLost
  <2>2. CASE h \notin held
    BY <1>4, <2>2 DEF SettleLost
  <2> QED
    BY <2>1, <2>2
<1>5. ASSUME NEW h \in Handles, OffboardSee(h) PROVE AloneInv'
  BY <1>5 DEF OffboardSee
<1> QED
  BY <1>1, <1>2, <1>3, <1>4, <1>5 DEF ProcessStep

LEMMA AloneStutter == AloneInv /\ UNCHANGED vars => AloneInv'
BY DEF AloneInv, FailInv, SubmitInv, TermInv, UsageInv, PaidInv, PaidFor, BeingCharged, vars, durableVars,
       tableVars, workerVars, callerVars, leaderVars, adminVars, historyVars

LEMMA AloneInvariant == ASSUME ~Offboarding PROVE Spec => []AloneInv
<1>1. TypeInv /\ ExistsInv /\ SafeInv /\ AloneInv /\ [Next]_vars => AloneInv'
  BY AloneWorker, AloneCaller, AloneProcess, AloneStutter, NextSplit
<1> QED BY <1>1, InitAlone, TypeInvariant, ExistsInvariant, SafeInvariant, PTL DEF Spec

\* Rule 4 (_collect): where nobody is offboarded, an output reported to the
\* leader has been charged to its budget, or the thread that took the handle
\* is about to charge it, or that thread's call raised; whatever checks and
\* gathers of whatever threads collect it side by side, and whatever is given
\* up or restarted meanwhile.
THEOREM DeliveredIsPaidFor == ASSUME ~Offboarding PROVE Spec => []DeliveredIsPaid
<1>1. TypeInv /\ AloneInv => DeliveredIsPaid
  BY DEF TypeInv, TypeOK, AloneInv, PaidInv, PaidFor, DeliveredIsPaid
<1> QED BY <1>1, AloneInvariant, TypeInvariant, PTL
-----------------------------------------------------------------------------
(***************************************************************************)
(* The bound on parallel work is checked by assign before it is acted on,  *)
(* so what is checked and not yet logged counts too: with n tool-call      *)
(* threads the bound is exceeded by at most n - 1.                         *)
(***************************************************************************)
Live    == (Unsettled \intersect held) \ abandoned
Checked == {c \in Callers : cpc[c] \in {"create", "announce"}}

BoundWithin(n) == MaxParallel # 0 => Cardinality(Live) <= MaxParallel + n

BoundInv ==
  /\ IsFiniteSet(Assigned)
  /\ MaxParallel # 0 =>
       Cardinality(Live) + Cardinality(Checked) <= MaxParallel + (Cardinality(Callers) - 1)

\* Most steps bring no handle to life and pass no check.
Calmer == Assigned' = Assigned /\ Live' \subseteq Live /\ Checked' \subseteq Checked

LEMMA LiveFinite ==
  ASSUME BoundInv, IsFiniteSet(Callers)
  PROVE  /\ IsFiniteSet(Unsettled) /\ Cardinality(Unsettled) \in Nat
         /\ IsFiniteSet(Live) /\ Cardinality(Live) \in Nat
         /\ Cardinality(Live) <= Cardinality(Unsettled)
         /\ IsFiniteSet(Checked) /\ Cardinality(Checked) \in Nat
         /\ Cardinality(Callers) \in Nat
<1>1. Unsettled \subseteq Assigned /\ Live \subseteq Unsettled /\ Checked \subseteq Callers
  BY DEF Unsettled, Live, Checked
<1>2. IsFiniteSet(Unsettled)
  BY <1>1, FS_Subset DEF BoundInv
<1>3. IsFiniteSet(Live) /\ Cardinality(Live) <= Cardinality(Unsettled)
  BY <1>1, <1>2, FS_Subset
<1>4. IsFiniteSet(Checked)
  BY <1>1, FS_Subset
<1> QED BY <1>2, <1>3, <1>4, FS_CardinalityType

LEMMA InitBound == IsFiniteSet(Callers) /\ Init => BoundInv
<1> SUFFICES ASSUME IsFiniteSet(Callers), Init PROVE BoundInv
  OBVIOUS
<1>1. Assigned = {} /\ Live = {} /\ Checked = {}
  BY DEF Init, Assigned, Unsettled, Live, Checked
<1> QED
  BY <1>1, FS_EmptySet, FS_CardinalityType, ConstantsAssumption DEF BoundInv

LEMMA CalmerBound ==
  ASSUME IsFiniteSet(Callers), BoundInv, Calmer
  PROVE  BoundInv'
<1>1. /\ Cardinality(Live') <= Cardinality(Live) /\ Cardinality(Live') \in Nat
      /\ Cardinality(Checked') <= Cardinality(Checked) /\ Cardinality(Checked') \in Nat
  BY LiveFinite, FS_Subset, FS_CardinalityType DEF Calmer
<1>2. IsFiniteSet(Assigned')
  BY DEF Calmer, BoundInv
<1> QED
  BY <1>1, <1>2, LiveFinite, ConstantsAssumption DEF BoundInv

\* A thread that passes the check found room for one more.
LEMMA CheckBound ==
  ASSUME IsFiniteSet(Callers), BoundInv, NEW c \in Callers, AssignCheck(c)
  PROVE  BoundInv'
<1>1. Assigned' = Assigned /\ Live' = Live
  BY DEF AssignCheck, Assigned, Unsettled, Live, durableVars, tableVars
<1>2. MaxParallel # 0 => Cardinality(Unsettled) < MaxParallel
  BY DEF AssignCheck
<1>3. Checked' \subseteq Callers
  BY DEF Checked
<1>4. Cardinality(Checked') <= Cardinality(Callers) /\ Cardinality(Checked') \in Nat
  BY <1>3, FS_Subset, FS_CardinalityType
<1> QED
  BY <1>1, <1>2, <1>4, LiveFinite, ConstantsAssumption DEF BoundInv

\* Logging the delegation brings one handle to life and uses up one check.
LEMMA LogBound ==
  ASSUME IsFiniteSet(Callers), TypeInv, BoundInv, NEW c \in Callers, AssignLog(c)
  PROVE  BoundInv'
<1> DEFINE h == chandle[c]
<1>1. Live' \subseteq Live \union {h} /\ Assigned' \subseteq Assigned \union {h}
  BY DEF AssignLog, LogEvent, Live, Unsettled, Assigned, tableVars, TypeInv, TypeOK
<1>2. c \in Checked /\ Checked' = Checked \ {c}
  BY DEF AssignLog, Checked, TypeInv, TypeOK
<1>3. Cardinality(Live') <= Cardinality(Live) + 1 /\ Cardinality(Live') \in Nat
  <2>1. /\ IsFiniteSet(Live \union {h})
        /\ Cardinality(Live \union {h}) =
             IF h \in Live THEN Cardinality(Live) ELSE Cardinality(Live) + 1
    BY LiveFinite, FS_AddElement
  <2>2. IsFiniteSet(Live') /\ Cardinality(Live') <= Cardinality(Live \union {h})
    BY <1>1, <2>1, FS_Subset
  <2>3. Cardinality(Live') \in Nat
    BY <2>2, FS_CardinalityType
  <2> QED BY <2>1, <2>2, <2>3, LiveFinite
<1>4. Cardinality(Checked') = Cardinality(Checked) - 1
  BY <1>2, LiveFinite, FS_RemoveElement
<1>5. IsFiniteSet(Assigned')
  <2>1. IsFiniteSet(Assigned \union {h})
    BY FS_AddElement DEF BoundInv
  <2> QED BY <1>1, <2>1, FS_Subset
<1> QED
  BY <1>3, <1>4, <1>5, LiveFinite, ConstantsAssumption DEF BoundInv

\* A worker never takes a session back from its end: what it writes over an
\* open one may close it.
LEMMA CalmWorker ==
  ASSUME TypeInv, ExistsInv, AloneInv,
         NEW h \in Handles, WorkerStep(h) \/ TurnEnds(h) \/ WorkerAsk(h)
  PROVE  Calmer
<1> USE DEF TypeInv, TypeOK, ExistsInv, AloneInv, FailInv, TermInv, Closing, Terminal,
      Calmer, Live, Unsettled, Assigned, Checked, LogEvent, durableVars, tableVars,
      callerVars, WorkerFetch, WorkerPut
<1>1. CASE WorkerStart(h) \/ WorkerBegin(h) \/ WorkerAsk(h) \/ WorkerAnswer(h)
  BY <1>1 DEF WorkerStart, WorkerBegin, WorkerAsk, WorkerAnswer
<1>2. CASE WorkerFail(h) \/ WorkerRaise(h) \/ WorkerEnd(h)
  BY <1>2 DEF WorkerFail, WorkerRaise, WorkerEnd
<1>3. CASE WorkerDelivered(h) \/ WorkerLate(h)
  BY <1>3 DEF WorkerDelivered, WorkerLate
<1>4. CASE WorkerRunning(h)
  BY <1>4 DEF WorkerRunning
<1>5. CASE WorkerWaiting(h)
  BY <1>5 DEF WorkerWaiting
<1>6. CASE WorkerUsage(h)
  BY <1>6 DEF WorkerUsage
<1>7. CASE WorkerSettle(h)
  <2>1. InState(wbuf[h], IF wres[h] = "output" THEN "completed" ELSE "failed").state
          \in Terminal
    BY StateDocument DEF States
  <2> QED
    BY <1>7, <2>1 DEF WorkerSettle
<1>8. CASE WorkerRestore(h)
  <2>1. InState(wbuf[h], "failed").state = "failed"
    BY StateDocument DEF States
  <2> QED
    BY <1>8, <2>1 DEF WorkerRestore
<1> QED
  BY <1>1, <1>2, <1>3, <1>4, <1>5, <1>6, <1>7, <1>8 DEF WorkerStep, TurnEnds

LEMMA BoundCaller ==
  ASSUME IsFiniteSet(Callers), TypeInv, ExistsInv, AloneInv, BoundInv,
         NEW c \in Callers, CallerNext(c)
  PROVE  BoundInv'
<1> USE DEF TypeInv, TypeOK, CallerInv, HoldsHandle, ExistsInv, Marked, AloneInv, FailInv,
      Terminal, Calmer, Live, Unsettled, Assigned, Checked, LogEvent, Answered,
      durableVars, tableVars
<1>1. CASE AssignCheck(c)
  BY <1>1, CheckBound
<1>2. CASE AssignLog(c)
  BY <1>2, LogBound
<1>3. CASE AssignSubmit(c)
  BY <1>3, CalmerBound DEF AssignSubmit
<1>4. CASE CheckUnsettled(c)
  BY <1>4, CalmerBound DEF CheckUnsettled
<1>5. CASE CheckSettled(c)
  BY <1>5, CalmerBound DEF CheckSettled
<1>6. CASE Collect(c)
  BY <1>6, CalmerBound DEF Collect
<1>15. CASE Charge(c) \/ ChargeRaises(c)
  BY <1>15, CalmerBound DEF Charge, ChargeRaises
<1>7. CASE GatherAbandon(c)
  BY <1>7, CalmerBound DEF GatherAbandon
<1>8. CASE GatherFetch(c)
  BY <1>8, CalmerBound DEF GatherFetch
<1>9. CASE GatherFail(c)
  BY <1>9, CalmerBound DEF GatherFail
<1>10. ASSUME NEW h \in Handles, AssignCreate(c, h) PROVE BoundInv'
  <2>1. h \notin Assigned
    BY <1>10 DEF AssignCreate
  <2> QED
    BY <1>10, <2>1, CalmerBound DEF AssignCreate
<1>11. ASSUME NEW h \in Handles, CheckRead(c, h) PROVE BoundInv'
  BY <1>11, CalmerBound DEF CheckRead
<1>12. ASSUME NEW h \in Handles, GatherResult(c, h) PROVE BoundInv'
  BY <1>12, CalmerBound DEF GatherResult
<1>13. ASSUME NEW h \in Handles, GatherTimeout(c, h) PROVE BoundInv'
  BY <1>13, CalmerBound DEF GatherTimeout
<1>14. ASSUME NEW hs \in SUBSET Handles, Gather(c, hs) PROVE BoundInv'
  BY <1>14, CalmerBound DEF Gather
<1> QED
  BY <1>1, <1>2, <1>3, <1>4, <1>5, <1>6, <1>7, <1>8, <1>9, <1>10, <1>11, <1>12, <1>13, <1>14,
     <1>15
     DEF CallerNext, CallerStep

LEMMA CalmProcess ==
  ASSUME TypeInv, AloneInv, ~Offboarding, ProcessStep
  PROVE  Calmer
<1> USE DEF TypeInv, TypeOK, AloneInv, Calmer, Live, Unsettled, Assigned, Checked, LogEvent,
      durableVars, tableVars, callerVars
<1>1. CASE LeaderStart \/ LeaderReady \/ LeaderEnd
  BY <1>1 DEF LeaderStart, LeaderReady, LeaderEnd
<1>2. CASE OffboardFetch \/ OffboardFail
  BY <1>2 DEF OffboardFetch, OffboardFail
<1>3. CASE Restart
  BY <1>3 DEF Restart
<1>4. ASSUME NEW h \in Handles, SettleLost(h) PROVE Calmer
  <2>1. CASE h \in held
    BY <1>4, <2>1 DEF SettleLost
  <2>2. CASE h \notin held
    BY <1>4, <2>2 DEF SettleLost
  <2> QED
    BY <2>1, <2>2
<1>5. ASSUME NEW h \in Handles, OffboardSee(h) PROVE Calmer
  BY <1>5 DEF OffboardSee
<1> QED
  BY <1>1, <1>2, <1>3, <1>4, <1>5 DEF ProcessStep

LEMMA CalmStutter == UNCHANGED vars => Calmer
BY DEF Calmer, Live, Unsettled, Assigned, Checked, vars, durableVars, tableVars, callerVars

LEMMA BoundInvariant ==
  ASSUME ~Offboarding, IsFiniteSet(Callers) PROVE Spec => []BoundInv
<1>1. TypeInv /\ ExistsInv /\ AloneInv /\ BoundInv /\ [Next]_vars => BoundInv'
  BY CalmWorker, BoundCaller, CalmProcess, CalmStutter, CalmerBound, NextSplit
<1> QED
  BY <1>1, InitBound, TypeInvariant, ExistsInvariant, AloneInvariant, PTL DEF Spec

\* Rule 3 (assign): where nobody is offboarded, n threads of tool calls of one
\* leader exceed the harness' bound on parallel sub-agents by at most n - 1.
THEOREM BoundByThreads ==
  ASSUME ~Offboarding, IsFiniteSet(Callers)
  PROVE  Spec => [](BoundWithin(Cardinality(Callers) - 1))
<1>1. BoundInv => BoundWithin(Cardinality(Callers) - 1)
  BY LiveFinite, ConstantsAssumption DEF BoundWithin, BoundInv
<1> QED BY <1>1, BoundInvariant, PTL

\* Rule 3 as the harness means it: a leader whose tool calls come one at a
\* time never has more handles open than the bound.
THEOREM BoundForOneThread ==
  ASSUME ~Offboarding, Cardinality(Callers) = 1, IsFiniteSet(Callers)
  PROVE  Spec => []BoundHolds
<1>1. BoundWithin(Cardinality(Callers) - 1) => BoundHolds
  BY ConstantsAssumption DEF BoundWithin, BoundHolds, Live
<1> QED BY <1>1, BoundByThreads, PTL
=============================================================================
