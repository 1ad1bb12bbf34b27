--------------------------- MODULE AsyncDelegation ---------------------------
(***************************************************************************)
(* Asynchronous delegation (runtime/engine.py, ADR-0093): one leader       *)
(* session hands tasks to other agents and holds a handle on each.  A      *)
(* handle IS the child session's id, so what survives a restart is the     *)
(* child's document in the session store and the event log; the            *)
(* assignment table, the worker pool and the futures die with the process. *)
(*                                                                         *)
(* Who runs concurrently: the leader's tool calls (Callers: the framework  *)
(* may run the tool calls of one model turn on several threads), one       *)
(* worker thread per submitted handle (at most PoolSize at a time), and an *)
(* administrator offboarding the agent a child belongs to.                 *)
(*                                                                         *)
(* The store serialises single reads and single writes and nothing larger: *)
(* SessionManager.set_state and record_usage are a get, a change to the    *)
(* copy and a put.  Here a get fills the thread's buffer and a put writes  *)
(* the whole document back, so a put may overwrite what others wrote.      *)
(***************************************************************************)
EXTENDS Naturals, FiniteSets

CONSTANTS
  Handles,       \* child session ids this leader may come to hold
  Callers,       \* threads that run the leader's tool calls
  None,          \* "no handle", outside Handles
  PoolSize,      \* max_workers of the assignment pool (8 in the code)
  MaxParallel,   \* harness.max_parallel_subagents; 0 means unbounded
  MaxRestarts,   \* bound: how often the process may die
  Offboarding    \* may an administrator offboard the children's agent?

ASSUME ConstantsAssumption ==
  /\ None \notin Handles
  /\ PoolSize \in Nat \ {0}
  /\ MaxParallel \in Nat
  /\ MaxRestarts \in Nat
  /\ Offboarding \in BOOLEAN

VARIABLES
  \* durable
  sess,        \* the child's document: its state and its token_usage
  events,      \* kinds of audit events about the handle in the event log
  \* the process
  held,        \* keys of AgentRuntime._assignments
  collected,   \* assignments whose `collected` flag is set
  abandoned,   \* assignments whose `abandoned` flag is set
  wpc, wbuf, wres,                     \* the worker thread of each handle
  cpc, chandle, cbuf, canswer, todo,   \* the leader's tool calls
  leader, lostTodo,                    \* the leader's own run
  apc, ahandle, abuf,                  \* the administrator's offboard call
  restarts,
  \* history
  charged,     \* what TurnBudget.spend was asked to take for the handle
  reports      \* what the calls that found a handle settled came to

durableVars == <<sess, events>>
tableVars   == <<held, collected, abandoned>>
workerVars  == <<wpc, wbuf, wres>>
callerVars  == <<cpc, chandle, cbuf, canswer, todo>>
leaderVars  == <<leader, lostTodo>>
adminVars   == <<apc, ahandle, abuf>>
historyVars == <<charged, reports>>
vars == <<durableVars, tableVars, workerVars, callerVars, leaderVars,
          adminVars, restarts, historyVars>>
-----------------------------------------------------------------------------
(***************************************************************************)
(* Vocabulary                                                              *)
(***************************************************************************)
States   == {"absent", "created", "running", "waiting_human", "completed", "failed"}
Terminal == {"completed", "failed"}
Sessions == [state : States, tokens : {0, 1}]
NoSession == [state |-> "absent", tokens |-> 0]

\* The changes made to a copy before it is put back: set_state's, and
\* record_usage's (one unit stands for whatever the child's run spent).
InState(doc, st) == [doc EXCEPT !.state = st]
WithUsage(doc)   == [doc EXCEPT !.tokens = 1]

EventKinds == {"delegation", "approval", "assignment_lost",
               "assignment_abandoned", "assignment_late_result", "agent_departed"}

WorkerPcs == {"none", "queued", "begin", "begin_put", "body", "ask_put",
              "usage_put", "finish", "finish_put", "verify", "late_put", "done"}
InPool    == WorkerPcs \ {"none", "queued", "done"}
Results   == {"none", "output", "error", "raised"}

CallerPcs == {"idle", "create", "announce", "submit", "settle", "collect", "charge",
              "wait", "expired", "fail", "fail_put"}
\* "deadline" is gather giving up; the others are the outcomes of _collect,
\* "empty" being a settled report made before the future holds a result, and
\* "raised" an exception instead of a report.
Reports   == {"deadline", "output", "error", "empty", "raised"}

\* The worker's future has resolved.  Before submit the assignment holds a
\* placeholder Future, which never does.
FutureDone(h) == wpc[h] = "done"

\* assigned_handles: read back from the delegation events, so it survives.
Assigned == {h \in Handles : "delegation" \in events[h]}

\* unsettled_handles: waiting_human is deliberately unsettled.
Unsettled == {h \in Assigned : sess[h].state \notin Terminal}

\* Handles the leader knows (assign returned) and this process holds.
Known == {h \in held : wpc[h] # "none"}
-----------------------------------------------------------------------------
Init ==
  /\ sess = [h \in Handles |-> NoSession]
  /\ events = [h \in Handles |-> {}]
  /\ held = {} /\ collected = {} /\ abandoned = {}
  /\ wpc = [h \in Handles |-> "none"]
  /\ wbuf = [h \in Handles |-> NoSession]
  /\ wres = [h \in Handles |-> "none"]
  /\ cpc = [c \in Callers |-> "idle"]
  /\ chandle = [c \in Callers |-> None]
  /\ cbuf = [c \in Callers |-> NoSession]
  /\ canswer = [c \in Callers |-> "none"]
  /\ todo = [c \in Callers |-> {}]
  /\ leader = "off" /\ lostTodo = {}
  /\ apc = "idle" /\ ahandle = None /\ abuf = NoSession
  /\ restarts = 0
  /\ charged = [h \in Handles |-> 0]
  /\ reports = [h \in Handles |-> {}]

LogEvent(h, kind) == events' = [events EXCEPT ![h] = @ \union {kind}]
-----------------------------------------------------------------------------
(***************************************************************************)
(* The worker thread: _run_assigned around run.                            *)
(***************************************************************************)
\* The get half of set_state / record_usage, on the worker's thread.
WorkerFetch(h, at, next) ==
  /\ wpc[h] = at
  /\ wbuf' = [wbuf EXCEPT ![h] = sess[h]]
  /\ wpc' = [wpc EXCEPT ![h] = next]

\* The put half: the copy goes back whole, with the fields `doc` changed.
WorkerPut(h, at, next, doc) ==
  /\ wpc[h] = at
  /\ sess' = [sess EXCEPT ![h] = doc]
  /\ wbuf' = [wbuf EXCEPT ![h] = NoSession]
  /\ wpc' = [wpc EXCEPT ![h] = next]

\* A pool thread picks the work item up.
WorkerStart(h) ==
  /\ wpc[h] = "queued"
  /\ Cardinality({g \in Handles : wpc[g] \in InPool}) < PoolSize
  /\ wpc' = [wpc EXCEPT ![h] = "begin"]
  /\ UNCHANGED <<durableVars, tableVars, wbuf, wres, callerVars, leaderVars,
                 adminVars, restarts, historyVars>>

\* run sets RUNNING whatever state the session is in.
WorkerBegin(h) ==
  /\ WorkerFetch(h, "begin", "begin_put")
  /\ UNCHANGED <<durableVars, tableVars, wres, callerVars, leaderVars,
                 adminVars, restarts, historyVars>>

WorkerRunning(h) ==
  /\ WorkerPut(h, "begin_put", "body", InState(wbuf[h], "running"))
  /\ UNCHANGED <<events, tableVars, wres, callerVars, leaderVars,
                 adminVars, restarts, historyVars>>

\* The child's own ask_human (or a workflow's interrupt), at most once a run.
WorkerAsk(h) ==
  /\ "approval" \notin events[h]
  /\ WorkerFetch(h, "body", "ask_put")
  /\ LogEvent(h, "approval")
  /\ UNCHANGED <<sess, tableVars, wres, callerVars, leaderVars,
                 adminVars, restarts, historyVars>>

WorkerWaiting(h) ==
  /\ WorkerPut(h, "ask_put", "body", InState(wbuf[h], "waiting_human"))
  /\ UNCHANGED <<events, tableVars, wres, callerVars, leaderVars,
                 adminVars, restarts, historyVars>>

\* adapter.run returned: record_usage follows.
WorkerAnswer(h) ==
  /\ WorkerFetch(h, "body", "usage_put")
  /\ wres' = [wres EXCEPT ![h] = "output"]
  /\ UNCHANGED <<durableVars, tableVars, callerVars, leaderVars,
                 adminVars, restarts, historyVars>>

WorkerUsage(h) ==
  /\ WorkerPut(h, "usage_put", "finish", WithUsage(wbuf[h]))
  /\ UNCHANGED <<events, tableVars, wres, callerVars, leaderVars,
                 adminVars, restarts, historyVars>>

\* A refused input, a budget stop or an error, all turned into FAILED by run.
WorkerFail(h) ==
  /\ wpc[h] = "body"
  /\ wpc' = [wpc EXCEPT ![h] = "finish"]
  /\ wres' = [wres EXCEPT ![h] = "error"]
  /\ UNCHANGED <<durableVars, tableVars, wbuf, callerVars, leaderVars,
                 adminVars, restarts, historyVars>>

\* What run does not catch: raised before its try or after it, caught by
\* _run_assigned.
WorkerRaise(h) ==
  /\ wpc[h] \in {"begin", "body", "verify"}
  /\ wpc' = [wpc EXCEPT ![h] = "finish"]
  /\ wres' = [wres EXCEPT ![h] = "raised"]
  /\ UNCHANGED <<durableVars, tableVars, wbuf, callerVars, leaderVars,
                 adminVars, restarts, historyVars>>

WorkerEnd(h) ==
  /\ WorkerFetch(h, "finish", "finish_put")
  /\ UNCHANGED <<durableVars, tableVars, wres, callerVars, leaderVars,
                 adminVars, restarts, historyVars>>

WorkerSettle(h) ==
  /\ WorkerPut(h, "finish_put", IF wres[h] = "raised" THEN "done" ELSE "verify",
               InState(wbuf[h], IF wres[h] = "output" THEN "completed" ELSE "failed"))
  /\ UNCHANGED <<events, tableVars, wres, callerVars, leaderVars,
                 adminVars, restarts, historyVars>>

\* Did a gather deadline pass meanwhile?  Read under the assignment lock.
WorkerDelivered(h) ==
  /\ wpc[h] = "verify" /\ h \notin abandoned
  /\ wpc' = [wpc EXCEPT ![h] = "done"]
  /\ UNCHANGED <<durableVars, tableVars, wbuf, wres, callerVars, leaderVars,
                 adminVars, restarts, historyVars>>

\* Fault variant: the late result is logged but the state is not restored.
WorkerLateUnrestored(h) ==
  /\ wpc[h] = "verify" /\ h \in abandoned
  /\ LogEvent(h, "assignment_late_result")
  /\ wpc' = [wpc EXCEPT ![h] = "done"]
  /\ UNCHANGED <<sess, wbuf, tableVars, wres, callerVars, leaderVars,
                 adminVars, restarts, historyVars>>

WorkerLate(h) ==
  /\ h \in abandoned
  /\ WorkerFetch(h, "verify", "late_put")
  /\ LogEvent(h, "assignment_late_result")
  /\ UNCHANGED <<sess, tableVars, wres, callerVars, leaderVars,
                 adminVars, restarts, historyVars>>

WorkerRestore(h) ==
  /\ WorkerPut(h, "late_put", "done", InState(wbuf[h], "failed"))
  /\ UNCHANGED <<events, tableVars, wres, callerVars, leaderVars,
                 adminVars, restarts, historyVars>>
-----------------------------------------------------------------------------
(***************************************************************************)
(* The leader's tools.  A refusal (no authority, depth, an unknown handle) *)
(* changes nothing and is the action not taken.                            *)
(***************************************************************************)
\* Fault variant: the bound is compared with <= instead of <.
AssignCheckOffByOne(c) ==
  /\ leader = "on" /\ cpc[c] = "idle"
  /\ MaxParallel = 0 \/ Cardinality(Unsettled) <= MaxParallel
  /\ \E h \in Handles : sess[h].state = "absent"
  /\ cpc' = [cpc EXCEPT ![c] = "create"]
  /\ UNCHANGED <<durableVars, tableVars, workerVars, chandle, cbuf, canswer,
                 todo, leaderVars, adminVars, restarts, historyVars>>

\* assign, first half: the parallel bound is read ...
AssignCheck(c) ==
  /\ leader = "on" /\ cpc[c] = "idle"
  /\ MaxParallel = 0 \/ Cardinality(Unsettled) < MaxParallel
  /\ \E h \in Handles : sess[h].state = "absent"
  /\ cpc' = [cpc EXCEPT ![c] = "create"]
  /\ UNCHANGED <<durableVars, tableVars, workerVars, chandle, cbuf, canswer,
                 todo, leaderVars, adminVars, restarts, historyVars>>

\* ... and acted upon: the child session and the assignment come to exist,
AssignCreate(c, h) ==
  /\ cpc[c] = "create" /\ sess[h].state = "absent"
  /\ sess' = [sess EXCEPT ![h] = InState(@, "created")]
  /\ held' = held \union {h}
  /\ cpc' = [cpc EXCEPT ![c] = "announce"]
  /\ chandle' = [chandle EXCEPT ![c] = h]
  /\ UNCHANGED <<events, collected, abandoned, workerVars, cbuf, canswer, todo,
                 leaderVars, adminVars, restarts, historyVars>>

\* the delegation event makes the handle one the leader holds,
AssignLog(c) ==
  /\ cpc[c] = "announce"
  /\ LogEvent(chandle[c], "delegation")
  /\ cpc' = [cpc EXCEPT ![c] = "submit"]
  /\ UNCHANGED <<sess, tableVars, workerVars, chandle, cbuf, canswer, todo,
                 leaderVars, adminVars, restarts, historyVars>>

\* and the pool's future replaces the placeholder.
AssignSubmit(c) ==
  /\ cpc[c] = "submit"
  /\ wpc' = [wpc EXCEPT ![chandle[c]] = "queued"]
  /\ cpc' = [cpc EXCEPT ![c] = "idle"]
  /\ chandle' = [chandle EXCEPT ![c] = None]
  /\ UNCHANGED <<durableVars, tableVars, wbuf, wres, cbuf, canswer, todo,
                 leaderVars, adminVars, restarts, historyVars>>

\* A tool call is over: back to the gather loop it came from, or to the agent.
Answered(c) ==
  /\ cpc' = [cpc EXCEPT ![c] = IF todo'[c] = {} THEN "idle" ELSE "wait"]
  /\ chandle' = [chandle EXCEPT ![c] = None]
  /\ cbuf' = [cbuf EXCEPT ![c] = NoSession]
  /\ canswer' = [canswer EXCEPT ![c] = "none"]

\* check: the child document is read first, the future afterwards.
CheckRead(c, h) ==
  /\ leader = "on" /\ cpc[c] = "idle" /\ h \in Known
  /\ cpc' = [cpc EXCEPT ![c] = "settle"]
  /\ chandle' = [chandle EXCEPT ![c] = h]
  /\ cbuf' = [cbuf EXCEPT ![c] = sess[h]]
  /\ UNCHANGED <<durableVars, tableVars, workerVars, canswer, todo, leaderVars,
                 adminVars, restarts, historyVars>>

\* Fault variant: terminal in the store is taken for collectable.
SettledInStore(c) == cbuf[c].state \in Terminal

\* check's `settled`: terminal in the store is not yet collectable.
Settled(c) ==
  /\ cbuf[c].state \in Terminal
  /\ FutureDone(chandle[c]) \/ chandle[c] \in abandoned

CheckUnsettled(c) ==
  /\ cpc[c] = "settle" /\ ~Settled(c)
  /\ UNCHANGED todo
  /\ Answered(c)
  /\ UNCHANGED <<durableVars, tableVars, workerVars, leaderVars,
                 adminVars, restarts, historyVars>>

\* Fault variant: an exception of the worker is passed on as it is.
CheckSettledRaw(c) ==
  LET h == chandle[c] IN
  /\ cpc[c] = "settle" /\ Settled(c)
  /\ canswer' = [canswer EXCEPT ![c] = IF FutureDone(h) THEN wres[h] ELSE "empty"]
  /\ cbuf' = [cbuf EXCEPT ![c] = sess[h]]
  /\ cpc' = [cpc EXCEPT ![c] = "collect"]
  /\ UNCHANGED <<durableVars, tableVars, workerVars, chandle, todo, leaderVars,
                 adminVars, restarts, historyVars>>

\* _collect reads the result, if there is one, and the child's usage ...
CheckSettled(c) ==
  LET h == chandle[c] IN
  /\ cpc[c] = "settle" /\ Settled(c)
  /\ canswer' = [canswer EXCEPT ![c] =
       IF ~FutureDone(h) THEN "empty"
       ELSE IF wres[h] = "output" THEN "output" ELSE "error"]
  /\ cbuf' = [cbuf EXCEPT ![c] = sess[h]]
  /\ cpc' = [cpc EXCEPT ![c] = "collect"]
  /\ UNCHANGED <<durableVars, tableVars, workerVars, chandle, todo, leaderVars,
                 adminVars, restarts, historyVars>>

\* Fault variant: a call that is not the first goes on to charge as well.
CollectEveryTime(c) ==
  /\ cpc[c] = "collect"
  /\ collected' = collected \union {chandle[c]}
  /\ cpc' = [cpc EXCEPT ![c] = "charge"]
  /\ UNCHANGED <<durableVars, held, abandoned, workerVars, chandle, cbuf, canswer,
                 todo, leaderVars, adminVars, restarts, historyVars>>

\* ... takes the handle under the assignment lock; whoever finds it taken
\* reports the result at once, before or after it has been charged,
Collect(c) ==
  LET h == chandle[c] IN
  /\ cpc[c] = "collect"
  /\ collected' = collected \union {h}
  /\ UNCHANGED todo
  /\ IF h \in collected
       THEN /\ reports' = [reports EXCEPT ![h] = @ \union {canswer[c]}]
            /\ Answered(c)
       ELSE /\ cpc' = [cpc EXCEPT ![c] = "charge"]
            /\ UNCHANGED <<reports, chandle, cbuf, canswer>>
  /\ UNCHANGED <<durableVars, held, abandoned, workerVars, leaderVars,
                 adminVars, restarts, charged>>

\* Fault variant: a delegation whose authority has lapsed is not charged.
ChargeUnlessLapsed(c) ==
  LET h == chandle[c] IN
  /\ cpc[c] = "charge"
  /\ \E spent \in {0, cbuf[c].tokens} :
       charged' = [charged EXCEPT ![h] = @ + spent]
  /\ reports' = [reports EXCEPT ![h] = @ \union {canswer[c]}]
  /\ UNCHANGED todo
  /\ Answered(c)
  /\ UNCHANGED <<durableVars, tableVars, workerVars, leaderVars, adminVars, restarts>>

\* and, outside the lock, charges it to the leader's budget and reports it.
Charge(c) ==
  LET h == chandle[c] IN
  /\ cpc[c] = "charge"
  /\ charged' = [charged EXCEPT ![h] = @ + cbuf[c].tokens]
  /\ reports' = [reports EXCEPT ![h] = @ \union {canswer[c]}]
  /\ UNCHANGED todo
  /\ Answered(c)
  /\ UNCHANGED <<durableVars, tableVars, workerVars, leaderVars, adminVars, restarts>>

\* Between the two, reading the authority, or after the spend, logging it, may
\* raise: the tool call is over, a gather's other handles with it.
ChargeRaises(c) ==
  LET h == chandle[c] IN
  /\ cpc[c] = "charge"
  /\ \E spent \in {0, cbuf[c].tokens} :
       charged' = [charged EXCEPT ![h] = @ + spent]
  /\ reports' = [reports EXCEPT ![h] = @ \union {"raised"}]
  /\ todo' = [todo EXCEPT ![c] = {}]
  /\ Answered(c)
  /\ UNCHANGED <<durableVars, tableVars, workerVars, leaderVars, adminVars, restarts>>

\* gather waits for one handle after another, most important first; the order
\* (the leader's priorities) is left open.
Gather(c, hs) ==
  /\ leader = "on" /\ cpc[c] = "idle" /\ hs # {} /\ hs \subseteq Known
  /\ cpc' = [cpc EXCEPT ![c] = "wait"]
  /\ todo' = [todo EXCEPT ![c] = hs]
  /\ UNCHANGED <<durableVars, tableVars, workerVars, chandle, cbuf, canswer,
                 leaderVars, adminVars, restarts, historyVars>>

GatherResult(c, h) ==
  /\ cpc[c] = "wait" /\ h \in todo[c] /\ FutureDone(h)
  /\ cpc' = [cpc EXCEPT ![c] = "settle"]
  /\ chandle' = [chandle EXCEPT ![c] = h]
  /\ cbuf' = [cbuf EXCEPT ![c] = sess[h]]
  /\ todo' = [todo EXCEPT ![c] = @ \ {h}]
  /\ UNCHANGED <<durableVars, tableVars, workerVars, canswer, leaderVars,
                 adminVars, restarts, historyVars>>

\* Fault variant: only work that never left the pool's queue can time out.
GatherTimeoutQueued(c, h) ==
  /\ cpc[c] = "wait" /\ h \in todo[c] /\ wpc[h] = "queued"
  /\ cpc' = [cpc EXCEPT ![c] = "expired"]
  /\ chandle' = [chandle EXCEPT ![c] = h]
  /\ todo' = [todo EXCEPT ![c] = @ \ {h}]
  /\ UNCHANGED <<durableVars, tableVars, workerVars, cbuf, canswer, leaderVars,
                 adminVars, restarts, historyVars>>

\* The deadline passes with the work unfinished.
GatherTimeout(c, h) ==
  /\ cpc[c] = "wait" /\ h \in todo[c] /\ ~FutureDone(h)
  /\ cpc' = [cpc EXCEPT ![c] = "expired"]
  /\ chandle' = [chandle EXCEPT ![c] = h]
  /\ todo' = [todo EXCEPT ![c] = @ \ {h}]
  /\ UNCHANGED <<durableVars, tableVars, workerVars, cbuf, canswer, leaderVars,
                 adminVars, restarts, historyVars>>

\* Fault variant: the handle is given up but stays collectable.
GatherAbandonUncollected(c) ==
  /\ cpc[c] = "expired"
  /\ abandoned' = abandoned \union {chandle[c]}
  /\ cpc' = [cpc EXCEPT ![c] = "fail"]
  /\ UNCHANGED <<durableVars, held, collected, workerVars, chandle, cbuf, canswer,
                 todo, leaderVars, adminVars, restarts, historyVars>>

\* Under the lock the handle is given up, uncharged.
GatherAbandon(c) ==
  LET h == chandle[c] IN
  /\ cpc[c] = "expired"
  /\ abandoned' = abandoned \union {h}
  /\ collected' = collected \union {h}
  /\ cpc' = [cpc EXCEPT ![c] = "fail"]
  /\ UNCHANGED <<durableVars, held, workerVars, chandle, cbuf, canswer, todo,
                 leaderVars, adminVars, restarts, historyVars>>

GatherFetch(c) ==
  /\ cpc[c] = "fail"
  /\ LogEvent(chandle[c], "assignment_abandoned")
  /\ cbuf' = [cbuf EXCEPT ![c] = sess[chandle[c]]]
  /\ cpc' = [cpc EXCEPT ![c] = "fail_put"]
  /\ UNCHANGED <<sess, tableVars, workerVars, chandle, canswer, todo,
                 leaderVars, adminVars, restarts, historyVars>>

\* Fault variant: the copy is written back without the new state.
GatherFailStale(c) ==
  LET h == chandle[c] IN
  /\ cpc[c] = "fail_put"
  /\ sess' = [sess EXCEPT ![h] = cbuf[c]]
  /\ reports' = [reports EXCEPT ![h] = @ \union {"deadline"}]
  /\ UNCHANGED todo
  /\ Answered(c)
  /\ UNCHANGED <<events, tableVars, workerVars, leaderVars,
                 adminVars, restarts, charged>>

GatherFail(c) ==
  LET h == chandle[c] IN
  /\ cpc[c] = "fail_put"
  /\ sess' = [sess EXCEPT ![h] = InState(cbuf[c], "failed")]
  /\ reports' = [reports EXCEPT ![h] = @ \union {"deadline"}]
  /\ UNCHANGED todo
  /\ Answered(c)
  /\ UNCHANGED <<events, tableVars, workerVars, leaderVars,
                 adminVars, restarts, charged>>
-----------------------------------------------------------------------------
(***************************************************************************)
(* The leader's run, the administrator and the process itself.             *)
(***************************************************************************)
\* Fault variant: only children that were running are looked for.
LeaderStartRunning ==
  /\ leader = "off"
  /\ leader' = "settling"
  /\ lostTodo' = {h \in Unsettled : sess[h].state = "running"}
  /\ UNCHANGED <<durableVars, tableVars, workerVars, callerVars,
                 adminVars, restarts, historyVars>>

\* run on the leader's session: settle_lost_handles lists what is unsettled,
LeaderStart ==
  /\ leader = "off"
  /\ leader' = "settling"
  /\ lostTodo' = Unsettled
  /\ UNCHANGED <<durableVars, tableVars, workerVars, callerVars,
                 adminVars, restarts, historyVars>>

\* Fault variant: the assignment table is not consulted.
SettleLostUnasked(h) ==
  /\ leader = "settling" /\ h \in lostTodo
  /\ lostTodo' = lostTodo \ {h}
  /\ LogEvent(h, "assignment_lost")
  /\ sess' = [sess EXCEPT ![h] = InState(@, "failed")]
  /\ UNCHANGED <<tableVars, workerVars, callerVars, leader,
                 adminVars, restarts, historyVars>>

\* fails what no assignment of this process holds, leaves the rest alone,
SettleLost(h) ==
  /\ leader = "settling" /\ h \in lostTodo
  /\ lostTodo' = lostTodo \ {h}
  /\ IF h \in held
       THEN UNCHANGED durableVars
       ELSE /\ LogEvent(h, "assignment_lost")
            /\ sess' = [sess EXCEPT ![h] = InState(@, "failed")]
  /\ UNCHANGED <<tableVars, workerVars, callerVars, leader,
                 adminVars, restarts, historyVars>>

\* and only then does the agent's turn begin.
LeaderReady ==
  /\ leader = "settling" /\ lostTodo = {}
  /\ leader' = "on"
  /\ UNCHANGED <<durableVars, tableVars, workerVars, callerVars, lostTodo,
                 adminVars, restarts, historyVars>>

\* The run ends when its tool calls have returned; handles outlive it.
LeaderEnd ==
  /\ leader = "on" /\ \A c \in Callers : cpc[c] = "idle"
  /\ leader' = "off"
  /\ UNCHANGED <<durableVars, tableVars, workerVars, callerVars, lostTodo,
                 adminVars, restarts, historyVars>>

\* offboard fails every session of a departed agent that is not terminal,
\* whether or not a worker is running it.
OffboardSee(h) ==
  /\ Offboarding /\ apc = "idle"
  /\ sess[h].state \notin Terminal \union {"absent"}
  /\ "agent_departed" \notin events[h]
  /\ LogEvent(h, "agent_departed")
  /\ apc' = "get" /\ ahandle' = h
  /\ UNCHANGED <<sess, tableVars, workerVars, callerVars, leaderVars,
                 abuf, restarts, historyVars>>

OffboardFetch ==
  /\ apc = "get"
  /\ apc' = "put" /\ abuf' = sess[ahandle]
  /\ UNCHANGED <<durableVars, tableVars, workerVars, callerVars, leaderVars,
                 ahandle, restarts, historyVars>>

OffboardFail ==
  /\ apc = "put"
  /\ sess' = [sess EXCEPT ![ahandle] = InState(abuf, "failed")]
  /\ apc' = "idle" /\ ahandle' = None /\ abuf' = NoSession
  /\ UNCHANGED <<events, tableVars, workerVars, callerVars, leaderVars,
                 restarts, historyVars>>

\* The process dies between any two steps and comes back empty.
Restart ==
  /\ restarts < MaxRestarts
  /\ restarts' = restarts + 1
  /\ held' = {} /\ collected' = {} /\ abandoned' = {}
  /\ wpc' = [h \in Handles |-> "none"]
  /\ wbuf' = [h \in Handles |-> NoSession]
  /\ wres' = [h \in Handles |-> "none"]
  /\ cpc' = [c \in Callers |-> "idle"]
  /\ chandle' = [c \in Callers |-> None]
  /\ cbuf' = [c \in Callers |-> NoSession]
  /\ canswer' = [c \in Callers |-> "none"]
  /\ todo' = [c \in Callers |-> {}]
  /\ leader' = "off" /\ lostTodo' = {}
  /\ apc' = "idle" /\ ahandle' = None /\ abuf' = NoSession
  /\ UNCHANGED <<durableVars, historyVars>>
-----------------------------------------------------------------------------
\* What a worker thread does on its own once it runs: everything but the
\* agent's turn, which a model may keep from ever returning.
WorkerStep(h) ==
  \/ WorkerStart(h) \/ WorkerBegin(h) \/ WorkerRunning(h) \/ WorkerWaiting(h)
  \/ WorkerUsage(h) \/ WorkerEnd(h) \/ WorkerSettle(h)
  \/ WorkerDelivered(h) \/ WorkerLate(h) \/ WorkerRestore(h)

\* The agent's turn ends, or run does by an exception.
TurnEnds(h) == WorkerAnswer(h) \/ WorkerFail(h) \/ WorkerRaise(h)

\* What a tool call does once it was made.
CallerStep(c) ==
  \/ \E h \in Handles : AssignCreate(c, h)
  \/ AssignLog(c) \/ AssignSubmit(c)
  \/ CheckUnsettled(c) \/ CheckSettled(c)
  \/ Collect(c) \/ Charge(c) \/ ChargeRaises(c)
  \/ \E h \in Handles : GatherResult(c, h) \/ GatherTimeout(c, h)
  \/ GatherAbandon(c) \/ GatherFetch(c) \/ GatherFail(c)

CallerNext(c) ==
  \/ AssignCheck(c)
  \/ \E h \in Handles : CheckRead(c, h)
  \/ \E hs \in SUBSET Handles : Gather(c, hs)
  \/ CallerStep(c)

Next ==
  \/ \E h \in Handles : WorkerStep(h) \/ TurnEnds(h) \/ WorkerAsk(h)
  \/ \E c \in Callers : CallerNext(c)
  \/ LeaderStart \/ LeaderReady \/ LeaderEnd
  \/ \E h \in Handles : SettleLost(h) \/ OffboardSee(h)
  \/ OffboardFetch \/ OffboardFail
  \/ Restart

Spec == Init /\ [][Next]_vars

\* A thread that can step does: the interpreter schedules every thread, and a
\* gather's own deadline bounds each wait.
CallerFairness == \A c \in Callers : WF_vars(CallerStep(c))
WorkerFairness == \A h \in Handles : WF_vars(WorkerStep(h)) /\ WF_vars(TurnEnds(h))
FairSpec  == Spec /\ CallerFairness
-----------------------------------------------------------------------------
(***************************************************************************)
(* Properties                                                              *)
(***************************************************************************)
\* Every variable of the model stays in its range.
TypeOK ==
  /\ sess \in [Handles -> Sessions]
  /\ events \in [Handles -> SUBSET EventKinds]
  /\ held \subseteq Handles /\ collected \subseteq Handles /\ abandoned \subseteq Handles
  /\ wpc \in [Handles -> WorkerPcs]
  /\ wbuf \in [Handles -> Sessions]
  /\ wres \in [Handles -> Results]
  /\ cpc \in [Callers -> CallerPcs]
  /\ chandle \in [Callers -> Handles \union {None}]
  /\ cbuf \in [Callers -> Sessions]
  /\ canswer \in [Callers -> {"none", "output", "error", "empty"}]
  /\ todo \in [Callers -> SUBSET Handles]
  /\ leader \in {"off", "settling", "on"}
  /\ lostTodo \subseteq Handles
  /\ apc \in {"idle", "get", "put"}
  /\ ahandle \in Handles \union {None}
  /\ abuf \in Sessions
  /\ restarts \in Nat
  /\ charged \in [Handles -> Nat]
  /\ reports \in [Handles -> SUBSET Reports]

\* Some thread of the leader is between giving h up and failing its session.
BeingFailed(h) == \E c \in Callers :
  chandle[c] = h /\ cpc[c] \in {"fail", "fail_put"}

\* The store does not contradict what the leader was told (the comment in
\* _run_assigned): once a given-up handle's worker has finished and gather has
\* written its verdict, the child session reads failed, however the writes of
\* the worker, of gather and of offboard interleaved.
GivenUpStaysFailed == \A h \in Handles :
  (h \in abandoned /\ wpc[h] = "done" /\ ~BeingFailed(h)) => sess[h].state = "failed"

\* "Reporting it settled in that gap delivered an empty result" (check): a
\* settled report without a result is made for a given-up handle only, though
\* the store shows the child completed before its future resolves.
NoEmptyDelivery == \A h \in held : "empty" \in reports[h] => h \in abandoned

\* Rule 4, "charging happens exactly once" (_collect): whatever tool calls
\* collect a handle side by side, its usage is charged at most once.
ChargedOnce == \A h \in Handles : charged[h] <= 1

\* Some thread of the leader has taken h and is on its way to charging it.
BeingCharged(h) == \E c \in Callers : chandle[c] = h /\ cpc[c] = "charge"

\* Rule 4: a result handed to the leader is paid for, by the thread that took
\* it, also when another thread reports it first; only a collecting call that
\* raised leaves a result that later calls deliver uncharged.  Where nobody
\* else writes the child's document; a given-up handle is excepted.
DeliveredIsPaid == \A h \in held \ abandoned :
  ("output" \in reports[h] /\ "raised" \notin reports[h])
    => charged[h] = 1 \/ BeingCharged(h)

\* Rule 5 (settle_lost_handles): a handle declared lost has no worker in this
\* process, before or after.
LostHasNoWorker == \A h \in Handles :
  "assignment_lost" \in events[h] => wpc[h] = "none"

\* The comment in run: a handle nothing in this process holds is failed before
\* the agent can be told it is still running.
NothingLostIsOpen == leader = "on" => Unsettled \subseteq held

\* Rule 3 (assign): a leader whose tool calls come one at a time never holds
\* more than the bound of handles that are unsettled and not given up.
BoundHolds ==
  MaxParallel # 0 => Cardinality((Unsettled \cap held) \ abandoned) <= MaxParallel

\* Once its worker has finished, the only thing that still happens to a child
\* session is being failed by a deadline or an offboarding already under way:
\* no late writer of an older copy reopens or completes it.
FinishedOnlyFails == [][\A h \in Handles :
  (wpc[h] = "done" /\ wpc'[h] = "done" /\ sess'[h].state # sess[h].state)
    => sess'[h].state = "failed"]_vars

\* What the leader is promised about a handle, whatever threads and sessions
\* there are behind it.
Phase(h) == CASE sess[h].state = "absent" -> "none"
              [] sess[h].state # "absent" /\ h \notin held -> "lost"
              [] h \in held /\ h \in collected -> "closed"
              [] OTHER -> "open"

Contract == INSTANCE HandleContract WITH
  phase <- [h \in Handles |-> Phase(h)], owed <- {h \in Handles : BeingCharged(h)},
  paid <- charged, told <- reports

\* The delegation implements the contract: whichever tool calls of the leader
\* check, gather and give up side by side, a handle is closed once, charged at
\* most once and only by the call that closed it by collecting, told of only
\* when closed, lost for good.
KeepsContract == Contract!Spec

\* "Every handle settles" (gather): a gather returns, also when the agents it
\* waits for never finish their turn.
GatherReturns == \A c \in Callers : (cpc[c] = "wait") ~> (cpc[c] = "idle")

\* Once the leader was told the deadline passed, the session ends up failed
\* for good, even when a worker is about to reopen or to complete it: given
\* that agents' turns end.
GivenUpEndsFailed ==
  WorkerFairness =>
    \A h \in Handles : ("deadline" \in reports[h]) ~> [](sess[h].state = "failed")
-----------------------------------------------------------------------------
(***************************************************************************)
(* What the documentation says and the code does not do.                   *)
(***************************************************************************)
\* sessions.py on TERMINAL_STATES: "The states a session never leaves".  A
\* worker that starts after its deadline sets RUNNING over FAILED.
TerminalIsFinal == [][\A h \in Handles :
  sess[h].state \in Terminal => sess'[h].state = sess[h].state]_vars

\* _collect: "Charging happens exactly once".  If what comes after the handle
\* is taken raises, the next check reports the output, and nobody charges it.
DeliveredIsCharged == \A h \in held \ abandoned :
  "output" \in reports[h] => charged[h] = 1 \/ BeingCharged(h)

\* SessionManager.outstanding: a child parked on an approval is outstanding,
\* not finished.  The end of the run overwrites WAITING_HUMAN.
ParkedIsNotFinished == [][\A h \in Handles :
  sess[h].state = "waiting_human" => sess'[h].state # "completed"]_vars
=============================================================================
