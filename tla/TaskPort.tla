------------------------------ MODULE TaskPort ------------------------------
(***************************************************************************)
(* Assigned tasks and the runs they become (tasks/local.py,                *)
(* tasks/service.py, tasks/model.py, tasks/divergence.py, ADR-0057).       *)
(*                                                                         *)
(* A task is a document that the agent's side (TaskService.start) and the  *)
(* person's own tool both read, check and write back whole, without a      *)
(* lock.  start is one long call: claim, note progress, run the agent,     *)
(* link the run, record the outcome; each of these is a read and a write   *)
(* of its own, and the person's moves fall in between.  Comments and       *)
(* notes are writes that change nothing this model keeps.                  *)
(***************************************************************************)
EXTENDS Naturals, Sequences

CONSTANTS
  Tasks,
  Paired,    \* tasks whose assigner may direct the agent
  Starters,  \* threads of the agent's side
  Persons,   \* people at their tools, one request at a time each
  NoRun,     \* no session is linked
  NoDoc,   \* no request, no document
  MaxRuns,   \* bound: runs started
  MaxPath    \* bound: moves in a task's history

TaskStates == {"open", "claimed", "in_progress", "done", "failed", "cancelled"}
Sides      == {"agent", "human"}
RunIds     == 1..MaxRuns

ASSUME TaskAssumption ==
  /\ Paired \subseteq Tasks
  /\ Starters \intersect Persons = {}
  /\ NoRun \notin Nat
  /\ MaxRuns \in Nat /\ MaxPath \in Nat

VARIABLES
  task,   \* the stored tasks: state, linked session, moves
  runs,   \* the sessions started: the task, and how the run ended
  tpc,    \* where a request is
  treq,   \* what it moves where, on whose side, and what follows
  tread,  \* the document it is about to write
  trun    \* the run a starter started

taskVars == <<task, runs, tpc, treq, tread, trun>>
-----------------------------------------------------------------------------
Requesters == Starters \union Persons

\* TRANSITIONS of tasks/model.py: which side may make a move.
TaskTransitions(s, t) ==
  CASE s = "open" /\ t = "claimed"         -> {"agent"}
    [] s = "claimed" /\ t = "in_progress"  -> {"agent"}
    [] s = "claimed" /\ t = "open"         -> {"agent", "human"}
    [] s = "claimed" /\ t = "failed"       -> {"agent"}
    [] s = "in_progress" /\ t \in {"done", "failed"} -> {"agent"}
    [] s \in {"open", "claimed", "in_progress"} /\ t = "cancelled" -> {"human"}
    [] s \in {"done", "failed"} /\ t = "open" -> {"human"}
    [] OTHER -> {}

MovedTask(doc, target, side) ==
  [doc EXCEPT !.state = target, !.path = Append(@, [to |-> target, side |-> side])]

TaskInit ==
  /\ task = [k \in Tasks |-> [state |-> "open", session |-> NoRun, path |-> <<>>]]
  /\ runs = <<>>
  /\ tpc = [x \in Requesters |-> "idle"]
  /\ treq = [x \in Requesters |-> NoDoc]
  /\ tread = [x \in Requesters |-> NoDoc]
  /\ trun = [x \in Requesters |-> NoRun]

Goto(x, pc) == tpc' = [tpc EXCEPT ![x] = pc]

\* A request ends, with its answer or an error.
Ends(x) ==
  /\ Goto(x, "idle")
  /\ treq' = [treq EXCEPT ![x] = NoDoc]
  /\ tread' = [tread EXCEPT ![x] = NoDoc]
  /\ trun' = [trun EXCEPT ![x] = NoRun]

\* A request is made: to move k to target, and then to go on at next.
Request(x, k, target, side, next) ==
  /\ treq' = [treq EXCEPT ![x] =
                [task |-> k, target |-> target, side |-> side, next |-> next]]
  /\ Goto(x, "move")
-----------------------------------------------------------------------------
(***************************************************************************)
(* _move and _save of the local backend                                    *)
(***************************************************************************)
\* _move reads and checks; an illegal move is an error, which ends start.
MoveRead(x) ==
  LET doc == task[treq[x].task]
  IN
  /\ tpc[x] = "move"
  /\ IF treq[x].side \in TaskTransitions(doc.state, treq[x].target)
       THEN /\ Len(doc.path) < MaxPath
            /\ tread' = [tread EXCEPT ![x] =
                            MovedTask(doc, treq[x].target, treq[x].side)]
            /\ Goto(x, "put")
            /\ UNCHANGED <<treq, trun>>
       ELSE Ends(x)
  /\ UNCHANGED <<task, runs>>

\* What follows a write: the next step of start, or the end.
GoesOn(x) ==
  IF treq[x].next = "idle"
    THEN Ends(x)
    ELSE /\ Goto(x, treq[x].next)
         /\ tread' = [tread EXCEPT ![x] = NoDoc]
         /\ UNCHANGED <<treq, trun>>

\* Fault variant: only the state is written, not the document.
PutState(x) ==
  /\ tpc[x] = "put"
  /\ task' = [task EXCEPT ![treq[x].task].state = tread[x].state]
  /\ GoesOn(x)
  /\ UNCHANGED runs

Put(x) ==
  /\ tpc[x] = "put"
  /\ task' = [task EXCEPT ![treq[x].task] = tread[x]]
  /\ GoesOn(x)
  /\ UNCHANGED runs
-----------------------------------------------------------------------------
(***************************************************************************)
(* TaskService.start                                                       *)
(***************************************************************************)
\* The pairing and the linked run are checked on one read, claim on its own.
Start(s, k) ==
  /\ tpc[s] = "idle" /\ k \in Paired /\ task[k].session = NoRun
  /\ Request(s, k, "claimed", "agent", "progress")
  /\ UNCHANGED <<task, runs, tread, trun>>

\* progress moves a claimed task on, and only notes on any other.
Progress(s) ==
  LET doc == task[treq[s].task]
  IN
  /\ tpc[s] = "progress"
  /\ IF doc.state = "claimed"
       THEN /\ Request(s, treq[s].task, "in_progress", "agent", "run")
            /\ UNCHANGED tread
       ELSE /\ tread' = [tread EXCEPT ![s] = doc]
            /\ treq' = [treq EXCEPT ![s].next = "run"]
            /\ Goto(s, "put")
  /\ UNCHANGED <<task, runs, trun>>

\* Fault variant: the run is taken to be the last one there was.
RunBeginsEarly(s) ==
  /\ tpc[s] = "run" /\ Len(runs) < MaxRuns
  /\ runs' = Append(runs, [task |-> treq[s].task, state |-> "running"])
  /\ trun' = [trun EXCEPT ![s] = Len(runs)]
  /\ Goto(s, "running")
  /\ UNCHANGED <<task, treq, tread>>

\* runtime.run opens a session ...
RunBegins(s) ==
  /\ tpc[s] = "run" /\ Len(runs) < MaxRuns
  /\ runs' = Append(runs, [task |-> treq[s].task, state |-> "running"])
  /\ trun' = [trun EXCEPT ![s] = Len(runs) + 1]
  /\ Goto(s, "running")
  /\ UNCHANGED <<task, treq, tread>>

\* ... which it leaves completed or failed, never waiting for a human ...
RunEnds(s, how) ==
  /\ tpc[s] = "running"
  /\ runs' = [runs EXCEPT ![trun[s]].state = how]
  /\ Goto(s, "link")
  /\ UNCHANGED <<task, treq, tread, trun>>

\* ... or it raises while the tools are built: the session stays running.
RunRaises(s) ==
  /\ tpc[s] = "running"
  /\ Ends(s)
  /\ UNCHANGED <<task, runs>>

\* link_run refuses a second session, and start ends with its error.
LinkRun(s) ==
  LET doc == task[treq[s].task]
  IN
  /\ tpc[s] = "link"
  /\ IF doc.session \in {NoRun, trun[s]}
       THEN /\ tread' = [tread EXCEPT ![s] = [doc EXCEPT !.session = trun[s]]]
            /\ treq' = [treq EXCEPT ![s].next = "end"]
            /\ Goto(s, "put")
            /\ UNCHANGED trun
       ELSE Ends(s)
  /\ UNCHANGED <<task, runs>>

\* Fault variant: the outcome is done whatever the run said.
RecordDone(s) ==
  /\ tpc[s] = "end"
  /\ Request(s, treq[s].task, "done", "agent", "idle")
  /\ UNCHANGED <<task, runs, tread, trun>>

\* complete or fail, by the run's error.
Record(s) ==
  /\ tpc[s] = "end"
  /\ Request(s, treq[s].task, IF runs[trun[s]].state = "failed" THEN "failed" ELSE "done",
             "agent", "idle")
  /\ UNCHANGED <<task, runs, tread, trun>>

\* The agent's process dies; what it had stored stays.
Crash ==
  /\ \E s \in Starters : tpc[s] # "idle"
  /\ tpc' = [x \in Requesters |-> IF x \in Starters THEN "idle" ELSE tpc[x]]
  /\ trun' = [x \in Requesters |-> NoRun]
  /\ treq' = [x \in Requesters |-> IF x \in Starters THEN NoDoc ELSE treq[x]]
  /\ tread' = [x \in Requesters |-> IF x \in Starters THEN NoDoc ELSE tread[x]]
  /\ UNCHANGED <<task, runs>>
-----------------------------------------------------------------------------
(***************************************************************************)
(* The person's own tool                                                   *)
(***************************************************************************)
CancelOrReopen(p, k, target) ==
  /\ tpc[p] = "idle"
  /\ Request(p, k, target, "human", "idle")
  /\ UNCHANGED <<task, runs, tread, trun>>

Comment(p, k) ==
  /\ tpc[p] = "idle"
  /\ tread' = [tread EXCEPT ![p] = task[k]]
  /\ treq' = [treq EXCEPT ![p] =
                [task |-> k, target |-> "open", side |-> "human", next |-> "idle"]]
  /\ Goto(p, "put")
  /\ UNCHANGED <<task, runs, trun>>

StarterStep(s) ==
  \/ \E k \in Tasks : Start(s, k)
  \/ Progress(s) \/ RunBegins(s) \/ RunRaises(s) \/ LinkRun(s) \/ Record(s)
  \/ \E how \in {"completed", "failed"} : RunEnds(s, how)

PersonStep(p) ==
  \E k \in Tasks : \/ \E t \in {"cancelled", "open"} : CancelOrReopen(p, k, t)
                   \/ Comment(p, k)

TaskNext ==
  \/ \E x \in Requesters : MoveRead(x) \/ Put(x)
  \/ \E s \in Starters : StarterStep(s)
  \/ \E p \in Persons : PersonStep(p)
  \/ Crash

TaskSpec == TaskInit /\ [][TaskNext]_taskVars
-----------------------------------------------------------------------------
TaskDocs == [state : TaskStates, session : RunIds \union {NoRun},
             path : Seq([to : TaskStates, side : Sides])]

TaskPcs == {"idle", "move", "put", "progress", "run", "running", "link", "end"}

TaskRequests == [task : Tasks, target : TaskStates, side : Sides, next : TaskPcs]

TaskTypeOK ==
  /\ task \in [Tasks -> TaskDocs]
  /\ runs \in Seq([task : Tasks, state : {"running", "completed", "failed"}])
  /\ Len(runs) <= MaxRuns
  /\ tpc \in [Requesters -> TaskPcs]
  /\ treq \in [Requesters -> TaskRequests \union {NoDoc}]
  /\ tread \in [Requesters -> TaskDocs \union {NoDoc}]
  /\ trun \in [Requesters -> RunIds \union {NoRun}]
  /\ \A x \in Requesters :
       /\ tpc[x] # "idle" => treq[x] \in TaskRequests
       /\ tpc[x] = "put" => tread[x] \in TaskDocs
       /\ trun[x] # NoRun => trun[x] <= Len(runs)

\* The moves in a task's history lead from open to its state, each made by
\* a side that may (tasks/model.py: append-only, the history is the audit
\* trail), however requests overwrite each other.
TaskAt(doc, i) == IF i = 0 THEN "open" ELSE doc.path[i].to

TaskPath(doc) ==
  /\ doc.state = TaskAt(doc, Len(doc.path))
  /\ \A i \in 1..Len(doc.path) :
       doc.path[i].side \in TaskTransitions(TaskAt(doc, i - 1), TaskAt(doc, i))

TaskHistoryIsLegal == \A k \in Tasks : TaskPath(task[k])

\* A done task was worked on: a run of it ended without an error; and the
\* run a task links to is its own and has ended (tasks/service.py start).
DoneMeansWorked ==
  \A k \in Tasks :
    /\ task[k].state = "done" =>
         \E i \in DOMAIN runs : runs[i].task = k /\ runs[i].state = "completed"
    /\ task[k].session # NoRun =>
         /\ runs[task[k].session].task = k
         /\ runs[task[k].session].state # "running"

\* detect over the stored task and its linked session.
Reported(k) ==
  /\ task[k].session # NoRun
  /\ LET run == runs[task[k].session].state
     IN \/ task[k].state \in {"done", "failed", "cancelled"} /\ run = "running"
        \/ task[k].state \in {"open", "claimed", "in_progress"} /\ run # "running"

\* divergence.py: a task closed while its run is live is surfaced.
ClosedWhileLiveIsSurfaced ==
  \A k \in Tasks, s \in Starters :
    /\ task[k].state \in {"done", "failed", "cancelled"}
    /\ tpc[s] = "running" /\ runs[trun[s]].task = k
    => Reported(k)
=============================================================================
