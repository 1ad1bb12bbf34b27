# A verification model of orgagents

TLA+ modules, TLC runs and TLAPS proofs about the agent organization in this
repository: what its runtime, its bus and its designer promise when several
threads, processes and people act on the same records, and when a process dies
between two of its steps.  Paths below are relative to `src/src/orgagents/`
unless they start with `docs/` (`src/docs/`) or `web/` (`src/web/`).

1. The system: inventory  2. Plan  3. `AsyncDelegation`  4. `AgentBus`
5. `DesignerSave`  6. `ApprovalRelease`  7. `Fabric`  8. `TaskPort`
9. `Continuity`  10. `Workspace`  11. `Workflow`  12. Runs and bounds
13. Proofs  14. What is not modelled

---------------------------------------------------------------------------

## 1. The system

A *design* (a spec of an organization: teams, agents, mandates, workflows) is
edited by several people in the **designer**, compiled to a **deployment**,
and run: each agent's **runtime** answers tasks, delegates to other agents
(inside one process or over the **bus**), and asks people through **channels**
for decisions its mandate does not cover.

### Components

| component | state it keeps | operations | others it touches |
|---|---|---|---|
| Asynchronous delegation (`runtime/engine.py`, `sessions.py`, `store.py`) | child session documents and the event log (durable); the assignment table, a pool of 8 threads and its futures (in process) | `assign`, `check`, `gather`, `run`, `settle_lost_handles`, `offboard` | store, adapters, harness |
| Agent bus (`runtime/agent_bus.py`, `bus_worker.py`) | held handles with deadlines, tasks seen, runs submitted; the broker's stream and consumers | `delegate`, `check_delegation`, `_on_inbox`, `_run`, `_on_reply` | broker, runtime |
| Approval release (`runtime/worker.py`, `security/service_auth.py`, `harness/builder.py`) | used nonces (a file), grants (memory) | `/approve`, `grant`, `consume` | channels, harness |
| Approval ledger and channels (`channels/`) | one ledger of requests per tenant | `open`, `resolve`, `expire_due` | bridge, release |
| Task port (`tasks/`) | task documents | `claim`, `progress`, `link_run`, `complete`, `fail`; a person's `cancel`, `reopen`; `TaskService.start` | store, runtime |
| Scheduler (`runtime/scheduler.py`, `scheduling.py`) | next fire time, failures, halted | `fire`, `tick`, `catch_up` | runner |
| Workflow engine (`workflows/engine.py`) | position and variables of a run | interpret nodes, forks, joins, interrupts | adapters |
| Deployments (`fabric/deployments.py`) | state and history of a deployment | `request`, `transition` by role | store |
| Tenant quotas (`fabric/quotas.py`) | usage and breaches | `check`, `consume`, `release` | store |
| Designer saves (`designer/service.py`, `repository.py`, `merge.py`) | the current record of a design, its revisions | `open`, `save`, merge, resolve, `restore` | canvas |
| Designer locks and membership (`designer/locks.py`, `rbac.py`, `service.py`) | locks with expiry, members of a workspace | `acquire`, `heartbeat`, `release`, `break`; `add_member`, `remove_member` | saves |
| Organization and continuity (`org.py`, `continuity.py`) | agents, acting assignments | `stand_down`, `stand_in_for`, `close_standing_in`, `decommission` | delegation |
| Memory, guardrails, placements, adapters, persistence, compiler, catalogs, sandboxes, routes, observability, web | see section 14 | | |

### How they interact

* A leader's tool calls, its workers and administrators meet in the **store**,
  which serialises one read or one write and nothing larger:
  `SessionManager.set_state` is a get, a change and a put.
* Agents in different containers meet on the **broker**: at least once, in any
  order across redeliveries, replies the same way.
* A decision a person takes comes back as a callback to the **ledger**, then as
  a signed release to the worker's `/approve`, then as a **grant** a gated tool
  call consumes.
* People meet in the **repository**: one atomic compare-and-write per save, a
  three-way merge outside of it.

### Hard behaviours, and what makes each component correct

* **Delegation**: tool calls of one turn on several threads; a deadline racing
  a late result; a child failed while still queued; a process that dies with
  workers running.  Correct when: what the leader was told stays true in the
  store; a result is delivered whole, and charged once by whoever took it; the
  parallel bound holds; nothing lost stays open; every gather returns.
* **Bus**: redelivery after a lost acknowledgement; a reply before the
  publish returns; either side restarting; two clocks.  Correct when: a valid
  hop runs once; no reply misses a handle its sender still holds; nothing the
  broker stored disappears while the receiver is up.
* **Designer saves**: saves based on old versions; a second save during a
  merge; pruned ancestors.  Correct when: nobody's saved work disappears under
  a save made without knowledge of it, and no edit of the saver is dropped.
* **Approvals**: one token posted by many, on a pool of threads; a worker dying
  between noting the nonce and making the call; two runs at one grant.  Correct
  when a release that is still good is used once, on disk before it counts, and
  a call goes through only on a release of that call.
* **Tasks, deployments, tenants, membership, locks**: unlocked read-check-write
  under two actors.  Correct when histories stay legal paths, done means worked,
  the last owner stays, and two holders of one component are the effect of a race.
* **Continuity**: several runs of several agents fail, complete and lapse at
  once.  Correct when no one is given a forbidden pair of decisions, standing in
  does not go in circles, and it ends when its agent is back.
* **Workflows**: forks in forks, cycles, human steps and a bound counted in two
  places.  Correct when a fork merges what its branches wrote or refuses,
  nothing declared is skipped in a run that ends well, and every run ends.

---------------------------------------------------------------------------

## 2. Plan

Order: the most important behaviour first.  Built:

1. `HandleContract`, `AsyncDelegation`: delegation within a process and the
   contract it implements; `AsyncDelegationProofs`.
2. `AgentBus`: delegation between processes; `AgentBusProofs`.
3. `DesignerSave`: saving and merging a design; `DesignerSaveProofs`.
4. `ApprovalRelease`: from a signed release to the call; `ApprovalReleaseProofs`.
5. `Fabric`, `TaskPort`, composed in `MCRecords`: documents with a state machine
   and a history, moved by unlocked requests; `RecordsProofs`.
6. `Continuity`, `Workspace`, composed in `MCPeople`: who stands in for whom,
   and the people of a design and their locks; `WorkspaceProofs`, `PeopleProofs`.
7. `Workflow`: the interpreter on every small graph the validator accepts;
   `WorkflowProofs`.

Left, in order:

* leaders nested in workers of `AsyncDelegation`, which share its pool;
* deletion and re-creation in `DesignerSave`, so that a base version of one life
  meets another;
* `AgentBus` composed with `AsyncDelegation`, only for the contract: both
  implement "a handle is settled once".

Runs are few and each answers one question (section 12).  What a document or a
comment says and the code does not do is written down in the section of the
module; two of these are runs, and the others are definitions no run checks.

---------------------------------------------------------------------------

## 3. `AsyncDelegation` and `HandleContract`

From `runtime/engine.py` and `sessions.py` (ADR-0093).  One leader session hands
tasks to other agents and holds a *handle* on each; the handle is the child
session's id.

| state in the model | state in the code |
|---|---|
| `sess[h]` | the `AgentSession` document of the child in the store: `state`, `token_usage` |
| `events[h]` | the kinds of events about the child in the event log |
| `held` | the keys of `AgentRuntime._assignments` |
| `collected`, `abandoned` | the two flags of `_Assignment` |
| `wpc`, `wbuf`, `wres` | where the worker thread of the handle is, the document it has read, what its run came to |
| `cpc`, `chandle`, `cbuf`, `canswer`, `todo` | where a tool call of the leader is, its handle, what it has read, what it will report, what a gather still waits for |
| `leader`, `lostTodo` | the leader's own run and the list `settle_lost_handles` walks |
| `apc`, `ahandle`, `abuf` | an administrator in `offboard` |
| `charged`, `reports` | history: the charges asked of the leader's budget, and what its calls were told (or that one raised) |

Threads: `Worker*` actions are `_run_assigned` around `run`; `Assign*`, `Check*`,
`Collect`, `Charge*`, `Gather*` are the tools; `Leader*` and `SettleLost` are the
leader's own run; `Offboard*` the administrator; `Restart` the process. Each get
and each put is a step: the put writes back the whole document read, with one
field changed, over whatever is there.  A refusal of a tool (no authority, unknown
handle) changes nothing and is the action not taken.  The outcome of a run
(answer, error, exception) is left open: guardrails, budgets and output contracts
only choose between them.

Collecting a result is four steps, because `_collect` holds its lock for one of
them only: the result and the child's usage are read (`CheckSettled`,
`engine.py:560`); the handle is taken under the lock, and a call that finds it
taken reports at once (`Collect`, 571-575); the call that took it charges the
budget and logs it, outside the lock (`Charge`, 576-611); or it raises on the
way, before the spend (`can_delegate`, 583) or after it (the log, 595), and is
over, for a `gather` with all the handles it still waited for (`ChargeRaises`).
`charged` counts the calls of `TurnBudget.spend`; the addition inside it is
unlocked as well and could lose one of two concurrent charges, which a model of
one handle's charge does not see.

`HandleContract` is what a leader is promised, without threads or sessions: a
handle is open until it is closed, once, by collecting or giving it up; the call
that closed it by collecting, and no other, owes its charge (`owed`) and pays it
at most once, at its own time; nothing is told before it is closed; a process
that dies loses its handles for good, and what was owed with them.
`AsyncDelegation` implements it (`KeepsContract`), with `phase` computed from
`sess`, `held` and `collected`, and `owed` from who is about to charge.

`DeliveredIsPaid` is what is left of "charging happens exactly once": a result
that was reported is charged, or the thread that took it is on its way to charge
it, or that thread's call raised.  A second thread does report it before the
charge, and a raise leaves it uncharged for good.

Observations the model makes and no run states (the first three are
definitions TLC refutes when they are checked):

* a session does leave a terminal state, against `sessions.py:15`
  (`TerminalIsFinal`): failed by the deadline while queued, then set running by
  its worker (`engine.py:644`);
* a parked child does finish, against `sessions.py:70` (`ParkedIsNotFinished`):
  the end of the run overwrites `WAITING_HUMAN` with `COMPLETED`
  (`engine.py:736`);
* a delivered result need not be charged, against "charging happens exactly
  once" (`engine.py:551`; `DeliveredIsCharged`): the call that takes the handle
  raises before the spend, and the next `check` finds it collected and reports
  the output for nothing, with one thread and no restart;
* a `check` after the deadline still delivers a late result, although the log
  says it was never delivered (`engine.py:532`);
* a handle given up while queued is reopened by its worker, and counts against
  the bound again (the bound run excludes given-up handles);
* a process that dies between the `COMPLETED` of `run` and the `FAILED`
  `_run_assigned` restores leaves the child completed, against the verdict the
  leader was given;
* what a given-up child spends is charged to nobody, where ADR-0093:96 has a
  child's spend count against its parent.

---------------------------------------------------------------------------

## 4. `AgentBus`

From `runtime/agent_bus.py` (ADR-0118).  The sender's and the receiver's worker
are two processes; between them stands JetStream, which is external and
modelled by how the code uses it: it stores what is published, delivers it until
acknowledged, at most `max_deliver` times, and a redelivery may overtake what
came after it.

| state in the model | state in the code |
|---|---|
| `dpc`, `handle`, `due` | the `delegate` call, `AgentMessenger.handles`, the handle's deadline passed on the sender's clock |
| `inbox`, `replies` | deliveries the broker still owes, per task and per reply state |
| `rpc`, `rx` | the consumer loop of `NatsTransport._main` and the delivery in hand |
| `seen`, `expired`, `work` | `_seen_tasks`, hops past their expiry on the receiver's clock, runs in the pool |
| `accepted`, `started`, `declined`, `dropped` | history: runs of a receiver's life, tasks ever accepted and ever refused, replies that found no handle |

`Delegate` records the handle before publishing; a publish may be stored and
still raise (`PublishFailed` after `PublishStored`).  `Ack` precedes handling
and may or may not reach the broker.  `Verify` reads the clock; the replay
check in `Accept`/`Reject` reads it again (`Remembered`): the gap is two
steps.  Signatures and chains are taken as verified; a task stands for one
signed hop; whether a separation forbids its decision is `Forbidden`.  `run`
ends completed or failed and nothing else, which `AsyncDelegation` shows.

Observations: a late reply turns a handle the deadline failed into completed
(`agent_bus.py:557`); the refusal of a replayed hop replaces an answer already
completed, where ADR-0118:105 has `refused` answer only what was refused
(`CompletedIsKept`, which TLC refutes; `agent_bus.py:625`); in the gap between the
two clock readings a hop that expires can be accepted twice (`RunsOnceWhileFresh`
speaks of hops still valid).

---------------------------------------------------------------------------

## 5. `DesignerSave`

From `designer/service.py`, `repository.py`, `merge.py` and what `web/canvas.js`
sends (ADR-0033).

| state in the model | state in the code |
|---|---|
| `version`, `history` | `SystemRecord.version`, and the record and its revisions: `history[v]` is what was saved as `v` |
| `base`, `draft` | `canvas.record` and its version: the copy an editor works on (for a restore, the record read) |
| `epc` | what the editor, or the request they sent, is doing |
| `theirs` | the version in the `VersionConflict` handed to `_merge_save` |
| `choices` | `canvas.resolutions` |

A design is a function from *parts*, the entries of its keyed lists, to a value
or absence, and a name.  The repository's `save_system` is one step (a lock or
an advisory transaction makes it so); the service around it is not: `SaveStale`
takes the conflict, and `MergeConflicts`, `MergeWrite` or `MergeRaced` follow
later.  `Merged`, `Conflicting` and `SetPath` are `merge` and
`apply_resolutions` at one part; `Ancestor` is empty when the revision was
pruned, as in the code.  Locks only turn a save away and are left out here
(section 10): what is shown of saves holds without them.

Observations no run states.  Two are definitions TLC refutes: `ChoiceIsHonoured`
(`merge.py:155`; a choice of "theirs" for an entry we deleted leaves it deleted,
`merge.py:186`) and `NameIsKept` (ADR-0033:68 has every stale write merged or
reported; the saver's name replaces a rename unreported, `service.py:578`).  The
rest: a resolution is applied by path to whatever
conflicts there when the retry is merged, also to a value saved after the
choice was made; against a pruned ancestor (100 revisions later) deletions of
others come back; a design deleted and created again under one id restarts at
version 1, so a base version of its first life can match; what is typed while a
save is under way is replaced by its answer (`web/canvas.js:5990`).

---------------------------------------------------------------------------

## 6. `ApprovalRelease`

From the approve endpoint of `runtime/worker.py`, `NonceStore` and
`verify_approval` of `security/service_auth.py`, and `ApprovalGrants` and the
gate of `harness/builder.py` (ADR-0109, ADR-0114).  The worker is one agent's.

| state in the model | state in the code |
|---|---|
| `seen`, `file`, `lock` | `NonceStore`: its memory, its file, its lock |
| `hpc`, `hrel` | a thread of the endpoint and the token it handles |
| `grants` | `ApprovalGrants`: per call, the grants not yet spent, oldest first |
| `rpc`, `rcall`, `rgrant` | a run of the agent, the gated call it makes, the release that let it through |
| `expired`, `granted`, `made` | the clock against each token; history |

`Verify`, `Admit`, `UseNonce`, `WriteNonce`, `Grant` are the endpoint in the
order it goes: signature and expiry, the unlocked look at the nonce, the locked
use (memory first, then a synced line or a rewritten file), the grant.  `Ask`,
`Look`, `Pop`, `Make` are a gated call: the mandate first, then the grants, whose
list two runs may look at before either takes from it.  `Restart` forgets
threads and grants and reads the file.

Observations: a release verified before its expiry and noted after it is granted
although it had been used, since `use` drops expired nonces before it looks
(`service_auth.py:215`; `GoodOnce` states `worker.py:356`, and TLC refutes it);
two runs that look at one grant make the second `pop(0)` raise `IndexError`
rather than ask for approval; a grant that was never spent dies with the worker
while its nonce stays used, so the person has to release again.

---------------------------------------------------------------------------

## 7. `Fabric`

From `fabric/deployments.py`, `fabric/tenants.py`, `fabric/rbac.py` and
`routes/fabric.py` (ADR-0049 to 0051).

| state in the model | state in the code |
|---|---|
| `deployment`, `tenant` | the stored documents: status and the append-only history |
| `fpc`, `freq`, `fread`, `flive` | an operator's request: where it is, target and role acted as, the document read, whether live deployments were listed |

A move is two requests of the store and a write: `AskMove` reads to choose the
role (`ActingRole`, the strongest that the table allows, or the strongest),
`CheckMove` reads again and checks the table, `PutMove` writes the document back
with an event.  Retiring a tenant lists its live deployments in between
(`ListLive`).  `Publish` puts a deployment of any tenant.  Registering a tenant
asks whether it exists (`AskRegister`) and puts it later (`Register`), over
whatever came to be meanwhile.

Observations: publishing and moving ask nothing of the tenant's status, and a
retirement does not see a deployment moved after its listing, so workloads are
stranded (`NoStrandedWorkload` states `routes/fabric.py:120`, TLC refutes it);
a request that read before a quarantine overwrites it and goes straight back to
running (`NeverStraightBack`; `ClosedStaysClosed` excepts exactly these); no
route retires a deployment, although the table has the move; two registrations of
one id both succeed, and the later puts a new active tenant over the other's,
also when that was suspended or retired meanwhile (`tenants.py:304` and 320).

---------------------------------------------------------------------------

## 8. `TaskPort`

From `tasks/local.py`, `tasks/service.py`, `tasks/model.py` and
`tasks/divergence.py` (ADR-0057).

| state in the model | state in the code |
|---|---|
| `task` | the stored task: state, linked session, the moves of its history |
| `runs` | the sessions the runtime started for tasks, and how they ended |
| `tpc`, `treq`, `tread`, `trun` | a call of the backend or of `TaskService.start`, what it moves where, the document it will write, the run it started |

`MoveRead` and `Put` are `_move` and `_save`; `Start`, `Progress`, `RunBegins`,
`RunEnds` or `RunRaises`, `LinkRun`, `Record` are `start` from the pairing check
to the outcome; `CancelOrReopen` and `Comment` are the person's; `Crash` is the
agent's process.  Every write is the whole document that was read.

Observations: a task closed by the person while its run is live is not reported,
because the session is linked only when the run is over (`service.py:117`;
`ClosedWhileLiveIsSurfaced` states `divergence.py:4`, TLC refutes it); two starts
run the agent twice, and so does a comment written back over the link; a task
whose process died stays `in_progress` with nothing that takes it up.

---------------------------------------------------------------------------

## 9. `Continuity`

From `continuity.py`, `org.py` and the end of `run` in `runtime/engine.py`
(ADR-0094, ADR-0098).

| state in the model | state in the code |
|---|---|
| `acting` | the `ActingAssignment` documents |
| `sessions` | per agent, the states of its sessions as `consecutive_failures` reads them |
| `gone` | decommissioned agents |
| `job` | a run's own thread, or a departure: what it does, whom it still has to close |
| `today` | the day `is_open` compares with |

`Fails`, `Count`, `StandDown`, `StandIn`, `OpenCover` are one thread after a
failed run; `Completes`, `CloseList`, `CloseOne`, `Closed` after a good one;
`Leave` to `Gone` a departure.  `Granted` is `split_mandate`: decisions in sorted
order, each weighed against what was granted before.  `fresh` is history: nothing
that was checked had changed when the cover was written.

The violation `standin_forbidden`: each assignment is split against the
successor's own mandate only, so an agent standing in for two leaders holds both
halves of a separation (`org.py:272` against `continuity.py:20`), in a design the
validation accepts.  It takes two such leaders: `OneLeaderIsSafe` proves that with
one leader per successor nobody ever holds a forbidden pair.  Other observations:
two agents that would stand in for each other and fail together end up covering
each other, and `can_delegate` follows covers recursively for ever
(`CyclesAreRaces` says this takes a race); a comment (`engine.py:365`) has a
successor already standing in for somebody refuse, which `stand_in_for` does not
ask (`org.py:268`); a lapsed cover is opened anew by the next failure; a
decommissioned agent can still be opened as a cover; `adopted_handles` is recorded
and read by nothing; a session that waits or is queued breaks a streak of
failures, which the model leaves out.

---------------------------------------------------------------------------

## 10. `Workspace`

From `designer/service.py`, `designer/locks.py`, `designer/rbac.py` (ADR-0032,
ADR-0033).

| state in the model | state in the code |
|---|---|
| `members` | `Workspace.members`: a role for each person, or none |
| `locks` | the `Lock` documents, with expiry, and whether each is still stored |
| `req` | a person's request: what it read, what it will write or drop |
| `clock` | the time `expired` compares with |
| `demoted`, `calm`, `unraced` | history |

`AskAdd`, `AskRemove`, `AskRename` read and check; `SaveWorkspace` writes the
members back.  `AskAcquire`, `LookAgain`, `NewLock` or `Refresh` are `acquire`,
which lists twice; `AskOwn` is `heartbeat` and `release`, `AskBreak` the break.
Every listing drops what it saw expired (`DropExpired`), by id, also what was
refreshed meanwhile.  `HolderOf` is the first in a listing, whose order is
anybody's but stays while nobody writes.  The file and the relational
repository are modelled; the in-memory one hands out the stored objects
themselves.

Observations: `add_member` replaces the last owner's role without asking
(`KeepsAnOwner` states `service.py:387`, TLC refutes it; `OwnersGoByDemotion`
says there is no other way); a lock on the whole system is granted over another's
lock on a component, since only the wider covers the narrower; a heartbeat puts
back a lock that was broken, released or dropped since it was read.

---------------------------------------------------------------------------

## 11. `Workflow`

From `workflows/engine.py` (ADR-0110) on the graphs `spec/validation/workflows.py`
accepts (ADR-0096).

| state in the model | state in the code |
|---|---|
| `graph` | the declaration: kinds of nodes, edges, cases, outputs |
| `at`, `store`, `steps`, `ran` | the walk: its node, the state, the counter, `path` |
| `frames` | the calls of `_fork` the walk is in: branches left, the state at the fork, the joins arrived at, keys written, the merge so far |
| `people` | whether a `human_caller` was given |
| `last`, `raced` | history: what was written last to each key, and whether in a sibling's place |

`RunStep`, `Choose`, `Fork`, `NextBranch`, `Meet`, `Clash`, `Unmet`,
`PassJoin`, `Pause`, `Raise`, `Limit`, `Finish` are one turn of `_walk` or `_fork`
each.  What a step writes is its number, so two objects are the same only if one
step wrote both (`is`, `engine.py:240`).

Observations: a branch that writes back the object it found there is not taken
for a writer, so a sibling's write silently wins (`NoSilentWinner` states
`engine.py:223`, TLC refutes it; `ForksMerge` says nothing new is lost); a run
that ends in exactly `max_steps` is reported as over the limit (`engine.py:156`);
the validator accepts forks that share a join, or a branch that ends, which the
interpreter refuses or runs twice past the join; a pause inside a branch loses
what earlier branches wrote while `path` lists them; a nested workflow that
pauses is taken for one that ended (`engine.py:287`); no caller in the repository
passes a `human_caller` to `run_workflow`.

---------------------------------------------------------------------------

## 12. Runs and bounds

| run | question | result |
|---|---|---|
| `delegation_interleavings` | 1 handle, 2 tool-call threads, offboarding, 1 restart: do the races over one handle leave store, reports, charge and contract right? | holds |
| `delegation_bound` | 2 handles, 1 thread, pool 1, bound 1, 1 restart: bound, lost handles | holds |
| `delegation_settles` | 1 handle, 2 threads, fair callers: is what is delivered paid for by who took it, do gathers return, do verdicts settle? | holds |
| `bus_delivery` | 2 tasks, one forbidden, 2 deliveries each, 1 restart of either process: does a valid hop run once, is no reply dropped, is nothing stored lost? | holds |
| `bus_settles` | 1 task, fair consumers and clocks: handles and stored tasks come to an end | holds |
| `bus_restart_loses` | does a message wait for a restarting agent (ADR-0118:150)? | violated: it was acknowledged before it was handled |
| `designer_saves` | 2 editors, 3 saves after the first, names and parts: is any saved work lost unseen, any edit dropped? | holds |
| `approvals` | 3 releases of one call, one of them by somebody not entitled, 2 handlers, 2 runs, 1 restart: is a release used once, durably, for its own call? | holds |
| `records` | deployments and tenants under 2 operators, 4 moves; a task under 2 starters, a person and crashes: are histories legal, is done worked on, does closed stay closed? | holds |
| `people` | 3 agents whose covers may point at each other on 2 threads; 2 owners; 3 locks: grants, circles, returns, owners, holders | holds |
| `standin_forbidden` | does standing in never carry a forbidden decision (`continuity.py:20`)? | violated: two leaders' decisions meet in one successor |
| `workflows` | some 20 000 graphs of 2 forks, a branch, 2 steps and 2 joins, 12 steps: do forks merge, is nothing skipped, does every run end? | holds |

**Why these bounds.**  Handles of one leader interact only through the bound and
the pool, which two handles and a pool of one exhaust; races over one handle need
two tool calls (one to check, one to gather), its worker and one outsider.  One
restart loses everything volatile, and the invariants that speak of restarts
relate one life to the next.  `MaxDeliver` of 2 gives a first delivery and one
replay, for each of two tasks that can pass each other.  Two editors are what a
merge has; four versions let a merge be raced by a third save and then succeed,
and three revisions kept let the first of them be pruned.  In `DesignerSaves`
one part suffices for conflicts, deletions and additions, and the name lets one
editor change something the other did not.  Two handlers race over one nonce and
two runs over one grant, two good releases of one call queue behind each other,
and the restart meets each of them in every step.  Four moves are the longest way
into a quarantine and out, and a task that is claimed, worked, closed and
reopened; two operators of different roles, or two starters and a person,
overwrite each other.  Two threads let every check be outdated by the other; two
covers close the shortest circle, and a third session lets an agent fail and
come back while the first is judged.  Three locks are one that is raced and two
that might follow from it; a lock of one tick expires within the clock.  Twelve
steps let every cycle of the graphs be gone round before the bound; nodes the
entry does not lead to are left out of a graph.  The branch stands inside a fork,
where a wrong way out ends in a refusal, and after a join, where it would end in
a run that is ok and has skipped what was declared.  The theorems of section 13 drop
these bounds for the properties they cover.

**One subject at a time.**  `MCRecords` and `MCPeople` put components into one
run that share nothing: a variable chosen at the start says which of them moves.

**Symmetry** is used in `delegation_bound` (handles, callers), `designer_saves`
(editors, parts, values, names), `approvals` (handlers, runs), `records`
(starters) and `people` (threads, owners): nothing in the modules orders those or
chooses between them, and the properties are invariants and action properties.
The runs with liveness or refinement use none.

**Fairness.**  `CallerFairness`: threads of the leader are scheduled by the
interpreter, and a gather's deadline bounds each wait; agents' turns get none, so
`GatherReturns` holds with workers that never answer.  `GivenUpEndsFailed` has
`WorkerFairness` as its premise: it speaks of agents whose turns end.  On the
bus: consumer loops run, publishes time out, clocks advance, and a caller who
holds a handle goes on checking it (`check_delegation` is what reads the
deadline); the broker's and the runs' steps get none.  `Workflow` has weak
fairness of its one loop, whose steps are assumed to return.

**Deadlock.**  `AsyncDelegation` and `ApprovalRelease` are checked for it.  The
bus stops when every task was delegated, decided and answered, `DesignerSave`
when `MaxVersion` saves were made, `MCRecords` and `MCPeople` at their bounds, a
workflow when it is over: their configurations say `CHECK_DEADLOCK FALSE`.

---------------------------------------------------------------------------

## 13. Proofs

For every value of the constants that satisfies the named assumption of the module
(`ConstantsAssumption`, `BusAssumption`, `DesignerAssumption`,
`ApprovalAssumption`, `FabricAssumption`, `TaskAssumption`,
`ContinuityAssumption`, `WorkspaceAssumption`, `WorkflowAssumption`: "none" is not
a handle, sizes are positive, bounds are numbers, graphs are made of their nodes).

**`AsyncDelegationProofs`.**  `TypeOK` is not inductive: what a tool call writes
depends on the handle it holds, so `TypeInv` adds that calls and the administrator
hold handles this process holds and report results. `ExistsInv` ties documents,
events, the table and the workers together (a worker exists only for a held
handle, what is held, logged, charged or reported has a document, and no put takes
a document back to absent). `SafeInv` strengthens the safety properties: a lost
handle is not held (`LostInv`); a handle is charged by nobody before it is taken,
and after that by the one call that took it, which is about to or has
(`ChargeInv`); a result read before the future resolved is only ever in the hands
of a call about a given-up handle (`EmptyInv`); while the leader settles lost
handles, what is unsettled is held or still on its list (`OpenInv`); and a
given-up handle whose worker is done either reads failed or is about to be failed
by the gather that gave it up (`GivenUpInv`).  `FinishedIsFinal` is proved step by
step: after the worker is done, every put left to anybody writes `failed`. From
these: `TypeCorrect`, `StoreKeepsTheVerdict`, `NoEmptyDeliveryHolds`,
`NeverChargedTwice`, `LostMeansNoWorker`, `NothingLostStaysOpen`, and
`DelegationKeepsContract`: each step is one of `HandleContract` or leaves its
variables alone.

Two more theorems assume `~Offboarding`, and `delegation_settles` and
`delegation_bound` check their properties without an administrator: one who
closes a child's document behind a thread's back, between two of its unlocked
steps, makes TLC refute both properties with a single caller.  `AloneInv` follows
a handle nobody gave up: no document reads closed before its worker is closing
it, the worker's copy and the document carry the usage by then, and a call that
has an output to hand over holds a document with it, so what it charges is not
nothing; and a handle that was taken has been charged, is being charged, or had
its call raise.  Hence `DeliveredIsPaidFor`, for any number of threads.
`BoundInv` counts the
threads that passed the check of the bound and have not logged their handle yet
together with the handles that are open: `BoundByThreads`, n threads exceed the
bound by at most n - 1 (two exceed it by one in TLC, so this is what there is),
and `BoundForOneThread`.

**`AgentBusProofs`.**  `BusTypeCorrect` is inductive as it stands.
`RedeliveryRunsOnce` needs `RunsInv`: a valid hop that ran is remembered.
`EarlyReplyIsKept` needs `HandleInv`: whatever exists of a task beyond the
sender (a delivery, a run, a reply) means the task was sent, and a sender that
did not give up holds its handle.  `StoredIsKept` is inductive with types.
Two results go beyond the runs' properties.  `DeliveriesBoundRuns`: `DeliverInv`
weighs a receiver's runs of a task since it started and the deliveries still to
come, which together stay within `MaxDeliver` though acknowledgements are lost
and an expired hop is forgotten.  `AnswersHoldUp`:
`AnswerInv` follows an answer from the decision through the replies of a stream
that may repeat them to the handle: completed comes of a task some life of the
receiver accepted, which no forbidden one is, and refused of one that some life
refused.  A task both accepted and, replayed, refused may read either way.

**`DesignerSaveProofs`.**  `DInv` is `TypeOK` and `SeenInv`: what an editor
opened and what a conflict carried are versions already written, so a save is
of one's own record or a merge with the version it replaces
(`WriterIsWriting`).  `MergeWritesPart` says what a merge writes for a part.
From these `DesignerTypeCorrect`, `NoSilentLoss` and `NoEditDropped`.
`MergesInAnyOrder` is about the merge alone: edits of one version that do not
conflict in pairs merge in either order to one design, and the next of them
conflicts with nothing merged before.

**`ApprovalReleaseProofs`.**  `NonceInv` follows the nonce of a release that is
still good: whatever is on disk is in memory, a handler past the lock has it in
memory and is the only one and nothing was granted yet, a handler past the file
has it on disk.  From these `ReleaseIsUsedOnce` and `ReleaseIsDurable`, and
`FileRemembers`: no rewrite of the file takes out a nonce that could be replayed.
`SpendInv` keeps an account of each release: calls made on it, grants of it that
wait, and runs it has let through add up to no more than what it granted, and
each is about the release's own call; a pop that is raced, a lapse and a death
only ever lose grants.  From it `CallsNeedTheirGrant`, and with
`ReleaseIsUsedOnce` the end-to-end statement `OneCallPerRelease`.

**`RecordsProofs`.**  A stored history is a legal path because
what is *about to be* written is one: the invariant says it of the document in
every request's hands, together with the check that was made on it, whatever the
store has become since.  For `DoneWasWorkedOn` the same invariant adds that a
starter's run is its own, is over before it is linked, and that done is asked
for only of a task with a run that completed.  `ClosedIsFinal` is by steps.
`RecordsTypeCorrect` is about the types of the composition that the run checks, in
which one of the two components moves.

**`WorkspaceProofs`.**  `OwnersInv`: a removal under way, and a rename unless the
owner is gone already, has an owner in what it will write.  `LocksInv` is about
all stored locks rather than the live ones: a request nobody disturbed has found
nothing that covers its target, and will have dropped whatever had expired, by
the time it takes a lock.

**`PeopleProofs`.**  `split_mandate` grants decision after decision, each weighed
against those before; that a set of this kind exists and is the only one is shown
by looking at the least decision where it fails, numbers being well founded
(`LeastNatural`, `GrantedIsDefined`).  From it `CoversAreSafe`.  `JobInv` is what
a run that has counted failures knows until a cover is written by somebody else.
`CoverInv` says of every cover that was opened in time that no earlier one covers
its stand-in: on a circle, the cover opened last has an earlier one of its
stand-in's own, so it was opened late, hence `CirclesOnlyByRaces`.  `BackInv`: a
cover of an agent whose last verdict is good is on the list some run is closing,
or was opened late, hence `BackEndsTheCover`.  `OneLeaderIsSafe` assumes what
`standin_forbidden` lacks: no agent is the declared successor of two, and no
mandate breaks a rule by itself; then all covers by one agent split one mandate
the same way (`SplitInv`).  `PeopleTypeCorrect` is about the types of the
composition, in which one of the two components moves.

**`WorkflowProofs`.**  `MergeInv` looks at every open fork as a level: what was
written last to a key is, at each level, what its current branch or the merge so
far changed, or else what had been written before the fork; numbers of steps
order writes before the fork, of branches that are over, and of the current one,
which is what makes a clash visible (`RacedInv`).  `ServedInv`: all that follows
from what ran has run or is pending in some frame.  From these `ForksMergeAsOne`
and `NothingIsSkipped`, and the types.
`EveryStepCounts` is the half of `RunEnds` that is about steps and not about
fairness: a step ends the run, uses one of the `MaxSteps`, or leaves the
innermost fork one branch fewer to go.

**Only model-checked.**  Every invariant, safety action property and refinement
of the passing runs is stated by a theorem.  What stays with TLC is liveness
(`GatherReturns`, `GivenUpEndsFailed`, `RunEnds`, the bus's), since fairness and
`ENABLED` are out of the prover's reach, as are RECURSIVE operators (no module
here has any) and the library's induction rules, which take an operator as a
parameter; where a proof has to count it uses well-foundedness of the numbers,
a fact about sets.

---------------------------------------------------------------------------

## 14. What is not modelled, and why

* In the modelled parts: `resume`, the synchronous `delegate` and sub-agents;
  leaders nested in workers (they share the pool); a `submit` that raises; the
  in-process `MessageBus`, `send_message` and the link policy; deletion,
  creation, layout, description, status and publishing of a design; unkeyed
  lists, whose merge is a union; the other endpoints of the worker; priorities
  and the releasing of a task's claim, remote task backends; missions, humans and
  the reach rules of the organization; sign-in and roles vouched for elsewhere;
  the values and expressions of a workflow, its compilation to other engines.
* Approval ledger and channels (`channels/`): nothing in the sources starts the
  service, only tests do, so no caller's interleavings would be the program's.
  Tenant quotas: likewise, the routes only set ceilings and read usage.
* Scheduler: one loop ticks and runs each trigger to its end, so its overlap
  policies never meet a second run in the process the repository starts.
* Memory, context, artifacts; guardrails, classifiers, evaluations: sequential,
  and decisions over text whose outcome the models leave open.
* Placements, policy, plugins, metamodel, spec and compiler: validation and
  translation before anything runs, without state of their own.
* Persistence: single reads and writes are taken as atomic, which is what its
  transactions give; no larger unit is assumed anywhere.
* Adapters, sandboxes, MCP servers, routes, CLI, client, catalogs, web,
  observability: bindings to the outside and entry points.
