----------------------------- MODULE Continuity -----------------------------
(***************************************************************************)
(* Standing in for a leader that cannot run (continuity.py, org.py,        *)
(* runtime/engine.py, ADR-0094), and leaving (ADR-0098).                   *)
(*                                                                         *)
(* Every run of an agent ends in a verdict.  A failed one counts how many  *)
(* of the agent's sessions failed in a row and may hand its mandate to a   *)
(* successor; a completed one ends whatever stands in for it.  Each is a   *)
(* sequence of reads and writes of the store on the run's own thread.  A   *)
(* decision is a number: the code takes them in sorted order.              *)
(***************************************************************************)
EXTENDS Naturals, Sequences, FiniteSets

CONSTANTS
  Agents,
  Nobody,       \* no agent, no verdict pending
  Manager,      \* the agent above, or Nobody
  Successor,    \* the declared successor, or Nobody
  Mandate,      \* the decisions an agent may take
  Separations,  \* sets of decisions no one may hold two of
  Threshold,    \* failures in a row that make an agent stand down; 0: never
  Window,       \* days a lateral standing-in runs
  Threads,      \* runs and departures under way at a time
  MaxSessions,  \* bound: sessions of all agents together
  MaxCovers,    \* bound: standing-ins ever opened
  MaxDay        \* bound: days that pass

Decisions == UNION {Mandate[a] : a \in Agents}

ASSUME ContinuityAssumption ==
  /\ Nobody \notin Agents
  /\ Manager \in [Agents -> Agents \union {Nobody}]
  /\ Successor \in [Agents -> Agents \union {Nobody}]
  /\ Mandate \in [Agents -> SUBSET Nat]
  /\ {Threshold, Window, MaxSessions, MaxCovers, MaxDay} \subseteq Nat

VARIABLES
  acting,    \* the acting assignments, in the order they were opened
  sessions,  \* an agent's sessions, in the order they were created
  gone,      \* agents that have been decommissioned
  today,
  job        \* what each thread is doing

contVars == <<acting, sessions, gone, today, job>>
-----------------------------------------------------------------------------
(***************************************************************************)
(* What the records say                                                    *)
(***************************************************************************)
\* is_open: active, and not past its end; a hierarchy's cover has no end.
Open(i) == acting[i].active /\ (acting[i].lateral => today <= acting[i].ends)

OpenCovers(a) == {i \in DOMAIN acting : acting[i].failed = a /\ Open(i)}

\* successor_of: the declared one, or else the manager.
SuccessorOf(a) == IF Successor[a] # Nobody THEN Successor[a] ELSE Manager[a]

\* consecutive_failures: a run in progress is no verdict, a success ends it.
FailuresInARow(a) ==
  Cardinality({i \in DOMAIN sessions[a] :
                 /\ sessions[a][i] = "failed"
                 /\ \A j \in (i + 1)..Len(sessions[a]) : sessions[a][j] # "completed"})

StandsDown(a) == Threshold > 0 /\ FailuresInARow(a) >= Threshold

Conflicts(d, held) == \E r \in Separations : d \in r /\ held \intersect (r \ {d}) # {}

\* Fault variant: only what the successor held before is looked at.
GrantedFlat(leader, held) == {d \in leader \ held : ~Conflicts(d, held)}

\* split_mandate, in order: each decision granted joins what is held.
Granted(leader, held) ==
  CHOOSE G \in SUBSET (leader \ held) :
    \A d \in leader \ held :
      d \in G <=> ~Conflicts(d, held \union {g \in G : g < d})

\* open_assignment: a manager standing in is conferred nothing.
\* fresh is history: nothing that was checked for it had changed by then.
Assignment(a, fresh) ==
  LET s       == SuccessorOf(a)
      lateral == Successor[a] # Nobody
      granted == IF lateral THEN Granted(Mandate[a], Mandate[s]) ELSE {}
  IN [failed |-> a, successor |-> s, lateral |-> lateral, decisions |-> granted,
      withheld |-> IF lateral THEN (Mandate[a] \ Mandate[s]) \ granted ELSE {},
      ends |-> today + Window, active |-> TRUE, fresh |-> fresh]

\* seen is history: the sessions counted, and how many covers there were.
Idle == [pc |-> "idle", agent |-> Nobody, session |-> 0, todo |-> {}, closing |-> {},
         seen |-> <<<<>>, 0>>]

Seen(a) == <<sessions[a], Len(acting)>>

ContInit ==
  /\ acting = <<>>
  /\ sessions = [a \in Agents |-> <<>>]
  /\ gone = {}
  /\ today = 0
  /\ job = [r \in Threads |-> Idle]

Goes(r, pc) == job' = [job EXCEPT ![r].pc = pc]
Stops(r)    == job' = [job EXCEPT ![r] = Idle]
-----------------------------------------------------------------------------
(***************************************************************************)
(* A run and its verdict                                                   *)
(***************************************************************************)
Begin(r, a) ==
  /\ job[r].pc = "idle"
  /\ Cardinality({s \in Agents \X (1..MaxSessions) : s[2] <= Len(sessions[s[1]])}) < MaxSessions
  /\ sessions' = [sessions EXCEPT ![a] = Append(@, "running")]
  /\ job' = [job EXCEPT ![r] = [Idle EXCEPT !.pc = "running", !.agent = a,
                                            !.session = Len(sessions[a]) + 1]]
  /\ UNCHANGED <<acting, gone, today>>

Verdict(r, state) == sessions' = [sessions EXCEPT ![job[r].agent][job[r].session] = state]

Fails(r) ==
  /\ job[r].pc = "running"
  /\ Verdict(r, "failed")
  /\ Goes(r, "count")
  /\ UNCHANGED <<acting, gone, today>>

\* Fault variant: a run that completes leaves the standing-in alone.
CompletesQuietly(r) ==
  /\ job[r].pc = "running"
  /\ Verdict(r, "completed")
  /\ Stops(r)
  /\ UNCHANGED <<acting, gone, today>>

Completes(r) ==
  /\ job[r].pc = "running"
  /\ Verdict(r, "completed")
  /\ job' = [job EXCEPT ![r].pc = "list", ![r].todo = {job[r].agent}]
  /\ UNCHANGED <<acting, gone, today>>

Count(r) ==
  /\ job[r].pc = "count"
  /\ IF StandsDown(job[r].agent)
       THEN job' = [job EXCEPT ![r].pc = "standDown", ![r].seen = Seen(job[r].agent)]
       ELSE Stops(r)
  /\ UNCHANGED <<acting, sessions, gone, today>>

\* stand_down: somebody may be standing in already.
StandDown(r) ==
  /\ job[r].pc = "standDown"
  /\ IF OpenCovers(job[r].agent) = {} THEN Goes(r, "standIn") ELSE Stops(r)
  /\ UNCHANGED <<acting, sessions, gone, today>>

\* Fault variant: the successor is not asked whether it is down itself.
StandInBlindly(r) ==
  /\ job[r].pc = "standIn"
  /\ IF SuccessorOf(job[r].agent) \notin {Nobody, job[r].agent}
       THEN Goes(r, "open") ELSE Stops(r)
  /\ UNCHANGED <<acting, sessions, gone, today>>

\* Fault variant: nobody is as good a successor as anybody.
StandInByNobody(r) ==
  /\ job[r].pc = "standIn"
  /\ IF OpenCovers(SuccessorOf(job[r].agent)) = {} THEN Goes(r, "open") ELSE Stops(r)
  /\ UNCHANGED <<acting, sessions, gone, today>>

\* stand_in_for: there is a successor, and nobody stands in for it.
StandIn(r) ==
  LET s == SuccessorOf(job[r].agent)
  IN
  /\ job[r].pc = "standIn"
  /\ IF s \notin {Nobody, job[r].agent} /\ OpenCovers(s) = {}
       THEN Goes(r, "open") ELSE Stops(r)
  /\ UNCHANGED <<acting, sessions, gone, today>>

OpenCover(r) ==
  /\ job[r].pc = "open" /\ Len(acting) < MaxCovers
  /\ acting' = Append(acting, Assignment(job[r].agent, job[r].seen = Seen(job[r].agent)))
  /\ Stops(r)
  /\ UNCHANGED <<sessions, gone, today>>
-----------------------------------------------------------------------------
(***************************************************************************)
(* Standing-ins end                                                        *)
(***************************************************************************)
\* decommission lists whom it covers for; a departed agent is left alone.
Leave(r, a) ==
  /\ job[r].pc = "idle" /\ a \notin gone
  /\ job' = [job EXCEPT ![r] = [Idle EXCEPT !.pc = "leaving", !.agent = a,
       !.todo = {a} \union {acting[i].failed : i \in
                   {k \in DOMAIN acting : acting[k].successor = a /\ Open(k)}}]]
  /\ UNCHANGED <<acting, sessions, gone, today>>

\* close_standing_in lists what is active for one of those agents ...
CloseList(r, a) ==
  /\ job[r].pc \in {"list", "leaving"} /\ job[r].closing = {} /\ a \in job[r].todo
  /\ a = job[r].agent => job[r].todo = {a}
  /\ job' = [job EXCEPT ![r].todo = @ \ {a}, ![r].closing =
               {i \in DOMAIN acting : acting[i].failed = a /\ acting[i].active}]
  /\ UNCHANGED <<acting, sessions, gone, today>>

\* ... and closes them one by one.
CloseOne(r, i) ==
  /\ i \in job[r].closing
  /\ acting' = [acting EXCEPT ![i].active = FALSE]
  /\ job' = [job EXCEPT ![r].closing = @ \ {i}]
  /\ UNCHANGED <<sessions, gone, today>>

Closed(r) ==
  /\ job[r].pc = "list" /\ job[r].todo = {} /\ job[r].closing = {}
  /\ Stops(r)
  /\ UNCHANGED <<acting, sessions, gone, today>>

\* The record of its departure, and then its sessions, by offboard.
Gone(r) ==
  /\ job[r].pc = "leaving" /\ job[r].todo = {} /\ job[r].closing = {}
  /\ gone' = gone \union {job[r].agent}
  /\ sessions' = [sessions EXCEPT ![job[r].agent] =
       [i \in DOMAIN @ |-> IF @[i] = "running" THEN "failed" ELSE @[i]]]
  /\ Stops(r)
  /\ UNCHANGED <<acting, today>>

DayPasses ==
  /\ today < MaxDay
  /\ today' = today + 1
  /\ UNCHANGED <<acting, sessions, gone, job>>

ThreadStep(r) ==
  \/ \E a \in Agents : Begin(r, a) \/ Leave(r, a) \/ CloseList(r, a)
  \/ Fails(r) \/ Completes(r) \/ Count(r) \/ StandDown(r) \/ StandIn(r) \/ OpenCover(r)
  \/ \E i \in DOMAIN acting : CloseOne(r, i)
  \/ Closed(r) \/ Gone(r)

ContNext == DayPasses \/ \E r \in Threads : ThreadStep(r)

ContSpec == ContInit /\ [][ContNext]_contVars
-----------------------------------------------------------------------------
Verdicts == {"running", "failed", "completed"}

Covers == [failed : Agents, successor : Agents, lateral : BOOLEAN,
           decisions : SUBSET Decisions, withheld : SUBSET Decisions,
           ends : Nat, active : BOOLEAN, fresh : BOOLEAN]

Jobs == [pc : {"idle", "running", "count", "standDown", "standIn", "open", "list",
               "leaving"},
         agent : Agents \union {Nobody}, session : Nat,
         todo : SUBSET Agents, closing : SUBSET Nat,
         seen : Seq(Verdicts) \X Nat]

ContTypeOK ==
  /\ acting \in Seq(Covers) /\ Len(acting) <= MaxCovers
  /\ sessions \in [Agents -> Seq(Verdicts)]
  /\ gone \subseteq Agents
  /\ today \in 0..MaxDay
  /\ job \in [Threads -> Jobs]
  /\ \A r \in Threads :
       /\ job[r].pc # "idle" => job[r].agent \in Agents
       /\ job[r].pc = "running" => job[r].session \in DOMAIN sessions[job[r].agent]
       /\ job[r].pc = "open" => SuccessorOf(job[r].agent) \in Agents \ {job[r].agent}
       /\ job[r].closing \subseteq DOMAIN acting

\* An assignment never gives its successor both halves of a separation, its
\* own mandate counted; what it withholds, it has a rule to withhold for;
\* and between conferring and withholding nothing is lost (ADR-0094 rule 4,
\* split_mandate).
GrantsAreSafe ==
  \A i \in DOMAIN acting :
    LET a    == acting[i]
        held == Mandate[a.successor] \union a.decisions
    IN
    /\ \A d \in a.decisions : ~Conflicts(d, held)
    /\ \A d \in a.withheld : Conflicts(d, held)
    /\ a.lateral => Mandate[a.failed] \subseteq held \union a.withheld

\* Standing in goes round in circles only by a race: on every cycle of
\* covers, which can_delegate would follow for ever, somebody was covered
\* between the check of stand_in_for and its write.
CyclesAreRaces ==
  \A S \in (SUBSET Agents) \ {{}} :
    \E a \in S : \A i \in OpenCovers(a) : acting[i].fresh => acting[i].successor \notin S

\* A standing-in that outlives the outage is a reorganisation nobody
\* approved (run, on COMPLETED): once an agent's latest run completed and
\* no run is being judged, it is covered only by a cover that was opened
\* too late, by a run that failed before.
BackIsBack ==
  (\A r \in Threads : job[r].pc \in {"idle", "running"}) =>
    \A a \in Agents :
      /\ sessions[a] # <<>> /\ sessions[a][Len(sessions[a])] = "completed"
      => \A i \in OpenCovers(a) : ~acting[i].fresh

\* ADR-0094, continuity.py: it never carries a decision a separation of
\* duties forbids, so no agent holds two such decisions, its own and those
\* of everybody it stands in for together.
Held(s) == Mandate[s] \union
           UNION {acting[i].decisions : i \in {k \in DOMAIN acting :
                                                 acting[k].successor = s /\ Open(k)}}

NothingForbiddenIsHeld ==
  \A s \in Agents, r \in Separations : Cardinality(Held(s) \intersect r) <= 1
=============================================================================
