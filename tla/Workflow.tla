------------------------------ MODULE Workflow ------------------------------
(***************************************************************************)
(* The native workflow interpreter (workflows/engine.py, ADR-0110) on the  *)
(* graphs a design is accepted with (spec/validation/workflows.py,         *)
(* ADR-0096).                                                              *)
(*                                                                         *)
(* A walk runs one node after another.  At a fork it walks each branch in  *)
(* turn, from a copy of the state as it was at the fork, until the branch  *)
(* arrives at a join; what the branches changed is merged there.  The walk *)
(* of a fork inside a branch is a frame on the stack.  What a step writes  *)
(* is the number of the step, so that two objects are the same only if one *)
(* step wrote both; 0 stands for a key that was never written.             *)
(***************************************************************************)
EXTENDS Naturals, Sequences, FiniteSets

CONSTANTS
  Nodes,
  Keys,
  END,
  Graphs,    \* what may be declared: kinds, ways out, cases, outputs, an entry
  MaxSteps   \* max_steps

Kinds   == {"step", "human", "branch", "fork", "join"}
Targets == Nodes \union {END}

GraphOK(g) ==
  /\ DOMAIN g.kind \subseteq Nodes /\ g.entry \in DOMAIN g.kind
  /\ \A n \in DOMAIN g.kind :
       /\ g.kind[n] \in Kinds
       /\ g.out[n] \in Seq(DOMAIN g.kind \union {END})
       /\ g.cases[n] \subseteq DOMAIN g.kind \union {END}
       /\ g.output[n] \in Keys

ASSUME WorkflowAssumption ==
  /\ END \notin Nodes
  /\ \A g \in Graphs : GraphOK(g)
  /\ MaxSteps \in Nat

VARIABLES
  graph,   \* the declaration being run
  people,  \* whether somebody answers its human steps (human_caller)
  at,      \* the node the walk is at
  store,   \* the state the walk reads and writes
  frames,  \* the forks the walk is inside
  steps,
  ran,     \* the nodes that ran (path)
  last,    \* history: the last new object written to every key
  raced,   \* history: a key was written that a sibling branch had changed
  status

wfVars == <<graph, people, at, store, frames, steps, ran, last, raced, status>>
-----------------------------------------------------------------------------
(***************************************************************************)
(* Declarations                                                            *)
(***************************************************************************)
WaysOut(g, n) == {g.out[n][i] : i \in DOMAIN g.out[n]}

\* Every declared way out of a node, wherever it is declared.
Leads(g, n) == WaysOut(g, n) \union (IF g.kind[n] = "branch" THEN g.cases[n] ELSE {})

\* What is reached from S by going on from every node but those in Stop.
ReachedFrom(g, S, Stop) ==
  LET reached[i \in Nat] ==
        IF i = 0 THEN S \ {END}
        ELSE LET R == reached[i - 1]
             IN R \union UNION {Leads(g, m) \ {END} : m \in R \ Stop}
  IN reached[Cardinality(DOMAIN g.kind)]

OfKind(g, k) == {n \in DOMAIN g.kind : g.kind[n] = k}

\* Where a fork's branches may get to before any join.
BranchesOf(g, f) == ReachedFrom(g, WaysOut(g, f), OfKind(g, "join"))
JoinsOf(g, f)    == BranchesOf(g, f) \intersect OfKind(g, "join")

\* workflow_graphs: a graph without a finding.
Accepted(g) ==
  /\ \A f \in OfKind(g, "fork") : JoinsOf(g, f) # {}
  /\ \A j \in OfKind(g, "join") : \E f \in OfKind(g, "fork") : j \in JoinsOf(g, f)
  /\ ReachedFrom(g, {g.entry}, {}) = DOMAIN g.kind

\* _resolve_edges: only a branch or a fork may have several ways out.
Ambiguous(g) ==
  \E n \in DOMAIN g.kind : Len(g.out[n]) > 1 /\ g.kind[n] \notin {"branch", "fork"}

After(n) == IF graph.out[n] = <<>> THEN END ELSE graph.out[n][1]
-----------------------------------------------------------------------------
(***************************************************************************)
(* Running                                                                 *)
(***************************************************************************)
WfInit ==
  /\ graph \in {g \in Graphs : Accepted(g)}
  /\ people \in BOOLEAN
  /\ at = graph.entry
  /\ store = [k \in Keys |-> 0] /\ last = store /\ raced = {}
  /\ frames = <<>> /\ steps = 0 /\ ran = {}
  /\ status = IF Ambiguous(graph) THEN "error" ELSE "running"

Top == frames[Len(frames)]

\* The walk has arrived where a branch ends, or the run does.
AtEnd == at = END \/ (frames # <<>> /\ at \in OfKind(graph, "join"))

\* A node begins to run, within the bound.
Enters(kinds) ==
  /\ status = "running" /\ at # END /\ steps < MaxSteps
  /\ ~AtEnd /\ graph.kind[at] \in kinds
  /\ steps' = steps + 1
  /\ ran' = ran \union {at}

\* Some branch that is over, of a fork the walk is inside, changed the key.
SiblingChanged(key) ==
  \E i \in DOMAIN frames : frames[i].merged[key] # frames[i].base[key]

\* A step writes a new object, or the one it found there.
WritesNew(key) ==
  /\ store' = [store EXCEPT ![key] = steps + 1]
  /\ last' = [last EXCEPT ![key] = steps + 1]
  /\ raced' = IF SiblingChanged(key) THEN raced \union {"new"} ELSE raced

WritesSame(key) ==
  /\ store[key] # 0
  /\ raced' = IF SiblingChanged(key) THEN raced \union {"same"} ELSE raced
  /\ UNCHANGED <<store, last>>

Writes(key) == WritesNew(key) \/ WritesSame(key)

\* Fault variant: a step that runs is not counted.
RunStepUncounted ==
  /\ status = "running" /\ ~AtEnd /\ steps < MaxSteps
  /\ graph.kind[at] = "step" \/ (graph.kind[at] = "human" /\ people)
  /\ Writes(graph.output[at])
  /\ at' = After(at) /\ ran' = ran \union {at}
  /\ UNCHANGED <<graph, people, frames, steps, status>>

\* A tool, an agent, a transformation or a nested workflow, or a person's
\* answer.
RunStep ==
  /\ Enters(IF people THEN {"step", "human"} ELSE {"step"})
  /\ Writes(graph.output[at])
  /\ at' = After(at)
  /\ UNCHANGED <<graph, people, frames, status>>

\* A caller raises, or an expression does.
Raise ==
  /\ Enters({"step", "branch"})
  /\ status' = "error"
  /\ UNCHANGED <<graph, people, at, store, frames, last, raced>>

Pause ==
  /\ Enters({"human"}) /\ ~people
  /\ status' = "paused"
  /\ UNCHANGED <<graph, people, at, store, frames, last, raced>>

\* A case that holds, or else the first edge.
Choose(t) ==
  /\ Enters({"branch"})
  /\ t \in graph.cases[at] \union {After(at)}
  /\ at' = t
  /\ UNCHANGED <<graph, people, store, frames, last, raced, status>>

\* A join outside a branch: its fork has already waited.
PassJoin ==
  /\ Enters({"join"})
  /\ at' = After(at)
  /\ UNCHANGED <<graph, people, store, frames, last, raced, status>>

\* Fault variant: only the first of a fork's branches is walked.
ForkFirst ==
  /\ Enters({"fork"}) /\ graph.out[at] # <<>>
  /\ frames' = Append(frames, [todo |-> <<>>, base |-> store, joins |-> {}, written |-> {},
                               merged |-> store, since |-> steps, began |-> steps,
                               before |-> last])
  /\ at' = graph.out[at][1]
  /\ UNCHANGED <<graph, people, store, last, raced, status>>

\* History: the steps when it forked and when its branch began, and what had
\* been written last.
Fork ==
  /\ Enters({"fork"}) /\ graph.out[at] # <<>>
  /\ frames' = Append(frames, [todo |-> Tail(graph.out[at]), base |-> store,
                               joins |-> {}, written |-> {}, merged |-> store,
                               since |-> steps, began |-> steps, before |-> last])
  /\ at' = graph.out[at][1]
  /\ UNCHANGED <<graph, people, store, last, raced, status>>

Changed == {k \in Keys : store[k] # Top.base[k]}

\* What the branches have changed so far, on top of the state at the fork.
Merged == [k \in Keys |-> IF k \in Changed THEN store[k] ELSE Top.merged[k]]

\* Fault variant: a branch that arrives is not held to the bound.
ArrivesUnbounded == status = "running" /\ frames # <<>> /\ AtEnd

Arrives ==
  /\ status = "running" /\ frames # <<>> /\ AtEnd
  /\ at = END \/ steps < MaxSteps

\* Two branches that write one key are refused.
Clash ==
  /\ Arrives /\ Changed \intersect Top.written # {}
  /\ status' = "error"
  /\ UNCHANGED <<graph, people, at, store, frames, steps, ran, last, raced>>

\* Fault variant: a sibling's write is not remembered.
NextBranchForgets ==
  /\ Arrives /\ Changed \intersect Top.written = {} /\ Top.todo # <<>>
  /\ frames' = [frames EXCEPT ![Len(frames)] =
       [Top EXCEPT !.todo = Tail(Top.todo), !.joins = Top.joins \union {at},
                   !.merged = Merged, !.began = steps]]
  /\ at' = Top.todo[1]
  /\ store' = Top.base
  /\ UNCHANGED <<graph, people, steps, ran, last, raced, status>>

NextBranch ==
  /\ Arrives /\ Changed \intersect Top.written = {} /\ Top.todo # <<>>
  /\ frames' = [frames EXCEPT ![Len(frames)] =
       [Top EXCEPT !.todo = Tail(Top.todo), !.joins = Top.joins \union {at},
                   !.written = Top.written \union Changed, !.merged = Merged, !.began = steps]]
  /\ at' = Top.todo[1]
  /\ store' = Top.base
  /\ UNCHANGED <<graph, people, steps, ran, last, raced, status>>

\* All branches at one join: it runs, with what they changed.
Meet ==
  /\ Arrives /\ Changed \intersect Top.written = {} /\ Top.todo = <<>>
  /\ Top.joins \union {at} = {at} /\ at # END
  /\ store' = Merged
  /\ steps' = steps + 1 /\ ran' = ran \union {at}
  /\ frames' = SubSeq(frames, 1, Len(frames) - 1)
  /\ at' = After(at)
  /\ UNCHANGED <<graph, people, last, raced, status>>

Unmet ==
  /\ Arrives /\ Changed \intersect Top.written = {} /\ Top.todo = <<>>
  /\ Top.joins \union {at} # {at} \/ at = END
  /\ status' = "unmet"
  /\ UNCHANGED <<graph, people, at, store, frames, steps, ran, last, raced>>

\* The bound stops the walk, or is found reached when it is over.
Limit ==
  /\ status = "running" /\ steps >= MaxSteps /\ (at # END \/ frames = <<>>)
  /\ status' = "limit"
  /\ UNCHANGED <<graph, people, at, store, frames, steps, ran, last, raced>>

Finish ==
  /\ status = "running" /\ at = END /\ frames = <<>> /\ steps < MaxSteps
  /\ status' = "ok"
  /\ UNCHANGED <<graph, people, at, store, frames, steps, ran, last, raced>>

WfNext ==
  \/ RunStep \/ Raise \/ Pause \/ Fork \/ PassJoin
  \/ \E t \in Targets : Choose(t)
  \/ Clash \/ NextBranch \/ Meet \/ Unmet
  \/ Limit \/ Finish

WfSpec == WfInit /\ [][WfNext]_wfVars /\ WF_wfVars(WfNext)
-----------------------------------------------------------------------------
Statuses == {"running", "ok", "error", "unmet", "paused", "limit"}
States   == [Keys -> 0..MaxSteps]

Spots    == DOMAIN graph.kind \union {END}

Frames == [todo : Seq(Spots), base : States, joins : SUBSET Spots,
           written : SUBSET Keys, merged : States, since : 0..MaxSteps,
           began : 0..MaxSteps, before : States]

\* The bound is never passed, by the joins that _fork counts itself either.
WfTypeOK ==
  /\ GraphOK(graph) /\ people \in BOOLEAN
  /\ at \in Spots
  /\ store \in States /\ last \in States /\ raced \subseteq {"new", "same"}
  /\ frames \in Seq(Frames)
  /\ steps \in 0..MaxSteps
  /\ ran \subseteq DOMAIN graph.kind
  /\ status \in Statuses

\* _fork: what branches write is merged, and two of them writing one key is
\* refused.  When no fork is open, every key holds the last new object
\* written to it, as if the branches were one walk, and none of those came
\* in the place of a sibling's.
ForksMerge ==
  status \in {"running", "ok"} /\ frames = <<>> => store = last /\ "new" \notin raced

\* _fork: two branches writing the same key is refused rather than one
\* silently winning.
NoSilentWinner == status \in {"running", "ok"} /\ frames = <<>> => raced = {}

\* AmbiguousEdges: a declared step that simply did not run, with nothing
\* anywhere saying so.  In a run that is ok all that follows from what ran
\* has run, all of a fork's ways out and one of a branch's included.
NothingSkipped ==
  status = "ok" =>
    /\ graph.entry \in ran
    /\ \A n \in ran :
         IF graph.kind[n] = "branch"
           THEN (graph.cases[n] \union {After(n)}) \intersect (ran \union {END}) # {}
           ELSE Leads(graph, n) \subseteq ran \union {END}

\* run: a cycle is legal, and the bound stops one that runs for ever.
RunEnds == <>(status # "running")
=============================================================================
