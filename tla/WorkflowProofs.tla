--------------------------- MODULE WorkflowProofs ---------------------------
(***************************************************************************)
(* Safety of the workflow interpreter for every set of graphs and every    *)
(* bound: types, the merge of forks within forks, and that nothing         *)
(* declared is skipped.                                                    *)
(***************************************************************************)
EXTENDS Workflow, TLAPS, SequenceTheorems

\* Level i is the i-th open fork; what its branch has is the state, or the
\* state the fork above it began with, and likewise what was written last.
Cur(i) == IF i = Len(frames) THEN store ELSE frames[i + 1].base
Lst(i) == IF i = Len(frames) THEN last ELSE frames[i + 1].before
Now(i) == IF i = Len(frames) THEN steps ELSE frames[i + 1].since

\* What level i has of a key, its branches that are over included.
Val(i, key) ==
  IF Cur(i)[key] # frames[i].base[key] THEN Cur(i)[key] ELSE frames[i].merged[key]

LevelInv(i) ==
  /\ frames[i].since <= frames[i].began /\ frames[i].began <= Now(i)
  /\ frames[i].began <= steps
  /\ \A key \in Keys :
       /\ Lst(i)[key] = IF Val(i, key) # frames[i].base[key] THEN Val(i, key)
                                                          ELSE frames[i].before[key]
       /\ Cur(i)[key] # frames[i].base[key] => Cur(i)[key] > frames[i].since
       /\ frames[i].merged[key] # frames[i].base[key] =>
            frames[i].merged[key] > frames[i].since /\ key \in frames[i].written
       /\ frames[i].merged[key] <= frames[i].began
       /\ frames[i].base[key] <= frames[i].since
       /\ frames[i].before[key] <= frames[i].since

LevelsInv == \A i \in 1..Len(frames) : LevelInv(i)

GroundInv ==
  /\ frames = <<>> => store = last
  /\ frames # <<>> => frames[1].before = frames[1].base
  /\ \A key \in Keys : store[key] <= steps /\ last[key] <= steps

\* A write that came in a sibling's place is still there to be refused.
RacedInv ==
  status \in {"running", "ok"} /\ "new" \in raced =>
    \E i \in 1..Len(frames) : \E key \in frames[i].written : last[key] > frames[i].began

OkInv == status = "ok" => frames = <<>>

MergeInv == LevelsInv /\ GroundInv /\ RacedInv /\ OkInv

\* What a fork has yet to run, and all that has run or has still to run.
Left(i)  == frames[i].joins \union {frames[i].todo[m] : m \in DOMAIN frames[i].todo}
Pending  == ran \union {END, at} \union UNION {Left(i) : i \in DOMAIN frames}

\* Some way out of a node that ran is taken care of, or all are.
Served(n) ==
  IF graph.kind[n] = "branch" THEN (graph.cases[n] \union {After(n)}) \intersect Pending # {}
                              ELSE Leads(graph, n) \subseteq Pending

ServedInv ==
  /\ status \in {"running", "ok"} =>
       /\ ~Ambiguous(graph)
       /\ graph.entry \in Pending
       /\ \A n \in ran : Served(n)
  /\ status = "ok" => frames = <<>> /\ at = END
-----------------------------------------------------------------------------
(***************************************************************************)
(* Types                                                                   *)
(***************************************************************************)
\* Where a node leads is a node of the graph, or the end.
LEMMA AfterIsANode ==
  ASSUME GraphOK(graph), at \in DOMAIN graph.kind
  PROVE  After(at) \in Spots
<1>1. graph.out[at] \in Seq(Spots)
  BY DEF GraphOK, Spots
<1>2. CASE graph.out[at] = <<>>
  BY <1>2 DEF After, Spots
<1>3. CASE graph.out[at] # <<>>
  <2>1. graph.out[at][1] \in Spots
    BY <1>1, <1>3
  <2> QED BY <2>1, <1>3 DEF After
<1> QED BY <1>2, <1>3

LEMMA TopIsAFrame ==
  ASSUME WfTypeOK, frames # <<>>
  PROVE  /\ Len(frames) \in 1..Len(frames)
         /\ Top \in Frames
<1>1. frames \in Seq(Frames)
  BY DEF WfTypeOK
<1> QED BY <1>1 DEF Top

\* What is merged is a state.
LEMMA MergedIsAState ==
  ASSUME WfTypeOK, frames # <<>>
  PROVE  /\ Merged \in States
         /\ \A key \in Keys : Merged[key] = IF store[key] # Top.base[key] THEN store[key] ELSE Top.merged[key]
         /\ Changed = {key \in Keys : store[key] # Top.base[key]}
<1>1. Top.merged \in States /\ store \in States
  BY TopIsAFrame DEF WfTypeOK, Frames
<1> QED BY <1>1 DEF Merged, Changed, States

\* A node that begins to run is a node of the graph.
LEMMA EntersANode ==
  ASSUME WfTypeOK, NEW kinds, Enters(kinds)
  PROVE  /\ at \in DOMAIN graph.kind /\ graph.kind[at] \in kinds
         /\ After(at) \in Spots
         /\ steps + 1 \in 0..MaxSteps /\ steps' = steps + 1
         /\ ran' \in SUBSET DOMAIN graph.kind
         /\ status = "running" /\ ran' = ran \union {at}
<1>1. at \in DOMAIN graph.kind /\ graph.kind[at] \in kinds
  BY DEF Enters, WfTypeOK, Spots
<1>2. After(at) \in Spots
  BY <1>1, AfterIsANode DEF WfTypeOK
<1>3. /\ steps + 1 \in 0..MaxSteps /\ steps' = steps + 1
      /\ ran' \in SUBSET DOMAIN graph.kind
      /\ status = "running" /\ ran' = ran \union {at}
  BY <1>1, WorkflowAssumption DEF Enters, WfTypeOK
<1> QED BY <1>1, <1>2, <1>3

LEMMA TypeInit == WfInit => WfTypeOK
  BY WorkflowAssumption DEF WfInit, WfTypeOK, Statuses, States, Frames, Spots, GraphOK

LEMMA TypeStep == WfTypeOK /\ [WfNext]_wfVars => WfTypeOK'
<1> SUFFICES ASSUME WfTypeOK, [WfNext]_wfVars PROVE WfTypeOK'
  OBVIOUS
<1> USE WorkflowAssumption
<1>0. UNCHANGED <<graph, people>> =>
        (GraphOK(graph) /\ people \in BOOLEAN)' /\ Spots' = Spots /\ Frames' = Frames
  BY DEF WfTypeOK, GraphOK, Spots, Frames, States
<1> HIDE WorkflowAssumption
<1>1. CASE RunStep
  <2> PICK key \in Keys : Writes(key)
    <3>1. graph.output[at] \in Keys
      BY <1>1, EntersANode DEF RunStep, WfTypeOK, GraphOK
    <3> QED BY <1>1, <3>1 DEF RunStep
  <2>1. store' \in States /\ last' \in States /\ raced' \subseteq {"new", "same"}
    <3>1. steps + 1 \in 0..MaxSteps
      BY <1>1, EntersANode DEF RunStep
    <3> QED BY <3>1 DEF Writes, WritesNew, WritesSame, WfTypeOK, States
  <2> QED BY <1>0, <1>1, <2>1, EntersANode DEF RunStep, WfTypeOK, Statuses
<1>2. CASE Raise
  BY <1>0, <1>2, EntersANode DEF Raise, WfTypeOK, Statuses
<1>3. CASE Pause
  BY <1>0, <1>3, EntersANode DEF Pause, WfTypeOK, Statuses
<1>4. CASE PassJoin
  BY <1>0, <1>4, EntersANode DEF PassJoin, WfTypeOK, Statuses
<1>5. ASSUME NEW t \in Targets, Choose(t) PROVE WfTypeOK'
  <2>1. t \in Spots
    BY <1>5, EntersANode DEF Choose, WfTypeOK, GraphOK, Spots
  <2> QED BY <1>0, <1>5, <2>1, EntersANode DEF Choose, WfTypeOK, Statuses
<1>6. CASE Fork
  <2> DEFINE new == [todo |-> Tail(graph.out[at]), base |-> store,
                     joins |-> {}, written |-> {}, merged |-> store,
                     since |-> steps, began |-> steps, before |-> last]
  <2>0. frames' = Append(frames, new) /\ at' = graph.out[at][1] /\ Enters({"fork"}) /\ graph.out[at] # <<>>
        /\ UNCHANGED <<graph, people, store, last, raced, status>>
    BY <1>6 DEF Fork
  <2>1. graph.out[at] \in Seq(Spots)
    BY <2>0, EntersANode DEF WfTypeOK, GraphOK, Spots
  <2>2. at' \in Spots /\ Tail(graph.out[at]) \in Seq(Spots)
    BY <2>0, <2>1
  <2>4. new \in Frames
    BY <2>2, EntersANode, <2>0 DEF Frames, WfTypeOK, States
  <2> HIDE DEF new
  <2>5. frames' \in Seq(Frames)
    BY <2>0, <2>4 DEF WfTypeOK
  <2> QED BY <1>0, <2>0, <2>2, <2>5, EntersANode DEF WfTypeOK, Statuses
<1>7. CASE Clash
  BY <1>0, <1>7 DEF Clash, WfTypeOK, Statuses
<1>8. CASE NextBranch
  <2> DEFINE new == [Top EXCEPT !.todo = Tail(Top.todo), !.joins = Top.joins \union {at},
                   !.written = Top.written \union Changed, !.merged = Merged, !.began = steps]
  <2>0. /\ frames # <<>> /\ Top.todo # <<>> /\ status = "running"
        /\ frames' = [frames EXCEPT ![Len(frames)] = new]
        /\ at' = Top.todo[1] /\ store' = Top.base
        /\ UNCHANGED <<graph, people, steps, ran, last, raced, status>>
    BY <1>8 DEF NextBranch, Arrives
  <2>1. Top \in Frames /\ Merged \in States /\ Changed \subseteq Keys
    BY <2>0, TopIsAFrame, MergedIsAState
  <2>3. Tail(Top.todo) \in Seq(Spots) /\ Top.todo[1] \in Spots
    BY <2>0, <2>1 DEF Frames
  <2>4. new \in Frames
    BY <2>1, <2>3 DEF Frames, WfTypeOK
  <2> HIDE DEF new
  <2>5. frames' \in Seq(Frames)
    BY <2>0, <2>4 DEF WfTypeOK
  <2>6. store' \in States
    BY <2>0, <2>1 DEF Frames
  <2> QED BY <1>0, <2>0, <2>3, <2>5, <2>6 DEF WfTypeOK, Statuses
<1>9. CASE Meet
  <2>0. /\ frames # <<>> /\ at # END /\ status = "running" /\ steps < MaxSteps
        /\ frames' = SubSeq(frames, 1, Len(frames) - 1)
        /\ at' = After(at) /\ store' = Merged /\ steps' = steps + 1 /\ ran' = ran \union {at}
        /\ UNCHANGED <<graph, people, last, raced, status>>
    BY <1>9 DEF Meet, Arrives
  <2>1. at \in DOMAIN graph.kind /\ GraphOK(graph)
    BY <2>0 DEF WfTypeOK, Spots
  <2>2. at' \in Spots
    BY <2>0, <2>1, AfterIsANode
  <2>3. store' \in States
    BY <2>0, MergedIsAState
  <2>4. frames' \in Seq(Frames)
    BY <2>0 DEF WfTypeOK
  <2>5. steps' \in 0..MaxSteps
    BY <2>0, WorkflowAssumption DEF WfTypeOK
  <2> QED BY <1>0, <2>0, <2>1, <2>2, <2>3, <2>4, <2>5 DEF WfTypeOK, Statuses
<1>10. CASE Unmet
  BY <1>0, <1>10 DEF Unmet, WfTypeOK, Statuses
<1>11. CASE Limit
  BY <1>0, <1>11 DEF Limit, WfTypeOK, Statuses
<1>12. CASE Finish
  BY <1>0, <1>12 DEF Finish, WfTypeOK, Statuses
<1>13. CASE UNCHANGED wfVars
  BY <1>0, <1>13 DEF wfVars, WfTypeOK
<1> QED BY <1>1, <1>2, <1>3, <1>4, <1>5, <1>6, <1>7, <1>8, <1>9, <1>10, <1>11, <1>12, <1>13 DEF WfNext

\* Every run is well typed: the bound is never passed, and what is still to
\* be walked are nodes of the graph.
THEOREM WorkflowTypeCorrect == WfSpec => []WfTypeOK
<1>1. WfInit => WfTypeOK
  BY TypeInit
<1>2. WfTypeOK /\ [WfNext]_wfVars => WfTypeOK'
  BY TypeStep
<1> QED BY <1>1, <1>2, PTL DEF WfSpec
-----------------------------------------------------------------------------
(***************************************************************************)
(* Forks merge                                                             *)
(***************************************************************************)
\* A level whose branch, and whose end of it, are what they were.
LEMMA LevelKept ==
  ASSUME NEW i \in Nat, LevelInv(i), frames[i].began \in Nat,
         frames'[i] = frames[i], Cur(i)' = Cur(i), Lst(i)' = Lst(i),
         Now(i) \in Nat, Now(i)' \in Nat, Now(i)' >= Now(i),
         steps \in Nat, steps' \in Nat, steps' >= steps
  PROVE  LevelInv(i)'
<1>1. \A key : Val(i, key)' = Val(i, key)
  BY DEF Val
<1> QED BY <1>1 DEF LevelInv

\* What is known of numbers and functions in every state.
LEMMA Numbers ==
  ASSUME WfTypeOK
  PROVE  /\ steps \in Nat /\ Len(frames) \in Nat
         /\ \A key \in Keys : store[key] \in Nat /\ last[key] \in Nat
         /\ \A i \in 1..Len(frames) :
              /\ frames[i] \in Frames
              /\ frames[i].since \in Nat /\ frames[i].began \in Nat /\ Now(i) \in Nat
              /\ \A key \in Keys : /\ frames[i].base[key] \in Nat
                                   /\ frames[i].merged[key] \in Nat
                                   /\ frames[i].before[key] \in Nat
<1>1. steps \in Nat /\ Len(frames) \in Nat /\ 0..MaxSteps \subseteq Nat
  BY WorkflowAssumption DEF WfTypeOK
<1>2. \A i \in 1..Len(frames) : frames[i] \in Frames
  BY DEF WfTypeOK
<1>3. \A i \in 1..Len(frames) : frames[i].since \in Nat /\ frames[i].began \in Nat
  BY <1>1, <1>2 DEF Frames
<1>4. \A i \in 1..Len(frames) : Now(i) \in Nat
  BY <1>1, <1>3 DEF Now
<1>5. \A st \in States, key \in Keys : st[key] \in Nat
  BY <1>1 DEF States
<1>6. \A i \in 1..Len(frames) : /\ frames[i].base \in States /\ frames[i].merged \in States
                               /\ frames[i].before \in States
  BY <1>2 DEF Frames
<1>7. store \in States /\ last \in States
  BY DEF WfTypeOK
<1> QED BY <1>1, <1>2, <1>3, <1>4, <1>5, <1>6, <1>7

\* The same level before and after a step that leaves the forks alone.
LEMMA QuietStep ==
  ASSUME WfTypeOK, MergeInv, status = "running",
         UNCHANGED <<store, frames, last>>, "new" \in raced' <=> "new" \in raced,
         steps' \in Nat, steps' >= steps,
         status' = "ok" => frames = <<>>
  PROVE  MergeInv'
<1>1. /\ steps \in Nat
      /\ \A i \in 1..Len(frames) : Now(i)' >= Now(i) /\ Now(i)' \in Nat /\ Now(i) \in Nat
  BY Numbers DEF Now
<1>2. \A i \in 1..Len(frames) : Cur(i)' = Cur(i) /\ Lst(i)' = Lst(i)
  BY DEF Cur, Lst
<1>3. \A i \in 1..Len(frames) : frames[i] \in Frames
  BY DEF WfTypeOK
<1>4. LevelsInv'
  <2> SUFFICES ASSUME NEW i \in 1..Len(frames) PROVE LevelInv(i)'
    BY DEF LevelsInv
  <2>1. LevelInv(i)
    BY DEF MergeInv, LevelsInv
  <2>2. frames[i].began \in Nat
    BY <1>3 DEF Frames
  <2> QED BY <1>1, <1>2, <2>1, <2>2, LevelKept
<1>5. GroundInv'
  <2>1. \A key \in Keys : store[key] \in Nat /\ last[key] \in Nat
    BY DEF WfTypeOK, States
  <2> QED BY <1>1, <2>1 DEF MergeInv, GroundInv
<1> QED BY <1>4, <1>5 DEF MergeInv, RacedInv, OkInv

LEMMA MergeInit == WfInit => MergeInv
<1> SUFFICES ASSUME WfInit PROVE MergeInv
  OBVIOUS
<1>1. Len(frames) = 0
  BY DEF WfInit
<1>2. LevelsInv
  BY <1>1 DEF LevelsInv
<1> QED BY <1>2 DEF WfInit, MergeInv, GroundInv, RacedInv, OkInv

\* A step that writes: the branch of the innermost fork has something new,
\* and only what a sibling had changed is remembered as raced.
LEMMA RunStepMerges == WfTypeOK /\ MergeInv /\ RunStep => MergeInv'
<1> SUFFICES ASSUME WfTypeOK, MergeInv, RunStep PROVE MergeInv'
  OBVIOUS
<1> DEFINE n == Len(frames)
<1>1. /\ steps' = steps + 1 /\ status = "running" /\ UNCHANGED <<frames, status>>
  BY EntersANode DEF RunStep
<1>2. PICK key \in Keys : Writes(key)
  <2>1. graph.output[at] \in Keys
    BY EntersANode DEF RunStep, WfTypeOK, GraphOK
  <2> QED BY <2>1 DEF RunStep
<1>3. CASE WritesSame(key)
  <2>1. UNCHANGED <<store, last>> /\ ("new" \in raced' <=> "new" \in raced)
    BY <1>3 DEF WritesSame
  <2> QED BY <1>1, <2>1, Numbers, QuietStep
<1>4. CASE WritesNew(key)
  <2>1. /\ store' = [store EXCEPT ![key] = steps + 1]
        /\ last' = [last EXCEPT ![key] = steps + 1]
        /\ store \in [Keys -> 0..MaxSteps] /\ last \in [Keys -> 0..MaxSteps]
    BY <1>4 DEF WritesNew, WfTypeOK, States
  <2>2. \A k \in Keys : /\ store'[k] = IF k = key THEN steps + 1 ELSE store[k]
                        /\ last'[k] = IF k = key THEN steps + 1 ELSE last[k]
    BY <2>1
  <2>3. LevelsInv'
    <3> SUFFICES ASSUME NEW i \in 1..n PROVE LevelInv(i)'
      BY <1>1 DEF LevelsInv
    <3>1. LevelInv(i) /\ frames'[i] = frames[i] /\ i \in Nat
      BY <1>1 DEF MergeInv, LevelsInv
    <3>2. CASE i < n
      <4>1. Cur(i)' = Cur(i) /\ Lst(i)' = Lst(i) /\ Now(i)' = Now(i)
        BY <1>1, <3>2 DEF Cur, Lst, Now
      <4>2. /\ frames[i].began \in Nat /\ Now(i) \in Nat /\ Now(i)' \in Nat
            /\ Now(i)' >= Now(i)
        BY <4>1, Numbers
      <4>3. steps \in Nat /\ steps' \in Nat /\ steps' >= steps
        BY <1>1, Numbers
      <4> QED BY <3>1, <4>1, <4>2, <4>3, LevelKept
    <3>3. CASE i = n
      <4>1. /\ Cur(i) = store /\ Lst(i) = last /\ Now(i) = steps
            /\ Cur(i)' = store' /\ Lst(i)' = last' /\ Now(i)' = steps'
        BY <1>1, <3>3 DEF Cur, Lst, Now
      <4>2. ASSUME NEW k \in Keys
            PROVE  /\ Lst(i)'[k] = IF Val(i, k)' # frames[i].base[k] THEN Val(i, k)' ELSE frames[i].before[k]
                   /\ Cur(i)'[k] # frames[i].base[k] => Cur(i)'[k] > frames[i].since
        BY <1>1, <2>2, <3>1, <4>1, Numbers DEF LevelInv, Val
      <4> QED BY <1>1, <3>1, <4>1, <4>2, Numbers DEF LevelInv
    <3> QED BY <3>2, <3>3, Numbers
  <2>4. GroundInv'
    <3>1. frames = <<>> => store' = last'
      BY <2>1 DEF MergeInv, GroundInv
    <3> QED BY <1>1, <2>2, <3>1, Numbers DEF MergeInv, GroundInv
  <2>5. RacedInv'
    <3> SUFFICES ASSUME "new" \in raced'
                 PROVE  \E i \in 1..n : \E k \in frames[i].written : last'[k] > frames[i].began
      BY <1>1 DEF RacedInv
    <3>1. CASE "new" \in raced
      <4>1. PICK i \in 1..n : \E k \in frames[i].written : last[k] > frames[i].began
        BY <1>1, <3>1 DEF MergeInv, RacedInv
      <4>2. PICK k \in frames[i].written : last[k] > frames[i].began
        BY <4>1
      <4>3. k \in Keys
        BY Numbers DEF Frames
      <4>4. last[k] <= steps
        BY <4>3 DEF MergeInv, GroundInv
      <4> QED BY <2>2, <4>2, <4>3, <4>4, Numbers
    <3>2. CASE "new" \notin raced
      <4>1. PICK i \in DOMAIN frames : frames[i].merged[key] # frames[i].base[key]
        BY <1>4, <3>2 DEF WritesNew, SiblingChanged
      <4>2. i \in 1..n
        BY <4>1 DEF WfTypeOK
      <4>3. LevelInv(i)
        BY <4>2 DEF MergeInv, LevelsInv
      <4>4. key \in frames[i].written
        BY <4>1, <4>3 DEF LevelInv
      <4>5. frames[i].began <= steps
        BY <4>3 DEF LevelInv
      <4> QED BY <2>2, <4>2, <4>4, <4>5, Numbers
    <3> QED BY <3>1, <3>2
  <2> QED BY <1>1, <2>3, <2>4, <2>5 DEF MergeInv, OkInv
<1> QED BY <1>2, <1>3, <1>4 DEF Writes

\* A new fork: its first branch has the state as it is, and so far all
\* written last is what had been written before.
LEMMA ForkMerges == WfTypeOK /\ MergeInv /\ Fork => MergeInv'
<1> SUFFICES ASSUME WfTypeOK, MergeInv, Fork PROVE MergeInv'
  OBVIOUS
<1> DEFINE n   == Len(frames)
           new == [todo |-> Tail(graph.out[at]), base |-> store,
                   joins |-> {}, written |-> {}, merged |-> store,
                   since |-> steps, began |-> steps, before |-> last]
<1>0. frames' = Append(frames, new)
  BY DEF Fork
<1>1. /\ new.base = store /\ new.merged = store /\ new.before = last
      /\ new.since = steps /\ new.began = steps /\ new.written = {}
  OBVIOUS
<1> HIDE DEF new
<1>2. /\ steps' = steps + 1 /\ status = "running"
      /\ UNCHANGED <<store, last, raced, status>>
  BY EntersANode DEF Fork
<1>3. /\ Len(frames') = n + 1 /\ n \in Nat /\ frames' # <<>>
      /\ frames'[n + 1] = new /\ \A i \in 1..n : frames'[i] = frames[i]
  BY <1>0 DEF WfTypeOK
<1>4. LevelsInv'
  <2> SUFFICES ASSUME NEW i \in 1..(n + 1) PROVE LevelInv(i)'
    BY <1>3 DEF LevelsInv
  <2>1. CASE i = n + 1
    <3>1. Cur(i)' = store /\ Lst(i)' = last /\ Now(i)' = steps + 1 /\ frames'[i] = new
      BY <1>2, <1>3, <2>1 DEF Cur, Lst, Now
    <3>2. \A key \in Keys : store[key] <= steps /\ last[key] <= steps
      BY DEF MergeInv, GroundInv
    <3>3. \A key \in Keys : Val(i, key)' = store[key]
      BY <1>1, <3>1 DEF Val
    <3> QED BY <1>1, <1>2, <3>1, <3>2, <3>3, Numbers DEF LevelInv
  <2>2. CASE i \in 1..n
    <3>1. frames'[i] = frames[i] /\ LevelInv(i)
      BY <1>3, <2>2 DEF MergeInv, LevelsInv
    <3>2. CASE i = n
      <4>1. Cur(i) = store /\ Lst(i) = last /\ Now(i) = steps
        BY <3>2 DEF Cur, Lst, Now
      <4>2. Cur(i)' = store /\ Lst(i)' = last /\ Now(i)' = steps
        BY <1>1, <1>3, <3>2 DEF Cur, Lst, Now
      <4> QED BY <1>2, <2>2, <3>1, <4>1, <4>2, Numbers, LevelKept
    <3>3. CASE i < n
      <4>1. i + 1 \in 1..n
        BY <1>3, <3>3
      <4>2. Cur(i)' = Cur(i) /\ Lst(i)' = Lst(i) /\ Now(i)' = Now(i)
        BY <1>3, <3>3, <4>1 DEF Cur, Lst, Now
      <4> QED BY <1>2, <2>2, <3>1, <4>2, Numbers, LevelKept
    <3> QED BY <1>3, <2>2, <3>2, <3>3
  <2> QED BY <1>3, <2>1, <2>2
<1>5. GroundInv'
  <2>1. frames'[1].before = frames'[1].base
    <3>1. CASE frames = <<>>
      <4>1. n = 0 /\ store = last
        BY <3>1 DEF MergeInv, GroundInv
      <4> QED BY <1>1, <1>3, <4>1
    <3>2. CASE frames # <<>>
      <4>1. n >= 1
        BY <1>3, <3>2 DEF WfTypeOK
      <4> QED BY <1>3, <3>2, <4>1 DEF MergeInv, GroundInv
    <3> QED BY <3>1, <3>2
  <2>2. \A key \in Keys : store[key] <= steps + 1 /\ last[key] <= steps + 1
    BY Numbers DEF MergeInv, GroundInv
  <2> QED BY <1>2, <1>3, <2>1, <2>2 DEF GroundInv
<1>6. RacedInv'
  <2> SUFFICES ASSUME "new" \in raced
               PROVE  \E i \in 1..(n + 1) : \E key \in frames'[i].written : last[key] > frames'[i].began
    BY <1>2, <1>3 DEF RacedInv
  <2>1. PICK i \in 1..n : \E key \in frames[i].written : last[key] > frames[i].began
    BY <1>2 DEF MergeInv, RacedInv
  <2> QED BY <1>3, <2>1
<1> QED BY <1>2, <1>4, <1>5, <1>6 DEF MergeInv, OkInv

\* What is written last is what the innermost fork has; and if a sibling's
\* key was written anew there, the branch has changed it.
LEMMA TopHasLast ==
  ASSUME WfTypeOK, MergeInv, frames # <<>>
  PROVE  /\ Len(frames) \in 1..Len(frames) /\ LevelInv(Len(frames))
         /\ Top = frames[Len(frames)]
         /\ \A key \in Keys :
              /\ Val(Len(frames), key) = Merged[key]
              /\ last[key] = IF Merged[key] # Top.base[key] THEN Merged[key] ELSE Top.before[key]
              /\ key \in Top.written /\ last[key] > Top.began => key \in Changed
<1> DEFINE n == Len(frames)
<1>1. n \in 1..n /\ Top = frames[n]
  BY TopIsAFrame DEF Top
<1>2. LevelInv(n) /\ Cur(n) = store /\ Lst(n) = last /\ Now(n) = steps
  BY <1>1 DEF MergeInv, LevelsInv, Cur, Lst, Now
<1> SUFFICES ASSUME NEW key \in Keys
             PROVE  /\ Val(n, key) = Merged[key]
                    /\ last[key] = IF Merged[key] # Top.base[key] THEN Merged[key] ELSE Top.before[key]
                    /\ key \in Top.written /\ last[key] > Top.began => key \in Changed
  BY <1>1, <1>2
<1>3. Merged[key] = IF store[key] # Top.base[key] THEN store[key] ELSE Top.merged[key]
  BY MergedIsAState
<1>4. Val(n, key) = Merged[key]
  BY <1>1, <1>2, <1>3 DEF Val
<1>5. last[key] = IF Merged[key] # Top.base[key] THEN Merged[key] ELSE Top.before[key]
  BY <1>1, <1>2, <1>4 DEF LevelInv
<1>6. ASSUME last[key] > Top.began PROVE key \in Changed
  <2>1. Top.before[key] <= Top.since /\ Top.since <= Top.began /\ Top.merged[key] <= Top.began
    BY <1>1, <1>2 DEF LevelInv
  <2>2. Merged[key] # Top.base[key]
    BY <1>1, <1>5, <1>6, <2>1, Numbers
  <2>3. store[key] # Top.base[key]
    BY <1>1, <1>3, <1>5, <1>6, <2>1, <2>2, Numbers
  <2> QED BY <2>3, MergedIsAState
<1> QED BY <1>4, <1>5, <1>6

\* A branch that is over: what it changed is merged and remembered, and the
\* next begins from the state at the fork.
LEMMA NextBranchMerges == WfTypeOK /\ MergeInv /\ NextBranch => MergeInv'
<1> SUFFICES ASSUME WfTypeOK, MergeInv, NextBranch PROVE MergeInv'
  OBVIOUS
<1> DEFINE n   == Len(frames)
           new == [Top EXCEPT !.todo = Tail(Top.todo), !.joins = Top.joins \union {at},
                   !.written = Top.written \union Changed, !.merged = Merged, !.began = steps]
<1>0. /\ frames # <<>> /\ status = "running" /\ Changed \intersect Top.written = {}
      /\ frames' = [frames EXCEPT ![Len(frames)] = new] /\ store' = Top.base
      /\ UNCHANGED <<steps, last, raced, status>>
  BY DEF NextBranch, Arrives
<1>1. /\ new.base = Top.base /\ new.merged = Merged /\ new.before = Top.before
      /\ new.since = Top.since /\ new.began = steps /\ new.written = Top.written \union Changed
  BY <1>0, TopIsAFrame DEF Frames
<1> HIDE DEF new
<1>2. /\ n \in 1..n /\ Top = frames[n] /\ LevelInv(n)
      /\ \A key \in Keys :
           /\ Val(n, key) = Merged[key]
           /\ last[key] = IF Merged[key] # Top.base[key] THEN Merged[key] ELSE Top.before[key]
           /\ key \in Top.written /\ last[key] > Top.began => key \in Changed
  BY <1>0, TopHasLast
<1>3. /\ Len(frames') = n /\ frames' # <<>> /\ frames'[n] = new
      /\ \A i \in 1..n : i # n => frames'[i] = frames[i]
  BY <1>0, <1>2 DEF WfTypeOK
<1>4. LevelsInv'
  <2> SUFFICES ASSUME NEW i \in 1..n PROVE LevelInv(i)'
    BY <1>3 DEF LevelsInv
  <2>1. CASE i = n
    <3>1. Cur(i)' = Top.base /\ Lst(i)' = last /\ Now(i)' = steps /\ frames'[i] = new
      BY <1>0, <1>3, <2>1 DEF Cur, Lst, Now
    <3>2. \A key \in Keys : Val(i, key)' = Merged[key]
      BY <1>1, <3>1 DEF Val
    <3>3. /\ Top.since <= steps /\ Top.since \in Nat /\ Top.began \in Nat /\ Top.began <= steps
      BY <1>2, Numbers DEF LevelInv
    <3>4. ASSUME NEW key \in Keys
          PROVE  /\ Merged[key] # Top.base[key] =>
                      Merged[key] > Top.since /\ key \in Top.written \union Changed
                 /\ Merged[key] <= steps
                 /\ Top.base[key] <= Top.since /\ Top.before[key] <= Top.since
      <4>1. /\ Cur(n)[key] = store[key] /\ store[key] <= steps
        BY DEF Cur, MergeInv, GroundInv
      <4>2. /\ Merged[key] = IF store[key] # Top.base[key] THEN store[key] ELSE Top.merged[key]
            /\ Changed = {k \in Keys : store[k] # Top.base[k]}
        BY <1>0, MergedIsAState
      <4>3. /\ store[key] # Top.base[key] => store[key] > Top.since
            /\ Top.merged[key] # Top.base[key] => Top.merged[key] > Top.since /\ key \in Top.written
            /\ Top.merged[key] <= Top.began
            /\ Top.base[key] <= Top.since /\ Top.before[key] <= Top.since
        BY <1>2, <4>1 DEF LevelInv
      <4>4. Top.merged[key] <= steps
        BY <1>2, <3>3, <4>3, Numbers
      <4> QED BY <4>1, <4>2, <4>3, <4>4
    <3> QED BY <1>0, <1>1, <1>2, <3>1, <3>2, <3>3, <3>4, Numbers DEF LevelInv
  <2>2. CASE i # n
    <3>1. frames'[i] = frames[i] /\ LevelInv(i) /\ i + 1 \in 1..n /\ i \in Nat
      BY <1>2, <1>3, <2>2 DEF MergeInv, LevelsInv
    <3>2. /\ frames'[i + 1].base = frames[i + 1].base
          /\ frames'[i + 1].before = frames[i + 1].before
          /\ frames'[i + 1].since = frames[i + 1].since
      BY <1>1, <1>2, <1>3, <3>1
    <3>3. Cur(i)' = Cur(i) /\ Lst(i)' = Lst(i) /\ Now(i)' = Now(i)
      BY <1>3, <2>2, <3>2 DEF Cur, Lst, Now
    <3> QED BY <1>0, <3>1, <3>3, Numbers, LevelKept
  <2> QED BY <2>1, <2>2
<1>5. GroundInv'
  <2>1. frames'[1].before = frames'[1].base
    <3>1. frames[1].before = frames[1].base
      BY <1>0 DEF MergeInv, GroundInv
    <3> QED BY <1>1, <1>2, <1>3, <3>1
  <2>2. ASSUME NEW key \in Keys PROVE Top.base[key] <= steps /\ last[key] <= steps
    <3>1. Top.base[key] <= Top.since /\ Top.since <= Top.began /\ Top.began <= steps
      BY <1>2 DEF LevelInv
    <3> QED BY <1>2, <3>1, Numbers DEF MergeInv, GroundInv
  <2> QED BY <1>0, <1>3, <2>1, <2>2 DEF GroundInv
<1>6. RacedInv'
  <2> SUFFICES ASSUME "new" \in raced
               PROVE  \E i \in 1..n : \E key \in frames'[i].written : last[key] > frames'[i].began
    BY <1>0, <1>3 DEF RacedInv
  <2>1. PICK i \in 1..n : \E key \in frames[i].written : last[key] > frames[i].began
    BY <1>0 DEF MergeInv, RacedInv
  <2>2. PICK key \in frames[i].written : last[key] > frames[i].began
    BY <2>1
  <2>3. i # n
    <3> SUFFICES ASSUME i = n PROVE FALSE
      OBVIOUS
    <3>1. key \in Keys /\ key \in Top.written /\ last[key] > Top.began
      BY <1>2, <2>2, Numbers DEF Frames
    <3> QED BY <1>0, <1>2, <3>1
  <2> QED BY <1>3, <2>2, <2>3
<1> QED BY <1>0, <1>4, <1>5, <1>6 DEF MergeInv, OkInv

\* The stack without its innermost fork.
LEMMA ShorterByOne ==
  ASSUME WfTypeOK, frames # <<>>, frames' = SubSeq(frames, 1, Len(frames) - 1)
  PROVE  /\ Len(frames') = Len(frames) - 1 /\ DOMAIN frames' = 1..(Len(frames) - 1)
         /\ Len(frames) \in Nat
         /\ \A i \in 1..(Len(frames) - 1) : frames'[i] = frames[i]
<1> DEFINE n == Len(frames)
<1>1. frames \in Seq(Frames) /\ n \in Nat /\ n >= 1
  BY TopIsAFrame DEF WfTypeOK
<1>2. \A i \in 1..(n - 1) : frames[i] \in Frames
  BY <1>1
<1>3. n - 1 \in Int /\ 1 \in Int
  BY <1>1
<1>4. frames' = SubSeq(frames, 1, n - 1)
  OBVIOUS
<1> HIDE DEF n
<1>5. /\ frames' \in Seq(Frames)
      /\ Len(frames') = IF 1 <= n - 1 THEN n - 1 - 1 + 1 ELSE 0
      /\ \A i \in 1..(n - 1 - 1 + 1) : frames'[i] = frames[1 + i - 1]
  BY <1>2, <1>3, <1>4, SubSeqProperties
<1>6. Len(frames') = n - 1 /\ DOMAIN frames' = 1..(n - 1)
  BY <1>1, <1>5
<1>7. \A i \in 1..(n - 1) : frames'[i] = frames[i]
  BY <1>1, <1>5
<1> QED BY <1>1, <1>6, <1>7 DEF n

\* The join runs, and the walk goes on in the fork's own branch, or in none.
LEMMA MeetMerges == WfTypeOK /\ MergeInv /\ Meet => MergeInv'
<1> SUFFICES ASSUME WfTypeOK, MergeInv, Meet PROVE MergeInv'
  OBVIOUS
<1> DEFINE n == Len(frames)
<1>0. /\ frames # <<>> /\ status = "running" /\ Changed \intersect Top.written = {}
      /\ frames' = SubSeq(frames, 1, n - 1) /\ store' = Merged /\ steps' = steps + 1
      /\ UNCHANGED <<last, raced, status>>
  BY DEF Meet, Arrives
<1>2. /\ n \in 1..n /\ Top = frames[n] /\ LevelInv(n)
      /\ \A key \in Keys :
           /\ Val(n, key) = Merged[key]
           /\ last[key] = IF Merged[key] # Top.base[key] THEN Merged[key] ELSE Top.before[key]
           /\ key \in Top.written /\ last[key] > Top.began => key \in Changed
  BY <1>0, TopHasLast
<1>3. /\ Len(frames') = n - 1 /\ n \in Nat
      /\ \A i \in 1..(n - 1) : frames'[i] = frames[i]
  BY <1>0, ShorterByOne
\* What the branches changed is newer than their fork.
<1>4. ASSUME NEW key \in Keys
      PROVE  /\ Merged[key] # Top.base[key] => Merged[key] > Top.since
             /\ Merged[key] <= steps + 1 /\ Merged[key] \in Nat
  <2>1. /\ Cur(n)[key] = store[key] /\ store[key] <= steps
    BY DEF Cur, MergeInv, GroundInv
  <2>2. Merged[key] = IF store[key] # Top.base[key] THEN store[key] ELSE Top.merged[key]
    BY <1>0, MergedIsAState
  <2>3. /\ store[key] # Top.base[key] => store[key] > Top.since
        /\ Top.merged[key] # Top.base[key] => Top.merged[key] > Top.since
        /\ Top.merged[key] <= Top.began /\ Top.began <= steps
    BY <1>2, <2>1 DEF LevelInv
  <2> QED BY <1>2, <2>1, <2>2, <2>3, Numbers
<1>5. LevelsInv'
  <2> SUFFICES ASSUME NEW i \in 1..(n - 1) PROVE LevelInv(i)'
    BY <1>3 DEF LevelsInv
  <2>0. frames'[i] = frames[i] /\ LevelInv(i) /\ i \in 1..n /\ i + 1 \in 1..n /\ i \in Nat
    BY <1>3 DEF MergeInv, LevelsInv
  <2>1. CASE i = n - 1
    <3>1. /\ Cur(i)' = Merged /\ Lst(i)' = last /\ Now(i)' = steps + 1
          /\ Cur(i) = Top.base /\ Lst(i) = Top.before /\ Now(i) = Top.since
      <4>1. i = Len(frames') /\ i # Len(frames) /\ i + 1 = n
        BY <1>3, <2>1
      <4>2. Cur(i)' = Merged /\ Lst(i)' = last /\ Now(i)' = steps + 1
        BY <1>0, <4>1 DEF Cur, Lst, Now
      <4>3. Cur(i) = Top.base /\ Lst(i) = Top.before /\ Now(i) = Top.since
        BY <1>2, <4>1 DEF Cur, Lst, Now
      <4> QED BY <4>2, <4>3
    <3>2. /\ frames[i].since <= frames[i].began /\ frames[i].began <= Top.since
          /\ frames[i].began <= steps
      BY <2>0, <3>1 DEF LevelInv
    <3>3. ASSUME NEW key \in Keys
          PROVE  /\ last[key] = IF Val(i, key)' # frames[i].base[key] THEN Val(i, key)' ELSE frames[i].before[key]
                 /\ Merged[key] # frames[i].base[key] => Merged[key] > frames[i].since
      <4>1. /\ Val(i, key)' = IF Merged[key] # frames[i].base[key] THEN Merged[key] ELSE frames[i].merged[key]
            /\ Val(i, key) = IF Top.base[key] # frames[i].base[key] THEN Top.base[key] ELSE frames[i].merged[key]
        BY <2>0, <3>1 DEF Val
      <4>2. /\ Top.before[key] = IF Val(i, key) # frames[i].base[key] THEN Val(i, key) ELSE frames[i].before[key]
            /\ Top.base[key] # frames[i].base[key] => Top.base[key] > frames[i].since
            /\ frames[i].base[key] <= frames[i].since
        BY <2>0, <3>1 DEF LevelInv
      <4>3. last[key] = IF Merged[key] # Top.base[key] THEN Merged[key] ELSE Top.before[key]
        BY <1>2
      <4>4. CASE Merged[key] = Top.base[key]
        BY <4>1, <4>2, <4>3, <4>4
      <4>5. CASE Merged[key] # Top.base[key]
        <5>1. Merged[key] > frames[i].since
          <6>1. Merged[key] > Top.since /\ Merged[key] \in Nat
            BY <1>4, <4>5
          <6>2. Top.since \in Nat /\ frames[i].since \in Nat /\ frames[i].began \in Nat
            BY <1>2, <2>0, Numbers
          <6> QED BY <3>2, <6>1, <6>2
        <5>2. Merged[key] # frames[i].base[key]
          BY <1>4, <2>0, <4>2, <5>1, Numbers
        <5> QED BY <4>1, <4>3, <4>5, <5>1, <5>2
      <4> QED BY <4>4, <4>5
    <3>4. frames[i].began <= steps + 1
      BY <2>0, <3>2, Numbers
    <3> QED BY <1>0, <2>0, <3>1, <3>2, <3>3, <3>4 DEF LevelInv
  <2>2. CASE i # n - 1
    <3>1. i + 1 \in 1..(n - 1) /\ frames'[i + 1] = frames[i + 1]
      BY <1>3, <2>2
    <3>2. Cur(i)' = Cur(i) /\ Lst(i)' = Lst(i) /\ Now(i)' = Now(i)
      BY <1>3, <2>0, <2>2, <3>1 DEF Cur, Lst, Now
    <3> QED BY <1>0, <2>0, <3>2, Numbers, LevelKept
  <2> QED BY <2>1, <2>2
<1>6. GroundInv'
  <2>1. CASE n = 1
    <3>1. Top.before = Top.base
      BY <1>0, <1>2, <2>1 DEF MergeInv, GroundInv
    <3>2. \A key \in Keys : last[key] = Merged[key]
      BY <1>2, <3>1
    <3>3. Merged = last
      BY <1>0, <3>2, MergedIsAState DEF WfTypeOK, States
    <3>4. frames' = <<>>
      BY <1>0, <2>1 DEF WfTypeOK
    <3> QED BY <1>0, <1>4, <3>2, <3>3, <3>4 DEF GroundInv
  <2>2. CASE n # 1
    <3>1. frames' # <<>> /\ frames'[1] = frames[1]
      BY <1>2, <1>3, <2>2
    <3>2. \A key \in Keys : last[key] <= steps + 1
      BY Numbers DEF MergeInv, GroundInv
    <3> QED BY <1>0, <1>4, <3>1, <3>2 DEF MergeInv, GroundInv
  <2> QED BY <2>1, <2>2
<1>7. RacedInv'
  <2> SUFFICES ASSUME "new" \in raced
               PROVE  \E i \in 1..(n - 1) : \E key \in frames'[i].written : last[key] > frames'[i].began
    BY <1>0, <1>3 DEF RacedInv
  <2>1. PICK i \in 1..n : \E key \in frames[i].written : last[key] > frames[i].began
    BY <1>0 DEF MergeInv, RacedInv
  <2>2. PICK key \in frames[i].written : last[key] > frames[i].began
    BY <2>1
  <2>3. i # n
    <3> SUFFICES ASSUME i = n PROVE FALSE
      OBVIOUS
    <3>1. key \in Keys /\ key \in Top.written /\ last[key] > Top.began
      BY <1>2, <2>2, Numbers DEF Frames
    <3> QED BY <1>0, <1>2, <3>1
  <2>4. i \in 1..(n - 1)
    BY <1>2, <2>3
  <2> QED BY <1>3, <2>2, <2>4
<1> QED BY <1>0, <1>5, <1>6, <1>7 DEF MergeInv, OkInv

LEMMA MergeStep == WfTypeOK /\ MergeInv /\ [WfNext]_wfVars => MergeInv'
<1> SUFFICES ASSUME WfTypeOK, MergeInv, [WfNext]_wfVars PROVE MergeInv'
  OBVIOUS
<1>1. CASE RunStep
  BY <1>1, RunStepMerges
<1>2. CASE Fork
  BY <1>2, ForkMerges
<1>3. CASE NextBranch
  BY <1>3, NextBranchMerges
<1>4. CASE Meet
  BY <1>4, MeetMerges
<1>5. CASE Raise \/ Pause \/ PassJoin \/ (\E t \in Targets : Choose(t))
  <2>1. \E kinds : Enters(kinds)
    BY <1>5 DEF Raise, Pause, PassJoin, Choose
  <2>2. status = "running" /\ steps' = steps + 1
    BY <2>1 DEF Enters
  <2>3. UNCHANGED <<store, frames, last, raced>> /\ status' # "ok"
    BY <1>5, <2>2 DEF Raise, Pause, PassJoin, Choose
  <2> QED BY <2>2, <2>3, Numbers, QuietStep
<1>6. CASE Clash \/ Unmet \/ Limit \/ Finish
  <2>1. /\ status = "running" /\ UNCHANGED <<store, frames, steps, last, raced>>
        /\ status' = "ok" => frames = <<>>
    BY <1>6 DEF Clash, Unmet, Limit, Finish, Arrives
  <2> QED BY <2>1, Numbers, QuietStep
<1>7. CASE UNCHANGED wfVars
  BY <1>7 DEF wfVars, MergeInv, LevelsInv, LevelInv, Val, Cur, Lst, Now, GroundInv, RacedInv, OkInv
<1> QED BY <1>1, <1>2, <1>3, <1>4, <1>5, <1>6, <1>7 DEF WfNext

\* However deep forks are nested, when none is open every key holds the last
\* new object written to it, and none of those came in the place of one a
\* sibling branch had written (_fork's merge and its refusal).
THEOREM ForksMergeAsOne == WfSpec => []ForksMerge
<1>1. WfInit => WfTypeOK /\ MergeInv
  BY TypeInit, MergeInit
<1>2. WfTypeOK /\ MergeInv /\ [WfNext]_wfVars => (WfTypeOK /\ MergeInv)'
  BY TypeStep, MergeStep
<1>3. MergeInv => ForksMerge
  <2> SUFFICES ASSUME MergeInv, status \in {"running", "ok"}, frames = <<>>
               PROVE  store = last /\ "new" \notin raced
    BY DEF ForksMerge
  <2>1. Len(frames) = 0
    OBVIOUS
  <2> QED BY <2>1 DEF MergeInv, GroundInv, RacedInv
<1> QED BY <1>1, <1>2, <1>3, PTL DEF WfSpec
-----------------------------------------------------------------------------
(***************************************************************************)
(* Nothing is skipped                                                      *)
(***************************************************************************)
\* What is pending stays so until it runs, and so does what serves a node.
LEMMA ServedStays ==
  ASSUME graph' = graph, Pending \subseteq Pending', NEW n, Served(n)
  PROVE  Served(n)'
BY DEF Served, After, Leads, WaysOut

\* A node with at most one way out is served by going on to it.
LEMMA OneWayServes ==
  ASSUME WfTypeOK, ~Ambiguous(graph), graph' = graph,
         NEW n \in DOMAIN graph.kind, graph.kind[n] \notin {"branch", "fork"},
         After(n) \in Pending'
  PROVE  Served(n)'
<1>1. graph.out[n] \in Seq(Spots)
  BY DEF WfTypeOK, GraphOK, Spots
<1>2. Len(graph.out[n]) <= 1
  BY <1>1 DEF Ambiguous
<1>3. \A m \in DOMAIN graph.out[n] : graph.out[n][m] = After(n)
  BY <1>1, <1>2 DEF After
<1> QED BY <1>3 DEF Served, Leads, WaysOut

\* A walk that goes on from the node it ran.
LEMMA GoingOn ==
  ASSUME WfTypeOK, ServedInv, status = "running", status' = "running",
         UNCHANGED <<graph, frames>>, at \in DOMAIN graph.kind,
         ran' = ran \union {at}, NEW here, here = at, Served(here)'
  PROVE  ServedInv'
<1>1. Pending \subseteq Pending'
  BY DEF Pending, Left
<1>2. \A n \in ran' : Served(n)'
  BY <1>1, ServedStays DEF ServedInv
<1> QED BY <1>1, <1>2 DEF ServedInv

LEMMA ServedInit == WfInit => ServedInv
  BY DEF WfInit, ServedInv, Pending

LEMMA ServedStep == WfTypeOK /\ ServedInv /\ [WfNext]_wfVars => ServedInv'
<1> SUFFICES ASSUME WfTypeOK, ServedInv, [WfNext]_wfVars PROVE ServedInv'
  OBVIOUS
<1>1. CASE RunStep \/ PassJoin
  <2> PICK here : here = at
    OBVIOUS
  <2>1. /\ here \in DOMAIN graph.kind /\ graph.kind[here] \in {"step", "human", "join"}
        /\ status = "running" /\ ran' = ran \union {here}
    BY <1>1, EntersANode DEF RunStep, PassJoin
  <2>2. UNCHANGED <<graph, frames, status>> /\ at' = After(here)
    BY <1>1 DEF RunStep, PassJoin
  <2>3. After(here) \in Pending'
    BY <2>2 DEF Pending
  <2>4. Served(here)'
    BY <2>1, <2>2, <2>3, OneWayServes DEF ServedInv
  <2> QED BY <2>1, <2>2, <2>4, GoingOn
<1>2. CASE \E t \in Targets : Choose(t)
  <2> PICK t \in Targets : Choose(t)
    BY <1>2
  <2> PICK here : here = at
    OBVIOUS
  <2>1. /\ here \in DOMAIN graph.kind /\ graph.kind[here] = "branch"
        /\ status = "running" /\ ran' = ran \union {here}
    BY EntersANode DEF Choose
  <2>2. /\ UNCHANGED <<graph, frames, status>> /\ at' = t
        /\ t \in graph.cases[here] \union {After(here)}
    BY DEF Choose
  <2>3. Served(here)'
    BY <2>1, <2>2 DEF Served, Pending, After
  <2> QED BY <2>1, <2>2, <2>3, GoingOn
<1>3. CASE Fork
  <2> PICK n : n = Len(frames)
    OBVIOUS
  <2> PICK here : here = at
    OBVIOUS
  <2> DEFINE new == [todo |-> Tail(graph.out[here]), base |-> store,
                     joins |-> {}, written |-> {}, merged |-> store,
                     since |-> steps, began |-> steps, before |-> last]
  <2>0. /\ frames' = Append(frames, new) /\ at' = graph.out[here][1] /\ graph.out[here] # <<>>
        /\ UNCHANGED <<graph, status>>
    BY <1>3 DEF Fork
  <2>1. /\ here \in DOMAIN graph.kind /\ graph.kind[here] = "fork"
        /\ status = "running" /\ ran' = ran \union {here}
    BY <1>3, EntersANode DEF Fork
  <2>2. new.todo = Tail(graph.out[here]) /\ new.joins = {}
    OBVIOUS
  <2> HIDE DEF new
  <2>3. /\ DOMAIN frames = 1..n /\ DOMAIN frames' = 1..(n + 1) /\ n \in Nat
        /\ frames'[n + 1] = new /\ \A i \in 1..n : frames'[i] = frames[i]
    BY <2>0 DEF WfTypeOK
  <2>4. Pending \subseteq Pending'
    BY <2>1, <2>3 DEF Pending, Left
  <2>5. \A m \in DOMAIN graph.out[here] : graph.out[here][m] \in Pending'
    <3> SUFFICES ASSUME NEW m \in DOMAIN graph.out[here] PROVE graph.out[here][m] \in Pending'
      OBVIOUS
    <3>1. graph.out[here] \in Seq(Spots)
      BY <2>1 DEF WfTypeOK, GraphOK, Spots
    <3>2. CASE m = 1
      BY <2>0, <3>2 DEF Pending
    <3>3. CASE m # 1
      <4>1. m - 1 \in DOMAIN new.todo /\ new.todo[m - 1] = graph.out[here][m]
        BY <2>0, <2>2, <3>1, <3>3
      <4>2. graph.out[here][m] \in Left(n + 1)'
        BY <2>3, <4>1 DEF Left
      <4> QED BY <2>3, <4>2 DEF Pending
    <3> QED BY <3>2, <3>3
  <2>6. Served(here)'
    BY <2>0, <2>1, <2>5 DEF Served, Leads, WaysOut
  <2> QED BY <2>0, <2>1, <2>4, <2>6, ServedStays DEF ServedInv
<1>4. CASE NextBranch
  <2> PICK n : n = Len(frames)
    OBVIOUS
  <2> DEFINE new == [Top EXCEPT !.todo = Tail(Top.todo), !.joins = Top.joins \union {at},
                   !.written = Top.written \union Changed, !.merged = Merged, !.began = steps]
  <2>0. /\ frames # <<>> /\ status = "running" /\ Top.todo # <<>>
        /\ frames' = [frames EXCEPT ![Len(frames)] = new] /\ at' = Top.todo[1]
        /\ UNCHANGED <<graph, ran, status>>
    BY <1>4 DEF NextBranch, Arrives
  <2>1. n \in 1..n /\ Top \in Frames /\ Top = frames[n]
    BY <2>0, TopIsAFrame DEF Top
  <2>2. new.todo = Tail(Top.todo) /\ new.joins = Top.joins \union {at}
    BY <2>1 DEF Frames
  <2> HIDE DEF new
  <2>3. /\ DOMAIN frames = 1..n /\ DOMAIN frames' = 1..n
        /\ frames'[n] = new /\ \A i \in 1..n : i # n => frames'[i] = frames[i]
    BY <2>0, <2>1 DEF WfTypeOK
  <2>4. Left(n) \union {at} \subseteq Left(n)' \union {at'}
    <3>1. Top.todo \in Seq(Spots)
      BY <2>1 DEF Frames
    <3>2. ASSUME NEW m \in DOMAIN Top.todo PROVE Top.todo[m] \in Left(n)' \union {at'}
      <4>1. CASE m = 1
        BY <2>0, <4>1
      <4>2. CASE m # 1
        <5>1. m - 1 \in DOMAIN new.todo /\ new.todo[m - 1] = Top.todo[m]
          BY <2>0, <2>2, <3>1, <4>2
        <5> QED BY <2>3, <5>1 DEF Left
      <4> QED BY <4>1, <4>2
    <3> QED BY <2>1, <2>2, <2>3, <3>2 DEF Left
  <2>5. \A i \in 1..n : i # n => Left(i)' = Left(i)
    BY <2>3 DEF Left
  <2>6. Pending \subseteq Pending'
    BY <2>0, <2>1, <2>3, <2>4, <2>5 DEF Pending
  <2> QED BY <2>0, <2>6, ServedStays DEF ServedInv
<1>5. CASE Meet
  <2> PICK n : n = Len(frames)
    OBVIOUS
  <2> PICK here : here = at
    OBVIOUS
  <2>0. /\ frames # <<>> /\ status = "running" /\ Top.todo = <<>> /\ at # END
        /\ Top.joins \union {at} = {at} /\ AtEnd
        /\ frames' = SubSeq(frames, 1, n - 1) /\ at' = After(at) /\ ran' = ran \union {at}
        /\ UNCHANGED <<graph, status>>
    BY <1>5 DEF Meet, Arrives
  <2>1. n \in 1..n /\ Top = frames[n]
    BY <2>0, TopIsAFrame DEF Top
  <2>2. Left(n) \subseteq {at}
    BY <2>0, <2>1 DEF Left
  <2>3. DOMAIN frames = 1..n /\ DOMAIN frames' = 1..(n - 1)
    BY <2>0, <2>1, ShorterByOne DEF WfTypeOK
  <2>4. \A i \in 1..(n - 1) : Left(i)' = Left(i)
    BY <2>0, <2>1, ShorterByOne DEF Left
  <2>5. Pending \subseteq Pending'
    <3>1. \A i \in 1..n : i = n \/ i \in 1..(n - 1)
      BY <2>1
    <3> QED BY <2>0, <2>2, <2>3, <2>4, <3>1 DEF Pending
  <2>6. here \in DOMAIN graph.kind /\ graph.kind[here] = "join"
    BY <2>0 DEF AtEnd, OfKind
  <2>7. Served(here)'
    <3>1. After(here) \in Pending'
      BY <2>0 DEF Pending
    <3> QED BY <2>0, <2>6, <3>1, OneWayServes DEF ServedInv
  <2> QED BY <2>0, <2>5, <2>7, ServedStays DEF ServedInv
<1>6. CASE Finish
  <2>1. /\ status = "running" /\ UNCHANGED <<graph, at, frames, ran>>
        /\ at = END /\ frames = <<>>
    BY <1>6 DEF Finish
  <2>2. Pending' = Pending
    BY <2>1 DEF Pending, Left
  <2> QED BY <2>1, <2>2, ServedStays DEF ServedInv
<1>7. CASE Raise \/ Pause \/ Clash \/ Unmet \/ Limit
  <2>1. status' \notin {"running", "ok"}
    BY <1>7 DEF Raise, Pause, Clash, Unmet, Limit
  <2> QED BY <2>1 DEF ServedInv
<1>8. CASE UNCHANGED wfVars
  BY <1>8 DEF wfVars, ServedInv, Served, Pending, Left, After
<1> QED BY <1>1, <1>2, <1>3, <1>4, <1>5, <1>6, <1>7, <1>8 DEF WfNext

\* In a run that is ok, everything that what ran leads to has run: all of a
\* fork's ways out, whatever joins they share, and one of a branch's
\* (AmbiguousEdges; workflow_graphs accepts nothing this fails for).
THEOREM NothingIsSkipped == WfSpec => []NothingSkipped
<1>1. WfInit => WfTypeOK /\ ServedInv
  BY TypeInit, ServedInit
<1>2. WfTypeOK /\ ServedInv /\ [WfNext]_wfVars => (WfTypeOK /\ ServedInv)'
  BY TypeStep, ServedStep
<1>3. WfTypeOK /\ ServedInv => NothingSkipped
  <2> SUFFICES ASSUME WfTypeOK, ServedInv, status = "ok"
               PROVE  /\ graph.entry \in ran
                      /\ \A n \in ran :
                           IF graph.kind[n] = "branch"
                             THEN (graph.cases[n] \union {After(n)}) \intersect (ran \union {END}) # {}
                             ELSE Leads(graph, n) \subseteq ran \union {END}
    BY DEF NothingSkipped
  <2>1. Pending = ran \union {END}
    <3>1. frames = <<>> /\ at = END /\ DOMAIN frames = {}
      BY DEF ServedInv
    <3> QED BY <3>1 DEF Pending
  <2>2. graph.entry \in ran
    BY <2>1, WorkflowAssumption DEF ServedInv, WfTypeOK, GraphOK
  <2> QED BY <2>1, <2>2 DEF ServedInv, Served
<1> QED BY <1>1, <1>2, <1>3, PTL DEF WfSpec
-----------------------------------------------------------------------------
(***************************************************************************)
(* Every step counts                                                       *)
(***************************************************************************)
\* A step ends the run, or is counted within the bound, or goes from one
\* branch of the innermost fork to the next, of which one is fewer left.
Counts ==
  /\ status = "running"
  /\ \/ status' # "running"
     \/ steps < steps' /\ steps' <= MaxSteps
     \/ /\ steps' = steps /\ Len(frames') = Len(frames) /\ frames # <<>>
        /\ Len(frames'[Len(frames)].todo) < Len(frames[Len(frames)].todo)

LEMMA StepCounts == ASSUME WfTypeOK, WfTypeOK', WfNext PROVE Counts
<1>0. steps \in Nat /\ MaxSteps \in Nat /\ steps' <= MaxSteps
  BY WorkflowAssumption DEF WfTypeOK
<1>1. CASE RunStep \/ PassJoin \/ Fork \/ \E t \in Targets : Choose(t)
  <2>1. status = "running" /\ steps' = steps + 1
    BY <1>1 DEF RunStep, PassJoin, Fork, Choose, Enters
  <2> QED BY <1>0, <2>1 DEF Counts
<1>2. CASE Raise \/ Pause \/ Clash \/ Unmet \/ Limit \/ Finish
  <2>1. status = "running" /\ status' # "running"
    BY <1>2 DEF Raise, Pause, Enters, Clash, Unmet, Arrives, Limit, Finish
  <2> QED BY <2>1 DEF Counts
<1>3. CASE Meet
  <2>1. status = "running" /\ steps' = steps + 1
    BY <1>3 DEF Meet, Arrives
  <2> QED BY <1>0, <2>1 DEF Counts
<1>4. CASE NextBranch
  <2>1. /\ status = "running" /\ frames # <<>> /\ steps' = steps /\ Top.todo # <<>>
    BY <1>4 DEF NextBranch, Arrives
  <2>2. /\ frames \in Seq(Frames) /\ Len(frames) \in DOMAIN frames
        /\ Top \in Frames /\ Top.todo \in Seq(Spots)
    BY <2>1, TopIsAFrame DEF WfTypeOK, Frames
  <2>3. PICK top : frames' = [frames EXCEPT ![Len(frames)] = top] /\ top.todo = Tail(Top.todo)
    <3>1. frames' = [frames EXCEPT ![Len(frames)] =
              [Top EXCEPT !.todo = Tail(Top.todo), !.joins = Top.joins \union {at},
                          !.written = Top.written \union Changed, !.merged = Merged,
                          !.began = steps]]
      BY <1>4 DEF NextBranch
    <3>2. [Top EXCEPT !.todo = Tail(Top.todo), !.joins = Top.joins \union {at},
                      !.written = Top.written \union Changed, !.merged = Merged,
                      !.began = steps].todo = Tail(Top.todo)
      BY <2>2 DEF Frames
    <3> QED BY <3>1, <3>2
  <2>4. Len(frames') = Len(frames) /\ frames'[Len(frames)].todo = Tail(Top.todo)
    BY <2>2, <2>3
  <2>5. Len(Tail(Top.todo)) < Len(Top.todo)
    BY <2>1, <2>2
  <2> QED BY <2>1, <2>4, <2>5 DEF Counts, Top
<1> QED BY <1>1, <1>2, <1>3, <1>4 DEF WfNext

\* What makes every run end, for every graph, cycles included: a step ends the
\* run, uses up one of max_steps, or leaves fewer branches of the innermost fork
\* to walk, and once it is over there are no steps (run and _fork of the engine).
THEOREM EveryStepCounts == WfSpec => [][Counts]_wfVars
<1>1. WfTypeOK /\ WfTypeOK' /\ [WfNext]_wfVars => [Counts]_wfVars
  BY StepCounts
<1> QED BY <1>1, WorkflowTypeCorrect, PTL DEF WfSpec
=============================================================================
