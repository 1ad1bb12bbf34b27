--------------------------- MODULE AgentBusProofs ---------------------------
(***************************************************************************)
(* What AgentBus promises for every set of tasks, every max_deliver and    *)
(* any number of restarts.                                                 *)
(***************************************************************************)
EXTENDS AgentBus, TLAPS

USE DEF vars, senderVars, brokerVars, receiverVars, historyVars

\* A hop that is still valid and was accepted is remembered, and was
\* accepted once: what the replay check of _on_inbox rests on.
RunsInv ==
  \A t \in Tasks \ expired :
    /\ accepted[t] <= 1
    /\ accepted[t] > 0 => t \in seen

\* Something about the task is outside the sender's delegate call.
Abroad(t) ==
  \/ inbox[t] > 0
  \/ rx = t
  \/ work[t] > 0
  \/ \E s \in ReplyStates : replies[t][s] > 0
  \/ t \in dropped

\* The sender holds a handle from before it publishes until it gives it up,
\* and nothing is abroad before the publish; so a reply that finds no handle
\* comes after the sender gave it up.
HandleInv ==
  \A t \in Tasks :
    /\ handle[t] = "none" => dpc[t] \in {"idle", "error", "lost"}
    /\ Abroad(t) => dpc[t] \notin {"idle", "sending"}
    /\ t \in dropped => dpc[t] \in {"error", "lost"}

LEMMA Vocabulary ==
  /\ RunStates \subseteq ReplyStates
  /\ "completed" \in ReplyStates /\ "failed" \in ReplyStates
  /\ "refused" \in ReplyStates
BY DEF RunStates, ReplyStates
-----------------------------------------------------------------------------
(***************************************************************************)
(* Types                                                                   *)
(***************************************************************************)
LEMMA TypeInit == Init => TypeOK
BY BusAssumption DEF Init, TypeOK, SenderPcs, ReceiverPcs, ReplyStates, RunStates

LEMMA TypeReply ==
  ASSUME TypeOK, NEW t \in Tasks, NEW s \in ReplyStates, Reply(t, s)
  PROVE  replies' \in [Tasks -> [ReplyStates -> 0..MaxDeliver]]
<1>1. PICK left \in {replies[t][s], MaxDeliver} :
         replies' = [replies EXCEPT ![t][s] = left]
  BY DEF Reply
<1>2. replies[t] \in [ReplyStates -> 0..MaxDeliver]
  BY DEF TypeOK
<1>3. left \in 0..MaxDeliver
  BY <1>2, BusAssumption
<1>4. [replies[t] EXCEPT ![s] = left] \in [ReplyStates -> 0..MaxDeliver]
  BY <1>2, <1>3
<1> QED BY <1>1, <1>4 DEF TypeOK

LEMMA TypeNext == TypeOK /\ [Next]_vars => TypeOK'
<1> SUFFICES ASSUME TypeOK, [Next]_vars PROVE TypeOK'
  OBVIOUS
<1>1. ASSUME NEW t \in Tasks, Delegate(t) PROVE TypeOK'
  BY <1>1 DEF TypeOK, Delegate, SenderPcs
<1>2. ASSUME NEW t \in Tasks, PublishStored(t) PROVE TypeOK'
  BY <1>2, BusAssumption DEF TypeOK, PublishStored, SenderPcs
<1>3. ASSUME NEW t \in Tasks, Confirmed(t) PROVE TypeOK'
  BY <1>3 DEF TypeOK, Confirmed, SenderPcs
<1>4. ASSUME NEW t \in Tasks, PublishFailed(t) PROVE TypeOK'
  BY <1>4 DEF TypeOK, PublishFailed, SenderPcs
<1>5. ASSUME NEW t \in Tasks, Deadline(t) PROVE TypeOK'
  BY <1>5 DEF TypeOK, Deadline
<1>6. ASSUME NEW t \in Tasks, Check(t) PROVE TypeOK'
  BY <1>6, Vocabulary DEF TypeOK, Check
<1>7. ASSUME NEW t \in Tasks, Expire(t) PROVE TypeOK'
  BY <1>7 DEF TypeOK, Expire
<1>8. ASSUME NEW t \in Tasks, NEW s \in ReplyStates, OnReply(t, s) PROVE TypeOK'
  <2>1. PICK left \in {0, replies[t][s] - 1} :
           replies' = [replies EXCEPT ![t][s] = left]
    BY <1>8 DEF OnReply
  <2>2. replies[t] \in [ReplyStates -> 0..MaxDeliver] /\ replies[t][s] > 0
    BY <1>8 DEF TypeOK, OnReply
  <2>3. left \in 0..MaxDeliver
    BY <2>2, BusAssumption
  <2>4. replies' \in [Tasks -> [ReplyStates -> 0..MaxDeliver]]
    BY <2>1, <2>2, <2>3 DEF TypeOK
  <2>5. /\ handle' \in [Tasks -> {"none", "pending"} \union ReplyStates]
        /\ dropped' \subseteq Tasks
    BY <1>8 DEF TypeOK, OnReply
  <2> QED BY <1>8, <2>4, <2>5 DEF TypeOK, OnReply
<1>9. ASSUME NEW t \in Tasks, NEW s \in RunStates, RunEnds(t, s) PROVE TypeOK'
  <2>1. replies' \in [Tasks -> [ReplyStates -> 0..MaxDeliver]]
    BY <1>9, TypeReply, Vocabulary DEF RunEnds
  <2>2. work' \in [Tasks -> Nat]
    BY <1>9 DEF TypeOK, RunEnds
  <2> QED BY <1>9, <2>1, <2>2 DEF TypeOK, RunEnds
<1>10. ASSUME NEW t \in Tasks, Fetch(t) PROVE TypeOK'
  BY <1>10, BusAssumption DEF TypeOK, Fetch, ReceiverPcs
<1>11. CASE Ack
  <2>1. rx \in Tasks
    BY <1>11 DEF TypeOK, Ack
  <2> QED BY <1>11, <2>1, BusAssumption DEF TypeOK, Ack, ReceiverPcs
<1>12. CASE Verify
  BY <1>12 DEF TypeOK, Verify, ReceiverPcs
<1>13. CASE Accept
  BY <1>13 DEF TypeOK, Accept, ReceiverPcs, Remembered
<1>14. CASE Reject
  BY <1>14 DEF TypeOK, Reject, ReceiverPcs, Remembered
<1>15. CASE Refuse
  <2>1. rx \in Tasks
    BY <1>15 DEF TypeOK, Refuse
  <2>2. replies' \in [Tasks -> [ReplyStates -> 0..MaxDeliver]]
    BY <1>15, <2>1, TypeReply, Vocabulary DEF Refuse
  <2> QED BY <1>15, <2>1, <2>2 DEF TypeOK, Refuse, ReceiverPcs
<1>16. CASE SenderRestart
  BY <1>16, BusAssumption DEF TypeOK, SenderRestart, SenderPcs
<1>17. CASE ReceiverRestart
  BY <1>17, BusAssumption DEF TypeOK, ReceiverRestart, ReceiverPcs
<1>18. CASE UNCHANGED vars
  BY <1>18 DEF TypeOK
<1> QED BY <1>1, <1>2, <1>3, <1>4, <1>5, <1>6, <1>7, <1>8, <1>9, <1>10, <1>11,
           <1>12, <1>13, <1>14, <1>15, <1>16, <1>17, <1>18 DEF Next, Consumer

\* The state of the sender, the broker and the receiver keeps its type.
THEOREM BusTypeCorrect == Spec => []TypeOK
BY TypeInit, TypeNext, PTL DEF Spec
-----------------------------------------------------------------------------
(***************************************************************************)
(* A valid hop runs once                                                   *)
(***************************************************************************)
LEMMA RunsNext == TypeOK /\ RunsInv /\ [Next]_vars => RunsInv'
<1> SUFFICES ASSUME TypeOK, RunsInv, [Next]_vars, NEW u \in Tasks \ expired'
             PROVE  accepted'[u] <= 1 /\ (accepted'[u] > 0 => u \in seen')
  BY DEF RunsInv
<1> DEFINE Goal == accepted'[u] <= 1 /\ (accepted'[u] > 0 => u \in seen')
<1>1. ASSUME UNCHANGED <<accepted, seen, expired>> PROVE Goal
  BY <1>1 DEF RunsInv
<1>2. ASSUME NEW t \in Tasks, Expire(t) PROVE Goal
  BY <1>2 DEF RunsInv, Expire
<1>3. CASE Accept
  <2>1. u \notin expired /\ accepted[u] \in Nat /\ rx \in Tasks
    BY <1>3 DEF TypeOK, Accept
  <2>2. CASE u = rx
    <3>1. accepted[u] = 0
      BY <1>3, <2>1, <2>2 DEF RunsInv, Accept, Remembered
    <3> QED BY <1>3, <2>1, <2>2, <3>1 DEF TypeOK, Accept
  <2>3. CASE u # rx
    BY <1>3, <2>1, <2>3 DEF TypeOK, RunsInv, Accept, Remembered
  <2> QED BY <2>2, <2>3
<1>4. CASE Reject
  BY <1>4 DEF TypeOK, RunsInv, Reject, Remembered
<1>5. CASE ReceiverRestart
  BY <1>5 DEF ReceiverRestart
<1>6. CASE Verify \/ Ack \/ Refuse
  BY <1>1, <1>6 DEF Verify, Ack, Refuse
<1>7. CASE SenderRestart
  BY <1>1, <1>7 DEF SenderRestart
<1>8. ASSUME NEW t \in Tasks,
             \/ Delegate(t) \/ PublishStored(t) \/ Confirmed(t)
             \/ PublishFailed(t) \/ Deadline(t) \/ Check(t) \/ Fetch(t)
      PROVE  Goal
  BY <1>1, <1>8 DEF Delegate, PublishStored, Confirmed, PublishFailed, Deadline,
                    Check, Fetch
<1>9. ASSUME NEW t \in Tasks, NEW s \in ReplyStates, OnReply(t, s) PROVE Goal
  BY <1>1, <1>9 DEF OnReply
<1>10. ASSUME NEW t \in Tasks, NEW s \in RunStates, RunEnds(t, s) PROVE Goal
  BY <1>1, <1>10 DEF RunEnds
<1>11. CASE UNCHANGED vars
  BY <1>1, <1>11
<1> QED BY <1>2, <1>3, <1>4, <1>5, <1>6, <1>7, <1>8, <1>9, <1>10, <1>11
        DEF Next, Consumer

\* A receiver that has not restarted runs a task once while its hop is valid,
\* for any number of redeliveries (_on_inbox, the replay check).
THEOREM RedeliveryRunsOnce == Spec => []RunsOnceWhileFresh
<1>1. Init => RunsInv
  BY DEF Init, RunsInv
<1>2. TypeOK /\ RunsInv => RunsOnceWhileFresh
  BY DEF RunsInv, RunsOnceWhileFresh
<1> QED BY <1>1, <1>2, RunsNext, BusTypeCorrect, PTL DEF Spec
-----------------------------------------------------------------------------
(***************************************************************************)
(* A reply finds its handle                                                *)
(***************************************************************************)
LEMMA HandleNext == TypeOK /\ HandleInv /\ [Next]_vars => HandleInv'
<1> SUFFICES ASSUME TypeOK, HandleInv, [Next]_vars, NEW u \in Tasks
             PROVE  /\ handle'[u] = "none" => dpc'[u] \in {"idle", "error", "lost"}
                    /\ Abroad(u)' => dpc'[u] \notin {"idle", "sending"}
                    /\ u \in dropped' => dpc'[u] \in {"error", "lost"}
  BY DEF HandleInv
<1> DEFINE Goal == /\ handle'[u] = "none" => dpc'[u] \in {"idle", "error", "lost"}
                   /\ Abroad(u)' => dpc'[u] \notin {"idle", "sending"}
                   /\ u \in dropped' => dpc'[u] \in {"error", "lost"}
<1>h. /\ handle[u] = "none" => dpc[u] \in {"idle", "error", "lost"}
      /\ Abroad(u) => dpc[u] \notin {"idle", "sending"}
      /\ u \in dropped => dpc[u] \in {"error", "lost"}
  BY DEF HandleInv
\* A step that leaves the sender alone brings nothing new abroad.
<1>0. ASSUME UNCHANGED <<dpc, handle, dropped>>, Abroad(u)' => Abroad(u) PROVE Goal
  BY <1>0, <1>h
<1>1. ASSUME NEW t \in Tasks, Delegate(t) PROVE Goal
  <2>1. Abroad(u)' = Abroad(u)
    BY <1>1 DEF Delegate, Abroad
  <2> QED BY <1>1, <1>h, <2>1 DEF TypeOK, Delegate, Abroad
<1>2. ASSUME NEW t \in Tasks, PublishStored(t) PROVE Goal
  <2>1. u # t => Abroad(u)' = Abroad(u)
    BY <1>2 DEF TypeOK, PublishStored, Abroad
  <2> QED BY <1>2, <1>h, <2>1 DEF TypeOK, PublishStored, Abroad
<1>3. ASSUME NEW t \in Tasks, Confirmed(t) \/ PublishFailed(t) PROVE Goal
  <2>1. Abroad(u)' = Abroad(u)
    BY <1>3 DEF Confirmed, PublishFailed, Abroad
  <2> QED BY <1>3, <1>h, <2>1 DEF TypeOK, Confirmed, PublishFailed
<1>4. ASSUME NEW t \in Tasks, Deadline(t) \/ Expire(t) PROVE Goal
  BY <1>0, <1>4 DEF Deadline, Expire, Abroad
<1>5. ASSUME NEW t \in Tasks, Check(t) PROVE Goal
  <2>1. Abroad(u)' = Abroad(u)
    BY <1>5 DEF Check, Abroad
  <2> QED BY <1>5, <1>h, <2>1 DEF TypeOK, Check
<1>6. ASSUME NEW t \in Tasks, NEW s \in ReplyStates, OnReply(t, s) PROVE Goal
  <2>1. Abroad(t)
    BY <1>6 DEF OnReply, Abroad
  <2>2. dpc[t] \notin {"idle", "sending"}
    BY <2>1 DEF HandleInv
  <2>3. u # t => replies'[u] = replies[u]
    BY <1>6 DEF TypeOK, OnReply
  <2>4. u # t => Abroad(u)' = Abroad(u)
    BY <1>6, <2>3 DEF OnReply, Abroad
  <2>5. u # t => handle'[u] = handle[u] /\ (u \in dropped' <=> u \in dropped)
    BY <1>6 DEF TypeOK, OnReply
  <2>6. handle'[t] = "none" => handle[t] = "none"
    BY <1>6 DEF TypeOK, OnReply, ReplyStates, RunStates
  <2>7. t \in dropped' => t \in dropped \/ handle[t] = "none"
    BY <1>6 DEF OnReply
  <2>8. dpc' = dpc
    BY <1>6 DEF OnReply
  <2>9. CASE u = t
    BY <1>h, <2>2, <2>6, <2>7, <2>8, <2>9
  <2>10. CASE u # t
    BY <1>h, <2>4, <2>5, <2>8, <2>10
  <2> QED BY <2>9, <2>10
<1>7. ASSUME NEW t \in Tasks, NEW s \in RunStates, RunEnds(t, s) PROVE Goal
  <2>1. work[t] > 0 /\ UNCHANGED <<dpc, handle, dropped, inbox, rx>>
    BY <1>7 DEF RunEnds
  <2>2. u # t => replies'[u] = replies[u] /\ work'[u] = work[u]
    BY <1>7 DEF TypeOK, RunEnds, Reply
  <2>3. Abroad(u)' => Abroad(u)
    BY <2>1, <2>2 DEF Abroad
  <2> QED BY <1>0, <2>1, <2>3
<1>8. ASSUME NEW t \in Tasks, Fetch(t) PROVE Goal
  <2>1. inbox[t] > 0 /\ rx' = t /\ UNCHANGED <<dpc, handle, dropped, replies, work>>
    BY <1>8 DEF Fetch
  <2>2. u # t => inbox'[u] = inbox[u]
    BY <1>8 DEF TypeOK, Fetch
  <2>3. Abroad(u)' => Abroad(u)
    BY <2>1, <2>2 DEF Abroad
  <2> QED BY <1>0, <2>1, <2>3
<1>9. CASE Ack
  <2>1. rx \in Tasks
    BY <1>9 DEF TypeOK, Ack
  <2>2. inbox'[u] > 0 => inbox[u] > 0
    BY <1>9, <2>1 DEF TypeOK, Ack
  <2> QED BY <1>0, <1>9, <2>2 DEF Ack, Abroad
<1>10. CASE Verify \/ Reject
  BY <1>0, <1>10 DEF Verify, Reject, Abroad
<1>11. CASE Accept
  <2>1. u # rx => work'[u] = work[u]
    BY <1>11 DEF TypeOK, Accept
  <2>2. rx' = None /\ u # None
    BY <1>11, BusAssumption DEF Accept
  <2> QED BY <1>0, <1>11, <2>1, <2>2 DEF Accept, Abroad
<1>12. CASE Refuse
  <2>1. u # rx => replies'[u] = replies[u]
    BY <1>12 DEF TypeOK, Refuse, Reply
  <2>2. rx' = None /\ u # None
    BY <1>12, BusAssumption DEF Refuse
  <2> QED BY <1>0, <1>12, <2>1, <2>2 DEF Refuse, Abroad
<1>13. CASE SenderRestart
  <2>1. Abroad(u)' = Abroad(u)
    BY <1>13 DEF SenderRestart, Abroad
  <2> QED BY <1>13, <1>h, <2>1 DEF TypeOK, SenderRestart
<1>14. CASE ReceiverRestart
  <2>1. work'[u] = 0 /\ rx' = None /\ u # None
    BY <1>14, BusAssumption DEF ReceiverRestart
  <2> QED BY <1>0, <1>14, <2>1 DEF ReceiverRestart, Abroad
<1>15. CASE UNCHANGED vars
  BY <1>0, <1>15 DEF Abroad
<1> QED BY <1>1, <1>2, <1>3, <1>4, <1>5, <1>6, <1>7, <1>8, <1>9, <1>10, <1>11,
           <1>12, <1>13, <1>14, <1>15 DEF Next, Consumer

\* A reply is dropped only after the sender gave its handle up, however early
\* it comes (delegate records the handle before it publishes).
THEOREM EarlyReplyIsKept == Spec => []NoReplyDropped
<1>1. Init => HandleInv
  BY BusAssumption DEF Init, HandleInv, Abroad
<1>2. TypeOK /\ HandleInv => NoReplyDropped
  BY DEF TypeOK, HandleInv, NoReplyDropped
<1> QED BY <1>1, <1>2, HandleNext, BusTypeCorrect, PTL DEF Spec
-----------------------------------------------------------------------------
(***************************************************************************)
(* Without a restart nothing stored is lost                                *)
(***************************************************************************)
LEMMA KeptNext == TypeOK /\ NothingLostWhileUp /\ [Next]_vars => NothingLostWhileUp'
<1> SUFFICES ASSUME TypeOK, NothingLostWhileUp, [Next]_vars,
                    restarts' = 0, NEW u \in Tasks, dpc'[u] \in {"stored", "ok"}
             PROVE  inbox'[u] > 0 \/ rx' = u \/ u \in Decided'
  BY DEF NothingLostWhileUp
<1> DEFINE Goal == inbox'[u] > 0 \/ rx' = u \/ u \in Decided'
<1>0. ASSUME UNCHANGED <<inbox, rx, started, declined, restarts>>,
             dpc[u] \in {"stored", "ok"}
      PROVE  Goal
  BY <1>0 DEF NothingLostWhileUp, Decided
<1>1. ASSUME NEW t \in Tasks, Delegate(t) \/ PublishFailed(t) PROVE Goal
  BY <1>0, <1>1 DEF TypeOK, Delegate, PublishFailed
<1>2. ASSUME NEW t \in Tasks, PublishStored(t) PROVE Goal
  BY <1>2, BusAssumption DEF TypeOK, NothingLostWhileUp, PublishStored, Decided
<1>3. ASSUME NEW t \in Tasks, Confirmed(t) PROVE Goal
  BY <1>0, <1>3 DEF TypeOK, Confirmed
<1>4. ASSUME NEW t \in Tasks, Deadline(t) \/ Check(t) \/ Expire(t) PROVE Goal
  BY <1>0, <1>4 DEF Deadline, Check, Expire
<1>5. ASSUME NEW t \in Tasks, NEW s \in ReplyStates, OnReply(t, s) PROVE Goal
  BY <1>0, <1>5 DEF OnReply
<1>6. ASSUME NEW t \in Tasks, NEW s \in RunStates, RunEnds(t, s) PROVE Goal
  BY <1>0, <1>6 DEF RunEnds
<1>7. ASSUME NEW t \in Tasks, Fetch(t) PROVE Goal
  BY <1>7, BusAssumption DEF TypeOK, NothingLostWhileUp, Fetch, Decided
<1>8. CASE Ack
  BY <1>8 DEF TypeOK, NothingLostWhileUp, Ack, Decided
<1>9. CASE Verify \/ Reject
  BY <1>0, <1>9 DEF Verify, Reject
<1>10. CASE Accept \/ Refuse
  BY <1>10 DEF NothingLostWhileUp, Accept, Refuse, Decided
<1>11. CASE SenderRestart \/ ReceiverRestart
  BY <1>11 DEF TypeOK, SenderRestart, ReceiverRestart
<1>12. CASE UNCHANGED vars
  BY <1>0, <1>12
<1> QED BY <1>1, <1>2, <1>3, <1>4, <1>5, <1>6, <1>7, <1>8, <1>9, <1>10, <1>11,
           <1>12 DEF Next, Consumer

\* While no process dies, a stored task is waiting, in hand or decided: the
\* consumer acknowledges before it delivers, but delivers in every case.
THEOREM StoredIsKept == Spec => []NothingLostWhileUp
<1>1. Init => NothingLostWhileUp
  BY DEF Init, NothingLostWhileUp
<1> QED BY <1>1, KeptNext, BusTypeCorrect, PTL DEF Spec
-----------------------------------------------------------------------------
(***************************************************************************)
(* Runs are bounded by deliveries                                          *)
(***************************************************************************)
InHand(t) == IF rx = t THEN 1 ELSE 0

\* Each run of a task used one of its deliveries up, and there is none
\* before it was published, which happens once.
DeliverInv ==
  \A t \in Tasks :
    /\ dpc[t] \in {"idle", "sending"} => accepted[t] + inbox[t] + InHand(t) = 0
    /\ accepted[t] + inbox[t] + InHand(t) <= MaxDeliver

\* Since it started, a receiver began no more runs of a task than there are
\* deliveries of it (_on_inbox; max_deliver of the consumer).
RunsWithinDeliveries == \A t \in Tasks : accepted[t] <= MaxDeliver

LEMMA DeliverNext == TypeOK /\ DeliverInv /\ [Next]_vars => DeliverInv'
<1> SUFFICES ASSUME TypeOK, DeliverInv, [Next]_vars, NEW u \in Tasks
             PROVE  /\ dpc'[u] \in {"idle", "sending"} =>
                         accepted'[u] + inbox'[u] + InHand(u)' = 0
                    /\ accepted'[u] + inbox'[u] + InHand(u)' <= MaxDeliver
  BY DEF DeliverInv
<1> DEFINE Goal == /\ dpc'[u] \in {"idle", "sending"} =>
                         accepted'[u] + inbox'[u] + InHand(u)' = 0
                   /\ accepted'[u] + inbox'[u] + InHand(u)' <= MaxDeliver
<1>a. /\ accepted[u] \in Nat /\ inbox[u] \in Nat /\ InHand(u) \in {0, 1}
      /\ MaxDeliver \in Nat /\ u # None
      /\ inbox \in [Tasks -> 0..MaxDeliver] /\ accepted \in [Tasks -> Nat]
      /\ dpc \in [Tasks -> SenderPcs]
  BY BusAssumption DEF TypeOK, InHand
<1>b. /\ dpc[u] \in {"idle", "sending"} => accepted[u] + inbox[u] + InHand(u) = 0
      /\ accepted[u] + inbox[u] + InHand(u) <= MaxDeliver
  BY DEF DeliverInv
<1>c. ASSUME UNCHANGED <<inbox, rx, accepted>>,
             dpc'[u] \in {"idle", "sending"} => dpc[u] \in {"idle", "sending"}
      PROVE  Goal
  BY <1>b, <1>c DEF InHand
<1>1. ASSUME NEW t \in Tasks, \/ Delegate(t) \/ Confirmed(t) \/ PublishFailed(t)
      PROVE  Goal
  <2>1. /\ UNCHANGED <<inbox, rx, accepted>>
        /\ dpc'[u] \in {"idle", "sending"} => dpc[u] \in {"idle", "sending"}
    BY <1>1, <1>a DEF Delegate, Confirmed, PublishFailed
  <2> QED BY <1>c, <2>1
<1>2. ASSUME NEW t \in Tasks, PublishStored(t) PROVE Goal
  <2>1. /\ dpc[t] = "sending" /\ dpc' = [dpc EXCEPT ![t] = "stored"]
        /\ inbox' = [inbox EXCEPT ![t] = MaxDeliver] /\ UNCHANGED <<rx, accepted>>
    BY <1>2 DEF PublishStored
  <2>2. CASE u = t
    <3>1. accepted[u] = 0 /\ InHand(u) = 0
      BY <1>a, <1>b, <2>1, <2>2
    <3>2. accepted'[u] = 0 /\ InHand(u)' = 0 /\ inbox'[u] = MaxDeliver /\ dpc'[u] = "stored"
      BY <1>a, <2>1, <2>2, <3>1 DEF InHand
    <3> QED BY <1>a, <3>2
  <2>3. CASE u # t
    <3>1. /\ dpc'[u] = dpc[u] /\ inbox'[u] = inbox[u] /\ accepted'[u] = accepted[u]
          /\ InHand(u)' = InHand(u)
      BY <1>a, <2>1, <2>3 DEF InHand
    <3> QED BY <1>b, <3>1
  <2> QED BY <2>2, <2>3
<1>3. ASSUME NEW t \in Tasks, Deadline(t) \/ Check(t) \/ Expire(t) PROVE Goal
  BY <1>3, <1>c DEF Deadline, Check, Expire
<1>4. ASSUME NEW t \in Tasks, NEW s \in ReplyStates, OnReply(t, s) PROVE Goal
  BY <1>4, <1>c DEF OnReply
<1>5. ASSUME NEW t \in Tasks, NEW s \in RunStates, RunEnds(t, s) PROVE Goal
  BY <1>5, <1>c DEF RunEnds
<1>6. ASSUME NEW t \in Tasks, Fetch(t) PROVE Goal
  <2>1. /\ rpc = "idle" /\ inbox[t] > 0 /\ inbox' = [inbox EXCEPT ![t] = inbox[t] - 1]
        /\ rx' = t /\ UNCHANGED <<dpc, accepted>>
    BY <1>6 DEF Fetch
  <2>2. InHand(u) = 0
    BY <1>a, <2>1 DEF InHand, TypeOK
  <2>3. inbox'[u] + InHand(u)' = inbox[u] /\ inbox'[u] \in Nat /\ InHand(u)' \in {0, 1}
    <3>1. CASE u = t
      BY <1>a, <2>1, <3>1 DEF InHand
    <3>2. CASE u # t
      BY <1>a, <2>1, <3>2 DEF InHand
    <3> QED BY <3>1, <3>2
  <2> QED BY <1>a, <1>b, <2>1, <2>2, <2>3
<1>7. CASE Ack
  <2>1. /\ UNCHANGED <<dpc, rx, accepted>>
        /\ \E left \in {0, inbox[rx]} : inbox' = [inbox EXCEPT ![rx] = left]
    BY <1>7 DEF Ack
  <2>2. inbox'[u] \in Nat /\ inbox'[u] <= inbox[u]
    BY <1>a, <2>1
  <2>3. InHand(u)' = InHand(u)
    BY <2>1 DEF InHand
  <2> QED BY <1>a, <1>b, <2>1, <2>2, <2>3
<1>8. CASE Verify \/ Reject
  BY <1>8, <1>c DEF Verify, Reject
<1>9. CASE Accept
  <2>1. /\ rx \in Tasks /\ rx' = None /\ accepted' = [accepted EXCEPT ![rx] = accepted[rx] + 1]
        /\ UNCHANGED <<dpc, inbox>>
    BY <1>9 DEF Accept, TypeOK
  <2>2. /\ accepted'[u] + InHand(u)' = accepted[u] + InHand(u)
        /\ accepted'[u] \in Nat /\ InHand(u)' = 0
    <3>1. CASE u = rx
      BY <1>a, <2>1, <3>1 DEF InHand
    <3>2. CASE u # rx
      BY <1>a, <2>1, <3>2 DEF InHand
    <3> QED BY <3>1, <3>2
  <2> QED BY <1>a, <1>b, <2>1, <2>2
<1>10. CASE Refuse
  <2>1. rx' = None /\ UNCHANGED <<dpc, inbox, accepted>>
    BY <1>10 DEF Refuse
  <2>2. InHand(u)' = 0
    BY <1>a, <2>1 DEF InHand
  <2> QED BY <1>a, <1>b, <2>1, <2>2
<1>11. CASE SenderRestart
  <2>1. dpc'[u] \in {"idle", "sending"} => dpc[u] \in {"idle", "sending"}
    BY <1>11 DEF SenderRestart
  <2> QED BY <1>11, <1>c, <2>1 DEF SenderRestart
<1>12. CASE ReceiverRestart
  <2>1. accepted'[u] = 0 /\ rx' = None /\ UNCHANGED <<dpc, inbox>>
    BY <1>12 DEF ReceiverRestart
  <2>2. InHand(u)' = 0
    BY <1>a, <2>1 DEF InHand
  <2> QED BY <1>a, <1>b, <2>1, <2>2
<1>13. CASE UNCHANGED vars
  BY <1>13, <1>c
<1> QED BY <1>1, <1>2, <1>3, <1>4, <1>5, <1>6, <1>7, <1>8, <1>9, <1>10, <1>11,
           <1>12, <1>13 DEF Next, Consumer

\* However clocks run and acknowledgements fail, a receiver that has not
\* restarted runs a task at most max_deliver times: where the replay check no longer helps, because the hop
\* expired between its reading of the clock and _on_inbox's, deliveries do.
THEOREM DeliveriesBoundRuns == Spec => []RunsWithinDeliveries
<1>1. Init => DeliverInv
  BY BusAssumption DEF Init, DeliverInv, InHand
<1>2. TypeOK /\ DeliverInv => RunsWithinDeliveries
  <2> SUFFICES ASSUME TypeOK, DeliverInv, NEW t \in Tasks PROVE accepted[t] <= MaxDeliver
    BY DEF RunsWithinDeliveries
  <2>1. accepted[t] \in Nat /\ inbox[t] \in Nat /\ InHand(t) \in {0, 1} /\ MaxDeliver \in Nat
    BY BusAssumption DEF TypeOK, InHand
  <2>2. accepted[t] + inbox[t] + InHand(t) <= MaxDeliver
    BY DEF DeliverInv
  <2> QED BY <2>1, <2>2
<1> QED BY <1>1, <1>2, DeliverNext, BusTypeCorrect, PTL DEF Spec
-----------------------------------------------------------------------------
(***************************************************************************)
(* Answers come from decisions                                             *)
(***************************************************************************)
\* Something says that the task ran: a run, its reply, the handle it settled.
RanSays(t) ==
  \/ handle[t] = "completed"
  \/ work[t] > 0
  \/ \E s \in RunStates : replies[t][s] > 0

\* Something says that the task was refused.
RefusalSays(t) == handle[t] = "refused" \/ replies[t]["refused"] > 0

\* Whatever says that a task ran comes of a delivery that was accepted, whatever
\* says that it was refused of one that was refused, and no delivery of a task
\* whose decision is forbidden was accepted.
AnswerInv == \A t \in Tasks : /\ RanSays(t) => t \in started
                              /\ RefusalSays(t) => t \in declined
                              /\ t \in started => t \notin Forbidden

\* A handle reads completed only if some delivery of its task passed every check
\* of _on_inbox, so never for a task the receiver only ever refused, and never
\* for a decision the chain may not commission; it reads refused only if some
\* delivery was refused (_on_reply).
AnswersAreDecisions ==
  \A t \in Tasks :
    /\ handle[t] = "completed" => t \in started \ Forbidden
    /\ handle[t] = "refused" => t \in declined

LEMMA AnswerNext == TypeOK /\ AnswerInv /\ [Next]_vars => AnswerInv'
<1> SUFFICES ASSUME TypeOK, AnswerInv, [Next]_vars, NEW u \in Tasks
             PROVE  /\ RanSays(u)' => u \in started'
                    /\ RefusalSays(u)' => u \in declined'
                    /\ u \in started' => u \notin Forbidden
  BY DEF AnswerInv
<1> DEFINE Goal == /\ RanSays(u)' => u \in started'
                   /\ RefusalSays(u)' => u \in declined'
                   /\ u \in started' => u \notin Forbidden
<1>a. /\ RanSays(u) => u \in started
      /\ RefusalSays(u) => u \in declined
      /\ u \in started => u \notin Forbidden
  BY DEF AnswerInv
<1>b. ASSUME started' \subseteq started \union (Tasks \ {u}), started \subseteq started',
             declined \subseteq declined', work'[u] = work[u],
             replies'[u] = replies[u], handle'[u] \in {handle[u], "none", "pending", "failed"}
      PROVE  Goal
  BY <1>a, <1>b DEF RanSays, RefusalSays
<1>1. ASSUME NEW t \in Tasks, Delegate(t) \/ PublishFailed(t) \/ Check(t) PROVE Goal
  <2>1. UNCHANGED <<started, declined, work, replies>>
    BY <1>1 DEF Delegate, PublishFailed, Check
  <2>2. handle'[u] \in {handle[u], "none", "pending", "failed"}
    BY <1>1 DEF TypeOK, Delegate, PublishFailed, Check
  <2> QED BY <1>b, <2>1, <2>2
<1>2. ASSUME NEW t \in Tasks,
             PublishStored(t) \/ Confirmed(t) \/ Deadline(t) \/ Expire(t) \/ Fetch(t)
      PROVE  Goal
  BY <1>2, <1>b DEF PublishStored, Confirmed, Deadline, Expire, Fetch
<1>3. ASSUME NEW t \in Tasks, NEW s \in ReplyStates, OnReply(t, s) PROVE Goal
  <2>1. /\ replies[t][s] > 0 /\ UNCHANGED <<started, declined, work>>
        /\ \E left \in {0, replies[t][s] - 1} : replies' = [replies EXCEPT ![t][s] = left]
        /\ handle' = handle \/ handle' = [handle EXCEPT ![t] = s]
    BY <1>3 DEF OnReply
  <2>2. CASE u = t
    <3>1. \A x \in ReplyStates : replies'[t][x] > 0 => replies[t][x] > 0
      BY <2>1, BusAssumption DEF TypeOK, RunStates, ReplyStates
    <3>2. s \in RunStates => t \in started
      BY <1>a, <2>1, <2>2 DEF RanSays
    <3>3. s \notin RunStates => s = "refused" /\ t \in declined
      BY <1>a, <2>1, <2>2 DEF RefusalSays, ReplyStates
    <3>4. handle'[t] \in {handle[t], s}
      BY <2>1 DEF TypeOK
    <3>5. RanSays(t)' => t \in started
      BY <1>a, <2>1, <2>2, <3>1, <3>2, <3>3, <3>4 DEF RanSays, ReplyStates
    <3>6. RefusalSays(t)' => t \in declined
      BY <1>a, <2>1, <2>2, <3>1, <3>3, <3>4 DEF RefusalSays, RunStates, ReplyStates
    <3> QED BY <1>a, <2>1, <2>2, <3>5, <3>6
  <2>3. CASE u # t
    <3>1. replies'[u] = replies[u] /\ handle'[u] = handle[u]
      BY <2>1, <2>3 DEF TypeOK
    <3> QED BY <1>b, <2>1, <3>1
  <2> QED BY <2>2, <2>3
<1>4. ASSUME NEW t \in Tasks, NEW s \in RunStates, RunEnds(t, s) PROVE Goal
  <2>1. /\ work[t] > 0 /\ work' = [work EXCEPT ![t] = work[t] - 1]
        /\ UNCHANGED <<started, declined, handle>>
        /\ \E left \in {replies[t][s], MaxDeliver} : replies' = [replies EXCEPT ![t][s] = left]
    BY <1>4 DEF RunEnds, Reply
  <2>2. CASE u = t
    <3>1. t \in started
      BY <1>a, <2>1, <2>2 DEF RanSays
    <3>2. replies'[t]["refused"] = replies[t]["refused"]
      BY <2>1 DEF TypeOK, RunStates, ReplyStates
    <3> QED BY <1>a, <2>1, <2>2, <3>1, <3>2 DEF RefusalSays
  <2>3. CASE u # t
    <3>1. replies'[u] = replies[u] /\ work'[u] = work[u]
      BY <2>1, <2>3 DEF TypeOK
    <3> QED BY <1>b, <2>1, <3>1
  <2> QED BY <2>2, <2>3
<1>5. CASE Ack \/ Verify \/ Reject
  BY <1>5, <1>b DEF Ack, Verify, Reject
<1>6. CASE Accept
  <2>1. /\ rx \in Tasks /\ rx \notin Forbidden /\ started' = started \union {rx}
        /\ work' = [work EXCEPT ![rx] = work[rx] + 1]
        /\ UNCHANGED <<handle, replies, declined>>
    BY <1>6 DEF TypeOK, Accept
  <2>2. CASE u = rx
    BY <1>a, <2>1, <2>2 DEF RefusalSays
  <2>3. CASE u # rx
    BY <1>b, <2>1, <2>3 DEF TypeOK
  <2> QED BY <2>2, <2>3
<1>7. CASE Refuse
  <2>1. /\ rx \in Tasks /\ declined' = declined \union {rx}
        /\ UNCHANGED <<handle, work, started>>
        /\ \E left \in {replies[rx]["refused"], MaxDeliver} :
             replies' = [replies EXCEPT ![rx]["refused"] = left]
    BY <1>7 DEF TypeOK, Refuse, Reply
  <2>2. CASE u = rx
    <3>1. \A s \in RunStates : replies'[u][s] = replies[u][s]
      BY <2>1, <2>2 DEF TypeOK, RunStates, ReplyStates
    <3> QED BY <1>a, <2>1, <2>2, <3>1 DEF RanSays
  <2>3. CASE u # rx
    <3>1. replies'[u] = replies[u]
      BY <2>1, <2>3 DEF TypeOK
    <3> QED BY <1>b, <2>1, <3>1
  <2> QED BY <2>2, <2>3
<1>8. CASE SenderRestart
  <2>1. handle'[u] = "none" /\ UNCHANGED <<started, declined, work, replies>>
    BY <1>8 DEF SenderRestart
  <2> QED BY <1>b, <2>1
<1>9. CASE ReceiverRestart
  <2>1. work'[u] = 0 /\ UNCHANGED <<started, declined, handle, replies>>
    BY <1>9 DEF ReceiverRestart
  <2> QED BY <1>a, <2>1 DEF RanSays, RefusalSays
<1>10. CASE UNCHANGED vars
  BY <1>10, <1>b
<1> QED BY <1>1, <1>2, <1>3, <1>4, <1>5, <1>6, <1>7, <1>8, <1>9, <1>10
    DEF Next, Consumer

\* Whatever is redelivered, replayed, lost or restarted, a sender reads
\* completed only of a task the receiver accepted (_on_inbox, _run), which no
\* forbidden one is, and refused only of one it refused (_reply, _on_reply).
THEOREM AnswersHoldUp == Spec => []AnswersAreDecisions
<1>1. Init => AnswerInv
  BY BusAssumption DEF Init, AnswerInv, RanSays, RefusalSays, ReplyStates, RunStates
<1>2. AnswerInv => AnswersAreDecisions
  BY DEF AnswerInv, RanSays, RefusalSays, AnswersAreDecisions
<1> QED BY <1>1, <1>2, AnswerNext, BusTypeCorrect, PTL DEF Spec
=============================================================================
