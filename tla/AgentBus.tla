------------------------------ MODULE AgentBus ------------------------------
(***************************************************************************)
(* Delegation over the bus (runtime/agent_bus.py, ADR-0118): a sender's    *)
(* worker publishes a task to a receiver's inbox, the receiver judges it,  *)
(* runs it on its own pool and publishes a reply, and the sender's handle  *)
(* takes the state the reply names.                                        *)
(*                                                                         *)
(* Between the two stands JetStream (external): it stores what is          *)
(* published and delivers it until the delivery is acknowledged, at most   *)
(* max_deliver times.  An acknowledgement is itself a message: the         *)
(* consumer sends it before it hands the delivery over, and handles the    *)
(* delivery whether or not the broker ever learns of it.  A redelivery may *)
(* overtake what was stored after it, so no order is kept here.            *)
(*                                                                         *)
(* The two workers are separate processes that restart on their own and    *)
(* read separate clocks.  Hops are signed and verified (the generated      *)
(* stack); a task of this module is one signed hop with its handle.        *)
(***************************************************************************)
EXTENDS Naturals, FiniteSets

CONSTANTS
  Tasks,        \* delegations the sender may make: message ids, handles
  Forbidden,    \* those whose decision a separation forbids to their chain
  None,         \* "no task", outside Tasks
  MaxDeliver,   \* max_deliver of a consumer (5 in the code)
  MaxRestarts   \* bound: how often either process may die

ASSUME BusAssumption ==
  /\ None \notin Tasks
  /\ Forbidden \subseteq Tasks
  /\ MaxDeliver \in Nat \ {0}
  /\ MaxRestarts \in Nat

VARIABLES
  \* the sender's worker
  dpc,       \* where the delegate call for the task is
  handle,    \* AgentMessenger.handles: the held state, or "none"
  due,       \* handles past their deadline on the sender's clock
  \* the broker
  inbox,     \* deliveries the broker still owes the receiver
  replies,   \* and, by the state a reply names, the sender
  \* the receiver's worker
  rpc, rx,   \* its consumer, and the delivery in hand
  seen,      \* keys of AgentMessenger._seen_tasks
  expired,   \* hops past their expiry on the receiver's clock
  work,      \* runs submitted to the pool that have not ended
  restarts,
  \* history
  accepted,  \* runs submitted since the receiver started
  started,   \* tasks some delivery of which was ever accepted
  declined,  \* and ever refused
  dropped    \* tasks a reply to which found no handle

senderVars   == <<dpc, handle, due>>
brokerVars   == <<inbox, replies>>
receiverVars == <<rpc, rx, seen, expired, work>>
historyVars  == <<accepted, started, declined, dropped>>
vars == <<senderVars, brokerVars, receiverVars, restarts, historyVars>>
-----------------------------------------------------------------------------
\* What run returns (a run that asked a human ends completed like any other:
\* see AsyncDelegation), and with "refused" what a reply can name.
RunStates   == {"completed", "failed"}
ReplyStates == RunStates \union {"refused"}

\* "error" is a delegate call that returned no handle, "lost" one whose
\* process died, before or after the call returned.
SenderPcs   == {"idle", "sending", "stored", "ok", "error", "lost"}
ReceiverPcs == {"idle", "fetched", "acked", "verified", "refusing"}

Init ==
  /\ dpc = [t \in Tasks |-> "idle"]
  /\ handle = [t \in Tasks |-> "none"]
  /\ due = {}
  /\ inbox = [t \in Tasks |-> 0]
  /\ replies = [t \in Tasks |-> [s \in ReplyStates |-> 0]]
  /\ rpc = "idle" /\ rx = None
  /\ seen = {} /\ expired = {}
  /\ work = [t \in Tasks |-> 0]
  /\ restarts = 0
  /\ accepted = [t \in Tasks |-> 0]
  /\ started = {} /\ declined = {} /\ dropped = {}
-----------------------------------------------------------------------------
(***************************************************************************)
(* The sender: delegate and check_delegation.                              *)
(***************************************************************************)
\* Fault variant: delegate records the handle once the publish has returned.
DelegateUnheld(t) ==
  /\ dpc[t] = "idle"
  /\ dpc' = [dpc EXCEPT ![t] = "sending"]
  /\ UNCHANGED <<handle, due, brokerVars, receiverVars, restarts, historyVars>>

\* The handle is recorded before the task is published.
Delegate(t) ==
  /\ dpc[t] = "idle"
  /\ dpc' = [dpc EXCEPT ![t] = "sending"]
  /\ handle' = [handle EXCEPT ![t] = "pending"]
  /\ UNCHANGED <<due, brokerVars, receiverVars, restarts, historyVars>>

PublishStored(t) ==
  /\ dpc[t] = "sending"
  /\ dpc' = [dpc EXCEPT ![t] = "stored"]
  /\ inbox' = [inbox EXCEPT ![t] = MaxDeliver]
  /\ UNCHANGED <<handle, due, replies, receiverVars, restarts, historyVars>>

\* The broker's confirmation arrived; delegate returns the handle.
Confirmed(t) ==
  /\ dpc[t] = "stored"
  /\ dpc' = [dpc EXCEPT ![t] = "ok"]
  /\ UNCHANGED <<handle, due, brokerVars, receiverVars, restarts, historyVars>>

\* The publish was refused or timed out, and in the second case the broker
\* may have stored the task all the same: the handle is popped either way.
PublishFailed(t) ==
  /\ dpc[t] \in {"sending", "stored"}
  /\ dpc' = [dpc EXCEPT ![t] = "error"]
  /\ handle' = [handle EXCEPT ![t] = "none"]
  /\ UNCHANGED <<due, brokerVars, receiverVars, restarts, historyVars>>

\* The handle's deadline passes.
Deadline(t) ==
  /\ handle[t] # "none"
  /\ t \notin due
  /\ due' = due \union {t}
  /\ UNCHANGED <<dpc, handle, brokerVars, receiverVars, restarts, historyVars>>

\* Fault variant: check_delegation has no deadline.
CheckWaits(t) == FALSE

\* check_delegation, when it changes anything.
Check(t) ==
  /\ dpc[t] = "ok"
  /\ handle[t] = "pending"
  /\ t \in due
  /\ handle' = [handle EXCEPT ![t] = "failed"]
  /\ UNCHANGED <<dpc, due, brokerVars, receiverVars, restarts, historyVars>>

\* The sender's consumer takes a reply off its mailbox (its acknowledgement
\* reaching the broker or not) and _on_reply gives the handle its state.
OnReply(t, s) ==
  /\ replies[t][s] > 0
  /\ \E left \in {0, replies[t][s] - 1} :
       replies' = [replies EXCEPT ![t][s] = left]
  /\ IF handle[t] # "none"
       THEN /\ handle' = [handle EXCEPT ![t] = s]
            /\ UNCHANGED dropped
       ELSE /\ dropped' = dropped \union {t}
            /\ UNCHANGED handle
  /\ UNCHANGED <<dpc, due, inbox, receiverVars, restarts, accepted, started, declined>>

\* The sender's process dies with its handles.
SenderRestart ==
  /\ restarts < MaxRestarts
  /\ restarts' = restarts + 1
  /\ dpc' = [t \in Tasks |-> IF dpc[t] = "idle" THEN "idle" ELSE "lost"]
  /\ handle' = [t \in Tasks |-> "none"]
  /\ UNCHANGED <<due, brokerVars, receiverVars, historyVars>>
-----------------------------------------------------------------------------
(***************************************************************************)
(* The receiver: its consumer loop, _on_inbox and the runs.                *)
(***************************************************************************)
Fetch(t) ==
  /\ rpc = "idle"
  /\ inbox[t] > 0
  /\ inbox' = [inbox EXCEPT ![t] = @ - 1]
  /\ rpc' = "fetched" /\ rx' = t
  /\ UNCHANGED <<senderVars, replies, seen, expired, work, restarts, historyVars>>

\* Fault variant: _main skips the delivery when acknowledging it raised.
AckOrSkip ==
  /\ rpc = "fetched"
  /\ \/ /\ inbox' = [inbox EXCEPT ![rx] = 0]
        /\ rpc' = "acked" /\ UNCHANGED rx
     \/ rpc' = "idle" /\ rx' = None /\ UNCHANGED inbox
  /\ UNCHANGED <<senderVars, replies, seen, expired, work, restarts, historyVars>>

\* m.ack(), which reaches the broker, or does not and is passed over.
Ack ==
  /\ rpc = "fetched"
  /\ \E left \in {0, inbox[rx]} : inbox' = [inbox EXCEPT ![rx] = left]
  /\ rpc' = "acked"
  /\ UNCHANGED <<senderVars, replies, rx, seen, expired, work, restarts, historyVars>>

\* verify_chain, with the clock read on entry.
Verify ==
  /\ rpc = "acked"
  /\ rpc' = IF rx \in expired THEN "refusing" ELSE "verified"
  /\ UNCHANGED <<senderVars, brokerVars, rx, seen, expired, work, restarts, historyVars>>

\* Fault variant: _on_inbox forgets every entry when it purges.
ForgetAll == {}

\* The seen entries the replay check keeps: it reads the clock again.
Remembered == seen \ expired

\* The delivery passed everything: the run is submitted to the pool.
Accept ==
  /\ rpc = "verified"
  /\ rx \notin Remembered
  /\ rx \notin Forbidden
  /\ seen' = Remembered \union {rx}
  /\ work' = [work EXCEPT ![rx] = @ + 1]
  /\ accepted' = [accepted EXCEPT ![rx] = @ + 1]
  /\ started' = started \union {rx}
  /\ rpc' = "idle" /\ rx' = None
  /\ UNCHANGED <<senderVars, brokerVars, expired, restarts, declined, dropped>>

\* A replay, or a decision the chain may not commission.
Reject ==
  /\ rpc = "verified"
  /\ rx \in Remembered \union Forbidden
  /\ seen' = Remembered \union {rx}
  /\ rpc' = "refusing"
  /\ UNCHANGED <<senderVars, brokerVars, rx, expired, work, restarts, historyVars>>

\* _reply: a publish that fails is recorded and forgotten.
Reply(t, s) ==
  \E left \in {replies[t][s], MaxDeliver} :
     replies' = [replies EXCEPT ![t][s] = left]

\* Fault variant: the consumer keeps the refused delivery in hand.
RefuseInHand ==
  /\ rpc = "refusing"
  /\ Reply(rx, "refused")
  /\ declined' = declined \union {rx}
  /\ rpc' = "idle"
  /\ UNCHANGED <<senderVars, inbox, rx, seen, expired, work, restarts, accepted,
                 started, dropped>>

Refuse ==
  /\ rpc = "refusing"
  /\ Reply(rx, "refused")
  /\ declined' = declined \union {rx}
  /\ rpc' = "idle" /\ rx' = None
  /\ UNCHANGED <<senderVars, inbox, seen, expired, work, restarts, accepted,
                 started, dropped>>

\* A run ends and _run answers with the state the runtime reports.
RunEnds(t, s) ==
  /\ work[t] > 0
  /\ work' = [work EXCEPT ![t] = @ - 1]
  /\ Reply(t, s)
  /\ UNCHANGED <<senderVars, inbox, rpc, rx, seen, expired, restarts, historyVars>>

Expire(t) ==
  /\ dpc[t] # "idle"
  /\ t \notin expired
  /\ expired' = expired \union {t}
  /\ UNCHANGED <<senderVars, brokerVars, rpc, rx, seen, work, restarts, historyVars>>

\* The receiver's process dies: the delivery in hand, the memory of what was
\* delivered and the runs go with it.
ReceiverRestart ==
  /\ restarts < MaxRestarts
  /\ restarts' = restarts + 1
  /\ rpc' = "idle" /\ rx' = None
  /\ seen' = {}
  /\ work' = [t \in Tasks |-> 0]
  /\ accepted' = [t \in Tasks |-> 0]
  /\ UNCHANGED <<senderVars, brokerVars, expired, started, declined, dropped>>
-----------------------------------------------------------------------------
Consumer == (\E t \in Tasks : Fetch(t)) \/ Ack \/ Verify \/ Accept \/ Reject \/ Refuse

Next ==
  \/ \E t \in Tasks : \/ Delegate(t) \/ PublishStored(t) \/ Confirmed(t)
                      \/ PublishFailed(t) \/ Deadline(t) \/ Check(t) \/ Expire(t)
  \/ \E t \in Tasks, s \in ReplyStates : OnReply(t, s)
  \/ \E t \in Tasks, s \in RunStates : RunEnds(t, s)
  \/ Consumer
  \/ SenderRestart \/ ReceiverRestart

Spec == Init /\ [][Next]_vars

\* A publish returns within its timeout, the consumers loop, clocks advance,
\* and a caller who holds a handle goes on checking it.
FairSpec ==
  /\ Spec
  /\ WF_vars(Consumer)
  /\ \A t \in Tasks :
       /\ WF_vars(PublishStored(t) \/ PublishFailed(t))
       /\ WF_vars(Confirmed(t) \/ PublishFailed(t))
       /\ WF_vars(Deadline(t))
       /\ WF_vars(Check(t))
-----------------------------------------------------------------------------
(***************************************************************************)
(* Properties                                                              *)
(***************************************************************************)
\* Every variable keeps its type.
TypeOK ==
  /\ dpc \in [Tasks -> SenderPcs]
  /\ handle \in [Tasks -> {"none", "pending"} \union ReplyStates]
  /\ due \subseteq Tasks
  /\ inbox \in [Tasks -> 0..MaxDeliver]
  /\ replies \in [Tasks -> [ReplyStates -> 0..MaxDeliver]]
  /\ rpc \in ReceiverPcs
  /\ rx \in Tasks \union {None}
  /\ (rpc = "idle") <=> (rx = None)
  /\ seen \subseteq Tasks /\ expired \subseteq Tasks
  /\ work \in [Tasks -> Nat]
  /\ restarts \in 0..MaxRestarts
  /\ accepted \in [Tasks -> Nat]
  /\ started \subseteq Tasks /\ declined \subseteq Tasks /\ dropped \subseteq Tasks

\* However often the broker redelivers a task, a receiver that has not
\* restarted runs it once while its hop is valid (_on_inbox: the check of
\* _seen_tasks and the recording are one critical section).
RunsOnceWhileFresh == \A t \in Tasks \ expired : accepted[t] <= 1

\* A reply is dropped only when the sender gave the handle up itself: its
\* publish failed or its process died.  A reply that beats the publisher's
\* confirmation finds its handle (delegate: "Held before it is sent").
NoReplyDropped == \A t \in dropped : dpc[t] \in {"error", "lost"}

\* Tasks some delivery of which was accepted or refused.
Decided == started \union declined

\* While no process dies, a task the broker stored is waiting, in hand, or
\* decided: a failed acknowledgement costs nothing (NatsTransport._main
\* passes the ack's exception over and delivers all the same).
NothingLostWhileUp ==
  restarts = 0 =>
    \A t \in Tasks : dpc[t] \in {"stored", "ok"} =>
      inbox[t] > 0 \/ rx = t \/ t \in Decided

\* A pending handle stops being pending (check_delegation's deadline).
PendingEnds == \A t \in Tasks : handle[t] = "pending" ~> handle[t] # "pending"

\* A stored task is decided, when no process dies (the consumer loop).
StoredIsDecided == \A t \in Tasks : dpc[t] = "stored" ~> t \in Decided

\* docs/decisions/ADR-0118:150: a message to an agent whose container is
\* restarting waits in its consumer rather than being lost.
RestartLosesNothing ==
  \A t \in Tasks : dpc[t] \in {"stored", "ok"} =>
    inbox[t] > 0 \/ rx = t \/ t \in Decided

\* docs/decisions/ADR-0118:105: "refused" is what answers a delegation the
\* receiver refused; so a completed answer is not replaced by it.
CompletedIsKept ==
  [][\A t \in Tasks : handle[t] = "completed" => handle'[t] # "refused"]_vars
=============================================================================
