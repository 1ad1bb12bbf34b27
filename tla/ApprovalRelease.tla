--------------------------- MODULE ApprovalRelease ---------------------------
(***************************************************************************)
(* A person's release of one tool call, at the agent's worker              *)
(* (runtime/worker.py, security/service_auth.py, harness/builder.py,       *)
(* ADR-0109, ADR-0114).                                                    *)
(*                                                                         *)
(* The issuer signs a release for one call: agent, tool and arguments.     *)
(* /approve verifies the token, refuses a nonce it has seen, notes the     *)
(* nonce in memory and on disk under the store's lock, and leaves a grant  *)
(* in memory that the next such call spends.  The endpoint is served by a  *)
(* thread pool, so requests interleave with each other and with the runs   *)
(* that make the calls; tokens are posted by anyone who holds them, as     *)
(* often as they like.  A release and its nonce are the same thing here:   *)
(* the issuer draws a fresh nonce for each.  The worker is one agent's.    *)
(***************************************************************************)
EXTENDS Naturals, Sequences

CONSTANTS
  Releases,     \* signed tokens
  Calls,        \* a tool with its arguments, as the grants are keyed
  CallOf,       \* the call a release is for
  Entitled,     \* releases by an approver the design still names
  Refused,      \* calls outside the agent's mandate or its bounds
  Handlers,     \* threads serving /approve
  Runs,         \* threads running the agent
  NoOne,        \* neither a handler nor a release
  MaxRestarts   \* bound: restarts of the worker

ASSUME ApprovalAssumption ==
  /\ CallOf \in [Releases -> Calls]
  /\ Entitled \subseteq Releases
  /\ Refused \subseteq Calls
  /\ NoOne \notin Handlers \union Releases
  /\ MaxRestarts \in Nat

VARIABLES
  expired,    \* releases whose time has passed
  seen,       \* nonces in the store's memory
  file,       \* nonces in the store's file
  lock,       \* handler that holds the store's lock
  hpc, hrel,  \* where a handler is, and the release it handles
  grants,     \* grants of a call, oldest first
  rpc, rcall, \* where a run is, and the call it makes
  rgrant,     \* release whose grant let the call through
  granted,    \* history: grants a release gave
  made,       \* history: calls made on a release
  restarts

storeVars == <<seen, file, lock>>
handlerVars == <<hpc, hrel>>
runVars == <<rpc, rcall, rgrant>>
relVars == <<expired, storeVars, handlerVars, grants, runVars, granted, made,
             restarts>>
-----------------------------------------------------------------------------
Unexpired == Releases \ expired

HandlerPcs == {"idle", "verified", "unseen", "noted", "used"}
RunPcs     == {"idle", "asking", "popping", "released"}

\* A grant outlives its release: it has a time to live of its own.
Grants == [rel : Releases, fresh : BOOLEAN]

RelInit ==
  /\ expired = {}
  /\ seen = {} /\ file = {} /\ lock = NoOne
  /\ hpc = [h \in Handlers |-> "idle"]
  /\ hrel \in [Handlers -> Releases]
  /\ grants = [c \in Calls |-> <<>>]
  /\ rpc = [u \in Runs |-> "idle"]
  /\ rcall \in [Runs -> Calls]
  /\ rgrant = [u \in Runs |-> NoOne]
  /\ granted = [r \in Releases |-> 0]
  /\ made = [r \in Releases |-> 0]
  /\ restarts = 0
-----------------------------------------------------------------------------
(***************************************************************************)
(* POST /approve                                                           *)
(***************************************************************************)
\* verify_approval: signed for this call, and not expired when it looks.
Verify(h, r) ==
  /\ hpc[h] = "idle" /\ r \in Unexpired
  /\ hpc' = [hpc EXCEPT ![h] = "verified"]
  /\ hrel' = [hrel EXCEPT ![h] = r]
  /\ UNCHANGED <<expired, storeVars, grants, runVars, granted, made, restarts>>

\* Fault variant: any approver will do.
AdmitUnnamed(h) ==
  /\ hpc[h] = "verified"
  /\ hpc' = [hpc EXCEPT ![h] = IF hrel[h] \notin seen THEN "unseen" ELSE "idle"]
  /\ UNCHANGED <<expired, storeVars, hrel, grants, runVars, granted, made,
                 restarts>>

\* "nonce in seen", without the lock, then the approver: 403 or go on.
Admit(h) ==
  /\ hpc[h] = "verified"
  /\ hpc' = [hpc EXCEPT ![h] =
       IF hrel[h] \notin seen /\ hrel[h] \in Entitled THEN "unseen" ELSE "idle"]
  /\ UNCHANGED <<expired, storeVars, hrel, grants, runVars, granted, made,
                 restarts>>

\* Fault variant: use trusts the check the endpoint made without the lock.
UseNonceUnchecked(h) ==
  /\ hpc[h] = "unseen" /\ lock = NoOne
  /\ lock' = h
  /\ seen' = (seen \ expired) \union {hrel[h]}
  /\ hpc' = [hpc EXCEPT ![h] = "noted"]
  /\ UNCHANGED <<expired, file, hrel, grants, runVars, granted, made, restarts>>

\* NonceStore.use takes the lock, drops what has expired, and refuses a
\* nonce it finds; otherwise it notes it, first in memory.
UseNonce(h) ==
  /\ hpc[h] = "unseen" /\ lock = NoOne
  /\ IF hrel[h] \in seen \ expired
       THEN /\ seen' = seen \ expired
            /\ hpc' = [hpc EXCEPT ![h] = "idle"]
            /\ UNCHANGED lock
       ELSE /\ seen' = (seen \ expired) \union {hrel[h]}
            /\ hpc' = [hpc EXCEPT ![h] = "noted"]
            /\ lock' = h
  /\ UNCHANGED <<expired, file, hrel, grants, runVars, granted, made, restarts>>

\* Fault variant: the lock only guards the memory.
WriteNonceUnlocked(h) ==
  /\ hpc[h] = "noted"
  /\ file' \in {file \union {hrel[h]}, seen}
  /\ hpc' = [hpc EXCEPT ![h] = "used"]
  /\ UNCHANGED <<expired, seen, lock, hrel, grants, runVars, granted, made,
                 restarts>>

\* ... then in the file: a synced line, or when anything was dropped the
\* whole of the memory, replaced at once.  The lock is given back.
WriteNonce(h) ==
  /\ hpc[h] = "noted"
  /\ file' \in {file \union {hrel[h]}, seen}
  /\ lock' = NoOne
  /\ hpc' = [hpc EXCEPT ![h] = "used"]
  /\ UNCHANGED <<expired, seen, hrel, grants, runVars, granted, made, restarts>>

\* ApprovalGrants.grant, and the answer.
Grant(h) ==
  /\ hpc[h] = "used"
  /\ grants' = [grants EXCEPT ![CallOf[hrel[h]]] =
                  Append(@, [rel |-> hrel[h], fresh |-> TRUE])]
  /\ granted' = [granted EXCEPT ![hrel[h]] = @ + 1]
  /\ hpc' = [hpc EXCEPT ![h] = "idle"]
  /\ UNCHANGED <<expired, storeVars, hrel, runVars, made, restarts>>
-----------------------------------------------------------------------------
(***************************************************************************)
(* A run makes a call that needs approval                                  *)
(***************************************************************************)
\* refusal: the mandate and its bounds come first and spend nothing.
Ask(u, c) ==
  /\ rpc[u] = "idle" /\ c \notin Refused
  /\ rpc' = [rpc EXCEPT ![u] = "asking"]
  /\ rcall' = [rcall EXCEPT ![u] = c]
  /\ UNCHANGED <<expired, storeVars, handlerVars, grants, rgrant, granted, made,
                 restarts>>

\* consume: "while pending".  Nothing pending: human approval required.
Look(u) ==
  /\ rpc[u] = "asking"
  /\ rpc' = [rpc EXCEPT ![u] =
       IF grants[rcall[u]] = <<>> THEN "idle" ELSE "popping"]
  /\ UNCHANGED <<expired, storeVars, handlerVars, grants, rcall, rgrant, granted,
                 made, restarts>>

\* "pending.pop(0)": another run may have emptied the list since it was
\* looked at, and the call then fails; a grant past its time is dropped
\* and the next one tried.
Pop(u) ==
  LET pending == grants[rcall[u]]
  IN
  /\ rpc[u] = "popping"
  /\ IF pending = <<>>
       THEN /\ rpc' = [rpc EXCEPT ![u] = "idle"]
            /\ UNCHANGED <<grants, rgrant>>
       ELSE /\ grants' = [grants EXCEPT ![rcall[u]] = Tail(pending)]
            /\ IF Head(pending).fresh
                 THEN /\ rpc' = [rpc EXCEPT ![u] = "released"]
                      /\ rgrant' = [rgrant EXCEPT ![u] = Head(pending).rel]
                 ELSE /\ rpc' = [rpc EXCEPT ![u] = "asking"]
                      /\ UNCHANGED rgrant
  /\ UNCHANGED <<expired, storeVars, handlerVars, rcall, granted, made, restarts>>

\* guarded_tool calls the tool.
Make(u) ==
  /\ rpc[u] = "released"
  /\ made' = [made EXCEPT ![rgrant[u]] = @ + 1]
  /\ rpc' = [rpc EXCEPT ![u] = "idle"]
  /\ rgrant' = [rgrant EXCEPT ![u] = NoOne]
  /\ UNCHANGED <<expired, storeVars, handlerVars, grants, rcall, granted,
                 restarts>>
-----------------------------------------------------------------------------
(***************************************************************************)
(* Time, and the worker's end                                              *)
(***************************************************************************)
Expire(r) ==
  /\ r \in Unexpired
  /\ expired' = expired \union {r}
  /\ UNCHANGED <<storeVars, handlerVars, grants, runVars, granted, made, restarts>>

Stale(g) == [rel |-> g.rel, fresh |-> FALSE]

\* Grants live equally long, so the oldest fresh one lapses first.
Lapse(c) ==
  /\ \E i \in 1..Len(grants[c]) :
       /\ grants[c][i].fresh
       /\ \A j \in 1..(i-1) : ~grants[c][j].fresh
       /\ grants' = [grants EXCEPT ![c] = [@ EXCEPT ![i] = Stale(grants[c][i])]]
  /\ UNCHANGED <<expired, storeVars, handlerVars, runVars, granted, made, restarts>>

\* Fault variant: the store starts empty.
RestartForgets ==
  /\ restarts < MaxRestarts
  /\ restarts' = restarts + 1
  /\ seen' = {} /\ file' = file /\ lock' = NoOne
  /\ hpc' = [h \in Handlers |-> "idle"]
  /\ grants' = [c \in Calls |-> <<>>]
  /\ rpc' = [u \in Runs |-> "idle"]
  /\ rgrant' = [u \in Runs |-> NoOne]
  /\ UNCHANGED <<expired, hrel, rcall, granted, made>>

\* The worker dies at any point and is started again: threads and grants
\* are gone, NonceStore reads what has not expired and rewrites its file.
Restart ==
  /\ restarts < MaxRestarts
  /\ restarts' = restarts + 1
  /\ seen' = file \ expired /\ file' = file \ expired /\ lock' = NoOne
  /\ hpc' = [h \in Handlers |-> "idle"]
  /\ grants' = [c \in Calls |-> <<>>]
  /\ rpc' = [u \in Runs |-> "idle"]
  /\ rgrant' = [u \in Runs |-> NoOne]
  /\ UNCHANGED <<expired, hrel, rcall, granted, made>>

HandlerStep(h) ==
  \/ \E r \in Releases : Verify(h, r)
  \/ Admit(h) \/ UseNonce(h) \/ WriteNonce(h) \/ Grant(h)

RunStep(u) ==
  \/ \E c \in Calls : Ask(u, c)
  \/ Look(u) \/ Pop(u) \/ Make(u)

RelNext ==
  \/ \E h \in Handlers : HandlerStep(h)
  \/ \E u \in Runs : RunStep(u)
  \/ \E r \in Releases : Expire(r)
  \/ \E c \in Calls : Lapse(c)
  \/ Restart

RelSpec == RelInit /\ [][RelNext]_relVars
-----------------------------------------------------------------------------
\* Types; the store's lock is held exactly while a nonce is in memory and
\* not yet in the file.
RelTypeOK ==
  /\ expired \subseteq Releases
  /\ seen \subseteq Releases /\ file \subseteq Releases
  /\ hpc \in [Handlers -> HandlerPcs]
  /\ hrel \in [Handlers -> Releases]
  /\ \A h \in Handlers : lock = h <=> hpc[h] = "noted"
  /\ lock \in Handlers \union {NoOne}
  /\ grants \in [Calls -> Seq(Grants)]
  /\ rpc \in [Runs -> RunPcs]
  /\ rcall \in [Runs -> Calls]
  /\ rgrant \in [Runs -> Releases \union {NoOne}]
  /\ \A u \in Runs : rpc[u] = "released" <=> rgrant[u] # NoOne
  /\ granted \in [Releases -> Nat]
  /\ made \in [Releases -> Nat]
  /\ restarts \in 0..MaxRestarts

\* A release that has not expired grants at most once, whatever requests
\* race, repeat or meet a restart (worker.py approve: the token is good
\* once; NonceStore: a restarted worker still refuses a replay).
UsedOnceWhileFresh == \A r \in Unexpired : granted[r] <= 1

\* No call is made, or grant pending, on a release that a restart would
\* accept again: its nonce is on disk first (NonceStore.use before grant).
DurableBeforeGrant ==
  \A r \in Unexpired : granted[r] > 0 => r \in file

\* A call is let through only on a release of that very call, by an
\* approver the design names, that no other call was let through on.
CallsAreApproved ==
  \A u \in Runs : rpc[u] = "released" =>
    /\ CallOf[rgrant[u]] = rcall[u]
    /\ rgrant[u] \in Entitled
    /\ made[rgrant[u]] < granted[rgrant[u]]

\* What the endpoint promises of any release: "the token is good once".
\* A request verified before the expiry and noted after it is let through
\* though the release was used: use drops expired nonces before it looks.
GoodOnce == \A r \in Releases : granted[r] <= 1
=============================================================================
