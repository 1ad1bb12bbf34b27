---------------------------- MODULE RecordsProofs ----------------------------
(***************************************************************************)
(* Proofs about Fabric and TaskPort, and the types of both: whatever       *)
(* requests overwrite of each other, a stored history is a legal path to   *)
(* the stored state, and a done task was worked on.                        *)
(***************************************************************************)
EXTENDS MCRecords, TLAPS

-----------------------------------------------------------------------------
(***************************************************************************)
(* Deployments and tenants                                                 *)
(***************************************************************************)
\* A request acts in a role its operator holds, and what it is about to
\* write continues a legal path.
WriteOK(o) ==
  /\ fpc[o] # "idle" => freq[o].role \in RolesOf[o]
  /\ fpc[o] = "putMove" =>
       /\ DeploymentPath(fread[o])
       /\ freq[o].role \in Transitions(fread[o].state, freq[o].target)
  /\ fpc[o] = "putTenant" =>
       /\ TenantPath(fread[o])
       /\ freq[o].role \in TenantTransitions(fread[o].state, freq[o].target)

FabInv == FabTypeOK /\ HistoryIsLegal /\ \A o \in Operators : WriteOK(o)

\* A role chosen to act as is one of the roles there are.
LEMMA ActingRoleType ==
  ASSUME NEW roles, NEW allowed
  PROVE  ActingRole(roles, allowed) \in OperatorRoles
BY DEF ActingRole, Strongest, OperatorRoles

\* Somebody who may ask acts in a role they hold.
LEMMA ActingRoleHeld ==
  ASSUME NEW roles \in SUBSET OperatorRoles, NEW allowed,
         \/ \E target : MayMove(roles, target)
         \/ MayManage(roles)
  PROVE  ActingRole(roles, allowed) \in roles
<1>1. roles # {}
  BY DEF MayMove, MayManage
<1>2. ASSUME NEW some \in SUBSET OperatorRoles, some # {}
      PROVE  Strongest(some) \in some
  BY <1>2 DEF Strongest, OperatorRoles
<1>3. roles \intersect allowed \in SUBSET OperatorRoles
  OBVIOUS
<1>4. CASE roles \intersect allowed # {}
  BY <1>2, <1>3, <1>4 DEF ActingRole
<1>5. CASE roles \intersect allowed = {}
  BY <1>1, <1>2, <1>5 DEF ActingRole
<1> QED BY <1>4, <1>5

\* Writing a move keeps a deployment's document one.
LEMMA MovedDeploymentType ==
  ASSUME NEW doc \in DeploymentDocs, NEW t \in DeploymentTargets,
         NEW r \in OperatorRoles
  PROVE  Moved(doc, t, r) \in DeploymentDocs
<1>1. t \in DeploymentStates /\ [to |-> t, by |-> r] \in Events
  BY DEF DeploymentTargets, DeploymentStates, Events
<1>2. Append(doc.history, [to |-> t, by |-> r]) \in Seq(Events)
  BY <1>1 DEF DeploymentDocs
<1> QED BY <1>1, <1>2 DEF Moved, DeploymentDocs

LEMMA MovedTenantType ==
  ASSUME NEW doc \in TenantDocs, NEW t \in TenantTargets, NEW r \in OperatorRoles
  PROVE  Moved(doc, t, r) \in TenantDocs
<1>1. t \in TenantStatuses /\ [to |-> t, by |-> r] \in Events
  BY DEF TenantTargets, TenantStatuses, Events
<1>2. Append(doc.history, [to |-> t, by |-> r]) \in Seq(Events)
  BY <1>1 DEF TenantDocs
<1> QED BY <1>1, <1>2 DEF Moved, TenantDocs

\* A legal move continues a legal path.
LEMMA DeploymentPathGrows ==
  ASSUME NEW doc \in DeploymentDocs, DeploymentPath(doc),
         NEW t \in DeploymentTargets, NEW r \in Transitions(doc.state, t),
         r \in OperatorRoles
  PROVE  DeploymentPath(Moved(doc, t, r))
<1> DEFINE e == [to |-> t, by |-> r]
           new == Moved(doc, t, r)
           n == Len(doc.history)
<1>1. e \in Events
  BY DEF DeploymentTargets, DeploymentStates, Events
<1>2. /\ new.state = t /\ new.history = Append(doc.history, e)
      /\ doc.history \in Seq(Events)
  BY DEF Moved, DeploymentDocs
<1>3. /\ Len(new.history) = n + 1 /\ n \in Nat
      /\ \A i \in 1..n : new.history[i] = doc.history[i]
      /\ new.history[n + 1] = e
  BY <1>1, <1>2
<1> HIDE DEF new
<1>4. DeploymentAt(new, n + 1) = t
  BY <1>3 DEF DeploymentAt
<1>5. \A i \in 0..n : DeploymentAt(new, i) = DeploymentAt(doc, i)
  BY <1>3 DEF DeploymentAt
<1>6. ASSUME NEW i \in 1..(n + 1)
      PROVE  new.history[i].by
               \in Transitions(DeploymentAt(new, i - 1), DeploymentAt(new, i))
  <2>1. CASE i = n + 1
    BY <1>3, <1>4, <1>5, <2>1 DEF DeploymentPath
  <2>2. CASE i \in 1..n
    <3>1. i - 1 \in 0..n /\ i \in 0..n
      BY <1>3, <2>2
    <3> QED BY <1>3, <1>5, <2>2, <3>1 DEF DeploymentPath
  <2> QED BY <1>3, <2>1, <2>2
<1> QED BY <1>2, <1>3, <1>4, <1>6 DEF DeploymentPath, new

LEMMA TenantPathGrows ==
  ASSUME NEW doc \in TenantDocs, TenantPath(doc),
         NEW t \in TenantTargets, NEW r \in TenantTransitions(doc.state, t),
         r \in OperatorRoles
  PROVE  TenantPath(Moved(doc, t, r))
<1> DEFINE e == [to |-> t, by |-> r]
           new == Moved(doc, t, r)
           n == Len(doc.history)
<1>1. e \in Events
  BY DEF TenantTargets, TenantStatuses, Events
<1>2. /\ new.state = t /\ new.history = Append(doc.history, e)
      /\ doc.history \in Seq(Events)
  BY DEF Moved, TenantDocs
<1>3. /\ Len(new.history) = n + 1 /\ n \in Nat
      /\ \A i \in 1..n : new.history[i] = doc.history[i]
      /\ new.history[n + 1] = e
  BY <1>1, <1>2
<1> HIDE DEF new
<1>4. TenantAt(new, n + 1) = t
  BY <1>3 DEF TenantAt
<1>5. \A i \in 0..n : TenantAt(new, i) = TenantAt(doc, i)
  BY <1>3 DEF TenantAt
<1>6. ASSUME NEW i \in 1..(n + 1)
      PROVE  new.history[i].by
               \in TenantTransitions(TenantAt(new, i - 1), TenantAt(new, i))
  <2>1. CASE i = n + 1
    BY <1>3, <1>4, <1>5, <2>1 DEF TenantPath
  <2>2. CASE i \in 1..n
    <3>1. i - 1 \in 0..n /\ i \in 0..n
      BY <1>3, <2>2
    <3> QED BY <1>3, <1>5, <2>2, <3>1 DEF TenantPath
  <2> QED BY <1>3, <2>1, <2>2
<1> QED BY <1>2, <1>3, <1>4, <1>6 DEF TenantPath, new
-----------------------------------------------------------------------------
\* A request that ends leaves no other touched.
LEMMA DoneKeeps ==
  ASSUME FabTypeOK, NEW o \in Operators, Done(o)
  PROVE  /\ fpc' \in [Operators -> {"idle", "register", "move", "putMove", "list",
                                     "tenant", "putTenant"}]
         /\ freq' \in [Operators -> DeploymentRequests \union TenantRequests
                                      \union {NoRequest}]
         /\ fread' \in [Operators -> DeploymentDocs \union TenantDocs
                                       \union {Nothing}]
         /\ flive' \in [Operators -> BOOLEAN]
         /\ fpc'[o] = "idle"
         /\ \A p \in Operators \ {o} :
              fpc'[p] = fpc[p] /\ freq'[p] = freq[p] /\ fread'[p] = fread[p]
BY DEF Done, FabTypeOK

LEMMA FabInitInv == FabInit => FabInv
<1> SUFFICES ASSUME FabInit PROVE FabInv
  OBVIOUS
<1>1. \A o \in Operators : fpc[o] = "idle"
  BY DEF FabInit
<1>2. FabTypeOK
  BY <1>1 DEF FabInit, FabTypeOK, RequestOK
<1>3. HistoryIsLegal
  BY DEF FabInit, HistoryIsLegal
<1> QED BY <1>1, <1>2, <1>3 DEF FabInv, WriteOK

\* One lemma per action: the invariant is kept.
LEMMA RegisterKeeps ==
  ASSUME FabInv, NEW o \in Operators, Register(o)
  PROVE  FabInv'
<1> DEFINE doc == [state |-> "active", history |-> <<>>]
<1>1. doc \in TenantDocs
  BY DEF TenantDocs, TenantStatuses
<1>2. doc # Nothing
  BY <1>1, FabricAssumption
<1>3. TenantPath(doc)
  BY DEF TenantPath, TenantAt
<1>4. /\ freq[o].record \in Tenants /\ Done(o) /\ UNCHANGED deployment
      /\ tenant' = [tenant EXCEPT ![freq[o].record] = doc]
  BY DEF Register, FabInv, FabTypeOK, RequestOK, TenantRequests
<1> HIDE DEF doc
<1>5. FabTypeOK'
  BY <1>1, <1>2, <1>4, DoneKeeps DEF FabInv, FabTypeOK, RequestOK
<1>6. HistoryIsLegal'
  BY <1>3, <1>4 DEF FabInv, FabTypeOK, HistoryIsLegal
<1>7. \A p \in Operators : WriteOK(p)'
  BY <1>4, DoneKeeps DEF FabInv, WriteOK
<1> QED BY <1>5, <1>6, <1>7 DEF FabInv

LEMMA PublishKeeps ==
  ASSUME FabInv, NEW d \in Deployments, NEW t \in Tenants, Publish(d, t)
  PROVE  FabInv'
<1> DEFINE doc == [tenant |-> t, state |-> "requested", history |-> <<>>]
<1>1. doc \in DeploymentDocs
  BY DEF DeploymentDocs, DeploymentStates
<1>2. doc # Nothing
  BY <1>1, FabricAssumption
<1>3. DeploymentPath(doc)
  BY DEF DeploymentPath, DeploymentAt
<1>4. /\ deployment' = [deployment EXCEPT ![d] = doc]
      /\ UNCHANGED <<tenant, fpc, freq, fread, flive>>
  BY DEF Publish
<1> HIDE DEF doc
<1>5. FabTypeOK'
  BY <1>1, <1>2, <1>4 DEF FabInv, FabTypeOK, RequestOK
<1>6. HistoryIsLegal'
  BY <1>3, <1>4 DEF FabInv, FabTypeOK, HistoryIsLegal
<1>7. \A p \in Operators : WriteOK(p)'
  BY <1>4 DEF FabInv, WriteOK
<1> QED BY <1>5, <1>6, <1>7 DEF FabInv

LEMMA AskKeeps ==
  ASSUME FabInv, NEW o \in Operators,
         \/ \E d \in Deployments, s \in DeploymentTargets : AskMove(o, d, s)
         \/ \E t \in Tenants, s \in TenantTargets : AskTenant(o, t, s)
         \/ ListLive(o)
         \/ \E t \in Tenants : AskRegister(o, t)
  PROVE  FabInv'
<1>1. UNCHANGED <<deployment, tenant, fread>>
  BY DEF AskMove, AskTenant, ListLive, AskRegister
<1>2. FabTypeOK'
  <2>1. ASSUME NEW d \in Deployments, NEW s \in DeploymentTargets, AskMove(o, d, s)
        PROVE  FabTypeOK'
    <3>1. freq'[o] \in DeploymentRequests /\ freq'[o].record = d
      BY <2>1, ActingRoleType DEF AskMove, DeploymentRequests, FabInv, FabTypeOK
    <3> QED BY <2>1, <3>1 DEF AskMove, FabInv, FabTypeOK, RequestOK
  <2>2. ASSUME NEW t \in Tenants, NEW s \in TenantTargets, AskTenant(o, t, s)
        PROVE  FabTypeOK'
    <3>1. freq'[o] \in TenantRequests /\ freq'[o].record = t
      BY <2>2, ActingRoleType DEF AskTenant, TenantRequests, FabInv, FabTypeOK
    <3> QED BY <2>2, <3>1 DEF AskTenant, FabInv, FabTypeOK, RequestOK
  <2>3. CASE ListLive(o)
    <3>1. flive' \in [Operators -> BOOLEAN]
      BY <2>3 DEF ListLive, FabInv, FabTypeOK
    <3> QED BY <2>3, <3>1 DEF ListLive, FabInv, FabTypeOK, RequestOK
  <2>4. ASSUME NEW t \in Tenants, AskRegister(o, t) PROVE FabTypeOK'
    <3>1. freq'[o] \in TenantRequests
      BY <2>4 DEF AskRegister, TenantRequests, TenantTargets, OperatorRoles, FabInv, FabTypeOK
    <3> QED BY <2>4, <3>1 DEF AskRegister, FabInv, FabTypeOK, RequestOK
  <2> QED BY <2>1, <2>2, <2>3, <2>4
<1>3. HistoryIsLegal'
  BY <1>1 DEF FabInv, HistoryIsLegal
<1>4. ASSUME NEW p \in Operators PROVE WriteOK(p)'
  <2>1. fpc'[p] \in {"putMove", "putTenant"} =>
          fpc'[p] = fpc[p] /\ freq'[p] = freq[p] /\ fread'[p] = fread[p]
    BY DEF AskMove, AskTenant, ListLive, AskRegister, FabInv, FabTypeOK
  <2>2. ASSUME NEW d \in Deployments, NEW s \in DeploymentTargets, AskMove(o, d, s)
        PROVE  freq'[o].role \in RolesOf[o]
    <3>1. RolesOf[o] \in SUBSET OperatorRoles /\ MayMove(RolesOf[o], s)
      BY <2>2, FabricAssumption DEF AskMove
    <3>2. freq'[o].role =
            ActingRole(RolesOf[o], Transitions(deployment[d].state, s))
      BY <2>2 DEF AskMove, FabInv, FabTypeOK
    <3> QED BY <3>1, <3>2, ActingRoleHeld
  <2>3. ASSUME NEW t \in Tenants, NEW s \in TenantTargets, AskTenant(o, t, s)
        PROVE  freq'[o].role \in RolesOf[o]
    <3>1. RolesOf[o] \in SUBSET OperatorRoles /\ MayManage(RolesOf[o])
      BY <2>3, FabricAssumption DEF AskTenant
    <3>2. freq'[o].role =
            ActingRole(RolesOf[o], TenantTransitions(tenant[t].state, s))
      BY <2>3 DEF AskTenant, FabInv, FabTypeOK
    <3> QED BY <3>1, <3>2, ActingRoleHeld
  <2>5. ASSUME NEW t \in Tenants, AskRegister(o, t) PROVE freq'[o].role \in RolesOf[o]
    BY <2>5 DEF AskRegister, MayRegister, FabInv, FabTypeOK
  <2>4. fpc'[p] # "idle" => freq'[p].role \in RolesOf[p]
    <3>1. CASE p = o /\ ListLive(o)
      BY <3>1 DEF ListLive, FabInv, WriteOK
    <3>2. CASE p = o /\ ~ListLive(o)
      BY <3>2, <2>2, <2>3, <2>5
    <3>3. CASE p # o
      BY <3>3 DEF AskMove, AskTenant, ListLive, AskRegister, FabInv, FabTypeOK, WriteOK
    <3> QED BY <3>1, <3>2, <3>3
  <2> QED BY <2>1, <2>4 DEF FabInv, WriteOK
<1> QED BY <1>2, <1>3, <1>4 DEF FabInv

LEMMA CheckMoveKeeps ==
  ASSUME FabInv, NEW o \in Operators, CheckMove(o) PROVE FabInv'
<1> DEFINE doc == deployment[freq[o].record]
<1>1. /\ UNCHANGED <<deployment, tenant>> /\ fpc[o] = "move"
      /\ freq[o].record \in Deployments
      /\ doc \in DeploymentDocs /\ DeploymentPath(doc)
  BY DEF CheckMove, FabInv, FabTypeOK, RequestOK, DeploymentRequests, HistoryIsLegal
<1>2. HistoryIsLegal'
  BY <1>1 DEF FabInv, HistoryIsLegal
<1>3. CASE freq[o].role \in Transitions(doc.state, freq[o].target)
  <2>1. /\ fread' = [fread EXCEPT ![o] = doc]
        /\ fpc' = [fpc EXCEPT ![o] = "putMove"]
        /\ UNCHANGED <<freq, flive>>
    BY <1>3 DEF CheckMove
  <2>2. FabTypeOK'
    BY <1>1, <2>1 DEF FabInv, FabTypeOK, RequestOK
  <2>3. \A p \in Operators : WriteOK(p)'
    BY <1>1, <1>3, <2>1 DEF FabInv, FabTypeOK, WriteOK
  <2> QED BY <1>2, <2>2, <2>3 DEF FabInv
<1>4. CASE freq[o].role \notin Transitions(doc.state, freq[o].target)
  <2>1. Done(o)
    BY <1>4 DEF CheckMove
  <2>2. FabTypeOK'
    BY <1>1, <2>1, DoneKeeps DEF FabInv, FabTypeOK, RequestOK
  <2>3. \A p \in Operators : WriteOK(p)'
    BY <2>1, DoneKeeps DEF FabInv, WriteOK
  <2> QED BY <1>2, <2>2, <2>3 DEF FabInv
<1> QED BY <1>3, <1>4

LEMMA CheckTenantKeeps ==
  ASSUME FabInv, NEW o \in Operators, CheckTenant(o) PROVE FabInv'
<1> DEFINE doc == tenant[freq[o].record]
           ok == /\ freq[o].role \in TenantTransitions(doc.state, freq[o].target)
                 /\ ~(freq[o].target = "retired" /\ flive[o])
<1>1. /\ UNCHANGED <<deployment, tenant>> /\ fpc[o] = "tenant"
      /\ freq[o].record \in Tenants
      /\ doc \in TenantDocs /\ TenantPath(doc)
  BY DEF CheckTenant, FabInv, FabTypeOK, RequestOK, TenantRequests, HistoryIsLegal
<1>2. HistoryIsLegal'
  BY <1>1 DEF FabInv, HistoryIsLegal
<1>3. CASE ok
  <2>1. /\ fread' = [fread EXCEPT ![o] = doc]
        /\ fpc' = [fpc EXCEPT ![o] = "putTenant"]
        /\ UNCHANGED <<freq, flive>>
    BY <1>3 DEF CheckTenant
  <2>2. FabTypeOK'
    BY <1>1, <2>1 DEF FabInv, FabTypeOK, RequestOK
  <2>3. \A p \in Operators : WriteOK(p)'
    BY <1>1, <1>3, <2>1 DEF FabInv, FabTypeOK, WriteOK
  <2> QED BY <1>2, <2>2, <2>3 DEF FabInv
<1>4. CASE ~ok
  <2>1. Done(o)
    BY <1>4 DEF CheckTenant
  <2>2. FabTypeOK'
    BY <1>1, <2>1, DoneKeeps DEF FabInv, FabTypeOK, RequestOK
  <2>3. \A p \in Operators : WriteOK(p)'
    BY <2>1, DoneKeeps DEF FabInv, WriteOK
  <2> QED BY <1>2, <2>2, <2>3 DEF FabInv
<1> QED BY <1>3, <1>4

LEMMA PutMoveKeeps ==
  ASSUME FabInv, NEW o \in Operators, PutMove(o) PROVE FabInv'
<1> DEFINE new == Moved(fread[o], freq[o].target, freq[o].role)
<1>1. /\ freq[o] \in DeploymentRequests /\ fread[o] \in DeploymentDocs
      /\ DeploymentPath(fread[o])
      /\ freq[o].role \in Transitions(fread[o].state, freq[o].target)
      /\ Done(o) /\ UNCHANGED tenant
      /\ deployment' = [deployment EXCEPT ![freq[o].record] = new]
  BY DEF PutMove, FabInv, FabTypeOK, RequestOK, WriteOK
<1>2. /\ freq[o].record \in Deployments /\ freq[o].target \in DeploymentTargets
      /\ freq[o].role \in OperatorRoles
  BY <1>1 DEF DeploymentRequests
<1>3. new \in DeploymentDocs /\ new # Nothing
  BY <1>1, <1>2, MovedDeploymentType, FabricAssumption
<1>4. DeploymentPath(new)
  BY <1>1, <1>2, DeploymentPathGrows
<1> HIDE DEF new
<1>5. FabTypeOK'
  BY <1>1, <1>2, <1>3, DoneKeeps DEF FabInv, FabTypeOK, RequestOK
<1>6. HistoryIsLegal'
  BY <1>1, <1>2, <1>4 DEF FabInv, FabTypeOK, HistoryIsLegal
<1>7. \A p \in Operators : WriteOK(p)'
  BY <1>1, DoneKeeps DEF FabInv, WriteOK
<1> QED BY <1>5, <1>6, <1>7 DEF FabInv

LEMMA PutTenantKeeps ==
  ASSUME FabInv, NEW o \in Operators, PutTenant(o) PROVE FabInv'
<1> DEFINE new == Moved(fread[o], freq[o].target, freq[o].role)
<1>1. /\ freq[o] \in TenantRequests /\ fread[o] \in TenantDocs
      /\ TenantPath(fread[o])
      /\ freq[o].role \in TenantTransitions(fread[o].state, freq[o].target)
      /\ Done(o) /\ UNCHANGED deployment
      /\ tenant' = [tenant EXCEPT ![freq[o].record] = new]
  BY DEF PutTenant, FabInv, FabTypeOK, RequestOK, WriteOK
<1>2. /\ freq[o].record \in Tenants /\ freq[o].target \in TenantTargets
      /\ freq[o].role \in OperatorRoles
  BY <1>1 DEF TenantRequests
<1>3. new \in TenantDocs /\ new # Nothing
  BY <1>1, <1>2, MovedTenantType, FabricAssumption
<1>4. TenantPath(new)
  BY <1>1, <1>2, TenantPathGrows
<1> HIDE DEF new
<1>5. FabTypeOK'
  BY <1>1, <1>2, <1>3, DoneKeeps DEF FabInv, FabTypeOK, RequestOK
<1>6. HistoryIsLegal'
  BY <1>1, <1>2, <1>4 DEF FabInv, FabTypeOK, HistoryIsLegal
<1>7. \A p \in Operators : WriteOK(p)'
  BY <1>1, DoneKeeps DEF FabInv, WriteOK
<1> QED BY <1>5, <1>6, <1>7 DEF FabInv

\* A step of any request, or a publication, keeps the inductive invariant.
LEMMA FabStep == ASSUME FabInv, [FabNext]_fabVars PROVE FabInv'
<1>1. ASSUME NEW o \in Operators, OperatorStep(o) PROVE FabInv'
  BY <1>1, RegisterKeeps, AskKeeps, CheckMoveKeeps, CheckTenantKeeps, PutMoveKeeps,
     PutTenantKeeps DEF OperatorStep
<1>2. CASE UNCHANGED fabVars
  BY <1>2 DEF fabVars, FabInv, FabTypeOK, RequestOK, HistoryIsLegal, WriteOK
<1> QED BY <1>1, <1>2, PublishKeeps DEF FabNext

\* The inductive invariant.
LEMMA FabInvariant == FabSpec => []FabInv
BY FabInitInv, FabStep, PTL DEF FabSpec

\* What a write may do to a quarantine and to a retired tenant.
LEMMA ClosedStep ==
  ASSUME FabInv, FabNext
  PROVE  /\ \A d \in Deployments, o \in Operators :
              deployment[d] # Nothing /\ deployment[d].state = "quarantined"
                /\ deployment'[d] # deployment[d] /\ fpc[o] = "putMove" /\ fpc'[o] = "idle"
              => \/ fread[o] # deployment[d]
                 \/ /\ deployment'[d].state = "stopped"
                    /\ freq[o].role = "admin" /\ "admin" \in RolesOf[o]
         /\ \A t \in Tenants, o \in Operators :
              tenant[t] # Nothing /\ tenant[t].state = "retired"
                /\ tenant'[t] # tenant[t] /\ fpc[o] = "putTenant" /\ fpc'[o] = "idle"
              => fread[o] # tenant[t]
<1>1. ASSUME NEW o \in Operators, fpc[o] \in {"putMove", "putTenant"}, fpc'[o] = "idle"
      PROVE  PutMove(o) \/ PutTenant(o)
  <2>1. ASSUME NEW p \in Operators, OperatorStep(p), p # o PROVE FALSE
    BY <1>1, <2>1 DEF OperatorStep, AskRegister, Register, AskMove, CheckMove, PutMove, AskTenant,
       ListLive, CheckTenant, PutTenant, Done, FabInv, FabTypeOK
  <2>2. CASE \E d \in Deployments, t \in Tenants : Publish(d, t)
    BY <1>1, <2>2 DEF Publish
  <2>3. CASE OperatorStep(o)
    BY <1>1, <2>3 DEF OperatorStep, AskRegister, Register, AskMove, CheckMove, AskTenant, ListLive,
       CheckTenant
  <2> QED BY <2>1, <2>2, <2>3 DEF FabNext
<1>2. ASSUME NEW d \in Deployments, NEW o \in Operators,
             deployment[d].state = "quarantined", deployment'[d] # deployment[d],
             fpc[o] = "putMove", fpc'[o] = "idle", fread[o] = deployment[d]
      PROVE  /\ deployment'[d].state = "stopped"
             /\ freq[o].role = "admin" /\ "admin" \in RolesOf[o]
  <2>1. PutMove(o)
    BY <1>1, <1>2 DEF PutTenant
  <2>2. /\ freq[o].role \in Transitions("quarantined", freq[o].target)
        /\ freq[o].target \in DeploymentTargets /\ freq[o].role \in RolesOf[o]
    BY <1>2 DEF FabInv, FabTypeOK, RequestOK, WriteOK, DeploymentRequests
  <2>3. freq[o].role = "admin" /\ freq[o].target = "stopped"
    BY <2>2 DEF Transitions, DeploymentTargets
  <2>4. deployment'[d] = Moved(fread[o], freq[o].target, freq[o].role)
    BY <1>2, <2>1 DEF PutMove, FabInv, FabTypeOK
  <2>5. fread[o] \in DeploymentDocs
    BY <1>2 DEF FabInv, FabTypeOK, RequestOK
  <2>6. deployment'[d].state = freq[o].target
    BY <2>4, <2>5 DEF Moved, DeploymentDocs
  <2> QED BY <2>2, <2>3, <2>6
<1>3. ASSUME NEW t \in Tenants, NEW o \in Operators,
             tenant[t].state = "retired", fpc[o] = "putTenant", fread[o] = tenant[t]
      PROVE  FALSE
  <2>1. freq[o].role \in TenantTransitions("retired", freq[o].target)
    BY <1>3 DEF FabInv, WriteOK
  <2> QED BY <2>1 DEF TenantTransitions
<1> QED BY <1>2, <1>3

\* Type correctness of the stored documents and of the requests under way
\* (routes/fabric.py).
THEOREM FabricTypeCorrect == FabSpec => []FabTypeOK
<1>1. FabInv => FabTypeOK
  BY DEF FabInv
<1> QED BY <1>1, FabInvariant, PTL

\* However many operators overwrite each other, a stored history is a legal
\* path to the stored state (deployments.py and tenants.py, transition).
THEOREM HistoriesAreLegal == FabSpec => []HistoryIsLegal
<1>1. FabInv => HistoryIsLegal
  BY DEF FabInv
<1> QED BY <1>1, FabInvariant, PTL

\* A quarantine is lifted by an admin and into a stop, and a retired tenant
\* stays retired, except by requests that overwrite what they had not read
\* (deployments.py TRANSITIONS, tenants.py TERMINAL_TENANT_STATUSES).
THEOREM ClosedIsFinal == FabSpec => ClosedStaysClosed
<1>1. FabInv /\ [FabNext]_fabVars =>
        [/\ \A d \in Deployments, o \in Operators :
              deployment[d] # Nothing /\ deployment[d].state = "quarantined"
                /\ deployment'[d] # deployment[d] /\ fpc[o] = "putMove" /\ fpc'[o] = "idle"
              => \/ fread[o] # deployment[d]
                 \/ /\ deployment'[d].state = "stopped"
                    /\ freq[o].role = "admin" /\ "admin" \in RolesOf[o]
         /\ \A t \in Tenants, o \in Operators :
              tenant[t] # Nothing /\ tenant[t].state = "retired"
                /\ tenant'[t] # tenant[t] /\ fpc[o] = "putTenant" /\ fpc'[o] = "idle"
              => fread[o] # tenant[t]]_fabVars
  BY ClosedStep
<1> QED BY <1>1, FabInvariant, PTL DEF FabSpec, ClosedStaysClosed
-----------------------------------------------------------------------------
(***************************************************************************)
(* Tasks                                                                   *)
(***************************************************************************)
\* A run of the task ended well.
Worked(k) == \E i \in DOMAIN runs : runs[i].task = k /\ runs[i].state = "completed"

\* What DoneMeansWorked says of a document, stored or about to be.
DocWorked(doc, k) ==
  /\ doc.state = "done" => Worked(k)
  /\ doc.session # NoRun =>
       /\ doc.session \in DOMAIN runs
       /\ runs[doc.session].task = k
       /\ runs[doc.session].state # "running"

RunMine(x) == trun[x] \in DOMAIN runs /\ runs[trun[x]].task = treq[x].task

\* A person's request is one move or one write.  A starter's run is of the
\* task it started, and over before it is linked; done is asked for only
\* once a run ended well; and what is about to be written is a legal
\* document.
ReqOK(x) ==
  /\ tpc[x] # "idle" =>
       /\ treq[x].next \in {"idle", "progress", "run", "end"}
       /\ treq[x].target = "done" => Worked(treq[x].task)
  /\ x \notin Starters =>
       /\ tpc[x] \in {"idle", "move", "put"}
       /\ tpc[x] # "idle" => treq[x].next = "idle"
  /\ tpc[x] = "running" => RunMine(x) /\ runs[trun[x]].state = "running"
  /\ \/ tpc[x] \in {"link", "end"}
     \/ tpc[x] \in {"move", "put"} /\ treq[x].next = "end"
     => RunMine(x) /\ runs[trun[x]].state # "running"
  /\ tpc[x] = "put" => TaskPath(tread[x]) /\ DocWorked(tread[x], treq[x].task)

\* No two starters run the same session.
RunsApart ==
  \A x, y \in Requesters :
    x # y /\ tpc[x] = "running" /\ tpc[y] = "running" => trun[x] # trun[y]

TaskInv ==
  /\ TaskTypeOK
  /\ TaskHistoryIsLegal
  /\ \A k \in Tasks : DocWorked(task[k], k)
  /\ \A x \in Requesters : ReqOK(x)
  /\ RunsApart
-----------------------------------------------------------------------------
\* A document that is moved as the table allows is a document, with a legal
\* history.
LEMMA MovedTaskType ==
  ASSUME NEW doc \in TaskDocs, NEW t \in TaskStates, NEW side \in Sides
  PROVE  /\ MovedTask(doc, t, side) \in TaskDocs
         /\ MovedTask(doc, t, side).state = t
         /\ MovedTask(doc, t, side).session = doc.session
         /\ MovedTask(doc, t, side).path = Append(doc.path, [to |-> t, side |-> side])
<1>1. [to |-> t, side |-> side] \in [to : TaskStates, side : Sides]
  OBVIOUS
<1>2. Append(doc.path, [to |-> t, side |-> side])
        \in Seq([to : TaskStates, side : Sides])
  BY <1>1 DEF TaskDocs
<1> QED BY <1>2 DEF MovedTask, TaskDocs

LEMMA TaskPathGrows ==
  ASSUME NEW doc \in TaskDocs, TaskPath(doc), NEW t \in TaskStates,
         NEW side \in TaskTransitions(doc.state, t), side \in Sides
  PROVE  TaskPath(MovedTask(doc, t, side))
<1> DEFINE e == [to |-> t, side |-> side]
           new == MovedTask(doc, t, side)
           n == Len(doc.path)
<1>1. e \in [to : TaskStates, side : Sides]
  OBVIOUS
<1>2. /\ new.state = t /\ new.path = Append(doc.path, e)
      /\ doc.path \in Seq([to : TaskStates, side : Sides])
  BY MovedTaskType DEF TaskDocs
<1>3. /\ Len(new.path) = n + 1 /\ n \in Nat
      /\ \A i \in 1..n : new.path[i] = doc.path[i]
      /\ new.path[n + 1] = e
  BY <1>1, <1>2
<1> HIDE DEF new
<1>4. TaskAt(new, n + 1) = t
  BY <1>3 DEF TaskAt
<1>5. \A i \in 0..n : TaskAt(new, i) = TaskAt(doc, i)
  BY <1>3 DEF TaskAt
<1>6. ASSUME NEW i \in 1..(n + 1)
      PROVE  new.path[i].side \in TaskTransitions(TaskAt(new, i - 1), TaskAt(new, i))
  <2>1. CASE i = n + 1
    BY <1>3, <1>4, <1>5, <2>1 DEF TaskPath
  <2>2. CASE i \in 1..n
    <3>1. i - 1 \in 0..n /\ i \in 0..n
      BY <1>3, <2>2
    <3> QED BY <1>3, <1>5, <2>2, <3>1 DEF TaskPath
  <2> QED BY <1>3, <2>1, <2>2
<1> QED BY <1>2, <1>3, <1>4, <1>6 DEF TaskPath, new
\* What a session is.
LEMMA RunType ==
  ASSUME TaskTypeOK, NEW i \in DOMAIN runs
  PROVE  /\ runs[i] \in [task : Tasks, state : {"running", "completed", "failed"}]
         /\ i \in 1..Len(runs) /\ Len(runs) \in Nat
<1> DEFINE Run == [task : Tasks, state : {"running", "completed", "failed"}]
<1>1. runs \in Seq(Run)
  BY DEF TaskTypeOK
<1> HIDE DEF Run
<1>2. runs[i] \in Run /\ i \in 1..Len(runs) /\ Len(runs) \in Nat
  BY <1>1
<1> QED BY <1>2 DEF Run
-----------------------------------------------------------------------------
\* A step of one request that writes nothing and begins no run.
LEMMA LocalKeeps ==
  ASSUME TaskInv, NEW x \in Requesters, UNCHANGED <<task, runs>>, TaskTypeOK',
         \A y \in Requesters \ {x} :
           /\ tpc'[y] = tpc[y] /\ treq'[y] = treq[y]
           /\ tread'[y] = tread[y] /\ trun'[y] = trun[y],
         tpc'[x] # "running", ReqOK(x)'
  PROVE  TaskInv'
<1>1. TaskHistoryIsLegal' /\ (\A k \in Tasks : DocWorked(task[k], k))'
  BY DEF TaskInv, TaskHistoryIsLegal, DocWorked, Worked
<1>2. ASSUME NEW y \in Requesters, y # x PROVE ReqOK(y)'
  BY <1>2 DEF TaskInv, ReqOK, RunMine, DocWorked, Worked
<1>3. RunsApart'
  BY DEF TaskInv, RunsApart
<1> QED BY <1>1, <1>2, <1>3 DEF TaskInv

\* A request that ends is idle, and the others are where they were.
LEMMA EndsKeeps ==
  ASSUME TaskInv, NEW x \in Requesters, UNCHANGED <<task, runs>>, Ends(x)
  PROVE  TaskInv'
<1>1. /\ tpc'[x] = "idle"
      /\ \A y \in Requesters \ {x} :
           /\ tpc'[y] = tpc[y] /\ treq'[y] = treq[y]
           /\ tread'[y] = tread[y] /\ trun'[y] = trun[y]
  BY DEF Ends, Goto, TaskInv, TaskTypeOK
<1>2. TaskTypeOK'
  BY DEF Ends, Goto, TaskInv, TaskTypeOK, TaskPcs
<1>3. ReqOK(x)'
  BY <1>1 DEF ReqOK
<1> QED BY <1>1, <1>2, <1>3, LocalKeeps

\* A request is made by somebody whose document and run do not matter yet.
LEMMA RequestKeeps ==
  ASSUME TaskInv, NEW x \in Requesters, NEW k \in Tasks, NEW target \in TaskStates,
         NEW side \in Sides, NEW next \in {"idle", "progress", "run"},
         Request(x, k, target, side, next), UNCHANGED <<task, runs, tread, trun>>,
         target = "done" => Worked(k),
         x \notin Starters => next = "idle"
  PROVE  TaskInv'
<1> DEFINE rq == [task |-> k, target |-> target, side |-> side, next |-> next]
<1>1. rq \in TaskRequests
  BY DEF TaskRequests, TaskPcs
<1>2. /\ treq' = [treq EXCEPT ![x] = rq]
      /\ tpc' = [tpc EXCEPT ![x] = "move"]
  BY DEF Request, Goto
<1>3. TaskTypeOK'
  BY <1>1, <1>2 DEF TaskInv, TaskTypeOK, TaskPcs
<1>4. tpc'[x] = "move" /\ treq'[x] = rq
  BY <1>2 DEF TaskInv, TaskTypeOK
<1>5. ReqOK(x)'
  BY <1>4 DEF ReqOK, Worked
<1>6. \A y \in Requesters \ {x} : tpc'[y] = tpc[y] /\ treq'[y] = treq[y]
  BY <1>2 DEF TaskInv, TaskTypeOK
<1> QED BY <1>3, <1>4, <1>5, <1>6, LocalKeeps

\* A document is read, to be written next.
LEMMA ReadKeeps ==
  ASSUME TaskInv, NEW x \in Requesters, NEW rq \in TaskRequests, NEW doc \in TaskDocs,
         tpc' = [tpc EXCEPT ![x] = "put"], treq' = [treq EXCEPT ![x] = rq],
         tread' = [tread EXCEPT ![x] = doc], UNCHANGED <<task, runs, trun>>,
         rq.next \in {"idle", "progress", "run", "end"},
         rq.target = "done" => Worked(rq.task),
         x \notin Starters => rq.next = "idle",
         rq.next = "end" =>
           /\ trun[x] \in DOMAIN runs /\ runs[trun[x]].task = rq.task
           /\ runs[trun[x]].state # "running",
         TaskPath(doc), DocWorked(doc, rq.task)
  PROVE  TaskInv'
<1>1. TaskTypeOK'
  BY DEF TaskInv, TaskTypeOK, TaskPcs
<1>2. tpc'[x] = "put" /\ treq'[x] = rq /\ tread'[x] = doc
  BY DEF TaskInv, TaskTypeOK
<1>3. ReqOK(x)'
  BY <1>2 DEF ReqOK, RunMine, DocWorked, Worked
<1>4. \A y \in Requesters \ {x} :
        tpc'[y] = tpc[y] /\ treq'[y] = treq[y] /\ tread'[y] = tread[y]
  BY DEF TaskInv, TaskTypeOK
<1> QED BY <1>1, <1>2, <1>3, <1>4, LocalKeeps
-----------------------------------------------------------------------------
LEMMA TaskInitInv == TaskInit => TaskInv
<1> SUFFICES ASSUME TaskInit PROVE TaskInv
  OBVIOUS
<1>1. \A x \in Requesters : tpc[x] = "idle"
  BY DEF TaskInit
<1>2. TaskTypeOK
  <2>1. runs = <<>> /\ runs \in Seq([task : Tasks, state : {"running", "completed", "failed"}])
        /\ Len(runs) <= MaxRuns
    BY TaskAssumption DEF TaskInit
  <2>2. task \in [Tasks -> TaskDocs]
    BY DEF TaskInit, TaskDocs, TaskStates
  <2> QED BY <1>1, <2>1, <2>2 DEF TaskInit, TaskTypeOK, TaskPcs
<1>3. TaskHistoryIsLegal
  <2>1. ASSUME NEW k \in Tasks PROVE TaskPath(task[k])
    <3>1. task[k].state = "open" /\ task[k].path = <<>>
      BY DEF TaskInit
    <3>2. Len(task[k].path) = 0
      BY <3>1
    <3> QED BY <3>1, <3>2 DEF TaskPath, TaskAt
  <2> QED BY <2>1 DEF TaskHistoryIsLegal
<1>4. \A k \in Tasks : DocWorked(task[k], k)
  BY DEF TaskInit, DocWorked
<1>5. \A x \in Requesters : ReqOK(x)
  BY <1>1 DEF ReqOK, Requesters
<1> QED BY <1>1, <1>2, <1>3, <1>4, <1>5 DEF TaskInv, RunsApart

\* One lemma per action: the invariant is kept.
LEMMA MoveReadKeeps ==
  ASSUME TaskInv, NEW x \in Requesters, MoveRead(x) PROVE TaskInv'
<1> DEFINE rq == treq[x]
           doc == task[rq.task]
<1>1. /\ tpc[x] = "move" /\ rq \in TaskRequests /\ doc \in TaskDocs /\ TaskPath(doc)
      /\ DocWorked(doc, rq.task) /\ ReqOK(x) /\ UNCHANGED <<task, runs>>
      /\ rq.target \in TaskStates /\ rq.side \in Sides
  BY DEF MoveRead, TaskInv, TaskTypeOK, TaskRequests, TaskHistoryIsLegal
<1>2. CASE rq.side \in TaskTransitions(doc.state, rq.target)
  <2> DEFINE new == MovedTask(doc, rq.target, rq.side)
  <2>1. /\ tread' = [tread EXCEPT ![x] = new]
        /\ tpc' = [tpc EXCEPT ![x] = "put"]
        /\ UNCHANGED <<treq, trun>>
    BY <1>2 DEF MoveRead, Goto
  <2>2. /\ new \in TaskDocs /\ new.state = rq.target /\ new.session = doc.session
        /\ TaskPath(new)
    BY <1>1, <1>2, MovedTaskType, TaskPathGrows
  <2> HIDE DEF new
  <2>3. DocWorked(new, rq.task)
    BY <1>1, <2>2 DEF DocWorked, ReqOK
  <2>4. treq' = [treq EXCEPT ![x] = rq]
    BY <2>1 DEF TaskInv, TaskTypeOK
  <2> QED BY <1>1, <2>1, <2>2, <2>3, <2>4, ReadKeeps DEF ReqOK, RunMine
<1>3. CASE rq.side \notin TaskTransitions(doc.state, rq.target)
  <2>1. Ends(x)
    BY <1>3 DEF MoveRead
  <2> QED BY <1>1, <2>1, EndsKeeps
<1> QED BY <1>2, <1>3

LEMMA PutKeeps ==
  ASSUME TaskInv, NEW x \in Requesters, Put(x) PROVE TaskInv'
<1> DEFINE k == treq[x].task
           doc == tread[x]
<1>1. /\ tpc[x] = "put" /\ treq[x] \in TaskRequests /\ k \in Tasks
      /\ doc \in TaskDocs /\ TaskPath(doc) /\ DocWorked(doc, k) /\ ReqOK(x)
      /\ task' = [task EXCEPT ![k] = doc] /\ UNCHANGED runs /\ GoesOn(x)
  BY DEF Put, TaskInv, TaskTypeOK, TaskRequests, ReqOK
<1>2. task' \in [Tasks -> TaskDocs]
  BY <1>1 DEF TaskInv, TaskTypeOK
<1>3. TaskHistoryIsLegal' /\ (\A j \in Tasks : DocWorked(task[j], j))'
  BY <1>1 DEF TaskInv, TaskTypeOK, TaskHistoryIsLegal, DocWorked, Worked
<1>4. /\ \A y \in Requesters \ {x} :
           /\ tpc'[y] = tpc[y] /\ treq'[y] = treq[y]
           /\ tread'[y] = tread[y] /\ trun'[y] = trun[y]
      /\ tpc'[x] \in {"idle", "progress", "run", "end"}
      /\ tpc'[x] # "idle" =>
           tpc'[x] = treq[x].next /\ treq'[x] = treq[x] /\ trun'[x] = trun[x]
      /\ tpc' \in [Requesters -> TaskPcs]
      /\ treq' \in [Requesters -> TaskRequests \union {NoDoc}]
      /\ tread' \in [Requesters -> TaskDocs \union {NoDoc}]
      /\ trun' \in [Requesters -> RunIds \union {NoRun}]
      /\ trun'[x] \in {trun[x], NoRun}
  <2>1. CASE treq[x].next = "idle"
    BY <1>1, <2>1 DEF GoesOn, Ends, Goto, TaskInv, TaskTypeOK, TaskPcs
  <2>2. CASE treq[x].next # "idle"
    <3>1. treq[x].next \in {"progress", "run", "end"}
      BY <1>1, <2>2 DEF ReqOK
    <3> QED BY <1>1, <2>2, <3>1 DEF GoesOn, Goto, TaskInv, TaskTypeOK, TaskPcs
  <2> QED BY <2>1, <2>2
<1>5. TaskTypeOK'
  BY <1>1, <1>2, <1>4 DEF TaskInv, TaskTypeOK
<1>6. ReqOK(x)'
  BY <1>1, <1>4 DEF ReqOK, RunMine, Worked
<1>7. ASSUME NEW y \in Requesters, y # x PROVE ReqOK(y)'
  BY <1>1, <1>4, <1>7 DEF TaskInv, ReqOK, RunMine, DocWorked, Worked
<1>8. RunsApart'
  BY <1>4 DEF TaskInv, RunsApart
<1> QED BY <1>3, <1>5, <1>6, <1>7, <1>8 DEF TaskInv

LEMMA StartKeeps ==
  ASSUME TaskInv, NEW s \in Starters, NEW k \in Tasks, Start(s, k) PROVE TaskInv'
<1>1. s \in Requesters
  BY DEF Requesters
<1> QED BY <1>1, RequestKeeps DEF Start, TaskStates, Sides

LEMMA ProgressKeeps ==
  ASSUME TaskInv, NEW s \in Starters, Progress(s) PROVE TaskInv'
<1> DEFINE k == treq[s].task
           doc == task[k]
<1>1. /\ s \in Requesters /\ tpc[s] = "progress" /\ treq[s] \in TaskRequests /\ k \in Tasks
      /\ doc \in TaskDocs /\ TaskPath(doc) /\ DocWorked(doc, k) /\ ReqOK(s)
      /\ UNCHANGED <<task, runs, trun>>
  BY DEF Progress, Requesters, TaskInv, TaskTypeOK, TaskRequests, TaskHistoryIsLegal
<1>2. CASE doc.state = "claimed"
  <2>1. Request(s, k, "in_progress", "agent", "run") /\ UNCHANGED tread
    BY <1>2 DEF Progress
  <2> QED BY <1>1, <2>1, RequestKeeps DEF TaskStates, Sides
<1>3. CASE doc.state # "claimed"
  <2> DEFINE rq == [treq[s] EXCEPT !.next = "run"]
  <2>1. /\ tread' = [tread EXCEPT ![s] = doc]
        /\ treq' = [treq EXCEPT ![s] = rq]
        /\ tpc' = [tpc EXCEPT ![s] = "put"]
    BY <1>3 DEF Progress, Goto
  <2>2. /\ rq \in TaskRequests /\ rq.next = "run" /\ rq.task = k
        /\ rq.target = treq[s].target
    BY <1>1 DEF TaskRequests, TaskPcs
  <2>3. rq.target = "done" => Worked(rq.task)
    BY <1>1, <2>2 DEF ReqOK
  <2> HIDE DEF rq
  <2> QED BY <1>1, <2>1, <2>2, <2>3, ReadKeeps
<1> QED BY <1>2, <1>3

LEMMA RunRaisesKeeps ==
  ASSUME TaskInv, NEW s \in Starters, RunRaises(s) PROVE TaskInv'
BY EndsKeeps DEF RunRaises, Requesters

LEMMA LinkRunKeeps ==
  ASSUME TaskInv, NEW s \in Starters, LinkRun(s) PROVE TaskInv'
<1> DEFINE k == treq[s].task
           doc == task[k]
<1>1. /\ s \in Requesters /\ tpc[s] = "link" /\ treq[s] \in TaskRequests /\ k \in Tasks
      /\ doc \in TaskDocs /\ TaskPath(doc) /\ DocWorked(doc, k) /\ ReqOK(s)
      /\ UNCHANGED <<task, runs>>
  BY DEF LinkRun, Requesters, TaskInv, TaskTypeOK, TaskRequests, TaskHistoryIsLegal
<1>2. CASE doc.session \in {NoRun, trun[s]}
  <2> DEFINE rq == [treq[s] EXCEPT !.next = "end"]
             new == [doc EXCEPT !.session = trun[s]]
  <2>1. /\ tread' = [tread EXCEPT ![s] = new]
        /\ treq' = [treq EXCEPT ![s] = rq]
        /\ tpc' = [tpc EXCEPT ![s] = "put"] /\ UNCHANGED trun
    BY <1>2 DEF LinkRun, Goto
  <2>2. /\ rq \in TaskRequests /\ rq.next = "end" /\ rq.task = k
        /\ rq.target = treq[s].target
    BY <1>1 DEF TaskRequests, TaskPcs
  <2>3. rq.target = "done" => Worked(rq.task)
    BY <1>1, <2>2 DEF ReqOK
  <2>4. /\ trun[s] \in DOMAIN runs /\ runs[trun[s]].task = k
        /\ runs[trun[s]].state # "running"
    BY <1>1 DEF ReqOK, RunMine
  <2>5. /\ new \in TaskDocs /\ new.session = trun[s] /\ new.state = doc.state
        /\ new.path = doc.path
    BY <1>1 DEF TaskDocs, TaskInv, TaskTypeOK
  <2> HIDE DEF rq, new
  <2>6. TaskPath(new)
    BY <1>1, <2>5 DEF TaskPath, TaskAt
  <2>7. DocWorked(new, k)
    BY <1>1, <2>4, <2>5 DEF DocWorked
  <2> QED BY <1>1, <2>1, <2>2, <2>3, <2>4, <2>5, <2>6, <2>7, ReadKeeps
<1>3. CASE doc.session \notin {NoRun, trun[s]}
  BY <1>1, <1>3, EndsKeeps DEF LinkRun
<1> QED BY <1>2, <1>3

LEMMA RecordKeeps ==
  ASSUME TaskInv, NEW s \in Starters, Record(s) PROVE TaskInv'
<1> DEFINE k == treq[s].task
           target == IF runs[trun[s]].state = "failed" THEN "failed" ELSE "done"
<1>1. /\ s \in Requesters /\ k \in Tasks /\ ReqOK(s) /\ tpc[s] = "end"
      /\ UNCHANGED <<task, runs, tread, trun>>
      /\ Request(s, k, target, "agent", "idle")
  BY DEF Record, Requesters, TaskInv, TaskTypeOK, TaskRequests
<1>2. /\ trun[s] \in DOMAIN runs /\ runs[trun[s]].task = k
      /\ runs[trun[s]].state \in {"completed", "failed"}
  <2>1. /\ trun[s] \in DOMAIN runs /\ runs[trun[s]].task = k
        /\ runs[trun[s]].state # "running"
    BY <1>1 DEF ReqOK, RunMine
  <2>2. runs[trun[s]] \in [task : Tasks, state : {"running", "completed", "failed"}]
    BY <2>1, RunType DEF TaskInv
  <2> QED BY <2>1, <2>2
<1>3. target \in TaskStates /\ (target = "done" => Worked(k))
  BY <1>2 DEF TaskStates, Worked
<1> HIDE DEF target
<1> QED BY <1>1, <1>3, RequestKeeps DEF Sides

LEMMA PersonKeeps ==
  ASSUME TaskInv, NEW p \in Persons, PersonStep(p) PROVE TaskInv'
<1>1. p \in Requesters /\ p \notin Starters
  BY TaskAssumption DEF Requesters
<1>2. ASSUME NEW k \in Tasks, NEW t \in {"cancelled", "open"}, CancelOrReopen(p, k, t)
      PROVE  TaskInv'
  BY <1>1, <1>2, RequestKeeps DEF CancelOrReopen, TaskStates, Sides
<1>3. ASSUME NEW k \in Tasks, Comment(p, k) PROVE TaskInv'
  <2> DEFINE rq == [task |-> k, target |-> "open", side |-> "human", next |-> "idle"]
  <2>1. /\ rq \in TaskRequests /\ rq.next = "idle" /\ rq.target = "open" /\ rq.task = k
    BY DEF TaskRequests, TaskStates, Sides, TaskPcs
  <2>2. /\ tread' = [tread EXCEPT ![p] = task[k]]
        /\ treq' = [treq EXCEPT ![p] = rq]
        /\ tpc' = [tpc EXCEPT ![p] = "put"] /\ UNCHANGED <<task, runs, trun>>
    BY <1>3 DEF Comment, Goto
  <2>3. task[k] \in TaskDocs /\ TaskPath(task[k]) /\ DocWorked(task[k], k)
    BY DEF TaskInv, TaskTypeOK, TaskHistoryIsLegal
  <2> HIDE DEF rq
  <2> QED BY <1>1, <2>1, <2>2, <2>3, ReadKeeps
<1> QED BY <1>2, <1>3 DEF PersonStep
-----------------------------------------------------------------------------
\* A run that begins is nobody else's.
LEMMA RunBeginsKeeps ==
  ASSUME TaskInv, NEW s \in Starters, RunBegins(s) PROVE TaskInv'
<1> DEFINE n == Len(runs)
           new == [task |-> treq[s].task, state |-> "running"]
           Run == [task : Tasks, state : {"running", "completed", "failed"}]
<1>1. /\ s \in Requesters /\ tpc[s] = "run" /\ n < MaxRuns /\ new \in Run
      /\ runs \in Seq(Run) /\ n \in Nat /\ MaxRuns \in Nat
      /\ runs' = Append(runs, new)
      /\ trun' = [trun EXCEPT ![s] = n + 1]
      /\ tpc' = [tpc EXCEPT ![s] = "running"]
      /\ UNCHANGED <<task, treq, tread>>
  BY TaskAssumption DEF RunBegins, Goto, Requesters, TaskInv, TaskTypeOK, TaskRequests
<1>2. /\ runs' \in Seq(Run) /\ Len(runs') = n + 1 /\ DOMAIN runs' = 1..(n + 1)
      /\ DOMAIN runs = 1..n
      /\ \A i \in 1..n : runs'[i] = runs[i]
      /\ runs'[n + 1] = new
  BY <1>1
<1>3. n + 1 \in RunIds
  BY <1>1 DEF RunIds
<1>4. TaskTypeOK'
  <2>1. \A x \in Requesters : trun'[x] # NoRun => trun'[x] <= n + 1
    BY <1>1, TaskAssumption DEF TaskInv, TaskTypeOK, RunIds
  <2> QED BY <1>1, <1>2, <1>3, <2>1 DEF TaskInv, TaskTypeOK, TaskPcs
<1> HIDE DEF n, new, Run
<1>5. \A k : Worked(k) => Worked(k)'
  BY <1>1, <1>2 DEF Worked
<1>6. \A doc, k : DocWorked(doc, k) => DocWorked(doc, k)'
  BY <1>1, <1>2, <1>5 DEF DocWorked, new
<1>7. TaskHistoryIsLegal' /\ (\A k \in Tasks : DocWorked(task[k], k))'
  BY <1>1, <1>6 DEF TaskInv, TaskHistoryIsLegal
<1>8. ASSUME NEW y \in Requesters, y # s PROVE ReqOK(y)'
  <2>1. tpc'[y] = tpc[y] /\ trun'[y] = trun[y] /\ ReqOK(y)
    BY <1>1, <1>8 DEF TaskInv, TaskTypeOK
  <2> QED BY <1>1, <1>2, <1>5, <1>6, <2>1 DEF ReqOK, RunMine, Worked, DocWorked
<1>9. ReqOK(s)'
  <2>1. tpc'[s] = "running" /\ trun'[s] = n + 1 /\ ReqOK(s)
    BY <1>1 DEF TaskInv, TaskTypeOK
  <2>2. n + 1 \in DOMAIN runs' /\ runs'[n + 1] = new
    BY <1>1, <1>2
  <2> QED BY <1>1, <1>5, <2>1, <2>2 DEF ReqOK, RunMine, Worked, new
<1>10. RunsApart'
  <2>1. \A y \in Requesters : tpc[y] = "running" => trun[y] \in 1..n
    BY <1>2 DEF TaskInv, ReqOK, RunMine
  <2>2. \A y \in Requesters : y # s => tpc'[y] = tpc[y] /\ trun'[y] = trun[y]
    BY <1>1 DEF TaskInv, TaskTypeOK
  <2>3. trun'[s] = n + 1 /\ n + 1 \notin 1..n
    BY <1>1 DEF TaskInv, TaskTypeOK
  <2> QED BY <2>1, <2>2, <2>3 DEF RunsApart, TaskInv
<1> QED BY <1>4, <1>7, <1>8, <1>9, <1>10 DEF TaskInv

\* A run ends once, and what others know of theirs stays true.
LEMMA RunEndsKeeps ==
  ASSUME TaskInv, NEW s \in Starters, NEW how \in {"completed", "failed"}, RunEnds(s, how)
  PROVE  TaskInv'
<1> DEFINE i == trun[s]
           Run == [task : Tasks, state : {"running", "completed", "failed"}]
<1>1. /\ s \in Requesters /\ tpc[s] = "running"
      /\ i \in DOMAIN runs /\ runs[i].task = treq[s].task /\ runs[i].state = "running"
      /\ runs \in Seq(Run)
      /\ runs' = [runs EXCEPT ![i].state = how]
      /\ tpc' = [tpc EXCEPT ![s] = "link"]
      /\ UNCHANGED <<task, treq, tread, trun>>
  BY DEF RunEnds, Goto, Requesters, TaskInv, TaskTypeOK, ReqOK, RunMine
<1>2. /\ runs' \in Seq(Run) /\ Len(runs') = Len(runs) /\ DOMAIN runs' = DOMAIN runs
      /\ \A j \in DOMAIN runs : j # i => runs'[j] = runs[j]
      /\ runs'[i].task = treq[s].task /\ runs'[i].state = how
  <2>1. runs[i] \in Run /\ i \in 1..Len(runs) /\ Len(runs) \in Nat
    BY <1>1, RunType DEF TaskInv
  <2>2. [runs[i] EXCEPT !.state = how] \in Run
    BY <2>1
  <2>3. runs' = [runs EXCEPT ![i] = [runs[i] EXCEPT !.state = how]]
    BY <1>1
  <2> HIDE DEF Run, i
  <2>4. runs' \in Seq(Run) /\ Len(runs') = Len(runs) /\ DOMAIN runs' = DOMAIN runs
    BY <1>1, <2>1, <2>2, <2>3
  <2>5. \A j \in DOMAIN runs : j # i => runs'[j] = runs[j]
    BY <1>1, <2>3
  <2>6. runs'[i] = [runs[i] EXCEPT !.state = how]
    BY <1>1, <2>3
  <2> USE DEF Run
  <2> QED BY <1>1, <2>1, <2>4, <2>5, <2>6
<1>3. TaskTypeOK'
  BY <1>1, <1>2 DEF TaskInv, TaskTypeOK, TaskPcs
<1> HIDE DEF i, Run
<1>5. \A k : Worked(k) => Worked(k)'
  BY <1>1, <1>2 DEF Worked
<1>6. \A doc, k : DocWorked(doc, k) => DocWorked(doc, k)'
  BY <1>1, <1>2, <1>5 DEF DocWorked
<1>7. TaskHistoryIsLegal' /\ (\A k \in Tasks : DocWorked(task[k], k))'
  BY <1>1, <1>6 DEF TaskInv, TaskHistoryIsLegal
<1>8. ASSUME NEW y \in Requesters, y # s PROVE ReqOK(y)'
  <2>1. tpc'[y] = tpc[y] /\ trun'[y] = trun[y] /\ ReqOK(y)
    BY <1>1, <1>8 DEF TaskInv, TaskTypeOK
  <2>2. tpc[y] = "running" => trun[y] # i
    BY <1>1, <1>8 DEF TaskInv, RunsApart, i
  <2> QED BY <1>1, <1>2, <1>5, <1>6, <2>1, <2>2 DEF ReqOK, RunMine
<1>9. ReqOK(s)'
  <2>1. tpc'[s] = "link" /\ ReqOK(s)
    BY <1>1 DEF TaskInv, TaskTypeOK
  <2>2. /\ trun'[s] \in DOMAIN runs' /\ runs'[trun'[s]].task = treq'[s].task
        /\ runs'[trun'[s]].state # "running"
    BY <1>1, <1>2 DEF i
  <2> QED BY <1>1, <1>5, <2>1, <2>2 DEF ReqOK, RunMine
<1>10. RunsApart'
  BY <1>1 DEF TaskInv, TaskTypeOK, RunsApart
<1> QED BY <1>3, <1>7, <1>8, <1>9, <1>10 DEF TaskInv

\* A crash forgets the agent's requests, and no person has a run.
LEMMA CrashKeeps == ASSUME TaskInv, Crash PROVE TaskInv'
<1>1. /\ UNCHANGED <<task, runs>>
      /\ \A x \in Starters : tpc'[x] = "idle"
      /\ \A x \in Requesters \ Starters :
           /\ tpc'[x] = tpc[x] /\ treq'[x] = treq[x] /\ tread'[x] = tread[x]
           /\ tpc[x] \in {"idle", "move", "put"}
           /\ tpc[x] # "idle" => treq[x].next = "idle"
  BY DEF Crash, Requesters, TaskInv, ReqOK
<1>2. TaskTypeOK'
  BY <1>1 DEF Crash, TaskInv, TaskTypeOK, TaskPcs
<1>3. TaskHistoryIsLegal' /\ (\A k \in Tasks : DocWorked(task[k], k))'
  BY <1>1 DEF TaskInv, TaskHistoryIsLegal, DocWorked, Worked
<1>4. ASSUME NEW x \in Requesters PROVE ReqOK(x)'
  <2>1. CASE x \in Starters
    BY <1>1, <2>1 DEF ReqOK
  <2>2. CASE x \notin Starters
    BY <1>1, <2>2 DEF TaskInv, ReqOK, DocWorked, Worked
  <2> QED BY <2>1, <2>2
<1>5. \A x \in Requesters : tpc'[x] # "running"
  BY <1>1
<1> QED BY <1>2, <1>3, <1>4, <1>5 DEF TaskInv, RunsApart
-----------------------------------------------------------------------------
\* A step of either side, or a crash, keeps the inductive invariant.
LEMMA TaskStep == ASSUME TaskInv, [TaskNext]_taskVars PROVE TaskInv'
<1>1. ASSUME NEW x \in Requesters, MoveRead(x) \/ Put(x) PROVE TaskInv'
  BY <1>1, MoveReadKeeps, PutKeeps
<1>2. ASSUME NEW s \in Starters, StarterStep(s) PROVE TaskInv'
  BY <1>2, StartKeeps, ProgressKeeps, RunBeginsKeeps, RunRaisesKeeps, LinkRunKeeps,
     RecordKeeps, RunEndsKeeps DEF StarterStep
<1>3. ASSUME NEW p \in Persons, PersonStep(p) PROVE TaskInv'
  BY <1>3, PersonKeeps
<1>4. CASE UNCHANGED taskVars
  BY <1>4 DEF taskVars, TaskInv, TaskTypeOK, TaskHistoryIsLegal, DocWorked, Worked,
     ReqOK, RunMine, RunsApart
<1> QED BY <1>1, <1>2, <1>3, <1>4, CrashKeeps DEF TaskNext

\* The inductive invariant.
LEMMA TaskInvariant == TaskSpec => []TaskInv
BY TaskInitInv, TaskStep, PTL DEF TaskSpec

\* Type correctness of the tasks, their runs and the requests under way
\* (tasks/local.py, tasks/service.py).
THEOREM TaskTypeCorrect == TaskSpec => []TaskTypeOK
<1>1. TaskInv => TaskTypeOK
  BY DEF TaskInv
<1> QED BY <1>1, TaskInvariant, PTL

\* However the agent and the person overwrite each other, a task's history
\* leads from open to its state by moves of those who may (tasks/model.py).
THEOREM TaskHistoriesAreLegal == TaskSpec => []TaskHistoryIsLegal
<1>1. TaskInv => TaskHistoryIsLegal
  BY DEF TaskInv
<1> QED BY <1>1, TaskInvariant, PTL

\* A done task had a run that ended well, and a linked run is the task's own
\* and over, with any number of starters and crashes (tasks/service.py start).
THEOREM DoneWasWorkedOn == TaskSpec => []DoneMeansWorked
<1>1. TaskInv => DoneMeansWorked
  BY DEF TaskInv, DoneMeansWorked, DocWorked, Worked
<1> QED BY <1>1, TaskInvariant, PTL
-----------------------------------------------------------------------------
(***************************************************************************)
(* Together                                                                *)
(***************************************************************************)
\* A behaviour of the composition is of one subject; the other stands still.
LEMMA RecordsInvariant == RecordsSpec => [](FabInv /\ TaskInv)
<1>1. RecordsInit => FabInv /\ TaskInv
  BY FabInitInv, TaskInitInv DEF RecordsInit
<1>2. ASSUME FabInv, TaskInv, [RecordsNext]_<<subject, fabVars, taskVars>>
      PROVE  FabInv' /\ TaskInv'
  <2>1. [FabNext]_fabVars /\ [TaskNext]_taskVars
    BY <1>2 DEF RecordsNext
  <2> QED BY <1>2, <2>1, FabStep, TaskStep
<1> QED BY <1>1, <1>2, PTL DEF RecordsSpec

\* Type correctness of everything recorded: deployments, tenants and the
\* requests to move them (routes/fabric.py), tasks, their runs and the
\* requests for them (tasks/service.py).
THEOREM RecordsTypeCorrect == RecordsSpec => []RecordsTypeOK
<1>1. FabInv /\ TaskInv => RecordsTypeOK
  BY DEF FabInv, TaskInv, RecordsTypeOK
<1> QED BY <1>1, RecordsInvariant, PTL
=============================================================================
