------------------------------- MODULE Fabric -------------------------------
(***************************************************************************)
(* Tenants and deployments of the fabric (fabric/deployments.py,           *)
(* fabric/tenants.py, fabric/rbac.py, routes/fabric.py; ADR-0049 to 0051). *)
(*                                                                         *)
(* A deployment and a tenant are documents with a state and an append-only *)
(* history.  An operator's request reads the document to choose the role   *)
(* it acts as, reads it again to check the move against the table, and     *)
(* writes the whole document back: three steps, with no lock, on the       *)
(* threads of the HTTP server.  Operators keep their roles during a run.   *)
(***************************************************************************)
EXTENDS Naturals, Sequences

CONSTANTS
  Tenants,
  Deployments,
  Operators,   \* people, one request at a time each
  RolesOf,     \* the roles an operator was granted
  Nothing,     \* no document
  MaxMoves     \* bound: entries of a history

OperatorRoles == {"automation", "operator", "admin"}

DeploymentStates == {"requested", "generated", "deployed", "running", "stopped",
                     "quarantined", "retired"}
TenantStatuses   == {"pending", "active", "suspended", "retired"}

\* Documents as they are stored.
Events         == [to : DeploymentStates \union TenantStatuses, by : OperatorRoles]
DeploymentDocs == [tenant : Tenants, state : DeploymentStates, history : Seq(Events)]
TenantDocs     == [state : TenantStatuses, history : Seq(Events)]

ASSUME FabricAssumption ==
  /\ RolesOf \in [Operators -> SUBSET OperatorRoles]
  /\ Nothing \notin DeploymentDocs /\ Nothing \notin TenantDocs
  /\ MaxMoves \in Nat

VARIABLES
  deployment,  \* the stored deployments: tenant, state and history
  tenant,      \* the stored tenants: status and history
  fpc,         \* where an operator's request is
  freq,        \* what it asks: the record, its target and the role acted as
  fread,       \* the document it read and is about to write back
  flive        \* whether it found live deployments of the tenant

fabVars == <<deployment, tenant, fpc, freq, fread, flive>>
-----------------------------------------------------------------------------
Anyone  == OperatorRoles
Staff   == {"operator", "admin"}
Running == {"automation", "operator"}

\* Fault variant: an operator lifts a quarantine as well.
TransitionsLax(s, t) ==
  CASE s = "requested"   /\ t = "generated"   -> Running
    [] s = "requested"   /\ t = "retired"     -> Staff
    [] s = "generated"   /\ t \in {"deployed", "retired"} -> Staff
    [] s = "deployed"    /\ t = "running"     -> Running
    [] s \in {"deployed", "running"} /\ t = "stopped" -> Staff
    [] s \in {"deployed", "running", "stopped"} /\ t = "quarantined" -> Anyone
    [] s = "stopped"     /\ t \in {"running", "retired"} -> Staff
    [] s = "quarantined" /\ t \in {"stopped", "retired"} -> Staff
    [] OTHER -> {}

\* TRANSITIONS of deployments.py: who may make a move; nobody, if it is none.
Transitions(s, t) ==
  CASE s = "requested"   /\ t = "generated"   -> Running
    [] s = "requested"   /\ t = "retired"     -> Staff
    [] s = "generated"   /\ t \in {"deployed", "retired"} -> Staff
    [] s = "deployed"    /\ t = "running"     -> Running
    [] s \in {"deployed", "running"} /\ t = "stopped" -> Staff
    [] s \in {"deployed", "running", "stopped"} /\ t = "quarantined" -> Anyone
    [] s = "stopped"     /\ t \in {"running", "retired"} -> Staff
    [] s = "quarantined" /\ t \in {"stopped", "retired"} -> {"admin"}
    [] OTHER -> {}

TenantTransitions(s, t) ==
  CASE s \in {"pending", "suspended"} /\ t = "active" -> Staff
    [] s \in {"pending", "active"} /\ t = "suspended" -> Staff
    [] s # "retired" /\ t = "retired" -> {"admin"}
    [] OTHER -> {}

LiveStates == {"requested", "generated", "deployed", "running", "quarantined"}

\* OPERATOR_ACTIONS and TENANT_ACTIONS: the moves there is a door for.
DeploymentTargets == {"generated", "deployed", "stopped", "quarantined", "running"}
TenantTargets     == {"active", "suspended", "retired"}

\* rbac.decide over ROLE_PERMISSIONS: may any of these roles ask?
MayMove(roles, target) ==
  IF target = "quarantined" THEN roles # {} ELSE roles \intersect Staff # {}
MayManage(roles)   == roles \intersect Staff # {}
MayRegister(roles) == "admin" \in roles

Strongest(roles) == IF "admin" \in roles THEN "admin"
                    ELSE IF "operator" \in roles THEN "operator" ELSE "automation"

\* _acting_role: the strongest role the table accepts, or else the strongest.
ActingRole(roles, allowed) ==
  IF roles \intersect allowed # {} THEN Strongest(roles \intersect allowed)
                                   ELSE Strongest(roles)

Moved(doc, target, role) ==
  [doc EXCEPT !.state = target, !.history = Append(@, [to |-> target, by |-> role])]

LiveOf(t) == {d \in Deployments : /\ deployment[d] # Nothing
                                  /\ deployment[d].tenant = t
                                  /\ deployment[d].state \in LiveStates}

NoRequest == [record |-> Nothing, target |-> Nothing, role |-> Nothing]

FabInit ==
  /\ deployment = [d \in Deployments |-> Nothing]
  /\ tenant = [t \in Tenants |-> Nothing]
  /\ fpc = [o \in Operators |-> "idle"]
  /\ freq = [o \in Operators |-> NoRequest]
  /\ fread = [o \in Operators |-> Nothing]
  /\ flive = [o \in Operators |-> FALSE]

Done(o) ==
  /\ fpc' = [fpc EXCEPT ![o] = "idle"]
  /\ freq' = [freq EXCEPT ![o] = NoRequest]
  /\ fread' = [fread EXCEPT ![o] = Nothing]
  /\ flive' = [flive EXCEPT ![o] = FALSE]
-----------------------------------------------------------------------------
(***************************************************************************)
(* Tenants are registered, designs are published                           *)
(***************************************************************************)
\* fabric_register_tenant: register finds no such tenant ...
AskRegister(o, t) ==
  /\ fpc[o] = "idle" /\ MayRegister(RolesOf[o]) /\ tenant[t] = Nothing
  /\ freq' = [freq EXCEPT ![o] = [record |-> t, target |-> "active", role |-> "admin"]]
  /\ fpc' = [fpc EXCEPT ![o] = "register"]
  /\ UNCHANGED <<deployment, tenant, fread, flive>>

\* ... and puts it, active, over whatever has come to be there since.
Register(o) ==
  /\ fpc[o] = "register"
  /\ tenant' = [tenant EXCEPT ![freq[o].record] = [state |-> "active", history |-> <<>>]]
  /\ Done(o)
  /\ UNCHANGED deployment

\* designer_publish asks for a deployment of any tenant there is.
Publish(d, t) ==
  /\ deployment[d] = Nothing /\ tenant[t] # Nothing
  /\ deployment' = [deployment EXCEPT ![d] =
                      [tenant |-> t, state |-> "requested", history |-> <<>>]]
  /\ UNCHANGED <<tenant, fpc, freq, fread, flive>>
-----------------------------------------------------------------------------
(***************************************************************************)
(* An operator moves a deployment                                          *)
(***************************************************************************)
\* fabric_operator_action: permission, and the role, from its own read.
AskMove(o, d, target) ==
  /\ fpc[o] = "idle" /\ deployment[d] # Nothing /\ MayMove(RolesOf[o], target)
  /\ freq' = [freq EXCEPT ![o] =
       [record |-> d, target |-> target,
        role |-> ActingRole(RolesOf[o], Transitions(deployment[d].state, target))]]
  /\ fpc' = [fpc EXCEPT ![o] = "move"]
  /\ UNCHANGED <<deployment, tenant, fread, flive>>

\* Fault variant: the document that was checked is not the one kept.
CheckMoveForgets(o) ==
  /\ fpc[o] = "move"
  /\ IF freq[o].role \in Transitions(deployment[freq[o].record].state, freq[o].target)
       THEN /\ Len(deployment[freq[o].record].history) < MaxMoves
            /\ fpc' = [fpc EXCEPT ![o] = "putMove"]
            /\ UNCHANGED <<freq, flive, fread>>
       ELSE Done(o)
  /\ UNCHANGED <<deployment, tenant>>

\* transition reads and checks: 409 off the table, 403 for the wrong role.
CheckMove(o) ==
  LET doc == deployment[freq[o].record]
  IN
  /\ fpc[o] = "move"
  /\ IF freq[o].role \in Transitions(doc.state, freq[o].target)
       THEN /\ Len(doc.history) < MaxMoves
            /\ fread' = [fread EXCEPT ![o] = doc]
            /\ fpc' = [fpc EXCEPT ![o] = "putMove"]
            /\ UNCHANGED <<freq, flive>>
       ELSE Done(o)
  /\ UNCHANGED <<deployment, tenant>>

\* Fault variant: the move is appended to the history as it is by now.
PutMoveMerged(o) ==
  /\ fpc[o] = "putMove"
  /\ deployment' = [deployment EXCEPT ![freq[o].record] =
                      Moved(@, freq[o].target, freq[o].role)]
  /\ Done(o)
  /\ UNCHANGED tenant

\* ... and writes the document it read, with the move.
PutMove(o) ==
  /\ fpc[o] = "putMove"
  /\ deployment' = [deployment EXCEPT ![freq[o].record] =
                      Moved(fread[o], freq[o].target, freq[o].role)]
  /\ Done(o)
  /\ UNCHANGED tenant
-----------------------------------------------------------------------------
(***************************************************************************)
(* An operator moves a tenant                                              *)
(***************************************************************************)
AskTenant(o, t, target) ==
  /\ fpc[o] = "idle" /\ tenant[t] # Nothing /\ MayManage(RolesOf[o])
  /\ freq' = [freq EXCEPT ![o] =
       [record |-> t, target |-> target,
        role |-> ActingRole(RolesOf[o], TenantTransitions(tenant[t].state, target))]]
  /\ fpc' = [fpc EXCEPT ![o] = "list"]
  /\ UNCHANGED <<deployment, tenant, fread, flive>>

\* fabric_deployments.list, evaluated before transition is entered.
ListLive(o) ==
  /\ fpc[o] = "list"
  /\ flive' = [flive EXCEPT ![o] = LiveOf(freq[o].record) # {}]
  /\ fpc' = [fpc EXCEPT ![o] = "tenant"]
  /\ UNCHANGED <<deployment, tenant, freq, fread>>

\* Fault variant: a tenant's last status is left like any other.
CheckTenantAny(o) ==
  LET doc == tenant[freq[o].record]
  IN
  /\ fpc[o] = "tenant"
  /\ IF freq[o].role \in Staff /\ doc.state # freq[o].target
       THEN /\ Len(doc.history) < MaxMoves
            /\ fread' = [fread EXCEPT ![o] = doc]
            /\ fpc' = [fpc EXCEPT ![o] = "putTenant"]
            /\ UNCHANGED <<freq, flive>>
       ELSE Done(o)
  /\ UNCHANGED <<deployment, tenant>>

\* transition: the table, the role, and no retirement over live deployments.
CheckTenant(o) ==
  LET doc == tenant[freq[o].record]
  IN
  /\ fpc[o] = "tenant"
  /\ IF /\ freq[o].role \in TenantTransitions(doc.state, freq[o].target)
        /\ ~(freq[o].target = "retired" /\ flive[o])
       THEN /\ Len(doc.history) < MaxMoves
            /\ fread' = [fread EXCEPT ![o] = doc]
            /\ fpc' = [fpc EXCEPT ![o] = "putTenant"]
            /\ UNCHANGED <<freq, flive>>
       ELSE Done(o)
  /\ UNCHANGED <<deployment, tenant>>

PutTenant(o) ==
  /\ fpc[o] = "putTenant"
  /\ tenant' = [tenant EXCEPT ![freq[o].record] =
                  Moved(fread[o], freq[o].target, freq[o].role)]
  /\ Done(o)
  /\ UNCHANGED deployment

OperatorStep(o) ==
  \/ \E t \in Tenants : AskRegister(o, t)
  \/ Register(o)
  \/ \E d \in Deployments, s \in DeploymentTargets : AskMove(o, d, s)
  \/ CheckMove(o) \/ PutMove(o)
  \/ \E t \in Tenants, s \in TenantTargets : AskTenant(o, t, s)
  \/ ListLive(o) \/ CheckTenant(o) \/ PutTenant(o)

FabNext ==
  \/ \E o \in Operators : OperatorStep(o)
  \/ \E d \in Deployments, t \in Tenants : Publish(d, t)

FabSpec == FabInit /\ [][FabNext]_fabVars
-----------------------------------------------------------------------------
\* Types, and what a request under way has read.
DeploymentRequests ==
  [record : Deployments, target : DeploymentTargets, role : OperatorRoles]
TenantRequests == [record : Tenants, target : TenantTargets, role : OperatorRoles]

RequestOK(o) ==
  /\ fpc[o] \in {"move", "putMove"} =>
       /\ freq[o] \in DeploymentRequests
       /\ deployment[freq[o].record] # Nothing
  /\ fpc[o] = "putMove" => fread[o] \in DeploymentDocs
  /\ fpc[o] \in {"list", "tenant", "putTenant"} =>
       /\ freq[o] \in TenantRequests
       /\ tenant[freq[o].record] # Nothing
  /\ fpc[o] = "register" => freq[o] \in TenantRequests
  /\ fpc[o] = "putTenant" => fread[o] \in TenantDocs

FabTypeOK ==
  /\ deployment \in [Deployments -> DeploymentDocs \union {Nothing}]
  /\ tenant \in [Tenants -> TenantDocs \union {Nothing}]
  /\ fpc \in [Operators -> {"idle", "register", "move", "putMove", "list", "tenant",
                           "putTenant"}]
  /\ freq \in [Operators -> DeploymentRequests \union TenantRequests \union {NoRequest}]
  /\ fread \in [Operators -> DeploymentDocs \union TenantDocs \union {Nothing}]
  /\ flive \in [Operators -> BOOLEAN]
  /\ \A o \in Operators : RequestOK(o)

\* A history is a legal path to the state beside it, each move made in a
\* role the table allows (deployments.py: an illegal move is refused, never
\* coerced; the history is the audit trail).  Requests that overwrite each
\* other must not leave a path nobody walked.
DeploymentAt(doc, i) == IF i = 0 THEN "requested" ELSE doc.history[i].to
TenantAt(doc, i)     == IF i = 0 THEN "active" ELSE doc.history[i].to

DeploymentPath(doc) ==
  /\ doc.state = DeploymentAt(doc, Len(doc.history))
  /\ \A i \in 1..Len(doc.history) :
       doc.history[i].by \in Transitions(DeploymentAt(doc, i - 1), DeploymentAt(doc, i))

TenantPath(doc) ==
  /\ doc.state = TenantAt(doc, Len(doc.history))
  /\ \A i \in 1..Len(doc.history) :
       doc.history[i].by \in TenantTransitions(TenantAt(doc, i - 1), TenantAt(doc, i))

HistoryIsLegal ==
  /\ \A d \in Deployments : deployment[d] # Nothing => DeploymentPath(deployment[d])
  /\ \A t \in Tenants : tenant[t] # Nothing => TenantPath(tenant[t])

\* A quarantine ends in stop or retirement, by an admin, and a retired
\* tenant stays retired: except for a request that read the document before
\* it got there (a registration, before there was one), and overwrites it.
ClosedStaysClosed ==
  [][/\ \A d \in Deployments, o \in Operators :
          deployment[d] # Nothing /\ deployment[d].state = "quarantined"
            /\ deployment'[d] # deployment[d] /\ fpc[o] = "putMove" /\ fpc'[o] = "idle"
          => \/ fread[o] # deployment[d]
             \/ /\ deployment'[d].state = "stopped"
                /\ freq[o].role = "admin" /\ "admin" \in RolesOf[o]
     /\ \A t \in Tenants, o \in Operators :
          tenant[t] # Nothing /\ tenant[t].state = "retired"
            /\ tenant'[t] # tenant[t] /\ fpc[o] = "putTenant" /\ fpc'[o] = "idle"
          => fread[o] # tenant[t]]_fabVars

\* The table's comment: the way out of quarantine is stop-and-investigate,
\* never straight back to running.
NeverStraightBack ==
  [][\A d \in Deployments :
       deployment[d] # Nothing /\ deployment[d].state = "quarantined"
         => deployment'[d].state # "running"]_fabVars

\* TenantRetirementBlocked: retiring must not strand workloads.
NoStrandedWorkload ==
  \A d \in Deployments : deployment[d] # Nothing /\ deployment[d].state = "running"
    => tenant[deployment[d].tenant].state # "retired"
=============================================================================
