----------------------------- MODULE Workspace -----------------------------
(***************************************************************************)
(* The people of a designer workspace and their locks on its design        *)
(* (designer/service.py, designer/locks.py, designer/rbac.py, ADR-0032,    *)
(* ADR-0033).                                                              *)
(*                                                                         *)
(* Members are a list inside the workspace's document, which every request *)
(* reads, checks and writes back whole.  A lock is a document of its own;  *)
(* asking about one drops what has expired, in the listing as it was read. *)
(* Nothing serialises two requests; a listing is in any order, the same    *)
(* until somebody writes.                                                  *)
(***************************************************************************)
EXTENDS Naturals, Sequences, FiniteSets

CONSTANTS
  People,
  FirstMembers,  \* the members to begin with
  Outsider,      \* no role
  Reach,         \* what a lock may be asked for: a scope and a target
  NoDocument,    \* a request that read no workspace
  TTL,           \* how long a lock lasts
  MaxLocks,      \* bound: locks ever taken
  MaxClock       \* bound: how long the model runs

Roles  == {"viewer", "reviewer", "editor", "admin", "owner"}
Scopes == {"system", "component"}

ASSUME WorkspaceAssumption ==
  /\ FirstMembers \in [People -> Roles \union {Outsider}]
  /\ \E p \in People : FirstMembers[p] = "owner"
  /\ Reach # {} /\ \A r \in Reach : r.scope \in Scopes
  /\ NoDocument \notin [People -> Roles \union {Outsider}]
  /\ {TTL, MaxLocks, MaxClock} \subseteq Nat

VARIABLES
  members,  \* the stored workspace: a role, or Outsider, for everybody
  locks,    \* every lock taken, and whether it is stored
  clock,
  req,      \* what each person's request is doing
  demoted   \* history: an addition replaced the last owner

wsVars == <<members, locks, clock, req, demoted>>
-----------------------------------------------------------------------------
MayManage(role) == role \in {"admin", "owner"}
MayLock(role)   == role \in {"editor", "admin", "owner"}

Stored == {i \in DOMAIN locks : locks[i].stored}
Live   == {i \in Stored : locks[i].expires > clock}

CoversTarget(i, t) == locks[i].reach.scope = "system" \/ locks[i].reach.target = t

\* now is the clock the request began at.  calm is history: nobody else has
\* written or dropped a lock since it first looked.
Quiet == [op |-> "idle", seen |-> NoDocument, now |-> 0, dropping |-> {}, lock |-> 0,
          reach |-> CHOOSE r \in Reach : TRUE, calm |-> TRUE]

WsInit ==
  /\ members = FirstMembers
  /\ locks = <<>>
  /\ clock = 0
  /\ req = [p \in People |-> Quiet]
  /\ demoted = FALSE

HasOwner(m) == \E p \in People : m[p] = "owner"

Answered(p) == req' = [req EXCEPT ![p] = Quiet]

\* p goes on as next, and has changed what the others under way looked at.
Disturbs(p, next) ==
  req' = [q \in People |-> IF q = p THEN next
                           ELSE [req[q] EXCEPT !.calm = req[q].op = "idle"]]
-----------------------------------------------------------------------------
(***************************************************************************)
(* Members                                                                 *)
(***************************************************************************)
\* add_member: whoever is there already is replaced, with the new role.
AskAdd(p, q, role) ==
  /\ req[p].op = "idle" /\ MayManage(members[p])
  /\ req' = [req EXCEPT ![p].op = "add", ![p].seen = [members EXCEPT ![q] = role]]
  /\ UNCHANGED <<members, locks, clock, demoted>>

\* Fault variant: that an owner remains is not looked at.
AskRemoveAnybody(p, q) ==
  /\ req[p].op = "idle" /\ MayManage(members[p])
  /\ req' = [req EXCEPT ![p].op = "remove", ![p].seen = [members EXCEPT ![q] = Outsider]]
  /\ UNCHANGED <<members, locks, clock, demoted>>

\* remove_member: an owner must remain, among the members it read.
AskRemove(p, q) ==
  /\ req[p].op = "idle" /\ MayManage(members[p])
  /\ HasOwner([members EXCEPT ![q] = Outsider])
  /\ req' = [req EXCEPT ![p].op = "remove", ![p].seen = [members EXCEPT ![q] = Outsider]]
  /\ UNCHANGED <<members, locks, clock, demoted>>

\* Fault variant: a rename writes what it never read.
AskRenameUnread(p) ==
  /\ req[p].op = "idle" /\ MayManage(members[p])
  /\ req' = [req EXCEPT ![p].op = "rename"]
  /\ UNCHANGED <<members, locks, clock, demoted>>

\* update_workspace writes the members it read, with a new name.
AskRename(p) ==
  /\ req[p].op = "idle" /\ MayManage(members[p])
  /\ req' = [req EXCEPT ![p].op = "rename", ![p].seen = members]
  /\ UNCHANGED <<members, locks, clock, demoted>>

SaveWorkspace(p) ==
  /\ req[p].op \in {"add", "remove", "rename"}
  /\ members' = req[p].seen
  /\ demoted' = (demoted \/ (req[p].op = "add" /\ ~HasOwner(req[p].seen)))
  /\ Answered(p)
  /\ UNCHANGED <<locks, clock>>
-----------------------------------------------------------------------------
(***************************************************************************)
(* Locks                                                                   *)
(***************************************************************************)
\* active: what has expired of the locks listed will be dropped.
StoredAt(now) == {i \in Stored : locks[i].expires > now}

\* holder_of: some lock that covers the target, 0 if there is none.
HolderOf(t, now, i) ==
  LET covering == {k \in StoredAt(now) : CoversTarget(k, t)}
  IN IF covering = {} THEN i = 0 ELSE i \in covering

Lists(p, op, reach, i) ==
  /\ req' = [req EXCEPT ![p] =
       [Quiet EXCEPT !.op = op, !.now = clock, !.reach = reach, !.lock = i,
                     !.dropping = Stored \ StoredAt(clock)]]
  /\ UNCHANGED <<members, locks, clock, demoted>>

\* A request that comes to nothing drops what it found expired all the same.
AskInVain(p) ==
  /\ req[p].op = "idle" /\ Stored # Live
  /\ Lists(p, "list", Quiet.reach, 0)

\* Fault variant: anybody's lock is taken for one's own.
AskAcquireAny(p, reach, i) ==
  /\ req[p].op = "idle" /\ MayLock(members[p]) /\ HolderOf(reach.target, clock, i)
  /\ Lists(p, "acquire", reach, i)

\* blocks: a lock of somebody else's on the target is a conflict.
AskAcquire(p, reach, i) ==
  /\ req[p].op = "idle" /\ MayLock(members[p]) /\ HolderOf(reach.target, clock, i)
  /\ i # 0 => locks[i].holder = p
  /\ Lists(p, "acquire", reach, i)

\* acquire lists again for a lock of one's own to refresh, and finds what
\* it found unless somebody wrote.
LookAgain(p, i) ==
  LET now == req[p].now
  IN
  /\ req[p].op = "acquire" /\ req[p].dropping = {} /\ HolderOf(req[p].reach.target, now, i)
  /\ req[p].calm => i = req[p].lock
  /\ req' = [req EXCEPT ![p].dropping = Stored \ StoredAt(now),
       ![p].op = IF i # 0 /\ locks[i].holder = p THEN "refresh" ELSE "take",
       ![p].lock = IF i # 0 /\ locks[i].holder = p THEN i ELSE 0]
  /\ UNCHANGED <<members, locks, clock, demoted>>

\* heartbeat and release look for a lock of one's own.
AskOwn(p, op, t, i) ==
  /\ req[p].op = "idle" /\ op \in {"refresh", "drop"}
  /\ HolderOf(t, clock, i) /\ i # 0 /\ locks[i].holder = p
  /\ Lists(p, op, Quiet.reach, i)

AskBreak(p, t, i) ==
  /\ req[p].op = "idle" /\ MayManage(members[p])
  /\ HolderOf(t, clock, i) /\ i # 0
  /\ Lists(p, "drop", Quiet.reach, i)

\* What had expired is dropped by its id, refreshed meanwhile or not.
DropExpired(p) ==
  /\ req[p].dropping # {}
  /\ locks' = [i \in DOMAIN locks |->
                 IF i \in req[p].dropping THEN [locks[i] EXCEPT !.stored = FALSE]
                                          ELSE locks[i]]
  /\ Disturbs(p, IF req[p].op = "list" THEN Quiet ELSE [req[p] EXCEPT !.dropping = {}])
  /\ UNCHANGED <<members, clock, demoted>>

\* put_lock: the lock found goes back with a new expiry, broken meanwhile or
\* not; unraced is history: it was still there.
Refresh(p) ==
  LET i == req[p].lock
  IN
  /\ req[p].op = "refresh" /\ req[p].dropping = {}
  /\ locks' = [locks EXCEPT ![i].expires = req[p].now + TTL, ![i].stored = TRUE,
       ![i].unraced = locks[i].unraced /\ locks[i].stored]
  /\ Disturbs(p, Quiet)
  /\ UNCHANGED <<members, clock, demoted>>

NewLock(p) ==
  /\ req[p].op = "take" /\ req[p].dropping = {} /\ Len(locks) < MaxLocks
  /\ locks' = Append(locks, [holder |-> p, reach |-> req[p].reach,
                             expires |-> req[p].now + TTL, stored |-> TRUE,
                             unraced |-> req[p].calm])
  /\ Disturbs(p, Quiet)
  /\ UNCHANGED <<members, clock, demoted>>

DropLock(p) ==
  /\ req[p].op = "drop" /\ req[p].dropping = {}
  /\ locks' = [locks EXCEPT ![req[p].lock].stored = FALSE]
  /\ Disturbs(p, Quiet)
  /\ UNCHANGED <<members, clock, demoted>>

TimePasses ==
  /\ clock < MaxClock
  /\ clock' = clock + 1
  /\ UNCHANGED <<members, locks, req, demoted>>

MemberStep(p) ==
  \/ \E q \in People : AskRemove(p, q) \/ \E role \in Roles : AskAdd(p, q, role)
  \/ AskRename(p) \/ SaveWorkspace(p)

LockStep(p) ==
  \/ \E r \in Reach, i \in 0..Len(locks) :
       \/ AskAcquire(p, r, i) \/ AskBreak(p, r.target, i)
       \/ \E op \in {"refresh", "drop"} : AskOwn(p, op, r.target, i)
  \/ \E i \in 0..Len(locks) : LookAgain(p, i)
  \/ AskInVain(p) \/ DropExpired(p) \/ Refresh(p) \/ NewLock(p) \/ DropLock(p)

WsNext == TimePasses \/ \E p \in People : MemberStep(p) \/ LockStep(p)

WsSpec == WsInit /\ [][WsNext]_wsVars
-----------------------------------------------------------------------------
LockDocs == [holder : People, reach : Reach, expires : Nat, stored : BOOLEAN,
             unraced : BOOLEAN]

Requests == [op : {"idle", "add", "remove", "rename", "list", "acquire", "take",
                   "refresh", "drop"},
             seen : [People -> Roles \union {Outsider}] \union {NoDocument},
             now : Nat, dropping : SUBSET (1..MaxLocks), lock : 0..MaxLocks,
             reach : Reach, calm : BOOLEAN]

WsTypeOK ==
  /\ members \in [People -> Roles \union {Outsider}]
  /\ locks \in Seq(LockDocs) /\ Len(locks) <= MaxLocks
  /\ clock \in 0..MaxClock /\ demoted \in BOOLEAN
  /\ req \in [People -> Requests]
  /\ \A p \in People :
       /\ req[p].op \in {"add", "remove", "rename"} => req[p].seen # NoDocument
       /\ req[p].op \in {"refresh", "drop"} => req[p].lock \in DOMAIN locks
       /\ req[p].dropping \subseteq DOMAIN locks

\* remove_member: a workspace must keep at least one owner.  However many
\* removals, renames and additions overwrite each other, no workspace loses
\* its owners unless an addition gave the last one another role.
OwnersGoByDemotion == demoted \/ HasOwner(members)

\* LockConflict: somebody holds what another's older lock covers only by a
\* race: one of the two was taken after somebody else had written or
\* dropped a lock since its holder looked, or was put back after it had
\* been broken, released or dropped.
HoldersAreRaces ==
  \A i, j \in Live :
    i < j /\ CoversTarget(i, locks[j].reach.target) /\ locks[i].holder # locks[j].holder
    => ~locks[i].unraced \/ ~locks[j].unraced

\* service.py: a workspace must keep at least one owner.
KeepsAnOwner == HasOwner(members)
=============================================================================
