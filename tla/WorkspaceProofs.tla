--------------------------- MODULE WorkspaceProofs ---------------------------
(***************************************************************************)
(* Proofs about Workspace: with any number of people and requests, the     *)
(* last owner goes only by being given another role, and two people hold   *)
(* what one lock covers only after requests that overlapped.               *)
(***************************************************************************)
EXTENDS Workspace, TLAPS

\* What a removal or a rename is about to write keeps an owner.
OwnersInv ==
  /\ OwnersGoByDemotion
  /\ \A p \in People :
       /\ req[p].op = "remove" => HasOwner(req[p].seen)
       /\ req[p].op = "rename" => demoted \/ HasOwner(req[p].seen)

\* A request to acquire that nobody disturbed knows the locks: what is
\* stored and had expired it will drop, and of the rest, whatever covers its
\* target is its own, found first, or there is none.
KnowsLocks(p) ==
  req[p].op \in {"acquire", "take"} /\ req[p].calm =>
    /\ \A k \in Stored : locks[k].expires <= req[p].now => k \in req[p].dropping
    /\ req[p].op = "take" \/ req[p].lock = 0 =>
         \A k \in StoredAt(req[p].now) : ~CoversTarget(k, req[p].reach.target)
    /\ req[p].op = "acquire" /\ req[p].lock # 0 =>
         req[p].lock \in DOMAIN locks /\ locks[req[p].lock].holder = p

\* What HoldersAreRaces says of live locks, of all that are stored.
RacesInv ==
  \A i, j \in Stored :
    i < j /\ CoversTarget(i, locks[j].reach.target) /\ locks[i].holder # locks[j].holder
    => ~locks[i].unraced \/ ~locks[j].unraced

LocksInv == RacesInv /\ \A p \in People : KnowsLocks(p)

WsInv == WsTypeOK /\ OwnersInv /\ LocksInv
-----------------------------------------------------------------------------
LEMMA QuietType ==
  /\ Quiet \in Requests /\ Quiet.op = "idle" /\ Quiet.dropping = {} /\ Quiet.calm = TRUE
  /\ Quiet.lock = 0 /\ Quiet.reach \in Reach /\ Quiet.seen = NoDocument /\ Quiet.now = 0
<1>1. (CHOOSE r \in Reach : TRUE) \in Reach
  BY WorkspaceAssumption
<1>2. MaxLocks \in Nat /\ 0 \in 0..MaxLocks
  BY WorkspaceAssumption
<1> QED BY <1>1, <1>2 DEF Quiet, Requests

LEMMA WsNumbers ==
  ASSUME WsTypeOK
  PROVE  /\ MaxLocks \in Nat /\ MaxClock \in Nat /\ TTL \in Nat /\ clock \in Nat
         /\ Len(locks) \in Nat /\ DOMAIN locks = 1..Len(locks)
         /\ DOMAIN locks \subseteq 1..MaxLocks
         /\ \A i \in DOMAIN locks : locks[i] \in LockDocs
         /\ Stored \subseteq DOMAIN locks
         /\ \A i \in DOMAIN locks : locks[i].expires \in Nat
         /\ \A p \in People : req[p] \in Requests /\ req[p].now \in Nat
<1>1. MaxLocks \in Nat /\ MaxClock \in Nat /\ TTL \in Nat
  BY WorkspaceAssumption
<1>2. /\ Len(locks) \in Nat /\ DOMAIN locks = 1..Len(locks) /\ Len(locks) <= MaxLocks
      /\ \A i \in DOMAIN locks : locks[i] \in LockDocs
  BY DEF WsTypeOK
<1>3. \A i \in DOMAIN locks : locks[i].expires \in Nat
  BY <1>2 DEF LockDocs
<1>4. \A p \in People : req[p] \in Requests /\ req[p].now \in Nat
  BY DEF WsTypeOK, Requests
<1>5. clock \in Nat
  BY <1>1 DEF WsTypeOK
<1> QED BY <1>1, <1>2, <1>3, <1>4, <1>5 DEF Stored

\* A step that is of one request, and leaves the locks alone.
LEMMA RequestChanges ==
  ASSUME WsInv, NEW p \in People, NEW r \in Requests,
         req' = [req EXCEPT ![p] = r], UNCHANGED <<members, locks, clock, demoted>>,
         r.op \in {"add", "remove", "rename"} => r.seen # NoDocument,
         r.op \in {"refresh", "drop"} => r.lock \in DOMAIN locks,
         r.dropping \subseteq DOMAIN locks,
         r.op = "remove" => HasOwner(r.seen),
         r.op = "rename" => demoted \/ HasOwner(r.seen),
         r.op \in {"acquire", "take"} /\ r.calm =>
           /\ \A k \in Stored : locks[k].expires <= r.now => k \in r.dropping
           /\ r.op = "take" \/ r.lock = 0 =>
                \A k \in StoredAt(r.now) : ~CoversTarget(k, r.reach.target)
           /\ r.op = "acquire" /\ r.lock # 0 =>
                r.lock \in DOMAIN locks /\ locks[r.lock].holder = p
  PROVE  WsInv'
<1>1. /\ req'[p] = r
      /\ \A q \in People \ {p} : req'[q] = req[q]
  BY DEF WsInv, WsTypeOK
<1>2. WsTypeOK'
  BY <1>1 DEF WsInv, WsTypeOK
<1>3. OwnersInv'
  BY <1>1 DEF WsInv, OwnersInv, OwnersGoByDemotion, HasOwner
<1>4. RacesInv'
  BY DEF WsInv, LocksInv, RacesInv, Stored, CoversTarget
<1>5. ASSUME NEW q \in People PROVE KnowsLocks(q)'
  <2>1. CASE q = p
    BY <1>1, <2>1 DEF KnowsLocks, Stored, StoredAt, CoversTarget
  <2>2. CASE q # p
    BY <1>1, <2>2 DEF WsInv, LocksInv, KnowsLocks, Stored, StoredAt, CoversTarget
  <2> QED BY <2>1, <2>2
<1> QED BY <1>2, <1>3, <1>4, <1>5 DEF WsInv, LocksInv

\* Whoever is under way when the locks change is disturbed.
LEMMA DisturbsOthers ==
  ASSUME WsTypeOK, NEW p \in People, NEW r \in Requests, Disturbs(p, r)
  PROVE  /\ req' \in [People -> Requests] /\ req'[p] = r
         /\ \A q \in People \ {p} :
              /\ req'[q].op = req[q].op /\ req'[q].seen = req[q].seen
              /\ req'[q].lock = req[q].lock /\ req'[q].dropping = req[q].dropping
              /\ req'[q].op # "idle" => req'[q].calm = FALSE
<1>1. ASSUME NEW q \in People, q # p
      PROVE  /\ req'[q] = [req[q] EXCEPT !.calm = req[q].op = "idle"]
             /\ req'[q] \in Requests
             /\ req'[q].op = req[q].op /\ req'[q].seen = req[q].seen
             /\ req'[q].lock = req[q].lock /\ req'[q].dropping = req[q].dropping
             /\ req'[q].calm = (req[q].op = "idle")
  <2>1. req'[q] = [req[q] EXCEPT !.calm = req[q].op = "idle"] /\ req[q] \in Requests
    BY <1>1 DEF Disturbs, WsTypeOK
  <2>2. (req[q].op = "idle") \in BOOLEAN
    OBVIOUS
  <2> QED BY <2>1, <2>2 DEF Requests
<1>2. req'[p] = r /\ req' = [q \in People |-> req'[q]]
  BY DEF Disturbs
<1>3. \A q \in People : req'[q] \in Requests
  BY <1>1, <1>2
<1> QED BY <1>1, <1>2, <1>3

\* A step that changes the locks, and ends or goes on as r.
LEMMA LocksChange ==
  ASSUME WsInv, NEW p \in People, NEW r \in Requests, Disturbs(p, r),
         UNCHANGED <<members, clock, demoted>>,
         locks' \in Seq(LockDocs), Len(locks') <= MaxLocks,
         DOMAIN locks \subseteq DOMAIN locks',
         r = Quiet \/ r = [req[p] EXCEPT !.dropping = {}],
         RacesInv',
         r.op # "idle" => KnowsLocks(p)'
  PROVE  WsInv'
<1>1. /\ req' \in [People -> Requests] /\ req'[p] = r
      /\ \A q \in People \ {p} :
           /\ req'[q].op = req[q].op /\ req'[q].seen = req[q].seen
           /\ req'[q].lock = req[q].lock /\ req'[q].dropping = req[q].dropping
           /\ req'[q].op # "idle" => req'[q].calm = FALSE
  BY DisturbsOthers DEF WsInv
<1>2. /\ req'[p].op \in {"idle", req[p].op}
      /\ req'[p].op # "idle" => req'[p].seen = req[p].seen /\ req'[p].lock = req[p].lock
      /\ req'[p].dropping = {}
  BY <1>1, QuietType DEF Requests, WsInv, WsTypeOK
<1>3. WsTypeOK'
  BY <1>1, <1>2 DEF WsInv, WsTypeOK
<1>4. OwnersInv'
  BY <1>1, <1>2 DEF WsInv, OwnersInv, OwnersGoByDemotion, HasOwner
<1>5. ASSUME NEW q \in People PROVE KnowsLocks(q)'
  BY <1>1 DEF KnowsLocks
<1> QED BY <1>3, <1>4, <1>5 DEF WsInv, LocksInv
-----------------------------------------------------------------------------
LEMMA WsInitInv == WsInit => WsInv
<1> SUFFICES ASSUME WsInit PROVE WsInv
  OBVIOUS
<1>1. \A p \in People : req[p] = Quiet
  BY DEF WsInit
<1>2. locks = <<>> /\ DOMAIN locks = {} /\ Len(locks) = 0
  BY DEF WsInit
<1>3. WsTypeOK
  <2>1. req \in [People -> Requests]
    BY QuietType DEF WsInit
  <2>2. MaxClock \in Nat /\ MaxLocks \in Nat /\ 0 \in 0..MaxClock
    BY WorkspaceAssumption
  <2>3. members \in [People -> Roles \union {Outsider}] /\ clock = 0 /\ demoted = FALSE
    BY WorkspaceAssumption DEF WsInit
  <2>4. locks \in Seq(LockDocs) /\ Len(locks) <= MaxLocks
    BY <1>2, <2>2
  <2>5. \A p \in People : req[p].op = "idle" /\ req[p].dropping \subseteq DOMAIN locks
    BY <1>1, QuietType
  <2> QED BY <2>1, <2>2, <2>3, <2>4, <2>5 DEF WsTypeOK
<1>4. OwnersInv
  BY <1>1, QuietType, WorkspaceAssumption DEF WsInit, OwnersInv, OwnersGoByDemotion, HasOwner
<1>5. LocksInv
  BY <1>1, <1>2, QuietType DEF LocksInv, RacesInv, KnowsLocks, Stored
<1> QED BY <1>3, <1>4, <1>5 DEF WsInv

\* Requests about members.
LEMMA AskMembersKeeps ==
  ASSUME WsInv, NEW p \in People, NEW q \in People,
         (\E role \in Roles : AskAdd(p, q, role)) \/ AskRemove(p, q) \/ AskRename(p)
  PROVE  WsInv'
<1>1. /\ req[p] \in Requests /\ members \in [People -> Roles \union {Outsider}]
      /\ req[p].op = "idle" /\ req[p].dropping \subseteq DOMAIN locks
      /\ UNCHANGED <<members, locks, clock, demoted>>
  BY DEF AskAdd, AskRemove, AskRename, WsInv, WsTypeOK
<1>2. ASSUME NEW op \in {"add", "remove", "rename"},
             NEW m \in [People -> Roles \union {Outsider}],
             req' = [req EXCEPT ![p].op = op, ![p].seen = m],
             op = "remove" => HasOwner(m), op = "rename" => demoted \/ HasOwner(m)
      PROVE  WsInv'
  <2> DEFINE r == [req[p] EXCEPT !.op = op, !.seen = m]
  <2>1. r \in Requests /\ r.op = op /\ r.seen = m /\ r.dropping = req[p].dropping
    BY <1>1 DEF Requests
  <2>2. req' = [req EXCEPT ![p] = r]
    BY <1>2 DEF WsInv, WsTypeOK
  <2>3. m # NoDocument
    BY WorkspaceAssumption
  <2> HIDE DEF r
  <2> QED BY <1>1, <1>2, <2>1, <2>2, <2>3, RequestChanges
<1>3. ASSUME NEW role \in Roles, AskAdd(p, q, role) PROVE WsInv'
  <2> DEFINE m == [members EXCEPT ![q] = role]
  <2>1. m \in [People -> Roles \union {Outsider}]
    BY <1>1
  <2>2. req' = [req EXCEPT ![p].op = "add", ![p].seen = m]
    BY <1>3 DEF AskAdd
  <2> HIDE DEF m
  <2> QED BY <1>2, <2>1, <2>2
<1>4. CASE AskRemove(p, q)
  <2>1. [members EXCEPT ![q] = Outsider] \in [People -> Roles \union {Outsider}]
    BY <1>1
  <2> QED BY <1>2, <1>4, <2>1 DEF AskRemove
<1>5. CASE AskRename(p)
  <2>1. demoted \/ HasOwner(members)
    BY DEF WsInv, OwnersInv, OwnersGoByDemotion
  <2> QED BY <1>1, <1>2, <1>5, <2>1 DEF AskRename
<1> QED BY <1>3, <1>4, <1>5

LEMMA SaveWorkspaceKeeps ==
  ASSUME WsInv, NEW p \in People, SaveWorkspace(p) PROVE WsInv'
<1>1. /\ req' = [req EXCEPT ![p] = Quiet] /\ members' = req[p].seen
      /\ UNCHANGED <<locks, clock>>
      /\ req[p] \in Requests /\ req[p].seen # NoDocument
      /\ req[p].op \in {"add", "remove", "rename"}
  BY DEF SaveWorkspace, Answered, WsInv, WsTypeOK
<1>2. /\ req'[p] = Quiet
      /\ \A q \in People \ {p} : req'[q] = req[q]
  BY <1>1 DEF WsInv, WsTypeOK
<1>3. demoted' \in BOOLEAN /\ (demoted => demoted')
      /\ (req[p].op = "add" => demoted' \/ HasOwner(req[p].seen))
  BY DEF SaveWorkspace
<1>4. WsTypeOK'
  BY <1>1, <1>2, <1>3, QuietType DEF WsInv, WsTypeOK, Requests
<1>5. demoted' \/ HasOwner(members')
  BY <1>1, <1>3 DEF WsInv, OwnersInv
<1>6. OwnersInv'
  <2>1. OwnersGoByDemotion'
    BY <1>5 DEF OwnersGoByDemotion, HasOwner
  <2>2. ASSUME NEW q \in People
        PROVE  /\ req'[q].op = "remove" => HasOwner(req'[q].seen)
               /\ req'[q].op = "rename" => demoted' \/ HasOwner(req'[q].seen)
    BY <1>2, <1>3, QuietType DEF WsInv, OwnersInv
  <2> QED BY <2>1, <2>2 DEF OwnersInv, HasOwner
<1>7. LocksInv'
  <2>1. RacesInv'
    BY <1>1 DEF WsInv, LocksInv, RacesInv, Stored, CoversTarget
  <2>2. ASSUME NEW q \in People PROVE KnowsLocks(q)'
    BY <1>1, <1>2, QuietType DEF WsInv, LocksInv, KnowsLocks, Stored, StoredAt, CoversTarget
  <2> QED BY <2>1, <2>2 DEF LocksInv
<1> QED BY <1>4, <1>6, <1>7 DEF WsInv

\* What a listing finds at the clock it reads.
LEMMA ListsKeeps ==
  ASSUME WsInv, NEW p \in People, NEW op \in {"list", "acquire", "refresh", "drop"},
         NEW reach \in Reach, NEW i \in 0..Len(locks), Lists(p, op, reach, i),
         op \in {"refresh", "drop"} => i # 0,
         op = "acquire" => HolderOf(reach.target, clock, i),
         op = "acquire" /\ i # 0 => locks[i].holder = p
  PROVE  WsInv'
<1> DEFINE r == [Quiet EXCEPT !.op = op, !.now = clock, !.reach = reach, !.lock = i,
                              !.dropping = Stored \ StoredAt(clock)]
<1>1. /\ Quiet \in Requests /\ i \in 0..MaxLocks /\ i \in Nat
      /\ i # 0 => i \in DOMAIN locks
      /\ Stored \subseteq DOMAIN locks /\ DOMAIN locks \subseteq 1..MaxLocks
      /\ clock \in Nat
  BY QuietType, WsNumbers DEF WsInv, WsTypeOK
<1>2. /\ r \in Requests /\ r.op = op /\ r.now = clock /\ r.reach = reach /\ r.lock = i
      /\ r.dropping = Stored \ StoredAt(clock)
  BY <1>1 DEF Requests
<1>3. req' = [req EXCEPT ![p] = r] /\ UNCHANGED <<members, locks, clock, demoted>>
  BY DEF Lists
<1> HIDE DEF r
<1>4. \A k \in Stored : locks[k].expires <= r.now => k \in r.dropping
  BY <1>2, WsNumbers DEF StoredAt, WsInv
<1>5. op = "acquire" /\ i = 0 => \A k \in StoredAt(r.now) : ~CoversTarget(k, r.reach.target)
  <2> SUFFICES ASSUME op = "acquire", i = 0, NEW k \in StoredAt(r.now),
                      CoversTarget(k, r.reach.target)
               PROVE  FALSE
    OBVIOUS
  <2>1. k # 0 /\ k \in {j \in StoredAt(clock) : CoversTarget(j, reach.target)}
    BY <1>1, <1>2, WsNumbers DEF StoredAt, WsInv
  <2> QED BY <2>1 DEF HolderOf, StoredAt, Stored
<1> QED BY <1>1, <1>2, <1>3, <1>4, <1>5, RequestChanges

LEMMA AsksKeep ==
  ASSUME WsInv, NEW p \in People, NEW r \in Reach, NEW i \in 0..Len(locks),
         \/ AskAcquire(p, r, i) \/ AskBreak(p, r.target, i) \/ AskInVain(p)
         \/ \E op \in {"refresh", "drop"} : AskOwn(p, op, r.target, i)
  PROVE  WsInv'
<1>1. Quiet.reach \in Reach /\ 0 \in 0..Len(locks)
  BY QuietType, WsNumbers DEF WsInv
<1>2. CASE AskAcquire(p, r, i)
  BY <1>2, ListsKeeps DEF AskAcquire
<1>3. CASE AskBreak(p, r.target, i)
  BY <1>1, <1>3, ListsKeeps DEF AskBreak
<1>4. CASE AskInVain(p)
  BY <1>1, <1>4, ListsKeeps DEF AskInVain
<1>5. ASSUME NEW op \in {"refresh", "drop"}, AskOwn(p, op, r.target, i) PROVE WsInv'
  BY <1>1, <1>5, ListsKeeps DEF AskOwn
<1> QED BY <1>2, <1>3, <1>4, <1>5

\* Undisturbed, the second look finds what the first one found.
LEMMA LookAgainKeeps ==
  ASSUME WsInv, NEW p \in People, NEW i \in 0..Len(locks), LookAgain(p, i)
  PROVE  WsInv'
<1> DEFINE now  == req[p].now
           t    == req[p].reach.target
           own  == i # 0 /\ locks[i].holder = p
           r == [req[p] EXCEPT !.dropping = Stored \ StoredAt(now),
                               !.op = IF own THEN "refresh" ELSE "take",
                               !.lock = IF own THEN i ELSE 0]
<1>1. /\ req[p] \in Requests /\ i \in 0..MaxLocks /\ 0 \in 0..MaxLocks /\ i \in Nat
      /\ i # 0 => i \in DOMAIN locks
      /\ Stored \subseteq DOMAIN locks /\ DOMAIN locks \subseteq 1..MaxLocks
  BY WsNumbers DEF WsInv, WsTypeOK
<1>2. /\ req[p].op = "acquire" /\ HolderOf(t, now, i)
      /\ req[p].calm => i = req[p].lock
      /\ UNCHANGED <<members, locks, clock, demoted>>
      /\ req' = [req EXCEPT ![p].dropping = Stored \ StoredAt(now),
           ![p].op = IF own THEN "refresh" ELSE "take", ![p].lock = IF own THEN i ELSE 0]
  BY DEF LookAgain
<1>3. req' = [req EXCEPT ![p] = r]
  BY <1>2 DEF WsInv, WsTypeOK
<1>4. /\ r \in Requests /\ r.op = IF own THEN "refresh" ELSE "take"
      /\ r.now = now /\ r.reach = req[p].reach /\ r.calm = req[p].calm
      /\ r.lock = IF own THEN i ELSE 0
      /\ r.dropping = Stored \ StoredAt(now)
  BY <1>1 DEF Requests
<1> HIDE DEF r
<1>5. \A k \in Stored : locks[k].expires <= r.now => k \in r.dropping
  BY <1>4, WsNumbers DEF StoredAt, WsInv
<1>6. r.op = "take" /\ r.calm =>
        \A k \in StoredAt(r.now) : ~CoversTarget(k, r.reach.target)
  <2> SUFFICES ASSUME ~own, req[p].calm, NEW k \in StoredAt(now), CoversTarget(k, t)
               PROVE  FALSE
    BY <1>4
  <2>1. KnowsLocks(p)
    BY DEF WsInv, LocksInv
  <2>2. i = 0
    BY <1>2, <2>1 DEF KnowsLocks
  <2>3. k # 0 /\ k \in {j \in StoredAt(now) : CoversTarget(j, t)}
    BY <1>1 DEF StoredAt
  <2>4. i \in {j \in StoredAt(now) : CoversTarget(j, t)}
    BY <1>2, <2>3 DEF HolderOf
  <2> QED BY <1>1, <2>2, <2>4 DEF StoredAt
<1>7. /\ r.op \in {"refresh", "drop"} => r.lock \in DOMAIN locks
      /\ r.op \in {"take", "refresh"} /\ r.dropping \subseteq DOMAIN locks
  BY <1>1, <1>4
<1> QED BY <1>2, <1>3, <1>4, <1>5, <1>6, <1>7, RequestChanges
-----------------------------------------------------------------------------
LEMMA DropExpiredKeeps ==
  ASSUME WsInv, NEW p \in People, DropExpired(p) PROVE WsInv'
<1> DEFINE r == IF req[p].op = "list" THEN Quiet ELSE [req[p] EXCEPT !.dropping = {}]
<1>1. /\ Disturbs(p, r) /\ UNCHANGED <<members, clock, demoted>>
      /\ req[p] \in Requests
      /\ locks' = [i \in DOMAIN locks |->
                     IF i \in req[p].dropping THEN [locks[i] EXCEPT !.stored = FALSE]
                                              ELSE locks[i]]
  BY DEF DropExpired, WsInv, WsTypeOK
<1>2. r \in Requests /\ (r = Quiet \/ r = [req[p] EXCEPT !.dropping = {}])
  BY <1>1, QuietType DEF Requests
<1>3. /\ DOMAIN locks' = DOMAIN locks
      /\ \A i \in DOMAIN locks :
           /\ locks'[i] \in LockDocs
           /\ locks'[i].stored => locks'[i] = locks[i] /\ i \notin req[p].dropping
           /\ locks'[i].holder = locks[i].holder
  BY <1>1, WsNumbers DEF LockDocs, WsInv
<1>4. locks' \in Seq(LockDocs) /\ Len(locks') = Len(locks)
  <2>1. DOMAIN locks = 1..Len(locks) /\ Len(locks) \in Nat
    BY WsNumbers DEF WsInv
  <2>2. locks' \in [1..Len(locks) -> LockDocs]
    BY <1>1, <1>3, <2>1
  <2> QED BY <2>1, <2>2
<1>5. RacesInv'
  BY <1>3 DEF WsInv, LocksInv, RacesInv, Stored, CoversTarget
<1>6. r.op # "idle" => KnowsLocks(p)'
  <2> SUFFICES ASSUME r.op # "idle" PROVE KnowsLocks(p)'
    OBVIOUS
  <2>1. r = [req[p] EXCEPT !.dropping = {}]
    BY <1>2, QuietType
  <2>2. /\ req'[p].op = req[p].op /\ req'[p].calm = req[p].calm
        /\ req'[p].now = req[p].now /\ req'[p].lock = req[p].lock
        /\ req'[p].reach = req[p].reach /\ req'[p].dropping = {}
    BY <1>1, <2>1 DEF Disturbs, Requests
  <2>3. KnowsLocks(p)
    BY DEF WsInv, LocksInv
  <2> QED BY <1>3, <2>2, <2>3 DEF KnowsLocks, Stored, StoredAt, CoversTarget
<1> HIDE DEF r
<1>7. Len(locks') <= MaxLocks
  BY <1>4 DEF WsInv, WsTypeOK
<1> QED BY <1>1, <1>2, <1>3, <1>4, <1>5, <1>6, <1>7, LocksChange

LEMMA DropLockKeeps ==
  ASSUME WsInv, NEW p \in People, DropLock(p) PROVE WsInv'
<1> DEFINE n == req[p].lock
<1>1. /\ Disturbs(p, Quiet) /\ UNCHANGED <<members, clock, demoted>>
      /\ n \in DOMAIN locks
      /\ locks' = [locks EXCEPT ![n].stored = FALSE]
  BY DEF DropLock, WsInv, WsTypeOK
<1>2. /\ DOMAIN locks' = DOMAIN locks
      /\ \A i \in DOMAIN locks :
           /\ locks'[i] \in LockDocs
           /\ locks'[i].stored => locks'[i] = locks[i]
  BY <1>1, WsNumbers DEF LockDocs, WsInv
<1>3. locks' \in Seq(LockDocs) /\ Len(locks') = Len(locks)
  <2>1. DOMAIN locks = 1..Len(locks) /\ Len(locks) \in Nat
    BY WsNumbers DEF WsInv
  <2>2. locks' \in [1..Len(locks) -> LockDocs]
    BY <1>1, <1>2, <2>1
  <2> QED BY <2>1, <2>2
<1>4. RacesInv'
  BY <1>2 DEF WsInv, LocksInv, RacesInv, Stored, CoversTarget
<1>5. Len(locks') <= MaxLocks
  BY <1>3 DEF WsInv, WsTypeOK
<1> QED BY <1>1, <1>2, <1>3, <1>4, <1>5, LocksChange, QuietType

\* A lock put back was there, or is marked as raced.
LEMMA RefreshKeeps ==
  ASSUME WsInv, NEW p \in People, Refresh(p) PROVE WsInv'
<1> DEFINE n == req[p].lock
           new == [locks[n] EXCEPT !.expires = req[p].now + TTL, !.stored = TRUE,
                                   !.unraced = locks[n].unraced /\ locks[n].stored]
<1>1. /\ Disturbs(p, Quiet) /\ UNCHANGED <<members, clock, demoted>>
      /\ n \in DOMAIN locks /\ locks[n] \in LockDocs
      /\ locks' = [locks EXCEPT ![n] = new]
  BY WsNumbers DEF Refresh, WsInv, WsTypeOK
<1>2. /\ new \in LockDocs /\ new.holder = locks[n].holder /\ new.reach = locks[n].reach
      /\ new.unraced => locks[n].unraced /\ locks[n].stored
  <2>1. req[p].now + TTL \in Nat
    BY WsNumbers DEF WsInv
  <2> QED BY <1>1, <2>1 DEF LockDocs
<1> HIDE DEF new
<1>3. /\ DOMAIN locks' = DOMAIN locks
      /\ \A i \in DOMAIN locks : locks'[i] = IF i = n THEN new ELSE locks[i]
  BY <1>1
<1>4. locks' \in Seq(LockDocs) /\ Len(locks') = Len(locks)
  <2>1. DOMAIN locks = 1..Len(locks) /\ Len(locks) \in Nat
    BY WsNumbers DEF WsInv
  <2>2. locks' \in [1..Len(locks) -> LockDocs]
    BY <1>1, <1>2, <1>3, <2>1, WsNumbers DEF WsInv
  <2> QED BY <2>1, <2>2
<1>5. \A i \in DOMAIN locks :
        /\ locks'[i].holder = locks[i].holder /\ locks'[i].reach = locks[i].reach
        /\ locks'[i].unraced /\ locks'[i].stored => locks[i].unraced /\ locks[i].stored
  BY <1>2, <1>3
<1>6. RacesInv'
  <2> SUFFICES ASSUME NEW i \in Stored', NEW j \in Stored', i < j,
                      CoversTarget(i, locks[j].reach.target)',
                      locks'[i].holder # locks'[j].holder,
                      locks'[i].unraced, locks'[j].unraced
               PROVE  FALSE
    BY DEF RacesInv
  <2>1. i \in DOMAIN locks /\ j \in DOMAIN locks /\ locks'[i].stored /\ locks'[j].stored
    BY <1>3 DEF Stored
  <2>2. /\ i \in Stored /\ j \in Stored /\ locks[i].unraced /\ locks[j].unraced
        /\ locks[i].holder # locks[j].holder
    BY <1>5, <2>1 DEF Stored
  <2>3. CoversTarget(i, locks[j].reach.target)
    BY <1>5, <2>1 DEF CoversTarget
  <2> QED BY <2>2, <2>3 DEF WsInv, LocksInv, RacesInv
<1>7. Len(locks') <= MaxLocks
  BY <1>4 DEF WsInv, WsTypeOK
<1> QED BY <1>1, <1>3, <1>4, <1>6, <1>7, LocksChange, QuietType

\* A lock taken by a request nobody disturbed is covered by no other.
LEMMA NewLockKeeps ==
  ASSUME WsInv, NEW p \in People, NewLock(p) PROVE WsInv'
<1> DEFINE n == Len(locks)
           new == [holder |-> p, reach |-> req[p].reach, expires |-> req[p].now + TTL,
                   stored |-> TRUE, unraced |-> req[p].calm]
<1>1. /\ Disturbs(p, Quiet) /\ UNCHANGED <<members, clock, demoted>>
      /\ req[p].op = "take" /\ req[p].dropping = {} /\ n < MaxLocks
      /\ locks' = Append(locks, new)
  BY DEF NewLock
<1>2. /\ n \in Nat /\ MaxLocks \in Nat /\ DOMAIN locks = 1..n
      /\ locks \in Seq(LockDocs) /\ Stored \subseteq 1..n
      /\ \A i \in 1..n : locks[i].expires \in Nat
      /\ req[p].now \in Nat /\ TTL \in Nat /\ req[p] \in Requests
  BY WsNumbers DEF WsInv, WsTypeOK
<1>3. /\ new \in LockDocs /\ new.reach = req[p].reach /\ new.holder = p
      /\ new.unraced = req[p].calm
  BY <1>2 DEF LockDocs, Requests
<1> HIDE DEF new
<1>4. /\ locks' \in Seq(LockDocs) /\ Len(locks') = n + 1 /\ DOMAIN locks' = 1..(n + 1)
      /\ \A i \in 1..n : locks'[i] = locks[i]
      /\ locks'[n + 1] = new
  BY <1>1, <1>2, <1>3
<1>5. ASSUME req[p].calm, NEW i \in Stored
      PROVE  ~CoversTarget(i, req[p].reach.target)
  <2>1. KnowsLocks(p)
    BY DEF WsInv, LocksInv
  <2>2. locks[i].expires > req[p].now
    BY <1>1, <1>2, <1>5, <2>1 DEF KnowsLocks
  <2> QED BY <1>1, <1>5, <2>1, <2>2 DEF KnowsLocks, StoredAt
<1>6. RacesInv'
  <2> SUFFICES ASSUME NEW i \in Stored', NEW j \in Stored', i < j,
                      CoversTarget(i, locks[j].reach.target)',
                      locks'[i].holder # locks'[j].holder,
                      locks'[i].unraced, locks'[j].unraced
               PROVE  FALSE
    BY DEF RacesInv
  <2>1. i \in 1..(n + 1) /\ j \in 1..(n + 1) /\ locks'[i].stored /\ locks'[j].stored
    BY <1>4 DEF Stored
  <2>2. i \in 1..n /\ locks'[i] = locks[i] /\ i \in Stored
    BY <1>2, <1>4, <2>1 DEF Stored
  <2>3. CASE j = n + 1
    <3>1. CoversTarget(i, req[p].reach.target)
      BY <1>3, <1>4, <2>2, <2>3 DEF CoversTarget
    <3> QED BY <1>3, <1>4, <1>5, <2>2, <2>3, <3>1
  <2>4. CASE j \in 1..n
    <3>1. locks'[j] = locks[j] /\ j \in Stored
      BY <1>2, <1>4, <2>1, <2>4 DEF Stored
    <3> QED BY <2>2, <3>1 DEF WsInv, LocksInv, RacesInv, CoversTarget
  <2>5. n \in Nat
    BY <1>2
  <2>6. j = n + 1 \/ j \in 1..n
    BY <2>1, <2>5
  <2> QED BY <2>3, <2>4, <2>6
<1>7. Len(locks') <= MaxLocks /\ DOMAIN locks \subseteq DOMAIN locks'
  BY <1>1, <1>2, <1>4
<1> QED BY <1>1, <1>4, <1>6, <1>7, LocksChange, QuietType

LEMMA TimePassesKeeps == ASSUME WsInv, TimePasses PROVE WsInv'
<1>1. UNCHANGED <<members, locks, req, demoted>> /\ clock' = clock + 1 /\ clock < MaxClock
  BY DEF TimePasses
<1>2. clock' \in 0..MaxClock
  BY <1>1, WorkspaceAssumption DEF WsInv, WsTypeOK
<1> QED BY <1>1, <1>2 DEF WsInv, WsTypeOK, OwnersInv, OwnersGoByDemotion, HasOwner, LocksInv,
           RacesInv, KnowsLocks, Stored, StoredAt, CoversTarget
-----------------------------------------------------------------------------
\* A step of anybody, or of time, keeps the inductive invariant.
LEMMA WsStep == ASSUME WsInv, [WsNext]_wsVars PROVE WsInv'
<1>1. ASSUME NEW p \in People, MemberStep(p) PROVE WsInv'
  BY <1>1, AskMembersKeeps, SaveWorkspaceKeeps DEF MemberStep
<1>2. ASSUME NEW p \in People, LockStep(p) PROVE WsInv'
  <2>1. ASSUME AskInVain(p) PROVE WsInv'
    <3>1. PICK r \in Reach : TRUE
      BY WorkspaceAssumption
    <3>2. 0 \in 0..Len(locks)
      BY WsNumbers DEF WsInv
    <3> QED BY <2>1, <3>1, <3>2, AsksKeep
  <2> QED BY <1>2, <2>1, AsksKeep, LookAgainKeeps, DropExpiredKeeps, RefreshKeeps,
             NewLockKeeps, DropLockKeeps DEF LockStep
<1>3. CASE UNCHANGED wsVars
  BY <1>3 DEF wsVars, WsInv, WsTypeOK, OwnersInv, OwnersGoByDemotion, HasOwner, LocksInv,
     RacesInv, KnowsLocks, Stored, StoredAt, CoversTarget
<1> QED BY <1>1, <1>2, <1>3, TimePassesKeeps DEF WsNext

\* The inductive invariant.
LEMMA WsInvariant == WsSpec => []WsInv
BY WsInitInv, WsStep, PTL DEF WsSpec

\* Type correctness of members, locks and requests (designer/service.py,
\* designer/locks.py).
THEOREM WorkspaceTypeCorrect == WsSpec => []WsTypeOK
<1>1. WsInv => WsTypeOK
  BY DEF WsInv
<1> QED BY <1>1, WsInvariant, PTL

\* No overlap of removals, renames and additions takes the last owner away:
\* only an addition that gave the last owner another role does
\* (designer/service.py, add_member and remove_member).
THEOREM OwnersAreOnlyDemoted == WsSpec => []OwnersGoByDemotion
<1>1. WsInv => OwnersGoByDemotion
  BY DEF WsInv, OwnersInv
<1> QED BY <1>1, WsInvariant, PTL

\* Two people hold what one lock covers only after a race, for any number of
\* people, locks and requests (designer/locks.py, acquire and heartbeat).
THEOREM SecondHoldersRaced == WsSpec => []HoldersAreRaces
<1>1. WsInv => HoldersAreRaces
  BY DEF WsInv, LocksInv, RacesInv, HoldersAreRaces, Live
<1> QED BY <1>1, WsInvariant, PTL
=============================================================================
