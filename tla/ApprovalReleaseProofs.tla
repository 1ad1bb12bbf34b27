------------------------ MODULE ApprovalReleaseProofs ------------------------
(***************************************************************************)
(* Proofs about ApprovalRelease: for any releases, threads and restarts, a *)
(* release that has not expired is granted at most once and is on disk     *)
(* before it is; and a call is made only on a grant of its own, for that   *)
(* very call, which no other call was made on.                             *)
(***************************************************************************)
EXTENDS ApprovalRelease, FiniteSetTheorems, FunctionTheorems, TLAPS

Holding(h) == hpc[h] \in {"noted", "used"}

\* The nonce of a live release, on its way from memory to disk to a grant.
MemoryHolds  == \A r \in Unexpired : r \in file => r \in seen
UsedIsOnDisk == \A h \in Handlers :
                  hpc[h] = "used" /\ hrel[h] \in Unexpired => hrel[h] \in file
HeldIsNew    == \A h \in Handlers :
                  Holding(h) /\ hrel[h] \in Unexpired
                    => hrel[h] \in seen /\ granted[hrel[h]] = 0
HeldByOne    == \A g, h \in Handlers :
                  Holding(g) /\ Holding(h) /\ hrel[g] = hrel[h]
                    /\ hrel[g] \in Unexpired => g = h

NonceInv == /\ MemoryHolds /\ UsedIsOnDisk /\ HeldIsNew /\ HeldByOne
            /\ DurableBeforeGrant /\ UsedOnceWhileFresh

RelInv == RelTypeOK /\ NonceInv

\* The parts of the type invariant the argument about nonces needs.
LEMMA RelInitInv == RelInit => RelInv
<1> SUFFICES ASSUME RelInit PROVE RelInv
  OBVIOUS
<1> USE ApprovalAssumption
<1>1. RelTypeOK
  BY DEF RelInit, RelTypeOK, HandlerPcs, RunPcs, Grants
<1>2. \A h \in Handlers : ~Holding(h) /\ hpc[h] # "used"
  BY DEF RelInit, Holding
<1>3. NonceInv
  BY <1>2 DEF RelInit, NonceInv, MemoryHolds, UsedIsOnDisk, HeldIsNew,
     HeldByOne, DurableBeforeGrant, UsedOnceWhileFresh, Unexpired
<1> QED BY <1>1, <1>3 DEF RelInv

\* Every step keeps the types, and the lock with whoever notes a nonce.
LEMMA RelTypeStep == RelTypeOK /\ [RelNext]_relVars => RelTypeOK'
<1> SUFFICES ASSUME RelTypeOK, [RelNext]_relVars PROVE RelTypeOK'
  OBVIOUS
<1> USE ApprovalAssumption DEF RelTypeOK
<1>1. ASSUME NEW h \in Handlers, NEW r \in Releases, Verify(h, r)
      PROVE  RelTypeOK'
  BY <1>1 DEF Verify, HandlerPcs, storeVars, runVars
<1>2. ASSUME NEW h \in Handlers, Admit(h) PROVE RelTypeOK'
  BY <1>2 DEF Admit, HandlerPcs, storeVars, runVars
<1>3. ASSUME NEW h \in Handlers, UseNonce(h) PROVE RelTypeOK'
  <2>1. CASE hrel[h] \in seen \ expired
    BY <1>3, <2>1 DEF UseNonce, HandlerPcs, runVars
  <2>2. CASE hrel[h] \notin seen \ expired
    <3>1. /\ hpc[h] = "unseen" /\ lock = NoOne /\ lock' = h
          /\ hpc' = [hpc EXCEPT ![h] = "noted"]
          /\ seen' = (seen \ expired) \union {hrel[h]}
          /\ UNCHANGED <<expired, file, hrel, grants, runVars, granted, made,
                         restarts>>
      BY <1>3, <2>2 DEF UseNonce
    <3>2. \A g \in Handlers : lock' = g <=> hpc'[g] = "noted"
      BY <3>1
    <3>3. hpc' \in [Handlers -> HandlerPcs]
      BY <3>1 DEF HandlerPcs
    <3> QED BY <3>1, <3>2, <3>3 DEF runVars
  <2> QED BY <2>1, <2>2
<1>4. ASSUME NEW h \in Handlers, WriteNonce(h) PROVE RelTypeOK'
  BY <1>4 DEF WriteNonce, HandlerPcs, runVars
<1>5. ASSUME NEW h \in Handlers, Grant(h) PROVE RelTypeOK'
  <2>1. /\ CallOf[hrel[h]] \in Calls
        /\ [rel |-> hrel[h], fresh |-> TRUE] \in Grants
    BY DEF Grants
  <2>2. grants' \in [Calls -> Seq(Grants)]
    BY <1>5, <2>1 DEF Grant
  <2>3. granted' \in [Releases -> Nat]
    BY <1>5 DEF Grant
  <2>4. hpc' \in [Handlers -> HandlerPcs]
    BY <1>5 DEF Grant, HandlerPcs
  <2> QED BY <1>5, <2>2, <2>3, <2>4 DEF Grant, storeVars, runVars
<1>6. ASSUME NEW u \in Runs, NEW c \in Calls, Ask(u, c) PROVE RelTypeOK'
  BY <1>6 DEF Ask, RunPcs, storeVars, handlerVars
<1>7. ASSUME NEW u \in Runs, Look(u) PROVE RelTypeOK'
  BY <1>7 DEF Look, RunPcs, storeVars, handlerVars
<1>8. ASSUME NEW u \in Runs, Pop(u) PROVE RelTypeOK'
  <2> DEFINE pending == grants[rcall[u]]
  <2>0. pending \in Seq(Grants)
    OBVIOUS
  <2>1. CASE pending = <<>>
    BY <1>8, <2>1 DEF Pop, RunPcs, storeVars, handlerVars
  <2>2. CASE pending # <<>>
    <3>1. Head(pending) \in Grants /\ Tail(pending) \in Seq(Grants)
      BY <2>0, <2>2
    <3>2. grants' \in [Calls -> Seq(Grants)]
      BY <1>8, <2>2, <3>1 DEF Pop
    <3>3. Head(pending).rel \in Releases
      BY <3>1 DEF Grants
    <3>4. /\ UNCHANGED <<expired, seen, file, lock, hpc, hrel, rcall, granted,
                        made, restarts>>
          /\ rpc[u] = "popping"
      BY <1>8 DEF Pop, storeVars, handlerVars
    <3>5. CASE Head(pending).fresh
      <4>1. /\ rpc' = [rpc EXCEPT ![u] = "released"]
            /\ rgrant' = [rgrant EXCEPT ![u] = Head(pending).rel]
        BY <1>8, <2>2, <3>5 DEF Pop
      <4> QED BY <3>2, <3>3, <3>4, <4>1 DEF RunPcs
    <3>6. CASE ~Head(pending).fresh
      <4>1. rpc' = [rpc EXCEPT ![u] = "asking"] /\ UNCHANGED rgrant
        BY <1>8, <2>2, <3>6 DEF Pop
      <4> QED BY <3>2, <3>4, <4>1 DEF RunPcs
    <3> QED BY <3>5, <3>6
  <2> QED BY <2>1, <2>2
<1>9. ASSUME NEW u \in Runs, Make(u) PROVE RelTypeOK'
  BY <1>9 DEF Make, RunPcs, storeVars, handlerVars
<1>10. ASSUME NEW r \in Releases, Expire(r) PROVE RelTypeOK'
  BY <1>10 DEF Expire, Unexpired, storeVars, handlerVars, runVars
<1>11. ASSUME NEW c \in Calls, Lapse(c) PROVE RelTypeOK'
  <2>1. PICK i \in 1..Len(grants[c]) :
          grants' = [grants EXCEPT ![c] = [@ EXCEPT ![i] = Stale(grants[c][i])]]
    BY <1>11 DEF Lapse
  <2>2. grants[c] \in Seq(Grants) /\ grants[c][i] \in Grants
    OBVIOUS
  <2>3. Stale(grants[c][i]) \in Grants
    BY <2>2 DEF Grants, Stale
  <2>4. [grants[c] EXCEPT ![i] = Stale(grants[c][i])] \in Seq(Grants)
    BY <2>2, <2>3
  <2>5. grants' \in [Calls -> Seq(Grants)]
    BY <2>1, <2>4
  <2> QED BY <1>11, <2>5 DEF Lapse, storeVars, handlerVars, runVars
<1>12. CASE Restart
  BY <1>12 DEF Restart, HandlerPcs, RunPcs
<1>13. CASE UNCHANGED relVars
  BY <1>13 DEF relVars, storeVars, handlerVars, runVars
<1> QED
  BY <1>1, <1>2, <1>3, <1>4, <1>5, <1>6, <1>7, <1>8, <1>9, <1>10, <1>11, <1>12,
     <1>13 DEF RelNext, HandlerStep, RunStep

\* Every step keeps the story of each live nonce.
LEMMA NonceStep == RelInv /\ [RelNext]_relVars => NonceInv'
<1> SUFFICES ASSUME RelTypeOK, NonceInv, [RelNext]_relVars PROVE NonceInv'
  BY DEF RelInv
<1> USE DEF NonceInv, MemoryHolds, UsedIsOnDisk, HeldIsNew, HeldByOne,
        DurableBeforeGrant, UsedOnceWhileFresh, Holding, Unexpired
<1>1. ASSUME NEW h \in Handlers, NEW r \in Releases, Verify(h, r)
      PROVE  NonceInv'
  BY <1>1 DEF Verify, storeVars, RelTypeOK
<1>2. ASSUME NEW h \in Handlers, Admit(h) PROVE NonceInv'
  BY <1>2 DEF Admit, storeVars, RelTypeOK
<1>3. ASSUME NEW h \in Handlers, UseNonce(h) PROVE NonceInv'
  <2>1. CASE hrel[h] \in seen \ expired
    BY <1>3, <2>1 DEF UseNonce, RelTypeOK
  <2>2. CASE hrel[h] \notin seen \ expired
    \* Not in memory: nobody holds it, and it was never granted.
    <3>1. hrel[h] \notin expired =>
            /\ hrel[h] \notin file
            /\ granted[hrel[h]] = 0
            /\ \A g \in Handlers : Holding(g) => hrel[g] # hrel[h]
      BY <2>2 DEF RelTypeOK
    <3>2. /\ seen' = (seen \ expired) \union {hrel[h]}
          /\ hpc' = [hpc EXCEPT ![h] = "noted"]
          /\ hpc[h] = "unseen"
          /\ UNCHANGED <<expired, file, hrel, granted>>
      BY <1>3, <2>2 DEF UseNonce
    <3>3. MemoryHolds' /\ UsedIsOnDisk'
      BY <3>2 DEF RelTypeOK
    <3>4. HeldIsNew'
      BY <3>1, <3>2 DEF RelTypeOK
    <3>5. HeldByOne'
      BY <3>1, <3>2 DEF RelTypeOK
    <3> QED BY <3>2, <3>3, <3>4, <3>5
  <2> QED BY <2>1, <2>2
<1>4. ASSUME NEW h \in Handlers, WriteNonce(h) PROVE NonceInv'
  <2>1. /\ hpc[h] = "noted" /\ hpc' = [hpc EXCEPT ![h] = "used"]
        /\ file' = file \union {hrel[h]} \/ file' = seen
        /\ UNCHANGED <<expired, seen, hrel, granted>>
    BY <1>4 DEF WriteNonce
  <2>2. MemoryHolds' /\ UsedIsOnDisk' /\ DurableBeforeGrant'
    BY <2>1 DEF RelTypeOK
  <2>3. HeldIsNew' /\ HeldByOne' /\ UsedOnceWhileFresh'
    BY <2>1 DEF RelTypeOK
  <2> QED BY <2>2, <2>3
<1>5. ASSUME NEW h \in Handlers, Grant(h) PROVE NonceInv'
  <2>1. /\ hpc[h] = "used" /\ hpc' = [hpc EXCEPT ![h] = "idle"]
        /\ granted' = [granted EXCEPT ![hrel[h]] = @ + 1]
        /\ UNCHANGED <<expired, seen, file, hrel>>
    BY <1>5 DEF Grant, storeVars
  <2>2. \A g \in Handlers : Holding(g)' => Holding(g) /\ g # h
    BY <2>1 DEF RelTypeOK
  <2>3. HeldIsNew'
    BY <2>1, <2>2 DEF RelTypeOK
  <2>4. HeldByOne'
    BY <2>1, <2>2
  <2>5. MemoryHolds' /\ UsedIsOnDisk'
    BY <2>1, <2>2
  <2>6. DurableBeforeGrant' /\ UsedOnceWhileFresh'
    BY <2>1 DEF RelTypeOK
  <2> QED BY <2>3, <2>4, <2>5, <2>6
<1>6. ASSUME NEW u \in Runs, RunStep(u) PROVE NonceInv'
  BY <1>6 DEF RunStep, Ask, Look, Pop, Make, storeVars, handlerVars
<1>7. ASSUME NEW r \in Releases, Expire(r) PROVE NonceInv'
  BY <1>7 DEF Expire, storeVars, handlerVars
<1>8. ASSUME NEW c \in Calls, Lapse(c) PROVE NonceInv'
  BY <1>8 DEF Lapse, storeVars, handlerVars
<1>9. CASE Restart
  <2>1. \A h \in Handlers : hpc'[h] = "idle"
    BY <1>9 DEF Restart
  <2>2. /\ seen' = file \ expired /\ file' = file \ expired
        /\ UNCHANGED <<expired, granted>>
    BY <1>9 DEF Restart
  <2>3. UsedIsOnDisk' /\ HeldIsNew' /\ HeldByOne'
    BY <2>1
  <2>4. MemoryHolds' /\ DurableBeforeGrant' /\ UsedOnceWhileFresh'
    BY <2>2
  <2> QED BY <2>3, <2>4
<1>10. CASE UNCHANGED relVars
  BY <1>10 DEF relVars, storeVars, handlerVars
<1> QED
  BY <1>1, <1>2, <1>3, <1>4, <1>5, <1>6, <1>7, <1>8, <1>9, <1>10
     DEF RelNext, HandlerStep

\* The inductive invariant.
LEMMA RelInvariant == RelSpec => []RelInv
<1>1. RelInit => RelInv
  BY RelInitInv
<1>2. RelInv /\ [RelNext]_relVars => RelInv'
  BY RelTypeStep, NonceStep DEF RelInv
<1> QED BY <1>1, <1>2, PTL DEF RelSpec

\* Type correctness, the store's lock included (service_auth.py NonceStore).
THEOREM ReleaseTypeCorrect == RelSpec => []RelTypeOK
<1>1. RelInv => RelTypeOK
  BY DEF RelInv
<1> QED BY <1>1, RelInvariant, PTL

\* The token is good once while it has not expired (worker.py approve):
\* for any number of requests, handlers and restarts.
THEOREM ReleaseIsUsedOnce == RelSpec => []UsedOnceWhileFresh
<1>1. RelInv => UsedOnceWhileFresh
  BY DEF RelInv, NonceInv
<1> QED BY <1>1, RelInvariant, PTL

\* A granted release is on disk, so a restarted worker refuses it again
\* (service_auth.py NonceStore.use, ADR-0114).
THEOREM ReleaseIsDurable == RelSpec => []DurableBeforeGrant
<1>1. RelInv => DurableBeforeGrant
  BY DEF RelInv, NonceInv
<1> QED BY <1>1, RelInvariant, PTL
-----------------------------------------------------------------------------
(***************************************************************************)
(* Grants are spent by one call each.  A release's grants are counted      *)
(* wherever they are: pending, in the hands of a run, or spent.            *)
(***************************************************************************)
Places(s, r) == {i \in DOMAIN s : s[i].rel = r}

Pending(r)    == Places(grants[CallOf[r]], r)
LetThrough(r) == {u \in Runs : rgrant[u] = r}

AdmittedIsEntitled == \A h \in Handlers :
  hpc[h] \in {"unseen", "noted", "used"} => hrel[h] \in Entitled

GrantIsForItsCall == \A c \in Calls : \A i \in DOMAIN grants[c] :
  CallOf[grants[c][i].rel] = c /\ grants[c][i].rel \in Entitled

RunIsForItsCall == \A u \in Runs :
  rpc[u] = "released" => CallOf[rgrant[u]] = rcall[u] /\ rgrant[u] \in Entitled

EveryGrantOnce == \A r \in Releases :
  /\ IsFiniteSet(LetThrough(r))
  /\ made[r] + Cardinality(Pending(r)) + Cardinality(LetThrough(r)) <= granted[r]

SpendInv == /\ AdmittedIsEntitled /\ GrantIsForItsCall /\ RunIsForItsCall
            /\ EveryGrantOnce

\* A list holds finitely many grants of a release.
LEMMA PlacesFinite ==
  ASSUME NEW s \in Seq(Grants), NEW r
  PROVE  IsFiniteSet(Places(s, r)) /\ Cardinality(Places(s, r)) \in Nat
<1>1. IsFiniteSet(1..Len(s))
  BY FS_Interval
<1>2. Places(s, r) \in SUBSET (1..Len(s))
  BY DEF Places
<1> QED BY <1>1, <1>2, FS_Subset, FS_CardinalityType

\* A grant put at the end is one more of its release.
LEMMA PlacesAppend ==
  ASSUME NEW s \in Seq(Grants), NEW g \in Grants, NEW r
  PROVE  Cardinality(Places(Append(s, g), r)) =
           Cardinality(Places(s, r)) + (IF g.rel = r THEN 1 ELSE 0)
<1>1. IsFiniteSet(Places(s, r)) /\ Cardinality(Places(s, r)) \in Nat
  BY PlacesFinite
<1>2. CASE g.rel = r
  <2>1. Places(Append(s, g), r) = Places(s, r) \union {Len(s) + 1}
    BY <1>2 DEF Places
  <2>2. Len(s) + 1 \notin Places(s, r)
    BY DEF Places
  <2> QED BY <1>1, <1>2, <2>1, <2>2, FS_AddElement
<1>3. CASE g.rel # r
  <2>1. Places(Append(s, g), r) = Places(s, r)
    BY <1>3 DEF Places
  <2> QED BY <1>1, <1>3, <2>1
<1> QED BY <1>2, <1>3

\* Taking the first leaves one less of its release; the others move up.
LEMMA PlacesTail ==
  ASSUME NEW s \in Seq(Grants), s # <<>>, NEW r
  PROVE  Cardinality(Places(s, r)) =
           Cardinality(Places(Tail(s), r)) + (IF Head(s).rel = r THEN 1 ELSE 0)
<1> DEFINE rest == Places(s, r) \ {1}
           up   == [i \in rest |-> i - 1]
<1>1. IsFiniteSet(Places(s, r)) /\ Cardinality(Places(s, r)) \in Nat
  BY PlacesFinite
<1>2. /\ Tail(s) \in Seq(Grants) /\ Len(Tail(s)) = Len(s) - 1
      /\ \A i \in 1..Len(Tail(s)) : Tail(s)[i] = s[i + 1]
  OBVIOUS
<1>3. up \in Bijection(rest, Places(Tail(s), r))
  <2>1. \A i \in rest : i \in 2..Len(s) /\ s[i].rel = r
    BY DEF Places
  <2>2. up \in [rest -> Places(Tail(s), r)]
    BY <1>2, <2>1 DEF Places
  <2>3. \A i, j \in rest : up[i] = up[j] => i = j
    BY <2>1
  <2>4. \A k \in Places(Tail(s), r) : k + 1 \in rest /\ up[k + 1] = k
    BY <1>2 DEF Places
  <2>5. \A k \in Places(Tail(s), r) : \E i \in rest : up[i] = k
    BY <2>4
  <2> HIDE DEF rest, up
  <2> QED BY <2>2, <2>3, <2>5, Fun_IsBij
<1>4. /\ IsFiniteSet(rest)
      /\ Cardinality(rest) = IF 1 \in Places(s, r) THEN Cardinality(Places(s, r)) - 1
                             ELSE Cardinality(Places(s, r))
  BY <1>1, FS_RemoveElement
<1>5. Cardinality(Places(Tail(s), r)) = Cardinality(rest)
  BY <1>3, <1>4, FS_Bijection DEF ExistsBijection
<1>6. 1 \in Places(s, r) <=> Head(s).rel = r
  BY DEF Places
<1> HIDE DEF rest, up
<1> QED BY <1>1, <1>4, <1>5, <1>6

\* What is true of the empty lists a worker starts with.
LEMMA NothingPending ==
  ASSUME NEW r
  PROVE  Places(<<>>, r) = {} /\ Cardinality({}) = 0 /\ IsFiniteSet({})
BY FS_EmptySet DEF Places

LEMMA SpendInitInv == RelInit => SpendInv
<1> SUFFICES ASSUME RelInit PROVE SpendInv
  OBVIOUS
<1> USE ApprovalAssumption
<1>1. AdmittedIsEntitled /\ GrantIsForItsCall /\ RunIsForItsCall
  BY DEF RelInit, AdmittedIsEntitled, GrantIsForItsCall, RunIsForItsCall
<1>2. ASSUME NEW r \in Releases
      PROVE  Pending(r) = {} /\ LetThrough(r) = {} /\ made[r] = 0 /\ granted[r] = 0
  BY NothingPending DEF RelInit, Pending, LetThrough
<1>3. ASSUME NEW r \in Releases
      PROVE  /\ IsFiniteSet(LetThrough(r))
             /\ made[r] + Cardinality(Pending(r)) + Cardinality(LetThrough(r))
                  <= granted[r]
  BY <1>2, FS_EmptySet
<1>4. EveryGrantOnce
  BY <1>3 DEF EveryGrantOnce
<1> QED BY <1>1, <1>4 DEF SpendInv

\* What pends, is in a run's hands or was made stays, whatever else happens.
LEMMA SpendQuiet ==
  ASSUME SpendInv, UNCHANGED <<grants, rgrant, granted, made>>,
         AdmittedIsEntitled', RunIsForItsCall'
  PROVE  SpendInv'
<1>1. GrantIsForItsCall'
  BY DEF SpendInv, GrantIsForItsCall
<1>2. \A r : Pending(r)' = Pending(r) /\ LetThrough(r)' = LetThrough(r)
  BY DEF Pending, LetThrough
<1>3. EveryGrantOnce'
  BY <1>2 DEF SpendInv, EveryGrantOnce
<1> QED BY <1>1, <1>3 DEF SpendInv

\* The sizes that EveryGrantOnce adds up are numbers.
LEMMA SpendSizes ==
  ASSUME RelTypeOK, SpendInv, NEW r \in Releases
  PROVE  /\ grants[CallOf[r]] \in Seq(Grants)
         /\ Cardinality(Pending(r)) \in Nat
         /\ IsFiniteSet(LetThrough(r)) /\ Cardinality(LetThrough(r)) \in Nat
         /\ made[r] \in Nat /\ granted[r] \in Nat
<1>1. grants[CallOf[r]] \in Seq(Grants) /\ made[r] \in Nat /\ granted[r] \in Nat
  BY ApprovalAssumption DEF RelTypeOK
<1>2. IsFiniteSet(LetThrough(r))
  BY DEF SpendInv, EveryGrantOnce
<1> QED BY <1>1, <1>2, PlacesFinite, FS_CardinalityType DEF Pending

LEMMA GrantSpends ==
  ASSUME RelTypeOK, SpendInv, NEW h \in Handlers, Grant(h) PROVE SpendInv'
<1> DEFINE q == hrel[h]
           g == [rel |-> q, fresh |-> TRUE]
<1>1. /\ q \in Releases /\ CallOf[q] \in Calls /\ g \in Grants /\ g.rel = q
      /\ q \in Entitled
  BY ApprovalAssumption DEF RelTypeOK, Grants, Grant, SpendInv, AdmittedIsEntitled
<1>2. /\ grants' = [grants EXCEPT ![CallOf[q]] = Append(@, g)]
      /\ granted' = [granted EXCEPT ![q] = @ + 1]
      /\ hpc' = [hpc EXCEPT ![h] = "idle"]
      /\ UNCHANGED <<hrel, rpc, rcall, rgrant, made>>
  BY DEF Grant, runVars
<1> HIDE DEF q, g
<1>3. AdmittedIsEntitled' /\ RunIsForItsCall'
  BY <1>2 DEF SpendInv, AdmittedIsEntitled, RunIsForItsCall, RelTypeOK
<1>4. GrantIsForItsCall'
  <2>1. SUFFICES ASSUME NEW c \in Calls, NEW i \in DOMAIN grants'[c]
        PROVE CallOf[grants'[c][i].rel] = c /\ grants'[c][i].rel \in Entitled
    BY DEF GrantIsForItsCall
  <2>2. grants \in [Calls -> Seq(Grants)]
    BY DEF RelTypeOK
  <2>3. CASE c = CallOf[q]
    <3>1. grants'[c] = Append(grants[c], g) /\ grants[c] \in Seq(Grants)
      BY <1>2, <2>2, <2>3
    <3>2. CASE i = Len(grants[c]) + 1
      BY <1>1, <2>3, <3>1, <3>2
    <3>3. CASE i # Len(grants[c]) + 1
      <4>1. i \in DOMAIN grants[c] /\ grants'[c][i] = grants[c][i]
        BY <3>1, <3>3
      <4> QED BY <4>1 DEF SpendInv, GrantIsForItsCall
    <3> QED BY <3>2, <3>3
  <2>4. CASE c # CallOf[q]
    BY <1>2, <2>2, <2>4 DEF SpendInv, GrantIsForItsCall
  <2> QED BY <2>3, <2>4
<1>5. EveryGrantOnce'
  <2>1. SUFFICES ASSUME NEW r \in Releases
        PROVE  /\ IsFiniteSet(LetThrough(r)')
               /\ made'[r] + Cardinality(Pending(r)') + Cardinality(LetThrough(r)')
                    <= granted'[r]
    BY DEF EveryGrantOnce
  <2>2. LetThrough(r)' = LetThrough(r)
    BY <1>2 DEF LetThrough
  <2>3. made[r] + Cardinality(Pending(r)) + Cardinality(LetThrough(r)) <= granted[r]
    BY DEF SpendInv, EveryGrantOnce
  <2>4. granted'[r] = granted[r] + (IF g.rel = r THEN 1 ELSE 0)
    BY <1>1, <1>2 DEF RelTypeOK
  <2>5. Cardinality(Pending(r)') = Cardinality(Pending(r)) + (IF g.rel = r THEN 1 ELSE 0)
    <3>1. CASE CallOf[r] = CallOf[q]
      <4>1. grants'[CallOf[r]] = Append(grants[CallOf[r]], g)
        BY <1>1, <1>2, <3>1 DEF RelTypeOK
      <4> QED BY <4>1, <1>1, SpendSizes, PlacesAppend DEF Pending
    <3>2. CASE CallOf[r] # CallOf[q]
      <4>1. grants'[CallOf[r]] = grants[CallOf[r]] /\ g.rel # r
        BY <1>1, <1>2, <3>2, SpendSizes, ApprovalAssumption DEF RelTypeOK
      <4> QED BY <4>1, SpendSizes DEF Pending
    <3> QED BY <3>1, <3>2
  <2> QED BY <1>2, <2>2, <2>3, <2>4, <2>5, SpendSizes
<1> QED BY <1>3, <1>4, <1>5 DEF SpendInv

LEMMA PopSpends ==
  ASSUME RelTypeOK, SpendInv, NEW u \in Runs, Pop(u) PROVE SpendInv'
<1> DEFINE c == rcall[u]
           s == grants[c]
<1>0. /\ c \in Calls /\ s \in Seq(Grants) /\ rpc[u] = "popping" /\ rgrant[u] = NoOne
      /\ NoOne \notin Releases
  BY ApprovalAssumption DEF RelTypeOK, Pop
<1>1. UNCHANGED <<hpc, hrel, rcall, granted, made>>
  BY DEF Pop, handlerVars
<1>2. AdmittedIsEntitled'
  BY <1>1 DEF SpendInv, AdmittedIsEntitled
<1>3. CASE s = <<>>
  <2>1. rpc' = [rpc EXCEPT ![u] = "idle"] /\ UNCHANGED <<grants, rgrant>>
    BY <1>3 DEF Pop
  <2>2. RunIsForItsCall'
    BY <1>1, <2>1 DEF SpendInv, RunIsForItsCall, RelTypeOK
  <2> QED BY <1>1, <1>2, <2>1, <2>2, SpendQuiet
<1>4. CASE s # <<>>
  <2>1. /\ grants' = [grants EXCEPT ![c] = Tail(s)]
        /\ IF Head(s).fresh
             THEN /\ rpc' = [rpc EXCEPT ![u] = "released"]
                  /\ rgrant' = [rgrant EXCEPT ![u] = Head(s).rel]
             ELSE /\ rpc' = [rpc EXCEPT ![u] = "asking"]
                  /\ UNCHANGED rgrant
    BY <1>4 DEF Pop
  <2>2. /\ Head(s) = s[1] /\ 1 \in DOMAIN s /\ Head(s) \in Grants
        /\ Tail(s) \in Seq(Grants) /\ Len(Tail(s)) = Len(s) - 1
        /\ \A i \in 1..Len(Tail(s)) : Tail(s)[i] = s[i + 1]
    BY <1>0, <1>4
  <2>3. Head(s).rel \in Releases /\ CallOf[Head(s).rel] = c /\ Head(s).rel \in Entitled
    BY <1>0, <2>2 DEF SpendInv, GrantIsForItsCall, Grants
  <2> HIDE DEF s, c
  <2>4. RunIsForItsCall'
    <3>1. CASE Head(s).fresh
      BY <1>1, <2>1, <2>3, <3>1 DEF c, SpendInv, RunIsForItsCall, RelTypeOK
    <3>2. CASE ~Head(s).fresh
      BY <1>1, <2>1, <3>2 DEF SpendInv, RunIsForItsCall, RelTypeOK
    <3> QED BY <3>1, <3>2
  <2>5. GrantIsForItsCall'
    <3>1. SUFFICES ASSUME NEW d \in Calls, NEW i \in DOMAIN grants'[d]
          PROVE CallOf[grants'[d][i].rel] = d /\ grants'[d][i].rel \in Entitled
      BY DEF GrantIsForItsCall
    <3>2. CASE d = c
      <4>1. grants'[d] = Tail(s) /\ s = grants[d]
        BY <1>0, <2>1, <3>2 DEF RelTypeOK, s
      <4>2. i + 1 \in DOMAIN grants[d] /\ grants'[d][i] = grants[d][i + 1]
        BY <1>0, <2>2, <4>1
      <4> QED BY <4>2 DEF SpendInv, GrantIsForItsCall
    <3>3. CASE d # c
      <4>1. grants'[d] = grants[d]
        BY <2>1, <3>3 DEF RelTypeOK
      <4> QED BY <4>1 DEF SpendInv, GrantIsForItsCall
    <3> QED BY <3>2, <3>3
  <2>6. EveryGrantOnce'
    <3>1. SUFFICES ASSUME NEW r \in Releases
          PROVE  /\ IsFiniteSet(LetThrough(r)')
                 /\ made'[r] + Cardinality(Pending(r)') + Cardinality(LetThrough(r)')
                      <= granted'[r]
      BY DEF EveryGrantOnce
    <3>2. made[r] + Cardinality(Pending(r)) + Cardinality(LetThrough(r)) <= granted[r]
      BY DEF SpendInv, EveryGrantOnce
    <3>3. /\ Cardinality(Pending(r)') \in Nat
          /\ Cardinality(Pending(r)) = Cardinality(Pending(r)') +
                                         (IF Head(s).rel = r THEN 1 ELSE 0)
      <4>1. CASE CallOf[r] = c
        <5>1. grants'[CallOf[r]] = Tail(s) /\ grants[CallOf[r]] = s
          BY <1>0, <2>1, <4>1 DEF RelTypeOK, s
        <5> QED BY <1>0, <1>4, <2>2, <5>1, PlacesTail, PlacesFinite DEF Pending
      <4>2. CASE CallOf[r] # c
        <5>1. grants'[CallOf[r]] = grants[CallOf[r]] /\ Head(s).rel # r
          BY <2>1, <2>3, <4>2, ApprovalAssumption DEF RelTypeOK
        <5> QED BY <5>1, SpendSizes DEF Pending
      <4> QED BY <4>1, <4>2
    <3>4. CASE Head(s).fresh /\ Head(s).rel = r
      <4>1. LetThrough(r)' = LetThrough(r) \union {u} /\ u \notin LetThrough(r)
        BY <1>0, <2>1, <3>4 DEF LetThrough, RelTypeOK
      <4>2. /\ IsFiniteSet(LetThrough(r)')
            /\ Cardinality(LetThrough(r)') = Cardinality(LetThrough(r)) + 1
        BY <4>1, SpendSizes, FS_AddElement
      <4> QED BY <1>1, <3>2, <3>3, <3>4, <4>2, SpendSizes
    <3>5. CASE ~(Head(s).fresh /\ Head(s).rel = r)
      <4>1. LetThrough(r)' = LetThrough(r)
        BY <1>0, <2>1, <3>5 DEF LetThrough, RelTypeOK
      <4> QED BY <1>1, <3>2, <3>3, <4>1, SpendSizes
    <3> QED BY <3>4, <3>5
  <2> QED BY <1>2, <2>4, <2>5, <2>6 DEF SpendInv
<1> QED BY <1>3, <1>4

LEMMA MakeSpends ==
  ASSUME RelTypeOK, SpendInv, NEW u \in Runs, Make(u) PROVE SpendInv'
<1>1. /\ rpc[u] = "released" /\ rgrant[u] \in Releases
      /\ NoOne \notin Releases
      /\ made' = [made EXCEPT ![rgrant[u]] = @ + 1]
      /\ rpc' = [rpc EXCEPT ![u] = "idle"]
      /\ rgrant' = [rgrant EXCEPT ![u] = NoOne]
      /\ UNCHANGED <<hpc, hrel, grants, rcall, granted>>
  BY ApprovalAssumption DEF Make, handlerVars, RelTypeOK
<1>2. AdmittedIsEntitled' /\ GrantIsForItsCall'
  BY <1>1 DEF SpendInv, AdmittedIsEntitled, GrantIsForItsCall
<1>3. RunIsForItsCall'
  BY <1>1 DEF SpendInv, RunIsForItsCall, RelTypeOK
<1>4. EveryGrantOnce'
  <2>1. SUFFICES ASSUME NEW r \in Releases
        PROVE  /\ IsFiniteSet(LetThrough(r)')
               /\ made'[r] + Cardinality(Pending(r)') + Cardinality(LetThrough(r)')
                    <= granted'[r]
    BY DEF EveryGrantOnce
  <2>2. made[r] + Cardinality(Pending(r)) + Cardinality(LetThrough(r)) <= granted[r]
    BY DEF SpendInv, EveryGrantOnce
  <2>3. Pending(r)' = Pending(r) /\ granted'[r] = granted[r]
    BY <1>1 DEF Pending
  <2>4. CASE rgrant[u] = r
    <3>1. LetThrough(r)' = LetThrough(r) \ {u} /\ u \in LetThrough(r)
      BY <1>1, <2>4 DEF LetThrough, RelTypeOK
    <3>2. /\ IsFiniteSet(LetThrough(r)')
          /\ Cardinality(LetThrough(r)') = Cardinality(LetThrough(r)) - 1
      BY <3>1, SpendSizes, FS_RemoveElement
    <3>3. made'[r] = made[r] + 1
      BY <1>1, <2>4 DEF RelTypeOK
    <3> QED BY <2>2, <2>3, <3>2, <3>3, SpendSizes
  <2>5. CASE rgrant[u] # r
    <3>1. LetThrough(r)' = LetThrough(r)
      BY <1>1, <2>5 DEF LetThrough, RelTypeOK
    <3>2. made'[r] = made[r]
      BY <1>1, <2>5 DEF RelTypeOK
    <3> QED BY <2>2, <2>3, <3>1, <3>2, SpendSizes
  <2> QED BY <2>4, <2>5
<1> QED BY <1>2, <1>3, <1>4 DEF SpendInv

LEMMA LapseSpends ==
  ASSUME RelTypeOK, SpendInv, NEW c \in Calls, Lapse(c) PROVE SpendInv'
<1>1. PICK i \in 1..Len(grants[c]) :
        grants' = [grants EXCEPT ![c] = [@ EXCEPT ![i] = Stale(grants[c][i])]]
  BY DEF Lapse
<1>2. UNCHANGED <<hpc, hrel, rpc, rcall, rgrant, granted, made>>
  BY DEF Lapse, handlerVars, runVars
<1>3. ASSUME NEW d \in Calls
      PROVE  /\ DOMAIN grants'[d] = DOMAIN grants[d]
             /\ \A k \in DOMAIN grants[d] : grants'[d][k].rel = grants[d][k].rel
  <2>1. grants[d] \in Seq(Grants)
    BY DEF RelTypeOK
  <2> QED BY <1>1, <2>1 DEF RelTypeOK, Stale
<1>4. AdmittedIsEntitled' /\ RunIsForItsCall'
  BY <1>2 DEF SpendInv, AdmittedIsEntitled, RunIsForItsCall
<1>5. GrantIsForItsCall'
  BY <1>3 DEF SpendInv, GrantIsForItsCall
<1>6. ASSUME NEW r \in Releases
      PROVE  Pending(r)' = Pending(r) /\ LetThrough(r)' = LetThrough(r)
  BY <1>2, <1>3, ApprovalAssumption DEF Pending, Places, LetThrough
<1>7. EveryGrantOnce'
  BY <1>2, <1>6 DEF SpendInv, EveryGrantOnce
<1> QED BY <1>4, <1>5, <1>7 DEF SpendInv

\* What a dead worker held is lost, never spent.
LEMMA RestartSpends == RelTypeOK /\ SpendInv /\ Restart => SpendInv'
<1> SUFFICES ASSUME RelTypeOK, SpendInv, Restart PROVE SpendInv'
  OBVIOUS
<1>1. /\ \A h \in Handlers : hpc'[h] = "idle"
      /\ \A c \in Calls : grants'[c] = <<>>
      /\ \A u \in Runs : rpc'[u] = "idle" /\ rgrant'[u] = NoOne
      /\ UNCHANGED <<granted, made>>
  BY DEF Restart
<1>2. AdmittedIsEntitled' /\ GrantIsForItsCall' /\ RunIsForItsCall'
  BY <1>1 DEF AdmittedIsEntitled, GrantIsForItsCall, RunIsForItsCall
<1>3. ASSUME NEW r \in Releases
      PROVE  Pending(r)' = {} /\ LetThrough(r)' = {}
  BY <1>1, NothingPending, ApprovalAssumption DEF Pending, Places, LetThrough
<1>4. ASSUME NEW r \in Releases
      PROVE  /\ IsFiniteSet(LetThrough(r)')
             /\ made'[r] + Cardinality(Pending(r)') + Cardinality(LetThrough(r)')
                  <= granted'[r]
  <2>1. made[r] + Cardinality(Pending(r)) + Cardinality(LetThrough(r)) <= granted[r]
    BY DEF SpendInv, EveryGrantOnce
  <2>2. /\ Cardinality(Pending(r)) \in Nat /\ Cardinality(LetThrough(r)) \in Nat
        /\ made[r] \in Nat /\ granted[r] \in Nat
    BY SpendSizes
  <2>3. /\ IsFiniteSet(LetThrough(r)')
        /\ Cardinality(Pending(r)') = 0 /\ Cardinality(LetThrough(r)') = 0
    BY <1>3, FS_EmptySet
  <2>4. made'[r] = made[r] /\ granted'[r] = granted[r]
    BY <1>1
  <2> QED BY <2>1, <2>2, <2>3, <2>4
<1>5. EveryGrantOnce'
  BY <1>4 DEF EveryGrantOnce
<1> QED BY <1>2, <1>5 DEF SpendInv

\* Every step keeps the account of the grants.
LEMMA SpendStep == RelTypeOK /\ SpendInv /\ [RelNext]_relVars => SpendInv'
<1> SUFFICES ASSUME RelTypeOK, SpendInv, [RelNext]_relVars PROVE SpendInv'
  OBVIOUS
<1> USE DEF SpendInv, AdmittedIsEntitled, RunIsForItsCall
<1>1. ASSUME NEW h \in Handlers, NEW r \in Releases, Verify(h, r) PROVE SpendInv'
  BY <1>1, SpendQuiet DEF Verify, runVars, RelTypeOK
<1>2. ASSUME NEW h \in Handlers, Admit(h) PROVE SpendInv'
  BY <1>2, SpendQuiet DEF Admit, runVars, RelTypeOK
<1>3. ASSUME NEW h \in Handlers, UseNonce(h) PROVE SpendInv'
  BY <1>3, SpendQuiet DEF UseNonce, runVars, RelTypeOK
<1>4. ASSUME NEW h \in Handlers, WriteNonce(h) PROVE SpendInv'
  BY <1>4, SpendQuiet DEF WriteNonce, runVars, RelTypeOK
<1>5. ASSUME NEW u \in Runs, NEW c \in Calls, Ask(u, c) PROVE SpendInv'
  BY <1>5, SpendQuiet DEF Ask, handlerVars, RelTypeOK
<1>6. ASSUME NEW u \in Runs, Look(u) PROVE SpendInv'
  BY <1>6, SpendQuiet DEF Look, handlerVars, RelTypeOK
<1>7. ASSUME NEW r \in Releases, Expire(r) PROVE SpendInv'
  BY <1>7, SpendQuiet DEF Expire, handlerVars, runVars
<1>8. CASE UNCHANGED relVars
  BY <1>8, SpendQuiet DEF relVars, handlerVars, runVars
<1> QED
  BY <1>1, <1>2, <1>3, <1>4, <1>5, <1>6, <1>7, <1>8, GrantSpends, PopSpends,
     MakeSpends, LapseSpends, RestartSpends DEF RelNext, HandlerStep, RunStep

LEMMA SpendInvariant == RelSpec => []SpendInv
<1>1. RelInit => SpendInv
  BY SpendInitInv
<1>2. RelTypeOK /\ SpendInv /\ [RelNext]_relVars => SpendInv'
  BY SpendStep
<1> QED BY <1>1, <1>2, ReleaseTypeCorrect, PTL DEF RelSpec

\* guarded_tool and ApprovalGrants.consume: for any number of runs, requests
\* and restarts, a call is let through only on a grant for that very call by
\* an approver the design names, and no grant lets two calls through.
THEOREM CallsNeedTheirGrant == RelSpec => []CallsAreApproved
<1>1. RelTypeOK /\ SpendInv => CallsAreApproved
  <2> SUFFICES ASSUME RelTypeOK, SpendInv, NEW u \in Runs, rpc[u] = "released"
      PROVE  /\ CallOf[rgrant[u]] = rcall[u]
             /\ rgrant[u] \in Entitled
             /\ made[rgrant[u]] < granted[rgrant[u]]
    BY DEF CallsAreApproved
  <2>1. CallOf[rgrant[u]] = rcall[u] /\ rgrant[u] \in Entitled
    BY DEF SpendInv, RunIsForItsCall
  <2>2. rgrant[u] \in Releases /\ u \in LetThrough(rgrant[u])
    BY DEF RelTypeOK, LetThrough
  <2>3. Cardinality(LetThrough(rgrant[u])) # 0
    BY <2>2, SpendSizes, FS_EmptySet
  <2>4. made[rgrant[u]] + Cardinality(Pending(rgrant[u]))
          + Cardinality(LetThrough(rgrant[u])) <= granted[rgrant[u]]
    BY <2>2 DEF SpendInv, EveryGrantOnce
  <2>5. made[rgrant[u]] < granted[rgrant[u]]
    <3> DEFINE r == rgrant[u]
    <3>1. /\ Cardinality(Pending(r)) \in Nat /\ Cardinality(LetThrough(r)) \in Nat
          /\ made[r] \in Nat /\ granted[r] \in Nat
      BY <2>2, SpendSizes
    <3> HIDE DEF r
    <3> QED BY <2>3, <2>4, <3>1 DEF r
  <2> QED BY <2>1, <2>5
<1> QED BY <1>1, SpendInvariant, ReleaseTypeCorrect, PTL

\* The approval end to end, from the posted token to the tool: a release that
\* is still good lets at most one call be made, whatever requests race or
\* repeat its token, whatever runs race for its grant, and across restarts.
OneCallEach == \A r \in Unexpired : made[r] <= 1

THEOREM OneCallPerRelease == RelSpec => []OneCallEach
<1>1. RelTypeOK /\ SpendInv /\ UsedOnceWhileFresh => OneCallEach
  <2> SUFFICES ASSUME RelTypeOK, SpendInv, UsedOnceWhileFresh, NEW r \in Unexpired
      PROVE  made[r] <= 1
    BY DEF OneCallEach
  <2>1. r \in Releases /\ granted[r] <= 1
    BY DEF UsedOnceWhileFresh, Unexpired
  <2>2. made[r] + Cardinality(Pending(r)) + Cardinality(LetThrough(r)) <= granted[r]
    BY <2>1 DEF SpendInv, EveryGrantOnce
  <2>3. /\ Cardinality(Pending(r)) \in Nat /\ Cardinality(LetThrough(r)) \in Nat
        /\ made[r] \in Nat /\ granted[r] \in Nat
    BY <2>1, SpendSizes
  <2> QED BY <2>1, <2>2, <2>3
<1> QED
  BY <1>1, SpendInvariant, ReleaseTypeCorrect, ReleaseIsUsedOnce, PTL

\* NonceStore: no rewrite of the file loses a nonce that could be replayed;
\* neither the compaction that replaces the file by the memory nor the
\* rewrite at the start of a worker that died at any point.
Remembers == \A r \in Unexpired' : r \in file => r \in file'

THEOREM FileRemembers == RelSpec => [][Remembers]_relVars
<1>1. RelInv /\ [RelNext]_relVars => [Remembers]_relVars
  <2> SUFFICES ASSUME RelInv, RelNext, NEW r \in Unexpired', r \in file
      PROVE  r \in file'
    BY DEF Remembers
  <2>1. r \in Unexpired
    BY DEF RelNext, HandlerStep, RunStep, Verify, Admit, UseNonce, WriteNonce,
       Grant, Ask, Look, Pop, Make, Expire, Lapse, Restart, Unexpired
  <2>2. r \in seen
    BY <2>1 DEF RelInv, NonceInv, MemoryHolds
  <2>3. ASSUME NEW h \in Handlers, WriteNonce(h) PROVE r \in file'
    BY <2>2, <2>3 DEF WriteNonce
  <2>4. CASE Restart
    BY <2>1, <2>4 DEF Restart, Unexpired
  <2>5. CASE UNCHANGED file
    BY <2>5
  <2> QED
    BY <2>3, <2>4, <2>5 DEF RelNext, HandlerStep, RunStep, Verify, Admit,
       UseNonce, Grant, Ask, Look, Pop, Make, Expire, Lapse, storeVars
<1> QED BY <1>1, RelInvariant, PTL DEF RelSpec
=============================================================================
