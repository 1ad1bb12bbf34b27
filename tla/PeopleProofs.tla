---------------------------- MODULE PeopleProofs ----------------------------
(***************************************************************************)
(* Proofs about Continuity, and about people and covers together: for any  *)
(* agents, succession, mandates, rules and runs, what a cover confers keeps *)
(* the separations, circles of covers are races, and nobody who is back is *)
(* still covered by a cover that was opened in time.                       *)
(***************************************************************************)
EXTENDS MCPeople, WorkspaceProofs, FiniteSetTheorems, NaturalsInduction,
        WellFoundedInduction

\* The last verdict is none that ends a standing-in.
NotBack(s) == s = <<>> \/ s[Len(s)] # "completed"

Back(a) == ~NotBack(sessions[a])

\* What a run that counted the failures of its agent knows by then.
JobInv == \A r \in Threads :
  /\ job[r].pc = "list" => job[r].todo \subseteq {job[r].agent}
  /\ job[r].pc \in {"standDown", "standIn", "open"} =>
       job[r].seen[2] <= Len(acting) /\ NotBack(job[r].seen[1])
  /\ job[r].pc = "open" /\ job[r].seen[2] = Len(acting) =>
       OpenCovers(SuccessorOf(job[r].agent)) = {}

\* A cover is by somebody else, whom no earlier cover still covers.
CoverInv == \A i \in DOMAIN acting :
  /\ acting[i].failed # acting[i].successor
  /\ acting[i].fresh => \A k \in 1..(i - 1) :
       acting[k].failed = acting[i].successor => ~Open(k)

\* A run that completed is about to close the cover.
Closing(j, a, i) == j.pc = "list" /\ j.agent = a /\ (a \in j.todo \/ i \in j.closing)

BeingClosed(a, i) == \E r \in Threads : Closing(job[r], a, i)

BackInv == \A a \in Agents : Back(a) =>
  \A i \in OpenCovers(a) : acting[i].fresh => BeingClosed(a, i)

\* A cover without its successor's holding two halves of a separation, which
\* is what GrantsAreSafe says of each.
SafeCover(c) ==
  LET held == Mandate[c.successor] \union c.decisions
  IN /\ \A d \in c.decisions : ~Conflicts(d, held)
     /\ \A d \in c.withheld : Conflicts(d, held)
     /\ c.lateral => Mandate[c.failed] \subseteq held \union c.withheld

ContInv == ContTypeOK /\ JobInv /\ GrantsAreSafe /\ CoverInv /\ BackInv
-----------------------------------------------------------------------------
(***************************************************************************)
(* What split_mandate confers                                              *)
(***************************************************************************)
\* Numbers are well founded: this is how the proofs count.
LEMMA LeastNatural ==
  ASSUME NEW T, T \subseteq Nat, T # {}
  PROVE  \E m \in T : \A n \in T : m <= n
<1> DEFINE less == OpToRel(<, Nat)
<1>1. IsWellFoundedOn(less, Nat)
  BY NatLessThanWellFounded
<1>2. PICK m \in T : \A n \in T : ~ <<n, m>> \in less
  <2> HIDE DEF less
  <2> QED BY <1>1, WFMin
<1>3. ASSUME NEW n \in T PROVE m <= n
  <2>1. ~(n < m)
    BY <1>2 DEF OpToRel
  <2>2. n \in Nat /\ m \in Nat
    OBVIOUS
  <2> QED BY <2>1, <2>2
<1> QED BY <1>3

\* The decisions of D below n, decided upon in order.
FitsBelow(n, G, D, held) ==
  /\ \A d \in G : d < n
  /\ \A d \in D : d < n => (d \in G <=> ~Conflicts(d, held \union {g \in G : g < d}))

LEMMA FitsAreAlike ==
  ASSUME NEW D \in SUBSET Nat, NEW held, NEW n \in Nat, NEW m \in Nat, n <= m,
         NEW G \in SUBSET D, FitsBelow(n, G, D, held),
         NEW H \in SUBSET D, FitsBelow(m, H, D, held)
  PROVE  \A d \in D : d < n => (d \in G <=> d \in H)
<1> DEFINE T == {d \in D : d < n /\ ~(d \in G <=> d \in H)}
<1> SUFFICES ASSUME T # {} PROVE FALSE
  OBVIOUS
<1>1. PICK d \in T : \A e \in T : d <= e
  BY LeastNatural
<1>2. {g \in G : g < d} = {g \in H : g < d}
  <2>1. ASSUME NEW g \in D, g < d PROVE g \in G <=> g \in H
    <3>1. g \in Nat /\ d \in Nat /\ d < n
      OBVIOUS
    <3>2. g \notin T
      BY <1>1, <2>1, <3>1
    <3> QED BY <2>1, <3>1, <3>2
  <2> QED BY <2>1
<1>3. d \in D /\ d < n /\ d < m
  OBVIOUS
<1>4. d \in G <=> d \in H
  BY <1>2, <1>3 DEF FitsBelow
<1> QED BY <1>4

LEMMA FitsOneMore ==
  ASSUME NEW D \in SUBSET Nat, NEW held, NEW n \in Nat,
         NEW G \in SUBSET D, FitsBelow(n, G, D, held)
  PROVE  \E H \in SUBSET D : FitsBelow(n + 1, H, D, held)
<1> DEFINE H == G \union {d \in D : d = n /\ ~Conflicts(d, held \union G)}
<1>1. \A g \in G : g \in Nat /\ g < n
  BY DEF FitsBelow
<1>2. H \in SUBSET D /\ \A d \in H : d < n + 1
  <2>1. H \in SUBSET D
    OBVIOUS
  <2>2. ASSUME NEW d \in H PROVE d < n + 1
    <3>1. d \in G \/ d = n
      OBVIOUS
    <3> QED BY <1>1, <3>1
  <2> HIDE DEF H
  <2> QED BY <2>1, <2>2
<1>3. ASSUME NEW d \in D, d < n + 1
      PROVE  d \in H <=> ~Conflicts(d, held \union {g \in H : g < d})
  <2>1. d \in Nat
    OBVIOUS
  <2>2. CASE d = n
    <3>1. {g \in H : g < d} = G
      <4>1. ASSUME NEW g \in H, g < d PROVE g \in G
        <5>1. g # n
          BY <2>2, <4>1
        <5> QED BY <5>1
      <4>2. ASSUME NEW g \in G PROVE g \in H /\ g < d
        BY <1>1, <2>2
      <4> HIDE DEF H
      <4> QED BY <4>1, <4>2
    <3>2. d \notin G
      BY <1>1, <2>2
    <3> QED BY <2>2, <3>1, <3>2
  <2>3. CASE d < n
    <3>1. {g \in H : g < d} = {g \in G : g < d}
      BY <2>3
    <3>2. d \in H <=> d \in G
      BY <2>3
    <3>3. d \in G <=> ~Conflicts(d, held \union {g \in G : g < d})
      BY <2>3 DEF FitsBelow
    <3> QED BY <3>1, <3>2, <3>3
  <2> QED BY <1>3, <2>1, <2>2, <2>3
<1> HIDE DEF H
<1> QED BY <1>2, <1>3 DEF FitsBelow

LEMMA FitsExist ==
  ASSUME NEW D \in SUBSET Nat, NEW held
  PROVE  \A n \in Nat : \E G \in SUBSET D : FitsBelow(n, G, D, held)
<1> DEFINE T == {n \in Nat : ~ \E G \in SUBSET D : FitsBelow(n, G, D, held)}
<1> SUFFICES ASSUME T # {} PROVE FALSE
  OBVIOUS
<1>1. PICK n \in T : \A m \in T : n <= m
  BY LeastNatural
<1>2. n # 0
  <2>1. FitsBelow(0, {}, D, held)
    BY DEF FitsBelow
  <2> QED BY <2>1
<1>3. n - 1 \in Nat /\ n - 1 \notin T /\ (n - 1) + 1 = n
  BY <1>1, <1>2
<1>4. PICK G \in SUBSET D : FitsBelow(n - 1, G, D, held)
  BY <1>3
<1>5. \E H \in SUBSET D : FitsBelow(n, H, D, held)
  BY <1>3, <1>4, FitsOneMore
<1> QED BY <1>5

\* split_mandate has a result, and one that obeys its rule: granted is what
\* does not conflict with what was held and granted before.
LEMMA GrantedIsDefined ==
  ASSUME NEW leader \in SUBSET Nat, NEW held
  PROVE  /\ Granted(leader, held) \subseteq leader \ held
         /\ \A d \in leader \ held :
              d \in Granted(leader, held)
              <=> ~Conflicts(d, held \union {g \in Granted(leader, held) : g < d})
<1> DEFINE D == leader \ held
           Below(d, G) == FitsBelow(d + 1, G, D, held)
           All == {d \in D : \E G \in SUBSET D : Below(d, G) /\ d \in G}
<1>1. D \in SUBSET Nat
  OBVIOUS
<1>2. ASSUME NEW d \in D
      PROVE  d \in All <=> ~Conflicts(d, held \union {g \in All : g < d})
  <2>1. d \in Nat /\ d + 1 \in Nat
    OBVIOUS
  <2>2. PICK G \in SUBSET D : Below(d, G)
    BY <1>1, <2>1, FitsExist
  <2>3. ASSUME NEW e \in D, e <= d PROVE e \in All <=> e \in G
    <3>1. e \in Nat /\ e + 1 \in Nat /\ e + 1 <= d + 1 /\ e < e + 1
      BY <2>1, <2>3
    <3>2. ASSUME NEW H \in SUBSET D, Below(e, H) PROVE e \in H <=> e \in G
      BY <1>1, <2>1, <2>2, <3>1, <3>2, FitsAreAlike
    <3>3. \E H \in SUBSET D : Below(e, H)
      BY <1>1, <3>1, FitsExist
    <3> HIDE DEF Below
    <3> QED BY <3>2, <3>3
  <2>4. {g \in All : g < d} = {g \in G : g < d}
    <3> HIDE DEF Below
    <3>1. \A g \in D : g < d => g <= d
      BY <2>1
    <3> QED BY <2>3, <3>1
  <2>5. d \in All <=> d \in G
    BY <2>1, <2>3
  <2>6. d \in G <=> ~Conflicts(d, held \union {g \in G : g < d})
    BY <2>1, <2>2 DEF FitsBelow
  <2> HIDE DEF All, Below
  <2> QED BY <2>4, <2>5, <2>6
<1>3. All \in SUBSET D
  OBVIOUS
<1> HIDE DEF All
<1> QED BY <1>2, <1>3 DEF Granted

LEMMA ConflictsGrow ==
  ASSUME NEW d, NEW X, NEW Y, X \subseteq Y, Conflicts(d, X)
  PROVE  Conflicts(d, Y)
BY DEF Conflicts

LEMMA GrantedIsSafe ==
  ASSUME NEW leader \in SUBSET Nat, NEW held
  PROVE  LET G == Granted(leader, held)
         IN /\ \A d \in G : ~Conflicts(d, held \union G)
            /\ \A d \in (leader \ held) \ G : Conflicts(d, held \union G)
<1> DEFINE G == Granted(leader, held)
           Before(d) == {g \in G : g < d}
<1>1. /\ G \subseteq leader \ held
      /\ \A d \in leader \ held : d \in G <=> ~Conflicts(d, held \union Before(d))
  BY GrantedIsDefined
<1> HIDE DEF G
<1>2. ASSUME NEW d \in G, Conflicts(d, held \union G) PROVE FALSE
  <2>1. PICK r \in Separations, e \in held \union G : d \in r /\ e \in r /\ e # d
    BY <1>2 DEF Conflicts
  <2>2. ~Conflicts(d, held \union Before(d))
    BY <1>1
  <2>3. CASE e \in held \union Before(d)
    <3>1. e \in (held \union Before(d)) \intersect (r \ {d})
      BY <2>1, <2>3
    <3> HIDE DEF Before
    <3> QED BY <2>1, <2>2, <3>1 DEF Conflicts
  <2>4. CASE e \in G /\ ~(e < d)
    <3>1. e \in Nat /\ d \in Nat /\ d < e
      BY <1>1, <2>1, <2>4
    <3>2. d \in (held \union Before(e)) \intersect (r \ {e})
      BY <2>1, <3>1
    <3>3. ~Conflicts(e, held \union Before(e))
      BY <1>1, <2>4
    <3> HIDE DEF Before
    <3> QED BY <2>1, <3>2, <3>3 DEF Conflicts
  <2> QED BY <2>1, <2>3, <2>4
<1>3. ASSUME NEW d \in (leader \ held) \ G PROVE Conflicts(d, held \union G)
  <2>1. Conflicts(d, held \union Before(d))
    BY <1>1
  <2>2. held \union Before(d) \subseteq held \union G
    OBVIOUS
  <2> HIDE DEF Before
  <2> QED BY <2>1, <2>2, ConflictsGrow
<1> QED BY <1>2, <1>3 DEF G

LEMMA MandatesAreNumbers ==
  \A a \in Agents : Mandate[a] \in SUBSET Nat /\ Mandate[a] \subseteq Decisions
BY ContinuityAssumption DEF Decisions

\* What stand_in_for is about to write is safe.
LEMMA AssignmentIsSafe ==
  ASSUME ContTypeOK, NEW a \in Agents, NEW fresh \in BOOLEAN,
         SuccessorOf(a) \in Agents \ {a}
  PROVE  LET c == Assignment(a, fresh)
         IN /\ c \in Covers /\ SafeCover(c)
            /\ c.failed = a /\ c.successor = SuccessorOf(a) /\ c.fresh = fresh
<1> DEFINE s == SuccessorOf(a)
           lateral == Successor[a] # Nobody
           G == IF lateral THEN Granted(Mandate[a], Mandate[s]) ELSE {}
           W == IF lateral THEN (Mandate[a] \ Mandate[s]) \ G ELSE {}
           c == Assignment(a, fresh)
<1>1. c = [failed |-> a, successor |-> s, lateral |-> lateral, decisions |-> G,
           withheld |-> W, ends |-> today + Window, active |-> TRUE, fresh |-> fresh]
  BY DEF Assignment
<1>2. /\ c.failed = a /\ c.successor = s /\ c.lateral = lateral
      /\ c.decisions = G /\ c.withheld = W /\ c.fresh = fresh
  <2> HIDE DEF s, lateral, G, W, c
  <2> QED BY <1>1
<1>3. Mandate[a] \in SUBSET Nat /\ Mandate[a] \subseteq Decisions
  BY MandatesAreNumbers
<1>4. G \subseteq Mandate[a] /\ W \subseteq Mandate[a]
  BY <1>3, GrantedIsDefined
<1>5. /\ \A d \in G : ~Conflicts(d, Mandate[s] \union G)
      /\ \A d \in W : Conflicts(d, Mandate[s] \union G)
  BY <1>3, GrantedIsSafe
<1>6. lateral => Mandate[a] \subseteq (Mandate[s] \union G) \union W
  OBVIOUS
<1>7. today + Window \in Nat
  BY ContinuityAssumption DEF ContTypeOK
<1>8. s \in Agents /\ lateral \in BOOLEAN
  OBVIOUS
<1> HIDE DEF s, lateral, G, W, c
<1>9. SafeCover(c)
  BY <1>2, <1>5, <1>6 DEF SafeCover
<1>10. c \in Covers
  BY <1>1, <1>3, <1>4, <1>7, <1>8 DEF Covers
<1> QED BY <1>2, <1>9, <1>10 DEF c, s
-----------------------------------------------------------------------------
(***************************************************************************)
(* The steps                                                               *)
(***************************************************************************)
LEMMA ContNumbers ==
  ASSUME ContTypeOK
  PROVE  /\ Len(acting) \in Nat /\ DOMAIN acting = 1..Len(acting)
         /\ \A i \in DOMAIN acting :
              acting[i] \in Covers /\ acting[i].ends \in Nat
              /\ acting[i].failed \in Agents /\ acting[i].successor \in Agents
         /\ today \in Nat
         /\ {Threshold, Window, MaxSessions, MaxCovers, MaxDay} \subseteq Nat
         /\ \A r \in Threads : job[r] \in Jobs /\ job[r].seen[2] \in Nat
         /\ \A a \in Agents : /\ Len(sessions[a]) \in Nat
                              /\ DOMAIN sessions[a] = 1..Len(sessions[a])
<1>1. {Threshold, Window, MaxSessions, MaxCovers, MaxDay} \subseteq Nat
  BY ContinuityAssumption
<1>2. Len(acting) \in Nat /\ DOMAIN acting = 1..Len(acting)
      /\ \A i \in DOMAIN acting : acting[i] \in Covers
  BY DEF ContTypeOK
<1>3. \A i \in DOMAIN acting : /\ acting[i].ends \in Nat
        /\ acting[i].failed \in Agents /\ acting[i].successor \in Agents
  BY <1>2 DEF Covers
<1>4. today \in Nat
  BY <1>1 DEF ContTypeOK
<1>5. \A r \in Threads : job[r] \in Jobs /\ job[r].seen[2] \in Nat
  BY DEF ContTypeOK, Jobs
<1>6. \A a \in Agents : Len(sessions[a]) \in Nat /\ DOMAIN sessions[a] = 1..Len(sessions[a])
  BY DEF ContTypeOK
<1> QED BY <1>1, <1>2, <1>3, <1>4, <1>5, <1>6

LEMMA IdleType ==
  /\ Idle \in Jobs /\ Idle.pc = "idle" /\ Idle.todo = {} /\ Idle.closing = {}
  /\ Idle.agent = Nobody
<1>1. <<>> \in Seq(Verdicts) /\ 0 \in Nat
  OBVIOUS
<1>2. <<<<>>, 0>> \in Seq(Verdicts) \X Nat
  BY <1>1
<1> QED BY <1>2 DEF Idle, Jobs

\* Covers open in one step only: in the others they can but end.
Fades ==
  /\ DOMAIN acting' = DOMAIN acting /\ Len(acting') = Len(acting)
  /\ \A i \in DOMAIN acting :
       /\ acting'[i].failed = acting[i].failed
       /\ acting'[i].successor = acting[i].successor
       /\ acting'[i].lateral = acting[i].lateral
       /\ acting'[i].decisions = acting[i].decisions
       /\ acting'[i].withheld = acting[i].withheld
       /\ acting'[i].ends = acting[i].ends
       /\ acting'[i].fresh = acting[i].fresh
       /\ acting'[i].active => acting[i].active
  /\ today' \in Nat /\ today <= today'

LEMMA FadesKeeps ==
  ASSUME ContTypeOK, Fades
  PROVE  /\ \A i \in DOMAIN acting : Open(i)' => Open(i)
         /\ \A a : OpenCovers(a)' \subseteq OpenCovers(a)
         /\ GrantsAreSafe => GrantsAreSafe'
         /\ CoverInv => CoverInv'
<1>1. ASSUME NEW i \in DOMAIN acting, Open(i)' PROVE Open(i)
  <2>1. today \in Nat /\ today' \in Nat /\ acting[i].ends \in Nat /\ today <= today'
    BY ContNumbers DEF Fades
  <2>2. /\ acting'[i].active => acting[i].active
        /\ acting'[i].lateral = acting[i].lateral /\ acting'[i].ends = acting[i].ends
    BY DEF Fades
  <2> QED BY <1>1, <2>1, <2>2 DEF Open
<1>2. \A a : OpenCovers(a)' \subseteq OpenCovers(a)
  BY <1>1 DEF OpenCovers, Fades
<1>3. GrantsAreSafe => GrantsAreSafe'
  BY DEF GrantsAreSafe, Fades
<1>4. ASSUME CoverInv PROVE CoverInv'
  <2>1. ASSUME NEW i \in DOMAIN acting, acting'[i].fresh, NEW k \in 1..(i - 1),
               acting'[k].failed = acting'[i].successor
        PROVE  ~Open(k)'
    <3>1. k \in DOMAIN acting
      BY ContNumbers
    <3>2. acting[i].fresh /\ acting[k].failed = acting[i].successor
      BY <2>1, <3>1 DEF Fades
    <3>3. ~Open(k)
      BY <1>4, <3>2 DEF CoverInv
    <3> QED BY <1>1, <3>1, <3>3
  <2>2. \A i \in DOMAIN acting : acting'[i].failed # acting'[i].successor
    BY <1>4 DEF CoverInv, Fades
  <2> QED BY <2>1, <2>2 DEF CoverInv, Fades
<1> QED BY <1>1, <1>2, <1>3, <1>4

\* A step of one thread that leaves the covers alone.
LEMMA JobChanges ==
  ASSUME ContInv, NEW r \in Threads, NEW j \in Jobs, job' = [job EXCEPT ![r] = j],
         UNCHANGED <<acting, today>>,
         sessions' \in [Agents -> Seq(Verdicts)], gone' \subseteq Agents,
         \A a \in Agents : DOMAIN sessions[a] \subseteq DOMAIN sessions'[a],
         j.pc # "idle" => j.agent \in Agents,
         j.pc = "running" => j.session \in DOMAIN sessions'[j.agent],
         j.pc = "open" => SuccessorOf(j.agent) \in Agents \ {j.agent},
         j.closing \subseteq DOMAIN acting,
         j.pc = "list" => j.todo \subseteq {j.agent},
         j.pc \in {"standDown", "standIn", "open"} =>
           j.seen[2] <= Len(acting) /\ NotBack(j.seen[1]),
         j.pc = "open" /\ j.seen[2] = Len(acting) => OpenCovers(SuccessorOf(j.agent)) = {},
         \A a \in Agents : \A i \in OpenCovers(a) :
           Back(a)' => \/ Closing(j, a, i)
                       \/ Back(a) /\ (Closing(job[r], a, i) => Closing(j, a, i))
  PROVE  ContInv'
<1>1. /\ job' \in [Threads -> Jobs] /\ job'[r] = j
      /\ \A q \in Threads \ {r} : job'[q] = job[q]
  BY DEF ContInv, ContTypeOK
<1>2. ContTypeOK'
  <2>1. ASSUME NEW q \in Threads
        PROVE  /\ job'[q].pc # "idle" => job'[q].agent \in Agents
               /\ job'[q].pc = "running" => job'[q].session \in DOMAIN sessions'[job'[q].agent]
               /\ job'[q].pc = "open" =>
                    SuccessorOf(job'[q].agent) \in Agents \ {job'[q].agent}
               /\ job'[q].closing \subseteq DOMAIN acting
    <3>1. CASE q = r
      BY <1>1, <3>1
    <3>2. CASE q # r
      BY <1>1, <3>2 DEF ContInv, ContTypeOK
    <3> QED BY <3>1, <3>2
  <2>2. /\ acting \in Seq(Covers) /\ Len(acting) <= MaxCovers
        /\ today \in 0..MaxDay
    BY DEF ContInv, ContTypeOK
  <2>3. \A q : SuccessorOf(q)' = SuccessorOf(q)
    BY DEF SuccessorOf
  <2> QED BY <1>1, <2>1, <2>2, <2>3 DEF ContTypeOK
<1>3. Fades
  BY ContNumbers DEF Fades, ContInv
<1>4. GrantsAreSafe' /\ CoverInv'
  BY <1>3, FadesKeeps DEF ContInv
<1>5. \A a : OpenCovers(a)' = OpenCovers(a) /\ SuccessorOf(a)' = SuccessorOf(a)
  BY DEF OpenCovers, Open, SuccessorOf
<1>6. JobInv'
  <2>1. ASSUME NEW q \in Threads
        PROVE  /\ job'[q].pc = "list" => job'[q].todo \subseteq {job'[q].agent}
               /\ job'[q].pc \in {"standDown", "standIn", "open"} =>
                    job'[q].seen[2] <= Len(acting) /\ NotBack(job'[q].seen[1])
               /\ job'[q].pc = "open" /\ job'[q].seen[2] = Len(acting) =>
                    OpenCovers(SuccessorOf(job'[q].agent)) = {}
    <3>1. CASE q = r
      BY <1>1, <3>1
    <3>2. CASE q # r
      BY <1>1, <3>2 DEF ContInv, JobInv
    <3> QED BY <3>1, <3>2
  <2>2. \A s : NotBack(s)' = NotBack(s)
    BY DEF NotBack
  <2> QED BY <1>5, <2>1, <2>2 DEF JobInv
<1>7. BackInv'
  <2>1. ASSUME NEW a \in Agents, Back(a)', NEW i \in OpenCovers(a), acting[i].fresh
        PROVE  \E q \in Threads : Closing(job'[q], a, i)
    <3>1. CASE Closing(j, a, i)
      BY <1>1, <3>1
    <3>2. CASE Back(a) /\ (Closing(job[r], a, i) => Closing(j, a, i))
      <4>1. PICK q \in Threads : Closing(job[q], a, i)
        BY <2>1, <3>2 DEF ContInv, BackInv, BeingClosed
      <4> QED BY <1>1, <3>2, <4>1
    <3> QED BY <2>1, <3>1, <3>2
  <2>2. \A x, a, i : Closing(x, a, i)' = Closing(x, a, i)
    BY DEF Closing
  <2> QED BY <1>5, <2>1, <2>2 DEF BackInv, BeingClosed, Closing
<1> QED BY <1>2, <1>4, <1>6, <1>7 DEF ContInv

LEMMA ContInitInv == ContInit => ContInv
<1> SUFFICES ASSUME ContInit PROVE ContInv
  OBVIOUS
<1>1. {Threshold, Window, MaxSessions, MaxCovers, MaxDay} \subseteq Nat
  BY ContinuityAssumption
<1>2. \A r \in Threads : /\ job[r] \in Jobs /\ job[r].pc = "idle" /\ job[r].closing = {}
  BY IdleType DEF ContInit
<1>3. /\ acting \in Seq(Covers) /\ Len(acting) = 0 /\ DOMAIN acting = {}
      /\ sessions \in [Agents -> Seq(Verdicts)]
  BY DEF ContInit
<1>4. ContTypeOK
  BY <1>1, <1>2, <1>3 DEF ContTypeOK, ContInit
<1>5. JobInv /\ GrantsAreSafe /\ CoverInv
  BY <1>2, <1>3 DEF JobInv, GrantsAreSafe, CoverInv
<1>6. BackInv
  BY DEF BackInv, Back, NotBack, ContInit
<1> QED BY <1>4, <1>5, <1>6 DEF ContInv

LEMMA BeginKeeps ==
  ASSUME ContInv, NEW r \in Threads, NEW a \in Agents, Begin(r, a)
  PROVE  ContInv'
<1> DEFINE j == [Idle EXCEPT !.pc = "running", !.agent = a, !.session = Len(sessions[a]) + 1]
<1>1. job' = [job EXCEPT ![r] = j] /\ job[r].pc = "idle" /\ UNCHANGED <<acting, gone, today>>
  BY DEF Begin
<1>2. /\ j \in Jobs /\ j.pc = "running" /\ j.agent = a /\ j.closing = {} /\ j.todo = {}
      /\ j.session = Len(sessions[a]) + 1
  <2>1. Len(sessions[a]) + 1 \in Nat
    BY ContNumbers DEF ContInv
  <2> QED BY <2>1, IdleType DEF Jobs
<1>3. /\ sessions' \in [Agents -> Seq(Verdicts)]
      /\ sessions'[a] = Append(sessions[a], "running")
      /\ \A b \in Agents \ {a} : sessions'[b] = sessions[b]
  BY DEF Begin, ContInv, ContTypeOK, Verdicts
<1>4. \A b \in Agents : DOMAIN sessions[b] \subseteq DOMAIN sessions'[b]
  <2>1. sessions[a] \in Seq(Verdicts)
    BY DEF ContInv, ContTypeOK
  <2>2. DOMAIN sessions[a] \subseteq DOMAIN sessions'[a]
    BY <1>3, <2>1
  <2> QED BY <1>3, <2>2
<1>5. j.session \in DOMAIN sessions'[j.agent] /\ NotBack(sessions'[a])
  <2>1. sessions[a] \in Seq(Verdicts)
    BY DEF ContInv, ContTypeOK
  <2>2. /\ Len(sessions'[a]) = Len(sessions[a]) + 1
        /\ sessions'[a][Len(sessions[a]) + 1] = "running"
        /\ Len(sessions[a]) + 1 \in DOMAIN sessions'[a]
    BY <1>3, <2>1
  <2> HIDE DEF j
  <2> QED BY <1>2, <2>2 DEF NotBack
<1>6. \A b \in Agents : Back(b)' => Back(b)
  BY <1>3, <1>5 DEF Back, NotBack
<1>7. \A b, i : ~Closing(job[r], b, i)
  BY <1>1 DEF Closing
<1>8. gone' \subseteq Agents
  BY <1>1 DEF ContInv, ContTypeOK
<1> HIDE DEF j
<1> QED BY <1>1, <1>2, <1>3, <1>4, <1>5, <1>6, <1>7, <1>8, JobChanges

\* Writing a verdict over a session that is there.
LEMMA VerdictWritten ==
  ASSUME ContInv, NEW r \in Threads, job[r].pc = "running",
         NEW v \in Verdicts, Verdict(r, v)
  PROVE  /\ job[r].agent \in Agents
         /\ sessions' \in [Agents -> Seq(Verdicts)]
         /\ \A b \in Agents : DOMAIN sessions'[b] = DOMAIN sessions[b]
         /\ \A b \in Agents \ {job[r].agent} : sessions'[b] = sessions[b]
         /\ v # "completed" => \A b \in Agents : Back(b)' => Back(b)
<1>0. PICK a, k : a = job[r].agent /\ k = job[r].session
  OBVIOUS
<1>1. a \in Agents /\ k \in DOMAIN sessions[a] /\ sessions[a] \in Seq(Verdicts)
  BY <1>0 DEF ContInv, ContTypeOK
<1>2. sessions' = [sessions EXCEPT ![a] = [sessions[a] EXCEPT ![k] = v]]
  BY <1>0 DEF Verdict
<1>3. [sessions[a] EXCEPT ![k] = v] \in Seq(Verdicts)
  BY <1>1
<1>4. /\ sessions'[a] = [sessions[a] EXCEPT ![k] = v]
      /\ \A b \in Agents \ {a} : sessions'[b] = sessions[b]
      /\ sessions' \in [Agents -> Seq(Verdicts)]
  BY <1>1, <1>2, <1>3 DEF ContInv, ContTypeOK
<1>5. \A b \in Agents : DOMAIN sessions'[b] = DOMAIN sessions[b]
  BY <1>4
<1>6. ASSUME v # "completed", Back(a)' PROVE Back(a)
  <2>1. Len(sessions'[a]) = Len(sessions[a])
    BY <1>1, <1>4
  <2>2. sessions'[a] # <<>> /\ sessions'[a][Len(sessions[a])] = "completed"
    BY <1>6, <2>1 DEF Back, NotBack
  <2>3. Len(sessions[a]) \in DOMAIN sessions[a]
    <3>1. Len(sessions'[a]) # 0
      BY <1>3, <1>4, <2>2
    <3> QED BY <1>1, <2>1, <3>1
  <2>4. sessions[a][Len(sessions[a])] = "completed"
    BY <1>1, <1>4, <1>6, <2>2, <2>3
  <2>5. sessions[a] # <<>>
    BY <1>1, <2>3
  <2> QED BY <2>4, <2>5 DEF Back, NotBack
<1>7. v # "completed" => \A b \in Agents : Back(b)' => Back(b)
  <2>1. \A b \in Agents \ {a} : Back(b)' = Back(b)
    BY <1>4 DEF Back, NotBack
  <2> QED BY <1>6, <2>1
<1> QED BY <1>0, <1>1, <1>4, <1>5, <1>7

LEMMA FailsKeeps ==
  ASSUME ContInv, NEW r \in Threads, Fails(r)
  PROVE  ContInv'
<1> DEFINE j == [job[r] EXCEPT !.pc = "count"]
<1>1. /\ job' = [job EXCEPT ![r] = j] /\ job[r].pc = "running"
      /\ UNCHANGED <<acting, gone, today>>
  BY DEF Fails, Goes
<1>2. /\ j \in Jobs /\ j.pc = "count" /\ j.agent = job[r].agent
      /\ j.closing \subseteq DOMAIN acting
  <2>1. job[r] \in Jobs /\ job[r].closing \subseteq DOMAIN acting
    BY DEF ContInv, ContTypeOK
  <2> QED BY <2>1 DEF Jobs
<1>3. /\ job[r].agent \in Agents
      /\ sessions' \in [Agents -> Seq(Verdicts)]
      /\ \A b \in Agents : DOMAIN sessions'[b] = DOMAIN sessions[b]
      /\ \A b \in Agents : Back(b)' => Back(b)
  BY <1>1, VerdictWritten DEF Fails, Verdicts
<1>4. \A b, i : ~Closing(job[r], b, i)
  BY <1>1 DEF Closing
<1>5. gone' \subseteq Agents
  BY <1>1 DEF ContInv, ContTypeOK
<1> HIDE DEF j
<1> QED BY <1>1, <1>2, <1>3, <1>4, <1>5, JobChanges

LEMMA CompletesKeeps ==
  ASSUME ContInv, NEW r \in Threads, Completes(r)
  PROVE  ContInv'
<1> DEFINE a == job[r].agent
           j == [job[r] EXCEPT !.pc = "list", !.todo = {a}]
<1>1. /\ job' = [job EXCEPT ![r] = j] /\ job[r].pc = "running"
      /\ UNCHANGED <<acting, gone, today>>
  BY DEF Completes, ContInv, ContTypeOK
<1>2. /\ a \in Agents
      /\ sessions' \in [Agents -> Seq(Verdicts)]
      /\ \A b \in Agents : DOMAIN sessions'[b] = DOMAIN sessions[b]
      /\ \A b \in Agents \ {a} : sessions'[b] = sessions[b]
  BY <1>1, VerdictWritten DEF Completes, Verdicts
<1>3. /\ j \in Jobs /\ j.pc = "list" /\ j.agent = a /\ j.todo = {a}
      /\ j.closing \subseteq DOMAIN acting
  <2>1. job[r] \in Jobs /\ job[r].closing \subseteq DOMAIN acting
    BY DEF ContInv, ContTypeOK
  <2>2. {a} \in SUBSET Agents
    BY <1>2
  <2> QED BY <2>1, <2>2 DEF Jobs
<1>4. \A b, i : ~Closing(job[r], b, i)
  BY <1>1 DEF Closing
<1>5. ASSUME NEW b \in Agents, NEW i \in OpenCovers(b), Back(b)'
      PROVE  Closing(j, b, i) \/ Back(b)
  <2>1. CASE b = a
    BY <1>3, <2>1 DEF Closing
  <2>2. CASE b # a
    BY <1>2, <1>5, <2>2 DEF Back, NotBack
  <2> QED BY <2>1, <2>2
<1>6. gone' \subseteq Agents
  BY <1>1 DEF ContInv, ContTypeOK
<1> HIDE DEF j, a
<1> QED BY <1>1, <1>2, <1>3, <1>4, <1>5, <1>6, JobChanges

\* A step of one thread that writes nothing.
LEMMA JobGoesOn ==
  ASSUME ContInv, NEW r \in Threads, NEW j \in Jobs, job' = [job EXCEPT ![r] = j],
         UNCHANGED <<acting, sessions, gone, today>>,
         j.pc # "running",
         j.pc # "idle" => j.agent \in Agents,
         j.pc = "open" => SuccessorOf(j.agent) \in Agents \ {j.agent},
         j.closing \subseteq DOMAIN acting,
         j.pc = "list" => j.todo \subseteq {j.agent},
         j.pc \in {"standDown", "standIn", "open"} =>
           j.seen[2] <= Len(acting) /\ NotBack(j.seen[1]),
         j.pc = "open" /\ j.seen[2] = Len(acting) => OpenCovers(SuccessorOf(j.agent)) = {},
         \A a \in Agents : \A i \in OpenCovers(a) :
           Closing(job[r], a, i) => Closing(j, a, i)
  PROVE  ContInv'
<1>1. /\ sessions' \in [Agents -> Seq(Verdicts)] /\ gone' \subseteq Agents
      /\ \A a \in Agents : DOMAIN sessions[a] \subseteq DOMAIN sessions'[a]
  BY DEF ContInv, ContTypeOK
<1>2. \A a \in Agents : Back(a)' => Back(a)
  BY DEF Back, NotBack
<1> QED BY <1>1, <1>2, JobChanges

LEMMA StopsKeeps ==
  ASSUME ContInv, NEW r \in Threads, Stops(r),
         UNCHANGED <<acting, sessions, gone, today>>,
         job[r].pc = "list" => job[r].todo = {} /\ job[r].closing = {}
  PROVE  ContInv'
<1>1. job' = [job EXCEPT ![r] = Idle]
  BY DEF Stops
<1>2. \A a, i : ~Closing(job[r], a, i)
  BY DEF Closing
<1> QED BY <1>1, <1>2, IdleType, JobGoesOn

\* An agent that failed, by the count, is not back.
LEMMA WhoFailedIsNotBack ==
  ASSUME ContInv, NEW a \in Agents, StandsDown(a)
  PROVE  NotBack(sessions[a])
<1> DEFINE F == {i \in DOMAIN sessions[a] :
                   /\ sessions[a][i] = "failed"
                   /\ \A j \in (i + 1)..Len(sessions[a]) : sessions[a][j] # "completed"}
<1> SUFFICES ASSUME Back(a) PROVE FALSE
  BY DEF Back
<1>1. /\ Len(sessions[a]) \in Nat /\ DOMAIN sessions[a] = 1..Len(sessions[a])
      /\ Threshold \in Nat
  BY ContNumbers DEF ContInv
<1>2. sessions[a][Len(sessions[a])] = "completed"
  BY DEF Back, NotBack
<1>3. ASSUME NEW i \in F PROVE FALSE
  <2>1. i \in 1..Len(sessions[a]) /\ sessions[a][i] = "failed"
    BY <1>1
  <2>2. i # Len(sessions[a])
    BY <1>2, <2>1
  <2>3. Len(sessions[a]) \in (i + 1)..Len(sessions[a])
    BY <1>1, <2>1, <2>2
  <2> QED BY <1>2, <1>3, <2>3
<1>4. F = {}
  BY <1>3
<1>5. FailuresInARow(a) = 0
  BY <1>4, FS_EmptySet DEF FailuresInARow
<1> QED BY <1>1, <1>5 DEF StandsDown

LEMMA CountKeeps ==
  ASSUME ContInv, NEW r \in Threads, Count(r)
  PROVE  ContInv'
<1> DEFINE a == job[r].agent
           j == [job[r] EXCEPT !.pc = "standDown", !.seen = Seen(a)]
<1>1. job[r].pc = "count" /\ UNCHANGED <<acting, sessions, gone, today>>
  BY DEF Count
<1>2. CASE StandsDown(a)
  <2>1. job' = [job EXCEPT ![r] = j]
    BY <1>2 DEF Count, ContInv, ContTypeOK
  <2>2. a \in Agents /\ job[r] \in Jobs /\ job[r].closing \subseteq DOMAIN acting
    BY <1>1 DEF ContInv, ContTypeOK
  <2>3. /\ Seen(a) \in Seq(Verdicts) \X Nat
        /\ Seen(a)[1] = sessions[a] /\ Seen(a)[2] = Len(acting)
    <3>1. sessions[a] \in Seq(Verdicts) /\ Len(acting) \in Nat
      BY <2>2, ContNumbers DEF ContInv, ContTypeOK
    <3> QED BY <3>1 DEF Seen
  <2>4. /\ j \in Jobs /\ j.pc = "standDown" /\ j.agent = a /\ j.seen = Seen(a)
        /\ j.closing \subseteq DOMAIN acting
    BY <2>2, <2>3 DEF Jobs
  <2>5. NotBack(sessions[a])
    BY <1>2, <2>2, WhoFailedIsNotBack
  <2>6. \A b, i : ~Closing(job[r], b, i)
    BY <1>1 DEF Closing
  <2>7. j.seen[2] <= Len(acting)
    BY <2>3, <2>4, ContNumbers DEF ContInv
  <2> HIDE DEF j, a
  <2> QED BY <1>1, <2>1, <2>2, <2>3, <2>4, <2>5, <2>6, <2>7, JobGoesOn
<1>3. CASE ~StandsDown(a)
  <2>1. Stops(r)
    BY <1>3 DEF Count
  <2> QED BY <1>1, <2>1, StopsKeeps
<1> QED BY <1>2, <1>3

LEMMA StandDownKeeps ==
  ASSUME ContInv, NEW r \in Threads, StandDown(r)
  PROVE  ContInv'
<1> DEFINE j == [job[r] EXCEPT !.pc = "standIn"]
<1>1. job[r].pc = "standDown" /\ UNCHANGED <<acting, sessions, gone, today>>
  BY DEF StandDown
<1>2. CASE Goes(r, "standIn")
  <2>1. job' = [job EXCEPT ![r] = j]
    BY <1>2 DEF Goes
  <2>2. /\ job[r].agent \in Agents /\ job[r] \in Jobs
        /\ job[r].closing \subseteq DOMAIN acting
        /\ job[r].seen[2] <= Len(acting) /\ NotBack(job[r].seen[1])
    BY <1>1 DEF ContInv, ContTypeOK, JobInv
  <2>3. /\ j \in Jobs /\ j.pc = "standIn" /\ j.agent = job[r].agent
        /\ j.seen = job[r].seen /\ j.closing = job[r].closing
    BY <2>2 DEF Jobs
  <2>4. \A b, i : ~Closing(job[r], b, i)
    BY <1>1 DEF Closing
  <2> HIDE DEF j
  <2> QED BY <1>1, <2>1, <2>2, <2>3, <2>4, JobGoesOn
<1>3. CASE Stops(r)
  BY <1>1, <1>3, StopsKeeps
<1> QED BY <1>2, <1>3 DEF StandDown

LEMMA SuccessorsAreAgents ==
  \A a \in Agents : SuccessorOf(a) \in Agents \union {Nobody}
BY ContinuityAssumption DEF SuccessorOf

LEMMA StandInKeeps ==
  ASSUME ContInv, NEW r \in Threads, StandIn(r)
  PROVE  ContInv'
<1> DEFINE j == [job[r] EXCEPT !.pc = "open"]
           s == SuccessorOf(job[r].agent)
<1>1. job[r].pc = "standIn" /\ UNCHANGED <<acting, sessions, gone, today>>
  BY DEF StandIn
<1>2. CASE s \notin {Nobody, job[r].agent} /\ OpenCovers(s) = {}
  <2>1. job' = [job EXCEPT ![r] = j]
    BY <1>2 DEF Goes, StandIn
  <2>2. /\ job[r].agent \in Agents /\ job[r] \in Jobs
        /\ job[r].closing \subseteq DOMAIN acting
        /\ job[r].seen[2] <= Len(acting) /\ NotBack(job[r].seen[1])
    BY <1>1 DEF ContInv, ContTypeOK, JobInv
  <2>3. /\ j \in Jobs /\ j.pc = "open" /\ j.agent = job[r].agent
        /\ j.seen = job[r].seen /\ j.closing = job[r].closing
    BY <2>2 DEF Jobs
  <2>4. \A b, i : ~Closing(job[r], b, i)
    BY <1>1 DEF Closing
  <2>5. SuccessorOf(j.agent) \in Agents \ {j.agent} /\ OpenCovers(SuccessorOf(j.agent)) = {}
    BY <1>2, <2>2, <2>3, SuccessorsAreAgents
  <2> HIDE DEF j, s
  <2> QED BY <1>1, <2>1, <2>2, <2>3, <2>4, <2>5, JobGoesOn
<1>3. CASE ~(s \notin {Nobody, job[r].agent} /\ OpenCovers(s) = {})
  <2>1. Stops(r)
    BY <1>3 DEF StandIn
  <2> QED BY <1>1, <2>1, StopsKeeps
<1> QED BY <1>2, <1>3

LEMMA LeaveKeeps ==
  ASSUME ContInv, NEW r \in Threads, NEW a \in Agents, Leave(r, a)
  PROVE  ContInv'
<1> DEFINE T == {a} \union {acting[i].failed : i \in
                   {k \in DOMAIN acting : acting[k].successor = a /\ Open(k)}}
           j == [Idle EXCEPT !.pc = "leaving", !.agent = a, !.todo = T]
<1>1. /\ job[r].pc = "idle" /\ job' = [job EXCEPT ![r] = j]
      /\ UNCHANGED <<acting, sessions, gone, today>>
  BY DEF Leave
<1>2. T \in SUBSET Agents
  BY ContNumbers DEF ContInv
<1>3. j \in Jobs /\ j.pc = "leaving" /\ j.agent = a /\ j.closing = {}
  <2> HIDE DEF T
  <2> QED BY <1>2, IdleType DEF Jobs
<1>4. \A b, i : ~Closing(job[r], b, i)
  BY <1>1 DEF Closing
<1> HIDE DEF j
<1> QED BY <1>1, <1>3, <1>4, JobGoesOn

LEMMA CloseListKeeps ==
  ASSUME ContInv, NEW r \in Threads, NEW a \in Agents, CloseList(r, a)
  PROVE  ContInv'
<1> DEFINE C == {i \in DOMAIN acting : acting[i].failed = a /\ acting[i].active}
           j == [job[r] EXCEPT !.todo = @ \ {a}, !.closing = C]
<1>0. job[r] \in Jobs
  BY DEF ContInv, ContTypeOK
<1>1. /\ job[r].pc \in {"list", "leaving"} /\ job[r].closing = {} /\ a \in job[r].todo
      /\ job' = [job EXCEPT ![r] = j]
      /\ UNCHANGED <<acting, sessions, gone, today>>
  BY <1>0 DEF CloseList, Jobs, ContInv, ContTypeOK
<1>2. /\ C \in SUBSET Nat /\ C \subseteq DOMAIN acting
  BY ContNumbers DEF ContInv
<1>3. /\ j \in Jobs /\ j.pc = job[r].pc /\ j.agent = job[r].agent /\ j.closing = C
      /\ j.todo = job[r].todo \ {a}
  <2> HIDE DEF C
  <2> QED BY <1>0, <1>2 DEF Jobs
<1>4. /\ job[r].agent \in Agents
      /\ job[r].pc = "list" => job[r].todo \subseteq {job[r].agent}
  BY <1>1 DEF ContInv, ContTypeOK, JobInv
<1>5. ASSUME NEW b \in Agents, NEW i \in OpenCovers(b), Closing(job[r], b, i)
      PROVE  Closing(j, b, i)
  <2>1. b = a
    BY <1>1, <1>4, <1>5 DEF Closing
  <2>2. i \in C
    BY <2>1 DEF OpenCovers, Open
  <2> HIDE DEF C, j
  <2> QED BY <1>3, <1>5, <2>2 DEF Closing
<1> HIDE DEF j, C
<1> QED BY <1>1, <1>2, <1>3, <1>4, <1>5, JobGoesOn

LEMMA ClosedKeeps ==
  ASSUME ContInv, NEW r \in Threads, Closed(r)
  PROVE  ContInv'
BY StopsKeeps DEF Closed

LEMMA GoneKeeps ==
  ASSUME ContInv, NEW r \in Threads, Gone(r)
  PROVE  ContInv'
<1>0. PICK a : a = job[r].agent
  OBVIOUS
<1>1. /\ job[r].pc = "leaving" /\ a \in Agents /\ sessions[a] \in Seq(Verdicts)
      /\ gone' = gone \union {a} /\ UNCHANGED <<acting, today>>
      /\ job' = [job EXCEPT ![r] = Idle]
  BY <1>0 DEF Gone, Stops, ContInv, ContTypeOK
<1> DEFINE S == [i \in DOMAIN sessions[a] |->
                   IF sessions[a][i] = "running" THEN "failed" ELSE sessions[a][i]]
<1>2. sessions' = [sessions EXCEPT ![a] = S]
  BY <1>0 DEF Gone
<1>3. /\ S \in Seq(Verdicts) /\ DOMAIN S = DOMAIN sessions[a]
      /\ Len(S) = Len(sessions[a])
  BY <1>1 DEF Verdicts
<1>4. \A i \in DOMAIN sessions[a] : S[i] = "completed" => sessions[a][i] = "completed"
  OBVIOUS
<1> HIDE DEF S
<1>5. /\ sessions' \in [Agents -> Seq(Verdicts)] /\ sessions'[a] = S
      /\ \A b \in Agents \ {a} : sessions'[b] = sessions[b]
      /\ \A b \in Agents : DOMAIN sessions[b] \subseteq DOMAIN sessions'[b]
  BY <1>1, <1>2, <1>3 DEF ContInv, ContTypeOK
<1>6. ASSUME Back(a)' PROVE Back(a)
  <2>1. S # <<>> /\ S[Len(sessions[a])] = "completed"
    BY <1>3, <1>5, <1>6 DEF Back, NotBack
  <2>2. Len(sessions[a]) \in DOMAIN sessions[a] /\ sessions[a] # <<>>
    BY <1>1, <1>3, <2>1
  <2>3. sessions[a][Len(sessions[a])] = "completed"
    BY <1>4, <2>1, <2>2
  <2> QED BY <2>2, <2>3 DEF Back, NotBack
<1>7. \A b \in Agents : Back(b)' => Back(b)
  <2>1. \A b \in Agents \ {a} : Back(b)' = Back(b)
    BY <1>5 DEF Back, NotBack
  <2> QED BY <1>6, <2>1
<1>8. gone' \subseteq Agents
  BY <1>1 DEF ContInv, ContTypeOK
<1>9. \A b, i : ~Closing(job[r], b, i)
  BY <1>1 DEF Closing
<1> QED BY <1>1, <1>5, <1>7, <1>8, <1>9, IdleType, JobChanges

\* A step that ends covers, or a day.
LEMMA FadesKeepsTheRest ==
  ASSUME ContInv, Fades, ContTypeOK', UNCHANGED sessions,
         \A r \in Threads : /\ job'[r].pc = job[r].pc /\ job'[r].agent = job[r].agent
                            /\ job'[r].seen = job[r].seen /\ job'[r].todo = job[r].todo,
         \A r \in Threads : \A a \in Agents : \A i \in OpenCovers(a)' :
           i \in job[r].closing => i \in job'[r].closing
  PROVE  ContInv'
<1>1. GrantsAreSafe' /\ CoverInv' /\ \A a : OpenCovers(a)' \subseteq OpenCovers(a)
  BY FadesKeeps DEF ContInv
<1>2. ASSUME NEW r \in Threads
      PROVE  /\ job'[r].pc = "list" => job'[r].todo \subseteq {job'[r].agent}
             /\ job'[r].pc \in {"standDown", "standIn", "open"} =>
                  job'[r].seen[2] <= Len(acting') /\ NotBack(job'[r].seen[1])
             /\ job'[r].pc = "open" /\ job'[r].seen[2] = Len(acting') =>
                  OpenCovers(SuccessorOf(job[r].agent))' = {}
  <2>1. Len(acting') = Len(acting)
    BY DEF Fades
  <2>2. PICK s : s = SuccessorOf(job[r].agent)
    OBVIOUS
  <2>3. OpenCovers(s)' \subseteq OpenCovers(s)
    BY <1>1
  <2>4. SuccessorOf(job[r].agent)' = s
    BY <2>2 DEF SuccessorOf
  <2> QED BY <2>1, <2>2, <2>3, <2>4 DEF ContInv, JobInv
<1>3. JobInv'
  BY <1>2 DEF JobInv, NotBack
<1>4. ASSUME NEW a \in Agents, Back(a)', NEW i \in OpenCovers(a)', acting'[i].fresh
      PROVE  BeingClosed(a, i)'
  <2>1. Back(a) /\ i \in OpenCovers(a)
    BY <1>1, <1>4 DEF Back, NotBack
  <2>2. acting[i].fresh
    BY <1>4, <2>1 DEF Fades, OpenCovers
  <2>3. PICK r \in Threads : Closing(job[r], a, i)
    BY <2>1, <2>2 DEF ContInv, BackInv, BeingClosed
  <2>4. Closing(job'[r], a, i)
    BY <1>4, <2>3 DEF Closing
  <2> QED BY <2>4 DEF BeingClosed, Closing
<1>5. BackInv'
  BY <1>4 DEF BackInv
<1> QED BY <1>1, <1>3, <1>5 DEF ContInv

LEMMA CloseOneKeeps ==
  ASSUME ContInv, NEW r \in Threads, NEW k \in DOMAIN acting, CloseOne(r, k)
  PROVE  ContInv'
<1> DEFINE j == [job[r] EXCEPT !.closing = @ \ {k}]
           c == [acting[k] EXCEPT !.active = FALSE]
<1>1. /\ job[r] \in Jobs /\ acting[k] \in Covers /\ k \in job[r].closing
      /\ UNCHANGED <<sessions, gone, today>>
      /\ acting' = [acting EXCEPT ![k] = c] /\ job' = [job EXCEPT ![r] = j]
  BY DEF CloseOne, ContInv, ContTypeOK
<1>2. /\ c \in Covers /\ c.active = FALSE /\ c.failed = acting[k].failed
      /\ c.successor = acting[k].successor /\ c.lateral = acting[k].lateral
      /\ c.decisions = acting[k].decisions /\ c.withheld = acting[k].withheld
      /\ c.ends = acting[k].ends /\ c.fresh = acting[k].fresh
  BY <1>1 DEF Covers
<1>3. /\ j \in Jobs /\ j.pc = job[r].pc /\ j.agent = job[r].agent /\ j.todo = job[r].todo
      /\ j.closing = job[r].closing \ {k} /\ j.seen = job[r].seen
      /\ j.session = job[r].session
  BY <1>1 DEF Jobs
<1> HIDE DEF j, c
<1>4. /\ acting' \in Seq(Covers) /\ DOMAIN acting' = DOMAIN acting
      /\ Len(acting') = Len(acting) /\ acting'[k] = c
      /\ \A i \in DOMAIN acting \ {k} : acting'[i] = acting[i]
  BY <1>1, <1>2 DEF ContInv, ContTypeOK
<1>5. /\ job' \in [Threads -> Jobs] /\ job'[r] = j
      /\ \A q \in Threads \ {r} : job'[q] = job[q]
  BY <1>1, <1>3 DEF ContInv, ContTypeOK
<1>6. Fades
  <2>1. today' \in Nat /\ today <= today'
    BY <1>1, ContNumbers DEF ContInv
  <2> QED BY <1>2, <1>4, <2>1 DEF Fades
<1>7. \A q \in Threads : /\ job'[q].pc = job[q].pc /\ job'[q].agent = job[q].agent
                         /\ job'[q].seen = job[q].seen /\ job'[q].todo = job[q].todo
                         /\ job'[q].session = job[q].session
                         /\ job'[q].closing \subseteq job[q].closing
                         /\ \A i \in job[q].closing : i # k => i \in job'[q].closing
  BY <1>3, <1>5
<1>8. ContTypeOK'
  <2>1. \A a : SuccessorOf(a)' = SuccessorOf(a)
    BY DEF SuccessorOf
  <2> QED BY <1>1, <1>4, <1>5, <1>7, <2>1 DEF ContInv, ContTypeOK
<1>9. \A a \in Agents : \A i \in OpenCovers(a)' : i # k
  BY <1>2, <1>4 DEF OpenCovers, Open
<1> QED BY <1>1, <1>6, <1>7, <1>8, <1>9, FadesKeepsTheRest

LEMMA DayPassesKeeps ==
  ASSUME ContInv, DayPasses
  PROVE  ContInv'
<1>1. today \in Nat /\ today < MaxDay /\ today' = today + 1 /\ MaxDay \in Nat
      /\ UNCHANGED <<acting, sessions, gone, job>>
  BY ContNumbers DEF ContInv, DayPasses
<1>2. Fades
  BY <1>1 DEF Fades
<1>3. ContTypeOK'
  BY <1>1 DEF ContInv, ContTypeOK, SuccessorOf
<1> QED BY <1>1, <1>2, <1>3, FadesKeepsTheRest

LEMMA OpenCoverKeeps ==
  ASSUME ContInv, NEW r \in Threads, OpenCover(r)
  PROVE  ContInv'
<1>1. PICK a, fresh : a = job[r].agent /\ fresh = (job[r].seen = Seen(a))
  OBVIOUS
<1>0. fresh => job[r].seen[1] = sessions[a] /\ job[r].seen[2] = Len(acting)
  <2>1. fresh => job[r].seen = Seen(a)
    BY <1>1, Zenon
  <2> QED BY <2>1 DEF Seen
<1>2. PICK n : n = Len(acting)
  OBVIOUS
<1>3. PICK c : c = Assignment(a, fresh)
  OBVIOUS
<1>4. /\ job[r].pc = "open" /\ n < MaxCovers /\ acting' = Append(acting, c)
      /\ job' = [job EXCEPT ![r] = Idle] /\ UNCHANGED <<sessions, gone, today>>
  BY <1>1, <1>2, <1>3 DEF OpenCover, Stops
<1>5. a \in Agents /\ SuccessorOf(a) \in Agents \ {a} /\ fresh \in BOOLEAN
  BY <1>1, <1>4 DEF ContInv, ContTypeOK
<1>6. /\ c \in Covers /\ SafeCover(c) /\ c.failed = a /\ c.successor = SuccessorOf(a)
      /\ c.fresh = fresh
  BY <1>3, <1>5, AssignmentIsSafe DEF ContInv
<1>7. n \in Nat /\ MaxCovers \in Nat /\ DOMAIN acting = 1..n
  BY <1>2, ContNumbers DEF ContInv
<1>8. /\ acting' \in Seq(Covers) /\ Len(acting') = n + 1 /\ DOMAIN acting' = 1..(n + 1)
      /\ acting'[n + 1] = c /\ \A i \in 1..n : acting'[i] = acting[i]
  BY <1>2, <1>4, <1>6, <1>7 DEF ContInv, ContTypeOK
<1>9. /\ job' \in [Threads -> Jobs] /\ job'[r] = Idle
      /\ \A q \in Threads \ {r} : job'[q] = job[q]
  BY <1>4, IdleType DEF ContInv, ContTypeOK
<1>10. ContTypeOK'
  <2>1. ASSUME NEW q \in Threads
        PROVE  /\ job'[q].pc # "idle" => job'[q].agent \in Agents
               /\ job'[q].pc = "running" => job'[q].session \in DOMAIN sessions[job'[q].agent]
               /\ job'[q].pc = "open" =>
                    SuccessorOf(job'[q].agent) \in Agents \ {job'[q].agent}
               /\ job'[q].closing \subseteq DOMAIN acting'
    <3>1. CASE q = r
      BY <1>9, <3>1, IdleType
    <3>2. CASE q # r
      <4>1. job'[q] = job[q]
        BY <1>9, <3>2
      <4>2. job[q].closing \subseteq DOMAIN acting'
        BY <1>7, <1>8 DEF ContInv, ContTypeOK
      <4> QED BY <4>1, <4>2 DEF ContInv, ContTypeOK
    <3> QED BY <3>1, <3>2
  <2>2. \A q : SuccessorOf(q)' = SuccessorOf(q)
    BY DEF SuccessorOf
  <2>3. n + 1 <= MaxCovers
    BY <1>4, <1>7
  <2>4. sessions' \in [Agents -> Seq(Verdicts)] /\ gone' \subseteq Agents /\ today' \in 0..MaxDay
    BY <1>4 DEF ContInv, ContTypeOK
  <2> QED BY <1>4, <1>8, <1>9, <2>1, <2>2, <2>3, <2>4 DEF ContTypeOK
<1>11. GrantsAreSafe'
  <2>1. ASSUME NEW i \in 1..(n + 1) PROVE SafeCover(acting'[i])
    <3>1. CASE i = n + 1
      BY <1>6, <1>8, <3>1
    <3>2. CASE i # n + 1
      <4>1. i \in DOMAIN acting /\ acting'[i] = acting[i]
        BY <1>7, <1>8, <3>2
      <4> QED BY <4>1 DEF ContInv, GrantsAreSafe, SafeCover
    <3> QED BY <3>1, <3>2
  <2> QED BY <1>8, <2>1 DEF GrantsAreSafe, SafeCover
<1>12. \A i \in 1..n : Open(i)' = Open(i)
  BY <1>4, <1>8 DEF Open
<1>13. CoverInv'
  <2>1. ASSUME NEW i \in 1..(n + 1)
        PROVE  /\ acting'[i].failed # acting'[i].successor
               /\ acting'[i].fresh => \A k \in 1..(i - 1) :
                    acting'[k].failed = acting'[i].successor => ~Open(k)'
    <3>1. CASE i = n + 1
      <4>1. c.failed # c.successor
        BY <1>5, <1>6
      <4>2. ASSUME fresh, NEW k \in 1..n, acting'[k].failed = c.successor PROVE ~Open(k)'
        <5>1. job[r].seen[2] = Len(acting)
          BY <1>0, <4>2
        <5>2. OpenCovers(SuccessorOf(a)) = {}
          BY <1>1, <1>4, <5>1 DEF ContInv, JobInv
        <5>3. k \in DOMAIN acting /\ acting[k].failed = SuccessorOf(a)
          BY <1>6, <1>7, <1>8, <4>2
        <5>4. ~Open(k)
          BY <5>2, <5>3 DEF OpenCovers
        <5> QED BY <1>12, <5>4
      <4>3. i - 1 = n
        BY <1>7, <3>1
      <4> QED BY <1>6, <1>8, <3>1, <4>1, <4>2, <4>3
    <3>2. CASE i # n + 1
      <4>1. i \in DOMAIN acting /\ acting'[i] = acting[i]
        BY <1>7, <1>8, <3>2
      <4>2. ASSUME NEW k \in 1..(i - 1)
            PROVE  acting'[k] = acting[k] /\ Open(k)' = Open(k)
        <5>1. k \in 1..n
          BY <1>7, <4>1
        <5> QED BY <1>8, <1>12, <5>1
      <4> QED BY <4>1, <4>2 DEF ContInv, CoverInv
    <3> QED BY <3>1, <3>2
  <2> QED BY <1>8, <2>1 DEF CoverInv
<1>14. JobInv'
  <2>1. ASSUME NEW q \in Threads
        PROVE  /\ job'[q].pc = "list" => job'[q].todo \subseteq {job'[q].agent}
               /\ job'[q].pc \in {"standDown", "standIn", "open"} =>
                    /\ job'[q].seen[2] <= n + 1 /\ job'[q].seen[2] # n + 1
                    /\ NotBack(job'[q].seen[1])
    <3>1. CASE q = r
      BY <1>9, <3>1, IdleType
    <3>2. CASE q # r
      <4>1. job'[q] = job[q]
        BY <1>9, <3>2
      <4>2. job[q].seen[2] \in Nat
        BY ContNumbers DEF ContInv
      <4>3. job[q].pc \in {"standDown", "standIn", "open"} => job[q].seen[2] <= n
        BY <1>2 DEF ContInv, JobInv
      <4>4. job[q].pc \in {"standDown", "standIn", "open"} =>
              job[q].seen[2] <= n + 1 /\ job[q].seen[2] # n + 1
        BY <1>7, <4>2, <4>3
      <4> QED BY <4>1, <4>4 DEF ContInv, JobInv
    <3> QED BY <3>1, <3>2
  <2> QED BY <1>8, <2>1 DEF JobInv, NotBack
<1>15. ASSUME NEW b \in Agents, Back(b)', NEW i \in OpenCovers(b)', acting'[i].fresh
       PROVE  BeingClosed(b, i)'
  <2>1. i \in 1..(n + 1) /\ acting'[i].failed = b /\ Open(i)' /\ Back(b)
    BY <1>4, <1>8, <1>15 DEF OpenCovers, Back, NotBack
  <2>2. CASE i = n + 1
    <3>1. fresh /\ b = a
      BY <1>6, <1>8, <1>15, <2>1, <2>2
    <3>2. job[r].seen[1] = sessions[a]
      BY <1>0, <3>1
    <3>3. NotBack(sessions[a])
      BY <1>4, <3>2 DEF ContInv, JobInv
    <3> QED BY <2>1, <3>1, <3>3 DEF Back
  <2>3. CASE i # n + 1
    <3>1. i \in 1..n
      BY <1>7, <2>1, <2>3
    <3>2. i \in OpenCovers(b) /\ acting[i].fresh
      BY <1>7, <1>8, <1>12, <1>15, <2>1, <3>1 DEF OpenCovers
    <3>3. PICK q \in Threads : Closing(job[q], b, i)
      BY <2>1, <3>2 DEF ContInv, BackInv, BeingClosed
    <3>4. q # r
      BY <1>4, <3>3 DEF Closing
    <3>5. Closing(job'[q], b, i)
      BY <1>9, <3>3, <3>4
    <3> QED BY <3>5 DEF BeingClosed, Closing
  <2> QED BY <2>2, <2>3
<1>16. BackInv'
  BY <1>15 DEF BackInv
<1> QED BY <1>10, <1>11, <1>13, <1>14, <1>16 DEF ContInv

\* A step of any thread, or of time, keeps the inductive invariant.
LEMMA ContStep == ASSUME ContInv, [ContNext]_contVars PROVE ContInv'
<1>1. ASSUME NEW r \in Threads, ThreadStep(r) PROVE ContInv'
  <2>1. ASSUME NEW a \in Agents, Begin(r, a) \/ Leave(r, a) \/ CloseList(r, a) PROVE ContInv'
    BY <2>1, BeginKeeps, LeaveKeeps, CloseListKeeps
  <2>2. ASSUME NEW i \in DOMAIN acting, CloseOne(r, i) PROVE ContInv'
    BY <2>2, CloseOneKeeps
  <2> QED BY <1>1, <2>1, <2>2, FailsKeeps, CompletesKeeps, CountKeeps, StandDownKeeps,
             StandInKeeps, OpenCoverKeeps, ClosedKeeps, GoneKeeps DEF ThreadStep
<1>2. CASE UNCHANGED contVars
  <2>1. Fades
    BY <1>2, ContNumbers DEF contVars, Fades, ContInv
  <2>2. ContTypeOK'
    BY <1>2 DEF contVars, ContInv, ContTypeOK, SuccessorOf
  <2> QED BY <1>2, <2>1, <2>2, FadesKeepsTheRest DEF contVars
<1> QED BY <1>1, <1>2, DayPassesKeeps DEF ContNext

\* Of the covers opened in time that lead around in a circle, the latest
\* would have found the one before it open.
LEMMA CirclesAreRaces == ContInv => CyclesAreRaces
<1> SUFFICES ASSUME ContInv, NEW S \in SUBSET Agents, S # {},
                    \A a \in S : \E i \in OpenCovers(a) :
                      acting[i].fresh /\ acting[i].successor \in S
             PROVE  FALSE
  BY DEF CyclesAreRaces
<1> DEFINE T == {i \in DOMAIN acting : /\ acting[i].fresh /\ Open(i)
                   /\ acting[i].failed \in S /\ acting[i].successor \in S}
           L == {Len(acting) - i : i \in T}
<1>1. Len(acting) \in Nat /\ DOMAIN acting = 1..Len(acting)
  BY ContNumbers DEF ContInv
<1>2. ASSUME NEW a \in S PROVE \E i \in T : acting[i].failed = a
  BY DEF OpenCovers
<1>3. T # {}
  BY <1>2
<1>4. L \subseteq Nat /\ L # {}
  BY <1>1, <1>3
<1>5. PICK m \in L : \A k \in L : m <= k
  <2> HIDE DEF L
  <2> QED BY <1>4, LeastNatural
<1>6. PICK i \in T : m = Len(acting) - i
  OBVIOUS
<1>7. PICK k \in T : acting[k].failed = acting[i].successor
  BY <1>2
<1>8. i \in 1..Len(acting) /\ k \in 1..Len(acting) /\ m <= Len(acting) - k
  BY <1>1, <1>5
<1>9. k <= i
  BY <1>1, <1>6, <1>8
<1>10. k # i
  BY <1>7 DEF ContInv, CoverInv
<1>11. k \in 1..(i - 1)
  BY <1>8, <1>9, <1>10
<1> QED BY <1>7, <1>11 DEF ContInv, CoverInv

LEMMA NobodyStaysCovered == ContInv => BackIsBack
<1> SUFFICES ASSUME ContInv, \A r \in Threads : job[r].pc \in {"idle", "running"},
                    NEW a \in Agents, sessions[a] # <<>>,
                    sessions[a][Len(sessions[a])] = "completed",
                    NEW i \in OpenCovers(a), acting[i].fresh
             PROVE  FALSE
  BY DEF BackIsBack
<1>1. Back(a)
  BY DEF Back, NotBack
<1>2. PICK r \in Threads : Closing(job[r], a, i)
  BY <1>1 DEF ContInv, BackInv, BeingClosed
<1> QED BY <1>2 DEF Closing

LEMMA ContInvariant == ContSpec => []ContInv
BY ContInitInv, ContStep, PTL DEF ContSpec
-----------------------------------------------------------------------------
(***************************************************************************)
(* What is proved                                                          *)
(***************************************************************************)
\* Type correctness of covers, sessions and what each run is about to write
\* (continuity.py, runtime/engine.py): whoever is to open a cover knows a
\* successor that is somebody else.
THEOREM ContinuityTypeCorrect == ContSpec => []ContTypeOK
<1>1. ContInv => ContTypeOK
  BY DEF ContInv
<1> QED BY <1>1, ContInvariant, PTL

\* For any mandates and any rules, what split_mandate confers never gives a
\* successor both halves of a separation, and whatever it withholds has a
\* rule against it (continuity.py, split_mandate and open_assignment).
THEOREM CoversAreSafe == ContSpec => []GrantsAreSafe
<1>1. ContInv => GrantsAreSafe
  BY DEF ContInv
<1> QED BY <1>1, ContInvariant, PTL

\* With any succession and any number of runs, a circle of covers has one
\* that was opened after its check had gone stale (org.py, stand_in_for).
THEOREM CirclesOnlyByRaces == ContSpec => []CyclesAreRaces
BY ContInvariant, CirclesAreRaces, PTL

\* Once an agent's latest run completed and nothing is being judged, only a
\* cover that was opened too late still stands (runtime/engine.py, run;
\* continuity.py, close_standing_in).
THEOREM BackEndsTheCover == ContSpec => []BackIsBack
BY ContInvariant, NobodyStaysCovered, PTL

-----------------------------------------------------------------------------
(***************************************************************************)
(* A successor to one leader                                               *)
(***************************************************************************)
\* A cover confers what the split of the two mandates grants, or nothing.
FromSplit(c) ==
  /\ Successor[c.failed] # Nobody => c.successor = Successor[c.failed]
  /\ \A d \in c.decisions : /\ Successor[c.failed] # Nobody
                            /\ d \in Granted(Mandate[c.failed], Mandate[c.successor])

SplitInv == \A i \in DOMAIN acting : FromSplit(acting[i])

LEMMA AssignmentIsFromSplit ==
  ASSUME NEW a, NEW fresh PROVE FromSplit(Assignment(a, fresh))
BY DEF FromSplit, Assignment, SuccessorOf

LEMMA SplitStep == ASSUME ContInv, SplitInv, [ContNext]_contVars PROVE SplitInv'
<1>1. CASE UNCHANGED acting
  BY <1>1 DEF SplitInv, FromSplit
<1>2. ASSUME NEW r \in Threads, OpenCover(r) PROVE SplitInv'
  <2>1. PICK a \in Agents, fresh \in BOOLEAN :
          /\ SuccessorOf(a) \in Agents \ {a}
          /\ acting' = Append(acting, Assignment(a, fresh))
    <3>1. job[r].agent \in Agents /\ SuccessorOf(job[r].agent) \in Agents \ {job[r].agent}
      BY <1>2 DEF OpenCover, ContInv, ContTypeOK
    <3> QED BY <1>2, <3>1 DEF OpenCover
  <2>2. PICK c : c = Assignment(a, fresh)
    OBVIOUS
  <2>3. FromSplit(c) /\ c \in Covers /\ acting' = Append(acting, c) /\ acting \in Seq(Covers)
    BY <2>1, <2>2, AssignmentIsFromSplit, AssignmentIsSafe DEF ContInv, ContTypeOK
  <2>4. ASSUME NEW i \in DOMAIN acting'
        PROVE  acting'[i] = c \/ (i \in DOMAIN acting /\ acting'[i] = acting[i])
    <3> HIDE DEF Covers
    <3>1. /\ DOMAIN acting' = 1..(Len(acting) + 1) /\ DOMAIN acting = 1..Len(acting)
          /\ Len(acting) \in Nat /\ acting'[Len(acting) + 1] = c
          /\ \A k \in 1..Len(acting) : acting'[k] = acting[k]
      BY <2>3
    <3> QED BY <3>1
  <2> QED BY <2>3, <2>4 DEF SplitInv, FromSplit
<1>3. ASSUME NEW r \in Threads, NEW k \in DOMAIN acting, CloseOne(r, k) PROVE SplitInv'
  <2>1. acting' = [acting EXCEPT ![k].active = FALSE]
    BY <1>3 DEF CloseOne
  <2>2. DOMAIN acting' = DOMAIN acting /\ \A i \in DOMAIN acting : acting[i] \in Covers
    BY <2>1 DEF ContInv, ContTypeOK
  <2>3. \A i \in DOMAIN acting :
          /\ acting'[i].failed = acting[i].failed
          /\ acting'[i].successor = acting[i].successor
          /\ acting'[i].decisions = acting[i].decisions
    BY <2>1, <2>2 DEF Covers
  <2> QED BY <2>2, <2>3 DEF SplitInv, FromSplit
<1>4. ASSUME ~ UNCHANGED acting, NEW r \in Threads, ThreadStep(r)
      PROVE  OpenCover(r) \/ \E k \in DOMAIN acting : CloseOne(r, k)
  BY <1>4 DEF ThreadStep, Begin, Leave, CloseList, Fails, Completes, Count, StandDown,
     StandIn, Closed, Gone
<1> QED BY <1>1, <1>2, <1>3, <1>4 DEF ContNext, DayPasses, contVars

\* No agent holds two separated decisions by itself, and none is the
\* declared successor of two.
SoundMandates == \A a \in Agents, r \in Separations :
                   \A d, e \in Mandate[a] \intersect r : d = e

OneLeaderEach == \A a, b \in Agents :
                   Successor[a] = Successor[b] /\ Successor[a] # Nobody => a = b

LEMMA OneLeaderHolds ==
  ASSUME SoundMandates, OneLeaderEach, ContInv, SplitInv
  PROVE  NothingForbiddenIsHeld
<1> SUFFICES ASSUME NEW s \in Agents, NEW r \in Separations
             PROVE  Cardinality(Held(s) \intersect r) <= 1
  BY DEF NothingForbiddenIsHeld
<1>1. PICK G : /\ Held(s) \subseteq Mandate[s] \union G
               /\ \A d \in G : ~Conflicts(d, Mandate[s] \union G)
  <2>1. CASE \E i \in DOMAIN acting : acting[i].successor = s /\ acting[i].decisions # {}
    <3>1. PICK i \in DOMAIN acting : acting[i].successor = s /\ acting[i].decisions # {}
      BY <2>1
    <3>2. PICK a : a = acting[i].failed
      OBVIOUS
    <3>3. a \in Agents /\ Successor[a] = s /\ Successor[a] # Nobody
      BY <3>1, <3>2, ContNumbers DEF ContInv, SplitInv, FromSplit
    <3>4. ASSUME NEW k \in DOMAIN acting, acting[k].successor = s, NEW d \in acting[k].decisions
          PROVE  d \in Granted(Mandate[a], Mandate[s])
      <4>1. /\ acting[k].failed \in Agents /\ Successor[acting[k].failed] = s
            /\ d \in Granted(Mandate[acting[k].failed], Mandate[s])
        BY <3>4, ContNumbers DEF ContInv, SplitInv, FromSplit
      <4>2. acting[k].failed = a
        BY <3>3, <4>1 DEF OneLeaderEach
      <4> QED BY <4>1, <4>2
    <3>5. Held(s) \subseteq Mandate[s] \union Granted(Mandate[a], Mandate[s])
      BY <3>4 DEF Held
    <3>6. \A d \in Granted(Mandate[a], Mandate[s]) :
            ~Conflicts(d, Mandate[s] \union Granted(Mandate[a], Mandate[s]))
      BY <3>3, MandatesAreNumbers, GrantedIsSafe
    <3> QED BY <3>5, <3>6
  <2>2. CASE \A i \in DOMAIN acting : acting[i].successor = s => acting[i].decisions = {}
    <3>1. PICK none : none = {}
      OBVIOUS
    <3>2. Held(s) \subseteq Mandate[s] \union none
      BY <2>2 DEF Held
    <3>3. \A d \in none : ~Conflicts(d, Mandate[s] \union none)
      BY <3>1
    <3> QED BY <3>2, <3>3
  <2> QED BY <2>1, <2>2
<1>2. ASSUME NEW d \in Held(s) \intersect r, NEW e \in Held(s) \intersect r PROVE d = e
  <2>1. ASSUME NEW x \in r, NEW y \in r, x \in G, y \in Mandate[s] \union G, x # y PROVE FALSE
    BY <1>1, <2>1 DEF Conflicts
  <2> QED BY <1>1, <2>1 DEF SoundMandates
<1>3. CASE Held(s) \intersect r = {}
  BY <1>3, FS_EmptySet
<1>4. CASE Held(s) \intersect r # {}
  <2>1. PICK d : d \in Held(s) \intersect r
    BY <1>4
  <2>2. Held(s) \intersect r = {d}
    BY <1>2, <2>1
  <2> QED BY <2>2, FS_Singleton
<1> QED BY <1>3, <1>4

\* Where nobody is the declared successor of two leaders, and no mandate
\* breaks a rule by itself, standing in never gives anybody two separated
\* decisions, however many covers are open (continuity.py, split_mandate):
\* what standin_forbidden refutes needs two leaders with one successor.
THEOREM OneLeaderIsSafe ==
  ASSUME SoundMandates, OneLeaderEach PROVE ContSpec => []NothingForbiddenIsHeld
<1>1. ContInit => SplitInv
  BY DEF ContInit, SplitInv
<1>2. ContInv /\ SplitInv => NothingForbiddenIsHeld
  BY OneLeaderHolds
<1> QED BY <1>1, <1>2, ContInvariant, SplitStep, PTL DEF ContSpec
-----------------------------------------------------------------------------
(***************************************************************************)
(* Together                                                                *)
(***************************************************************************)
\* A behaviour of the composition is of one subject; the other stands still.
LEMMA PeopleInvariant == PeopleSpec => [](ContInv /\ WsInv)
<1>1. PeopleInit => ContInv /\ WsInv
  BY ContInitInv, WsInitInv DEF PeopleInit
<1>2. ASSUME ContInv, WsInv, [PeopleNext]_<<subject, contVars, wsVars>>
      PROVE  ContInv' /\ WsInv'
  <2>1. [ContNext]_contVars /\ [WsNext]_wsVars
    BY <1>2 DEF PeopleNext, WsNext
  <2> QED BY <1>2, <2>1, ContStep, WsStep
<1> QED BY <1>1, <1>2, PTL DEF PeopleSpec

\* Type correctness of people and covers together: of members, locks and the
\* requests for them, and of covers and the runs that open them.
THEOREM PeopleTypeCorrect == PeopleSpec => []PeopleTypeOK
<1>1. ContInv /\ WsInv => PeopleTypeOK
  BY DEF ContInv, WsInv, PeopleTypeOK
<1> QED BY <1>1, PeopleInvariant, PTL
=============================================================================
