------------------------- MODULE DesignerSaveProofs -------------------------
(***************************************************************************)
(* What saving a shared design promises, for any editors, parts, values,   *)
(* number of kept revisions and number of saves.                           *)
(***************************************************************************)
EXTENDS DesignerSave, TLAPS

USE DEF vars, editorVars

\* What an editor opened, and what a conflict carried, was saved before.
SeenInv ==
  \A e \in Editors : base[e] <= version /\ theirs[e] <= version

DInv == TypeOK /\ SeenInv

LEMMA NoChoicesType == NoChoices \in [Parts -> Choices]
BY DEF NoChoices, Choices

LEMMA MergedSpecType ==
  ASSUME TypeOK, NEW e \in Editors
  PROVE  MergedSpec(e) \in Specs
<1> SUFFICES ASSUME NEW p \in Parts
             PROVE  LET b == Ancestor(e)[p]
                        o == draft[e].spec[p]
                        t == history[theirs[e]].spec[p]
                    IN (IF p \in Conflicts(e)
                          THEN SetPath(Merged(b, o, t), choices[e][p], t)
                          ELSE Merged(b, o, t)) \in Contents
  BY DEF MergedSpec, Specs
<1>1. draft[e].spec[p] \in Contents /\ history[theirs[e]].spec[p] \in Contents
  BY DEF TypeOK, Designs, Specs
<1> QED BY <1>1 DEF SetPath, Merged
-----------------------------------------------------------------------------
(***************************************************************************)
(* Types, and what was seen                                                *)
(***************************************************************************)
LEMMA DInvInit == Init => DInv
BY DesignerAssumption, NoChoicesType
   DEF Init, DInv, TypeOK, SeenInv, Versions, EditorPcs

LEMMA CommitKeepsDInv ==
  ASSUME DInv, NEW e \in Editors, NEW d \in Designs, Commit(e, d)
  PROVE  DInv'
<1>1. version + 1 \in Versions /\ 1 \in Versions /\ version \in Versions
  BY DesignerAssumption DEF DInv, TypeOK, Commit, Versions
<1>2. TypeOK'
  BY <1>1, NoChoicesType DEF DInv, TypeOK, Commit, EditorPcs
<1>3. SeenInv'
  BY <1>1, DesignerAssumption DEF DInv, TypeOK, SeenInv, Commit, Versions
<1> QED BY <1>2, <1>3 DEF DInv

LEMMA GoneKeepsDInv ==
  ASSUME DInv, NEW e \in Editors, Gone(e)
  PROVE  DInv'
BY NoChoicesType, DesignerAssumption
   DEF DInv, TypeOK, SeenInv, Gone, EditorPcs, Versions

LEMMA DInvNext == DInv /\ [Next]_vars => DInv'
<1> SUFFICES ASSUME DInv, [Next]_vars PROVE DInv'
  OBVIOUS
<1>v. 1 \in Versions /\ \A v \in Versions : v \in Nat
  BY DesignerAssumption DEF Versions
<1>1. ASSUME NEW e \in Editors, Open(e) PROVE DInv'
  BY <1>1, <1>v, NoChoicesType, DesignerAssumption
     DEF Open, DInv, TypeOK, SeenInv, EditorPcs, Versions
<1>2. ASSUME NEW e \in Editors, Close(e) \/ RestoreRaced(e) PROVE DInv'
  BY <1>2, GoneKeepsDInv DEF Close, RestoreRaced
<1>3. ASSUME NEW e \in Editors, NEW p \in Parts, NEW x \in Contents, EditPart(e, p, x)
      PROVE  DInv'
  <2>1. draft[e] \in Designs
    BY DEF DInv, TypeOK
  <2>2. [draft[e].spec EXCEPT ![p] = x] \in Specs
    BY <2>1 DEF Designs, Specs
  <2> DEFINE d == [draft[e] EXCEPT !.spec = [draft[e].spec EXCEPT ![p] = x]]
  <2>3. draft' = [draft EXCEPT ![e] = d]
    BY <1>3 DEF EditPart
  <2>d. d \in Designs
    BY <2>1, <2>2 DEF Designs
  <2> HIDE DEF d
  <2>4. draft' \in [Editors -> Designs]
    BY <2>d, <2>3 DEF DInv, TypeOK
  <2> QED BY <1>3, <2>4 DEF EditPart, DInv, TypeOK, SeenInv
<1>4. ASSUME NEW e \in Editors, NEW n \in Names, Rename(e, n) PROVE DInv'
  BY <1>4 DEF Rename, DInv, TypeOK, SeenInv, Designs
<1>5. ASSUME NEW e \in Editors, Save(e) \/ RestoreWrite(e) PROVE DInv'
  <2>1. draft[e] \in Designs /\ Commit(e, draft[e])
    BY <1>5 DEF Save, RestoreWrite, DInv, TypeOK
  <2> QED BY <2>1, CommitKeepsDInv
<1>6. ASSUME NEW e \in Editors, SaveStale(e) PROVE DInv'
  BY <1>6, <1>v DEF SaveStale, DInv, TypeOK, SeenInv, EditorPcs
<1>7. ASSUME NEW e \in Editors, MergeConflicts(e) PROVE DInv'
  BY <1>7, NoChoicesType DEF MergeConflicts, DInv, TypeOK, SeenInv, EditorPcs
<1>8. ASSUME NEW e \in Editors, NEW p \in Parts, NEW c \in {"ours", "theirs"},
             Choose(e, p, c)
      PROVE  DInv'
  <2>1. [choices[e] EXCEPT ![p] = c] \in [Parts -> Choices]
    BY DEF DInv, TypeOK, Choices
  <2> QED BY <1>8, <2>1 DEF Choose, DInv, TypeOK, SeenInv
<1>9. ASSUME NEW e \in Editors, MergeWrite(e) PROVE DInv'
  <2>1. MergedSpec(e) \in Specs /\ draft[e].name \in Names
    BY MergedSpecType DEF DInv, TypeOK, Designs
  <2>2. [spec |-> MergedSpec(e), name |-> draft[e].name] \in Designs
    BY <2>1 DEF Designs
  <2> QED BY <1>9, <2>2, CommitKeepsDInv DEF MergeWrite
<1>10. ASSUME NEW e \in Editors, MergeRaced(e) PROVE DInv'
  <2>1. /\ epc' \in [Editors -> EditorPcs]
        /\ theirs' \in [Editors -> Versions]
        /\ \A f \in Editors : theirs'[f] <= version
    <3>1. CASE choices[e] = NoChoices
      <4>1. epc' = [epc EXCEPT ![e] = "editing"] /\ theirs' = [theirs EXCEPT ![e] = 1]
        BY <1>10, <3>1 DEF MergeRaced
      <4>2. version \in Nat /\ 1 <= version
        BY DesignerAssumption DEF DInv, TypeOK, Versions
      <4> QED BY <4>1, <4>2, <1>v DEF DInv, TypeOK, SeenInv, EditorPcs
    <3>2. CASE choices[e] # NoChoices
      BY <1>10, <3>2 DEF MergeRaced, DInv, TypeOK, SeenInv, EditorPcs
    <3> QED BY <3>1, <3>2
  <2> QED BY <1>10, <2>1 DEF MergeRaced, DInv, TypeOK, SeenInv
<1>11. ASSUME NEW e \in Editors, NEW v \in Versions, RestoreRead(e, v) PROVE DInv'
  <2>1. [history[version] EXCEPT !.spec = history[v].spec] \in Designs
    <3>1. history[version] \in Designs /\ history[v] \in Designs
      BY DEF DInv, TypeOK
    <3> QED BY <3>1 DEF Designs
  <2> QED BY <1>11, <1>v, <2>1, NoChoicesType
          DEF RestoreRead, DInv, TypeOK, SeenInv, EditorPcs
<1>12. ASSUME NEW e \in Editors, Dismiss(e) PROVE DInv'
  BY <1>12, <1>v, NoChoicesType, DesignerAssumption
     DEF Dismiss, DInv, TypeOK, SeenInv, EditorPcs, Versions
<1>13. CASE UNCHANGED vars
  BY <1>13 DEF DInv, TypeOK, SeenInv
<1> QED BY <1>1, <1>2, <1>3, <1>4, <1>5, <1>6, <1>7, <1>8, <1>9, <1>10, <1>11,
           <1>12, <1>13 DEF Next

\* Every variable keeps its type.
THEOREM DesignerTypeCorrect == Spec => []TypeOK
BY DInvInit, DInvNext, PTL DEF Spec, DInv
-----------------------------------------------------------------------------
(***************************************************************************)
(* Who writes, and what                                                    *)
(***************************************************************************)
\* A step in which e writes is e's own save, merge or restore.
LEMMA WriterIsWriting ==
  ASSUME DInv, [Next]_vars, NEW e \in Editors, Writes(e)
  PROVE  \/ /\ base[e] = version
            /\ Commit(e, draft[e])
         \/ MergeWrite(e)
<1>1. version \in Nat /\ base \in [Editors -> Versions] /\ base[e] <= version
      /\ \A v \in Versions : v \in Nat
  BY DEF DInv, TypeOK, SeenInv, Versions
<1>2. version' = version + 1 /\ base'[e] = version + 1
  BY DEF Writes
<1>3. ASSUME NEW f \in Editors, NEW d, Commit(f, d) PROVE f = e
  BY <1>1, <1>2, <1>3 DEF Commit
<1>4. ~ UNCHANGED version
  BY <1>1, <1>2
<1>5. PICK f \in Editors : Save(f) \/ MergeWrite(f) \/ RestoreWrite(f)
  BY <1>4 DEF Next, Open, Close, RestoreRaced, Gone, EditPart, Rename, SaveStale,
              MergeConflicts, Choose, Dismiss, MergeRaced, RestoreRead
<1>6. CASE Save(f) \/ RestoreWrite(f)
  BY <1>3, <1>6 DEF Save, RestoreWrite
<1>7. CASE MergeWrite(f)
  BY <1>3, <1>7 DEF MergeWrite
<1> QED BY <1>5, <1>6, <1>7

LEMMA CommitWrites ==
  ASSUME DInv, NEW e \in Editors, NEW d, Commit(e, d)
  PROVE  history'[version'] = d
<1>1. version + 1 \in Versions
  BY DesignerAssumption DEF DInv, TypeOK, Commit, Versions
<1> QED BY <1>1 DEF DInv, TypeOK, Commit

\* What a merge writes for a part: theirs where only they changed it, ours
\* where only we did, and otherwise a resolved conflict.
LEMMA MergeWritesPart ==
  ASSUME DInv, NEW e \in Editors, NEW p \in Parts, MergeWrite(e), Kept(base[e])
  PROVE  LET b == history[base[e]].spec[p]
             o == draft[e].spec[p]
             t == Before(p)
         IN /\ Conflicting(b, o, t) => choices[e][p] # "none"
            /\ After(p) = IF Conflicting(b, o, t)
                            THEN SetPath(o, choices[e][p], t)
                            ELSE IF b = o THEN t ELSE o
<1>1. history'[version'] = [spec |-> MergedSpec(e), name |-> draft[e].name]
  BY CommitWrites DEF MergeWrite
<1>2. After(p) = MergedSpec(e)[p]
  BY <1>1 DEF After
<1>3. theirs[e] = version /\ Ancestor(e) = history[base[e]].spec
  BY DEF MergeWrite, Ancestor
<1>4. p \notin Unresolved(e)
  BY DEF MergeWrite
<1>5. Conflicting(history[base[e]].spec[p], draft[e].spec[p], Before(p))
        => choices[e][p] # "none"
  BY <1>3, <1>4 DEF Unresolved, Conflicts, Before
<1> QED BY <1>2, <1>3, <1>5 DEF MergedSpec, Conflicts, Merged, Before, Conflicting

\* Nobody's saved work disappears under a save that had not seen it.
THEOREM NoSilentLoss == Spec => UnseenIsKept
<1>1. ASSUME DInv, [Next]_vars
      PROVE  [\A e \in Editors, p \in Parts :
                Writes(e) /\ Kept(base[e]) /\ After(p) # Before(p) =>
                  \/ Before(p) = history[base[e]].spec[p]
                  \/ choices[e][p] # "none"]_vars
  <2> SUFFICES ASSUME NEW e \in Editors, NEW p \in Parts,
                      Writes(e), Kept(base[e]), After(p) # Before(p)
               PROVE  \/ Before(p) = history[base[e]].spec[p]
                      \/ choices[e][p] # "none"
    OBVIOUS
  <2>1. CASE base[e] = version
    BY <2>1 DEF Before
  <2>2. CASE MergeWrite(e)
    BY <1>1, <2>2, MergeWritesPart DEF Conflicting
  <2> QED BY <1>1, <2>1, <2>2, WriterIsWriting
<1> QED BY <1>1, DInvInit, DInvNext, PTL DEF Spec, UnseenIsKept

\* And none of the writer's own edits is dropped, unless they chose so.
THEOREM NoEditDropped == Spec => EditsAreWritten
<1>1. ASSUME DInv, [Next]_vars
      PROVE  [\A e \in Editors, p \in Parts :
                /\ Writes(e) /\ Kept(base[e])
                /\ draft[e].spec[p] # history[base[e]].spec[p]
                => After(p) = draft[e].spec[p] \/ choices[e][p] = "theirs"]_vars
  <2> SUFFICES ASSUME NEW e \in Editors, NEW p \in Parts, Writes(e), Kept(base[e]),
                      draft[e].spec[p] # history[base[e]].spec[p]
               PROVE  After(p) = draft[e].spec[p] \/ choices[e][p] = "theirs"
    OBVIOUS
  <2>1. CASE Commit(e, draft[e])
    BY <1>1, <2>1, CommitWrites DEF After
  <2>2. CASE MergeWrite(e)
    BY <1>1, <2>2, MergeWritesPart DEF SetPath
  <2> QED BY <1>1, <2>1, <2>2, WriterIsWriting
<1> QED BY <1>1, DInvInit, DInvNext, PTL DEF Spec, EditsAreWritten
-----------------------------------------------------------------------------
(***************************************************************************)
(* The order of merges                                                     *)
(***************************************************************************)
\* The merge of two designs that came from one, and that they can be merged
\* without anybody being asked.
MergeOf(a, o, t) == [p \in Parts |-> Merged(a[p], o[p], t[p])]

Agree(a, o, t) == \A p \in Parts : ~Conflicting(a[p], o[p], t[p])

\* It is what _merge_save writes when there is no conflict.
LEMMA MergedSpecIsMergeOf ==
  ASSUME NEW e \in Editors
  PROVE  /\ Conflicts(e) = {} <=>
              Agree(Ancestor(e), draft[e].spec, history[theirs[e]].spec)
         /\ Conflicts(e) = {} =>
              MergedSpec(e) = MergeOf(Ancestor(e), draft[e].spec, history[theirs[e]].spec)
BY DEF Conflicts, Agree, MergedSpec, MergeOf

\* Value by value: agreement is mutual, and merging is symmetric and
\* associative where all agree.
LEMMA MergedCommutes ==
  ASSUME NEW b, NEW o, NEW t, ~Conflicting(b, o, t)
  PROVE  ~Conflicting(b, t, o) /\ Merged(b, o, t) = Merged(b, t, o)
BY DEF Conflicting, Merged

LEMMA MergedAssociates ==
  ASSUME NEW b, NEW x, NEW y, NEW z,
         ~Conflicting(b, x, y), ~Conflicting(b, y, z), ~Conflicting(b, x, z)
  PROVE  /\ ~Conflicting(b, z, Merged(b, y, x))
         /\ Merged(b, z, Merged(b, y, x)) = Merged(b, x, Merged(b, y, z))
BY DEF Conflicting, Merged

\* Edits of one version that do not conflict with each other may be saved in
\* any order, by however many editors: the next to be merged conflicts with
\* nothing merged before, and the design comes out the same (merge.py, merge).
THEOREM MergesInAnyOrder ==
  ASSUME NEW a \in Specs, NEW x \in Specs, NEW y \in Specs, NEW z \in Specs,
         Agree(a, x, y), Agree(a, y, z), Agree(a, x, z)
  PROVE  /\ MergeOf(a, x, y) = MergeOf(a, y, x)
         /\ Agree(a, z, MergeOf(a, y, x))
         /\ MergeOf(a, z, MergeOf(a, y, x)) = MergeOf(a, x, MergeOf(a, y, z))
<1>1. ASSUME NEW p \in Parts
      PROVE  /\ Merged(a[p], x[p], y[p]) = Merged(a[p], y[p], x[p])
             /\ ~Conflicting(a[p], z[p], Merged(a[p], y[p], x[p]))
             /\ Merged(a[p], z[p], Merged(a[p], y[p], x[p])) =
                  Merged(a[p], x[p], Merged(a[p], y[p], z[p]))
  BY MergedCommutes, MergedAssociates DEF Agree
<1>2. \A o, t : \A p \in Parts : MergeOf(a, o, t)[p] = Merged(a[p], o[p], t[p])
  BY DEF MergeOf
<1>3. MergeOf(a, x, y) = MergeOf(a, y, x)
  BY <1>1 DEF MergeOf
<1>4. Agree(a, z, MergeOf(a, y, x))
  BY <1>1, <1>2 DEF Agree
<1>5. MergeOf(a, z, MergeOf(a, y, x)) = MergeOf(a, x, MergeOf(a, y, z))
  BY <1>1, <1>2 DEF MergeOf
<1> QED BY <1>3, <1>4, <1>5
=============================================================================
