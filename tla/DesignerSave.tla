---------------------------- MODULE DesignerSave ----------------------------
(***************************************************************************)
(* Saving a design that several people edit (designer/service.py,          *)
(* designer/repository.py, designer/merge.py, ADR-0033).                   *)
(*                                                                         *)
(* The repository's save_system is atomic: it compares the version a save  *)
(* was based on with the current one, writes the record and its revision   *)
(* and prunes old revisions.  What is not atomic is the service: a save    *)
(* the repository refuses as stale is merged with the record that refusal  *)
(* carried and written again, and others may save in between.  An editor   *)
(* works on a copy for as long as they like.                               *)
(*                                                                         *)
(* A design is abstracted to its Parts: the entries of its keyed lists     *)
(* (agents, teams, roles, ...), each absent or holding a value.  Locks are *)
(* advisory and only ever turn a save away, so they are left out; requests *)
(* are those the canvas sends, with the version it opened and its name.    *)
(***************************************************************************)
EXTENDS Naturals

CONSTANTS
  Editors,
  Parts,
  Values,        \* what a part can hold
  Absent,        \* the part is not there; outside Values
  Names,         \* names of the design
  MaxRevisions,  \* revisions the repository keeps (100 in the code)
  MaxVersion     \* bound: saves after which the model stops

ASSUME DesignerAssumption ==
  /\ Absent \notin Values
  /\ MaxRevisions \in Nat \ {0}
  /\ MaxVersion \in Nat \ {0}

Contents == Values \union {Absent}
Specs    == [Parts -> Contents]
Designs  == [spec : Specs, name : Names]

VARIABLES
  version,   \* of the current record
  history,   \* what was saved as each version; the record is the last
  epc,       \* where an editor, or the request they sent, is
  base,      \* version the editor opened or the request read
  draft,     \* the editor's copy
  theirs,    \* version the conflict handed to the merge
  choices    \* resolutions sent with the next save

editorVars == <<epc, base, draft, theirs, choices>>
vars == <<version, history, editorVars>>
-----------------------------------------------------------------------------
EditorPcs == {"closed", "editing", "merging", "choosing", "restoring"}
Choices   == {"none", "ours", "theirs"}
NoChoices == [p \in Parts |-> "none"]

Versions == 1..MaxVersion

\* _prune_revisions keeps the last MaxRevisions of them.
Kept(v) == v + MaxRevisions > version

Init ==
  /\ version = 1
  /\ \E d \in Designs : history = [v \in Versions |-> d]
  /\ epc = [e \in Editors |-> "closed"]
  /\ base = [e \in Editors |-> 1]
  /\ draft = [e \in Editors |-> history[1]]
  /\ theirs = [e \in Editors |-> 1]
  /\ choices = [e \in Editors |-> NoChoices]
-----------------------------------------------------------------------------
(***************************************************************************)
(* The merge, part by part: merge and apply_resolutions of merge.py.       *)
(***************************************************************************)
\* Fault variant: what only we changed gives way to what they kept.
MergedTheirs(b, o, t) == IF b = o \/ b = t THEN t ELSE o

\* Both sides agree, or one of them left the ancestor's value alone; where
\* both changed it the merge keeps ours and reports a conflict.
Merged(b, o, t) == IF b = o THEN t ELSE o

Conflicting(b, o, t) == o # t /\ b # o /\ b # t

\* Fault variant: the word of the choice is written as an explicit value.
SetPathExplicit(merged, choice, t) ==
  IF choice = "theirs" /\ merged # Absent THEN choice ELSE merged

\* _set_path replaces or removes the entry of a keyed list; when the merge
\* left the entry out there is nothing to replace and the choice is ignored.
SetPath(merged, choice, t) ==
  IF choice = "theirs" /\ merged # Absent THEN t ELSE merged

\* Fault variant: the ancestor is looked up at the version merged with.
AncestorCurrent(e) == history[theirs[e]].spec

\* revision(base): an empty design when it was pruned.
Ancestor(e) == IF Kept(base[e]) THEN history[base[e]].spec
                                ELSE [p \in Parts |-> Absent]

\* The parts both changed since the ancestor, and those not yet resolved.
Conflicts(e) ==
  {p \in Parts : Conflicting(Ancestor(e)[p], draft[e].spec[p],
                             history[theirs[e]].spec[p])}

Unresolved(e) == {p \in Conflicts(e) : choices[e][p] = "none"}

\* What _merge_save writes: resolutions only reach conflicting parts.
MergedSpec(e) ==
  [p \in Parts |->
     LET b == Ancestor(e)[p]
         o == draft[e].spec[p]
         t == history[theirs[e]].spec[p]
     IN IF p \in Conflicts(e)
          THEN SetPath(Merged(b, o, t), choices[e][p], t)
          ELSE Merged(b, o, t)]
-----------------------------------------------------------------------------
(***************************************************************************)
(* Editing                                                                 *)
(***************************************************************************)
\* open_system, also to reload what others saved.
Open(e) ==
  /\ epc[e] \in {"closed", "editing", "choosing"}
  /\ epc' = [epc EXCEPT ![e] = "editing"]
  /\ base' = [base EXCEPT ![e] = version]
  /\ draft' = [draft EXCEPT ![e] = history[version]]
  /\ theirs' = [theirs EXCEPT ![e] = 1]
  /\ choices' = [choices EXCEPT ![e] = NoChoices]
  /\ UNCHANGED <<version, history>>

EditPart(e, p, x) ==
  /\ epc[e] = "editing"
  /\ draft' = [draft EXCEPT ![e].spec[p] = x]
  /\ UNCHANGED <<version, history, epc, base, theirs, choices>>

Rename(e, n) ==
  /\ epc[e] = "editing"
  /\ draft' = [draft EXCEPT ![e].name = n]
  /\ UNCHANGED <<version, history, epc, base, theirs, choices>>

\* A closed editor holds nothing.
Gone(e) ==
  /\ epc' = [epc EXCEPT ![e] = "closed"]
  /\ base' = [base EXCEPT ![e] = 1]
  /\ draft' = [draft EXCEPT ![e] = history[1]]
  /\ theirs' = [theirs EXCEPT ![e] = 1]
  /\ choices' = [choices EXCEPT ![e] = NoChoices]
  /\ UNCHANGED <<version, history>>

Close(e) == epc[e] \in {"editing", "choosing"} /\ Gone(e)
-----------------------------------------------------------------------------
(***************************************************************************)
(* Saving                                                                  *)
(***************************************************************************)
\* The repository's write, and the editor working on from what it returned.
Commit(e, design) ==
  /\ version < MaxVersion
  /\ version' = version + 1
  /\ history' = [history EXCEPT ![version + 1] = design]
  /\ epc' = [epc EXCEPT ![e] = "editing"]
  /\ base' = [base EXCEPT ![e] = version + 1]
  /\ draft' = [draft EXCEPT ![e] = design]
  /\ theirs' = [theirs EXCEPT ![e] = 1]
  /\ choices' = [choices EXCEPT ![e] = NoChoices]

\* The save is based on the current version.
Save(e) ==
  /\ epc[e] \in {"editing", "choosing"}
  /\ base[e] = version
  /\ Commit(e, draft[e])

\* The save is stale: the conflict carries the current record to the merge.
SaveStale(e) ==
  /\ epc[e] \in {"editing", "choosing"}
  /\ base[e] # version
  /\ epc' = [epc EXCEPT ![e] = "merging"]
  /\ theirs' = [theirs EXCEPT ![e] = version]
  /\ UNCHANGED <<version, history, base, draft, choices>>

\* With conflicts left nothing is written; the editor is shown them.
MergeConflicts(e) ==
  /\ epc[e] = "merging"
  /\ Unresolved(e) # {}
  /\ epc' = [epc EXCEPT ![e] = "choosing"]
  /\ choices' = [choices EXCEPT ![e] = NoChoices]
  /\ UNCHANGED <<version, history, base, draft, theirs>>

\* The editor decides one conflict of those shown; Apply is the next save,
\* with the same draft and base and what was chosen so far.
Choose(e, p, c) ==
  /\ epc[e] = "choosing"
  /\ p \in Conflicts(e)
  /\ choices' = [choices EXCEPT ![e][p] = c]
  /\ UNCHANGED <<version, history, epc, base, draft, theirs>>

\* The editor puts the conflicts aside and works on.
Dismiss(e) ==
  /\ epc[e] = "choosing"
  /\ epc' = [epc EXCEPT ![e] = "editing"]
  /\ theirs' = [theirs EXCEPT ![e] = 1]
  /\ choices' = [choices EXCEPT ![e] = NoChoices]
  /\ UNCHANGED <<version, history, base, draft>>

\* Fault variant: the merged record is written over whatever is current.
MergeWriteUnchecked(e) ==
  /\ epc[e] = "merging"
  /\ Unresolved(e) = {}
  /\ Commit(e, [spec |-> MergedSpec(e), name |-> draft[e].name])

\* Everything is merged or resolved: the second write, on the version merged
\* with.  The name is the saver's.
MergeWrite(e) ==
  /\ epc[e] = "merging"
  /\ Unresolved(e) = {}
  /\ theirs[e] = version
  /\ Commit(e, [spec |-> MergedSpec(e), name |-> draft[e].name])

\* Somebody saved in between: the second VersionConflict is raised to the
\* caller, nothing is written; the editor keeps the draft and the choices.
MergeRaced(e) ==
  /\ epc[e] = "merging"
  /\ Unresolved(e) = {}
  /\ theirs[e] # version
  /\ IF choices[e] = NoChoices
       THEN /\ epc' = [epc EXCEPT ![e] = "editing"]
            /\ theirs' = [theirs EXCEPT ![e] = 1]
       ELSE /\ epc' = [epc EXCEPT ![e] = "choosing"]
            /\ UNCHANGED theirs
  /\ UNCHANGED <<version, history, base, draft, choices>>
-----------------------------------------------------------------------------
(***************************************************************************)
(* Restoring an old revision                                               *)
(***************************************************************************)
RestoreRead(e, v) ==
  /\ epc[e] = "closed"
  /\ v <= version
  /\ Kept(v)
  /\ epc' = [epc EXCEPT ![e] = "restoring"]
  /\ base' = [base EXCEPT ![e] = version]
  /\ draft' = [draft EXCEPT ![e] = [history[version] EXCEPT !.spec = history[v].spec]]
  /\ choices' = [choices EXCEPT ![e] = NoChoices]
  /\ UNCHANGED <<version, history, theirs>>

RestoreWrite(e) ==
  /\ epc[e] = "restoring"
  /\ base[e] = version
  /\ Commit(e, draft[e])

\* The record moved on: the conflict is raised to the caller.
RestoreRaced(e) == epc[e] = "restoring" /\ base[e] # version /\ Gone(e)
-----------------------------------------------------------------------------
Next ==
  \E e \in Editors :
    \/ Open(e) \/ Close(e)
    \/ \E p \in Parts, x \in Contents : EditPart(e, p, x)
    \/ \E n \in Names : Rename(e, n)
    \/ Save(e) \/ SaveStale(e)
    \/ MergeConflicts(e) \/ MergeWrite(e) \/ MergeRaced(e)
    \/ \E p \in Parts, c \in {"ours", "theirs"} : Choose(e, p, c)
    \/ Dismiss(e)
    \/ \E v \in Versions : RestoreRead(e, v)
    \/ RestoreWrite(e) \/ RestoreRaced(e)

Spec == Init /\ [][Next]_vars
-----------------------------------------------------------------------------
(***************************************************************************)
(* Properties                                                              *)
(***************************************************************************)
\* Every variable keeps its type.
TypeOK ==
  /\ version \in Versions
  /\ history \in [Versions -> Designs]
  /\ epc \in [Editors -> EditorPcs]
  /\ base \in [Editors -> Versions]
  /\ draft \in [Editors -> Designs]
  /\ theirs \in [Editors -> Versions]
  /\ choices \in [Editors -> [Parts -> Choices]]

\* The step in which an editor's save, merge or restore is written.
Writes(e) == epc[e] # "closed" /\ version' = version + 1 /\ base'[e] = version'

Before(p) == history[version].spec[p]
After(p)  == history'[version'].spec[p]

\* A write replaces a part only if the writer had seen its value, or was
\* asked about it: nobody's saved work disappears under a save based on a
\* version without it, through any number of saves, merges and races
\* (_prepare's check, on both writes of save_system).
UnseenIsKept ==
  [][\A e \in Editors, p \in Parts :
       Writes(e) /\ Kept(base[e]) /\ After(p) # Before(p) =>
         \/ Before(p) = history[base[e]].spec[p]
         \/ choices[e][p] # "none"]_vars

\* And what the writer changed is written, unless they chose otherwise: a
\* merge with another's edits drops none of the saver's.
EditsAreWritten ==
  [][\A e \in Editors, p \in Parts :
       /\ Writes(e) /\ Kept(base[e])
       /\ draft[e].spec[p] # history[base[e]].spec[p]
       => After(p) = draft[e].spec[p] \/ choices[e][p] = "theirs"]_vars

\* merge.py:155, "A resolution is "ours", "theirs", or an explicit value": a
\* part resolved as theirs is written as they have it.
ChoiceIsHonoured ==
  [][\A e \in Editors, p \in Parts :
       Writes(e) /\ choices[e][p] = "theirs" => After(p) = Before(p)]_vars

\* ADR-0033:68, "No silent data loss: every stale write is either merged or
\* reported": a save that did not change the name leaves the current one.
NameIsKept ==
  [][\A e \in Editors :
       Writes(e) /\ draft[e].name = history[base[e]].name =>
         history'[version'].name = history[version].name]_vars
=============================================================================
