---------------------------- MODULE HandleContract ----------------------------
(***************************************************************************)
(* What a leader is promised about the handles it holds (ADR-0093), with   *)
(* no threads, sessions or buffers: a handle is open until it is closed,   *)
(* once, by collecting its result or by giving it up; the call that closed *)
(* it by collecting, and no other, owes its charge and pays it at most     *)
(* once, at its own time; nothing is told about a handle before it is      *)
(* closed; and a process that dies loses its handles for good.             *)
(***************************************************************************)
EXTENDS Naturals

CONSTANTS Handles, Reports

VARIABLES
  phase,   \* none, open, closed or lost
  owed,    \* handles whose closing call has not charged them yet
  paid,    \* what the leader's budget was charged for the handle
  told     \* what the leader was told when it was reported settled

vars == <<phase, owed, paid, told>>

Init ==
  /\ phase = [h \in Handles |-> "none"]
  /\ owed = {}
  /\ paid = [h \in Handles |-> 0]
  /\ told = [h \in Handles |-> {}]

\* assign.
Assign(h) ==
  /\ phase[h] = "none"
  /\ phase' = [phase EXCEPT ![h] = "open"]
  /\ UNCHANGED <<owed, paid, told>>

\* The first check or gather that takes the result,
Collect(h) ==
  /\ phase[h] = "open"
  /\ phase' = [phase EXCEPT ![h] = "closed"]
  /\ owed' = owed \union {h}
  /\ UNCHANGED <<paid, told>>

\* charges it and reports it, or fails to.
Pay(h) ==
  /\ h \in owed
  /\ owed' = owed \ {h}
  /\ \E spent \in {0, 1} : paid' = [paid EXCEPT ![h] = @ + spent]
  /\ \E r \in Reports \ {"deadline"} : told' = [told EXCEPT ![h] = @ \union {r}]
  /\ UNCHANGED phase

\* gather's deadline.
GiveUp(h) ==
  /\ phase[h] = "open"
  /\ phase' = [phase EXCEPT ![h] = "closed"]
  /\ UNCHANGED <<owed, paid, told>>

\* A closed handle is reported, again or for the first time.
Report(h) ==
  /\ phase[h] = "closed"
  /\ \E r \in Reports \ {"raised"} : told' = [told EXCEPT ![h] = @ \union {r}]
  /\ UNCHANGED <<phase, owed, paid>>

\* The process dies.
Die ==
  /\ phase' = [h \in Handles |-> IF phase[h] = "none" THEN "none" ELSE "lost"]
  /\ owed' = {}
  /\ UNCHANGED <<paid, told>>

Next ==
  \/ \E h \in Handles : Assign(h) \/ Collect(h) \/ Pay(h) \/ GiveUp(h)
                         \/ Report(h)
  \/ Die

Spec == Init /\ [][Next]_vars
=============================================================================
