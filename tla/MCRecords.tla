----------------------------- MODULE MCRecords -----------------------------
(* Small instances of Fabric and TaskPort for TLC.  The two share nothing:  *)
(* a behaviour is of one subject or the other.                              *)
EXTENDS Fabric, TaskPort, TLC

CONSTANTS o1, o2

VARIABLE subject

MCRoles == o1 :> {"operator"} @@ o2 :> {"admin", "automation"}

RecordsInit == /\ FabInit /\ TaskInit
               /\ subject \in {"fabric", "tasks"}

RecordsNext == /\ UNCHANGED subject
               /\ \/ subject = "fabric" /\ FabNext /\ UNCHANGED taskVars
                  \/ subject = "tasks" /\ TaskNext /\ UNCHANGED fabVars

RecordsSpec == RecordsInit /\ [][RecordsNext]_<<subject, fabVars, taskVars>>

\* What is stored and what is under way stay what they should be:
\* deployments, tenants and the requests to move them; tasks and their starters.
RecordsTypeOK == FabTypeOK /\ TaskTypeOK

\* The agent's threads are alike.
Symmetry == Permutations(Starters)
=============================================================================
