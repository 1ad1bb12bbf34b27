------------------------------ MODULE MCPeople ------------------------------
(* Small instances of Continuity and Workspace for TLC.  The parts share     *)
(* nothing: a behaviour is of one subject.                                   *)
EXTENDS Continuity, Workspace, TLC

CONSTANTS lead, deputy, clerk, ann, bob

VARIABLE subject

\* A lead whose deputy is its successor and its report, so that each would
\* stand in for the other, and a clerk nobody would stand in for.
MCManager   == lead :> Nobody @@ deputy :> lead @@ clerk :> Nobody
MCSuccessor == lead :> deputy @@ deputy :> Nobody @@ clerk :> Nobody
MCMandate   == lead :> {1, 2, 3} @@ deputy :> {4} @@ clerk :> {}
MCRules     == {{1, 2}, {3, 4}}

\* A design the validation accepts: the clerk succeeds two leaders whose
\* mandates each go with its own, and are separated from each other.
SafeSuccessor == lead :> clerk @@ deputy :> clerk @@ clerk :> Nobody
SafeMandate   == lead :> {1} @@ deputy :> {2} @@ clerk :> {}
SafeRules     == {{1, 2}}

MCMembers == ann :> "owner" @@ bob :> "owner"
MCReach   == {[scope |-> "system", target |-> "*"], [scope |-> "component", target |-> "x"]}

PeopleInit == /\ ContInit /\ WsInit
              /\ subject \in {"continuity", "members", "locks"}

PeopleNext ==
  /\ UNCHANGED subject
  /\ \/ subject = "continuity" /\ ContNext /\ UNCHANGED wsVars
     \/ subject = "members" /\ (\E p \in People : MemberStep(p)) /\ UNCHANGED contVars
     \/ subject = "locks" /\ (TimePasses \/ \E p \in People : LockStep(p))
                          /\ UNCHANGED contVars

PeopleSpec == PeopleInit /\ [][PeopleNext]_<<subject, contVars, wsVars>>

\* What is stored and what is under way stay what they should be:
\* covers and the runs that open them; members, locks and the requests for them.
PeopleTypeOK == ContTypeOK /\ WsTypeOK

\* The runs are alike, and so are the two owners.
Symmetry == Permutations(Threads) \union Permutations(People)
=============================================================================
