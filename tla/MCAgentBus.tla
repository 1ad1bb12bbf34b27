----------------------------- MODULE MCAgentBus -----------------------------
(***************************************************************************)
(* Model values for checking AgentBus.                                     *)
(***************************************************************************)
EXTENDS AgentBus, TLC

\* Tasks are interchangeable only while none of them is forbidden.
Symmetry == IF Forbidden = {} THEN Permutations(Tasks) ELSE {}
=============================================================================
