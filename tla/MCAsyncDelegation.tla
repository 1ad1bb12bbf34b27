-------------------------- MODULE MCAsyncDelegation --------------------------
(* Small instances of AsyncDelegation for TLC. *)
EXTENDS AsyncDelegation, TLC

\* Handles are interchangeable, and so are the leader's tool-call threads.
Symmetry == Permutations(Handles) \union Permutations(Callers)
=============================================================================
