-------------------------- MODULE MCApprovalRelease --------------------------
(* Small instances of ApprovalRelease for TLC: two releases of one call,    *)
(* a third by somebody the design does not name, and a refused call.        *)
EXTENDS ApprovalRelease, TLC

CONSTANTS r1, r2, r3, c1, c2

MCCallOf == r1 :> c1 @@ r2 :> c1 @@ r3 :> c1

Symmetry == Permutations(Handlers) \union Permutations(Runs)
=============================================================================
