--------------------------- MODULE MCDesignerSave ---------------------------
(* Small instances of DesignerSave for TLC. *)
EXTENDS DesignerSave, TLC

\* Nothing tells editors, parts, values or names apart.
Symmetry ==
  Permutations(Editors) \union Permutations(Parts) \union Permutations(Values)
    \union Permutations(Names)
=============================================================================
