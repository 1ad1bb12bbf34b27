----------------------------- MODULE MCWorkflow -----------------------------
(* Small graphs for Workflow: two forks, a branch and two joins, wired in    *)
(* every way the sets below allow, with cycles, and with the branch inside a *)
(* fork or after a join; nodes the entry does not lead to are left out.      *)
EXTENDS Workflow, Functions

CONSTANTS f, g, a, b, d, j, k, x, y

MCGraph(o, c, kb, yb) ==
  LET all == [kind |-> [n \in Nodes |->
                CASE n \in {f, g} -> "fork" [] n \in {j, k} -> "join" [] n = d -> "branch"
                  [] n = a -> "step" [] n = b -> kb],
              out |-> o, cases |-> [n \in Nodes |-> IF n = d THEN c ELSE {}],
              output |-> [n \in Nodes |-> IF n = b THEN yb ELSE x], entry |-> f]
      D == ReachedFrom(all, {f}, {}) 
  IN [kind |-> Restrict(all.kind, D), out |-> Restrict(o, D),
      cases |-> Restrict(all.cases, D), output |-> Restrict(all.output, D), entry |-> f]

MCGraphs ==
  {MCGraph([n \in Nodes |-> CASE n = f -> fo [] n = g -> go [] n = a -> ao [] n = b -> bo
                               [] n = d -> c[2] [] n = j -> jo [] n = k -> ko], c[1], w[1], w[2]) :
     fo \in {<<g, a>>, <<a, g>>, <<g, b>>, <<a, b>>, <<g, d>>, <<d, g>>, <<b, d>>, <<b, j>>},
     go \in {<<a, b>>, <<b, j>>, <<a, j>>, <<b, a, d>>},
     ao \in {<<b>>, <<j>>, <<END>>, <<b, k>>}, bo \in {<<j>>, <<k>>, <<a>>},
     jo \in {<<k>>, <<a>>, <<f>>, <<d>>, <<>>}, ko \in {<<>>, <<b>>, <<a>>},
     c \in {<<{a, j}, <<b>>>>, <<{f}, <<j, END>>>>, <<{g, k}, <<a>>>>, <<{g}, <<a>>>>},
     w \in {<<"step", x>>, <<"step", y>>, <<"human", y>>}}
=============================================================================
