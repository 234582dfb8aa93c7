----------------------------- MODULE MCDevSwarm -----------------------------
(***************************************************************************)
(* DevSwarm on a few command lines.                                        *)
(***************************************************************************)
EXTENDS DevSwarm

Run(heal, review, budget) == [heal |-> heal, review |-> review, budget |-> budget, dry |-> FALSE]

\* The defaults, with and without a budget; more review rounds than passes; limits of zero;
\* limits the graph's own does not leave room for; a dry run.
TheConfigs ==
  {Run(5, 3, 0), Run(5, 3, 4), Run(2, 2, 2), Run(1, 3, 2), Run(0, 0, 0), Run(30, 30, 0)}
    \cup {[Run(5, 3, 0) EXCEPT !.dry = TRUE]}
=============================================================================
