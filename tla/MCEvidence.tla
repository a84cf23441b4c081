----------------------------- MODULE MCEvidence -----------------------------
(* Two training runs and one that could not be fitted, the selection made  *)
(* of the first, the freeze made of that selection and the evaluation of   *)
(* that freeze; publishers offer two bodies for each.                      *)
EXTENDS Evidence, TLC

CONSTANTS run, rerun, dud, selection, freeze, evaluation

ChainKind ==
  [a \in Artifact |-> CASE a = selection -> "selection"
                        [] a = freeze -> "freeze"
                        [] a = evaluation -> "evaluation"
                        [] OTHER -> "run"]

ChainNeeds ==
  [a \in Artifact |-> CASE a = selection -> {run}
                        [] a = freeze -> {run, selection}
                        [] a = evaluation -> {run, selection, freeze}
                        [] OTHER -> {}]

Symmetry == Permutations(Publisher) \cup Permutations(Body)
=============================================================================
