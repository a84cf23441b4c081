---------------------------- MODULE MCPublisher ----------------------------
(* Two generations, three tables and a manifest, two publishers that take  *)
(* turns.                                                                  *)
EXTENDS Publisher, TLC

CONSTANTS g1, g2, p1, p2

Symmetry == Permutations({g1, g2}) \cup Permutations({p1, p2})
=============================================================================
