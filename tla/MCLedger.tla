------------------------------ MODULE MCLedger ------------------------------
(* Two record identifiers, two bodies, two appending processes that may    *)
(* be killed at any point, one reader.                                     *)
EXTENDS Ledger, TLC

Symmetry ==
  Permutations(Id) \cup Permutations(Body) \cup Permutations(Client)
=============================================================================
