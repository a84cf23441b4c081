------------------------------ MODULE Grading -------------------------------
(***************************************************************************)
(* The workflow and the arithmetic of its grades together.                 *)
(***************************************************************************)
EXTENDS Study, OperatingPoint

(* What is trained is judged at the operating point that a search of the   *)
(* whole sample justifies, whatever its scores and the policy, and what    *)
(* the gates then refuse no other point could have saved                   *)
(* (ml/thresholds.py:243-269, 737-794, ml/gates.py:465-554).               *)
PointsAreBest == runs # {} => Unjustified = {}
=============================================================================
