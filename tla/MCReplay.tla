------------------------------ MODULE MCReplay ------------------------------
(* Small instances of Replay for TLC.                                      *)
EXTENDS Replay, TLC

(* Crowded: many short runs compete for the slots and the store.           *)
ShortScenario == {"fits"}
ShortEventCount == [fits |-> 1]

(* Stepping: one scenario fits the record limit of 1, one runs into it.    *)
StepScenario == {"fits", "overruns"}
StepEventCount == [fits |-> 1, overruns |-> 2]

Symmetry == Permutations(RunId) \cup Permutations(Caller)
=============================================================================
