--------------------------- MODULE MCReplayConsole ---------------------------
(* A small instance of ReplayConsole for TLC: one scenario of two events,  *)
(* which the other client reads one record at a time.                      *)
EXTENDS ReplayConsole

MCScenario == {"pair"}
MCEventCount == [pair |-> 2]
=============================================================================
