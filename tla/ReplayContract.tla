--------------------------- MODULE ReplayContract ---------------------------
(***************************************************************************)
(* What one replay run promises to whoever reads it, taken from the reader *)
(* side of replay/schemas.py and of docs/live-replay.md: it is admitted    *)
(* once, its timeline only ever grows, by the next sequence number, it     *)
(* ends once, it says "completed" only of a whole scenario, and once it    *)
(* has ended nothing changes any more until it is forgotten for good.      *)
(***************************************************************************)
EXTENDS Naturals, Sequences

VARIABLES
  phase,    \* the run's reported state
  total,    \* the number of events of its scenario
  timeline  \* the sequence numbers of its records

cvars == <<phase, total, timeline>>

Ended == {"completed", "stopped", "failed"}

Init == phase = "unminted" /\ timeline = <<>>

Admit ==
  /\ phase = "unminted"
  /\ phase' = "running"
  /\ timeline' = <<>>

Progress ==
  /\ phase = "running"
  /\ timeline' \in {timeline, Append(timeline, Len(timeline) + 1)}
  /\ phase' \in {"running"} \cup Ended
  /\ phase' = "completed" => Len(timeline') = total
  /\ Len(timeline') <= total
  /\ total' = total

Forget ==
  /\ phase \in Ended
  /\ phase' = "evicted"
  /\ timeline' = <<>>

Next == Admit \/ Progress \/ Forget

Spec == Init /\ [][Next]_cvars
=============================================================================
