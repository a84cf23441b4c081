----------------------------- MODULE MCFeatures -----------------------------
(* Two users behind one source (a source's window counts its users, a      *)
(* user's its sources: the code is one); two windows, so that heads move   *)
(* apart and entities expire; up to two simultaneous events; no limit, and *)
(* a limit of one entity per kind.  Successes come from home or from       *)
(* nowhere, the others from abroad.                                        *)
EXTENDS Features, TLC

CONSTANTS u1, u2, s1, home, abroad

Seen(outcome, place) == [user : User, source : Source, outcome : {outcome}, place : {place}]
Shapes == Seen("success", home) \cup Seen("success", Nowhere)
            \cup Seen("failure", abroad) \cup Seen("challenged", abroad)

(* Only the distances between events matter, so the first comes at once.   *)
FirstAtOnce == past = <<>> => now <= 1

Symmetry == Permutations({u1, u2})
=============================================================================
