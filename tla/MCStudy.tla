------------------------------ MODULE MCStudy -------------------------------
EXTENDS Grading

(* Two datasets of one feature contract and one of another.  The second is *)
(* the first with later rows added.                                        *)
L3 == 1 .. 3
ContractOf3 == <<"c1", "c1", "c2">>
Test3 == <<{"t1"}, {"t1", "t2"}, {"t3"}>>
Validation3 == <<{"v1"}, {"v1"}, {"v3"}>>

(* Every sample of at most MaxRows rows, by distinct scores ascending.     *)
LevelsOf(n) == {[mal |-> m, ben |-> n - m] : m \in 0 .. n}
SamplesOf[n \in 0 .. MaxRows] ==
  IF n = 0 THEN {<<>>}
  ELSE UNION {{Append(s, l) : s \in SamplesOf[n - k], l \in LevelsOf(k)} : k \in 1 .. n}
SmallSamples == UNION {SamplesOf[n] : n \in 1 .. MaxRows}

(* A third and a half, a half and all; the gates as strict as the search   *)
(* or looser.                                                              *)
Reviewed ==
  [objective |-> "max_recall_at_max_fpr", tie |-> "lowest_threshold", grid |-> 5,
   maxFpr |-> 840, minRecall |-> 1260, gateFpr |-> 840, gateRecall |-> 1260, gain |-> 252,
   minMal |-> 1, minBen |-> 1, minPrecision |-> 1680, minKnown |-> 2, minPerClass |-> 1]
SomePolicies ==
  {[Reviewed EXCEPT !.objective = o, !.tie = t, !.grid = g, !.minRecall = f, !.gateRecall = f,
                    !.gateFpr = c] :
     o \in {"max_recall_at_max_fpr", "max_f1", "min_fpr_at_min_recall"},
     t \in {"lowest_threshold", "highest_threshold"}, g \in {2, 3, 5},
     f \in {1260, 2520}, c \in {840, 1260}}

(* Rows as a model scores them: all alike, one wrongly, none wrongly, or   *)
(* the wrong way round.                                                    *)
Alike == <<[mal |-> 2, ben |-> 3]>>
Blurred == <<[mal |-> 0, ben |-> 2], [mal |-> 1, ben |-> 1], [mal |-> 1, ben |-> 0]>>
Sharp == <<[mal |-> 0, ben |-> 3], [mal |-> 2, ben |-> 0]>>
Inverted == <<[mal |-> 2, ben |-> 0], [mal |-> 0, ben |-> 3]>>
Doubtful == <<[right |-> 1, wrong |-> 2], [right |-> 1, wrong |-> 1]>>
Confident == <<[right |-> 0, wrong |-> 2], [right |-> 2, wrong |-> 1]>>

(* Somebody trains the first dataset under the first configuration and the *)
(* third under the second.                                                 *)
Studies == {[config |-> 1, lineage |-> 1], [config |-> 2, lineage |-> 3]}

(* Both search alike; the gates of the second ask for more detection than  *)
(* the first model has.                                                    *)
Strict == [Reviewed EXCEPT !.gateRecall = Whole]
PolicyOf(c) == IF c = 1 THEN Reviewed ELSE Strict

(* On the first dataset the later model is the better of two that pass and *)
(* the head fails its gates; on the third it is the later model that fails. *)
GradeOf(c, r) ==
  LET first == r.of.lineage = 1
  IN CASE r.model = Baseline -> BinaryGrade(Alike, Alike, PolicyOf(c))
       [] r.task = "category" ->
            CategoryGrade(IF first THEN Doubtful ELSE Confident, 1, PolicyOf(c))
       [] r.model = 10 -> BinaryGrade(Blurred, Alike, PolicyOf(c))
       [] r.model = 20 -> BinaryGrade(IF first THEN Sharp ELSE Inverted, Alike, PolicyOf(c))
Grades == {[c \in Configs |-> [r \in Runs |-> GradeOf(c, r)]]}

(* Votes of rules and model under two rule configurations: one finds what  *)
(* the model misses, the other flags nearly everything.                    *)
Apt == (<<TRUE, TRUE>> :> [mal |-> 1, ben |-> 0]) @@ (<<TRUE, FALSE>> :> [mal |-> 1, ben |-> 1])
       @@ (<<FALSE, TRUE>> :> [mal |-> 0, ben |-> 0]) @@ (<<FALSE, FALSE>> :> [mal |-> 0, ben |-> 2])
Zealous == (<<TRUE, TRUE>> :> [mal |-> 0, ben |-> 2]) @@ (<<TRUE, FALSE>> :> [mal |-> 1, ben |-> 1])
       @@ (<<FALSE, TRUE>> :> [mal |-> 1, ben |-> 0]) @@ (<<FALSE, FALSE>> :> [mal |-> 0, ben |-> 0])
SettingsTried == {[rules |-> "r1", config |-> 1], [rules |-> "r2", config |-> 2]}
Votes(setting, run) == IF setting.rules = "r1" /\ run.model = 20 THEN Apt ELSE Zealous
HybridsChosen ==
  [setting \in SettingsTried, run \in Runs |->
     IF setting.rules = "r1"
     THEN Hybrid(Votes(setting, run), ToSet(Strategies), {<<TRUE, TRUE>>}, PolicyOf(setting.config))
     ELSE Hybrid(Votes(setting, run), {"or_gate", "and_gate"}, {}, PolicyOf(setting.config))]
C2 == 1 .. 2
Models2 == <<10, 20>>
Heads1 == <<10>>
=============================================================================
