--------------------------- MODULE OperatingPoint ---------------------------
(***************************************************************************)
(* The arithmetic behind a run's grade in Study: the operating point a     *)
(* model is given on validation-B (ml/thresholds.py), the gates that judge *)
(* it there (ml/gates.py), the discrimination it is compared with the      *)
(* baseline by (ml/ranking.py), and the choice of a hybrid (ml/fusion.py). *)
(*                                                                         *)
(* A sample is the sequence of its distinct scores in ascending order,     *)
(* each with the rows that have it, by class; a threshold is a position in *)
(* it and flags the rows from there on.  Rates are whole numbers of parts, *)
(* exactly, where the code has floats kept to nine digits.                 *)
(***************************************************************************)
EXTENDS Naturals, Sequences, SequencesExt

CONSTANTS
  MaxRows,  \* bound on the rows of a sample
  Samples,  \* samples of benign and malicious rows: Seq([mal : Nat, ben : Nat])
  Policies  \* configurations: objective, tie, grid, limits and supports, in parts;
            \* the abstention's own tie and grid are taken to be the same

(* One.  Every rate over up to five rows, every F1 over them and every     *)
(* product the comparisons need is a whole number of parts.                *)
Whole == 2520
Part(n, d) == (n * Whole) \div d

ASSUME PartsAreExact ==
  /\ MaxRows \in Nat
  /\ \A d \in 1 .. 2 * MaxRows : Whole % d = 0

(* What the configuration's own validation lets through (ml/config.py:570, *)
(* 755, ml/schemas.py:430).                                                *)
Objective == {"max_recall_at_max_fpr", "max_f1", "min_fpr_at_min_recall"}
ASSUME PoliciesAreValid ==
  /\ Samples \subseteq Seq([mal : Nat, ben : Nat])
  /\ \A policy \in Policies :
       /\ policy.objective \in Objective
       /\ policy.tie \in {"lowest_threshold", "highest_threshold"}
       /\ policy.grid \in Nat /\ policy.grid >= 2
       /\ policy.maxFpr \in Nat /\ policy.gateFpr \in Nat
       /\ policy.minRecall \in 0 .. Whole /\ policy.gateRecall \in 0 .. Whole
       /\ policy.minMal \in Nat \ {0} /\ policy.minBen \in Nat \ {0}

Count(sample, class, from) ==
  LET count[t \in 0 .. Len(sample)] ==
        IF t = 0 THEN 0 ELSE count[t - 1] + IF t >= from THEN sample[t][class] ELSE 0
  IN count[Len(sample)]
Rows(sample, class) == Count(sample, class, 1)

-----------------------------------------------------------------------------
(* The thresholds looked at are observed scores: all of them, or an evenly *)
(* spaced choice that keeps both ends.  The fault spaces it to stop short  *)
(* of the last.                                                            *)
SpacedShort(n, grid) ==
  IF n <= grid THEN 1 .. n ELSE {1 + (i * n) \div grid : i \in 0 .. grid - 1}
Spaced(n, grid) ==
  IF n <= grid THEN 1 .. n
  ELSE {1, n} \cup {1 + (i * (n - 1)) \div (grid - 1) : i \in 0 .. grid - 1}

(* What is detected and what it costs, at a threshold if there is one.     *)
Outcome(t, tp, fp, mal, ben) ==
  [threshold |-> t, tp |-> tp, fp |-> fp, recall |-> Part(tp, mal), fpr |-> Part(fp, ben),
   f1 |-> Part(2 * tp, tp + fp + mal)]
Point(sample, t) ==
  Outcome(t, Count(sample, "mal", t), Count(sample, "ben", t),
          Rows(sample, "mal"), Rows(sample, "ben"))

Feasible(p, policy) ==
  CASE policy.objective = "max_recall_at_max_fpr" -> p.fpr <= policy.maxFpr
    [] policy.objective = "max_f1" -> p.tp > 0
    [] policy.objective = "min_fpr_at_min_recall" -> p.recall >= policy.minRecall

(* More is better.                                                         *)
Value(p, policy) ==
  CASE policy.objective = "max_recall_at_max_fpr" -> p.recall
    [] policy.objective = "max_f1" -> p.f1
    [] policy.objective = "min_fpr_at_min_recall" -> Whole - p.fpr

(* Thresholds are visited in ascending order with the best one so far.     *)
Displaces(p, best, policy) ==
  /\ Feasible(p, policy)
  /\ \/ best = <<>>
     \/ Value(p, policy) > Value(best[1], policy)
     \/ /\ Value(p, policy) = Value(best[1], policy)
        /\ policy.tie = "highest_threshold"
BestPoint(sample, policy) ==
  LET best[t \in 0 .. Len(sample)] ==
        IF t = 0 THEN <<>>
        ELSE LET before == best[t - 1] IN
             IF /\ t \in Spaced(Len(sample), policy.grid)
                /\ Displaces(Point(sample, t), before, policy)
             THEN <<Point(sample, t)>> ELSE before
  IN best[Len(sample)]

(* A ceiling below one benign row's share is not tested by any sample.     *)
Resolves(ben, ceiling) == ben * ceiling >= Whole
Populated(sample, policy) ==
  /\ Rows(sample, "mal") >= policy.minMal /\ Rows(sample, "ben") >= policy.minBen
Supported(sample, policy) ==
  /\ Populated(sample, policy)
  /\ policy.objective = "max_recall_at_max_fpr" =>
       Resolves(Rows(sample, "ben"), policy.maxFpr)

(* The operating point as a sequence of at most one point.                 *)
Chosen(sample, policy) ==
  IF Supported(sample, policy) THEN BestPoint(sample, policy) ELSE <<>>

-----------------------------------------------------------------------------
(* The step-wise area under the precision-recall curve, over every         *)
(* distinct score whatever the grid; times the malicious rows.             *)
PrAuc(sample) ==
  LET precision(t) == Part(Count(sample, "mal", t),
                           Count(sample, "mal", t) + Count(sample, "ben", t))
  IN SumFunction([t \in DOMAIN sample |-> sample[t].mal * precision(t)])

(* The binary gates that look at the sample, with the limits of their own. *)
Clears(gate, sample, baseline, policy) ==
  LET chosen == Chosen(sample, policy) IN
  CASE gate = "validation_support" -> Populated(sample, policy)
    [] gate = "operating_threshold" -> chosen # <<>>
    [] gate = "false_positive_ceiling" ->
         /\ chosen # <<>>
         /\ Resolves(Rows(sample, "ben"), policy.gateFpr) /\ chosen[1].fpr <= policy.gateFpr
    [] gate = "detection_rate_floor" ->
         chosen # <<>> /\ chosen[1].recall >= policy.gateRecall
    [] gate = "baseline_pr_auc_gain" ->
         PrAuc(sample) >= PrAuc(baseline) + policy.gain * Rows(sample, "mal")
BinaryGates ==
  {"validation_support", "operating_threshold", "false_positive_ceiling",
   "detection_rate_floor", "baseline_pr_auc_gain"}

(* The order of those no gate blocks as a number: what is detected, then   *)
(* what it costs, then the area.  Only runs of one dataset are compared.   *)
BinaryGrade(sample, baseline, policy) ==
  IF \A gate \in BinaryGates : Clears(gate, sample, baseline, policy)
  THEN LET p == Chosen(sample, policy)[1] IN
       1 + (p.tp * (MaxRows + 1) + Rows(sample, "ben") - p.fp) * (MaxRows * Whole + 1)
         + PrAuc(sample)
  ELSE 0

-----------------------------------------------------------------------------
(* The category head's abstention: a sample says per score of the best     *)
(* class how often that class was right or wrong.  The widest coverage     *)
(* whose precision holds the floor; the gates ask that it was so chosen.   *)
Covered(head, t) == Count(head, "right", t) + Count(head, "wrong", t)
Precision(head, t) == Part(Count(head, "right", t), Covered(head, t))
Widens(head, t, best, policy) ==
  /\ Precision(head, t) >= policy.minPrecision
  /\ \/ best = 0
     \/ Covered(head, t) > Covered(head, best)
     \/ Covered(head, t) = Covered(head, best) /\ policy.tie = "highest_threshold"
Abstention(head, rarest, policy) ==
  IF Covered(head, 1) >= policy.minKnown /\ rarest >= policy.minPerClass
  THEN LET best[t \in 0 .. Len(head)] ==
             IF t = 0 THEN 0
             ELSE LET before == best[t - 1] IN
                  IF t \in Spaced(Len(head), policy.grid) /\ Widens(head, t, before, policy)
                  THEN t ELSE before
       IN best[Len(head)]
  ELSE 0
CategoryGrade(head, rarest, policy) ==
  LET t == Abstention(head, rarest, policy) IN
  IF t = 0 THEN 0 ELSE 1 + Covered(head, t) * (Whole + 1) + Precision(head, t)

-----------------------------------------------------------------------------
(* The hybrid: votes are the rows by what the rules and the model said,    *)
(* and a stacked learner is the set of votes it flags.                     *)
Flags(strategy, stacked) ==
  CASE strategy = "or_gate" -> {v \in BOOLEAN \X BOOLEAN : v[1] \/ v[2]}
    [] strategy = "and_gate" -> {<<TRUE, TRUE>>}
    [] strategy = "stacked" -> stacked
VotesIn(votes, class, some) == SumFunctionOnSet([v \in DOMAIN votes |-> votes[v][class]], some)
Fused(votes, strategy, stacked) ==
  Outcome(0, VotesIn(votes, "mal", Flags(strategy, stacked)),
          VotesIn(votes, "ben", Flags(strategy, stacked)),
          VotesIn(votes, "mal", DOMAIN votes), VotesIn(votes, "ben", DOMAIN votes))
Strategies == <<"or_gate", "and_gate", "stacked">>

(* The highest F1 of those within the gates' limits, the earlier of equals.*)
Hybrid(votes, built, stacked, policy) ==
  LET outcome(i) == Fused(votes, Strategies[i], stacked)
      eligible == {i \in DOMAIN Strategies :
                     /\ Strategies[i] \in built
                     /\ outcome(i).recall >= policy.gateRecall
                     /\ outcome(i).fpr <= policy.gateFpr}
      supported == /\ VotesIn(votes, "mal", DOMAIN votes) >= policy.minMal
                   /\ VotesIn(votes, "ben", DOMAIN votes) >= policy.minBen
  IN IF ~ supported \/ eligible = {} THEN "none"
     ELSE Strategies[CHOOSE i \in eligible : \A j \in eligible \ {i} :
            \/ outcome(i).f1 > outcome(j).f1
            \/ outcome(i).f1 = outcome(j).f1 /\ i < j]

-----------------------------------------------------------------------------
(* A search bounded by its grid never finds nothing where the whole sample *)
(* holds something: both ends are looked at, and for every objective one   *)
(* of them is feasible if anything is.                                     *)
GridHidesNothing(sample, policy) ==
  (\E t \in DOMAIN sample : Feasible(Point(sample, t), policy))
    => BestPoint(sample, policy) # <<>>

(* The point found by looking at each threshold once is the best of those  *)
(* looked at, and among equals the lowest or the highest.                  *)
FoundIsBest(sample, policy) ==
  \A p \in ToSet(BestPoint(sample, policy)) : \A t \in Spaced(Len(sample), policy.grid) :
    LET q == Point(sample, t) IN
    /\ Feasible(p, policy)
    /\ Feasible(q, policy) => Value(q, policy) <= Value(p, policy)
    /\ Feasible(q, policy) /\ Value(q, policy) = Value(p, policy) =>
         IF policy.tie = "highest_threshold" THEN t <= p.threshold ELSE t >= p.threshold

(* A configuration whose gates are no stricter than its search             *)
(* (ml/config.py:1168-1187) does not choose a point its own gate refuses.  *)
Coherent(policy) ==
  /\ policy.gateFpr >= policy.maxFpr
  /\ policy.objective = "min_fpr_at_min_recall" => policy.gateRecall <= policy.minRecall
GateKeepsPromise(sample, policy) ==
  Coherent(policy) /\ Chosen(sample, policy) # <<>> =>
    /\ policy.objective = "max_recall_at_max_fpr" =>
         Clears("false_positive_ceiling", sample, sample, policy)
    /\ policy.objective = "min_fpr_at_min_recall" =>
         Clears("detection_rate_floor", sample, sample, policy)

(* Where search and gates have the same limits and every score is looked   *)
(* at, a model they refuse has no threshold at all within both limits.     *)
RefusalIsFinal(sample, policy) ==
  LET within(p) == p.fpr <= policy.gateFpr /\ p.recall >= policy.gateRecall
  IN /\ policy.gateFpr = policy.maxFpr /\ policy.gateRecall = policy.minRecall
     /\ policy.objective # "max_f1" /\ Len(sample) <= policy.grid
     /\ Populated(sample, policy) /\ Resolves(Rows(sample, "ben"), policy.gateFpr)
     => \/ \A gate \in {"false_positive_ceiling", "detection_rate_floor"} :
             Clears(gate, sample, sample, policy)
        \/ \A t \in DOMAIN sample : ~ within(Point(sample, t))

(* The samples and policies with an operating point that a search of the   *)
(* whole sample would not justify.                                         *)
Unjustified ==
  {w \in Samples \X Policies :
     /\ Populated(w[1], w[2])
     /\ ~ /\ GridHidesNothing(w[1], w[2])
          /\ FoundIsBest(w[1], w[2])
          /\ GateKeepsPromise(w[1], w[2])
          /\ RefusalIsFinal(w[1], w[2])}

(* Refuted: of tied thresholds the lower one "detects at least as much,    *)
(* and the tie means it costs no more" (ml/config.py:573-574).             *)
TiesCostNothing ==
  \A sample \in Samples, policy \in Policies :
    Populated(sample, policy) =>
      \A p \in ToSet(BestPoint(sample, policy)), t \in DOMAIN sample :
        LET q == Point(sample, t) IN
        Feasible(q, policy) /\ Value(q, policy) = Value(p, policy) => q.fpr >= p.fpr
=============================================================================
