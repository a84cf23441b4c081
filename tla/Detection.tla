----------------------------- MODULE Detection ------------------------------
(***************************************************************************)
(* One anchor through the rule engine and the risk scorer: the nine rules  *)
(* of detection/catalog.py and detection/rules, DetectionEngine.run and    *)
(* RiskScorer of detection/scoring.py.                                     *)
(*                                                                         *)
(* Rates, strengths and contributions are in thousandths, a risk score of  *)
(* 100 is 100000; divisions round down.  Windows are named in the fields   *)
(* of a view; evidence texts and reason codes are left out.                *)
(***************************************************************************)
EXTENDS Integers, Sequences, FiniteSets, SequencesExt, FiniteSetsExt

CONSTANTS
  Views,      \* the feature snapshots to look at
  Settings,   \* settings of the reducer, of zero_elapsed_policy and of the enabled rules
  MaxRepeated \* bound: how many results a caller hands over twice

Null == -1    \* a feature that could not be computed
OneIf(b) == IF b THEN 1 ELSE 0
Rate(part, whole) == IF whole = 0 THEN Null ELSE (1000 * part) \div whole

-----------------------------------------------------------------------------
(* The rules: what the scorer needs to know of each, and the thresholds it *)
(* evaluates with.                                                         *)
BF1 == [id |-> "PAD-BF-001", group |-> "guessing", category |-> "brute_force",
        severity |-> 2, weight |-> 900,
        pair |-> 8, user |-> 8, rate |-> 800, consecutive |-> 5, users |-> 3,
        gap |-> 60, blocked |-> 2]
BF2 == [id |-> "PAD-BF-002", group |-> "guessing", category |-> "brute_force",
        severity |-> 2, weight |-> 900, pair |-> 6, user |-> 8, since |-> 300]
PS1 == [id |-> "PAD-PS-001", group |-> "fanout", category |-> "password_spraying",
        severity |-> 2, weight |-> 850,
        users |-> 15, failures |-> 15, rate |-> 700, each |-> 3000]
CS1 == [id |-> "PAD-CS-001", group |-> "fanout", category |-> "credential_stuffing",
        severity |-> 2, weight |-> 850,
        users |-> 10, successes |-> 1, failures |-> 10, devices |-> 3, agents |-> 3,
        each |-> 4000]
DBF1 == [id |-> "PAD-DBF-001", group |-> "guessing", category |-> "distributed_brute_force",
         severity |-> 3, weight |-> 900,
         sources |-> 8, failures |-> 20, rate |-> 800, pair |-> 5, users |-> 3]
ATO1 == [id |-> "PAD-ATO-001", group |-> "session", category |-> "account_takeover",
         severity |-> 3, weight |-> 950, novel |-> 2, supporting |-> 1, failures |-> 3]
GEO1 == [id |-> "PAD-GEO-001", group |-> "movement", category |-> "impossible_travel",
         severity |-> 2, weight |-> 800, distance |-> 500, velocity |-> 900]
BOT1 == [id |-> "PAD-BOT-001", group |-> "automation", category |-> "bot_activity",
         severity |-> 1, weight |-> 700,
         attempts |-> 20, cov |-> 150, mean |-> 120, agents |-> 2]
MFA1 == [id |-> "PAD-MFA-001", group |-> "session", category |-> "mfa_sequence_anomaly",
         severity |-> 1, weight |-> 950,
         attempts |-> 6, observations |-> 3, failures |-> 4, challenges |-> 4]

CatalogOrder == <<ATO1, BF1, BF2, BOT1, CS1, DBF1, GEO1, MFA1, PS1>>
Catalog == {CatalogOrder[i] : i \in 1 .. 9}
Earlier(a, b) == \E i, j \in 1 .. 9 : i < j /\ CatalogOrder[i] = a /\ CatalogOrder[j] = b
Groups == <<"automation", "guessing", "movement", "session", "fanout">>

-----------------------------------------------------------------------------
(* How far a quantity lies beyond its threshold; three times the threshold *)
(* is as far as it counts (saturation_multiple).                           *)
Clamp(n) == IF n < 0 THEN 0 ELSE IF n > 1000 THEN 1000 ELSE n
Saturate(seen, threshold) == Clamp((1000 * (seen - threshold)) \div (2 * threshold))
SaturateInverse(seen, threshold) ==
  IF seen = 0 THEN 1000 ELSE Clamp((1000 * (threshold - seen)) \div (2 * seen))

Summed(s) ==
  LET sum[i \in 0 .. Len(s)] == IF i = 0 THEN 0 ELSE sum[i - 1] + s[i]
  IN sum[Len(s)]

(* The weighted mean of the components <<weight, value>>, above a floor.   *)
Mean(components) ==
  Summed([i \in DOMAIN components |-> components[i][1] * components[i][2]])
    \div Summed([i \in DOMAIN components |-> components[i][1]])
Strength(components) == 150 + (850 * Mean(components)) \div 1000

Fired(components) == [status |-> "fired", strength |-> Strength(components)]
NotFired == [status |-> "not_fired", strength |-> 0]
Unknown == [status |-> "insufficient_data", strength |-> 0]

When(condition, component) == IF condition THEN <<component>> ELSE <<>>

-----------------------------------------------------------------------------
Concentrated(v) ==
  LET rate == Rate(v.pairFailures, v.pairAttempts)
  IN IF rate = Null THEN Unknown
     ELSE IF \/ v.pairFailures < BF1.pair \/ v.userFailures < BF1.user
             \/ rate < BF1.rate \/ v.consecutive < BF1.consecutive
             \/ v.sourceUsers > BF1.users
     THEN NotFired
     ELSE Fired(<<<<10, Saturate(v.pairFailures, BF1.pair)>>,
                  <<8, Saturate(v.userFailures, BF1.user)>>,
                  <<6, rate>>,
                  <<8, Saturate(v.consecutive, BF1.consecutive)>>>>
                \o When(v.gap # Null /\ v.gap <= BF1.gap, <<4, SaturateInverse(v.gap, BF1.gap)>>)
                \o When(v.blocked >= BF1.blocked, <<3, Saturate(v.blocked, BF1.blocked)>>))

SuccessAfterBurst(v) ==
  IF v.previous = "none" \/ v.since = Null THEN Unknown
  ELSE IF \/ v.outcome # "success"
          \/ v.pairBurst < BF2.pair /\ v.userBurst < BF2.user
          \/ v.previous \notin {"failure", "blocked"}
          \/ v.since > BF2.since
  THEN NotFired
  ELSE Fired(When(v.pairBurst >= BF2.pair, <<10, Saturate(v.pairBurst, BF2.pair)>>)
             \o When(v.userBurst >= BF2.user, <<10, Saturate(v.userBurst, BF2.user)>>)
             \o <<<<5, SaturateInverse(v.since, BF2.since)>>>>)

Spraying(v) ==
  LET rate == Rate(v.hourFailures, v.hourAttempts)
      each == Rate(v.hourAttempts, v.hourUsers)
  IN IF rate = Null \/ each = Null THEN Unknown
     ELSE IF \/ v.hourUsers < PS1.users \/ v.hourFailures < PS1.failures
             \/ rate < PS1.rate \/ each > PS1.each
     THEN NotFired
     ELSE Fired(<<<<10, Saturate(v.hourUsers, PS1.users)>>,
                  <<8, Saturate(v.hourFailures, PS1.failures)>>,
                  <<6, rate>>,
                  <<6, SaturateInverse(each, PS1.each)>>>>)

Stuffing(v) ==
  LET each == Rate(v.hourAttempts, v.hourUsers)
      diversity == IF v.hourDevices >= CS1.devices THEN Saturate(v.hourDevices, CS1.devices)
                   ELSE Saturate(v.hourAgents, CS1.agents)
  IN IF ~ v.baseline \/ each = Null THEN Unknown
     ELSE IF \/ v.hourUsers < CS1.users
             \/ v.hourSuccesses < CS1.successes \/ v.hourFailures < CS1.failures
             \/ v.hourDevices < CS1.devices /\ v.hourAgents < CS1.agents
             \/ each > CS1.each
             \/ ~ (v.newDevice \/ v.newCountry)
     THEN NotFired
     ELSE Fired(<<<<10, Saturate(v.hourUsers, CS1.users)>>,
                  <<8, Saturate(v.hourFailures, CS1.failures)>>,
                  <<6, diversity>>,
                  <<6, SaturateInverse(each, CS1.each)>>,
                  <<7, 500 * (OneIf(v.newDevice) + OneIf(v.newCountry))>>>>)

(* Fault: the source's accounts are not counted.                           *)
DistributedBySources(v) ==
  LET rate == Rate(v.hourUserFailures, v.hourUserAttempts)
  IN IF rate = Null THEN Unknown
     ELSE IF v.hourUserSources < DBF1.sources \/ v.hourUserFailures < DBF1.failures
             \/ rate < DBF1.rate \/ v.hourPairAttempts > DBF1.pair
     THEN NotFired
     ELSE Fired(<<<<10, Saturate(v.hourUserSources, DBF1.sources)>>>>)

Distributed(v) ==
  LET rate == Rate(v.hourUserFailures, v.hourUserAttempts)
  IN IF rate = Null THEN Unknown
     ELSE IF \/ v.hourUserSources < DBF1.sources \/ v.hourUserFailures < DBF1.failures
             \/ rate < DBF1.rate \/ v.hourPairAttempts > DBF1.pair
             \/ v.hourUsers > DBF1.users
     THEN NotFired
     ELSE Fired(<<<<10, Saturate(v.hourUserSources, DBF1.sources)>>,
                  <<9, Saturate(v.hourUserFailures, DBF1.failures)>>,
                  <<6, rate>>,
                  <<6, SaturateInverse(v.hourPairAttempts, DBF1.pair)>>>>)

(* deviations counts the supporting signals that are met besides the prior *)
(* failures and the MFA outcome: hour, response time, event rate, distance.*)
Takeover(v) ==
  LET novel == OneIf(v.newDevice) + OneIf(v.newCountry) + v.otherNew
      supporting == v.deviations + OneIf(v.userBurst >= ATO1.failures)
                    + OneIf(v.mfa \in {"failed", "bypassed"})
  IN IF ~ v.baseline /\ v.outcome = "success" THEN Unknown
     ELSE IF \/ v.outcome # "success" \/ novel < ATO1.novel \/ supporting < ATO1.supporting
     THEN NotFired
     ELSE Fired(<<<<10, Saturate(novel, ATO1.novel)>>, <<8, (1000 * supporting) \div 6>>>>)

Travel(v, policy) ==
  IF v.outcome # "success" THEN NotFired
  ELSE IF v.geo # "ok" \/ v.distance = Null THEN Unknown
  ELSE IF v.distance < GEO1.distance THEN NotFired
  ELSE IF v.speed = "zero_elapsed"
  THEN IF policy.zeroElapsed = "fire" THEN Fired(<<<<10, 1000>>>>) ELSE Unknown
  ELSE IF v.speed \notin {"ok", "capped"} \/ v.velocity = Null THEN Unknown
  ELSE IF v.velocity < GEO1.velocity THEN NotFired
  ELSE Fired(<<<<10, Saturate(v.velocity, GEO1.velocity)>>,
               <<5, Saturate(v.distance, GEO1.distance)>>>>)

Automated(v) ==
  IF v.cov = Null \/ v.mean = Null THEN Unknown
  ELSE IF \/ v.quarterAttempts < BOT1.attempts \/ v.cov > BOT1.cov \/ v.mean > BOT1.mean
          \/ v.hourAgents > BOT1.agents
  THEN NotFired
  ELSE Fired(<<<<8, Saturate(v.quarterAttempts, BOT1.attempts)>>,
               <<10, SaturateInverse(v.cov, BOT1.cov)>>,
               <<5, SaturateInverse(v.mean, BOT1.mean)>>,
               <<5, SaturateInverse(v.hourAgents, BOT1.agents)>>>>)

SessionAnomaly(v) ==
  IF \/ v.quarterUserAttempts < MFA1.attempts
     \/ v.challenges + v.mfaFailures < MFA1.observations
     \/ v.mfa = "none"
  THEN Unknown
  ELSE IF \/ v.mfaFailures < MFA1.failures /\ v.challenges < MFA1.challenges
          \/ v.mfa \notin {"failed", "bypassed"}
  THEN NotFired
  ELSE Fired(When(v.mfaFailures >= MFA1.failures, <<10, Saturate(v.mfaFailures, MFA1.failures)>>)
             \o When(v.challenges >= MFA1.challenges, <<8, Saturate(v.challenges, MFA1.challenges)>>))

Evaluated(rule, v, policy) ==
  CASE rule = BF1 -> Concentrated(v) [] rule = BF2 -> SuccessAfterBurst(v)
    [] rule = PS1 -> Spraying(v) [] rule = CS1 -> Stuffing(v)
    [] rule = DBF1 -> Distributed(v) [] rule = ATO1 -> Takeover(v)
    [] rule = GEO1 -> Travel(v, policy) [] rule = BOT1 -> Automated(v)
    [] rule = MFA1 -> SessionAnomaly(v)

-----------------------------------------------------------------------------
(* The features the rules read: counts, and what may be unknown.           *)
Maybe == Nat \cup {Null}
Snapshot ==
  [outcome : STRING, mfa : STRING, previous : STRING, geo : STRING, speed : STRING,
   baseline : BOOLEAN, newDevice : BOOLEAN, newCountry : BOOLEAN,
   otherNew : 0 .. 3, deviations : 0 .. 4,
   pairFailures : Nat, pairAttempts : Nat, userFailures : Nat, sourceUsers : Nat,
   consecutive : Nat, blocked : Nat, pairBurst : Nat, userBurst : Nat, hourUsers : Nat,
   hourFailures : Nat, hourAttempts : Nat, hourSuccesses : Nat, hourDevices : Nat,
   hourAgents : Nat, hourUserSources : Nat, hourUserFailures : Nat,
   hourUserAttempts : Nat, hourPairAttempts : Nat, quarterAttempts : Nat,
   quarterUserAttempts : Nat, mfaFailures : Nat, challenges : Nat,
   gap : Maybe, since : Maybe, distance : Maybe, velocity : Maybe, cov : Maybe, mean : Maybe]

(* What the feature engine can say of one anchor.  A window holds what a   *)
(* shorter one holds, and a part is no larger than the whole.              *)
(* _SequenceState.update: a failure lengthens the user's streak and burst, *)
(* any other outcome ends the streak, and only a success the burst.  The   *)
(* pair has a state of its own: its burst outlives a success of the user   *)
(* from another source.                                                    *)
Coherent(v) ==
  /\ v.pairFailures <= v.pairAttempts /\ v.pairAttempts <= v.hourPairAttempts
  /\ v.pairFailures <= v.userFailures /\ v.userFailures <= v.hourUserFailures
  /\ v.hourUserFailures <= v.hourUserAttempts /\ v.hourPairAttempts <= v.hourUserAttempts
  /\ v.hourPairAttempts <= v.hourAttempts
  /\ v.hourFailures + v.hourSuccesses <= v.hourAttempts
  /\ v.pairFailures <= v.hourFailures
  /\ v.sourceUsers <= v.hourUsers /\ v.hourUsers <= v.hourAttempts
  /\ v.hourUserSources <= v.hourUserAttempts
  /\ v.quarterUserAttempts <= v.hourUserAttempts /\ v.quarterAttempts <= v.hourAttempts
  /\ v.consecutive <= v.userBurst
  /\ (v.consecutive > 0) = (v.previous = "failure")
  /\ v.previous \in {"none", "success"} => v.userBurst = 0
  /\ v.userBurst > 0 => v.since # Null
  /\ v.previous = "none" => v.since = Null
  /\ (v.newDevice \/ v.newCountry \/ v.otherNew > 0) => v.baseline

ASSUME DetectionAssumption ==
  /\ Views \subseteq Snapshot /\ \A v \in Views : Coherent(v)
  /\ Settings \subseteq [reducer : {"max", "bounded_sum"},
                        zeroElapsed : {"fire", "insufficient"}, enabled : SUBSET Catalog]
  /\ MaxRepeated \in Nat

-----------------------------------------------------------------------------
VARIABLES
  policy,     \* reducer, zero_elapsed_policy and enabled rules of the run
  view,       \* the anchor's feature snapshot
  stage,
  results,    \* what the rules said of it
  repeated,   \* those of them the caller hands over twice
  left,       \* results on their way to the scorer -> how many times they will come
  collected,  \* strongest result of each rule that the scorer has so far
  unknown,    \* the scorer's count of rules without the history they need
  assessment

scoringVars == <<policy, view, stage, results, repeated, left, collected, unknown, assessment>>

NoAssessment == [score |-> Null, severity |-> 0, category |-> "none", unknown |-> 0]

ScoringInit ==
  /\ policy \in Settings /\ view \in Views
  /\ stage = "snapshot"
  /\ results = {} /\ repeated = {} /\ left = <<>> /\ collected = <<>> /\ unknown = 0
  /\ assessment = NoAssessment

FiredIn(said) == {r \in said : r.verdict.status = "fired"}

(* DetectionEngine.run: every enabled rule says its word on the snapshot.  *)
(* All of it goes to the scorer; a caller who concatenates batches hands   *)
(* some results over twice, whatever they say.                             *)
Run ==
  /\ stage = "snapshot"
  /\ results' = {[rule |-> r, verdict |-> Evaluated(r, view, policy)] : r \in policy.enabled}
  /\ \E again \in SUBSET results' :
       /\ Cardinality(again) <= MaxRepeated
       /\ repeated' = again
       /\ left' = [r \in results' |-> 1 + OneIf(r \in again)]
  /\ stage' = "collecting"
  /\ UNCHANGED <<policy, view, collected, unknown, assessment>>

Stronger(one, other) == IF one > other THEN one ELSE other

(* Fault: what comes twice counts twice.                                   *)
MergedAdding(r) ==
  [x \in DOMAIN collected \cup {r.rule} |->
     IF x \notin DOMAIN collected THEN r.verdict.strength
     ELSE collected[x] + (IF x = r.rule THEN r.verdict.strength ELSE 0)]

Merged(r) ==
  [x \in DOMAIN collected \cup {r.rule} |->
     IF x \notin DOMAIN collected THEN r.verdict.strength
     ELSE IF x = r.rule THEN Stronger(r.verdict.strength, collected[x])
     ELSE collected[x]]

(* RiskScorer._collect, one result at a time and in any order: of a rule   *)
(* it keeps the strongest.                                                 *)
Collect ==
  \E r \in DOMAIN left :
    /\ stage = "collecting" /\ left[r] > 0
    /\ left' = [left EXCEPT ![r] = @ - 1]
    /\ collected' = IF r.verdict.status = "fired" THEN Merged(r) ELSE collected
    /\ unknown' = unknown + OneIf(r.verdict.status = "insufficient_data")
    /\ UNCHANGED <<policy, view, stage, results, repeated, assessment>>

-----------------------------------------------------------------------------
(* The score: within a correlation group the contributions reduce to one,  *)
(* the groups combine as independent signals do.                           *)
Contribution(rule, strength) == (rule.weight * strength) \div 1000
Without(residual, c) == (residual * (1000 - c)) \div 1000

(* What remains of a whole when one part after the other is taken from the *)
(* rest; nothing is taken for who did not fire.                            *)
Remaining(whole, parts) ==
  LET rest[i \in 0 .. Len(parts)] ==
        IF i = 0 THEN whole ELSE Without(rest[i - 1], parts[i])
  IN rest[Len(parts)]

(* max, or the bounded sum 1 - (1 - a)(1 - b)... of the group.             *)
PartOf(kept, r) == IF r \in DOMAIN kept THEN Contribution(r, kept[r]) ELSE 0
PartsIn(group, kept) ==
  [i \in 1 .. 9 |-> IF CatalogOrder[i].group = group THEN PartOf(kept, CatalogOrder[i]) ELSE 0]
Reduced(reducer, parts) ==
  IF reducer = "max" THEN Max({parts[i] : i \in DOMAIN parts})
  ELSE 1000 - Remaining(1000, parts)

Residual(reducer, kept) ==
  Remaining(100000, [g \in 1 .. 5 |-> Reduced(reducer, PartsIn(Groups[g], kept))])

MinFiredScore == 1000

RiskScore(reducer, kept) ==
  IF DOMAIN kept = {} THEN 0
  ELSE Max({MinFiredScore, 100000 - Residual(reducer, kept)})

SeverityOf(score) == Cardinality({bound \in {40000, 65000, 85000} : score >= bound})

(* rank_key: the largest contribution, then severity, strength and rule.   *)
Before(kept, a, b) ==
  LET key(r) == <<Contribution(r, kept[r]), r.severity, kept[r]>>
      Above(i) == key(a)[i] > key(b)[i] /\ \A j \in 1 .. i - 1 : key(a)[j] = key(b)[j]
  IN a = b \/ (\E i \in 1 .. 3 : Above(i)) \/ (key(a) = key(b) /\ Earlier(a, b))

Primary(kept) ==
  IF DOMAIN kept = {} THEN "none"
  ELSE (CHOOSE a \in DOMAIN kept : \A b \in DOMAIN kept : Before(kept, a, b)).category

Assess ==
  /\ stage = "collecting" /\ \A r \in DOMAIN left : left[r] = 0
  /\ LET score == RiskScore(policy.reducer, collected)
     IN assessment' = [score |-> score, severity |-> SeverityOf(score),
                       category |-> Primary(collected), unknown |-> unknown]
  /\ stage' = "assessed"
  /\ UNCHANGED <<policy, view, results, repeated, left, collected, unknown>>

ScoringNext == Run \/ Collect \/ Assess
ScoringSpec == ScoringInit /\ [][ScoringNext]_scoringVars

-----------------------------------------------------------------------------
FiredRules == {r.rule : r \in FiredIn(results)}
BlindIn(said) == {r \in said : r.verdict.status = "insufficient_data"}

(* What the assessment owes to the strengths said by the rules that fired, *)
(* of which some are the best of their group.                              *)
SoundFor(said, best) ==
  /\ (assessment.score = 0) = (FiredRules = {})
  /\ assessment.score <= 100000
  /\ assessment.score = RiskScore(policy.reducer, said)
  /\ \A fewer \in SUBSET FiredRules :
       RiskScore(policy.reducer, Restrict(said, fewer)) <= assessment.score
  /\ policy.reducer = "max" => assessment.score = RiskScore("max", Restrict(said, best))
  /\ FiredRules # {} => assessment.category \in {r.category : r \in FiredRules}
  /\ assessment.unknown = Cardinality(BlindIn(results)) + Cardinality(BlindIn(repeated))

(* Whatever the order in which results come and whichever come twice, the  *)
(* score is zero exactly when nothing fired, no rule that fired lowers it, *)
(* and the category is one of a rule that fired (scoring.py, the module's  *)
(* promises).  A rule that fired counts once; one that could not see its   *)
(* history counts as often as its result comes.                            *)
ScoreIsSound ==
  stage = "assessed" =>
    LET said == [x \in FiredRules |-> (CHOOSE r \in results : r.rule = x).verdict.strength]
        best == {r \in FiredRules : \A o \in FiredRules :
                   o.group = r.group => Contribution(o, said[o]) <= Contribution(r, said[r])}
    IN SoundFor(said, best)

(* "A repeated rule_id is collapsed ...: a caller concatenating two        *)
(* batches should get a stable answer" (scoring.py, assess_anchor), read   *)
(* of the count too: refuted, _collect counts a repeated insufficient_data *)
(* result again.                                                           *)
UnknownCountedOnce == stage = "assessed" => assessment.unknown = Cardinality(BlindIn(results))

(* One anchor is never told to be attacked from one source and from many:  *)
(* the distributed rule fires with none of the three that see one source   *)
(* (rules/distributed_brute_force.py:1-20, the exclusion thresholds).      *)
RulesKeepApart ==
  DBF1 \in FiredRules => FiredRules \cap {BF1, PS1, CS1} = {}

(* What rules/brute_force.py:10-12 says of the two guessing rules: on any  *)
(* single anchor they are mutually exclusive.                              *)
BruteForceRulesExclude == ~ ({BF1, BF2} \subseteq FiredRules)
=============================================================================
