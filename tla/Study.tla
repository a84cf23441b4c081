------------------------------- MODULE Study --------------------------------
(***************************************************************************)
(* The commands of ml/cli.py under one artifact root, in any order an      *)
(* operator may run them: train, select, freeze-champion, predict,         *)
(* evaluate, drift and the materialisation of the serving bundle.          *)
(*                                                                         *)
(* A lineage is one built dataset with its splits; every command is told   *)
(* which one to read, and under which configuration.  One command runs at  *)
(* a time and is not interrupted (Evidence has the interruptions), except  *)
(* that train publishes its runs one after the other and may end after any *)
(* of them.  Configurations differ in how a model is fitted and judged;    *)
(* they name one baseline family, one partition of the validation split,   *)
(* the same features and dependency ranges: a command that loads a lock    *)
(* refuses others of the last two.                                         *)
(***************************************************************************)
EXTENDS Naturals, FiniteSets, Sequences, SequencesExt

CONSTANTS
  Configs,         \* configurations and
  Lineages,        \* datasets; sets of numbers, in the order of their run identifiers
  Contract,        \* [Lineages -> the feature catalog, allowlist and eligible list of it]
  TestRows,        \* [Lineages -> the anchors of the TEST split]
  ValidationRows,  \* [Lineages -> the anchors of the validation split]
  Models,          \* the binary candidates enabled; a sequence of catalog numbers
  Heads,           \* the category candidates enabled; a sequence of catalog numbers
  Measurements,    \* [Configs -> [Runs -> a grade, 0 where a gate of its own blocks]]
  Settings,        \* what a hybrid is chosen under: [rules, config]
  Wins,            \* [Settings \X Runs -> the hybrid strategy its scores make the best]
  Trained,         \* [config, lineage]: what anybody trains; other datasets are only scored
  MaxSelections,   \* bound on the selections of one behaviour
  MaxPredictions,  \* bound on its prediction publications
  MaxReports       \* bound on its evaluations and its capture of a profile

VARIABLES
  grade,        \* what each run measures by the gates of each configuration
  runs,         \* published and indexed training runs
  selections,   \* published validation selections
  locks,        \* champion locks, one directory per scope
  predictions,  \* published predictions
  evaluations,  \* receipts of TEST evaluations
  profile,      \* the reference profile, one file per root
  bundles       \* serving bundles, one directory per scope

vars == <<grade, runs, selections, locks, predictions, evaluations, profile, bundles>>

None == [none |-> TRUE]
Baseline == 0

(* The candidates in the order train fits them, the baseline first; the    *)
(* fault fits it last.                                                     *)
CandidatesBaselineLast ==
  [i \in 1 .. Len(Models) |-> [task |-> "binary", model |-> Models[i]]]
    \o <<[task |-> "binary", model |-> Baseline]>>
    \o [i \in 1 .. Len(Heads) |-> [task |-> "category", model |-> Heads[i]]]
Candidates ==
  <<[task |-> "binary", model |-> Baseline]>>
    \o [i \in 1 .. Len(Models) |-> [task |-> "binary", model |-> Models[i]]]
    \o [i \in 1 .. Len(Heads) |-> [task |-> "category", model |-> Heads[i]]]
RunOf(candidate, of) ==
  [task |-> candidate.task, model |-> candidate.model, of |-> of]
Runs == {RunOf(c, of) : c \in ToSet(Candidates), of \in Trained}

ASSUME CatalogAssumption ==
  /\ Models \in Seq(Nat \ {Baseline}) /\ Heads \in Seq(Nat \ {Baseline})
  /\ Configs \subseteq Nat /\ Lineages \subseteq Nat
  /\ Trained \subseteq [config : Configs, lineage : Lineages]
  /\ Measurements \subseteq [Configs -> [Runs -> Nat]]

-----------------------------------------------------------------------------
(* train: every candidate over one dataset under one configuration, which  *)
(* together are the experiment a run is of.  Fitting one again gives the   *)
(* runs it gave before.                                                    *)
Train(of) ==
  /\ \E n \in 1 .. Len(Candidates) :
       runs' = runs \cup {RunOf(Candidates[i], of) : i \in 1 .. n}
  /\ UNCHANGED <<grade, selections, locks, predictions, evaluations, profile, bundles>>

(* The comparator: the baseline, if there is exactly one; the fault takes  *)
(* the first of several.                                                   *)
ReferenceFirst ==
  LET matches == {r \in runs : r.task = "binary" /\ r.model = Baseline}
  IN IF matches = {} THEN None
     ELSE CHOOSE r \in matches : \A s \in matches : r.of.lineage <= s.of.lineage
Reference ==
  LET matches == {r \in runs : r.task = "binary" /\ r.model = Baseline}
  IN IF \E r \in matches : matches = {r} THEN CHOOSE r \in matches : TRUE ELSE None

Considered(task) == {r \in runs : r.task = task /\ r.model # Baseline}

(* Candidates are listed by model and then by run identifier.              *)
Precedes(r, s) ==
  \/ r.model < s.model
  \/ /\ r.model = s.model
     /\ \/ r.of.lineage < s.of.lineage
        \/ r.of.lineage = s.of.lineage /\ r.of.config < s.of.config
First(rs) == CHOOSE r \in rs : \A s \in rs \ {r} : Precedes(r, s)

(* A candidate is judged by the gates of the selection's configuration,    *)
(* whatever it was trained under, against the baseline of its own          *)
(* experiment; a head against nothing but the experiment of the first.     *)
Passes(r, c) ==
  /\ grade[c][r] > 0
  /\ IF r.task = "binary"
     THEN Reference # None /\ r.of = Reference.of
     ELSE r.of = First(Considered("category")).of

Above(g, r, s) == g[r] > g[s] \/ (g[r] = g[s] /\ Precedes(r, s))

(* Any of the runs of a task can be listed and ranked, as finitely many    *)
(* numbers can.                                                            *)
ASSUME RunsAreOrdered ==
  \A task \in {"binary", "category"} :
    \A some \in SUBSET {r \in Runs : r.task = task} : some # {} =>
      /\ \E r \in some : \A s \in some \ {r} : Precedes(r, s)
      /\ \A g \in Measurements, c \in Configs :
           \E r \in some : \A s \in some \ {r} : Above(g[c], r, s)

(* The scope of a selection is its configuration and the dataset of the    *)
(* first candidate it lists.                                               *)
Scope(c, considered, reference) ==
  [config |-> c,
   lineage |-> IF considered # {} THEN First(considered).of.lineage
               ELSE IF reference # None THEN reference.of.lineage ELSE 0]

Selection(task, c) ==
  LET considered == Considered(task)
      passing == {r \in considered : Passes(r, c)}
      reference == IF task = "binary" THEN Reference ELSE None
  IN [task |-> task, candidates |-> considered, reference |-> reference,
      eligible |-> passing # {},
      selected |-> IF passing = {} THEN None
                   ELSE CHOOSE r \in passing : \A s \in passing \ {r} : Above(grade[c], r, s),
      scope |-> Scope(c, considered, reference)]

(* select publishes what it found for both tasks, eligible or not.         *)
Select(c) ==
  /\ runs # {}
  /\ Cardinality(selections) < MaxSelections
  /\ selections' = selections \cup {Selection("binary", c), Selection("category", c)}
  /\ UNCHANGED <<grade, runs, locks, predictions, evaluations, profile, bundles>>

-----------------------------------------------------------------------------
(* freeze-champion: one eligible binary selection, named where there are   *)
(* several, and the eligible category selection that comes first in the    *)
(* ledger.  Identifiers are digests, so any of them may be the first.      *)
EligibleHeads == {s \in selections : s.task = "category" /\ s.eligible}
Lock(s, head) ==
  [scope |-> s.scope, selection |-> s, run |-> s.selected,
   head |-> IF head = None THEN None ELSE head.selected]

(* What can be sealed in a lock, with everything it was selected among     *)
(* still indexed.                                                          *)
Sealable(s) == s.task = "binary" /\ s.eligible /\ s.selected.model # Baseline
Accounted(s) == s.candidates \cup {s.reference} \subseteq runs

(* A scope has one lock for ever: the same again is left alone and any     *)
(* other refused.                                                          *)
Freeze(s) ==
  /\ Sealable(s) /\ Accounted(s)
  /\ \A l \in locks : l.scope # s.scope
  /\ \E head \in IF EligibleHeads = {} THEN {None} ELSE EligibleHeads :
       locks' = locks \cup {Lock(s, head)}
  /\ UNCHANGED <<grade, runs, selections, predictions, evaluations, profile, bundles>>

(* FrozenChampion.load: the models of a lock share its feature contract.   *)
ContractOf(l) == Contract[l.run.of.lineage]
Loads(l) == l.head # None => Contract[l.head.of.lineage] = ContractOf(l)

(* The rows a champion is asked about were built under its contract; the   *)
(* fault asks only for some manifest.                                      *)
FitsUnchecked(l, d) == l \in locks /\ d \in Lineages
Fits(l, d) == Contract[d] = ContractOf(l)

-----------------------------------------------------------------------------
(* predict: a split of any dataset built under the champion's contract.    *)
Predict(l, d, split) ==
  /\ Loads(l)
  /\ Fits(l, d)
  /\ Cardinality(predictions) < MaxPredictions
  /\ predictions' = predictions \cup {[lock |-> l, lineage |-> d, split |-> split]}
  /\ UNCHANGED <<grade, runs, selections, locks, evaluations, profile, bundles>>

(* The hybrid is chosen on the validation split of the labelled dataset,   *)
(* with the scores of a publication that covers it, whoever made them.     *)
(* Its fingerprint covers the champion, the settings and the evidence,     *)
(* which is what the scoring run says of those rows, and not where the     *)
(* scores were read; datasets of the same validation rows share TRAIN.     *)
Fusion(l, d, setting, scores) ==
  IF scores = None THEN None
  ELSE [lock |-> l, setting |-> setting, rows |-> ValidationRows[d],
        scoring |-> scores.lock.run, strategy |-> Wins[setting, scores.lock.run]]
Covers(scores, d) ==
  scores # None => /\ scores.split = "validation"
                   /\ ValidationRows[d] \subseteq ValidationRows[scores.lineage]
MadeBy(p, l) == p.lock = l
Labelled(p, d) == TestRows[p.lineage] \subseteq TestRows[d]

Reports == Cardinality(evaluations) + (IF profile = None THEN 0 ELSE 1)

(* The receipt; it does not name the publication of the scores.            *)
Receipt(l, d, p, setting, scores) ==
  [lock |-> l, prediction |-> p, labels |-> d, setting |-> setting,
   fusion |-> Fusion(l, d, setting, scores), scores |-> scores]

(* evaluate: the labels of a dataset that has every scored row in TEST.    *)
Evaluate(l, d, p, setting, scores) ==
  /\ Loads(l)
  /\ p.split = "test" /\ MadeBy(p, l)
  /\ Labelled(p, d)
  /\ Covers(scores, d)
  /\ Reports < MaxReports
  /\ evaluations' = evaluations \cup {Receipt(l, d, p, setting, scores)}
  /\ UNCHANGED <<grade, runs, selections, locks, predictions, profile, bundles>>

(* drift: the profile is captured from the TRAIN rows the operator names,  *)
(* with the distribution of a publication of TRAIN if one is named, once;  *)
(* a different one is refused.                                             *)
Establish(built) == profile = None /\ profile' = built
Drift(l, d, output) ==
  /\ Loads(l)
  /\ Fits(l, d)
  /\ output # None => output.split = "train" /\ MadeBy(output, l)
  /\ Reports < MaxReports
  /\ Establish([lock |-> l, lineage |-> d, output |-> output])
  /\ UNCHANGED <<grade, runs, selections, locks, predictions, evaluations, bundles>>

(* Materialisation serves the one hybrid the evaluations of the champion   *)
(* agree on, under the rules it was chosen with.                           *)
FusionsOf(l) ==
  {e.fusion : e \in {e \in evaluations :
     e.lock = l /\ e.fusion # None /\ e.fusion.strategy # "none"}}
Materialize(l, rules) ==
  /\ Loads(l)
  /\ Cardinality(FusionsOf(l)) = 1
  /\ \A f \in FusionsOf(l) : f.setting.rules = rules
  /\ \A b \in bundles : b.lock.scope # l.scope
  /\ bundles' = bundles \cup {[lock |-> l, fusion |-> f] : f \in FusionsOf(l)}
  /\ UNCHANGED <<grade, runs, selections, locks, predictions, evaluations, profile>>

-----------------------------------------------------------------------------
Init ==
  /\ grade \in Measurements
  /\ runs = {} /\ selections = {} /\ locks = {} /\ predictions = {} /\ evaluations = {}
  /\ profile = None /\ bundles = {}

Splits == {"train", "validation", "test"}
Next ==
  \/ \E of \in Trained : Train(of)
  \/ \E c \in Configs : Select(c)
  \/ \E s \in selections : Freeze(s)
  \/ \E l \in locks, d \in Lineages :
       \/ \E split \in Splits : Predict(l, d, split)
       \/ \E p \in predictions, setting \in Settings, scores \in predictions \cup {None} :
            Evaluate(l, d, p, setting, scores)
       \/ \E output \in predictions \cup {None} : Drift(l, d, output)
  \/ \E l \in locks, setting \in Settings : Materialize(l, setting.rules)

Spec == Init /\ [][Next]_vars

-----------------------------------------------------------------------------
(* A champion was measured: its run passed the gates of its scope, beat    *)
(* the baseline of the experiment it was itself trained in, and stands in  *)
(* the scope of just that dataset, whatever else was trained under the     *)
(* root before and after (ml/selection.py:440-498, 785).                   *)
ChampionEarnedItsScope ==
  \A l \in locks :
    /\ grade[l.scope.config][l.run] > 0
    /\ l.run \in l.selection.candidates
    /\ l.run.of.lineage = l.scope.lineage
    /\ l.selection.reference = [task |-> "binary", model |-> Baseline, of |-> l.run.of]

(* A scope has one champion, and the champions of several scopes under a   *)
(* root were all measured against one baseline: it is fitted first, and    *)
(* two baselines qualify nobody (ml/champion.py:26-27, 97-131,             *)
(* ml/selection.py:484-488).                                               *)
OneBaseline ==
  \A l, m \in locks :
    /\ l.scope = m.scope => l = m
    /\ l.selection.reference = m.selection.reference

(* Everything derived from a lock was made by that champion over rows of   *)
(* its own feature contract: predictions, the evaluation of them, the      *)
(* reference profile with its distribution, and the hybrid that is served. *)
(* The scores a hybrid was chosen on may be those of another champion, but *)
(* of one that beat the same baseline (ml/predictions.py:1008-1051,        *)
(* ml/cli.py:2198-2338, ml/reference.py:796-805).                          *)
Derived(l, p) == p \in predictions /\ p.lock = l /\ Contract[p.lineage] = ContractOf(l)
EvidenceFollowsTheLock ==
  /\ \A p \in predictions : p.lock \in locks /\ Loads(p.lock) /\ Derived(p.lock, p)
  /\ \A e \in evaluations :
       /\ Derived(e.lock, e.prediction)
       /\ e.scores # None =>
            /\ Derived(e.scores.lock, e.scores)
            /\ e.scores.lock.selection.reference = e.lock.selection.reference
  /\ profile # None =>
       /\ profile.lock \in locks /\ Contract[profile.lineage] = ContractOf(profile.lock)
       /\ profile.output # None => Derived(profile.lock, profile.output)
  /\ \A b \in bundles :
       \E e \in evaluations : e.lock = b.lock /\ e.fusion = b.fusion

(* Refuted: a champion.lock "is a promise about what will be evaluated"    *)
(* (docs/champion-selection.md, section 12), so a frozen champion loads.   *)
LocksLoad == \A l \in locks : Loads(l)

(* Refuted: "everything tunable is frozen" before a TEST label is opened   *)
(* (docs/test-evaluation.md, section 1), the hybrid strategy included.     *)
FusionFixedFirst ==
  \A e, f \in evaluations :
    e.lock = f.lock /\ e.labels = f.labels => e.fusion = f.fusion

(* Refuted: a hybrid "made against a different champion" is refused        *)
(* (ml/test_evaluation.py:656-657), so its scores are the champion's own.  *)
HybridOfItsChampion ==
  \A e \in evaluations : e.scores # None => e.scores.lock = e.lock

(* Refuted: "a materially different experiment is a different scope and    *)
(* gets its own champion" (docs/champion-selection.md, section 12); only   *)
(* two baselines "in one scope" are ambiguous (ml/selection.py:456-458).   *)
BaselinePerScope ==
  \A s \in selections : s.task = "binary" /\ s.candidates # {} => s.reference # None
=============================================================================
