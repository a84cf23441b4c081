---------------------------- MODULE Study_proofs ----------------------------
(***************************************************************************)
(* Champions that share one baseline, and earned ones, for any datasets,   *)
(* configurations, candidates and measurements and any order of commands;  *)
(* and the arithmetic of a grade, for any samples and policies.            *)
(***************************************************************************)
EXTENDS Grading, SequenceTheorems, FiniteSetTheorems, WellFoundedInduction, TLAPS

BaselineOf(of) == [task |-> "binary", model |-> Baseline, of |-> of]

(* An experiment that has a run at all has its baseline.                   *)
BaselineFirst ==
  /\ runs \subseteq Runs
  /\ \A r \in runs : BaselineOf(r.of) \in runs

Found(s) == s.task = "binary" /\ s.eligible

(* An eligible selection was measured against the baseline of the          *)
(* experiment of its champion, which was the only one then, and in the     *)
(* scope of that dataset.                                                  *)
Stands(s) ==
  /\ s.reference = BaselineOf(s.selected.of) /\ s.reference \in runs
  /\ s.selected \in s.candidates
  /\ s.selected.of.lineage = s.scope.lineage
  /\ grade[s.scope.config][s.selected] > 0
SelectionsSound == \A s \in selections : Found(s) => Stands(s)
OneReference == \A s, t \in selections : Found(s) /\ Found(t) => s.reference = t.reference

LocksSound ==
  /\ \A l \in locks :
       /\ l.selection \in selections /\ Found(l.selection)
       /\ l.scope = l.selection.scope /\ l.run = l.selection.selected
  /\ \A l, m \in locks : l.scope = m.scope => l = m

IInv ==
  /\ grade \in Measurements
  /\ BaselineFirst
  /\ SelectionsSound
  /\ OneReference
  /\ LocksSound

-----------------------------------------------------------------------------
LEMMA ConcatKeepsFirst ==
  ASSUME NEW S, NEW a \in Seq(S), NEW b \in Seq(S), Len(a) >= 1
  PROVE  a \o b \in Seq(S) /\ Len(a \o b) >= 1 /\ (a \o b)[1] = a[1]
<1>1. Len(a) \in Nat /\ Len(b) \in Nat
  BY LenProperties
<1> QED BY <1>1, ConcatProperties

LEMMA FirstCandidate ==
  /\ Candidates \in Seq([task : {"binary", "category"}, model : Nat])
  /\ Len(Candidates) >= 1
  /\ Candidates[1] = [task |-> "binary", model |-> Baseline]
<1> DEFINE one == <<[task |-> "binary", model |-> Baseline]>>
           two == [i \in 1 .. Len(Models) |-> [task |-> "binary", model |-> Models[i]]]
           three == [i \in 1 .. Len(Heads) |-> [task |-> "category", model |-> Heads[i]]]
           S == [task : {"binary", "category"}, model : Nat]
<1>0. Models \in Seq(Nat) /\ Heads \in Seq(Nat) /\ Len(Models) \in Nat /\ Len(Heads) \in Nat
  BY CatalogAssumption DEF Baseline
<1>1. one \in Seq(S) /\ Len(one) = 1 /\ one[1] = [task |-> "binary", model |-> Baseline]
  BY DEF Baseline
<1>2. two \in Seq(S)
  <2>1. \A i \in 1 .. Len(Models) : Models[i] \in Nat
    BY <1>0
  <2> QED BY <2>1, <1>0
<1>3. three \in Seq(S)
  <2>1. \A i \in 1 .. Len(Heads) : Heads[i] \in Nat
    BY <1>0
  <2> QED BY <2>1, <1>0
<1> HIDE DEF one, two, three, S
<1>4. Candidates = (one \o two) \o three
  BY DEF Candidates, one, two, three
<1>5. /\ one \o two \in Seq(S) /\ Len(one \o two) >= 1
      /\ (one \o two)[1] = one[1]
  <2>1. Len(one) >= 1
    BY <1>1
  <2> QED BY <1>1, <1>2, <2>1, ConcatKeepsFirst
<1>6. /\ (one \o two) \o three \in Seq(S) /\ Len((one \o two) \o three) >= 1
      /\ ((one \o two) \o three)[1] = (one \o two)[1]
  BY <1>5, <1>3, ConcatKeepsFirst
<1> QED BY <1>4, <1>5, <1>6, <1>1 DEF S

LEMMA RunFields ==
  \A r \in Runs : /\ r = [task |-> r.task, model |-> r.model, of |-> r.of]
                  /\ r.task \in {"binary", "category"} /\ r.model \in Nat
                  /\ r.of \in Trained
<1> SUFFICES ASSUME NEW r \in Runs
    PROVE /\ r = [task |-> r.task, model |-> r.model, of |-> r.of]
          /\ r.task \in {"binary", "category"} /\ r.model \in Nat
          /\ r.of \in Trained
  OBVIOUS
<1>1. PICK c \in ToSet(Candidates), of \in Trained : r = RunOf(c, of)
  BY DEF Runs
<1>2. PICK i \in 1 .. Len(Candidates) : c = Candidates[i]
  BY DEF ToSet
<1>3. c \in [task : {"binary", "category"}, model : Nat]
  <2>1. \A T : \A q \in Seq(T) : \A j \in 1 .. Len(q) : q[j] \in T
    OBVIOUS
  <2> QED BY <2>1, <1>2, FirstCandidate
<1> QED BY <1>1, <1>3 DEF RunOf

LEMMA BaselineTask ==
  ASSUME NEW r \in Runs, r.task = "binary", r.model = Baseline
  PROVE  r = BaselineOf(r.of)
BY RunFields DEF BaselineOf

-----------------------------------------------------------------------------
(* What a selection that finds somebody stands on.                         *)
LEMMA SelectionStands ==
  ASSUME BaselineFirst, grade \in Measurements, NEW c \in Configs,
         Selection("binary", c).eligible
  PROVE  /\ Stands(Selection("binary", c))
         /\ \A b \in runs : b.task = "binary" /\ b.model = Baseline
                              => b = Selection("binary", c).reference
<1> DEFINE considered == Considered("binary")
           passing == {r \in considered : Passes(r, c)}
           matches == {r \in runs : r.task = "binary" /\ r.model = Baseline}
<1>1. passing # {}
  BY DEF Selection
<1>2. considered \subseteq {r \in Runs : r.task = "binary"}
  BY DEF Considered, BaselineFirst
<1>3. Reference # None /\ \A r \in passing : r.of = Reference.of
  BY <1>1, <1>2 DEF Passes
<1>4. \E r \in matches : matches = {r}
  BY <1>3, Zenon DEF Reference
<1>5. Reference \in matches /\ matches = {Reference}
  BY <1>4 DEF Reference
<1>6. Reference = BaselineOf(Reference.of)
  BY <1>5, BaselineTask DEF BaselineFirst
<1>7. \A r \in considered : r.of = Reference.of
  <2> SUFFICES ASSUME NEW r \in considered PROVE r.of = Reference.of
    OBVIOUS
  <2>1. BaselineOf(r.of) \in matches
    BY DEF BaselineFirst, Considered, BaselineOf
  <2> QED BY <2>1, <1>5 DEF BaselineOf
<1>8. First(considered) \in considered
  <2>1. considered # {} /\ considered \in SUBSET {r \in Runs : r.task = "binary"}
    BY <1>1, <1>2
  <2>2. \E r \in considered : \A s \in considered \ {r} : Precedes(r, s)
    BY <2>1, RunsAreOrdered
  <2> QED BY <2>2 DEF First
<1> DEFINE best == CHOOSE r \in passing : \A s \in passing \ {r} : Above(grade[c], r, s)
<1>9. best \in passing
  <2>1. passing # {} /\ passing \in SUBSET {r \in Runs : r.task = "binary"}
    BY <1>1, <1>2
  <2>2. \A some \in SUBSET {r \in Runs : r.task = "binary"} : some # {} =>
          \A g \in Measurements, k \in Configs :
            \E r \in some : \A s \in some \ {r} : Above(g[k], r, s)
    BY RunsAreOrdered
  <2>3. \E r \in passing : \A s \in passing \ {r} : Above(grade[c], r, s)
    <3> HIDE DEF passing
    <3> QED BY <2>1, <2>2
  <2> QED BY <2>3
<1>10. grade[c][best] > 0
  BY <1>9 DEF Passes
<1>11. /\ Selection("binary", c).selected = best
       /\ Selection("binary", c).candidates = considered
       /\ Selection("binary", c).reference = Reference
       /\ Selection("binary", c).scope = Scope(c, considered, Reference)
  BY <1>1 DEF Selection
<1> HIDE DEF best, considered, passing, matches
<1>12. best \in considered /\ considered # {}
  BY <1>9 DEF passing
<1>13. /\ Scope(c, considered, Reference).config = c
       /\ Scope(c, considered, Reference).lineage = First(considered).of.lineage
  BY <1>12 DEF Scope
<1>14. First(considered).of = Reference.of /\ best.of = Reference.of
  BY <1>7, <1>8, <1>12
<1>15. Reference \in runs
  BY <1>5 DEF matches
<1>16. Stands(Selection("binary", c))
  BY <1>6, <1>10, <1>11, <1>12, <1>13, <1>14, <1>15 DEF Stands
<1>17. \A b \in runs : b.task = "binary" /\ b.model = Baseline => b = Reference
  BY <1>5 DEF matches
<1> QED BY <1>11, <1>16, <1>17

LEMMA InitEstablishes == Init => IInv
BY DEF Init, IInv, BaselineFirst, SelectionsSound, OneReference, LocksSound

LEMMA SelectionKinds ==
  \A c \in Configs : /\ Selection("binary", c).task = "binary"
                     /\ Selection("category", c).task = "category"
BY DEF Selection

LEMMA StepPreserves == IInv /\ [Next]_vars => IInv'
<1> SUFFICES ASSUME IInv, [Next]_vars PROVE IInv'
  OBVIOUS
<1>1. ASSUME NEW of \in Trained, Train(of) PROVE IInv'
  <2>0. UNCHANGED <<grade, selections, locks>> /\ of \in Trained
    BY <1>1 DEF Train
  <2>1. PICK n \in 1 .. Len(Candidates) :
          runs' = runs \cup {RunOf(Candidates[i], of) : i \in 1 .. n}
    BY <1>1 DEF Train
  <2>2. Len(Candidates) \in Nat /\ n >= 1 /\ \A i \in 1 .. n : i \in 1 .. Len(Candidates)
    BY FirstCandidate, LenProperties
  <2>3. \A i \in 1 .. n : Candidates[i] \in ToSet(Candidates)
    BY <2>2, FirstCandidate, LenProperties DEF ToSet
  <2>4. BaselineFirst'
    <3>1. runs' \subseteq Runs
      BY <2>1, <2>3 DEF Runs, IInv, BaselineFirst
    <3>2. BaselineOf(of) \in runs'
      BY <2>1, <2>2, FirstCandidate DEF RunOf, BaselineOf
    <3>3. ASSUME NEW r \in runs' PROVE BaselineOf(r.of) \in runs'
      <4>1. r \in runs \/ r.of = of
        BY <2>1 DEF RunOf
      <4> QED BY <4>1, <3>2, <2>1 DEF IInv, BaselineFirst
    <3> QED BY <3>1, <3>3 DEF BaselineFirst, BaselineOf
  <2>5. runs \subseteq runs'
    BY <2>1
  <2> QED BY <2>0, <2>4, <2>5 DEF IInv, SelectionsSound, OneReference, LocksSound, Found, Stands, BaselineOf
<1>2. ASSUME NEW c \in Configs, Select(c) PROVE IInv'
  <2> DEFINE new == Selection("binary", c)
  <2>0. UNCHANGED <<grade, runs, locks>>
        /\ selections' = selections \cup {new, Selection("category", c)}
    BY <1>2 DEF Select
  <2>1. ASSUME NEW s \in selections', Found(s) PROVE s \in selections \/ s = new
    BY <2>0, <2>1, SelectionKinds DEF Found
  <2>2. ASSUME new.eligible
        PROVE  /\ Stands(new)
               /\ \A b \in runs : b.task = "binary" /\ b.model = Baseline => b = new.reference
    BY <2>2, SelectionStands DEF IInv
  <2> HIDE DEF new
  <2>3. SelectionsSound'
    <3>1. \A s : Stands(s)' = Stands(s)
      BY <2>0 DEF Stands, BaselineOf
    <3> QED BY <2>1, <2>2, <3>1 DEF SelectionsSound, IInv, Found
  <2>4. ASSUME NEW s \in selections, Found(s), new.eligible
        PROVE  s.reference = new.reference
    <3>1. s.reference = BaselineOf(s.selected.of) /\ s.reference \in runs
      BY <2>4 DEF IInv, SelectionsSound, Stands
    <3> QED BY <3>1, <2>2, <2>4 DEF BaselineOf
  <2>5. OneReference'
    BY <2>1, <2>4 DEF OneReference, IInv, Found
  <2>6. LocksSound'
    BY <2>0 DEF LocksSound, IInv, Found
  <2> QED BY <2>0, <2>3, <2>5, <2>6 DEF IInv, BaselineFirst, BaselineOf
<1>3. ASSUME NEW s \in selections, Freeze(s) PROVE IInv'
  <2>1. PICK head : locks' = locks \cup {Lock(s, head)}
    BY <1>3 DEF Freeze, Sealable, Accounted
  <2>2. UNCHANGED <<grade, runs, selections>> /\ Found(s) /\ \A l \in locks : l.scope # s.scope
    BY <1>3 DEF Freeze, Sealable, Accounted, Found
  <2>3. /\ Lock(s, head).scope = s.scope /\ Lock(s, head).selection = s
        /\ Lock(s, head).run = s.selected
    BY DEF Lock
  <2>4. LocksSound'
    BY <2>1, <2>2, <2>3 DEF LocksSound, IInv, Found
  <2> QED BY <2>2, <2>4 DEF IInv, BaselineFirst, SelectionsSound, OneReference, Found, Stands, BaselineOf
<1>4. ASSUME UNCHANGED <<grade, runs, selections, locks>> PROVE IInv'
  BY <1>4 DEF IInv, BaselineFirst, SelectionsSound, OneReference, LocksSound, Found, Stands, BaselineOf
<1>5. ASSUME NEW l \in locks, NEW d \in Lineages, NEW split, Predict(l, d, split) PROVE IInv'
  BY <1>4, <1>5 DEF Predict
<1>6. ASSUME NEW l, NEW d, NEW p, NEW setting, NEW scores, Evaluate(l, d, p, setting, scores)
      PROVE IInv'
  BY <1>4, <1>6 DEF Evaluate, Receipt
<1>7. ASSUME NEW l, NEW d, NEW output, Drift(l, d, output) PROVE IInv'
  BY <1>4, <1>7 DEF Drift, Establish
<1>8. ASSUME NEW l, NEW rules, Materialize(l, rules) PROVE IInv'
  BY <1>4, <1>8 DEF Materialize
<1>9. CASE UNCHANGED vars
  BY <1>4, <1>9 DEF vars
<1> QED BY <1>1, <1>2, <1>3, <1>5, <1>6, <1>7, <1>8, <1>9 DEF Next

-----------------------------------------------------------------------------
(* The inductive invariant: what has a run has a baseline, and all         *)
(* selections that found a champion stand on one baseline.                 *)
THEOREM Invariant == Spec => []IInv
BY InitEstablishes, StepPreserves, PTL DEF Spec

(* A scope has one champion for ever, and the champions of all the scopes  *)
(* under a root beat the same baseline, for any configurations, datasets,  *)
(* candidates and measurements (ml/champion.py:97-131,                     *)
(* ml/selection.py:484-488).                                               *)
THEOREM ChampionsShareTheBaseline == Spec => []OneBaseline
<1>1. IInv => OneBaseline
  BY DEF IInv, OneReference, LocksSound, OneBaseline
<1> QED BY Invariant, <1>1, PTL

(* Every frozen champion passed the gates of its scope's configuration,    *)
(* and beat the baseline of its own experiment, on the dataset of its      *)
(* scope (ml/selection.py:440-498, 785).                                   *)
THEOREM ChampionsEarnTheirScope == Spec => []ChampionEarnedItsScope
<1>1. IInv => ChampionEarnedItsScope
  BY DEF IInv, SelectionsSound, Stands, LocksSound, ChampionEarnedItsScope, BaselineOf
<1> QED BY Invariant, <1>1, PTL

-----------------------------------------------------------------------------
LEMMA EvidenceStep ==
  ASSUME OneBaseline, EvidenceFollowsTheLock, [Next]_vars
  PROVE  EvidenceFollowsTheLock'
<1>1. ASSUME UNCHANGED <<predictions, evaluations, profile, bundles>>, locks \subseteq locks'
      PROVE  EvidenceFollowsTheLock'
  BY <1>1 DEF EvidenceFollowsTheLock, Derived, Loads, ContractOf
<1>2. ASSUME NEW of \in Trained, Train(of) PROVE EvidenceFollowsTheLock'
  BY <1>1, <1>2 DEF Train
<1>3. ASSUME NEW c \in Configs, Select(c) PROVE EvidenceFollowsTheLock'
  BY <1>1, <1>3 DEF Select
<1>4. ASSUME NEW s \in selections, Freeze(s) PROVE EvidenceFollowsTheLock'
  <2>1. locks \subseteq locks' /\ UNCHANGED <<predictions, evaluations, profile, bundles>>
    BY <1>4 DEF Freeze
  <2> QED BY <1>1, <2>1
<1>5. ASSUME NEW l \in locks, NEW d \in Lineages, NEW split, Predict(l, d, split)
      PROVE  EvidenceFollowsTheLock'
  <2> DEFINE made == [lock |-> l, lineage |-> d, split |-> split]
  <2>1. /\ predictions' = predictions \cup {made}
        /\ UNCHANGED <<locks, evaluations, profile, bundles>>
        /\ Loads(l) /\ Contract[d] = ContractOf(l)
    BY <1>5 DEF Predict, Fits
  <2>2. made.lock = l /\ made.lineage = d
    OBVIOUS
  <2> HIDE DEF made
  <2>3. \A k, p : Derived(k, p) => Derived(k, p)'
    BY <2>1 DEF Derived, ContractOf
  <2>4. \A p \in predictions' : p.lock \in locks' /\ Loads(p.lock)' /\ Derived(p.lock, p)'
    BY <2>1, <2>2 DEF EvidenceFollowsTheLock, Derived, Loads, ContractOf
  <2> QED BY <2>1, <2>3, <2>4 DEF EvidenceFollowsTheLock, ContractOf
<1>6. ASSUME NEW l \in locks, NEW d \in Lineages, NEW p \in predictions, NEW setting,
             NEW scores \in predictions \cup {None}, Evaluate(l, d, p, setting, scores)
      PROVE  EvidenceFollowsTheLock'
  <2> DEFINE e == Receipt(l, d, p, setting, scores)
  <2>1. /\ evaluations' = evaluations \cup {e}
        /\ UNCHANGED <<locks, predictions, profile, bundles>>
        /\ p.lock = l
    BY <1>6 DEF Evaluate, MadeBy
  <2>2. e.lock = l /\ e.prediction = p /\ e.scores = scores
    BY DEF Receipt
  <2> HIDE DEF e
  <2>3. Derived(l, p)
    BY <2>1 DEF EvidenceFollowsTheLock
  <2>4. ASSUME scores # None
        PROVE  /\ Derived(scores.lock, scores)
               /\ scores.lock.selection.reference = l.selection.reference
    <3>1. scores \in predictions
      BY <2>4
    <3>2. scores.lock \in locks /\ Derived(scores.lock, scores)
      BY <3>1 DEF EvidenceFollowsTheLock
    <3> QED BY <3>2 DEF OneBaseline
  <2>5. \A k, q : Derived(k, q)' = Derived(k, q)
    BY <2>1 DEF Derived, ContractOf
  <2>6. \A k : Loads(k)' = Loads(k) /\ ContractOf(k)' = ContractOf(k)
    BY DEF Loads, ContractOf
  <2> QED BY <2>1, <2>2, <2>3, <2>4, <2>5, <2>6 DEF EvidenceFollowsTheLock
<1>7. ASSUME NEW l \in locks, NEW d \in Lineages, NEW output \in predictions \cup {None},
             Drift(l, d, output)
      PROVE  EvidenceFollowsTheLock'
  <2>1. /\ profile' = [lock |-> l, lineage |-> d, output |-> output]
        /\ UNCHANGED <<locks, predictions, evaluations, bundles>>
        /\ Contract[d] = ContractOf(l)
        /\ output # None => output.lock = l
    BY <1>7 DEF Drift, Establish, Fits, MadeBy
  <2>2. profile'.lock = l /\ profile'.lineage = d /\ profile'.output = output
    BY <2>1
  <2>3. output # None => Derived(l, output)
    BY <2>1 DEF EvidenceFollowsTheLock
  <2>4. \A k, q : Derived(k, q)' = Derived(k, q)
    BY <2>1 DEF Derived, ContractOf
  <2>5. \A k : Loads(k)' = Loads(k) /\ ContractOf(k)' = ContractOf(k)
    BY DEF Loads, ContractOf
  <2> QED BY <2>1, <2>2, <2>3, <2>4, <2>5 DEF EvidenceFollowsTheLock
<1>8. ASSUME NEW l \in locks, NEW rules, Materialize(l, rules) PROVE EvidenceFollowsTheLock'
  <2>1. /\ bundles' = bundles \cup {[lock |-> l, fusion |-> f] : f \in FusionsOf(l)}
        /\ UNCHANGED <<locks, predictions, evaluations, profile>>
    BY <1>8 DEF Materialize
  <2>2. ASSUME NEW b \in bundles'
        PROVE  \E e \in evaluations : e.lock = b.lock /\ e.fusion = b.fusion
    <3>1. CASE b \in bundles
      BY <3>1 DEF EvidenceFollowsTheLock
    <3>2. CASE \E f \in FusionsOf(l) : b = [lock |-> l, fusion |-> f]
      <4>1. PICK f \in FusionsOf(l) : b.lock = l /\ b.fusion = f
        BY <3>2
      <4> QED BY <4>1 DEF FusionsOf
    <3> QED BY <3>1, <3>2, <2>1
  <2> QED BY <2>1, <2>2 DEF EvidenceFollowsTheLock, Derived, Loads, ContractOf
<1>9. CASE UNCHANGED vars
  BY <1>1, <1>9 DEF vars
<1> QED BY <1>2, <1>3, <1>4, <1>5, <1>6, <1>7, <1>8, <1>9 DEF Next

(* Predictions, evaluations and the reference profile come from the        *)
(* champion they name, over rows of its own feature contract, whichever    *)
(* datasets and configurations the commands are given; the served hybrid   *)
(* is one that champion was evaluated with; and the scores a hybrid was    *)
(* chosen on, though nothing makes them its own champion's, are of a       *)
(* champion that beat the same baseline (ml/predictions.py:1008-1051,      *)
(* ml/cli.py:2198-2338, ml/reference.py:796-805).                          *)
THEOREM EvidenceOfTheChampion == Spec => []EvidenceFollowsTheLock
<1>1. Init => EvidenceFollowsTheLock
  BY DEF Init, EvidenceFollowsTheLock
<1>2. OneBaseline /\ EvidenceFollowsTheLock /\ [Next]_vars => EvidenceFollowsTheLock'
  BY EvidenceStep
<1> QED BY ChampionsShareTheBaseline, <1>1, <1>2, PTL DEF Spec

-----------------------------------------------------------------------------
(* Induction over positions, by the least counterexample.                  *)

(* A nonempty set of subsets of a finite set has a smallest member.        *)
LEMMA FiniteMinimal ==
  ASSUME NEW S, IsFiniteSet(S), NEW Q, Q \subseteq SUBSET S, Q # {}
  PROVE  \E A \in Q : \A B \in Q : B \subseteq A => B = A
  <1>1. IsWellFoundedOn(StrictSubsetOrdering(S), SUBSET S)
    BY FS_StrictSubsetOrderingWellFounded, FS_FiniteSubsetsOfFinite
  <1>2. PICK A \in Q : \A B \in Q : ~ (<<B, A>> \in StrictSubsetOrdering(S))
    BY <1>1, WFMin
  <1>3. QED
    BY <1>2 DEF StrictSubsetOrdering

(* A nonempty set of numbers has a least one.                              *)
LEMMA LeastNatural ==
  ASSUME NEW N \in SUBSET Nat, N # {}
  PROVE  \E m \in N : \A n \in N : m <= n
  <1>1. PICK top \in N : TRUE
    OBVIOUS
  <1> DEFINE below == {n \in N : n <= top}
             Q == {0 .. n : n \in below}
             S == 0 .. top
  <1>2. IsFiniteSet(S)
    BY FS_Interval
  <1>3. Q \subseteq SUBSET S
    OBVIOUS
  <1>4. Q # {}
    BY <1>1
  <1>5. \E A \in Q : \A B \in Q : B \subseteq A => B = A
    <2> HIDE DEF Q, S
    <2>1. QED
      BY <1>2, <1>3, <1>4, FiniteMinimal
  <1>6. PICK m \in below : \A B \in Q : B \subseteq 0 .. m => B = 0 .. m
    BY <1>5
  <1>7. ASSUME NEW n \in N
        PROVE  m <= n
    <2> SUFFICES ASSUME n < m
                 PROVE  FALSE
      OBVIOUS
    <2>1. 0 .. n \in Q
      BY <1>6
    <2>2. m \in 0 .. m /\ m \notin 0 .. n
      BY <1>6
    <2>3. 0 .. n \subseteq 0 .. m /\ 0 .. n # 0 .. m
      BY <1>6, <2>2
    <2>4. QED
      BY <1>6, <2>1, <2>3
  <1>8. QED
    BY <1>6, <1>7

(* What holds of no position yet, and of each when of the one before it,   *)
(* holds of all.                                                           *)
LEMMA PositionByPosition ==
  ASSUME NEW n \in Nat, NEW Good \in SUBSET (0 .. n), 0 \in Good,
         \A t \in 1 .. n : t - 1 \in Good => t \in Good
  PROVE  \A t \in 0 .. n : t \in Good
<1> DEFINE Bad == (0 .. n) \ Good
<1>1. SUFFICES ASSUME Bad # {} PROVE FALSE
  OBVIOUS
<1>2. PICK l \in Bad : \A i \in Bad : l <= i
  <2>1. Bad \in SUBSET Nat
    OBVIOUS
  <2> HIDE DEF Bad
  <2> QED BY <1>1, <2>1, LeastNatural
<1>3. l \in 1 .. n /\ l - 1 \in 0 .. n /\ ~ l <= l - 1
  BY <1>2
<1>4. l - 1 \in Good
  BY <1>2, <1>3
<1> QED BY <1>2, <1>3, <1>4

(* A function given at 0, and at each position from the one before.        *)
Recurs(g, m, base, step) ==
  /\ DOMAIN g = 0 .. m /\ g[0] = base
  /\ \A i \in 1 .. m : g[i] = step[<<i, g[i - 1]>>]

(* There is one.                                                           *)
LEMMA RecursionExists ==
  ASSUME NEW S, NEW base \in S, NEW n \in Nat, NEW step \in [(1 .. n) \X S -> S]
  PROVE  \E g \in [0 .. n -> S] : Recurs(g, n, base, step)
<1> DEFINE Good == {m \in 0 .. n : \E g \in [0 .. m -> S] : Recurs(g, m, base, step)}
<1>1. 0 \in Good
  <2> DEFINE g == [i \in 0 .. 0 |-> base]
  <2>1. g \in [0 .. 0 -> S] /\ Recurs(g, 0, base, step)
    BY DEF Recurs
  <2> HIDE DEF g
  <2> QED BY <2>1
<1>2. ASSUME NEW m \in 1 .. n, m - 1 \in Good PROVE m \in Good
  <2>1. PICK g \in [0 .. m - 1 -> S] : Recurs(g, m - 1, base, step)
    BY <1>2
  <2> DEFINE h == [i \in 0 .. m |-> IF i = m THEN step[<<m, g[m - 1]>>] ELSE g[i]]
  <2>2. m - 1 \in 0 .. m - 1
    BY <1>2
  <2>3. step[<<m, g[m - 1]>>] \in S
    BY <1>2, <2>1, <2>2
  <2>4. ASSUME NEW i \in 0 .. m, i # m PROVE i \in 0 .. m - 1 /\ h[i] = g[i]
    BY <1>2, <2>4
  <2>5. h \in [0 .. m -> S]
    BY <2>1, <2>3, <2>4
  <2>6. h[0] = base
    BY <1>2, <2>1, <2>4 DEF Recurs
  <2>7. ASSUME NEW i \in 1 .. m PROVE h[i] = step[<<i, h[i - 1]>>]
    <3>1. i - 1 \in 0 .. m /\ i - 1 # m /\ i \in 0 .. m
      BY <1>2, <2>7
    <3>2. h[i - 1] = g[i - 1]
      BY <2>4, <3>1
    <3>3. CASE i = m
      BY <3>1, <3>2, <3>3
    <3>4. CASE i # m
      <4>1. i \in 1 .. m - 1
        BY <1>2, <2>7, <3>4
      <4> QED BY <2>1, <2>4, <3>1, <3>2, <3>4, <4>1 DEF Recurs
    <3> QED BY <3>3, <3>4
  <2>8. DOMAIN h = 0 .. m
    OBVIOUS
  <2> HIDE DEF h
  <2>9. Recurs(h, m, base, step)
    BY <2>6, <2>7, <2>8 DEF Recurs
  <2> QED BY <1>2, <2>5, <2>9
<1>3. n \in Good
  <2>1. Good \in SUBSET (0 .. n) /\ n \in 0 .. n
    OBVIOUS
  <2> HIDE DEF Good
  <2> QED BY <1>1, <1>2, <2>1, PositionByPosition
<1> QED BY <1>3

-----------------------------------------------------------------------------
(* What a count adds up, position by position.                             *)
Level == [mal : Nat, ben : Nat]
Sample == Seq(Level)
Class == {"mal", "ben"}
Tally(c, sample, class, from) ==
  /\ c[0] = 0
  /\ \A t \in 1 .. Len(sample) :
       c[t] = c[t - 1] + IF t >= from THEN sample[t][class] ELSE 0

(* Every position holds a number of rows of each class.                    *)
LEMMA RowsAtPosition ==
  ASSUME NEW sample \in Sample, NEW class \in Class, NEW t \in 1 .. Len(sample)
  PROVE  sample[t][class] \in Nat
<1>1. sample[t] \in Level
  BY DEF Sample
<1> QED BY <1>1 DEF Class, Level

(* Count is the last of such a tally.                                      *)
LEMMA CountIs ==
  ASSUME NEW sample \in Sample, NEW class \in Class, NEW from \in Nat
  PROVE  \E c : Tally(c, sample, class, from) /\ Count(sample, class, from) = c[Len(sample)]
<1> DEFINE n == Len(sample)
           step == [u \in (1 .. n) \X Nat |->
                      u[2] + IF u[1] >= from THEN sample[u[1]][class] ELSE 0]
           Keeps(f) == f = [t \in 0 .. Len(sample) |->
                              IF t = 0 THEN 0
                              ELSE f[t - 1] + IF t >= from THEN sample[t][class] ELSE 0]
           count == CHOOSE f : Keeps(f)
<1>1. n \in Nat
  BY DEF Sample
<1>2. step \in [(1 .. n) \X Nat -> Nat]
  <2>1. ASSUME NEW u \in (1 .. n) \X Nat
        PROVE  u[2] + (IF u[1] >= from THEN sample[u[1]][class] ELSE 0) \in Nat
    <3>1. u[1] \in 1 .. n /\ u[2] \in Nat
      OBVIOUS
    <3>2. sample[u[1]][class] \in Nat
      BY <3>1, RowsAtPosition
    <3> QED BY <3>1, <3>2
  <2> QED BY <2>1
<1>3. PICK g \in [0 .. n -> Nat] : Recurs(g, n, 0, step)
  <2> HIDE DEF step, n
  <2> QED BY <1>1, <1>2, RecursionExists
<1>4. \A t \in 1 .. n : g[t] = g[t - 1] + IF t >= from THEN sample[t][class] ELSE 0
  <2> SUFFICES ASSUME NEW t \in 1 .. n
               PROVE  g[t] = g[t - 1] + IF t >= from THEN sample[t][class] ELSE 0
    OBVIOUS
  <2>1. t - 1 \in 0 .. n
    BY <1>1
  <2>2. <<t, g[t - 1]>> \in (1 .. n) \X Nat
    BY <1>3, <2>1
  <2>3. g[t] = step[<<t, g[t - 1]>>]
    BY <1>3 DEF Recurs
  <2> QED BY <2>2, <2>3
<1>5. Keeps(g)
  <2>1. g = [t \in 0 .. n |-> g[t]]
    BY <1>3
  <2>2. \A t \in 0 .. n : t # 0 => t \in 1 .. n
    OBVIOUS
  <2>3. g[0] = 0
    BY <1>3 DEF Recurs
  <2>4. \A t \in 0 .. n :
          g[t] = IF t = 0 THEN 0
                 ELSE g[t - 1] + IF t >= from THEN sample[t][class] ELSE 0
    <3> HIDE DEF n
    <3> QED BY <1>4, <2>2, <2>3
  <2> QED BY <2>1, <2>4
<1>6. Keeps(count)
  <2> HIDE DEF Keeps
  <2> QED BY <1>5
<1>7. Count(sample, class, from) = count[n]
  BY DEF Count
<1>8. Tally(count, sample, class, from)
  <2> HIDE DEF count
  <2>1. 0 \in 0 .. n /\ \A t \in 1 .. n : t \in 0 .. n /\ t # 0
    BY <1>1
  <2>2. count[0] = 0
    BY <1>6, <2>1
  <2>3. \A t \in 1 .. n :
          count[t] = count[t - 1] + IF t >= from THEN sample[t][class] ELSE 0
    BY <1>6, <2>1
  <2> QED BY <2>2, <2>3 DEF Tally
<1> HIDE DEF count
<1> QED BY <1>7, <1>8

(* Two tallies, the second from a later position: never the larger.        *)
LEMMA TalliesCompare ==
  ASSUME NEW sample \in Sample, NEW class \in Class, NEW from \in Nat, NEW later \in Nat,
         from <= later, NEW c, NEW d,
         Tally(c, sample, class, from), Tally(d, sample, class, later)
  PROVE  \A t \in 0 .. Len(sample) : c[t] \in Nat /\ d[t] \in Nat /\ d[t] <= c[t]
<1> DEFINE n == Len(sample)
           Good == {t \in 0 .. n : c[t] \in Nat /\ d[t] \in Nat /\ d[t] <= c[t]}
<1>1. n \in Nat
  BY DEF Sample
<1>2. 0 \in Good
  BY <1>1 DEF Tally
<1>3. ASSUME NEW t \in 1 .. n, t - 1 \in Good PROVE t \in Good
  <2> DEFINE here == sample[t][class]
  <2>1. here \in Nat
    BY RowsAtPosition
  <2>2. /\ c[t] = c[t - 1] + IF t >= from THEN here ELSE 0
        /\ d[t] = d[t - 1] + IF t >= later THEN here ELSE 0
    BY DEF Tally
  <2>3. c[t - 1] \in Nat /\ d[t - 1] \in Nat /\ d[t - 1] <= c[t - 1]
    BY <1>3
  <2>4. t \in 0 .. n /\ t \in Nat
    BY <1>1
  <2> HIDE DEF here, n
  <2> QED BY <2>1, <2>2, <2>3, <2>4
<1>4. Good \in SUBSET (0 .. n)
  OBVIOUS
<1>5. \A t \in 0 .. n : t \in Good
  <2> HIDE DEF Good, n
  <2> QED BY <1>1, <1>2, <1>3, <1>4, PositionByPosition
<1> QED BY <1>5

(* Rows are counted in natural numbers, and a higher threshold flags no    *)
(* more of them.                                                           *)
LEMMA CountsFall ==
  ASSUME NEW sample \in Sample, NEW class \in Class, NEW from \in Nat, NEW later \in Nat,
         from <= later
  PROVE  /\ Count(sample, class, from) \in Nat
         /\ Count(sample, class, later) \in Nat
         /\ Count(sample, class, later) <= Count(sample, class, from)
<1>1. PICK c : Tally(c, sample, class, from) /\ Count(sample, class, from) = c[Len(sample)]
  BY CountIs
<1>2. PICK d : Tally(d, sample, class, later) /\ Count(sample, class, later) = d[Len(sample)]
  BY CountIs
<1>3. \A t \in 0 .. Len(sample) : c[t] \in Nat /\ d[t] \in Nat /\ d[t] <= c[t]
  BY <1>1, <1>2, TalliesCompare
<1>4. Len(sample) \in 0 .. Len(sample)
  BY DEF Sample
<1> QED BY <1>1, <1>2, <1>3, <1>4

-----------------------------------------------------------------------------
(* Rates: dividing keeps an order and what bounds it.                      *)
LEMMA WholeIsPositive == Whole \in Nat /\ Whole > 0
BY DEF Whole

LEMMA TimesMonotone ==
  ASSUME NEW a \in Nat, NEW b \in Nat, a <= b, NEW w \in Nat
  PROVE  a * w <= b * w /\ a * w \in Nat /\ b * w \in Nat
OBVIOUS

LEMMA DivMonotone ==
  ASSUME NEW a \in Nat, NEW b \in Nat, a <= b, NEW d \in Nat, d > 0
  PROVE  a \div d \in Nat /\ a \div d <= b \div d
OBVIOUS

LEMMA DivBounded ==
  ASSUME NEW a \in Nat, NEW d \in Nat, d > 0, NEW m \in Nat, a <= d * m
  PROVE  a \div d \in Nat /\ a \div d <= m
OBVIOUS

(* More of the same rows is no smaller a part of them.                     *)
LEMMA PartsRise ==
  ASSUME NEW a \in Nat, NEW b \in Nat, a <= b, NEW d \in Nat, d > 0
  PROVE  Part(a, d) \in Nat /\ Part(a, d) <= Part(b, d)
BY WholeIsPositive, TimesMonotone, DivMonotone DEF Part

(* What can be a policy.                                                   *)
Allowed(policy) ==
  /\ policy.objective \in Objective
  /\ policy.tie \in {"lowest_threshold", "highest_threshold"}
  /\ policy.grid \in Nat /\ policy.grid >= 2
  /\ policy.maxFpr \in Nat /\ policy.gateFpr \in Nat
  /\ policy.minRecall \in 0 .. Whole /\ policy.gateRecall \in 0 .. Whole
  /\ policy.minMal \in Nat \ {0} /\ policy.minBen \in Nat \ {0}

(* A sample with rows of both classes.                                     *)
Both(sample) == Rows(sample, "mal") > 0 /\ Rows(sample, "ben") > 0

(* Supports are at least one row of each class.                            *)
LEMMA PopulatedHasBoth ==
  ASSUME NEW sample \in Sample, NEW policy, Allowed(policy), Populated(sample, policy)
  PROVE  Both(sample)
<1>1. Rows(sample, "mal") \in Nat /\ Rows(sample, "ben") \in Nat
  BY CountsFall DEF Rows, Class
<1>2. /\ policy.minMal \in Nat /\ policy.minMal > 0
      /\ policy.minBen \in Nat /\ policy.minBen > 0
  BY DEF Allowed
<1> QED BY <1>1, <1>2 DEF Populated, Both

(* The fields of a point are the counts and their parts.                   *)
LEMMA PointFields ==
  ASSUME NEW sample, NEW t
  PROVE  /\ Point(sample, t).threshold = t
         /\ Point(sample, t).tp = Count(sample, "mal", t)
         /\ Point(sample, t).fp = Count(sample, "ben", t)
         /\ Point(sample, t).recall = Part(Count(sample, "mal", t), Rows(sample, "mal"))
         /\ Point(sample, t).fpr = Part(Count(sample, "ben", t), Rows(sample, "ben"))
         /\ Point(sample, t).f1 =
              Part(2 * Count(sample, "mal", t),
                   Count(sample, "mal", t) + Count(sample, "ben", t) + Rows(sample, "mal"))
BY DEF Point, Outcome

Natural(p) == p.tp \in Nat /\ p.recall \in Nat /\ p.fpr \in Nat /\ p.f1 \in Nat

(* They are natural numbers, and those that matter fall as the threshold   *)
(* rises.                                                                  *)
LEMMA PointsFall ==
  ASSUME NEW sample \in Sample, Both(sample), NEW t \in Nat, NEW u \in Nat, t <= u
  PROVE  /\ Natural(Point(sample, t)) /\ Natural(Point(sample, u))
         /\ Point(sample, u).tp <= Point(sample, t).tp
         /\ Point(sample, u).recall <= Point(sample, t).recall
         /\ Point(sample, u).fpr <= Point(sample, t).fpr
<1> DEFINE mal == Rows(sample, "mal")
           ben == Rows(sample, "ben")
           tp(v) == Count(sample, "mal", v)
           fp(v) == Count(sample, "ben", v)
<1>1. mal \in Nat /\ ben \in Nat /\ mal > 0 /\ ben > 0
  BY CountsFall DEF Rows, Class, Both
<1>2. /\ tp(t) \in Nat /\ tp(u) \in Nat /\ tp(u) <= tp(t)
      /\ fp(t) \in Nat /\ fp(u) \in Nat /\ fp(u) <= fp(t)
  BY CountsFall DEF Class
<1> HIDE DEF mal, ben, tp, fp
<1>3. /\ Part(tp(t), mal) \in Nat /\ Part(tp(u), mal) \in Nat
      /\ Part(tp(u), mal) <= Part(tp(t), mal)
      /\ Part(fp(t), ben) \in Nat /\ Part(fp(u), ben) \in Nat
      /\ Part(fp(u), ben) <= Part(fp(t), ben)
  BY <1>1, <1>2, PartsRise
<1>4. ASSUME NEW a \in Nat, NEW b \in Nat PROVE Part(2 * a, a + b + mal) \in Nat
  <2>1. 2 * a \in Nat /\ a + b + mal \in Nat /\ a + b + mal > 0
    BY <1>1
  <2> QED BY <2>1, PartsRise
<1>5. Part(2 * tp(t), tp(t) + fp(t) + mal) \in Nat /\ Part(2 * tp(u), tp(u) + fp(u) + mal) \in Nat
  BY <1>2, <1>4
<1> QED BY <1>2, <1>3, <1>5, PointFields DEF Natural, mal, ben, tp, fp

(* The thresholds looked at are positions, both ends among them.           *)
LEMMA SpacedIsWithin ==
  ASSUME NEW n \in Nat, NEW grid \in Nat, grid >= 2
  PROVE  /\ Spaced(n, grid) \subseteq 1 .. n
         /\ n > 0 => 1 \in Spaced(n, grid) /\ n \in Spaced(n, grid)
<1>1. CASE n <= grid
  BY <1>1 DEF Spaced
<1>2. CASE ~ n <= grid
  <2>1. n - 1 \in Nat /\ grid - 1 \in Nat /\ grid - 1 > 0 /\ n > 0
    BY <1>2
  <2>2. ASSUME NEW i \in 0 .. grid - 1
        PROVE  1 + (i * (n - 1)) \div (grid - 1) \in 1 .. n
    <3>1. i \in Nat /\ i <= grid - 1
      BY <2>1
    <3>2. i * (n - 1) \in Nat /\ i * (n - 1) <= (grid - 1) * (n - 1)
      BY <2>1, <3>1, TimesMonotone
    <3>3. (i * (n - 1)) \div (grid - 1) \in Nat /\ (i * (n - 1)) \div (grid - 1) <= n - 1
      BY <2>1, <3>2, DivBounded
    <3> QED BY <2>1, <3>3
  <2>3. Spaced(n, grid) =
          {1, n} \cup {1 + (i * (n - 1)) \div (grid - 1) : i \in 0 .. grid - 1}
    BY <1>2 DEF Spaced
  <2> QED BY <2>1, <2>2, <2>3
<1> QED BY <1>1, <1>2

(* What a policy values is a whole number.                                 *)
LEMMA ValueIsWhole ==
  ASSUME NEW p, Natural(p), NEW policy, Allowed(policy)
  PROVE  Value(p, policy) \in Int
<1>1. CASE policy.objective = "max_recall_at_max_fpr"
  BY <1>1 DEF Value, Natural
<1>2. CASE policy.objective = "max_f1"
  BY <1>2 DEF Value, Natural
<1>3. CASE policy.objective = "min_fpr_at_min_recall"
  <2>1. Value(p, policy) = Whole - p.fpr
    BY <1>3 DEF Value
  <2> QED BY <2>1, WholeIsPositive DEF Natural
<1> QED BY <1>1, <1>2, <1>3 DEF Allowed, Objective

-----------------------------------------------------------------------------
(* The search: the best point so far, threshold by threshold.              *)
Searched(b, sample, policy) ==
  /\ b[0] = <<>>
  /\ \A t \in 1 .. Len(sample) :
       b[t] = IF /\ t \in Spaced(Len(sample), policy.grid)
                 /\ Displaces(Point(sample, t), b[t - 1], policy)
              THEN <<Point(sample, t)>> ELSE b[t - 1]

(* BestPoint is the last of such a search.                                 *)
LEMMA SearchIs ==
  ASSUME NEW sample \in Sample, NEW policy
  PROVE  \E b : Searched(b, sample, policy) /\ BestPoint(sample, policy) = b[Len(sample)]
<1> DEFINE n == Len(sample)
           looked == Spaced(n, policy.grid)
           S == {<<>>} \cup {<<Point(sample, t)>> : t \in 1 .. n}
           step == [u \in (1 .. n) \X S |->
                      IF u[1] \in looked /\ Displaces(Point(sample, u[1]), u[2], policy)
                      THEN <<Point(sample, u[1])>> ELSE u[2]]
           Keeps(f) == f = [t \in 0 .. Len(sample) |->
                              IF t = 0 THEN <<>>
                              ELSE LET before == f[t - 1] IN
                                   IF /\ t \in Spaced(Len(sample), policy.grid)
                                      /\ Displaces(Point(sample, t), before, policy)
                                   THEN <<Point(sample, t)>> ELSE before]
           best == CHOOSE f : Keeps(f)
<1>1. n \in Nat
  BY DEF Sample
<1>2. step \in [(1 .. n) \X S -> S]
  <2>1. ASSUME NEW u \in (1 .. n) \X S
        PROVE  (IF u[1] \in looked /\ Displaces(Point(sample, u[1]), u[2], policy)
                THEN <<Point(sample, u[1])>> ELSE u[2]) \in S
    <3>1. u[1] \in 1 .. n /\ u[2] \in S
      OBVIOUS
    <3>2. <<Point(sample, u[1])>> \in S
      BY <3>1
    <3> HIDE DEF S, looked
    <3> QED BY <3>1, <3>2
  <2> HIDE DEF S, looked, n
  <2> QED BY <2>1
<1>3. PICK g \in [0 .. n -> S] : Recurs(g, n, <<>>, step)
  <2>1. <<>> \in S
    OBVIOUS
  <2> HIDE DEF step, n, S
  <2> QED BY <1>1, <1>2, <2>1, RecursionExists
<1>4. \A t \in 1 .. n : g[t] = IF t \in looked /\ Displaces(Point(sample, t), g[t - 1], policy)
                               THEN <<Point(sample, t)>> ELSE g[t - 1]
  <2> SUFFICES ASSUME NEW t \in 1 .. n
               PROVE  g[t] = IF t \in looked /\ Displaces(Point(sample, t), g[t - 1], policy)
                             THEN <<Point(sample, t)>> ELSE g[t - 1]
    OBVIOUS
  <2>1. t - 1 \in 0 .. n
    BY <1>1
  <2>2. <<t, g[t - 1]>> \in (1 .. n) \X S
    <3> HIDE DEF S, n
    <3> QED BY <1>3, <2>1
  <2>3. g[t] = step[<<t, g[t - 1]>>]
    <3> HIDE DEF step
    <3> QED BY <1>3 DEF Recurs
  <2> HIDE DEF S, n, looked
  <2> QED BY <2>2, <2>3
<1>5. Keeps(g)
  <2>1. g = [t \in 0 .. n |-> g[t]]
    <3> HIDE DEF S, n
    <3> QED BY <1>3
  <2>2. \A t \in 0 .. n : t # 0 => t \in 1 .. n
    OBVIOUS
  <2>3. g[0] = <<>>
    <3> HIDE DEF step
    <3> QED BY <1>3 DEF Recurs
  <2>4. ASSUME NEW t \in 0 .. n
        PROVE  g[t] = IF t = 0 THEN <<>>
                      ELSE LET before == g[t - 1] IN
                           IF t \in looked /\ Displaces(Point(sample, t), before, policy)
                           THEN <<Point(sample, t)>> ELSE before
    <3> HIDE DEF n, looked, S
    <3> QED BY <1>4, <2>2, <2>3
  <2> QED BY <2>1, <2>4
<1>6. Keeps(best)
  <2> HIDE DEF Keeps
  <2> QED BY <1>5
<1>7. BestPoint(sample, policy) = best[n]
  BY DEF BestPoint
<1>8. Searched(best, sample, policy)
  <2> HIDE DEF best
  <2>1. 0 \in 0 .. n /\ \A t \in 1 .. n : t \in 0 .. n /\ t # 0
    BY <1>1
  <2>2. best[0] = <<>>
    BY <1>6, <2>1
  <2>3. \A t \in 1 .. n :
          best[t] = IF t \in looked /\ Displaces(Point(sample, t), best[t - 1], policy)
                    THEN <<Point(sample, t)>> ELSE best[t - 1]
    BY <1>6, <2>1
  <2> QED BY <2>2, <2>3 DEF Searched
<1> HIDE DEF best
<1> QED BY <1>7, <1>8

(* The feasible thresholds looked at up to t, and what is best of them.    *)
Seen(sample, policy, t) ==
  {u \in Spaced(Len(sample), policy.grid) : u <= t /\ Feasible(Point(sample, u), policy)}
Leads(sample, policy, u, v) ==
  /\ Value(Point(sample, v), policy) <= Value(Point(sample, u), policy)
  /\ Value(Point(sample, v), policy) = Value(Point(sample, u), policy) =>
       IF policy.tie = "highest_threshold" THEN v <= u ELSE v >= u
BestSoFar(b, sample, policy, t) ==
  \/ b = <<>> /\ Seen(sample, policy, t) = {}
  \/ \E u \in Seen(sample, policy, t) :
       b = <<Point(sample, u)>> /\ \A v \in Seen(sample, policy, t) : Leads(sample, policy, u, v)

(* Looking at one more threshold keeps the best.                           *)
LEMMA SearchStep ==
  ASSUME NEW sample \in Sample, Both(sample), NEW policy, Allowed(policy),
         NEW t \in 1 .. Len(sample), NEW b, BestSoFar(b, sample, policy, t - 1)
  PROVE  BestSoFar(IF /\ t \in Spaced(Len(sample), policy.grid)
                      /\ Displaces(Point(sample, t), b, policy)
                   THEN <<Point(sample, t)>> ELSE b,
                   sample, policy, t)
<1> DEFINE n == Len(sample)
           looked == Spaced(n, policy.grid)
           worth(u) == Value(Point(sample, u), policy)
<1>1. n \in Nat /\ t \in Nat /\ looked \subseteq 1 .. n
  <2>1. n \in Nat /\ policy.grid \in Nat /\ policy.grid >= 2
    BY DEF Sample, Allowed
  <2> HIDE DEF n
  <2> QED BY <2>1, SpacedIsWithin
<1>2. ASSUME NEW u \in 1 .. n PROVE worth(u) \in Int
  <2>1. u \in Nat /\ u <= u
    BY <1>1
  <2> QED BY <2>1, PointsFall, ValueIsWhole
<1> HIDE DEF worth
<1>3. CASE ~ (t \in looked /\ Feasible(Point(sample, t), policy))
  <2>1. Seen(sample, policy, t) = Seen(sample, policy, t - 1)
    <3> HIDE DEF n
    <3>1. \A u \in looked : u <= t <=> u <= t - 1 \/ u = t
      BY <1>1
    <3> QED BY <1>3, <3>1 DEF Seen, n
  <2>2. ~ (t \in looked /\ Displaces(Point(sample, t), b, policy))
    BY <1>3 DEF Displaces
  <2> QED BY <2>1, <2>2 DEF BestSoFar
<1>4. CASE t \in looked /\ Feasible(Point(sample, t), policy)
  <2>1. Seen(sample, policy, t) = Seen(sample, policy, t - 1) \cup {t}
    <3> HIDE DEF n
    <3>1. \A u \in looked : u <= t <=> u <= t - 1 \/ u = t
      BY <1>1
    <3>2. t <= t
      BY <1>1
    <3> QED BY <1>4, <3>1, <3>2 DEF Seen, n
  <2>2. ASSUME NEW v \in Seen(sample, policy, t - 1) PROVE v \in 1 .. n /\ v < t
    BY <1>1 DEF Seen
  <2>3. t \in 1 .. n
    OBVIOUS
  <2>4. Leads(sample, policy, t, t)
    BY <1>2, <2>3 DEF Leads, worth
  <2>5. CASE b = <<>>
    <3>1. Seen(sample, policy, t - 1) = {}
      BY <2>5 DEF BestSoFar
    <3>2. Displaces(Point(sample, t), b, policy)
      BY <1>4, <2>5 DEF Displaces
    <3> QED BY <1>4, <2>1, <2>4, <3>1, <3>2 DEF BestSoFar
  <2>6. CASE b # <<>>
    <3>1. PICK u \in Seen(sample, policy, t - 1) :
            /\ b = <<Point(sample, u)>>
            /\ \A v \in Seen(sample, policy, t - 1) : Leads(sample, policy, u, v)
      BY <2>6 DEF BestSoFar
    <3>2. u \in 1 .. n /\ u < t
      BY <2>2
    <3>3. worth(u) \in Int /\ worth(t) \in Int
      BY <1>2, <2>3, <3>2
    <3>4. b[1] = Point(sample, u)
      BY <3>1
    <3>5. Displaces(Point(sample, t), b, policy)
            <=> worth(t) > worth(u) \/ (worth(t) = worth(u) /\ policy.tie = "highest_threshold")
      BY <1>4, <2>6, <3>4 DEF Displaces, worth
    <3>6. CASE Displaces(Point(sample, t), b, policy)
      <4>1. ASSUME NEW v \in Seen(sample, policy, t - 1) PROVE Leads(sample, policy, t, v)
        <5>1. /\ worth(v) <= worth(u)
              /\ worth(v) = worth(u) =>
                   IF policy.tie = "highest_threshold" THEN v <= u ELSE v >= u
          BY <3>1 DEF Leads, worth
        <5>2. worth(v) \in Int /\ v < t /\ v \in Nat
          BY <1>1, <1>2, <2>2
        <5>3. worth(v) <= worth(t)
                /\ (worth(v) = worth(t) => policy.tie = "highest_threshold")
          BY <3>3, <3>5, <3>6, <5>1, <5>2
        <5>4. v <= t
          BY <1>1, <5>2
        <5> QED BY <5>3, <5>4 DEF Leads, worth
      <4> QED BY <1>4, <2>1, <2>4, <3>6, <4>1 DEF BestSoFar
    <3>7. CASE ~ Displaces(Point(sample, t), b, policy)
      <4>1. worth(t) <= worth(u) /\ (worth(t) = worth(u) => policy.tie # "highest_threshold")
        BY <3>3, <3>5, <3>7
      <4>2. t >= u
        BY <1>1, <3>2
      <4>3. Leads(sample, policy, u, t)
        BY <4>1, <4>2 DEF Leads, worth
      <4> QED BY <2>1, <3>1, <3>7, <4>3 DEF BestSoFar
    <3> QED BY <3>6, <3>7
  <2> QED BY <2>5, <2>6
<1> QED BY <1>3, <1>4

(* So the search ends with the best of all it looked at.                   *)
LEMMA SearchFinds ==
  ASSUME NEW sample \in Sample, Both(sample), NEW policy, Allowed(policy)
  PROVE  BestSoFar(BestPoint(sample, policy), sample, policy, Len(sample))
<1> DEFINE n == Len(sample)
<1>1. PICK b : Searched(b, sample, policy) /\ BestPoint(sample, policy) = b[n]
  BY SearchIs
<1> DEFINE Good == {t \in 0 .. n : BestSoFar(b[t], sample, policy, t)}
<1>2. n \in Nat
  BY DEF Sample
<1>3. 0 \in Good
  <2>1. Spaced(n, policy.grid) \subseteq 1 .. n
    <3>1. policy.grid \in Nat /\ policy.grid >= 2
      BY DEF Allowed
    <3> HIDE DEF n
    <3> QED BY <1>2, <3>1, SpacedIsWithin
  <2>2. \A u \in 1 .. n : ~ u <= 0
    BY <1>2
  <2>3. Seen(sample, policy, 0) = {}
    BY <2>1, <2>2 DEF Seen
  <2>4. 0 \in 0 .. n
    BY <1>2
  <2> QED BY <1>1, <2>3, <2>4 DEF Searched, BestSoFar
<1>4. ASSUME NEW t \in 1 .. n, t - 1 \in Good PROVE t \in Good
  <2>1. BestSoFar(b[t - 1], sample, policy, t - 1)
    BY <1>4
  <2>2. b[t] = IF /\ t \in Spaced(Len(sample), policy.grid)
                  /\ Displaces(Point(sample, t), b[t - 1], policy)
               THEN <<Point(sample, t)>> ELSE b[t - 1]
    BY <1>1 DEF Searched
  <2>3. t \in 0 .. n
    BY <1>2
  <2>4. BestSoFar(b[t], sample, policy, t)
    BY <2>1, <2>2, SearchStep
  <2> QED BY <2>3, <2>4
<1>5. Good \in SUBSET (0 .. n)
  OBVIOUS
<1>6. n \in Good
  <2>1. n \in 0 .. n
    BY <1>2
  <2> HIDE DEF Good, n
  <2> QED BY <1>2, <1>3, <1>4, <1>5, <2>1, PositionByPosition
<1> QED BY <1>1, <1>6

-----------------------------------------------------------------------------
(* Where nothing is feasible nothing is found; else the best of them is.   *)
LEMMA FoundOrNothing ==
  ASSUME NEW sample \in Sample, Both(sample), NEW policy, Allowed(policy)
  PROVE  \/ /\ BestPoint(sample, policy) = <<>>
            /\ \A t \in Spaced(Len(sample), policy.grid) : ~ Feasible(Point(sample, t), policy)
         \/ \E u \in Spaced(Len(sample), policy.grid) :
              /\ BestPoint(sample, policy) = <<Point(sample, u)>>
              /\ Feasible(Point(sample, u), policy)
              /\ \A v \in Spaced(Len(sample), policy.grid) :
                   Feasible(Point(sample, v), policy) => Leads(sample, policy, u, v)
<1> DEFINE n == Len(sample)
           looked == Spaced(n, policy.grid)
<1>1. n \in Nat /\ looked \subseteq 1 .. n
  <2>1. n \in Nat /\ policy.grid \in Nat /\ policy.grid >= 2
    BY DEF Sample, Allowed
  <2> HIDE DEF n
  <2> QED BY <2>1, SpacedIsWithin
<1>2. Seen(sample, policy, n) = {u \in looked : Feasible(Point(sample, u), policy)}
  <2> HIDE DEF n
  <2>1. \A u \in looked : u <= n
    BY <1>1
  <2> QED BY <2>1 DEF Seen, n
<1>3. BestSoFar(BestPoint(sample, policy), sample, policy, n)
  BY SearchFinds
<1> QED BY <1>2, <1>3 DEF BestSoFar

(* What is found is the best, by the policy's tie.                         *)
LEMMA TheFoundIsBest ==
  ASSUME NEW sample \in Sample, Both(sample), NEW policy, Allowed(policy)
  PROVE  FoundIsBest(sample, policy)
<1>1. CASE BestPoint(sample, policy) = <<>>
  <2>1. ToSet(BestPoint(sample, policy)) = {}
    BY <1>1 DEF ToSet
  <2> QED BY <2>1 DEF FoundIsBest
<1>2. CASE BestPoint(sample, policy) # <<>>
  <2>1. PICK u \in Spaced(Len(sample), policy.grid) :
          /\ BestPoint(sample, policy) = <<Point(sample, u)>>
          /\ Feasible(Point(sample, u), policy)
          /\ \A v \in Spaced(Len(sample), policy.grid) :
               Feasible(Point(sample, v), policy) => Leads(sample, policy, u, v)
    BY <1>2, FoundOrNothing
  <2>2. ToSet(BestPoint(sample, policy)) = {Point(sample, u)}
    BY <2>1 DEF ToSet
  <2>3. Point(sample, u).threshold = u
    BY PointFields
  <2> QED BY <2>1, <2>2, <2>3 DEF FoundIsBest, Leads
<1> QED BY <1>1, <1>2

(* The highest threshold costs the least and the lowest detects the most,  *)
(* and both are looked at.                                                 *)
LEMMA TheGridHidesNothing ==
  ASSUME NEW sample \in Sample, Both(sample), NEW policy, Allowed(policy)
  PROVE  GridHidesNothing(sample, policy)
<1> DEFINE n == Len(sample)
<1> SUFFICES ASSUME NEW t \in DOMAIN sample, Feasible(Point(sample, t), policy)
             PROVE  BestPoint(sample, policy) # <<>>
  BY DEF GridHidesNothing
<1>1. n \in Nat /\ t \in 1 .. n /\ policy.grid \in Nat /\ policy.grid >= 2
  BY DEF Sample, Allowed
<1>2. 1 \in Spaced(n, policy.grid) /\ n \in Spaced(n, policy.grid)
  <2> HIDE DEF n
  <2> QED BY <1>1, SpacedIsWithin
<1>3. /\ t \in Nat /\ 1 <= t /\ t <= n
  BY <1>1
<1>4. /\ Natural(Point(sample, 1)) /\ Natural(Point(sample, t)) /\ Natural(Point(sample, n))
      /\ Point(sample, t).tp <= Point(sample, 1).tp
      /\ Point(sample, t).recall <= Point(sample, 1).recall
      /\ Point(sample, n).fpr <= Point(sample, t).fpr
  BY <1>1, <1>3, PointsFall
<1>5. Feasible(Point(sample, 1), policy) \/ Feasible(Point(sample, n), policy)
  <2> HIDE DEF n
  <2>1. CASE policy.objective = "max_recall_at_max_fpr"
    <3>1. Point(sample, t).fpr <= policy.maxFpr /\ policy.maxFpr \in Nat
      BY <2>1 DEF Feasible, Allowed
    <3>2. Point(sample, n).fpr <= policy.maxFpr
      BY <1>4, <3>1 DEF Natural
    <3> QED BY <2>1, <3>2 DEF Feasible
  <2>2. CASE policy.objective = "max_f1"
    <3>1. Point(sample, t).tp > 0
      BY <2>2 DEF Feasible
    <3>2. Point(sample, 1).tp > 0
      BY <1>4, <3>1 DEF Natural
    <3> QED BY <2>2, <3>2 DEF Feasible
  <2>3. CASE policy.objective = "min_fpr_at_min_recall"
    <3>1. Point(sample, t).recall >= policy.minRecall /\ policy.minRecall \in 0 .. Whole
      BY <2>3 DEF Feasible, Allowed
    <3>2. Point(sample, 1).recall >= policy.minRecall
      BY <1>4, <3>1, WholeIsPositive DEF Natural
    <3> QED BY <2>3, <3>2 DEF Feasible
  <2> QED BY <2>1, <2>2, <2>3 DEF Allowed, Objective
<1>6. ~ \A u \in Spaced(n, policy.grid) : ~ Feasible(Point(sample, u), policy)
  <2> HIDE DEF n
  <2> QED BY <1>2, <1>5
<1>7. \/ /\ BestPoint(sample, policy) = <<>>
         /\ \A u \in Spaced(n, policy.grid) : ~ Feasible(Point(sample, u), policy)
      \/ \E u : BestPoint(sample, policy) = <<Point(sample, u)>>
  BY FoundOrNothing
<1>8. \A u : <<Point(sample, u)>> # <<>>
  OBVIOUS
<1> HIDE DEF n
<1> QED BY <1>6, <1>7, <1>8

(* Whether a sample has enough benign rows for a ceiling is kept by any    *)
(* higher ceiling.                                                         *)
LEMMA ResolvesRises ==
  ASSUME NEW ben \in Nat, NEW a \in Nat, NEW b \in Nat, a <= b, Resolves(ben, a)
  PROVE  Resolves(ben, b)
<1>1. a * ben <= b * ben /\ a * ben \in Nat /\ b * ben \in Nat
  BY TimesMonotone
<1>2. ben * a = a * ben /\ ben * b = b * ben
  OBVIOUS
<1> QED BY <1>1, <1>2, WholeIsPositive DEF Resolves

(* What was chosen was found, and is a point of the sample.                *)
LEMMA ChosenIsFeasible ==
  ASSUME NEW sample \in Sample, Both(sample), NEW policy, Allowed(policy),
         Chosen(sample, policy) # <<>>
  PROVE  /\ Supported(sample, policy)
         /\ Feasible(Chosen(sample, policy)[1], policy) /\ Natural(Chosen(sample, policy)[1])
<1>1. Supported(sample, policy) /\ Chosen(sample, policy) = BestPoint(sample, policy)
  BY DEF Chosen
<1>2. PICK u \in Spaced(Len(sample), policy.grid) :
        /\ BestPoint(sample, policy) = <<Point(sample, u)>>
        /\ Feasible(Point(sample, u), policy)
  BY <1>1, FoundOrNothing
<1>3. u \in Nat /\ u <= u
  <2>1. Len(sample) \in Nat /\ policy.grid \in Nat /\ policy.grid >= 2
    BY DEF Sample, Allowed
  <2>2. Spaced(Len(sample), policy.grid) \subseteq 1 .. Len(sample)
    BY <2>1, SpacedIsWithin
  <2> QED BY <2>1, <2>2
<1>4. Natural(Point(sample, u))
  BY <1>3, PointsFall
<1> QED BY <1>1, <1>2, <1>4

(* A gate no stricter than the search passes what the search chose.        *)
LEMMA TheGateKeepsItsPromise ==
  ASSUME NEW sample \in Sample, Both(sample), NEW policy, Allowed(policy)
  PROVE  GateKeepsPromise(sample, policy)
<1> SUFFICES ASSUME Coherent(policy), Chosen(sample, policy) # <<>>
             PROVE  /\ policy.objective = "max_recall_at_max_fpr" =>
                         Clears("false_positive_ceiling", sample, sample, policy)
                    /\ policy.objective = "min_fpr_at_min_recall" =>
                         Clears("detection_rate_floor", sample, sample, policy)
  BY DEF GateKeepsPromise
<1> DEFINE p == Chosen(sample, policy)[1]
<1>1. Supported(sample, policy) /\ Feasible(p, policy) /\ Natural(p)
  BY ChosenIsFeasible
<1>2. policy.maxFpr \in Nat /\ policy.gateFpr \in Nat /\ policy.maxFpr <= policy.gateFpr
  BY DEF Allowed, Coherent
<1>3. policy.minRecall \in Nat /\ policy.gateRecall \in Nat
  BY WholeIsPositive DEF Allowed
<1> HIDE DEF p
<1>4. ASSUME policy.objective = "max_recall_at_max_fpr"
      PROVE  Clears("false_positive_ceiling", sample, sample, policy)
  <2>1. p.fpr <= policy.maxFpr
    BY <1>1, <1>4 DEF Feasible
  <2>2. p.fpr <= policy.gateFpr
    BY <1>1, <1>2, <2>1 DEF Natural
  <2>3. Rows(sample, "ben") \in Nat
    BY CountsFall DEF Rows, Class
  <2>4. Resolves(Rows(sample, "ben"), policy.gateFpr)
    BY <1>1, <1>2, <1>4, <2>3, ResolvesRises DEF Supported
  <2> QED BY <2>2, <2>4 DEF Clears, p
<1>5. ASSUME policy.objective = "min_fpr_at_min_recall"
      PROVE  Clears("detection_rate_floor", sample, sample, policy)
  <2>1. p.recall >= policy.minRecall
    BY <1>1, <1>5 DEF Feasible
  <2>2. policy.gateRecall <= policy.minRecall
    BY <1>5 DEF Coherent
  <2>3. p.recall >= policy.gateRecall
    BY <1>1, <1>3, <2>1, <2>2 DEF Natural
  <2> QED BY <2>3 DEF Clears, p
<1> QED BY <1>4, <1>5

(* A threshold within both limits is feasible, so that the best of them    *)
(* is within both too.                                                     *)
LEMMA TheRefusalIsFinal ==
  ASSUME NEW sample \in Sample, Both(sample), NEW policy, Allowed(policy)
  PROVE  RefusalIsFinal(sample, policy)
<1> DEFINE n == Len(sample)
           looked == Spaced(n, policy.grid)
           within(p) == p.fpr <= policy.gateFpr /\ p.recall >= policy.gateRecall
<1> SUFFICES ASSUME policy.gateFpr = policy.maxFpr, policy.gateRecall = policy.minRecall,
                    policy.objective # "max_f1", n <= policy.grid,
                    Populated(sample, policy), Resolves(Rows(sample, "ben"), policy.gateFpr),
                    NEW t \in DOMAIN sample, within(Point(sample, t))
             PROVE  /\ Clears("false_positive_ceiling", sample, sample, policy)
                    /\ Clears("detection_rate_floor", sample, sample, policy)
  BY DEF RefusalIsFinal
<1>1. n \in Nat /\ t \in 1 .. n /\ looked = 1 .. n
  BY DEF Sample, Spaced
<1>2. Chosen(sample, policy) = BestPoint(sample, policy)
  BY DEF Chosen, Supported
<1>3. policy.objective \in {"max_recall_at_max_fpr", "min_fpr_at_min_recall"}
  BY DEF Allowed, Objective
<1>4. Feasible(Point(sample, t), policy)
  BY <1>3 DEF Feasible
<1>5. PICK u \in looked :
        /\ BestPoint(sample, policy) = <<Point(sample, u)>>
        /\ Feasible(Point(sample, u), policy)
        /\ Leads(sample, policy, u, t)
  <2> HIDE DEF n
  <2> QED BY <1>1, <1>4, FoundOrNothing DEF n
<1>6. Natural(Point(sample, t)) /\ Natural(Point(sample, u))
  <2>1. t \in Nat /\ u \in Nat /\ t <= t /\ u <= u
    BY <1>1
  <2> QED BY <2>1, PointsFall
<1>7. policy.gateFpr \in Nat /\ policy.gateRecall \in Nat
  BY WholeIsPositive DEF Allowed
<1>8. Value(Point(sample, t), policy) <= Value(Point(sample, u), policy)
  BY <1>5 DEF Leads
<1>9. within(Point(sample, u))
  <2>1. CASE policy.objective = "max_recall_at_max_fpr"
    <3>1. Point(sample, u).fpr <= policy.gateFpr
      BY <1>5, <2>1 DEF Feasible
    <3>2. Point(sample, t).recall <= Point(sample, u).recall
      BY <1>8, <2>1 DEF Value
    <3> QED BY <1>6, <1>7, <3>1, <3>2 DEF Natural
  <2>2. CASE policy.objective = "min_fpr_at_min_recall"
    <3>1. Point(sample, u).recall >= policy.gateRecall
      BY <1>5, <2>2 DEF Feasible
    <3>2. Whole - Point(sample, t).fpr <= Whole - Point(sample, u).fpr
      BY <1>8, <2>2 DEF Value
    <3> QED BY <1>6, <1>7, <3>1, <3>2, WholeIsPositive DEF Natural
  <2> QED BY <1>3, <2>1, <2>2
<1>10. Chosen(sample, policy) # <<>> /\ Chosen(sample, policy)[1] = Point(sample, u)
  BY <1>2, <1>5
<1> QED BY <1>9, <1>10 DEF Clears

(* Every sample and every policy, whatever the grid and the limits.        *)
LEMMA NothingUnjustified == Unjustified = {}
<1> SUFFICES ASSUME NEW w \in Samples \X Policies, Populated(w[1], w[2])
             PROVE  /\ GridHidesNothing(w[1], w[2])
                    /\ FoundIsBest(w[1], w[2])
                    /\ GateKeepsPromise(w[1], w[2])
                    /\ RefusalIsFinal(w[1], w[2])
  BY DEF Unjustified
<1>1. w[1] \in Sample /\ Allowed(w[2])
  BY PoliciesAreValid DEF Sample, Level, Allowed
<1>2. Both(w[1])
  BY <1>1, PopulatedHasBoth
<1> QED BY <1>1, <1>2, TheGridHidesNothing, TheFoundIsBest, TheGateKeepsItsPromise,
           TheRefusalIsFinal

(* Every run is graded at an operating point that a search of the whole    *)
(* sample justifies, for any samples, policies and grids: the spacing of   *)
(* the grid loses no feasible threshold, ties go where the policy says,    *)
(* the gates keep what the search promised, and what they refuse no other  *)
(* threshold would have saved (ml/thresholds.py:243-269, 737-794).         *)
THEOREM PointsJustified == Spec => []PointsAreBest
<1>1. PointsAreBest
  BY NothingUnjustified DEF PointsAreBest
<1> QED BY <1>1, PTL
=============================================================================
