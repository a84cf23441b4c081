---------------------------- MODULE Replay_proofs ----------------------------
(***************************************************************************)
(* Proofs about Replay and ReplayConsole, for every set of runs, callers   *)
(* and scenarios, every number of events and every setting of the limits:  *)
(* what the service promises, and that what a dashboard session and a      *)
(* client of the API hold of a run's timeline is the timeline's own.       *)
(***************************************************************************)
EXTENDS ReplayConsole, FiniteSetTheorems, WellFoundedInduction, TLAPS

-----------------------------------------------------------------------------
(* Least elements.  A set of naturals that is not empty has a least one,   *)
(* which is the induction these proofs need.                               *)

LEMMA FiniteMinimal ==
  ASSUME NEW S, IsFiniteSet(S), NEW Q, Q \subseteq SUBSET S, Q # {}
  PROVE  \E A \in Q : \A B \in Q : B \subseteq A => B = A
  <1>1. IsWellFoundedOn(StrictSubsetOrdering(S), SUBSET S)
    BY FS_StrictSubsetOrderingWellFounded, FS_FiniteSubsetsOfFinite
  <1>2. PICK A \in Q : \A B \in Q : ~ (<<B, A>> \in StrictSubsetOrdering(S))
    BY <1>1, WFMin
  <1>3. QED
    BY <1>2 DEF StrictSubsetOrdering

LEMMA LeastNatural ==
  ASSUME NEW N \in SUBSET Nat, N # {}
  PROVE  \E m \in N : \A n \in N : m <= n
  <1>1. PICK top \in N : TRUE
    OBVIOUS
  <1> DEFINE below == {n \in N : n <= top}
             Q == {0 .. n : n \in below}
             S == 0 .. top
  <1>2. IsFiniteSet(S)
    BY FS_Interval
  <1>3. Q \subseteq SUBSET S
    OBVIOUS
  <1>4. Q # {}
    BY <1>1
  <1>5. \E A \in Q : \A B \in Q : B \subseteq A => B = A
    <2> HIDE DEF Q, S
    <2>1. QED
      BY <1>2, <1>3, <1>4, FiniteMinimal
  <1>6. PICK m \in below : \A B \in Q : B \subseteq 0 .. m => B = 0 .. m
    BY <1>5
  <1>7. ASSUME NEW n \in N
        PROVE  m <= n
    <2> SUFFICES ASSUME n < m
                 PROVE  FALSE
      OBVIOUS
    <2>1. 0 .. n \in Q
      BY <1>6
    <2>2. m \in 0 .. m /\ m \notin 0 .. n
      BY <1>6
    <2>3. 0 .. n \subseteq 0 .. m /\ 0 .. n # 0 .. m
      BY <1>6, <2>2
    <2>4. QED
      BY <1>6, <2>1, <2>3
  <1>8. QED
    BY <1>6, <1>7

-----------------------------------------------------------------------------
(* Settling a run.                                                         *)

(* A settled store is a store, and only the addressed run may differ.      *)
LEMMA SettledType ==
  ASSUME NEW rs \in [RunId -> Run], NEW r \in RunId,
         NEW target \in Terminal, NEW why \in Reason
  PROVE  /\ Settled(rs, r, target, why) \in [RunId -> Run]
         /\ \A q \in RunId \ {r} : Settled(rs, r, target, why)[q] = rs[q]
  BY DEF Settled, Run, Held, Terminal

(* Settling changes no run but a held one that has not ended; and it keeps *)
(* the records, the scenario and the stop flag.                            *)
LEMMA SettledKeeps ==
  ASSUME NEW rs \in [RunId -> Run], NEW r \in RunId,
         NEW target \in Terminal, NEW why \in Reason
  PROVE  /\ rs[r].state \in Terminal \cup {"unminted", "evicted"}
              => Settled(rs, r, target, why) = rs
         /\ Settled(rs, r, target, why)[r].records = rs[r].records
         /\ Settled(rs, r, target, why)[r].stopRequested = rs[r].stopRequested
         /\ Settled(rs, r, target, why)[r].scenario = rs[r].scenario
         /\ Settled(rs, r, target, why)[r].state \in {rs[r].state, target}
  BY DEF Settled, Run, Held, Terminal, AllowedTransitions

(* A running run can be settled in every terminal state, with the reason   *)
(* that belongs to it.                                                     *)
LEMMA SettledEnds ==
  ASSUME NEW rs \in [RunId -> Run], NEW r \in RunId, rs[r].state = "running",
         NEW target \in Terminal, NEW why \in Reason,
         (target = "failed") <=> (why # "none")
  PROVE  Settled(rs, r, target, why)[r].state = target
  BY DEF Settled, Run, Held, Terminal, AllowedTransitions

-----------------------------------------------------------------------------
(* The shape of a task's step.  However it comes about, the task either    *)
(* leaves the loop and settles its run, or suspends again without touching *)
(* the store any further.                                                  *)

Leaves(r, i, rs) ==
  /\ \E target \in Terminal, why \in Reason :
       /\ (target = "failed") <=> (why # "none")
       /\ target = "completed" => i = EventCount[runs[r].scenario]
       /\ runs' = Settled(rs, r, target, why)
  /\ task' = [task EXCEPT ![r] = "done"]
  /\ index' = [index EXCEPT ![r] = 0]
  /\ overdue' = [overdue EXCEPT ![r] = FALSE]

Suspends(r, i, rs) ==
  /\ runs' = rs
  /\ \E at \in {"pausing", "scoring"} :
       /\ task' = [task EXCEPT ![r] = at]
       /\ at = "scoring" => ~ rs[r].stopRequested
  /\ index' = [index EXCEPT ![r] = i]
  /\ overdue' = overdue

(* The store as the step finds it, with the record it has just appended.   *)
Recorded(r) == [runs EXCEPT ![r].records = Append(@, index[r] + 1)]

LEMMA AfterDelayShape ==
  ASSUME NEW r \in RunId, NEW i \in Nat, NEW rs \in [RunId -> Run],
         AfterDelay(r, i, rs)
  PROVE  Leaves(r, i, rs) \/ Suspends(r, i, rs)
  BY DEF AfterDelay, Exit, Suspend, Stopped, Terminal, Reason, Leaves, Suspends

LEMMA TurnShape ==
  ASSUME NEW r \in RunId, NEW i \in Nat, NEW rs \in [RunId -> Run],
         Turn(r, i, rs)
  PROVE  \/ Leaves(r, i, rs)
         \/ Suspends(r, i, rs) /\ i # EventCount[runs[r].scenario]
  BY DEF Turn, AfterDelay, Exit, Suspend, Stopped, Terminal, Reason, Leaves,
         Suspends

LEMMA RecordedType ==
  ASSUME TypeOK, NEW r \in RunId
  PROVE  /\ Recorded(r) \in [RunId -> Run]
         /\ \A q \in RunId \ {r} : Recorded(r)[q] = runs[q]
         /\ Recorded(r)[r] = [runs[r] EXCEPT !.records = Append(@, index[r] + 1)]
  <1>1. index[r] + 1 \in Nat /\ runs[r] \in Run
    BY DEF TypeOK
  <1>2. Append(runs[r].records, index[r] + 1) \in Seq(Nat)
    BY <1>1 DEF Run
  <1>3. [runs[r] EXCEPT !.records = Append(@, index[r] + 1)] \in Run
    BY <1>1, <1>2 DEF Run
  <1>4. QED
    BY <1>3 DEF Recorded, TypeOK

(* Every step of a task, seen from the store: it finds the store with or   *)
(* without its new record, and leaves, suspends, or quits a run that was   *)
(* settled by somebody else.                                               *)
LEMMA RunStepShape ==
  ASSUME TypeOK, NEW r \in RunId, RunStep(r)
  PROVE  /\ \/ task[r] = "ready" /\ Leaves(r, 0, runs)
            \/ task[r] = "ready" /\ Suspends(r, 0, runs)
                 /\ 0 # EventCount[runs[r].scenario]
            \/ task[r] = "pausing" /\ Leaves(r, index[r], runs)
            \/ task[r] = "pausing" /\ Suspends(r, index[r], runs)
            \/ /\ task[r] = "scoring" /\ r \in Active
               /\ Leaves(r, index[r] + 1, Recorded(r))
            \/ /\ task[r] = "scoring" /\ r \in Active
               /\ Suspends(r, index[r] + 1, Recorded(r))
               /\ index[r] + 1 # EventCount[runs[r].scenario]
            \/ /\ task[r] = "scoring"
               /\ \E why \in Reason \ {"none"} :
                    Exit(r, Settled(runs, r, "failed", why))
            \/ /\ r \notin Active \/ task[r] = "cancelling"
               /\ Exit(r, runs)
         /\ workers' \in SUBSET RunId
         /\ task[r] \in Live
         /\ UNCHANGED <<born, stops, calls, app>>
  <1>0. runs \in [RunId -> Run] /\ index[r] \in Nat /\ 0 \in Nat
    BY DEF TypeOK
  <1>1. CASE TaskBegins(r)
    BY <1>0, <1>1, TurnShape DEF TaskBegins, Dispatch, Live, TypeOK
  <1>2. CASE PauseEnds(r)
    <2>1. CASE Exit(r, Stopped(runs, r))
      <3>1. Leaves(r, index[r], runs)
        BY <2>1 DEF Exit, Stopped, Leaves, Terminal, Reason
      <3>2. QED
        BY <1>2, <3>1 DEF PauseEnds, Dispatch, Live, TypeOK
    <2>2. CASE AfterDelay(r, index[r], runs)
      BY <1>0, <1>2, <2>2, AfterDelayShape DEF PauseEnds, Dispatch, Live, TypeOK
    <2>3. QED
      BY <1>2, <2>1, <2>2 DEF PauseEnds
  <1>3. CASE DetectorReturns(r)
    <2>0. /\ task[r] = "scoring"
          /\ workers' \in SUBSET RunId
          /\ UNCHANGED <<born, stops, calls, app>>
      BY <1>3 DEF DetectorReturns, Dispatch, TypeOK
    <2>1. CASE runs[r].state \notin {"created", "running"} /\ Exit(r, runs)
      BY <2>0, <2>1 DEF Active, Live
    <2>2. CASE Exit(r, Settled(runs, r, "failed", "replay_record_limit_reached"))
      BY <2>0, <2>2 DEF Reason, Live
    <2>3. CASE Exit(r, Settled(runs, r, "failed", "replay_detection_failed"))
      BY <2>0, <2>3 DEF Reason, Live
    <2>4. CASE r \in Active /\ Turn(r, index[r] + 1, Recorded(r))
      <3>0. index[r] + 1 \in Nat
        BY <1>0
      <3>1. Recorded(r) \in [RunId -> Run] /\ index[r] + 1 \in Nat
        BY <3>0, RecordedType, Zenon
      <3>2. \/ Leaves(r, index[r] + 1, Recorded(r))
            \/ /\ Suspends(r, index[r] + 1, Recorded(r))
               /\ index[r] + 1 # EventCount[runs[r].scenario]
        BY <2>4, <3>1, TurnShape, Zenon
      <3>3. task[r] \in Live
        BY <2>0 DEF Live
      <3>4. QED
        BY <2>0, <2>4, <3>2, <3>3
    <2>5. QED
      BY <1>3, <2>1, <2>2, <2>3, <2>4 DEF DetectorReturns, Scored, Recorded
  <1>4. CASE CancelDelivered(r)
    BY <1>4 DEF CancelDelivered, Live, TypeOK
  <1>5. QED
    BY <1>1, <1>2, <1>3, <1>4 DEF RunStep

-----------------------------------------------------------------------------
(* Type correctness.                                                       *)

LEMMA NoRunType ==
  \A s \in {"unminted", "evicted", "running"} : NoRun(s) \in Run
  <1>1. (CHOOSE x \in Scenario : TRUE) \in Scenario
    BY LimitsAssumption
  <1>2. QED
    BY <1>1 DEF NoRun, Run, Held, Terminal, Reason

LEMMA LeavesType ==
  ASSUME TypeOK, NEW r \in RunId, NEW i \in Nat, NEW rs \in [RunId -> Run],
         Leaves(r, i, rs)
  PROVE  /\ runs' \in [RunId -> Run]
         /\ task' \in [RunId -> Live \cup {"none", "done"}]
         /\ index' \in [RunId -> Nat]
         /\ overdue' \in [RunId -> BOOLEAN]
  <1>1. runs' \in [RunId -> Run]
    BY SettledType DEF Leaves
  <1>2. task' \in [RunId -> Live \cup {"none", "done"}]
    BY DEF Leaves, TypeOK
  <1>3. QED
    BY <1>1, <1>2 DEF Leaves, TypeOK

LEMMA SuspendsType ==
  ASSUME TypeOK, NEW r \in RunId, NEW i \in Nat, NEW rs \in [RunId -> Run],
         Suspends(r, i, rs)
  PROVE  /\ runs' \in [RunId -> Run]
         /\ task' \in [RunId -> Live \cup {"none", "done"}]
         /\ index' \in [RunId -> Nat]
         /\ overdue' \in [RunId -> BOOLEAN]
  <1>1. task' \in [RunId -> Live \cup {"none", "done"}]
    BY DEF Suspends, TypeOK, Live
  <1>2. QED
    BY <1>1 DEF Suspends, TypeOK

LEMMA RunStepType ==
  ASSUME TypeOK, NEW r \in RunId, RunStep(r)
  PROVE  TypeOK'
  <1> DEFINE typed == /\ runs' \in [RunId -> Run]
                      /\ task' \in [RunId -> Live \cup {"none", "done"}]
                      /\ index' \in [RunId -> Nat]
                      /\ overdue' \in [RunId -> BOOLEAN]
  <1>0. /\ runs \in [RunId -> Run]
        /\ 0 \in Nat /\ index[r] \in Nat /\ index[r] + 1 \in Nat
    BY DEF TypeOK
  <1>1. Recorded(r) \in [RunId -> Run]
    BY RecordedType
  <1>2. ASSUME NEW rs \in {runs, Recorded(r)}, NEW i \in {0, index[r], index[r] + 1},
               Leaves(r, i, rs) \/ Suspends(r, i, rs)
        PROVE  typed
    <2>1. rs \in [RunId -> Run] /\ i \in Nat
      BY <1>0, <1>1
    <2>2. QED
      BY <1>2, <2>1, LeavesType, SuspendsType
  <1>3. ASSUME NEW why \in Reason, Exit(r, Settled(runs, r, "failed", why))
        PROVE  typed
    <2>1. "failed" \in Terminal
      BY DEF Terminal
    <2>2. runs' \in [RunId -> Run]
      BY <1>0, <1>3, <2>1, SettledType DEF Exit
    <2>3. QED
      BY <1>3, <2>2 DEF Exit, TypeOK
  <1>4. ASSUME Exit(r, runs)
        PROVE  typed
    BY <1>4 DEF Exit, TypeOK
  <1>5. typed
    <2> HIDE DEF typed
    <2>1. QED
      BY <1>2, <1>3, <1>4, RunStepShape
  <1>6. workers' \in SUBSET RunId /\ UNCHANGED <<born, stops, calls, app>>
    BY RunStepShape
  <1>7. QED
    BY <1>5, <1>6 DEF TypeOK

LEMMA FlaggedType ==
  ASSUME TypeOK, NEW r \in RunId
  PROVE  [runs EXCEPT ![r].stopRequested = @ \/ r \in Active] \in [RunId -> Run]
  <1>1. runs[r] \in Run
    BY DEF TypeOK
  <1>2. (runs[r].stopRequested \/ r \in Active) \in BOOLEAN
    OBVIOUS
  <1>3. [runs[r] EXCEPT !.stopRequested = runs[r].stopRequested \/ r \in Active]
          \in Run
    BY <1>1, <1>2 DEF Run
  <1>4. QED
    BY <1>3 DEF TypeOK

LEMMA AnswerType ==
  ASSUME TypeOK, NEW r \in RunId, NEW c \in Caller, NEW rs \in [RunId -> Run],
         Answer(c, r, rs)
  PROVE  runs' \in [RunId -> Run] /\ calls' \in [Caller -> Call]
  <1> DEFINE done == Stopped(rs, r)
             a == [pc |-> "answered", run |-> r, found |-> rs[r].state \in Held,
                   state |-> done[r].state, emitted |-> Len(rs[r].records)]
  <1>1. "stopped" \in Terminal /\ "none" \in Reason
    BY DEF Terminal, Reason
  <1>2. done \in [RunId -> Run]
    BY <1>1, SettledType DEF Stopped
  <1>3. done[r].state \in Held \cup {"unminted", "evicted"}
    BY <1>2 DEF Run
  <1>4. Len(rs[r].records) \in Nat
    BY DEF Run
  <1>5. (rs[r].state \in Held) \in BOOLEAN
    OBVIOUS
  <1>6. calls' = [calls EXCEPT ![c] = a] /\ runs' = done
    BY DEF Answer
  <1> HIDE DEF done
  <1>7. a \in Call
    BY <1>3, <1>4, <1>5 DEF Call
  <1> HIDE DEF a
  <1>8. QED
    BY <1>2, <1>6, <1>7 DEF TypeOK

LEMMA TypeStep == TypeOK /\ [Next]_vars => TypeOK'
  <1> SUFFICES ASSUME TypeOK, [Next]_vars
               PROVE  TypeOK'
    OBVIOUS
  <1>1. ASSUME NEW r \in RunId, NEW s \in Scenario, NEW p \in Pace,
               StartRun(r, s, p)
        PROVE  TypeOK'
    <2>1. [NoRun("running") EXCEPT !.scenario = s, !.paced = p] \in Run
      BY NoRunType, LimitsAssumption DEF Run
    <2>2. NoRun("evicted") \in Run
      BY NoRunType
    <2>3. runs' \in [RunId -> Run]
      BY <1>1, <2>1, <2>2 DEF StartRun, TypeOK
    <2>4. Cardinality({q \in RunId : runs[q].state # "unminted"}) \in Nat
      BY LimitsAssumption, FS_Subset, FS_CardinalityType
    <2>5. born' \in [RunId -> Nat]
      BY <1>1, <2>4 DEF StartRun, TypeOK
    <2>6. task' \in [RunId -> Live \cup {"none", "done"}]
      BY <1>1 DEF StartRun, TypeOK, Live
    <2>7. stops' \in [RunId -> {"absent", "clear", "set"}]
      BY <1>1 DEF StartRun, TypeOK
    <2>8. QED
      BY <1>1, <2>3, <2>5, <2>6, <2>7 DEF StartRun, TypeOK
  <1>2. ASSUME NEW r \in RunId, RunStep(r)
        PROVE  TypeOK'
    BY <1>2, RunStepType
  <1>3. ASSUME NEW r \in RunId, DeadlinePasses(r)
        PROVE  TypeOK'
    BY <1>3 DEF DeadlinePasses, TypeOK
  <1>4. ASSUME NEW r \in RunId, AbandonedReturns(r)
        PROVE  TypeOK'
    BY <1>4 DEF AbandonedReturns, TypeOK
  <1>5. ASSUME NEW c \in Caller, NEW r \in RunId, StopArrives(c, r)
        PROVE  TypeOK'
    <2> DEFINE flagged == [runs EXCEPT ![r].stopRequested = @ \/ r \in Active]
    <2>1. flagged \in [RunId -> Run]
      BY FlaggedType
    <2>2. \/ runs' = flagged /\ calls' = [calls EXCEPT ![c] = [pc |-> "waiting", run |-> r]]
          \/ Answer(c, r, flagged)
      BY <1>5 DEF StopArrives
    <2>3. [pc |-> "waiting", run |-> r] \in Call
      BY DEF Call
    <2>4. stops' \in [RunId -> {"absent", "clear", "set"}]
      BY <1>5 DEF StopArrives, TypeOK
    <2> HIDE DEF flagged
    <2>5. runs' \in [RunId -> Run] /\ calls' \in [Caller -> Call]
      BY <2>1, <2>2, <2>3, AnswerType DEF TypeOK
    <2>6. QED
      BY <1>5, <2>4, <2>5 DEF StopArrives, TypeOK
  <1>6. ASSUME NEW c \in Caller, CallStep(c) \/ StopInterrupted(c)
        PROVE  TypeOK'
    <2>1. calls[c].pc = "waiting" /\ Answer(c, calls[c].run, runs)
      BY <1>6 DEF CallStep, StopResumes, StopTimesOut, StopInterrupted
    <2>2. calls[c].run \in RunId
      BY <2>1 DEF TypeOK, Call
    <2>3. runs' \in [RunId -> Run] /\ calls' \in [Caller -> Call]
      BY <2>1, <2>2, AnswerType DEF TypeOK
    <2>4. task' \in [RunId -> Live \cup {"none", "done"}]
      BY <1>6, <2>2 DEF CallStep, StopResumes, StopTimesOut, StopInterrupted,
                        TypeOK, Live
    <2>5. UNCHANGED <<born, index, overdue, stops, workers, app>>
      BY <1>6 DEF CallStep, StopResumes, StopTimesOut, StopInterrupted
    <2>6. QED
      BY <2>3, <2>4, <2>5 DEF TypeOK
  <1>7. CASE ShutdownBegins
    BY <1>7 DEF ShutdownBegins, TypeOK, Live
  <1>8. CASE ShutdownEnds
    <2>1. \A r \in RunId : Stopped(runs, r) \in [RunId -> Run]
      BY SettledType DEF Stopped, TypeOK, Terminal, Reason
    <2>2. runs' \in [RunId -> Run]
      BY <1>8, <2>1 DEF ShutdownEnds, TypeOK
    <2>3. QED
      BY <1>8, <2>2 DEF ShutdownEnds, TypeOK
  <1>9. CASE UNCHANGED vars
    BY <1>9 DEF vars, TypeOK
  <1>10. QED
    BY <1>1, <1>2, <1>3, <1>4, <1>5, <1>6, <1>7, <1>8, <1>9 DEF Next

(* Every variable keeps its type, for every instance of the service.       *)
THEOREM TypeCorrect == Spec => []TypeOK
  <1>1. Init => TypeOK
    <2> SUFFICES ASSUME Init
                 PROVE  TypeOK
      OBVIOUS
    <2>1. NoRun("unminted") \in Run
      BY NoRunType
    <2>2. [pc |-> "idle"] \in Call
      BY DEF Call
    <2>3. QED
      BY <2>1, <2>2 DEF Init, TypeOK
  <1>2. QED
    BY <1>1, TypeStep, PTL DEF Spec

-----------------------------------------------------------------------------
(* The inductive invariant.  "created" never outlives the handler that     *)
(* made it; a task knows where it is in its scenario; an answered call     *)
(* names a run that was once admitted.                                     *)

NoCreated == \A r \in RunId : runs[r].state # "created"

Total(r) == EventCount[runs[r].scenario]

Positions ==
  /\ \A r \in RunId : Len(runs[r].records) <= Total(r)
  /\ \A r \in Active :
       /\ task[r] = "ready" => runs[r].records = <<>>
       /\ task[r] \in {"pausing", "scoring"} =>
            index[r] = Len(runs[r].records) /\ index[r] < Total(r)

CallsKnown ==
  \A c \in Caller :
    calls[c].pc # "idle" => runs[calls[c].run].state # "unminted"

(* What is owed to a run: stopped is stopped on request, and late is not   *)
(* asked to stop; until then its event is set by a request or by shutdown. *)
Owed(q) ==
  /\ runs[q].state = "stopped" /\ ~ runs[q].stopRequested => app = "down"
  /\ runs[q].reason = "replay_deadline_exceeded" => ~ runs[q].stopRequested
  /\ q \in Active => runs[q].reason = "none"
  /\ q \in Active /\ stops[q] = "set" /\ app = "serving" =>
       runs[q].stopRequested

TasksQuiet ==
  app # "serving" =>
    \A r \in RunId : task[r] \notin {"ready", "pausing", "scoring"}

CallersAsked ==
  \A c \in Caller : calls[c].pc = "waiting" /\ calls[c].run \in Active =>
    runs[calls[c].run].stopRequested

Asked == TasksQuiet /\ CallersAsked /\ \A q \in RunId : Owed(q)

IInv ==
  /\ TypeOK /\ NoCreated /\ NoneUndriven /\ Positions
  /\ CallsKnown /\ StopHonest /\ Bounded /\ Asked

LEMMA TotalType ==
  ASSUME TypeOK, NEW r \in RunId
  PROVE  Total(r) \in Nat \ {0} /\ Len(runs[r].records) \in Nat
  BY LimitsAssumption DEF TypeOK, Run, Total

(* What a task's step does to its own run while that run is going.         *)
Advances(r) ==
  /\ runs'[r].scenario = runs[r].scenario
  /\ runs'[r].stopRequested = runs[r].stopRequested
  /\ runs'[r].records \in
       {runs[r].records, Append(runs[r].records, Len(runs[r].records) + 1)}
  /\ Len(runs'[r].records) <= Total(r)
  /\ \/ /\ runs'[r].state \in Terminal
        /\ runs'[r].state = "completed" => Len(runs'[r].records) = Total(r)
     \/ /\ runs'[r].state = "running"
        /\ task'[r] \in {"pausing", "scoring"}
        /\ index'[r] = Len(runs'[r].records)
        /\ index'[r] < Total(r)
     \/ /\ task[r] = "cancelling"
        /\ runs'[r] = runs[r]
        /\ task'[r] = "done"

LEMMA LeavesEffect ==
  ASSUME TypeOK, NEW r \in RunId, NEW i \in Nat, NEW rs \in [RunId -> Run],
         Leaves(r, i, rs), rs[r].state = "running"
  PROVE  /\ runs'[r].state \in Terminal
         /\ runs'[r].state = "completed" => i = Total(r)
         /\ runs'[r].records = rs[r].records
         /\ runs'[r].scenario = rs[r].scenario
         /\ runs'[r].stopRequested = rs[r].stopRequested
  <1>1. PICK target \in Terminal, why \in Reason :
               /\ (target = "failed") <=> (why # "none")
               /\ target = "completed" => i = EventCount[runs[r].scenario]
               /\ runs' = Settled(rs, r, target, why)
    BY DEF Leaves
  <1>2. runs'[r].state = target
    BY <1>1, SettledEnds
  <1>3. QED
    BY <1>1, <1>2, SettledKeeps DEF Total

LEMMA SuspendsEffect ==
  ASSUME TypeOK, NEW r \in RunId, NEW i \in Nat, NEW rs \in [RunId -> Run],
         Suspends(r, i, rs)
  PROVE  /\ runs' = rs
         /\ task'[r] \in {"pausing", "scoring"}
         /\ index'[r] = i
  BY DEF Suspends, TypeOK

LEMMA RunStepAdvances ==
  ASSUME TypeOK, NoCreated, Positions, NEW r \in RunId, RunStep(r), r \in Active
  PROVE  Advances(r)
  <1> DEFINE n == Len(runs[r].records)
  <1>0. /\ runs \in [RunId -> Run] /\ Recorded(r) \in [RunId -> Run]
        /\ index[r] \in Nat /\ index[r] + 1 \in Nat /\ 0 \in Nat
        /\ runs[r].state = "running"
        /\ n \in Nat /\ Total(r) \in Nat \ {0} /\ n <= Total(r)
        /\ task \in [RunId -> Live \cup {"none", "done"}]
    <2>1. index[r] \in Nat
      BY DEF TypeOK
    <2>2. index[r] + 1 \in Nat
      BY <2>1
    <2>3. Recorded(r) \in [RunId -> Run]
      BY RecordedType
    <2>4. QED
      BY <2>1, <2>2, <2>3, TotalType DEF TypeOK, NoCreated, Active, Positions
  <1>1. /\ Recorded(r)[r].state = "running"
        /\ Recorded(r)[r].scenario = runs[r].scenario
        /\ Recorded(r)[r].stopRequested = runs[r].stopRequested
        /\ Recorded(r)[r].records = Append(runs[r].records, index[r] + 1)
    BY <1>0, RecordedType DEF Run
  <1>2. runs[r].records \in Seq(Nat)
    BY <1>0 DEF Run
  <1>3. CASE task[r] = "ready"
    <2>1. n = 0
      BY <1>2, <1>3 DEF Positions
    <2>2. CASE Leaves(r, 0, runs)
      <3>1. /\ runs'[r].state \in Terminal
            /\ runs'[r].state = "completed" => 0 = Total(r)
            /\ runs'[r].records = runs[r].records
            /\ runs'[r].scenario = runs[r].scenario
            /\ runs'[r].stopRequested = runs[r].stopRequested
        BY <1>0, <2>2, LeavesEffect
      <3>2. QED
        BY <1>0, <3>1 DEF Advances
    <2>3. CASE Suspends(r, 0, runs)
      BY <1>0, <2>1, <2>3, SuspendsEffect DEF Advances
    <2>4. QED
      BY <1>0, <1>3, <2>2, <2>3, RunStepShape DEF Active
  <1>4. CASE task[r] = "pausing"
    <2>1. index[r] = n /\ n < Total(r)
      BY <1>4 DEF Positions
    <2>2. CASE Leaves(r, index[r], runs)
      <3>1. /\ runs'[r].state \in Terminal
            /\ runs'[r].state = "completed" => index[r] = Total(r)
            /\ runs'[r].records = runs[r].records
            /\ runs'[r].scenario = runs[r].scenario
            /\ runs'[r].stopRequested = runs[r].stopRequested
        BY <1>0, <2>2, LeavesEffect
      <3>2. QED
        BY <1>0, <2>1, <3>1 DEF Advances
    <2>3. CASE Suspends(r, index[r], runs)
      BY <1>0, <2>1, <2>3, SuspendsEffect DEF Advances
    <2>4. QED
      BY <1>0, <1>4, <2>2, <2>3, RunStepShape DEF Active
  <1>5. CASE task[r] = "scoring"
    <2>1. index[r] = n /\ n < Total(r)
      BY <1>5 DEF Positions
    <2>2. /\ Append(runs[r].records, index[r] + 1) = Append(runs[r].records, n + 1)
          /\ Len(Append(runs[r].records, n + 1)) = n + 1
          /\ n + 1 <= Total(r)
      BY <1>0, <1>2, <2>1
    <2>3. CASE \E why \in Reason \ {"none"} :
                 Exit(r, Settled(runs, r, "failed", why))
      <3>1. PICK why \in Reason \ {"none"} :
                   Exit(r, Settled(runs, r, "failed", why))
        BY <2>3
      <3>2. "failed" \in Terminal
        BY DEF Terminal
      <3>3. Settled(runs, r, "failed", why)[r].state = "failed"
        BY <1>0, <3>2, SettledEnds
      <3>4. /\ Settled(runs, r, "failed", why)[r].records = runs[r].records
            /\ Settled(runs, r, "failed", why)[r].scenario = runs[r].scenario
            /\ Settled(runs, r, "failed", why)[r].stopRequested
                 = runs[r].stopRequested
        BY <1>0, <3>2, SettledKeeps
      <3>5. QED
        BY <1>0, <3>1, <3>2, <3>3, <3>4 DEF Advances, Exit
    <2>4. CASE Leaves(r, index[r] + 1, Recorded(r))
      <3>1. /\ runs'[r].state \in Terminal
            /\ runs'[r].state = "completed" => index[r] + 1 = Total(r)
            /\ runs'[r].records = Recorded(r)[r].records
            /\ runs'[r].scenario = runs[r].scenario
            /\ runs'[r].stopRequested = runs[r].stopRequested
        BY <1>0, <1>1, <2>4, LeavesEffect, Zenon
      <3>2. QED
        BY <1>0, <1>1, <2>1, <2>2, <3>1 DEF Advances
    <2>5. CASE /\ Suspends(r, index[r] + 1, Recorded(r))
               /\ index[r] + 1 # EventCount[runs[r].scenario]
      <3>1. /\ runs' = Recorded(r)
            /\ task'[r] \in {"pausing", "scoring"}
            /\ index'[r] = index[r] + 1
        BY <1>0, <2>5, SuspendsEffect, Zenon
      <3>2. index[r] + 1 < Total(r)
        BY <1>0, <2>1, <2>5 DEF Total
      <3>3. QED
        BY <1>0, <1>1, <2>1, <2>2, <3>1, <3>2 DEF Advances
    <2>6. QED
      BY <1>0, <1>5, <2>3, <2>4, <2>5, RunStepShape DEF Active
  <1>6. CASE task[r] = "cancelling"
    <2>1. Exit(r, runs)
      BY <1>0, <1>6, RunStepShape DEF Active
    <2>2. QED
      BY <1>0, <1>6, <2>1 DEF Advances, Exit
  <1>7. task[r] \in Live
    BY RunStepShape
  <1>8. QED
    BY <1>3, <1>4, <1>5, <1>6, <1>7 DEF Live

(* A task's step touches no other run, and its own only while it is going. *)
LEMMA RunStepLocal ==
  ASSUME TypeOK, NEW r \in RunId, RunStep(r)
  PROVE  /\ \A q \in RunId \ {r} : /\ runs'[q] = runs[q]
                                  /\ task'[q] = task[q]
                                  /\ index'[q] = index[q]
         /\ r \notin Active => runs' = runs
  <1>0. /\ runs \in [RunId -> Run] /\ Recorded(r) \in [RunId -> Run]
        /\ \A q \in RunId \ {r} : Recorded(r)[q] = runs[q]
    BY RecordedType DEF TypeOK
  <1>1. ASSUME NEW rs \in {runs, Recorded(r)}, NEW i \in {0, index[r], index[r] + 1},
               Leaves(r, i, rs) \/ Suspends(r, i, rs)
        PROVE  \A q \in RunId \ {r} : runs'[q] = runs[q]
    <2>1. CASE Leaves(r, i, rs)
      <3>1. \A q \in RunId \ {r} : runs'[q] = rs[q]
        BY <1>0, <2>1, SettledType DEF Leaves
      <3>2. QED
        BY <1>0, <3>1
    <2>2. CASE Suspends(r, i, rs)
      BY <1>0, <2>2 DEF Suspends
    <2>3. QED
      BY <1>1, <2>1, <2>2
  <1>2. ASSUME NEW why \in Reason, Exit(r, Settled(runs, r, "failed", why))
        PROVE  \A q \in RunId \ {r} : runs'[q] = runs[q]
    BY <1>0, <1>2, SettledType DEF Exit, Terminal
  <1>3. \A q \in RunId \ {r} : runs'[q] = runs[q]
    BY <1>1, <1>2, RunStepShape DEF Exit
  <1>4. \A q \in RunId \ {r} : task'[q] = task[q] /\ index'[q] = index[q]
    BY RunStepShape DEF Exit, Leaves, Suspends, TypeOK
  <1>5. ASSUME r \notin Active
        PROVE  runs' = runs
    <2>1. runs[r].state \in Terminal \cup {"unminted", "evicted"}
      BY <1>0, <1>5 DEF Active, Run, Held
    <2>2. \A target \in Terminal, why \in Reason :
            Settled(runs, r, target, why) = runs
      BY <1>0, <2>1, SettledKeeps
    <2>3. ASSUME NEW i \in {0, index[r]}, Leaves(r, i, runs) \/ Suspends(r, i, runs)
          PROVE  runs' = runs
      BY <2>2, <2>3 DEF Leaves, Suspends
    <2>4. ASSUME NEW why \in Reason, Exit(r, Settled(runs, r, "failed", why))
          PROVE  runs' = runs
      BY <2>2, <2>4 DEF Exit, Terminal
    <2>5. QED
      BY <1>5, <2>3, <2>4, RunStepShape DEF Exit
  <1>6. QED
    BY <1>3, <1>4, <1>5

(* Stopping: a run that is going stops with its timeline as it is, any     *)
(* other run is left alone.                                                *)
LEMMA StoppedEffect ==
  ASSUME NEW rs \in [RunId -> Run], NEW r \in RunId
  PROVE  /\ Stopped(rs, r) \in [RunId -> Run]
         /\ \A q \in RunId \ {r} : Stopped(rs, r)[q] = rs[q]
         /\ Stopped(rs, r)[r].records = rs[r].records
         /\ Stopped(rs, r)[r].scenario = rs[r].scenario
         /\ Stopped(rs, r)[r].stopRequested = rs[r].stopRequested
         /\ rs[r].state = "running" => Stopped(rs, r)[r].state = "stopped"
         /\ rs[r].state \in Terminal \cup {"unminted", "evicted"}
              => Stopped(rs, r) = rs
  <1>1. "stopped" \in Terminal /\ "none" \in Reason
    BY DEF Terminal, Reason
  <1>2. QED
    BY <1>1, SettledType, SettledKeeps, SettledEnds DEF Stopped

-----------------------------------------------------------------------------
(* How a step may change one run in the store.                             *)

Admitted(q) ==
  /\ runs[q].state = "unminted"
  /\ runs'[q].state = "running"
  /\ runs'[q].records = <<>>
  /\ ~ runs'[q].stopRequested
  /\ task'[q] = "ready"

Grows(q) ==
  /\ q \in Active
  /\ runs'[q].scenario = runs[q].scenario
  /\ runs'[q].records \in
       {runs[q].records, Append(runs[q].records, Len(runs[q].records) + 1)}
  /\ Len(runs'[q].records) <= Total(q)
  /\ runs'[q].state \in Terminal \cup {"running"}
  /\ runs'[q].state = "completed" => Len(runs'[q].records) = Total(q)

StoreChange(q) ==
  \/ runs'[q] = runs[q]
  \/ Admitted(q)
  \/ Grows(q)
  \/ q \in Finished /\ runs'[q] = NoRun("evicted")

LEMMA StartRunChange ==
  ASSUME TypeOK, NEW r \in RunId, NEW s \in Scenario, NEW p \in Pace,
         StartRun(r, s, p), NEW q \in RunId
  PROVE  StoreChange(q)
  <1>1. CASE q = r
    BY <1>1 DEF StartRun, StoreChange, Admitted, NoRun, TypeOK
  <1>2. CASE q # r /\ q \in Victims
    BY <1>2 DEF StartRun, StoreChange, Victims
  <1>3. CASE q # r /\ q \notin Victims
    BY <1>3 DEF StartRun, StoreChange
  <1>4. QED
    BY <1>1, <1>2, <1>3

LEMMA RunStepChange ==
  ASSUME TypeOK, NoCreated, Positions, NEW r \in RunId, RunStep(r),
         NEW q \in RunId
  PROVE  StoreChange(q)
  <1>1. CASE q # r \/ r \notin Active
    BY <1>1, RunStepLocal DEF StoreChange
  <1>2. CASE q = r /\ r \in Active
    <2>1. Advances(r)
      BY <1>2, RunStepAdvances
    <2>2. runs[r].state = "running"
      BY <1>2 DEF Active, NoCreated
    <2>3. QED
      BY <1>2, <2>1, <2>2 DEF Advances, StoreChange, Grows
  <1>3. QED
    BY <1>1, <1>2

(* Stopping a run that may just have been flagged.                         *)
LEMMA StopChange ==
  ASSUME TypeOK, NoCreated, Positions, NEW r \in RunId, NEW q \in RunId,
         NEW rs \in [RunId -> Run],
         \A x \in RunId : /\ rs[x].state = runs[x].state
                          /\ rs[x].records = runs[x].records
                          /\ rs[x].scenario = runs[x].scenario
                          /\ x \notin Active => rs[x] = runs[x],
         runs' = Stopped(rs, r) \/ runs' = rs
  PROVE  StoreChange(q)
  <1>1. CASE q \notin Active
    <2>1. runs[q].state \in Terminal \cup {"unminted", "evicted"}
      BY <1>1 DEF Active, TypeOK, Run, Held
    <2>2. runs'[q] = rs[q]
      BY <2>1, StoppedEffect
    <2>3. QED
      BY <1>1, <2>2 DEF StoreChange
  <1>2. CASE q \in Active
    <2>1. rs[q].state = "running"
      BY <1>2 DEF Active, NoCreated
    <2>2. /\ runs'[q].records = runs[q].records
          /\ runs'[q].scenario = runs[q].scenario
          /\ runs'[q].state \in {"running", "stopped"}
      <3>1. Stopped(rs, r)[q].state \in {"running", "stopped"}
        <4>1. CASE q = r
          BY <2>1, <4>1, StoppedEffect
        <4>2. CASE q # r
          BY <2>1, <4>2, StoppedEffect
        <4>3. QED
          BY <4>1, <4>2
      <3>2. /\ Stopped(rs, r)[q].records = rs[q].records
            /\ Stopped(rs, r)[q].scenario = rs[q].scenario
        <4>1. CASE q = r
          BY <4>1, StoppedEffect
        <4>2. CASE q # r
          BY <4>2, StoppedEffect
        <4>3. QED
          BY <4>1, <4>2
      <3>3. CASE runs' = Stopped(rs, r)
        BY <3>1, <3>2, <3>3
      <3>4. CASE runs' = rs
        BY <2>1, <3>4
      <3>5. QED
        BY <3>3, <3>4
    <2>3. QED
      BY <1>2, <2>2 DEF StoreChange, Grows, Positions, Terminal
  <1>3. QED
    BY <1>1, <1>2

LEMMA FlaggedKeeps ==
  ASSUME TypeOK, NEW r \in RunId
  PROVE  LET flagged == [runs EXCEPT ![r].stopRequested = @ \/ r \in Active]
         IN /\ flagged \in [RunId -> Run]
            /\ \A x \in RunId : /\ flagged[x].state = runs[x].state
                                /\ flagged[x].records = runs[x].records
                                /\ flagged[x].scenario = runs[x].scenario
                                /\ x \notin Active => flagged[x] = runs[x]
  <1> DEFINE flagged == [runs EXCEPT ![r].stopRequested = @ \/ r \in Active]
  <1>1. flagged \in [RunId -> Run]
    BY FlaggedType
  <1>2. ASSUME NEW x \in RunId
        PROVE  /\ flagged[x].state = runs[x].state
               /\ flagged[x].records = runs[x].records
               /\ flagged[x].scenario = runs[x].scenario
    BY DEF TypeOK, Run
  <1>3. ASSUME NEW x \in RunId, x \notin Active
        PROVE  flagged[x] = runs[x]
    <2>1. CASE x # r
      BY <2>1 DEF TypeOK
    <2>2. CASE x = r
      <3>1. runs[r] \in Run
        BY DEF TypeOK
      <3>2. flagged[r] = [runs[r] EXCEPT !.stopRequested = runs[r].stopRequested]
        <4>1. (runs[r].stopRequested \/ r \in Active) = runs[r].stopRequested
          BY <1>3, <2>2, <3>1 DEF Run
        <4>2. QED
          BY <4>1 DEF TypeOK
      <3>3. [runs[r] EXCEPT !.stopRequested = runs[r].stopRequested] = runs[r]
        BY <3>1 DEF Run
      <3>4. QED
        BY <2>2, <3>2, <3>3
    <2>3. QED
      BY <2>1, <2>2
  <1>4. QED
    BY <1>1, <1>2, <1>3

LEMMA StoreStep ==
  ASSUME TypeOK, NoCreated, Positions, [Next]_vars, NEW q \in RunId
  PROVE  StoreChange(q)
  <1>1. ASSUME NEW r \in RunId, NEW s \in Scenario, NEW p \in Pace,
               StartRun(r, s, p)
        PROVE  StoreChange(q)
    BY <1>1, StartRunChange
  <1>2. ASSUME NEW r \in RunId, RunStep(r)
        PROVE  StoreChange(q)
    BY <1>2, RunStepChange
  <1>3. ASSUME NEW c \in Caller, NEW r \in RunId, StopArrives(c, r)
        PROVE  StoreChange(q)
    <2> DEFINE flagged == [runs EXCEPT ![r].stopRequested = @ \/ r \in Active]
    <2>1. runs' = flagged \/ runs' = Stopped(flagged, r)
      BY <1>3 DEF StopArrives, Answer
    <2>2. /\ flagged \in [RunId -> Run]
          /\ \A x \in RunId : /\ flagged[x].state = runs[x].state
                              /\ flagged[x].records = runs[x].records
                              /\ flagged[x].scenario = runs[x].scenario
                              /\ x \notin Active => flagged[x] = runs[x]
      BY FlaggedKeeps
    <2> HIDE DEF flagged
    <2>3. QED
      BY <2>1, <2>2, StopChange
  <1>4. ASSUME NEW c \in Caller, CallStep(c) \/ StopInterrupted(c)
        PROVE  StoreChange(q)
    <2>1. calls[c].pc = "waiting" /\ runs' = Stopped(runs, calls[c].run)
      BY <1>4 DEF CallStep, StopResumes, StopTimesOut, StopInterrupted, Answer
    <2>2. calls[c].run \in RunId /\ runs \in [RunId -> Run]
      BY <2>1 DEF TypeOK, Call
    <2>3. QED
      BY <2>1, <2>2, StopChange
  <1>5. CASE ShutdownEnds
    <2>1. \/ runs'[q] = runs[q]
          \/ q \in Active /\ runs'[q] = Stopped(runs, q)[q]
      BY <1>5 DEF ShutdownEnds
    <2>2. runs \in [RunId -> Run]
      BY DEF TypeOK
    <2>3. ASSUME q \in Active, runs'[q] = Stopped(runs, q)[q]
          PROVE  Grows(q)
      <3>1. runs[q].state = "running"
        BY <2>3 DEF Active, NoCreated
      <3>2. /\ runs'[q].state = "stopped"
            /\ runs'[q].records = runs[q].records
            /\ runs'[q].scenario = runs[q].scenario
        BY <2>2, <2>3, <3>1, StoppedEffect
      <3>3. QED
        BY <2>3, <3>2 DEF Grows, Positions, Terminal
    <2>4. QED
      BY <2>1, <2>3 DEF StoreChange
  <1>6. CASE UNCHANGED runs
    BY <1>6 DEF StoreChange
  <1>7. QED
    BY <1>1, <1>2, <1>3, <1>4, <1>5, <1>6
       DEF Next, DeadlinePasses, AbandonedReturns, ShutdownBegins, vars

-----------------------------------------------------------------------------
(* The invariant is kept, one conjunct at a time.                          *)

LEMMA NoCreatedStep ==
  ASSUME TypeOK, NoCreated, Positions, [Next]_vars
  PROVE  NoCreated'
  <1> SUFFICES ASSUME NEW q \in RunId
               PROVE  runs'[q].state # "created"
    BY DEF NoCreated
  <1>1. StoreChange(q)
    BY StoreStep
  <1>2. runs[q].state # "created"
    BY DEF NoCreated
  <1>3. NoRun("evicted").state = "evicted"
    BY DEF NoRun
  <1>4. QED
    BY <1>1, <1>2, <1>3 DEF StoreChange, Admitted, Grows, Terminal

LEMMA LengthStep ==
  ASSUME TypeOK, NoCreated, Positions, [Next]_vars, NEW q \in RunId
  PROVE  Len(runs'[q].records) <= EventCount[runs'[q].scenario]
  <1>1. /\ Len(runs[q].records) <= EventCount[runs[q].scenario]
        /\ StoreChange(q)
    BY StoreStep DEF Positions, Total
  <1>2. EventCount[runs'[q].scenario] \in Nat
    <2>1. TypeOK'
      BY TypeStep
    <2>2. QED
      BY <2>1, LimitsAssumption DEF TypeOK, Run
  <1>3. CASE Admitted(q) \/ runs'[q] = NoRun("evicted")
    <2>1. runs'[q].records = <<>>
      BY <1>3 DEF Admitted, NoRun
    <2>2. QED
      BY <1>2, <2>1
  <1>4. CASE Grows(q)
    BY <1>4 DEF Grows, Total
  <1>5. QED
    BY <1>1, <1>3, <1>4 DEF StoreChange

(* A run that is going after the step was going before it, or has just     *)
(* been admitted.                                                          *)
LEMMA GoingBefore ==
  ASSUME TypeOK, NoCreated, Positions, [Next]_vars, NEW q \in RunId,
         runs'[q].state \in {"created", "running"}
  PROVE  q \in Active \/ Admitted(q)
  <1>1. CASE runs'[q] = runs[q]
    BY <1>1 DEF Active
  <1>2. CASE Grows(q)
    BY <1>2 DEF Grows
  <1>3. CASE runs'[q] = NoRun("evicted")
    BY <1>3 DEF NoRun
  <1>4. QED
    BY <1>1, <1>2, <1>3, StoreStep DEF StoreChange

Placed(q) ==
  /\ task[q] \in Live \ {"cancelling"} \/ app = "draining"
  /\ task[q] = "ready" => runs[q].records = <<>>
  /\ task[q] \in {"pausing", "scoring"} =>
       index[q] = Len(runs[q].records) /\ index[q] < Total(q)

LEMMA PlacedStep ==
  ASSUME TypeOK, NoCreated, NoneUndriven, Positions, [Next]_vars,
         NEW q \in RunId, runs'[q].state \in {"created", "running"}
  PROVE  Placed(q)'
  <1>0. (q \in Active => Placed(q)) /\ (q \in Active \/ Admitted(q))
    BY GoingBefore DEF NoneUndriven, Positions, Placed
  <1>1. ASSUME NEW r \in RunId, NEW s \in Scenario, NEW p \in Pace,
               StartRun(r, s, p)
        PROVE  Placed(q)'
    <2>1. CASE q = r
      BY <1>1, <2>1 DEF StartRun, Placed, Live, NoRun, TypeOK
    <2>2. CASE q # r
      <3>1. runs'[q] = runs[q]
        BY <1>1, <2>2 DEF StartRun, NoRun
      <3>2. task'[q] = task[q] /\ index'[q] = index[q] /\ app' = app
        BY <1>1, <2>2 DEF StartRun, TypeOK
      <3>3. q \in Active
        BY <3>1 DEF Active
      <3>4. QED
        BY <1>0, <3>1, <3>2, <3>3 DEF Placed, Total
    <2>3. QED
      BY <2>1, <2>2
  <1>2. ASSUME NEW r \in RunId, RunStep(r)
        PROVE  Placed(q)'
    <2>0. app' = app
      BY <1>2, RunStepShape
    <2>1. CASE q # r
      <3>1. runs'[q] = runs[q] /\ task'[q] = task[q] /\ index'[q] = index[q]
        BY <1>2, <2>1, RunStepLocal
      <3>2. q \in Active
        BY <3>1 DEF Active
      <3>3. QED
        BY <1>0, <2>0, <3>1, <3>2 DEF Placed, Total
    <2>2. CASE q = r
      <3>1. r \in Active
        BY <1>2, <2>2, RunStepLocal DEF Active
      <3>2. Advances(r)
        BY <1>2, <3>1, RunStepAdvances
      <3>3. CASE runs'[r].state \in Terminal
        BY <2>2, <3>3 DEF Terminal
      <3>4. CASE /\ task'[r] \in {"pausing", "scoring"}
                 /\ index'[r] = Len(runs'[r].records)
                 /\ index'[r] < Total(r)
        BY <2>2, <3>2, <3>4 DEF Placed, Total, Live, Advances
      <3>5. CASE task[r] = "cancelling" /\ task'[r] = "done"
        BY <1>0, <2>0, <2>2, <3>1, <3>5 DEF Placed
      <3>6. QED
        BY <3>2, <3>3, <3>4, <3>5 DEF Advances
    <2>3. QED
      BY <2>1, <2>2
  <1>3. ASSUME NEW c \in Caller, NEW r \in RunId, StopArrives(c, r)
        PROVE  Placed(q)'
    <2> DEFINE flagged == [runs EXCEPT ![r].stopRequested = @ \/ r \in Active]
    <2>1. runs' = flagged \/ runs' = Stopped(flagged, r)
      BY <1>3 DEF StopArrives, Answer
    <2>2. /\ flagged \in [RunId -> Run]
          /\ flagged[q].records = runs[q].records
          /\ flagged[q].scenario = runs[q].scenario
          /\ flagged[q].state = runs[q].state
      BY FlaggedKeeps
    <2>3. UNCHANGED <<task, index, app>>
      BY <1>3 DEF StopArrives
    <2> HIDE DEF flagged
    <2>4. /\ Stopped(flagged, r)[q].records = flagged[q].records
          /\ Stopped(flagged, r)[q].scenario = flagged[q].scenario
      <3>1. CASE q = r
        BY <2>2, <3>1, StoppedEffect
      <3>2. CASE q # r
        BY <2>2, <3>2, StoppedEffect
      <3>3. QED
        BY <3>1, <3>2
    <2>5. /\ runs'[q].records = runs[q].records
          /\ runs'[q].scenario = runs[q].scenario
      BY <2>1, <2>2, <2>4
    <2>6. q \in Active
      <3>1. ~ Admitted(q)
        <4>1. CASE q = r
          BY <1>3, <4>1 DEF StopArrives, Retained, Held, Terminal, Admitted
        <4>2. CASE q # r
          <5>1. Stopped(flagged, r)[q].state = flagged[q].state
            BY <2>2, <4>2, StoppedEffect
          <5>2. QED
            BY <2>1, <2>2, <5>1 DEF Admitted
        <4>3. QED
          BY <4>1, <4>2
      <3>2. QED
        BY <1>0, <3>1
    <2>7. QED
      BY <1>0, <2>3, <2>5, <2>6 DEF Placed, Total
  <1>4. ASSUME NEW c \in Caller, CallStep(c) \/ StopInterrupted(c)
        PROVE  Placed(q)'
    <2> DEFINE r == calls[c].run
    <2>1. calls[c].pc = "waiting" /\ runs' = Stopped(runs, r)
      BY <1>4 DEF CallStep, StopResumes, StopTimesOut, StopInterrupted, Answer
    <2>2. r \in RunId /\ runs \in [RunId -> Run] /\ runs[r] \in Run
      BY <2>1 DEF TypeOK, Call
    <2> HIDE DEF r
    <2>3. runs'[r].state \notin {"created", "running"}
      <3>1. CASE runs[r].state = "running"
        BY <2>1, <2>2, <3>1, StoppedEffect
      <3>2. CASE runs[r].state # "running"
        <4>1. runs[r].state \in Terminal \cup {"unminted", "evicted"}
          BY <2>2, <3>2 DEF NoCreated, Run, Held
        <4>2. runs' = runs
          BY <2>1, <2>2, <4>1, StoppedEffect
        <4>3. QED
          BY <4>1, <4>2 DEF Terminal
      <3>3. QED
        BY <3>1, <3>2
    <2>4. q # r
      BY <2>3
    <2>5. runs'[q] = runs[q]
      BY <2>1, <2>2, <2>4, StoppedEffect
    <2>6. task'[q] = task[q] /\ index'[q] = index[q] /\ app' = app
      BY <1>4, <2>4 DEF CallStep, StopResumes, StopTimesOut, StopInterrupted,
                        TypeOK, r
    <2>7. q \in Active
      BY <2>5 DEF Active
    <2>8. QED
      BY <1>0, <2>5, <2>6, <2>7 DEF Placed, Total
  <1>5. CASE ShutdownBegins
    <2>1. /\ app' = "draining"
          /\ task'[q] \notin {"ready", "pausing", "scoring"}
      BY <1>5 DEF ShutdownBegins, Live
    <2>2. QED
      BY <2>1 DEF Placed
  <1>6. CASE ShutdownEnds
    <2>1. runs'[q] = IF q \in Active THEN Stopped(runs, q)[q] ELSE runs[q]
      BY <1>6 DEF ShutdownEnds
    <2>2. CASE q \in Active
      <3>1. runs[q].state = "running" /\ runs \in [RunId -> Run]
        BY <2>2 DEF Active, NoCreated, TypeOK
      <3>2. runs'[q].state = "stopped"
        BY <2>1, <2>2, <3>1, StoppedEffect
      <3>3. QED
        BY <3>2
    <2>3. CASE q \notin Active
      BY <2>1, <2>3 DEF Active
    <2>4. QED
      BY <2>2, <2>3
  <1>7. CASE UNCHANGED <<runs, task, index, app>>
    <2>1. q \in Active
      BY <1>7 DEF Active
    <2>2. QED
      BY <1>0, <1>7, <2>1 DEF Placed, Total
  <1>8. QED
    BY <1>1, <1>2, <1>3, <1>4, <1>5, <1>6, <1>7
       DEF Next, DeadlinePasses, AbandonedReturns, vars

LEMMA PositionsStep ==
  ASSUME TypeOK, NoCreated, NoneUndriven, Positions, [Next]_vars
  PROVE  NoneUndriven' /\ Positions'
  <1>1. ASSUME NEW q \in RunId
        PROVE  (Len(runs[q].records) <= Total(q))'
    BY LengthStep DEF Total
  <1>2. ASSUME NEW q \in RunId, runs'[q].state \in {"created", "running"}
        PROVE  Placed(q)'
    BY <1>2, PlacedStep
  <1>3. QED
    BY <1>1, <1>2 DEF NoneUndriven, Positions, Placed, Active

(* A run that is not going changes only by being forgotten, and a run that *)
(* was forgotten never again.                                              *)
LEMMA EndedStep ==
  ASSUME TypeOK, NoCreated, Positions, [Next]_vars, NEW q \in RunId,
         q \notin Active, runs[q].state # "unminted"
  PROVE  /\ runs'[q] = runs[q] \/ (q \in Finished /\ runs'[q] = NoRun("evicted"))
         /\ runs'[q].state # "unminted"
  <1>1. StoreChange(q)
    BY StoreStep
  <1>2. NoRun("evicted").state = "evicted"
    BY DEF NoRun
  <1>3. QED
    BY <1>1, <1>2 DEF StoreChange, Admitted, Grows

LEMMA MintedStep ==
  ASSUME TypeOK, NoCreated, Positions, [Next]_vars, NEW q \in RunId,
         runs[q].state # "unminted"
  PROVE  runs'[q].state # "unminted"
  <1>1. StoreChange(q)
    BY StoreStep
  <1>2. NoRun("evicted").state = "evicted"
    BY DEF NoRun
  <1>3. QED
    BY <1>1, <1>2 DEF StoreChange, Admitted, Grows, Terminal

(* What a stop call is told.                                               *)
Told(c) ==
  LET a == calls[c]
  IN a.pc = "answered" /\ a.found /\ a.run \in Retained =>
       /\ a.state \in Terminal
       /\ runs[a.run].state = a.state
       /\ Len(runs[a.run].records) = a.emitted

(* The answer is the run as the handler leaves it.                         *)
LEMMA AnswerTells ==
  ASSUME TypeOK, NoCreated, NEW c \in Caller, NEW r \in RunId,
         NEW rs \in [RunId -> Run], rs[r].state = runs[r].state,
         Answer(c, r, rs)
  PROVE  Told(c)'
  <1>1. calls'[c] = [pc |-> "answered", run |-> r, found |-> rs[r].state \in Held,
                     state |-> Stopped(rs, r)[r].state,
                     emitted |-> Len(rs[r].records)]
    BY DEF Answer, TypeOK
  <1>2. runs' = Stopped(rs, r)
    BY DEF Answer
  <1>3. Len(runs'[r].records) = Len(rs[r].records)
    BY <1>2, StoppedEffect
  <1>4. ASSUME rs[r].state \in Held
        PROVE  Stopped(rs, r)[r].state \in Terminal
    <2>1. rs[r].state \in Terminal \cup {"running"}
      BY <1>4 DEF NoCreated, Held
    <2>2. CASE rs[r].state = "running"
      BY <2>2, StoppedEffect DEF Terminal
    <2>3. CASE rs[r].state \in Terminal
      BY <2>3, StoppedEffect
    <2>4. QED
      BY <2>1, <2>2, <2>3
  <1>5. /\ calls'[c].found => rs[r].state \in Held
        /\ calls'[c].run = r
        /\ calls'[c].state = runs'[r].state
        /\ calls'[c].emitted = Len(runs'[r].records)
    <2>1. calls'[c].found => rs[r].state \in Held
      <3>1. CASE rs[r].state \notin Held
        <4>1. (rs[r].state \in Held) = FALSE
          BY <3>1
        <4>2. calls'[c] = [pc |-> "answered", run |-> r, found |-> FALSE,
                           state |-> Stopped(rs, r)[r].state,
                           emitted |-> Len(rs[r].records)]
          BY <1>1, <4>1, Zenon
        <4>3. ~ calls'[c].found
          BY <4>2
        <4>4. QED
          BY <4>3
      <3>2. QED
        BY <3>1
    <2>2. /\ calls'[c].run = r
          /\ calls'[c].state = Stopped(rs, r)[r].state
          /\ calls'[c].emitted = Len(rs[r].records)
      BY <1>1
    <2>3. QED
      BY <1>2, <1>3, <2>1, <2>2
  <1>6. calls'[c].found => runs'[r].state \in Terminal
    BY <1>2, <1>4, <1>5
  <1>7. QED
    BY <1>5, <1>6, Zenon DEF Told

(* A call that is not touched stays answered with the truth.               *)
LEMMA ToldStays ==
  ASSUME TypeOK, NoCreated, Positions, CallsKnown, [Next]_vars,
         NEW c \in Caller, Told(c), calls'[c] = calls[c]
  PROVE  Told(c)'
  <1> SUFFICES ASSUME calls[c].pc = "answered", calls[c].found,
                      runs'[calls[c].run].state \in Held
               PROVE  LET a == calls[c]
                      IN /\ a.state \in Terminal
                         /\ runs'[a.run].state = a.state
                         /\ Len(runs'[a.run].records) = a.emitted
    BY DEF Told, Retained
  <1> DEFINE r == calls[c].run
  <1>1. r \in RunId
    BY DEF TypeOK, Call
  <1>2. runs[r].state # "unminted"
    BY DEF CallsKnown
  <1>3. r \in Retained
    <2>1. CASE r \in Active
      BY <1>1, <2>1 DEF Active, Retained, Held
    <2>2. CASE r \notin Active
      <3>1. runs'[r] = runs[r] \/ r \in Finished
        BY <1>1, <1>2, <2>2, EndedStep
      <3>2. QED
        BY <1>1, <3>1 DEF Retained, Finished, Held
    <2>3. QED
      BY <2>1, <2>2
  <1>4. /\ calls[c].state \in Terminal
        /\ runs[r].state = calls[c].state
        /\ Len(runs[r].records) = calls[c].emitted
    BY <1>3 DEF Told
  <1>5. r \notin Active
    BY <1>4 DEF Active, Terminal
  <1>6. NoRun("evicted").state \notin Held
    BY DEF NoRun, Held, Terminal
  <1>7. runs'[r] = runs[r]
    BY <1>1, <1>2, <1>5, <1>6, EndedStep
  <1>8. QED
    BY <1>4, <1>7

(* A call changes only by a step of its own.                               *)
LEMMA CallChanges ==
  ASSUME TypeOK, [Next]_vars, NEW c \in Caller
  PROVE  \/ calls'[c] = calls[c]
         \/ \E r \in RunId : StopArrives(c, r)
         \/ CallStep(c) \/ StopInterrupted(c)
  <1>1. ASSUME NEW d \in Caller \ {c}, NEW r \in RunId, StopArrives(d, r)
        PROVE  calls'[c] = calls[c]
    BY <1>1 DEF StopArrives, Answer, TypeOK
  <1>2. ASSUME NEW d \in Caller \ {c}, CallStep(d) \/ StopInterrupted(d)
        PROVE  calls'[c] = calls[c]
    BY <1>2 DEF CallStep, StopResumes, StopTimesOut, StopInterrupted, Answer,
                TypeOK
  <1>3. ASSUME NEW r \in RunId, RunStep(r)
        PROVE  calls' = calls
    BY <1>3 DEF RunStep, TaskBegins, PauseEnds, DetectorReturns, CancelDelivered
  <1>4. QED
    BY <1>1, <1>2, <1>3 DEF Next, StartRun, DeadlinePasses, AbandonedReturns,
       ShutdownBegins, ShutdownEnds, vars

LEMMA StopHonestStep ==
  ASSUME TypeOK, NoCreated, Positions, CallsKnown, StopHonest, [Next]_vars
  PROVE  StopHonest' /\ CallsKnown'
  <1> SUFFICES ASSUME NEW c \in Caller
               PROVE  /\ Told(c)'
                      /\ calls'[c].pc # "idle" =>
                           runs'[calls'[c].run].state # "unminted"
    BY DEF StopHonest, Told, CallsKnown
  <1>1. Told(c)
    BY DEF StopHonest, Told
  <1>2. calls[c].pc # "idle" => calls[c].run \in RunId
    BY DEF TypeOK, Call
  <1>3. CASE calls'[c] = calls[c]
    <2>1. Told(c)'
      BY <1>1, <1>3, ToldStays
    <2>2. QED
      BY <1>2, <1>3, <2>1, MintedStep DEF CallsKnown
  <1>4. ASSUME NEW r \in RunId, StopArrives(c, r)
        PROVE  /\ Told(c)'
               /\ runs'[calls'[c].run].state # "unminted"
    <2> DEFINE flagged == [runs EXCEPT ![r].stopRequested = @ \/ r \in Active]
    <2>1. \/ calls'[c] = [pc |-> "waiting", run |-> r]
          \/ Answer(c, r, flagged)
      BY <1>4 DEF StopArrives, TypeOK
    <2>2. flagged \in [RunId -> Run] /\ flagged[r].state = runs[r].state
      BY FlaggedKeeps
    <2>3. runs[r].state # "unminted"
      BY <1>4 DEF StopArrives, Retained, Held, Terminal
    <2> HIDE DEF flagged
    <2>4. runs'[r].state # "unminted"
      BY <2>3, MintedStep
    <2>5. CASE calls'[c] = [pc |-> "waiting", run |-> r]
      BY <2>4, <2>5 DEF Told
    <2>6. CASE Answer(c, r, flagged)
      <3>1. Told(c)'
        BY <2>2, <2>6, AnswerTells
      <3>2. calls'[c].run = r
        BY <2>6 DEF Answer, TypeOK
      <3>3. QED
        BY <2>4, <3>1, <3>2
    <2>7. QED
      BY <2>1, <2>5, <2>6
  <1>5. ASSUME CallStep(c) \/ StopInterrupted(c)
        PROVE  /\ Told(c)'
               /\ runs'[calls'[c].run].state # "unminted"
    <2> DEFINE r == calls[c].run
    <2>1. calls[c].pc = "waiting" /\ Answer(c, r, runs)
      BY <1>5 DEF CallStep, StopResumes, StopTimesOut, StopInterrupted
    <2>2. r \in RunId /\ runs \in [RunId -> Run]
      BY <1>2, <2>1 DEF TypeOK
    <2>3. runs[r].state # "unminted"
      BY <2>1 DEF CallsKnown
    <2> HIDE DEF r
    <2>4. Told(c)'
      BY <2>1, <2>2, AnswerTells
    <2>5. calls'[c].run = r
      BY <2>1 DEF Answer, TypeOK
    <2>6. QED
      BY <2>2, <2>3, <2>4, <2>5, MintedStep
  <1>6. QED
    BY <1>3, <1>4, <1>5, CallChanges

-----------------------------------------------------------------------------
(* The limits.                                                             *)

(* Only a start changes a run that is not going.                           *)
LEMMA ChangedByStart ==
  ASSUME TypeOK, [Next]_vars, NEW q \in RunId, q \notin Active,
         runs'[q] # runs[q]
  PROVE  \E r \in RunId, s \in Scenario, p \in Pace :
           StartRun(r, s, p) /\ (q = r \/ q \in Victims)
  <1>0. /\ runs[q].state \in Terminal \cup {"unminted", "evicted"}
        /\ runs \in [RunId -> Run]
    BY DEF Active, Held, TypeOK, Run
  <1>1. ASSUME NEW r \in RunId, NEW s \in Scenario, NEW p \in Pace,
               StartRun(r, s, p)
        PROVE  q = r \/ q \in Victims
    BY <1>1 DEF StartRun
  <1>2. ASSUME NEW r \in RunId, RunStep(r)
        PROVE  FALSE
    BY <1>2, RunStepLocal
  <1>3. ASSUME NEW c \in Caller, NEW r \in RunId, StopArrives(c, r)
        PROVE  FALSE
    <2> DEFINE flagged == [runs EXCEPT ![r].stopRequested = @ \/ r \in Active]
    <2>1. runs' = flagged \/ runs' = Stopped(flagged, r)
      BY <1>3 DEF StopArrives, Answer
    <2>2. flagged \in [RunId -> Run] /\ flagged[q] = runs[q]
      BY FlaggedKeeps
    <2> HIDE DEF flagged
    <2>3. Stopped(flagged, r)[q] = flagged[q]
      <3>1. CASE q = r
        BY <1>0, <2>2, <3>1, StoppedEffect
      <3>2. CASE q # r
        BY <2>2, <3>2, StoppedEffect
      <3>3. QED
        BY <3>1, <3>2
    <2>4. QED
      BY <2>1, <2>2, <2>3
  <1>4. ASSUME NEW c \in Caller, CallStep(c) \/ StopInterrupted(c)
        PROVE  FALSE
    <2>1. calls[c].pc = "waiting" /\ runs' = Stopped(runs, calls[c].run)
      BY <1>4 DEF CallStep, StopResumes, StopTimesOut, StopInterrupted, Answer
    <2>2. calls[c].run \in RunId
      BY <2>1 DEF TypeOK, Call
    <2>3. QED
      BY <1>0, <2>1, <2>2, StoppedEffect
  <1>5. CASE ShutdownEnds
    BY <1>5 DEF ShutdownEnds
  <1>6. CASE UNCHANGED runs
    BY <1>6
  <1>7. QED
    BY <1>1, <1>2, <1>3, <1>4, <1>5, <1>6
       DEF Next, DeadlinePasses, AbandonedReturns, ShutdownBegins, vars

LEMMA FiniteRuns ==
  ASSUME NEW S, S \subseteq RunId
  PROVE  IsFiniteSet(S) /\ Cardinality(S) \in Nat
  BY LimitsAssumption, FS_Subset, FS_CardinalityType

(* Without an admission neither bounded set grows.                         *)
LEMMA ShrinksUnlessAdmitted ==
  ASSUME TypeOK, NoCreated, Positions, [Next]_vars,
         \A q \in RunId : ~ Admitted(q)
  PROVE  Active' \subseteq Active /\ Retained' \subseteq Retained
  <1>1. ASSUME NEW q \in RunId
        PROVE  /\ q \in Active' => q \in Active
               /\ q \in Retained' => q \in Retained
    <2>1. StoreChange(q)
      BY StoreStep
    <2>2. NoRun("evicted").state = "evicted"
      BY DEF NoRun
    <2>3. QED
      BY <2>1, <2>2 DEF StoreChange, Grows, Active, Retained, Held, Terminal
  <1>2. QED
    BY <1>1 DEF Active, Retained

(* A full store with a free slot holds a finished run, and the oldest one  *)
(* of them is a victim.                                                    *)
LEMMA FullStoreHasVictim ==
  ASSUME TypeOK, Cardinality(Active) < MaxActive,
         Cardinality(Retained) = MaxRetained
  PROVE  Victims # {}
  <1>1. /\ Active \subseteq RunId /\ Retained \subseteq RunId
        /\ Finished \subseteq RunId /\ Retained = Active \cup Finished
    BY DEF Active, Retained, Finished, Held
  <1>2. Finished # {}
    <2>1. SUFFICES ASSUME Finished = {}
                   PROVE  FALSE
      OBVIOUS
    <2>2. Retained = Active
      BY <1>1, <2>1
    <2>3. QED
      BY <1>1, <2>2, FiniteRuns, LimitsAssumption
  <1> DEFINE births == {born[r] : r \in Finished}
  <1>3. births \in SUBSET Nat /\ births # {}
    BY <1>1, <1>2 DEF TypeOK
  <1> HIDE DEF births
  <1>4. PICK m \in births : \A n \in births : m <= n
    BY <1>3, LeastNatural
  <1>5. PICK r \in Finished : born[r] = m
    BY <1>4 DEF births
  <1>6. Older(r) = {}
    <2>1. \A q \in Finished : born[r] <= born[q] /\ born[r] \in Nat /\ born[q] \in Nat
      BY <1>1, <1>4, <1>5 DEF births, TypeOK
    <2>2. QED
      BY <2>1 DEF Older
  <1>7. Cardinality(Older(r)) = 0
    BY <1>6, FS_EmptySet
  <1>8. r \in Victims
    BY <1>5, <1>7, LimitsAssumption DEF Victims
  <1>9. QED
    BY <1>8

LEMMA BoundedStep ==
  ASSUME TypeOK, NoCreated, Positions, Bounded, [Next]_vars
  PROVE  Bounded'
  <1>0. /\ Active \subseteq RunId /\ Retained \subseteq RunId
        /\ Active' \subseteq RunId /\ Retained' \subseteq RunId
        /\ Victims \subseteq Retained
    BY DEF Active, Retained, Victims, Finished, Held
  <1>1. CASE \A q \in RunId : ~ Admitted(q)
    <2>1. Active' \subseteq Active /\ Retained' \subseteq Retained
      BY <1>1, ShrinksUnlessAdmitted
    <2>2. /\ Cardinality(Active') <= Cardinality(Active)
          /\ Cardinality(Retained') <= Cardinality(Retained)
      BY <1>0, <2>1, FiniteRuns, FS_Subset
    <2>3. QED
      BY <1>0, <2>2, FiniteRuns, LimitsAssumption DEF Bounded
  <1>2. ASSUME NEW r \in RunId, NEW s \in Scenario, NEW p \in Pace,
               StartRun(r, s, p)
        PROVE  Bounded'
    <2>1. ASSUME NEW q \in RunId \ {r}
          PROVE  runs'[q] = IF q \in Victims THEN NoRun("evicted") ELSE runs[q]
      BY <1>2 DEF StartRun
    <2>2. runs'[r].state = "running"
      BY <1>2 DEF StartRun, NoRun
    <2>3. /\ NoRun("evicted").state = "evicted"
          /\ r \notin Active /\ r \notin Retained
          /\ Cardinality(Active) < MaxActive
      BY <1>2 DEF StartRun, NoRun, Active, Retained, Held, Terminal
    <2>4. Active' = Active \cup {r}
      <3>1. \A q \in Victims : q \notin Active
        BY DEF Victims, Finished, Active, Terminal
      <3>2. QED
        BY <2>1, <2>2, <2>3, <3>1 DEF Active
    <2>5. Retained' = (Retained \ Victims) \cup {r}
      BY <2>1, <2>2, <2>3 DEF Retained, Held, Terminal
    <2>6. Cardinality(Active') = Cardinality(Active) + 1
      BY <1>0, <2>3, <2>4, FiniteRuns, FS_AddElement
    <2>7. Cardinality(Retained') = Cardinality(Retained \ Victims) + 1
      <3>1. r \notin Retained \ Victims /\ IsFiniteSet(Retained \ Victims)
        BY <1>0, <2>3, FiniteRuns
      <3>2. QED
        BY <2>5, <3>1, FS_AddElement
    <2>8. Cardinality(Retained \ Victims) < MaxRetained
      <3>1. CASE Cardinality(Retained) < MaxRetained
        <4>1. Cardinality(Retained \ Victims) <= Cardinality(Retained)
          BY <1>0, FiniteRuns, FS_Subset
        <4>2. Retained \ Victims \subseteq RunId
          BY <1>0
        <4>3. QED
          BY <1>0, <3>1, <4>1, <4>2, FiniteRuns, LimitsAssumption
      <3>2. CASE Cardinality(Retained) = MaxRetained
        <4>1. PICK v \in Victims : TRUE
          BY <2>3, <3>2, FullStoreHasVictim
        <4>2. /\ Retained \ Victims \subseteq Retained
              /\ Retained \ Victims # Retained
              /\ Retained \ Victims \subseteq RunId
          BY <1>0, <4>1
        <4>3. /\ Cardinality(Retained \ Victims) <= Cardinality(Retained)
              /\ Cardinality(Retained \ Victims) # Cardinality(Retained)
          BY <1>0, <4>2, FiniteRuns, FS_Subset
        <4>4. QED
          BY <1>0, <3>2, <4>2, <4>3, FiniteRuns, LimitsAssumption
      <3>3. QED
        BY <1>0, <3>1, <3>2, FiniteRuns, LimitsAssumption DEF Bounded
    <2>9. Retained \ Victims \subseteq RunId
      BY <1>0
    <2>10. QED
      BY <1>0, <2>3, <2>6, <2>7, <2>8, <2>9, FiniteRuns, LimitsAssumption
         DEF Bounded
  <1>3. ASSUME NEW q \in RunId, Admitted(q)
        PROVE  Bounded'
    <2>1. q \notin Active /\ runs'[q] # runs[q]
      BY <1>3 DEF Admitted, Active
    <2>2. QED
      BY <1>2, <2>1, ChangedByStart
  <1>4. QED
    BY <1>1, <1>3

(* Eviction makes room for a run that is being admitted: the store is full *)
(* and the victim has no older finished run beside it.                     *)
LEMMA EvictionStep ==
  ASSUME TypeOK, NoCreated, Positions, Bounded, [Next]_vars,
         NEW r \in Retained, runs'[r].state = "evicted"
  PROVE  /\ r \in Finished
         /\ \E q \in RunId : runs[q].state = "unminted" /\ q \in Active'
         /\ \A q \in Finished : born[q] < born[r] => runs'[q].state = "evicted"
         /\ Cardinality(Retained) = MaxRetained
  <1>0. /\ r \in RunId /\ runs[r].state \in Held
        /\ Retained \subseteq RunId /\ Older(r) \subseteq RunId
    BY DEF Retained, Older, Finished
  <1>1. r \in Finished /\ runs'[r] # runs[r] /\ r \notin Active
    <2>1. StoreChange(r)
      BY <1>0, StoreStep
    <2>2. r \in Finished /\ runs'[r] # runs[r]
      BY <1>0, <2>1 DEF StoreChange, Admitted, Grows, Held, Terminal
    <2>3. QED
      BY <2>2 DEF Finished, Active, Terminal
  <1>2. PICK x \in RunId, s \in Scenario, p \in Pace :
               StartRun(x, s, p) /\ (r = x \/ r \in Victims)
    BY <1>0, <1>1, ChangedByStart
  <1>3. runs[x].state = "unminted" /\ runs'[x].state = "running"
    BY <1>2 DEF StartRun, NoRun
  <1>4. r \in Victims
    BY <1>0, <1>2, <1>3 DEF Held, Terminal
  <1>5. Cardinality(Older(r)) = 0 /\ Cardinality(Retained) = MaxRetained
    <2>1. Cardinality(Older(r)) + MaxRetained <= Cardinality(Retained)
      BY <1>4 DEF Victims
    <2>2. Cardinality(Retained) <= MaxRetained
      BY DEF Bounded
    <2>3. QED
      BY <1>0, <2>1, <2>2, FiniteRuns, LimitsAssumption
  <1>6. Older(r) = {}
    BY <1>0, <1>5, FiniteRuns, FS_EmptySet
  <1>7. x \in Active'
    BY <1>3 DEF Active
  <1>8. QED
    BY <1>1, <1>3, <1>5, <1>6, <1>7 DEF Older

-----------------------------------------------------------------------------
(* Who asked for a stop.                                                   *)

(* A going run that is settled ends as asked, with the reason given.       *)
LEMMA SettledTells ==
  ASSUME NEW rs \in [RunId -> Run], NEW r \in RunId, rs[r].state = "running",
         NEW target \in Terminal, NEW why \in Reason,
         (target = "failed") <=> (why # "none")
  PROVE  /\ Settled(rs, r, target, why)[r].state = target
         /\ Settled(rs, r, target, why)[r].reason = why
         /\ Settled(rs, r, target, why)[r].stopRequested = rs[r].stopRequested
  BY DEF Settled, Run, Held, Terminal, AllowedTransitions

(* A task settles its run as stopped only if its event or its flag is set, *)
(* and as late only if the flag is not.                                    *)
SettlesFairly(r, rs) ==
  \E target \in Terminal, why \in Reason :
    /\ (target = "failed") <=> (why # "none")
    /\ target = "stopped" => rs[r].stopRequested \/ stops[r] = "set"
    /\ why = "replay_deadline_exceeded" => ~ rs[r].stopRequested
    /\ runs' = Settled(rs, r, target, why)

LEMMA AfterDelayFair ==
  ASSUME NEW r \in RunId, NEW i, NEW rs, AfterDelay(r, i, rs)
  PROVE  SettlesFairly(r, rs) \/ runs' = rs
  BY DEF AfterDelay, Exit, Suspend, Stopped, SettlesFairly, Terminal, Reason

LEMMA TurnFair ==
  ASSUME NEW r \in RunId, NEW i, NEW rs, Turn(r, i, rs)
  PROVE  SettlesFairly(r, rs) \/ runs' = rs
  <1>1. CASE Exit(r, Settled(rs, r, "completed", "none"))
    BY <1>1 DEF Exit, SettlesFairly, Terminal, Reason
  <1>2. CASE stops[r] = "set" /\ Exit(r, Stopped(rs, r))
    BY <1>2 DEF Exit, Stopped, SettlesFairly, Terminal, Reason
  <1>3. CASE Suspend(r, i, rs, "pausing")
    BY <1>3 DEF Suspend
  <1>4. QED
    BY <1>1, <1>2, <1>3, AfterDelayFair DEF Turn

LEMMA RunStepFair ==
  ASSUME TypeOK, NEW r \in RunId, RunStep(r)
  PROVE  /\ \/ SettlesFairly(r, runs) \/ runs' = runs
            \/ SettlesFairly(r, Recorded(r)) \/ runs' = Recorded(r)
         /\ task[r] = "cancelling" => runs' = runs /\ task'[r] = "done"
         /\ UNCHANGED <<stops, calls, app>>
  <1>1. CASE TaskBegins(r)
    BY <1>1, TurnFair DEF TaskBegins
  <1>2. CASE PauseEnds(r)
    <2>1. CASE stops[r] = "set" /\ Exit(r, Stopped(runs, r))
      BY <1>2, <2>1 DEF PauseEnds, Exit, Stopped, SettlesFairly, Terminal, Reason
    <2>2. CASE AfterDelay(r, index[r], runs)
      BY <1>2, <2>2, AfterDelayFair DEF PauseEnds
    <2>3. QED
      BY <1>2, <2>1, <2>2 DEF PauseEnds
  <1>3. CASE DetectorReturns(r)
    <2>1. ASSUME NEW why \in {"replay_detection_failed",
                              "replay_record_limit_reached"},
                 Exit(r, Settled(runs, r, "failed", why))
          PROVE  SettlesFairly(r, runs)
      BY <2>1 DEF Exit, SettlesFairly, Terminal, Reason
    <2>2. CASE Exit(r, runs)
      BY <1>3, <2>2 DEF DetectorReturns, Exit
    <2>3. CASE Turn(r, index[r] + 1, Recorded(r))
      <3>1. SettlesFairly(r, Recorded(r)) \/ runs' = Recorded(r)
        BY <2>3, TurnFair
      <3>2. QED
        BY <1>3, <3>1 DEF DetectorReturns
    <2>4. QED
      BY <1>3, <2>1, <2>2, <2>3 DEF DetectorReturns, Scored, Recorded
  <1>4. CASE CancelDelivered(r)
    BY <1>4 DEF CancelDelivered, Exit, TypeOK
  <1>5. QED
    BY <1>1, <1>2, <1>3, <1>4 DEF RunStep

LEMMA RunStepOwed ==
  ASSUME TypeOK, NoCreated, TasksQuiet, NEW r \in RunId, RunStep(r), Owed(r)
  PROVE  Owed(r)'
  <1>0. /\ runs \in [RunId -> Run] /\ Recorded(r) \in [RunId -> Run]
        /\ Recorded(r)[r] = [runs[r] EXCEPT !.records = Append(@, index[r] + 1)]
        /\ runs[r] \in Run
    BY RecordedType DEF TypeOK
  <1>1. /\ Recorded(r)[r].state = runs[r].state
        /\ Recorded(r)[r].reason = runs[r].reason
        /\ Recorded(r)[r].stopRequested = runs[r].stopRequested
    BY <1>0 DEF Run
  <1>2. UNCHANGED <<stops, app>>
    BY RunStepFair
  <1>3. CASE runs' = runs
    BY <1>2, <1>3 DEF Owed, Active
  <1>4. CASE runs' = Recorded(r)
    BY <1>1, <1>2, <1>4 DEF Owed, Active
  <1>5. ASSUME runs' # runs, NEW rs \in {runs, Recorded(r)}, SettlesFairly(r, rs)
        PROVE  Owed(r)'
    <2>1. r \in Active
      BY <1>5, RunStepLocal
    <2>2. rs[r].state = "running" /\ rs[r].stopRequested = runs[r].stopRequested
      BY <1>0, <1>1, <1>5, <2>1 DEF Active, NoCreated
    <2>3. PICK target \in Terminal, why \in Reason :
            /\ (target = "failed") <=> (why # "none")
            /\ target = "stopped" => rs[r].stopRequested \/ stops[r] = "set"
            /\ why = "replay_deadline_exceeded" => ~ rs[r].stopRequested
            /\ runs' = Settled(rs, r, target, why)
      BY <1>5 DEF SettlesFairly
    <2>4. rs \in [RunId -> Run]
      BY <1>0, <1>5
    <2>5. /\ runs'[r].state = target
          /\ runs'[r].reason = why
          /\ runs'[r].stopRequested = runs[r].stopRequested
      BY <2>2, <2>3, <2>4, SettledTells
    <2>6. app = "serving"
      <3>1. task[r] \in Live /\ task[r] # "cancelling"
        BY <1>5, RunStepFair, RunStepShape
      <3>2. QED
        BY <3>1 DEF TasksQuiet, Live
    <2>7. QED
      BY <2>1, <2>2, <2>3, <2>5, <2>6 DEF Owed, Active, Terminal
  <1>6. QED
    BY <1>3, <1>4, <1>5, RunStepFair

(* Stopping a run: fair if it was asked for, or if the application is      *)
(* going down.                                                             *)
LEMMA StopOwed ==
  ASSUME NEW rs \in [RunId -> Run], NEW r \in RunId, NEW q \in RunId,
         rs[r].state # "created", 
         q = r /\ rs[q].state = "running" => rs[q].stopRequested,
         runs' = Stopped(rs, r),
         rs[q].state = "stopped" /\ ~ rs[q].stopRequested => app' = "down",
         rs[q].reason = "replay_deadline_exceeded" => ~ rs[q].stopRequested,
         rs[q].state \in {"created", "running"} => rs[q].reason = "none",
         rs[q].state \in {"created", "running"} /\ stops'[q] = "set" /\ app' = "serving"
            => rs[q].stopRequested
  PROVE  Owed(q)'
  <1>1. CASE q # r
    <2>1. runs'[q] = rs[q]
      BY <1>1, StoppedEffect
    <2>2. QED
      BY <2>1 DEF Owed, Active
  <1>2. CASE q = r /\ rs[r].state = "running"
    <2>1. /\ runs'[q].state = "stopped" /\ runs'[q].reason = "none"
          /\ runs'[q].stopRequested
      BY <1>2, SettledTells DEF Stopped, Terminal, Reason
    <2>2. QED
      BY <2>1 DEF Owed, Active
  <1>3. CASE q = r /\ rs[r].state # "running"
    <2>1. rs[r].state \in Terminal \cup {"unminted", "evicted"}
      BY <1>3 DEF Run, Held
    <2>2. runs' = rs
      BY <2>1, StoppedEffect
    <2>3. QED
      BY <2>2 DEF Owed, Active
  <1>4. QED
    BY <1>1, <1>2, <1>3

LEMMA FlaggedTells ==
  ASSUME TypeOK, NEW r \in RunId, NEW q \in RunId
  PROVE  LET flagged == [runs EXCEPT ![r].stopRequested = @ \/ r \in Active]
         IN /\ flagged[q].state = runs[q].state
            /\ flagged[q].reason = runs[q].reason
            /\ runs[q].stopRequested => flagged[q].stopRequested
            /\ q = r /\ q \in Active => flagged[q].stopRequested
            /\ q # r \/ q \notin Active => flagged[q] = runs[q]
  <1> DEFINE flagged == [runs EXCEPT ![r].stopRequested = @ \/ r \in Active]
  <1>0. runs \in [RunId -> Run] /\ runs[r] \in Run /\ runs[r].stopRequested \in BOOLEAN
    BY DEF TypeOK, Run
  <1>1. CASE q # r \/ q \notin Active
    <2>1. flagged[q] = runs[q]
      BY <1>0, <1>1, FlaggedKeeps
    <2>2. QED
      BY <1>1, <2>1
  <1>2. CASE q = r /\ q \in Active
    <2>1. flagged[q] = [runs[r] EXCEPT !.stopRequested = @ \/ r \in Active]
      BY <1>0, <1>2
    <2>2. (runs[r].stopRequested \/ r \in Active) = TRUE
      BY <1>2
    <2>3. flagged[q] = [runs[r] EXCEPT !.stopRequested = TRUE]
      BY <2>1, <2>2, Zenon
    <2>4. QED
      BY <1>0, <1>2, <2>3 DEF Run
  <1>3. QED
    BY <1>1, <1>2

LEMMA OwedStep ==
  ASSUME TypeOK, NoCreated, Positions, Asked, [Next]_vars, NEW q \in RunId
  PROVE  Owed(q)'
  <1>0. Owed(q) /\ runs \in [RunId -> Run]
    BY DEF Asked, TypeOK
  <1>1. ASSUME NEW r \in RunId, NEW s \in Scenario, NEW p \in Pace,
               StartRun(r, s, p)
        PROVE  Owed(q)'
    <2>1. CASE q = r
      <3>1. /\ runs'[q].state = "running" /\ runs'[q].reason = "none"
            /\ stops'[q] = "clear"
        BY <1>1, <2>1 DEF StartRun, NoRun, TypeOK
      <3>2. QED
        BY <3>1 DEF Owed
    <2>2. CASE q # r
      <3>1. stops'[q] = stops[q] /\ app' = app
        BY <1>1, <2>2 DEF StartRun, TypeOK
      <3>2. runs'[q] = runs[q] \/ runs'[q] = NoRun("evicted")
        BY <1>1, <2>2 DEF StartRun
      <3>3. QED
        BY <1>0, <3>1, <3>2 DEF Owed, Active, NoRun
    <2>3. QED
      BY <2>1, <2>2
  <1>2. ASSUME NEW r \in RunId, RunStep(r)
        PROVE  Owed(q)'
    <2>1. CASE q = r
      BY <1>0, <1>2, <2>1, RunStepOwed DEF Asked
    <2>2. CASE q # r
      <3>1. runs'[q] = runs[q] /\ UNCHANGED <<stops, app>>
        BY <1>2, <2>2, RunStepLocal, RunStepFair
      <3>2. QED
        BY <1>0, <3>1 DEF Owed, Active
    <2>3. QED
      BY <2>1, <2>2
  <1>3. ASSUME NEW c \in Caller, NEW r \in RunId, StopArrives(c, r)
        PROVE  Owed(q)'
    <2> DEFINE flagged == [runs EXCEPT ![r].stopRequested = @ \/ r \in Active]
    <2>1. runs' = flagged \/ runs' = Stopped(flagged, r)
      BY <1>3 DEF StopArrives, Answer
    <2>2. /\ flagged \in [RunId -> Run]
          /\ flagged[q].state = runs[q].state
          /\ flagged[q].reason = runs[q].reason
          /\ runs[q].stopRequested => flagged[q].stopRequested
          /\ q = r /\ q \in Active => flagged[q].stopRequested
          /\ q # r \/ q \notin Active => flagged[q] = runs[q]
          /\ flagged[r].state = runs[r].state
      BY FlaggedTells, FlaggedKeeps
    <2>3. /\ app' = app
          /\ q # r => stops'[q] = stops[q]
      BY <1>3 DEF StopArrives, TypeOK
    <2>4. flagged[q].reason = "replay_deadline_exceeded" => ~ flagged[q].stopRequested
      BY <1>0, <2>2 DEF Owed
    <2>5. /\ flagged[r].state # "created"
          /\ q = r /\ flagged[q].state = "running" => flagged[q].stopRequested
      BY <2>2 DEF NoCreated, Active
    <2>6. /\ flagged[q].state = "stopped" /\ ~ flagged[q].stopRequested => app' = "down"
          /\ flagged[q].state \in {"created", "running"} => flagged[q].reason = "none"
      BY <1>0, <2>2, <2>3 DEF Owed, Active
    <2>7. flagged[q].state \in {"created", "running"} /\ stops'[q] = "set"
            /\ app' = "serving" => flagged[q].stopRequested
      BY <1>0, <2>2, <2>3 DEF Owed, Active
    <2> HIDE DEF flagged
    <2>8. CASE runs' = flagged
      BY <2>4, <2>6, <2>7, <2>8 DEF Owed, Active
    <2>9. CASE runs' = Stopped(flagged, r)
      BY <2>2, <2>4, <2>5, <2>6, <2>7, <2>9, StopOwed
    <2>10. QED
      BY <2>1, <2>8, <2>9
  <1>4. ASSUME NEW c \in Caller, CallStep(c) \/ StopInterrupted(c)
        PROVE  Owed(q)'
    <2> DEFINE r == calls[c].run
    <2>1. /\ calls[c].pc = "waiting" /\ runs' = Stopped(runs, r)
          /\ UNCHANGED <<stops, app>>
      BY <1>4 DEF CallStep, StopResumes, StopTimesOut, StopInterrupted, Answer
    <2>2. r \in RunId /\ (r \in Active => runs[r].stopRequested)
      BY <2>1 DEF TypeOK, Call, Asked, CallersAsked
    <2> HIDE DEF r
    <2>3. QED
      BY <1>0, <2>1, <2>2, StopOwed DEF Owed, Active, NoCreated
  <1>5. CASE ShutdownBegins
    <2>1. runs' = runs /\ app' = "draining" /\ app = "serving"
      BY <1>5 DEF ShutdownBegins
    <2>2. QED
      BY <1>0, <2>1 DEF Owed, Active
  <1>6. CASE ShutdownEnds
    <2>1. /\ runs'[q] = IF q \in Active THEN Stopped(runs, q)[q] ELSE runs[q]
          /\ app' = "down"
      BY <1>6 DEF ShutdownEnds
    <2>2. CASE q \in Active
      <3>1. runs[q].state = "running"
        BY <2>2 DEF Active, NoCreated
      <3>2. runs'[q].state = "stopped" /\ runs'[q].reason = "none"
        BY <1>0, <2>1, <2>2, <3>1, SettledTells DEF Stopped, Terminal, Reason
      <3>3. QED
        BY <2>1, <3>2 DEF Owed, Active
    <2>3. CASE q \notin Active
      BY <1>0, <2>1, <2>3 DEF Owed, Active
    <2>4. QED
      BY <2>2, <2>3
  <1>7. CASE UNCHANGED <<runs, stops, app>>
    BY <1>0, <1>7 DEF Owed, Active
  <1>8. QED
    BY <1>1, <1>2, <1>3, <1>4, <1>5, <1>6, <1>7
       DEF Next, DeadlinePasses, AbandonedReturns, vars

LEMMA TasksQuietStep ==
  ASSUME TypeOK, TasksQuiet, [Next]_vars
  PROVE  TasksQuiet'
  <1> SUFFICES ASSUME app' # "serving", NEW q \in RunId
               PROVE  task'[q] \notin {"ready", "pausing", "scoring"}
    BY DEF TasksQuiet
  <1>1. ASSUME app' = app
        PROVE  task[q] \notin {"ready", "pausing", "scoring"}
    BY <1>1 DEF TasksQuiet
  <1>2. ASSUME NEW r \in RunId, RunStep(r)
        PROVE  task'[q] \notin {"ready", "pausing", "scoring"}
    <2>1. app' = app
      BY <1>2, RunStepFair
    <2>2. CASE q # r
      BY <1>1, <1>2, <2>1, <2>2, RunStepLocal
    <2>3. CASE q = r
      <3>1. task[r] \in Live
        BY <1>2, RunStepShape
      <3>2. task[r] = "cancelling"
        BY <1>1, <2>1, <2>3, <3>1 DEF Live
      <3>3. QED
        BY <1>2, <2>3, <3>2, RunStepFair
    <2>4. QED
      BY <2>2, <2>3
  <1>3. ASSUME NEW c \in Caller,
               \/ \E r \in RunId : StopArrives(c, r)
               \/ CallStep(c) \/ StopInterrupted(c)
        PROVE  app' = app /\ (task'[q] = task[q] \/ task'[q] = "cancelling")
    BY <1>3 DEF StopArrives, CallStep, StopResumes, StopTimesOut,
                StopInterrupted, TypeOK
  <1>4. CASE ShutdownBegins
    BY <1>4 DEF ShutdownBegins, Live
  <1>5. CASE ShutdownEnds
    <2>1. task' = task /\ task[q] \notin Live
      BY <1>5 DEF ShutdownEnds
    <2>2. QED
      BY <2>1 DEF Live
  <1>6. CASE UNCHANGED <<task, app>>
    BY <1>1, <1>6
  <1>7. QED
    BY <1>1, <1>2, <1>3, <1>4, <1>5, <1>6
       DEF Next, StartRun, DeadlinePasses, AbandonedReturns, vars

(* A request, once made, is not withdrawn while the run is going.          *)
LEMMA FlagStays ==
  ASSUME TypeOK, NoCreated, Positions, [Next]_vars, NEW q \in RunId,
         q \in Active, runs[q].stopRequested
  PROVE  runs'[q].stopRequested
  <1>0. runs \in [RunId -> Run]
    BY DEF TypeOK
  <1>1. ASSUME NEW r \in RunId, NEW s \in Scenario, NEW p \in Pace,
               StartRun(r, s, p)
        PROVE  runs'[q] = runs[q]
    BY <1>1 DEF StartRun, Active, Victims, Finished, Terminal
  <1>2. ASSUME NEW r \in RunId, RunStep(r)
        PROVE  runs'[q].stopRequested
    <2>1. CASE q # r
      BY <1>2, <2>1, RunStepLocal
    <2>2. CASE q = r
      BY <1>2, <2>2, RunStepAdvances DEF Advances
    <2>3. QED
      BY <2>1, <2>2
  <1>3. ASSUME NEW rs \in [RunId -> Run], NEW r \in RunId, rs[q].stopRequested,
               runs' = rs \/ runs' = Stopped(rs, r)
        PROVE  runs'[q].stopRequested
    <2>1. Stopped(rs, r)[q].stopRequested = rs[q].stopRequested
      <3>1. CASE q = r
        BY <3>1, StoppedEffect
      <3>2. CASE q # r
        BY <3>2, StoppedEffect
      <3>3. QED
        BY <3>1, <3>2
    <2>2. QED
      BY <1>3, <2>1
  <1>4. ASSUME NEW c \in Caller, NEW r \in RunId, StopArrives(c, r)
        PROVE  runs'[q].stopRequested
    <2> DEFINE flagged == [runs EXCEPT ![r].stopRequested = @ \/ r \in Active]
    <2>1. runs' = flagged \/ runs' = Stopped(flagged, r)
      BY <1>4 DEF StopArrives, Answer
    <2>2. flagged \in [RunId -> Run] /\ flagged[q].stopRequested
      BY FlaggedTells, FlaggedKeeps
    <2> HIDE DEF flagged
    <2>3. QED
      BY <1>3, <2>1, <2>2
  <1>5. ASSUME NEW c \in Caller, CallStep(c) \/ StopInterrupted(c)
        PROVE  runs'[q].stopRequested
    <2>1. calls[c].pc = "waiting" /\ runs' = Stopped(runs, calls[c].run)
      BY <1>5 DEF CallStep, StopResumes, StopTimesOut, StopInterrupted, Answer
    <2>2. calls[c].run \in RunId
      BY <2>1 DEF TypeOK, Call
    <2>3. QED
      BY <1>0, <1>3, <2>1, <2>2
  <1>6. CASE ShutdownEnds
    <2>1. runs'[q] = Stopped(runs, q)[q]
      BY <1>6 DEF ShutdownEnds
    <2>2. QED
      BY <1>0, <2>1, StoppedEffect
  <1>7. CASE UNCHANGED runs
    BY <1>7
  <1>8. QED
    BY <1>1, <1>2, <1>4, <1>5, <1>6, <1>7
       DEF Next, DeadlinePasses, AbandonedReturns, ShutdownBegins, vars

LEMMA CallersAskedStep ==
  ASSUME TypeOK, NoCreated, Positions, CallsKnown, CallersAsked, [Next]_vars
  PROVE  CallersAsked'
  <1> SUFFICES ASSUME NEW c \in Caller, calls'[c].pc = "waiting",
                      calls'[c].run \in Active'
               PROVE  runs'[calls'[c].run].stopRequested
    BY DEF CallersAsked
  <1> DEFINE q == calls'[c].run
  <1>1. q \in RunId /\ runs'[q].state \in {"created", "running"}
    BY DEF Active
  <1>2. CASE calls'[c] = calls[c]
    <2>1. runs[q].state # "unminted"
      BY <1>2 DEF CallsKnown
    <2>2. q \in Active
      BY <1>1, <2>1, GoingBefore DEF Admitted
    <2>3. runs[q].stopRequested
      BY <1>2, <2>2 DEF CallersAsked
    <2>4. QED
      BY <1>1, <2>2, <2>3, FlagStays
  <1>3. ASSUME NEW r \in RunId, StopArrives(c, r)
        PROVE  runs'[q].stopRequested
    <2> DEFINE flagged == [runs EXCEPT ![r].stopRequested = @ \/ r \in Active]
    <2>1. q = r /\ runs' = flagged
      BY <1>3 DEF StopArrives, Answer, TypeOK
    <2>2. /\ flagged[r].state = runs[r].state
          /\ r \in Active => flagged[r].stopRequested
      BY FlaggedTells
    <2> HIDE DEF flagged
    <2>3. QED
      BY <1>1, <2>1, <2>2 DEF Active
  <1>4. CASE CallStep(c) \/ StopInterrupted(c)
    <2>1. calls'[c].pc = "answered"
      BY <1>4 DEF CallStep, StopResumes, StopTimesOut, StopInterrupted, Answer,
                  TypeOK
    <2>2. QED
      BY <2>1
  <1>5. QED
    BY <1>2, <1>3, <1>4, CallChanges

-----------------------------------------------------------------------------
(* The whole invariant.                                                    *)

LEMMA InitInvariant == Init => IInv
  <1> SUFFICES ASSUME Init
               PROVE  IInv
    OBVIOUS
  <1>1. TypeOK
    BY NoRunType DEF Init, TypeOK, Call
  <1>2. ASSUME NEW r \in RunId
        PROVE  /\ runs[r].state = "unminted" /\ runs[r].records = <<>>
               /\ r \notin Active /\ r \notin Retained
    BY DEF Init, NoRun, Active, Retained, Held, Terminal
  <1>3. \A c \in Caller : calls[c].pc = "idle"
    BY DEF Init
  <1>4. Positions
    BY <1>1, <1>2, TotalType DEF Positions, Active
  <1>5. Bounded
    <2>1. Active = {} /\ Retained = {}
      BY <1>2 DEF Active, Retained
    <2>2. QED
      BY <2>1, FS_EmptySet, LimitsAssumption DEF Bounded
  <1>6. Asked
    <2>1. \A q \in RunId : runs[q] = NoRun("unminted")
      BY DEF Init
    <2>2. QED
      BY <2>1 DEF Init, Asked, TasksQuiet, CallersAsked, Owed, Active, NoRun
  <1>7. QED
    BY <1>1, <1>2, <1>3, <1>4, <1>5, <1>6
       DEF IInv, NoCreated, NoneUndriven, CallsKnown, StopHonest, Active

LEMMA InvariantStep == IInv /\ [Next]_vars => IInv'
  <1> SUFFICES ASSUME IInv, [Next]_vars
               PROVE  IInv'
    OBVIOUS
  <1>1. TypeOK'
    BY TypeStep DEF IInv
  <1>2. NoCreated'
    BY NoCreatedStep DEF IInv
  <1>3. NoneUndriven' /\ Positions'
    BY PositionsStep DEF IInv
  <1>4. StopHonest' /\ CallsKnown'
    BY StopHonestStep DEF IInv
  <1>5. Bounded'
    BY BoundedStep DEF IInv
  <1>6. Asked'
    <2>1. TasksQuiet' /\ CallersAsked'
      BY TasksQuietStep, CallersAskedStep DEF IInv, Asked
    <2>2. \A q \in RunId : Owed(q)'
      BY OwedStep DEF IInv
    <2>3. QED
      BY <2>1, <2>2 DEF Asked
  <1>7. QED
    BY <1>1, <1>2, <1>3, <1>4, <1>5, <1>6 DEF IInv

(* The inductive invariant of the service: IInv, named part by named part. *)
THEOREM Invariant == Spec => []IInv
  BY InitInvariant, InvariantStep, PTL DEF Spec

(* No run is ever left "running" with nothing to drive it.                 *)
THEOREM NoRunUndriven == Spec => []NoneUndriven
  <1>1. IInv => NoneUndriven
    BY DEF IInv
  <1>2. QED
    BY <1>1, Invariant, PTL

(* What a stop call answered stays true of the run while it is kept.       *)
THEOREM StopsAreHonest == Spec => []StopHonest
  <1>1. IInv => StopHonest
    BY DEF IInv
  <1>2. QED
    BY <1>1, Invariant, PTL

(* The limits hold: slots in flight and runs kept, whatever the order of   *)
(* starts, stops and ends.                                                 *)
THEOREM LimitsHold == Spec => []Bounded
  <1>1. IInv => Bounded
    BY DEF IInv
  <1>2. QED
    BY <1>1, Invariant, PTL

(* A run is stopped only on a request that named it or by shutdown, and is *)
(* not reported late once its stop was asked for.                          *)
THEOREM StopsAreAskedFor == Spec => []StoppedOnlyOnRequest
  <1>1. IInv => StoppedOnlyOnRequest
    BY DEF IInv, Asked, Owed, StoppedOnlyOnRequest
  <1>2. QED
    BY <1>1, Invariant, PTL

(* A run leaves the store finished, to make room in a full store, and with *)
(* no older finished run staying.                                          *)
THEOREM EvictionsMakeRoom == Spec => EvictsOldestFinished
  <1>1. IInv /\ [Next]_vars =>
          [\A r \in Retained : runs'[r].state = "evicted" =>
             /\ r \in Finished
             /\ \E q \in RunId : runs[q].state = "unminted" /\ q \in Active'
             /\ \A q \in Finished : born[q] < born[r] => runs'[q].state = "evicted"
             /\ Cardinality(Retained) = MaxRetained]_vars
    BY EvictionStep DEF IInv
  <1>2. QED
    BY <1>1, Invariant, PTL DEF Spec, EvictsOldestFinished

-----------------------------------------------------------------------------
(* Once a stop was requested, the task starts no other step: a task that   *)
(* suspends on the detector found no stop request.                         *)

LEMMA NoStepAfterStopStep ==
  ASSUME TypeOK, Positions, NoCreated, [Next]_vars, NEW q \in RunId,
         runs[q].stopRequested, task'[q] = "scoring"
  PROVE  task[q] = "scoring" /\ index'[q] = index[q]
  <1>1. ASSUME NEW r \in RunId, NEW s \in Scenario, NEW p \in Pace,
               StartRun(r, s, p)
        PROVE  task'[q] = task[q] \/ task'[q] = "ready"
    BY <1>1 DEF StartRun, TypeOK
  <1>2. ASSUME NEW r \in RunId, RunStep(r)
        PROVE  task[q] = task'[q] /\ index[q] = index'[q]
    <2>1. CASE q # r
      BY <1>2, <2>1, RunStepLocal
    <2>2. CASE q = r
      <3>1. Recorded(r)[r].stopRequested = runs[r].stopRequested
        <4>1. runs[r] \in Run
          BY DEF TypeOK
        <4>2. Recorded(r)[r] = [runs[r] EXCEPT !.records = Append(@, index[r] + 1)]
          BY RecordedType, Zenon
        <4>3. QED
          BY <4>1, <4>2 DEF Run
      <3>2. ASSUME NEW rs \in {runs, Recorded(r)}, NEW i \in Nat, Suspends(r, i, rs)
            PROVE  FALSE
        <4>1. rs[r].stopRequested
          BY <2>2, <3>1
        <4>2. PICK at \in {"pausing", "scoring"} :
                /\ task' = [task EXCEPT ![r] = at]
                /\ at = "scoring" => ~ rs[r].stopRequested
          BY <3>2, Zenon DEF Suspends
        <4>3. at = "scoring"
          BY <2>2, <4>2 DEF TypeOK
        <4>4. QED
          BY <4>1, <4>2, <4>3
      <3>3. ASSUME task' = [task EXCEPT ![r] = "done"]
            PROVE  FALSE
        BY <2>2, <3>3 DEF TypeOK
      <3>4. index[r] \in Nat /\ index[r] + 1 \in Nat /\ 0 \in Nat
        BY DEF TypeOK
      <3>5. QED
        BY <1>2, <3>2, <3>3, <3>4, RunStepShape, Zenon DEF Exit, Leaves
    <2>3. QED
      BY <2>1, <2>2
  <1>3. ASSUME NEW c \in Caller,
               \/ \E r \in RunId : StopArrives(c, r)
               \/ CallStep(c)
               \/ StopInterrupted(c)
        PROVE  index' = index /\ (task'[q] = task[q] \/ task'[q] = "cancelling")
    BY <1>3 DEF StopArrives, CallStep, StopResumes, StopTimesOut,
                StopInterrupted, TypeOK
  <1>4. CASE ShutdownBegins \/ ShutdownEnds
    BY <1>4 DEF ShutdownBegins, ShutdownEnds, Live
  <1>5. ASSUME NEW r \in RunId, DeadlinePasses(r) \/ AbandonedReturns(r)
        PROVE  UNCHANGED <<task, index>>
    BY <1>5 DEF DeadlinePasses, AbandonedReturns
  <1>6. ASSUME NEW r \in RunId, NEW s \in Scenario, NEW p \in Pace,
               StartRun(r, s, p)
        PROVE  index' = index
    BY <1>6 DEF StartRun
  <1>7. QED
    BY <1>1, <1>2, <1>3, <1>4, <1>5, <1>6 DEF Next, vars

(* "A stop takes effect at a step boundary", whatever it races with.       *)
THEOREM StopEndsTheSteps == Spec => NoStepAfterStop
  <1>1. IInv /\ [Next]_vars =>
          [\A r \in RunId : runs[r].stopRequested /\ task'[r] = "scoring" =>
             task[r] = "scoring" /\ index'[r] = index[r]]_vars
    BY NoStepAfterStopStep DEF IInv
  <1>2. QED
    BY <1>1, Invariant, PTL DEF Spec, NoStepAfterStop

-----------------------------------------------------------------------------
(* The service implements the contract of each run.                        *)

LEMMA ContractStep ==
  ASSUME TypeOK, NoCreated, Positions, [Next]_vars, NEW q \in RunId
  PROVE  [Contract(q)!Next]_(Contract(q)!cvars)
  <1>1. StoreChange(q)
    BY StoreStep
  <1>2. CASE runs'[q] = runs[q]
    BY <1>2 DEF Contract!cvars
  <1>3. CASE Admitted(q)
    BY <1>3 DEF Admitted, Contract!Next, Contract!Admit
  <1>4. CASE Grows(q)
    <2>1. runs[q].state = "running"
      BY <1>4 DEF Grows, Active, NoCreated
    <2>2. QED
      BY <1>4, <2>1 DEF Grows, Total, Terminal, Contract!Next,
                        Contract!Progress, Contract!Ended
  <1>5. CASE q \in Finished /\ runs'[q] = NoRun("evicted")
    BY <1>5 DEF Finished, Terminal, NoRun, Contract!Next, Contract!Forget,
                Contract!Ended
  <1>6. QED
    BY <1>1, <1>2, <1>3, <1>4, <1>5 DEF StoreChange

(* Every run keeps ReplayContract, whatever happens to the other runs.     *)
THEOREM ContractKept == Spec => EachRunKeepsContract
  <1>1. Init => \A r \in RunId : Contract(r)!Init
    BY DEF Init, NoRun, Contract!Init
  <1>2. IInv /\ [Next]_vars =>
          [\A r \in RunId : [Contract(r)!Next]_(Contract(r)!cvars)]_vars
    BY ContractStep DEF IInv
  <1>3. QED
    BY <1>1, <1>2, Invariant, PTL DEF Spec, EachRunKeepsContract

-----------------------------------------------------------------------------
(* Timelines.                                                              *)

(* Numbered(b, n) is the stretch of a timeline from b + 1 on, n records.   *)
Numbered(b, n) == [j \in 1 .. n |-> b + j]

LEMMA NumberedFacts ==
  ASSUME NEW b \in Nat, NEW n \in Nat
  PROVE  /\ Numbered(b, n) \in Seq(Nat)
         /\ Len(Numbered(b, n)) = n
         /\ Append(Numbered(b, n), b + n + 1) = Numbered(b, n + 1)
         /\ Numbered(b, 0) = <<>>
  BY DEF Numbered

LEMMA NumberedJoin ==
  ASSUME NEW b \in Nat, NEW n \in Nat, NEW m \in Nat
  PROVE  Numbered(b, n) \o Numbered(b + n, m) = Numbered(b, n + m)
  BY DEF Numbered

LEMMA NumberedPrefix ==
  ASSUME NEW b \in Nat, NEW n \in Nat, NEW m \in Nat, m <= n
  PROVE  SubSeq(Numbered(b, n), 1, m) = Numbered(b, m)
  BY DEF Numbered

(* What is above a cursor in such a stretch is its rest.                   *)
LEMMA AboveNumbered ==
  ASSUME NEW b \in Nat, NEW n \in Nat, NEW after \in Nat
  PROVE  LET cut == IF after > b THEN after - b ELSE 0
         IN Above(Numbered(b, n), after)
              = Numbered(b + cut, IF n > cut THEN n - cut ELSE 0)
  <1> DEFINE s == Numbered(b, n)
             cut == IF after > b THEN after - b ELSE 0
             rest(i) == Numbered(b + cut, IF i > cut THEN i - cut ELSE 0)
             Keeps(f) == f = [i \in 0 .. n |->
                IF i = 0 THEN <<>>
                ELSE IF s[i] > after THEN Append(f[i - 1], s[i])
                ELSE f[i - 1]]
             kept == CHOOSE f : Keeps(f)
             witness == [i \in 0 .. n |-> rest(i)]
  <1>0. cut \in Nat
    OBVIOUS
  <1>1. Keeps(witness)
    <2> SUFFICES ASSUME NEW i \in 0 .. n
                 PROVE  rest(i) = IF i = 0 THEN <<>>
                                  ELSE IF s[i] > after THEN Append(witness[i - 1], s[i])
                                  ELSE witness[i - 1]
      OBVIOUS
    <2>1. CASE i = 0
      <3>1. rest(0) = Numbered(b + cut, 0) /\ b + cut \in Nat
        BY <1>0
      <3>2. rest(0) = <<>>
        BY <3>1, NumberedFacts
      <3>3. QED
        BY <2>1, <3>2
    <2>2. CASE i # 0 /\ i > cut
      <3>1. s[i] = b + i /\ s[i] > after
        BY <2>2 DEF Numbered
      <3>2. witness[i - 1] = Numbered(b + cut, i - 1 - cut)
        BY <1>0, <2>2
      <3>3. Append(witness[i - 1], s[i]) = Numbered(b + cut, i - cut)
        <4> DEFINE k == i - 1 - cut
                   c == b + cut
        <4>1. k \in Nat /\ c \in Nat /\ k + 1 = i - cut /\ c + k + 1 = b + i
          BY <1>0, <2>2
        <4>2. Append(Numbered(c, k), c + k + 1) = Numbered(c, k + 1)
          BY <4>1, NumberedFacts
        <4>3. QED
          BY <3>1, <3>2, <4>1, <4>2
      <3>4. rest(i) = Numbered(b + cut, i - cut)
        BY <2>2
      <3> HIDE DEF rest, s, witness, cut
      <3>5. QED
        BY <2>2, <3>1, <3>3, <3>4
    <2>3. CASE i # 0 /\ ~ (i > cut)
      <3>1. ~ (s[i] > after)
        BY <2>3 DEF Numbered
      <3>2. witness[i - 1] = Numbered(b + cut, 0)
        BY <1>0, <2>3
      <3>3. QED
        BY <2>3, <3>1, <3>2
    <2>4. QED
      BY <2>1, <2>2, <2>3
  <1>2. Keeps(kept)
    BY <1>1
  <1>3. \A i \in 0 .. n : kept[i] = witness[i]
    <2> DEFINE N == {i \in 0 .. n : kept[i] # witness[i]}
    <2> SUFFICES ASSUME N # {}
                 PROVE  FALSE
      OBVIOUS
    <2>1. PICK m \in N : \A k \in N : m <= k
      <3> HIDE DEF N
      <3>1. N \in SUBSET Nat
        BY DEF N
      <3>2. QED
        BY <3>1, LeastNatural
    <2>2. m \in 0 .. n /\ kept[m] # witness[m]
      BY <2>1
    <2> HIDE DEF kept, witness, s, cut
    <2>3. CASE m = 0
      BY <1>1, <1>2, <2>2, <2>3
    <2>4. CASE m # 0
      <3>1. m - 1 \in 0 .. n /\ ~ (m <= m - 1)
        BY <2>2, <2>4
      <3>2. kept[m - 1] = witness[m - 1]
        BY <2>1, <3>1
      <3>3. QED
        BY <1>1, <1>2, <2>2, <3>2
    <2>5. QED
      BY <2>3, <2>4
  <1>4. Len(s) = n
    BY NumberedFacts
  <1>5. Above(s, after) = kept[n]
    BY <1>4 DEF Above
  <1>6. QED
    BY <1>3, <1>5

-----------------------------------------------------------------------------
(* The service under its readers: their steps are steps of the service, or *)
(* leave it alone, or restart it.                                          *)

LEMMA ServiceMoves ==
  ASSUME [CNext]_cvars
  PROVE  [Next]_vars \/ Restart
  <1>1. CASE \E r \in RunId, s \in Scenario, p \in Pace : PressStart(r, s, p)
    BY <1>1 DEF PressStart, Next
  <1>2. CASE LiveTick \/ PressRefresh \/ PollAfterStop
    BY <1>2 DEF LiveTick, PressRefresh, PollAfterStop, ReadRun
  <1>3. CASE ReadPage \/ StopAnswer \/ FollowPage \/ \E r \in RunId : Follow(r)
    BY <1>3 DEF ReadPage, StopAnswer, FollowPage, Follow
  <1>4. CASE PressStop
    BY <1>4, ConsoleAssumption DEF PressStop, StopArrives, Retained, Next
  <1>5. CASE Service
    BY <1>5, ConsoleAssumption DEF Service, Next
  <1>6. QED
    BY <1>1, <1>2, <1>3, <1>4, <1>5 DEF CNext, cvars

(* A restart empties the store.                                            *)
LEMMA RestartEmpties ==
  ASSUME TypeOK, Restart
  PROVE  /\ Active' = {} /\ Retained' = {}
         /\ \A q \in RunId : /\ runs'[q] = NoRun("evicted") \/ runs'[q] = runs[q]
                             /\ runs'[q].state \in {"unminted", "evicted"}
                             /\ q \in Retained => runs'[q] = NoRun("evicted")
                             /\ q \notin Retained => runs'[q] = runs[q]
  <1>1. ASSUME NEW q \in RunId
        PROVE  /\ runs'[q].state \in {"unminted", "evicted"}
               /\ q \in Retained => runs'[q] = NoRun("evicted")
               /\ q \notin Retained => runs'[q] = runs[q]
    BY DEF Restart, Retained, NoRun, TypeOK, Run
  <1>2. QED
    BY <1>1 DEF Active, Retained, Held, Terminal

LEMMA RestartInvariant ==
  ASSUME IInv, Restart
  PROVE  IInv'
  <1>0. TypeOK /\ Active' = {} /\ Retained' = {}
    BY RestartEmpties DEF IInv
  <1>1. TypeOK'
    <2>1. runs' \in [RunId -> Run]
      BY <1>0, NoRunType DEF Restart, TypeOK
    <2>2. [pc |-> "idle"] \in Call
      BY DEF Call
    <2>3. QED
      BY <1>0, <2>1, <2>2 DEF Restart, TypeOK
  <1>2. ASSUME NEW q \in RunId
        PROVE  /\ runs'[q].state \in {"unminted", "evicted"}
               /\ Len(runs'[q].records) <= EventCount[runs'[q].scenario]
               /\ runs'[q].reason = "replay_deadline_exceeded"
                    => ~ runs'[q].stopRequested
    <2>1. /\ runs'[q].state \in {"unminted", "evicted"}
          /\ runs'[q] = NoRun("evicted") \/ runs'[q] = runs[q]
      BY <1>0, RestartEmpties
    <2>2. EventCount[runs'[q].scenario] \in Nat
      BY <1>1, LimitsAssumption DEF TypeOK, Run
    <2>3. CASE runs'[q] = NoRun("evicted")
      BY <2>1, <2>2, <2>3 DEF NoRun
    <2>4. CASE runs'[q] = runs[q]
      BY <2>1, <2>4 DEF IInv, Positions, Total, Asked, Owed
    <2>5. QED
      BY <2>1, <2>3, <2>4
  <1>3. /\ \A c \in Caller : calls'[c].pc = "idle"
        /\ app' = "serving"
    BY DEF Restart
  <1>4. NoCreated' /\ NoneUndriven' /\ Positions' /\ CallsKnown' /\ StopHonest'
    BY <1>0, <1>2, <1>3
       DEF NoCreated, NoneUndriven, Positions, Total, CallsKnown, StopHonest
  <1>5. Bounded'
    BY <1>0, FS_EmptySet, LimitsAssumption DEF Bounded
  <1>6. Asked'
    BY <1>0, <1>2, <1>3 DEF Asked, TasksQuiet, CallersAsked, Owed
  <1>7. QED
    BY <1>1, <1>4, <1>5, <1>6 DEF IInv

LEMMA ServiceInvariant ==
  ASSUME IInv, [CNext]_cvars
  PROVE  IInv'
  BY InvariantStep, RestartInvariant, ServiceMoves

-----------------------------------------------------------------------------
(* The store as its readers see it.                                        *)

(* The runs that were admitted, kept or not.                               *)
Minted == {r \in RunId : runs[r].state # "unminted"}

(* Every timeline counts its records from 1.                               *)
InOrder ==
  \A r \in RunId : runs[r].records = Numbered(0, Len(runs[r].records))

LEMMA MintedStays ==
  ASSUME IInv, [CNext]_cvars
  PROVE  Minted \subseteq Minted'
  <1> SUFFICES ASSUME NEW q \in RunId, runs[q].state # "unminted"
               PROVE  runs'[q].state # "unminted"
    BY DEF Minted
  <1>1. CASE [Next]_vars
    BY <1>1, MintedStep DEF IInv
  <1>2. CASE Restart
    <2>1. runs'[q] = NoRun("evicted") \/ runs'[q] = runs[q]
      BY <1>2, RestartEmpties DEF IInv
    <2>2. QED
      BY <2>1 DEF NoRun
  <1>3. QED
    BY <1>1, <1>2, ServiceMoves

(* A run that was admitted and is kept was kept, its timeline has only     *)
(* grown, and if it had ended it is what it was.                           *)
LEMMA KeptMove ==
  ASSUME IInv, [CNext]_cvars, NEW q \in Minted, q \in Retained'
  PROVE  /\ q \in RunId /\ q \in Retained
         /\ Len(runs[q].records) \in Nat /\ Len(runs'[q].records) \in Nat
         /\ Len(runs[q].records) <= Len(runs'[q].records)
         /\ q \in Finished => runs'[q] = runs[q]
         /\ q \in Active' => q \in Active
  <1>0. q \in RunId /\ runs[q].state # "unminted" /\ runs'[q].state \in Held
    BY DEF Minted, Retained
  <1>1. ~ Restart
    BY <1>0, RestartEmpties DEF IInv
  <1>2. StoreChange(q) /\ runs[q].records \in Seq(Nat)
    BY <1>0, <1>1, ServiceMoves, StoreStep DEF IInv, TypeOK, Run
  <1>3. NoRun("evicted").state \notin Held
    BY DEF NoRun, Held, Terminal
  <1>4. CASE runs'[q] = runs[q]
    BY <1>0, <1>2, <1>4 DEF Retained, Active
  <1>5. CASE Grows(q)
    BY <1>0, <1>2, <1>5 DEF Grows, Retained, Active, Finished, Held, Terminal
  <1>6. QED
    BY <1>0, <1>2, <1>3, <1>4, <1>5 DEF StoreChange, Admitted

LEMMA InOrderStep ==
  ASSUME IInv, InOrder, [CNext]_cvars
  PROVE  InOrder'
  <1> SUFFICES ASSUME NEW q \in RunId
               PROVE  runs'[q].records = Numbered(0, Len(runs'[q].records))
    BY DEF InOrder
  <1> DEFINE n == Len(runs[q].records)
  <1>0. runs[q].records = Numbered(0, n) /\ n \in Nat
    BY DEF InOrder, IInv, TypeOK, Run
  <1>1. runs'[q] = NoRun("evicted") \/ StoreChange(q)
    BY StoreStep, ServiceMoves, RestartEmpties DEF IInv, StoreChange
  <1>2. CASE runs'[q].records = <<>>
    <2>1. Numbered(0, 0) = <<>> /\ Len(runs'[q].records) = 0
      BY <1>2, NumberedFacts
    <2>2. QED
      BY <1>2, <2>1
  <1>3. CASE runs'[q].records = Append(runs[q].records, n + 1)
    <2>1. runs'[q].records = Append(Numbered(0, n), 0 + n + 1)
      BY <1>0, <1>3
    <2>2. runs'[q].records = Numbered(0, n + 1)
      BY <1>0, <2>1, NumberedFacts
    <2>3. Len(runs'[q].records) = n + 1
      <3>1. n + 1 \in Nat
        BY <1>0
      <3>2. Len(Numbered(0, n + 1)) = n + 1
        BY <3>1, NumberedFacts
      <3>3. QED
        BY <2>2, <3>2
    <2>4. QED
      BY <2>2, <2>3
  <1>4. CASE runs'[q].records = runs[q].records
    BY <1>0, <1>4
  <1>5. QED
    BY <1>1, <1>2, <1>3, <1>4 DEF StoreChange, Admitted, Grows, NoRun

(* A page is the stretch above the cursor; and if nothing more is expected *)
(* it reaches to the end of a timeline that grows no further.              *)
LEMMA PageFacts ==
  ASSUME IInv, InOrder, NEW r \in RunId, NEW after \in Nat,
         NEW lim \in Nat \ {0}, after <= Len(runs[r].records)
  PROVE  \E size \in Nat :
           /\ Page(r, after, lim).records = Numbered(after, size)
           /\ after + size <= Len(runs[r].records)
           /\ ~ Page(r, after, lim).more =>
                r \notin Active /\ after + size = Len(runs[r].records)
  <1> DEFINE n == Len(runs[r].records)
             left == n - after
             size == IF left > lim THEN lim ELSE left
             pending == Above(runs[r].records, after)
  <1>0. n \in Nat /\ left \in Nat /\ size \in Nat /\ size <= left
    BY DEF IInv, TypeOK, Run
  <1>1. pending = Numbered(after, left)
    <2>1. runs[r].records = Numbered(0, n)
      BY DEF InOrder
    <2>2. LET cut == IF after > 0 THEN after - 0 ELSE 0
          IN Above(Numbered(0, n), after)
               = Numbered(0 + cut, IF n > cut THEN n - cut ELSE 0)
      BY <1>0, AboveNumbered
    <2>3. (IF after > 0 THEN after - 0 ELSE 0) = after
          /\ (IF n > after THEN n - after ELSE 0) = left /\ 0 + after = after
      BY <1>0
    <2>4. QED
      BY <2>1, <2>2, <2>3
  <1>2. Len(pending) = left
    BY <1>0, <1>1, NumberedFacts
  <1>3. SubSeq(pending, 1, size) = Numbered(after, size)
    <2> HIDE DEF pending, size, left
    <2>1. SubSeq(Numbered(after, left), 1, size) = Numbered(after, size)
      BY <1>0, NumberedPrefix
    <2>2. QED
      BY <1>1, <2>1
  <1>4. /\ Page(r, after, lim).records = SubSeq(pending, 1, size)
        /\ ~ Page(r, after, lim).more => r \notin Active /\ ~ (size < left)
    BY <1>2 DEF Page
  <1>5. QED
    BY <1>0, <1>3, <1>4

-----------------------------------------------------------------------------
(* The invariant of the page and of the other client.                      *)

SessionInv ==
  /\ att \subseteq Minted /\ \A q, r \in att : q = r
  /\ mine \subseteq Minted
  /\ cursor \in Nat /\ shown = Numbered(0, cursor)
  /\ \A r \in att \cap Retained :
       /\ cursor <= Len(runs[r].records)
       /\ seen \in Terminal => seen = runs[r].state
  /\ ~ failed => mine \cap Active \subseteq att
  /\ pc = "stop" /\ calls[Desk].pc # "idle" => calls[Desk].run \in att

ReaderInv ==
  /\ reader \in [run : SUBSET Minted, got : Seq(Nat), more : BOOLEAN]
  /\ \A q, r \in reader.run : q = r
  /\ reader.got = Numbered(0, Len(reader.got))
  /\ reader.run = {} => reader.got = <<>> /\ reader.more
  /\ \A r \in reader.run \cap Retained :
       Len(reader.got) <= Len(runs[r].records)
  /\ LastPageIsLast

CInv == IInv /\ InOrder /\ SessionInv /\ ReaderInv

(* What a step leaves true of a page that stays as it is.                  *)
LEMMA SessionKept ==
  ASSUME IInv, SessionInv, [CNext]_cvars
  PROVE  /\ att \subseteq Minted' /\ mine \subseteq Minted'
         /\ \A r \in att \cap Retained' :
              /\ cursor <= Len(runs'[r].records)
              /\ seen \in Terminal => seen = runs'[r].state
         /\ ~ failed => mine \cap Active' \subseteq att \cap Active
  <1>1. ASSUME NEW r \in att, r \in Retained'
        PROVE  /\ cursor <= Len(runs'[r].records)
               /\ seen \in Terminal => seen = runs'[r].state
    <2>1. r \in Minted /\ cursor \in Nat
      BY DEF SessionInv
    <2>2. /\ r \in RunId /\ r \in Retained
          /\ Len(runs[r].records) \in Nat /\ Len(runs'[r].records) \in Nat
          /\ Len(runs[r].records) <= Len(runs'[r].records)
          /\ r \in Finished => runs'[r] = runs[r]
      BY <1>1, <2>1, KeptMove
    <2>3. /\ cursor <= Len(runs[r].records)
          /\ seen \in Terminal => seen = runs[r].state
      BY <2>2 DEF SessionInv
    <2>4. seen \in Terminal => r \in Finished
      BY <2>2, <2>3 DEF Finished
    <2>5. QED
      BY <2>1, <2>2, <2>3, <2>4
  <1>2. ASSUME NEW q \in mine, q \in Active'
        PROVE  q \in Active
    <2>1. q \in Minted /\ q \in Retained'
      BY <1>2 DEF SessionInv, Active, Retained, Held
    <2>2. QED
      BY <1>2, <2>1, KeptMove
  <1>3. QED
    BY <1>1, <1>2, MintedStays DEF SessionInv

(* The page's own stop call goes on being about the run it named.          *)
LEMMA DeskMove ==
  ASSUME TypeOK, CNext, ~ PressStop, calls'[Desk].pc # "idle"
  PROVE  calls[Desk].pc # "idle" /\ calls'[Desk].run = calls[Desk].run
  <1>1. ASSUME NEW r \in RunId, RunStep(r)
        PROVE  calls' = calls
    BY <1>1, RunStepFair
  <1>2. ASSUME NEW c \in Caller \ {Desk}, NEW r \in RunId, StopArrives(c, r)
        PROVE  calls'[Desk] = calls[Desk]
    BY <1>2, ConsoleAssumption DEF StopArrives, Answer, TypeOK
  <1>3. ASSUME NEW c \in Caller, CallStep(c)
        PROVE  calls[Desk].pc # "idle" /\ calls'[Desk].run = calls[Desk].run
    <2>1. CASE c = Desk
      BY <1>3, <2>1 DEF CallStep, StopResumes, StopTimesOut, Answer, TypeOK
    <2>2. CASE c # Desk
      <3>1. calls'[Desk] = calls[Desk]
        BY <1>3, <2>2, ConsoleAssumption
           DEF CallStep, StopResumes, StopTimesOut, Answer, TypeOK
      <3>2. QED
        BY <3>1
    <2>3. QED
      BY <2>1, <2>2
  <1>4. CASE Service
    BY <1>1, <1>2, <1>3, <1>4 DEF Service, StartRun, AbandonedReturns
  <1>5. CASE Restart
    BY <1>5, ConsoleAssumption DEF Restart
  <1>6. QED
    BY <1>4, <1>5 DEF CNext, PressStart, StartRun, LiveTick, PressRefresh,
       PollAfterStop, ReadRun, ReadPage, StopAnswer, Follow, FollowPage, vars

(* The page absorbs exactly what follows what it shows.                    *)
LEMMA AbsorbFacts ==
  ASSUME IInv, InOrder, SessionInv, NEW r \in att \cap Retained
  PROVE  LET new == Above(Page(r, cursor, PollLimit).records, cursor)
             next == IF new = <<>> THEN cursor ELSE new[Len(new)]
         IN /\ next \in Nat
            /\ next <= Len(runs[r].records)
            /\ shown \o new = Numbered(0, next)
  <1> DEFINE new == Above(Page(r, cursor, PollLimit).records, cursor)
             next == IF new = <<>> THEN cursor ELSE new[Len(new)]
  <1>0. /\ r \in RunId /\ cursor \in Nat /\ shown = Numbered(0, cursor)
        /\ cursor <= Len(runs[r].records)
        /\ Len(runs[r].records) \in Nat
    BY DEF SessionInv, Retained, IInv, TypeOK, Run
  <1>1. PICK size \in Nat :
          /\ Page(r, cursor, PollLimit).records = Numbered(cursor, size)
          /\ cursor + size <= Len(runs[r].records)
    BY <1>0, ConsoleAssumption, PageFacts
  <1>2. new = Numbered(cursor, size)
    <2>1. LET cut == IF cursor > cursor THEN cursor - cursor ELSE 0
          IN Above(Numbered(cursor, size), cursor)
               = Numbered(cursor + cut, IF size > cut THEN size - cut ELSE 0)
      BY <1>0, AboveNumbered
    <2>2. (IF cursor > cursor THEN cursor - cursor ELSE 0) = 0
          /\ (IF size > 0 THEN size - 0 ELSE 0) = size /\ cursor + 0 = cursor
      BY <1>0
    <2>3. QED
      BY <1>1, <2>1, <2>2
  <1>3. next = cursor + size
    <2>1. CASE size = 0
      BY <1>0, <1>2, <2>1, NumberedFacts
    <2>2. CASE size # 0
      <3>1. Len(new) = size /\ new[size] = cursor + size
        BY <1>0, <1>2, <2>2 DEF Numbered
      <3>2. new # <<>>
        BY <2>2, <3>1
      <3>3. QED
        BY <3>1, <3>2
    <2>3. QED
      BY <2>1, <2>2
  <1>4. shown \o new = Numbered(0, cursor + size)
    <2>1. Numbered(0, cursor) \o Numbered(0 + cursor, size) = Numbered(0, cursor + size)
      BY <1>0, NumberedJoin
    <2>2. 0 + cursor = cursor
      BY <1>0
    <2>3. QED
      BY <1>0, <1>2, <2>1, <2>2
  <1> HIDE DEF new, next
  <1>5. next \in Nat /\ next <= Len(runs[r].records) /\ shown \o new = Numbered(0, next)
    BY <1>0, <1>1, <1>3, <1>4
  <1>6. QED
    BY <1>5 DEF new, next

LEMMA SessionStep ==
  ASSUME IInv, InOrder, SessionInv, [CNext]_cvars
  PROVE  SessionInv'
  <1>0. /\ TypeOK /\ ConsoleAssumption
        /\ cursor \in Nat /\ shown = Numbered(0, cursor)
        /\ \A q, r \in att : q = r
        /\ \A r \in att : r \in RunId
        /\ 0 \in Nat /\ <<>> = Numbered(0, 0)
    BY ConsoleAssumption, NumberedFacts DEF IInv, SessionInv, Minted
  <1>1. /\ att \subseteq Minted' /\ mine \subseteq Minted'
        /\ \A r \in att \cap Retained' :
             /\ cursor <= Len(runs'[r].records)
             /\ seen \in Terminal => seen = runs'[r].state
        /\ ~ failed => mine \cap Active' \subseteq att \cap Active
    BY SessionKept
  <1>2. ASSUME NEW r \in RunId, NEW s \in Scenario, NEW p \in Pace,
               PressStart(r, s, p)
        PROVE  SessionInv'
    <2>1. /\ r \in Minted' /\ mine' = mine \cup {r}
          /\ pc' = "idle" /\ ~ SeenActive
          /\ Len(runs'[r].records) = 0
      BY <1>2 DEF PressStart, StartRun, Minted, NoRun
    <2>2. CASE failed'
      <3>1. UNCHANGED <<att, seen, cursor, shown>> \/ att' = {r}
        BY <1>2 DEF PressStart
      <3>2. CASE UNCHANGED <<att, seen, cursor, shown>>
        BY <1>0, <1>1, <2>1, <2>2, <3>2 DEF SessionInv
      <3>3. CASE ~ UNCHANGED <<att, seen, cursor, shown>>
        <4>1. /\ att' = {r} /\ seen' = "running" /\ cursor' = 0
              /\ shown' = <<>>
          BY <1>2, <3>3 DEF PressStart
        <4>2. QED
          BY <1>0, <1>1, <2>1, <2>2, <4>1 DEF SessionInv, Terminal
      <3>4. QED
        BY <3>2, <3>3
    <2>3. CASE ~ failed'
      <3>1. /\ att' = {r} /\ seen' = "running" /\ cursor' = 0
            /\ shown' = <<>> /\ failed' = failed
        BY <1>2, <2>3 DEF PressStart
      <3>2. mine \cap Active' = {}
        <4>1. SUFFICES ASSUME NEW q \in mine, q \in Active'
                       PROVE  FALSE
          OBVIOUS
        <4>2. q \in att /\ q \in Active
          BY <1>1, <2>3, <3>1, <4>1
        <4>3. q \in Retained /\ runs[q].state \notin Terminal
          BY <4>2 DEF Active, Retained, Held, Terminal
        <4>4. seen \in Terminal
          BY <2>1, <4>2 DEF SeenActive
        <4>5. QED
          BY <4>2, <4>3, <4>4 DEF SessionInv
      <3>3. QED
        BY <1>0, <1>1, <2>1, <3>1, <3>2 DEF SessionInv, Terminal
    <2>4. QED
      BY <2>2, <2>3
  <1>3. CASE ReadRun("idle") \/ ReadRun("stopped")
    <2>1. /\ UNCHANGED <<att, cursor, shown, mine, vars>>
          /\ pc' # "stop"
      BY <1>3 DEF ReadRun
    <2>2. failed => failed'
      BY <1>3 DEF ReadRun
    <2>3. CASE seen' = seen
      BY <1>0, <1>1, <2>1, <2>2, <2>3 DEF SessionInv
    <2>4. CASE seen' # seen
      <3>1. att \subseteq Retained /\ seen' \in {runs[r].state : r \in att}
        BY <1>3, <2>4 DEF ReadRun
      <3>2. \A r \in att : seen' = runs[r].state
        BY <1>0, <3>1
      <3>3. runs' = runs
        BY <2>1 DEF vars
      <3>4. QED
        BY <1>0, <1>1, <2>1, <2>2, <3>2, <3>3 DEF SessionInv
    <2>5. QED
      BY <2>3, <2>4
  <1>4. CASE ReadPage
    <2>1. UNCHANGED <<att, seen, mine, vars>> /\ pc' = "idle"
      BY <1>4 DEF ReadPage
    <2>2. failed => failed'
      BY <1>4 DEF ReadPage
    <2>3. CASE UNCHANGED <<shown, cursor>>
      BY <1>0, <1>1, <2>1, <2>2, <2>3 DEF SessionInv
    <2>4. CASE ~ UNCHANGED <<shown, cursor>>
      <3>1. PICK r \in att \cap Retained :
              LET new == Above(Page(r, cursor, PollLimit).records, cursor)
              IN /\ shown' = shown \o new
                 /\ cursor' = IF new = <<>> THEN cursor ELSE new[Len(new)]
        BY <1>4, <2>4 DEF ReadPage
      <3>2. /\ cursor' \in Nat
            /\ cursor' <= Len(runs[r].records)
            /\ shown' = Numbered(0, cursor')
        BY <3>1, AbsorbFacts
      <3>3. runs' = runs /\ \A q \in att : q = r
        BY <1>0, <2>1, <3>1 DEF vars
      <3>4. QED
        BY <1>0, <1>1, <2>1, <2>2, <3>2, <3>3 DEF SessionInv
    <2>5. QED
      BY <2>3, <2>4
  <1>5. CASE PressStop
    <2>1. /\ UNCHANGED <<att, seen, cursor, shown, failed, mine>>
          /\ \E r \in att : StopArrives(Desk, r)
      BY <1>5 DEF PressStop
    <2>2. PICK r \in att : StopArrives(Desk, r)
      BY <2>1
    <2>3. calls'[Desk].run = r
      BY <1>0, <2>2 DEF StopArrives, Answer, TypeOK, ConsoleAssumption
    <2>4. QED
      BY <1>0, <1>1, <2>1, <2>2, <2>3 DEF SessionInv
  <1>6. CASE StopAnswer
    <2>1. /\ UNCHANGED <<att, cursor, shown, mine, vars>>
          /\ pc = "stop" /\ pc' # "stop" /\ (failed => failed')
      BY <1>6 DEF StopAnswer
    <2>2. CASE seen' = seen
      BY <1>0, <1>1, <2>1, <2>2 DEF SessionInv
    <2>3. CASE seen' # seen
      <3>1. /\ calls[Desk].pc = "answered" /\ calls[Desk].found
            /\ seen' = calls[Desk].state
        BY <1>6, <2>3 DEF StopAnswer
      <3>2. calls[Desk].run \in att
        BY <2>1, <3>1 DEF SessionInv
      <3>3. ASSUME NEW r \in att \cap Retained
            PROVE  seen' = runs[r].state
        <4>1. calls[Desk].run = r
          BY <1>0, <3>2
        <4>2. QED
          BY <1>0, <3>1, <4>1 DEF IInv, StopHonest, ConsoleAssumption
      <3>4. runs' = runs /\ Retained' = Retained
        BY <2>1 DEF vars, Retained
      <3>5. QED
        BY <1>0, <1>1, <2>1, <3>3, <3>4 DEF SessionInv
    <2>4. QED
      BY <2>2, <2>3
  <1>7. CASE UNCHANGED session /\ CNext /\ ~ PressStop
    <2>1. calls'[Desk].pc # "idle" =>
            calls[Desk].pc # "idle" /\ calls'[Desk].run = calls[Desk].run
      BY <1>0, <1>7, DeskMove
    <2>2. UNCHANGED <<att, seen, cursor, shown, pc, failed, mine>>
      BY <1>7 DEF session
    <2>3. pc' = "stop" /\ calls'[Desk].pc # "idle" => calls'[Desk].run \in att'
      BY <2>1, <2>2 DEF SessionInv
    <2>4. QED
      BY <1>0, <1>1, <2>2, <2>3 DEF SessionInv
  <1>8. CASE UNCHANGED cvars
    <2>1. UNCHANGED <<att, seen, cursor, shown, pc, failed, mine, calls>>
      BY <1>8 DEF cvars, session, vars
    <2>2. pc' = "stop" /\ calls'[Desk].pc # "idle" => calls'[Desk].run \in att'
      BY <2>1 DEF SessionInv
    <2>3. QED
      BY <1>0, <1>1, <2>1, <2>2 DEF SessionInv
  <1>9. ASSUME (\E r \in RunId : Follow(r)) \/ FollowPage \/ Restart \/ Service
        PROVE  UNCHANGED session
    BY <1>9 DEF Follow, FollowPage, Restart, Service
  <1>10. QED
    BY <1>2, <1>3, <1>4, <1>5, <1>6, <1>7, <1>8, <1>9
       DEF CNext, LiveTick, PressRefresh, PollAfterStop

LEMMA ReaderStep ==
  ASSUME IInv, InOrder, ReaderInv, [CNext]_cvars
  PROVE  ReaderInv'
  <1> DEFINE g == Len(reader.got)
  <1>0. /\ reader \in [run : SUBSET Minted, got : Seq(Nat), more : BOOLEAN]
        /\ reader.run \subseteq Minted
        /\ \A q, r \in reader.run : q = r
        /\ reader.got = Numbered(0, g) /\ g \in Nat
        /\ reader.run = {} => reader.got = <<>> /\ reader.more
    BY DEF ReaderInv
  <1>1. Minted \subseteq Minted'
    BY MintedStays
  <1>2. ASSUME NEW r \in reader.run, r \in Retained'
        PROVE  /\ g <= Len(runs'[r].records)
               /\ ~ reader.more => r \in Finished' /\ reader.got = runs'[r].records
    <2>1. /\ r \in RunId /\ r \in Retained
          /\ Len(runs[r].records) \in Nat /\ Len(runs'[r].records) \in Nat
          /\ Len(runs[r].records) <= Len(runs'[r].records)
          /\ r \in Finished => runs'[r] = runs[r]
      BY <1>0, <1>2, KeptMove
    <2>2. /\ g <= Len(runs[r].records)
          /\ ~ reader.more => r \in Finished /\ reader.got = runs[r].records
      BY <2>1 DEF ReaderInv, LastPageIsLast
    <2>3. QED
      BY <1>0, <2>1, <2>2 DEF Finished
  <1>3. CASE reader' = reader
    BY <1>0, <1>1, <1>2, <1>3 DEF ReaderInv, LastPageIsLast
  <1>4. ASSUME NEW r \in RunId, Follow(r)
        PROVE  ReaderInv'
    <2>1. /\ reader.run = {} /\ r \in Retained
          /\ reader' = [reader EXCEPT !.run = {r}]
          /\ UNCHANGED vars
      BY <1>4 DEF Follow
    <2>2. r \in Minted
      BY <2>1 DEF Retained, Minted, Held, Terminal
    <2>3. reader.got = <<>> /\ reader.more
      BY <1>0, <2>1
    <2>4. reader' \in [run : SUBSET Minted', got : Seq(Nat), more : BOOLEAN]
      BY <1>0, <1>1, <2>1, <2>2
    <2>5. reader'.run = {r} /\ reader'.got = <<>> /\ reader'.more
      BY <1>0, <2>1, <2>3
    <2>6. Len(runs'[r].records) \in Nat
      BY <2>1 DEF IInv, TypeOK, Run, vars
    <2>7. QED
      BY <2>4, <2>5, <2>6, NumberedFacts DEF ReaderInv, LastPageIsLast
  <1>5. CASE FollowPage
    <2>1. PICK r \in reader.run \cap Retained :
            LET page == Page(r, g, ReadLimit)
            IN reader' = [reader EXCEPT !.got = @ \o page.records,
                                        !.more = page.more]
      BY <1>5 DEF FollowPage
    <2>2. r \in RunId /\ g <= Len(runs[r].records) /\ runs' = runs
      BY <1>5, <2>1 DEF ReaderInv, Retained, FollowPage, vars
    <2>3. PICK size \in Nat :
            /\ Page(r, g, ReadLimit).records = Numbered(g, size)
            /\ g + size <= Len(runs[r].records)
            /\ ~ Page(r, g, ReadLimit).more =>
                 r \notin Active /\ g + size = Len(runs[r].records)
      BY <1>0, <2>2, ConsoleAssumption, PageFacts
    <2>4. reader.got \o Numbered(g, size) = Numbered(0, g + size)
      <3>1. Numbered(0, g) \o Numbered(0 + g, size) = Numbered(0, g + size)
        BY <1>0, NumberedJoin
      <3>2. 0 + g = g
        BY <1>0
      <3>3. QED
        BY <1>0, <3>1, <3>2
    <2>5. /\ reader'.run = reader.run
          /\ reader'.got = Numbered(0, g + size)
          /\ reader'.more = Page(r, g, ReadLimit).more
      BY <1>0, <2>1, <2>3, <2>4
    <2>6. /\ g + size \in Nat
          /\ Numbered(0, g + size) \in Seq(Nat)
          /\ Len(Numbered(0, g + size)) = g + size
      <3>1. g + size \in Nat
        BY <1>0
      <3>2. QED
        BY <3>1, NumberedFacts
    <2>7. Page(r, g, ReadLimit).more \in BOOLEAN
      BY DEF Page
    <2>8. reader' \in [run : SUBSET Minted', got : Seq(Nat), more : BOOLEAN]
      BY <1>0, <1>1, <2>1, <2>3, <2>4, <2>6, <2>7
    <2>9. ~ reader'.more => r \in Finished /\ reader'.got = runs[r].records
      <3>1. SUFFICES ASSUME ~ reader'.more
                     PROVE  r \in Finished /\ reader'.got = runs[r].records
        OBVIOUS
      <3>2. r \notin Active /\ g + size = Len(runs[r].records)
        BY <2>3, <2>5, <3>1
      <3>3. runs[r].records = Numbered(0, Len(runs[r].records))
        BY <2>2 DEF InOrder
      <3>4. r \in Finished
        BY <2>1, <3>2 DEF Retained, Active, Finished, Held
      <3>5. QED
        BY <2>5, <3>2, <3>3, <3>4
    <2> HIDE DEF g
    <2>10. /\ Len(reader'.got) = g + size
           /\ reader'.got = Numbered(0, Len(reader'.got))
           /\ \A q \in reader'.run : q = r
           /\ reader'.run # {}
      BY <1>0, <2>1, <2>5, <2>6
    <2>11. Retained' = Retained /\ Finished' = Finished
      BY <2>2 DEF Retained, Finished
    <2>12. \A q \in reader'.run \cap Retained' : Len(reader'.got) <= Len(runs'[q].records)
      BY <2>2, <2>3, <2>10
    <2>13. LastPageIsLast'
      BY <2>2, <2>9, <2>10, <2>11 DEF LastPageIsLast
    <2>14. QED
      BY <2>8, <2>10, <2>12, <2>13 DEF ReaderInv
  <1>6. \/ reader' = reader
        \/ FollowPage
        \/ \E r \in RunId : Follow(r)
    BY DEF CNext, cvars, PressStart, LiveTick, PressRefresh, PollAfterStop,
       ReadRun, ReadPage, PressStop, StopAnswer, Restart, Service
  <1>7. QED
    BY <1>3, <1>4, <1>5, <1>6

LEMMA ConsoleInit == CInit => CInv
  <1> SUFFICES ASSUME CInit
               PROVE  CInv
    OBVIOUS
  <1>1. IInv /\ \A r \in RunId : runs[r] = NoRun("unminted")
    BY InitInvariant DEF CInit, Init
  <1>2. <<>> = Numbered(0, 0) /\ Len(<<>>) = 0 /\ <<>> \in Seq(Nat)
    BY NumberedFacts
  <1>3. InOrder /\ Minted = {}
    <2>1. \A r \in RunId : runs[r].records = <<>> /\ runs[r].state = "unminted"
      <3>1. NoRun("unminted").records = <<>> /\ NoRun("unminted").state = "unminted"
        BY DEF NoRun
      <3>2. QED
        BY <1>1, <3>1
    <2>2. \A r \in RunId : runs[r].records = Numbered(0, Len(runs[r].records))
      BY <1>2, <2>1
    <2>3. QED
      BY <2>1, <2>2 DEF InOrder, Minted
  <1>4. SessionInv
    BY <1>2, <1>3 DEF CInit, SessionInv
  <1>5. ReaderInv
    BY <1>2, <1>3 DEF CInit, ReaderInv, LastPageIsLast
  <1>6. QED
    BY <1>1, <1>3, <1>4, <1>5 DEF CInv

(* The inductive invariant of the page, the other client and the service:  *)
(* what either has seen is a beginning of what the store holds.            *)
THEOREM ConsoleInvariant == CSpec => []CInv
  <1>1. CInv /\ [CNext]_cvars => CInv'
    BY ServiceInvariant, InOrderStep, SessionStep, ReaderStep DEF CInv
  <1>2. QED
    BY <1>1, ConsoleInit, PTL DEF CSpec

(* Whatever the interleaving of the page's requests with the service, its  *)
(* restarts and other clients, the page shows a beginning of the timeline. *)
THEOREM ViewsAreFaithful == CSpec => []ViewIsFaithful
  <1>1. CInv => ViewIsFaithful
    <2> SUFFICES ASSUME CInv
                 PROVE  ViewIsFaithful
      OBVIOUS
    <2>1. cursor \in Nat /\ shown = Numbered(0, cursor) /\ Len(shown) = cursor
      BY NumberedFacts DEF CInv, SessionInv
    <2>2. ASSUME NEW r \in att \cap Retained
          PROVE  /\ cursor <= Len(runs[r].records)
                 /\ shown = SubSeq(runs[r].records, 1, cursor)
                 /\ seen \in Terminal => seen = runs[r].state
      <3> DEFINE n == Len(runs[r].records)
      <3>1. /\ r \in RunId /\ cursor <= n /\ n \in Nat
            /\ seen \in Terminal => seen = runs[r].state
            /\ runs[r].records = Numbered(0, n)
        BY DEF CInv, SessionInv, InOrder, Retained, IInv, TypeOK, Run
      <3> HIDE DEF n
      <3>2. SubSeq(Numbered(0, n), 1, cursor) = Numbered(0, cursor)
        BY <2>1, <3>1, NumberedPrefix
      <3>3. QED
        BY <2>1, <3>1, <3>2 DEF n
    <2>3. QED
      BY <2>1, <2>2 DEF ViewIsFaithful, CInv, SessionInv
  <1>2. QED
    BY <1>1, ConsoleInvariant, PTL

(* A client told that no more is expected has all there will ever be.      *)
THEOREM LastPagesAreLast == CSpec => []LastPageIsLast
  <1>1. CInv => LastPageIsLast
    BY DEF CInv, ReaderInv
  <1>2. QED
    BY <1>1, ConsoleInvariant, PTL
====
