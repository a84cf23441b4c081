------------------------------- MODULE Replay -------------------------------
(***************************************************************************)
(* The live replay service: ReplayStore (replay/store.py), ReplayEngine    *)
(* (replay/engine.py) and the request handlers that drive them             *)
(* (replay/service.py), on one asyncio event loop.                         *)
(*                                                                         *)
(* GRAIN OF ATOMICITY.  A coroutine runs without interruption from one     *)
(* await that really suspends to the next.  The store's lock is never      *)
(* contended (no critical section awaits), so awaiting a store method      *)
(* never suspends.  What suspends is: a new task's first turn, the pace    *)
(* delay, the detector (a worker thread), the stop call's wait for the     *)
(* task, and shutdown's gather.  Each action below is the whole stretch of *)
(* code between two of these.                                              *)
(***************************************************************************)
EXTENDS Naturals, Sequences, FiniteSets

CONSTANTS
  RunId,       \* run identifiers, each minted at most once (uuid4)
  Scenario,    \* the reviewed scenario catalog
  EventCount,  \* [Scenario -> number of events the scenario emits]
  Pace,        \* the paces offered, by whether their interval is positive
  Caller,      \* request handlers that may be inside a stop call
  MaxActive,   \* ReplayLimits.max_active_runs
  MaxRetained, \* ReplayLimits.max_retained_runs
  MaxRecords   \* ReplayLimits.max_records_per_run

(* What ReplayLimits.__post_init__ and the scenario schema enforce.        *)
ASSUME LimitsAssumption ==
  /\ MaxActive \in Nat \ {0}
  /\ MaxRetained \in Nat \ {0}
  /\ MaxRecords \in Nat \ {0}
  /\ MaxRetained >= MaxActive
  /\ EventCount \in [Scenario -> Nat \ {0}]
  /\ Pace \subseteq BOOLEAN
  /\ Scenario # {}
  /\ IsFiniteSet(RunId)

VARIABLES
  runs,     \* ReplayStore._runs, with the identifiers never minted or evicted
  born,     \* the position in ReplayStore._order: creation number of each run
  task,     \* where the run's background task is suspended
  index,    \* the index of the event the task is at
  overdue,  \* the task's loop clock has passed its deadline
  stops,    \* ReplayEngine._stops: no event, a clear one, a set one
  workers,  \* the runs with a detection still occupying a worker thread
  calls,    \* the stop calls in flight and their last answers
  app       \* the application's lifespan

vars == <<runs, born, task, index, overdue, stops, workers, calls, app>>

-----------------------------------------------------------------------------
(* The run state machine, replay/enums.py.                                 *)

Terminal == {"completed", "stopped", "failed"}
Held     == {"created", "running"} \cup Terminal
Reason   == {"none", "replay_detection_failed", "replay_deadline_exceeded",
             "replay_record_limit_reached"}

AllowedTransitions ==
  [created   |-> {"running", "stopped", "failed"},
   running   |-> {"completed", "stopped", "failed"},
   completed |-> {}, stopped |-> {}, failed |-> {}]

Retained == {r \in RunId : runs[r].state \in Held}
Active   == {r \in RunId : runs[r].state \in {"created", "running"}}
Finished == {r \in RunId : runs[r].state \in Terminal}

NoRun(s) == [state |-> s, scenario |-> CHOOSE x \in Scenario : TRUE,
             paced |-> FALSE, records |-> <<>>, reason |-> "none",
             stopRequested |-> FALSE]

(* Fault: the state machine is not consulted, a terminal state is left.    *)
SettledAgain(rs, r, target, why) ==
  IF rs[r].state \in Held
  THEN [rs EXCEPT ![r].state = target, ![r].reason = why]
  ELSE rs

(* ReplayStore.transition, as every caller in the engine uses it: a run    *)
(* that is unknown or has no such edge is left as it is.  The catalog's    *)
(* reason codes are given exactly to failures.                             *)
Settled(rs, r, target, why) ==
  IF /\ rs[r].state \in Held
     /\ target \in AllowedTransitions[rs[r].state]
     /\ (target = "failed") <=> (why # "none")
  THEN [rs EXCEPT ![r].state = target, ![r].reason = why]
  ELSE rs

Stopped(rs, r) == Settled(rs, r, "stopped", "none")

-----------------------------------------------------------------------------
(* POST /runs: service.start_run = store.create, then engine.start.        *)

(* ReplayStore._evict_finished: while the store is full, the oldest        *)
(* finished run goes; the loop gives up when none is left.                 *)
Older(r) == {q \in Finished : born[q] < born[r]}
(* Fault: one run more than the limit is kept.                             *)
VictimsOffByOne ==
  {r \in Finished :
     Cardinality(Older(r)) + MaxRetained < Cardinality(Retained)}

(* Fault: the newest finished run is dropped first.                        *)
VictimsNewest ==
  {r \in Finished :
     Cardinality({q \in Finished : born[q] > born[r]}) + MaxRetained
       <= Cardinality(Retained)}

Victims ==
  {r \in Finished :
     Cardinality(Older(r)) + MaxRetained <= Cardinality(Retained)}

StartRun(r, s, p) ==
  /\ app = "serving"
  /\ runs[r].state = "unminted"
  /\ Cardinality(Active) < MaxActive
  /\ runs' = [q \in RunId |->
       IF q = r THEN [NoRun("running") EXCEPT !.scenario = s, !.paced = p]
       ELSE IF q \in Victims THEN NoRun("evicted") ELSE runs[q]]
  /\ born' = [born EXCEPT ![r] =
       Cardinality({q \in RunId : runs[q].state # "unminted"})]
  /\ task' = [task EXCEPT ![r] = "ready"]
  /\ stops' = [stops EXCEPT ![r] = "clear"]
  /\ UNCHANGED <<index, overdue, workers, calls, app>>

-----------------------------------------------------------------------------
(* The background task, ReplayEngine._drive.  Turn is one pass of its loop *)
(* from the top to the next await: rs is the store as this pass finds it.  *)

Live == {"ready", "pausing", "scoring", "cancelling"}

Exit(r, rs) ==
  /\ task' = [task EXCEPT ![r] = "done"]
  /\ index' = [index EXCEPT ![r] = 0]
  /\ overdue' = [overdue EXCEPT ![r] = FALSE]
  /\ runs' = rs

Suspend(r, i, rs, at) ==
  /\ task' = [task EXCEPT ![r] = at]
  /\ index' = [index EXCEPT ![r] = i]
  /\ runs' = rs
  /\ UNCHANGED overdue

(* Fault: the deadline is looked at before the stop flag.                  *)
AfterDelayDeadlineFirst(r, i, rs) ==
  \/ /\ overdue[r]
     /\ Exit(r, Settled(rs, r, "failed", "replay_deadline_exceeded"))
  \/ /\ ~ overdue[r]
     /\ rs[r].stopRequested
     /\ Exit(r, Stopped(rs, r))
  \/ /\ ~ overdue[r]
     /\ ~ rs[r].stopRequested
     /\ Suspend(r, i, rs, "scoring")

(* Fault: only the deadline is looked at.                                  *)
AfterDelayUnstoppable(r, i, rs) ==
  \/ /\ overdue[r]
     /\ Exit(r, Settled(rs, r, "failed", "replay_deadline_exceeded"))
  \/ /\ ~ overdue[r]
     /\ Suspend(r, i, rs, "scoring")

(* After the pace delay: the stop flag, the deadline, then the detector.   *)
AfterDelay(r, i, rs) ==
  \/ /\ rs[r].stopRequested
     /\ Exit(r, Stopped(rs, r))
  \/ /\ ~ rs[r].stopRequested
     /\ overdue[r]
     /\ Exit(r, Settled(rs, r, "failed", "replay_deadline_exceeded"))
  \/ /\ ~ rs[r].stopRequested
     /\ ~ overdue[r]
     /\ Suspend(r, i, rs, "scoring")

Turn(r, i, rs) ==
  LET last    == i = EventCount[runs[r].scenario]
      delayed == i > 0 /\ runs[r].paced /\ stops[r] # "absent"
  IN \/ /\ last
        /\ Exit(r, Settled(rs, r, "completed", "none"))
     \/ /\ ~ last
        /\ stops[r] = "set"
        /\ Exit(r, Stopped(rs, r))
     \/ /\ ~ last /\ stops[r] # "set" /\ delayed
        /\ Suspend(r, i, rs, "pausing")
     \/ /\ ~ last /\ stops[r] # "set" /\ ~ delayed
        /\ AfterDelay(r, i, rs)

(* A task suspended on the detector is a task with a worker thread.        *)
Dispatch(r) ==
  workers' = IF task'[r] = "scoring" THEN workers \cup {r} ELSE workers \ {r}

TaskBegins(r) ==
  /\ task[r] = "ready"
  /\ Turn(r, 0, runs)
  /\ Dispatch(r)
  /\ UNCHANGED <<born, stops, calls, app>>

(* The race between the interval and the stop event, either outcome.       *)
PauseEnds(r) ==
  /\ task[r] = "pausing"
  /\ \/ /\ stops[r] = "set"
        /\ Exit(r, Stopped(runs, r))
     \/ AfterDelay(r, index[r], runs)
  /\ Dispatch(r)
  /\ UNCHANGED <<born, stops, calls, app>>

(* Fault: a record is appended to a run that has ended.                    *)
ScoredLate(r) ==
  LET n == index[r] + 1
  IN /\ r \in Retained
     /\ Len(runs[r].records) < MaxRecords
     /\ Turn(r, n, [runs EXCEPT ![r].records = Append(@, n)])

(* Fault: a refused record ends the task without failing the run.          *)
ScoredSilently(r) ==
  LET n == index[r] + 1
  IN \/ /\ r \notin Active \/ Len(runs[r].records) >= MaxRecords
        /\ Exit(r, runs)
     \/ /\ r \in Active /\ Len(runs[r].records) < MaxRecords
        /\ Turn(r, n, [runs EXCEPT ![r].records = Append(@, n)])

(* The detector answers.  ReplayStore.append refuses a run that is gone or *)
(* finished (the step is discarded) and one that is full (the run fails);  *)
(* otherwise the record is kept and the loop comes round again.            *)
Scored(r) ==
  LET n == index[r] + 1
  IN \/ /\ runs[r].state \notin {"created", "running"}
        /\ Exit(r, runs)
     \/ /\ r \in Active
        /\ Len(runs[r].records) >= MaxRecords
        /\ Exit(r, Settled(runs, r, "failed", "replay_record_limit_reached"))
     \/ /\ r \in Active
        /\ Len(runs[r].records) < MaxRecords
        /\ Turn(r, n, [runs EXCEPT ![r].records = Append(@, n)])

DetectorReturns(r) ==
  /\ task[r] = "scoring"
  /\ \/ Scored(r)
     \/ Exit(r, Settled(runs, r, "failed", "replay_detection_failed"))
  /\ Dispatch(r)
  /\ UNCHANGED <<born, stops, calls, app>>

(* The deadline is a clock reading: it may pass while the task is alive.   *)
DeadlinePasses(r) ==
  /\ task[r] \in {"pausing", "scoring"}
  /\ ~ overdue[r]
  /\ overdue' = [overdue EXCEPT ![r] = TRUE]
  /\ UNCHANGED <<runs, born, task, index, stops, workers, calls, app>>

(* CancelledError reaches the task and _drive lets it propagate.  The      *)
(* thread of a cancelled detection runs on until the detector returns.     *)
CancelDelivered(r) ==
  /\ task[r] = "cancelling"
  /\ Exit(r, runs)
  /\ UNCHANGED <<born, stops, workers, calls, app>>

AbandonedReturns(r) ==
  /\ r \in workers
  /\ task[r] # "scoring"
  /\ workers' = workers \ {r}
  /\ UNCHANGED <<runs, born, task, index, overdue, stops, calls, app>>

-----------------------------------------------------------------------------
(* POST /runs/{id}/stop: service.stop_run around ReplayEngine.stop.        *)

(* The end of the handler: _finish(STOPPED), then the run document.        *)
Answer(c, r, rs) ==
  /\ runs' = Stopped(rs, r)
  /\ calls' = [calls EXCEPT ![c] =
       [pc |-> "answered", run |-> r, found |-> rs[r].state \in Held,
        state |-> Stopped(rs, r)[r].state, emitted |-> Len(rs[r].records)]]

StopArrives(c, r) ==
  /\ app = "serving"
  /\ calls[c].pc # "waiting"
  /\ r \in Retained
  /\ stops' = [stops EXCEPT ![r] = IF @ = "absent" THEN @ ELSE "set"]
  /\ LET flagged == [runs EXCEPT ![r].stopRequested = @ \/ r \in Active]
     IN \/ /\ task[r] \in Live
           /\ runs' = flagged
           /\ calls' = [calls EXCEPT ![c] = [pc |-> "waiting", run |-> r]]
        \/ /\ task[r] \notin Live
           /\ Answer(c, r, flagged)
  /\ UNCHANGED <<born, task, index, overdue, workers, app>>

(* The shielded task ended, by itself or cancelled by somebody else.       *)
StopResumes(c) ==
  /\ calls[c].pc = "waiting"
  /\ task[calls[c].run] = "done"
  /\ Answer(c, calls[c].run, runs)
  /\ UNCHANGED <<born, task, index, overdue, stops, workers, app>>

(* Fault: the task is cancelled and nobody settles its run.                *)
StopCancelsOnly(c) ==
  /\ calls[c].pc = "waiting"
  /\ task' = [task EXCEPT ![calls[c].run] =
       IF @ \in Live THEN "cancelling" ELSE @]
  /\ calls' = [calls EXCEPT ![c] =
       [pc |-> "answered", run |-> calls[c].run,
        found |-> calls[c].run \in Retained, state |-> "stopped",
        emitted |-> Len(runs[calls[c].run].records)]]
  /\ UNCHANGED <<runs, born, index, overdue, stops, workers, app>>

(* Fault: the wait for the task has no timeout of its own.                 *)
StopWaitsForever(c) ==
  /\ calls[c].pc = "waiting"
  /\ task[calls[c].run] = "done"
  /\ Answer(c, calls[c].run, runs)
  /\ UNCHANGED <<born, task, index, overdue, stops, workers, app>>

(* STOP_GRACE_SECONDS ran out: the task is cancelled and the run settled   *)
(* at once, before the task has seen the cancellation.                     *)
StopTimesOut(c) ==
  /\ calls[c].pc = "waiting"
  /\ task' = [task EXCEPT ![calls[c].run] =
       IF @ \in Live THEN "cancelling" ELSE @]
  /\ Answer(c, calls[c].run, runs)
  /\ UNCHANGED <<born, index, overdue, stops, workers, app>>

(* The server cancels the waiting handler (graceful-shutdown timeout); the *)
(* handler swallows the CancelledError and settles the run, task and all   *)
(* still going.                                                            *)
StopInterrupted(c) ==
  /\ calls[c].pc = "waiting"
  /\ Answer(c, calls[c].run, runs)
  /\ UNCHANGED <<born, task, index, overdue, stops, workers, app>>

-----------------------------------------------------------------------------
(* ReplayEngine.shutdown, from the application's lifespan.                 *)

(* Fault: shutdown asks the tasks to stop and does not cancel them.        *)
ShutdownAsks ==
  /\ app = "serving"
  /\ app' = "draining"
  /\ stops' = [r \in RunId |-> IF stops[r] = "absent" THEN "absent" ELSE "set"]
  /\ UNCHANGED <<runs, born, task, index, overdue, workers, calls>>

ShutdownBegins ==
  /\ app = "serving"
  /\ app' = "draining"
  /\ stops' = [r \in RunId |-> IF stops[r] = "absent" THEN "absent" ELSE "set"]
  /\ task' = [r \in RunId |-> IF task[r] \in Live THEN "cancelling" ELSE task[r]]
  /\ UNCHANGED <<runs, born, index, overdue, workers, calls>>

ShutdownEnds ==
  /\ app = "draining"
  /\ \A r \in RunId : task[r] \notin Live
  /\ app' = "down"
  /\ runs' = [r \in RunId |-> IF r \in Active THEN Stopped(runs, r)[r] ELSE runs[r]]
  /\ stops' = [r \in RunId |-> "absent"]
  /\ UNCHANGED <<born, task, index, overdue, workers, calls>>

-----------------------------------------------------------------------------
Init ==
  /\ runs = [r \in RunId |-> NoRun("unminted")]
  /\ born = [r \in RunId |-> 0]
  /\ task = [r \in RunId |-> "none"]
  /\ index = [r \in RunId |-> 0]
  /\ overdue = [r \in RunId |-> FALSE]
  /\ stops = [r \in RunId |-> "absent"]
  /\ workers = {}
  /\ calls = [c \in Caller |-> [pc |-> "idle"]]
  /\ app = "serving"

RunStep(r) ==
  \/ TaskBegins(r) \/ PauseEnds(r) \/ DetectorReturns(r)
  \/ CancelDelivered(r)

CallStep(c) == StopResumes(c) \/ StopTimesOut(c)

Next ==
  \/ \E r \in RunId, s \in Scenario, p \in Pace : StartRun(r, s, p)
  \/ \E r \in RunId : RunStep(r) \/ DeadlinePasses(r) \/ AbandonedReturns(r)
  \/ \E c \in Caller, r \in RunId : StopArrives(c, r)
  \/ \E c \in Caller : CallStep(c) \/ StopInterrupted(c)
  \/ ShutdownBegins
  \/ ShutdownEnds

Spec == Init /\ [][Next]_vars

(* The event loop runs every ready coroutine and every expired timer: the  *)
(* interval of a paused task, the grace period of a stop.  Nothing is      *)
(* assumed of the detector, which runs in a thread of its own, of the      *)
(* deadline, or of anyone who starts, stops or shuts down.                 *)
LoopFairness ==
  /\ \A r \in RunId : /\ WF_vars(TaskBegins(r))
                      /\ WF_vars(PauseEnds(r))
                      /\ WF_vars(CancelDelivered(r))
  /\ \A c \in Caller : WF_vars(CallStep(c))
  /\ WF_vars(ShutdownEnds)

DetectorFairness == \A r \in RunId : WF_vars(DetectorReturns(r))

LiveSpec == Spec /\ LoopFairness

-----------------------------------------------------------------------------
(* PROPERTIES                                                              *)

Run ==
  [state : Held \cup {"unminted", "evicted"}, scenario : Scenario,
   paced : BOOLEAN, records : Seq(Nat), reason : Reason,
   stopRequested : BOOLEAN]

Call ==
  [pc : {"idle"}]
    \cup [pc : {"waiting"}, run : RunId]
    \cup [pc : {"answered"}, run : RunId, found : BOOLEAN,
          state : Held \cup {"unminted", "evicted"}, emitted : Nat]

(* Every variable keeps its type.                                          *)
TypeOK ==
  /\ runs \in [RunId -> Run]
  /\ born \in [RunId -> Nat]
  /\ task \in [RunId -> Live \cup {"none", "done"}]
  /\ index \in [RunId -> Nat]
  /\ overdue \in [RunId -> BOOLEAN]
  /\ stops \in [RunId -> {"absent", "clear", "set"}]
  /\ workers \in SUBSET RunId
  /\ calls \in [Caller -> Call]
  /\ app \in {"serving", "draining", "down"}

(* ReplayLimits holds whatever the interleaving of starts, stops and ends: *)
(* never more than max_active_runs in flight, and admitting a run into a   *)
(* full store always finds a finished one to drop.                         *)
Bounded ==
  /\ Cardinality(Active) <= MaxActive
  /\ Cardinality(Retained) <= MaxRetained

(* No run reports "running" with nothing driving it, which would hold its  *)
(* slot for ever: _drive "never raises", and whoever cancels a task        *)
(* settles its run.  While shutdown gathers, the settling is still owed.   *)
NoneUndriven ==
  \A r \in Active : task[r] \in Live \ {"cancelling"} \/ app = "draining"

(* A stop call is answered only when the run is terminal, and from then on *)
(* the state and the timeline the caller was told are what anyone reads,   *)
(* although a detection may still be in flight in a thread.                *)
StopHonest ==
  \A c \in Caller :
    LET a == calls[c]
    IN a.pc = "answered" /\ a.found /\ a.run \in Retained =>
         /\ a.state \in Terminal
         /\ runs[a.run].state = a.state
         /\ Len(runs[a.run].records) = a.emitted

(* "Every bound is a refusal, never an eviction of something live": a run  *)
(* leaves the store only finished, only to admit another, and only if no   *)
(* finished run older than it stays.                                       *)
EvictsOldestFinished ==
  [][\A r \in Retained : runs'[r].state = "evicted" =>
       /\ r \in Finished
       /\ \E q \in RunId : runs[q].state = "unminted" /\ q \in Active'
       /\ \A q \in Finished : born[q] < born[r] => runs'[q].state = "evicted"
       /\ Cardinality(Retained) = MaxRetained]_vars

(* "A stop takes effect at a step boundary": once requested, the step in   *)
(* flight is the last, whatever the pace and however the stop races with   *)
(* the pace delay, the detector and the deadline.                          *)
NoStepAfterStop ==
  [][\A r \in RunId : runs[r].stopRequested /\ task'[r] = "scoring" =>
       task[r] = "scoring" /\ index'[r] = index[r]]_vars

(* "Stop affects only the addressed run": while the application serves, a  *)
(* run is stopped only after a stop request that named it, and a run whose *)
(* stop was requested is never reported failed for having been late.       *)
StoppedOnlyOnRequest ==
  \A r \in RunId :
    /\ runs[r].state = "stopped" /\ ~ runs[r].stopRequested => app = "down"
    /\ runs[r].reason = "replay_deadline_exceeded" => ~ runs[r].stopRequested

(* A stop call always answers, even if the detector never does.            *)
StopAnswered ==
  \A c \in Caller : calls[c].pc = "waiting" ~> calls[c].pc = "answered"

(* Shutdown always leaves every run terminal, detector or no detector.     *)
ShutdownSettles == app = "draining" ~> app = "down" /\ Active = {}

(* If detections always return, every run ends without being asked to.     *)
RunsEnd ==
  DetectorFairness => \A r \in RunId : r \in Active ~> r \notin Active

-----------------------------------------------------------------------------
(* What each run promises its readers, ReplayContract, whatever happens to *)
(* the other runs.                                                         *)
Contract(r) == INSTANCE ReplayContract WITH
  phase <- runs[r].state,
  total <- EventCount[runs[r].scenario],
  timeline <- runs[r].records

(* The service implements the contract for every run.                      *)
EachRunKeepsContract ==
  /\ \A r \in RunId : Contract(r)!Init
  /\ [][\A r \in RunId : [Contract(r)!Next]_(Contract(r)!cvars)]_vars

-----------------------------------------------------------------------------
(* What the documentation says of this code and the code does not do.      *)

(* replay/store.py:67-69: max_active_runs "is the number that bounds CPU". *)
DetectionsBounded == Cardinality(workers) <= MaxActive
=============================================================================
