---------------------------- MODULE ReplayConsole ----------------------------
(***************************************************************************)
(* Two readers of the replay service, composed with it: the dashboard's    *)
(* Live Replay page (dashboard/views/replay.py over ReplaySession of       *)
(* dashboard/state.py), and a client that follows the cursor protocol of   *)
(* GET /runs/{id}/timeline (service.get_timeline).                         *)
(*                                                                         *)
(* The page is one Streamlit script: it blocks on each HTTP request, and   *)
(* the service moves between its requests.  Any request may fail on its    *)
(* way there or back; a POST may have taken effect all the same.  The API  *)
(* process may also be restarted, which clears every run.                  *)
(***************************************************************************)
EXTENDS Replay

CONSTANTS
  Desk,       \* the stop call that the page makes
  PollLimit,  \* POLL_LIMIT, the page the console asks for
  ReadLimit   \* the page the other client asks for, max_timeline_page at most

(* The console's page is larger than any scenario (100 against 30).        *)
ASSUME ConsoleAssumption ==
  /\ Desk \in Caller
  /\ PollLimit \in Nat \ {0}
  /\ ReadLimit \in Nat \ {0}
  /\ \A s \in Scenario : PollLimit >= EventCount[s]

VARIABLES
  att,     \* ReplaySession.run_id; {} or the one run followed
  seen,    \* ReplaySession.run: the state last observed
  cursor,  \* ReplaySession.cursor
  shown,   \* ReplaySession.records
  pc,      \* which answer the script is waiting for
  failed,  \* some request of the page has failed
  mine,    \* the runs the page's POSTs have created
  reader   \* the other client: the run, what it got, whether more is expected

session == <<att, seen, cursor, shown, pc, failed, mine>>
cvars == <<vars, session, reader>>

SeenActive == att # {} /\ seen \notin Terminal

(* The records of a timeline above a cursor, in their order.               *)
Above(timeline, after) ==
  LET kept[i \in 0 .. Len(timeline)] ==
        IF i = 0 THEN <<>>
        ELSE IF timeline[i] > after THEN Append(kept[i - 1], timeline[i])
        ELSE kept[i - 1]
  IN kept[Len(timeline)]

(* Fault: an empty page of a run that is going counts as the last one.     *)
PageOfNow(r, after, lim) ==
  LET pending == Above(runs[r].records, after)
      size    == IF Len(pending) > lim THEN lim ELSE Len(pending)
  IN [records |-> SubSeq(pending, 1, size), more |-> size < Len(pending)]

(* ReplayStore.timeline: the records above the cursor, at most lim.        *)
Page(r, after, lim) ==
  LET pending == Above(runs[r].records, after)
      size    == IF Len(pending) > lim THEN lim ELSE Len(pending)
  IN [records |-> SubSeq(pending, 1, size),
      more    |-> size < Len(pending) \/ r \in Active]

-----------------------------------------------------------------------------
(* Fault: attaching to another run keeps the cursor and the records.       *)
PressStartKeepingCursor(r, s, p) ==
  /\ pc = "idle"
  /\ ~ SeenActive
  /\ StartRun(r, s, p)
  /\ mine' = mine \cup {r}
  /\ att' = {r} /\ seen' = "running"
  /\ UNCHANGED <<pc, reader, failed, cursor, shown>>

(* The Start button, enabled unless a run seen active is attached.         *)
PressStart(r, s, p) ==
  /\ pc = "idle"
  /\ ~ SeenActive
  /\ StartRun(r, s, p)
  /\ mine' = mine \cup {r}
  /\ \/ /\ att' = {r} /\ seen' = "running" /\ cursor' = 0 /\ shown' = <<>>
        /\ UNCHANGED failed
     \/ /\ failed' = TRUE
        /\ UNCHANGED <<att, seen, cursor, shown>>
  /\ UNCHANGED <<pc, reader>>

(* Fault: the timeline is not read any more once the run is seen ended.    *)
ReadRunOnly(from) ==
  /\ pc = from
  /\ att \subseteq Retained
  /\ seen' \in {runs[r].state : r \in att}
  /\ pc' = IF seen' \in Terminal THEN "idle" ELSE "page"
  /\ UNCHANGED <<failed, att, cursor, shown, mine, reader, vars>>

(* _poll, first GET: the run document.  Reached from the live fragment     *)
(* while the run was last seen active, and from Refresh whenever attached. *)
ReadRun(from) ==
  /\ pc = from
  /\ \/ /\ att \subseteq Retained
        /\ pc' = "page"
        /\ seen' \in {runs[r].state : r \in att}
        /\ UNCHANGED failed
     \/ /\ pc' = "idle"
        /\ failed' = (failed \/ att \subseteq Retained)
        /\ UNCHANGED seen
  /\ UNCHANGED <<att, cursor, shown, mine, reader, vars>>

LiveTick     == SeenActive /\ ReadRun("idle")
PressRefresh == att # {} /\ ReadRun("idle")

(* _poll, second GET: the timeline page, absorbed above the cursor.        *)
ReadPage ==
  /\ pc = "page"
  /\ pc' = "idle"
  /\ \/ \E r \in att \cap Retained :
          LET new == Above(Page(r, cursor, PollLimit).records, cursor)
          IN /\ shown' = shown \o new
             /\ cursor' = IF new = <<>> THEN cursor ELSE new[Len(new)]
             /\ UNCHANGED failed
     \/ /\ failed' = (failed \/ att \subseteq Retained)
        /\ UNCHANGED <<shown, cursor>>
  /\ UNCHANGED <<att, seen, mine, reader, vars>>

(* The Stop button: a POST that waits for the service's answer, then a     *)
(* poll.  The wait may end first (request_timeout_seconds).                *)
PressStop ==
  /\ pc = "idle"
  /\ SeenActive
  /\ \E r \in att : StopArrives(Desk, r)
  /\ pc' = "stop"
  /\ UNCHANGED <<att, seen, cursor, shown, failed, mine, reader>>

StopAnswer ==
  /\ pc = "stop"
  /\ \/ /\ calls[Desk].pc = "answered" /\ calls[Desk].found
        /\ pc' = "stopped"
        /\ seen' = calls[Desk].state
        /\ UNCHANGED failed
     \/ /\ pc' = "idle"
        /\ failed' = TRUE
        /\ UNCHANGED seen
  /\ UNCHANGED <<att, cursor, shown, mine, reader, vars>>

PollAfterStop == ReadRun("stopped")

-----------------------------------------------------------------------------
(* GET /runs/{id}/timeline?after_sequence=<cursor>&limit=<ReadLimit>, until*)
(* more_expected is false: service.get_timeline.                           *)
Follow(r) ==
  /\ reader.run = {}
  /\ r \in Retained
  /\ reader' = [reader EXCEPT !.run = {r}]
  /\ UNCHANGED <<vars, session>>

FollowPage ==
  /\ reader.more
  /\ \E r \in reader.run \cap Retained :
       LET page == Page(r, Len(reader.got), ReadLimit)
       IN reader' = [reader EXCEPT !.got = @ \o page.records, !.more = page.more]
  /\ UNCHANGED <<vars, session>>

-----------------------------------------------------------------------------
(* Another process of the API: nothing of the old one's memory is left.    *)
Restart ==
  /\ runs' = [r \in RunId |-> IF r \in Retained THEN NoRun("evicted") ELSE runs[r]]
  /\ task' = [r \in RunId |-> "none"]
  /\ index' = [r \in RunId |-> 0]
  /\ overdue' = [r \in RunId |-> FALSE]
  /\ stops' = [r \in RunId |-> "absent"]
  /\ workers' = {}
  /\ calls' = [c \in Caller |-> [pc |-> "idle"]]
  /\ app' = "serving"
  /\ UNCHANGED <<born, session, reader>>

(* Everything the service does on its own or for other clients.            *)
Service ==
  /\ \/ \E r \in RunId, s \in Scenario, p \in Pace : StartRun(r, s, p)
     \/ \E r \in RunId : RunStep(r) \/ AbandonedReturns(r)
     \/ \E c \in Caller \ {Desk}, r \in RunId : StopArrives(c, r)
     \/ \E c \in Caller : CallStep(c)
  /\ UNCHANGED <<session, reader>>

CInit ==
  /\ Init
  /\ att = {} /\ seen = "none" /\ cursor = 0 /\ shown = <<>>
  /\ pc = "idle" /\ failed = FALSE /\ mine = {}
  /\ reader = [run |-> {}, got |-> <<>>, more |-> TRUE]

CNext ==
  \/ \E r \in RunId, s \in Scenario, p \in Pace : PressStart(r, s, p)
  \/ LiveTick
  \/ PressRefresh
  \/ ReadPage
  \/ PressStop
  \/ StopAnswer
  \/ PollAfterStop
  \/ \E r \in RunId : Follow(r)
  \/ FollowPage
  \/ Restart
  \/ Service

CSpec == CInit /\ [][CNext]_cvars

(* Streamlit's run_every brings the fragment round, a script runs to its   *)
(* end, the event loop is fair and detections return.  Nobody has to press *)
(* anything, and nothing says requests succeed.                            *)
ConsoleFairness ==
  /\ WF_cvars(LiveTick)
  /\ WF_cvars(ReadPage)
  /\ WF_cvars(StopAnswer)
  /\ WF_cvars(PollAfterStop)
  /\ WF_cvars(FollowPage)
  /\ \A r \in RunId : WF_cvars(RunStep(r) /\ UNCHANGED <<session, reader>>)
  /\ \A c \in Caller : WF_cvars(CallStep(c) /\ UNCHANGED <<session, reader>>)

CLiveSpec == CSpec /\ ConsoleFairness

-----------------------------------------------------------------------------
(* PROPERTIES                                                              *)

(* What the page shows of a run the service still holds is the beginning   *)
(* of that run's timeline, once each and in order, ending at the cursor;   *)
(* and a terminal state shown is the state the run really ended in.  "A    *)
(* page that reruns cannot start a second run behind the first": a run of  *)
(* its own that is going is the one shown, unless a request had failed.    *)
ViewIsFaithful ==
  /\ \A r \in att \cap Retained :
       /\ cursor = Len(shown) /\ cursor <= Len(runs[r].records)
       /\ shown = SubSeq(runs[r].records, 1, cursor)
       /\ seen \in Terminal => seen = runs[r].state
  /\ ~ failed => mine \cap Active \subseteq att

(* If no request ever fails, the page ends up showing the whole timeline   *)
(* of a run that ended, although it stops polling at the first terminal    *)
(* state it sees and reads that state before the records.                  *)
ViewCatchesUp ==
  [] ~ failed =>
    \A r \in RunId :
      att = {r} /\ r \in Finished
        ~> att # {r} \/ r \notin Retained \/ shown = runs[r].records

(* more_expected = FALSE means "this is everything there will ever be".    *)
LastPageIsLast ==
  ~ reader.more =>
    \A r \in reader.run \cap Retained :
      r \in Finished /\ reader.got = runs[r].records

(* views/replay.py:15 "Polling is bounded and it ends": a run that is gone *)
(* from the service does not leave the page polling for it for ever.       *)
PollingEnds == SeenActive ~> ~ SeenActive
=============================================================================
