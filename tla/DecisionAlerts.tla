--------------------------- MODULE DecisionAlerts ---------------------------
(***************************************************************************)
(* The alert pass of the system comparison, _Pass of ml/alerts.py, a       *)
(* second implementation beside detection/alerts.py (Alerts).  Both are    *)
(* fed one stream: what qualifies for the one is what the other is told    *)
(* was flagged ("callers who want Phase 4's floors apply them upstream"),  *)
(* and the scope it is given stands for the key the one computes, since a  *)
(* decision has no category.                                               *)
(*                                                                         *)
(* There is one pass per compared system, over the evidence that kind of   *)
(* system has: a magnitude and a severity, a magnitude, or neither.        *)
(***************************************************************************)
EXTENDS Alerts

VARIABLE pass  \* by system, the state of its pass
comparison == <<conf, now, phase, open, closed, early, window, count, hidden, pass>>

System == {"ranked", "scored", "bare"}
Unmeasured == -1

Decided(system, a, ts) ==
  [ts |-> ts,
   magnitude |-> IF system = "bare" THEN Unmeasured ELSE a.score,
   severity |-> IF system = "ranked" THEN Severity(a.score) ELSE Unmeasured]

Begun(k, d) ==
  [key |-> k, first |-> d.ts, last |-> d.ts, n |-> 1, peak |-> d.magnitude,
   severity |-> d.severity, escalations |-> 0, suppressed |-> 0]

(* A first severity counts as a rise; nothing unmeasured is ever news.     *)
Raised(alert, d) ==
  d.severity # Unmeasured /\ (alert.severity = Unmeasured \/ d.severity > alert.severity)
Above(x, y) == x # Unmeasured /\ y # Unmeasured /\ x > y

(* Fault: only a higher severity is news.                                  *)
NewsBySeverity(alert, d) == Above(d.severity, alert.severity)

News(alert, d) == Above(d.severity, alert.severity) \/ Above(d.magnitude, alert.peak)

Joined(alert, d) ==
  [key |-> alert.key, first |-> alert.first, last |-> d.ts, n |-> alert.n + 1,
   peak |-> IF d.magnitude > alert.peak THEN d.magnitude ELSE alert.peak,
   severity |-> IF Raised(alert, d) THEN d.severity ELSE alert.severity,
   escalations |-> alert.escalations + Bit(Raised(alert, d)),
   suppressed |-> alert.suppressed]

(* The alert of a key that a decision finds, and the pass once an open one *)
(* that is too old has been closed.                                        *)
Found(p, k) == IF p.open[k] # NoAlert THEN p.open[k] ELSE p.closed[k]
Superseded(p, k) ==
  IF p.open[k] # NoAlert /\ p.closed[k] # NoAlert THEN Append(p.early, p.closed[k])
  ELSE p.early

Claimed(w, ts) ==
  IF w.count = 0 \/ ts - w.start > conf.horizon THEN [start |-> ts, count |-> 1]
  ELSE [w EXCEPT !.count = @ + 1]

Cools(alert, d) == alert # NoAlert /\ d.ts - alert.last <= conf.cooldown
Repeats(alert, d) == Cools(alert, d) /\ ~ (News(alert, d) /\ conf.bypass)

Grouped(p, k, d) ==
  [open |-> [p.open EXCEPT ![k] = Joined(p.open[k], d)], closed |-> p.closed,
   early |-> p.early, window |-> p.window, grouped |-> p.grouped + 1,
   cooldown |-> p.cooldown, limited |-> p.limited,
   escalated |-> p.escalated + Bit(Raised(p.open[k], d))]

(* The alert that was found takes one more suppressed decision.            *)
Tolled(alert) == IF alert = NoAlert THEN NoAlert ELSE [alert EXCEPT !.suppressed = @ + 1]

Suppressed(p, k, reason) ==
  [open |-> [p.open EXCEPT ![k] = NoAlert],
   closed |-> [p.closed EXCEPT ![k] = Tolled(Found(p, k))],
   early |-> Superseded(p, k), window |-> p.window, grouped |-> p.grouped,
   cooldown |-> p.cooldown + Bit(reason = "cooldown"),
   limited |-> p.limited + Bit(reason = "limit"), escalated |-> p.escalated]

Started(p, k, d) ==
  [open |-> [p.open EXCEPT ![k] = Begun(k, d)],
   closed |-> [p.closed EXCEPT ![k] = Found(p, k)],
   early |-> Superseded(p, k),
   window |-> [p.window EXCEPT ![k] = Claimed(p.window[k], d.ts)],
   grouped |-> p.grouped + 1, cooldown |-> p.cooldown, limited |-> p.limited,
   escalated |-> p.escalated + Bit(Cools(Found(p, k), d) /\ News(Found(p, k), d))]

(* One flagged decision.                                                   *)
Consumed(p, k, d) ==
  IF p.open[k] # NoAlert /\ d.ts - p.open[k].last <= conf.grouping THEN Grouped(p, k, d)
  ELSE IF Repeats(Found(p, k), d) THEN Suppressed(p, k, "cooldown")
  ELSE IF Claimed(p.window[k], d.ts).count > conf.limit THEN Suppressed(p, k, "limit")
  ELSE Started(p, k, d)

Compare(a, ts) ==
  pass' = [s \in System |-> Consumed(pass[s], KeyOf(a), Decided(s, a, ts))]

ComparisonInit ==
  /\ Init
  /\ pass = [s \in System |->
       [open |-> [k \in Key |-> NoAlert], closed |-> [k \in Key |-> NoAlert], early |-> <<>>,
        window |-> [k \in Key |-> NoWindow],
        grouped |-> 0, cooldown |-> 0, limited |-> 0, escalated |-> 0]]

(* What is not flagged is passed over; a run that is refused for want of a *)
(* scope has nothing to be compared with.                                  *)
ComparisonNext ==
  \/ \E a \in Assessment, ts \in 0 .. MaxTime :
       \/ (Ignore(a, ts) \/ RefuseUnscoped(a, ts)) /\ UNCHANGED pass
       \/ (Absorb(a, ts) \/ Decide(a, ts)) /\ Compare(a, ts)
  \/ Finish /\ UNCHANGED pass

ComparisonSpec == ComparisonInit /\ [][ComparisonNext]_comparison

-----------------------------------------------------------------------------
(* What a system without severities, or without magnitudes, shows of an    *)
(* alert.                                                                  *)
Shown(system, alert) ==
  IF alert = NoAlert THEN NoAlert
  ELSE [alert EXCEPT
          !.peak = IF system = "bare" THEN Unmeasured ELSE @,
          !.severity = IF system = "ranked" THEN @ ELSE Unmeasured,
          !.escalations = IF system = "ranked" THEN @ ELSE 0]

Alike(s) ==
  /\ pass[s].open = [k \in Key |-> Shown(s, open[k])]
  /\ pass[s].closed = [k \in Key |-> Shown(s, closed[k])]
  /\ pass[s].early = [i \in 1 .. Len(early) |-> Shown(s, early[i])]
  /\ pass[s].window = window
  /\ pass[s].grouped = count.grouped
  /\ pass[s].cooldown = count.cooldown /\ pass[s].limited = count.limited
  /\ s = "ranked" => pass[s].escalated = count.escalated

(* "The temporal semantics are Phase 4's, exactly": over one stream every  *)
(* system gets the alerts that detection/alerts.py makes, with their       *)
(* windows and their counts, severities or no severities; a system with no *)
(* magnitude either, as long as nothing may bypass a cooldown              *)
(* (ml/alerts.py:22-30, 566-592).                                          *)
ComparedAlike == \A s \in System : (s # "bare" \/ ~ conf.bypass) => Alike(s)
=============================================================================
