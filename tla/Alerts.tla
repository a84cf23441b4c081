------------------------------- MODULE Alerts -------------------------------
(***************************************************************************)
(* The alert pass: _Pass of detection/alerts.py.  Risk assessments are     *)
(* consumed in the order of their times; each is ignored, refused by a     *)
(* floor, taken into the open alert of its key, opens an alert, or is      *)
(* suppressed by the cooldown of the key's last alert or by its limit.     *)
(*                                                                         *)
(* A score stands for the score band and the severity cut from it; means,  *)
(* rule names and the tallies per category repeat what is counted here.    *)
(***************************************************************************)
EXTENDS Integers, Sequences, FiniteSets

CONSTANTS
  Finding,    \* attack category with its correlation group
  Entity,     \* scope values of the entity-scope table
  Unscoped,   \* no scope value
  Policies,   \* settings of AlertingConfig to look at; intervals in ticks
  Floor,      \* min_alert_risk_score
  Bands,      \* the scores at which the severity rises
  MaxScore, MaxTime, MaxAssessments

ASSUME AlertsAssumption ==
  /\ Unscoped \notin Entity
  /\ Policies \subseteq
       [grouping : Nat \ {0}, cooldown : Nat \ {0}, horizon : Nat \ {0}, limit : Nat \ {0},
        bypass : BOOLEAN, scoped : BOOLEAN, strict : BOOLEAN]
  /\ Floor \in Nat \ {0} /\ Bands \subseteq Nat /\ IsFiniteSet(Bands)
  /\ MaxScore \in Nat /\ MaxTime \in Nat /\ MaxAssessments \in Nat

VARIABLES
  conf,     \* the alerting policy of the run
  now,      \* time of the last assessment
  phase,    \* scanning, done, or which check refused the run
  open,     \* the open alert of each key
  closed,   \* its most recently closed one
  early,    \* the ones closed before that
  window,   \* start of the key's limit window and the alerts opened in it
  count,    \* the tallies of AlertingStats
  hidden    \* history: the qualifying assessments that were suppressed

vars == <<conf, now, phase, open, closed, early, window, count, hidden>>

Score == 0 .. MaxScore
Key == Finding \X (Entity \cup {Unscoped})
Assessment == [finding : Finding, entity : Entity \cup {Unscoped}, score : Score]

Severity(score) == Cardinality({b \in Bands : b <= score})

Bit(b) == IF b THEN 1 ELSE 0

NoAlert == [n |-> 0]
NoWindow == [start |-> 0, count |-> 0]
Opened(key, ts, score) ==
  [key |-> key, first |-> ts, last |-> ts, n |-> 1, peak |-> score,
   severity |-> Severity(score), escalations |-> 0, suppressed |-> 0]

KeyOf(a) == <<a.finding, IF conf.scoped THEN a.entity ELSE Unscoped>>
Qualifies(a) == a.score >= Floor

(* What an open alert becomes with one more assessment.                    *)
Rises(alert, score) == Severity(score) > alert.severity
Absorbed(alert, ts, score) ==
  [key |-> alert.key, first |-> alert.first, last |-> ts, n |-> alert.n + 1,
   peak |-> IF score > alert.peak THEN score ELSE alert.peak,
   severity |-> IF Rises(alert, score) THEN Severity(score) ELSE alert.severity,
   escalations |-> alert.escalations + Bit(Rises(alert, score)),
   suppressed |-> alert.suppressed]

(* Fault: only a higher severity is news.                                  *)
MaterialBySeverity(alert, score) == Severity(score) > alert.severity

Material(alert, score) == Severity(score) > alert.severity \/ score > alert.peak

Hide(k, ts, score, reason) ==
  hidden' = hidden \cup {[key |-> k, ts |-> ts, score |-> score, reason |-> reason]}

(* The next assessment, in the order of the times; only differences of     *)
(* times are ever compared, so the first is at 0.                          *)
Arrives(ts) ==
  /\ phase = "scanning" /\ count.scanned < MaxAssessments
  /\ ts >= now /\ (count.scanned = 0 => ts = 0) /\ now' = ts /\ UNCHANGED conf

Missing(a) == conf.scoped /\ a.entity = Unscoped

(* The tallies after one more assessment, by what became of it.            *)
Tallied(a, what, up) ==
  [scanned |-> count.scanned + 1,
   gated |-> count.gated + Bit(what = "gated"),
   qualifying |-> count.qualifying + Bit(what \in {"grouped", "cooldown", "limit"}),
   grouped |-> count.grouped + Bit(what = "grouped"),
   cooldown |-> count.cooldown + Bit(what = "cooldown"),
   limited |-> count.limited + Bit(what = "limit"),
   escalated |-> count.escalated + Bit(up),
   missing |-> count.missing + Bit(Qualifies(a) /\ Missing(a))]

Ignore(a, ts) ==
  /\ Arrives(ts) /\ ~ Qualifies(a)
  /\ count' = Tallied(a, IF a.score = 0 THEN "unfired" ELSE "gated", FALSE)
  /\ UNCHANGED <<phase, open, closed, early, window, hidden>>

(* Strict scope: an assessment without a scope value ends the run.         *)
RefuseUnscoped(a, ts) ==
  /\ Arrives(ts) /\ Qualifies(a) /\ conf.strict /\ Missing(a)
  /\ phase' = "unscoped"
  /\ UNCHANGED <<open, closed, early, window, count, hidden>>

Near(alert, ts) == alert # NoAlert /\ ts - alert.last <= conf.grouping

Absorb(a, ts) ==
  /\ Arrives(ts) /\ Qualifies(a) /\ ~ (conf.strict /\ Missing(a))
  /\ LET k == KeyOf(a)
     IN /\ Near(open[k], ts)
        /\ open' = [open EXCEPT ![k] = Absorbed(@, ts, a.score)]
        /\ count' = Tallied(a, "grouped", Rises(open[k], a.score))
  /\ UNCHANGED <<phase, closed, early, window, hidden>>

(* An open alert that is too old is closed; one closed before it is kept   *)
(* to be emitted.                                                          *)
Latest(k) == IF open[k] # NoAlert THEN open[k] ELSE closed[k]
Kept(k) == IF open[k] # NoAlert /\ closed[k] # NoAlert THEN Append(early, closed[k])
           ELSE early

Cooling(alert, ts) == alert # NoAlert /\ ts - alert.last <= conf.cooldown
Passes(alert, ts, score) == Cooling(alert, ts) => Material(alert, score) /\ conf.bypass

(* Fault: the window is never begun anew.                                  *)
SlotOnce(k, ts) ==
  [start |-> IF window[k].count = 0 THEN ts ELSE window[k].start,
   count |-> window[k].count + 1]

(* The limit's window if this alert is counted.                            *)
Slot(k, ts) ==
  IF window[k].count = 0 \/ ts - window[k].start > conf.horizon
  THEN [start |-> ts, count |-> 1]
  ELSE [window[k] EXCEPT !.count = @ + 1]

(* Fault: only what the cooldown suppresses is told to the last alert.     *)
TallyCooldownOnly(k, ts, score) ==
  IF Latest(k) = NoAlert \/ Passes(Latest(k), ts, score) THEN Latest(k)
  ELSE [Latest(k) EXCEPT !.suppressed = @ + 1]

(* The last alert takes one more suppressed assessment.                    *)
Tally(k, ts, score) ==
  IF Latest(k) = NoAlert THEN NoAlert ELSE [Latest(k) EXCEPT !.suppressed = @ + 1]

(* No open alert takes the assessment: it opens one or is suppressed.      *)
Decide(a, ts) ==
  /\ Arrives(ts) /\ Qualifies(a) /\ ~ (conf.strict /\ Missing(a))
  /\ LET k == KeyOf(a)
         escalating == Cooling(Latest(k), ts) /\ Material(Latest(k), a.score)
     IN /\ ~ Near(open[k], ts)
        /\ early' = Kept(k)
        /\ \/ /\ ~ Passes(Latest(k), ts, a.score)
              /\ open' = [open EXCEPT ![k] = NoAlert]
              /\ closed' = [closed EXCEPT ![k] = Tally(k, ts, a.score)]
              /\ count' = Tallied(a, "cooldown", FALSE)
              /\ Hide(k, ts, a.score, "cooldown")
              /\ UNCHANGED window
           \/ /\ Passes(Latest(k), ts, a.score) /\ Slot(k, ts).count > conf.limit
              /\ open' = [open EXCEPT ![k] = NoAlert]
              /\ closed' = [closed EXCEPT ![k] = Tally(k, ts, a.score)]
              /\ count' = Tallied(a, "limit", FALSE)
              /\ Hide(k, ts, a.score, "limit")
              /\ UNCHANGED window
           \/ /\ Passes(Latest(k), ts, a.score) /\ Slot(k, ts).count <= conf.limit
              /\ open' = [open EXCEPT ![k] = Opened(k, ts, a.score)]
              /\ closed' = [closed EXCEPT ![k] = Latest(k)]
              /\ count' = Tallied(a, "grouped", escalating)
              /\ window' = [window EXCEPT ![k] = Slot(k, ts)]
              /\ UNCHANGED hidden
  /\ UNCHANGED phase

(* Every alert there is, in the order in which it was closed.              *)
Emitted ==
  ({early[i] : i \in 1 .. Len(early)} \cup {closed[k] : k \in Key} \cup {open[k] : k \in Key})
    \ {NoAlert}

(* AlertingStats.check_accounting refuses a result that does not add up.   *)
AddsUp ==
  /\ count.qualifying = count.grouped + count.cooldown + count.limited
  /\ count.qualifying + count.gated <= count.scanned

Finish ==
  /\ phase = "scanning"
  /\ phase' = IF AddsUp THEN "done" ELSE "refused"
  /\ UNCHANGED <<conf, now, open, closed, early, window, count, hidden>>

Init ==
  /\ conf \in Policies
  /\ now = 0 /\ phase = "scanning"
  /\ open = [k \in Key |-> NoAlert] /\ closed = [k \in Key |-> NoAlert] /\ early = <<>>
  /\ window = [k \in Key |-> NoWindow]
  /\ count = [scanned |-> 0, gated |-> 0, qualifying |-> 0, grouped |-> 0, cooldown |-> 0,
              limited |-> 0, escalated |-> 0, missing |-> 0]
  /\ hidden = {}

Next ==
  \/ \E a \in Assessment, ts \in 0 .. MaxTime :
       Ignore(a, ts) \/ RefuseUnscoped(a, ts) \/ Absorb(a, ts) \/ Decide(a, ts)
  \/ Finish

Spec == Init /\ [][Next]_vars

-----------------------------------------------------------------------------
(* Every variable keeps its type, and no result is ever refused: the       *)
(* tallies of AlertingStats always add up.                                 *)
Alert ==
  [key : Key, first : Nat, last : Nat, n : Nat \ {0}, peak : Score, severity : Nat,
   escalations : Nat, suppressed : Nat]
Tallies ==
  [scanned : Nat, gated : Nat, qualifying : Nat, grouped : Nat, cooldown : Nat,
   limited : Nat, escalated : Nat, missing : Nat]

TypeOK ==
  /\ conf \in Policies /\ now \in Nat
  /\ phase \in {"scanning", "done", "unscoped"}
  /\ open \in [Key -> Alert \cup {NoAlert}] /\ closed \in [Key -> Alert \cup {NoAlert}]
  /\ early \in Seq(Alert)
  /\ window \in [Key -> [start : Nat, count : Nat]]
  /\ count \in Tallies
  /\ hidden \subseteq [key : Key, ts : Nat, score : Score, reason : {"cooldown", "limit"}]

(* "A suppressed detection is always counted ... an alert cannot vanish    *)
(* without leaving a tally behind": the tallies add up, the alerts that    *)
(* are emitted together hold every grouped assessment, each suppressed one *)
(* is told by the alert it was suppressed for, and no two alerts share the *)
(* key and the time that make an alert's identifier.                       *)
Total(S, Field(_)) ==
  LET s[n \in 0 .. MaxAssessments] ==
        IF n = 0 THEN 0 ELSE n * Cardinality({a \in S : Field(a) = n}) + s[n - 1]
  IN s[MaxAssessments]

Accounted ==
  LET n(a) == a.n
      suppressed(a) == a.suppressed
  IN /\ AddsUp
     /\ Total(Emitted, n) = count.grouped
     /\ Total(Emitted, suppressed) = count.cooldown + count.limited
     /\ \A a, b \in Emitted : a.key = b.key /\ a.first = b.first => a = b

(* "Suppression must reduce duplicate noise without ever hiding materially *)
(* new risk": what a cooldown hides, an alert of the same key told no      *)
(* longer ago than the cooldown, as severe and as high, unless the bypass  *)
(* was switched off.                                                       *)
NothingNewHidden ==
  \A h \in hidden :
    h.reason = "cooldown" =>
      \E a \in Emitted :
        /\ a.key = h.key
        /\ a.last <= h.ts /\ h.ts <= a.last + conf.cooldown
        /\ conf.bypass => Severity(h.score) <= a.severity /\ h.score <= a.peak

(* Two alerts of one key are more than a grouping window apart, and more   *)
(* than a cooldown unless the later one was news.  The limit refuses an    *)
(* alert only when it is used up, so with limit * grouping_window >=       *)
(* alert_limit_window, as in the defaults (5 * 15m and 1h), never.         *)
NoFlood ==
  /\ \A a, b \in Emitted :
       a.key = b.key /\ a.first < b.first =>
         /\ b.first > a.last + conf.grouping
         /\ \/ b.first > a.last + conf.cooldown
            \/ conf.bypass /\ b.peak > a.peak
  /\ \A h \in hidden :
       h.reason = "limit" =>
         /\ conf.limit * conf.grouping < conf.horizon
         /\ Cardinality({a \in Emitted : /\ a.key = h.key /\ a.first <= h.ts
                                         /\ a.first >= h.ts - conf.horizon}) >= conf.limit
=============================================================================
