--------------------------- MODULE Alerts_proofs ---------------------------
(***************************************************************************)
(* Proofs about Alerts, DecisionAlerts and Detection, for any findings,    *)
(* entities, policies, bands, streams, snapshots and settings.  The alert  *)
(* pass keeps its types, its tallies always add up and are what the alerts *)
(* hold, what a cooldown hides was told before, and no key is flooded; the *)
(* pass of the system comparison makes the same alerts.  Rules that should *)
(* exclude one another do, and the score of an anchor is a sound function  *)
(* of what fired, however the results come to the scorer.                  *)
(***************************************************************************)
EXTENDS DecisionAlerts, Detection, FiniteSetTheorems, WellFoundedInduction, TLAPS

-----------------------------------------------------------------------------
(* The alert pass.                                                         *)

(* An alert knows its key, and none is newer than the pass.                *)
KeysRight ==
  \A k \in Key :
    /\ open[k] # NoAlert => open[k].key = k /\ open[k].last <= now
    /\ closed[k] # NoAlert => closed[k].key = k /\ closed[k].last <= now

(* What makes a hidden assessment old news is an alert that no assessment  *)
(* changes any more.                                                       *)
Telling(a, h, c) ==
  /\ a.key = h.key
  /\ a.last <= h.ts /\ h.ts <= a.last + c.cooldown
  /\ c.bypass => Severity(h.score) <= a.severity /\ h.score <= a.peak

Told(h) ==
  \/ \E i \in 1 .. Len(early) : Telling(early[i], h, conf)
  \/ \E k \in Key : closed[k] # NoAlert /\ Telling(closed[k], h, conf)

HiddenTold == \A h \in hidden : h.reason = "cooldown" => Told(h)

Inv == TypeOK /\ AddsUp /\ KeysRight /\ HiddenTold

(* Severities are numbers (Severity, the bands of scoring).                *)
LEMMA SeverityType == \A score \in Score : Severity(score) \in Nat
<1>1. TAKE score \in Score
<1>2. IsFiniteSet({b \in Bands : b <= score})
  BY FS_Subset, AlertsAssumption
<1> QED BY <1>2, FS_CardinalityType DEF Severity

(* No alert is not an alert.                                               *)
LEMMA AlertIsOne == NoAlert \notin Alert
  BY DEF Alert, NoAlert

(* The kept alerts are the ones closed before, and the one replaced now.   *)
LEMMA KeptType ==
  ASSUME TypeOK, NEW k \in Key
  PROVE  /\ Kept(k) \in Seq(Alert)
         /\ Latest(k) \in Alert \cup {NoAlert}
         /\ \A i \in 1 .. Len(early) : i \in 1 .. Len(Kept(k)) /\ Kept(k)[i] = early[i]
<1>1. CASE open[k] # NoAlert /\ closed[k] # NoAlert
  <2>1. closed[k] \in Alert
    BY <1>1 DEF TypeOK
  <2> QED BY <1>1, <2>1 DEF TypeOK, Kept, Latest
<1>2. CASE ~ (open[k] # NoAlert /\ closed[k] # NoAlert)
  BY <1>2 DEF TypeOK, Kept, Latest
<1> QED BY <1>1, <1>2

(* However an assessment ends, the tallies stay numbers and add up.        *)
LEMMA TalliesAddUp ==
  ASSUME Inv, NEW a, NEW what \in {"unfired", "gated", "grouped", "cooldown", "limit"}, NEW up
  PROVE  /\ Tallied(a, what, up) \in Tallies
         /\ count' = Tallied(a, what, up) => AddsUp'
<1> DEFINE e == Bit(up)
           m == Bit(Qualifies(a) /\ Missing(a))
<1>1. e \in Nat /\ m \in Nat
  BY DEF Bit
<1>2. count \in Tallies /\ AddsUp
  BY DEF Inv, TypeOK
<1> DEFINE g == Bit(what = "gated")
           q == Bit(what \in {"grouped", "cooldown", "limit"})
           r == Bit(what = "grouped")
           c == Bit(what = "cooldown")
           l == Bit(what = "limit")
<1>3. /\ g \in 0 .. 1 /\ q \in 0 .. 1 /\ r \in 0 .. 1 /\ c \in 0 .. 1 /\ l \in 0 .. 1
      /\ q = r + c + l /\ q + g <= 1
  BY DEF Bit
<1>4. Tallied(a, what, up)
      = [scanned |-> count.scanned + 1, gated |-> count.gated + g,
         qualifying |-> count.qualifying + q, grouped |-> count.grouped + r,
         cooldown |-> count.cooldown + c, limited |-> count.limited + l,
         escalated |-> count.escalated + e, missing |-> count.missing + m]
  BY DEF Tallied
<1> HIDE DEF e, m, g, q, r, c, l
<1>5. Tallied(a, what, up) \in Tallies
  BY <1>1, <1>2, <1>3, <1>4 DEF Tallies
<1>6. ASSUME count' = Tallied(a, what, up) PROVE AddsUp'
  BY <1>2, <1>3, <1>4, <1>6 DEF Tallies, AddsUp
<1> QED BY <1>5, <1>6

(* Initially nothing is open, hidden or counted.                           *)
LEMMA InitInv == Init => Inv
<1> SUFFICES ASSUME Init PROVE Inv OBVIOUS
<1>1. TypeOK
  BY DEF Init, TypeOK, NoWindow, Tallies
<1>2. AddsUp /\ KeysRight /\ HiddenTold
  BY DEF Init, AddsUp, KeysRight, HiddenTold
<1> QED BY <1>1, <1>2 DEF Inv

(* An ignored or refused assessment touches no alert.                      *)
LEMMA IgnoreInv ==
  ASSUME Inv, NEW a \in Assessment, NEW ts \in 0 .. MaxTime, Ignore(a, ts) \/ RefuseUnscoped(a, ts)
  PROVE  Inv'
<1> USE AlertsAssumption
<1>1. now' \in Nat /\ now <= now' /\ UNCHANGED <<conf, open, closed, early, window, hidden>>
  <2>1. Arrives(ts) /\ UNCHANGED <<open, closed, early, window, hidden>>
    BY DEF Ignore, RefuseUnscoped
  <2>2. ts \in Nat /\ now' = ts /\ now <= ts /\ UNCHANGED conf
    BY <2>1 DEF Arrives
  <2> QED BY <2>1, <2>2
<1>2. count' \in Tallies /\ phase' \in {"scanning", "done", "unscoped"} /\ AddsUp'
  <2>1. CASE Ignore(a, ts)
    <3>1. PICK what \in {"unfired", "gated"} : count' = Tallied(a, what, FALSE)
      BY <2>1 DEF Ignore
    <3>2. phase' = phase /\ phase \in {"scanning", "done", "unscoped"}
      BY <2>1 DEF Ignore, Inv, TypeOK
    <3> QED BY <3>1, <3>2, TalliesAddUp
  <2>2. CASE RefuseUnscoped(a, ts)
    BY <2>2 DEF RefuseUnscoped, Inv, TypeOK, AddsUp
  <2> QED BY <2>1, <2>2
<1>3. TypeOK'
  BY <1>1, <1>2 DEF Inv, TypeOK
<1>4. KeysRight'
  <2> SUFFICES ASSUME NEW k \in Key
               PROVE  /\ open[k] # NoAlert => open[k].key = k /\ open[k].last <= now'
                      /\ closed[k] # NoAlert => closed[k].key = k /\ closed[k].last <= now'
    BY <1>1 DEF KeysRight
  <2>1. /\ open[k] \in Alert \cup {NoAlert} /\ closed[k] \in Alert \cup {NoAlert} /\ now \in Nat
    BY DEF Inv, TypeOK
  <2> QED BY <1>1, <2>1 DEF Inv, KeysRight, Alert
<1>5. HiddenTold'
  BY <1>1 DEF Inv, HiddenTold, Told, Telling
<1> QED BY <1>2, <1>3, <1>4, <1>5 DEF Inv

(* An open alert takes one more assessment; the closed ones stay.          *)
LEMMA AbsorbInv ==
  ASSUME Inv, NEW a \in Assessment, NEW ts \in 0 .. MaxTime, Absorb(a, ts)
  PROVE  Inv'
<1> USE AlertsAssumption
<1> DEFINE k == KeyOf(a)
<1>1. k \in Key /\ a.score \in Score
  BY DEF KeyOf, Key, Assessment
<1>2. ts \in Nat /\ now' = ts /\ now <= ts /\ UNCHANGED <<conf, phase, closed, early, window, hidden>>
  BY DEF Absorb, Arrives
<1>3. open[k] \in Alert /\ open' = [open EXCEPT ![k] = Absorbed(open[k], ts, a.score)]
  BY <1>1 DEF Absorb, Near, Inv, TypeOK
<1>4. /\ Absorbed(open[k], ts, a.score) \in Alert
      /\ Absorbed(open[k], ts, a.score).key = open[k].key
      /\ Absorbed(open[k], ts, a.score).last = ts
  <2> DEFINE o == open[k]
             p == IF a.score > o.peak THEN a.score ELSE o.peak
             v == IF Rises(o, a.score) THEN Severity(a.score) ELSE o.severity
             e == o.escalations + Bit(Rises(o, a.score))
  <2>1. o \in Alert
    BY <1>3
  <2>2. p \in Score
    BY <1>1, <2>1 DEF Alert
  <2>3. v \in Nat
    BY <1>1, <2>1, SeverityType DEF Alert
  <2>4. e \in Nat
    BY <2>1 DEF Alert, Bit
  <2>5. Absorbed(o, ts, a.score)
        = [key |-> o.key, first |-> o.first, last |-> ts, n |-> o.n + 1, peak |-> p,
           severity |-> v, escalations |-> e, suppressed |-> o.suppressed]
    BY DEF Absorbed
  <2> HIDE DEF o, p, v, e
  <2>6. /\ Absorbed(o, ts, a.score) \in Alert
        /\ Absorbed(o, ts, a.score).key = o.key
        /\ Absorbed(o, ts, a.score).last = ts
    BY <1>2, <2>1, <2>2, <2>3, <2>4, <2>5 DEF Alert
  <2> QED BY <2>6 DEF o
<1>5. count' \in Tallies /\ AddsUp'
  <2>1. count' = Tallied(a, "grouped", Rises(open[k], a.score))
    BY DEF Absorb
  <2> QED BY <2>1, TalliesAddUp
<1>6. TypeOK'
  BY <1>1, <1>2, <1>3, <1>4, <1>5 DEF Inv, TypeOK
<1>7. KeysRight'
  <2> SUFFICES ASSUME NEW j \in Key
               PROVE  /\ open'[j] # NoAlert => open'[j].key = j /\ open'[j].last <= ts
                      /\ closed[j] # NoAlert => closed[j].key = j /\ closed[j].last <= ts
    BY <1>2 DEF KeysRight
  <2>1. open[j] \in Alert \cup {NoAlert} /\ closed[j] \in Alert \cup {NoAlert} /\ now \in Nat
    BY DEF Inv, TypeOK
  <2>2. closed[j] # NoAlert => closed[j].key = j /\ closed[j].last <= ts
    BY <1>2, <2>1 DEF Inv, KeysRight, Alert
  <2>3. CASE j = k
    <3>1. open'[j] = Absorbed(open[k], ts, a.score)
      BY <1>1, <1>3, <2>3 DEF Inv, TypeOK
    <3>2. open[k] # NoAlert
      BY <1>3, AlertIsOne
    <3>3. open[k].key = k
      BY <1>1, <3>2 DEF Inv, KeysRight
    <3> QED BY <1>2, <1>4, <2>2, <2>3, <3>1, <3>3
  <2>4. CASE j # k
    <3>1. open'[j] = open[j]
      BY <1>1, <1>3, <2>4 DEF Inv, TypeOK
    <3> QED BY <1>2, <2>1, <2>2, <3>1 DEF Inv, KeysRight, Alert
  <2> QED BY <2>3, <2>4
<1>8. HiddenTold'
  BY <1>2 DEF Inv, HiddenTold, Told, Telling
<1> QED BY <1>5, <1>6, <1>7, <1>8 DEF Inv

(* What a cooldown hides was told by the alert it is tallied to.           *)
LEMMA OldNews ==
  ASSUME Inv, NEW k \in Key, NEW ts \in Nat, NEW score \in Score, now <= ts,
         ~ Passes(Latest(k), ts, score), UNCHANGED conf,
         NEW h, h = [key |-> k, ts |-> ts, score |-> score, reason |-> "cooldown"]
  PROVE  /\ Latest(k) \in Alert
         /\ Telling([Latest(k) EXCEPT !.suppressed = @ + 1], h, conf)
<1> DEFINE l == Latest(k)
<1>1. l \in Alert \cup {NoAlert}
  BY KeptType DEF Inv
<1>2. /\ l # NoAlert /\ ts - l.last <= conf.cooldown
      /\ ~ (Material(l, score) /\ conf.bypass)
  BY DEF Passes, Cooling
<1>3. l \in Alert
  BY <1>1, <1>2
<1>4. l.key = k /\ l.last <= now
  BY <1>2 DEF Latest, Inv, KeysRight
<1>5. conf.bypass => Severity(score) <= l.severity /\ score <= l.peak
  <2>1. Severity(score) \in Nat /\ l.severity \in Nat /\ l.peak \in Int /\ score \in Int
    BY <1>3, SeverityType DEF Alert, Score
  <2> QED BY <1>2, <2>1 DEF Material
<1>6. l.last \in Nat /\ now \in Nat /\ conf.cooldown \in Nat
  BY <1>3, AlertsAssumption DEF Alert, Inv, TypeOK
<1> DEFINE m == [l EXCEPT !.suppressed = @ + 1]
<1>7. m.key = l.key /\ m.last = l.last /\ m.severity = l.severity /\ m.peak = l.peak
  BY <1>3 DEF Alert
<1> HIDE DEF m, l
<1>8. Telling(m, h, conf)
  BY <1>2, <1>4, <1>5, <1>6, <1>7 DEF Telling
<1> QED BY <1>3, <1>8 DEF m, l

(* Nothing told is forgotten when the key's last alert is closed or takes  *)
(* a tally.                                                                *)
LEMMA ToldStays ==
  ASSUME Inv, NEW k \in Key, UNCHANGED conf, early' = Kept(k),
         NEW new \in Alert \cup {NoAlert}, closed' = [closed EXCEPT ![k] = new],
         open[k] = NoAlert /\ closed[k] # NoAlert =>
           /\ new # NoAlert
           /\ new.key = closed[k].key /\ new.last = closed[k].last
           /\ new.severity = closed[k].severity /\ new.peak = closed[k].peak,
         NEW h, Told(h)
  PROVE  Told(h)'
<1>1. CASE \E i \in 1 .. Len(early) : Telling(early[i], h, conf)
  <2>1. PICK i \in 1 .. Len(early) : Telling(early[i], h, conf)
    BY <1>1
  <2>2. i \in 1 .. Len(Kept(k)) /\ Kept(k)[i] = early[i]
    BY KeptType, <2>1 DEF Inv
  <2>3. i \in 1 .. Len(early') /\ Telling(early'[i], h, conf)
    BY <2>1, <2>2 DEF Telling
  <2> QED BY <2>3 DEF Told
<1>2. CASE \E j \in Key : closed[j] # NoAlert /\ Telling(closed[j], h, conf)
  <2>1. PICK j \in Key : closed[j] # NoAlert /\ Telling(closed[j], h, conf)
    BY <1>2
  <2>2. closed \in [Key -> Alert \cup {NoAlert}] /\ early \in Seq(Alert)
    BY DEF Inv, TypeOK
  <2>3. CASE j # k
    <3>1. closed'[j] = closed[j]
      BY <2>2, <2>3
    <3> QED BY <2>1, <3>1 DEF Told, Telling
  <2>4. CASE j = k /\ open[k] # NoAlert
    <3>1. early' = Append(early, closed[k])
      BY <2>1, <2>4 DEF Kept
    <3>2. closed[k] \in Alert
      BY <2>1, <2>2, <2>4
    <3>3. Len(early) + 1 \in 1 .. Len(early') /\ early'[Len(early) + 1] = closed[k]
      BY <2>2, <3>1, <3>2
    <3>4. Telling(early'[Len(early) + 1], h, conf)
      BY <2>1, <2>4, <3>3 DEF Telling
    <3> QED BY <3>3, <3>4 DEF Told
  <2>5. CASE j = k /\ open[k] = NoAlert
    <3>1. closed'[k] = new
      BY <2>2
    <3>2. closed'[k] # NoAlert /\ Telling(closed'[k], h, conf)
      BY <2>1, <2>5, <3>1 DEF Telling
    <3> QED BY <3>2 DEF Told
  <2> QED BY <2>3, <2>4, <2>5
<1> QED BY <1>1, <1>2 DEF Told

(* No open alert takes the assessment: whether it is suppressed or opens   *)
(* one, the alert it is measured against is kept.                          *)
LEMMA DecideInv ==
  ASSUME Inv, NEW a \in Assessment, NEW ts \in 0 .. MaxTime, Decide(a, ts)
  PROVE  Inv'
<1> USE AlertsAssumption
<1> DEFINE k == KeyOf(a)
           l == Latest(k)
<1>1. k \in Key /\ a.score \in Score
  BY DEF KeyOf, Key, Assessment
<1>2. ts \in Nat /\ now' = ts /\ now <= ts /\ UNCHANGED <<conf, phase>>
  BY DEF Decide, Arrives
<1>3. early' = Kept(k)
  BY DEF Decide
<1>4. /\ Kept(k) \in Seq(Alert) /\ l \in Alert \cup {NoAlert}
      /\ now \in Nat /\ open \in [Key -> Alert \cup {NoAlert}]
      /\ closed \in [Key -> Alert \cup {NoAlert}]
  BY <1>1, KeptType DEF Inv, TypeOK
<1>5. /\ l # NoAlert => l.key = k /\ l.last <= ts
      /\ open[k] = NoAlert => l = closed[k]
  <2>1. l \in Alert => l.last \in Nat
    BY DEF Alert
  <2> QED BY <1>1, <1>2, <1>4, <2>1 DEF Latest, Inv, KeysRight
<1>6. ASSUME NEW r \in {"cooldown", "limit"},
             open' = [open EXCEPT ![k] = NoAlert],
             closed' = [closed EXCEPT ![k] = Tally(k, ts, a.score)],
             count' = Tallied(a, r, FALSE),
             hidden' = hidden \cup {[key |-> k, ts |-> ts, score |-> a.score, reason |-> r]},
             UNCHANGED window,
             r = "cooldown" => ~ Passes(l, ts, a.score)
      PROVE  Inv'
  <2> DEFINE t == Tally(k, ts, a.score)
             h == [key |-> k, ts |-> ts, score |-> a.score, reason |-> r]
  <2>1. /\ t \in Alert \cup {NoAlert} /\ (t = NoAlert <=> l = NoAlert)
        /\ l # NoAlert => /\ t = [l EXCEPT !.suppressed = @ + 1]
                          /\ t.key = l.key /\ t.last = l.last
                          /\ t.severity = l.severity /\ t.peak = l.peak
    <3>1. CASE l = NoAlert
      BY <3>1 DEF Tally
    <3>2. CASE l # NoAlert
      <4>1. l \in Alert /\ t = [l EXCEPT !.suppressed = @ + 1]
        BY <1>4, <3>2 DEF Tally
      <4> HIDE DEF l, t
      <4>2. t \in Alert /\ t.key = l.key /\ t.last = l.last
            /\ t.severity = l.severity /\ t.peak = l.peak
        BY <4>1 DEF Alert
      <4> QED BY <3>2, <4>1, <4>2, AlertIsOne
    <3> QED BY <3>1, <3>2
  <2>2. count' \in Tallies /\ AddsUp'
    BY <1>6, TalliesAddUp
  <2>3. h \in [key : Key, ts : Nat, score : Score, reason : {"cooldown", "limit"}]
    BY <1>1, <1>2
  <2> HIDE DEF t, h, l
  <2>4. TypeOK'
    BY <1>1, <1>2, <1>3, <1>4, <1>6, <2>1, <2>2, <2>3 DEF t, h, Inv, TypeOK
  <2>5. KeysRight'
    <3> SUFFICES ASSUME NEW j \in Key
                 PROVE  /\ open'[j] # NoAlert => open'[j].key = j /\ open'[j].last <= ts
                        /\ closed'[j] # NoAlert => closed'[j].key = j /\ closed'[j].last <= ts
      BY <1>2 DEF KeysRight
    <3>1. CASE j = k
      <4>1. open'[j] = NoAlert /\ closed'[j] = t
        BY <1>1, <1>4, <1>6, <3>1 DEF t
      <4> QED BY <1>5, <2>1, <3>1, <4>1
    <3>2. CASE j # k
      <4>1. open'[j] = open[j] /\ closed'[j] = closed[j]
        BY <1>1, <1>4, <1>6, <3>2
      <4>2. open[j] \in Alert \cup {NoAlert} /\ closed[j] \in Alert \cup {NoAlert}
        BY <1>4
      <4>3. /\ open[j] # NoAlert => open[j].key = j /\ open[j].last <= now
            /\ closed[j] # NoAlert => closed[j].key = j /\ closed[j].last <= now
        BY DEF Inv, KeysRight
      <4>4. /\ open[j] # NoAlert => open[j].last \in Nat
            /\ closed[j] # NoAlert => closed[j].last \in Nat
        BY <4>2 DEF Alert
      <4> QED BY <1>2, <1>4, <4>1, <4>3, <4>4
    <3> QED BY <3>1, <3>2
  <2>6. HiddenTold'
    <3> SUFFICES ASSUME NEW g \in hidden', g.reason = "cooldown" PROVE Told(g)'
      BY DEF HiddenTold
    <3>1. CASE g \in hidden
      <4>1. Told(g)
        BY <3>1 DEF Inv, HiddenTold
      <4>2. open[k] = NoAlert /\ closed[k] # NoAlert =>
              /\ t # NoAlert
              /\ t.key = closed[k].key /\ t.last = closed[k].last
              /\ t.severity = closed[k].severity /\ t.peak = closed[k].peak
        BY <1>5, <2>1
      <4> QED BY <1>1, <1>2, <1>3, <1>6, <2>1, <4>1, <4>2, ToldStays DEF t
    <3>2. CASE g = h
      <4>1. r = "cooldown"
        BY <3>2 DEF h
      <4>2. ~ Passes(Latest(k), ts, a.score)
        BY <1>6, <4>1 DEF l
      <4>3. g = [key |-> k, ts |-> ts, score |-> a.score, reason |-> "cooldown"]
        BY <3>2, <4>1 DEF h
      <4>4. Latest(k) \in Alert /\ Telling([Latest(k) EXCEPT !.suppressed = @ + 1], g, conf)
        BY <1>1, <1>2, <4>2, <4>3, OldNews
      <4>5. t # NoAlert /\ t = [Latest(k) EXCEPT !.suppressed = @ + 1]
        BY <2>1, <4>4, AlertIsOne DEF l
      <4>6. closed'[k] = t
        BY <1>1, <1>4, <1>6 DEF t
      <4>7. closed'[k] # NoAlert /\ Telling(closed'[k], g, conf)
        BY <4>4, <4>5, <4>6 DEF Telling
      <4> QED BY <1>1, <1>2, <4>7 DEF Told
    <3> QED BY <1>6, <3>1, <3>2 DEF h
  <2> QED BY <2>2, <2>4, <2>5, <2>6 DEF Inv
<1>7. ASSUME open' = [open EXCEPT ![k] = Opened(k, ts, a.score)],
             closed' = [closed EXCEPT ![k] = l],
             NEW up, count' = Tallied(a, "grouped", up),
             window' = [window EXCEPT ![k] = Slot(k, ts)],
             UNCHANGED hidden
      PROVE  Inv'
  <2> DEFINE o == Opened(k, ts, a.score)
  <2>1. o \in Alert /\ o.key = k /\ o.last = ts
    BY <1>1, <1>2, SeverityType DEF Opened, Alert
  <2>2. count' \in Tallies /\ AddsUp'
    BY <1>7, TalliesAddUp
  <2>3. Slot(k, ts) \in [start : Nat, count : Nat]
    BY <1>1, <1>2 DEF Slot, Inv, TypeOK
  <2> HIDE DEF o, l
  <2>4. TypeOK'
    BY <1>1, <1>2, <1>3, <1>4, <1>7, <2>1, <2>2, <2>3 DEF o, Inv, TypeOK
  <2>5. KeysRight'
    <3> SUFFICES ASSUME NEW j \in Key
                 PROVE  /\ open'[j] # NoAlert => open'[j].key = j /\ open'[j].last <= ts
                        /\ closed'[j] # NoAlert => closed'[j].key = j /\ closed'[j].last <= ts
      BY <1>2 DEF KeysRight
    <3>1. CASE j = k
      <4>1. open'[j] = o /\ closed'[j] = l
        BY <1>1, <1>4, <1>7, <3>1 DEF o
      <4> QED BY <1>2, <1>5, <2>1, <3>1, <4>1
    <3>2. CASE j # k
      <4>1. open'[j] = open[j] /\ closed'[j] = closed[j]
        BY <1>1, <1>4, <1>7, <3>2
      <4>2. open[j] \in Alert \cup {NoAlert} /\ closed[j] \in Alert \cup {NoAlert}
        BY <1>4
      <4>3. /\ open[j] # NoAlert => open[j].key = j /\ open[j].last <= now
            /\ closed[j] # NoAlert => closed[j].key = j /\ closed[j].last <= now
        BY DEF Inv, KeysRight
      <4>4. /\ open[j] # NoAlert => open[j].last \in Nat
            /\ closed[j] # NoAlert => closed[j].last \in Nat
        BY <4>2 DEF Alert
      <4> QED BY <1>2, <1>4, <4>1, <4>3, <4>4
    <3> QED BY <3>1, <3>2
  <2>6. HiddenTold'
    <3> SUFFICES ASSUME NEW g \in hidden, g.reason = "cooldown" PROVE Told(g)'
      BY <1>7 DEF HiddenTold
    <3>1. Told(g)
      BY DEF Inv, HiddenTold
    <3>2. open[k] = NoAlert /\ closed[k] # NoAlert =>
            /\ l # NoAlert
            /\ l.key = closed[k].key /\ l.last = closed[k].last
            /\ l.severity = closed[k].severity /\ l.peak = closed[k].peak
      BY <1>5
    <3> QED BY <1>1, <1>2, <1>3, <1>4, <1>7, <3>1, <3>2, ToldStays
  <2> QED BY <2>2, <2>4, <2>5, <2>6 DEF Inv
<1>8. \/ \E r \in {"cooldown", "limit"} :
           /\ open' = [open EXCEPT ![k] = NoAlert]
           /\ closed' = [closed EXCEPT ![k] = Tally(k, ts, a.score)]
           /\ count' = Tallied(a, r, FALSE)
           /\ hidden' = hidden \cup {[key |-> k, ts |-> ts, score |-> a.score, reason |-> r]}
           /\ UNCHANGED window
           /\ r = "cooldown" => ~ Passes(l, ts, a.score)
      \/ \E up :
           /\ open' = [open EXCEPT ![k] = Opened(k, ts, a.score)]
           /\ closed' = [closed EXCEPT ![k] = l]
           /\ count' = Tallied(a, "grouped", up)
           /\ window' = [window EXCEPT ![k] = Slot(k, ts)]
           /\ UNCHANGED hidden
  BY DEF Decide, Hide
<1> QED BY <1>6, <1>7, <1>8

(* The stats validator finds nothing to refuse.                            *)
LEMMA FinishInv == Inv /\ Finish => Inv'
<1> SUFFICES ASSUME Inv, Finish PROVE Inv' OBVIOUS
<1>1. phase' = "done" /\ UNCHANGED <<conf, now, open, closed, early, window, count, hidden>>
  BY DEF Inv, Finish
<1>2. TypeOK' /\ AddsUp' /\ KeysRight'
  BY <1>1 DEF Inv, TypeOK, AddsUp, KeysRight
<1>3. HiddenTold'
  BY <1>1 DEF Inv, HiddenTold, Told, Telling
<1> QED BY <1>2, <1>3 DEF Inv

LEMMA StutterInv == Inv /\ UNCHANGED vars => Inv'
<1> SUFFICES ASSUME Inv, UNCHANGED vars PROVE Inv' OBVIOUS
<1>1. TypeOK' /\ AddsUp' /\ KeysRight'
  BY DEF vars, Inv, TypeOK, AddsUp, KeysRight
<1>2. HiddenTold'
  BY DEF vars, Inv, HiddenTold, Told, Telling
<1> QED BY <1>1, <1>2 DEF Inv

LEMMA StepInv == Inv /\ [Next]_vars => Inv'
<1> SUFFICES ASSUME Inv, [Next]_vars PROVE Inv' OBVIOUS
<1>1. CASE UNCHANGED vars
  BY <1>1, StutterInv
<1>2. CASE Finish
  BY <1>2, FinishInv
<1>3. ASSUME NEW a \in Assessment, NEW ts \in 0 .. MaxTime,
             Ignore(a, ts) \/ RefuseUnscoped(a, ts) \/ Absorb(a, ts) \/ Decide(a, ts)
      PROVE  Inv'
  BY <1>3, IgnoreInv, AbsorbInv, DecideInv
<1> QED BY <1>1, <1>2, <1>3 DEF Next

(* The inductive invariant: the tallies, and for everything a cooldown hid *)
(* a closed alert that told it and will not change any more.               *)
THEOREM Invariant == Spec => []Inv
<1> QED BY InitInv, StepInv, PTL DEF Spec

(* Every variable keeps its type, and check_accounting never refuses.      *)
THEOREM TypeCorrect == Spec => []TypeOK
<1>1. Inv => TypeOK
  BY DEF Inv
<1> QED BY <1>1, Invariant, PTL

(* Whatever a cooldown hides was told before, as severe and as high.       *)
THEOREM OnlyOldNewsIsHidden == Spec => []NothingNewHidden
<1>1. Inv => NothingNewHidden
  <2> SUFFICES ASSUME Inv, NEW h \in hidden, h.reason = "cooldown"
               PROVE  \E a \in Emitted : Telling(a, h, conf)
    BY DEF NothingNewHidden, Telling
  <2>1. Told(h)
    BY DEF Inv, HiddenTold
  <2>2. CASE \E i \in 1 .. Len(early) : Telling(early[i], h, conf)
    <3>1. PICK i \in 1 .. Len(early) : Telling(early[i], h, conf)
      BY <2>2
    <3>2. early[i] \in Alert
      BY <3>1 DEF Inv, TypeOK
    <3>3. early[i] \in Emitted
      BY <3>2, AlertIsOne DEF Emitted
    <3> QED BY <3>1, <3>3
  <2>3. CASE \E k \in Key : closed[k] # NoAlert /\ Telling(closed[k], h, conf)
    BY <2>3 DEF Emitted
  <2> QED BY <2>1, <2>2, <2>3 DEF Told
<1> QED BY <1>1, Invariant, PTL

-----------------------------------------------------------------------------
(* Levels.                                                                 *)

(* An alert is as severe as its highest score.                             *)
Level(alert) == alert # NoAlert => alert.severity = Severity(alert.peak)
Levels == \A k \in Key : Level(open[k]) /\ Level(closed[k])

LEMMA SeverityMonotone ==
  ASSUME NEW x \in Score, NEW y \in Score, x <= y
  PROVE  Severity(x) <= Severity(y)
<1>0. Bands \subseteq Nat /\ Score \subseteq Nat
  BY AlertsAssumption DEF Score
<1>1. {b \in Bands : b <= x} \subseteq {b \in Bands : b <= y}
  <2>1. \A b \in Bands : b <= x => b <= y
    BY <1>0
  <2> QED BY <2>1
<1>2. IsFiniteSet({b \in Bands : b <= y})
  BY FS_Subset, AlertsAssumption
<1> QED BY <1>1, <1>2, FS_Subset DEF Severity

LEMMA LevelsStep ==
  ASSUME TypeOK, Levels, [Next]_vars
  PROVE  Levels'
<1>1. ASSUME UNCHANGED <<open, closed>> PROVE Levels'
  BY <1>1 DEF Levels, Level, Severity
<1>2. ASSUME NEW a \in Assessment, NEW ts \in 0 .. MaxTime, Absorb(a, ts) PROVE Levels'
  <2> DEFINE k == KeyOf(a)
  <2>1. open' = [open EXCEPT ![k] = Absorbed(@, ts, a.score)] /\ UNCHANGED closed
        /\ Near(open[k], ts)
    BY <1>2 DEF Absorb
  <2>2. k \in Key /\ a.score \in Score
    BY DEF KeyOf, Key, Assessment
  <2>3. open[k] \in Alert /\ open[k].severity = Severity(open[k].peak)
    BY <2>1, <2>2 DEF TypeOK, Near, Levels, Level
  <2>4. open[k].peak \in Score /\ Score \subseteq Nat
    BY <2>3, AlertsAssumption DEF Alert, Score
  <2>5. Severity(a.score) \in Nat /\ Severity(open[k].peak) \in Nat
    BY <2>2, <2>4, SeverityType
  <2>6. /\ a.score <= open[k].peak => Severity(a.score) <= Severity(open[k].peak)
        /\ open[k].peak <= a.score => Severity(open[k].peak) <= Severity(a.score)
    BY <2>2, <2>4, SeverityMonotone
  <2>7. Absorbed(open[k], ts, a.score).severity = Severity(Absorbed(open[k], ts, a.score).peak)
    <3>1. a.score \in Nat /\ open[k].peak \in Nat
      BY <2>2, <2>4
    <3> QED BY <3>1, <2>3, <2>5, <2>6 DEF Absorbed, Rises
  <2>8. \A q \in Key : open'[q] = IF q = k THEN Absorbed(open[k], ts, a.score) ELSE open[q]
    BY <2>1 DEF TypeOK
  <2> QED BY <2>1, <2>7, <2>8 DEF Levels, Level, Severity
<1>3. ASSUME NEW a \in Assessment, NEW ts \in 0 .. MaxTime, Decide(a, ts) PROVE Levels'
  <2> DEFINE k == KeyOf(a)
             told == [Latest(k) EXCEPT !.suppressed = @ + 1]
  <2>1. k \in Key
    BY DEF KeyOf, Key, Assessment
  <2>2. Level(Latest(k)) /\ Latest(k) \in Alert \cup {NoAlert}
    BY <2>1 DEF Latest, Levels, TypeOK
  <2>3. Level(NoAlert) /\ Level(Opened(k, ts, a.score))
    BY DEF Level, Opened
  <2>4. Level(Tally(k, ts, a.score))
    <3>1. Latest(k) \in Alert => told.severity = Latest(k).severity /\ told.peak = Latest(k).peak
      BY DEF Alert
    <3> QED BY <3>1, <2>2 DEF Tally, Level
  <2>5. PICK x, y : /\ open' = [open EXCEPT ![k] = x] /\ Level(x)
                    /\ closed' = [closed EXCEPT ![k] = y] /\ Level(y)
    BY <1>3, <2>2, <2>3, <2>4 DEF Decide
  <2>6. \A q \in Key : /\ open'[q] = IF q = k THEN x ELSE open[q]
                       /\ closed'[q] = IF q = k THEN y ELSE closed[q]
    BY <2>5 DEF TypeOK
  <2> QED BY <2>5, <2>6 DEF Levels, Level, Severity
<1>4. ASSUME NEW a \in Assessment, NEW ts \in 0 .. MaxTime, Ignore(a, ts) \/ RefuseUnscoped(a, ts)
      PROVE  Levels'
  BY <1>1, <1>4 DEF Ignore, RefuseUnscoped
<1>5. CASE Finish
  BY <1>1, <1>5 DEF Finish
<1>6. CASE UNCHANGED vars
  BY <1>1, <1>6 DEF vars
<1> QED BY <1>2, <1>3, <1>4, <1>5, <1>6 DEF Next

-----------------------------------------------------------------------------
(* Steps.  What one assessment does to the alerts, whoever asks.           *)

(* What an assessment moves in any case: the clock and the number          *)
(* scanned.                                                                *)
Rest(k, ts) ==
  /\ now' = ts /\ now <= ts /\ UNCHANGED conf
  /\ count.scanned < MaxAssessments /\ count'.scanned = count.scanned + 1

(* Nothing becomes of it.                                                  *)
Stays ==
  /\ now' \in Nat /\ now <= now' /\ UNCHANGED <<conf, open, closed, early, window, hidden>>
  /\ count.scanned <= MaxAssessments => count'.scanned <= MaxAssessments
  /\ count.scanned <= count'.scanned
  /\ count'.grouped = count.grouped /\ count'.cooldown = count.cooldown
  /\ count'.limited = count.limited

(* The open alert of its key takes it.                                     *)
Takes(k, ts, score) ==
  /\ Rest(k, ts)
  /\ Near(open[k], ts)
  /\ open' = [open EXCEPT ![k] = Absorbed(open[k], ts, score)]
  /\ UNCHANGED <<closed, early, window, hidden>>
  /\ count'.grouped = count.grouped + 1 /\ count'.cooldown = count.cooldown
  /\ count'.limited = count.limited

(* It is suppressed, and told to the last alert of its key.                *)
Hides(k, ts, score, reason) ==
  /\ Rest(k, ts)
  /\ ~ Near(open[k], ts)
  /\ reason = "cooldown" => ~ Passes(Latest(k), ts, score)
  /\ reason = "limit" => Slot(k, ts).count > conf.limit
  /\ open' = [open EXCEPT ![k] = NoAlert]
  /\ closed' = [closed EXCEPT ![k] = Tally(k, ts, score)]
  /\ early' = Kept(k)
  /\ hidden' = hidden \cup {[key |-> k, ts |-> ts, score |-> score, reason |-> reason]}
  /\ UNCHANGED window
  /\ count'.grouped = count.grouped
  /\ count'.cooldown + count'.limited = count.cooldown + count.limited + 1

(* It opens an alert.                                                      *)
Opens(k, ts, score) ==
  /\ Rest(k, ts)
  /\ ~ Near(open[k], ts)
  /\ Passes(Latest(k), ts, score)
  /\ open' = [open EXCEPT ![k] = Opened(k, ts, score)]
  /\ closed' = [closed EXCEPT ![k] = Latest(k)]
  /\ early' = Kept(k)
  /\ window' = [window EXCEPT ![k] = Slot(k, ts)]
  /\ UNCHANGED hidden
  /\ count'.grouped = count.grouped + 1 /\ count'.cooldown = count.cooldown
  /\ count'.limited = count.limited

(* Every step has one of the four shapes.                                  *)
LEMMA Shapes ==
  ASSUME TypeOK, [Next]_vars
  PROVE  \/ Stays
         \/ \E k \in Key, ts \in Nat, score \in Score :
              \/ Takes(k, ts, score) \/ Opens(k, ts, score)
              \/ \E reason \in {"cooldown", "limit"} : Hides(k, ts, score, reason)
<1>0. count \in Tallies /\ now \in Nat /\ MaxTime \in Nat /\ MaxAssessments \in Nat
  BY AlertsAssumption DEF TypeOK
<1>1. CASE UNCHANGED vars
  BY <1>0, <1>1 DEF vars, Stays, Tallies
<1>2. CASE Finish
  BY <1>0, <1>2 DEF Finish, Stays, Tallies
<1>3. ASSUME NEW a \in Assessment, NEW ts \in 0 .. MaxTime, Ignore(a, ts)
      PROVE  Stays
  <2>1. PICK what \in {"unfired", "gated"} : count' = Tallied(a, what, FALSE)
    BY <1>3 DEF Ignore
  <2>2. /\ count'.scanned = count.scanned + 1 /\ count'.grouped = count.grouped
        /\ count'.cooldown = count.cooldown /\ count'.limited = count.limited
    BY <1>0, <2>1 DEF Tallied, Bit, Tallies
  <2>3. count.scanned \in Nat
    BY <1>0 DEF Tallies
  <2>4. /\ now' = ts /\ now <= ts /\ count.scanned < MaxAssessments
        /\ UNCHANGED <<conf, open, closed, early, window, hidden>>
    BY <1>3 DEF Ignore, Arrives
  <2> QED BY <1>0, <2>2, <2>3, <2>4 DEF Stays
<1>4. ASSUME NEW a \in Assessment, NEW ts \in 0 .. MaxTime, RefuseUnscoped(a, ts)
      PROVE  Stays
  BY <1>0, <1>4 DEF RefuseUnscoped, Arrives, Stays, Tallies
<1>5. ASSUME NEW a \in Assessment PROVE KeyOf(a) \in Key /\ a.score \in Score
  BY DEF KeyOf, Key, Assessment
<1>6. ASSUME NEW a \in Assessment, NEW ts \in 0 .. MaxTime, Absorb(a, ts)
      PROVE  Takes(KeyOf(a), ts, a.score)
  <2>1. /\ count'.scanned = count.scanned + 1 /\ count'.grouped = count.grouped + 1
        /\ count'.cooldown = count.cooldown /\ count'.limited = count.limited
    <3>1. count' = Tallied(a, "grouped", Rises(open[KeyOf(a)], a.score))
      BY <1>6 DEF Absorb
    <3> QED BY <1>0, <3>1 DEF Tallied, Bit, Tallies
  <2> QED BY <1>6, <2>1 DEF Absorb, Arrives, Takes, Rest
<1>7. ASSUME NEW a \in Assessment, NEW ts \in 0 .. MaxTime, Decide(a, ts)
      PROVE  \/ Opens(KeyOf(a), ts, a.score)
             \/ \E reason \in {"cooldown", "limit"} : Hides(KeyOf(a), ts, a.score, reason)
  <2> DEFINE k == KeyOf(a)
  <2>1. /\ now' = ts /\ now <= ts /\ UNCHANGED conf /\ count.scanned < MaxAssessments
        /\ ~ Near(open[k], ts) /\ early' = Kept(k)
    BY <1>7 DEF Decide, Arrives
  <2>2. CASE /\ ~ Passes(Latest(k), ts, a.score)
             /\ open' = [open EXCEPT ![k] = NoAlert]
             /\ closed' = [closed EXCEPT ![k] = Tally(k, ts, a.score)]
             /\ count' = Tallied(a, "cooldown", FALSE)
             /\ Hide(k, ts, a.score, "cooldown")
             /\ UNCHANGED window
    <3>1. /\ count'.scanned = count.scanned + 1 /\ count'.grouped = count.grouped
          /\ count'.cooldown + count'.limited = count.cooldown + count.limited + 1
      BY <1>0, <2>2 DEF Tallied, Bit, Tallies
    <3>2. Hides(k, ts, a.score, "cooldown")
      BY <2>1, <2>2, <3>1 DEF Hides, Rest, Hide
    <3> QED BY <3>2
  <2>3. CASE /\ Passes(Latest(k), ts, a.score) /\ Slot(k, ts).count > conf.limit
             /\ open' = [open EXCEPT ![k] = NoAlert]
             /\ closed' = [closed EXCEPT ![k] = Tally(k, ts, a.score)]
             /\ count' = Tallied(a, "limit", FALSE)
             /\ Hide(k, ts, a.score, "limit")
             /\ UNCHANGED window
    <3>1. /\ count'.scanned = count.scanned + 1 /\ count'.grouped = count.grouped
          /\ count'.cooldown + count'.limited = count.cooldown + count.limited + 1
      BY <1>0, <2>3 DEF Tallied, Bit, Tallies
    <3>2. Hides(k, ts, a.score, "limit")
      BY <2>1, <2>3, <3>1 DEF Hides, Rest, Hide
    <3> QED BY <3>2
  <2>4. CASE /\ Passes(Latest(k), ts, a.score) /\ Slot(k, ts).count <= conf.limit
             /\ open' = [open EXCEPT ![k] = Opened(k, ts, a.score)]
             /\ closed' = [closed EXCEPT ![k] = Latest(k)]
             /\ \E up : count' = Tallied(a, "grouped", up)
             /\ window' = [window EXCEPT ![k] = Slot(k, ts)]
             /\ UNCHANGED hidden
    <3>1. /\ count'.scanned = count.scanned + 1 /\ count'.grouped = count.grouped + 1
          /\ count'.cooldown = count.cooldown /\ count'.limited = count.limited
      BY <1>0, <2>4 DEF Tallied, Bit, Tallies
    <3> QED BY <2>1, <2>4, <3>1 DEF Opens, Rest
  <2> QED BY <1>7, <2>2, <2>3, <2>4 DEF Decide
<1> QED
  <2>1. ASSUME NEW a \in Assessment, NEW ts \in 0 .. MaxTime,
               Ignore(a, ts) \/ RefuseUnscoped(a, ts) \/ Absorb(a, ts) \/ Decide(a, ts)
        PROVE  \/ Stays
               \/ \E k \in Key, t \in Nat, score \in Score :
                    \/ Takes(k, t, score) \/ Opens(k, t, score)
                    \/ \E reason \in {"cooldown", "limit"} : Hides(k, t, score, reason)
    <3>1. ts \in Nat
      BY <1>0
    <3> QED BY <2>1, <3>1, <1>3, <1>4, <1>5, <1>6, <1>7
  <2> QED BY <1>1, <1>2, <2>1 DEF Next

-----------------------------------------------------------------------------
(* The order of the alerts of one key.                                     *)

(* b began when a no longer took anything, nor held it back unless b is    *)
(* news.                                                                   *)
Apart(c, a, b) ==
  /\ a.last + c.grouping < b.first
  /\ \/ a.last + c.cooldown < b.first
     \/ c.bypass /\ a.peak < b.peak

(* An alert's times, by the time t.                                        *)
Aged(a, t) == a.first <= a.last /\ a.last <= t

(* The alerts of a key follow one another: those closed early, in their    *)
(* order, then the one closed last, then the open one.                     *)
InOrder ==
  /\ \A i \in 1 .. Len(early) :
       /\ Aged(early[i], now)
       /\ closed[early[i].key] # NoAlert /\ Apart(conf, early[i], closed[early[i].key])
  /\ \A i, j \in 1 .. Len(early) :
       i < j /\ early[i].key = early[j].key => Apart(conf, early[i], early[j])
  /\ \A k \in Key :
       closed[k] # NoAlert => Aged(closed[k], now) /\ closed[k].last + conf.grouping < now
  /\ \A k \in Key :
       open[k] # NoAlert => /\ Aged(open[k], now)
                            /\ closed[k] # NoAlert => Apart(conf, closed[k], open[k])

(* The settings are positive numbers.                                      *)
Intervals == /\ conf.grouping \in Nat \ {0} /\ conf.cooldown \in Nat \ {0}
             /\ conf.horizon \in Nat \ {0} /\ conf.limit \in Nat \ {0}

LEMMA ConfType == TypeOK => Intervals
  BY AlertsAssumption DEF TypeOK, Intervals

(* Nor is an earlier one near.                                             *)
LEMMA ApartTrans ==
  ASSUME TypeOK, NEW a \in Alert, NEW b \in Alert, NEW c \in Alert,
         Aged(b, now), Apart(conf, a, b), Apart(conf, b, c)
  PROVE  Apart(conf, a, c)
<1>1. /\ a.last \in Nat /\ b.first \in Nat /\ b.last \in Nat /\ c.first \in Nat
      /\ a.peak \in Nat /\ b.peak \in Nat /\ c.peak \in Nat
  BY AlertsAssumption DEF Alert, Score
<1>2. Intervals
  BY ConfType
<1> QED BY <1>1, <1>2 DEF Apart, Aged, Intervals

(* Where an emitted alert is.                                              *)
LEMMA Places ==
  ASSUME TypeOK, NEW a
  PROVE  a \in Emitted <=>
           /\ a \in Alert
           /\ \/ \E i \in 1 .. Len(early) : a = early[i]
              \/ \E k \in Key : a = closed[k] \/ a = open[k]
<1>1. /\ early \in Seq(Alert) /\ closed \in [Key -> Alert \cup {NoAlert}]
      /\ open \in [Key -> Alert \cup {NoAlert}]
  BY DEF TypeOK
<1>2. \A i \in 1 .. Len(early) : early[i] \in Alert
  BY <1>1
<1> QED BY <1>1, <1>2, AlertIsOne DEF Emitted

(* And where it is after a step.                                           *)
LEMMA PlacesNext ==
  ASSUME TypeOK', NEW a
  PROVE  a \in Emitted' <=>
           /\ a \in Alert
           /\ \/ \E i \in 1 .. Len(early') : a = early'[i]
              \/ \E k \in Key : a = closed'[k] \/ a = open'[k]
<1>1. /\ early' \in Seq(Alert) /\ closed' \in [Key -> Alert \cup {NoAlert}]
      /\ open' \in [Key -> Alert \cup {NoAlert}]
  BY DEF TypeOK
<1>2. \A i \in 1 .. Len(early') : early'[i] \in Alert
  BY <1>1
<1> QED BY <1>1, <1>2, AlertIsOne DEF Emitted

(* An alert closed early comes before the latest of its key.               *)
LEMMA EarlyComesFirst ==
  ASSUME TypeOK, InOrder, NEW i \in 1 .. Len(early)
  PROVE  /\ early[i] \in Alert /\ Aged(early[i], now)
         /\ Latest(early[i].key) \in Alert /\ Apart(conf, early[i], Latest(early[i].key))
<1> DEFINE a == early[i]
           k == a.key
<1>1. a \in Alert /\ k \in Key
  <2>1. a \in Alert
    BY DEF TypeOK
  <2> QED BY <2>1 DEF Alert
<1>2. closed[k] \in Alert \cup {NoAlert} /\ open[k] \in Alert \cup {NoAlert}
  BY <1>1 DEF TypeOK
<1>3. closed[k] # NoAlert /\ Apart(conf, a, closed[k]) /\ Aged(a, now)
  BY DEF InOrder
<1>4. CASE open[k] = NoAlert
  BY <1>1, <1>2, <1>3, <1>4 DEF Latest
<1>5. CASE open[k] # NoAlert
  <2>1. open[k] \in Alert /\ Apart(conf, closed[k], open[k]) /\ Aged(closed[k], now)
    BY <1>1, <1>2, <1>3, <1>5 DEF InOrder
  <2>2. Apart(conf, a, open[k])
    BY <1>1, <1>2, <1>3, <2>1, ApartTrans
  <2> QED BY <1>1, <1>3, <1>5, <2>1, <2>2 DEF Latest
<1> QED BY <1>4, <1>5

(* The latest alert of a key comes after its others.                       *)
LEMMA LatestIsLast ==
  ASSUME TypeOK, KeysRight, InOrder, NEW a \in Emitted
  PROVE  /\ a \in Alert /\ a.key \in Key /\ Aged(a, now)
         /\ Latest(a.key) \in Emitted /\ Latest(a.key) \in Alert /\ Latest(a.key).key = a.key
         /\ Aged(Latest(a.key), now)
         /\ a = Latest(a.key) \/ Apart(conf, a, Latest(a.key))
<1> DEFINE k == a.key
<1>1. a \in Alert
  BY Places
<1>2. k \in Key
  BY <1>1 DEF Alert
<1>3. /\ early \in Seq(Alert) /\ closed \in [Key -> Alert \cup {NoAlert}]
      /\ open \in [Key -> Alert \cup {NoAlert}]
  BY DEF TypeOK
<1>4. CASE \E i \in 1 .. Len(early) : a = early[i]
  <2>1. PICK i \in 1 .. Len(early) : a = early[i]
    BY <1>4
  <2>2. closed[k] # NoAlert /\ Apart(conf, a, closed[k]) /\ Aged(a, now)
    BY <2>1 DEF InOrder
  <2>3. closed[k] \in Alert /\ Aged(closed[k], now)
    BY <1>2, <1>3, <2>2 DEF InOrder
  <2>4. CASE open[k] = NoAlert
    <3>1. Latest(k) = closed[k]
      BY <2>4 DEF Latest
    <3>2. closed[k].key = k
      BY <1>2, <2>2 DEF KeysRight
    <3> QED BY <1>1, <1>2, <2>2, <2>3, <3>1, <3>2, Places
  <2>5. CASE open[k] # NoAlert
    <3>1. Latest(k) = open[k] /\ open[k] \in Alert
      BY <1>2, <1>3, <2>5 DEF Latest
    <3>2. Aged(open[k], now) /\ Apart(conf, closed[k], open[k]) /\ open[k].key = k
      BY <1>2, <2>2, <2>5 DEF InOrder, KeysRight
    <3>3. Apart(conf, a, open[k])
      BY <1>1, <2>2, <2>3, <3>1, <3>2, ApartTrans
    <3> QED BY <1>1, <1>2, <2>2, <3>1, <3>2, <3>3, Places
  <2> QED BY <2>4, <2>5
<1>5. CASE \E j \in Key : a = closed[j] \/ a = open[j]
  <2>1. PICK j \in Key : a = closed[j] \/ a = open[j]
    BY <1>5
  <2>2. j = k /\ Aged(a, now)
    BY <1>1, <2>1, AlertIsOne DEF KeysRight, InOrder
  <2>3. CASE open[k] # NoAlert
    <3>1. Latest(k) = open[k] /\ open[k] \in Alert
      BY <1>2, <1>3, <2>3 DEF Latest
    <3>2. Aged(open[k], now) /\ open[k].key = k
      BY <1>2, <2>3 DEF InOrder, KeysRight
    <3>3. a = closed[k] => Apart(conf, a, open[k])
      BY <1>1, <1>2, <2>3, AlertIsOne DEF InOrder
    <3> QED BY <1>1, <1>2, <2>1, <2>2, <3>1, <3>2, <3>3, Places
  <2>4. CASE open[k] = NoAlert
    BY <1>1, <1>2, <2>1, <2>2, <2>4, AlertIsOne DEF Latest
  <2> QED BY <2>3, <2>4
<1> QED BY <1>4, <1>5, Places

(* Two alerts of one key follow one another.                               *)
LEMMA OneOrder ==
  ASSUME TypeOK, KeysRight, InOrder,
         NEW a \in Emitted, NEW b \in Emitted, a.key = b.key
  PROVE  a = b \/ Apart(conf, a, b) \/ Apart(conf, b, a)
<1> DEFINE k == a.key
<1>1. a \in Alert /\ b \in Alert /\ k \in Key
  BY LatestIsLast
<1>2. /\ early \in Seq(Alert) /\ closed \in [Key -> Alert \cup {NoAlert}]
      /\ open \in [Key -> Alert \cup {NoAlert}]
  BY DEF TypeOK
<1>3. CASE a = Latest(k) \/ b = Latest(k)
  BY <1>3, LatestIsLast
<1>4. CASE \E i, j \in 1 .. Len(early) : a = early[i] /\ b = early[j]
  <2>1. PICK i, j \in 1 .. Len(early) : a = early[i] /\ b = early[j]
    BY <1>4
  <2>2. i = j \/ i < j \/ j < i
    OBVIOUS
  <2> QED BY <2>1, <2>2 DEF InOrder
<1>5. CASE /\ a # Latest(k) /\ b # Latest(k)
           /\ \E i \in 1 .. Len(early) : a = early[i]
           /\ \E j \in Key : b = closed[j] \/ b = open[j]
  <2>1. b = closed[k]
    BY <1>1, <1>5, AlertIsOne DEF Latest, KeysRight
  <2> QED BY <1>5, <2>1 DEF InOrder
<1>6. CASE /\ a # Latest(k) /\ b # Latest(k)
           /\ \E i \in 1 .. Len(early) : b = early[i]
           /\ \E j \in Key : a = closed[j] \/ a = open[j]
  <2>1. a = closed[k]
    BY <1>1, <1>6, AlertIsOne DEF Latest, KeysRight
  <2> QED BY <1>6, <2>1 DEF InOrder
<1>7. CASE /\ a # Latest(k) /\ b # Latest(k)
           /\ \E j \in Key : b = closed[j] \/ b = open[j]
           /\ \E j \in Key : a = closed[j] \/ a = open[j]
  BY <1>1, <1>7, AlertIsOne DEF Latest, KeysRight
<1> QED BY <1>3, <1>4, <1>5, <1>6, <1>7, Places

(* Apart looks at the first and the last time and the peak.                *)
Same(a, b) ==
  a.key = b.key /\ a.first = b.first /\ a.last = b.last /\ a.peak = b.peak

(* Time passes, the alerts stay in order.                                  *)
LEMMA StaysInOrder ==
  ASSUME TypeOK, InOrder, Stays
  PROVE  InOrder'
<1>1. /\ now \in Nat /\ now' \in Nat /\ now <= now' /\ conf' = conf
      /\ open' = open /\ closed' = closed /\ early' = early /\ Intervals
  BY ConfType DEF Stays, TypeOK
<1>2. ASSUME NEW a \in Alert, Aged(a, now) PROVE Aged(a, now')
  BY <1>1, <1>2 DEF Aged, Alert
<1>3. ASSUME NEW a, NEW b, Apart(conf, a, b) PROVE Apart(conf', a, b)
  BY <1>1, <1>3 DEF Apart
<1>4. \A i \in 1 .. Len(early) : early[i] \in Alert
  BY DEF TypeOK
<1>5. \A i \in 1 .. Len(early') :
        /\ Aged(early'[i], now')
        /\ closed'[early'[i].key] # NoAlert /\ Apart(conf', early'[i], closed'[early'[i].key])
  BY <1>1, <1>2, <1>3, <1>4 DEF InOrder
<1>6. \A i, j \in 1 .. Len(early') :
        i < j /\ early'[i].key = early'[j].key => Apart(conf', early'[i], early'[j])
  BY <1>1, <1>3 DEF InOrder
<1>7. ASSUME NEW k \in Key
      PROVE  /\ closed'[k] # NoAlert => Aged(closed'[k], now') /\ closed'[k].last + conf.grouping < now'
             /\ open'[k] # NoAlert => /\ Aged(open'[k], now')
                                      /\ closed'[k] # NoAlert => Apart(conf', closed'[k], open'[k])
  <2>1. closed[k] \in Alert \cup {NoAlert} /\ open[k] \in Alert \cup {NoAlert}
    BY DEF TypeOK
  <2>2. closed[k] # NoAlert => Aged(closed'[k], now') /\ closed[k].last + conf.grouping < now'
    <3>1. SUFFICES ASSUME closed[k] # NoAlert
                   PROVE  Aged(closed[k], now') /\ closed[k].last + conf.grouping < now'
      BY <1>1
    <3>2. Aged(closed[k], now) /\ closed[k].last + conf.grouping < now
      BY <3>1 DEF InOrder
    <3>3. closed[k] \in Alert /\ closed[k].last + conf.grouping \in Nat
      BY <1>1, <2>1, <3>1 DEF Alert, Intervals
    <3> QED BY <1>1, <1>2, <2>1, <3>2, <3>3
  <2>3. open[k] # NoAlert => /\ Aged(open'[k], now')
                             /\ closed[k] # NoAlert => Apart(conf', closed'[k], open'[k])
    BY <1>1, <1>2, <1>3, <2>1 DEF InOrder
  <2> QED BY <1>1, <2>2, <2>3
<1> QED BY <1>1, <1>5, <1>6, <1>7 DEF InOrder

(* What taking an assessment changes of an alert.                          *)
LEMMA AbsorbedFields ==
  ASSUME NEW o \in Alert, NEW ts \in Nat, NEW score \in Score
  PROVE  /\ Absorbed(o, ts, score).key = o.key /\ Absorbed(o, ts, score).first = o.first
         /\ Absorbed(o, ts, score).last = ts /\ Absorbed(o, ts, score).n = o.n + 1
         /\ Absorbed(o, ts, score).suppressed = o.suppressed
         /\ o.peak <= Absorbed(o, ts, score).peak
         /\ Absorbed(o, ts, score) \in Alert
<1>1. o.peak \in Nat /\ score \in Nat /\ o.peak \in Score
  BY AlertsAssumption DEF Alert, Score
<1>2. o.peak <= Absorbed(o, ts, score).peak /\ Absorbed(o, ts, score).peak \in Score
  BY <1>1 DEF Absorbed
<1>3. Severity(score) \in Nat
  BY SeverityType
<1>4. Absorbed(o, ts, score).severity \in Nat /\ Absorbed(o, ts, score).escalations \in Nat
  BY <1>3 DEF Absorbed, Alert, Bit
<1>5. /\ Absorbed(o, ts, score).key = o.key /\ Absorbed(o, ts, score).first = o.first
      /\ Absorbed(o, ts, score).last = ts /\ Absorbed(o, ts, score).n = o.n + 1
      /\ Absorbed(o, ts, score).suppressed = o.suppressed
  BY DEF Absorbed
<1>6. Absorbed(o, ts, score) =
        [key |-> o.key, first |-> o.first, last |-> ts, n |-> o.n + 1,
         peak |-> Absorbed(o, ts, score).peak, severity |-> Absorbed(o, ts, score).severity,
         escalations |-> Absorbed(o, ts, score).escalations, suppressed |-> o.suppressed]
  BY DEF Absorbed
<1>7. Absorbed(o, ts, score) \in Alert
  <2> DEFINE y == Absorbed(o, ts, score)
  <2> HIDE DEF y
  <2>1. /\ y = [key |-> o.key, first |-> o.first, last |-> ts, n |-> o.n + 1, peak |-> y.peak,
                severity |-> y.severity, escalations |-> y.escalations,
                suppressed |-> o.suppressed]
        /\ y.peak \in Score /\ y.severity \in Nat /\ y.escalations \in Nat
    BY <1>2, <1>4, <1>6 DEF y
  <2>2. y \in Alert
    BY <2>1 DEF Alert
  <2> QED BY <2>2 DEF y
<1> QED BY <1>2, <1>5, <1>7

(* The open alert grows at its end only.                                   *)
LEMMA TakesInOrder ==
  ASSUME TypeOK, InOrder, NEW k \in Key, NEW ts \in Nat, NEW score \in Score, Takes(k, ts, score)
  PROVE  InOrder'
<1> DEFINE o == open[k]
           y == Absorbed(o, ts, score)
<1>1. /\ now \in Nat /\ now' = ts /\ now <= ts /\ conf' = conf
      /\ closed' = closed /\ early' = early /\ Intervals
      /\ o # NoAlert /\ open' = [open EXCEPT ![k] = y]
  BY ConfType DEF Takes, Rest, Near, TypeOK
<1>2. o \in Alert /\ open \in [Key -> Alert \cup {NoAlert}]
  BY <1>1 DEF TypeOK
<1>3. /\ y \in Alert /\ y.first = o.first /\ y.last = ts /\ o.peak <= y.peak
  BY <1>2, AbsorbedFields
<1> HIDE DEF y
<1>4. ASSUME NEW a \in Alert, Aged(a, now) PROVE Aged(a, now')
  BY <1>1, <1>4 DEF Aged, Alert
<1>5. ASSUME NEW a, NEW b, Apart(conf, a, b) PROVE Apart(conf', a, b)
  BY <1>1, <1>5 DEF Apart
<1>6. Aged(o, now)
  BY <1>1 DEF InOrder
<1>7. Aged(y, now')
  BY <1>1, <1>2, <1>3, <1>6 DEF Aged, Alert
<1>8. \A i \in 1 .. Len(early) : early[i] \in Alert
  BY DEF TypeOK
<1>9. \A i \in 1 .. Len(early') :
        /\ Aged(early'[i], now')
        /\ closed'[early'[i].key] # NoAlert /\ Apart(conf', early'[i], closed'[early'[i].key])
  BY <1>1, <1>4, <1>5, <1>8 DEF InOrder
<1>10. \A i, j \in 1 .. Len(early') :
         i < j /\ early'[i].key = early'[j].key => Apart(conf', early'[i], early'[j])
  BY <1>1, <1>5 DEF InOrder
<1>11. ASSUME NEW q \in Key
       PROVE  /\ closed'[q] # NoAlert => Aged(closed'[q], now') /\ closed'[q].last + conf.grouping < now'
              /\ open'[q] # NoAlert => /\ Aged(open'[q], now')
                                       /\ closed'[q] # NoAlert => Apart(conf', closed'[q], open'[q])
  <2>1. closed[q] \in Alert \cup {NoAlert} /\ open[q] \in Alert \cup {NoAlert}
    BY DEF TypeOK
  <2>2. closed[q] # NoAlert => Aged(closed'[q], now') /\ closed[q].last + conf.grouping < now'
    <3>1. SUFFICES ASSUME closed[q] # NoAlert
                   PROVE  Aged(closed[q], now') /\ closed[q].last + conf.grouping < now'
      BY <1>1
    <3>2. Aged(closed[q], now) /\ closed[q].last + conf.grouping < now
      BY <3>1 DEF InOrder
    <3>3. closed[q] \in Alert /\ closed[q].last + conf.grouping \in Nat
      BY <1>1, <2>1, <3>1 DEF Alert, Intervals
    <3> QED BY <1>1, <1>4, <2>1, <3>2, <3>3
  <2>3. CASE q # k
    <3>1. open'[q] = open[q]
      BY <1>1, <1>2, <2>3
    <3> QED BY <1>1, <1>4, <1>5, <2>1, <2>2, <3>1 DEF InOrder
  <2>4. CASE q = k
    <3>1. open'[q] = y
      BY <1>1, <1>2, <2>4
    <3>2. closed[q] # NoAlert => Apart(conf, closed[q], o)
      BY <1>1, <2>4 DEF InOrder
    <3>3. closed[q] # NoAlert => Apart(conf, closed[q], y)
      <4>1. o.peak \in Nat /\ y.peak \in Nat
        BY <1>2, <1>3, AlertsAssumption DEF Alert, Score
      <4>2. closed[q] # NoAlert => closed[q].peak \in Nat
        BY <2>1, AlertsAssumption DEF Alert, Score
      <4> QED BY <1>3, <3>2, <4>1, <4>2 DEF Apart
    <3> QED BY <1>1, <1>5, <1>7, <2>2, <3>1, <3>3
  <2> QED BY <2>3, <2>4
<1> QED BY <1>1, <1>9, <1>10, <1>11 DEF InOrder

(* The latest alert, unless it is near, is a grouping window old.          *)
LEMMA LatestIsOld ==
  ASSUME TypeOK, InOrder, NEW k \in Key, NEW ts \in Nat, now <= ts,
         ~ Near(open[k], ts), Latest(k) # NoAlert
  PROVE  /\ Latest(k) \in Alert /\ Latest(k).last + conf.grouping < ts
         /\ Latest(k).first <= Latest(k).last
<1>1. open[k] \in Alert \cup {NoAlert} /\ closed[k] \in Alert \cup {NoAlert} /\ now \in Nat /\ Intervals
  BY ConfType DEF TypeOK
<1>2. CASE open[k] # NoAlert
  <2>1. open[k] \in Alert /\ Latest(k) = open[k] /\ Aged(open[k], now)
    BY <1>1, <1>2 DEF Latest, InOrder
  <2>2. open[k].last \in Nat /\ ~ (ts - open[k].last <= conf.grouping)
    BY <1>2, <2>1 DEF Near, Alert
  <2>3. open[k].last + conf.grouping < ts
    BY <1>1, <2>2 DEF Intervals
  <2> QED BY <2>1, <2>3 DEF Aged
<1>3. CASE open[k] = NoAlert
  BY <1>1, <1>3 DEF Latest, Alert, Intervals, InOrder, Aged
<1> QED BY <1>2, <1>3

(* An open alert is closed, and perhaps another one opened.                *)
LEMMA ClosesInOrder ==
  ASSUME TypeOK, KeysRight, InOrder, NEW k \in Key, NEW ts \in Nat,
         now' = ts, now <= ts, conf' = conf, ~ Near(open[k], ts), early' = Kept(k),
         NEW z \in Alert \cup {NoAlert}, closed' = [closed EXCEPT ![k] = z],
         z = NoAlert <=> Latest(k) = NoAlert, z # NoAlert => Same(z, Latest(k)),
         NEW x \in Alert \cup {NoAlert}, open' = [open EXCEPT ![k] = x],
         x # NoAlert => x.first = ts /\ x.last = ts /\ (z # NoAlert => Apart(conf, z, x))
  PROVE  InOrder'
<1>1. /\ now \in Nat /\ Intervals /\ early \in Seq(Alert)
      /\ open \in [Key -> Alert \cup {NoAlert}] /\ closed \in [Key -> Alert \cup {NoAlert}]
  BY ConfType DEF TypeOK
<1>2. ASSUME NEW a \in Alert, Aged(a, now) PROVE Aged(a, now')
  BY <1>1, <1>2 DEF Aged, Alert
<1>3. ASSUME NEW a, NEW b, Apart(conf, a, b) PROVE Apart(conf', a, b)
  BY <1>3 DEF Apart
<1>4. /\ \A q \in Key : closed'[q] = IF q = k THEN z ELSE closed[q]
      /\ \A q \in Key : open'[q] = IF q = k THEN x ELSE open[q]
  BY <1>1
<1>5. z # NoAlert => /\ Aged(z, now) /\ z.last + conf.grouping < ts
                     /\ \A a : Apart(conf, a, Latest(k)) => Apart(conf, a, z)
  <2> SUFFICES ASSUME z # NoAlert
               PROVE  /\ Aged(z, now) /\ z.last + conf.grouping < ts
                      /\ \A a : Apart(conf, a, Latest(k)) => Apart(conf, a, z)
    OBVIOUS
  <2>1. Latest(k) # NoAlert /\ Same(z, Latest(k))
    OBVIOUS
  <2>2. Aged(Latest(k), now) /\ Latest(k).last + conf.grouping < ts
    BY <1>1, <2>1, LatestIsOld DEF Latest, InOrder
  <2> QED BY <2>1, <2>2 DEF Same, Aged, Apart
<1>6. \A i \in 1 .. Len(early) :
        /\ early[i] \in Alert /\ Aged(early[i], now)
        /\ closed[early[i].key] # NoAlert /\ Apart(conf, early[i], closed[early[i].key])
        /\ early[i].key = k => z # NoAlert /\ Apart(conf, early[i], z)
  <2> SUFFICES ASSUME NEW i \in 1 .. Len(early)
               PROVE  /\ early[i] \in Alert /\ Aged(early[i], now)
                      /\ closed[early[i].key] # NoAlert
                      /\ Apart(conf, early[i], closed[early[i].key])
                      /\ early[i].key = k => z # NoAlert /\ Apart(conf, early[i], z)
    OBVIOUS
  <2>1. /\ early[i] \in Alert /\ Aged(early[i], now)
        /\ closed[early[i].key] # NoAlert /\ Apart(conf, early[i], closed[early[i].key])
    BY <1>1 DEF InOrder
  <2>2. ASSUME early[i].key = k PROVE z # NoAlert /\ Apart(conf, early[i], z)
    <3>1. Latest(k) \in Alert /\ Apart(conf, early[i], Latest(k))
      BY <2>2, EarlyComesFirst
    <3> QED BY <1>5, <3>1, AlertIsOne
  <2> QED BY <2>1, <2>2
<1>7. ASSUME NEW q \in Key
      PROVE  /\ closed'[q] # NoAlert => Aged(closed'[q], now') /\ closed'[q].last + conf.grouping < now'
             /\ open'[q] # NoAlert => /\ Aged(open'[q], now')
                                      /\ closed'[q] # NoAlert => Apart(conf', closed'[q], open'[q])
  <2>1. CASE q = k
    <3>1. closed'[q] = z /\ open'[q] = x
      BY <1>4, <2>1
    <3>2. z # NoAlert => Aged(z, now')
      BY <1>2, <1>5
    <3>3. x # NoAlert => Aged(x, now')
      BY DEF Aged
    <3> QED BY <1>3, <1>5, <3>1, <3>2, <3>3
  <2>2. CASE q # k
    <3>1. closed'[q] = closed[q] /\ open'[q] = open[q]
      BY <1>4, <2>2
    <3>2. closed[q] \in Alert \cup {NoAlert} /\ open[q] \in Alert \cup {NoAlert}
      BY <1>1
    <3>3. closed[q] # NoAlert => Aged(closed[q], now') /\ closed[q].last + conf.grouping < ts
      BY <1>1, <1>2, <3>2 DEF InOrder, Alert, Intervals
    <3>4. open[q] # NoAlert => /\ Aged(open[q], now')
                               /\ closed[q] # NoAlert => Apart(conf', closed[q], open[q])
      BY <1>2, <1>3, <3>2 DEF InOrder
    <3> QED BY <3>1, <3>3, <3>4
  <2> QED BY <2>1, <2>2
<1>8. /\ \A i \in 1 .. Len(early') :
           /\ Aged(early'[i], now')
           /\ closed'[early'[i].key] # NoAlert /\ Apart(conf', early'[i], closed'[early'[i].key])
      /\ \A i, j \in 1 .. Len(early') :
           i < j /\ early'[i].key = early'[j].key => Apart(conf', early'[i], early'[j])
  <2>1. ASSUME NEW a \in Alert, Aged(a, now), closed[a.key] # NoAlert, Apart(conf, a, closed[a.key]),
               a.key = k => z # NoAlert /\ Apart(conf, a, z)
        PROVE  /\ Aged(a, now')
               /\ closed'[a.key] # NoAlert /\ Apart(conf', a, closed'[a.key])
    <3>1. a.key \in Key
      BY DEF Alert
    <3> QED BY <1>2, <1>3, <1>4, <2>1, <3>1
  <2>2. \A i \in 1 .. Len(early) :
          /\ Aged(early[i], now')
          /\ closed'[early[i].key] # NoAlert /\ Apart(conf', early[i], closed'[early[i].key])
    BY <1>6, <2>1
  <2>3. \A i, j \in 1 .. Len(early) :
          i < j /\ early[i].key = early[j].key => Apart(conf', early[i], early[j])
    BY <1>3 DEF InOrder
  <2>4. CASE ~ (open[k] # NoAlert /\ closed[k] # NoAlert)
    <3>1. early' = early
      BY <2>4 DEF Kept
    <3> QED BY <2>2, <2>3, <3>1
  <2>5. CASE open[k] # NoAlert /\ closed[k] # NoAlert
    <3> DEFINE c == closed[k]
               n == Len(early)
    <3>1. c \in Alert /\ c.key = k /\ Aged(c, now) /\ Apart(conf, c, open[k]) /\ z # NoAlert /\ Apart(conf, c, z)
      <4>1. c \in Alert /\ c.key = k /\ Aged(c, now) /\ Apart(conf, c, open[k])
        BY <1>1, <2>5 DEF KeysRight, InOrder
      <4>2. Latest(k) = open[k]
        BY <2>5 DEF Latest
      <4> QED BY <1>5, <2>5, <4>1, <4>2
    <3>2. early' = Append(early, c)
      BY <2>5 DEF Kept
    <3>3. /\ Len(early') = n + 1 /\ n \in Nat /\ early'[n + 1] = c
          /\ \A i \in 1 .. n : early'[i] = early[i]
      BY <1>1, <3>1, <3>2
    <3>4. Aged(c, now') /\ closed'[k] # NoAlert /\ Apart(conf', c, closed'[k])
      BY <1>2, <1>3, <1>4, <3>1
    <3>5. \A i \in 1 .. n : early[i].key = k => Apart(conf', early[i], c)
      BY <1>3, <1>6
    <3> HIDE DEF c, n
    <3>6. ASSUME NEW i \in 1 .. n + 1
          PROVE  /\ Aged(early'[i], now')
                 /\ closed'[early'[i].key] # NoAlert /\ Apart(conf', early'[i], closed'[early'[i].key])
      <4>1. CASE i = n + 1
        BY <3>1, <3>3, <3>4, <4>1
      <4>2. CASE i \in 1 .. n
        BY <2>2, <3>3, <4>2 DEF n
      <4> QED BY <3>3, <4>1, <4>2
    <3>7. ASSUME NEW i \in 1 .. n + 1, NEW j \in 1 .. n + 1, i < j,
                 early'[i].key = early'[j].key
          PROVE  Apart(conf', early'[i], early'[j])
      <4>1. i \in 1 .. n
        BY <3>3, <3>7
      <4>2. CASE j = n + 1
        BY <3>1, <3>3, <3>5, <3>7, <4>1, <4>2
      <4>3. CASE j \in 1 .. n
        BY <2>3, <3>3, <3>7, <4>1, <4>3 DEF n
      <4> QED BY <3>3, <4>2, <4>3
    <3> QED BY <3>3, <3>6, <3>7
  <2> QED BY <2>4, <2>5
<1> QED BY <1>7, <1>8 DEF InOrder

(* Telling a suppressed one changes nothing else.                          *)
LEMMA TallyFields ==
  ASSUME TypeOK, NEW k \in Key, NEW ts, NEW score
  PROVE  LET z == Tally(k, ts, score)
         IN /\ z \in Alert \cup {NoAlert} /\ (z = NoAlert <=> Latest(k) = NoAlert)
            /\ z # NoAlert => /\ Same(z, Latest(k)) /\ z.n = Latest(k).n
                              /\ z.suppressed = Latest(k).suppressed + 1
<1> DEFINE l == Latest(k)
           z == Tally(k, ts, score)
<1>1. l \in Alert \cup {NoAlert}
  BY DEF TypeOK, Latest
<1>2. CASE l = NoAlert
  BY <1>2 DEF Tally
<1>3. CASE l # NoAlert
  <2>1. l \in Alert /\ z = [l EXCEPT !.suppressed = @ + 1]
    BY <1>1, <1>3 DEF Tally
  <2> HIDE DEF l, z
  <2>2. /\ z \in Alert /\ z.key = l.key /\ z.first = l.first /\ z.last = l.last
        /\ z.peak = l.peak /\ z.n = l.n /\ z.suppressed = l.suppressed + 1
    BY <2>1 DEF Alert
  <2>3. z # NoAlert /\ l # NoAlert
    BY <2>1, <2>2, AlertIsOne
  <2>4. Same(z, l)
    BY <2>2 DEF Same
  <2> QED BY <2>2, <2>3, <2>4 DEF l, z
<1> QED BY <1>2, <1>3

(* A suppressed assessment closes the open alert after those before it.    *)
LEMMA HidesInOrder ==
  ASSUME TypeOK, KeysRight, InOrder, NEW k \in Key, NEW ts \in Nat, NEW score, NEW reason,
         Hides(k, ts, score, reason)
  PROVE  InOrder'
<1> DEFINE z == Tally(k, ts, score)
<1>1. /\ z \in Alert \cup {NoAlert} /\ (z = NoAlert <=> Latest(k) = NoAlert)
      /\ z # NoAlert => Same(z, Latest(k))
  BY TallyFields
<1>2. /\ now' = ts /\ now <= ts /\ conf' = conf /\ ~ Near(open[k], ts) /\ early' = Kept(k)
      /\ open' = [open EXCEPT ![k] = NoAlert] /\ closed' = [closed EXCEPT ![k] = z]
  BY DEF Hides, Rest
<1> HIDE DEF z
<1> QED BY <1>1, <1>2, ClosesInOrder

(* An alert that is opened is apart from the one before: only more risk    *)
(* than ever gets past a cooldown.                                         *)
LEMMA OpenedApart ==
  ASSUME TypeOK, Levels, InOrder, NEW k \in Key, NEW ts \in Nat, NEW score \in Score,
         now <= ts, ~ Near(open[k], ts), Passes(Latest(k), ts, score), Latest(k) # NoAlert
  PROVE  Apart(conf, Latest(k), Opened(k, ts, score))
<1> DEFINE l == Latest(k)
<1>1. l \in Alert /\ l.last + conf.grouping < ts
  BY LatestIsOld
<1>2. Opened(k, ts, score).first = ts /\ Opened(k, ts, score).peak = score
  BY DEF Opened
<1>3. l.severity = Severity(l.peak) /\ l.peak \in Score
  BY <1>1 DEF Latest, Levels, Level, Alert
<1>4. l.peak \in Nat /\ score \in Nat /\ l.last \in Nat /\ Intervals
  BY <1>1, <1>3, ConfType, AlertsAssumption DEF Alert, Score
<1>5. Severity(score) \in Nat /\ Severity(l.peak) \in Nat
  BY <1>3, SeverityType
<1>6. score <= l.peak => Severity(score) <= Severity(l.peak)
  BY <1>3, SeverityMonotone
<1>7. CASE ts - l.last <= conf.cooldown
  <2>1. Material(l, score) /\ conf.bypass
    BY <1>7 DEF Passes, Cooling
  <2>2. l.peak < score
    BY <1>3, <1>4, <1>5, <1>6, <2>1 DEF Material
  <2> QED BY <1>1, <1>2, <2>1, <2>2 DEF Apart
<1>8. CASE ~ (ts - l.last <= conf.cooldown)
  <2>1. l.last + conf.cooldown < ts
    BY <1>4, <1>8 DEF Intervals
  <2> QED BY <1>1, <1>2, <2>1 DEF Apart
<1> QED BY <1>7, <1>8

(* What a new alert holds.                                                 *)
LEMMA OpenedFields ==
  ASSUME NEW k \in Key, NEW ts \in Nat, NEW score \in Score
  PROVE  LET o == Opened(k, ts, score)
         IN /\ o \in Alert /\ o.key = k /\ o.first = ts /\ o.last = ts
            /\ o.n = 1 /\ o.suppressed = 0
BY SeverityType DEF Opened, Alert

(* A new alert comes after all of its key.                                 *)
LEMMA OpensInOrder ==
  ASSUME TypeOK, KeysRight, Levels, InOrder, NEW k \in Key, NEW ts \in Nat,
         NEW score \in Score, Opens(k, ts, score)
  PROVE  InOrder'
<1> DEFINE z == Latest(k)
           x == Opened(k, ts, score)
<1>1. z \in Alert \cup {NoAlert} /\ (z # NoAlert => Same(z, Latest(k)))
  BY DEF Latest, TypeOK, Same
<1>2. /\ now' = ts /\ now <= ts /\ conf' = conf /\ ~ Near(open[k], ts) /\ early' = Kept(k)
      /\ open' = [open EXCEPT ![k] = x] /\ closed' = [closed EXCEPT ![k] = z]
      /\ Passes(Latest(k), ts, score)
  BY DEF Opens, Rest
<1>3. x \in Alert \cup {NoAlert} /\ x.first = ts /\ x.last = ts
  BY OpenedFields
<1>4. z # NoAlert => Apart(conf, z, x)
  BY <1>2, OpenedApart
<1>5. z = NoAlert <=> Latest(k) = NoAlert
  OBVIOUS
<1> HIDE DEF x, z
<1> QED BY <1>1, <1>2, <1>3, <1>4, <1>5, ClosesInOrder

-----------------------------------------------------------------------------
(* What each step does to the set of the alerts.                           *)

(* The latest alert of a key is nowhere else.                              *)
LEMMA LatestIsOnce ==
  ASSUME TypeOK, KeysRight, InOrder, NEW k \in Key, Latest(k) # NoAlert
  PROVE  /\ Latest(k) \in Alert /\ Latest(k).key = k /\ Latest(k) \in Emitted
         /\ \A i \in 1 .. Len(early) : early[i] # Latest(k)
         /\ \A q \in Key \ {k} : open[q] # Latest(k) /\ closed[q] # Latest(k)
         /\ open[k] # NoAlert => closed[k] # Latest(k)
<1> DEFINE l == Latest(k)
<1>1. open \in [Key -> Alert \cup {NoAlert}] /\ closed \in [Key -> Alert \cup {NoAlert}]
  BY DEF TypeOK
<1>2. l \in Alert /\ l.key = k /\ Aged(l, now)
  BY <1>1 DEF Latest, KeysRight, InOrder
<1>3. l \in Emitted
  BY <1>2, Places DEF Latest
<1>4. ~ Apart(conf, l, l)
  <2>1. l.first \in Nat /\ l.last \in Nat /\ Intervals
    BY <1>2, ConfType DEF Alert
  <2> QED BY <1>2, <2>1 DEF Aged, Apart, Intervals
<1>5. \A i \in 1 .. Len(early) : early[i] # l
  BY <1>2, <1>4, EarlyComesFirst
<1>6. \A q \in Key \ {k} : open[q] # l /\ closed[q] # l
  BY <1>2, AlertIsOne DEF KeysRight
<1>7. open[k] # NoAlert => closed[k] # l
  BY <1>1, <1>4, AlertIsOne DEF Latest, InOrder
<1> QED BY <1>2, <1>3, <1>5, <1>6, <1>7

(* The open alert is replaced by itself with one more assessment.          *)
LEMMA TakesEmitted ==
  ASSUME TypeOK, TypeOK', KeysRight, InOrder, NEW k \in Key, NEW ts \in Nat,
         NEW score \in Score, Takes(k, ts, score)
  PROVE  /\ Latest(k) = open[k] /\ open[k] \in Alert /\ open[k] \in Emitted
         /\ Emitted' = (Emitted \ {open[k]}) \cup {Absorbed(open[k], ts, score)}
<1> DEFINE l == open[k]
           y == Absorbed(l, ts, score)
<1>1. l # NoAlert /\ closed' = closed /\ early' = early /\ open' = [open EXCEPT ![k] = y]
  BY DEF Takes, Near
<1>2. Latest(k) = l
  BY <1>1 DEF Latest
<1>3. /\ l \in Alert /\ l \in Emitted
      /\ \A i \in 1 .. Len(early) : early[i] # l
      /\ \A q \in Key : closed[q] # l
      /\ \A q \in Key \ {k} : open[q] # l
  BY <1>1, <1>2, LatestIsOnce
<1>4. y \in Alert
  BY <1>3, AbsorbedFields
<1> HIDE DEF y
<1>5. \A q \in Key : open'[q] = IF q = k THEN y ELSE open[q]
  BY <1>1 DEF TypeOK
<1>6. ASSUME NEW a PROVE a \in Emitted' <=> a \in (Emitted \ {l}) \cup {y}
  <2>1. a \in Emitted' <=>
          /\ a \in Alert
          /\ \/ \E i \in 1 .. Len(early') : a = early'[i]
             \/ \E q \in Key : a = closed'[q] \/ a = open'[q]
    BY PlacesNext
  <2> QED BY <1>1, <1>3, <1>4, <1>5, <2>1, Places
<1> QED BY <1>2, <1>3, <1>6 DEF y

(* What was closed early, and whatever the latest alert replaces.          *)
LEMMA KeptPlaces ==
  ASSUME TypeOK, NEW k \in Key, early' = Kept(k), NEW a
  PROVE  (\E i \in 1 .. Len(early') : a = early'[i])
         <=> \/ \E i \in 1 .. Len(early) : a = early[i]
             \/ open[k] # NoAlert /\ closed[k] # NoAlert /\ a = closed[k]
<1>1. CASE open[k] # NoAlert /\ closed[k] # NoAlert
  <2>1. closed[k] \in Alert /\ early \in Seq(Alert)
    BY <1>1 DEF TypeOK
  <2>2. early' = Append(early, closed[k])
    BY <1>1 DEF Kept
  <2>3. /\ Len(early') = Len(early) + 1 /\ Len(early) \in Nat
        /\ early'[Len(early) + 1] = closed[k]
        /\ \A i \in 1 .. Len(early) : early'[i] = early[i]
    BY <2>1, <2>2
  <2> QED BY <1>1, <2>3
<1>2. CASE ~ (open[k] # NoAlert /\ closed[k] # NoAlert)
  BY <1>2 DEF Kept
<1> QED BY <1>1, <1>2

(* Closing the open alert of a key puts it where the latest one is kept.   *)
LEMMA ClosesEmitted ==
  ASSUME TypeOK, TypeOK', KeysRight, InOrder, NEW k \in Key, early' = Kept(k),
         NEW z \in Alert \cup {NoAlert}, closed' = [closed EXCEPT ![k] = z],
         z = NoAlert <=> Latest(k) = NoAlert,
         NEW x \in Alert \cup {NoAlert}, open' = [open EXCEPT ![k] = x]
  PROVE  Emitted' = ((Emitted \ {Latest(k)}) \cup {z, x}) \ {NoAlert}
<1>1. /\ \A q \in Key : closed'[q] = IF q = k THEN z ELSE closed[q]
      /\ \A q \in Key : open'[q] = IF q = k THEN x ELSE open[q]
  BY DEF TypeOK
<1>2. /\ closed[k] \in Alert \cup {NoAlert} /\ open[k] \in Alert \cup {NoAlert}
      /\ \A i \in 1 .. Len(early) : early[i] \in Alert
  BY DEF TypeOK
<1>3. ASSUME NEW a \in Alert
      PROVE  a \in Emitted' <=> (a \in Emitted /\ a # Latest(k)) \/ a = z \/ a = x
  <2>1. a \in Emitted' <=>
          \/ \E i \in 1 .. Len(early') : a = early'[i]
          \/ \E q \in Key : a = closed'[q] \/ a = open'[q]
    BY PlacesNext
  <2>2. a \in Emitted <=>
          \/ \E i \in 1 .. Len(early) : a = early[i]
          \/ \E q \in Key : a = closed[q] \/ a = open[q]
    BY Places
  <2>3. (\E q \in Key : a = closed'[q] \/ a = open'[q])
        <=> \/ a = z \/ a = x
            \/ \E q \in Key \ {k} : a = closed[q] \/ a = open[q]
    BY <1>1
  <2>4. (\E q \in Key : a = closed[q] \/ a = open[q])
        <=> \/ a = closed[k] \/ a = open[k]
            \/ \E q \in Key \ {k} : a = closed[q] \/ a = open[q]
    OBVIOUS
  <2>5. (\E i \in 1 .. Len(early') : a = early'[i])
        <=> \/ \E i \in 1 .. Len(early) : a = early[i]
            \/ open[k] # NoAlert /\ closed[k] # NoAlert /\ a = closed[k]
    BY KeptPlaces
  <2> DEFINE E1 == \E i \in 1 .. Len(early') : a = early'[i]
             E0 == \E i \in 1 .. Len(early) : a = early[i]
             Q1 == \E q \in Key : a = closed'[q] \/ a = open'[q]
             Q0 == \E q \in Key : a = closed[q] \/ a = open[q]
             R == \E q \in Key \ {k} : a = closed[q] \/ a = open[q]
  <2>6. /\ a # NoAlert
        /\ a = Latest(k) => ~ E0 /\ ~ R /\ (open[k] # NoAlert => a # closed[k])
    <3>1. a # NoAlert
      BY AlertIsOne
    <3>2. a = Latest(k) => /\ \A i \in 1 .. Len(early) : early[i] # a
                           /\ \A q \in Key \ {k} : open[q] # a /\ closed[q] # a
                           /\ open[k] # NoAlert => closed[k] # a
      BY <3>1, LatestIsOnce
    <3> QED BY <3>1, <3>2
  <2>7. Latest(k) = IF open[k] # NoAlert THEN open[k] ELSE closed[k]
    BY DEF Latest
  <2> HIDE DEF E1, E0, Q1, Q0, R
  <2>8. /\ a \in Emitted' <=> E1 \/ Q1
        /\ a \in Emitted <=> E0 \/ Q0
        /\ Q1 <=> a = z \/ a = x \/ R
        /\ Q0 <=> a = closed[k] \/ a = open[k] \/ R
        /\ E1 <=> E0 \/ (open[k] # NoAlert /\ closed[k] # NoAlert /\ a = closed[k])
    BY <2>1, <2>2, <2>3, <2>4, <2>5 DEF E1, E0, Q1, Q0, R
  <2> QED BY <2>6, <2>7, <2>8
<1>4. Emitted' \subseteq Alert /\ Emitted \subseteq Alert
  BY Places, PlacesNext
<1> QED BY <1>3, <1>4, AlertIsOne

(* The latest alert is replaced by itself with one more suppressed.        *)
LEMMA HidesEmitted ==
  ASSUME TypeOK, TypeOK', KeysRight, InOrder, NEW k \in Key, NEW ts, NEW score, NEW reason,
         Hides(k, ts, score, reason)
  PROVE  Emitted' = IF Latest(k) = NoAlert THEN Emitted
                    ELSE (Emitted \ {Latest(k)}) \cup {Tally(k, ts, score)}
<1> DEFINE z == Tally(k, ts, score)
<1>1. z \in Alert \cup {NoAlert} /\ (z = NoAlert <=> Latest(k) = NoAlert)
  BY TallyFields
<1>2. /\ early' = Kept(k) /\ open' = [open EXCEPT ![k] = NoAlert]
      /\ closed' = [closed EXCEPT ![k] = z]
  BY DEF Hides
<1> HIDE DEF z
<1>3. Emitted' = ((Emitted \ {Latest(k)}) \cup {z, NoAlert}) \ {NoAlert}
  BY <1>1, <1>2, ClosesEmitted
<1>4. NoAlert \notin Emitted
  BY DEF Emitted
<1>5. Emitted' = IF Latest(k) = NoAlert THEN Emitted ELSE (Emitted \ {Latest(k)}) \cup {z}
  BY <1>1, <1>3, <1>4, AlertIsOne
<1> QED BY <1>5 DEF z

(* One alert more, and none goes.                                          *)
LEMMA OpensEmitted ==
  ASSUME TypeOK, TypeOK', KeysRight, InOrder, NEW k \in Key, NEW ts \in Nat,
         NEW score \in Score, Opens(k, ts, score)
  PROVE  Emitted' = Emitted \cup {Opened(k, ts, score)}
<1> DEFINE z == Latest(k)
           x == Opened(k, ts, score)
<1>1. z \in Alert \cup {NoAlert} /\ (z = NoAlert <=> Latest(k) = NoAlert)
  BY DEF TypeOK, Latest
<1>2. x \in Alert
  BY OpenedFields
<1>3. /\ early' = Kept(k) /\ open' = [open EXCEPT ![k] = x]
      /\ closed' = [closed EXCEPT ![k] = z]
  BY DEF Opens
<1>4. NoAlert \notin Emitted /\ (z # NoAlert => z \in Emitted)
  BY LatestIsOnce DEF Emitted
<1> HIDE DEF z, x
<1>5. Emitted' = ((Emitted \ {Latest(k)}) \cup {z, x}) \ {NoAlert}
  BY <1>1, <1>2, <1>3, ClosesEmitted
<1>6. Emitted' = Emitted \cup {x}
  <2>1. z = Latest(k)
    BY DEF z
  <2> QED BY <1>1, <1>2, <1>4, <1>5, <2>1, AlertIsOne
<1> QED BY <1>6 DEF x

-----------------------------------------------------------------------------
(* No alert loses its key or the time it began.                            *)
LEMMA Remembered ==
  ASSUME TypeOK, TypeOK', KeysRight, InOrder, [Next]_vars
  PROVE  \A a \in Emitted : \E b \in Emitted' : b.key = a.key /\ b.first = a.first
<1>1. CASE Stays
  <2>1. Emitted' = Emitted
    BY <1>1 DEF Stays, Emitted
  <2> QED BY <2>1
<1>2. ASSUME NEW k \in Key, NEW ts \in Nat, NEW score \in Score, Takes(k, ts, score)
      PROVE  \A a \in Emitted : \E b \in Emitted' : b.key = a.key /\ b.first = a.first
  <2>1. /\ open[k] \in Alert
        /\ Emitted' = (Emitted \ {open[k]}) \cup {Absorbed(open[k], ts, score)}
    BY <1>2, TakesEmitted
  <2>2. /\ Absorbed(open[k], ts, score).key = open[k].key
        /\ Absorbed(open[k], ts, score).first = open[k].first
    BY <2>1, AbsorbedFields
  <2> QED BY <2>1, <2>2
<1>3. ASSUME NEW k \in Key, NEW ts \in Nat, NEW score \in Score, NEW reason,
             Hides(k, ts, score, reason)
      PROVE  \A a \in Emitted : \E b \in Emitted' : b.key = a.key /\ b.first = a.first
  <2>1. Emitted' = IF Latest(k) = NoAlert THEN Emitted
                   ELSE (Emitted \ {Latest(k)}) \cup {Tally(k, ts, score)}
    BY <1>3, HidesEmitted
  <2>2. Latest(k) # NoAlert => Same(Tally(k, ts, score), Latest(k))
    BY TallyFields
  <2> QED BY <2>1, <2>2 DEF Same
<1>4. ASSUME NEW k \in Key, NEW ts \in Nat, NEW score \in Score, Opens(k, ts, score)
      PROVE  \A a \in Emitted : \E b \in Emitted' : b.key = a.key /\ b.first = a.first
  <2>1. Emitted' = Emitted \cup {Opened(k, ts, score)}
    BY <1>4, OpensEmitted
  <2> QED BY <2>1
<1> QED BY <1>1, <1>2, <1>3, <1>4, Shapes

-----------------------------------------------------------------------------
(* The limit's window.                                                     *)

(* The times at which alerts of a key begin.                               *)
Starts(S, k, lo, hi) == {t \in 0 .. hi : lo <= t /\ \E a \in S : a.key = k /\ a.first = t}

(* A longer interval, and alerts that keep when they began, hold no        *)
(* fewer.                                                                  *)
LEMMA StartsGrow ==
  ASSUME NEW S, NEW T, NEW k, NEW lo \in Int, NEW hi \in Nat, NEW low \in Int, NEW high \in Nat,
         \A a \in S : \E b \in T : b.key = a.key /\ b.first = a.first,
         low <= lo, hi <= high
  PROVE  /\ IsFiniteSet(Starts(S, k, lo, hi)) /\ IsFiniteSet(Starts(T, k, low, high))
         /\ Starts(S, k, lo, hi) \subseteq Starts(T, k, low, high)
         /\ Cardinality(Starts(S, k, lo, hi)) \in Nat
         /\ Cardinality(Starts(T, k, low, high)) \in Nat
         /\ Cardinality(Starts(S, k, lo, hi)) <= Cardinality(Starts(T, k, low, high))
<1>1. Starts(T, k, low, high) \subseteq 0 .. high /\ Starts(S, k, lo, hi) \subseteq 0 .. hi
  BY DEF Starts
<1>2. IsFiniteSet(0 .. high) /\ IsFiniteSet(0 .. hi)
  BY FS_Interval
<1>3. IsFiniteSet(Starts(T, k, low, high)) /\ IsFiniteSet(Starts(S, k, lo, hi))
  BY <1>1, <1>2, FS_Subset
<1>4. Starts(S, k, lo, hi) \subseteq Starts(T, k, low, high)
  BY DEF Starts
<1> QED BY <1>3, <1>4, FS_Subset, FS_CardinalityType

(* The alerts that the window counts began in it, a grouping window apart. *)
Windowed ==
  \A k \in Key :
    window[k].count # 0 =>
      /\ Latest(k) # NoAlert
      /\ window[k].start + (window[k].count - 1) * (conf.grouping + 1) <= Latest(k).first
      /\ window[k].count <= Cardinality(Starts(Emitted, k, window[k].start, Latest(k).first))

(* What the limit refuses comes after as many alerts as it allows, which   *)
(* the horizon has room for.                                               *)
LimitUsed ==
  \A h \in hidden :
    h.reason = "limit" =>
      /\ conf.limit * conf.grouping < conf.horizon
      /\ conf.limit <= Cardinality(Starts(Emitted, h.key, h.ts - conf.horizon, h.ts))

(* One alert more takes one grouping window more.                          *)
LEMMA SpacedOut ==
  ASSUME NEW start \in Nat, NEW c \in Nat \ {0}, NEW g \in Nat, NEW first \in Nat, NEW ts \in Nat,
         start + (c - 1) * (g + 1) <= first, first + g < ts
  PROVE  start + c * (g + 1) <= ts
<1>1. c * (g + 1) = (c - 1) * (g + 1) + (g + 1)
  OBVIOUS
<1>2. (c - 1) * (g + 1) \in Nat
  OBVIOUS
<1> DEFINE p == (c - 1) * (g + 1)
           q == c * (g + 1)
<1> HIDE DEF p, q
<1>3. q = p + (g + 1) /\ p \in Nat /\ start + p <= first
  BY <1>1, <1>2 DEF p, q
<1>4. start + q <= ts
  BY <1>3
<1> QED BY <1>4 DEF q

(* The counted alerts outlast as many grouping windows as the limit.       *)
LEMMA RoomForLimit ==
  ASSUME NEW limit \in Nat \ {0}, NEW c \in Nat, limit <= c, NEW g \in Nat
  PROVE  limit * g < c * (g + 1)
<1>1. PICK d \in Nat : c = limit + d
  <2>1. c - limit \in Nat /\ c = limit + (c - limit)
    OBVIOUS
  <2> QED BY <2>1
<1>2. c * (g + 1) = limit * g + limit + d * (g + 1)
  BY <1>1
<1>3. d * (g + 1) \in Nat /\ limit * g \in Nat
  BY <1>1
<1> DEFINE x == limit * g
           y == d * (g + 1)
<1> HIDE DEF x, y
<1>4. x < x + limit + y
  BY <1>3 DEF x, y
<1> QED BY <1>2, <1>4 DEF x, y

(* The window that a new alert would still be counted in.                  *)
LEMMA WindowFacts ==
  ASSUME TypeOK, InOrder, Windowed, NEW k \in Key, NEW ts \in Nat, now <= ts,
         ~ Near(open[k], ts), window[k].count # 0
  PROVE  LET w == window[k]
             l == Latest(k)
         IN /\ l \in Alert /\ l.first < ts
            /\ w.start \in Nat /\ w.count \in Nat \ {0} /\ l.first \in Nat
            /\ w.start + w.count * (conf.grouping + 1) <= ts
            /\ w.count <= Cardinality(Starts(Emitted, k, w.start, l.first))
<1> DEFINE w == window[k]
           l == Latest(k)
           g == conf.grouping
<1>1. /\ w \in [start : Nat, count : Nat] /\ Intervals
  BY ConfType DEF TypeOK
<1>2. /\ l # NoAlert
      /\ w.start + (w.count - 1) * (g + 1) <= l.first
      /\ w.count <= Cardinality(Starts(Emitted, k, w.start, l.first))
  BY DEF Windowed
<1>3. l \in Alert /\ l.last + g < ts /\ l.first <= l.last
  BY <1>2, LatestIsOld
<1>4. /\ l.first \in Nat /\ l.last \in Nat /\ g \in Nat /\ w.start \in Nat /\ w.count \in Nat \ {0}
  BY <1>1, <1>3 DEF Alert, Intervals
<1>5. l.first + g < ts /\ l.first < ts
  BY <1>3, <1>4
<1> HIDE DEF w, l, g
<1>6. w.start + w.count * (g + 1) <= ts
  BY <1>2, <1>4, <1>5, SpacedOut
<1> QED BY <1>2, <1>3, <1>4, <1>5, <1>6 DEF w, l, g

(* Where neither the latest alert's time nor the window moves.             *)
LEMMA KeyStaysWindowed ==
  ASSUME TypeOK, KeysRight, InOrder, Windowed, NEW k \in Key,
         \A a \in Emitted : \E b \in Emitted' : b.key = a.key /\ b.first = a.first,
         window'[k] = window[k], conf' = conf,
         Latest(k) # NoAlert => Latest(k)' # NoAlert /\ Latest(k)'.first = Latest(k).first,
         window'[k].count # 0
  PROVE  /\ Latest(k)' # NoAlert
         /\ window'[k].start + (window'[k].count - 1) * (conf'.grouping + 1) <= Latest(k)'.first
         /\ window'[k].count
              <= Cardinality(Starts(Emitted', k, window'[k].start, Latest(k)'.first))
<1> DEFINE w == window[k]
           l == Latest(k)
<1>1. /\ l # NoAlert
      /\ w.start + (w.count - 1) * (conf.grouping + 1) <= l.first
      /\ w.count <= Cardinality(Starts(Emitted, k, w.start, l.first))
  BY DEF Windowed
<1>2. w.start \in Nat /\ w.count \in Nat /\ l \in Alert
  BY <1>1, LatestIsOnce DEF TypeOK
<1>3. l.first \in Nat
  BY <1>2 DEF Alert
<1> DEFINE S == Starts(Emitted, k, w.start, l.first)
           T == Starts(Emitted', k, w.start, l.first)
           E == Emitted
           F == Emitted'
<1>4. Cardinality(S) \in Nat /\ Cardinality(T) \in Nat /\ Cardinality(S) <= Cardinality(T)
  <2>1. w.start \in Int /\ w.start <= w.start /\ l.first <= l.first
    BY <1>2, <1>3
  <2>2. \A a \in E : \E b \in F : b.key = a.key /\ b.first = a.first
    OBVIOUS
  <2> HIDE DEF w, l, E, F
  <2>3. /\ Cardinality(Starts(E, k, w.start, l.first)) \in Nat
        /\ Cardinality(Starts(F, k, w.start, l.first)) \in Nat
        /\ Cardinality(Starts(E, k, w.start, l.first)) <= Cardinality(Starts(F, k, w.start, l.first))
    BY <1>3, <2>1, <2>2, StartsGrow
  <2> QED BY <2>3 DEF E, F
<1> HIDE DEF S, T
<1>5. w.count <= Cardinality(T)
  <2>1. w.count <= Cardinality(S)
    BY <1>1 DEF S
  <2> QED BY <1>2, <1>4, <2>1
<1>6. Latest(k)' # NoAlert /\ Latest(k)'.first = l.first
  BY <1>1
<1> QED BY <1>1, <1>5, <1>6 DEF T

(* Which alert is the latest of a key after a step, and since when.        *)
LEMMA LatestMoves ==
  ASSUME TypeOK, KeysRight, InOrder, NEW k \in Key, NEW ts \in Nat, NEW score \in Score
  PROVE  /\ Takes(k, ts, score) \/ (\E reason : Hides(k, ts, score, reason)) =>
              \A q \in Key : Latest(q) # NoAlert =>
                Latest(q)' # NoAlert /\ Latest(q)'.first = Latest(q).first
         /\ Opens(k, ts, score) =>
              /\ Latest(k)' = Opened(k, ts, score)
              /\ \A q \in Key \ {k} : Latest(q)' = Latest(q)
<1>1. open \in [Key -> Alert \cup {NoAlert}] /\ closed \in [Key -> Alert \cup {NoAlert}]
  BY DEF TypeOK
<1>2. ASSUME Takes(k, ts, score), NEW q \in Key, Latest(q) # NoAlert
      PROVE  Latest(q)' # NoAlert /\ Latest(q)'.first = Latest(q).first
  <2>1. open[k] \in Alert /\ Latest(k) = open[k] /\ closed' = closed
        /\ open' = [open EXCEPT ![k] = Absorbed(open[k], ts, score)]
    BY <1>1, <1>2 DEF Takes, Near, Latest
  <2>2. /\ Absorbed(open[k], ts, score).first = open[k].first
        /\ Absorbed(open[k], ts, score) # NoAlert
    BY <2>1, AbsorbedFields, AlertIsOne
  <2>3. CASE q = k
    <3>1. open'[q] = Absorbed(open[k], ts, score)
      BY <1>1, <2>1, <2>3
    <3> QED BY <2>1, <2>2, <2>3, <3>1 DEF Latest
  <2>4. CASE q # k
    <3>1. open'[q] = open[q] /\ closed'[q] = closed[q]
      BY <1>1, <2>1, <2>4
    <3> QED BY <1>2, <3>1 DEF Latest
  <2> QED BY <2>3, <2>4
<1>3. ASSUME NEW reason, Hides(k, ts, score, reason), NEW q \in Key, Latest(q) # NoAlert
      PROVE  Latest(q)' # NoAlert /\ Latest(q)'.first = Latest(q).first
  <2>1. /\ open' = [open EXCEPT ![k] = NoAlert]
        /\ closed' = [closed EXCEPT ![k] = Tally(k, ts, score)]
    BY <1>3 DEF Hides
  <2>2. CASE q = k
    <3>1. Latest(q)' = Tally(k, ts, score)
      BY <1>1, <2>1, <2>2 DEF Latest
    <3>2. Tally(k, ts, score) # NoAlert /\ Tally(k, ts, score).first = Latest(k).first
      BY <1>3, <2>2, TallyFields DEF Same
    <3> QED BY <2>2, <3>1, <3>2
  <2>3. CASE q # k
    <3>1. open'[q] = open[q] /\ closed'[q] = closed[q]
      BY <1>1, <2>1, <2>3
    <3> QED BY <1>3, <3>1 DEF Latest
  <2> QED BY <2>2, <2>3
<1>4. ASSUME Opens(k, ts, score)
      PROVE  /\ Latest(k)' = Opened(k, ts, score)
             /\ \A q \in Key \ {k} : Latest(q)' = Latest(q)
  <2>1. /\ open' = [open EXCEPT ![k] = Opened(k, ts, score)]
        /\ closed' = [closed EXCEPT ![k] = Latest(k)]
    BY <1>4 DEF Opens
  <2>2. Opened(k, ts, score) # NoAlert
    BY OpenedFields, AlertIsOne
  <2> QED BY <1>1, <2>1, <2>2 DEF Latest
<1> QED BY <1>2, <1>3, <1>4

(* The alert that opens is counted in the window, or begins one.           *)
LEMMA OpensWindowed ==
  ASSUME TypeOK, TypeOK', KeysRight, InOrder, Windowed, [Next]_vars,
         NEW k \in Key, NEW ts \in Nat, NEW score \in Score, Opens(k, ts, score)
  PROVE  /\ Latest(k)' # NoAlert
         /\ window'[k].start + (window'[k].count - 1) * (conf'.grouping + 1) <= Latest(k)'.first
         /\ window'[k].count
              <= Cardinality(Starts(Emitted', k, window'[k].start, Latest(k)'.first))
<1> DEFINE w == window[k]
           o == Opened(k, ts, score)
           E == Emitted
           F == Emitted'
<1>1. /\ now <= ts /\ conf' = conf /\ ~ Near(open[k], ts)
      /\ window' = [window EXCEPT ![k] = Slot(k, ts)]
  BY DEF Opens, Rest
<1>2. window'[k] = Slot(k, ts) /\ w \in [start : Nat, count : Nat] /\ Intervals
  BY <1>1, ConfType DEF TypeOK
<1>3. /\ Latest(k)' = o /\ o.first = ts /\ o.key = k /\ o # NoAlert /\ o \in F
  BY LatestMoves, OpenedFields, OpensEmitted, AlertIsOne
<1>4. \A a \in E : \E b \in F : b.key = a.key /\ b.first = a.first
  BY Remembered
<1> HIDE DEF o, E, F
<1>5. CASE w.count = 0 \/ ts - w.start > conf.horizon
  <2>1. Slot(k, ts) = [start |-> ts, count |-> 1]
    BY <1>5 DEF Slot
  <2>2. ts \in Starts(F, k, ts, ts)
    BY <1>3 DEF Starts
  <2>3. IsFiniteSet(Starts(F, k, ts, ts)) /\ Cardinality(Starts(F, k, ts, ts)) \in Nat
    <3>1. ts \in Int /\ ts <= ts
      OBVIOUS
    <3> QED BY <1>4, <3>1, StartsGrow
  <2>4. Cardinality(Starts(F, k, ts, ts)) # 0
    BY <2>2, <2>3, FS_EmptySet
  <2>5. 1 <= Cardinality(Starts(F, k, ts, ts))
    BY <2>3, <2>4
  <2>6. ts + (1 - 1) * (conf.grouping + 1) <= ts
    BY <1>2 DEF Intervals
  <2> QED BY <1>1, <1>2, <1>3, <2>1, <2>5, <2>6 DEF F
<1>6. CASE ~ (w.count = 0 \/ ts - w.start > conf.horizon)
  <2> DEFINE l == Latest(k)
             c == w.count
             S == Starts(E, k, w.start, l.first)
             T == Starts(F, k, w.start, ts)
  <2>1. Slot(k, ts).start = w.start /\ Slot(k, ts).count = c + 1
    BY <1>2, <1>6 DEF Slot
  <2>2. /\ l \in Alert /\ l.first < ts
        /\ w.start \in Nat /\ c \in Nat \ {0} /\ l.first \in Nat
        /\ w.start + c * (conf.grouping + 1) <= ts
        /\ c <= Cardinality(S)
    BY <1>1, <1>6, WindowFacts DEF E
  <2>3. IsFiniteSet(S) /\ IsFiniteSet(T) /\ S \subseteq T
        /\ Cardinality(S) \in Nat /\ Cardinality(T) \in Nat
    <3> DEFINE s == w.start
               f == l.first
    <3>1. s \in Int /\ s <= s /\ f <= ts /\ f \in Nat
      BY <2>2
    <3> HIDE DEF s, f
    <3>2. /\ IsFiniteSet(Starts(E, k, s, f)) /\ IsFiniteSet(Starts(F, k, s, ts))
          /\ Starts(E, k, s, f) \subseteq Starts(F, k, s, ts)
          /\ Cardinality(Starts(E, k, s, f)) \in Nat
          /\ Cardinality(Starts(F, k, s, ts)) \in Nat
      BY <1>4, <3>1, StartsGrow
    <3> QED BY <3>2 DEF s, f
  <2>4. ts \in T /\ ts \notin S
    <3>1. w.start <= ts
      <4>1. conf.grouping \in Nat
        BY <1>2 DEF Intervals
      <4>2. c * (conf.grouping + 1) \in Nat
        BY <2>2, <4>1
      <4> DEFINE p == c * (conf.grouping + 1)
      <4> HIDE DEF p
      <4> QED BY <2>2, <4>2 DEF p
    <3>2. ts \in T
      BY <1>3, <3>1 DEF Starts
    <3>3. S \subseteq 0 .. l.first
      BY DEF Starts
    <3> QED BY <2>2, <3>2, <3>3
  <2>5. Cardinality(S) + 1 <= Cardinality(T)
    <3> HIDE DEF S, T
    <3>1. IsFiniteSet(S \cup {ts}) /\ Cardinality(S \cup {ts}) = Cardinality(S) + 1
      BY <2>3, <2>4, FS_AddElement
    <3>2. S \cup {ts} \subseteq T
      BY <2>3, <2>4
    <3> QED BY <2>3, <3>1, <3>2, FS_Subset
  <2>6. c + 1 <= Cardinality(T)
    <3> HIDE DEF S, T
    <3> QED BY <2>2, <2>3, <2>5
  <2>7. w.start + ((c + 1) - 1) * (conf.grouping + 1) <= ts
    <3>1. (c + 1) - 1 = c
      BY <2>2
    <3> QED BY <2>2, <3>1
  <2> QED BY <1>1, <1>2, <1>3, <2>1, <2>6, <2>7 DEF F
<1> QED BY <1>5, <1>6

(* So does every assessment that does something.                           *)
LEMMA WindowedStep ==
  ASSUME TypeOK, TypeOK', KeysRight, InOrder, Windowed, [Next]_vars
  PROVE  Windowed' \/ Stays
<1>1. \A a \in Emitted : \E b \in Emitted' : b.key = a.key /\ b.first = a.first
  BY Remembered
<1>2. ASSUME NEW k \in Key, NEW ts \in Nat, NEW score \in Score,
             Takes(k, ts, score) \/ \E reason : Hides(k, ts, score, reason)
      PROVE  Windowed'
  <2>1. window' = window /\ conf' = conf
    BY <1>2 DEF Takes, Hides, Rest
  <2>2. \A q \in Key : Latest(q) # NoAlert =>
          Latest(q)' # NoAlert /\ Latest(q)'.first = Latest(q).first
    BY <1>2, LatestMoves
  <2> QED BY <1>1, <2>1, <2>2, KeyStaysWindowed DEF Windowed
<1>3. ASSUME NEW k \in Key, NEW ts \in Nat, NEW score \in Score, Opens(k, ts, score)
      PROVE  Windowed'
  <2> SUFFICES ASSUME NEW q \in Key, window'[q].count # 0
               PROVE  /\ Latest(q)' # NoAlert
                      /\ window'[q].start + (window'[q].count - 1) * (conf'.grouping + 1)
                           <= Latest(q)'.first
                      /\ window'[q].count
                           <= Cardinality(Starts(Emitted', q, window'[q].start, Latest(q)'.first))
    BY DEF Windowed
  <2>1. CASE q = k
    BY <1>3, <2>1, OpensWindowed
  <2>2. CASE q # k
    <3>1. conf' = conf /\ window'[q] = window[q]
      BY <1>3, <2>2 DEF Opens, Rest, TypeOK
    <3>2. Latest(q)' = Latest(q)
      BY <1>3, <2>2, LatestMoves
    <3> QED BY <1>1, <3>1, <3>2, KeyStaysWindowed
  <2> QED BY <2>1, <2>2
<1> QED BY <1>2, <1>3, Shapes

(* And every one that does nothing.                                        *)
LEMMA StaysWindowed ==
  ASSUME Windowed, Stays
  PROVE  Windowed'
<1>1. /\ conf' = conf /\ window' = window /\ open' = open /\ closed' = closed
      /\ Emitted' = Emitted
  BY DEF Stays, Emitted
<1>2. \A k : Latest(k)' = Latest(k)
  BY <1>1 DEF Latest
<1> QED BY <1>1, <1>2 DEF Windowed

(* The limit is used up when it refuses, and stays so.                     *)
LEMMA LimitUsedStep ==
  ASSUME TypeOK, TypeOK', KeysRight, InOrder, Windowed, LimitUsed, [Next]_vars
  PROVE  LimitUsed'
<1> DEFINE E == Emitted
           F == Emitted'
<1>1. \A a \in E : \E b \in F : b.key = a.key /\ b.first = a.first
  BY Remembered
<1>2. conf' = conf /\ Intervals
  BY Shapes, ConfType DEF Stays, Takes, Hides, Opens, Rest
<1> HIDE DEF E, F
<1>3. ASSUME NEW h \in hidden, h.reason = "limit"
      PROVE  /\ conf'.limit * conf'.grouping < conf'.horizon
             /\ conf'.limit <= Cardinality(Starts(F, h.key, h.ts - conf'.horizon, h.ts))
  <2>1. /\ conf.limit * conf.grouping < conf.horizon
        /\ conf.limit <= Cardinality(Starts(E, h.key, h.ts - conf.horizon, h.ts))
    BY <1>3 DEF LimitUsed, E
  <2>2. h.ts \in Nat /\ conf.limit \in Nat /\ conf.horizon \in Nat
    BY <1>2 DEF TypeOK, Intervals
  <2> DEFINE lo == h.ts - conf.horizon
             hi == h.ts
             k == h.key
  <2>3. lo \in Int /\ hi \in Nat /\ lo <= lo /\ hi <= hi
    BY <2>2
  <2> HIDE DEF lo, hi, k
  <2>4. /\ Cardinality(Starts(E, k, lo, hi)) \in Nat /\ Cardinality(Starts(F, k, lo, hi)) \in Nat
        /\ Cardinality(Starts(E, k, lo, hi)) <= Cardinality(Starts(F, k, lo, hi))
    BY <1>1, <2>3, StartsGrow
  <2>5. conf.limit <= Cardinality(Starts(E, k, lo, hi))
    BY <2>1 DEF lo, hi, k
  <2>6. conf.limit <= Cardinality(Starts(F, k, lo, hi))
    BY <2>2, <2>4, <2>5
  <2> QED BY <1>2, <2>1, <2>6 DEF lo, hi, k
<1>4. ASSUME NEW k \in Key, NEW ts \in Nat, NEW score \in Score, Hides(k, ts, score, "limit")
      PROVE  /\ conf.limit * conf.grouping < conf.horizon
             /\ conf.limit <= Cardinality(Starts(F, k, ts - conf.horizon, ts))
  <2> DEFINE w == window[k]
             l == Latest(k)
             g == conf.grouping
             m == conf.limit
             c == w.count
             lo == ts - conf.horizon
  <2>1. now <= ts /\ ~ Near(open[k], ts) /\ Slot(k, ts).count > m
    BY <1>4 DEF Hides, Rest
  <2>2. w \in [start : Nat, count : Nat]
    BY DEF TypeOK
  <2>3. /\ c # 0 /\ ~ (ts - w.start > conf.horizon) /\ c + 1 > m
    BY <1>2, <2>1, <2>2 DEF Slot, Intervals
  <2>4. /\ l \in Alert /\ l.first < ts
        /\ w.start \in Nat /\ c \in Nat \ {0} /\ l.first \in Nat
        /\ w.start + c * (g + 1) <= ts
        /\ c <= Cardinality(Starts(E, k, w.start, l.first))
    BY <2>1, <2>3, WindowFacts DEF E
  <2>5. /\ m \in Nat \ {0} /\ g \in Nat /\ conf.horizon \in Nat
    BY <1>2 DEF Intervals
  <2> DEFINE s == w.start
             f == l.first
  <2>6. m * g < conf.horizon
    <3> HIDE DEF w, l, g, m, c
    <3>1. m <= c
      BY <2>3, <2>4, <2>5
    <3>2. m * g < c * (g + 1)
      BY <2>4, <2>5, <3>1, RoomForLimit
    <3>3. m * g \in Nat /\ c * (g + 1) \in Nat
      BY <2>4, <2>5
    <3> DEFINE x == m * g
               y == c * (g + 1)
    <3> HIDE DEF x, y
    <3>4. x < y /\ x \in Nat /\ y \in Nat /\ w.start + y <= ts
      BY <2>4, <3>2, <3>3 DEF x, y
    <3>5. x < conf.horizon
      BY <2>3, <2>4, <2>5, <3>4
    <3> QED BY <3>5 DEF x
  <2>7. lo \in Int /\ s \in Int /\ lo <= s /\ f <= ts /\ f \in Nat
    BY <2>3, <2>4, <2>5
  <2>8. m <= c /\ c <= Cardinality(Starts(E, k, s, f))
    BY <2>3, <2>4, <2>5
  <2> HIDE DEF s, f, lo, w, l, g, m, c
  <2>9. /\ Cardinality(Starts(E, k, s, f)) \in Nat /\ Cardinality(Starts(F, k, lo, ts)) \in Nat
        /\ Cardinality(Starts(E, k, s, f)) <= Cardinality(Starts(F, k, lo, ts))
    BY <1>1, <2>7, StartsGrow
  <2>10. m <= Cardinality(Starts(F, k, lo, ts))
    BY <2>4, <2>5, <2>8, <2>9
  <2> QED BY <2>6, <2>10 DEF lo, m, g
<1>5. ASSUME hidden' = hidden PROVE LimitUsed'
  BY <1>3, <1>5 DEF LimitUsed, F
<1>6. ASSUME NEW k \in Key, NEW ts \in Nat, NEW score \in Score,
             NEW reason \in {"cooldown", "limit"}, Hides(k, ts, score, reason)
      PROVE  LimitUsed'
  <2> DEFINE n == [key |-> k, ts |-> ts, score |-> score, reason |-> reason]
  <2>1. hidden' = hidden \cup {n}
    BY <1>6 DEF Hides
  <2>2. n.reason = "limit" =>
          /\ conf'.limit * conf'.grouping < conf'.horizon
          /\ conf'.limit <= Cardinality(Starts(F, n.key, n.ts - conf'.horizon, n.ts))
    BY <1>2, <1>4, <1>6
  <2> HIDE DEF n
  <2> QED BY <1>3, <2>1, <2>2 DEF LimitUsed, F
<1>7. ASSUME NEW k \in Key, NEW ts \in Nat, NEW score \in Score,
             Takes(k, ts, score) \/ Opens(k, ts, score)
      PROVE  LimitUsed'
  BY <1>5, <1>7 DEF Takes, Opens
<1>8. CASE Stays
  BY <1>5, <1>8 DEF Stays
<1> QED BY <1>6, <1>7, <1>8, Shapes

-----------------------------------------------------------------------------
(* Induction over numbers, by the least counterexample.                    *)
(* A nonempty set of subsets of a finite set has a smallest member.        *)
LEMMA FiniteMinimal ==
  ASSUME NEW S, IsFiniteSet(S), NEW Q, Q \subseteq SUBSET S, Q # {}
  PROVE  \E A \in Q : \A B \in Q : B \subseteq A => B = A
  <1>1. IsWellFoundedOn(StrictSubsetOrdering(S), SUBSET S)
    BY FS_StrictSubsetOrderingWellFounded, FS_FiniteSubsetsOfFinite
  <1>2. PICK A \in Q : \A B \in Q : ~ (<<B, A>> \in StrictSubsetOrdering(S))
    BY <1>1, WFMin
  <1>3. QED
    BY <1>2 DEF StrictSubsetOrdering

(* A nonempty set of numbers has a least one.                              *)
LEMMA LeastNatural ==
  ASSUME NEW N \in SUBSET Nat, N # {}
  PROVE  \E m \in N : \A n \in N : m <= n
  <1>1. PICK top \in N : TRUE
    OBVIOUS
  <1> DEFINE below == {n \in N : n <= top}
             Q == {0 .. n : n \in below}
             S == 0 .. top
  <1>2. IsFiniteSet(S)
    BY FS_Interval
  <1>3. Q \subseteq SUBSET S
    OBVIOUS
  <1>4. Q # {}
    BY <1>1
  <1>5. \E A \in Q : \A B \in Q : B \subseteq A => B = A
    <2> HIDE DEF Q, S
    <2>1. QED
      BY <1>2, <1>3, <1>4, FiniteMinimal
  <1>6. PICK m \in below : \A B \in Q : B \subseteq 0 .. m => B = 0 .. m
    BY <1>5
  <1>7. ASSUME NEW n \in N
        PROVE  m <= n
    <2> SUFFICES ASSUME n < m
                 PROVE  FALSE
      OBVIOUS
    <2>1. 0 .. n \in Q
      BY <1>6
    <2>2. m \in 0 .. m /\ m \notin 0 .. n
      BY <1>6
    <2>3. 0 .. n \subseteq 0 .. m /\ 0 .. n # 0 .. m
      BY <1>6, <2>2
    <2>4. QED
      BY <1>6, <2>1, <2>3
  <1>8. QED
    BY <1>6, <1>7

-----------------------------------------------------------------------------
(* Totals.                                                                 *)

(* What the alerts of S hold together, one by one.                         *)
Units(S, f) == {u \in S \X (1 .. MaxAssessments) : u[2] <= f[u[1]]}

(* The two fields that are added up, as functions.                         *)
Sizes == [a \in Alert |-> a.n]
Hidings == [a \in Alert |-> a.suppressed]

(* They can be counted.                                                    *)
LEMMA UnitsFinite ==
  ASSUME NEW S, IsFiniteSet(S), NEW f
  PROVE  IsFiniteSet(Units(S, f)) /\ Cardinality(Units(S, f)) \in Nat
<1>1. IsFiniteSet(1 .. MaxAssessments)
  BY FS_Interval, AlertsAssumption
<1>2. IsFiniteSet(S \X (1 .. MaxAssessments))
  BY <1>1, FS_Product
<1>3. Units(S, f) \subseteq S \X (1 .. MaxAssessments)
  BY DEF Units
<1> QED BY <1>2, <1>3, FS_Subset, FS_CardinalityType

(* One alert more adds what it holds.                                      *)
LEMMA UnitsAdd ==
  ASSUME NEW S, IsFiniteSet(S), NEW f, NEW x, x \notin S, NEW T, T = S \cup {x},
         NEW p \in 0 .. MaxAssessments, f[x] = p
  PROVE  Cardinality(Units(T, f)) = Cardinality(Units(S, f)) + p
<1> DEFINE A == Units(S, f)
           B == {x} \X (1 .. f[x])
<1>1. MaxAssessments \in Nat
  BY AlertsAssumption
<1>2. Units(T, f) = A \cup B
  BY <1>1 DEF Units
<1>3. A \cap B = {}
  BY DEF Units
<1>4. IsFiniteSet(A)
  BY UnitsFinite
<1>5. IsFiniteSet(B) /\ Cardinality(B) = f[x]
  <2> DEFINE n == f[x]
             I == 1 .. n
  <2>1. n \in Nat
    BY <1>1
  <2> HIDE DEF n
  <2>2. IsFiniteSet(I) /\ Cardinality(I) = n
    <3>1. 1 \in Int /\ n \in Int
      BY <2>1
    <3>2. IsFiniteSet(1 .. n) /\ Cardinality(1 .. n) = IF 1 > n THEN 0 ELSE n - 1 + 1
      BY <3>1, FS_Interval
    <3> QED BY <2>1, <3>2
  <2>3. IsFiniteSet({x}) /\ Cardinality({x}) = 1
    BY FS_Singleton
  <2> HIDE DEF I
  <2>4. IsFiniteSet({x} \X I) /\ Cardinality({x} \X I) = 1 * n
    BY <2>2, <2>3, FS_Product
  <2> QED BY <2>1, <2>4 DEF I, n
<1> HIDE DEF A, B
<1>6. Cardinality(A \cup B) = Cardinality(A) + Cardinality(B) - Cardinality(A \cap B)
  BY <1>4, <1>5, FS_Union
<1>7. Cardinality(A \cap B) = 0
  BY <1>3, FS_EmptySet
<1>8. Cardinality(A) \in Nat /\ Cardinality(B) \in Nat
  BY <1>4, <1>5, FS_CardinalityType
<1>9. Cardinality(A \cup B) = Cardinality(A) + f[x]
  BY <1>5, <1>6, <1>7, <1>8
<1> QED BY <1>2, <1>9 DEF A

(* An alert for another adds the difference.                               *)
LEMMA UnitsSwap ==
  ASSUME NEW S, IsFiniteSet(S), NEW f, NEW x \in S, NEW y, y \notin S \/ y = x,
         NEW T, T = (S \ {x}) \cup {y},
         NEW p \in 0 .. MaxAssessments, NEW q \in 0 .. MaxAssessments, f[x] = p, f[y] = q
  PROVE  /\ IsFiniteSet(T)
         /\ Cardinality(Units(S, f)) \in Nat
         /\ Cardinality(Units(T, f)) = Cardinality(Units(S, f)) - p + q
<1> DEFINE R == S \ {x}
<1>1. IsFiniteSet(R) /\ x \notin R /\ S = R \cup {x}
  BY FS_RemoveElement
<1> HIDE DEF R
<1>2. Cardinality(Units(S, f)) = Cardinality(Units(R, f)) + p
  BY <1>1, UnitsAdd
<1>3. Cardinality(Units(T, f)) = Cardinality(Units(R, f)) + q
  <2>1. y \notin R /\ T = R \cup {y}
    BY DEF R
  <2> QED BY <1>1, <2>1, UnitsAdd
<1>4. IsFiniteSet(T)
  <2>1. T = R \cup {y}
    BY DEF R
  <2> QED BY <1>1, <2>1, FS_AddElement
<1>5. Cardinality(Units(R, f)) \in Nat /\ p \in Nat /\ q \in Nat
  BY <1>1, UnitsFinite, AlertsAssumption
<1>6. Cardinality(Units(S, f)) \in Nat
  BY <1>2, <1>5
<1>7. Cardinality(Units(T, f)) = Cardinality(Units(S, f)) - p + q
  BY <1>2, <1>3, <1>5
<1> QED BY <1>4, <1>6, <1>7

(* The tallies are what the alerts hold.                                   *)
Counted ==
  /\ IsFiniteSet(Emitted) /\ count.scanned <= MaxAssessments
  /\ \A a \in Emitted : a.n <= count.scanned /\ a.suppressed <= count.scanned
  /\ Cardinality(Units(Emitted, Sizes)) = count.grouped
  /\ Cardinality(Units(Emitted, Hidings)) = count.cooldown + count.limited

(* An alert takes another's place.                                         *)
LEMMA ReplacedCounted ==
  ASSUME TypeOK, TypeOK', KeysRight, InOrder, Counted,
         NEW x \in Emitted, NEW y \in Alert, y.key = x.key, y.first = x.first,
         Emitted' = (Emitted \ {x}) \cup {y},
         NEW k, NEW ts, Rest(k, ts),
         NEW d \in 0 .. 1, NEW e \in 0 .. 1,
         y.n = x.n + d, y.suppressed = x.suppressed + e,
         count'.grouped = count.grouped + d,
         count'.cooldown + count'.limited = count.cooldown + count.limited + e
  PROVE  Counted'
<1>1. /\ count \in Tallies /\ count' \in Tallies /\ MaxAssessments \in Nat
      /\ count.scanned < MaxAssessments /\ count'.scanned = count.scanned + 1
  BY AlertsAssumption DEF TypeOK, Rest
<1>2. /\ count.scanned \in Nat /\ count.grouped \in Nat
      /\ count.cooldown + count.limited \in Nat
  BY <1>1 DEF Tallies
<1>3. x \in Alert /\ Emitted \subseteq Alert
  BY Places
<1>4. /\ x.n \in Nat /\ x.suppressed \in Nat /\ x.n <= count.scanned
      /\ x.suppressed <= count.scanned
  BY <1>3 DEF Alert, Counted
<1>5. /\ Sizes[x] = x.n /\ Sizes[y] = x.n + d
      /\ Hidings[x] = x.suppressed /\ Hidings[y] = x.suppressed + e
  BY <1>3 DEF Sizes, Hidings
<1>6. /\ Sizes[x] \in 0 .. MaxAssessments /\ Sizes[y] \in 0 .. MaxAssessments
      /\ Hidings[x] \in 0 .. MaxAssessments /\ Hidings[y] \in 0 .. MaxAssessments
  BY <1>1, <1>2, <1>4, <1>5
<1>7. y \notin Emitted \/ y = x
  <2> SUFFICES ASSUME y \in Emitted PROVE y = x
    OBVIOUS
  <2>1. y = x \/ Apart(conf, y, x) \/ Apart(conf, x, y)
    BY OneOrder
  <2>2. ~ Apart(conf, y, x) /\ ~ Apart(conf, x, y)
    <3>1. Aged(x, now) /\ Aged(y, now)
      BY LatestIsLast
    <3>2. /\ x.first \in Nat /\ x.last \in Nat /\ y.first \in Nat /\ y.last \in Nat /\ Intervals
      BY <1>3, ConfType DEF Alert
    <3> QED BY <3>1, <3>2 DEF Apart, Aged, Intervals
  <2> QED BY <2>1, <2>2
<1>8. IsFiniteSet(Emitted)
  BY DEF Counted
<1>9. IsFiniteSet(Emitted')
  BY <1>6, <1>7, <1>8, UnitsSwap
<1> DEFINE E == Emitted
           F == Emitted'
<1>10. ASSUME NEW f, NEW p \in 0 .. MaxAssessments, NEW q \in 0 .. MaxAssessments,
              f[x] = p, f[y] = q
       PROVE  Cardinality(Units(F, f)) = Cardinality(Units(E, f)) - p + q
  <2>1. /\ x \in E /\ (y \notin E \/ y = x) /\ IsFiniteSet(E)
        /\ F = (E \ {x}) \cup {y}
    BY <1>7, <1>8
  <2> HIDE DEF E, F
  <2> QED BY <1>10, <2>1, UnitsSwap
<1>11. /\ Cardinality(Units(E, Sizes)) = count.grouped
       /\ Cardinality(Units(E, Hidings)) = count.cooldown + count.limited
  BY DEF Counted
<1>12. Cardinality(Units(Emitted', Sizes)) = count'.grouped
  <2>1. Cardinality(Units(F, Sizes)) = Cardinality(Units(E, Sizes)) - Sizes[x] + Sizes[y]
    BY <1>6, <1>10
  <2> HIDE DEF E, F
  <2>2. Cardinality(Units(F, Sizes)) = count'.grouped
    BY <1>2, <1>4, <1>5, <1>11, <2>1
  <2> QED BY <2>2 DEF F
<1>13. Cardinality(Units(Emitted', Hidings)) = count'.cooldown + count'.limited
  <2>1. Cardinality(Units(F, Hidings)) = Cardinality(Units(E, Hidings)) - Hidings[x] + Hidings[y]
    BY <1>6, <1>10
  <2> DEFINE m == count.cooldown + count.limited
             p == count'.cooldown + count'.limited
  <2>2. m \in Nat /\ p = m + e /\ Cardinality(Units(E, Hidings)) = m
    BY <1>2, <1>11
  <2> HIDE DEF E, F, m, p
  <2>3. Cardinality(Units(F, Hidings)) = p
    BY <1>4, <1>5, <2>1, <2>2
  <2> QED BY <2>3 DEF F, p
<1>14. ASSUME NEW a \in Emitted'
       PROVE  a.n <= count'.scanned /\ a.suppressed <= count'.scanned
  <2>1. CASE a = y
    BY <1>1, <1>2, <1>4, <2>1
  <2>2. CASE a \in Emitted
    <3>1. a.n \in Nat /\ a.suppressed \in Nat
      BY <1>3, <2>2 DEF Alert
    <3>2. a.n <= count.scanned /\ a.suppressed <= count.scanned
      BY <2>2 DEF Counted
    <3> QED BY <1>1, <1>2, <3>1, <3>2
  <2> QED BY <2>1, <2>2
<1>15. count'.scanned <= MaxAssessments
  BY <1>1, <1>2
<1>16. /\ \A a \in Emitted' : a.n <= count'.scanned /\ a.suppressed <= count'.scanned
  BY <1>14
<1>17. Sizes' = Sizes /\ Hidings' = Hidings
  BY DEF Sizes, Hidings, Alert, Key, Score
<1> QED BY <1>9, <1>12, <1>13, <1>15, <1>16 DEF Counted, Units, Sizes, Hidings

(* A new alert holds one grouped assessment and no suppressed one.         *)
LEMMA OpensCounted ==
  ASSUME TypeOK, TypeOK', KeysRight, InOrder, Counted,
         NEW k \in Key, NEW ts \in Nat, NEW score \in Score, Opens(k, ts, score)
  PROVE  Counted'
<1> DEFINE o == Opened(k, ts, score)
           E == Emitted
           F == Emitted'
<1>1. /\ count \in Tallies /\ count' \in Tallies /\ MaxAssessments \in Nat
      /\ count.scanned < MaxAssessments /\ count'.scanned = count.scanned + 1
      /\ count'.grouped = count.grouped + 1
      /\ count'.cooldown = count.cooldown /\ count'.limited = count.limited
  BY AlertsAssumption DEF TypeOK, Opens, Rest
<1>2. /\ count.scanned \in Nat /\ count.grouped \in Nat
      /\ count.cooldown + count.limited \in Nat
  BY <1>1 DEF Tallies
<1>3. F = E \cup {o} /\ o \in Alert
  BY OpensEmitted, OpenedFields
<1>4. o \notin E
  <2> SUFFICES ASSUME o \in E PROVE FALSE
    OBVIOUS
  <2>1. o.key = k /\ o.first = ts
    BY OpenedFields
  <2>2. Latest(k) \in Alert /\ Aged(Latest(k), now)
        /\ (o = Latest(k) \/ Apart(conf, o, Latest(k))) /\ Aged(o, now)
    BY <2>1, LatestIsLast
  <2>3. now <= ts /\ ~ Near(open[k], ts)
    BY DEF Opens, Rest
  <2>4. Latest(k).last + conf.grouping < ts /\ Latest(k).first <= Latest(k).last
    BY <2>2, <2>3, LatestIsOld, AlertIsOne
  <2>5. Latest(k).first \in Nat /\ Latest(k).last \in Nat /\ o.last \in Nat /\ Intervals
    BY <1>3, <2>2, ConfType DEF Alert
  <2> QED BY <2>1, <2>2, <2>4, <2>5 DEF Apart, Aged, Intervals
<1>5. IsFiniteSet(E) /\ IsFiniteSet(F)
  <2>1. IsFiniteSet(E)
    BY DEF Counted
  <2> HIDE DEF E, F, o
  <2> QED BY <1>3, <2>1, FS_AddElement
<1>6. Sizes[o] = 1 /\ Hidings[o] = 0
  BY <1>3, OpenedFields DEF Sizes, Hidings
<1>7. 1 \in 0 .. MaxAssessments /\ 0 \in 0 .. MaxAssessments
  BY <1>1, <1>2
<1>8. /\ Cardinality(Units(E, Sizes)) = count.grouped
      /\ Cardinality(Units(E, Hidings)) = count.cooldown + count.limited
  BY DEF Counted
<1>9. Cardinality(Units(F, Sizes)) = count'.grouped
  <2> HIDE DEF E, F, o
  <2>1. Cardinality(Units(F, Sizes)) = Cardinality(Units(E, Sizes)) + 1
    BY <1>3, <1>4, <1>5, <1>6, <1>7, UnitsAdd
  <2> QED BY <1>1, <1>8, <2>1
<1>10. Cardinality(Units(F, Hidings)) = count'.cooldown + count'.limited
  <2> HIDE DEF E, F, o
  <2>1. Cardinality(Units(F, Hidings)) = Cardinality(Units(E, Hidings)) + 0
    BY <1>3, <1>4, <1>5, <1>6, <1>7, UnitsAdd
  <2> QED BY <1>1, <1>2, <1>8, <2>1
<1>11. ASSUME NEW a \in F
       PROVE  a.n <= count'.scanned /\ a.suppressed <= count'.scanned
  <2>1. CASE a = o
    BY <1>1, <1>2, <2>1, OpenedFields
  <2>2. CASE a \in E
    <3>1. a \in Alert
      BY <2>2, Places
    <3>2. a.n \in Nat /\ a.suppressed \in Nat
      BY <3>1 DEF Alert
    <3>3. a.n <= count.scanned /\ a.suppressed <= count.scanned
      BY <2>2 DEF Counted
    <3> QED BY <1>1, <1>2, <3>2, <3>3
  <2> QED BY <1>3, <1>11, <2>1, <2>2
<1>12. count'.scanned <= MaxAssessments
  BY <1>1, <1>2
<1> QED BY <1>5, <1>9, <1>10, <1>11, <1>12 DEF Counted, Units, Sizes, Hidings

(* Every step counts what it puts into an alert.                           *)
LEMMA CountedStep ==
  ASSUME TypeOK, TypeOK', KeysRight, InOrder, Windowed, Counted, [Next]_vars
  PROVE  Counted'
<1>1. count \in Tallies /\ count' \in Tallies
  BY DEF TypeOK
<1>2. CASE Stays
  <2>1. /\ Emitted' = Emitted /\ count.scanned <= count'.scanned
        /\ count'.scanned <= MaxAssessments
        /\ count'.grouped = count.grouped /\ count'.cooldown = count.cooldown
        /\ count'.limited = count.limited
    BY <1>2 DEF Stays, Emitted, Counted
  <2>2. \A a \in Emitted : a.n <= count'.scanned /\ a.suppressed <= count'.scanned
    <3> SUFFICES ASSUME NEW a \in Emitted
                 PROVE  a.n <= count'.scanned /\ a.suppressed <= count'.scanned
      OBVIOUS
    <3>1. a \in Alert
      BY Places
    <3>2. a.n \in Nat /\ a.suppressed \in Nat
      BY <3>1 DEF Alert
    <3>3. count.scanned \in Nat /\ count'.scanned \in Nat
      BY <1>1 DEF Tallies
    <3>4. a.n <= count.scanned /\ a.suppressed <= count.scanned
      BY DEF Counted
    <3> QED BY <2>1, <3>2, <3>3, <3>4
  <2> QED BY <2>1, <2>2 DEF Counted, Units, Sizes, Hidings
<1>3. ASSUME NEW k \in Key, NEW ts \in Nat, NEW score \in Score, Takes(k, ts, score)
      PROVE  Counted'
  <2> DEFINE x == open[k]
             y == Absorbed(x, ts, score)
  <2>1. /\ x \in Emitted /\ x \in Alert /\ Emitted' = (Emitted \ {x}) \cup {y}
    BY <1>3, TakesEmitted
  <2>2. /\ y \in Alert /\ y.key = x.key /\ y.first = x.first
        /\ y.n = x.n + 1 /\ y.suppressed = x.suppressed
    BY <2>1, AbsorbedFields
  <2>3. /\ Rest(k, ts) /\ count'.grouped = count.grouped + 1
        /\ count'.cooldown + count'.limited = count.cooldown + count.limited
    BY <1>3 DEF Takes
  <2>4. /\ y.suppressed = x.suppressed + 0
        /\ count'.cooldown + count'.limited = count.cooldown + count.limited + 0
    BY <1>1, <2>1, <2>2, <2>3 DEF Alert, Tallies
  <2>5. 0 \in 0 .. 1 /\ 1 \in 0 .. 1
    OBVIOUS
  <2> HIDE DEF x, y
  <2> QED BY <2>1, <2>2, <2>3, <2>4, <2>5, ReplacedCounted
<1>4. ASSUME NEW k \in Key, NEW ts \in Nat, NEW score \in Score,
             NEW reason \in {"cooldown", "limit"}, Hides(k, ts, score, reason)
      PROVE  Counted'
  <2> DEFINE x == Latest(k)
             y == Tally(k, ts, score)
  <2>1. x # NoAlert
    <3>1. CASE reason = "cooldown"
      BY <1>4, <3>1 DEF Hides, Passes, Cooling
    <3>2. CASE reason = "limit"
      <4>1. Slot(k, ts).count > conf.limit /\ Intervals /\ window[k] \in [start : Nat, count : Nat]
        BY <1>4, <3>2, ConfType DEF Hides, TypeOK
      <4>2. window[k].count # 0
        BY <4>1 DEF Slot, Intervals
      <4> QED BY <4>2 DEF Windowed
    <3> QED BY <3>1, <3>2
  <2>2. x \in Emitted /\ x \in Alert /\ Emitted' = (Emitted \ {x}) \cup {y}
    BY <1>4, <2>1, LatestIsOnce, HidesEmitted
  <2>3. /\ y \in Alert /\ y.key = x.key /\ y.first = x.first
        /\ y.n = x.n /\ y.suppressed = x.suppressed + 1
    BY <2>1, TallyFields, AlertIsOne DEF Same
  <2>4. /\ Rest(k, ts) /\ count'.grouped = count.grouped
        /\ count'.cooldown + count'.limited = count.cooldown + count.limited + 1
    BY <1>4 DEF Hides
  <2>5. y.n = x.n + 0 /\ count'.grouped = count.grouped + 0
    BY <1>1, <2>2, <2>3, <2>4 DEF Alert, Tallies
  <2>6. 0 \in 0 .. 1 /\ 1 \in 0 .. 1
    OBVIOUS
  <2> HIDE DEF x, y
  <2> QED BY <2>2, <2>3, <2>4, <2>5, <2>6, ReplacedCounted
<1>5. ASSUME NEW k \in Key, NEW ts \in Nat, NEW score \in Score, Opens(k, ts, score)
      PROVE  Counted'
  BY <1>5, OpensCounted
<1> QED BY <1>2, <1>3, <1>4, <1>5, Shapes

-----------------------------------------------------------------------------
(* Total adds up what the alerts hold, by value: the sum over the values   *)
(* is the number of the units.                                             *)

(* The alerts that hold no more than m, and those that hold just m.        *)
UpTo(S, f, m) == {a \in S : f[a] <= m}
Exactly(S, f, m) == {a \in S : f[a] = m}

(* The units of those up to m are the units of those below and m of each.  *)
LEMMA UnitsByValue ==
  ASSUME NEW S, IsFiniteSet(S), NEW f, \A a \in S : f[a] \in 0 .. MaxAssessments
  PROVE  /\ Cardinality(Units(UpTo(S, f, 0), f)) = 0
         /\ \A m \in 1 .. MaxAssessments :
              Cardinality(Units(UpTo(S, f, m), f))
              = m * Cardinality(Exactly(S, f, m)) + Cardinality(Units(UpTo(S, f, m - 1), f))
         /\ UpTo(S, f, MaxAssessments) = S
<1>0. MaxAssessments \in Nat
  BY AlertsAssumption
<1>1. Cardinality(Units(UpTo(S, f, 0), f)) = 0
  <2>1. Units(UpTo(S, f, 0), f) = {}
    BY <1>0 DEF Units, UpTo
  <2> QED BY <2>1, FS_EmptySet
<1>2. ASSUME NEW m \in 1 .. MaxAssessments
      PROVE  Cardinality(Units(UpTo(S, f, m), f))
             = m * Cardinality(Exactly(S, f, m)) + Cardinality(Units(UpTo(S, f, m - 1), f))
  <2> DEFINE A == Units(UpTo(S, f, m), f)
             B == Units(UpTo(S, f, m - 1), f)
             X == Exactly(S, f, m)
             I == 1 .. m
             C == X \X I
  <2>1. A = B \cup C
    <3>1. ASSUME NEW u \in S \X (1 .. MaxAssessments)
          PROVE  u \in A <=> u \in B \/ u \in C
      <4>1. u[1] \in S /\ u[2] \in 1 .. MaxAssessments /\ f[u[1]] \in 0 .. MaxAssessments
        OBVIOUS
      <4>2. /\ u \in A <=> f[u[1]] <= m /\ u[2] <= f[u[1]]
            /\ u \in B <=> f[u[1]] <= m - 1 /\ u[2] <= f[u[1]]
            /\ u \in C <=> f[u[1]] = m /\ u[2] <= m
        BY <4>1 DEF Units, UpTo, Exactly
      <4> QED BY <1>0, <4>1, <4>2
    <3>2. A \subseteq S \X (1 .. MaxAssessments) /\ B \subseteq S \X (1 .. MaxAssessments)
      BY DEF Units, UpTo
    <3>3. C \subseteq S \X (1 .. MaxAssessments)
      BY <1>0 DEF Exactly
    <3> QED BY <3>1, <3>2, <3>3
  <2>2. B \cap C = {}
    BY <1>0 DEF Units, UpTo, Exactly
  <2>3. IsFiniteSet(UpTo(S, f, m - 1)) /\ IsFiniteSet(X)
    BY FS_Subset DEF UpTo, Exactly
  <2>4. IsFiniteSet(B) /\ Cardinality(B) \in Nat
    BY <2>3, UnitsFinite
  <2>5. IsFiniteSet(I) /\ Cardinality(I) = m
    <3>1. 1 \in Int /\ m \in Int /\ 1 <= m
      BY <1>0
    <3>2. IsFiniteSet(1 .. m) /\ Cardinality(1 .. m) = IF 1 > m THEN 0 ELSE m - 1 + 1
      BY <3>1, FS_Interval
    <3> QED BY <3>1, <3>2
  <2> HIDE DEF X, I
  <2>6. IsFiniteSet(C) /\ Cardinality(C) = Cardinality(X) * m /\ Cardinality(X) \in Nat
    BY <2>3, <2>5, FS_Product, FS_CardinalityType
  <2>7. Cardinality(X) * m = m * Cardinality(X) /\ Cardinality(C) \in Nat
    BY <1>0, <2>6, FS_CardinalityType
  <2> HIDE DEF A, B, C
  <2>8. Cardinality(B \cup C) = Cardinality(B) + Cardinality(C) - Cardinality(B \cap C)
    BY <2>4, <2>6, FS_Union
  <2>9. Cardinality(B \cap C) = 0
    BY <2>2, FS_EmptySet
  <2>10. Cardinality(A) = Cardinality(C) + Cardinality(B)
    BY <2>1, <2>4, <2>7, <2>8, <2>9
  <2> QED BY <2>6, <2>7, <2>10 DEF A, B, X
<1>3. UpTo(S, f, MaxAssessments) = S
  BY <1>0 DEF UpTo
<1> QED BY <1>1, <1>2, <1>3

(* A function that satisfies the recursion of Total ends at that number.   *)
LEMMA RecursionEnds ==
  ASSUME NEW S, IsFiniteSet(S), NEW f, \A a \in S : f[a] \in 0 .. MaxAssessments,
         NEW g,
         g[0] = 0,
         \A m \in 1 .. MaxAssessments : g[m] = m * Cardinality(Exactly(S, f, m)) + g[m - 1]
  PROVE  g[MaxAssessments] = Cardinality(Units(S, f))
<1> DEFINE W(m) == Cardinality(Units(UpTo(S, f, m), f))
           Wrong == {m \in 0 .. MaxAssessments : g[m] # W(m)}
<1>0. MaxAssessments \in Nat
  BY AlertsAssumption
<1>1. /\ W(0) = 0 /\ UpTo(S, f, MaxAssessments) = S
      /\ \A m \in 1 .. MaxAssessments : W(m) = m * Cardinality(Exactly(S, f, m)) + W(m - 1)
  BY UnitsByValue
<1> HIDE DEF W
<1>2. Wrong = {}
  <2> SUFFICES ASSUME Wrong # {} PROVE FALSE
    OBVIOUS
  <2>1. Wrong \in SUBSET Nat
    OBVIOUS
  <2>2. PICK m \in Wrong : \A n \in Wrong : m <= n
    <3> HIDE DEF Wrong
    <3> QED BY <2>1, LeastNatural
  <2>3. m # 0
    BY <1>1
  <2>4. m \in 1 .. MaxAssessments /\ m - 1 \in 0 .. MaxAssessments
    BY <1>0, <2>3
  <2>5. m - 1 \notin Wrong
    <3>1. ~ (m <= m - 1)
      BY <2>4, <1>0
    <3> QED BY <2>2, <3>1
  <2>6. g[m - 1] = W(m - 1)
    BY <2>4, <2>5
  <2>7. g[m] = W(m)
    BY <1>1, <2>4, <2>6
  <2> QED BY <2>7
<1>3. g[MaxAssessments] = W(MaxAssessments)
  <2>1. MaxAssessments \in 0 .. MaxAssessments
    BY <1>0
  <2> QED BY <1>2, <2>1
<1> QED BY <1>1, <1>3 DEF W

(* What the alerts hold together, in the two fields that are added up.     *)
LEMMA TotalSizes ==
  ASSUME NEW S, S \subseteq Alert, IsFiniteSet(S),
         \A a \in S : a.n \in 0 .. MaxAssessments
  PROVE  LET n(a) == a.n IN Total(S, n) = Cardinality(Units(S, Sizes))
<1> DEFINE Keeps(f) == f = [m \in 0 .. MaxAssessments |->
              IF m = 0 THEN 0 ELSE m * Cardinality({a \in S : a.n = m}) + f[m - 1]]
           sums == CHOOSE f : Keeps(f)
           W == [m \in 0 .. MaxAssessments |-> Cardinality(Units(UpTo(S, Sizes, m), Sizes))]
<1>0. MaxAssessments \in Nat
  BY AlertsAssumption
<1>1. \A a \in S : Sizes[a] = a.n
  BY DEF Sizes
<1>2. ASSUME NEW m \in 0 .. MaxAssessments PROVE Exactly(S, Sizes, m) = {a \in S : a.n = m}
  BY <1>1 DEF Exactly
<1>3. \A a \in S : Sizes[a] \in 0 .. MaxAssessments
  BY <1>1
<1>4. /\ Cardinality(Units(UpTo(S, Sizes, 0), Sizes)) = 0
      /\ \A m \in 1 .. MaxAssessments :
           Cardinality(Units(UpTo(S, Sizes, m), Sizes))
           = m * Cardinality(Exactly(S, Sizes, m)) + Cardinality(Units(UpTo(S, Sizes, m - 1), Sizes))
  BY <1>3, UnitsByValue
<1>5. Keeps(W)
  <2> SUFFICES ASSUME NEW m \in 0 .. MaxAssessments
               PROVE  Cardinality(Units(UpTo(S, Sizes, m), Sizes))
                      = IF m = 0 THEN 0
                        ELSE m * Cardinality({a \in S : a.n = m}) + W[m - 1]
    OBVIOUS
  <2>1. CASE m = 0
    BY <1>4, <2>1
  <2>2. CASE m # 0
    <3>1. m \in 1 .. MaxAssessments /\ m - 1 \in 0 .. MaxAssessments
      BY <1>0, <2>2
    <3>2. W[m - 1] = Cardinality(Units(UpTo(S, Sizes, m - 1), Sizes))
      BY <3>1
    <3> HIDE DEF W
    <3> QED BY <1>2, <1>4, <2>2, <3>1, <3>2
  <2> QED BY <2>1, <2>2
<1>6. Keeps(sums)
  <2> HIDE DEF W
  <2> QED BY <1>5
<1> HIDE DEF sums, W
<1>7. /\ sums[0] = 0
      /\ \A m \in 1 .. MaxAssessments :
           sums[m] = m * Cardinality(Exactly(S, Sizes, m)) + sums[m - 1]
  <2>1. 0 \in 0 .. MaxAssessments
    BY <1>0
  <2>2. \A m \in 1 .. MaxAssessments : m \in 0 .. MaxAssessments /\ m # 0
    BY <1>0
  <2> QED BY <1>2, <1>6, <2>1, <2>2
<1>8. sums[MaxAssessments] = Cardinality(Units(S, Sizes))
  BY <1>3, <1>7, RecursionEnds
<1> QED BY <1>8 DEF sums, Total

(* The same of the suppressed ones.                                        *)
LEMMA TotalHidings ==
  ASSUME NEW S, S \subseteq Alert, IsFiniteSet(S),
         \A a \in S : a.suppressed \in 0 .. MaxAssessments
  PROVE  LET suppressed(a) == a.suppressed IN Total(S, suppressed) = Cardinality(Units(S, Hidings))
<1> DEFINE Keeps(f) == f = [m \in 0 .. MaxAssessments |->
              IF m = 0 THEN 0 ELSE m * Cardinality({a \in S : a.suppressed = m}) + f[m - 1]]
           sums == CHOOSE f : Keeps(f)
           W == [m \in 0 .. MaxAssessments |-> Cardinality(Units(UpTo(S, Hidings, m), Hidings))]
<1>0. MaxAssessments \in Nat
  BY AlertsAssumption
<1>1. \A a \in S : Hidings[a] = a.suppressed
  BY DEF Hidings
<1>2. ASSUME NEW m \in 0 .. MaxAssessments PROVE Exactly(S, Hidings, m) = {a \in S : a.suppressed = m}
  BY <1>1 DEF Exactly
<1>3. \A a \in S : Hidings[a] \in 0 .. MaxAssessments
  BY <1>1
<1>4. /\ Cardinality(Units(UpTo(S, Hidings, 0), Hidings)) = 0
      /\ \A m \in 1 .. MaxAssessments :
           Cardinality(Units(UpTo(S, Hidings, m), Hidings))
           = m * Cardinality(Exactly(S, Hidings, m)) + Cardinality(Units(UpTo(S, Hidings, m - 1), Hidings))
  BY <1>3, UnitsByValue
<1>5. Keeps(W)
  <2> SUFFICES ASSUME NEW m \in 0 .. MaxAssessments
               PROVE  Cardinality(Units(UpTo(S, Hidings, m), Hidings))
                      = IF m = 0 THEN 0
                        ELSE m * Cardinality({a \in S : a.suppressed = m}) + W[m - 1]
    OBVIOUS
  <2>1. CASE m = 0
    BY <1>4, <2>1
  <2>2. CASE m # 0
    <3>1. m \in 1 .. MaxAssessments /\ m - 1 \in 0 .. MaxAssessments
      BY <1>0, <2>2
    <3>2. W[m - 1] = Cardinality(Units(UpTo(S, Hidings, m - 1), Hidings))
      BY <3>1
    <3> HIDE DEF W
    <3> QED BY <1>2, <1>4, <2>2, <3>1, <3>2
  <2> QED BY <2>1, <2>2
<1>6. Keeps(sums)
  <2> HIDE DEF W
  <2> QED BY <1>5
<1> HIDE DEF sums, W
<1>7. /\ sums[0] = 0
      /\ \A m \in 1 .. MaxAssessments :
           sums[m] = m * Cardinality(Exactly(S, Hidings, m)) + sums[m - 1]
  <2>1. 0 \in 0 .. MaxAssessments
    BY <1>0
  <2>2. \A m \in 1 .. MaxAssessments : m \in 0 .. MaxAssessments /\ m # 0
    BY <1>0
  <2> QED BY <1>2, <1>6, <2>1, <2>2
<1>8. sums[MaxAssessments] = Cardinality(Units(S, Hidings))
  BY <1>3, <1>7, RecursionEnds
<1> QED BY <1>8 DEF sums, Total

-----------------------------------------------------------------------------
(* The invariant of the two: what the alerts of a key have between them,   *)
(* what the window has counted, what the limit has refused and what the    *)
(* alerts hold.                                                            *)
Ordered == Inv /\ Levels /\ InOrder /\ Windowed /\ LimitUsed /\ Counted

(* It holds before the first assessment.                                   *)
LEMMA InitOrdered == Init => Ordered
<1> SUFFICES ASSUME Init PROVE Ordered
  OBVIOUS
<1>1. Inv
  BY InitInv
<1>2. /\ early = <<>> /\ hidden = {}
      /\ \A k \in Key : open[k] = NoAlert /\ closed[k] = NoAlert /\ window[k].count = 0
      /\ count.scanned = 0 /\ count.grouped = 0 /\ count.cooldown = 0 /\ count.limited = 0
  BY DEF Init, NoWindow
<1>3. Emitted = {}
  BY <1>2 DEF Emitted
<1>4. Levels /\ InOrder /\ Windowed /\ LimitUsed
  BY <1>2 DEF Levels, Level, InOrder, Windowed, LimitUsed
<1>5. Counted
  <2>1. Units(Emitted, Sizes) = {} /\ Units(Emitted, Hidings) = {}
    BY <1>3 DEF Units
  <2>2. IsFiniteSet(Emitted) /\ \A S : S = {} => Cardinality(S) = 0
    BY <1>3, FS_EmptySet
  <2>3. Cardinality(Units(Emitted, Sizes)) = 0 /\ Cardinality(Units(Emitted, Hidings)) = 0
    BY <2>1, <2>2
  <2> QED BY <1>2, <1>3, <2>2, <2>3, AlertsAssumption DEF Counted
<1> QED BY <1>1, <1>4, <1>5 DEF Ordered

(* Every step keeps the order.                                             *)
LEMMA InOrderStep ==
  ASSUME TypeOK, KeysRight, Levels, InOrder, [Next]_vars
  PROVE  InOrder'
<1>1. CASE Stays
  BY <1>1, StaysInOrder
<1>2. ASSUME NEW k \in Key, NEW ts \in Nat, NEW score \in Score,
             \/ Takes(k, ts, score) \/ Opens(k, ts, score)
             \/ \E reason \in {"cooldown", "limit"} : Hides(k, ts, score, reason)
      PROVE  InOrder'
  BY <1>2, TakesInOrder, OpensInOrder, HidesInOrder
<1> QED BY <1>1, <1>2, Shapes

(* And every step keeps it all.                                            *)
LEMMA StepOrdered == Ordered /\ [Next]_vars => Ordered'
<1> SUFFICES ASSUME Ordered, [Next]_vars PROVE Ordered'
  OBVIOUS
<1>1. /\ Inv /\ TypeOK /\ KeysRight /\ Levels /\ InOrder /\ Windowed /\ LimitUsed /\ Counted
  BY DEF Ordered, Inv
<1>2. Inv' /\ TypeOK'
  BY <1>1, StepInv DEF Inv
<1>3. Levels' /\ InOrder'
  BY <1>1, LevelsStep, InOrderStep
<1>4. Windowed'
  BY <1>1, <1>2, WindowedStep, StaysWindowed
<1>5. LimitUsed' /\ Counted'
  BY <1>1, <1>2, LimitUsedStep, CountedStep
<1> QED BY <1>2, <1>3, <1>4, <1>5 DEF Ordered

(* The two invariants of the pass hold in every state.                     *)
THEOREM OrderedAlerts == Spec => []Ordered
  BY InitOrdered, StepOrdered, PTL DEF Spec

(* As many alerts as times at which they begin, or more.                   *)
LEMMA AlertsOfStarts ==
  ASSUME NEW S, IsFiniteSet(S), S \subseteq Alert, NEW k, NEW lo \in Int, NEW hi \in Nat,
         NEW T, T = {a \in S : a.key = k /\ a.first <= hi /\ a.first >= lo}
  PROVE  /\ Cardinality(T) \in Nat /\ Cardinality(Starts(S, k, lo, hi)) \in Nat
         /\ Cardinality(Starts(S, k, lo, hi)) <= Cardinality(T)
<1> DEFINE begin == [a \in T |-> a.first]
           R == Starts(S, k, lo, hi)
<1>1. IsFiniteSet(T)
  BY FS_Subset
<1>2. \A a \in T : a.first \in Nat
  BY DEF Alert
<1>3. begin \in Surjection(T, R)
  <2>1. \A a \in T : a.first \in R
    BY <1>2 DEF Starts
  <2>2. \A t \in R : \E a \in T : a.first = t
    BY DEF Starts
  <2> HIDE DEF R
  <2> QED BY <2>1, <2>2 DEF Surjection
<1> HIDE DEF begin, R
<1>4. IsFiniteSet(R) /\ Cardinality(R) <= Cardinality(T)
  BY <1>1, <1>3, FS_Surjection
<1> QED BY <1>1, <1>4, FS_CardinalityType DEF R

(* Two alerts of one key are more than a grouping window apart, and more   *)
(* than a cooldown unless the later one is higher and the bypass is on;    *)
(* what the limit refuses comes after as many alerts within the horizon as *)
(* it allows, which no run with limit * grouping >= horizon gets to.       *)
THEOREM NoFloodOfAlerts == Spec => []NoFlood
<1>1. Ordered => NoFlood
  <2> SUFFICES ASSUME Ordered PROVE NoFlood
    OBVIOUS
  <2>1. TypeOK /\ KeysRight /\ InOrder /\ LimitUsed /\ Counted /\ Intervals
    BY ConfType DEF Ordered, Inv
  <2>2. ASSUME NEW a \in Emitted, NEW b \in Emitted, a.key = b.key, a.first < b.first
        PROVE  /\ b.first > a.last + conf.grouping
               /\ \/ b.first > a.last + conf.cooldown
                  \/ conf.bypass /\ b.peak > a.peak
    <3>1. /\ a \in Alert /\ b \in Alert /\ Aged(a, now) /\ Aged(b, now)
      BY <2>1, LatestIsLast
    <3>2. /\ a.first \in Nat /\ a.last \in Nat /\ b.first \in Nat /\ b.last \in Nat
          /\ a.peak \in Nat /\ b.peak \in Nat
      BY <3>1, AlertsAssumption DEF Alert, Score
    <3>3. ~ Apart(conf, b, a) /\ a # b
      BY <2>1, <2>2, <3>1, <3>2 DEF Apart, Aged, Intervals
    <3>4. Apart(conf, a, b)
      BY <2>1, <2>2, <3>3, OneOrder
    <3> QED BY <2>1, <3>2, <3>4 DEF Apart, Intervals
  <2>3. ASSUME NEW h \in hidden, h.reason = "limit"
        PROVE  /\ conf.limit * conf.grouping < conf.horizon
               /\ Cardinality({a \in Emitted : /\ a.key = h.key /\ a.first <= h.ts
                                               /\ a.first >= h.ts - conf.horizon}) >= conf.limit
    <3> DEFINE k == h.key
               hi == h.ts
               lo == h.ts - conf.horizon
               S == Emitted
               T == {a \in S : a.key = k /\ a.first <= hi /\ a.first >= lo}
    <3>1. /\ conf.limit * conf.grouping < conf.horizon
          /\ conf.limit <= Cardinality(Starts(S, k, lo, hi))
      BY <2>1, <2>3 DEF LimitUsed
    <3>2. hi \in Nat /\ lo \in Int /\ conf.limit \in Nat
      BY <2>1 DEF TypeOK, Intervals
    <3>3. S \subseteq Alert /\ IsFiniteSet(S)
      BY <2>1, Places DEF Counted
    <3> HIDE DEF S, k, lo, hi
    <3>4. /\ Cardinality(T) \in Nat /\ Cardinality(Starts(S, k, lo, hi)) \in Nat
          /\ Cardinality(Starts(S, k, lo, hi)) <= Cardinality(T)
      BY <3>2, <3>3, AlertsOfStarts
    <3>5. Cardinality(T) >= conf.limit
      <4> HIDE DEF T
      <4> QED BY <3>1, <3>2, <3>4
    <3> QED BY <3>1, <3>5 DEF S, k, lo, hi
  <2> QED BY <2>2, <2>3 DEF NoFlood
<1> QED BY <1>1, OrderedAlerts, PTL

(* Every suppressed assessment is told and every grouped one held: the     *)
(* totals of what is emitted are the tallies, and an alert's key and first *)
(* time name it.                                                           *)
THEOREM NothingUnaccounted == Spec => []Accounted
<1>1. Ordered => Accounted
  <2> SUFFICES ASSUME Ordered PROVE Accounted
    OBVIOUS
  <2>1. TypeOK /\ KeysRight /\ InOrder /\ Counted /\ AddsUp /\ Intervals
    BY ConfType DEF Ordered, Inv
  <2>2. Emitted \subseteq Alert /\ IsFiniteSet(Emitted)
    BY <2>1, Places DEF Counted
  <2>3. \A a \in Emitted : a.n \in 0 .. MaxAssessments /\ a.suppressed \in 0 .. MaxAssessments
    <3> SUFFICES ASSUME NEW a \in Emitted
                 PROVE  a.n \in 0 .. MaxAssessments /\ a.suppressed \in 0 .. MaxAssessments
      OBVIOUS
    <3>1. a.n \in Nat /\ a.suppressed \in Nat
      BY <2>2 DEF Alert
    <3>2. count.scanned \in Nat /\ MaxAssessments \in Nat
      BY <2>1, AlertsAssumption DEF TypeOK, Tallies
    <3>3. /\ a.n <= count.scanned /\ a.suppressed <= count.scanned
          /\ count.scanned <= MaxAssessments
      BY <2>1 DEF Counted
    <3> QED BY <3>1, <3>2, <3>3
  <2> DEFINE n(a) == a.n
             suppressed(a) == a.suppressed
             E == Emitted
  <2>4. Total(E, n) = Cardinality(Units(E, Sizes))
    BY <2>2, <2>3, TotalSizes
  <2>5. Total(E, suppressed) = Cardinality(Units(E, Hidings))
    BY <2>2, <2>3, TotalHidings
  <2>6. /\ Cardinality(Units(E, Sizes)) = count.grouped
        /\ Cardinality(Units(E, Hidings)) = count.cooldown + count.limited
    BY <2>1 DEF Counted
  <2>7. ASSUME NEW a \in Emitted, NEW b \in Emitted, a.key = b.key, a.first = b.first
        PROVE  a = b
    <3>1. /\ a \in Alert /\ b \in Alert /\ Aged(a, now) /\ Aged(b, now)
      BY <2>1, LatestIsLast
    <3>2. /\ a.first \in Nat /\ a.last \in Nat /\ b.first \in Nat /\ b.last \in Nat
      BY <3>1 DEF Alert
    <3>3. ~ Apart(conf, b, a) /\ ~ Apart(conf, a, b)
      BY <2>1, <2>7, <3>1, <3>2 DEF Apart, Aged, Intervals
    <3> QED BY <2>1, <2>7, <3>3, OneOrder
  <2> QED BY <2>1, <2>4, <2>5, <2>6, <2>7 DEF Accounted
<1> QED BY <1>1, OrderedAlerts, PTL

-----------------------------------------------------------------------------
(* The comparison's pass beside it.                                        *)

CInv == Levels /\ ComparedAlike

(* What a system sees of an alert, field by field.                         *)
LEMMA ShownFields ==
  ASSUME NEW s \in System, NEW alert \in Alert
  PROVE  /\ Shown(s, alert) # NoAlert
         /\ Shown(s, alert) =
              [key |-> alert.key, first |-> alert.first, last |-> alert.last, n |-> alert.n,
               peak |-> IF s = "bare" THEN Unmeasured ELSE alert.peak,
               severity |-> IF s = "ranked" THEN alert.severity ELSE Unmeasured,
               escalations |-> IF s = "ranked" THEN alert.escalations ELSE 0,
               suppressed |-> alert.suppressed]
BY AlertIsOne DEF Shown, Alert, NoAlert

LEMMA ShownTolled ==
  ASSUME NEW s \in System, NEW alert \in Alert
  PROVE  Tolled(Shown(s, alert)) = Shown(s, [alert EXCEPT !.suppressed = @ + 1])
<1> DEFINE more == [alert EXCEPT !.suppressed = @ + 1]
<1>1. more \in Alert
  BY DEF Alert
<1>2. /\ more.key = alert.key /\ more.first = alert.first /\ more.last = alert.last
      /\ more.n = alert.n /\ more.peak = alert.peak /\ more.severity = alert.severity
      /\ more.escalations = alert.escalations /\ more.suppressed = alert.suppressed + 1
  BY DEF Alert
<1> HIDE DEF more
<1>3. Shown(s, more) =
        [key |-> alert.key, first |-> alert.first, last |-> alert.last, n |-> alert.n,
         peak |-> IF s = "bare" THEN Unmeasured ELSE alert.peak,
         severity |-> IF s = "ranked" THEN alert.severity ELSE Unmeasured,
         escalations |-> IF s = "ranked" THEN alert.escalations ELSE 0,
         suppressed |-> alert.suppressed + 1]
  BY <1>1, <1>2, ShownFields
<1>4. Tolled(Shown(s, alert)) = Shown(s, more)
  BY <1>3, ShownFields DEF Tolled
<1> QED BY <1>4 DEF more

(* The kinds of evidence agree on what is news.                            *)
LEMMA NewsIsMaterial ==
  ASSUME NEW s \in System, s # "bare", NEW alert \in Alert, Level(alert),
         NEW a \in Assessment, NEW ts
  PROVE  News(Shown(s, alert), Decided(s, a, ts)) <=> Material(alert, a.score)
<1>1. a.score \in Score /\ alert.peak \in Score /\ Score \subseteq Nat
  BY AlertsAssumption DEF Assessment, Alert, Score
<1>2. alert.severity = Severity(alert.peak)
  BY AlertIsOne DEF Level
<1>3. Severity(a.score) \in Nat /\ Severity(alert.peak) \in Nat
  BY <1>1, SeverityType
<1>4. a.score <= alert.peak => Severity(a.score) <= Severity(alert.peak)
  BY <1>1, SeverityMonotone
<1>5. Shown(s, alert).peak = alert.peak /\ Decided(s, a, ts).magnitude = a.score
  BY ShownFields DEF Decided, System
<1>6. Above(a.score, alert.peak) <=> a.score > alert.peak
  BY <1>1 DEF Above, Unmeasured
<1>7. CASE s = "ranked"
  <2>1. Shown(s, alert).severity = alert.severity
        /\ Decided(s, a, ts).severity = Severity(a.score)
    BY <1>7, ShownFields DEF Decided, System
  <2>2. Above(Severity(a.score), alert.severity) <=> Severity(a.score) > alert.severity
    BY <1>2, <1>3 DEF Above, Unmeasured
  <2> QED BY <2>1, <2>2, <1>5, <1>6 DEF News, Material
<1>8. CASE s = "scored"
  <2>1. ~ Above(Decided(s, a, ts).severity, Shown(s, alert).severity)
    BY <1>8 DEF Above, Decided
  <2>2. a.score \in Nat /\ alert.peak \in Nat
    BY <1>1
  <2>3. Severity(a.score) > Severity(alert.peak) => a.score > alert.peak
    BY <1>3, <1>4, <2>2
  <2>4. Severity(a.score) > alert.severity => a.score > alert.peak
    BY <1>2, <2>3
  <2> QED BY <2>1, <2>4, <1>5, <1>6 DEF News, Material
<1> QED BY <1>7, <1>8 DEF System

LEMMA BareIsNeverNews ==
  ASSUME NEW alert \in Alert, NEW a, NEW ts
  PROVE  ~ News(Shown("bare", alert), Decided("bare", a, ts))
BY ShownFields DEF News, Above, Decided, Unmeasured, System

LEMMA ShownJoined ==
  ASSUME NEW s \in System, NEW alert \in Alert, NEW a \in Assessment, NEW ts \in Nat
  PROVE  /\ Joined(Shown(s, alert), Decided(s, a, ts)) = Shown(s, Absorbed(alert, ts, a.score))
         /\ s = "ranked" => (Raised(Shown(s, alert), Decided(s, a, ts)) <=> Rises(alert, a.score))
<1>1. a.score \in Score /\ Score \subseteq Nat
  BY AlertsAssumption DEF Assessment, Score
<1>2. Severity(a.score) \in Nat
  BY <1>1, SeverityType
<1>3. alert.peak \in Nat /\ alert.severity \in Nat /\ alert.escalations \in Nat /\ alert.n \in Nat
  BY <1>1 DEF Alert
<1>4. Absorbed(alert, ts, a.score) \in Alert
  BY <1>1, <1>2, <1>3 DEF Absorbed, Alert, Rises, Bit
<1>5. s = "ranked" => (Raised(Shown(s, alert), Decided(s, a, ts)) <=> Rises(alert, a.score))
  BY <1>2, <1>3, ShownFields DEF Raised, Rises, Decided, Unmeasured
<1>6. s # "ranked" => ~ Raised(Shown(s, alert), Decided(s, a, ts))
  BY DEF Raised, Decided
<1>7. Joined(Shown(s, alert), Decided(s, a, ts)) = Shown(s, Absorbed(alert, ts, a.score))
  <2>1. CASE s = "ranked"
    BY <1>2, <1>3, <1>4, <1>5, <2>1, ShownFields DEF Joined, Absorbed, Decided, Bit
  <2>2. CASE s = "scored"
    BY <1>1, <1>3, <1>4, <1>6, <2>2, ShownFields DEF Joined, Absorbed, Decided, Bit
  <2>3. CASE s = "bare"
    BY <1>3, <1>4, <1>6, <2>3, ShownFields DEF Joined, Absorbed, Decided, Bit, Unmeasured
  <2> QED BY <2>1, <2>2, <2>3 DEF System
<1> QED BY <1>5, <1>7

-----------------------------------------------------------------------------
(* What a pass finds of a key is what the rule pass finds, as shown.       *)
LEMMA SameFound ==
  ASSUME TypeOK, NEW s \in System, Alike(s), NEW k \in Key
  PROVE  /\ pass[s].open[k] = Shown(s, open[k]) /\ pass[s].closed[k] = Shown(s, closed[k])
         /\ pass[s].open[k] = NoAlert <=> open[k] = NoAlert
         /\ pass[s].closed[k] = NoAlert <=> closed[k] = NoAlert
         /\ Found(pass[s], k) = Shown(s, Latest(k))
         /\ Found(pass[s], k) = NoAlert <=> Latest(k) = NoAlert
<1>1. pass[s].open[k] = Shown(s, open[k]) /\ pass[s].closed[k] = Shown(s, closed[k])
  BY DEF Alike
<1>2. open[k] \in Alert \cup {NoAlert} /\ closed[k] \in Alert \cup {NoAlert}
  BY DEF TypeOK
<1>3. \A x \in Alert \cup {NoAlert} : Shown(s, x) = NoAlert <=> x = NoAlert
  <2>1. Shown(s, NoAlert) = NoAlert
    BY DEF Shown
  <2> QED BY <2>1, ShownFields, AlertIsOne
<1> QED BY <1>1, <1>2, <1>3 DEF Found, Latest

LEMMA SameEarly ==
  ASSUME TypeOK, NEW s \in System, Alike(s), NEW k \in Key
  PROVE  Superseded(pass[s], k) = [i \in 1 .. Len(Kept(k)) |-> Shown(s, Kept(k)[i])]
<1>1. pass[s].early = [i \in 1 .. Len(early) |-> Shown(s, early[i])]
  BY DEF Alike
<1>2. CASE open[k] # NoAlert /\ closed[k] # NoAlert
  <2>1. Superseded(pass[s], k) = Append(pass[s].early, Shown(s, closed[k]))
    BY <1>2, SameFound DEF Superseded
  <2>2. Kept(k) = Append(early, closed[k])
    BY <1>2 DEF Kept
  <2>3. early \in Seq(Alert) /\ Len(early) \in Nat
    BY DEF TypeOK
  <2>4. /\ Len(Kept(k)) = Len(early) + 1
        /\ \A i \in 1 .. Len(early) : Kept(k)[i] = early[i]
        /\ Kept(k)[Len(early) + 1] = closed[k]
    BY <2>2, <2>3
  <2> DEFINE seen == [i \in 1 .. Len(early) |-> Shown(s, early[i])]
             all == [i \in 1 .. Len(Kept(k)) |-> Shown(s, Kept(k)[i])]
  <2>5. seen \in Seq({Shown(s, x) : x \in Alert}) /\ Len(seen) = Len(early)
    BY <2>3
  <2>6. Append(seen, Shown(s, closed[k])) =
          [i \in 1 .. Len(early) + 1 |-> IF i = Len(early) + 1 THEN Shown(s, closed[k]) ELSE seen[i]]
    <3> HIDE DEF seen
    <3> QED BY <2>5, <2>3
  <2>7. all = [i \in 1 .. Len(early) + 1 |-> IF i = Len(early) + 1 THEN Shown(s, closed[k]) ELSE seen[i]]
    BY <2>3, <2>4
  <2> QED BY <2>1, <2>6, <2>7, <1>1
<1>3. CASE ~ (open[k] # NoAlert /\ closed[k] # NoAlert)
  BY <1>1, <1>3, SameFound DEF Superseded, Kept
<1> QED BY <1>2, <1>3

LEMMA SameJudgement ==
  ASSUME TypeOK, Levels, NEW s \in System, Alike(s), s # "bare" \/ ~ conf.bypass,
         NEW k \in Key, NEW a \in Assessment, NEW ts \in Nat
  PROVE  LET d == Decided(s, a, ts)
         IN /\ Repeats(Found(pass[s], k), d) <=> ~ Passes(Latest(k), ts, a.score)
            /\ ~ Repeats(Found(pass[s], k), d) =>
                 (Cools(Found(pass[s], k), d) /\ News(Found(pass[s], k), d)
                    <=> Cooling(Latest(k), ts) /\ Material(Latest(k), a.score))
            /\ Claimed(pass[s].window[k], ts) = Slot(k, ts)
<1> DEFINE d == Decided(s, a, ts)
           found == Found(pass[s], k)
<1>1. d.ts = ts
  BY DEF Decided
<1>2. found = Shown(s, Latest(k)) /\ (found = NoAlert <=> Latest(k) = NoAlert)
  BY SameFound
<1>3. Latest(k) \in Alert \cup {NoAlert} /\ Level(Latest(k))
  BY DEF Latest, TypeOK, Levels
<1>4. Latest(k) \in Alert => found.last = Latest(k).last
  BY <1>2, ShownFields
<1>5. Cools(found, d) <=> Cooling(Latest(k), ts)
  BY <1>1, <1>2, <1>3, <1>4 DEF Cools, Cooling
<1>6. Latest(k) \in Alert /\ s # "bare" => (News(found, d) <=> Material(Latest(k), a.score))
  BY <1>2, <1>3, NewsIsMaterial
<1>7. Latest(k) \in Alert /\ s = "bare" => ~ News(found, d)
  BY <1>2, BareIsNeverNews
<1>8. Cooling(Latest(k), ts) => Latest(k) \in Alert
  BY <1>3 DEF Cooling
<1>9. Repeats(found, d) <=> ~ Passes(Latest(k), ts, a.score)
  BY <1>5, <1>6, <1>7, <1>8 DEF Repeats, Passes
<1>10. ~ Repeats(found, d) =>
         (Cools(found, d) /\ News(found, d)
            <=> Cooling(Latest(k), ts) /\ Material(Latest(k), a.score))
  BY <1>5, <1>6, <1>7, <1>8 DEF Repeats
<1>11. Claimed(pass[s].window[k], ts) = Slot(k, ts)
  BY DEF Claimed, Slot, Alike
<1> QED BY <1>9, <1>10, <1>11

-----------------------------------------------------------------------------
LEMMA JoinsAlike ==
  ASSUME TypeOK, NEW s \in System, Alike(s),
         NEW a \in Assessment, NEW ts \in 0 .. MaxTime, Absorb(a, ts),
         pass'[s] = Consumed(pass[s], KeyOf(a), Decided(s, a, ts))
  PROVE  Alike(s)'
<1> DEFINE k == KeyOf(a)
           d == Decided(s, a, ts)
           p == pass[s]
<1>1. k \in Key /\ ts \in Nat /\ d.ts = ts
  BY AlertsAssumption DEF KeyOf, Key, Assessment, Decided
<1>2. /\ Near(open[k], ts)
      /\ open' = [open EXCEPT ![k] = Absorbed(@, ts, a.score)]
      /\ count' = Tallied(a, "grouped", Rises(open[k], a.score))
      /\ UNCHANGED <<conf, closed, early, window>>
  BY DEF Absorb, Arrives
<1>3. open[k] \in Alert
  BY <1>1, <1>2 DEF TypeOK, Near
<1>4. p.open[k] # NoAlert /\ p.open[k] = Shown(s, open[k]) /\ p.open[k].last = open[k].last
  BY <1>1, <1>3, SameFound, ShownFields
<1>5. pass'[s] = Grouped(p, k, d)
  BY <1>1, <1>2, <1>4 DEF Consumed, Near
<1>6. /\ Joined(p.open[k], d) = Shown(s, Absorbed(open[k], ts, a.score))
      /\ s = "ranked" => (Raised(p.open[k], d) <=> Rises(open[k], a.score))
  BY <1>1, <1>3, <1>4, ShownJoined
<1>7. pass'[s] = [open |-> [p.open EXCEPT ![k] = Joined(p.open[k], d)], closed |-> p.closed,
                  early |-> p.early, window |-> p.window, grouped |-> p.grouped + 1,
                  cooldown |-> p.cooldown, limited |-> p.limited,
                  escalated |-> p.escalated + Bit(Raised(p.open[k], d))]
  BY <1>5 DEF Grouped
<1>8. [p.open EXCEPT ![k] = Joined(p.open[k], d)] = [q \in Key |-> Shown(s, open'[q])]
  BY <1>1, <1>2, <1>6 DEF Alike, TypeOK
<1>9. /\ count'.grouped = count.grouped + 1 /\ count'.cooldown = count.cooldown
      /\ count'.limited = count.limited
      /\ count'.escalated = count.escalated + Bit(Rises(open[k], a.score))
  BY <1>2 DEF Tallied, Bit, TypeOK, Tallies
<1>10. s = "ranked" => Bit(Raised(p.open[k], d)) = Bit(Rises(open[k], a.score))
  BY <1>6 DEF Bit
<1>11. pass'[s].closed = [q \in Key |-> Shown(s, closed'[q])]
  BY <1>2, <1>7 DEF Alike
<1>12. pass'[s].early = [i \in 1 .. Len(early') |-> Shown(s, early'[i])]
  BY <1>2, <1>7 DEF Alike
<1>13. /\ pass'[s].open = [q \in Key |-> Shown(s, open'[q])] /\ pass'[s].window = window'
       /\ pass'[s].grouped = count'.grouped /\ pass'[s].cooldown = count'.cooldown
       /\ pass'[s].limited = count'.limited
       /\ s = "ranked" => pass'[s].escalated = count'.escalated
  BY <1>2, <1>7, <1>8, <1>9, <1>10 DEF Alike
<1> HIDE DEF k, d, p
<1> QED BY <1>11, <1>12, <1>13 DEF Alike, Shown

(* One alert of a shown map is replaced by another.                        *)
LEMMA ShownUpdate ==
  ASSUME NEW s, NEW k \in Key, NEW f, NEW g, NEW h, NEW x, DOMAIN g = Key,
         f = [q \in Key |-> Shown(s, g[q])], h = [g EXCEPT ![k] = x]
  PROVE  [f EXCEPT ![k] = Shown(s, x)] = [q \in Key |-> Shown(s, h[q])]
<1>1. \A q \in Key : h[q] = IF q = k THEN x ELSE g[q]
  OBVIOUS
<1>2. [f EXCEPT ![k] = Shown(s, x)] = [q \in Key |-> IF q = k THEN Shown(s, x) ELSE Shown(s, g[q])]
  OBVIOUS
<1> QED BY <1>1, <1>2

LEMMA DecidesAlike ==
  ASSUME TypeOK, Levels, NEW s \in System, Alike(s), s # "bare" \/ ~ conf.bypass,
         NEW a \in Assessment, NEW ts \in 0 .. MaxTime, Decide(a, ts),
         pass'[s] = Consumed(pass[s], KeyOf(a), Decided(s, a, ts))
  PROVE  Alike(s)'
<1> DEFINE k == KeyOf(a)
           d == Decided(s, a, ts)
           p == pass[s]
           escalating == Cooling(Latest(k), ts) /\ Material(Latest(k), a.score)
<1>1. k \in Key /\ ts \in Nat /\ d.ts = ts
  BY AlertsAssumption DEF KeyOf, Key, Assessment, Decided
<1>2. ~ Near(open[k], ts) /\ early' = Kept(k) /\ UNCHANGED conf
  BY DEF Decide, Arrives
<1>3. ~ (p.open[k] # NoAlert /\ d.ts - p.open[k].last <= conf.grouping)
  <2>1. open[k] \in Alert \cup {NoAlert}
    BY <1>1 DEF TypeOK
  <2>2. open[k] \in Alert => p.open[k].last = open[k].last
    BY <1>1, SameFound, ShownFields
  <2> QED BY <1>1, <1>2, <2>1, <2>2, SameFound DEF Near
<1>4. /\ Repeats(Found(p, k), d) <=> ~ Passes(Latest(k), ts, a.score)
      /\ ~ Repeats(Found(p, k), d) =>
           (Cools(Found(p, k), d) /\ News(Found(p, k), d) <=> escalating)
      /\ Claimed(p.window[k], ts) = Slot(k, ts)
  BY <1>1, SameJudgement
<1>5. /\ Found(p, k) = Shown(s, Latest(k)) /\ (Found(p, k) = NoAlert <=> Latest(k) = NoAlert)
      /\ Latest(k) \in Alert \cup {NoAlert}
  BY <1>1, SameFound DEF Latest, TypeOK
<1>6. Superseded(p, k) = [i \in 1 .. Len(early') |-> Shown(s, early'[i])]
  BY <1>1, <1>2, SameEarly
<1>7. p.open = [q \in Key |-> Shown(s, open[q])] /\ p.closed = [q \in Key |-> Shown(s, closed[q])]
      /\ p.window = window /\ p.grouped = count.grouped
      /\ p.cooldown = count.cooldown /\ p.limited = count.limited
      /\ (s = "ranked" => p.escalated = count.escalated)
  BY DEF Alike
<1>8. /\ count.grouped \in Nat /\ count.cooldown \in Nat /\ count.limited \in Nat
      /\ count.escalated \in Nat
  BY DEF TypeOK, Tallies
<1>9. DOMAIN open = Key /\ DOMAIN closed = Key
  BY DEF TypeOK
<1>10. Shown(s, NoAlert) = NoAlert
  BY DEF Shown
<1>11. Tolled(Found(p, k)) = Shown(s, Tally(k, ts, a.score))
  <2>1. CASE Latest(k) = NoAlert
    BY <1>5, <1>10, <2>1 DEF Tally, Tolled
  <2>2. CASE Latest(k) \in Alert
    <3>1. Tolled(Shown(s, Latest(k))) = Shown(s, [Latest(k) EXCEPT !.suppressed = @ + 1])
      BY <2>2, ShownTolled
    <3> QED BY <1>5, <2>2, <3>1, AlertIsOne DEF Tally
  <2> QED BY <1>5, <2>1, <2>2
<1>12. ASSUME NEW reason \in {"cooldown", "limit"}, pass'[s] = Suppressed(p, k, reason),
              open' = [open EXCEPT ![k] = NoAlert],
              closed' = [closed EXCEPT ![k] = Tally(k, ts, a.score)],
              count' = Tallied(a, reason, FALSE), UNCHANGED window
       PROVE  Alike(s)'
  <2>1. pass'[s] = [open |-> [p.open EXCEPT ![k] = NoAlert],
                    closed |-> [p.closed EXCEPT ![k] = Shown(s, Tally(k, ts, a.score))],
                    early |-> Superseded(p, k), window |-> p.window, grouped |-> p.grouped,
                    cooldown |-> p.cooldown + Bit(reason = "cooldown"),
                    limited |-> p.limited + Bit(reason = "limit"), escalated |-> p.escalated]
    BY <1>12, <1>11 DEF Suppressed
  <2>2. /\ [p.open EXCEPT ![k] = NoAlert] = [q \in Key |-> Shown(s, open'[q])]
        /\ [p.closed EXCEPT ![k] = Shown(s, Tally(k, ts, a.score))]
             = [q \in Key |-> Shown(s, closed'[q])]
    <3>1. [p.open EXCEPT ![k] = Shown(s, NoAlert)] = [q \in Key |-> Shown(s, open'[q])]
      BY <1>1, <1>7, <1>9, <1>12, ShownUpdate
    <3>2. [p.closed EXCEPT ![k] = Shown(s, Tally(k, ts, a.score))]
            = [q \in Key |-> Shown(s, closed'[q])]
      BY <1>1, <1>7, <1>9, <1>12, ShownUpdate
    <3> QED BY <3>1, <3>2, <1>10
  <2>3. /\ count'.grouped = count.grouped /\ count'.escalated = count.escalated
        /\ count'.cooldown = count.cooldown + Bit(reason = "cooldown")
        /\ count'.limited = count.limited + Bit(reason = "limit")
    BY <1>8, <1>12 DEF Tallied, Bit
  <2>4. /\ pass'[s].open = [q \in Key |-> Shown(s, open'[q])]
        /\ pass'[s].closed = [q \in Key |-> Shown(s, closed'[q])]
        /\ pass'[s].early = [i \in 1 .. Len(early') |-> Shown(s, early'[i])]
    BY <1>6, <2>1, <2>2
  <2>5. /\ pass'[s].window = window'
        /\ pass'[s].grouped = count'.grouped /\ pass'[s].cooldown = count'.cooldown
        /\ pass'[s].limited = count'.limited
        /\ s = "ranked" => pass'[s].escalated = count'.escalated
    <3>1. pass'[s].window = p.window /\ window' = window
      BY <1>12, <2>1
    <3>2. /\ pass'[s].grouped = p.grouped /\ pass'[s].escalated = p.escalated
          /\ pass'[s].cooldown = p.cooldown + Bit(reason = "cooldown")
          /\ pass'[s].limited = p.limited + Bit(reason = "limit")
      BY <2>1
    <3> HIDE DEF p, k, d
    <3> QED BY <3>1, <3>2, <1>7, <2>3
  <2> QED BY <2>4, <2>5 DEF Alike, Shown
<1>13. CASE ~ Passes(Latest(k), ts, a.score)
  BY <1>1, <1>3, <1>4, <1>12, <1>13 DEF Decide, Consumed
<1>14. CASE Passes(Latest(k), ts, a.score) /\ Slot(k, ts).count > conf.limit
  <2>1. pass'[s] = Suppressed(p, k, "limit")
    BY <1>1, <1>3, <1>4, <1>14 DEF Consumed
  <2>2. ~ (Slot(k, ts).count <= conf.limit)
    BY <1>14, <1>1, AlertsAssumption DEF Slot, TypeOK
  <2> QED BY <1>12, <1>14, <2>1, <2>2 DEF Decide
<1>15. CASE Passes(Latest(k), ts, a.score) /\ ~ (Slot(k, ts).count > conf.limit)
  <2>1. pass'[s] = Started(p, k, d)
    BY <1>1, <1>3, <1>4, <1>15 DEF Consumed
  <2>2. /\ open' = [open EXCEPT ![k] = Opened(k, ts, a.score)]
        /\ closed' = [closed EXCEPT ![k] = Latest(k)]
        /\ count' = Tallied(a, "grouped", escalating)
        /\ window' = [window EXCEPT ![k] = Slot(k, ts)]
    BY <1>15 DEF Decide
  <2>3. Begun(k, d) = Shown(s, Opened(k, ts, a.score))
    <3>1. a.score \in Score /\ Severity(a.score) \in Nat
      BY SeverityType DEF Assessment
    <3>2. Opened(k, ts, a.score) \in Alert
      BY <1>1, <3>1 DEF Opened, Alert
    <3> QED BY <3>2, ShownFields DEF Begun, Opened, Decided
  <2>4. pass'[s] = [open |-> [p.open EXCEPT ![k] = Begun(k, d)],
                    closed |-> [p.closed EXCEPT ![k] = Found(p, k)],
                    early |-> Superseded(p, k),
                    window |-> [p.window EXCEPT ![k] = Claimed(p.window[k], ts)],
                    grouped |-> p.grouped + 1, cooldown |-> p.cooldown, limited |-> p.limited,
                    escalated |->
                      p.escalated + Bit(Cools(Found(p, k), d) /\ News(Found(p, k), d))]
    BY <1>1, <2>1 DEF Started
  <2>5. /\ [p.open EXCEPT ![k] = Begun(k, d)] = [q \in Key |-> Shown(s, open'[q])]
        /\ [p.closed EXCEPT ![k] = Found(p, k)] = [q \in Key |-> Shown(s, closed'[q])]
    <3>1. [p.open EXCEPT ![k] = Shown(s, Opened(k, ts, a.score))]
            = [q \in Key |-> Shown(s, open'[q])]
      BY <1>1, <1>7, <1>9, <2>2, ShownUpdate
    <3>2. [p.closed EXCEPT ![k] = Shown(s, Latest(k))] = [q \in Key |-> Shown(s, closed'[q])]
      BY <1>1, <1>7, <1>9, <2>2, ShownUpdate
    <3> QED BY <3>1, <3>2, <1>5, <2>3
  <2>6. /\ count'.grouped = count.grouped + 1 /\ count'.cooldown = count.cooldown
        /\ count'.limited = count.limited
        /\ count'.escalated = count.escalated + Bit(escalating)
    BY <1>8, <2>2 DEF Tallied, Bit
  <2>7. [p.window EXCEPT ![k] = Claimed(p.window[k], ts)] = window'
    BY <1>4, <1>7, <2>2
  <2>8. Bit(Cools(Found(p, k), d) /\ News(Found(p, k), d)) = Bit(escalating)
    BY <1>4, <1>15 DEF Bit
  <2>9. /\ pass'[s].open = [q \in Key |-> Shown(s, open'[q])]
        /\ pass'[s].closed = [q \in Key |-> Shown(s, closed'[q])]
        /\ pass'[s].early = [i \in 1 .. Len(early') |-> Shown(s, early'[i])]
    BY <1>6, <2>4, <2>5
  <2>10. /\ pass'[s].window = window'
         /\ pass'[s].grouped = count'.grouped /\ pass'[s].cooldown = count'.cooldown
         /\ pass'[s].limited = count'.limited
         /\ s = "ranked" => pass'[s].escalated = count'.escalated
    BY <1>7, <2>4, <2>6, <2>7, <2>8
  <2> QED BY <2>9, <2>10 DEF Alike, Shown
<1> QED BY <1>13, <1>14, <1>15

-----------------------------------------------------------------------------
(* The comparison only watches the rule pass.                              *)
LEMMA ComparisonRefinesInit == ComparisonInit => Init
BY DEF ComparisonInit

LEMMA ComparisonRefinesStep == [ComparisonNext]_comparison => [Next]_vars
BY DEF ComparisonNext, Next, comparison, vars

(* Whatever is shown of the rule pass under a comparison is shown of it    *)
(* alone, and its results are never refused.                               *)
THEOREM ComparisonWatches == ComparisonSpec => Spec /\ []TypeOK
<1>1. ComparisonSpec => Spec
  BY ComparisonRefinesInit, ComparisonRefinesStep, PTL DEF ComparisonSpec, Spec
<1> QED BY <1>1, TypeCorrect, PTL

LEMMA CInit == ComparisonInit => CInv
<1> SUFFICES ASSUME ComparisonInit PROVE CInv OBVIOUS
<1>1. /\ open = [k \in Key |-> NoAlert] /\ closed = [k \in Key |-> NoAlert] /\ early = <<>>
      /\ window = [k \in Key |-> NoWindow] /\ count.grouped = 0 /\ count.cooldown = 0
      /\ count.limited = 0 /\ count.escalated = 0
  BY DEF ComparisonInit, Init
<1>2. Levels
  BY <1>1 DEF Levels, Level
<1>3. ASSUME NEW s \in System PROVE Alike(s)
  <2>1. pass[s] = [open |-> [k \in Key |-> NoAlert], closed |-> [k \in Key |-> NoAlert],
                   early |-> <<>>, window |-> [k \in Key |-> NoWindow],
                   grouped |-> 0, cooldown |-> 0, limited |-> 0, escalated |-> 0]
    BY DEF ComparisonInit
  <2>2. Shown(s, NoAlert) = NoAlert
    BY DEF Shown
  <2>3. pass[s].early = [i \in 1 .. Len(early) |-> Shown(s, early[i])]
    BY <1>1, <2>1
  <2>4. /\ pass[s].open = [k \in Key |-> Shown(s, open[k])]
        /\ pass[s].closed = [k \in Key |-> Shown(s, closed[k])]
    BY <1>1, <2>1, <2>2
  <2> QED BY <1>1, <2>1, <2>3, <2>4 DEF Alike
<1> QED BY <1>2, <1>3 DEF CInv, ComparedAlike

(* Nothing a pass has counterparts of changes.                             *)
LEMMA StaysAlike ==
  ASSUME NEW s \in System, Alike(s),
         UNCHANGED <<pass, open, closed, early, window>>,
         /\ count'.grouped = count.grouped /\ count'.cooldown = count.cooldown
         /\ count'.limited = count.limited /\ count'.escalated = count.escalated
  PROVE  Alike(s)'
BY DEF Alike, Shown

LEMMA CStep ==
  ASSUME TypeOK, CInv, [ComparisonNext]_comparison
  PROVE  CInv'
<1>1. Levels'
  BY LevelsStep, ComparisonRefinesStep DEF CInv
<1>2. SUFFICES ASSUME NEW s \in System, (s # "bare" \/ ~ conf.bypass)' PROVE Alike(s)'
  BY <1>1 DEF CInv, ComparedAlike
<1>3. conf' = conf
  <2>1. ASSUME NEW a \in Assessment, NEW ts \in 0 .. MaxTime,
               Ignore(a, ts) \/ RefuseUnscoped(a, ts) \/ Absorb(a, ts) \/ Decide(a, ts)
        PROVE  conf' = conf
    <3>1. Arrives(ts)
      BY <2>1 DEF Ignore, RefuseUnscoped, Absorb, Decide
    <3> QED BY <3>1 DEF Arrives
  <2>2. Finish => conf' = conf
    BY DEF Finish
  <2>3. UNCHANGED comparison => conf' = conf
    BY DEF comparison
  <2> QED BY <2>1, <2>2, <2>3 DEF ComparisonNext
<1>4. (s # "bare" \/ ~ conf.bypass) /\ Alike(s) /\ Levels
  BY <1>2, <1>3 DEF CInv, ComparedAlike
<1>5. ASSUME NEW a \in Assessment, NEW ts \in 0 .. MaxTime, Ignore(a, ts), UNCHANGED pass
      PROVE  Alike(s)'
  <2>1. /\ count'.grouped = count.grouped /\ count'.cooldown = count.cooldown
        /\ count'.limited = count.limited /\ count'.escalated = count.escalated
    BY <1>5 DEF Ignore, Tallied, Bit, TypeOK, Tallies
  <2> QED BY <1>4, <1>5, <2>1, StaysAlike DEF Ignore
<1>6. ASSUME NEW a \in Assessment, NEW ts \in 0 .. MaxTime, RefuseUnscoped(a, ts), UNCHANGED pass
      PROVE  Alike(s)'
  BY <1>4, <1>6, StaysAlike DEF RefuseUnscoped
<1>7. ASSUME NEW a \in Assessment, NEW ts \in 0 .. MaxTime, Absorb(a, ts), Compare(a, ts)
      PROVE  Alike(s)'
  BY <1>4, <1>7, JoinsAlike DEF Compare
<1>8. ASSUME NEW a \in Assessment, NEW ts \in 0 .. MaxTime, Decide(a, ts), Compare(a, ts)
      PROVE  Alike(s)'
  BY <1>4, <1>8, DecidesAlike DEF Compare
<1>9. CASE Finish /\ UNCHANGED pass
  BY <1>4, <1>9, StaysAlike DEF Finish
<1>10. CASE UNCHANGED comparison
  BY <1>4, <1>10, StaysAlike DEF comparison
<1> QED BY <1>5, <1>6, <1>7, <1>8, <1>9, <1>10 DEF ComparisonNext

(* "The temporal semantics are Phase 4's, exactly": the alerts of every    *)
(* compared system are, at every moment, the rule pass's alerts as far as  *)
(* that system's evidence shows them, with the same windows and counts.    *)
THEOREM PhaseFourSemantics == ComparisonSpec => []ComparedAlike
<1>1. CInv => ComparedAlike
  BY DEF CInv
<1>2. TypeOK /\ CInv /\ [ComparisonNext]_comparison => CInv'
  BY CStep
<1> QED BY CInit, ComparisonWatches, <1>1, <1>2, PTL DEF ComparisonSpec

-----------------------------------------------------------------------------
(* Thousandths.                                                            *)
Unit == 0 .. 1000

LEMMA Products ==
  /\ \A a, x \in Nat : a * x \in Nat
  /\ \A a, b, x, y \in Nat : a <= b /\ x <= y => a * x <= b * y
<1>1. \A a, x \in Nat : a * x \in Nat
  OBVIOUS
<1>2. ASSUME NEW a \in Nat, NEW b \in Nat, NEW x \in Nat, NEW y \in Nat, a <= b, x <= y
      PROVE  a * x <= b * y
  <2>1. (b - a) \in Nat /\ (y - x) \in Nat
    BY <1>2
  <2>2. (b - a) * x \in Nat /\ b * (y - x) \in Nat
    BY <2>1, <1>1
  <2>3. b * y = a * x + (b - a) * x + b * (y - x)
    OBVIOUS
  <2>4. a * x \in Nat /\ b * y \in Nat
    BY <1>1
  <2> QED BY <2>2, <2>3, <2>4
<1> QED BY <1>1, <1>2

LEMMA Thousandths ==
  /\ \A p \in Nat : p \div 1000 \in Nat /\ p \div 1000 <= p
  /\ \A p, q \in Nat : p <= q => p \div 1000 <= q \div 1000
  /\ \A n \in Nat : (n * 1000) \div 1000 = n
  OBVIOUS

(* Taking a part leaves no more, and the less the larger the part.         *)
LEMMA WithoutFacts ==
  /\ \A r \in Nat, c \in Unit : Without(r, c) \in Nat /\ Without(r, c) <= r
  /\ \A r, s \in Nat, c, d \in Unit : r <= s /\ d <= c => Without(r, c) <= Without(s, d)
<1>1. ASSUME NEW r \in Nat, NEW c \in Unit PROVE Without(r, c) \in Nat /\ Without(r, c) <= r
  <2>1. 1000 - c \in Nat /\ 1000 - c <= 1000
    BY DEF Unit
  <2>2. r * (1000 - c) \in Nat /\ r * (1000 - c) <= r * 1000
    BY <2>1, Products
  <2>3. (r * (1000 - c)) \div 1000 <= (r * 1000) \div 1000 /\ (r * 1000) \div 1000 = r
    BY <2>2, Thousandths
  <2>4. (r * (1000 - c)) \div 1000 \in Nat
    BY <2>2, Thousandths
  <2> QED BY <2>3, <2>4 DEF Without
<1>2. ASSUME NEW r \in Nat, NEW s \in Nat, NEW c \in Unit, NEW d \in Unit, r <= s, d <= c
      PROVE  Without(r, c) <= Without(s, d)
  <2>1. 1000 - c \in Nat /\ 1000 - d \in Nat /\ 1000 - c <= 1000 - d
    BY <1>2 DEF Unit
  <2>2. r * (1000 - c) \in Nat /\ s * (1000 - d) \in Nat /\ r * (1000 - c) <= s * (1000 - d)
    BY <1>2, <2>1, Products
  <2> QED BY <2>2, Thousandths DEF Without
<1> QED BY <1>1, <1>2

-----------------------------------------------------------------------------
(* What remains of a whole after the parts: g tells it after each.         *)
Rests(whole, parts, m, g) ==
  /\ g \in [0 .. m -> Nat] /\ g[0] = whole
  /\ \A i \in 1 .. m : g[i] = Without(g[i - 1], parts[i])

(* There is such a g.                                                      *)
LEMMA RestsExist ==
  ASSUME NEW whole \in Nat, NEW n \in Nat, NEW parts \in [1 .. n -> Unit], NEW m \in 0 .. n
  PROVE  \E g : Rests(whole, parts, m, g)
<1> DEFINE Bad == {i \in 0 .. n : ~ \E g : Rests(whole, parts, i, g)}
<1>1. CASE Bad = {}
  BY <1>1
<1>2. CASE Bad # {}
  <2>1. PICK l \in Bad : \A i \in Bad : l <= i
    <3>1. Bad \in SUBSET Nat
      OBVIOUS
    <3> HIDE DEF Bad
    <3> QED BY <1>2, <3>1, LeastNatural
  <2>2. l # 0
    <3> DEFINE g == [i \in 0 .. 0 |-> whole]
    <3>1. Rests(whole, parts, 0, g)
      BY DEF Rests
    <3> HIDE DEF g
    <3> QED BY <2>1, <3>1
  <2>3. l \in 1 .. n /\ l - 1 \in 0 .. n /\ l - 1 < l
    BY <2>1, <2>2
  <2>4. PICK g : Rests(whole, parts, l - 1, g)
    <3>1. l - 1 \notin Bad
      BY <2>1, <2>3
    <3> QED BY <2>3, <3>1
  <2> DEFINE h == [i \in 0 .. l |-> IF i = l THEN Without(g[l - 1], parts[l]) ELSE g[i]]
  <2>5. g[l - 1] \in Nat /\ parts[l] \in Unit
    BY <2>3, <2>4 DEF Rests
  <2>6. Without(g[l - 1], parts[l]) \in Nat
    BY <2>5, WithoutFacts
  <2>7. h \in [0 .. l -> Nat]
    BY <2>3, <2>4, <2>6 DEF Rests
  <2>8. h[0] = whole
    BY <2>3, <2>4 DEF Rests
  <2>9. ASSUME NEW i \in 1 .. l PROVE h[i] = Without(h[i - 1], parts[i])
    <3>1. CASE i = l
      BY <2>3, <3>1
    <3>2. CASE i # l
      <4>1. i \in 1 .. l - 1 /\ i \in 0 .. l /\ i - 1 \in 0 .. l /\ i - 1 # l
        BY <2>3, <3>2
      <4>2. g[i] = Without(g[i - 1], parts[i])
        BY <2>4, <4>1 DEF Rests
      <4> QED BY <3>2, <4>1, <4>2
    <3> QED BY <3>1, <3>2
  <2> HIDE DEF h
  <2>10. Rests(whole, parts, l, h)
    BY <2>7, <2>8, <2>9 DEF Rests
  <2> QED BY <2>1, <2>10
<1> QED BY <1>1, <1>2

(* Remaining is what g tells at the end.                                   *)
LEMMA RemainingIs ==
  ASSUME NEW whole \in Nat, NEW n \in Nat, NEW parts \in [1 .. n -> Unit]
  PROVE  \E g : Rests(whole, parts, n, g) /\ Remaining(whole, parts) = g[n]
<1>1. Len(parts) = n
  OBVIOUS
<1>2. PICK g : Rests(whole, parts, n, g)
  BY RestsExist
<1> DEFINE Keeps(f) == f = [i \in 0 .. Len(parts) |->
                              IF i = 0 THEN whole ELSE Without(f[i - 1], parts[i])]
           rest == CHOOSE f : Keeps(f)
<1>3. Remaining(whole, parts) = rest[n]
  BY <1>1 DEF Remaining
<1>4. Keeps(g)
  <2>1. g = [i \in 0 .. n |-> g[i]]
    BY <1>2 DEF Rests
  <2>2. \A i \in 0 .. n : i # 0 => i \in 1 .. n
    OBVIOUS
  <2>3. \A i \in 0 .. n : g[i] = IF i = 0 THEN whole ELSE Without(g[i - 1], parts[i])
    BY <1>2, <2>2 DEF Rests
  <2> QED BY <1>1, <2>1, <2>3
<1>5. Keeps(rest)
  <2> HIDE DEF Keeps
  <2> QED BY <1>4
<1> HIDE DEF rest
<1>6. rest[0] = whole /\ DOMAIN rest = 0 .. n
  BY <1>1, <1>5
<1>7. ASSUME NEW i \in 1 .. n PROVE rest[i] = Without(rest[i - 1], parts[i])
  BY <1>1, <1>5
<1> DEFINE Off == {i \in 0 .. n : rest[i] # g[i]}
<1>8. Off = {}
  <2> SUFFICES ASSUME Off # {} PROVE FALSE
    OBVIOUS
  <2>1. PICK l \in Off : \A i \in Off : l <= i
    <3>1. Off \in SUBSET Nat
      OBVIOUS
    <3> HIDE DEF Off
    <3> QED BY <3>1, LeastNatural
  <2>2. l # 0
    BY <1>2, <1>6, <2>1 DEF Rests
  <2>3. l \in 1 .. n /\ l - 1 \in 0 .. n /\ l - 1 < l
    BY <2>1, <2>2
  <2>4. rest[l - 1] = g[l - 1]
    BY <2>1, <2>3
  <2>5. rest[l] = Without(rest[l - 1], parts[l]) /\ g[l] = Without(g[l - 1], parts[l])
    BY <1>2, <1>7, <2>3 DEF Rests
  <2> QED BY <2>1, <2>4, <2>5
<1>9. rest[n] = g[n]
  BY <1>8
<1> QED BY <1>2, <1>3, <1>9

(* Taking more leaves less, and never less than nothing.                   *)
Under(n, less, parts) ==
  /\ less \in [1 .. n -> Unit] /\ parts \in [1 .. n -> Unit]
  /\ \A i \in 1 .. n : less[i] <= parts[i]

(* What remains is within the whole, and more of it after smaller parts.   *)
LEMMA RemainingFacts ==
  ASSUME NEW whole \in Nat, NEW n \in Nat, NEW parts, NEW less, Under(n, less, parts)
  PROVE  /\ Remaining(whole, parts) \in 0 .. whole
         /\ Remaining(whole, parts) <= Remaining(whole, less)
<1>0. /\ less \in [1 .. n -> Unit] /\ parts \in [1 .. n -> Unit]
      /\ \A i \in 1 .. n : less[i] <= parts[i]
  BY DEF Under
<1>1. PICK g : Rests(whole, parts, n, g) /\ Remaining(whole, parts) = g[n]
  BY <1>0, RemainingIs
<1>2. PICK h : Rests(whole, less, n, h) /\ Remaining(whole, less) = h[n]
  BY <1>0, RemainingIs
<1> DEFINE Bad == {i \in 0 .. n : ~ (g[i] \in 0 .. whole /\ g[i] <= h[i])}
<1>3. Bad = {}
  <2> SUFFICES ASSUME Bad # {} PROVE FALSE
    OBVIOUS
  <2>1. PICK l \in Bad : \A i \in Bad : l <= i
    <3>1. Bad \in SUBSET Nat
      OBVIOUS
    <3> HIDE DEF Bad
    <3> QED BY <3>1, LeastNatural
  <2>2. l # 0
    BY <1>1, <1>2, <2>1 DEF Rests
  <2>3. l \in 1 .. n /\ l - 1 \in 0 .. n /\ l - 1 < l
    BY <2>1, <2>2
  <2>4. g[l - 1] \in 0 .. whole /\ g[l - 1] <= h[l - 1] /\ h[l - 1] \in Nat
    BY <1>2, <2>1, <2>3 DEF Rests
  <2>5. g[l] = Without(g[l - 1], parts[l]) /\ h[l] = Without(h[l - 1], less[l])
    BY <1>1, <1>2, <2>3 DEF Rests
  <2>6. parts[l] \in Unit /\ less[l] \in Unit /\ less[l] <= parts[l]
    BY <1>0, <2>3
  <2> DEFINE a == g[l - 1]
             b == h[l - 1]
             c == parts[l]
             d == less[l]
  <2>7. a \in Nat /\ b \in Nat /\ a <= b /\ a <= whole /\ c \in Unit /\ d \in Unit /\ d <= c
    BY <2>4, <2>6
  <2>8. g[l] = Without(a, c) /\ h[l] = Without(b, d)
    BY <2>5
  <2> HIDE DEF a, b, c, d
  <2>9. Without(a, c) \in Nat /\ Without(a, c) <= a /\ Without(a, c) <= Without(b, d)
    BY <2>7, WithoutFacts
  <2>10. g[l] \in 0 .. whole /\ g[l] <= h[l]
    BY <2>7, <2>8, <2>9
  <2> QED BY <2>1, <2>10
<1>4. n \in 0 .. n
  OBVIOUS
<1>5. g[n] \in 0 .. whole /\ g[n] <= h[n]
  BY <1>3, <1>4
<1> QED BY <1>1, <1>2, <1>5

LEMMA UnderSelf ==
  ASSUME NEW n, NEW parts, NEW less, Under(n, less, parts)
  PROVE  Under(n, less, less)
<1>1. less \in [1 .. n -> Unit]
  BY DEF Under
<1>2. ASSUME NEW i \in 1 .. n PROVE less[i] <= less[i]
  <2>1. less[i] \in Unit
    BY <1>1
  <2>2. \A x \in Unit : x <= x
    BY DEF Unit
  <2> QED BY <2>1, <2>2
<1> QED BY <1>1, <1>2 DEF Under

-----------------------------------------------------------------------------
(* The catalog.                                                            *)
Rule == {BF1, BF2, PS1, CS1, DBF1, ATO1, GEO1, BOT1, MFA1}

(* Nine places, each rule at one.                                          *)
LEMMA CatalogFacts ==
  /\ Len(CatalogOrder) = 9 /\ DOMAIN CatalogOrder = 1 .. 9 /\ Catalog = Rule
  /\ \A i \in 1 .. 9 : CatalogOrder[i] \in Catalog
  /\ \A r \in Catalog : \E i \in 1 .. 9 : CatalogOrder[i] = r
<1>1. /\ CatalogOrder[1] = ATO1 /\ CatalogOrder[2] = BF1 /\ CatalogOrder[3] = BF2
      /\ CatalogOrder[4] = BOT1 /\ CatalogOrder[5] = CS1 /\ CatalogOrder[6] = DBF1
      /\ CatalogOrder[7] = GEO1 /\ CatalogOrder[8] = MFA1 /\ CatalogOrder[9] = PS1
      /\ Len(CatalogOrder) = 9 /\ DOMAIN CatalogOrder = 1 .. 9
  BY DEF CatalogOrder
<1>2. 1 .. 9 = {1, 2, 3, 4, 5, 6, 7, 8, 9}
  OBVIOUS
<1>3. \A i \in 1 .. 9 : CatalogOrder[i] \in Catalog
  BY DEF Catalog
<1>4. \A r \in Catalog : \E i \in 1 .. 9 : CatalogOrder[i] = r
  BY DEF Catalog
<1>5. \A r \in Catalog : r \in Rule
  <2> SUFFICES ASSUME NEW i \in {1, 2, 3, 4, 5, 6, 7, 8, 9} PROVE CatalogOrder[i] \in Rule
    BY <1>2 DEF Catalog
  <2> QED BY <1>1 DEF Rule
<1>6. \A r \in Rule : r \in Catalog
  BY <1>1, <1>3, <1>2 DEF Rule
<1> QED BY <1>1, <1>3, <1>4, <1>5, <1>6

(* What the catalog gives its rules.                                       *)
LEMMA RuleFacts ==
  \A r \in Rule :
    /\ r.weight \in 700 .. 950 /\ r.severity \in 1 .. 3
    /\ r.group \in {"automation", "guessing", "movement", "session", "fanout"}
<1>1. BF1.weight = 900 /\ BF1.severity = 2 /\ BF1.group = "guessing"
  BY DEF BF1
<1>2. BF2.weight = 900 /\ BF2.severity = 2 /\ BF2.group = "guessing"
  BY DEF BF2
<1>3. PS1.weight = 850 /\ PS1.severity = 2 /\ PS1.group = "fanout"
  BY DEF PS1
<1>4. CS1.weight = 850 /\ CS1.severity = 2 /\ CS1.group = "fanout"
  BY DEF CS1
<1>5. DBF1.weight = 900 /\ DBF1.severity = 3 /\ DBF1.group = "guessing"
  BY DEF DBF1
<1>6. ATO1.weight = 950 /\ ATO1.severity = 3 /\ ATO1.group = "session"
  BY DEF ATO1
<1>7. GEO1.weight = 800 /\ GEO1.severity = 2 /\ GEO1.group = "movement"
  BY DEF GEO1
<1>8. BOT1.weight = 700 /\ BOT1.severity = 1 /\ BOT1.group = "automation"
  BY DEF BOT1
<1>9. MFA1.weight = 950 /\ MFA1.severity = 1 /\ MFA1.group = "session"
  BY DEF MFA1
<1> QED BY <1>1, <1>2, <1>3, <1>4, <1>5, <1>6, <1>7, <1>8, <1>9 DEF Rule

LEMMA IdsDiffer ==
  /\ BF1.id = "PAD-BF-001" /\ BF2.id = "PAD-BF-002" /\ PS1.id = "PAD-PS-001"
  /\ CS1.id = "PAD-CS-001" /\ DBF1.id = "PAD-DBF-001" /\ ATO1.id = "PAD-ATO-001"
  /\ GEO1.id = "PAD-GEO-001" /\ BOT1.id = "PAD-BOT-001" /\ MFA1.id = "PAD-MFA-001"
<1>1. BF1.id = "PAD-BF-001" /\ BF2.id = "PAD-BF-002" /\ PS1.id = "PAD-PS-001"
  BY DEF BF1, BF2, PS1
<1>2. CS1.id = "PAD-CS-001" /\ DBF1.id = "PAD-DBF-001" /\ ATO1.id = "PAD-ATO-001"
  BY DEF CS1, DBF1, ATO1
<1>3. GEO1.id = "PAD-GEO-001" /\ BOT1.id = "PAD-BOT-001" /\ MFA1.id = "PAD-MFA-001"
  BY DEF GEO1, BOT1, MFA1
<1> QED BY <1>1, <1>2, <1>3

(* Max of a bounded set of numbers is its greatest.                        *)
LEMMA MaxIs ==
  ASSUME NEW N \in Nat, NEW S, S \subseteq 0 .. N, S # {}
  PROVE  Max(S) \in S /\ \A x \in S : x <= Max(S)
<1> DEFINE T == {n \in 0 .. N : N - n \in S}
<1>1. T \in SUBSET Nat /\ T # {}
  <2>1. PICK x \in S : TRUE
    OBVIOUS
  <2>2. N - x \in 0 .. N /\ N - (N - x) = x
    BY <2>1
  <2>3. N - x \in T
    BY <2>1, <2>2
  <2>4. T \in SUBSET Nat
    OBVIOUS
  <2> HIDE DEF T
  <2> QED BY <2>3, <2>4
<1>2. PICK m \in T : \A n \in T : m <= n
  <2> HIDE DEF T
  <2> QED BY <1>1, LeastNatural
<1>3. N - m \in S
  BY <1>2
<1>4. ASSUME NEW x \in S PROVE x <= N - m
  <2>1. N - x \in 0 .. N /\ N - (N - x) = x /\ x \in Nat
    BY <1>4
  <2>2. N - x \in T
    BY <2>1
  <2>3. m <= N - x /\ m \in Nat
    BY <1>2, <2>2
  <2> QED BY <2>1, <2>3
<1>5. \A x \in S : N - m >= x
  BY <1>3, <1>4
<1>6. Max(S) \in S /\ \A x \in S : Max(S) >= x
  <2> DEFINE q == N - m
  <2>1. q \in S /\ \A x \in S : q >= x
    BY <1>3, <1>5
  <2> HIDE DEF q
  <2> QED BY <2>1 DEF Max
<1> QED BY <1>6

LEMMA UnitMax ==
  ASSUME NEW S, S \subseteq Unit, S # {}
  PROVE  Max(S) \in S /\ \A x \in S : x <= Max(S)
<1>1. PICK N : N = 1000
  OBVIOUS
<1>2. N \in Nat /\ S \subseteq 0 .. N
  BY <1>1 DEF Unit
<1> QED BY <1>2, MaxIs

-----------------------------------------------------------------------------
(* The score of what is kept: a strength of each rule that fired.          *)
Strong == 150 .. 1000
Strengths(K) ==
  /\ K = [r \in DOMAIN K |-> K[r]] /\ DOMAIN K \subseteq Rule
  /\ \A r \in DOMAIN K : K[r] \in Strong

(* A contribution is at most a thousand.                                   *)
LEMMA ContributionFacts ==
  ASSUME NEW r \in Rule, NEW k \in Strong
  PROVE  Contribution(r, k) \in Unit
<1> DEFINE w == r.weight
<1>1. w \in 700 .. 950
  BY RuleFacts
<1> HIDE DEF w
<1>2. w \in Nat /\ k \in Nat /\ 700 <= w /\ 150 <= k /\ w <= 1000 /\ k <= 1000
  BY <1>1 DEF Strong
<1>3. 700 * 150 <= w * k /\ w * k <= 1000 * 1000 /\ w * k \in Nat
  BY <1>2, Products
<1> DEFINE p == w * k
<1>4. p \in Nat /\ 105000 <= p /\ p <= 1000000
  BY <1>3
<1> HIDE DEF p
<1>5. p \div 1000 \in Unit
  BY <1>4 DEF Unit
<1> QED BY <1>5 DEF p, w, Contribution

(* So is that of every rule that is kept.                                  *)
LEMMA KeptContribution ==
  ASSUME NEW K, Strengths(K), NEW x \in DOMAIN K
  PROVE  x \in Rule /\ Contribution(x, K[x]) \in Unit
<1> DEFINE k == K[x]
<1>1. x \in Rule /\ k \in Strong
  BY DEF Strengths
<1> HIDE DEF k
<1>2. Contribution(x, k) \in Unit
  BY <1>1, ContributionFacts
<1> QED BY <1>1, <1>2 DEF k

(* A group's parts: the contribution of its rules that are kept.           *)
LEMMA PartFacts ==
  ASSUME NEW K, Strengths(K), NEW group
  PROVE  /\ PartsIn(group, K) \in [1 .. 9 -> Unit]
         /\ \A i \in 1 .. 9 :
              PartsIn(group, K)[i] = IF CatalogOrder[i].group = group /\ CatalogOrder[i] \in DOMAIN K
                                     THEN Contribution(CatalogOrder[i], K[CatalogOrder[i]]) ELSE 0
<1>0. ASSUME NEW x \in DOMAIN K PROVE Contribution(x, K[x]) \in Unit
  BY KeptContribution
<1>1. ASSUME NEW i \in 1 .. 9
      PROVE  /\ PartsIn(group, K)[i] = IF CatalogOrder[i].group = group /\ CatalogOrder[i] \in DOMAIN K
                                       THEN Contribution(CatalogOrder[i], K[CatalogOrder[i]]) ELSE 0
             /\ PartsIn(group, K)[i] \in Unit
  <2> DEFINE r == CatalogOrder[i]
  <2>1. r \in DOMAIN K => Contribution(r, K[r]) \in Unit
    BY <1>0
  <2>2. PartsIn(group, K)[i] = IF r.group = group THEN PartOf(K, r) ELSE 0
    BY DEF PartsIn
  <2> HIDE DEF r
  <2>3. PartsIn(group, K)[i] = IF r.group = group /\ r \in DOMAIN K THEN Contribution(r, K[r]) ELSE 0
    BY <2>2 DEF PartOf
  <2>4. PartsIn(group, K)[i] \in Unit
    BY <2>1, <2>3 DEF Unit
  <2> QED BY <2>3, <2>4 DEF r
<1>2. PartsIn(group, K) \in [1 .. 9 -> Unit]
  <2>1. PartsIn(group, K) = [i \in 1 .. 9 |-> PartsIn(group, K)[i]]
    BY DEF PartsIn
  <2> QED BY <1>1, <2>1
<1> QED BY <1>1, <1>2

(* Either reducer stays below a thousand and grows with the parts.         *)
LEMMA ReducedFacts ==
  ASSUME NEW reducer, NEW p, NEW q, Under(9, q, p)
  PROVE  /\ Reduced(reducer, p) \in Unit
         /\ Reduced(reducer, q) <= Reduced(reducer, p)
<1>0. /\ q \in [1 .. 9 -> Unit] /\ p \in [1 .. 9 -> Unit]
      /\ \A i \in 1 .. 9 : q[i] <= p[i]
  BY DEF Under
<1>1. CASE reducer = "max"
  <2> DEFINE P == {p[i] : i \in DOMAIN p}
             Q == {q[i] : i \in DOMAIN q}
  <2>1. P \subseteq Unit /\ Q \subseteq Unit
    BY <1>0
  <2>2. P # {} /\ Q # {}
    <3>1. 1 \in DOMAIN p /\ 1 \in DOMAIN q
      BY <1>0
    <3>2. p[1] \in P /\ q[1] \in Q
      BY <3>1
    <3> QED BY <3>2
  <2>3. Reduced(reducer, p) = Max(P) /\ Reduced(reducer, q) = Max(Q)
    BY <1>1 DEF Reduced
  <2>4. \A y \in Q : \E x \in P : y <= x
    BY <1>0
  <2> HIDE DEF P, Q
  <2>5. Max(P) \in P /\ Max(Q) \in Q /\ \A x \in P : x <= Max(P)
    BY <2>1, <2>2, UnitMax
  <2>6. PICK x \in P : Max(Q) <= x
    BY <2>4, <2>5
  <2> DEFINE a == Max(P)
             b == Max(Q)
  <2>7. a \in Unit /\ b \in Unit /\ x \in Unit /\ x <= a /\ b <= x
    BY <2>1, <2>5, <2>6
  <2>8. Reduced(reducer, p) = a /\ Reduced(reducer, q) = b
    BY <2>3
  <2> HIDE DEF a, b
  <2>9. b <= a
    BY <2>7 DEF Unit
  <2> QED BY <2>7, <2>8, <2>9
<1>2. CASE reducer # "max"
  <2>1. PICK N : N = 1000
    OBVIOUS
  <2>2. PICK n : n = 9
    OBVIOUS
  <2> DEFINE a == Remaining(N, p)
             b == Remaining(N, q)
  <2>3. Under(n, q, p) /\ Under(n, q, q)
    BY <2>2, UnderSelf
  <2>4. N \in Nat /\ n \in Nat
    BY <2>1, <2>2
  <2>5. a \in 0 .. N /\ a <= b
    BY <2>3, <2>4, RemainingFacts
  <2>6. b \in 0 .. N
    BY <2>3, <2>4, RemainingFacts
  <2>7. Reduced(reducer, p) = 1000 - a /\ Reduced(reducer, q) = 1000 - b
    BY <1>2, <2>1 DEF Reduced
  <2> HIDE DEF a, b
  <2> QED BY <2>1, <2>5, <2>6, <2>7 DEF Unit
<1> QED BY <1>1, <1>2

Top == 100000

(* Groups reduced to less leave more.                                      *)
Groupwise(reducer, K) == [g \in 1 .. 5 |-> Reduced(reducer, PartsIn(Groups[g], K))]

(* The more of the parts, the less remains.                                *)
LEMMA ResidualFacts ==
  ASSUME NEW reducer, NEW K, Strengths(K), NEW L, Strengths(L),
         \A g \in 1 .. 5, i \in 1 .. 9 : PartsIn(Groups[g], L)[i] <= PartsIn(Groups[g], K)[i]
  PROVE  /\ Residual(reducer, K) \in Nat /\ Residual(reducer, K) <= Top
         /\ Residual(reducer, K) <= Residual(reducer, L)
<1> DEFINE p == Groupwise(reducer, K)
           q == Groupwise(reducer, L)
<1>1. ASSUME NEW g \in 1 .. 5
      PROVE  p[g] \in Unit /\ q[g] \in Unit /\ q[g] <= p[g]
  <2> DEFINE a == PartsIn(Groups[g], K)
             b == PartsIn(Groups[g], L)
  <2>1. a \in [1 .. 9 -> Unit] /\ b \in [1 .. 9 -> Unit]
    BY PartFacts
  <2>2. \A i \in 1 .. 9 : b[i] <= a[i]
    OBVIOUS
  <2>3. p[g] = Reduced(reducer, a) /\ q[g] = Reduced(reducer, b)
    BY DEF Groupwise
  <2> HIDE DEF a, b, p, q
  <2>4. Under(9, b, a)
    BY <2>1, <2>2 DEF Under
  <2>5. Under(9, b, b)
    BY <2>4, UnderSelf
  <2>6. /\ Reduced(reducer, b) \in Unit /\ Reduced(reducer, a) \in Unit
        /\ Reduced(reducer, b) <= Reduced(reducer, a)
    BY <2>4, <2>5, ReducedFacts
  <2> QED BY <2>3, <2>6
<1>2. Under(5, q, p)
  <2>1. p = [g \in 1 .. 5 |-> p[g]] /\ q = [g \in 1 .. 5 |-> q[g]]
    BY DEF Groupwise
  <2> HIDE DEF p, q
  <2>2. p \in [1 .. 5 -> Unit] /\ q \in [1 .. 5 -> Unit]
    BY <1>1, <2>1
  <2> QED BY <1>1, <2>2 DEF Under
<1>3. Residual(reducer, K) = Remaining(Top, p) /\ Residual(reducer, L) = Remaining(Top, q)
  BY DEF Residual, Groupwise, Top
<1> HIDE DEF p, q
<1>4. PICK N : N = Top
  OBVIOUS
<1>5. PICK n : n = 5
  OBVIOUS
<1>6. Top \in Nat /\ N \in Nat /\ N <= Top /\ n \in Nat /\ Under(n, q, p)
  BY <1>2, <1>4, <1>5 DEF Top
<1>7. Remaining(N, p) \in 0 .. N /\ Remaining(N, p) <= Remaining(N, q)
  BY <1>6, RemainingFacts
<1> DEFINE a == Remaining(N, p)
           b == Remaining(N, q)
<1>8. Residual(reducer, K) = a /\ Residual(reducer, L) = b
  BY <1>3, <1>4
<1>9. a \in 0 .. N /\ a <= b
  BY <1>7
<1> HIDE DEF a, b
<1>10. a \in Nat /\ a <= Top
  BY <1>6, <1>9
<1> QED BY <1>8, <1>9, <1>10

LEMMA MaxOfTwo ==
  ASSUME NEW a \in Nat, NEW b \in Nat
  PROVE  Max({a, b}) = IF a >= b THEN a ELSE b
<1> DEFINE S == {a, b}
           N == a + b
<1>1. N \in Nat /\ S \subseteq 0 .. N /\ S # {} /\ a \in S /\ b \in S
  OBVIOUS
<1>2. Max(S) = a \/ Max(S) = b
  <2> HIDE DEF N
  <2>1. S \subseteq 0 .. N /\ S # {}
    BY <1>1
  <2> HIDE DEF S
  <2>2. Max(S) \in S
    BY <1>1, <2>1, MaxIs
  <2> QED BY <2>2 DEF S
<1>3. a <= Max(S) /\ b <= Max(S)
  <2> HIDE DEF N, S
  <2> QED BY <1>1, MaxIs
<1> HIDE DEF N
<1> DEFINE m == Max(S)
<1>4. (m = a \/ m = b) /\ a <= m /\ b <= m
  BY <1>2, <1>3
<1> HIDE DEF m
<1>5. m = IF a >= b THEN a ELSE b
  BY <1>4
<1> QED BY <1>5 DEF m

(* The score is above nothing when something fired, and at most 100.       *)
LEMMA ScoreFacts ==
  ASSUME NEW reducer, NEW K, Strengths(K)
  PROVE  /\ RiskScore(reducer, K) \in Nat /\ RiskScore(reducer, K) <= Top
         /\ RiskScore(reducer, K) = 0 <=> DOMAIN K = {}
<1> DEFINE c == Top - Residual(reducer, K)
           f == MinFiredScore
           s == RiskScore(reducer, K)
<1>1. \A g \in 1 .. 5, i \in 1 .. 9 : PartsIn(Groups[g], K)[i] <= PartsIn(Groups[g], K)[i]
  <2> SUFFICES ASSUME NEW g \in 1 .. 5, NEW i \in 1 .. 9
      PROVE PartsIn(Groups[g], K)[i] <= PartsIn(Groups[g], K)[i]
    OBVIOUS
  <2> DEFINE a == PartsIn(Groups[g], K)
  <2>1. a \in [1 .. 9 -> Unit]
    BY PartFacts
  <2> HIDE DEF a
  <2>2. a[i] \in Unit
    BY <2>1
  <2>3. a[i] <= a[i]
    BY <2>2 DEF Unit
  <2> QED BY <2>3 DEF a
<1>2. Residual(reducer, K) \in Nat /\ Residual(reducer, K) <= Top
  BY <1>1, ResidualFacts
<1>3. c \in Nat /\ c <= Top /\ f \in Nat /\ f >= 1 /\ f <= Top
  BY <1>2 DEF MinFiredScore, Top
<1>4. CASE DOMAIN K = {}
  <2>1. s = 0
    BY <1>4 DEF RiskScore
  <2> HIDE DEF s
  <2>2. s \in Nat /\ s <= Top /\ (s = 0 <=> DOMAIN K = {})
    BY <1>4, <2>1 DEF Top
  <2> QED BY <2>2 DEF s
<1>5. CASE DOMAIN K # {}
  <2>1. s = Max({f, c})
    BY <1>5 DEF RiskScore, Top
  <2> HIDE DEF c, f, s
  <2>2. s = IF f >= c THEN f ELSE c
    BY <1>3, <2>1, MaxOfTwo
  <2>3. s \in Nat /\ s <= Top /\ s # 0
    BY <1>3, <2>2
  <2>4. (s = 0 <=> DOMAIN K = {})
    BY <1>5, <2>3
  <2> QED BY <2>3, <2>4 DEF s
<1> QED BY <1>4, <1>5

(* Less of everything never scores more.                                   *)
LEMMA ScoreGrows ==
  ASSUME NEW reducer, NEW K, Strengths(K), NEW L, Strengths(L), DOMAIN L \subseteq DOMAIN K,
         \A g \in 1 .. 5, i \in 1 .. 9 : PartsIn(Groups[g], L)[i] <= PartsIn(Groups[g], K)[i]
  PROVE  RiskScore(reducer, L) <= RiskScore(reducer, K)
<1> DEFINE x == Residual(reducer, K)
           y == Residual(reducer, L)
           c == Top - x
           d == Top - y
           f == MinFiredScore
           s == RiskScore(reducer, K)
           t == RiskScore(reducer, L)
<1>1. x \in Nat /\ x <= Top /\ x <= y
  BY ResidualFacts
<1>2. y \in Nat /\ y <= Top
  <2>1. \A g \in 1 .. 5, i \in 1 .. 9 : PartsIn(Groups[g], L)[i] <= PartsIn(Groups[g], L)[i]
    <3> SUFFICES ASSUME NEW g \in 1 .. 5, NEW i \in 1 .. 9
        PROVE PartsIn(Groups[g], L)[i] <= PartsIn(Groups[g], L)[i]
      OBVIOUS
    <3> DEFINE a == PartsIn(Groups[g], L)
    <3>1. a \in [1 .. 9 -> Unit]
      BY PartFacts
    <3> HIDE DEF a
    <3>2. a[i] \in Unit
      BY <3>1
    <3>3. a[i] <= a[i]
      BY <3>2 DEF Unit
    <3> QED BY <3>3 DEF a
  <2> QED BY <2>1, ResidualFacts
<1>3. f \in Nat
  BY DEF MinFiredScore
<1>4. s \in Nat /\ t \in Nat
  BY ScoreFacts
<1> HIDE DEF x, y
<1>5. c \in Nat /\ d \in Nat /\ d <= c
  BY <1>1, <1>2 DEF Top
<1>6. CASE DOMAIN L = {}
  <2>1. t = 0
    BY <1>6, ScoreFacts
  <2> HIDE DEF s, t
  <2>2. t <= s
    BY <1>4, <2>1
  <2> QED BY <2>2 DEF s, t
<1>7. CASE DOMAIN L # {}
  <2>1. s = Max({f, c}) /\ t = Max({f, d})
    BY <1>7 DEF RiskScore, x, y, Top
  <2> HIDE DEF c, d, f, s, t
  <2>2. s = IF f >= c THEN f ELSE c
    BY <1>3, <1>5, <2>1, MaxOfTwo
  <2>3. t = IF f >= d THEN f ELSE d
    BY <1>3, <1>5, <2>1, MaxOfTwo
  <2>4. t <= s
    BY <1>3, <1>5, <2>2, <2>3
  <2> QED BY <2>4 DEF s, t
<1> QED BY <1>6, <1>7

(* Who is kept with the same strength has the same part.                   *)
LEMMA PartOfBoth ==
  ASSUME NEW K, Strengths(K), NEW L, Strengths(L), NEW group, NEW i \in 1 .. 9,
         CatalogOrder[i] \in DOMAIN L =>
           CatalogOrder[i] \in DOMAIN K /\ L[CatalogOrder[i]] = K[CatalogOrder[i]]
  PROVE  PartsIn(group, L)[i] <= PartsIn(group, K)[i]
<1> DEFINE r == CatalogOrder[i]
           x == PartsIn(group, K)[i]
           y == PartsIn(group, L)[i]
<1>1. x \in Unit /\ y \in Unit
  <2> DEFINE p == PartsIn(group, K)
             q == PartsIn(group, L)
  <2>1. p \in [1 .. 9 -> Unit] /\ q \in [1 .. 9 -> Unit]
    BY PartFacts
  <2> HIDE DEF p, q
  <2>2. p[i] \in Unit /\ q[i] \in Unit
    BY <2>1
  <2> QED BY <2>2 DEF p, q
<1>2. x = IF r.group = group /\ r \in DOMAIN K THEN Contribution(r, K[r]) ELSE 0
  BY PartFacts
<1>3. y = IF r.group = group /\ r \in DOMAIN L THEN Contribution(r, L[r]) ELSE 0
  BY PartFacts
<1> HIDE DEF x, y, r
<1>4. CASE r.group = group /\ r \in DOMAIN L
  <2>1. x = y
    BY <1>2, <1>3, <1>4 DEF r
  <2>2. y <= x
    BY <1>1, <2>1 DEF Unit
  <2> QED BY <2>2 DEF x, y
<1>5. CASE ~ (r.group = group /\ r \in DOMAIN L)
  <2>1. y = 0
    BY <1>3, <1>5
  <2>2. y <= x
    BY <1>1, <2>1 DEF Unit
  <2> QED BY <2>2 DEF x, y
<1> QED BY <1>4, <1>5

(* Some of what is kept.                                                   *)
LEMMA RestrictFacts ==
  ASSUME NEW K, Strengths(K), NEW S, S \subseteq DOMAIN K
  PROVE  /\ Strengths(Restrict(K, S)) /\ DOMAIN Restrict(K, S) = S
         /\ \A r \in S : Restrict(K, S)[r] = K[r]
  BY DEF Strengths, Restrict

(* No rule that fired lowers the score.                                    *)
LEMMA FewerScoreLess ==
  ASSUME NEW reducer, NEW K, Strengths(K), NEW S, S \subseteq DOMAIN K
  PROVE  RiskScore(reducer, Restrict(K, S)) <= RiskScore(reducer, K)
<1> DEFINE L == Restrict(K, S)
<1>1. Strengths(L) /\ DOMAIN L = S /\ \A r \in S : L[r] = K[r]
  BY RestrictFacts
<1> HIDE DEF L
<1>2. ASSUME NEW g \in 1 .. 5, NEW i \in 1 .. 9
      PROVE  PartsIn(Groups[g], L)[i] <= PartsIn(Groups[g], K)[i]
  <2>1. CatalogOrder[i] \in DOMAIN L =>
          CatalogOrder[i] \in DOMAIN K /\ L[CatalogOrder[i]] = K[CatalogOrder[i]]
    BY <1>1
  <2> QED BY <1>1, <2>1, PartOfBoth
<1>3. DOMAIN L \subseteq DOMAIN K
  BY <1>1
<1>4. RiskScore(reducer, L) <= RiskScore(reducer, K)
  BY <1>1, <1>2, <1>3, ScoreGrows
<1> QED BY <1>4 DEF L

(* max takes one of the parts, and none is larger.                         *)
LEMMA LargestPart ==
  ASSUME NEW p \in [1 .. 9 -> Unit]
  PROVE  \E i \in 1 .. 9 : Reduced("max", p) = p[i] /\ \A j \in 1 .. 9 : p[j] <= p[i]
<1> DEFINE P == {p[i] : i \in DOMAIN p}
<1>1. P \subseteq Unit /\ P # {}
  <2>1. P \subseteq Unit
    OBVIOUS
  <2>2. 1 \in DOMAIN p
    OBVIOUS
  <2>3. p[1] \in P
    BY <2>2
  <2> HIDE DEF P
  <2> QED BY <2>1, <2>3
<1>2. Reduced("max", p) = Max(P)
  BY DEF Reduced
<1>3. Max(P) \in P /\ \A x \in P : x <= Max(P)
  <2> HIDE DEF P
  <2> QED BY <1>1, UnitMax
<1>4. PICK i \in 1 .. 9 : Max(P) = p[i]
  BY <1>3
<1>5. \A j \in 1 .. 9 : p[j] \in P
  OBVIOUS
<1> HIDE DEF P
<1> QED BY <1>2, <1>3, <1>4, <1>5

(* Of bounded numbers one is the greatest.                                 *)
LEMMA Greatest ==
  ASSUME NEW D, D # {}, NEW f \in [D -> Unit]
  PROVE  \E r \in D : \A o \in D : f[o] <= f[r]
<1> DEFINE P == {f[r] : r \in D}
<1>1. P \subseteq Unit /\ P # {}
  OBVIOUS
<1>2. Max(P) \in P /\ \A x \in P : x <= Max(P)
  <2> HIDE DEF P
  <2> QED BY <1>1, UnitMax
<1>3. PICK r \in D : Max(P) = f[r]
  BY <1>2
<1>4. \A o \in D : f[o] \in P
  OBVIOUS
<1> HIDE DEF P
<1> QED BY <1>2, <1>3, <1>4

(* The strongest of each group.                                            *)
Best(K) ==
  {r \in DOMAIN K : \A o \in DOMAIN K :
     o.group = r.group => Contribution(o, K[o]) <= Contribution(r, K[r])}

(* Some rule contributes the most to its group.                            *)
LEMMA BestExists ==
  ASSUME NEW K, Strengths(K), DOMAIN K # {}
  PROVE  Best(K) # {}
<1> DEFINE D == DOMAIN K
           f == [r \in D |-> Contribution(r, K[r])]
<1>1. ASSUME NEW r \in D PROVE Contribution(r, K[r]) \in Unit
  BY <1>1, KeptContribution
<1>2. f \in [D -> Unit]
  BY <1>1
<1>3. \A r \in D : f[r] = Contribution(r, K[r])
  OBVIOUS
<1> HIDE DEF f
<1>4. PICK r \in D : \A o \in D : f[o] <= f[r]
  <2> HIDE DEF D
  <2>1. D # {}
    BY DEF D
  <2> QED BY <1>2, <2>1, Greatest
<1>5. \A o \in D : Contribution(o, K[o]) <= Contribution(r, K[r])
  BY <1>3, <1>4
<1>6. r \in Best(K)
  BY <1>5 DEF Best
<1> QED BY <1>6

(* A group is worth, under max, what its best rules are.                   *)
LEMMA BestAlone ==
  ASSUME NEW K, Strengths(K), NEW L, Strengths(L), DOMAIN L = Best(K), \A r \in Best(K) : L[r] = K[r],
         NEW group
  PROVE  Reduced("max", PartsIn(group, K)) <= Reduced("max", PartsIn(group, L))
<1> DEFINE p == PartsIn(group, K)
           q == PartsIn(group, L)
<1>1. p \in [1 .. 9 -> Unit] /\ q \in [1 .. 9 -> Unit]
  BY PartFacts
<1>2. \A i \in 1 .. 9 :
        p[i] = IF CatalogOrder[i].group = group /\ CatalogOrder[i] \in DOMAIN K
               THEN Contribution(CatalogOrder[i], K[CatalogOrder[i]]) ELSE 0
  BY PartFacts
<1>3. \A i \in 1 .. 9 :
        q[i] = IF CatalogOrder[i].group = group /\ CatalogOrder[i] \in DOMAIN L
               THEN Contribution(CatalogOrder[i], L[CatalogOrder[i]]) ELSE 0
  BY PartFacts
<1> DEFINE a == Reduced("max", p)
           b == Reduced("max", q)
<1>4. a = Reduced("max", PartsIn(group, K)) /\ b = Reduced("max", PartsIn(group, L))
  OBVIOUS
<1> HIDE DEF p, q
<1>5. PICK i \in 1 .. 9 : a = p[i] /\ \A j \in 1 .. 9 : p[j] <= p[i]
  BY <1>1, LargestPart
<1>6. PICK k \in 1 .. 9 : b = q[k] /\ \A j \in 1 .. 9 : q[j] <= q[k]
  BY <1>1, LargestPart
<1> HIDE DEF a, b
<1>7. p[i] \in Unit /\ q[i] \in Unit /\ q[k] \in Unit /\ q[i] <= q[k]
  BY <1>1, <1>6
<1> DEFINE r == CatalogOrder[i]
<1>8. CASE r.group = group /\ r \in DOMAIN K
  <2>1. p[i] = Contribution(r, K[r])
    BY <1>2, <1>8
  <2>2. ASSUME NEW o \in DOMAIN K, o.group = r.group
        PROVE  Contribution(o, K[o]) <= Contribution(r, K[r])
    <3>1. PICK j \in 1 .. 9 : CatalogOrder[j] = o
      <4>1. o \in Catalog
        BY CatalogFacts DEF Strengths
      <4> QED BY <4>1, CatalogFacts
    <3>2. p[j] = Contribution(o, K[o])
      BY <1>2, <1>8, <2>2, <3>1
    <3>3. p[j] <= p[i]
      BY <1>5
    <3> QED BY <2>1, <3>2, <3>3
  <2>3. r \in Best(K)
    BY <1>8, <2>2 DEF Best
  <2>4. q[i] = Contribution(r, K[r])
    BY <1>3, <1>8, <2>3
  <2>5. q[i] = p[i]
    BY <2>1, <2>4
  <2>6. a <= b
    BY <1>5, <1>6, <1>7, <2>5
  <2> QED BY <1>4, <2>6
<1>9. CASE ~ (r.group = group /\ r \in DOMAIN K)
  <2>1. p[i] = 0
    BY <1>2, <1>9
  <2>2. a = 0 /\ b \in Unit
    BY <1>5, <1>6, <1>7, <2>1
  <2>3. a <= b
    BY <2>2 DEF Unit
  <2> QED BY <1>4, <2>3
<1> QED BY <1>8, <1>9

(* With max, the score is what the strongest of each group alone say.      *)
LEMMA BestScore ==
  ASSUME NEW K, Strengths(K)
  PROVE  RiskScore("max", K) = RiskScore("max", Restrict(K, Best(K)))
<1> DEFINE L == Restrict(K, Best(K))
<1>0. Best(K) \subseteq DOMAIN K
  BY DEF Best
<1>1. Strengths(L) /\ DOMAIN L = Best(K) /\ \A r \in Best(K) : L[r] = K[r]
  BY <1>0, RestrictFacts
<1> HIDE DEF L
<1>2. ASSUME NEW g \in 1 .. 5
      PROVE  Reduced("max", PartsIn(Groups[g], K)) = Reduced("max", PartsIn(Groups[g], L))
  <2> DEFINE p == PartsIn(Groups[g], K)
             q == PartsIn(Groups[g], L)
             a == Reduced("max", p)
             b == Reduced("max", q)
  <2>1. a <= b
    BY <1>1, BestAlone
  <2>2. p \in [1 .. 9 -> Unit] /\ q \in [1 .. 9 -> Unit]
    BY <1>1, PartFacts
  <2>3. \A i \in 1 .. 9 : q[i] <= p[i]
    <3> SUFFICES ASSUME NEW i \in 1 .. 9 PROVE PartsIn(Groups[g], L)[i] <= PartsIn(Groups[g], K)[i]
      OBVIOUS
    <3>1. CatalogOrder[i] \in DOMAIN L =>
            CatalogOrder[i] \in DOMAIN K /\ L[CatalogOrder[i]] = K[CatalogOrder[i]]
      BY <1>0, <1>1
    <3> QED BY <1>1, <3>1, PartOfBoth
  <2> HIDE DEF p, q
  <2>5. Under(9, q, p)
    BY <2>2, <2>3 DEF Under
  <2>6. Under(9, q, q)
    BY <2>5, UnderSelf
  <2>7. a \in Unit /\ b \in Unit /\ b <= a
    BY <2>5, <2>6, ReducedFacts
  <2> HIDE DEF a, b
  <2>8. a = b
    BY <2>1, <2>7 DEF Unit
  <2> QED BY <2>8 DEF a, b, p, q
<1>3. Residual("max", K) = Residual("max", L)
  <2>1. Groupwise("max", K) = Groupwise("max", L)
    BY <1>2 DEF Groupwise
  <2>2. Residual("max", K) = Remaining(Top, Groupwise("max", K))
    BY DEF Residual, Groupwise, Top
  <2>3. Residual("max", L) = Remaining(Top, Groupwise("max", L))
    BY DEF Residual, Groupwise, Top
  <2> QED BY <2>1, <2>2, <2>3
<1>4. DOMAIN K = {} <=> DOMAIN L = {}
  BY <1>0, <1>1, BestExists
<1>5. RiskScore("max", K) = RiskScore("max", L)
  <2> DEFINE x == Residual("max", K)
             y == Residual("max", L)
  <2>1. RiskScore("max", K) = IF DOMAIN K = {} THEN 0 ELSE Max({MinFiredScore, Top - x})
    BY DEF RiskScore, Top
  <2>2. RiskScore("max", L) = IF DOMAIN L = {} THEN 0 ELSE Max({MinFiredScore, Top - y})
    BY DEF RiskScore, Top
  <2>3. x = y
    BY <1>3
  <2> HIDE DEF x, y
  <2> DEFINE m == Max({MinFiredScore, Top - x})
  <2>4. RiskScore("max", K) = (IF DOMAIN K = {} THEN 0 ELSE m)
        /\ RiskScore("max", L) = (IF DOMAIN L = {} THEN 0 ELSE m)
    BY <2>1, <2>2, <2>3
  <2> HIDE DEF m
  <2> QED BY <1>4, <2>4
<1> QED BY <1>5 DEF L

-----------------------------------------------------------------------------
(* The four ways to come first in the ranking.                             *)
LEMMA ByContribution ==
  ASSUME NEW K, NEW a, NEW b, Contribution(a, K[a]) > Contribution(b, K[b])
  PROVE  Before(K, a, b)
<1> DEFINE key(r) == <<Contribution(r, K[r]), r.severity, K[r]>>
           Ahead(i) == key(a)[i] > key(b)[i] /\ \A j \in 1 .. i - 1 : key(a)[j] = key(b)[j]
<1>1. key(a)[1] = Contribution(a, K[a]) /\ key(b)[1] = Contribution(b, K[b])
  OBVIOUS
<1>2. Ahead(1)
  BY <1>1
<1>3. 1 \in 1 .. 3
  OBVIOUS
<1>4. \E i \in 1 .. 3 : Ahead(i)
  BY <1>2, <1>3
<1> QED BY <1>4 DEF Before

LEMMA BySeverity ==
  ASSUME NEW K, NEW a, NEW b, Contribution(a, K[a]) = Contribution(b, K[b]),
         a.severity > b.severity
  PROVE  Before(K, a, b)
<1> DEFINE key(r) == <<Contribution(r, K[r]), r.severity, K[r]>>
           Ahead(i) == key(a)[i] > key(b)[i] /\ \A j \in 1 .. i - 1 : key(a)[j] = key(b)[j]
<1>1. key(a)[1] = key(b)[1] /\ key(a)[2] = a.severity /\ key(b)[2] = b.severity
  OBVIOUS
<1>2. Ahead(2)
  <2>1. \A j \in 1 .. 2 - 1 : j = 1
    OBVIOUS
  <2> QED BY <1>1, <2>1
<1>3. 2 \in 1 .. 3
  OBVIOUS
<1>4. \E i \in 1 .. 3 : Ahead(i)
  BY <1>2, <1>3
<1> QED BY <1>4 DEF Before

LEMMA ByStrength ==
  ASSUME NEW K, NEW a, NEW b, Contribution(a, K[a]) = Contribution(b, K[b]),
         a.severity = b.severity, K[a] > K[b]
  PROVE  Before(K, a, b)
<1> DEFINE key(r) == <<Contribution(r, K[r]), r.severity, K[r]>>
           Ahead(i) == key(a)[i] > key(b)[i] /\ \A j \in 1 .. i - 1 : key(a)[j] = key(b)[j]
<1>1. /\ key(a)[1] = key(b)[1] /\ key(a)[2] = key(b)[2]
      /\ key(a)[3] = K[a] /\ key(b)[3] = K[b]
  OBVIOUS
<1>2. Ahead(3)
  <2>1. \A j \in 1 .. 3 - 1 : j = 1 \/ j = 2
    OBVIOUS
  <2> QED BY <1>1, <2>1
<1>3. 3 \in 1 .. 3
  OBVIOUS
<1>4. \E i \in 1 .. 3 : Ahead(i)
  BY <1>2, <1>3
<1> QED BY <1>4 DEF Before

LEMMA ByOrder ==
  ASSUME NEW K, NEW a, NEW b, Contribution(a, K[a]) = Contribution(b, K[b]),
         a.severity = b.severity, K[a] = K[b], Earlier(a, b)
  PROVE  Before(K, a, b)
<1> DEFINE key(r) == <<Contribution(r, K[r]), r.severity, K[r]>>
<1>1. key(a) = key(b)
  OBVIOUS
<1> QED BY <1>1 DEF Before

(* Somebody comes first of those that fired.                               *)
LEMMA FirstExists ==
  ASSUME NEW K, Strengths(K), DOMAIN K # {}
  PROVE  \E a \in DOMAIN K : \A b \in DOMAIN K : Before(K, a, b)
<1> DEFINE C(r) == Contribution(r, K[r])
           D == DOMAIN K
           A1 == {r \in D : \A o \in D : C(o) <= C(r)}
           A2 == {r \in A1 : \A o \in A1 : o.severity <= r.severity}
           A3 == {r \in A2 : \A o \in A2 : K[o] <= K[r]}
           I == {i \in 1 .. 9 : CatalogOrder[i] \in A3}
<1>1. ASSUME NEW r \in D
      PROVE  /\ r \in Rule /\ C(r) \in Unit /\ C(r) \in Nat
             /\ r.severity \in Unit /\ r.severity \in Nat /\ K[r] \in Unit /\ K[r] \in Nat
  <2>1. r \in Rule /\ C(r) \in Unit
    BY <1>1, KeptContribution
  <2>2. K[r] \in Strong
    BY DEF Strengths
  <2>3. r.severity \in 1 .. 3
    BY <2>1, RuleFacts
  <2> HIDE DEF C
  <2>4. K[r] \in Unit /\ K[r] \in Nat
    BY <2>2 DEF Strong, Unit
  <2>5. C(r) \in Nat
    BY <2>1 DEF Unit
  <2>6. r.severity \in Unit /\ r.severity \in Nat
    BY <2>3 DEF Unit
  <2> QED BY <2>1, <2>4, <2>5, <2>6
<1>2. A1 # {}
  <2> DEFINE f == [r \in D |-> C(r)]
  <2>1. f \in [D -> Unit] /\ \A r \in D : f[r] = C(r)
    BY <1>1
  <2>2. D # {}
    OBVIOUS
  <2> HIDE DEF f, D
  <2>3. PICK r \in D : \A o \in D : f[o] <= f[r]
    BY <2>1, <2>2, Greatest
  <2> HIDE DEF C
  <2> QED BY <2>1, <2>3
<1>3. A2 # {}
  <2> DEFINE f == [r \in A1 |-> r.severity]
  <2>1. \A r \in A1 : r \in D
    OBVIOUS
  <2>2. f \in [A1 -> Unit] /\ \A r \in A1 : f[r] = r.severity
    <3> HIDE DEF A1
    <3> QED BY <1>1, <2>1
  <2> HIDE DEF f, A1
  <2>3. PICK r \in A1 : \A o \in A1 : f[o] <= f[r]
    BY <1>2, <2>2, Greatest
  <2> QED BY <2>2, <2>3
<1>4. A3 # {}
  <2> DEFINE f == [r \in A2 |-> K[r]]
  <2>1. \A r \in A2 : r \in D
    OBVIOUS
  <2>2. f \in [A2 -> Unit] /\ \A r \in A2 : f[r] = K[r]
    <3> HIDE DEF A2
    <3> QED BY <1>1, <2>1
  <2> HIDE DEF f, A2
  <2>3. PICK r \in A2 : \A o \in A2 : f[o] <= f[r]
    BY <1>3, <2>2, Greatest
  <2> QED BY <2>2, <2>3
<1>5. A3 \subseteq A2 /\ A2 \subseteq A1 /\ A1 \subseteq D
  OBVIOUS
<1>6. I # {} /\ I \in SUBSET Nat
  <2>1. PICK r \in A3 : TRUE
    BY <1>4
  <2>2. r \in Catalog
    BY <1>1, <1>5, <2>1, CatalogFacts
  <2>3. PICK i \in 1 .. 9 : CatalogOrder[i] = r
    BY <2>2, CatalogFacts
  <2> HIDE DEF A3
  <2> QED BY <2>1, <2>3
<1>7. PICK i \in I : \A j \in I : i <= j
  <2> HIDE DEF I
  <2> QED BY <1>6, LeastNatural
<1> DEFINE a == CatalogOrder[i]
<1>8. i \in 1 .. 9 /\ a \in A3
  BY <1>7
<1>9. a \in A2 /\ a \in A1 /\ a \in D
  BY <1>5, <1>8
<1>10. ASSUME NEW b \in D PROVE Before(K, a, b)
  <2>1. /\ C(a) \in Nat /\ C(b) \in Nat /\ a.severity \in Nat /\ b.severity \in Nat
        /\ K[a] \in Nat /\ K[b] \in Nat
    <3> HIDE DEF C, a, D
    <3> QED BY <1>1, <1>9
  <2>2. CASE b \notin A1
    <3>1. PICK o \in D : ~ (C(o) <= C(b))
      BY <2>2
    <3>2. C(o) \in Nat /\ C(o) <= C(a)
      BY <1>1, <1>9
    <3>3. C(a) > C(b)
      <4> HIDE DEF C, a
      <4> QED BY <2>1, <3>1, <3>2
    <3> QED BY <3>3, ByContribution
  <2>3. CASE b \in A1
    <3>0. C(a) = C(b)
      <4>1. C(a) <= C(b) /\ C(b) <= C(a)
        BY <1>9, <2>3
      <4> HIDE DEF C, a
      <4> QED BY <2>1, <4>1
    <3>1. CASE b \notin A2
      <4>1. PICK o \in A1 : ~ (o.severity <= b.severity)
        BY <2>3, <3>1
      <4>2. o.severity \in Nat /\ o.severity <= a.severity
        BY <1>1, <1>9
      <4>3. a.severity > b.severity
        <5> HIDE DEF a
        <5> QED BY <2>1, <4>1, <4>2
      <4> QED BY <3>0, <4>3, BySeverity
    <3>2. CASE b \in A2
      <4>0. a.severity = b.severity
        <5>1. a.severity <= b.severity /\ b.severity <= a.severity
          BY <1>9, <2>3, <3>2
        <5> HIDE DEF a
        <5> QED BY <2>1, <5>1
      <4>1. CASE b \notin A3
        <5>1. PICK o \in A2 : ~ (K[o] <= K[b])
          BY <3>2, <4>1
        <5>2. K[o] \in Nat /\ K[o] <= K[a]
          BY <1>1, <1>8
        <5>3. K[a] > K[b]
          <6> HIDE DEF a
          <6> QED BY <2>1, <5>1, <5>2
        <5> QED BY <3>0, <4>0, <5>3, ByStrength
      <4>2. CASE b \in A3
        <5>1. K[a] = K[b]
          <6>1. K[a] <= K[b] /\ K[b] <= K[a]
            BY <1>8, <1>9, <3>2, <4>2
          <6> HIDE DEF a
          <6> QED BY <2>1, <6>1
        <5>2. b \in Catalog
          BY <1>1, CatalogFacts
        <5>3. PICK j \in 1 .. 9 : CatalogOrder[j] = b
          BY <5>2, CatalogFacts
        <5>4. j \in I
          BY <4>2, <5>3
        <5>5. i <= j
          BY <1>7, <5>4
        <5>6. CASE i = j
          BY <5>3, <5>6 DEF Before
        <5>7. CASE i # j
          <6>1. i < j
            BY <1>8, <5>5, <5>7
          <6>2. Earlier(a, b)
            BY <1>8, <5>3, <6>1 DEF Earlier
          <6> QED BY <3>0, <4>0, <5>1, <6>2, ByOrder
        <5> QED BY <5>6, <5>7
      <4> QED BY <4>1, <4>2
    <3> QED BY <3>1, <3>2
  <2> QED BY <2>2, <2>3
<1> QED BY <1>9, <1>10

(* The category named is that of a rule that fired.                        *)
LEMMA PrimaryIsOne ==
  ASSUME NEW K, Strengths(K), DOMAIN K # {}
  PROVE  Primary(K) \in {r.category : r \in DOMAIN K}
<1>1. (CHOOSE a \in DOMAIN K : \A b \in DOMAIN K : Before(K, a, b)) \in DOMAIN K
  BY FirstExists
<1> QED BY <1>1 DEF Primary

-----------------------------------------------------------------------------
(* Sums, and the strength a rule fires with.                               *)
Sums(parts, m, g) ==
  /\ g \in [0 .. m -> Nat] /\ g[0] = 0
  /\ \A i \in 1 .. m : g[i] = g[i - 1] + parts[i]

(* There is such a g.                                                      *)
LEMMA SumsExist ==
  ASSUME NEW n \in Nat, NEW parts \in [1 .. n -> Nat], NEW m \in 0 .. n
  PROVE  \E g : Sums(parts, m, g)
<1> DEFINE Bad == {i \in 0 .. n : ~ \E g : Sums(parts, i, g)}
<1>1. CASE Bad = {}
  BY <1>1
<1>2. CASE Bad # {}
  <2>1. PICK l \in Bad : \A i \in Bad : l <= i
    <3>1. Bad \in SUBSET Nat
      OBVIOUS
    <3> HIDE DEF Bad
    <3> QED BY <1>2, <3>1, LeastNatural
  <2>2. l # 0
    <3> DEFINE g == [i \in 0 .. 0 |-> 0]
    <3>1. Sums(parts, 0, g)
      BY DEF Sums
    <3> HIDE DEF g
    <3> QED BY <2>1, <3>1
  <2>3. l \in 1 .. n /\ l - 1 \in 0 .. n /\ l - 1 < l
    BY <2>1, <2>2
  <2>4. PICK g : Sums(parts, l - 1, g)
    <3>1. l - 1 \notin Bad
      BY <2>1, <2>3
    <3> QED BY <2>3, <3>1
  <2> DEFINE h == [i \in 0 .. l |-> IF i = l THEN g[l - 1] + parts[l] ELSE g[i]]
  <2>5. g[l - 1] \in Nat /\ parts[l] \in Nat
    BY <2>3, <2>4 DEF Sums
  <2>6. g[l - 1] + parts[l] \in Nat
    BY <2>5
  <2>7. h \in [0 .. l -> Nat]
    BY <2>3, <2>4, <2>6 DEF Sums
  <2>8. h[0] = 0
    BY <2>3, <2>4 DEF Sums
  <2>9. ASSUME NEW i \in 1 .. l PROVE h[i] = h[i - 1] + parts[i]
    <3>1. CASE i = l
      BY <2>3, <3>1
    <3>2. CASE i # l
      <4>1. i \in 1 .. l - 1 /\ i \in 0 .. l /\ i - 1 \in 0 .. l /\ i - 1 # l
        BY <2>3, <3>2
      <4>2. g[i] = g[i - 1] + parts[i]
        BY <2>4, <4>1 DEF Sums
      <4> QED BY <3>2, <4>1, <4>2
    <3> QED BY <3>1, <3>2
  <2> HIDE DEF h
  <2>10. Sums(parts, l, h)
    BY <2>7, <2>8, <2>9 DEF Sums
  <2> QED BY <2>1, <2>10
<1> QED BY <1>1, <1>2

(* Summed is what g tells at the end.                                      *)
LEMMA SummedIs ==
  ASSUME NEW n \in Nat, NEW parts \in [1 .. n -> Nat]
  PROVE  \E g : Sums(parts, n, g) /\ Summed(parts) = g[n]
<1>1. Len(parts) = n
  OBVIOUS
<1>2. PICK g : Sums(parts, n, g)
  BY SumsExist
<1> DEFINE Keeps(f) == f = [i \in 0 .. Len(parts) |-> IF i = 0 THEN 0 ELSE f[i - 1] + parts[i]]
           sum == CHOOSE f : Keeps(f)
<1>3. Summed(parts) = sum[n]
  BY <1>1 DEF Summed
<1>4. Keeps(g)
  <2>1. g = [i \in 0 .. n |-> g[i]]
    BY <1>2 DEF Sums
  <2>2. \A i \in 0 .. n : i # 0 => i \in 1 .. n
    OBVIOUS
  <2>3. \A i \in 0 .. n : g[i] = IF i = 0 THEN 0 ELSE g[i - 1] + parts[i]
    BY <1>2, <2>2 DEF Sums
  <2> QED BY <1>1, <2>1, <2>3
<1>5. Keeps(sum)
  <2> HIDE DEF Keeps
  <2> QED BY <1>4
<1> HIDE DEF sum
<1>6. sum[0] = 0 /\ DOMAIN sum = 0 .. n
  BY <1>1, <1>5
<1>7. ASSUME NEW i \in 1 .. n PROVE sum[i] = sum[i - 1] + parts[i]
  BY <1>1, <1>5
<1> DEFINE Off == {i \in 0 .. n : sum[i] # g[i]}
<1>8. Off = {}
  <2> SUFFICES ASSUME Off # {} PROVE FALSE
    OBVIOUS
  <2>1. PICK l \in Off : \A i \in Off : l <= i
    <3>1. Off \in SUBSET Nat
      OBVIOUS
    <3> HIDE DEF Off
    <3> QED BY <3>1, LeastNatural
  <2>2. l # 0
    BY <1>2, <1>6, <2>1 DEF Sums
  <2>3. l \in 1 .. n /\ l - 1 \in 0 .. n /\ l - 1 < l
    BY <2>1, <2>2
  <2>4. sum[l - 1] = g[l - 1]
    BY <2>1, <2>3
  <2>5. sum[l] = sum[l - 1] + parts[l] /\ g[l] = g[l - 1] + parts[l]
    BY <1>2, <1>7, <2>3 DEF Sums
  <2> QED BY <2>1, <2>4, <2>5
<1>9. sum[n] = g[n]
  BY <1>8
<1> QED BY <1>2, <1>3, <1>9

Weights == Nat \ {0}
Weighted(c, n) == n \in Nat \ {0} /\ c \in [1 .. n -> Weights \X Unit]

Scaled(n, w, u) ==
  /\ n \in Nat /\ w \in [1 .. n -> Weights] /\ u \in [1 .. n -> Nat]
  /\ \A i \in 1 .. n : u[i] <= 1000 * w[i]

(* A weighted sum of parts of a thousand is at most a thousand weights.    *)
LEMMA SumsCompare ==
  ASSUME NEW n, NEW w, NEW u, Scaled(n, w, u)
  PROVE  /\ Summed(w) \in Nat /\ Summed(u) \in Nat
         /\ Summed(w) >= n /\ Summed(u) <= 1000 * Summed(w)
<1> n \in Nat /\ w \in [1 .. n -> Weights] /\ u \in [1 .. n -> Nat]
  BY DEF Scaled
<1> \A i \in 1 .. n : u[i] <= 1000 * w[i]
  BY DEF Scaled
<1>0. w \in [1 .. n -> Nat]
  BY DEF Weights
<1>1. PICK g : Sums(w, n, g) /\ Summed(w) = g[n]
  BY <1>0, SummedIs
<1>2. PICK h : Sums(u, n, h) /\ Summed(u) = h[n]
  BY SummedIs
<1> DEFINE Bad == {i \in 0 .. n : ~ (g[i] >= i /\ h[i] <= 1000 * g[i])}
<1>3. Bad = {}
  <2> SUFFICES ASSUME Bad # {} PROVE FALSE
    OBVIOUS
  <2>1. PICK l \in Bad : \A i \in Bad : l <= i
    <3>1. Bad \in SUBSET Nat
      OBVIOUS
    <3> HIDE DEF Bad
    <3> QED BY <3>1, LeastNatural
  <2>2. l # 0
    BY <1>1, <1>2, <2>1 DEF Sums
  <2>3. l \in 1 .. n /\ l - 1 \in 0 .. n /\ l - 1 < l
    BY <2>1, <2>2
  <2>4. g[l - 1] >= l - 1 /\ h[l - 1] <= 1000 * g[l - 1]
    BY <2>1, <2>3
  <2>5. g[l - 1] \in Nat /\ h[l - 1] \in Nat
    BY <1>1, <1>2, <2>3 DEF Sums
  <2>6. g[l] = g[l - 1] + w[l] /\ h[l] = h[l - 1] + u[l]
    BY <1>1, <1>2, <2>3 DEF Sums
  <2>7. w[l] \in Nat /\ w[l] >= 1 /\ u[l] \in Nat /\ u[l] <= 1000 * w[l]
    BY <2>3 DEF Weights
  <2> DEFINE a == g[l - 1]
             b == h[l - 1]
             x == w[l]
             y == u[l]
  <2>8. a \in Nat /\ b \in Nat /\ x \in Nat /\ y \in Nat /\ x >= 1 /\ a >= l - 1
        /\ b <= 1000 * a /\ y <= 1000 * x /\ g[l] = a + x /\ h[l] = b + y
    BY <2>4, <2>5, <2>6, <2>7
  <2> HIDE DEF a, b, x, y
  <2>9. g[l] >= l /\ h[l] <= 1000 * g[l]
    BY <2>3, <2>8
  <2> QED BY <2>1, <2>9
<1>4. n \in 0 .. n
  OBVIOUS
<1>5. g[n] >= n /\ h[n] <= 1000 * g[n]
  BY <1>3, <1>4
<1>6. g[n] \in Nat /\ h[n] \in Nat
  BY <1>1, <1>2, <1>4 DEF Sums
<1> QED BY <1>1, <1>2, <1>5, <1>6

LEMMA Quotient ==
  /\ \A a \in Nat, b \in Nat \ {0} : a \div b \in Nat
  /\ \A a \in Nat, b \in Nat \ {0} : a <= 1000 * b => a \div b <= 1000
  /\ \A a \in Int, b \in Nat \ {0} : a \div b \in Int
<1>1. ASSUME NEW a \in Nat, NEW b \in Nat \ {0}
      PROVE  a \div b \in Nat /\ (a <= 1000 * b => a \div b <= 1000)
  <2>1. a \div b \in Int /\ b * (a \div b) <= a /\ a < b * (a \div b) + b
    OBVIOUS
  <2> DEFINE q == a \div b
  <2>2. q \in Int /\ b * q <= a /\ a < b * q + b /\ b \in Nat /\ b >= 1
    BY <2>1
  <2> HIDE DEF q
  <2>3. q >= 0
    <3> SUFFICES ASSUME q <= -1 PROVE FALSE
      BY <2>2
    <3>1. b * q <= b * (-1)
      BY <2>2
    <3> QED BY <2>2, <3>1
  <2>4. a <= 1000 * b => q <= 1000
    <3> SUFFICES ASSUME a <= 1000 * b, q >= 1001 PROVE FALSE
      BY <2>2
    <3>1. b * 1001 <= b * q
      BY <2>2
    <3> QED BY <2>2, <3>1
  <2>5. q \in Nat
    BY <2>2, <2>3
  <2> QED BY <2>4, <2>5 DEF q
<1>2. \A a \in Int, b \in Nat \ {0} : a \div b \in Int
  OBVIOUS
<1> QED BY <1>1, <1>2

(* The strength of a rule that fires is between the floor and a thousand.  *)
LEMMA StrengthFacts ==
  ASSUME NEW c, NEW n, Weighted(c, n)
  PROVE  Strength(c) \in Strong
<1>0. n \in Nat /\ n >= 1 /\ c \in [1 .. n -> Weights \X Unit] /\ DOMAIN c = 1 .. n
  BY DEF Weighted
<1> DEFINE w == [i \in DOMAIN c |-> c[i][1]]
           u == [i \in DOMAIN c |-> c[i][1] * c[i][2]]
<1>1. ASSUME NEW i \in 1 .. n
      PROVE  /\ w[i] \in Weights /\ u[i] \in Nat /\ u[i] <= 1000 * w[i]
  <2> DEFINE x == c[i][1]
             y == c[i][2]
  <2>1. c[i] \in Weights \X Unit
    BY <1>0
  <2>2. x \in Weights /\ y \in Unit
    BY <2>1
  <2>3. w[i] = x /\ u[i] = x * y
    BY <1>0
  <2> HIDE DEF x, y
  <2>4. x \in Nat /\ y \in Nat /\ y <= 1000
    BY <2>2 DEF Weights, Unit
  <2>5. x * y \in Nat /\ x * y <= 1000 * x
    <3>1. x * y \in Nat /\ x * y <= x * 1000
      BY <2>4, Products
    <3> QED BY <2>4, <3>1
  <2> HIDE DEF w, u
  <2> QED BY <2>2, <2>3, <2>5
<1>2. w \in [1 .. n -> Weights] /\ u \in [1 .. n -> Nat]
  <2>1. w = [i \in 1 .. n |-> w[i]] /\ u = [i \in 1 .. n |-> u[i]]
    BY <1>0
  <2> HIDE DEF w, u
  <2> QED BY <1>1, <2>1
<1>3. Mean(c) = Summed(u) \div Summed(w)
  BY DEF Mean
<1> HIDE DEF w, u
<1> DEFINE a == Summed(u)
           b == Summed(w)
<1>4. b \in Nat /\ a \in Nat /\ b >= n /\ a <= 1000 * b
  <2>1. Scaled(n, w, u)
    BY <1>0, <1>1, <1>2 DEF Scaled
  <2>2. /\ Summed(w) \in Nat /\ Summed(u) \in Nat
        /\ Summed(w) >= n /\ Summed(u) <= 1000 * Summed(w)
    BY <2>1, SumsCompare
  <2> QED BY <2>2
<1> HIDE DEF a, b
<1> DEFINE q == a \div b
<1>5. q \in Nat /\ q <= 1000
  <2>1. b \in Nat \ {0}
    BY <1>0, <1>4
  <2> QED BY <1>4, <2>1, Quotient
<1>6. Mean(c) = q
  BY <1>3 DEF a, b
<1> HIDE DEF q
<1>7. Strength(c) = 150 + (850 * q) \div 1000
  BY <1>6 DEF Strength
<1>8. 850 * q \in Nat /\ 850 * q <= 850 * 1000
  BY <1>5
<1>9. (850 * q) \div 1000 \in Nat /\ (850 * q) \div 1000 <= 850
  <2>1. (850 * q) \div 1000 \in Nat
    BY <1>8, Thousandths
  <2>2. (850 * q) \div 1000 <= (850 * 1000) \div 1000
    BY <1>8, Thousandths
  <2>3. (850 * 1000) \div 1000 = 850
    BY Thousandths
  <2> QED BY <2>1, <2>2, <2>3
<1>10. Strength(c) \in Nat /\ Strength(c) >= 150 /\ Strength(c) <= 1000
  BY <1>7, <1>9
<1> QED BY <1>10 DEF Strong

-----------------------------------------------------------------------------
(* What a rule says.                                                       *)
Verdict(x) ==
  \/ x = NotFired \/ x = Unknown
  \/ x = [status |-> "fired", strength |-> x.strength] /\ x.strength \in Strong

Component == Weights \X Unit
Listed(c) == \E n : Weighted(c, n)
Fit(c) == c = <<>> \/ Listed(c)

(* A rule that fires for a list of components says something.              *)
LEMMA FiredFacts ==
  ASSUME NEW c, Listed(c)
  PROVE  Verdict(Fired(c))
<1>1. PICK n : Weighted(c, n)
  BY DEF Listed
<1> DEFINE s == Strength(c)
<1>2. s \in Strong
  BY <1>1, StrengthFacts
<1> HIDE DEF s
<1>3. Fired(c) = [status |-> "fired", strength |-> s]
  BY DEF Fired, s
<1> QED BY <1>2, <1>3 DEF Verdict

LEMMA Pairs ==
  \A a \in Unit :
    /\ <<3, a>> \in Component /\ <<4, a>> \in Component /\ <<5, a>> \in Component
    /\ <<6, a>> \in Component /\ <<7, a>> \in Component /\ <<8, a>> \in Component
    /\ <<9, a>> \in Component /\ <<10, a>> \in Component
  BY DEF Component, Weights

(* The lists the rules make.                                               *)
LEMMA Lists ==
  /\ \A a \in Component : Listed(<<a>>)
  /\ \A a, b \in Component : Listed(<<a, b>>)
  /\ \A a, b, c, d \in Component : Listed(<<a, b, c, d>>)
  /\ \A a, b, c, d, e \in Component : Listed(<<a, b, c, d, e>>)
<1>1. ASSUME NEW a \in Component PROVE Listed(<<a>>)
  <2>1. <<a>> \in [1 .. 1 -> Component]
    OBVIOUS
  <2> QED BY <2>1 DEF Listed, Weighted, Component
<1>2. ASSUME NEW a \in Component, NEW b \in Component PROVE Listed(<<a, b>>)
  <2>1. <<a, b>> \in [1 .. 2 -> Component]
    OBVIOUS
  <2> QED BY <2>1 DEF Listed, Weighted, Component
<1>3. ASSUME NEW a \in Component, NEW b \in Component, NEW c \in Component, NEW d \in Component
      PROVE  Listed(<<a, b, c, d>>)
  <2>1. <<a, b, c, d>> \in [1 .. 4 -> Component]
    OBVIOUS
  <2> QED BY <2>1 DEF Listed, Weighted, Component
<1>4. ASSUME NEW a \in Component, NEW b \in Component, NEW c \in Component, NEW d \in Component,
             NEW e \in Component
      PROVE  Listed(<<a, b, c, d, e>>)
  <2>1. <<a, b, c, d, e>> \in [1 .. 5 -> Component]
    OBVIOUS
  <2> QED BY <2>1 DEF Listed, Weighted, Component
<1> QED BY <1>1, <1>2, <1>3, <1>4

(* Lists joined are lists.                                                 *)
LEMMA Joins ==
  ASSUME NEW c, NEW d, Fit(c), Fit(d)
  PROVE  Fit(c \o d) /\ (Listed(c) => Listed(c \o d)) /\ (Listed(d) => Listed(c \o d))
<1>0. ASSUME NEW x, Listed(x)
      PROVE  \E n \in Nat : n >= 1 /\ x \in [1 .. n -> Component] /\ x \in Seq(Component) /\ Len(x) = n
  <2>1. PICK n : Weighted(x, n)
    BY <1>0 DEF Listed
  <2>2. n \in Nat /\ n >= 1 /\ x \in [1 .. n -> Component]
    BY <2>1 DEF Weighted, Component
  <2>3. x \in Seq(Component) /\ Len(x) = n
    BY <2>2
  <2> QED BY <2>2, <2>3
<1>1. ASSUME Listed(c), Listed(d) PROVE Listed(c \o d)
  <2>1. PICK n \in Nat : n >= 1 /\ c \in [1 .. n -> Component] /\ c \in Seq(Component) /\ Len(c) = n
    BY <1>0, <1>1
  <2>2. PICK m \in Nat : m >= 1 /\ d \in [1 .. m -> Component] /\ d \in Seq(Component) /\ Len(d) = m
    BY <1>0, <1>1
  <2>3. c \o d \in Seq(Component) /\ Len(c \o d) = n + m
    BY <2>1, <2>2
  <2> DEFINE k == n + m
             s == c \o d
  <2>4. k \in Nat /\ k >= 1 /\ s \in Seq(Component) /\ Len(s) = k
    BY <2>1, <2>2, <2>3
  <2> HIDE DEF k, s
  <2>5. s \in [1 .. k -> Component]
    BY <2>4
  <2>6. Weighted(s, k)
    BY <2>4, <2>5 DEF Weighted, Component
  <2>7. Listed(s)
    BY <2>6 DEF Listed
  <2> QED BY <2>7 DEF s
<1>2. CASE c = <<>>
  <2>1. <<>> \o d = d
    <3>1. CASE d = <<>>
      BY <3>1
    <3>2. CASE Listed(d)
      <4>1. d \in Seq(Component)
        BY <1>0, <3>2
      <4> QED BY <4>1
    <3> QED BY <3>1, <3>2 DEF Fit
  <2>2. ~ Listed(c)
    <3> SUFFICES ASSUME Listed(c) PROVE FALSE
      OBVIOUS
    <3>1. PICK n \in Nat : n >= 1 /\ Len(c) = n
      BY <1>0
    <3> QED BY <1>2, <3>1
  <2> QED BY <1>2, <2>1, <2>2
<1>3. CASE Listed(c)
  <2>1. CASE d = <<>>
    <3>1. c \in Seq(Component)
      BY <1>0, <1>3
    <3>2. c \o <<>> = c
      BY <3>1
    <3> QED BY <1>3, <2>1, <3>2 DEF Fit
  <2>2. CASE Listed(d)
    BY <1>1, <1>3, <2>2 DEF Fit
  <2> QED BY <2>1, <2>2 DEF Fit
<1> QED BY <1>2, <1>3 DEF Fit

(* What is clamped is within a thousand.                                   *)
LEMMA ClampFacts == \A n \in Int : Clamp(n) \in Unit
  BY DEF Clamp, Unit

(* And so is what saturates.                                               *)
LEMMA SaturateFacts ==
  \A seen \in Nat, threshold \in Nat \ {0} :
    Saturate(seen, threshold) \in Unit /\ SaturateInverse(seen, threshold) \in Unit
<1> SUFFICES ASSUME NEW seen \in Nat, NEW threshold \in Nat \ {0}
    PROVE  Saturate(seen, threshold) \in Unit /\ SaturateInverse(seen, threshold) \in Unit
  OBVIOUS
<1>1. Saturate(seen, threshold) \in Unit
  <2> DEFINE a == 1000 * (seen - threshold)
             b == 2 * threshold
  <2>1. a \in Int /\ b \in Nat \ {0}
    OBVIOUS
  <2>2. Saturate(seen, threshold) = Clamp(a \div b)
    BY DEF Saturate
  <2> HIDE DEF a, b
  <2>3. a \div b \in Int
    BY <2>1, Quotient
  <2> QED BY <2>2, <2>3, ClampFacts
<1>2. CASE seen = 0
  <2>1. SaturateInverse(seen, threshold) = 1000
    BY <1>2 DEF SaturateInverse
  <2> QED BY <1>1, <2>1 DEF Unit
<1>3. CASE seen # 0
  <2> DEFINE a == 1000 * (threshold - seen)
             b == 2 * seen
  <2>1. a \in Int /\ b \in Nat \ {0}
    BY <1>3
  <2>2. SaturateInverse(seen, threshold) = Clamp(a \div b)
    BY <1>3 DEF SaturateInverse
  <2> HIDE DEF a, b
  <2>3. a \div b \in Int
    BY <2>1, Quotient
  <2> QED BY <1>1, <2>2, <2>3, ClampFacts
<1> QED BY <1>2, <1>3

(* A rate is unknown, or a number, of a part within a thousand.            *)
LEMMA RateFacts ==
  \A part, whole \in Nat :
    /\ Rate(part, whole) # Null => Rate(part, whole) \in Nat
    /\ part <= whole /\ Rate(part, whole) # Null => Rate(part, whole) \in Unit
<1> SUFFICES ASSUME NEW part \in Nat, NEW whole \in Nat
    PROVE  /\ Rate(part, whole) # Null => Rate(part, whole) \in Nat
           /\ part <= whole /\ Rate(part, whole) # Null => Rate(part, whole) \in Unit
  OBVIOUS
<1>1. CASE whole = 0
  BY <1>1 DEF Rate
<1>2. CASE whole # 0
  <2> DEFINE a == 1000 * part
             q == a \div whole
  <2>1. a \in Nat /\ whole \in Nat \ {0} /\ (part <= whole => a <= 1000 * whole)
    BY <1>2
  <2>2. Rate(part, whole) = q
    BY <1>2 DEF Rate
  <2>3. q \in Nat /\ (part <= whole => q <= 1000)
    <3> HIDE DEF a
    <3> QED BY <2>1, Quotient
  <2> HIDE DEF q
  <2> QED BY <2>2, <2>3 DEF Unit
<1> QED BY <1>1, <1>2

(* The features that are always known.                                     *)
LEMMA Counts ==
  ASSUME NEW v \in Snapshot
  PROVE  /\ v.pairFailures \in Nat /\ v.pairAttempts \in Nat /\ v.userFailures \in Nat
         /\ v.sourceUsers \in Nat /\ v.consecutive \in Nat /\ v.blocked \in Nat
         /\ v.pairBurst \in Nat /\ v.userBurst \in Nat /\ v.hourUsers \in Nat
         /\ v.hourFailures \in Nat /\ v.hourAttempts \in Nat /\ v.hourSuccesses \in Nat
         /\ v.hourDevices \in Nat /\ v.hourAgents \in Nat /\ v.hourUserSources \in Nat
         /\ v.hourUserFailures \in Nat /\ v.hourUserAttempts \in Nat
         /\ v.hourPairAttempts \in Nat /\ v.quarterAttempts \in Nat
         /\ v.quarterUserAttempts \in Nat /\ v.mfaFailures \in Nat /\ v.challenges \in Nat
         /\ v.otherNew \in 0 .. 3 /\ v.deviations \in 0 .. 4
         /\ v.baseline \in BOOLEAN /\ v.newDevice \in BOOLEAN /\ v.newCountry \in BOOLEAN
  BY DEF Snapshot

(* The features that may be unknown.                                       *)
LEMMA Unknowns ==
  ASSUME NEW v \in Snapshot
  PROVE  /\ v.gap # Null => v.gap \in Nat
         /\ v.since # Null => v.since \in Nat
         /\ v.distance # Null => v.distance \in Nat
         /\ v.velocity # Null => v.velocity \in Nat
         /\ v.cov # Null => v.cov \in Nat
         /\ v.mean # Null => v.mean \in Nat
  BY DEF Snapshot, Maybe

(* The thresholds the proofs need as numbers.                              *)
LEMMA Thresholds ==
  /\ BF1.pair = 8 /\ BF1.user = 8 /\ BF1.consecutive = 5 /\ BF1.gap = 60 /\ BF1.blocked = 2
  /\ BF2.pair = 6 /\ BF2.user = 8 /\ BF2.since = 300
  /\ PS1.users = 15 /\ PS1.failures = 15 /\ PS1.each = 3000
  /\ CS1.users = 10 /\ CS1.failures = 10 /\ CS1.devices = 3 /\ CS1.agents = 3 /\ CS1.each = 4000
  /\ DBF1.sources = 8 /\ DBF1.failures = 20 /\ DBF1.pair = 5 /\ DBF1.users = 3
  /\ ATO1.novel = 2 /\ GEO1.distance = 500 /\ GEO1.velocity = 900
  /\ BOT1.attempts = 20 /\ BOT1.cov = 150 /\ BOT1.mean = 120 /\ BOT1.agents = 2
  /\ MFA1.failures = 4 /\ MFA1.challenges = 4
<1>1. BF1.pair = 8 /\ BF1.user = 8 /\ BF1.consecutive = 5 /\ BF1.gap = 60 /\ BF1.blocked = 2
  BY DEF BF1
<1>2. BF2.pair = 6 /\ BF2.user = 8 /\ BF2.since = 300
  BY DEF BF2
<1>3. PS1.users = 15 /\ PS1.failures = 15 /\ PS1.each = 3000
  BY DEF PS1
<1>4. CS1.users = 10 /\ CS1.failures = 10 /\ CS1.devices = 3 /\ CS1.agents = 3 /\ CS1.each = 4000
  BY DEF CS1
<1>5. DBF1.sources = 8 /\ DBF1.failures = 20 /\ DBF1.pair = 5 /\ DBF1.users = 3
  BY DEF DBF1
<1>6. ATO1.novel = 2 /\ GEO1.distance = 500 /\ GEO1.velocity = 900
  BY DEF ATO1, GEO1
<1>7. BOT1.attempts = 20 /\ BOT1.cov = 150 /\ BOT1.mean = 120 /\ BOT1.agents = 2
  BY DEF BOT1
<1>8. MFA1.failures = 4 /\ MFA1.challenges = 4
  BY DEF MFA1
<1> QED BY <1>1, <1>2, <1>3, <1>4, <1>5, <1>6, <1>7, <1>8

(* How far anything is beyond a threshold.                                 *)
LEMMA Beyond ==
  /\ \A n \in Nat : /\ Saturate(n, BF1.pair) \in Unit /\ Saturate(n, BF1.user) \in Unit
                    /\ Saturate(n, BF1.consecutive) \in Unit
                    /\ SaturateInverse(n, BF1.gap) \in Unit /\ Saturate(n, BF1.blocked) \in Unit
  /\ \A n \in Nat : /\ Saturate(n, BF2.pair) \in Unit /\ Saturate(n, BF2.user) \in Unit
                    /\ SaturateInverse(n, BF2.since) \in Unit
  /\ \A n \in Nat : /\ Saturate(n, PS1.users) \in Unit /\ Saturate(n, PS1.failures) \in Unit
                    /\ SaturateInverse(n, PS1.each) \in Unit
  /\ \A n \in Nat : /\ Saturate(n, CS1.users) \in Unit /\ Saturate(n, CS1.failures) \in Unit
                    /\ Saturate(n, CS1.devices) \in Unit /\ Saturate(n, CS1.agents) \in Unit
                    /\ SaturateInverse(n, CS1.each) \in Unit
  /\ \A n \in Nat : /\ Saturate(n, DBF1.sources) \in Unit /\ Saturate(n, DBF1.failures) \in Unit
                    /\ SaturateInverse(n, DBF1.pair) \in Unit
  /\ \A n \in Nat : /\ Saturate(n, ATO1.novel) \in Unit /\ Saturate(n, GEO1.velocity) \in Unit
                    /\ Saturate(n, GEO1.distance) \in Unit
  /\ \A n \in Nat : /\ Saturate(n, BOT1.attempts) \in Unit /\ SaturateInverse(n, BOT1.cov) \in Unit
                    /\ SaturateInverse(n, BOT1.mean) \in Unit
                    /\ SaturateInverse(n, BOT1.agents) \in Unit
  /\ \A n \in Nat : /\ Saturate(n, MFA1.failures) \in Unit
                    /\ Saturate(n, MFA1.challenges) \in Unit
<1>1. \A t \in Nat \ {0}, n \in Nat : Saturate(n, t) \in Unit /\ SaturateInverse(n, t) \in Unit
  BY SaturateFacts
<1>2. /\ BF1.pair \in Nat \ {0} /\ BF1.user \in Nat \ {0} /\ BF1.consecutive \in Nat \ {0}
      /\ BF1.gap \in Nat \ {0} /\ BF1.blocked \in Nat \ {0} /\ BF2.pair \in Nat \ {0}
      /\ BF2.user \in Nat \ {0} /\ BF2.since \in Nat \ {0}
  BY Thresholds
<1>3. /\ PS1.users \in Nat \ {0} /\ PS1.failures \in Nat \ {0} /\ PS1.each \in Nat \ {0}
      /\ CS1.users \in Nat \ {0} /\ CS1.failures \in Nat \ {0} /\ CS1.devices \in Nat \ {0}
      /\ CS1.agents \in Nat \ {0} /\ CS1.each \in Nat \ {0}
  BY Thresholds
<1>4. /\ DBF1.sources \in Nat \ {0} /\ DBF1.failures \in Nat \ {0} /\ DBF1.pair \in Nat \ {0}
      /\ ATO1.novel \in Nat \ {0} /\ GEO1.distance \in Nat \ {0} /\ GEO1.velocity \in Nat \ {0}
  BY Thresholds
<1>5. /\ BOT1.attempts \in Nat \ {0} /\ BOT1.cov \in Nat \ {0} /\ BOT1.mean \in Nat \ {0}
      /\ BOT1.agents \in Nat \ {0} /\ MFA1.failures \in Nat \ {0} /\ MFA1.challenges \in Nat \ {0}
  BY Thresholds
<1> QED BY <1>1, <1>2, <1>3, <1>4, <1>5, Zenon

(* Each of the nine rules says something.                                  *)
LEMMA ConcentratedSays ==
  ASSUME NEW v \in Snapshot, Coherent(v)
  PROVE  Verdict(Concentrated(v))
<1> DEFINE rate == Rate(v.pairFailures, v.pairAttempts)
           a == <<10, Saturate(v.pairFailures, BF1.pair)>>
           b == <<8, Saturate(v.userFailures, BF1.user)>>
           c == <<6, rate>>
           d == <<8, Saturate(v.consecutive, BF1.consecutive)>>
           e == When(v.gap # Null /\ v.gap <= BF1.gap, <<4, SaturateInverse(v.gap, BF1.gap)>>)
           f == When(v.blocked >= BF1.blocked, <<3, Saturate(v.blocked, BF1.blocked)>>)
<1>1. a \in Component /\ b \in Component /\ d \in Component
  BY Counts, Beyond, Pairs
<1>2. rate # Null => c \in Component
  <2>1. v.pairFailures <= v.pairAttempts
    BY DEF Coherent
  <2>2. rate # Null => rate \in Unit
    BY <2>1, Counts, RateFacts
  <2> HIDE DEF rate
  <2> QED BY <2>2, Pairs
<1>3. Fit(e)
  <2>1. v.gap # Null => <<4, SaturateInverse(v.gap, BF1.gap)>> \in Component
    BY Unknowns, Beyond, Pairs
  <2> QED BY <2>1, Lists DEF Fit, When
<1>4. Fit(f)
  <2>1. <<3, Saturate(v.blocked, BF1.blocked)>> \in Component
    BY Counts, Beyond, Pairs
  <2> QED BY <2>1, Lists DEF Fit, When
<1>5. \/ Concentrated(v) = Unknown \/ Concentrated(v) = NotFired
      \/ rate # Null /\ Concentrated(v) = Fired((<<a, b, c, d>> \o e) \o f)
  BY DEF Concentrated
<1> HIDE DEF rate, a, b, c, d, e, f
<1>6. CASE rate # Null
  <2> DEFINE l == <<a, b, c, d>>
  <2>1. Listed(l)
    BY <1>1, <1>2, <1>6, Lists
  <2> HIDE DEF l
  <2>2. Fit(l)
    BY <2>1 DEF Fit
  <2>3. Fit(l \o e) /\ Listed(l \o e)
    BY <1>3, <2>1, <2>2, Joins
  <2>4. Listed((l \o e) \o f)
    BY <1>4, <2>3, Joins
  <2>5. Verdict(Fired((l \o e) \o f))
    BY <2>4, FiredFacts
  <2> QED BY <1>5, <2>5 DEF Verdict, l
<1>7. CASE ~ (rate # Null)
  BY <1>5, <1>7 DEF Verdict
<1> QED BY <1>6, <1>7

LEMMA SuccessAfterBurstSays ==
  ASSUME NEW v \in Snapshot
  PROVE  Verdict(SuccessAfterBurst(v))
<1> DEFINE a == When(v.pairBurst >= BF2.pair, <<10, Saturate(v.pairBurst, BF2.pair)>>)
           b == When(v.userBurst >= BF2.user, <<10, Saturate(v.userBurst, BF2.user)>>)
           c == <<5, SaturateInverse(v.since, BF2.since)>>
<1>1. Fit(a)
  <2>1. <<10, Saturate(v.pairBurst, BF2.pair)>> \in Component
    BY Counts, Beyond, Pairs
  <2> QED BY <2>1, Lists DEF Fit, When
<1>2. Fit(b)
  <2>1. <<10, Saturate(v.userBurst, BF2.user)>> \in Component
    BY Counts, Beyond, Pairs
  <2> QED BY <2>1, Lists DEF Fit, When
<1>3. v.since # Null => c \in Component
  BY Unknowns, Beyond, Pairs
<1>4. \/ SuccessAfterBurst(v) = Unknown \/ SuccessAfterBurst(v) = NotFired
      \/ v.since # Null /\ SuccessAfterBurst(v) = Fired((a \o b) \o <<c>>)
  BY DEF SuccessAfterBurst
<1> HIDE DEF a, b, c
<1>5. CASE v.since # Null
  <2> DEFINE l == <<c>>
  <2>1. Listed(l)
    BY <1>3, <1>5, Lists
  <2> HIDE DEF l
  <2>2. Fit(a \o b)
    BY <1>1, <1>2, Joins
  <2>3. Listed((a \o b) \o l)
    BY <2>1, <2>2, Joins DEF Fit
  <2>4. Verdict(Fired((a \o b) \o l))
    BY <2>3, FiredFacts
  <2> QED BY <1>4, <2>4 DEF Verdict, l
<1>6. CASE ~ (v.since # Null)
  BY <1>4, <1>6 DEF Verdict
<1> QED BY <1>5, <1>6

LEMMA SprayingSays ==
  ASSUME NEW v \in Snapshot, Coherent(v)
  PROVE  Verdict(Spraying(v))
<1> DEFINE rate == Rate(v.hourFailures, v.hourAttempts)
           each == Rate(v.hourAttempts, v.hourUsers)
           a == <<10, Saturate(v.hourUsers, PS1.users)>>
           b == <<8, Saturate(v.hourFailures, PS1.failures)>>
           c == <<6, rate>>
           d == <<6, SaturateInverse(each, PS1.each)>>
<1>1. a \in Component /\ b \in Component
  BY Counts, Beyond, Pairs
<1>2. rate # Null => c \in Component
  <2>1. v.hourFailures <= v.hourAttempts
    BY Counts DEF Coherent
  <2>2. rate # Null => rate \in Unit
    BY <2>1, Counts, RateFacts
  <2> HIDE DEF rate
  <2> QED BY <2>2, Pairs
<1>3. each # Null => d \in Component
  <2>1. each # Null => each \in Nat
    BY Counts, RateFacts
  <2> HIDE DEF each
  <2> QED BY <2>1, Beyond, Pairs
<1>4. \/ Spraying(v) = Unknown \/ Spraying(v) = NotFired
      \/ rate # Null /\ each # Null /\ Spraying(v) = Fired(<<a, b, c, d>>)
  BY DEF Spraying
<1> HIDE DEF rate, each, a, b, c, d
<1>5. CASE rate # Null /\ each # Null
  <2>1. Verdict(Fired(<<a, b, c, d>>))
    BY <1>1, <1>2, <1>3, <1>5, Lists, FiredFacts
  <2> QED BY <1>4, <2>1 DEF Verdict
<1>6. CASE ~ (rate # Null /\ each # Null)
  BY <1>4, <1>6 DEF Verdict
<1> QED BY <1>5, <1>6

LEMMA StuffingSays ==
  ASSUME NEW v \in Snapshot
  PROVE  Verdict(Stuffing(v))
<1> DEFINE each == Rate(v.hourAttempts, v.hourUsers)
           diversity == IF v.hourDevices >= CS1.devices THEN Saturate(v.hourDevices, CS1.devices)
                        ELSE Saturate(v.hourAgents, CS1.agents)
           new == 500 * (OneIf(v.newDevice) + OneIf(v.newCountry))
           a == <<10, Saturate(v.hourUsers, CS1.users)>>
           b == <<8, Saturate(v.hourFailures, CS1.failures)>>
           c == <<6, diversity>>
           d == <<6, SaturateInverse(each, CS1.each)>>
           e == <<7, new>>
<1>1. a \in Component /\ b \in Component
  BY Counts, Beyond, Pairs
<1>2. c \in Component
  <2>1. diversity \in Unit
    BY Counts, Beyond
  <2> HIDE DEF diversity
  <2> QED BY <2>1, Pairs
<1>3. each # Null => d \in Component
  <2>1. each # Null => each \in Nat
    BY Counts, RateFacts
  <2> HIDE DEF each
  <2> QED BY <2>1, Beyond, Pairs
<1>4. e \in Component
  <2>1. new \in Unit
    BY DEF OneIf, Unit
  <2> HIDE DEF new
  <2> QED BY <2>1, Pairs
<1>5. \/ Stuffing(v) = Unknown \/ Stuffing(v) = NotFired
      \/ each # Null /\ Stuffing(v) = Fired(<<a, b, c, d, e>>)
  BY DEF Stuffing
<1> HIDE DEF each, a, b, c, d, e
<1>6. CASE each # Null
  <2>1. Verdict(Fired(<<a, b, c, d, e>>))
    BY <1>1, <1>2, <1>3, <1>4, <1>6, Lists, FiredFacts
  <2> QED BY <1>5, <2>1 DEF Verdict
<1>7. CASE ~ (each # Null)
  BY <1>5, <1>7 DEF Verdict
<1> QED BY <1>6, <1>7

LEMMA DistributedSays ==
  ASSUME NEW v \in Snapshot, Coherent(v)
  PROVE  Verdict(Distributed(v))
<1> DEFINE rate == Rate(v.hourUserFailures, v.hourUserAttempts)
           a == <<10, Saturate(v.hourUserSources, DBF1.sources)>>
           b == <<9, Saturate(v.hourUserFailures, DBF1.failures)>>
           c == <<6, rate>>
           d == <<6, SaturateInverse(v.hourPairAttempts, DBF1.pair)>>
<1>1. a \in Component /\ b \in Component /\ d \in Component
  BY Counts, Beyond, Pairs
<1>2. rate # Null => c \in Component
  <2>1. v.hourUserFailures <= v.hourUserAttempts
    BY DEF Coherent
  <2>2. rate # Null => rate \in Unit
    BY <2>1, Counts, RateFacts
  <2> HIDE DEF rate
  <2> QED BY <2>2, Pairs
<1>3. \/ Distributed(v) = Unknown \/ Distributed(v) = NotFired
      \/ rate # Null /\ Distributed(v) = Fired(<<a, b, c, d>>)
  BY DEF Distributed
<1> HIDE DEF rate, a, b, c, d
<1>4. CASE rate # Null
  <2>1. Verdict(Fired(<<a, b, c, d>>))
    BY <1>1, <1>2, <1>4, Lists, FiredFacts
  <2> QED BY <1>3, <2>1 DEF Verdict
<1>5. CASE ~ (rate # Null)
  BY <1>3, <1>5 DEF Verdict
<1> QED BY <1>4, <1>5

LEMMA TakeoverSays ==
  ASSUME NEW v \in Snapshot
  PROVE  Verdict(Takeover(v))
<1> DEFINE novel == OneIf(v.newDevice) + OneIf(v.newCountry) + v.otherNew
           supporting == v.deviations + OneIf(v.userBurst >= ATO1.failures)
                         + OneIf(v.mfa \in {"failed", "bypassed"})
           a == <<10, Saturate(novel, ATO1.novel)>>
           b == <<8, (1000 * supporting) \div 6>>
<1>1. a \in Component
  <2>1. novel \in Nat
    BY Counts DEF OneIf
  <2> HIDE DEF novel
  <2> QED BY <2>1, Beyond, Pairs
<1>2. b \in Component
  <2>1. supporting \in 0 .. 6
    <3> DEFINE x == OneIf(v.userBurst >= ATO1.failures)
               y == OneIf(v.mfa \in {"failed", "bypassed"})
    <3>1. x \in 0 .. 1 /\ y \in 0 .. 1
      BY DEF OneIf
    <3>2. v.deviations \in 0 .. 4
      BY Counts
    <3> HIDE DEF x, y
    <3>3. v.deviations + x + y \in 0 .. 6
      BY <3>1, <3>2
    <3> QED BY <3>3 DEF x, y
  <2> HIDE DEF supporting
  <2>2. (1000 * supporting) \div 6 \in Unit
    <3> DEFINE n == 1000 * supporting
    <3>1. PICK k : k = 6
      OBVIOUS
    <3>2. n \in Nat /\ n <= 1000 * k /\ k \in Nat \ {0}
      BY <2>1, <3>1
    <3> HIDE DEF n
    <3>3. n \div k \in Nat /\ n \div k <= 1000
      BY <3>2, Quotient
    <3>4. n \div 6 \in Nat /\ n \div 6 <= 1000
      BY <3>1, <3>3
    <3> DEFINE m == n \div 6
    <3>5. m \in Nat /\ m <= 1000
      BY <3>4
    <3> HIDE DEF m
    <3>6. m \in Unit
      BY <3>5 DEF Unit
    <3> QED BY <3>6, Zenon DEF m, n
  <2> DEFINE q == (1000 * supporting) \div 6
  <2>3. q \in Unit
    BY <2>2
  <2> HIDE DEF q
  <2>4. <<8, q>> \in Component
    BY <2>3, Pairs
  <2> QED BY <2>4 DEF q
<1>3. \/ Takeover(v) = Unknown \/ Takeover(v) = NotFired \/ Takeover(v) = Fired(<<a, b>>)
  BY DEF Takeover
<1> HIDE DEF a, b
<1>4. Verdict(Fired(<<a, b>>))
  BY <1>1, <1>2, Lists, FiredFacts
<1> QED BY <1>3, <1>4 DEF Verdict

LEMMA TravelSays ==
  ASSUME NEW v \in Snapshot, NEW p
  PROVE  Verdict(Travel(v, p))
<1> DEFINE a == <<10, Saturate(v.velocity, GEO1.velocity)>>
           b == <<5, Saturate(v.distance, GEO1.distance)>>
           c == <<10, 1000>>
<1>1. v.velocity # Null => a \in Component
  BY Unknowns, Beyond, Pairs
<1>2. v.distance # Null => b \in Component
  BY Unknowns, Beyond, Pairs
<1>3. c \in Component
  <2>1. PICK k : k = 1000
    OBVIOUS
  <2>2. k \in Unit
    BY <2>1 DEF Unit
  <2>3. <<10, k>> \in Component
    BY <2>2, Pairs
  <2> QED BY <2>1, <2>3
<1>4. \/ Travel(v, p) = Unknown \/ Travel(v, p) = NotFired \/ Travel(v, p) = Fired(<<c>>)
      \/ v.velocity # Null /\ v.distance # Null /\ Travel(v, p) = Fired(<<a, b>>)
  BY DEF Travel
<1> HIDE DEF a, b, c
<1>5. Verdict(Fired(<<c>>))
  BY <1>3, Lists, FiredFacts
<1>6. CASE v.velocity # Null /\ v.distance # Null
  <2>1. Verdict(Fired(<<a, b>>))
    BY <1>1, <1>2, <1>6, Lists, FiredFacts
  <2> QED BY <1>4, <1>5, <2>1 DEF Verdict
<1>7. CASE ~ (v.velocity # Null /\ v.distance # Null)
  BY <1>4, <1>5, <1>7 DEF Verdict
<1> QED BY <1>6, <1>7

LEMMA AutomatedSays ==
  ASSUME NEW v \in Snapshot
  PROVE  Verdict(Automated(v))
<1> DEFINE a == <<8, Saturate(v.quarterAttempts, BOT1.attempts)>>
           b == <<10, SaturateInverse(v.cov, BOT1.cov)>>
           c == <<5, SaturateInverse(v.mean, BOT1.mean)>>
           d == <<5, SaturateInverse(v.hourAgents, BOT1.agents)>>
<1>1. a \in Component /\ d \in Component
  BY Counts, Beyond, Pairs
<1>2. (v.cov # Null => b \in Component) /\ (v.mean # Null => c \in Component)
  BY Unknowns, Beyond, Pairs
<1>3. \/ Automated(v) = Unknown \/ Automated(v) = NotFired
      \/ v.cov # Null /\ v.mean # Null /\ Automated(v) = Fired(<<a, b, c, d>>)
  BY DEF Automated
<1> HIDE DEF a, b, c, d
<1>4. CASE v.cov # Null /\ v.mean # Null
  <2>1. Verdict(Fired(<<a, b, c, d>>))
    BY <1>1, <1>2, <1>4, Lists, FiredFacts
  <2> QED BY <1>3, <2>1 DEF Verdict
<1>5. CASE ~ (v.cov # Null /\ v.mean # Null)
  BY <1>3, <1>5 DEF Verdict
<1> QED BY <1>4, <1>5

LEMMA SessionAnomalySays ==
  ASSUME NEW v \in Snapshot
  PROVE  Verdict(SessionAnomaly(v))
<1> DEFINE a == <<10, Saturate(v.mfaFailures, MFA1.failures)>>
           b == <<8, Saturate(v.challenges, MFA1.challenges)>>
           x == When(v.mfaFailures >= MFA1.failures, a)
           y == When(v.challenges >= MFA1.challenges, b)
<1>1. a \in Component /\ b \in Component
  BY Counts, Beyond, Pairs
<1>2. Fit(x) /\ Fit(y)
  <2> HIDE DEF a, b
  <2> QED BY <1>1, Lists DEF Fit, When
<1>3. \/ SessionAnomaly(v) = Unknown \/ SessionAnomaly(v) = NotFired
      \/ (Listed(x) \/ Listed(y)) /\ SessionAnomaly(v) = Fired(x \o y)
  <2>1. v.mfaFailures >= MFA1.failures => Listed(x)
    <3> HIDE DEF a
    <3> QED BY <1>1, Lists DEF When
  <2>2. v.challenges >= MFA1.challenges => Listed(y)
    <3> HIDE DEF b
    <3> QED BY <1>1, Lists DEF When
  <2>3. ~ (v.mfaFailures < MFA1.failures /\ v.challenges < MFA1.challenges)
          => v.mfaFailures >= MFA1.failures \/ v.challenges >= MFA1.challenges
    BY Counts, Thresholds
  <2>4. \/ SessionAnomaly(v) = Unknown \/ SessionAnomaly(v) = NotFired
        \/ /\ ~ (v.mfaFailures < MFA1.failures /\ v.challenges < MFA1.challenges)
           /\ SessionAnomaly(v) = Fired(x \o y)
    BY DEF SessionAnomaly
  <2> HIDE DEF x, y
  <2> QED BY <2>1, <2>2, <2>3, <2>4
<1> HIDE DEF x, y
<1>4. CASE Listed(x) \/ Listed(y)
  <2>1. Listed(x \o y)
    BY <1>2, <1>4, Joins
  <2>2. Verdict(Fired(x \o y))
    BY <2>1, FiredFacts
  <2> QED BY <1>3, <2>2 DEF Verdict
<1>5. CASE ~ (Listed(x) \/ Listed(y))
  BY <1>3, <1>5 DEF Verdict
<1> QED BY <1>4, <1>5

(* Each rule has its own word.                                             *)
LEMMA EvaluatedIs ==
  ASSUME NEW v, NEW p
  PROVE  /\ Evaluated(BF1, v, p) = Concentrated(v) /\ Evaluated(BF2, v, p) = SuccessAfterBurst(v)
         /\ Evaluated(PS1, v, p) = Spraying(v) /\ Evaluated(CS1, v, p) = Stuffing(v)
         /\ Evaluated(DBF1, v, p) = Distributed(v) /\ Evaluated(ATO1, v, p) = Takeover(v)
         /\ Evaluated(GEO1, v, p) = Travel(v, p) /\ Evaluated(BOT1, v, p) = Automated(v)
         /\ Evaluated(MFA1, v, p) = SessionAnomaly(v)
<1>1. /\ BF1 # BF2 /\ BF1 # PS1 /\ BF1 # CS1 /\ BF1 # DBF1 /\ BF1 # ATO1 /\ BF1 # GEO1
      /\ BF1 # BOT1 /\ BF1 # MFA1
  BY IdsDiffer
<1>2. /\ BF2 # PS1 /\ BF2 # CS1 /\ BF2 # DBF1 /\ BF2 # ATO1 /\ BF2 # GEO1
      /\ BF2 # BOT1 /\ BF2 # MFA1
  BY IdsDiffer
<1>3. PS1 # CS1 /\ PS1 # DBF1 /\ PS1 # ATO1 /\ PS1 # GEO1 /\ PS1 # BOT1 /\ PS1 # MFA1
  BY IdsDiffer
<1>4. CS1 # DBF1 /\ CS1 # ATO1 /\ CS1 # GEO1 /\ CS1 # BOT1 /\ CS1 # MFA1
  BY IdsDiffer
<1>5. /\ DBF1 # ATO1 /\ DBF1 # GEO1 /\ DBF1 # BOT1 /\ DBF1 # MFA1
      /\ ATO1 # GEO1 /\ ATO1 # BOT1 /\ ATO1 # MFA1
      /\ GEO1 # BOT1 /\ GEO1 # MFA1 /\ BOT1 # MFA1
  BY IdsDiffer
<1> QED BY <1>1, <1>2, <1>3, <1>4, <1>5 DEF Evaluated

(* Whatever the rule, it says something.                                   *)
LEMMA EvaluatedSays ==
  ASSUME NEW v \in Snapshot, Coherent(v), NEW p, NEW r \in Rule
  PROVE  Verdict(Evaluated(r, v, p))
<1>1. /\ Verdict(Evaluated(BF1, v, p)) /\ Verdict(Evaluated(BF2, v, p))
      /\ Verdict(Evaluated(PS1, v, p))
  BY EvaluatedIs, ConcentratedSays, SuccessAfterBurstSays, SprayingSays
<1>2. /\ Verdict(Evaluated(CS1, v, p)) /\ Verdict(Evaluated(DBF1, v, p))
      /\ Verdict(Evaluated(ATO1, v, p))
  BY EvaluatedIs, StuffingSays, DistributedSays, TakeoverSays
<1>3. /\ Verdict(Evaluated(GEO1, v, p)) /\ Verdict(Evaluated(BOT1, v, p))
      /\ Verdict(Evaluated(MFA1, v, p))
  BY EvaluatedIs, TravelSays, AutomatedSays, SessionAnomalySays
<1> QED BY <1>1, <1>2, <1>3 DEF Rule

-----------------------------------------------------------------------------
(* Who sees many sources on one account sees few attempts of this source   *)
(* and few accounts; who sees one source sees many of either.              *)
Fires(r, v, p) == Evaluated(r, v, p).status = "fired"

(* The distributed rule fires with none of the three.                      *)
LEMMA RulesApart ==
  ASSUME NEW v \in Snapshot, Coherent(v), NEW p, Fires(DBF1, v, p)
  PROVE  ~ Fires(BF1, v, p) /\ ~ Fires(PS1, v, p) /\ ~ Fires(CS1, v, p)
<1>0. NotFired.status # "fired" /\ Unknown.status # "fired"
  BY DEF NotFired, Unknown
<1>1. v.hourPairAttempts <= 5 /\ v.hourUsers <= 3
  <2>1. Distributed(v).status = "fired"
    BY EvaluatedIs DEF Fires
  <2>2. ~ (v.hourPairAttempts > DBF1.pair) /\ ~ (v.hourUsers > DBF1.users)
    BY <1>0, <2>1 DEF Distributed
  <2> QED BY <2>2, Counts, Thresholds
<1>2. ~ Fires(BF1, v, p)
  <2> SUFFICES ASSUME Fires(BF1, v, p) PROVE FALSE
    OBVIOUS
  <2>1. Concentrated(v).status = "fired"
    BY EvaluatedIs DEF Fires
  <2>2. ~ (v.pairFailures < BF1.pair)
    BY <1>0, <2>1 DEF Concentrated
  <2>3. v.pairFailures <= v.pairAttempts /\ v.pairAttempts <= v.hourPairAttempts
    BY DEF Coherent
  <2> QED BY <1>1, <2>2, <2>3, Counts, Thresholds
<1>3. ~ Fires(PS1, v, p)
  <2> SUFFICES ASSUME Fires(PS1, v, p) PROVE FALSE
    OBVIOUS
  <2>1. Spraying(v).status = "fired"
    BY EvaluatedIs DEF Fires
  <2>2. ~ (v.hourUsers < PS1.users)
    BY <1>0, <2>1 DEF Spraying
  <2> QED BY <1>1, <2>2, Counts, Thresholds
<1>4. ~ Fires(CS1, v, p)
  <2> SUFFICES ASSUME Fires(CS1, v, p) PROVE FALSE
    OBVIOUS
  <2>1. Stuffing(v).status = "fired"
    BY EvaluatedIs DEF Fires
  <2>2. ~ (v.hourUsers < CS1.users)
    BY <1>0, <2>1 DEF Stuffing
  <2> QED BY <1>1, <2>2, Counts, Thresholds
<1> QED BY <1>2, <1>3, <1>4

-----------------------------------------------------------------------------
(* What the rules said is what they say of the snapshot; of what has come  *)
(* to the scorer it keeps every fired rule with its strength, whatever     *)
(* came twice, and it has counted those that could not say as often as     *)
(* they came: Blind have nothing left to come, and HeardOnce, which come   *)
(* twice, have come once.                                                  *)
Said(v, p) == {[rule |-> x, verdict |-> Evaluated(x, v, p)] : x \in p.enabled}
Blind(said, due) == {r \in BlindIn(said) : due[r] = 0}
HeardOnce(twice, due) == {r \in BlindIn(twice) : due[r] <= 1}
Heard(said, twice, due) == Cardinality(Blind(said, due)) + Cardinality(HeardOnce(twice, due))

Gathered(said, twice, due, kept, blind) ==
  /\ due \in [said -> 0 .. 2]
  /\ twice \subseteq said /\ \A r \in said \ twice : due[r] <= 1
  /\ kept = [x \in DOMAIN kept |-> kept[x]]
  /\ DOMAIN kept \subseteq {r.rule : r \in FiredIn(said)}
  /\ \A r \in FiredIn(said) : r.rule \in DOMAIN kept => kept[r.rule] = r.verdict.strength
  /\ \A r \in FiredIn(said) : r.rule \in DOMAIN kept \/ due[r] >= 1
  /\ blind = Heard(said, twice, due)

Weighed ==
  /\ \A r \in results : left[r] = 0
  /\ assessment.score = RiskScore(policy.reducer, collected)
  /\ assessment.category = Primary(collected)
  /\ assessment.unknown = unknown

ScoringInv ==
  /\ policy \in Settings /\ view \in Views
  /\ stage \in {"snapshot", "collecting", "assessed"}
  /\ stage = "snapshot" => results = {} /\ collected = <<>> /\ unknown = 0
  /\ stage # "snapshot" => results = Said(view, policy)
  /\ stage # "snapshot" => Gathered(results, repeated, left, collected, unknown)
  /\ stage = "assessed" => Weighed

LEMMA RuleFinite == IsFiniteSet(Rule)
<1> DEFINE A == {BF1}
           B == A \cup {BF2}
           C == B \cup {PS1}
           D == C \cup {CS1}
           E == D \cup {DBF1}
           F == E \cup {ATO1}
           G == F \cup {GEO1}
           H == G \cup {BOT1}
           I == H \cup {MFA1}
<1>1. IsFiniteSet(A)
  <2>1. IsFiniteSet({} \cup {BF1})
    BY FS_EmptySet, FS_AddElement
  <2> QED BY <2>1
<1> HIDE DEF A, B, C, D, E, F, G, H, I
<1>2. IsFiniteSet(B) /\ IsFiniteSet(C) /\ IsFiniteSet(D)
  BY <1>1, FS_AddElement DEF B, C, D
<1>3. IsFiniteSet(E) /\ IsFiniteSet(F) /\ IsFiniteSet(G)
  BY <1>2, FS_AddElement DEF E, F, G
<1>4. IsFiniteSet(H) /\ IsFiniteSet(I)
  BY <1>3, FS_AddElement DEF H, I
<1>5. Rule = I
  BY DEF A, B, C, D, E, F, G, H, I, Rule
<1> QED BY <1>4, <1>5

(* What the rules said: once each, and of enabled rules.                   *)
LEMMA SaidFacts ==
  ASSUME NEW v \in Views, NEW p \in Settings
  PROVE  /\ IsFiniteSet(Said(v, p))
         /\ \A r \in Said(v, p) :
              /\ r.rule \in Rule /\ Verdict(r.verdict)
              /\ r.verdict = Evaluated(r.rule, v, p) /\ r.rule \in p.enabled
         /\ \A r, s \in Said(v, p) : r.rule = s.rule => r = s
<1>0. v \in Snapshot /\ Coherent(v) /\ p.enabled \subseteq Rule
  BY DetectionAssumption, CatalogFacts
<1>1. ASSUME NEW r \in Said(v, p)
      PROVE  /\ r = [rule |-> r.rule, verdict |-> Evaluated(r.rule, v, p)]
             /\ r.rule \in Rule /\ r.verdict = Evaluated(r.rule, v, p) /\ r.rule \in p.enabled
  <2>1. PICK x \in p.enabled : r = [rule |-> x, verdict |-> Evaluated(x, v, p)]
    BY <1>1 DEF Said
  <2>2. r.rule = x /\ r.verdict = Evaluated(x, v, p)
    BY <2>1
  <2> QED BY <1>0, <2>1, <2>2
<1>2. \A r \in Said(v, p) : Verdict(r.verdict)
  BY <1>0, <1>1, EvaluatedSays
<1>3. ASSUME NEW r \in Said(v, p), NEW s \in Said(v, p), r.rule = s.rule PROVE r = s
  <2>1. /\ r = [rule |-> r.rule, verdict |-> Evaluated(r.rule, v, p)]
        /\ s = [rule |-> s.rule, verdict |-> Evaluated(s.rule, v, p)]
    BY <1>1
  <2> QED BY <1>3, <2>1, Zenon
<1>4. IsFiniteSet(Said(v, p))
  <2> DEFINE S == p.enabled
             T == Said(v, p)
             f == [x \in S |-> [rule |-> x, verdict |-> Evaluated(x, v, p)]]
  <2>1. IsFiniteSet(S)
    BY <1>0, RuleFinite, FS_Subset
  <2>2. f \in Surjection(S, T)
    <3>1. f \in [S -> T]
      BY DEF Said
    <3>2. \A t \in T : \E x \in S : f[x] = t
      BY DEF Said
    <3> HIDE DEF f, T
    <3> QED BY <3>1, <3>2 DEF Surjection
  <2> HIDE DEF S, T, f
  <2>3. IsFiniteSet(T)
    BY <2>1, <2>2, FS_Surjection
  <2> QED BY <2>3 DEF T
<1> QED BY <1>1, <1>2, <1>3, <1>4

(* Who fired has a strength.                                               *)
LEMMA VerdictFacts ==
  ASSUME NEW x, Verdict(x)
  PROVE  x.status = "fired" => x.strength \in Strong
  BY DEF Verdict, NotFired, Unknown

(* The results leave for the scorer.                                       *)
LEMMA RunGathers ==
  ASSUME NEW said, NEW again, again \subseteq said, NEW due,
         due = [r \in said |-> 1 + OneIf(r \in again)]
  PROVE  Gathered(said, again, due, <<>>, 0)
<1>1. /\ \A r \in said : due[r] \in 1 .. 2 /\ due[r] # 0
      /\ \A r \in again : due[r] = 2
      /\ \A r \in said \ again : due[r] <= 1
  BY DEF OneIf
<1>2. due \in [said -> 0 .. 2]
  BY DEF OneIf
<1> DEFINE kept == <<>>
<1>3. DOMAIN kept = {} /\ kept = [x \in DOMAIN kept |-> kept[x]]
  OBVIOUS
<1> HIDE DEF kept
<1>4. Blind(said, due) = {} /\ HeardOnce(again, due) = {}
  BY <1>1 DEF Blind, HeardOnce, BlindIn
<1>5. 0 = Heard(said, again, due)
  BY <1>4, FS_EmptySet DEF Heard
<1>6. \A r \in FiredIn(said) : due[r] >= 1
  BY <1>1 DEF FiredIn
<1>7. Gathered(said, again, due, kept, 0)
  BY <1>1, <1>2, <1>3, <1>5, <1>6 DEF Gathered
<1> QED BY <1>7 DEF kept

(* One result comes: a rule is kept with the strength it said, again or    *)
(* for the first time, and who could not say is counted.                   *)
LEMMA CollectGathers ==
  ASSUME ScoringInv, Collect
  PROVE  Gathered(results, repeated, left', collected', unknown')
<1>1. PICK r \in DOMAIN left :
        /\ stage = "collecting" /\ left[r] > 0
        /\ left' = [left EXCEPT ![r] = left[r] - 1]
        /\ collected' = IF r.verdict.status = "fired" THEN Merged(r) ELSE collected
        /\ unknown' = unknown + OneIf(r.verdict.status = "insufficient_data")
  BY DEF Collect
<1>2. results = Said(view, policy) /\ Gathered(results, repeated, left, collected, unknown)
  BY <1>1 DEF ScoringInv
<1>3. /\ IsFiniteSet(results)
      /\ \A q \in results : q.rule \in Rule /\ Verdict(q.verdict)
      /\ \A q, s \in results : q.rule = s.rule => q = s
  BY <1>2, SaidFacts DEF ScoringInv
<1>4. left \in [results -> 0 .. 2] /\ DOMAIN left = results /\ r \in results
  BY <1>1, <1>2 DEF Gathered
<1> DEFINE due == left'
           kept == collected'
<1>5. /\ due \in [results -> 0 .. 2] /\ due[r] = left[r] - 1
      /\ \A q \in results : q # r => due[q] = left[q]
  BY <1>1, <1>4
<1>6. ASSUME NEW q \in results \ repeated PROVE due[q] <= 1
  <2>1. left[q] <= 1 /\ left[q] \in 0 .. 2
    BY <1>2, <1>4, <1>6 DEF Gathered
  <2> HIDE DEF due
  <2> QED BY <1>5, <2>1
<1>6a. repeated \subseteq results /\ unknown' = Heard(results, repeated, due)
  <2> DEFINE B == Blind(results, left)
             C == HeardOnce(repeated, left)
             blind == r.verdict.status = "insufficient_data"
  <2>1. /\ repeated \subseteq results /\ \A q \in results \ repeated : left[q] <= 1
        /\ unknown = Heard(results, repeated, left)
    BY <1>2 DEF Gathered
  <2>2. left[r] \in 1 .. 2 /\ due[r] = left[r] - 1
    BY <1>1, <1>4, <1>5
  <2> HIDE DEF due
  <2>3. B \subseteq results /\ C \subseteq results
    BY <2>1 DEF Blind, HeardOnce, BlindIn
  <2>4. IsFiniteSet(B) /\ Cardinality(B) \in Nat /\ IsFiniteSet(C) /\ Cardinality(C) \in Nat
    <3> HIDE DEF B, C
    <3> QED BY <1>3, <2>3, FS_Subset, FS_CardinalityType
  <2>5. unknown = Cardinality(B) + Cardinality(C)
    BY <2>1 DEF Heard
  <2>6. CASE ~ blind
    <3>1. Blind(results, due) = B /\ HeardOnce(repeated, due) = C
      BY <1>5, <2>1, <2>6 DEF Blind, HeardOnce, BlindIn
    <3>2. unknown' = unknown + 0
      BY <1>1, <2>6 DEF OneIf
    <3> HIDE DEF B, C
    <3>3. Heard(results, repeated, due) = Cardinality(B) + Cardinality(C)
      BY <3>1 DEF Heard
    <3> QED BY <2>1, <2>4, <2>5, <3>2, <3>3
  <2>7. CASE blind /\ left[r] = 1
    <3>1. r \notin B /\ Blind(results, due) = B \cup {r} /\ HeardOnce(repeated, due) = C
      BY <1>4, <1>5, <2>1, <2>7 DEF Blind, HeardOnce, BlindIn
    <3>2. unknown' = unknown + 1
      BY <1>1, <2>7 DEF OneIf
    <3> HIDE DEF B, C
    <3>3. Cardinality(B \cup {r}) = Cardinality(B) + 1
      BY <2>4, <3>1, FS_AddElement
    <3>4. Heard(results, repeated, due) = Cardinality(B \cup {r}) + Cardinality(C)
      BY <3>1 DEF Heard
    <3> QED BY <2>1, <2>4, <2>5, <3>2, <3>3, <3>4
  <2>8. CASE blind /\ left[r] = 2
    <3>0. r \in repeated
      BY <1>4, <2>1, <2>8
    <3>1. r \notin C /\ HeardOnce(repeated, due) = C \cup {r} /\ Blind(results, due) = B
      BY <1>4, <1>5, <2>1, <2>8, <3>0 DEF Blind, HeardOnce, BlindIn
    <3>2. unknown' = unknown + 1
      BY <1>1, <2>8 DEF OneIf
    <3> HIDE DEF B, C
    <3>3. Cardinality(C \cup {r}) = Cardinality(C) + 1
      BY <2>4, <3>1, FS_AddElement
    <3>4. Heard(results, repeated, due) = Cardinality(B) + Cardinality(C \cup {r})
      BY <3>1 DEF Heard
    <3> QED BY <2>1, <2>4, <2>5, <3>2, <3>3, <3>4
  <2> QED BY <2>2, <2>6, <2>7, <2>8
<1>7. CASE r.verdict.status = "fired"
  <2> DEFINE k == r.verdict.strength
             D == DOMAIN collected \cup {r.rule}
  <2>1. r \in FiredIn(results)
    BY <1>4, <1>7 DEF FiredIn
  <2>2. k \in Strong
    BY <1>3, <1>4, <1>7, VerdictFacts
  <2>3. r.rule \in DOMAIN collected => collected[r.rule] = k
    BY <1>2, <2>1 DEF Gathered
  <2>4. DOMAIN kept = D /\ kept = [x \in DOMAIN kept |-> kept[x]]
    BY <1>1, <1>7 DEF Merged
  <2>5. ASSUME NEW x \in D
        PROVE  kept[x] = IF x = r.rule THEN k ELSE collected[x]
    <3>1. kept = Merged(r)
      BY <1>1, <1>7
    <3>2. kept[x] = IF x \notin DOMAIN collected THEN k
                    ELSE IF x = r.rule THEN Stronger(k, collected[x]) ELSE collected[x]
      BY <3>1 DEF Merged
    <3> HIDE DEF k, kept
    <3>3. Stronger(k, k) = k
      BY DEF Stronger
    <3>4. CASE x = r.rule
      BY <2>3, <3>2, <3>3, <3>4
    <3>5. CASE x # r.rule
      <4>1. x \in DOMAIN collected
        BY <3>5
      <4> QED BY <3>2, <3>5, <4>1
    <3> QED BY <3>4, <3>5
  <2>6. DOMAIN kept \subseteq {q.rule : q \in FiredIn(results)}
    BY <1>2, <2>1, <2>4 DEF Gathered
  <2>7. ASSUME NEW q \in FiredIn(results), q.rule \in DOMAIN kept
        PROVE  kept[q.rule] = q.verdict.strength
    <3>1. q \in results
      BY DEF FiredIn
    <3>2. CASE q.rule = r.rule
      <4>1. q = r
        BY <1>3, <1>4, <3>1, <3>2
      <4>2. kept[q.rule] = k
        BY <2>4, <2>5, <2>7, <3>2
      <4> QED BY <4>1, <4>2
    <3>3. CASE q.rule # r.rule
      <4>1. q.rule \in DOMAIN collected /\ kept[q.rule] = collected[q.rule]
        BY <2>4, <2>5, <2>7, <3>3
      <4>2. collected[q.rule] = q.verdict.strength
        BY <1>2, <4>1 DEF Gathered
      <4> QED BY <4>1, <4>2
    <3> QED BY <3>2, <3>3
  <2>8. ASSUME NEW q \in FiredIn(results)
        PROVE  q.rule \in DOMAIN kept \/ due[q] >= 1
    <3>1. q \in results
      BY DEF FiredIn
    <3>2. CASE q = r
      BY <2>4, <3>2
    <3>3. CASE q # r
      <4>1. due[q] = left[q]
        BY <1>5, <3>1, <3>3
      <4>2. q.rule \in DOMAIN collected \/ left[q] >= 1
        BY <1>2 DEF Gathered
      <4> QED BY <2>4, <4>1, <4>2
    <3> QED BY <3>2, <3>3
  <2> HIDE DEF kept, due
  <2>9. Gathered(results, repeated, due, kept, unknown')
    BY <1>5, <1>6, <1>6a, <2>4, <2>6, <2>7, <2>8 DEF Gathered
  <2> QED BY <2>9 DEF kept, due
<1>8. CASE r.verdict.status # "fired"
  <2>1. kept = collected
    BY <1>1, <1>8
  <2>3. \A q \in FiredIn(results) : due[q] = left[q]
    BY <1>5, <1>8 DEF FiredIn
  <2>5. /\ kept = [x \in DOMAIN kept |-> kept[x]]
        /\ DOMAIN kept \subseteq {q.rule : q \in FiredIn(results)}
        /\ \A q \in FiredIn(results) : q.rule \in DOMAIN kept => kept[q.rule] = q.verdict.strength
    BY <1>2, <2>1, Zenon DEF Gathered
  <2>6. \A q \in FiredIn(results) : q.rule \in DOMAIN kept \/ due[q] >= 1
    <3> HIDE DEF due
    <3> QED BY <1>2, <2>1, <2>3 DEF Gathered
  <2> HIDE DEF kept, due
  <2>7. Gathered(results, repeated, due, kept, unknown')
    BY <1>5, <1>6, <1>6a, <2>5, <2>6 DEF Gathered
  <2> QED BY <2>7 DEF kept, due
<1> QED BY <1>7, <1>8

(* Every step keeps it.                                                    *)
LEMMA ScoringStep ==
  ASSUME ScoringInv, [ScoringNext]_scoringVars
  PROVE  ScoringInv'
<1>1. CASE Run
  <2>1. results' = Said(view, policy) /\ policy' = policy /\ view' = view
        /\ stage' = "collecting" /\ collected' = <<>> /\ unknown' = 0
    BY <1>1 DEF Run, Said, ScoringInv
  <2>2. PICK again \in SUBSET results' :
          repeated' = again /\ left' = [r \in results' |-> 1 + OneIf(r \in again)]
    BY <1>1 DEF Run
  <2>4. Gathered(results', repeated', left', <<>>, 0)
    BY <2>2, RunGathers
  <2> QED BY <2>1, <2>4 DEF ScoringInv
<1>2. CASE Collect
  <2>1. Gathered(results, repeated, left', collected', unknown')
    BY <1>2, CollectGathers
  <2>2. stage' = stage /\ policy' = policy /\ view' = view /\ results' = results
        /\ stage = "collecting" /\ repeated' = repeated
    BY <1>2 DEF Collect
  <2> QED BY <2>1, <2>2 DEF ScoringInv
<1>3. CASE Assess
  <2>1. /\ stage' = "assessed" /\ policy' = policy /\ view' = view /\ results' = results
        /\ left' = left /\ collected' = collected /\ unknown' = unknown
        /\ repeated' = repeated /\ stage = "collecting" /\ \A r \in DOMAIN left : left[r] = 0
    BY <1>3 DEF Assess
  <2>2. Gathered(results, repeated, left, collected, unknown) /\ results = Said(view, policy)
    BY <2>1 DEF ScoringInv
  <2>3. DOMAIN left = results
    BY <2>2 DEF Gathered
  <2>4. /\ assessment'.score = RiskScore(policy.reducer, collected)
        /\ assessment'.category = Primary(collected)
        /\ assessment'.unknown = unknown
    <3> DEFINE s == RiskScore(policy.reducer, collected)
               c == Primary(collected)
    <3>1. assessment' = [score |-> s, severity |-> SeverityOf(s), category |-> c,
                         unknown |-> unknown]
      BY <1>3 DEF Assess
    <3> HIDE DEF s, c
    <3>2. assessment'.score = s /\ assessment'.category = c /\ assessment'.unknown = unknown
      BY <3>1
    <3> QED BY <3>2 DEF s, c
  <2>5. Weighed'
    BY <2>1, <2>3, <2>4 DEF Weighed
  <2> QED BY <2>1, <2>2, <2>5 DEF ScoringInv
<1>4. CASE UNCHANGED scoringVars
  BY <1>4 DEF scoringVars, ScoringInv, Weighed
<1> QED BY <1>1, <1>2, <1>3, <1>4 DEF ScoringNext

(* Until the anchor is assessed the scorer has gathered just what          *)
(* has come, in whatever order and however often,                          *)
(* and then it has weighed all of it.                                      *)
THEOREM ScoringInvariant == ScoringSpec => []ScoringInv
<1>1. ScoringInit => ScoringInv
  BY DEF ScoringInit, ScoringInv
<1>2. ScoringInv /\ [ScoringNext]_scoringVars => ScoringInv'
  BY ScoringStep
<1> QED BY <1>1, <1>2, PTL DEF ScoringSpec

(* The distributed rule fires with none of the three that see one source   *)
(* (RulesKeepApart), whatever the snapshot and the settings.               *)
THEOREM RulesAreApart == ScoringSpec => []RulesKeepApart
<1>1. ScoringInv => RulesKeepApart
  <2> SUFFICES ASSUME ScoringInv, DBF1 \in FiredRules, NEW x \in {BF1, PS1, CS1}, x \in FiredRules
      PROVE  FALSE
    BY DEF RulesKeepApart
  <2>1. PICK d \in FiredIn(results) : d.rule = DBF1
    BY DEF FiredRules
  <2>2. PICK r \in FiredIn(results) : r.rule = x
    BY DEF FiredRules
  <2>3. d \in results /\ r \in results /\ d.verdict.status = "fired" /\ r.verdict.status = "fired"
    BY DEF FiredIn
  <2>4. results = Said(view, policy) /\ view \in Views /\ policy \in Settings
    BY <2>3 DEF ScoringInv
  <2>5. d.verdict = Evaluated(DBF1, view, policy) /\ r.verdict = Evaluated(x, view, policy)
    BY <2>1, <2>2, <2>3, <2>4, SaidFacts
  <2>6. Fires(DBF1, view, policy) /\ Fires(x, view, policy)
    BY <2>3, <2>5 DEF Fires
  <2>7. view \in Snapshot /\ Coherent(view)
    BY <2>4, DetectionAssumption
  <2> QED BY <2>6, <2>7, RulesApart
<1> QED BY <1>1, ScoringInvariant, PTL

-----------------------------------------------------------------------------
(* What is said of the fired rules, when the scorer has it all.            *)
LEMMA AllGathered ==
  ASSUME ScoringInv, stage = "assessed"
  PROVE  /\ Strengths(collected) /\ DOMAIN collected = FiredRules
         /\ [x \in FiredRules |-> (CHOOSE r \in results : r.rule = x).verdict.strength] = collected
         /\ unknown = Cardinality(BlindIn(results)) + Cardinality(BlindIn(repeated))
<1>1. /\ view \in Views /\ policy \in Settings /\ results = Said(view, policy)
      /\ Gathered(results, repeated, left, collected, unknown) /\ Weighed
  BY DEF ScoringInv
<1>2. \A r \in results : left[r] = 0
  BY <1>1 DEF Weighed
<1>3. /\ \A r \in results : r.rule \in Rule /\ Verdict(r.verdict)
      /\ \A r, s \in results : r.rule = s.rule => r = s
  BY <1>1, SaidFacts
<1>4. DOMAIN collected \subseteq FiredRules
  BY <1>1 DEF Gathered, FiredRules
<1>5. ASSUME NEW x \in FiredRules
      PROVE  /\ x \in Rule /\ x \in DOMAIN collected /\ collected[x] \in Strong
             /\ (CHOOSE r \in results : r.rule = x).verdict.strength = collected[x]
  <2>1. PICK r \in FiredIn(results) : r.rule = x
    BY DEF FiredRules
  <2>2. r \in results /\ r.verdict.status = "fired"
    BY DEF FiredIn
  <2>3. ~ (left[r] >= 1)
    BY <1>2, <2>2
  <2>4. r.rule \in DOMAIN collected
    BY <1>1, <2>3 DEF Gathered
  <2>5. collected[r.rule] = r.verdict.strength
    BY <1>1, <2>4 DEF Gathered
  <2>6. (CHOOSE q \in results : q.rule = x) = r
    <3> DEFINE c == CHOOSE q \in results : q.rule = x
    <3>1. c \in results /\ c.rule = x
      BY <2>1, <2>2
    <3> HIDE DEF c
    <3>2. c = r
      BY <1>3, <2>1, <2>2, <3>1
    <3> QED BY <3>2 DEF c
  <2>7. r.verdict.strength \in Strong
    BY <1>3, <2>2, VerdictFacts
  <2> QED BY <1>3, <2>1, <2>2, <2>4, <2>5, <2>6, <2>7
<1>6. DOMAIN collected = FiredRules
  BY <1>4, <1>5
<1>7. collected = [x \in DOMAIN collected |-> collected[x]]
  BY <1>1 DEF Gathered
<1>8. Strengths(collected)
  <2>1. DOMAIN collected \subseteq Rule
    BY <1>5, <1>6
  <2>2. \A r \in DOMAIN collected : collected[r] \in Strong
    BY <1>5, <1>6
  <2> QED BY <1>7, <2>1, <2>2, Zenon DEF Strengths
<1>9. [x \in FiredRules |-> (CHOOSE r \in results : r.rule = x).verdict.strength] = collected
  <2> DEFINE f(x) == (CHOOSE r \in results : r.rule = x).verdict.strength
  <2>1. \A x \in FiredRules : f(x) = collected[x]
    BY <1>5
  <2> HIDE DEF f
  <2>2. [x \in FiredRules |-> f(x)] = collected
    BY <1>6, <1>7, <2>1
  <2> QED BY <2>2 DEF f
<1>10. unknown = Cardinality(BlindIn(results)) + Cardinality(BlindIn(repeated))
  <2>0. repeated \subseteq results
    BY <1>1 DEF Gathered
  <2>1. Blind(results, left) = BlindIn(results) /\ HeardOnce(repeated, left) = BlindIn(repeated)
    BY <1>2, <2>0 DEF Blind, HeardOnce, BlindIn
  <2> QED BY <1>1, <2>1 DEF Gathered, Heard
<1> QED BY <1>6, <1>8, <1>9, <1>10

(* The score, the category and the count of the assessment are sound       *)
(* (ScoreIsSound), for any snapshots and settings, in whatever order the   *)
(* results come and however often.                                         *)
THEOREM ScoresAreSound == ScoringSpec => []ScoreIsSound
<1>1. ScoringInv => ScoreIsSound
  <2> SUFFICES ASSUME ScoringInv, stage = "assessed" PROVE ScoreIsSound
    BY DEF ScoreIsSound
  <2> DEFINE said == [x \in FiredRules |-> (CHOOSE r \in results : r.rule = x).verdict.strength]
             best == {r \in FiredRules : \A o \in FiredRules :
                        o.group = r.group => Contribution(o, said[o]) <= Contribution(r, said[r])}
             K == collected
  <2>1. /\ Strengths(K) /\ DOMAIN K = FiredRules /\ said = K
        /\ unknown = Cardinality(BlindIn(results)) + Cardinality(BlindIn(repeated))
    BY AllGathered
  <2>2. /\ assessment.score = RiskScore(policy.reducer, K)
        /\ assessment.category = Primary(K) /\ assessment.unknown = unknown
    BY DEF ScoringInv, Weighed
  <2>3. best = Best(K)
    <3> HIDE DEF said, K
    <3> QED BY <2>1 DEF Best
  <2> HIDE DEF said, best, K
  <2>4. assessment.score <= Top /\ (assessment.score = 0 <=> FiredRules = {})
    <3>1. /\ RiskScore(policy.reducer, K) <= Top
          /\ RiskScore(policy.reducer, K) = 0 <=> DOMAIN K = {}
      BY <2>1, ScoreFacts
    <3> QED BY <2>1, <2>2, <3>1
  <2>5. (assessment.score = 0) = (FiredRules = {})
    BY <2>4
  <2>6. assessment.score = RiskScore(policy.reducer, said)
    BY <2>1, <2>2
  <2>7. \A fewer \in SUBSET FiredRules :
          RiskScore(policy.reducer, Restrict(said, fewer)) <= assessment.score
    <3> SUFFICES ASSUME NEW fewer \in SUBSET FiredRules
        PROVE RiskScore(policy.reducer, Restrict(said, fewer)) <= assessment.score
      OBVIOUS
    <3>1. RiskScore(policy.reducer, Restrict(K, fewer)) <= RiskScore(policy.reducer, K)
      BY <2>1, FewerScoreLess
    <3> QED BY <2>1, <2>2, <3>1
  <2>8. policy.reducer = "max" => assessment.score = RiskScore("max", Restrict(said, best))
    <3>1. RiskScore("max", K) = RiskScore("max", Restrict(K, Best(K)))
      BY <2>1, BestScore
    <3> QED BY <2>1, <2>2, <2>3, <3>1
  <2>9. FiredRules # {} => assessment.category \in {r.category : r \in FiredRules}
    <3>1. DOMAIN K # {} => Primary(K) \in {r.category : r \in DOMAIN K}
      BY <2>1, PrimaryIsOne
    <3> QED BY <2>1, <2>2, <3>1
  <2>10. assessment.unknown = Cardinality(BlindIn(results)) + Cardinality(BlindIn(repeated))
    BY <2>1, <2>2
  <2>11. SoundFor(said, best)
    BY <2>4, <2>5, <2>6, <2>7, <2>8, <2>9, <2>10 DEF SoundFor, Top
  <2> QED BY <2>11 DEF ScoreIsSound, said, best
<1> QED BY <1>1, ScoringInvariant, PTL
=============================================================================
