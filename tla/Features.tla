------------------------------ MODULE Features ------------------------------
(***************************************************************************)
(* The point-in-time feature engine: FeatureEngine (features/engine.py)    *)
(* over the rolling windows of features/temporal.py.  Events are taken in  *)
(* blocks of one timestamp; every row of a block is emitted before any of  *)
(* its events is ingested, and what has aged out is released at its end.   *)
(*                                                                         *)
(* A record's outcome, gap and one dimension stand for everything a window *)
(* aggregates: challenge factors and response times are kept by the same   *)
(* additions and subtractions, sums of squares like the sums.  A place is  *)
(* a country, a region and coordinates; Nowhere has none of them.          *)
(***************************************************************************)
EXTENDS Integers, Sequences, FiniteSets

CONSTANTS
  User, Source, Place, Nowhere,
  Inputs,     \* the events looked at
  Widths,     \* the configured windows, as lengths in ticks
  Caps,       \* settings of max_tracked_entities to look at; 0: no limit
  MaxTime, MaxEvents, MaxBlock

Outcome == {"success", "failure", "challenged"}
None == "none"    \* no event, no place yet
Event == [user : User, source : Source, outcome : Outcome, place : Place \cup {Nowhere}]

ASSUME FeaturesAssumption ==
  /\ Inputs \subseteq Event /\ Nowhere \notin Place /\ None \notin Place \cup {Nowhere}
  /\ Widths \subseteq Nat \ {0} /\ Widths # {} /\ IsFiniteSet(Widths)
  /\ Caps \subseteq Nat
  /\ MaxTime \in Nat /\ MaxEvents \in Nat /\ MaxBlock \in Nat \ {0}

VARIABLES
  cap,       \* max_tracked_entities of this run
  now,       \* timestamp of the block at hand
  block,     \* its events, in the order of their identifiers
  phase,     \* what the run does with the block
  done,      \* how many of its events that phase has dealt with
  buffers,   \* the live entity buffers, by key
  sequences, \* the sequence states, by key
  geo,       \* by user, the last success and the last one with coordinates
  queue,     \* every touch not yet expired, oldest first
  seen,      \* last touch of each entity
  row,       \* the row just emitted
  past       \* history: the ingested events with their timestamps

vars == <<cap, now, block, phase, done, buffers, sequences, geo, queue, seen, row,
          past>>

Kinds == {"user", "source", "pair"}
NoGap == -1
MaxWidth == CHOOSE w \in Widths : \A v \in Widths : v <= w

Key(kind, e) ==
  CASE kind = "user" -> <<kind, e.user>>
    [] kind = "source" -> <<kind, e.source>>
    [] kind = "pair" -> <<kind, e.user, e.source>>
KeysOf(e) == {Key(kind, e) : kind \in Kinds}
Dims(kind, e) ==
  CASE kind = "user" -> {e.source} [] kind = "source" -> {e.user} [] kind = "pair" -> {}

Without(f, keys) == [x \in DOMAIN f \ keys |-> f[x]]

-----------------------------------------------------------------------------
(* One window over a buffer's records: how many of them lie before it, and *)
(* the counts of those inside it.                                          *)
NoWindow == [head |-> 0, n |-> 0, failures |-> 0, gaps |-> 0, span |-> 0,
             counts |-> [d \in {} |-> 0]]
NoBuffer == [records |-> <<>>, last |-> NoGap, window |-> [w \in Widths |-> NoWindow]]

Bit(b) == IF b THEN 1 ELSE 0
Count(f, d) == IF d \in DOMAIN f THEN f[d] ELSE 0

(* A gap counts only between two records inside the window.                *)
Added(a, r, preceded) ==
  [a EXCEPT !.n = @ + 1,
            !.failures = @ + Bit(r.outcome = "failure"),
            !.gaps = @ + Bit(preceded /\ r.gap # NoGap),
            !.span = @ + IF preceded /\ r.gap # NoGap THEN r.gap ELSE 0,
            !.counts = [d \in DOMAIN @ \cup r.dims |-> Count(@, d) + Bit(d \in r.dims)]]

(* Fault: the gap of the record behind stays in the sum.                   *)
RemovedAlone(a, r, behind) ==
  [a EXCEPT !.n = @ - 1,
            !.failures = @ - Bit(r.outcome = "failure"),
            !.counts = [d \in {x \in DOMAIN @ : x \notin r.dims \/ @[x] > 1} |->
                          @[d] - Bit(d \in r.dims)]]

(* The record that leaves takes the gap of the one behind it along.        *)
Removed(a, r, behind) ==
  LET gapped == \E q \in behind : q.gap # NoGap
      gap == CHOOSE g \in {q.gap : q \in behind} : TRUE
  IN [a EXCEPT !.n = @ - 1,
               !.failures = @ - Bit(r.outcome = "failure"),
               !.gaps = @ - Bit(gapped),
               !.span = @ - IF gapped THEN gap ELSE 0,
               !.counts = [d \in {x \in DOMAIN @ : x \notin r.dims \/ @[x] > 1} |->
                             @[d] - Bit(d \in r.dims)]]

Appended(b, kind, e, ts) ==
  LET r == [ts |-> ts, outcome |-> e.outcome, dims |-> Dims(kind, e),
            gap |-> IF b.last < 0 THEN NoGap ELSE ts - b.last]
  IN [records |-> Append(b.records, r), last |-> ts,
      window |-> [w \in Widths |->
        Added(b.window[w], r, b.window[w].head < Len(b.records))]]

(* Move a window's head past every record older than it.                   *)
Slid(b, w, ts) ==
  LET head == b.window[w].head
      stale == {i \in head + 1 .. Len(b.records) : b.records[i].ts < ts - w}
      a[i \in head .. head + Cardinality(stale)] ==
        IF i = head THEN b.window[w]
        ELSE Removed(a[i - 1], b.records[i],
                     {b.records[j] : j \in {i + 1} \cap 1 .. Len(b.records)})
  IN [a[head + Cardinality(stale)] EXCEPT !.head = head + Cardinality(stale)]

(* Records before every head are dropped once they are half of the list.   *)
Compacted(b) ==
  LET least == CHOOSE h \in {b.window[w].head : w \in Widths} :
                 \A w \in Widths : h <= b.window[w].head
  IN IF least = 0 \/ 2 * least < Len(b.records) THEN b
     ELSE [b EXCEPT !.records = SubSeq(@, least + 1, Len(@)),
                    !.window = [w \in Widths |->
                                  [b.window[w] EXCEPT !.head = @ - least]]]

Advanced(b, ts) == Compacted([b EXCEPT !.window = [w \in Widths |-> Slid(b, w, ts)]])

-----------------------------------------------------------------------------
(* What came before, per user, source and pair, without a window.          *)
NoSequence == [last |-> -1, success |-> -1, failure |-> -1,
               consecutive |-> 0, since |-> 0, previous |-> None]

(* Fault: only a success ends a run of failures.                           *)
UpdatedOnSuccess(s, ts, outcome) ==
  [s EXCEPT
     !.last = ts, !.previous = outcome,
     !.consecutive = IF outcome = "failure" THEN @ + 1
                     ELSE IF outcome = "success" THEN 0 ELSE @,
     !.since = IF outcome = "failure" THEN @ + 1 ELSE IF outcome = "success" THEN 0 ELSE @,
     !.failure = IF outcome = "failure" THEN ts ELSE @,
     !.success = IF outcome = "success" THEN ts ELSE @]

Updated(s, ts, outcome) ==
  [s EXCEPT
     !.last = ts, !.previous = outcome,
     !.consecutive = IF outcome = "failure" THEN @ + 1 ELSE 0,
     !.since = IF outcome = "failure" THEN @ + 1 ELSE IF outcome = "success" THEN 0 ELSE @,
     !.failure = IF outcome = "failure" THEN ts ELSE @,
     !.success = IF outcome = "success" THEN ts ELSE @]

(* Where a user last succeeded: a success without coordinates moves the    *)
(* place but not the located one.                                          *)
NoGeo == [place |-> None, since |-> -1, from |-> Nowhere]

Moved(ts, place, g) ==
  IF place = Nowhere THEN [g EXCEPT !.place = place]
  ELSE [place |-> place, since |-> ts, from |-> place]

GeoFor(u) == IF u \in DOMAIN geo THEN geo[u] ELSE NoGeo

(* What a row says of the way from the previous success: why there is a    *)
(* distance or none, where it begins, how long ago, and whether the place  *)
(* is another one.                                                         *)
Status(g, place) ==
  IF g.place = None THEN "no_prior_success"
  ELSE IF place = Nowhere THEN "missing_current_location"
  ELSE IF g.since < 0 THEN "missing_prior_location"
  ELSE "ok"
Changed(then, place) ==
  IF then \in {None, Nowhere} \/ place = Nowhere THEN "unknown"
  ELSE IF then = place THEN "same" ELSE "changed"
Way(g, place, ts) ==
  [status |-> Status(g, place), from |-> g.from,
   elapsed |-> IF g.since < 0 THEN NoGap ELSE ts - g.since,
   changed |-> Changed(g.place, place)]

BufferFor(k) == IF k \in DOMAIN buffers THEN buffers[k] ELSE NoBuffer
SequenceFor(k) == IF k \in DOMAIN sequences THEN sequences[k] ELSE NoSequence

(* What a row takes from a window: counts, the gaps and their sum, and the *)
(* number of distinct dimensions.                                          *)
Read(a) == [n |-> a.n, failures |-> a.failures, gaps |-> a.gaps, span |-> a.span,
            unique |-> Cardinality(DOMAIN a.counts)]

NoRow == [event |-> None, ts |-> -1]

-----------------------------------------------------------------------------
(* The next timestamp, with one or several simultaneous events.            *)
NextBlock ==
  /\ phase = "next"
  /\ \E ts \in now + 1 .. MaxTime, n \in 1 .. MaxBlock :
       /\ Len(past) + n <= MaxEvents
       /\ now' = ts
       /\ block' \in [1 .. n -> Inputs]
  /\ phase' = "emit" /\ done' = 0
  /\ UNCHANGED <<cap, buffers, sequences, geo, queue, seen, row, past>>

Emit ==
  /\ phase = "emit"
  /\ LET e == block[done + 1]
         read == [k \in KeysOf(e) |-> Advanced(BufferFor(k), now)]
     IN /\ row' = [event |-> e, ts |-> now,
                   window |-> [k \in KeysOf(e) |->
                     [w \in Widths |-> Read(read[k].window[w])]],
                   before |-> [k \in KeysOf(e) |-> SequenceFor(k)],
                   geo |-> Way(GeoFor(e.user), e.place, now)]
        /\ buffers' = [k \in DOMAIN buffers \cup KeysOf(e) |->
                         IF k \in KeysOf(e) THEN read[k] ELSE buffers[k]]
        /\ sequences' = [k \in DOMAIN sequences \cup KeysOf(e) |-> SequenceFor(k)]
  /\ IF done + 1 = Len(block) THEN phase' = "ingest" /\ done' = 0
     ELSE phase' = phase /\ done' = done + 1
  /\ UNCHANGED <<cap, now, block, geo, queue, seen, past>>

(* The buffers and the sequence states take the event; each of its         *)
(* entities is touched.                                                    *)
Ingest ==
  /\ phase = "ingest"
  /\ LET e == block[done + 1]
     IN /\ buffers' = [k \in DOMAIN buffers \cup KeysOf(e) |->
                         IF k \in KeysOf(e) THEN Appended(BufferFor(k), k[1], e, now)
                         ELSE buffers[k]]
        /\ sequences' = [k \in DOMAIN sequences \cup KeysOf(e) |->
                           IF k \in KeysOf(e) THEN Updated(SequenceFor(k), now, e.outcome)
                           ELSE sequences[k]]
        /\ geo' = IF e.outcome # "success" THEN geo
                  ELSE [u \in DOMAIN geo \cup {e.user} |->
                          IF u = e.user THEN Moved(now, e.place, GeoFor(u)) ELSE geo[u]]
        /\ queue' = queue \o <<<<now, Key("user", e)>>, <<now, Key("source", e)>>,
                               <<now, Key("pair", e)>>>>
        /\ seen' = [k \in DOMAIN seen \cup KeysOf(e) |->
                      IF k \in KeysOf(e) THEN now ELSE seen[k]]
        /\ past' = Append(past, [event |-> e, ts |-> now])
  /\ IF done + 1 = Len(block) THEN phase' = "expire" /\ done' = 0
     ELSE phase' = phase /\ done' = done + 1
  /\ row' = NoRow
  /\ UNCHANGED <<cap, now, block>>

(* The touches older than the longest window leave the queue; an entity    *)
(* goes with its last one.  Under a limit the entities of a kind touched   *)
(* longest ago follow, with their sequence states.  Where users were is    *)
(* never released.                                                         *)
OldTouches == {i \in 1 .. Len(queue) : queue[i][1] < now - MaxWidth}
(* Fault: an entity goes with any of its old touches.                      *)
AgedAtAnyTouch == {k \in DOMAIN seen : \E i \in OldTouches : queue[i][2] = k}

Aged == {k \in DOMAIN seen : \E i \in OldTouches : queue[i] = <<seen[k], k>>}
LastTouch(k) == CHOOSE i \in 1 .. Len(queue) :
  queue[i][2] = k /\ \A j \in i + 1 .. Len(queue) : queue[j][2] # k
Crowded ==
  LET live(kind) == {k \in DOMAIN buffers \ Aged : k[1] = kind}
  IN IF cap = 0 THEN {}
     ELSE UNION {{k \in live(kind) :
            Cardinality({o \in live(kind) : LastTouch(o) > LastTouch(k)}) >= cap} :
            kind \in Kinds}

Expire ==
  /\ phase = "expire"
  /\ queue' = SubSeq(queue, Cardinality(OldTouches) + 1, Len(queue))
  /\ buffers' = Without(buffers, Aged \cup Crowded)
  /\ seen' = Without(seen, Aged \cup Crowded)
  /\ sequences' = Without(sequences, Crowded)
  /\ phase' = "next" /\ block' = <<>>
  /\ UNCHANGED <<cap, now, done, geo, row, past>>

Init ==
  /\ cap \in Caps
  /\ now = 0 /\ block = <<>> /\ phase = "next" /\ done = 0
  /\ buffers = [k \in {} |-> NoBuffer] /\ sequences = [k \in {} |-> NoSequence]
  /\ geo = [u \in {} |-> NoGeo]
  /\ queue = <<>> /\ seen = [k \in {} |-> 0]
  /\ row = NoRow /\ past = <<>>

Next == NextBlock \/ Emit \/ Ingest \/ Expire

Spec == Init /\ [][Next]_vars

-----------------------------------------------------------------------------
(* The reference: what a row must say, from the history alone.  An entity  *)
(* is an event's key; its events strictly before the row's timestamp count.*)
Before(k, ts) == {i \in 1 .. Len(past) : past[i].ts < ts /\ k \in KeysOf(past[i].event)}
Latest(S) == IF S = {} THEN -1 ELSE past[CHOOSE i \in S : \A j \in S : j <= i].ts
Among(S, outcome) == {i \in S : past[i].event.outcome = outcome}

TrueWindow(k, w, ts) ==
  LET S == {i \in Before(k, ts) : past[i].ts >= ts - w}
      times == {past[i].ts : i \in S}
  IN [n |-> Cardinality(S),
      failures |-> Cardinality(Among(S, "failure")),
      gaps |-> IF S = {} THEN 0 ELSE Cardinality(S) - 1,
      span |-> IF S = {} THEN 0
               ELSE (CHOOSE t \in times : \A u \in times : u <= t)
                    - (CHOOSE t \in times : \A u \in times : t <= u),
      unique |-> Cardinality(UNION {Dims(k[1], past[i].event) : i \in S})]

TrueSequence(k, ts) ==
  LET S == Before(k, ts)
      failed == Among(S, "failure")
      after(T) == {i \in failed : \A j \in T : j < i}
  IN [last |-> Latest(S), success |-> Latest(Among(S, "success")), failure |-> Latest(failed),
      consecutive |-> Cardinality(after(S \ failed)),
      since |-> Cardinality(after(Among(S, "success"))),
      previous |-> IF S = {} THEN None
                   ELSE past[CHOOSE i \in S : \A j \in S : j <= i].event.outcome]

TrueWay(e, ts) ==
  LET S == Among(Before(Key("user", e), ts), "success")
      located == {i \in S : past[i].event.place # Nowhere}
      placeOf(T) == past[CHOOSE i \in T : \A j \in T : j <= i].event.place
      known == S # {} /\ placeOf(S) # Nowhere /\ e.place # Nowhere
  IN [status |-> CASE S = {} -> "no_prior_success"
                   [] S # {} /\ e.place = Nowhere -> "missing_current_location"
                   [] S # {} /\ e.place # Nowhere /\ located = {} -> "missing_prior_location"
                   [] OTHER -> "ok",
      from |-> IF located = {} THEN Nowhere ELSE placeOf(located),
      elapsed |-> IF located = {} THEN NoGap ELSE ts - Latest(located),
      changed |-> IF ~ known THEN "unknown"
                  ELSE IF placeOf(S) = e.place THEN "same" ELSE "changed"]

-----------------------------------------------------------------------------
(* "Entity state contains only events strictly earlier than the current    *)
(* block": without a limit on the tracked entities every row says exactly  *)
(* what its definition gives on the strictly earlier events, through every *)
(* slide, compaction and expiry of the incremental state.  What it says of *)
(* the previous success it says under a limit as well.                     *)
RowsLookBack ==
  row # NoRow =>
    /\ row.geo = TrueWay(row.event, row.ts)
    /\ cap = 0 => \A k \in KeysOf(row.event) :
      /\ row.before[k] = TrueSequence(k, row.ts)
      /\ \A w \in Widths : row.window[k][w] = TrueWindow(k, w, row.ts)

(* A limit makes the engine forget, never invent: no count and no sum      *)
(* exceeds the true one, no failure run is longer than the true one, and   *)
(* the last touch told is the true one or none (features/engine.py).       *)
EvictionOnlyForgets ==
  row # NoRow =>
    \A k \in KeysOf(row.event), w \in Widths :
      LET told == row.window[k][w]
          true == TrueWindow(k, w, row.ts)
      IN /\ told.n <= true.n /\ told.failures <= true.failures
         /\ told.span <= true.span /\ told.unique <= true.unique
         /\ row.before[k].consecutive <= TrueSequence(k, row.ts).consecutive
         /\ row.before[k].last \in {-1, TrueSequence(k, row.ts).last}

(* Between blocks the engine holds the windows of the entities seen within *)
(* the longest one, of the most recently seen ones up to the limit, and of *)
(* no other: nothing leaks and nobody is released too early.               *)
Recent(kind) ==
  LET K == {k \in UNION {KeysOf(past[i].event) : i \in 1 .. Len(past)} :
              k[1] = kind /\ Latest(Before(k, now + 1)) >= now - MaxWidth}
      last(k) == CHOOSE i \in Before(k, now + 1) : \A j \in Before(k, now + 1) : j <= i
  IN {k \in K : cap = 0 \/ Cardinality({o \in K : last(o) > last(k)}) < cap}

HoldsTheRecent ==
  phase = "next" =>
    /\ DOMAIN buffers = UNION {Recent(kind) : kind \in Kinds}
    /\ seen = [k \in DOMAIN buffers |-> buffers[k].last]
=============================================================================
