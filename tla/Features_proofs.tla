-------------------------- MODULE Features_proofs --------------------------
(***************************************************************************)
(* Theorems about the feature engine, for any events, windows and limits.  *)
(***************************************************************************)
EXTENDS Features, FiniteSetTheorems, WellFoundedInduction, TLAPS

-----------------------------------------------------------------------------
(* Least and greatest.                                                     *)

(* A nonempty set of subsets of a finite set has a smallest member.        *)
LEMMA FiniteMinimal ==
  ASSUME NEW S, IsFiniteSet(S), NEW Q, Q \subseteq SUBSET S, Q # {}
  PROVE  \E A \in Q : \A B \in Q : B \subseteq A => B = A
<1>1. IsWellFoundedOn(StrictSubsetOrdering(S), SUBSET S)
  BY FS_StrictSubsetOrderingWellFounded, FS_FiniteSubsetsOfFinite
<1>2. PICK A \in Q : \A B \in Q : ~ (<<B, A>> \in StrictSubsetOrdering(S))
  BY <1>1, WFMin
<1> QED BY <1>2 DEF StrictSubsetOrdering

(* A nonempty finite set of integers has a greatest one.                   *)
LEMMA Greatest ==
  ASSUME NEW S, S \subseteq Int, IsFiniteSet(S), S # {}
  PROVE  \E m \in S : \A n \in S : n <= m
<1> DEFINE beyond(v) == {n \in S : v <= n}
           T == S
           Q == {beyond(v) : v \in S}
<1>1. \E A \in Q : \A B \in Q : B \subseteq A => B = A
  <2>1. IsFiniteSet(T) /\ Q \subseteq SUBSET T /\ Q # {}
    OBVIOUS
  <2> HIDE DEF Q, T
  <2> QED BY <2>1, FiniteMinimal
<1>2. PICK A \in Q : \A B \in Q : B \subseteq A => B = A
  BY <1>1
<1>3. PICK m \in S : A = beyond(m)
  BY <1>2
<1>4. ASSUME NEW n \in S, ~ (n <= m) PROVE FALSE
  <2>1. m \in Int /\ n \in Int /\ m < n
    BY <1>4
  <2>2. \A x \in beyond(n) : x \in beyond(m)
    BY <2>1
  <2>3. m \in beyond(m) /\ m \notin beyond(n)
    BY <2>1
  <2>4. beyond(n) \in Q /\ beyond(n) # A
    BY <1>3, <2>3
  <2>5. ~ (beyond(n) \subseteq A)
    <3> HIDE DEF beyond
    <3> QED BY <1>2, <2>4
  <2> QED BY <1>3, <2>2, <2>5
<1> QED BY <1>4

(* And a least one.                                                        *)
LEMMA Least ==
  ASSUME NEW S, S \subseteq Int, IsFiniteSet(S), S # {}
  PROVE  \E m \in S : \A n \in S : m <= n
<1> DEFINE beyond(v) == {n \in S : n <= v}
           T == S
           Q == {beyond(v) : v \in S}
<1>1. \E A \in Q : \A B \in Q : B \subseteq A => B = A
  <2>1. IsFiniteSet(T) /\ Q \subseteq SUBSET T /\ Q # {}
    OBVIOUS
  <2> HIDE DEF Q, T
  <2> QED BY <2>1, FiniteMinimal
<1>2. PICK A \in Q : \A B \in Q : B \subseteq A => B = A
  BY <1>1
<1>3. PICK m \in S : A = beyond(m)
  BY <1>2
<1>4. ASSUME NEW n \in S, ~ (m <= n) PROVE FALSE
  <2>1. m \in Int /\ n \in Int /\ n < m
    BY <1>4
  <2>2. \A x \in beyond(n) : x \in beyond(m)
    BY <2>1
  <2>3. m \in beyond(m) /\ m \notin beyond(n)
    BY <2>1
  <2>4. beyond(n) \in Q /\ beyond(n) # A
    BY <1>3, <2>3
  <2>5. ~ (beyond(n) \subseteq A)
    <3> HIDE DEF beyond
    <3> QED BY <1>2, <2>4
  <2> QED BY <1>3, <2>2, <2>5
<1> QED BY <1>4

(* The longest window.                                                     *)
LEMMA Longest == MaxWidth \in Widths /\ MaxWidth \in Nat \ {0} /\ \A w \in Widths : w <= MaxWidth
<1>1. Widths \subseteq Int /\ IsFiniteSet(Widths) /\ Widths # {}
  BY FeaturesAssumption
<1>2. \E w \in Widths : \A v \in Widths : v <= w
  BY <1>1, Greatest
<1>3. MaxWidth \in Widths /\ \A w \in Widths : w <= MaxWidth
  BY <1>2 DEF MaxWidth
<1> QED BY <1>3, FeaturesAssumption

-----------------------------------------------------------------------------
(* Keys.                                                                   *)

Entities == UNION {KeysOf(e) : e \in Event}

LEMMA KeyFacts ==
  ASSUME NEW e
  PROVE  /\ Key("user", e) = <<"user", e.user>>
         /\ Key("source", e) = <<"source", e.source>>
         /\ Key("pair", e) = <<"pair", e.user, e.source>>
         /\ KeysOf(e) = {Key("user", e), Key("source", e), Key("pair", e)}
         /\ \A k \in KeysOf(e) : k[1] \in Kinds /\ k = Key(k[1], e)
         /\ \A kind \in Kinds : Key(kind, e) \in KeysOf(e) /\ Key(kind, e)[1] = kind
<1>1. /\ Key("user", e) = <<"user", e.user>>
      /\ Key("source", e) = <<"source", e.source>>
      /\ Key("pair", e) = <<"pair", e.user, e.source>>
  BY DEF Key
<1>2. KeysOf(e) = {Key("user", e), Key("source", e), Key("pair", e)}
  BY DEF KeysOf, Kinds
<1> QED BY <1>1, <1>2 DEF Kinds, KeysOf

-----------------------------------------------------------------------------
(* The history.                                                            *)

Ingested == [event : Event, ts : Nat]

Touches(p, k) == {i \in 1 .. Len(p) : k \in KeysOf(p[i].event)}
Last(p, k) == CHOOSE i \in Touches(p, k) : \A j \in Touches(p, k) : j <= i
Known(p) == UNION {KeysOf(p[i].event) : i \in 1 .. Len(p)}

LEMMA LastFacts ==
  ASSUME NEW p \in Seq(Ingested), NEW k, Touches(p, k) # {}
  PROVE  /\ Last(p, k) \in Touches(p, k) /\ Last(p, k) \in 1 .. Len(p)
         /\ \A j \in Touches(p, k) : j <= Last(p, k)
<1>1. Touches(p, k) \subseteq Int /\ IsFiniteSet(Touches(p, k))
  <2>1. IsFiniteSet(1 .. Len(p))
    BY FS_Interval
  <2>2. Touches(p, k) \subseteq 1 .. Len(p)
    BY DEF Touches
  <2> QED BY <2>1, <2>2, FS_Subset
<1>2. \E i \in Touches(p, k) : \A j \in Touches(p, k) : j <= i
  BY <1>1, Greatest
<1>3. Last(p, k) \in Touches(p, k) /\ \A j \in Touches(p, k) : j <= Last(p, k)
  BY <1>2 DEF Last
<1> QED BY <1>3 DEF Touches

LEMMA LastIs ==
  ASSUME NEW p \in Seq(Ingested), NEW k, NEW i \in Touches(p, k), \A j \in Touches(p, k) : j <= i
  PROVE  Last(p, k) = i
<1>1. Last(p, k) \in Touches(p, k) /\ i <= Last(p, k) /\ Last(p, k) <= i
  BY LastFacts
<1>2. Last(p, k) \in Int /\ i \in Int
  BY <1>1 DEF Touches
<1> QED BY <1>1, <1>2

LEMMA KnownTouched ==
  ASSUME NEW p, NEW k
  PROVE  k \in Known(p) <=> Touches(p, k) # {}
  BY DEF Known, Touches

(* The history q is p and the event r.                                     *)
OneMore(p, r, q) ==
  /\ p \in Seq(Ingested) /\ r \in Ingested /\ q \in Seq(Ingested)
  /\ Len(q) = Len(p) + 1 /\ q[Len(p) + 1] = r
  /\ \A i \in 1 .. Len(p) : q[i] = p[i]

LEMMA AppendOneMore ==
  ASSUME NEW p \in Seq(Ingested), NEW r \in Ingested, NEW q, q = Append(p, r)
  PROVE  OneMore(p, r, q)
<1>1. q \in Seq(Ingested)
  OBVIOUS
<1>2. Len(q) = Len(p) + 1 /\ q[Len(p) + 1] = r
  OBVIOUS
<1>3. \A i \in 1 .. Len(p) : q[i] = p[i]
  OBVIOUS
<1> QED BY <1>1, <1>2, <1>3 DEF OneMore

LEMMA OneMoreFacts ==
  ASSUME NEW p, NEW r, NEW q, OneMore(p, r, q)
  PROVE  /\ Len(p) \in Nat /\ 1 .. Len(q) = (1 .. Len(p)) \cup {Len(p) + 1}
         /\ Known(q) = Known(p) \cup KeysOf(r.event)
         /\ \A k, i : i \in Touches(q, k) <=> i \in Touches(p, k) \/ (i = Len(p) + 1 /\ k \in KeysOf(r.event))
         /\ \A k : k \in KeysOf(r.event) => Last(q, k) = Len(p) + 1
         /\ \A k : k \in Known(p) /\ k \notin KeysOf(r.event) => Last(q, k) = Last(p, k)
<1>1. Len(p) \in Nat /\ 1 .. Len(q) = (1 .. Len(p)) \cup {Len(p) + 1}
  BY DEF OneMore
<1>2. Known(q) = Known(p) \cup KeysOf(r.event)
  BY <1>1 DEF Known, OneMore
<1>3. ASSUME NEW k, NEW i
      PROVE  i \in Touches(q, k) <=> i \in Touches(p, k) \/ (i = Len(p) + 1 /\ k \in KeysOf(r.event))
  BY <1>1 DEF Touches, OneMore
<1>4. ASSUME NEW k, k \in KeysOf(r.event) PROVE Last(q, k) = Len(p) + 1
  <2>1. Len(p) + 1 \in Touches(q, k)
    BY <1>3, <1>4
  <2>2. \A j \in Touches(q, k) : j <= Len(p) + 1
    BY <1>1 DEF Touches
  <2>3. q \in Seq(Ingested)
    BY DEF OneMore
  <2> QED BY <2>1, <2>2, <2>3, LastIs
<1>5. ASSUME NEW k, k \in Known(p), k \notin KeysOf(r.event) PROVE Last(q, k) = Last(p, k)
  <2>1. Touches(q, k) = Touches(p, k)
    BY <1>3, <1>5
  <2> QED BY <2>1 DEF Last
<1> QED BY <1>1, <1>2, <1>3, <1>4, <1>5

LEMMA KnownFinite ==
  ASSUME NEW p \in Seq(Ingested)
  PROVE  IsFiniteSet(Known(p))
<1> DEFINE P == (1 .. Len(p)) \X Kinds
           g == [x \in P |-> Key(x[2], p[x[1]].event)]
           K == Known(p)
<1>1. IsFiniteSet(P)
  <2>1. IsFiniteSet(1 .. Len(p))
    BY FS_Interval
  <2>2. IsFiniteSet(Kinds)
    <3>1. IsFiniteSet({}) /\ IsFiniteSet({"user"})
      BY FS_EmptySet, FS_Singleton
    <3>2. IsFiniteSet({"user"} \cup {"source"})
      BY <3>1, FS_AddElement
    <3>3. IsFiniteSet(({"user"} \cup {"source"}) \cup {"pair"})
      BY <3>2, FS_AddElement
    <3>4. Kinds = ({"user"} \cup {"source"}) \cup {"pair"}
      BY DEF Kinds
    <3> QED BY <3>3, <3>4
  <2> QED BY <2>1, <2>2, FS_Product
<1>2. g \in Surjection(P, K)
  <2>1. \A x \in P : g[x] \in K
    BY KeyFacts DEF Known
  <2>2. \A k \in K : \E x \in P : g[x] = k
    <3> SUFFICES ASSUME NEW k \in K PROVE \E x \in P : g[x] = k
      OBVIOUS
    <3>1. PICK i \in 1 .. Len(p) : k \in KeysOf(p[i].event)
      BY DEF Known
    <3>2. k[1] \in Kinds /\ k = Key(k[1], p[i].event)
      BY <3>1, KeyFacts
    <3>3. <<i, k[1]>> \in P /\ g[<<i, k[1]>>] = k
      BY <3>2
    <3> QED BY <3>3
  <2> HIDE DEF K, P
  <2> QED BY <2>1, <2>2 DEF Surjection
<1> HIDE DEF g, P
<1>3. IsFiniteSet(K)
  BY <1>1, <1>2, FS_Surjection
<1> QED BY <1>3

-----------------------------------------------------------------------------
(* Who is held, and for how long.                                          *)

(* A buffer has its three fields.                                          *)
Shaped(b) == b = [records |-> b.records, last |-> b.last, window |-> b.window]

Typed ==
  /\ cap \in Nat /\ now \in Nat /\ done \in Nat
  /\ phase \in {"next", "emit", "ingest", "expire"}
  /\ block \in Seq(Event) /\ past \in Seq(Ingested) /\ queue \in Seq(Nat \X Entities)
  /\ DOMAIN seen \subseteq Entities /\ seen \in [DOMAIN seen -> Nat]
  /\ phase \in {"emit", "ingest"} => done < Len(block)
  /\ phase \in {"next", "expire"} => done = 0

(* Time goes on, and the block at hand is later than what was ingested.    *)
Timed ==
  /\ \A i, j \in 1 .. Len(past) : i <= j => past[i].ts <= past[j].ts
  /\ \A i \in 1 .. Len(past) : past[i].ts <= now
  /\ phase = "emit" \/ (phase = "ingest" /\ done = 0) =>
       \A i \in 1 .. Len(past) : past[i].ts < now
  /\ row # NoRow => phase = "emit" \/ (phase = "ingest" /\ done = 0)

(* A kind's place among the three touches of an event, from the last.      *)
Off(kind) == IF kind = "user" THEN 2 ELSE IF kind = "source" THEN 1 ELSE 0

(* The queue holds the touches of all but the first c events, and the      *)
(* entities seen are touched in it last when they were seen.               *)
Queued(c) ==
  /\ Len(queue) = 3 * (Len(past) - c)
  /\ \A j \in 1 .. Len(past) - c, kind \in Kinds :
       /\ queue[3 * j - Off(kind)][1] = past[c + j].ts
       /\ queue[3 * j - Off(kind)][2] = Key(kind, past[c + j].event)
  /\ \A i \in 1 .. c : past[i].ts < now - MaxWidth
  /\ phase = "next" => \A i \in c + 1 .. Len(past) : past[i].ts >= now - MaxWidth
  /\ \A k \in DOMAIN seen :
       k \in Known(past) /\ Last(past, k) > c /\ seen[k] = past[Last(past, k)].ts

(* The entities of k's kind that an event after k's last one touched, up   *)
(* to the event b.                                                         *)
Later(p, k, b) ==
  {o \in Known(p) : o[1] = k[1] /\ \E i \in Touches(p, o) : Last(p, k) < i /\ i <= b}

(* Of the events up to b, those whose entities are not seen are too old or *)
(* crowded out, and those whose entities are seen are not crowded out.     *)
Ranked(b) ==
  /\ \A i \in b + 1 .. Len(past) : KeysOf(past[i].event) \subseteq DOMAIN seen
  /\ \A k \in Known(past) \ DOMAIN seen :
       \/ past[Last(past, k)].ts < now - MaxWidth
       \/ cap > 0 /\ Cardinality(Later(past, k, b)) >= cap
  /\ \A k \in DOMAIN seen :
       Last(past, k) <= b => cap = 0 \/ Cardinality(Later(past, k, b)) < cap

(* The buffers are those of the entities seen, and of the block at hand.   *)
Buffered ==
  /\ \A k \in DOMAIN buffers : Shaped(buffers[k])
  /\ DOMAIN seen \subseteq DOMAIN buffers
  /\ \A k \in DOMAIN seen : buffers[k].last = seen[k]
  /\ phase \in {"next", "expire"} => DOMAIN buffers = DOMAIN seen
  /\ phase = "emit" =>
       DOMAIN buffers = DOMAIN seen \cup UNION {KeysOf(block[d]) : d \in 1 .. done}
  /\ phase = "ingest" =>
       DOMAIN buffers = DOMAIN seen \cup UNION {KeysOf(block[d]) : d \in done + 1 .. Len(block)}

Queueing == \E c \in 0 .. Len(past) : Queued(c)
Ranking == \E b \in 0 .. Len(past) : Ranked(b) /\ (phase \in {"next", "emit"} => b = Len(past))

Held == Typed /\ Timed /\ Queueing /\ Ranking /\ Buffered

-----------------------------------------------------------------------------
LEMMA AdvancedShape ==
  ASSUME NEW b, NEW ts, Shaped(b)
  PROVE  Shaped(Advanced(b, ts)) /\ Advanced(b, ts).last = b.last
<1> DEFINE W == [w \in Widths |-> Slid(b, w, ts)]
           x == [b EXCEPT !.window = W]
<1>1. Advanced(b, ts) = Compacted(x)
  BY DEF Advanced
<1> HIDE DEF W
<1>2. x = [records |-> b.records, last |-> b.last, window |-> W]
  BY DEF Shaped
<1>3. Shaped(x) /\ x.last = b.last
  BY <1>2 DEF Shaped
<1> HIDE DEF x
<1>4. Compacted(x) = x \/ \E r, v : Compacted(x) = [x EXCEPT !.records = r, !.window = v]
  BY DEF Compacted
<1>5. ASSUME NEW r, NEW v, Compacted(x) = [x EXCEPT !.records = r, !.window = v]
      PROVE  Compacted(x) = [records |-> r, last |-> x.last, window |-> v]
  BY <1>3, <1>5 DEF Shaped
<1>6. Shaped(Compacted(x)) /\ Compacted(x).last = x.last
  BY <1>3, <1>4, <1>5 DEF Shaped
<1> QED BY <1>1, <1>3, <1>6

LEMMA NoBufferShape == Shaped(NoBuffer)
  BY DEF Shaped, NoBuffer

LEMMA AppendedShape ==
  ASSUME NEW b, NEW kind, NEW e, NEW ts
  PROVE  Shaped(Appended(b, kind, e, ts)) /\ Appended(b, kind, e, ts).last = ts
  BY DEF Shaped, Appended

LEMMA BlockEvent ==
  ASSUME Typed, phase \in {"emit", "ingest"}
  PROVE  block[done + 1] \in Event /\ done + 1 \in 1 .. Len(block) /\ KeysOf(block[done + 1]) \subseteq Entities
<1>1. block[done + 1] \in Event /\ done + 1 \in 1 .. Len(block)
  BY DEF Typed
<1> QED BY <1>1 DEF Entities

LEMMA PastFacts ==
  ASSUME NEW p \in Seq(Ingested), NEW i \in 1 .. Len(p)
  PROVE  p[i].ts \in Nat /\ p[i].event \in Event
<1>1. p[i] \in Ingested
  OBVIOUS
<1> QED BY <1>1 DEF Ingested

LEMMA InitHeld == Init => Held
<1> SUFFICES ASSUME Init PROVE Held
  OBVIOUS
<1>1. cap \in Nat
  BY FeaturesAssumption DEF Init
<1>2. /\ past = <<>> /\ queue = <<>> /\ DOMAIN seen = {} /\ DOMAIN buffers = {} /\ block = <<>>
      /\ phase = "next" /\ done = 0 /\ now = 0 /\ row = NoRow /\ seen \in [DOMAIN seen -> Nat]
  BY DEF Init
<1>3. Typed
  BY <1>1, <1>2 DEF Typed
<1>4. Timed /\ Buffered
  BY <1>2 DEF Timed, Buffered
<1>5. Known(past) = {} /\ Len(past) = 0
  BY <1>2 DEF Known
<1>6. Queued(0) /\ Ranked(0)
  BY <1>2, <1>5 DEF Queued, Ranked
<1> QED BY <1>3, <1>4, <1>5, <1>6 DEF Held, Queueing, Ranking

LEMMA NextBlockHeld == Held /\ NextBlock => Held'
<1> SUFFICES ASSUME Held, NextBlock PROVE Held'
  OBVIOUS
<1>1. PICK ts \in now + 1 .. MaxTime, n \in 1 .. MaxBlock :
        now' = ts /\ block' \in [1 .. n -> Inputs]
  BY DEF NextBlock
<1>2. /\ phase = "next" /\ phase' = "emit" /\ done' = 0
      /\ UNCHANGED <<cap, buffers, sequences, geo, queue, seen, row, past>>
  BY DEF NextBlock
<1>3. now \in Nat /\ now' \in Nat /\ now < now' /\ n \in Nat /\ n > 0
  BY <1>1, FeaturesAssumption DEF Held, Typed
<1>4. block' \in Seq(Event) /\ Len(block') = n
  BY <1>1, <1>3, FeaturesAssumption
<1>5. Typed'
  BY <1>2, <1>3, <1>4 DEF Held, Typed
<1>6. \A i \in 1 .. Len(past) : past[i].ts \in Nat
  BY PastFacts DEF Held, Typed
<1>7. Timed'
  BY <1>2, <1>3, <1>6 DEF Held, Timed
<1>8. Buffered'
  BY <1>2, <1>3 DEF Held, Buffered, Shaped
<1>9. ASSUME NEW c \in 0 .. Len(past), Queued(c) PROVE Queued(c)'
  <2>1. ASSUME NEW i \in 1 .. c PROVE past[i].ts < now' - MaxWidth
    <3>1. i \in 1 .. Len(past) /\ past[i].ts < now - MaxWidth
      BY <1>9 DEF Queued, Held, Typed
    <3> QED BY <1>3, <1>6, <3>1, Longest
  <2> QED BY <1>2, <1>9, <2>1 DEF Queued, MaxWidth
<1>10. ASSUME Ranked(Len(past)) PROVE Ranked(Len(past))'
  <2>1. ASSUME NEW k \in Known(past), past[Last(past, k)].ts < now - MaxWidth
        PROVE  past[Last(past, k)].ts < now' - MaxWidth
    <3>1. Last(past, k) \in 1 .. Len(past)
      BY LastFacts, KnownTouched DEF Held, Typed
    <3> QED BY <1>3, <1>6, <2>1, <3>1, Longest
  <2> QED BY <1>2, <1>10, <2>1 DEF Ranked, Later
<1>11. Queueing' /\ Ranking'
  <2>1. Queueing'
    BY <1>2, <1>9 DEF Held, Queueing
  <2>2. Ranking'
    BY <1>2, <1>10 DEF Held, Ranking
  <2> QED BY <2>1, <2>2
<1> QED BY <1>5, <1>7, <1>8, <1>11 DEF Held

(* The steps that leave the touches alone.                                 *)
LEMMA SameTouches ==
  ASSUME Held, UNCHANGED <<cap, now, queue, seen, past>>, phase = "emit",
         phase' \in {"emit", "ingest"}
  PROVE  Queueing' /\ Ranking'
<1>1. ASSUME NEW c, Queued(c) PROVE Queued(c)'
  BY <1>1 DEF Queued, MaxWidth
<1>2. ASSUME NEW b, Ranked(b) PROVE Ranked(b)'
  BY <1>2 DEF Ranked, Later, MaxWidth
<1>3. Queueing'
  BY <1>1 DEF Held, Queueing
<1>4. Ranking'
  BY <1>2 DEF Held, Ranking
<1> QED BY <1>3, <1>4

LEMMA EmitHeld == Held /\ Emit => Held'
<1> SUFFICES ASSUME Held, Emit PROVE Held'
  OBVIOUS
<1> DEFINE e == block[done + 1]
           K == KeysOf(e)
<1>1. /\ phase = "emit" /\ UNCHANGED <<cap, now, block, geo, queue, seen, past>>
      /\ \/ done + 1 = Len(block) /\ phase' = "ingest" /\ done' = 0
         \/ done + 1 # Len(block) /\ phase' = phase /\ done' = done + 1
      /\ DOMAIN buffers' = DOMAIN buffers \cup K
      /\ \A k \in DOMAIN buffers' :
           buffers'[k] = IF k \in K THEN Advanced(BufferFor(k), now) ELSE buffers[k]
  BY DEF Emit
<1>2. /\ done \in Nat /\ Len(block) \in Nat /\ done < Len(block) /\ phase' \in {"emit", "ingest"}
  BY <1>1 DEF Held, Typed
<1>3. Typed'
  BY <1>1, <1>2 DEF Held, Typed
<1>4. Timed'
  BY <1>1 DEF Held, Timed
<1>5. Queueing' /\ Ranking'
  BY <1>1, SameTouches
<1>6. Buffered'
  <2>1. ASSUME NEW k \in DOMAIN buffers'
        PROVE  Shaped(buffers'[k]) /\ (k \in DOMAIN buffers => buffers'[k].last = buffers[k].last)
    <3>1. Shaped(BufferFor(k)) /\ (k \in DOMAIN buffers => BufferFor(k) = buffers[k])
      BY NoBufferShape DEF BufferFor, Held, Buffered
    <3>2. CASE k \in K
      BY <1>1, <2>1, <3>1, <3>2, AdvancedShape
    <3>3. CASE k \notin K
      <4>1. k \in DOMAIN buffers /\ buffers'[k] = buffers[k]
        BY <1>1, <2>1, <3>3
      <4> QED BY <4>1 DEF Held, Buffered
    <3> QED BY <3>2, <3>3
  <2>2. DOMAIN buffers = DOMAIN seen \cup UNION {KeysOf(block[d]) : d \in 1 .. done}
    BY <1>1 DEF Held, Buffered
  <2>3. 1 .. done + 1 = (1 .. done) \cup {done + 1}
    BY <1>2
  <2>4. DOMAIN buffers' = DOMAIN seen \cup UNION {KeysOf(block[d]) : d \in 1 .. done + 1}
    BY <1>1, <2>2, <2>3
  <2>5. \A k \in DOMAIN seen : k \in DOMAIN buffers /\ buffers[k].last = seen[k]
    BY DEF Held, Buffered
  <2>6. /\ \A k \in DOMAIN buffers' : Shaped(buffers'[k])
        /\ DOMAIN seen' \subseteq DOMAIN buffers'
        /\ \A k \in DOMAIN seen' : buffers'[k].last = seen'[k]
    BY <1>1, <2>1, <2>5
  <2>7. /\ phase' = "emit" => 1 .. done + 1 = 1 .. done'
        /\ phase' = "ingest" => 1 .. done + 1 = done' + 1 .. Len(block)
    BY <1>1, <1>2
  <2>8. /\ phase' \notin {"next", "expire"}
        /\ phase' = "emit" =>
             DOMAIN buffers' = DOMAIN seen' \cup UNION {KeysOf(block'[d]) : d \in 1 .. done'}
        /\ phase' = "ingest" =>
             DOMAIN buffers' =
               DOMAIN seen' \cup UNION {KeysOf(block'[d]) : d \in done' + 1 .. Len(block')}
    BY <1>1, <1>2, <2>4, <2>7
  <2> QED BY <2>6, <2>8 DEF Buffered, Shaped
<1> QED BY <1>3, <1>4, <1>5, <1>6 DEF Held

LEMMA ConcatRight ==
  ASSUME NEW S, NEW s \in Seq(S), NEW t \in Seq(S), NEW i \in 1 .. Len(t)
  PROVE  (s \o t)[Len(s) + i] = t[i]
<1>1. Len(s) \in Nat /\ Len(t) \in Nat /\ i \in Nat
  OBVIOUS
<1>2. Len(s) + i \in 1 .. Len(s) + Len(t) /\ ~ (Len(s) + i <= Len(s)) /\ Len(s) + i - Len(s) = i
  BY <1>1
<1> QED BY <1>2

(* What ingesting an event does to the history.                            *)
LEMMA IngestPast ==
  ASSUME Held, Ingest, NEW e, e = block[done + 1], NEW K, K = KeysOf(e),
         NEW p, p = past, NEW q, q = past', NEW N, N = Len(past)
  PROVE  /\ e \in Event /\ now \in Nat /\ N \in Nat /\ p \in Seq(Ingested) /\ q \in Seq(Ingested)
         /\ Len(q) = N + 1 /\ q[N + 1].event = e /\ q[N + 1].ts = now
         /\ \A i \in 1 .. N : q[i] = p[i]
         /\ Known(q) = Known(p) \cup K
         /\ \A k : k \in K => Last(q, k) = N + 1
         /\ \A k : k \in Known(p) /\ k \notin K => Last(q, k) = Last(p, k)
         /\ \A k, i : i \in Touches(q, k) <=> i \in Touches(p, k) \/ (i = N + 1 /\ k \in K)
<1> DEFINE r == [event |-> e, ts |-> now]
<1>1. phase = "ingest" /\ past' = Append(past, r)
  BY DEF Ingest
<1>2. e \in Event /\ now \in Nat /\ N \in Nat /\ p \in Seq(Ingested) /\ N = Len(p)
  BY <1>1, BlockEvent DEF Held, Typed
<1>3. r \in Ingested /\ KeysOf(r.event) = K /\ r.event = e /\ r.ts = now
  BY <1>2 DEF Ingested
<1> HIDE DEF r
<1>4. OneMore(p, r, q)
  <2>1. past \in Seq(Ingested)
    BY DEF Held, Typed
  <2>2. OneMore(past, r, past')
    BY <1>1, <1>3, <2>1, AppendOneMore
  <2> QED BY <2>2
<1>5. /\ Known(q) = Known(p) \cup K
      /\ \A k : k \in K => Last(q, k) = N + 1
      /\ \A k : k \in Known(p) /\ k \notin K => Last(q, k) = Last(p, k)
      /\ \A k, i : i \in Touches(q, k) <=> i \in Touches(p, k) \/ (i = N + 1 /\ k \in K)
  BY <1>2, <1>3, <1>4, OneMoreFacts
<1>6. /\ q \in Seq(Ingested) /\ Len(q) = N + 1 /\ q[N + 1].event = e /\ q[N + 1].ts = now
      /\ \A i \in 1 .. N : q[i] = p[i]
  BY <1>2, <1>3, <1>4 DEF OneMore
<1> QED BY <1>2, <1>5, <1>6

(* An event that is ingested touches its three entities.                   *)
LEMMA IngestQueued ==
  ASSUME Held, Ingest, NEW c \in 0 .. Len(past), Queued(c)
  PROVE  Queued(c)'
<1> DEFINE e == block[done + 1]
           K == KeysOf(e)
           N == Len(past)
           Q == <<<<now, Key("user", e)>>, <<now, Key("source", e)>>, <<now, Key("pair", e)>>>>
           r == [event |-> e, ts |-> now]
<1>1. /\ phase = "ingest" /\ UNCHANGED <<cap, now, block>> /\ phase' \in {"ingest", "expire"}
      /\ queue' = queue \o Q
      /\ DOMAIN seen' = DOMAIN seen \cup K
      /\ \A k \in DOMAIN seen' : seen'[k] = IF k \in K THEN now ELSE seen[k]
      /\ past' = Append(past, r)
  BY DEF Ingest
<1>2. /\ r \in Ingested /\ past \in Seq(Ingested) /\ now \in Nat /\ N \in Nat /\ c \in Nat /\ c <= N
      /\ queue \in Seq(Nat \X Entities)
  BY <1>1, BlockEvent DEF Held, Typed, Ingested
<1>3. /\ Len(past') = N + 1 /\ past'[N + 1].event = e /\ past'[N + 1].ts = now /\ (\A i \in 1 .. N : past'[i] = past[i])
      /\ Known(past') = Known(past) \cup K
      /\ (\A k \in K : Last(past', k) = N + 1)
      /\ (\A k \in Known(past) : k \notin K => Last(past', k) = Last(past, k))
  <2> DEFINE p == past
             q == past'
  <2>1. p = past /\ q = past' /\ e = block[done + 1] /\ K = KeysOf(e) /\ N = Len(past)
    OBVIOUS
  <2> HIDE DEF p, q, e, K, N
  <2>2. /\ Len(q) = N + 1 /\ q[N + 1].event = e /\ q[N + 1].ts = now
        /\ (\A i \in 1 .. N : q[i] = p[i])
        /\ Known(q) = Known(p) \cup K
        /\ (\A k \in K : Last(q, k) = N + 1)
        /\ (\A k \in Known(p) : k \notin K => Last(q, k) = Last(p, k))
        /\ \A k, i : i \in Touches(q, k) <=> i \in Touches(p, k) \/ (i = N + 1 /\ k \in K)
    BY <2>1, IngestPast
  <2> QED BY <2>1, <2>2
<1>4. Len(queue) = 3 * (N - c)
  BY DEF Queued
<1>5. Len(queue') = 3 * (N + 1 - c)
  <2>1. Len(queue') = Len(queue) + 3
    BY <1>1, <1>2
  <2> QED BY <1>2, <1>4, <2>1
<1>6. ASSUME NEW j \in 1 .. N + 1 - c, NEW kind \in Kinds
      PROVE  /\ queue'[3 * j - Off(kind)][1] = past'[c + j].ts
             /\ queue'[3 * j - Off(kind)][2] = Key(kind, past'[c + j].event)
  <2>1. Off(kind) \in 0 .. 2
    BY DEF Off
  <2>2. CASE j \in 1 .. N - c
    <3>1. 3 * j - Off(kind) \in 1 .. Len(queue)
      BY <1>2, <1>4, <2>1, <2>2
    <3>2. queue'[3 * j - Off(kind)] = queue[3 * j - Off(kind)]
      BY <1>1, <1>2, <3>1
    <3>3. c + j \in 1 .. N
      BY <1>2, <2>2
    <3> QED BY <1>3, <2>2, <3>2, <3>3 DEF Queued
  <2>3. CASE j = N + 1 - c
    <3> DEFINE i == 3 - Off(kind)
               x == 3 * j - Off(kind)
    <3>1. x = Len(queue) + i
      BY <1>2, <1>4, <2>1, <2>3
    <3>2. Q[i][1] = now /\ Q[i][2] = Key(kind, e)
      BY DEF Off, Kinds
    <3>3. i \in 1 .. 3 /\ Len(Q) = 3
      BY <2>1
    <3>4. Q \in Seq(Nat \X Entities)
      <4>1. \A k \in Kinds : Key(k, e) \in Entities
        BY <1>1, BlockEvent, KeyFacts DEF Held
      <4> QED BY <1>2, <4>1 DEF Kinds
    <3>5. queue' = queue \o Q
      BY <1>1
    <3> HIDE DEF Q, i
    <3>6. queue'[Len(queue) + i] = Q[i]
      <4>1. (queue \o Q)[Len(queue) + i] = Q[i]
        <5>1. i \in 1 .. Len(Q)
          BY <3>3
        <5> QED BY <1>2, <5>1, <3>4, ConcatRight
      <4> QED BY <3>5, <4>1
    <3>7. c + j = N + 1
      BY <1>2, <2>3
    <3> HIDE DEF e, x, N
    <3>8. queue'[x][1] = past'[c + j].ts /\ queue'[x][2] = Key(kind, past'[c + j].event)
      BY <1>3, <3>1, <3>2, <3>6, <3>7
    <3> QED BY <3>8 DEF x
  <2> QED BY <1>2, <2>2, <2>3
<1>7. \A i \in 1 .. c : past'[i].ts < now' - MaxWidth
  <2>1. \A i \in 1 .. c : i \in 1 .. N
    BY <1>2
  <2> QED BY <1>1, <1>3, <2>1 DEF Queued
<1>8. ASSUME NEW k \in DOMAIN seen'
      PROVE  k \in Known(past') /\ Last(past', k) > c /\ seen'[k] = past'[Last(past', k)].ts
  <2>1. CASE k \in K
    <3>1. Last(past', k) = N + 1 /\ N + 1 > c
      BY <1>2, <1>3, <2>1
    <3> QED BY <1>1, <1>3, <2>1, <3>1
  <2>2. CASE k \notin K
    <3>1. k \in DOMAIN seen /\ seen'[k] = seen[k]
      BY <1>1, <2>2
    <3>2. k \in Known(past) /\ Last(past, k) > c /\ seen[k] = past[Last(past, k)].ts
      BY <3>1 DEF Queued
    <3>3. Last(past, k) \in 1 .. N /\ Last(past', k) = Last(past, k)
      BY <1>2, <1>3, <2>2, <3>2, LastFacts, KnownTouched
    <3> QED BY <1>3, <3>1, <3>2, <3>3
  <2> QED BY <2>1, <2>2
<1>9. N + 1 = Len(past') /\ phase' # "next" /\ MaxWidth' = MaxWidth
  BY <1>1, <1>3 DEF MaxWidth
<1>10. Len(queue') = 3 * (Len(past') - c)
  BY <1>5, <1>9
<1>11. \A j \in 1 .. Len(past') - c, kind \in Kinds :
         /\ queue'[3 * j - Off(kind)][1] = past'[c + j].ts
         /\ queue'[3 * j - Off(kind)][2] = Key(kind, past'[c + j].event)
  BY <1>6, <1>9
<1> QED BY <1>7, <1>8, <1>9, <1>10, <1>11 DEF Queued

LEMMA IngestRanked ==
  ASSUME Held, Ingest, NEW b \in 0 .. Len(past), Ranked(b)
  PROVE  Ranked(b)'
<1> DEFINE e == block[done + 1]
           K == KeysOf(e)
           N == Len(past)
           r == [event |-> e, ts |-> now]
<1>1. /\ phase = "ingest" /\ UNCHANGED <<cap, now>>
      /\ DOMAIN seen' = DOMAIN seen \cup K
      /\ past' = Append(past, r)
  BY DEF Ingest
<1>2. /\ r \in Ingested /\ past \in Seq(Ingested) /\ now \in Nat /\ N \in Nat /\ b \in Nat /\ b <= N
  BY <1>1, BlockEvent DEF Held, Typed, Ingested
<1>3. /\ Len(past') = N + 1 /\ past'[N + 1].event = e /\ past'[N + 1].ts = now /\ (\A i \in 1 .. N : past'[i] = past[i])
      /\ Known(past') = Known(past) \cup K
      /\ (\A k \in K : Last(past', k) = N + 1)
      /\ (\A k \in Known(past) : k \notin K => Last(past', k) = Last(past, k))
      /\ \A k, i : i \in Touches(past', k) <=> i \in Touches(past, k) \/ (i = N + 1 /\ k \in K)
  <2> DEFINE p == past
             q == past'
  <2>1. p = past /\ q = past' /\ e = block[done + 1] /\ K = KeysOf(e) /\ N = Len(past)
    OBVIOUS
  <2> HIDE DEF p, q, e, K, N
  <2>2. /\ Len(q) = N + 1 /\ q[N + 1].event = e /\ q[N + 1].ts = now
        /\ (\A i \in 1 .. N : q[i] = p[i])
        /\ Known(q) = Known(p) \cup K
        /\ (\A k \in K : Last(q, k) = N + 1)
        /\ (\A k \in Known(p) : k \notin K => Last(q, k) = Last(p, k))
        /\ \A k, i : i \in Touches(q, k) <=> i \in Touches(p, k) \/ (i = N + 1 /\ k \in K)
    BY <2>1, IngestPast
  <2> QED BY <2>1, <2>2
<1>4. ASSUME NEW k \in Known(past), k \notin K
      PROVE  /\ Last(past', k) = Last(past, k) /\ Last(past, k) \in 1 .. N
             /\ Later(past', k, b) = Later(past, k, b)
  <2>1. Last(past', k) = Last(past, k) /\ Last(past, k) \in 1 .. N
    <3>1. Last(past, k) \in 1 .. N
      BY <1>2, <1>4, LastFacts, KnownTouched
    <3> QED BY <1>3, <1>4, <3>1
  <2> DEFINE l == Last(past, k)
             A == {o \in Known(past') : o[1] = k[1] /\ \E i \in Touches(past', o) : l < i /\ i <= b}
             B == {o \in Known(past) : o[1] = k[1] /\ \E i \in Touches(past, o) : l < i /\ i <= b}
  <2>2. ASSUME NEW o \in A PROVE o \in B
    <3>1. PICK i \in Touches(past', o) : l < i /\ i <= b
      OBVIOUS
    <3>2. i # N + 1
      BY <1>2, <3>1
    <3>3. i \in Touches(past, o)
      BY <1>3, <3>1, <3>2
    <3>4. o \in Known(past)
      BY <3>3, KnownTouched
    <3> QED BY <3>1, <3>3, <3>4
  <2>3. ASSUME NEW o \in B PROVE o \in A
    BY <1>3, <2>3
  <2>4. A = B
    BY <2>2, <2>3
  <2> QED BY <2>1, <2>4 DEF Later
<1>5. \A i \in b + 1 .. N + 1 : KeysOf(past'[i].event) \subseteq DOMAIN seen'
  <2> SUFFICES ASSUME NEW i \in b + 1 .. N + 1 PROVE KeysOf(past'[i].event) \subseteq DOMAIN seen'
    OBVIOUS
  <2>1. CASE i = N + 1
    BY <1>1, <1>3, <2>1
  <2>2. CASE i # N + 1
    <3>1. i \in 1 .. N /\ i \in b + 1 .. N
      BY <1>2, <2>2
    <3> QED BY <1>1, <1>3, <3>1 DEF Ranked
  <2> QED BY <2>1, <2>2
<1>6. ASSUME NEW k \in Known(past') \ DOMAIN seen'
      PROVE  \/ past'[Last(past', k)].ts < now' - MaxWidth
             \/ cap' > 0 /\ Cardinality(Later(past', k, b)) >= cap'
  <2>1. k \in Known(past) \ DOMAIN seen /\ k \notin K
    BY <1>1, <1>3, <1>6
  <2>2. \/ past[Last(past, k)].ts < now - MaxWidth
        \/ cap > 0 /\ Cardinality(Later(past, k, b)) >= cap
    BY <2>1 DEF Ranked
  <2> QED BY <1>1, <1>3, <1>4, <2>1, <2>2
<1>7. ASSUME NEW k \in DOMAIN seen', Last(past', k) <= b
      PROVE  cap' = 0 \/ Cardinality(Later(past', k, b)) < cap'
  <2>1. k \notin K
    BY <1>2, <1>3, <1>7
  <2>2. k \in DOMAIN seen
    BY <1>1, <1>7, <2>1
  <2>3. k \in Known(past)
    BY <2>2 DEF Held, Queueing, Queued
  <2>4. Last(past, k) <= b
    BY <1>4, <1>7, <2>1, <2>3
  <2>5. cap = 0 \/ Cardinality(Later(past, k, b)) < cap
    BY <2>2, <2>4 DEF Ranked
  <2> QED BY <1>1, <1>4, <2>1, <2>3, <2>5
<1> HIDE DEF N, r, e, K
<1>8. Len(past') = N + 1 /\ MaxWidth' = MaxWidth
  BY <1>3 DEF MaxWidth
<1> QED BY <1>5, <1>6, <1>7, <1>8 DEF Ranked

LEMMA IngestHeld == Held /\ Ingest => Held'
<1> SUFFICES ASSUME Held, Ingest PROVE Held'
  OBVIOUS
<1> DEFINE e == block[done + 1]
           K == KeysOf(e)
           N == Len(past)
           L == Len(block)
           r == [event |-> e, ts |-> now]
<1>1. /\ phase = "ingest" /\ UNCHANGED <<cap, now, block>> /\ row' = NoRow
      /\ \/ done + 1 = L /\ phase' = "expire" /\ done' = 0
         \/ done + 1 # L /\ phase' = "ingest" /\ done' = done + 1
      /\ queue' = queue \o <<<<now, Key("user", e)>>, <<now, Key("source", e)>>,
                            <<now, Key("pair", e)>>>>
      /\ DOMAIN seen' = DOMAIN seen \cup K
      /\ seen' = [k \in DOMAIN seen \cup K |-> IF k \in K THEN now ELSE seen[k]]
      /\ DOMAIN buffers' = DOMAIN buffers \cup K
      /\ \A k \in DOMAIN buffers' :
           buffers'[k] = IF k \in K THEN Appended(BufferFor(k), k[1], e, now) ELSE buffers[k]
      /\ past' = Append(past, r)
  BY DEF Ingest
<1>2. /\ done \in Nat /\ L \in Nat /\ done < L /\ now \in Nat /\ N \in Nat
      /\ past \in Seq(Ingested) /\ r \in Ingested /\ K \subseteq Entities
      /\ queue \in Seq(Nat \X Entities) /\ e \in Event
  BY <1>1, BlockEvent DEF Held, Typed, Ingested
<1>3. /\ past' \in Seq(Ingested) /\ Len(past') = N + 1 /\ past'[N + 1] = r
      /\ (\A i \in 1 .. N : past'[i] = past[i])
  BY <1>1, <1>2
<1>4. Typed'
  <2>1. queue' \in Seq(Nat \X Entities)
    <3> DEFINE Q == <<<<now, Key("user", e)>>, <<now, Key("source", e)>>, <<now, Key("pair", e)>>>>
    <3>1. Q \in Seq(Nat \X Entities)
      <4>1. \A x \in Kinds : Key(x, e) \in Entities
        BY <1>2, KeyFacts
      <4> QED BY <1>2, <4>1 DEF Kinds
    <3>2. queue' = queue \o Q
      BY <1>1
    <3> HIDE DEF Q
    <3> QED BY <1>2, <3>1, <3>2
  <2>2. DOMAIN seen' \subseteq Entities /\ seen' \in [DOMAIN seen' -> Nat]
    <3>1. DOMAIN seen \subseteq Entities /\ seen \in [DOMAIN seen -> Nat]
      BY DEF Held, Typed
    <3> QED BY <1>1, <1>2, <3>1
  <2>3. cap' \in Nat /\ now' \in Nat /\ block' \in Seq(Event)
    BY <1>1 DEF Held, Typed
  <2> QED BY <1>1, <1>2, <1>3, <2>1, <2>2, <2>3 DEF Typed
<1>5. Timed'
  <2>1. \A i \in 1 .. N : past[i].ts \in Nat /\ past[i].ts <= now
    BY <1>2, PastFacts DEF Held, Timed
  <2>2. \A i \in 1 .. N + 1 : past'[i].ts \in Nat /\ past'[i].ts <= now
    BY <1>2, <1>3, <2>1
  <2>3. ASSUME NEW i \in 1 .. N + 1, NEW j \in 1 .. N + 1, i <= j PROVE past'[i].ts <= past'[j].ts
    <3>1. CASE j = N + 1
      BY <1>3, <2>2, <3>1
    <3>2. CASE j # N + 1
      <4>1. i \in 1 .. N /\ j \in 1 .. N
        BY <1>2, <2>3, <3>2
      <4> QED BY <1>3, <2>3, <4>1 DEF Held, Timed
    <3> QED BY <3>1, <3>2
  <2>4. phase' # "emit" /\ ~ (phase' = "ingest" /\ done' = 0)
    BY <1>1, <1>2
  <2> HIDE DEF N
  <2>5. Len(past') = N + 1
    BY <1>3
  <2> QED BY <1>1, <2>2, <2>3, <2>4, <2>5 DEF Timed
<1>6. Queueing'
  <2>1. PICK c \in 0 .. N : Queued(c)
    BY DEF Held, Queueing
  <2>2. Queued(c)' /\ c \in 0 .. Len(past')
    BY <1>2, <1>3, <2>1, IngestQueued
  <2> QED BY <2>2 DEF Queueing
<1>7. Ranking'
  <2>1. PICK b \in 0 .. N : Ranked(b)
    BY DEF Held, Ranking
  <2>2. Ranked(b)' /\ b \in 0 .. Len(past')
    BY <1>2, <1>3, <2>1, IngestRanked
  <2>3. phase' \notin {"next", "emit"}
    BY <1>1
  <2> QED BY <2>2, <2>3 DEF Ranking
<1>8. Buffered'
  <2>1. /\ \A k \in DOMAIN buffers : Shaped(buffers[k])
        /\ DOMAIN seen \subseteq DOMAIN buffers
        /\ \A k \in DOMAIN seen : buffers[k].last = seen[k]
        /\ DOMAIN buffers = DOMAIN seen \cup UNION {KeysOf(block[d]) : d \in done + 1 .. L}
    BY <1>1 DEF Held, Buffered
  <2>2. \A k \in DOMAIN buffers' : Shaped(buffers'[k])
    <3> SUFFICES ASSUME NEW k \in DOMAIN buffers' PROVE Shaped(buffers'[k])
      OBVIOUS
    <3>1. CASE k \in K
      BY <1>1, <3>1, AppendedShape
    <3>2. CASE k \notin K
      BY <1>1, <2>1, <3>2
    <3> QED BY <3>1, <3>2
  <2>3. \A k \in DOMAIN seen' : k \in DOMAIN buffers' /\ buffers'[k].last = seen'[k]
    BY <1>1, <2>1, AppendedShape
  <2>4. done + 1 .. L = {done + 1} \cup (done + 2 .. L)
    BY <1>2
  <2>5. DOMAIN buffers' = DOMAIN seen' \cup UNION {KeysOf(block[d]) : d \in done + 2 .. L}
    BY <1>1, <2>1, <2>4
  <2>6. /\ phase' = "expire" => done + 2 .. L = {}
        /\ phase' = "ingest" => done + 2 .. L = done' + 1 .. Len(block') /\ block' = block
    BY <1>1, <1>2
  <2>7. /\ phase' \in {"next", "expire"} => DOMAIN buffers' = DOMAIN seen'
        /\ phase' # "emit"
        /\ phase' = "ingest" =>
             DOMAIN buffers' =
               DOMAIN seen' \cup UNION {KeysOf(block'[d]) : d \in done' + 1 .. Len(block')}
    <3>1. CASE phase' = "expire"
      BY <2>5, <2>6, <3>1
    <3>2. CASE phase' = "ingest"
      BY <2>5, <2>6, <3>2
    <3> QED BY <1>1, <3>1, <3>2
  <2> QED BY <2>2, <2>3, <2>7 DEF Buffered, Shaped
<1> QED BY <1>4, <1>5, <1>6, <1>7, <1>8 DEF Held

(* The touches of n events lie three to an event.                          *)
LEMMA OffFacts ==
  ASSUME NEW kind \in Kinds
  PROVE  Off(kind) \in 0 .. 2
  BY DEF Off

LEMMA ThreeTouches ==
  ASSUME NEW n \in Nat, NEW i \in 1 .. 3 * n
  PROVE  \E j \in 1 .. n, kind \in Kinds : i = 3 * j - Off(kind)
<1> DEFINE j == (i + 2) \div 3
<1>1. j \in Int /\ 3 * j <= i + 2 /\ i + 2 < 3 * j + 3
  OBVIOUS
<1> HIDE DEF j
<1>2. j \in 1 .. n
  BY <1>1
<1>3. 3 * j - i = 0 \/ 3 * j - i = 1 \/ 3 * j - i = 2
  BY <1>1
<1>4. Off("user") = 2 /\ Off("source") = 1 /\ Off("pair") = 0
  BY DEF Off
<1>5. i = 3 * j - 0 \/ i = 3 * j - 1 \/ i = 3 * j - 2
  BY <1>1, <1>3
<1>6. i = 3 * j - Off("pair") \/ i = 3 * j - Off("source") \/ i = 3 * j - Off("user")
  BY <1>4, <1>5
<1> QED BY <1>2, <1>6 DEF Kinds

(* Where the touches become recent enough.                                 *)
LEMMA RecentFrom ==
  ASSUME Typed, Timed, NEW c \in 0 .. Len(past), NEW old \in Int
  PROVE  \E d \in 0 .. Len(past) - c :
           /\ \A j \in 1 .. d : past[c + j].ts < old
           /\ \A j \in d + 1 .. Len(past) - c : past[c + j].ts >= old
<1> DEFINE n == Len(past) - c
           T == {0} \cup {j \in 1 .. n : past[c + j].ts < old}
<1>1. Len(past) \in Nat /\ n \in Nat /\ c \in Nat
  BY DEF Typed
<1>2. T \subseteq Int /\ T # {} /\ IsFiniteSet(T)
  <2>1. T \subseteq 0 .. n
    BY <1>1
  <2> HIDE DEF n, T
  <2>3. IsFiniteSet(0 .. n)
    BY <1>1, FS_Interval
  <2>2. IsFiniteSet(T)
    BY <2>1, <2>3, FS_Subset
  <2>4. 0 \in T /\ T \subseteq Int
    BY <1>1, <2>1 DEF T
  <2> QED BY <2>2, <2>4
<1>3. \E d \in T : \A j \in T : j <= d
  <2> HIDE DEF T
  <2> QED BY <1>2, Greatest
<1>4. PICK d \in T : \A j \in T : j <= d
  BY <1>3
<1>5. d \in 0 .. n
  BY <1>1
<1>6. \A i \in 1 .. Len(past) : past[i].ts \in Nat
  BY PastFacts DEF Typed
<1>7. ASSUME NEW j \in 1 .. d PROVE past[c + j].ts < old
  <2>1. d \in 1 .. n /\ past[c + d].ts < old /\ c + j \in 1 .. Len(past) /\ c + d \in 1 .. Len(past)
    BY <1>1, <1>5
  <2>2. past[c + j].ts <= past[c + d].ts
    <3>1. c + j <= c + d
      BY <1>1, <1>5
    <3> QED BY <2>1, <3>1 DEF Timed
  <2> QED BY <1>6, <2>1, <2>2
<1>8. ASSUME NEW j \in d + 1 .. n PROVE past[c + j].ts >= old
  <2>1. j \notin T /\ j \in 1 .. n /\ c + j \in 1 .. Len(past)
    BY <1>1, <1>4, <1>5
  <2>2. ~ (past[c + j].ts < old) /\ past[c + j].ts \in Nat
    BY <1>6, <2>1
  <2> QED BY <2>2
<1> QED BY <1>5, <1>7, <1>8

-----------------------------------------------------------------------------
(* The touches that leave, and the entities that go with them.             *)

LEMMA OldTouchesAre ==
  ASSUME Held, NEW c \in 0 .. Len(past), Queued(c), NEW n, n = Len(past) - c,
         NEW old, old = now - MaxWidth, NEW d \in 0 .. n,
         \A j \in 1 .. d : past[c + j].ts < old, \A j \in d + 1 .. n : past[c + j].ts >= old
  PROVE  OldTouches = 1 .. 3 * d /\ Cardinality(OldTouches) = 3 * d
<1>1. n \in Nat /\ c \in Nat /\ d \in Nat /\ d <= n /\ Len(queue) = 3 * n /\ old \in Int
  BY Longest DEF Held, Typed, Queued
<1>2. ASSUME NEW i \in 1 .. 3 * n PROVE queue[i][1] < old <=> i <= 3 * d
  <2>1. PICK j \in 1 .. n, kind \in Kinds : i = 3 * j - Off(kind)
    BY <1>1, ThreeTouches
  <2>2. queue[3 * j - Off(kind)][1] = past[c + j].ts
    BY DEF Queued
  <2>3. c + j \in 1 .. Len(past)
    BY <1>1
  <2>4. past[c + j].ts \in Nat
    BY <2>3, PastFacts DEF Held, Typed
  <2>5. past[c + j].ts < old <=> j <= d
    <3>1. CASE j <= d
      <4>1. j \in 1 .. d
        BY <1>1, <3>1
      <4> QED BY <3>1, <4>1
    <3>2. CASE ~ (j <= d)
      <4>1. j \in d + 1 .. n
        BY <1>1, <3>2
      <4>2. past[c + j].ts >= old
        BY <4>1
      <4> QED BY <1>1, <2>4, <3>2, <4>2
    <3> QED BY <3>1, <3>2
  <2>6. i <= 3 * d <=> j <= d
    BY <1>1, <2>1, OffFacts
  <2>7. queue[i][1] = past[c + j].ts
    BY <2>1, <2>2
  <2> QED BY <2>5, <2>6, <2>7
<1>3. OldTouches = {i \in 1 .. 3 * n : queue[i][1] < old}
  BY <1>1 DEF OldTouches
<1>4. OldTouches = 1 .. 3 * d
  BY <1>1, <1>2, <1>3
<1>5. 3 * d \in Nat
  BY <1>1
<1>6. Cardinality(1 .. 3 * d) = 3 * d
  <2> DEFINE m == 3 * d
  <2>1. m \in Nat
    BY <1>5
  <2> HIDE DEF m
  <2>2. Cardinality(1 .. m) = m
    BY <2>1, FS_Interval
  <2> QED BY <2>2 DEF m
<1> QED BY <1>4, <1>6

(* An entity that is seen was touched last in its last event.              *)
LEMMA SeenFacts ==
  ASSUME Held, NEW c \in 0 .. Len(past), Queued(c), NEW k \in DOMAIN seen
  PROVE  /\ Last(past, k) \in c + 1 .. Len(past) /\ Last(past, k) \in Touches(past, k)
         /\ \A i \in Touches(past, k) : i <= Last(past, k)
         /\ k[1] \in Kinds /\ k = Key(k[1], past[Last(past, k)].event)
         /\ seen[k] = past[Last(past, k)].ts /\ k \in Known(past)
<1>1. k \in Known(past) /\ Last(past, k) > c /\ seen[k] = past[Last(past, k)].ts
  BY DEF Queued
<1>2. past \in Seq(Ingested)
  BY DEF Held, Typed
<1>3. /\ Last(past, k) \in Touches(past, k) /\ Last(past, k) \in 1 .. Len(past)
      /\ \A i \in Touches(past, k) : i <= Last(past, k)
  BY <1>1, <1>2, KnownTouched, LastFacts
<1>4. k \in KeysOf(past[Last(past, k)].event)
  BY <1>3 DEF Touches
<1>5. k[1] \in Kinds /\ k = Key(k[1], past[Last(past, k)].event)
  BY <1>4, KeyFacts
<1>6. Last(past, k) \in c + 1 .. Len(past)
  BY <1>1, <1>3
<1> QED BY <1>1, <1>3, <1>5, <1>6

LEMMA AgedAre ==
  ASSUME Held, NEW c \in 0 .. Len(past), Queued(c), NEW n, n = Len(past) - c,
         NEW old, old = now - MaxWidth, NEW d \in 0 .. n,
         \A j \in 1 .. d : past[c + j].ts < old, \A j \in d + 1 .. n : past[c + j].ts >= old,
         NEW k \in DOMAIN seen
  PROVE  /\ k \in Aged <=> seen[k] < old
         /\ k \in Aged <=> Last(past, k) <= c + d
<1>1. n \in Nat /\ c \in Nat /\ d \in Nat /\ d <= n /\ Len(queue) = 3 * n /\ old \in Int
  BY Longest DEF Held, Typed, Queued
<1> DEFINE l == Last(past, k)
           j == l - c
           kind == k[1]
           i == 3 * j - Off(kind)
<1>2. /\ l \in c + 1 .. Len(past) /\ kind \in Kinds /\ k = Key(kind, past[l].event)
      /\ seen[k] = past[l].ts /\ l = c + j /\ j \in 1 .. n
  BY <1>1, SeenFacts
<1>3. seen[k] \in Nat
  BY DEF Held, Typed
<1>4. seen[k] < old <=> j <= d
  <2>1. seen[k] = past[c + j].ts /\ j \in 1 .. n
    BY <1>2
  <2> HIDE DEF j
  <2>2. CASE j <= d
    <3>1. j \in 1 .. d
      BY <1>1, <2>1, <2>2
    <3>2. past[c + j].ts < old
      BY <3>1
    <3> QED BY <2>1, <2>2, <3>2
  <2>3. CASE ~ (j <= d)
    <3>1. j \in d + 1 .. n
      BY <1>1, <2>1, <2>3
    <3>2. past[c + j].ts >= old
      BY <3>1
    <3> QED BY <1>1, <1>3, <2>1, <2>3, <3>2
  <2> QED BY <2>2, <2>3
<1>5. ASSUME k \in Aged PROVE seen[k] < old
  <2>1. PICK x \in OldTouches : queue[x] = <<seen[k], k>>
    BY <1>5 DEF Aged
  <2>2. queue[x][1] < now - MaxWidth
    BY DEF OldTouches
  <2> QED BY <2>1, <2>2
<1>6. ASSUME seen[k] < old PROVE k \in Aged
  <2>1. Off(kind) \in 0 .. 2
    BY <1>2, OffFacts
  <2>2. i \in 1 .. 3 * n
    <3>1. j \in Int /\ 1 <= j /\ j <= n /\ n \in Int
      BY <1>1, <1>2
    <3>2. Off(kind) \in Int /\ 0 <= Off(kind) /\ Off(kind) <= 2
      BY <2>1
    <3> HIDE DEF j, kind
    <3>3. 3 * j - Off(kind) \in Int /\ 1 <= 3 * j - Off(kind) /\ 3 * j - Off(kind) <= 3 * n
      BY <3>1, <3>2
    <3> QED BY <3>1, <3>3
  <2>3. queue[i][1] = past[c + j].ts /\ queue[i][2] = Key(kind, past[c + j].event)
    BY <1>2 DEF Queued
  <2>4. queue[i] \in Nat \X Entities
    BY <1>1, <2>2 DEF Held, Typed
  <2>5. i \in OldTouches
    BY <1>1, <1>2, <1>6, <2>2, <2>3 DEF OldTouches
  <2>6. queue[i][1] = seen[k] /\ queue[i][2] = k
    BY <1>2, <2>3
  <2> HIDE DEF i
  <2>7. queue[i] = <<seen[k], k>>
    BY <2>4, <2>6
  <2> QED BY <2>5, <2>7 DEF Aged
<1>7. l <= c + d <=> j <= d
  BY <1>1, <1>2
<1> QED BY <1>4, <1>5, <1>6, <1>7

(* The last touch of an entity in the queue is that of its last event.     *)
LEMMA LastTouchIs ==
  ASSUME Held, NEW c \in 0 .. Len(past), Queued(c), NEW k \in DOMAIN seen
  PROVE  LastTouch(k) = 3 * (Last(past, k) - c) - Off(k[1])
<1> DEFINE n == Len(past) - c
           l == Last(past, k)
           kind == k[1]
           i == 3 * (l - c) - Off(kind)
           Fits(x) == queue[x][2] = k /\ \A y \in x + 1 .. Len(queue) : queue[y][2] # k
<1>1. n \in Nat /\ c \in Nat /\ Len(queue) = 3 * n /\ c + n = Len(past)
  BY DEF Held, Typed, Queued
<1>2. /\ l \in c + 1 .. Len(past) /\ kind \in Kinds /\ k = Key(kind, past[l].event)
      /\ l - c \in 1 .. n /\ c + (l - c) = l
      /\ \A x \in Touches(past, k) : x <= l
  BY <1>1, SeenFacts
<1>3. i \in 1 .. Len(queue) /\ i \in Int
  <2>1. Off(kind) \in 0 .. 2
    BY <1>2, OffFacts
  <2> QED BY <1>1, <1>2, <2>1
<1>4. queue[i][2] = k
  BY <1>2 DEF Queued
<1>5. ASSUME NEW y \in 1 .. Len(queue), queue[y][2] = k PROVE y <= i
  <2>1. PICK j \in 1 .. n, z \in Kinds : y = 3 * j - Off(z)
    <3>1. y \in 1 .. 3 * n /\ n \in Nat
      BY <1>1
    <3> HIDE DEF n
    <3> QED BY <3>1, ThreeTouches
  <2>2. queue[3 * j - Off(z)][2] = Key(z, past[c + j].event)
    BY DEF Queued
  <2>3. k = Key(z, past[c + j].event)
    BY <1>5, <2>1, <2>2
  <2>4. z = kind /\ k \in KeysOf(past[c + j].event)
    BY <2>3, KeyFacts
  <2>5. c + j \in Touches(past, k)
    BY <1>1, <2>4 DEF Touches
  <2>6. c + j <= l
    BY <1>2, <2>5
  <2>7. Off(kind) \in 0 .. 2
    BY <1>2, OffFacts
  <2>8. l \in Int /\ l - c \in Int /\ j \in Int /\ j <= l - c
    BY <1>1, <1>2, <2>6
  <2>9. y = 3 * j - Off(kind)
    BY <2>1, <2>4
  <2> HIDE DEF l, kind
  <2> QED BY <1>1, <2>7, <2>8, <2>9
<1> HIDE DEF i
<1>6. \A y \in i + 1 .. Len(queue) : queue[y][2] # k
  <2> SUFFICES ASSUME NEW y \in i + 1 .. Len(queue), queue[y][2] = k PROVE FALSE
    OBVIOUS
  <2>1. y \in 1 .. Len(queue) /\ y > i
    BY <1>1, <1>3
  <2> QED BY <1>3, <1>5, <2>1
<1>7. ASSUME NEW x \in 1 .. Len(queue), Fits(x) PROVE x = i
  <2>1. x <= i
    BY <1>5, <1>7
  <2>2. ~ (x < i)
    <3> SUFFICES ASSUME x < i PROVE FALSE
      OBVIOUS
    <3>1. i \in x + 1 .. Len(queue)
      BY <1>1, <1>3
    <3> QED BY <1>4, <1>7, <3>1
  <2> QED BY <1>1, <1>3, <2>1, <2>2
<1>8. LastTouch(k) = CHOOSE x \in 1 .. Len(queue) : Fits(x)
  BY DEF LastTouch
<1>9. LastTouch(k) = i
  <2>1. Fits(i)
    BY <1>4, <1>6
  <2> HIDE DEF Fits
  <2> QED BY <1>3, <1>7, <1>8, <2>1
<1> QED BY <1>9 DEF i

LEMMA LaterFinite ==
  ASSUME NEW p \in Seq(Ingested), NEW k, NEW b
  PROVE  IsFiniteSet(Later(p, k, b)) /\ Cardinality(Later(p, k, b)) \in Nat
<1> DEFINE K == Known(p)
           L == Later(p, k, b)
<1>1. IsFiniteSet(K) /\ L \subseteq K
  BY KnownFinite DEF Later
<1> HIDE DEF K, L
<1>2. IsFiniteSet(L)
  BY <1>1, FS_Subset
<1>3. Cardinality(L) \in Nat
  BY <1>2, FS_CardinalityType
<1> QED BY <1>2, <1>3 DEF L

LEMMA LaterGrows ==
  ASSUME NEW p \in Seq(Ingested), NEW k, NEW o, NEW b \in Nat, NEW b2 \in Nat,
         Later(p, k, b) \subseteq Later(p, o, b2)
  PROVE  Cardinality(Later(p, k, b)) <= Cardinality(Later(p, o, b2))
<1> DEFINE L == Later(p, k, b)
           M == Later(p, o, b2)
<1>1. IsFiniteSet(M) /\ L \subseteq M
  BY LaterFinite
<1> HIDE DEF L, M
<1>2. Cardinality(L) <= Cardinality(M)
  BY <1>1, FS_Subset
<1> QED BY <1>2 DEF L, M

(* An entity of a kind that was touched after a live one is live.          *)
LEMMA LaterAreLive ==
  ASSUME Held, cap > 0, NEW b \in 0 .. Len(past), Ranked(b),
         NEW k \in DOMAIN seen, seen[k] >= now - MaxWidth,
         NEW o \in Later(past, k, Len(past))
  PROVE  o \in DOMAIN seen /\ o[1] = k[1] /\ Last(past, o) > Last(past, k)
<1>1. PICK c \in 0 .. Len(past) : Queued(c)
  BY DEF Held, Queueing
<1>2. /\ past \in Seq(Ingested) /\ cap \in Nat /\ Len(past) \in Nat /\ now \in Nat
      /\ MaxWidth \in Nat
  BY Longest DEF Held, Typed
<1>3. /\ Last(past, k) \in 1 .. Len(past) /\ seen[k] = past[Last(past, k)].ts /\ c \in Nat
  BY <1>1, <1>2, SeenFacts
<1>4. PICK i \in Touches(past, o) : Last(past, k) < i
  BY DEF Later
<1>5. o \in Known(past) /\ o[1] = k[1]
  BY DEF Later
<1>6. /\ Last(past, o) \in 1 .. Len(past) /\ i <= Last(past, o) /\ i \in 1 .. Len(past)
      /\ Last(past, o) \in Touches(past, o)
  <2>1. i \in 1 .. Len(past)
    BY DEF Touches
  <2> QED BY <1>2, <1>4, <2>1, LastFacts
<1>7. Last(past, k) < Last(past, o)
  BY <1>3, <1>4, <1>6
<1>8. past[Last(past, k)].ts <= past[Last(past, o)].ts
  BY <1>3, <1>6, <1>7 DEF Held, Timed
<1>9. ~ (past[Last(past, o)].ts < now - MaxWidth)
  <2>1. past[Last(past, o)].ts \in Nat /\ past[Last(past, k)].ts \in Nat
    BY <1>2, <1>3, <1>6, PastFacts
  <2> QED BY <1>2, <1>3, <1>8, <2>1
<1>10. o \in DOMAIN seen
  <2> SUFFICES ASSUME o \notin DOMAIN seen PROVE FALSE
    OBVIOUS
  <2>1. Cardinality(Later(past, o, b)) >= cap
    BY <1>5, <1>9 DEF Ranked
  <2>2. Last(past, o) <= b
    <3> SUFFICES ASSUME ~ (Last(past, o) <= b) PROVE FALSE
      OBVIOUS
    <3>1. Last(past, o) \in b + 1 .. Len(past)
      BY <1>2, <1>6
    <3>2. o \in KeysOf(past[Last(past, o)].event)
      BY <1>6 DEF Touches
    <3> QED BY <3>1, <3>2 DEF Ranked
  <2>3. Last(past, k) <= b
    BY <1>2, <1>3, <1>6, <1>7, <2>2
  <2>4. Cardinality(Later(past, k, b)) < cap
    BY <1>2, <2>3 DEF Ranked
  <2>5. Later(past, o, b) \subseteq Later(past, k, b)
    <3> SUFFICES ASSUME NEW x \in Later(past, o, b) PROVE x \in Later(past, k, b)
      OBVIOUS
    <3>1. x \in Known(past) /\ x[1] = k[1]
      BY <1>5 DEF Later
    <3>2. PICK j \in Touches(past, x) : Last(past, o) < j /\ j <= b
      BY DEF Later
    <3>3. j \in 1 .. Len(past)
      BY DEF Touches
    <3>4. Last(past, k) < j
      BY <1>3, <1>6, <1>7, <3>2, <3>3
    <3> QED BY <3>1, <3>2, <3>4 DEF Later
  <2>6. b \in Nat
    BY <1>2
  <2>7. Cardinality(Later(past, o, b)) <= Cardinality(Later(past, k, b))
    BY <1>2, <2>5, <2>6, LaterGrows
  <2>8. Cardinality(Later(past, o, b)) \in Nat /\ Cardinality(Later(past, k, b)) \in Nat
    BY <1>2, LaterFinite
  <2> QED BY <1>2, <2>1, <2>4, <2>7, <2>8
<1> QED BY <1>5, <1>7, <1>10

(* Crowded out is a live entity after which as many of its kind as the     *)
(* limit allows were touched.                                              *)
LEMMA CrowdedAre ==
  ASSUME Held, phase = "expire", NEW k \in DOMAIN seen \ Aged
  PROVE  k \in Crowded <=> cap > 0 /\ Cardinality(Later(past, k, Len(past))) >= cap
<1>1. PICK c \in 0 .. Len(past) : Queued(c)
  BY DEF Held, Queueing
<1>2. PICK b \in 0 .. Len(past) : Ranked(b)
  BY DEF Held, Ranking
<1>3. /\ past \in Seq(Ingested) /\ cap \in Nat /\ Len(past) \in Nat /\ now \in Nat
      /\ MaxWidth \in Nat /\ c \in Nat /\ Typed /\ Timed /\ DOMAIN buffers = DOMAIN seen
  BY Longest DEF Held, Typed, Buffered
<1> DEFINE old == now - MaxWidth
           n == Len(past) - c
<1>4. old \in Int /\ old = now - MaxWidth /\ n = Len(past) - c
  BY <1>3
<1> HIDE DEF old
<1>5. PICK d \in 0 .. n : (\A j \in 1 .. d : past[c + j].ts < old) /\ (\A j \in d + 1 .. n : past[c + j].ts >= old)
  BY <1>3, <1>4, RecentFrom
<1> HIDE DEF n
<1>6. \A o \in DOMAIN seen : o \in Aged <=> seen[o] < old
  BY <1>1, <1>4, <1>5, AgedAre
<1>7. \A o \in DOMAIN seen : o \in Aged <=> Last(past, o) <= c + d
  BY <1>1, <1>4, <1>5, AgedAre
<1> DEFINE live(kind) == {o \in DOMAIN buffers \ Aged : o[1] = kind}
           after(x) == {o \in live(x[1]) : LastTouch(o) > LastTouch(x)}
<1>8. \A o \in DOMAIN seen : o[1] \in Kinds
  BY <1>1, SeenFacts
<1>9. ASSUME cap > 0 PROVE after(k) = Later(past, k, Len(past))
  <2>0. Last(past, k) \in 1 .. Len(past)
    BY <1>1, <1>3, SeenFacts
  <2>1. ASSUME NEW o \in DOMAIN seen, o[1] = k[1]
        PROVE  /\ LastTouch(o) > LastTouch(k) <=> Last(past, o) > Last(past, k)
               /\ Last(past, o) \in 1 .. Len(past) /\ Last(past, o) \in Touches(past, o)
               /\ o \in Known(past)
    <3>1. /\ LastTouch(o) = 3 * (Last(past, o) - c) - Off(o[1])
          /\ LastTouch(k) = 3 * (Last(past, k) - c) - Off(k[1])
      BY <1>1, LastTouchIs
    <3>2. /\ Last(past, o) \in 1 .. Len(past) /\ Last(past, o) \in Touches(past, o)
          /\ o \in Known(past)
      BY <1>1, <1>3, SeenFacts
    <3>3. Off(o[1]) \in Int /\ Off(o[1]) = Off(k[1])
      BY <2>1 DEF Off
    <3>4. LastTouch(o) > LastTouch(k) <=> Last(past, o) > Last(past, k)
      BY <1>3, <2>0, <3>1, <3>2, <3>3
    <3> QED BY <3>2, <3>4
  <2>2. ASSUME NEW o \in after(k) PROVE o \in Later(past, k, Len(past))
    <3>1. o \in DOMAIN seen /\ o[1] = k[1] /\ LastTouch(o) > LastTouch(k)
      BY <1>3
    <3>2. /\ o \in Known(past) /\ Last(past, o) \in Touches(past, o)
          /\ Last(past, k) < Last(past, o) /\ Last(past, o) <= Len(past)
      BY <2>0, <2>1, <3>1
    <3> QED BY <3>1, <3>2 DEF Later
  <2>3. ASSUME NEW o \in Later(past, k, Len(past)) PROVE o \in after(k)
    <3>1. seen[k] >= now - MaxWidth
      <4>1. seen[k] \in Nat /\ ~ (seen[k] < old)
        BY <1>3, <1>6 DEF Typed
      <4> QED BY <1>4, <4>1
    <3>2. o \in DOMAIN seen /\ o[1] = k[1] /\ Last(past, o) > Last(past, k)
      BY <1>2, <1>9, <3>1, LaterAreLive
    <3>3. o \notin Aged
      BY <1>3, <1>5, <1>7, <2>0, <2>1, <3>2
    <3>4. LastTouch(o) > LastTouch(k)
      BY <2>1, <3>2
    <3> QED BY <1>3, <3>2, <3>3, <3>4
  <2> QED BY <2>2, <2>3
<1>10. Crowded = IF cap = 0 THEN {}
                 ELSE UNION {{x \in live(kind) : Cardinality({o \in live(kind) : LastTouch(o) > LastTouch(x)}) >= cap} : kind \in Kinds}
  BY DEF Crowded
<1>11. CASE cap = 0
  BY <1>10, <1>11
<1>12. CASE cap # 0
  <2>1. cap > 0
    BY <1>3, <1>12
  <2>2. k \in live(k[1]) /\ k[1] \in Kinds
    BY <1>3, <1>8
  <2>3. \A kind \in Kinds : k \in live(kind) => kind = k[1]
    OBVIOUS
  <2>4. k \in Crowded <=> Cardinality(after(k)) >= cap
    <3>1. ASSUME k \in Crowded PROVE Cardinality(after(k)) >= cap
      <4>1. PICK kind \in Kinds : k \in {x \in live(kind) : Cardinality({o \in live(kind) : LastTouch(o) > LastTouch(x)}) >= cap}
        BY <1>10, <1>12, <3>1
      <4>2. k \in live(kind) /\ Cardinality({o \in live(kind) : LastTouch(o) > LastTouch(k)}) >= cap
        BY <4>1
      <4>3. kind = k[1]
        BY <4>2
      <4> QED BY <4>2, <4>3
    <3>2. ASSUME Cardinality(after(k)) >= cap PROVE k \in Crowded
      <4>1. k \in {x \in live(k[1]) : Cardinality({o \in live(k[1]) : LastTouch(o) > LastTouch(x)}) >= cap}
        BY <2>2, <3>2
      <4> QED BY <1>10, <1>12, <2>2, <4>1
    <3> QED BY <3>1, <3>2
  <2>5. after(k) = Later(past, k, Len(past))
    BY <1>9, <2>1
  <2> HIDE DEF after
  <2> QED BY <2>1, <2>4, <2>5
<1> QED BY <1>11, <1>12

LEMMA ExpireQueued ==
  ASSUME Held, Expire PROVE Queueing'
<1>1. PICK c \in 0 .. Len(past) : Queued(c)
  BY DEF Held, Queueing
<1>2. /\ past \in Seq(Ingested) /\ Len(past) \in Nat /\ now \in Nat /\ queue \in Seq(Nat \X Entities)
      /\ MaxWidth \in Nat /\ c \in Nat /\ Typed /\ Timed
  BY Longest DEF Held, Typed
<1> DEFINE old == now - MaxWidth
           n == Len(past) - c
<1>3. old \in Int /\ old = now - MaxWidth /\ n = Len(past) - c /\ n \in Nat
  BY <1>2
<1> HIDE DEF old
<1>4. PICK d \in 0 .. n : (\A j \in 1 .. d : past[c + j].ts < old) /\ (\A j \in d + 1 .. n : past[c + j].ts >= old)
  BY <1>2, <1>3, RecentFrom
<1> HIDE DEF n
<1>5. /\ Cardinality(OldTouches) = 3 * d
      /\ \A k \in DOMAIN seen : k \in Aged <=> Last(past, k) <= c + d
  <2>1. Cardinality(OldTouches) = 3 * d
    BY <1>1, <1>3, <1>4, OldTouchesAre
  <2>2. \A k \in DOMAIN seen : k \in Aged <=> Last(past, k) <= c + d
    BY <1>1, <1>3, <1>4, AgedAre
  <2> QED BY <2>1, <2>2
<1>6. /\ queue' = SubSeq(queue, 3 * d + 1, Len(queue)) /\ phase' = "next"
      /\ UNCHANGED <<cap, now, past>>
      /\ seen' = Without(seen, Aged \cup Crowded)
  BY <1>5 DEF Expire
<1>7. Len(queue) = 3 * n /\ d \in Nat /\ d <= n /\ c + n = Len(past)
  BY <1>1, <1>2, <1>3 DEF Queued
<1> DEFINE m == 3 * d
<1>8. m \in Nat /\ m <= Len(queue) /\ queue' = SubSeq(queue, m + 1, Len(queue))
  BY <1>3, <1>6, <1>7
<1>9. /\ Len(queue') = Len(queue) - m
      /\ \A i \in 1 .. Len(queue) - m : queue'[i] = queue[m + i]
  <2> HIDE DEF m
  <2>1. /\ Len(SubSeq(queue, m + 1, Len(queue))) = Len(queue) - m
        /\ \A i \in 1 .. Len(queue) - m : SubSeq(queue, m + 1, Len(queue))[i] = queue[m + i]
    BY <1>2, <1>8
  <2> QED BY <1>8, <2>1
<1> DEFINE e == c + d
<1>10. Len(queue') = 3 * (Len(past) - e)
  BY <1>2, <1>3, <1>7, <1>9
<1>11. ASSUME NEW j \in 1 .. Len(past) - e, NEW kind \in Kinds
       PROVE  /\ queue'[3 * j - Off(kind)][1] = past[e + j].ts
              /\ queue'[3 * j - Off(kind)][2] = Key(kind, past[e + j].event)
  <2> DEFINE i == 3 * j - Off(kind)
             g == d + j
             x == 3 * g - Off(kind)
  <2>1. Off(kind) \in 0 .. 2
    BY OffFacts
  <2>2. g \in 1 .. n /\ c + g = e + j
    BY <1>2, <1>3, <1>7
  <2>3. i \in 1 .. Len(queue) - m /\ m + i = x
    <3>1. j \in Nat /\ 1 <= j /\ j <= n - d
      BY <1>2, <1>3, <1>7
    <3>2. Len(queue) - m = 3 * (n - d)
      BY <1>3, <1>7
    <3> QED BY <1>3, <1>7, <2>1, <3>1, <3>2
  <2>4. queue'[i] = queue[x]
    <3> HIDE DEF m, i, x
    <3>1. queue'[i] = queue[m + i]
      BY <1>9, <2>3
    <3> QED BY <2>3, <3>1
  <2>5. queue[x][1] = past[c + g].ts /\ queue[x][2] = Key(kind, past[c + g].event)
    BY <1>1, <1>3, <2>2 DEF Queued
  <2> HIDE DEF i, x, e, g
  <2>6. queue'[i][1] = past[e + j].ts /\ queue'[i][2] = Key(kind, past[e + j].event)
    BY <2>2, <2>4, <2>5
  <2> QED BY <2>6 DEF i
<1>12. ASSUME NEW i \in 1 .. e PROVE past[i].ts < old
  <2>1. CASE i <= c
    <3>1. i \in 1 .. c
      BY <1>2, <2>1
    <3> QED BY <1>1, <1>3, <3>1 DEF Queued
  <2>2. CASE ~ (i <= c)
    <3> DEFINE j == i - c
    <3>1. j \in 1 .. d /\ c + j = i
      BY <1>2, <1>7, <2>2
    <3> HIDE DEF j
    <3>2. past[c + j].ts < old
      BY <1>4, <3>1
    <3> QED BY <3>1, <3>2
  <2> QED BY <2>1, <2>2
<1>13. ASSUME NEW i \in e + 1 .. Len(past) PROVE past[i].ts >= old
  <2> DEFINE j == i - c
  <2>1. j \in d + 1 .. n /\ c + j = i
    BY <1>2, <1>3, <1>7
  <2> HIDE DEF j
  <2>2. past[c + j].ts >= old
    BY <1>4, <2>1
  <2> QED BY <2>1, <2>2
<1>14. ASSUME NEW k \in DOMAIN seen'
       PROVE  k \in Known(past) /\ Last(past, k) > e /\ seen'[k] = past[Last(past, k)].ts
  <2>1. k \in DOMAIN seen /\ k \notin Aged /\ seen'[k] = seen[k]
    BY <1>6 DEF Without
  <2>2. k \in Known(past) /\ seen[k] = past[Last(past, k)].ts /\ Last(past, k) \in 1 .. Len(past)
    BY <1>1, <1>2, <2>1, SeenFacts
  <2>3. ~ (Last(past, k) <= e)
    BY <1>5, <2>1
  <2> QED BY <1>2, <1>7, <2>1, <2>2, <2>3
<1>15. e \in 0 .. Len(past) /\ MaxWidth' = MaxWidth
  <2>1. e \in 0 .. Len(past)
    BY <1>2, <1>3, <1>7
  <2>2. MaxWidth' = MaxWidth
    BY DEF MaxWidth
  <2> QED BY <2>1, <2>2
<1> HIDE DEF e
<1>16. Queued(e)'
  BY <1>3, <1>6, <1>10, <1>11, <1>12, <1>13, <1>14, <1>15 DEF Queued
<1>17. past' = past
  BY <1>6
<1>18. e \in 0 .. Len(past')
  BY <1>15, <1>17
<1> QED BY <1>16, <1>18 DEF Queueing

LEMMA ExpireRanked ==
  ASSUME Held, Expire PROVE Ranking'
<1>1. PICK c \in 0 .. Len(past) : Queued(c)
  BY DEF Held, Queueing
<1>2. PICK b \in 0 .. Len(past) : Ranked(b)
  BY DEF Held, Ranking
<1>0. PICK N : N = Len(past)
  OBVIOUS
<1>3. /\ past \in Seq(Ingested) /\ N = Len(past) /\ N \in Nat /\ now \in Nat /\ MaxWidth \in Nat /\ cap \in Nat
      /\ b \in Nat /\ Typed /\ Timed
  BY <1>0, Longest DEF Held, Typed
<1>4. /\ phase = "expire" /\ phase' = "next" /\ UNCHANGED <<cap, now, past>>
      /\ seen' = Without(seen, Aged \cup Crowded)
  BY DEF Expire
<1>5. DOMAIN seen' = DOMAIN seen \ (Aged \cup Crowded)
  BY <1>4 DEF Without
<1>6. ASSUME NEW k \in DOMAIN seen, k \in Aged PROVE past[Last(past, k)].ts < now - MaxWidth
  <2>1. PICK i \in OldTouches : queue[i] = <<seen[k], k>>
    BY <1>6 DEF Aged
  <2>2. queue[i][1] < now - MaxWidth
    BY DEF OldTouches
  <2>3. seen[k] = past[Last(past, k)].ts
    BY <1>1, SeenFacts
  <2> QED BY <2>1, <2>2, <2>3
<1>7. \A k \in DOMAIN seen \ Aged :
        k \in Crowded <=> cap > 0 /\ Cardinality(Later(past, k, N)) >= cap
  BY <1>0, <1>4, CrowdedAre
<1>8. ASSUME NEW k \in Known(past) \ DOMAIN seen'
      PROVE  \/ past[Last(past, k)].ts < now - MaxWidth
             \/ cap > 0 /\ Cardinality(Later(past, k, N)) >= cap
  <2>1. CASE k \in DOMAIN seen
    BY <1>5, <1>6, <1>7, <1>8, <2>1
  <2>2. CASE k \notin DOMAIN seen
    <3>1. \/ past[Last(past, k)].ts < now - MaxWidth
          \/ cap > 0 /\ Cardinality(Later(past, k, b)) >= cap
      BY <1>2, <1>8, <2>2 DEF Ranked
    <3>2. Later(past, k, b) \subseteq Later(past, k, N)
      <4> SUFFICES ASSUME NEW x \in Later(past, k, b) PROVE x \in Later(past, k, N)
        OBVIOUS
      <4>1. x \in Known(past) /\ x[1] = k[1]
        BY DEF Later
      <4>2. PICK j \in Touches(past, x) : Last(past, k) < j /\ j <= b
        BY DEF Later
      <4>3. j <= N
        BY <1>3, <4>2 DEF Touches
      <4> QED BY <4>1, <4>2, <4>3 DEF Later
    <3>3. Cardinality(Later(past, k, b)) <= Cardinality(Later(past, k, N))
      BY <1>3, <3>2, LaterGrows
    <3>4. Cardinality(Later(past, k, b)) \in Nat /\ Cardinality(Later(past, k, N)) \in Nat
      BY <1>3, LaterFinite
    <3> QED BY <1>3, <3>1, <3>3, <3>4
  <2> QED BY <2>1, <2>2
<1>9. ASSUME NEW k \in DOMAIN seen' PROVE cap = 0 \/ Cardinality(Later(past, k, N)) < cap
  <2>1. k \in DOMAIN seen \ Aged /\ k \notin Crowded
    BY <1>5
  <2>2. ~ (cap > 0 /\ Cardinality(Later(past, k, N)) >= cap)
    BY <1>7, <2>1
  <2>3. Cardinality(Later(past, k, N)) \in Nat
    BY <1>3, LaterFinite
  <2> QED BY <1>3, <2>2, <2>3
<1>10. \A i \in N + 1 .. N : KeysOf(past[i].event) \subseteq DOMAIN seen'
  BY <1>3
<1>11. MaxWidth' = MaxWidth /\ N = Len(past') /\ past' = past /\ now' = now /\ cap' = cap
  BY <1>0, <1>4 DEF MaxWidth
<1>12. Ranked(N)'
  BY <1>8, <1>9, <1>10, <1>11 DEF Ranked, Later
<1>13. N \in 0 .. Len(past')
  BY <1>3, <1>11
<1> QED BY <1>11, <1>12, <1>13 DEF Ranking

LEMMA ExpireHeld == Held /\ Expire => Held'
<1> SUFFICES ASSUME Held, Expire PROVE Held'
  OBVIOUS
<1>1. /\ phase = "expire" /\ phase' = "next" /\ block' = <<>>
      /\ UNCHANGED <<cap, now, done, row, past>>
      /\ queue' = SubSeq(queue, Cardinality(OldTouches) + 1, Len(queue))
      /\ seen' = Without(seen, Aged \cup Crowded)
      /\ buffers' = Without(buffers, Aged \cup Crowded)
  BY DEF Expire
<1>2. Typed'
  <2>1. queue' \in Seq(Nat \X Entities)
    <3> DEFINE m == Cardinality(OldTouches)
    <3>1. m \in Nat
      <4> DEFINE T == OldTouches
                 D == 1 .. Len(queue)
      <4>1. T \subseteq D /\ Len(queue) \in Nat
        BY DEF OldTouches, Held, Typed
      <4>2. IsFiniteSet(D)
        BY <4>1, FS_Interval
      <4> HIDE DEF T, D
      <4>3. IsFiniteSet(T)
        BY <4>1, <4>2, FS_Subset
      <4>4. Cardinality(T) \in Nat
        BY <4>3, FS_CardinalityType
      <4> QED BY <4>4 DEF T
    <3>2. queue \in Seq(Nat \X Entities) /\ queue' = SubSeq(queue, m + 1, Len(queue))
      BY <1>1 DEF Held, Typed
    <3> HIDE DEF m
    <3> QED BY <3>1, <3>2
  <2>2. DOMAIN seen' \subseteq Entities /\ seen' \in [DOMAIN seen' -> Nat]
    <3>1. DOMAIN seen \subseteq Entities /\ seen \in [DOMAIN seen -> Nat]
      BY DEF Held, Typed
    <3> QED BY <1>1, <3>1 DEF Without
  <2>3. block' \in Seq(Event)
    BY <1>1
  <2>4. done = 0
    BY <1>1 DEF Held, Typed
  <2>5. cap' \in Nat /\ now' \in Nat /\ past' \in Seq(Ingested)
    BY <1>1 DEF Held, Typed
  <2> QED BY <1>1, <2>1, <2>2, <2>3, <2>4, <2>5 DEF Typed
<1>3. Timed'
  <2>1. row = NoRow
    BY <1>1 DEF Held, Timed
  <2> QED BY <1>1, <2>1 DEF Held, Timed, NoRow, None
<1>4. Queueing' /\ Ranking'
  BY ExpireQueued, ExpireRanked
<1>5. Buffered'
  <2>1. /\ \A k \in DOMAIN buffers : Shaped(buffers[k])
        /\ \A k \in DOMAIN seen : buffers[k].last = seen[k]
        /\ DOMAIN buffers = DOMAIN seen
    BY <1>1 DEF Held, Buffered
  <2>2. /\ DOMAIN buffers' = DOMAIN buffers \ (Aged \cup Crowded)
        /\ \A k \in DOMAIN buffers' : buffers'[k] = buffers[k]
        /\ DOMAIN seen' = DOMAIN seen \ (Aged \cup Crowded)
        /\ \A k \in DOMAIN seen' : seen'[k] = seen[k]
    BY <1>1 DEF Without
  <2>3. /\ \A k \in DOMAIN buffers' : Shaped(buffers'[k])
        /\ \A k \in DOMAIN seen' : buffers'[k].last = seen'[k]
        /\ DOMAIN buffers' = DOMAIN seen'
    BY <2>1, <2>2
  <2> QED BY <1>1, <2>3 DEF Buffered, Shaped
<1> QED BY <1>2, <1>3, <1>4, <1>5 DEF Held

LEMMA StutterHeld == Held /\ UNCHANGED vars => Held'
<1> SUFFICES ASSUME Held, UNCHANGED vars PROVE Held'
  OBVIOUS
<1> USE DEF vars
<1>1. Typed'
  BY DEF Held, Typed
<1>2. Timed'
  BY DEF Held, Timed, NoRow, None
<1>3. ASSUME NEW c, Queued(c) PROVE Queued(c)'
  BY <1>3 DEF Queued, MaxWidth
<1>4. ASSUME NEW b, Ranked(b) PROVE Ranked(b)'
  BY <1>4 DEF Ranked, Later, MaxWidth
<1>5. Queueing'
  BY <1>3 DEF Held, Queueing
<1>6. Ranking'
  BY <1>4 DEF Held, Ranking
<1>7. Buffered'
  BY DEF Held, Buffered, Shaped
<1> QED BY <1>1, <1>2, <1>5, <1>6, <1>7 DEF Held

(* What the queue of touches says of the history, and who of the entities  *)
(* is held for it, is right in every state.                                *)
THEOREM EntitiesHeld == Spec => []Held
<1>1. Init => Held
  BY InitHeld
<1>2. Held /\ [Next]_vars => Held'
  BY NextBlockHeld, EmitHeld, IngestHeld, ExpireHeld, StutterHeld DEF Next
<1> QED BY <1>1, <1>2, PTL DEF Spec

LEMMA HeldRecent == Held => HoldsTheRecent
<1> SUFFICES ASSUME Held, phase = "next"
             PROVE  /\ DOMAIN buffers = UNION {Recent(kind) : kind \in Kinds}
                    /\ seen = [k \in DOMAIN buffers |-> buffers[k].last]
  BY DEF HoldsTheRecent
<1> DEFINE N == Len(past)
           old == now - MaxWidth
<1>1. PICK c \in 0 .. N : Queued(c)
  BY DEF Held, Queueing
<1>2. /\ past \in Seq(Ingested) /\ N \in Nat /\ now \in Nat /\ MaxWidth \in Nat /\ cap \in Nat
      /\ c \in Nat /\ DOMAIN buffers = DOMAIN seen /\ old \in Int
  BY Longest DEF Held, Typed, Buffered
<1>3. Ranked(N)
  BY DEF Held, Ranking
<1>4. seen = [k \in DOMAIN buffers |-> buffers[k].last]
  <2>1. seen = [k \in DOMAIN seen |-> seen[k]]
    BY DEF Held, Typed
  <2>2. \A k \in DOMAIN seen : buffers[k].last = seen[k]
    BY DEF Held, Buffered
  <2> QED BY <1>2, <2>1, <2>2
<1>5. ASSUME NEW k PROVE Before(k, now + 1) = Touches(past, k)
  <2>1. \A i \in 1 .. N : past[i].ts \in Nat /\ past[i].ts <= now
    BY <1>2, PastFacts DEF Held, Timed
  <2>2. \A i \in 1 .. N : past[i].ts < now + 1
    BY <1>2, <2>1
  <2> QED BY <2>2 DEF Before, Touches
<1> DEFINE K(kind) == {k \in Known(past) : k[1] = kind /\ Latest(Before(k, now + 1)) >= old}
           last(k) == CHOOSE i \in Before(k, now + 1) : \A j \in Before(k, now + 1) : j <= i
<1>6. \A kind : Recent(kind) = {k \in K(kind) : cap = 0 \/ Cardinality({o \in K(kind) : last(o) > last(k)}) < cap}
  BY DEF Recent, Known
<1>7. ASSUME NEW k \in Known(past)
      PROVE  /\ last(k) = Last(past, k) /\ Latest(Before(k, now + 1)) = past[Last(past, k)].ts
             /\ Last(past, k) \in 1 .. N /\ past[Last(past, k)].ts \in Nat
             /\ Last(past, k) \in Touches(past, k) /\ \A i \in Touches(past, k) : i <= Last(past, k)
  <2>1. Touches(past, k) # {} /\ Before(k, now + 1) = Touches(past, k)
    BY <1>5, KnownTouched
  <2>2. last(k) = Last(past, k) /\ Latest(Before(k, now + 1)) = past[Last(past, k)].ts
    BY <2>1 DEF Last, Latest
  <2>3. /\ Last(past, k) \in 1 .. N /\ Last(past, k) \in Touches(past, k)
        /\ \A i \in Touches(past, k) : i <= Last(past, k)
    BY <1>2, <2>1, LastFacts
  <2> QED BY <1>2, <2>2, <2>3, PastFacts
<1> HIDE DEF last, old
<1>8. \A kind : K(kind) = {k \in Known(past) : k[1] = kind /\ past[Last(past, k)].ts >= old}
  BY <1>7
<1>9. ASSUME NEW k, k \in K(k[1]) PROVE {o \in K(k[1]) : last(o) > last(k)} = Later(past, k, N)
  <2>1. k \in Known(past) /\ past[Last(past, k)].ts >= old
    BY <1>8, <1>9
  <2>2. ASSUME NEW o \in K(k[1]), last(o) > last(k) PROVE o \in Later(past, k, N)
    <3>1. o \in Known(past) /\ o[1] = k[1]
      BY <1>8
    <3>2. Last(past, o) \in Touches(past, o) /\ Last(past, k) < Last(past, o) /\ Last(past, o) <= N
      BY <1>2, <1>7, <2>1, <2>2, <3>1
    <3> QED BY <3>1, <3>2 DEF Later
  <2>3. ASSUME NEW o \in Later(past, k, N) PROVE o \in K(k[1]) /\ last(o) > last(k)
    <3>1. o \in Known(past) /\ o[1] = k[1]
      BY DEF Later
    <3>2. PICK i \in Touches(past, o) : Last(past, k) < i
      BY DEF Later
    <3>3. i \in 1 .. N
      BY DEF Touches
    <3>4. Last(past, k) < Last(past, o)
      BY <1>7, <2>1, <3>1, <3>2, <3>3
    <3>5. past[Last(past, k)].ts <= past[Last(past, o)].ts
      BY <1>7, <2>1, <3>1, <3>4 DEF Held, Timed
    <3>6. past[Last(past, o)].ts >= old
      BY <1>2, <1>7, <2>1, <3>1, <3>5
    <3> QED BY <1>7, <1>8, <2>1, <3>1, <3>4, <3>6
  <2> QED BY <2>2, <2>3
<1>10. ASSUME NEW k \in DOMAIN seen PROVE k[1] \in Kinds /\ k \in Recent(k[1])
  <2>1. /\ k[1] \in Kinds /\ k \in Known(past) /\ Last(past, k) \in c + 1 .. N
    BY <1>1, SeenFacts
  <2>2. past[Last(past, k)].ts >= old
    BY <1>1, <2>1 DEF Queued, old
  <2>3. k \in K(k[1])
    BY <1>8, <2>1, <2>2
  <2>4. cap = 0 \/ Cardinality(Later(past, k, N)) < cap
    BY <1>3, <1>7, <2>1 DEF Ranked
  <2>5. {o \in K(k[1]) : last(o) > last(k)} = Later(past, k, N)
    BY <1>9, <2>3
  <2> HIDE DEF K
  <2> QED BY <1>6, <2>1, <2>3, <2>4, <2>5
<1>11. ASSUME NEW kind \in Kinds, NEW k \in Recent(kind) PROVE k \in DOMAIN seen
  <2>1. k \in K(kind) /\ (cap = 0 \/ Cardinality({o \in K(kind) : last(o) > last(k)}) < cap)
    BY <1>6
  <2>2. k \in Known(past) /\ k[1] = kind /\ past[Last(past, k)].ts >= old
    BY <1>8, <2>1
  <2>3. {o \in K(kind) : last(o) > last(k)} = Later(past, k, N)
    BY <1>9, <2>1, <2>2
  <2>4. cap = 0 \/ Cardinality(Later(past, k, N)) < cap
    <3> HIDE DEF K
    <3> QED BY <2>1, <2>3
  <2>5. Cardinality(Later(past, k, N)) \in Nat
    BY <1>2, LaterFinite
  <2> SUFFICES ASSUME k \notin DOMAIN seen PROVE FALSE
    OBVIOUS
  <2>6. \/ past[Last(past, k)].ts < old
        \/ cap > 0 /\ Cardinality(Later(past, k, N)) >= cap
    BY <1>3, <2>2 DEF Ranked, old
  <2>7. past[Last(past, k)].ts \in Nat
    BY <1>7, <2>2
  <2> QED BY <1>2, <2>2, <2>4, <2>5, <2>6, <2>7
<1>12. DOMAIN seen = UNION {Recent(kind) : kind \in Kinds}
  BY <1>10, <1>11
<1> QED BY <1>2, <1>4, <1>12

(* Between blocks the engine holds the windows of the entities seen within *)
(* the longest one, of the most recently seen ones up to the limit, and of *)
(* no other: the queue of touches and the limit release nobody too early   *)
(* and leak nothing.                                                       *)
THEOREM RecentAreHeld == Spec => []HoldsTheRecent
<1>1. Held => HoldsTheRecent
  BY HeldRecent
<1> QED BY <1>1, EntitiesHeld, PTL

-----------------------------------------------------------------------------
(* What a window's counts say of a set of events.                          *)

Top(S) == CHOOSE i \in S : \A j \in S : j <= i
Bottom(S) == CHOOSE i \in S : \A j \in S : i <= j

Failed(H, S) == {i \in S : H[i].event.outcome = "failure"}
Having(H, kind, S, d) == {i \in S : d \in Dims(kind, H[i].event)}
Dimensions(H, kind, S) == UNION {Dims(kind, H[i].event) : i \in S}
Lapse(H, S) == IF S = {} THEN 0 ELSE H[Top(S)].ts - H[Bottom(S)].ts
Tally(H, kind, S) == [d \in Dimensions(H, kind, S) |-> Cardinality(Having(H, kind, S, d))]

AggOf(H, kind, S, h) ==
  [head |-> h, n |-> Cardinality(S), failures |-> Cardinality(Failed(H, S)),
   gaps |-> IF S = {} THEN 0 ELSE Cardinality(S) - 1,
   span |-> Lapse(H, S), counts |-> Tally(H, kind, S)]

LEMMA PartFinite ==
  ASSUME NEW n \in Nat, NEW S, S \subseteq 1 .. n
  PROVE  IsFiniteSet(S) /\ Cardinality(S) \in Nat /\ (Cardinality(S) = 0 <=> S = {})
<1>1. IsFiniteSet(1 .. n)
  BY FS_Interval
<1>2. IsFiniteSet(S)
  BY <1>1, FS_Subset
<1>3. Cardinality(S) \in Nat
  BY <1>2, FS_CardinalityType
<1>4. Cardinality(S) = 0 <=> S = {}
  BY <1>2, FS_EmptySet
<1> QED BY <1>2, <1>3, <1>4

LEMMA TopFacts ==
  ASSUME NEW n \in Nat, NEW S, S \subseteq 1 .. n, S # {}
  PROVE  Top(S) \in S /\ \A j \in S : j <= Top(S)
<1> DEFINE T == S
<1>0. T \subseteq 1 .. n /\ T \subseteq Int /\ T # {}
  OBVIOUS
<1> HIDE DEF T
<1>1. IsFiniteSet(T)
  BY <1>0, PartFinite
<1>2. \E i \in T : \A j \in T : j <= i
  BY <1>0, <1>1, Greatest
<1> QED BY <1>2 DEF Top, T

LEMMA BottomFacts ==
  ASSUME NEW n \in Nat, NEW S, S \subseteq 1 .. n, S # {}
  PROVE  Bottom(S) \in S /\ \A j \in S : Bottom(S) <= j
<1> DEFINE T == S
<1>0. T \subseteq 1 .. n /\ T \subseteq Int /\ T # {}
  OBVIOUS
<1> HIDE DEF T
<1>1. IsFiniteSet(T)
  BY <1>0, PartFinite
<1>2. \E i \in T : \A j \in T : i <= j
  BY <1>0, <1>1, Least
<1> QED BY <1>2 DEF Bottom, T

LEMMA TopIs ==
  ASSUME NEW n \in Nat, NEW S, S \subseteq 1 .. n, NEW i \in S, \A j \in S : j <= i
  PROVE  Top(S) = i
<1>1. Top(S) \in S /\ i <= Top(S) /\ Top(S) <= i
  BY TopFacts
<1>2. Top(S) \in 1 .. n /\ i \in 1 .. n
  BY <1>1
<1> QED BY <1>1, <1>2

LEMMA BottomIs ==
  ASSUME NEW n \in Nat, NEW S, S \subseteq 1 .. n, NEW i \in S, \A j \in S : i <= j
  PROVE  Bottom(S) = i
<1>1. Bottom(S) \in S /\ i <= Bottom(S) /\ Bottom(S) <= i
  BY BottomFacts
<1>2. Bottom(S) \in 1 .. n /\ i \in 1 .. n
  BY <1>1
<1> QED BY <1>1, <1>2

(* A set with one event more, or one less.                                 *)
LEMMA CountMore ==
  ASSUME NEW S, IsFiniteSet(S), NEW m, m \notin S, NEW T, T = S \cup {m}
  PROVE  Cardinality(T) = Cardinality(S) + 1 /\ Cardinality(S) \in Nat /\ IsFiniteSet(T)
<1>1. Cardinality(S \cup {m}) = Cardinality(S) + 1 /\ IsFiniteSet(S \cup {m})
  BY FS_AddElement
<1>2. Cardinality(S) \in Nat
  BY FS_CardinalityType
<1> QED BY <1>1, <1>2

LEMMA CountLess ==
  ASSUME NEW S, IsFiniteSet(S), NEW m \in S, NEW T, T = S \ {m}
  PROVE  Cardinality(T) = Cardinality(S) - 1 /\ Cardinality(S) \in Nat /\ IsFiniteSet(T)
<1>1. Cardinality(S \ {m}) = Cardinality(S) - 1 /\ IsFiniteSet(S \ {m})
  BY FS_RemoveElement
<1>2. Cardinality(S) \in Nat
  BY FS_CardinalityType
<1> QED BY <1>1, <1>2

(* A part of the history does not change when the history grows.           *)
Old(H, S) == S \subseteq 1 .. Len(H)

LEMMA SamePart ==
  ASSUME NEW H, NEW r, NEW q, OneMore(H, r, q), NEW kind, NEW S, Old(H, S), NEW h
  PROVE  AggOf(q, kind, S, h) = AggOf(H, kind, S, h)
<1>0. S \subseteq 1 .. Len(H)
  BY DEF Old
<1>1. \A i \in S : q[i] = H[i]
  BY <1>0 DEF OneMore
<1>2. Failed(q, S) = Failed(H, S)
  BY <1>1 DEF Failed
<1>3. Lapse(q, S) = Lapse(H, S)
  <2>1. CASE S = {}
    BY <2>1 DEF Lapse
  <2>2. CASE S # {}
    <3>1. Len(H) \in Nat
      BY OneMoreFacts
    <3>2. Top(S) \in S /\ Bottom(S) \in S
      BY <1>0, <2>2, <3>1, TopFacts, BottomFacts
    <3> QED BY <1>1, <2>2, <3>2 DEF Lapse
  <2> QED BY <2>1, <2>2
<1>4. ASSUME NEW d PROVE Having(q, kind, S, d) = Having(H, kind, S, d)
  BY <1>1 DEF Having
<1>5. Dimensions(q, kind, S) = Dimensions(H, kind, S)
  BY <1>1 DEF Dimensions
<1>6. Tally(q, kind, S) = Tally(H, kind, S)
  BY <1>4, <1>5 DEF Tally
<1> QED BY <1>2, <1>3, <1>4, <1>5, <1>6 DEF AggOf

(* The record of an event as a window adds it up.                          *)
Recorded(x, kind, e) == x.outcome = e.outcome /\ x.dims = Dims(kind, e)

(* What a window says.                                                     *)
Summed(a, h, n, f, g, s, c) ==
  a = [head |-> h, n |-> n, failures |-> f, gaps |-> g, span |-> s, counts |-> c]

LEMMA ResumIs ==
  ASSUME NEW h, NEW n, NEW f, NEW g, NEW s, NEW c, NEW a,
         Summed(a, h, n, f, g, s, c),
         NEW n2, NEW f2, NEW g2, NEW s2, NEW c2
  PROVE  Summed([a EXCEPT !.n = n2, !.failures = f2, !.gaps = g2, !.span = s2, !.counts = c2],
                h, n2, f2, g2, s2, c2)
<1> DEFINE a1 == [a EXCEPT !.n = n2]
           a2 == [a1 EXCEPT !.failures = f2]
           a3 == [a2 EXCEPT !.gaps = g2]
           a4 == [a3 EXCEPT !.span = s2]
           a5 == [a4 EXCEPT !.counts = c2]
<1>0. [a EXCEPT !.n = n2, !.failures = f2, !.gaps = g2, !.span = s2, !.counts = c2] = a5
  OBVIOUS
<1>1. a1 = [head |-> h, n |-> n2, failures |-> f, gaps |-> g, span |-> s, counts |-> c]
  BY DEF Summed
<1> HIDE DEF a1
<1>2. a2 = [head |-> h, n |-> n2, failures |-> f2, gaps |-> g, span |-> s, counts |-> c]
  BY <1>1
<1> HIDE DEF a2
<1>3. a3 = [head |-> h, n |-> n2, failures |-> f2, gaps |-> g2, span |-> s, counts |-> c]
  BY <1>2
<1> HIDE DEF a3
<1>4. a4 = [head |-> h, n |-> n2, failures |-> f2, gaps |-> g2, span |-> s2, counts |-> c]
  BY <1>3
<1> HIDE DEF a4
<1>5. a5 = [head |-> h, n |-> n2, failures |-> f2, gaps |-> g2, span |-> s2, counts |-> c2]
  BY <1>4
<1> HIDE DEF a5
<1> QED BY <1>0, <1>5 DEF Summed

(* The counts c2 are c with the dimensions D more, or less.                *)
CountedIn(c, D, c2) == c2 = [d \in DOMAIN c \cup D |-> Count(c, d) + Bit(d \in D)]
CountedOut(c, D, c2) ==
  c2 = [d \in {v \in DOMAIN c : v \notin D \/ c[v] > 1} |-> c[d] - Bit(d \in D)]

LEMMA AddedIs ==
  ASSUME NEW h, NEW n, NEW f, NEW g, NEW s, NEW c, NEW x, NEW m, NEW a,
         Summed(a, h, n, f, g, s, c), NEW c2, CountedIn(c, x.dims, c2),
         NEW g2, g2 = g + Bit(h < m /\ x.gap # NoGap),
         NEW s2, s2 = s + (IF h < m /\ x.gap # NoGap THEN x.gap ELSE 0)
  PROVE  Summed(Added(a, x, h < m), h, n + 1, f + Bit(x.outcome = "failure"), g2, s2, c2)
<1> DEFINE n2 == n + 1
           f2 == f + Bit(x.outcome = "failure")
<1>1. a.n = n /\ a.failures = f /\ a.gaps = g /\ a.span = s /\ a.counts = c
  BY DEF Summed
<1>2. Added(a, x, h < m) = [a EXCEPT !.n = n2, !.failures = f2, !.gaps = g2, !.span = s2, !.counts = c2]
  BY <1>1 DEF Added, CountedIn
<1> HIDE DEF n2, f2
<1>3. Summed([a EXCEPT !.n = n2, !.failures = f2, !.gaps = g2, !.span = s2, !.counts = c2],
             h, n2, f2, g2, s2, c2)
  BY ResumIs
<1> QED BY <1>2, <1>3 DEF n2, f2

(* The gaps g2 are g without that of the records B behind.                 *)
GapsOut(g, B, g2) == g2 = g - Bit(\E y \in B : y.gap # NoGap)

(* The span s2 is s without the gap of the records B behind.               *)
GapOut(s, B, s2) ==
  s2 = s - IF \E y \in B : y.gap # NoGap THEN CHOOSE v \in {y.gap : y \in B} : TRUE ELSE 0

LEMMA RemovedIs ==
  ASSUME NEW h, NEW n, NEW f, NEW g, NEW s, NEW c, NEW x, NEW B, NEW a,
         Summed(a, h, n, f, g, s, c), NEW c2, CountedOut(c, x.dims, c2),
         NEW g2, GapsOut(g, B, g2),
         NEW s2, GapOut(s, B, s2)
  PROVE  Summed(Removed(a, x, B), h, n - 1, f - Bit(x.outcome = "failure"), g2, s2, c2)
<1> DEFINE n2 == n - 1
           f2 == f - Bit(x.outcome = "failure")
<1>1. a.n = n /\ a.failures = f /\ a.gaps = g /\ a.span = s /\ a.counts = c
  BY DEF Summed
<1> DEFINE gap == CHOOSE v \in {y.gap : y \in B} : TRUE
           gapped == \E y \in B : y.gap # NoGap
           g1 == a.gaps - Bit(gapped)
           s1 == a.span - IF gapped THEN gap ELSE 0
           c1 == [d \in {v \in DOMAIN a.counts : v \notin x.dims \/ a.counts[v] > 1} |->
                    a.counts[d] - Bit(d \in x.dims)]
           n1 == a.n - 1
           f1 == a.failures - Bit(x.outcome = "failure")
<1>4. Removed(a, x, B) = [a EXCEPT !.n = n1, !.failures = f1, !.gaps = g1, !.span = s1, !.counts = c1]
  BY DEF Removed
<1>5. n1 = n2 /\ f1 = f2
  BY <1>1
<1>6. g1 = g2 /\ s1 = s2
  <2>1. g1 = g2
    BY <1>1 DEF GapsOut
  <2>2. s2 = s - IF gapped THEN gap ELSE 0
    BY DEF GapOut
  <2> HIDE DEF gap, gapped, g1
  <2>3. s1 = s2
    BY <1>1, <2>2
  <2> QED BY <2>1, <2>3
<1>7. c1 = c2
  BY <1>1 DEF CountedOut
<1> HIDE DEF n1, f1, g1, s1, c1
<1>2. Removed(a, x, B) = [a EXCEPT !.n = n2, !.failures = f2, !.gaps = g2, !.span = s2, !.counts = c2]
  BY <1>4, <1>5, <1>6, <1>7
<1> HIDE DEF n2, f2
<1>3. Summed([a EXCEPT !.n = n2, !.failures = f2, !.gaps = g2, !.span = s2, !.counts = c2],
             h, n2, f2, g2, s2, c2)
  BY ResumIs
<1> QED BY <1>2, <1>3 DEF n2, f2

(* A set that takes the newest event, or not.                              *)
LEMMA CountBit ==
  ASSUME NEW S, IsFiniteSet(S), NEW m, m \notin S, NEW D, NEW d,
         NEW T, \A i : i \in T <=> i \in S \/ (d \in D /\ i = m)
  PROVE  Cardinality(T) = Cardinality(S) + Bit(d \in D) /\ Cardinality(S) \in Nat
<1>1. Cardinality(S) \in Nat
  BY FS_CardinalityType
<1>2. CASE d \in D
  <2>1. T = S \cup {m}
    BY <1>2
  <2> QED BY <1>1, <1>2, <2>1, CountMore DEF Bit
<1>3. CASE d \notin D
  <2>1. T = S
    BY <1>3
  <2> QED BY <1>1, <1>3, <2>1 DEF Bit
<1> QED BY <1>1, <1>2, <1>3

(* T is S and the event after the history H.                               *)
Takes(H, S, T) == S \subseteq 1 .. Len(H) /\ T = S \cup {Len(H) + 1}

LEMMA MoreTally ==
  ASSUME NEW H, NEW r, NEW q, OneMore(H, r, q), NEW kind, NEW S, NEW T, Takes(H, S, T), NEW D, D = Dims(kind, r.event)
  PROVE  CountedIn(Tally(H, kind, S), D, Tally(q, kind, T))
<1>0. PICK N : N = Len(H) /\ S \subseteq 1 .. N /\ T = S \cup {N + 1}
  BY DEF Takes
<1>1. N \in Nat /\ q[N + 1] = r /\ \A i \in 1 .. N : q[i] = H[i]
  BY <1>0, OneMoreFacts DEF OneMore
<1>2. \A i \in S : i \in 1 .. N /\ q[i] = H[i]
  BY <1>0, <1>1
<1>3. Dimensions(q, kind, T) = Dimensions(H, kind, S) \cup D
  BY <1>0, <1>1, <1>2 DEF Dimensions
<1>4. ASSUME NEW d
      PROVE Cardinality(Having(q, kind, T, d)) = Count(Tally(H, kind, S), d) + Bit(d \in D)
  <2> DEFINE A == Having(H, kind, S, d)
             B == Having(q, kind, T, d)
  <2>1. A \subseteq 1 .. N /\ N + 1 \notin A
    <3>1. \A i \in A : i \in 1 .. N
      BY <1>0 DEF Having
    <3>2. N + 1 \notin 1 .. N
      BY <1>1
    <3> HIDE DEF A
    <3> QED BY <3>1, <3>2
  <2>2. \A i : i \in B <=> i \in A \/ (d \in D /\ i = N + 1)
    BY <1>0, <1>1, <1>2 DEF Having
  <2>4. Count(Tally(H, kind, S), d) = Cardinality(A)
    <3>1. CASE d \in Dimensions(H, kind, S)
      BY <3>1 DEF Count, Tally
    <3>2. CASE d \notin Dimensions(H, kind, S)
      <4>1. A = {}
        BY <3>2 DEF Dimensions, Having
      <4>2. Cardinality(A) = 0
        BY <4>1, FS_EmptySet
      <4> QED BY <3>2, <4>2 DEF Count, Tally
    <3> QED BY <3>1, <3>2
  <2> HIDE DEF A, B
  <2>6. IsFiniteSet(A)
    BY <1>1, <2>1, PartFinite
  <2>5. Cardinality(B) = Cardinality(A) + Bit(d \in D)
    BY <2>6, <2>1, <2>2, CountBit
  <2> QED BY <2>4, <2>5 DEF B
<1>5. Tally(q, kind, T) = [d \in Dimensions(q, kind, T) |-> Cardinality(Having(q, kind, T, d))]
  BY DEF Tally
<1>6. DOMAIN Tally(H, kind, S) = Dimensions(H, kind, S)
  BY DEF Tally
<1> QED BY <1>3, <1>4, <1>5, <1>6 DEF CountedIn

LEMMA MoreFailed ==
  ASSUME NEW H, NEW r, NEW q, OneMore(H, r, q), NEW S, NEW T, Takes(H, S, T)
  PROVE  Cardinality(Failed(q, T)) = Cardinality(Failed(H, S)) + Bit(r.event.outcome = "failure")
<1>0. PICK N : N = Len(H) /\ S \subseteq 1 .. N /\ T = S \cup {N + 1}
  BY DEF Takes
<1>1. N \in Nat /\ q[N + 1] = r /\ \A i \in 1 .. N : q[i] = H[i]
  BY <1>0, OneMoreFacts DEF OneMore
<1> DEFINE A == Failed(H, S)
           B == Failed(q, T)
           o == r.event.outcome
<1>2. A \subseteq 1 .. N /\ N + 1 \notin A
  <2>1. \A i \in A : i \in 1 .. N
    BY <1>0 DEF Failed
  <2>2. N + 1 \notin 1 .. N
    BY <1>1
  <2> HIDE DEF A
  <2> QED BY <2>1, <2>2
<1>3. \A i : i \in B <=> i \in A \/ (o \in {"failure"} /\ i = N + 1)
  BY <1>0, <1>1 DEF Failed
<1> HIDE DEF A, B, o
<1>6. IsFiniteSet(A)
  BY <1>1, <1>2, PartFinite
<1>4. Cardinality(B) = Cardinality(A) + Bit(o \in {"failure"})
  BY <1>6, <1>2, <1>3, CountBit
<1>5. Bit(o \in {"failure"}) = Bit(o = "failure")
  BY DEF Bit
<1> QED BY <1>4, <1>5 DEF A, B, o

LEMMA MoreLapse ==
  ASSUME NEW H, NEW r, NEW q, OneMore(H, r, q), NEW S, NEW T, Takes(H, S, T)
  PROVE  Lapse(q, T) = Lapse(H, S) + (IF S = {} THEN 0 ELSE r.ts - H[Top(S)].ts)
<1>0. PICK N : N = Len(H) /\ S \subseteq 1 .. N /\ T = S \cup {N + 1}
  BY DEF Takes
<1>1. N \in Nat /\ q[N + 1] = r /\ r.ts \in Nat /\ \A i \in 1 .. N : q[i] = H[i] /\ H[i].ts \in Nat
  <2>1. N \in Nat /\ q[N + 1] = r /\ r \in Ingested /\ H \in Seq(Ingested) /\ \A i \in 1 .. N : q[i] = H[i]
    BY <1>0, OneMoreFacts DEF OneMore
  <2>2. \A i \in 1 .. N : H[i].ts \in Nat
    BY <1>0, <2>1, PastFacts
  <2>3. r.ts \in Nat
    BY <2>1 DEF Ingested
  <2> QED BY <2>1, <2>2, <2>3
<1>2. T \subseteq 1 .. N + 1 /\ T # {} /\ N + 1 \in T /\ S \subseteq 1 .. N /\ N + 1 \in Nat
  <2>1. 1 .. N \subseteq 1 .. N + 1 /\ N + 1 \in 1 .. N + 1 /\ N + 1 \in Nat
    BY <1>1
  <2> QED BY <1>0, <2>1
<1>3. Top(T) = N + 1
  <2> DEFINE M == N + 1
             R == T
  <2>1. R \subseteq 1 .. M /\ M \in R /\ (\A j \in R : j <= M) /\ M \in Nat
    BY <1>1, <1>2
  <2> HIDE DEF M, R
  <2>2. Top(R) = M
    BY <2>1, TopIs
  <2> QED BY <2>2 DEF M, R
<1>4. CASE S = {}
  <2>1. Bottom(T) = N + 1
    BY <1>0, <1>2, <1>4, BottomIs
  <2> QED BY <1>1, <1>2, <1>3, <1>4, <2>1 DEF Lapse
<1>5. CASE S # {}
  <2>1. Bottom(S) \in S /\ (\A j \in S : Bottom(S) <= j) /\ Top(S) \in S
    BY <1>1, <1>2, <1>5, TopFacts, BottomFacts
  <2>2. Bottom(T) = Bottom(S)
    <3>1. Bottom(S) \in 1 .. N /\ Bottom(S) \in T
      BY <1>0, <2>1
    <3>2. Bottom(S) <= N + 1
      BY <1>1, <3>1
    <3>3. \A j \in T : j \in S \/ j = N + 1
      BY <1>0
    <3>4. \A j \in T : Bottom(S) <= j
      BY <2>1, <3>2, <3>3
    <3> DEFINE b == Bottom(S)
               M == N + 1
               R == T
    <3>5. R \subseteq 1 .. M /\ b \in R /\ (\A j \in R : b <= j) /\ M \in Nat
      BY <1>2, <3>1, <3>4
    <3> HIDE DEF b, M, R
    <3>6. Bottom(R) = b
      BY <3>5, BottomIs
    <3> QED BY <3>6 DEF R, b
  <2>3. Lapse(q, T) = r.ts - H[Bottom(S)].ts
    BY <1>1, <1>2, <1>3, <2>1, <2>2 DEF Lapse
  <2>4. Lapse(H, S) = H[Top(S)].ts - H[Bottom(S)].ts
    BY <1>5 DEF Lapse
  <2>5. H[Top(S)].ts \in Nat /\ H[Bottom(S)].ts \in Nat
    BY <1>1, <1>2, <2>1
  <2> QED BY <1>1, <1>5, <2>3, <2>4, <2>5
<1> QED BY <1>4, <1>5

(* The record x of r is as far from the last event of S as r is.           *)
Spaced(H, S, x, r) == S # {} => x.gap = r.ts - H[Top(S)].ts /\ r.ts - H[Top(S)].ts >= 0
Within(h, m, S) == h \in Nat /\ m \in Nat /\ (h < m <=> S # {})
AddsTo(a, x, h, m, u) == Added(a, x, h < m) = u

(* A window that takes the record of the newest event has its counts.      *)
LEMMA AggMore ==
  ASSUME NEW H, NEW r, NEW q, OneMore(H, r, q), NEW kind, NEW S, NEW T, Takes(H, S, T),
         NEW x, Recorded(x, kind, r.event), Spaced(H, S, x, r), NEW h, NEW m, Within(h, m, S)
  PROVE  AddsTo(AggOf(H, kind, S, h), x, h, m, AggOf(q, kind, T, h))
<1>a. /\ S # {} => x.gap = r.ts - H[Top(S)].ts /\ r.ts - H[Top(S)].ts >= 0
      /\ h \in Nat /\ m \in Nat /\ (h < m <=> S # {})
  BY DEF Spaced, Within
<1>0. PICK N : N = Len(H) /\ S \subseteq 1 .. N /\ T = S \cup {N + 1}
  BY DEF Takes
<1>1. N \in Nat /\ S \subseteq 1 .. N /\ N + 1 \notin S
  <2>1. N \in Nat /\ S \subseteq 1 .. N
    BY <1>0, OneMoreFacts
  <2> QED BY <2>1
<1>2. Cardinality(S) \in Nat /\ (Cardinality(S) = 0 <=> S = {}) /\ Cardinality(T) = Cardinality(S) + 1
  <2>1. Cardinality(S) \in Nat /\ (Cardinality(S) = 0 <=> S = {}) /\ IsFiniteSet(S)
    BY <1>1, PartFinite
  <2>2. Cardinality(T) = Cardinality(S) + 1
    BY <1>0, <1>1, <2>1, CountMore
  <2> QED BY <2>1, <2>2
<1>3. h < m /\ x.gap # NoGap <=> S # {}
  <2>1. CASE S = {}
    BY <1>a, <2>1
  <2>2. CASE S # {}
    <3>1. x.gap >= 0
      BY <1>a, <2>2
    <3> QED BY <1>a, <2>2, <3>1 DEF NoGap
  <2> QED BY <2>1, <2>2
<1> DEFINE g == IF S = {} THEN 0 ELSE Cardinality(S) - 1
           c == Tally(H, kind, S)
           f == Cardinality(Failed(H, S))
           l == Lapse(H, S)
<1>4. T # {} /\ g + Bit(h < m /\ x.gap # NoGap) = Cardinality(T) - 1
  <2>1. T # {}
    BY <1>0
  <2>2. CASE S = {}
    <3>1. g = 0 /\ Cardinality(T) = 1
      BY <1>2, <2>2
    <3>2. Bit(h < m /\ x.gap # NoGap) = 0
      BY <1>3, <2>2 DEF Bit
    <3> QED BY <2>1, <3>1, <3>2
  <2>3. CASE S # {}
    <3>1. g = Cardinality(S) - 1
      BY <2>3
    <3>2. Bit(h < m /\ x.gap # NoGap) = 1
      BY <1>3, <2>3 DEF Bit
    <3> QED BY <1>2, <2>1, <3>1, <3>2
  <2> QED BY <2>2, <2>3
<1>5. l + (IF h < m /\ x.gap # NoGap THEN x.gap ELSE 0) = Lapse(q, T)
  <2>1. Lapse(q, T) = l + (IF S = {} THEN 0 ELSE r.ts - H[Top(S)].ts)
    BY MoreLapse
  <2>2. (IF h < m /\ x.gap # NoGap THEN x.gap ELSE 0) = (IF S = {} THEN 0 ELSE r.ts - H[Top(S)].ts)
    BY <1>a, <1>3
  <2> HIDE DEF l
  <2> QED BY <2>1, <2>2
<1>6. f + Bit(x.outcome = "failure") = Cardinality(Failed(q, T))
  <2>1. Cardinality(Failed(q, T)) = f + Bit(r.event.outcome = "failure")
    BY MoreFailed
  <2>2. x.outcome = r.event.outcome
    BY DEF Recorded
  <2> HIDE DEF f
  <2> QED BY <2>1, <2>2
<1>7. CountedIn(c, x.dims, Tally(q, kind, T))
  <2>1. PICK D : D = Dims(kind, r.event)
    OBVIOUS
  <2>2. CountedIn(c, D, Tally(q, kind, T))
    BY <2>1, MoreTally
  <2>3. x.dims = D
    BY <2>1 DEF Recorded
  <2> HIDE DEF c
  <2> QED BY <2>2, <2>3
<1>8. Summed(AggOf(H, kind, S, h), h, Cardinality(S), f, g, l, c)
  BY DEF AggOf, Summed
<1>9. Summed(AggOf(q, kind, T, h), h, Cardinality(T), Cardinality(Failed(q, T)),
             Cardinality(T) - 1, Lapse(q, T), Tally(q, kind, T))
  BY <1>4 DEF AggOf, Summed
<1> HIDE DEF g, c, f, l
<1>10. PICK g2, s2 : /\ g2 = g + Bit(h < m /\ x.gap # NoGap)
                     /\ s2 = l + (IF h < m /\ x.gap # NoGap THEN x.gap ELSE 0)
  OBVIOUS
<1>11. Summed(Added(AggOf(H, kind, S, h), x, h < m), h, Cardinality(S) + 1,
              f + Bit(x.outcome = "failure"), g2, s2, Tally(q, kind, T))
  BY <1>7, <1>8, <1>10, AddedIs
<1>12. g2 = Cardinality(T) - 1 /\ s2 = Lapse(q, T)
  BY <1>4, <1>5, <1>10
<1> QED BY <1>2, <1>6, <1>9, <1>11, <1>12 DEF Summed, AddsTo

(* S2 is S without its oldest event m.                                     *)
Drops(H, S, m, S2) ==
  S \subseteq 1 .. Len(H) /\ m \in S /\ (\A j \in S : m <= j) /\ S2 = S \ {m}

LEMMA DropsFacts ==
  ASSUME NEW H \in Seq(Ingested), NEW S, NEW m, NEW S2, Drops(H, S, m, S2)
  PROVE  /\ IsFiniteSet(S) /\ IsFiniteSet(S2) /\ S2 \subseteq S /\ m \notin S2
         /\ Cardinality(S) \in Nat /\ Cardinality(S2) \in Nat
         /\ Cardinality(S2) = Cardinality(S) - 1 /\ (Cardinality(S2) = 0 <=> S2 = {})
<1>1. Len(H) \in Nat /\ S \subseteq 1 .. Len(H) /\ S2 \subseteq 1 .. Len(H)
  BY DEF Drops
<1>2. IsFiniteSet(S) /\ IsFiniteSet(S2) /\ (Cardinality(S2) = 0 <=> S2 = {}) /\ Cardinality(S2) \in Nat
  BY <1>1, PartFinite
<1>3. m \in S /\ S2 = S \ {m}
  BY DEF Drops
<1>4. Cardinality(S2) = Cardinality(S) - 1 /\ Cardinality(S) \in Nat
  BY <1>2, <1>3, CountLess
<1> QED BY <1>2, <1>3, <1>4

LEMMA LessTally ==
  ASSUME NEW H \in Seq(Ingested), NEW S, NEW m, NEW S2, Drops(H, S, m, S2), NEW kind,
         NEW D, D = Dims(kind, H[m].event)
  PROVE  CountedOut(Tally(H, kind, S), D, Tally(H, kind, S2))
<1>1. m \in S /\ S2 = S \ {m} /\ IsFiniteSet(S2)
  BY DropsFacts DEF Drops
<1>2. ASSUME NEW d
      PROVE  /\ Cardinality(Having(H, kind, S, d)) = Cardinality(Having(H, kind, S2, d)) + Bit(d \in D)
             /\ Cardinality(Having(H, kind, S2, d)) \in Nat
             /\ Cardinality(Having(H, kind, S2, d)) = 0 <=> d \notin Dimensions(H, kind, S2)
             /\ d \in Dimensions(H, kind, S) <=> d \in Dimensions(H, kind, S2) \/ d \in D
  <2> DEFINE A == Having(H, kind, S2, d)
             B == Having(H, kind, S, d)
  <2>1. m \notin A /\ A \subseteq S2
    BY <1>1 DEF Having
  <2>2. \A i : i \in B <=> i \in A \/ (d \in D /\ i = m)
    BY <1>1 DEF Having
  <2>3. d \notin Dimensions(H, kind, S2) <=> A = {}
    BY DEF Dimensions, Having
  <2>4. d \in Dimensions(H, kind, S) <=> B # {}
    BY DEF Dimensions, Having
  <2> HIDE DEF A, B
  <2>5. IsFiniteSet(A)
    BY <1>1, <2>1, FS_Subset
  <2>6. Cardinality(B) = Cardinality(A) + Bit(d \in D) /\ Cardinality(A) \in Nat
    BY <2>1, <2>2, <2>5, CountBit
  <2>7. Cardinality(A) = 0 <=> A = {}
    BY <2>5, FS_EmptySet
  <2>8. B # {} <=> A # {} \/ d \in D
    BY <2>2
  <2> QED BY <2>3, <2>4, <2>6, <2>7, <2>8 DEF A, B
<1> DEFINE c == Tally(H, kind, S)
           c2 == Tally(H, kind, S2)
<1>3. DOMAIN c = Dimensions(H, kind, S) /\ \A d \in DOMAIN c : c[d] = Cardinality(Having(H, kind, S, d))
  BY DEF Tally
<1>4. DOMAIN c2 = Dimensions(H, kind, S2) /\ \A d \in DOMAIN c2 : c2[d] = Cardinality(Having(H, kind, S2, d))
  BY DEF Tally
<1>5. c2 = [d \in DOMAIN c2 |-> c2[d]]
  BY DEF Tally
<1> HIDE DEF c, c2
<1>6. ASSUME NEW d PROVE d \in DOMAIN c2 <=> d \in DOMAIN c /\ (d \notin D \/ c[d] > 1)
  <2>1. CASE d \in D
    <3>1. d \in DOMAIN c
      BY <1>2, <1>3, <2>1
    <3>2. c[d] = Cardinality(Having(H, kind, S2, d)) + 1
      BY <1>2, <1>3, <2>1, <3>1 DEF Bit
    <3>3. d \in DOMAIN c2 <=> ~ (Cardinality(Having(H, kind, S2, d)) = 0)
      BY <1>2, <1>4
    <3>4. Cardinality(Having(H, kind, S2, d)) \in Nat
      BY <1>2
    <3> QED BY <2>1, <3>1, <3>2, <3>3, <3>4
  <2>2. CASE d \notin D
    BY <1>2, <1>3, <1>4, <2>2
  <2> QED BY <2>1, <2>2
<1>7. ASSUME NEW d \in DOMAIN c2 PROVE c2[d] = c[d] - Bit(d \in D)
  <2>1. d \in DOMAIN c
    BY <1>6
  <2>2. /\ c[d] = Cardinality(Having(H, kind, S2, d)) + Bit(d \in D)
        /\ c2[d] = Cardinality(Having(H, kind, S2, d)) /\ c2[d] \in Nat
    BY <1>2, <1>3, <1>4, <2>1
  <2>3. Bit(d \in D) \in Int
    BY DEF Bit
  <2> QED BY <2>2, <2>3
<1>8. DOMAIN c2 = {v \in DOMAIN c : v \notin D \/ c[v] > 1}
  BY <1>6
<1>9. c2 = [d \in {v \in DOMAIN c : v \notin D \/ c[v] > 1} |-> c[d] - Bit(d \in D)]
  BY <1>5, <1>7, <1>8
<1> QED BY <1>9 DEF CountedOut, c, c2

LEMMA LessFailed ==
  ASSUME NEW H \in Seq(Ingested), NEW S, NEW m, NEW S2, Drops(H, S, m, S2)
  PROVE  /\ Cardinality(Failed(H, S)) = Cardinality(Failed(H, S2)) + Bit(H[m].event.outcome = "failure")
         /\ Cardinality(Failed(H, S2)) \in Nat
<1>1. m \in S /\ S2 = S \ {m} /\ IsFiniteSet(S2)
  BY DropsFacts DEF Drops
<1> DEFINE A == Failed(H, S2)
           B == Failed(H, S)
           o == H[m].event.outcome
<1>2. m \notin A /\ A \subseteq S2
  BY <1>1 DEF Failed
<1>3. \A i : i \in B <=> i \in A \/ (o \in {"failure"} /\ i = m)
  BY <1>1 DEF Failed
<1> HIDE DEF A, B, o
<1>4. IsFiniteSet(A)
  BY <1>1, <1>2, FS_Subset
<1>5. Cardinality(B) = Cardinality(A) + Bit(o \in {"failure"}) /\ Cardinality(A) \in Nat
  BY <1>2, <1>3, <1>4, CountBit
<1>6. Bit(o \in {"failure"}) = Bit(o = "failure")
  BY DEF Bit
<1> QED BY <1>5, <1>6 DEF A, B, o

LEMMA LessLapse ==
  ASSUME NEW H \in Seq(Ingested), NEW S, NEW m, NEW S2, Drops(H, S, m, S2)
  PROVE  /\ Bottom(S) = m
         /\ Lapse(H, S) = Lapse(H, S2) + (IF S2 = {} THEN 0 ELSE H[Bottom(S2)].ts - H[m].ts)
<1>0. PICK n : n = Len(H)
  OBVIOUS
<1>1. n \in Nat /\ S \subseteq 1 .. n /\ S2 \subseteq 1 .. n /\ m \in S /\ (\A j \in S : m <= j) /\ S2 = S \ {m}
  BY <1>0 DEF Drops
<1>2. \A i \in 1 .. n : H[i].ts \in Nat
  BY <1>0, PastFacts
<1>3. Bottom(S) = m
  BY <1>1, BottomIs
<1>4. CASE S2 = {}
  <2>1. S = {m} /\ m \in 1 .. n
    BY <1>1, <1>4
  <2>2. Top(S) \in S
    BY <1>1, TopFacts
  <2>3. Top(S) = m
    BY <2>1, <2>2
  <2>4. H[m].ts \in Nat
    BY <1>2, <2>1
  <2> QED BY <1>1, <1>3, <1>4, <2>3, <2>4 DEF Lapse
<1>5. CASE S2 # {}
  <2>1. /\ Top(S2) \in S2 /\ Bottom(S2) \in S2 /\ Top(S) \in S
        /\ (\A j \in S2 : j <= Top(S2)) /\ (\A j \in S : j <= Top(S))
    BY <1>1, <1>5, TopFacts, BottomFacts
  <2>2. Top(S2) = Top(S)
    <3>1. Top(S2) \in S /\ Top(S2) \in 1 .. n /\ Top(S) \in 1 .. n /\ m \in 1 .. n
      BY <1>1, <2>1
    <3>2. Top(S) \in S2 \/ Top(S) = m
      BY <1>1, <2>1
    <3>3. Top(S2) <= Top(S)
      BY <2>1, <3>1
    <3>4. CASE Top(S) \in S2
      <4>1. Top(S) <= Top(S2)
        BY <2>1, <3>4
      <4> QED BY <3>1, <3>3, <4>1
    <3>5. CASE Top(S) = m
      <4>1. m <= Top(S2)
        BY <1>1, <3>1
      <4> QED BY <3>1, <3>3, <3>5, <4>1
    <3> QED BY <3>2, <3>4, <3>5
  <2>3. H[Top(S)].ts \in Nat /\ H[Bottom(S2)].ts \in Nat /\ H[m].ts \in Nat
    BY <1>1, <1>2, <2>1
  <2> DEFINE t == H[Top(S)].ts
             b == H[Bottom(S2)].ts
             o == H[m].ts
  <2>4. Lapse(H, S) = t - o /\ Lapse(H, S2) = t - b
    BY <1>1, <1>3, <1>5, <2>2 DEF Lapse
  <2> QED BY <1>3, <1>5, <2>3, <2>4
<1> QED BY <1>3, <1>4, <1>5

(* The records behind the one that leaves a window: none, or the next.     *)
Behind(H, m, S2, B) ==
  /\ S2 = {} => B = {}
  /\ S2 # {} => \E y : B = {y} /\ y.gap = H[Bottom(S2)].ts - H[m].ts /\ y.gap >= 0

(* A window from which the oldest record leaves has the counts of the rest.*)
LEMMA AggLess ==
  ASSUME NEW H \in Seq(Ingested), NEW S, NEW m, NEW S2, Drops(H, S, m, S2), NEW kind,
         NEW x, Recorded(x, kind, H[m].event), NEW B, Behind(H, m, S2, B), NEW h
  PROVE  Removed(AggOf(H, kind, S, h), x, B) = AggOf(H, kind, S2, h)
<1>1. /\ Cardinality(S) \in Nat /\ Cardinality(S2) = Cardinality(S) - 1
      /\ Cardinality(S2) \in Nat /\ (Cardinality(S2) = 0 <=> S2 = {}) /\ S # {}
  <2>1. S # {}
    BY DEF Drops
  <2> QED BY <2>1, DropsFacts
<1> DEFINE gapped == \E y \in B : y.gap # NoGap
           gap == CHOOSE v \in {y.gap : y \in B} : TRUE
<1>2. gapped <=> S2 # {}
  <2>1. CASE S2 = {}
    BY <2>1 DEF Behind
  <2>2. CASE S2 # {}
    <3>1. PICK y : B = {y} /\ y.gap >= 0 /\ y.gap = H[Bottom(S2)].ts - H[m].ts
      BY <2>2 DEF Behind
    <3>2. y.gap # -1
      BY <3>1
    <3> QED BY <2>2, <3>1, <3>2 DEF NoGap
  <2> QED BY <2>1, <2>2
<1>3. S2 # {} => gap = H[Bottom(S2)].ts - H[m].ts
  <2> SUFFICES ASSUME S2 # {} PROVE gap = H[Bottom(S2)].ts - H[m].ts
    OBVIOUS
  <2>1. PICK y : B = {y} /\ y.gap = H[Bottom(S2)].ts - H[m].ts
    BY DEF Behind
  <2>2. {z.gap : z \in B} = {y.gap}
    BY <2>1
  <2>3. gap \in {y.gap}
    BY <2>2
  <2> QED BY <2>1, <2>3
<1> DEFINE g == IF S = {} THEN 0 ELSE Cardinality(S) - 1
           g2 == IF S2 = {} THEN 0 ELSE Cardinality(S2) - 1
           f == Cardinality(Failed(H, S))
           f2 == Cardinality(Failed(H, S2))
           l == Lapse(H, S)
           l2 == Lapse(H, S2)
           c == Tally(H, kind, S)
           c2 == Tally(H, kind, S2)
<1>4. Summed(AggOf(H, kind, S, h), h, Cardinality(S), f, g, l, c)
  BY DEF AggOf, Summed
<1>5. Summed(AggOf(H, kind, S2, h), h, Cardinality(S2), f2, g2, l2, c2)
  BY DEF AggOf, Summed
<1>6. g2 = g - Bit(gapped)
  <2>1. g = Cardinality(S) - 1
    BY <1>1
  <2>2. CASE S2 = {}
    <3>1. Bit(gapped) = 0
      BY <1>2, <2>2 DEF Bit
    <3>2. Cardinality(S) = 1 /\ g2 = 0
      BY <1>1, <2>2
    <3>3. g = 0
      BY <2>1, <3>2
    <3> HIDE DEF g, g2, gapped
    <3> QED BY <3>1, <3>2, <3>3
  <2>3. CASE S2 # {}
    <3>1. Bit(gapped) = 1
      BY <1>2, <2>3 DEF Bit
    <3>2. g2 = Cardinality(S2) - 1
      BY <2>3
    <3> QED BY <1>1, <2>1, <3>1, <3>2
  <2> QED BY <2>2, <2>3
<1>7. /\ Bottom(S) = m /\ l = l2 + (IF S2 = {} THEN 0 ELSE H[Bottom(S2)].ts - H[m].ts)
      /\ l \in Int /\ l2 \in Int /\ (S2 # {} => gap \in Int)
  <2>1. Bottom(S) = m /\ l = l2 + (IF S2 = {} THEN 0 ELSE H[Bottom(S2)].ts - H[m].ts)
    BY LessLapse
  <2>2. \A X : X \subseteq S => Lapse(H, X) \in Int
    <3> SUFFICES ASSUME NEW X, X \subseteq S PROVE Lapse(H, X) \in Int
      OBVIOUS
    <3>1. CASE X = {}
      BY <3>1 DEF Lapse
    <3>2. CASE X # {}
      <4>1. X \subseteq 1 .. Len(H) /\ Len(H) \in Nat
        BY DEF Drops
      <4>2. Top(X) \in X /\ Bottom(X) \in X
        BY <3>2, <4>1, TopFacts, BottomFacts
      <4>3. H[Top(X)].ts \in Nat /\ H[Bottom(X)].ts \in Nat
        BY <4>1, <4>2, PastFacts
      <4> QED BY <3>2, <4>3 DEF Lapse
    <3> QED BY <3>1, <3>2
  <2>3. S2 \subseteq S
    BY DEF Drops
  <2>4. S2 # {} => gap \in Int
    <3> SUFFICES ASSUME S2 # {} PROVE gap \in Int
      OBVIOUS
    <3>1. S2 \subseteq 1 .. Len(H) /\ Len(H) \in Nat /\ m \in 1 .. Len(H)
      BY DEF Drops
    <3>2. Bottom(S2) \in S2
      BY <3>1, BottomFacts
    <3>3. H[m].ts \in Nat /\ H[Bottom(S2)].ts \in Nat
      BY <3>1, <3>2, PastFacts
    <3> HIDE DEF gap
    <3> QED BY <1>3, <3>3
  <2> HIDE DEF gap
  <2> QED BY <2>1, <2>2, <2>3, <2>4
<1>8. GapOut(l, B, l2)
  <2> HIDE DEF gap, gapped, l, l2
  <2>1. l2 = l - IF gapped THEN gap ELSE 0
    <3>1. CASE S2 = {}
      BY <1>2, <1>7, <3>1
    <3>2. CASE S2 # {}
      <4>1. l = l2 + gap
        BY <1>3, <1>7, <3>2
      <4>2. gap \in Int /\ l2 \in Int
        BY <1>7, <3>2
      <4>3. l2 = l - gap
        BY <4>1, <4>2
      <4> QED BY <1>2, <3>2, <4>3
    <3> QED BY <3>1, <3>2
  <2> QED BY <2>1 DEF GapOut, gap, gapped
<1>9. CountedOut(c, x.dims, c2)
  <2>1. PICK D : D = Dims(kind, H[m].event)
    OBVIOUS
  <2>2. CountedOut(c, D, c2)
    BY <2>1, LessTally
  <2>3. x.dims = D
    BY <2>1 DEF Recorded
  <2> HIDE DEF c, c2
  <2> QED BY <2>2, <2>3
<1>10. f2 = f - Bit(x.outcome = "failure")
  <2>1. f = f2 + Bit(H[m].event.outcome = "failure") /\ f2 \in Nat
    BY LessFailed
  <2>2. x.outcome = H[m].event.outcome
    BY DEF Recorded
  <2>3. Bit(x.outcome = "failure") \in Int
    BY DEF Bit
  <2> HIDE DEF f, f2
  <2> QED BY <2>1, <2>2, <2>3
<1> HIDE DEF f, f2, g, g2, l, l2, c, c2
<1>11. Summed(Removed(AggOf(H, kind, S, h), x, B), h, Cardinality(S) - 1, f - Bit(x.outcome = "failure"), g2, l2, c2)
  <2> HIDE DEF gap
  <2>1. GapsOut(g, B, g2)
    BY <1>6 DEF GapsOut
  <2> QED BY <1>4, <1>8, <1>9, <2>1, RemovedIs
<1> QED BY <1>1, <1>5, <1>10, <1>11 DEF Summed

-----------------------------------------------------------------------------
(* What a buffer tells of the history.                                     *)

Rec == [ts : Nat, outcome : Outcome, dims : SUBSET (User \cup Source), gap : Int]
Sorted(H) == H \in Seq(Ingested) /\ \A i, j \in 1 .. Len(H) : i <= j => H[i].ts <= H[j].ts

(* The events of the records after the first h.                            *)
Part(p, h) == {p[j] : j \in {i \in DOMAIN p : h < i}}

(* The records are k's events after the first c of the history: p tells    *)
(* where each of them is.                                                  *)
Lists(k, b, H, c, p) ==
  /\ Shaped(b) /\ b.records \in Seq(Rec) /\ b.last \in Int /\ c \in 0 .. Len(H)
  /\ p \in [1 .. Len(b.records) -> 1 .. Len(H)]
  /\ \A i, j \in 1 .. Len(b.records) : i < j => p[i] < p[j]
  /\ \A i : i \in Touches(H, k) /\ i > c <=> \E j \in 1 .. Len(b.records) : p[j] = i
  /\ \A j \in 1 .. Len(b.records) :
       b.records[j].ts = H[p[j]].ts /\ Recorded(b.records[j], k[1], H[p[j]].event)
  /\ \A j \in 2 .. Len(b.records) : b.records[j].gap = H[p[j]].ts - H[p[j - 1]].ts
  /\ Len(b.records) > 0 => b.last = H[p[Len(b.records)]].ts

(* A window counts the records after its head, and those before are older. *)
Sums(k, b, H, p, t, v, w) ==
  \E h \in 0 .. Len(b.records) :
    v = AggOf(H, k[1], Part(p, h), h) /\ \A j \in 1 .. h : b.records[j].ts < t - w

Rising(p, L, n) ==
  /\ n \in Nat /\ L \in Nat /\ p \in [1 .. L -> 1 .. n]
  /\ \A i, j \in 1 .. L : i < j => p[i] < p[j]

LEMMA PartFacts ==
  ASSUME NEW n, NEW L, NEW p, Rising(p, L, n), NEW h \in 0 .. L
  PROVE  /\ Part(p, h) \subseteq 1 .. n /\ (Part(p, h) = {} <=> h = L)
         /\ \A i : i \in Part(p, h) <=> \E j \in h + 1 .. L : p[j] = i
         /\ h < L => Top(Part(p, h)) = p[L] /\ Bottom(Part(p, h)) = p[h + 1]
<1>0. /\ n \in Nat /\ L \in Nat /\ p \in [1 .. L -> 1 .. n]
      /\ \A i, j \in 1 .. L : i < j => p[i] < p[j]
  BY DEF Rising
<1>1. ASSUME NEW i PROVE i \in Part(p, h) <=> \E j \in h + 1 .. L : p[j] = i
  BY <1>0 DEF Part
<1>2. Part(p, h) \subseteq 1 .. n
  BY <1>0, <1>1
<1>3. Part(p, h) = {} <=> h = L
  <2>1. CASE h = L
    BY <1>0, <1>1, <2>1
  <2>2. CASE h # L
    <3>1. L \in h + 1 .. L
      BY <1>0, <2>2
    <3> QED BY <1>1, <2>2, <3>1
  <2> QED BY <2>1, <2>2
<1>4. ASSUME h < L PROVE Top(Part(p, h)) = p[L] /\ Bottom(Part(p, h)) = p[h + 1]
  <2> DEFINE S == Part(p, h)
             x == p[L]
             y == p[h + 1]
  <2>1. L \in h + 1 .. L /\ h + 1 \in h + 1 .. L /\ \A j \in h + 1 .. L : j \in 1 .. L
    BY <1>0, <1>4
  <2>2. x \in S /\ y \in S
    BY <1>0, <1>1, <2>1
  <2>3. \A j \in h + 1 .. L : p[j] \in 1 .. n
    BY <1>0, <2>1
  <2>4. \A j \in h + 1 .. L : p[j] <= x
    <3> SUFFICES ASSUME NEW j \in h + 1 .. L PROVE p[j] <= x
      OBVIOUS
    <3>1. CASE j = L
      BY <1>0, <2>3, <3>1
    <3>2. CASE j < L
      <4>1. p[j] < p[L] /\ p[j] \in 1 .. n /\ p[L] \in 1 .. n
        BY <1>0, <2>1, <2>3, <3>2
      <4> QED BY <1>0, <4>1
    <3> QED BY <1>0, <1>4, <3>1, <3>2
  <2>5. \A j \in h + 1 .. L : y <= p[j]
    <3> SUFFICES ASSUME NEW j \in h + 1 .. L PROVE y <= p[j]
      OBVIOUS
    <3>1. CASE j = h + 1
      BY <1>0, <2>3, <3>1
    <3>2. CASE h + 1 < j
      <4>1. p[h + 1] < p[j] /\ p[j] \in 1 .. n /\ p[h + 1] \in 1 .. n
        BY <1>0, <2>1, <2>3, <3>2
      <4> QED BY <1>0, <4>1
    <3> QED BY <1>0, <1>4, <3>1, <3>2
  <2> HIDE DEF x, y
  <2>6. S \subseteq 1 .. n /\ (\A j \in S : j <= x) /\ (\A j \in S : y <= j)
    BY <1>1, <1>2, <2>4, <2>5
  <2> HIDE DEF S
  <2>7. Top(S) = x /\ Bottom(S) = y
    BY <1>0, <2>2, <2>6, TopIs, BottomIs
  <2> QED BY <2>7 DEF S, x, y
<1> QED BY <1>1, <1>2, <1>3, <1>4

(* The window loses its records one by one.                                *)
Following(b, i, B) == \A y : y \in B <=> i < Len(b.records) /\ y = b.records[i + 1]
Loses(k, b, H, p, i, B) ==
  /\ Drops(H, Part(p, i - 1), p[i], Part(p, i))
  /\ Recorded(b.records[i], k[1], H[p[i]].event)
  /\ Behind(H, p[i], Part(p, i), B)

LEMMA PartDrops ==
  ASSUME NEW k, NEW b, NEW H, NEW c, NEW p, Lists(k, b, H, c, p), Sorted(H),
         NEW i \in 1 .. Len(b.records), NEW B, Following(b, i, B)
  PROVE  Loses(k, b, H, p, i, B)
<1> DEFINE o == i - 1
<1>0. PICK n, L : n = Len(H) /\ L = Len(b.records)
  OBVIOUS
<1>1. /\ n \in Nat /\ L \in Nat /\ p \in [1 .. L -> 1 .. n] /\ H \in Seq(Ingested)
      /\ (\A j, l \in 1 .. L : j < l => p[j] < p[l]) /\ i \in 1 .. L /\ o \in 0 .. L /\ i \in 0 .. L /\ o + 1 = i
  BY <1>0 DEF Lists, Sorted
<1> HIDE DEF o
<1>2. /\ Part(p, o) \subseteq 1 .. n /\ Part(p, i) \subseteq 1 .. n
      /\ (Part(p, i) = {} <=> i = L)
      /\ (\A l : l \in Part(p, o) <=> \E j \in o + 1 .. L : p[j] = l)
      /\ (\A l : l \in Part(p, i) <=> \E j \in i + 1 .. L : p[j] = l)
      /\ (i < L => Bottom(Part(p, i)) = p[i + 1])
  <2>0. Rising(p, L, n)
    BY <1>1 DEF Rising
  <2>3. o \in 0 .. L /\ i \in 0 .. L
    BY <1>1
  <2>1. /\ Part(p, o) \subseteq 1 .. n
        /\ (\A l : l \in Part(p, o) <=> \E j \in o + 1 .. L : p[j] = l)
    BY <2>0, <2>3, PartFacts
  <2>2. /\ Part(p, i) \subseteq 1 .. n /\ (Part(p, i) = {} <=> i = L)
        /\ (\A l : l \in Part(p, i) <=> \E j \in i + 1 .. L : p[j] = l)
        /\ (i < L => Bottom(Part(p, i)) = p[i + 1])
    BY <2>0, <2>3, PartFacts
  <2> QED BY <2>1, <2>2
<1>3. p[i] \in Part(p, o)
  <2>1. i \in o + 1 .. L
    BY <1>1
  <2> QED BY <1>2, <2>1
<1>4. \A j \in i + 1 .. L : p[i] < p[j] /\ p[j] \in 1 .. n /\ p[i] \in 1 .. n
  BY <1>1
<1>5. \A l \in Part(p, o) : l = p[i] \/ l \in Part(p, i)
  <2> SUFFICES ASSUME NEW l \in Part(p, o) PROVE l = p[i] \/ l \in Part(p, i)
    OBVIOUS
  <2>1. PICK j \in o + 1 .. L : p[j] = l
    BY <1>2
  <2>2. j = i \/ j \in i + 1 .. L
    BY <1>1
  <2> QED BY <1>2, <2>1, <2>2
<1>6. \A l \in Part(p, i) : l \in Part(p, o) /\ l # p[i] /\ p[i] <= l
  <2> SUFFICES ASSUME NEW l \in Part(p, i) PROVE l \in Part(p, o) /\ l # p[i] /\ p[i] <= l
    OBVIOUS
  <2>1. PICK j \in i + 1 .. L : p[j] = l
    BY <1>2
  <2>2. j \in o + 1 .. L
    BY <1>1
  <2>3. p[i] < l /\ l \in 1 .. n /\ p[i] \in 1 .. n
    BY <1>4, <2>1
  <2> QED BY <1>2, <2>1, <2>2, <2>3
<1>7. Part(p, i) = Part(p, o) \ {p[i]}
  BY <1>5, <1>6
<1>8. \A l \in Part(p, o) : p[i] <= l
  <2>1. p[i] <= p[i]
    BY <1>1
  <2> QED BY <1>5, <1>6, <2>1
<1>9. Drops(H, Part(p, o), p[i], Part(p, i))
  BY <1>0, <1>2, <1>3, <1>7, <1>8 DEF Drops
<1>10. Recorded(b.records[i], k[1], H[p[i]].event)
  BY DEF Lists
<1>11. Behind(H, p[i], Part(p, i), B)
  <2>1. CASE i = L
    <3>1. B = {}
      BY <1>0, <1>1, <2>1 DEF Following
    <3> QED BY <1>2, <2>1, <3>1 DEF Behind
  <2>2. CASE i < L
    <3> DEFINE y == b.records[i + 1]
    <3>1. B = {y} /\ Part(p, i) # {} /\ Bottom(Part(p, i)) = p[i + 1]
      BY <1>0, <1>1, <1>2, <2>2 DEF Following
    <3>2. i + 1 \in 2 .. Len(b.records) /\ i + 1 - 1 = i
      BY <1>0, <1>1, <2>2
    <3>3. y.gap = H[p[i + 1]].ts - H[p[i]].ts
      <4>1. y.gap = H[p[i + 1]].ts - H[p[i + 1 - 1]].ts
        BY <3>2 DEF Lists
      <4> QED BY <3>2, <4>1
    <3>4. p[i] <= p[i + 1] /\ p[i] \in 1 .. n /\ p[i + 1] \in 1 .. n
      <4>1. i + 1 \in i + 1 .. L
        BY <1>1, <2>2
      <4> QED BY <1>4, <4>1
    <3>5. H[p[i]].ts <= H[p[i + 1]].ts /\ H[p[i]].ts \in Nat /\ H[p[i + 1]].ts \in Nat
      BY <1>0, <1>1, <3>4, PastFacts DEF Sorted
    <3> HIDE DEF y
    <3>6. y.gap >= 0
      <4> DEFINE u == H[p[i]].ts
                 v == H[p[i + 1]].ts
      <4> HIDE DEF u, v
      <4>1. y.gap = v - u /\ u <= v /\ u \in Nat /\ v \in Nat
        BY <3>3, <3>5 DEF u, v
      <4> QED BY <4>1
    <3> QED BY <3>1, <3>3, <3>6 DEF Behind
  <2> QED BY <1>1, <2>1, <2>2
<1> QED BY <1>9, <1>10, <1>11 DEF Loses, o

LEMMA Headed ==
  ASSUME NEW H, NEW kind, NEW S, NEW h, NEW g
  PROVE  [AggOf(H, kind, S, h) EXCEPT !.head = g] = AggOf(H, kind, S, g) /\ AggOf(H, kind, S, h).head = h
<1> DEFINE f == Cardinality(Failed(H, S))
           n == Cardinality(S)
           s == Lapse(H, S)
           c == Tally(H, kind, S)
           x == IF S = {} THEN 0 ELSE n - 1
<1>1. AggOf(H, kind, S, h) = [head |-> h, n |-> n, failures |-> f, gaps |-> x, span |-> s, counts |-> c]
  BY DEF AggOf
<1>2. AggOf(H, kind, S, g) = [head |-> g, n |-> n, failures |-> f, gaps |-> x, span |-> s, counts |-> c]
  BY DEF AggOf
<1> HIDE DEF f, n, s, c, x
<1> QED BY <1>1, <1>2

LEMMA LeastNumber ==
  ASSUME NEW S, S \subseteq Nat, S # {}
  PROVE  \E m \in S : \A n \in S : m <= n
<1> SUFFICES ASSUME \A m \in S : ~ (\A n \in S : m <= n) PROVE FALSE
  OBVIOUS
<1>1. PICK x \in S : TRUE
  OBVIOUS
<1> DEFINE T == {n \in S : n <= x}
<1>2. T \subseteq 0 .. x /\ x \in Nat /\ x \in T
  <2>1. x \in Nat /\ x <= x
    BY <1>1
  <2>2. \A n \in T : n \in 0 .. x
    BY <2>1
  <2>3. x \in T
    BY <1>1, <2>1
  <2> QED BY <2>1, <2>2, <2>3
<1>3. IsFiniteSet(0 .. x)
  BY <1>2, FS_Interval
<1>4. T \subseteq Int /\ T # {}
  BY <1>2
<1> HIDE DEF T
<1>5. IsFiniteSet(T)
  BY <1>2, <1>3, FS_Subset
<1>6. PICK m \in T : \A n \in T : m <= n
  BY <1>4, <1>5, Least
<1>7. m \in S /\ m <= x
  BY DEF T
<1>8. \A n \in S : m <= n
  <2> SUFFICES ASSUME NEW n \in S PROVE m <= n
    OBVIOUS
  <2>1. m \in Nat /\ n \in Nat /\ x \in Nat
    BY <1>1, <1>7
  <2>2. CASE n <= x
    BY <1>6, <2>2 DEF T
  <2>3. CASE ~ (n <= x)
    BY <1>7, <2>1, <2>3
  <2> QED BY <2>2, <2>3
<1> QED BY <1>7, <1>8

(* The records lie in the order of their times.                            *)
LEMMA InOrder ==
  ASSUME NEW k, NEW b, NEW H, NEW c, NEW p, Lists(k, b, H, c, p), Sorted(H),
         NEW i \in 1 .. Len(b.records), NEW j \in 1 .. Len(b.records), i <= j
  PROVE  b.records[i].ts <= b.records[j].ts /\ b.records[i].ts \in Nat /\ b.records[j].ts \in Nat
<1>0. PICK n, L : n = Len(H) /\ L = Len(b.records)
  OBVIOUS
<1>1. /\ n \in Nat /\ L \in Nat /\ p \in [1 .. L -> 1 .. n] /\ H \in Seq(Ingested)
      /\ (\A x, l \in 1 .. L : x < l => p[x] < p[l]) /\ i \in 1 .. L /\ j \in 1 .. L
  BY <1>0 DEF Lists, Sorted
<1>2. p[i] \in 1 .. n /\ p[j] \in 1 .. n /\ p[i] <= p[j]
  <2>1. p[i] \in 1 .. n /\ p[j] \in 1 .. n
    BY <1>1
  <2>2. CASE i = j
    BY <2>1, <2>2
  <2>3. CASE i < j
    <3>1. p[i] < p[j]
      BY <1>1, <2>3
    <3> QED BY <2>1, <3>1
  <2> QED BY <1>1, <2>1, <2>2, <2>3
<1>3. H[p[i]].ts <= H[p[j]].ts /\ H[p[i]].ts \in Nat /\ H[p[j]].ts \in Nat
  BY <1>0, <1>1, <1>2, PastFacts DEF Sorted
<1>4. b.records[i].ts = H[p[i]].ts /\ b.records[j].ts = H[p[j]].ts
  BY DEF Lists
<1> QED BY <1>3, <1>4

(* Where the records become recent enough for a window.                    *)
LEMMA FreshFrom ==
  ASSUME NEW k, NEW b, NEW H, NEW c, NEW p, Lists(k, b, H, c, p), Sorted(H),
         NEW h \in 0 .. Len(b.records), NEW old \in Int
  PROVE  \E g \in h .. Len(b.records) :
           /\ \A j \in h + 1 .. g : b.records[j].ts < old
           /\ \A j \in g + 1 .. Len(b.records) : b.records[j].ts >= old
<1>0. PICK L : L = Len(b.records)
  OBVIOUS
<1>1. L \in Nat /\ h \in 0 .. L
  BY <1>0 DEF Lists
<1> DEFINE T == {h} \cup {j \in h + 1 .. L : b.records[j].ts < old}
<1>2. T \subseteq h .. L /\ h \in T
  BY <1>1
<1>3. IsFiniteSet(h .. L)
  BY <1>1, FS_Interval
<1>4. T \subseteq Int /\ T # {}
  BY <1>1, <1>2
<1>5. \A j \in h + 1 .. L : j \in T <=> b.records[j].ts < old
  BY <1>1
<1> HIDE DEF T
<1>6. IsFiniteSet(T)
  BY <1>2, <1>3, FS_Subset
<1>7. PICK g \in T : \A j \in T : j <= g
  BY <1>4, <1>6, Greatest
<1>8. g \in h .. L /\ g \in Nat
  BY <1>1, <1>2
<1>9. ASSUME NEW j \in h + 1 .. g PROVE b.records[j].ts < old
  <2>1. g \in h + 1 .. L /\ j \in 1 .. L /\ g \in 1 .. L /\ j <= g
    BY <1>1, <1>8
  <2>2. b.records[g].ts < old
    BY <1>5, <1>7, <2>1
  <2>3. b.records[j].ts <= b.records[g].ts /\ b.records[j].ts \in Nat /\ b.records[g].ts \in Nat
    BY <1>0, <2>1, InOrder
  <2> QED BY <2>2, <2>3
<1>10. ASSUME NEW j \in g + 1 .. L PROVE b.records[j].ts >= old
  <2>1. j \in h + 1 .. L /\ ~ (j <= g) /\ j \in 1 .. L /\ j <= j
    BY <1>1, <1>8
  <2>2. ~ (b.records[j].ts < old)
    BY <1>5, <1>7, <2>1
  <2>3. b.records[j].ts \in Nat
    BY <1>0, <2>1, InOrder
  <2> QED BY <2>2, <2>3
<1> QED BY <1>0, <1>8, <1>9, <1>10

(* Sliding a window leaves it with exactly the records recent enough.      *)
LEMMA SlidIs ==
  ASSUME NEW k, NEW b, NEW H, NEW c, NEW p, Lists(k, b, H, c, p), Sorted(H),
         NEW t \in Int, NEW w \in Nat, NEW v, v = b.window[w], Sums(k, b, H, p, t, v, w)
  PROVE  \E g \in 0 .. Len(b.records) :
           /\ Slid(b, w, t) = AggOf(H, k[1], Part(p, g), g)
           /\ \A j \in 1 .. g : b.records[j].ts < t - w
           /\ \A j \in g + 1 .. Len(b.records) : b.records[j].ts >= t - w
<1>0. PICK L : L = Len(b.records)
  OBVIOUS
<1>1. L \in Nat
  BY <1>0 DEF Lists
<1>2. PICK h \in 0 .. L : b.window[w] = AggOf(H, k[1], Part(p, h), h) /\ \A j \in 1 .. h : b.records[j].ts < t - w
  BY <1>0 DEF Sums
<1>3. PICK g \in h .. L : /\ \A j \in h + 1 .. g : b.records[j].ts < t - w
                          /\ \A j \in g + 1 .. L : b.records[j].ts >= t - w
  <2>1. PICK old : old = t - w
    OBVIOUS
  <2>2. old \in Int /\ h \in 0 .. Len(b.records)
    BY <1>0, <2>1
  <2>3. \E g \in h .. Len(b.records) :
           /\ \A j \in h + 1 .. g : b.records[j].ts < old
           /\ \A j \in g + 1 .. Len(b.records) : b.records[j].ts >= old
    BY <2>2, FreshFrom
  <2> QED BY <1>0, <2>1, <2>3
<1> DEFINE head == b.window[w].head
           stale == {i \in head + 1 .. Len(b.records) : b.records[i].ts < t - w}
           Keeps(f) == f = [i \in head .. head + Cardinality(stale) |->
              IF i = head THEN b.window[w]
              ELSE Removed(f[i - 1], b.records[i],
                           {b.records[j] : j \in {i + 1} \cap 1 .. Len(b.records)})]
           kept == CHOOSE f : Keeps(f)
           witness == [i \in h .. g |-> AggOf(H, k[1], Part(p, i), h)]
<1>4. Slid(b, w, t) = [kept[head + Cardinality(stale)] EXCEPT !.head = head + Cardinality(stale)]
  BY DEF Slid
<1>5. head = h
  BY <1>2, Headed
<1>6. stale = h + 1 .. g
  <2>1. \A i \in h + 1 .. L : b.records[i].ts < t - w <=> i <= g
    <3> SUFFICES ASSUME NEW i \in h + 1 .. L PROVE b.records[i].ts < t - w <=> i <= g
      OBVIOUS
    <3>1. CASE i <= g
      <4>1. i \in h + 1 .. g
        BY <1>1, <3>1
      <4> QED BY <1>3, <3>1, <4>1
    <3>2. CASE ~ (i <= g)
      <4>1. i \in g + 1 .. L /\ i \in 1 .. L /\ i <= i
        BY <1>1, <3>2
      <4>2. b.records[i].ts >= t - w
        BY <1>3, <4>1
      <4>3. b.records[i].ts \in Nat
        BY <1>0, <4>1, InOrder
      <4> QED BY <3>2, <4>2, <4>3
    <3> QED BY <3>1, <3>2
  <2>2. stale = {i \in h + 1 .. L : b.records[i].ts < t - w}
    BY <1>0, <1>5
  <2>3. stale = {i \in h + 1 .. L : i <= g}
    BY <2>1, <2>2
  <2> QED BY <1>1, <2>3
<1>7. head + Cardinality(stale) = g
  <2>1. Cardinality(h + 1 .. g) = g - h
    <3>1. h + 1 \in Int /\ g \in Int /\ h \in Int /\ h <= g
      BY <1>1
    <3>2. Cardinality(h + 1 .. g) = IF h + 1 > g THEN 0 ELSE g - (h + 1) + 1
      BY <3>1, FS_Interval
    <3> QED BY <3>1, <3>2
  <2> HIDE DEF head, stale
  <2> QED BY <1>1, <1>5, <1>6, <2>1
<1>8. ASSUME NEW i \in h + 1 .. g
      PROVE  Removed(AggOf(H, k[1], Part(p, i - 1), h), b.records[i],
                     {b.records[j] : j \in {i + 1} \cap 1 .. Len(b.records)}) = AggOf(H, k[1], Part(p, i), h)
  <2> DEFINE B == {b.records[j] : j \in {i + 1} \cap 1 .. Len(b.records)}
  <2>1. Following(b, i, B)
    <3>1. i \in Nat /\ Len(b.records) \in Nat /\ i >= 1
      BY <1>0, <1>1
    <3>2. i + 1 \in 1 .. Len(b.records) <=> i < Len(b.records)
      BY <3>1
    <3>3. \A y : y \in B <=> i < Len(b.records) /\ y = b.records[i + 1]
      BY <3>2
    <3> HIDE DEF B
    <3> QED BY <3>3 DEF Following
  <2> HIDE DEF B
  <2>2. i \in 1 .. Len(b.records)
    BY <1>0, <1>1
  <2>3. PICK o : o = i - 1
    OBVIOUS
  <2>4. /\ Drops(H, Part(p, o), p[i], Part(p, i))
        /\ Recorded(b.records[i], k[1], H[p[i]].event)
        /\ Behind(H, p[i], Part(p, i), B)
    BY <2>1, <2>2, <2>3, PartDrops DEF Loses
  <2>5. H \in Seq(Ingested)
    BY DEF Sorted
  <2> DEFINE S == Part(p, o)
             S2 == Part(p, i)
             m == p[i]
             x == b.records[i]
             kind == k[1]
  <2> HIDE DEF S, S2, m, x, kind
  <2>6. Drops(H, S, m, S2) /\ Recorded(x, kind, H[m].event) /\ Behind(H, m, S2, B)
    BY <2>4 DEF S, S2, m, x, kind
  <2>7. Removed(AggOf(H, kind, S, h), x, B) = AggOf(H, kind, S2, h)
    BY <2>5, <2>6, AggLess
  <2> QED BY <2>3, <2>7 DEF B, S, S2, m, x, kind
<1>9. Keeps(witness)
  <2>1. \A i \in h .. g : AggOf(H, k[1], Part(p, i), h) =
          IF i = h THEN b.window[w]
          ELSE Removed(witness[i - 1], b.records[i],
                       {b.records[j] : j \in {i + 1} \cap 1 .. Len(b.records)})
    <3> SUFFICES ASSUME NEW i \in h .. g
                 PROVE  AggOf(H, k[1], Part(p, i), h) =
                          IF i = h THEN b.window[w]
                          ELSE Removed(witness[i - 1], b.records[i],
                                       {b.records[j] : j \in {i + 1} \cap 1 .. Len(b.records)})
      OBVIOUS
    <3>1. CASE i = h
      BY <1>2, <3>1
    <3>2. CASE i # h
      <4>1. i \in h + 1 .. g /\ i - 1 \in h .. g
        BY <1>1, <3>2
      <4>2. witness[i - 1] = AggOf(H, k[1], Part(p, i - 1), h)
        BY <4>1
      <4> HIDE DEF witness
      <4> QED BY <1>8, <3>2, <4>1, <4>2
    <3> QED BY <3>1, <3>2
  <2>2. witness = [i \in h .. g |-> IF i = h THEN b.window[w]
                                    ELSE Removed(witness[i - 1], b.records[i],
                                           {b.records[j] : j \in {i + 1} \cap 1 .. Len(b.records)})]
    BY <2>1
  <2> HIDE DEF witness, head, stale
  <2> QED BY <1>5, <1>7, <2>2
<1>10. Keeps(kept)
  BY <1>9
<1>11. \A i \in h .. g : kept[i] = witness[i]
  <2> DEFINE M == {i \in h .. g : kept[i] # witness[i]}
  <2> SUFFICES ASSUME M # {} PROVE FALSE
    OBVIOUS
  <2>1. PICK m \in M : \A n \in M : m <= n
    <3>1. M \subseteq Nat
      BY <1>1
    <3> HIDE DEF M
    <3> QED BY <3>1, LeastNumber
  <2>2. m \in h .. g /\ kept[m] # witness[m]
    BY <2>1
  <2>3. \A n \in h .. g : n < m => kept[n] = witness[n]
    <3> SUFFICES ASSUME NEW n \in h .. g, n < m, kept[n] # witness[n] PROVE FALSE
      OBVIOUS
    <3>1. m <= n
      BY <2>1
    <3> HIDE DEF kept, witness, M
    <3> QED BY <1>1, <2>2, <3>1
  <2> HIDE DEF kept, witness, head, stale, M
  <2>4. CASE m = h
    BY <1>5, <1>7, <1>9, <1>10, <2>2, <2>4
  <2>5. CASE m # h
    <3>1. m - 1 \in h .. g /\ m - 1 < m
      BY <1>1, <2>2, <2>5
    <3>2. kept[m - 1] = witness[m - 1]
      BY <2>3, <3>1
    <3> DEFINE B == {b.records[j] : j \in {m + 1} \cap 1 .. Len(b.records)}
    <3>3. kept = [i \in h .. g |->
              IF i = h THEN b.window[w]
              ELSE Removed(kept[i - 1], b.records[i],
                           {b.records[j] : j \in {i + 1} \cap 1 .. Len(b.records)})]
      BY <1>5, <1>7, <1>10
    <3>4. witness = [i \in h .. g |->
              IF i = h THEN b.window[w]
              ELSE Removed(witness[i - 1], b.records[i],
                           {b.records[j] : j \in {i + 1} \cap 1 .. Len(b.records)})]
      BY <1>5, <1>7, <1>9
    <3>5. kept[m] = Removed(kept[m - 1], b.records[m], B)
      BY <2>2, <2>5, <3>3
    <3>6. witness[m] = Removed(witness[m - 1], b.records[m], B)
      BY <2>2, <2>5, <3>4
    <3> HIDE DEF B
    <3> QED BY <2>2, <3>2, <3>5, <3>6
  <2> QED BY <2>4, <2>5
<1>12. g \in h .. g
  BY <1>1
<1>13. kept[g] = AggOf(H, k[1], Part(p, g), h)
  <2>1. witness[g] = AggOf(H, k[1], Part(p, g), h)
    BY <1>12
  <2> HIDE DEF kept, witness
  <2> QED BY <1>11, <1>12, <2>1
<1>14. Slid(b, w, t) = [kept[g] EXCEPT !.head = g]
  <2> HIDE DEF kept, head, stale
  <2> QED BY <1>4, <1>7
<1>15. Slid(b, w, t) = AggOf(H, k[1], Part(p, g), g)
  <2> HIDE DEF kept
  <2> DEFINE S == Part(p, g)
             kind == k[1]
  <2> HIDE DEF S, kind
  <2>1. [AggOf(H, kind, S, h) EXCEPT !.head = g] = AggOf(H, kind, S, g)
    BY Headed
  <2>2. kept[g] = AggOf(H, kind, S, h)
    BY <1>13 DEF S, kind
  <2>3. Slid(b, w, t) = AggOf(H, kind, S, g)
    BY <1>14, <2>1, <2>2
  <2> QED BY <2>3 DEF S, kind
<1>16. g \in 0 .. L
  BY <1>1
<1>17. \A j \in 1 .. g : b.records[j].ts < t - w
  <2> SUFFICES ASSUME NEW j \in 1 .. g PROVE b.records[j].ts < t - w
    OBVIOUS
  <2>1. j \in 1 .. h \/ j \in h + 1 .. g
    BY <1>1
  <2> QED BY <1>2, <1>3, <2>1
<1> QED BY <1>0, <1>3, <1>15, <1>16, <1>17

(* A window counts exactly the records that are recent enough for it.      *)
Sharp(k, b, H, p, t, v, w) ==
  \E h \in 0 .. Len(b.records) :
    /\ v = AggOf(H, k[1], Part(p, h), h)
    /\ \A j \in 1 .. h : b.records[j].ts < t - w
    /\ \A j \in h + 1 .. Len(b.records) : b.records[j].ts >= t - w

(* k's events up to c are too old for every window.                        *)
Forgets(k, H, c, t) == \A i \in Touches(H, k) : i <= c => H[i].ts < t - MaxWidth

Windowed(b) == b.window = [w \in Widths |-> b.window[w]]

Told(k, b, H, t, lim) ==
  \E c \in 0 .. Len(H), p \in [1 .. Len(b.records) -> 1 .. Len(H)] :
    /\ Lists(k, b, H, c, p) /\ Windowed(b)
    /\ \A w \in Widths : Sums(k, b, H, p, t, b.window[w], w)
    /\ lim = 0 => Forgets(k, H, c, t)

ToldNow(k, b, H, t, lim) ==
  \E c \in 0 .. Len(H), p \in [1 .. Len(b.records) -> 1 .. Len(H)] :
    /\ Lists(k, b, H, c, p) /\ Windowed(b)
    /\ \A w \in Widths : Sharp(k, b, H, p, t, b.window[w], w)
    /\ lim = 0 => Forgets(k, H, c, t)

LEMMA ToldNowTold ==
  ASSUME NEW k, NEW b, NEW H, NEW t, NEW lim, ToldNow(k, b, H, t, lim)
  PROVE  Told(k, b, H, t, lim)
<1>1. PICK c \in 0 .. Len(H), p \in [1 .. Len(b.records) -> 1 .. Len(H)] :
        /\ Lists(k, b, H, c, p) /\ Windowed(b)
        /\ \A w \in Widths : Sharp(k, b, H, p, t, b.window[w], w)
        /\ lim = 0 => Forgets(k, H, c, t)
  BY DEF ToldNow
<1>2. \A w \in Widths : Sums(k, b, H, p, t, b.window[w], w)
  BY <1>1 DEF Sums, Sharp
<1> QED BY <1>1, <1>2 DEF Told

(* A part of the list, from the record after the first n.                  *)
Cut(b, x, n) ==
  /\ Shaped(x) /\ x.last = b.last
  /\ x.records = SubSeq(b.records, n + 1, Len(b.records))

Shifted(p, L, n, q) == q = [j \in 1 .. L - n |-> p[n + j]]

(* x has what b has after its first n records, and q is p after them.      *)
Shares(b, x, p, q, n) ==
  /\ Len(b.records) \in Nat /\ n \in 1 .. Len(b.records)
  /\ Len(x.records) = Len(b.records) - n
  /\ \A j \in 1 .. Len(x.records) : x.records[j] = b.records[n + j]
  /\ \A h \in n .. Len(b.records) : Part(q, h - n) = Part(p, h)

Skips(b, n) == n \in 1 .. Len(b.records)
At(p, n, d) == d = p[n]

LEMMA CutLists ==
  ASSUME NEW k, NEW b, NEW H, NEW c, NEW p, Lists(k, b, H, c, p), Sorted(H),
         NEW n, Skips(b, n), NEW x, Cut(b, x, n),
         NEW q, Shifted(p, Len(b.records), n, q), NEW e, At(p, n, e)
  PROVE  Lists(k, x, H, e, q) /\ Shares(b, x, p, q, n)
<1>0. PICK N, L : N = Len(H) /\ L = Len(b.records)
  OBVIOUS
<1>1. /\ N \in Nat /\ L \in Nat /\ p \in [1 .. L -> 1 .. N] /\ H \in Seq(Ingested)
      /\ (\A i, j \in 1 .. L : i < j => p[i] < p[j]) /\ n \in 1 .. L
      /\ b.records \in Seq(Rec) /\ b.last \in Int /\ c \in 0 .. N
      /\ (\A i : i \in Touches(H, k) /\ i > c <=> \E j \in 1 .. L : p[j] = i)
  BY <1>0 DEF Lists, Sorted, Skips
<1>2. /\ Len(x.records) = L - n /\ x.records \in Seq(Rec)
      /\ \A j \in 1 .. L - n : x.records[j] = b.records[n + j]
  <2> DEFINE r == b.records
  <2>1. r \in Seq(Rec) /\ L = Len(r) /\ x.records = SubSeq(r, n + 1, L)
    BY <1>0, <1>1 DEF Cut
  <2> HIDE DEF r
  <2>2. /\ Len(SubSeq(r, n + 1, L)) = L - n /\ SubSeq(r, n + 1, L) \in Seq(Rec)
        /\ \A j \in 1 .. L - n : SubSeq(r, n + 1, L)[j] = r[n + j]
    BY <1>1, <2>1
  <2> QED BY <2>1, <2>2 DEF r
<1>3. /\ q \in [1 .. L - n -> 1 .. N]
      /\ \A j \in 1 .. L - n : q[j] = p[n + j] /\ n + j \in 1 .. L /\ n < n + j
  <2>1. \A j \in 1 .. L - n : n + j \in 1 .. L /\ n < n + j
    BY <1>1
  <2> QED BY <1>0, <1>1, <2>1 DEF Shifted
<1>4. \A i, j \in 1 .. L - n : i < j => q[i] < q[j]
  <2> SUFFICES ASSUME NEW i \in 1 .. L - n, NEW j \in 1 .. L - n, i < j PROVE q[i] < q[j]
    OBVIOUS
  <2>1. n + i \in 1 .. L /\ n + j \in 1 .. L /\ n + i < n + j
    BY <1>1
  <2>2. p[n + i] < p[n + j]
    BY <1>1, <2>1
  <2> QED BY <1>3, <2>2
<1>5. p[n] \in 1 .. N /\ p[n] > c
  <2>1. p[n] \in Touches(H, k) /\ p[n] > c
    BY <1>1
  <2> QED BY <1>1, <2>1
<1>6. ASSUME NEW i PROVE i \in Touches(H, k) /\ i > p[n] <=> \E j \in 1 .. L - n : q[j] = i
  <2>1. ASSUME i \in Touches(H, k), i > p[n] PROVE \E j \in 1 .. L - n : q[j] = i
    <3>1. i \in 1 .. N
      BY <1>0, <2>1 DEF Touches
    <3>2. i > c
      BY <1>1, <1>5, <2>1, <3>1
    <3>3. PICK l \in 1 .. L : p[l] = i
      BY <1>1, <2>1, <3>2
    <3>4. n < l
      <4>1. CASE l = n
        BY <1>5, <2>1, <3>1, <3>3, <4>1
      <4>2. CASE l < n
        <5>1. p[l] < p[n]
          BY <1>1, <4>2
        <5> QED BY <1>5, <2>1, <3>1, <3>3, <5>1
      <4> QED BY <1>1, <4>1, <4>2
    <3> DEFINE j == l - n
    <3>5. j \in 1 .. L - n /\ n + j = l
      BY <1>1, <3>4
    <3> HIDE DEF j
    <3>6. q[j] = i
      BY <1>3, <3>3, <3>5
    <3> QED BY <3>5, <3>6
  <2>2. ASSUME NEW j \in 1 .. L - n, q[j] = i PROVE i \in Touches(H, k) /\ i > p[n]
    <3>1. n + j \in 1 .. L /\ n < n + j /\ p[n + j] = i
      BY <1>3, <2>2
    <3>2. i \in Touches(H, k)
      BY <1>1, <3>1
    <3>3. p[n] < p[n + j] /\ p[n + j] \in 1 .. N
      BY <1>1, <3>1
    <3> QED BY <1>5, <3>1, <3>2, <3>3
  <2> QED BY <2>1, <2>2
<1>7. ASSUME NEW j \in 1 .. L - n
      PROVE  x.records[j].ts = H[q[j]].ts /\ Recorded(x.records[j], k[1], H[q[j]].event)
  <2>1. n + j \in 1 .. L /\ q[j] = p[n + j] /\ x.records[j] = b.records[n + j]
    BY <1>2, <1>3
  <2>2. PICK l : l = n + j
    OBVIOUS
  <2>3. b.records[l].ts = H[p[l]].ts /\ Recorded(b.records[l], k[1], H[p[l]].event)
    BY <1>0, <2>1, <2>2 DEF Lists
  <2> QED BY <2>1, <2>2, <2>3
<1>8. ASSUME NEW j \in 2 .. L - n PROVE x.records[j].gap = H[q[j]].ts - H[q[j - 1]].ts
  <2> DEFINE l == n + j
             i == j - 1
             o == l - 1
  <2>1. j \in 1 .. L - n /\ i \in 1 .. L - n /\ l \in 2 .. L /\ n + i = o
    BY <1>1
  <2>2. q[j] = p[l] /\ x.records[j] = b.records[l]
    BY <1>2, <1>3, <2>1
  <2>3. q[i] = p[o]
    <3>1. q[i] = p[n + i]
      BY <1>3, <2>1
    <3> HIDE DEF i, o
    <3> QED BY <2>1, <3>1
  <2>4. b.records[l].gap = H[p[l]].ts - H[p[o]].ts
    BY <1>0, <2>1 DEF Lists
  <2> HIDE DEF l, o, i
  <2>5. x.records[j].gap = H[q[j]].ts - H[q[i]].ts
    BY <2>2, <2>3, <2>4
  <2> QED BY <2>5 DEF i
<1>9. L - n > 0 => x.last = H[q[L - n]].ts
  <2> SUFFICES ASSUME L - n > 0 PROVE x.last = H[q[L - n]].ts
    OBVIOUS
  <2>1. b.last = H[p[L]].ts
    BY <1>0, <1>1 DEF Lists
  <2> DEFINE l == L - n
  <2>2. l \in 1 .. L - n /\ n + l = L
    BY <1>1
  <2> HIDE DEF l
  <2>3. q[l] = p[L]
    BY <1>3, <2>2
  <2>4. x.last = H[q[l]].ts
    BY <2>1, <2>3 DEF Cut
  <2> QED BY <2>4 DEF l
<1>10. Lists(k, x, H, p[n], q)
  <2> DEFINE M == L - n
             d == p[n]
  <2>1. M = Len(x.records) /\ M \in Nat /\ d \in 0 .. N /\ Shaped(x) /\ x.last \in Int
    BY <1>1, <1>2, <1>5 DEF Cut
  <2>2. /\ q \in [1 .. M -> 1 .. N] /\ (\A i, j \in 1 .. M : i < j => q[i] < q[j])
        /\ (\A i : i \in Touches(H, k) /\ i > d <=> \E j \in 1 .. M : q[j] = i)
    BY <1>3, <1>4, <1>6
  <2>3. /\ \A j \in 1 .. M : x.records[j].ts = H[q[j]].ts /\ Recorded(x.records[j], k[1], H[q[j]].event)
        /\ \A j \in 2 .. M : x.records[j].gap = H[q[j]].ts - H[q[j - 1]].ts
        /\ M > 0 => x.last = H[q[M]].ts
    BY <1>7, <1>8, <1>9
  <2> HIDE DEF M, d
  <2>4. Lists(k, x, H, d, q)
    BY <1>0, <1>2, <2>1, <2>2, <2>3 DEF Lists
  <2> QED BY <2>4 DEF d
<1>11. ASSUME NEW h \in n .. L PROVE Part(q, h - n) = Part(p, h)
  <2>1. Rising(p, L, N) /\ Rising(q, L - n, N)
    BY <1>1, <1>3, <1>4 DEF Rising
  <2>2. h \in 0 .. L /\ h - n \in 0 .. L - n
    BY <1>1
  <2>3. \A i : i \in Part(p, h) <=> \E j \in h + 1 .. L : p[j] = i
    BY <2>1, <2>2, PartFacts
  <2>4. \A i : i \in Part(q, h - n) <=> \E j \in h - n + 1 .. L - n : q[j] = i
    <3> DEFINE M == L - n
               g == h - n
    <3>1. Rising(q, M, N) /\ g \in 0 .. M
      BY <2>1, <2>2
    <3> HIDE DEF M, g
    <3>2. \A i : i \in Part(q, g) <=> \E j \in g + 1 .. M : q[j] = i
      BY <3>1, PartFacts
    <3> QED BY <3>2 DEF M, g
  <2>5. ASSUME NEW i \in Part(p, h) PROVE i \in Part(q, h - n)
    <3>1. PICK j \in h + 1 .. L : p[j] = i
      BY <2>3
    <3> DEFINE l == j - n
    <3>2. l \in h - n + 1 .. L - n /\ l \in 1 .. L - n /\ n + l = j
      BY <1>1
    <3> HIDE DEF l
    <3>3. q[l] = i
      BY <1>3, <3>1, <3>2
    <3> QED BY <2>4, <3>2, <3>3
  <2>6. ASSUME NEW i \in Part(q, h - n) PROVE i \in Part(p, h)
    <3>1. PICK j \in h - n + 1 .. L - n : q[j] = i
      BY <2>4
    <3> DEFINE l == n + j
    <3>2. l \in h + 1 .. L /\ j \in 1 .. L - n
      BY <1>1
    <3>3. p[l] = i
      BY <1>3, <3>1, <3>2
    <3> HIDE DEF l
    <3> QED BY <2>3, <3>2, <3>3
  <2> QED BY <2>5, <2>6
<1>12. Lists(k, x, H, e, q)
  BY <1>10 DEF At
<1>13. Shares(b, x, p, q, n)
  BY <1>0, <1>1, <1>2, <1>11 DEF Shares
<1> QED BY <1>12, <1>13

LEMMA TellsWidths == \A w \in Widths : w \in Nat
  BY FeaturesAssumption

(* x is b with its windows slid.                                           *)
Slides(b, x, t) ==
  /\ Shaped(x) /\ x.records = b.records /\ x.last = b.last
  /\ x.window = [w \in Widths |-> Slid(b, w, t)]

(* v is what b has of the window w.                                        *)
Holds(b, w, v) == v = b.window[w]

LEMMA SlidSharp ==
  ASSUME NEW k, NEW b, NEW H, NEW c, NEW p, Lists(k, b, H, c, p), Sorted(H),
         NEW t \in Int, NEW w \in Nat, NEW v, Holds(b, w, v), Sums(k, b, H, p, t, v, w)
  PROVE  Sharp(k, b, H, p, t, Slid(b, w, t), w)
<1>1. v = b.window[w]
  BY DEF Holds
<1>2. \E g \in 0 .. Len(b.records) :
         /\ Slid(b, w, t) = AggOf(H, k[1], Part(p, g), g)
         /\ \A j \in 1 .. g : b.records[j].ts < t - w
         /\ \A j \in g + 1 .. Len(b.records) : b.records[j].ts >= t - w
  BY <1>1, SlidIs
<1> QED BY <1>2 DEF Sharp

LEMMA SlidTold ==
  ASSUME NEW k, NEW b, NEW H, NEW t \in Int, NEW lim, Told(k, b, H, t, lim), Sorted(H),
         NEW x, Slides(b, x, t)
  PROVE  ToldNow(k, x, H, t, lim)
<1>1. PICK c \in 0 .. Len(H), p \in [1 .. Len(b.records) -> 1 .. Len(H)] :
        /\ Lists(k, b, H, c, p)
        /\ \A w \in Widths : Sums(k, b, H, p, t, b.window[w], w)
        /\ lim = 0 => Forgets(k, H, c, t)
  BY DEF Told
<1>2. Shaped(x) /\ x.records = b.records /\ x.last = b.last
  BY DEF Slides
<1>3. Lists(k, x, H, c, p)
  BY <1>1, <1>2 DEF Lists
<1>4. Windowed(x) /\ \A w \in Widths : x.window[w] = Slid(b, w, t)
  BY DEF Slides, Windowed
<1>5. ASSUME NEW w \in Widths PROVE Sharp(k, x, H, p, t, x.window[w], w)
  <2>1. PICK v : Holds(b, w, v)
    BY DEF Holds
  <2>2. w \in Nat /\ Sums(k, b, H, p, t, v, w) /\ Lists(k, b, H, c, p)
    BY <1>1, <2>1, TellsWidths DEF Holds
  <2>3. Sharp(k, b, H, p, t, Slid(b, w, t), w)
    BY <2>1, <2>2, SlidSharp
  <2>4. Sharp(k, b, H, p, t, x.window[w], w)
    BY <1>4, <2>3
  <2> QED BY <1>2, <2>4 DEF Sharp
<1>6. p \in [1 .. Len(x.records) -> 1 .. Len(H)]
  BY <1>1, <1>2
<1> QED BY <1>1, <1>3, <1>4, <1>5, <1>6 DEF ToldNow

(* x is b without its first n records.                                     *)
Shrinks(b, x, n) ==
  /\ Cut(b, x, n)
  /\ x.window = [w \in Widths |-> [b.window[w] EXCEPT !.head = @ - n]]

(* The window u is v, its head moved n records back.                       *)
Rebased(v, u, n) == v.head \in Int /\ v.head >= n /\ u = [v EXCEPT !.head = @ - n]

LEMMA ShrunkSharp ==
  ASSUME NEW k, NEW b, NEW H, NEW t \in Int, NEW p, NEW q, NEW n, NEW x, Shares(b, x, p, q, n),
         NEW w, NEW v, Sharp(k, b, H, p, t, v, w), NEW u, Rebased(v, u, n)
  PROVE  Sharp(k, x, H, q, t, u, w)
<1>a. /\ Len(b.records) \in Nat /\ n \in 1 .. Len(b.records)
      /\ Len(x.records) = Len(b.records) - n
      /\ \A j \in 1 .. Len(x.records) : x.records[j] = b.records[n + j]
      /\ \A h \in n .. Len(b.records) : Part(q, h - n) = Part(p, h)
  BY DEF Shares
<1>b. v.head \in Int /\ v.head >= n /\ u = [v EXCEPT !.head = @ - n]
  BY DEF Rebased
<1>0. PICK L : L = Len(b.records)
  OBVIOUS
<1>1. PICK h \in 0 .. L : /\ v = AggOf(H, k[1], Part(p, h), h)
                          /\ \A j \in 1 .. h : b.records[j].ts < t - w
                          /\ \A j \in h + 1 .. L : b.records[j].ts >= t - w
  BY <1>0 DEF Sharp
<1>2. v.head = h
  BY <1>1, Headed
<1>3. L \in Nat /\ n \in 1 .. L /\ h \in n .. L /\ Len(x.records) = L - n
  BY <1>a, <1>b, <1>0, <1>1, <1>2
<1> DEFINE g == h - n
<1>4. g \in 0 .. L - n /\ g = h - n
  BY <1>3
<1>5. Part(q, g) = Part(p, h)
  BY <1>a, <1>0, <1>3
<1> HIDE DEF g
<1>6. u = AggOf(H, k[1], Part(q, g), g)
  <2>1. u = [v EXCEPT !.head = g]
    BY <1>b, <1>2, <1>4
  <2> DEFINE S == Part(p, h)
             kind == k[1]
  <2> HIDE DEF S, kind
  <2>2. [AggOf(H, kind, S, h) EXCEPT !.head = g] = AggOf(H, kind, S, g)
    BY Headed
  <2>3. u = [AggOf(H, kind, S, h) EXCEPT !.head = g]
    BY <1>1, <2>1 DEF S, kind
  <2> QED BY <1>5, <2>2, <2>3 DEF S, kind
<1>7. ASSUME NEW j \in 1 .. g PROVE x.records[j].ts < t - w
  <2> DEFINE l == n + j
  <2>1. j \in 1 .. Len(x.records) /\ l \in 1 .. h
    BY <1>3, <1>4
  <2>2. x.records[j] = b.records[l]
    BY <1>a, <2>1
  <2> HIDE DEF l
  <2> QED BY <1>1, <2>1, <2>2
<1>8. ASSUME NEW j \in g + 1 .. Len(x.records) PROVE x.records[j].ts >= t - w
  <2> DEFINE l == n + j
  <2>1. j \in 1 .. Len(x.records) /\ l \in h + 1 .. L
    BY <1>3, <1>4
  <2>2. x.records[j] = b.records[l]
    BY <1>a, <2>1
  <2> HIDE DEF l
  <2> QED BY <1>1, <2>1, <2>2
<1> QED BY <1>3, <1>4, <1>6, <1>7, <1>8 DEF Sharp

LEMMA ShrunkTold ==
  ASSUME NEW k, NEW b, NEW H, NEW t \in Int, NEW lim, ToldNow(k, b, H, t, lim), Sorted(H),
         NEW n \in 1 .. Len(b.records), NEW x, Shrinks(b, x, n),
         \A w \in Widths : b.window[w].head >= n
  PROVE  ToldNow(k, x, H, t, lim)
<1>1. PICK c \in 0 .. Len(H), p \in [1 .. Len(b.records) -> 1 .. Len(H)] :
        /\ Lists(k, b, H, c, p)
        /\ \A w \in Widths : Sharp(k, b, H, p, t, b.window[w], w)
        /\ lim = 0 => Forgets(k, H, c, t)
  BY DEF ToldNow
<1>2. PICK N, L : N = Len(H) /\ L = Len(b.records)
  OBVIOUS
<1>3. N \in Nat /\ L \in Nat /\ H \in Seq(Ingested) /\ c \in 0 .. N
  BY <1>1, <1>2 DEF Lists, Sorted
<1>4. PICK q : Shifted(p, L, n, q)
  BY DEF Shifted
<1>5. PICK d : At(p, n, d)
  BY DEF At
<1>13. Lists(k, x, H, d, q) /\ Shares(b, x, p, q, n)
  <2>1. Cut(b, x, n) /\ Shifted(p, Len(b.records), n, q) /\ Lists(k, b, H, c, p) /\ Skips(b, n)
    BY <1>1, <1>2, <1>4 DEF Shrinks, Skips
  <2> QED BY <2>1, <1>5, CutLists
<1>6. Windowed(x) /\ \A w \in Widths : x.window[w] = [b.window[w] EXCEPT !.head = @ - n]
  BY DEF Shrinks, Windowed
<1>7. ASSUME NEW w \in Widths PROVE Sharp(k, x, H, q, t, x.window[w], w)
  <2>1. PICK v, u : v = b.window[w] /\ u = x.window[w]
    OBVIOUS
  <2>2. Sharp(k, b, H, p, t, v, w) /\ u = [v EXCEPT !.head = @ - n] /\ v.head >= n
    BY <1>1, <1>6, <2>1
  <2>3. v.head \in Int
    <3>1. PICK h \in 0 .. L : v = AggOf(H, k[1], Part(p, h), h)
      BY <1>2, <2>2 DEF Sharp
    <3>2. v.head = h
      BY <3>1, Headed
    <3> QED BY <1>3, <3>2
  <2>5. Shares(b, x, p, q, n) /\ Rebased(v, u, n)
    BY <1>13, <2>2, <2>3 DEF Rebased
  <2>4. Sharp(k, x, H, q, t, u, w)
    BY <2>2, <2>5, ShrunkSharp
  <2> QED BY <2>1, <2>4
<1>8. d = p[n] /\ d \in 1 .. N
  BY <1>1, <1>2, <1>5 DEF At
<1>9. q \in [1 .. Len(x.records) -> 1 .. Len(H)]
  BY <1>13 DEF Lists
<1>10. ASSUME lim = 0 PROVE Forgets(k, H, d, t)
  <2> SUFFICES ASSUME NEW i \in Touches(H, k), i <= d PROVE H[i].ts < t - MaxWidth
    BY DEF Forgets
  <2>1. i \in 1 .. N
    BY <1>2 DEF Touches
  <2>2. CASE i <= c
    BY <1>1, <1>10, <2>2 DEF Forgets
  <2>3. CASE ~ (i <= c)
    <3>1. i > c
      BY <1>3, <2>1, <2>3
    <3>2. PICK l \in 1 .. L : p[l] = i
      BY <1>1, <1>2, <3>1 DEF Lists
    <3>3. l <= n
      <4> SUFFICES ASSUME n < l PROVE FALSE
        BY <1>2, <1>3
      <4>1. d < p[l]
        BY <1>1, <1>2, <1>8 DEF Lists
      <4> QED BY <1>8, <2>1, <3>2, <4>1
    <3> DEFINE w == MaxWidth
    <3>4. w \in Widths
      BY Longest
    <3>5. PICK v : v = b.window[w]
      OBVIOUS
    <3>6. PICK h \in 0 .. L : /\ v = AggOf(H, k[1], Part(p, h), h)
                              /\ \A j \in 1 .. h : b.records[j].ts < t - w
      BY <1>1, <1>2, <3>4, <3>5 DEF Sharp
    <3>7. v.head = h
      BY <3>6, Headed
    <3>8. h >= n
      BY <3>4, <3>5, <3>7
    <3>9. l \in 1 .. h
      BY <1>2, <1>3, <3>3, <3>8
    <3>10. b.records[l].ts < t - w
      BY <3>6, <3>9
    <3>11. b.records[l].ts = H[i].ts
      BY <1>1, <1>2, <3>2 DEF Lists
    <3> QED BY <3>10, <3>11
  <2> QED BY <2>2, <2>3
<1>11. d \in 0 .. Len(H)
  BY <1>2, <1>8
<1>12. Lists(k, x, H, d, q) /\ (lim = 0 => Forgets(k, H, d, t))
  BY <1>13, <1>10
<1> QED BY <1>6, <1>7, <1>9, <1>11, <1>12 DEF ToldNow

LEMMA CompactedTold ==
  ASSUME NEW k, NEW b, NEW H, NEW t \in Int, NEW lim, ToldNow(k, b, H, t, lim), Sorted(H)
  PROVE  ToldNow(k, Compacted(b), H, t, lim)
<1>1. PICK c \in 0 .. Len(H), p \in [1 .. Len(b.records) -> 1 .. Len(H)] :
        /\ Lists(k, b, H, c, p)
        /\ \A w \in Widths : Sharp(k, b, H, p, t, b.window[w], w)
  BY DEF ToldNow
<1>2. PICK L : L = Len(b.records)
  OBVIOUS
<1>3. L \in Nat
  BY <1>1, <1>2 DEF Lists
<1>4. \A w \in Widths : b.window[w].head \in 0 .. L
  <2> SUFFICES ASSUME NEW w \in Widths PROVE b.window[w].head \in 0 .. L
    OBVIOUS
  <2>1. PICK h \in 0 .. L : b.window[w] = AggOf(H, k[1], Part(p, h), h)
    BY <1>1, <1>2 DEF Sharp
  <2>2. b.window[w].head = h
    BY <2>1, Headed
  <2> QED BY <2>2
<1> DEFINE heads == {b.window[w].head : w \in Widths}
           least == CHOOSE h \in heads : \A w \in Widths : h <= b.window[w].head
<1>5. least \in heads /\ \A w \in Widths : least <= b.window[w].head
  <2>1. heads \subseteq Nat
    BY <1>3, <1>4
  <2>2. heads # {}
    <3>1. PICK w \in Widths : TRUE
      BY FeaturesAssumption
    <3>2. b.window[w].head \in heads
      OBVIOUS
    <3> QED BY <3>2
  <2>3. \E h \in heads : \A g \in heads : h <= g
    <3> HIDE DEF heads
    <3> QED BY <2>1, <2>2, LeastNumber
  <2>4. \E h \in heads : \A w \in Widths : h <= b.window[w].head
    BY <2>3
  <2> QED BY <2>4
<1>6. least \in 0 .. L
  BY <1>4, <1>5
<1>11. Shaped(b)
  BY <1>1 DEF Lists
<1> DEFINE r == SubSeq(b.records, least + 1, Len(b.records))
           v == [w \in Widths |-> [b.window[w] EXCEPT !.head = @ - least]]
           y == [b EXCEPT !.records = r]
           x == [y EXCEPT !.window = v]
<1>7. Compacted(b) = IF least = 0 \/ 2 * least < Len(b.records) THEN b ELSE x
  BY DEF Compacted
<1> HIDE DEF least
<1>8. CASE least = 0 \/ 2 * least < Len(b.records)
  BY <1>7, <1>8
<1>9. CASE ~ (least = 0 \/ 2 * least < Len(b.records))
  <2>0. Compacted(b) = x
    <3> HIDE DEF x
    <3> QED BY <1>7, <1>9
  <2>2. Shaped(b)
    BY <1>1 DEF Lists
  <2> HIDE DEF r, v
  <2>3. x = [records |-> r, last |-> b.last, window |-> v]
    <3>1. y = [records |-> r, last |-> b.last, window |-> b.window]
      BY <1>11 DEF Shaped
    <3> HIDE DEF y
    <3> QED BY <3>1
  <2> HIDE DEF x
  <2>4. Shaped(x) /\ x.records = r /\ x.last = b.last /\ x.window = v
    BY <2>3 DEF Shaped
  <2>5. Shrinks(b, x, least)
    BY <2>4 DEF Shrinks, Cut, r, v
  <2>6. least \in 1 .. Len(b.records) /\ \A w \in Widths : b.window[w].head >= least
    BY <1>2, <1>3, <1>4, <1>5, <1>6, <1>9
  <2>7. ToldNow(k, x, H, t, lim)
    BY <2>5, <2>6, ShrunkTold
  <2> QED BY <2>0, <2>7
<1> QED BY <1>8, <1>9

(* A buffer that is read now tells what its windows reach back to.         *)
LEMMA AdvancedTold ==
  ASSUME NEW k, NEW b, NEW H, NEW t \in Int, NEW lim, Told(k, b, H, t, lim), Sorted(H)
  PROVE  ToldNow(k, Advanced(b, t), H, t, lim)
<1> DEFINE W == [w \in Widths |-> Slid(b, w, t)]
           x == [b EXCEPT !.window = W]
<1>1. Advanced(b, t) = Compacted(x)
  BY DEF Advanced
<1>2. Shaped(b)
  BY DEF Told, Lists
<1>3. W = [w \in Widths |-> Slid(b, w, t)]
  OBVIOUS
<1> HIDE DEF W
<1>4. x = [records |-> b.records, last |-> b.last, window |-> W]
  BY <1>2 DEF Shaped
<1> HIDE DEF x
<1>5. Slides(b, x, t)
  BY <1>3, <1>4 DEF Slides, Shaped
<1>6. ToldNow(k, x, H, t, lim)
  BY <1>5, SlidTold
<1>7. ToldNow(k, Compacted(x), H, t, lim)
  BY <1>6, CompactedTold
<1> QED BY <1>1, <1>7

-----------------------------------------------------------------------------
(* A buffer that takes the newest event of its entity.                     *)

Extended(p, L, m, p2) == p2 = [j \in 1 .. L + 1 |-> IF j = L + 1 THEN m ELSE p[j]]

(* x is b with the record s of the event r.                                *)
Newest(k, b, x, s, r) ==
  /\ Shaped(x) /\ x.records = Append(b.records, s) /\ x.last = r.ts
  /\ s \in Rec /\ s.ts = r.ts /\ Recorded(s, k[1], r.event)
  /\ Len(b.records) > 0 => s.gap = r.ts - b.last

(* The records of x begin with those of b.                                 *)
Continues(b, x) ==
  /\ Len(x.records) = Len(b.records) + 1
  /\ \A j \in 1 .. Len(b.records) : x.records[j] = b.records[j]

LEMMA AppendedLists ==
  ASSUME NEW k, NEW b, NEW H, NEW c, NEW p, Lists(k, b, H, c, p),
         NEW r, NEW q, OneMore(H, r, q), k \in KeysOf(r.event),
         NEW x, NEW s, Newest(k, b, x, s, r), NEW p2, Extended(p, Len(b.records), Len(H) + 1, p2)
  PROVE  Lists(k, x, q, c, p2) /\ Continues(b, x)
<1>0. PICK N, L : N = Len(H) /\ L = Len(b.records)
  OBVIOUS
<1>1. /\ N \in Nat /\ L \in Nat /\ p \in [1 .. L -> 1 .. N]
      /\ (\A i, j \in 1 .. L : i < j => p[i] < p[j])
      /\ b.records \in Seq(Rec) /\ b.last \in Int /\ c \in 0 .. N
      /\ (\A i : i \in Touches(H, k) /\ i > c <=> \E j \in 1 .. L : p[j] = i)
      /\ L > 0 => b.last = H[p[L]].ts
  BY <1>0, OneMoreFacts DEF Lists
<1>2. /\ Len(q) = N + 1 /\ q[N + 1] = r /\ (\A i \in 1 .. N : q[i] = H[i]) /\ r.ts \in Nat
      /\ \A i : i \in Touches(q, k) <=> i \in Touches(H, k) \/ i = N + 1
  <2>1. Len(q) = N + 1 /\ q[N + 1] = r /\ (\A i \in 1 .. N : q[i] = H[i]) /\ r.ts \in Nat
    BY <1>0 DEF OneMore, Ingested
  <2>2. \A i : i \in Touches(q, k) <=> i \in Touches(H, k) \/ i = N + 1
    <3>1. \A i : i \in Touches(q, k) <=> i \in Touches(H, k) \/ (i = Len(H) + 1 /\ k \in KeysOf(r.event))
      BY OneMoreFacts
    <3> QED BY <1>0, <3>1
  <2> QED BY <2>1, <2>2
<1>3. /\ p2 \in [1 .. L + 1 -> 1 .. N + 1] /\ p2[L + 1] = N + 1
      /\ \A j \in 1 .. L : p2[j] = p[j]
  <2> DEFINE m == N + 1
  <2>1. m \in 1 .. m /\ (\A i \in 1 .. N : i \in 1 .. m) /\ L + 1 \in 1 .. L + 1
        /\ (\A j \in 1 .. L + 1 : j # L + 1 => j \in 1 .. L) /\ (\A j \in 1 .. L : j \in 1 .. L + 1 /\ j # L + 1)
    BY <1>1
  <2>2. p2 = [j \in 1 .. L + 1 |-> IF j = L + 1 THEN m ELSE p[j]]
    BY <1>0 DEF Extended
  <2> HIDE DEF m
  <2>3. \A j \in 1 .. L + 1 : (IF j = L + 1 THEN m ELSE p[j]) \in 1 .. m
    BY <1>1, <2>1
  <2>4. p2 \in [1 .. L + 1 -> 1 .. m] /\ p2[L + 1] = m /\ \A j \in 1 .. L : p2[j] = p[j]
    BY <2>1, <2>2, <2>3
  <2> QED BY <2>4 DEF m
<1>4. /\ Len(x.records) = L + 1 /\ x.records[L + 1] = s /\ x.records \in Seq(Rec)
      /\ \A j \in 1 .. L : x.records[j] = b.records[j]
  <2> DEFINE R == b.records
  <2>1. R \in Seq(Rec) /\ Len(R) = L /\ s \in Rec /\ x.records = Append(R, s)
    BY <1>0, <1>1 DEF Newest
  <2> HIDE DEF R
  <2>2. /\ Len(Append(R, s)) = L + 1 /\ Append(R, s)[L + 1] = s /\ Append(R, s) \in Seq(Rec)
        /\ \A j \in 1 .. L : Append(R, s)[j] = R[j]
    BY <1>1, <2>1
  <2> QED BY <2>1, <2>2 DEF R
<1>5. \A i, j \in 1 .. L + 1 : i < j => p2[i] < p2[j]
  <2> SUFFICES ASSUME NEW i \in 1 .. L + 1, NEW j \in 1 .. L + 1, i < j PROVE p2[i] < p2[j]
    OBVIOUS
  <2>1. i \in 1 .. L
    BY <1>1
  <2>2. p2[i] = p[i] /\ p[i] \in 1 .. N
    BY <1>1, <1>3, <2>1
  <2>3. CASE j = L + 1
    <3>1. p2[j] = N + 1
      BY <1>3, <2>3
    <3> QED BY <1>1, <2>2, <3>1
  <2>4. CASE j # L + 1
    <3>1. j \in 1 .. L
      BY <1>1, <2>4
    <3>2. p2[j] = p[j] /\ p[i] < p[j]
      BY <1>1, <1>3, <2>1, <3>1
    <3> QED BY <2>2, <3>2
  <2> QED BY <2>3, <2>4
<1>6. ASSUME NEW i PROVE i \in Touches(q, k) /\ i > c <=> \E j \in 1 .. L + 1 : p2[j] = i
  <2>1. CASE i = N + 1
    <3>1. i \in Touches(q, k) /\ i > c
      BY <1>1, <1>2, <2>1
    <3>2. L + 1 \in 1 .. L + 1 /\ p2[L + 1] = i
      BY <1>1, <1>3, <2>1
    <3> QED BY <3>1, <3>2
  <2>2. CASE i # N + 1
    <3>1. i \in Touches(q, k) /\ i > c <=> \E j \in 1 .. L : p[j] = i
      BY <1>1, <1>2, <2>2
    <3>2. \A j \in 1 .. L : j \in 1 .. L + 1 /\ p2[j] = p[j]
      BY <1>1, <1>3
    <3>3. \A j \in 1 .. L + 1 : p2[j] = i => j \in 1 .. L
      BY <1>1, <1>3, <2>2
    <3> QED BY <3>1, <3>2, <3>3
  <2> QED BY <2>1, <2>2
<1>7. ASSUME NEW j \in 1 .. L + 1
      PROVE  x.records[j].ts = q[p2[j]].ts /\ Recorded(x.records[j], k[1], q[p2[j]].event)
  <2>1. CASE j = L + 1
    <3>1. x.records[j] = s /\ q[p2[j]] = r
      BY <1>2, <1>3, <1>4, <2>1
    <3> QED BY <3>1 DEF Newest
  <2>2. CASE j # L + 1
    <3>1. j \in 1 .. L
      BY <1>1, <2>2
    <3>2. p2[j] = p[j] /\ p[j] \in 1 .. N /\ x.records[j] = b.records[j]
      BY <1>1, <1>3, <1>4, <3>1
    <3>3. q[p2[j]] = H[p[j]]
      BY <1>2, <3>2
    <3>4. b.records[j].ts = H[p[j]].ts /\ Recorded(b.records[j], k[1], H[p[j]].event)
      BY <1>0, <3>1 DEF Lists
    <3> QED BY <3>2, <3>3, <3>4
  <2> QED BY <2>1, <2>2
<1>8. ASSUME NEW j \in 2 .. L + 1 PROVE x.records[j].gap = q[p2[j]].ts - q[p2[j - 1]].ts
  <2> DEFINE i == j - 1
  <2>1. i \in 1 .. L /\ (j = L + 1 => i = L /\ L > 0) /\ (j # L + 1 => j \in 2 .. L /\ j \in 1 .. L)
    BY <1>1
  <2>2. q[p2[i]] = H[p[i]]
    <3> HIDE DEF i
    <3>1. p2[i] = p[i] /\ p[i] \in 1 .. N
      BY <1>1, <1>3, <2>1
    <3> QED BY <1>2, <3>1
  <2>3. CASE j = L + 1
    <3>1. x.records[j] = s /\ q[p2[j]] = r
      BY <1>2, <1>3, <1>4, <2>3
    <3>2. s.gap = r.ts - b.last
      BY <1>0, <2>1, <2>3 DEF Newest
    <3>3. b.last = H[p[i]].ts
      <4>1. i = L /\ L > 0
        BY <2>1, <2>3
      <4> HIDE DEF i
      <4> QED BY <1>1, <4>1
    <3> HIDE DEF i
    <3>4. x.records[j].gap = q[p2[j]].ts - q[p2[i]].ts
      BY <2>2, <3>1, <3>2, <3>3
    <3> QED BY <3>4 DEF i
  <2>4. CASE j # L + 1
    <3>1. x.records[j] = b.records[j] /\ p2[j] = p[j] /\ p[j] \in 1 .. N
      BY <1>1, <1>3, <1>4, <2>1, <2>4
    <3>2. b.records[j].gap = H[p[j]].ts - H[p[i]].ts
      BY <1>0, <2>1, <2>4 DEF Lists
    <3>3. q[p2[j]] = H[p[j]]
      BY <1>2, <3>1
    <3> HIDE DEF i
    <3>4. x.records[j].gap = q[p2[j]].ts - q[p2[i]].ts
      BY <2>2, <3>1, <3>2, <3>3
    <3> QED BY <3>4 DEF i
  <2> QED BY <2>3, <2>4
<1>9. x.last = q[p2[L + 1]].ts /\ x.last \in Int /\ Shaped(x)
  BY <1>2, <1>3 DEF Newest
<1>10. Lists(k, x, q, c, p2)
  <2> DEFINE M == L + 1
             n == N + 1
  <2>1. M = Len(x.records) /\ M \in Nat /\ c \in 0 .. n /\ n = Len(q)
    BY <1>1, <1>2, <1>4
  <2>2. /\ p2 \in [1 .. M -> 1 .. n] /\ (\A i, j \in 1 .. M : i < j => p2[i] < p2[j])
        /\ (\A i : i \in Touches(q, k) /\ i > c <=> \E j \in 1 .. M : p2[j] = i)
    BY <1>3, <1>5, <1>6
  <2>3. /\ \A j \in 1 .. M : x.records[j].ts = q[p2[j]].ts /\ Recorded(x.records[j], k[1], q[p2[j]].event)
        /\ \A j \in 2 .. M : x.records[j].gap = q[p2[j]].ts - q[p2[j - 1]].ts
        /\ M > 0 => x.last = q[p2[M]].ts
    BY <1>7, <1>8, <1>9
  <2> HIDE DEF M, n
  <2> QED BY <1>4, <1>9, <2>1, <2>2, <2>3 DEF Lists
<1> QED BY <1>0, <1>4, <1>10 DEF Continues

TakesIn(b, s, v, u) == u = Added(v, s, v.head < Len(b.records))

(* Each window takes it in.                                                *)
LEMMA AppendedSums ==
  ASSUME NEW k, NEW b, NEW H, NEW c, NEW p, Lists(k, b, H, c, p), Sorted(H),
         NEW r, NEW q, OneMore(H, r, q), Sorted(q),
         NEW x, NEW s, Newest(k, b, x, s, r), NEW p2, Extended(p, Len(b.records), Len(H) + 1, p2),
         Continues(b, x), NEW t, NEW w, NEW v, Sums(k, b, H, p, t, v, w), NEW u, TakesIn(b, s, v, u)
  PROVE  Sums(k, x, q, p2, t, u, w)
<1>0. PICK N, L : N = Len(H) /\ L = Len(b.records)
  OBVIOUS
<1>1. /\ N \in Nat /\ L \in Nat /\ p \in [1 .. L -> 1 .. N]
      /\ (\A i, j \in 1 .. L : i < j => p[i] < p[j])
      /\ L > 0 => b.last = H[p[L]].ts
  BY <1>0, OneMoreFacts DEF Lists
<1>2. PICK h \in 0 .. L : v = AggOf(H, k[1], Part(p, h), h) /\ \A j \in 1 .. h : b.records[j].ts < t - w
  BY <1>0 DEF Sums
<1>3. v.head = h /\ h \in Nat
  <2>1. v.head = h
    BY <1>2, Headed
  <2> QED BY <1>1, <2>1
<1>4. Rising(p, L, N) /\ Rising(p2, L + 1, N + 1)
  <2>1. Rising(p, L, N)
    BY <1>1 DEF Rising
  <2>2. /\ p2 \in [1 .. L + 1 -> 1 .. N + 1]
        /\ \A i, j \in 1 .. L + 1 : i < j => p2[i] < p2[j]
    <3> DEFINE m == N + 1
    <3>1. m \in 1 .. m /\ (\A i \in 1 .. N : i \in 1 .. m /\ i < m)
          /\ (\A j \in 1 .. L + 1 : j # L + 1 => j \in 1 .. L)
      BY <1>1
    <3>2. p2 = [j \in 1 .. L + 1 |-> IF j = L + 1 THEN m ELSE p[j]]
      BY <1>0 DEF Extended
    <3> HIDE DEF m
    <3>3. \A j \in 1 .. L + 1 : (IF j = L + 1 THEN m ELSE p[j]) \in 1 .. m
      BY <1>1, <3>1
    <3>4. p2 \in [1 .. L + 1 -> 1 .. m] /\ \A j \in 1 .. L + 1 : p2[j] = IF j = L + 1 THEN m ELSE p[j]
      BY <3>2, <3>3
    <3>5. ASSUME NEW i \in 1 .. L + 1, NEW j \in 1 .. L + 1, i < j PROVE p2[i] < p2[j]
      <4>1. i \in 1 .. L
        BY <1>1, <3>5
      <4>2. p2[i] = p[i] /\ p[i] \in 1 .. N
        BY <1>1, <3>4, <4>1
      <4>3. CASE j = L + 1
        BY <3>1, <3>4, <4>2, <4>3
      <4>4. CASE j # L + 1
        <5>1. j \in 1 .. L /\ p2[j] = p[j]
          BY <3>1, <3>4, <4>4
        <5> QED BY <1>1, <3>5, <4>1, <4>2, <5>1
      <4> QED BY <4>3, <4>4
    <3> QED BY <3>4, <3>5 DEF m
  <2>3. N + 1 \in Nat /\ L + 1 \in Nat
    BY <1>1
  <2> QED BY <2>1, <2>2, <2>3 DEF Rising
<1>5. Takes(H, Part(p, h), Part(p2, h))
  <2>1. Part(p, h) \subseteq 1 .. N /\ \A i : i \in Part(p, h) <=> \E j \in h + 1 .. L : p[j] = i
    BY <1>4, PartFacts
  <2>2. \A i : i \in Part(p2, h) <=> \E j \in h + 1 .. L + 1 : p2[j] = i
    <3>1. h \in 0 .. L + 1
      BY <1>1
    <3> DEFINE M == L + 1
    <3> HIDE DEF M
    <3>2. \A i : i \in Part(p2, h) <=> \E j \in h + 1 .. M : p2[j] = i
      BY <1>4, <3>1, PartFacts DEF M
    <3> QED BY <3>2 DEF M
  <2>3. p2[L + 1] = N + 1 /\ \A j \in h + 1 .. L : p2[j] = p[j]
    <3>1. p2 = [j \in 1 .. L + 1 |-> IF j = L + 1 THEN N + 1 ELSE p[j]]
      BY <1>0 DEF Extended
    <3>2. L + 1 \in 1 .. L + 1 /\ \A j \in h + 1 .. L : j \in 1 .. L + 1 /\ j # L + 1
      BY <1>1
    <3> QED BY <3>1, <3>2
  <2>4. L + 1 \in h + 1 .. L + 1 /\ \A j : j \in h + 1 .. L + 1 <=> j \in h + 1 .. L \/ j = L + 1
    BY <1>1
  <2>5. Part(p2, h) = Part(p, h) \cup {N + 1}
    BY <2>1, <2>2, <2>3, <2>4
  <2> QED BY <1>0, <2>1, <2>5 DEF Takes
<1>6. Recorded(s, k[1], r.event)
  BY DEF Newest
<1>7. h < L <=> Part(p, h) # {}
  <2>1. Part(p, h) = {} <=> h = L
    BY <1>4, PartFacts
  <2> QED BY <1>1, <2>1
<1>8. Part(p, h) # {} => s.gap = r.ts - H[Top(Part(p, h))].ts /\ r.ts - H[Top(Part(p, h))].ts >= 0
  <2> SUFFICES ASSUME h < L
               PROVE  s.gap = r.ts - H[Top(Part(p, h))].ts /\ r.ts - H[Top(Part(p, h))].ts >= 0
    BY <1>7
  <2>1. Top(Part(p, h)) = p[L]
    BY <1>4, PartFacts
  <2>2. L > 0 /\ L \in 1 .. L /\ L \in Nat
    BY <1>1
  <2>3. s.gap = r.ts - b.last
    BY <1>0, <2>2 DEF Newest
  <2>4. b.last = H[p[L]].ts /\ p[L] \in 1 .. N
    BY <1>1, <2>2
  <2>5. PICK i : i = p[L]
    OBVIOUS
  <2>6. i \in 1 .. N
    BY <2>4, <2>5
  <2>7. H[i].ts <= r.ts /\ H[i].ts \in Nat /\ r.ts \in Nat
    <3>1. i \in 1 .. Len(q) /\ N + 1 \in 1 .. Len(q) /\ i <= N + 1
      BY <1>0, <1>1, <2>6 DEF OneMore
    <3>2. q[i] = H[i] /\ q[N + 1] = r
      BY <1>0, <2>6 DEF OneMore
    <3>3. q[i].ts <= q[N + 1].ts
      BY <3>1 DEF Sorted
    <3>4. q[i].ts \in Nat /\ q[N + 1].ts \in Nat
      BY <3>1, PastFacts DEF Sorted
    <3> QED BY <3>2, <3>3, <3>4
  <2>8. s.gap = r.ts - H[i].ts /\ r.ts - H[i].ts >= 0
    <3> DEFINE z == H[i].ts
               y == r.ts
    <3>1. z <= y /\ z \in Nat /\ y \in Nat
      BY <2>7
    <3> HIDE DEF z, y
    <3>2. y - z >= 0
      BY <3>1
    <3>3. s.gap = y - z
      BY <2>3, <2>4, <2>5 DEF z, y
    <3> QED BY <3>2, <3>3 DEF z, y
  <2> QED BY <2>1, <2>5, <2>8
<1>9. Added(AggOf(H, k[1], Part(p, h), h), s, h < L) = AggOf(q, k[1], Part(p2, h), h)
  <2> DEFINE S == Part(p, h)
             T == Part(p2, h)
             kind == k[1]
  <2>1. /\ Takes(H, S, T) /\ Recorded(s, kind, r.event) /\ (h < L <=> S # {}) /\ h \in Nat /\ L \in Nat
        /\ S # {} => s.gap = r.ts - H[Top(S)].ts /\ r.ts - H[Top(S)].ts >= 0
    BY <1>1, <1>3, <1>5, <1>6, <1>7, <1>8
  <2>3. Spaced(H, S, s, r) /\ Within(h, L, S)
    BY <2>1 DEF Spaced, Within
  <2>4. Takes(H, S, T) /\ Recorded(s, kind, r.event)
    BY <2>1
  <2> HIDE DEF S, T, kind
  <2>2. AddsTo(AggOf(H, kind, S, h), s, h, L, AggOf(q, kind, T, h))
    BY <2>3, <2>4, AggMore
  <2> QED BY <2>2 DEF S, T, kind, AddsTo
<1>10. u = AggOf(q, k[1], Part(p2, h), h)
  BY <1>0, <1>2, <1>3, <1>9 DEF TakesIn
<1>11. h \in 0 .. Len(x.records) /\ \A j \in 1 .. h : x.records[j].ts < t - w
  <2>1. h \in 0 .. Len(x.records) /\ \A j \in 1 .. h : j \in 1 .. Len(b.records)
    BY <1>0, <1>1 DEF Continues
  <2> QED BY <1>2, <2>1 DEF Continues
<1> QED BY <1>10, <1>11 DEF Sums

LEMMA AppendedTold ==
  ASSUME NEW k, NEW b, NEW H, NEW t \in Int, NEW lim, Told(k, b, H, t, lim), Sorted(H),
         NEW r, NEW q, OneMore(H, r, q), Sorted(q), k \in KeysOf(r.event)
  PROVE  Told(k, Appended(b, k[1], r.event, r.ts), q, t, lim)
<1>1. PICK c \in 0 .. Len(H), p \in [1 .. Len(b.records) -> 1 .. Len(H)] :
        /\ Lists(k, b, H, c, p) /\ Windowed(b)
        /\ \A w \in Widths : Sums(k, b, H, p, t, b.window[w], w)
        /\ lim = 0 => Forgets(k, H, c, t)
  BY DEF Told
<1>2. Lists(k, b, H, c, p)
  BY <1>1
<1> DEFINE e == r.event
           ts == r.ts
           x == Appended(b, k[1], e, ts)
           s == [ts |-> ts, outcome |-> e.outcome, dims |-> Dims(k[1], e),
                 gap |-> IF b.last < 0 THEN NoGap ELSE ts - b.last]
           W == [w \in Widths |-> Added(b.window[w], s, b.window[w].head < Len(b.records))]
<1>3. x = [records |-> Append(b.records, s), last |-> ts, window |-> W]
  BY DEF Appended
<1>4. e \in Event /\ ts \in Nat /\ b.last \in Int /\ Len(H) \in Nat
  BY <1>2, OneMoreFacts DEF OneMore, Ingested, Lists
<1>5. s \in Rec
  <2>1. Dims(k[1], e) \subseteq User \cup Source
    <3>1. k[1] \in Kinds
      BY KeyFacts
    <3> HIDE DEF e
    <3> QED BY <1>4, <3>1 DEF Dims, Event, Kinds
  <2>2. e.outcome \in Outcome
    BY <1>4 DEF Event
  <2>3. (IF b.last < 0 THEN NoGap ELSE ts - b.last) \in Int
    BY <1>4 DEF NoGap
  <2> HIDE DEF e, ts
  <2> QED BY <1>4, <2>1, <2>2, <2>3 DEF Rec
<1>6. s.ts = r.ts /\ Recorded(s, k[1], r.event)
  BY DEF Recorded
<1>7. Len(b.records) > 0 => s.gap = r.ts - b.last
  <2> SUFFICES ASSUME Len(b.records) > 0 PROVE s.gap = r.ts - b.last
    OBVIOUS
  <2>1. PICK L : L = Len(b.records)
    OBVIOUS
  <2>2. L \in 1 .. L
    BY <1>2, <2>1 DEF Lists
  <2>3. b.last = H[p[L]].ts /\ p[L] \in 1 .. Len(H)
    BY <1>2, <2>1, <2>2 DEF Lists
  <2>4. H[p[L]].ts \in Nat
    BY <2>3, PastFacts DEF Sorted
  <2>5. ~ (b.last < 0)
    BY <2>3, <2>4
  <2> QED BY <2>5
<1> HIDE DEF s
<1>8. \A w \in Widths : W[w] = Added(b.window[w], s, b.window[w].head < Len(b.records))
  OBVIOUS
<1>9. W = [w \in Widths |-> W[w]]
  OBVIOUS
<1> HIDE DEF W
<1>10. Shaped(x) /\ x.records = Append(b.records, s) /\ x.last = r.ts /\ x.window = W
  BY <1>3 DEF Shaped
<1> HIDE DEF x
<1>11. Newest(k, b, x, s, r)
  BY <1>5, <1>6, <1>7, <1>10 DEF Newest
<1>12. PICK p2 : Extended(p, Len(b.records), Len(H) + 1, p2)
  BY DEF Extended
<1>13. Lists(k, x, q, c, p2) /\ Continues(b, x)
  BY <1>2, <1>11, <1>12, AppendedLists
<1>14. Windowed(x)
  BY <1>9, <1>10 DEF Windowed
<1>15. ASSUME NEW w \in Widths PROVE Sums(k, x, q, p2, t, x.window[w], w)
  <2>1. PICK v, u : Holds(b, w, v) /\ Holds(x, w, u)
    BY DEF Holds
  <2>2. Sums(k, b, H, p, t, v, w) /\ TakesIn(b, s, v, u)
    BY <1>1, <1>8, <1>10, <2>1 DEF Holds, TakesIn
  <2>3. Sums(k, x, q, p2, t, u, w)
    BY <1>2, <1>11, <1>12, <1>13, <2>2, AppendedSums
  <2> QED BY <2>1, <2>3 DEF Holds
<1>16. lim = 0 => Forgets(k, q, c, t)
  <2> SUFFICES ASSUME Forgets(k, H, c, t), NEW i \in Touches(q, k), i <= c
               PROVE  q[i].ts < t - MaxWidth
    BY <1>1 DEF Forgets
  <2>1. i \in Touches(H, k) \/ i = Len(H) + 1
    BY OneMoreFacts
  <2>2. i \in Touches(H, k)
    BY <1>4, <2>1
  <2>3. q[i] = H[i]
    BY <2>2 DEF OneMore, Touches
  <2> QED BY <2>2, <2>3 DEF Forgets
<1>17. c \in 0 .. Len(q) /\ p2 \in [1 .. Len(x.records) -> 1 .. Len(q)]
  BY <1>13 DEF Lists
<1> QED BY <1>13, <1>14, <1>15, <1>16, <1>17 DEF Told, x, e, ts

(* An event of other entities changes nothing in what a buffer tells.      *)
LEMMA OtherLists ==
  ASSUME NEW k, NEW b, NEW H, NEW c, NEW p, Lists(k, b, H, c, p),
         NEW r, NEW q, OneMore(H, r, q), k \notin KeysOf(r.event)
  PROVE  /\ Lists(k, b, q, c, p)
         /\ \A t, v, w : Sums(k, b, H, p, t, v, w) => Sums(k, b, q, p, t, v, w)
<1>0. PICK N, L : N = Len(H) /\ L = Len(b.records)
  OBVIOUS
<1>1. /\ N \in Nat /\ L \in Nat /\ p \in [1 .. L -> 1 .. N]
      /\ (\A i, j \in 1 .. L : i < j => p[i] < p[j]) /\ c \in 0 .. N
      /\ \A i : i \in Touches(H, k) /\ i > c <=> \E j \in 1 .. L : p[j] = i
  BY <1>0, OneMoreFacts DEF Lists
<1>2. Len(q) = N + 1 /\ \A i \in 1 .. N : q[i] = H[i]
  BY <1>0 DEF OneMore
<1>3. \A i : i \in Touches(q, k) <=> i \in Touches(H, k)
  <2>1. \A i : i \in Touches(q, k) <=> i \in Touches(H, k) \/ (i = Len(H) + 1 /\ k \in KeysOf(r.event))
    BY OneMoreFacts
  <2> QED BY <2>1
<1>4. \A j \in 1 .. L : p[j] \in 1 .. N /\ q[p[j]] = H[p[j]]
  BY <1>1, <1>2
<1>5. Lists(k, b, q, c, p)
  <2> DEFINE n == N + 1
  <2>1. n = Len(q) /\ c \in 0 .. n /\ \A i \in 1 .. N : i \in 1 .. n
    BY <1>1, <1>2
  <2>2. p \in [1 .. L -> 1 .. n]
    BY <1>1, <2>1
  <2>3. /\ \A j \in 1 .. L : b.records[j].ts = q[p[j]].ts /\ Recorded(b.records[j], k[1], q[p[j]].event)
        /\ L > 0 => b.last = q[p[L]].ts
    <3>1. /\ \A j \in 1 .. L : b.records[j].ts = H[p[j]].ts /\ Recorded(b.records[j], k[1], H[p[j]].event)
          /\ L > 0 => b.last = H[p[L]].ts
      BY <1>0 DEF Lists
    <3>2. L > 0 => L \in 1 .. L
      BY <1>1
    <3> QED BY <1>4, <3>1, <3>2
  <2>4. \A j \in 2 .. L : b.records[j].gap = q[p[j]].ts - q[p[j - 1]].ts
    <3> SUFFICES ASSUME NEW j \in 2 .. L PROVE b.records[j].gap = q[p[j]].ts - q[p[j - 1]].ts
      OBVIOUS
    <3> DEFINE i == j - 1
    <3>1. i \in 1 .. L /\ j \in 1 .. L
      BY <1>1
    <3>2. b.records[j].gap = H[p[j]].ts - H[p[i]].ts
      BY <1>0 DEF Lists
    <3> HIDE DEF i
    <3>3. b.records[j].gap = q[p[j]].ts - q[p[i]].ts
      BY <1>4, <3>1, <3>2
    <3> QED BY <3>3 DEF i
  <2>5. Shaped(b) /\ b.records \in Seq(Rec) /\ b.last \in Int
    BY DEF Lists
  <2> HIDE DEF n
  <2> QED BY <1>0, <1>1, <1>3, <2>1, <2>2, <2>3, <2>4, <2>5 DEF Lists
<1>6. ASSUME NEW t, NEW v, NEW w, Sums(k, b, H, p, t, v, w) PROVE Sums(k, b, q, p, t, v, w)
  <2>1. PICK h \in 0 .. L : v = AggOf(H, k[1], Part(p, h), h) /\ \A j \in 1 .. h : b.records[j].ts < t - w
    BY <1>0, <1>6 DEF Sums
  <2>2. Part(p, h) \subseteq 1 .. N
    <3>1. Rising(p, L, N)
      BY <1>1 DEF Rising
    <3> QED BY <3>1, PartFacts
  <2> DEFINE S == Part(p, h)
             kind == k[1]
  <2> HIDE DEF S, kind
  <2>3. AggOf(q, kind, S, h) = AggOf(H, kind, S, h)
    <3>1. Old(H, S)
      BY <1>0, <2>2 DEF S, Old
    <3> QED BY <3>1, SamePart
  <2>4. v = AggOf(q, k[1], Part(p, h), h)
    BY <2>1, <2>3 DEF S, kind
  <2> QED BY <1>0, <2>1, <2>4 DEF Sums
<1> QED BY <1>5, <1>6

LEMMA OtherTold ==
  ASSUME NEW k, NEW b, NEW H, NEW t, NEW lim, Told(k, b, H, t, lim),
         NEW r, NEW q, OneMore(H, r, q), k \notin KeysOf(r.event)
  PROVE  Told(k, b, q, t, lim)
<1>1. PICK c \in 0 .. Len(H), p \in [1 .. Len(b.records) -> 1 .. Len(H)] :
        /\ Lists(k, b, H, c, p) /\ Windowed(b)
        /\ \A w \in Widths : Sums(k, b, H, p, t, b.window[w], w)
        /\ lim = 0 => Forgets(k, H, c, t)
  BY DEF Told
<1>2. Lists(k, b, H, c, p)
  BY <1>1
<1>3. /\ Lists(k, b, q, c, p)
      /\ \A u, v, w : Sums(k, b, H, p, u, v, w) => Sums(k, b, q, p, u, v, w)
  BY <1>2, OtherLists
<1>4. lim = 0 => Forgets(k, q, c, t)
  <2> SUFFICES ASSUME Forgets(k, H, c, t), NEW i \in Touches(q, k), i <= c
               PROVE  q[i].ts < t - MaxWidth
    BY <1>1 DEF Forgets
  <2>1. i \in Touches(H, k)
    BY OneMoreFacts
  <2>2. q[i] = H[i]
    BY <2>1 DEF OneMore, Touches
  <2> QED BY <2>1, <2>2 DEF Forgets
<1>5. c \in 0 .. Len(q) /\ p \in [1 .. Len(b.records) -> 1 .. Len(q)]
  BY <1>3 DEF Lists
<1> QED BY <1>1, <1>3, <1>4, <1>5 DEF Told

(* Later, what was old is old.                                             *)
LEMMA LaterTold ==
  ASSUME NEW k, NEW b, NEW H, NEW t \in Int, NEW lim, Told(k, b, H, t, lim), Sorted(H),
         NEW t2 \in Int, t <= t2
  PROVE  Told(k, b, H, t2, lim)
<1>1. PICK c \in 0 .. Len(H), p \in [1 .. Len(b.records) -> 1 .. Len(H)] :
        /\ Lists(k, b, H, c, p) /\ Windowed(b)
        /\ \A w \in Widths : Sums(k, b, H, p, t, b.window[w], w)
        /\ lim = 0 => Forgets(k, H, c, t)
  BY DEF Told
<1>2. ASSUME NEW w \in Widths PROVE Sums(k, b, H, p, t2, b.window[w], w)
  <2>1. PICK v : Holds(b, w, v)
    BY DEF Holds
  <2>2. Sums(k, b, H, p, t, v, w)
    BY <1>1, <2>1 DEF Holds
  <2>3. PICK h \in 0 .. Len(b.records) :
          v = AggOf(H, k[1], Part(p, h), h) /\ \A j \in 1 .. h : b.records[j].ts < t - w
    BY <2>2 DEF Sums
  <2>4. ASSUME NEW j \in 1 .. h PROVE b.records[j].ts < t2 - w
    <3>1. Lists(k, b, H, c, p) /\ w \in Nat
      BY <1>1, TellsWidths
    <3>2. Len(b.records) \in Nat
      BY <3>1 DEF Lists
    <3>3. j \in 1 .. Len(b.records)
      BY <3>2
    <3>4. b.records[j].ts \in Nat
      <4>1. b.records \in Seq(Rec)
        BY <3>1 DEF Lists
      <4>2. b.records[j] \in Rec
        BY <3>3, <4>1
      <4> QED BY <4>2 DEF Rec
    <3> DEFINE u == b.records[j].ts
    <3>5. u < t - w /\ u \in Nat
      BY <2>3, <3>4
    <3> HIDE DEF u
    <3>6. u < t2 - w
      BY <3>1, <3>5
    <3> QED BY <3>6 DEF u
  <2>5. Sums(k, b, H, p, t2, v, w)
    BY <2>3, <2>4 DEF Sums
  <2> QED BY <2>1, <2>5 DEF Holds
<1>3. ASSUME lim = 0 PROVE Forgets(k, H, c, t2)
  <2> SUFFICES ASSUME NEW i \in Touches(H, k), i <= c PROVE H[i].ts < t2 - MaxWidth
    BY DEF Forgets
  <2>1. H[i].ts < t - MaxWidth
    BY <1>1, <1>3 DEF Forgets
  <2>2. H[i].ts \in Nat
    BY PastFacts DEF Touches, Sorted
  <2> DEFINE u == H[i].ts
             m == MaxWidth
  <2>3. u < t - m /\ u \in Nat /\ m \in Nat
    BY <2>1, <2>2, Longest
  <2> HIDE DEF u, m
  <2>4. u < t2 - m
    BY <2>3
  <2> QED BY <2>4 DEF u, m
<1> QED BY <1>1, <1>2, <1>3 DEF Told

(* The empty buffer tells of none.                                         *)
LEMMA NoBufferTold ==
  ASSUME NEW k, NEW H \in Seq(Ingested), NEW t, NEW lim, lim = 0 => Forgets(k, H, Len(H), t)
  PROVE  Told(k, NoBuffer, H, t, lim)
<1>0. PICK N : N = Len(H)
  OBVIOUS
<1>1. N \in Nat
  BY <1>0
<1> DEFINE p == [j \in 1 .. 0 |-> 1]
<1>2. p \in [1 .. 0 -> 1 .. N] /\ \A h : Part(p, h) = {}
  BY DEF Part
<1> HIDE DEF p
<1>3. NoBuffer = [records |-> <<>>, last |-> NoGap, window |-> [w \in Widths |-> NoWindow]]
  BY DEF NoBuffer
<1> DEFINE b == NoBuffer
<1>4. b.records = <<>> /\ b.last = NoGap /\ b.window = [w \in Widths |-> NoWindow]
  BY <1>3
<1>5. Len(b.records) = 0 /\ b.records \in Seq(Rec)
  BY <1>4
<1>6. Lists(k, b, H, N, p)
  <2>1. Shaped(b)
    BY NoBufferShape
  <2>2. \A i : i \in Touches(H, k) => ~ (i > N)
    BY <1>0, <1>1 DEF Touches
  <2>3. N \in 0 .. N /\ b.last \in Int
    BY <1>1, <1>4 DEF NoGap
  <2> HIDE DEF b
  <2> QED BY <1>0, <1>2, <1>5, <2>1, <2>2, <2>3 DEF Lists
<1>7. AggOf(H, k[1], {}, 0) = NoWindow
  <2>1. Failed(H, {}) = {} /\ Dimensions(H, k[1], {}) = {}
    BY DEF Failed, Dimensions
  <2>2. Cardinality({}) = 0
    BY FS_EmptySet
  <2>3. Tally(H, k[1], {}) = [d \in {} |-> 0]
    BY <2>1 DEF Tally
  <2>4. Lapse(H, {}) = 0
    BY DEF Lapse
  <2> QED BY <2>1, <2>2, <2>3, <2>4 DEF AggOf, NoWindow
<1>8. ASSUME NEW w \in Widths PROVE Sums(k, b, H, p, t, b.window[w], w)
  <2>1. b.window[w] = NoWindow
    BY <1>4
  <2>2. b.window[w] = AggOf(H, k[1], Part(p, 0), 0)
    BY <1>2, <1>7, <2>1
  <2>3. 0 \in 0 .. Len(b.records) /\ \A j \in 1 .. 0 : FALSE
    BY <1>5
  <2> HIDE DEF b
  <2> QED BY <2>2, <2>3 DEF Sums
<1>9. Windowed(b)
  BY <1>4 DEF Windowed
<1>10. N \in 0 .. Len(H) /\ p \in [1 .. Len(b.records) -> 1 .. Len(H)] /\ (lim = 0 => Forgets(k, H, N, t))
  BY <1>0, <1>1, <1>2, <1>5
<1> HIDE DEF b
<1>11. Told(k, b, H, t, lim)
  BY <1>6, <1>8, <1>9, <1>10 DEF Told
<1> QED BY <1>11 DEF b

-----------------------------------------------------------------------------
(* Every buffer tells of its entity's events, all of them that a window    *)
(* can still reach when no limit holds.                                    *)
Telling == \A k \in DOMAIN buffers : Told(k, buffers[k], past, now, cap)

LEMMA PastSorted ==
  ASSUME Held PROVE Sorted(past) /\ now \in Int
  BY DEF Held, Typed, Timed, Sorted

LEMMA UnseenForgotten ==
  ASSUME Held, phase = "emit", cap = 0, NEW k, k \notin DOMAIN seen
  PROVE  Forgets(k, past, Len(past), now)
<1>1. Ranked(Len(past)) /\ past \in Seq(Ingested) /\ now \in Nat
  BY DEF Held, Ranking, Typed
<1> SUFFICES ASSUME NEW i \in Touches(past, k) PROVE past[i].ts < now - MaxWidth
  BY DEF Forgets
<1>2. k \in Known(past)
  BY KnownTouched
<1>3. Last(past, k) \in 1 .. Len(past) /\ i <= Last(past, k) /\ i \in 1 .. Len(past)
  BY <1>1, LastFacts DEF Touches
<1>4. past[Last(past, k)].ts < now - MaxWidth
  BY <1>1, <1>2 DEF Ranked
<1>5. past[i].ts <= past[Last(past, k)].ts
  BY <1>3 DEF Held, Timed
<1>6. past[i].ts \in Nat /\ past[Last(past, k)].ts \in Nat /\ MaxWidth \in Nat
  BY <1>1, <1>3, PastFacts, Longest
<1> DEFINE u == past[i].ts
           v == past[Last(past, k)].ts
           m == MaxWidth
<1>7. u <= v /\ v < now - m /\ u \in Nat /\ v \in Nat /\ m \in Nat
  BY <1>4, <1>5, <1>6
<1> HIDE DEF u, v, m
<1>8. u < now - m
  BY <1>1, <1>7
<1> QED BY <1>8 DEF u, m

(* What a row is read from.                                                *)
LEMMA EmitReads ==
  ASSUME Held, Telling, phase = "emit", NEW k
  PROVE  ToldNow(k, Advanced(BufferFor(k), now), past, now, cap)
<1>1. Told(k, BufferFor(k), past, now, cap)
  <2>1. CASE k \in DOMAIN buffers
    BY <2>1 DEF Telling, BufferFor
  <2>2. CASE k \notin DOMAIN buffers
    <3>1. k \notin DOMAIN seen
      BY <2>2 DEF Held, Buffered
    <3>2. cap = 0 => Forgets(k, past, Len(past), now)
      BY <3>1, UnseenForgotten
    <3>3. past \in Seq(Ingested)
      BY DEF Held, Typed
    <3>4. Told(k, NoBuffer, past, now, cap)
      BY <3>2, <3>3, NoBufferTold
    <3> QED BY <2>2, <3>4 DEF BufferFor
  <2> QED BY <2>1, <2>2
<1> QED BY <1>1, PastSorted, AdvancedTold

LEMMA EmitTelling == Held /\ Telling /\ Emit => Telling'
<1> SUFFICES ASSUME Held, Telling, Emit PROVE Telling'
  OBVIOUS
<1> DEFINE K == KeysOf(block[done + 1])
<1>1. /\ phase = "emit" /\ UNCHANGED <<cap, now, past>>
      /\ DOMAIN buffers' = DOMAIN buffers \cup K
      /\ \A k \in DOMAIN buffers' :
           buffers'[k] = IF k \in K THEN Advanced(BufferFor(k), now) ELSE buffers[k]
  BY DEF Emit
<1> SUFFICES ASSUME NEW k \in DOMAIN buffers' PROVE Told(k, buffers'[k], past', now', cap')
  BY DEF Telling
<1>2. Told(k, buffers'[k], past, now, cap)
  <2>1. CASE k \in K
    <3>1. ToldNow(k, Advanced(BufferFor(k), now), past, now, cap)
      BY <1>1, EmitReads
    <3>2. Told(k, Advanced(BufferFor(k), now), past, now, cap)
      BY <3>1, ToldNowTold
    <3> QED BY <1>1, <2>1, <3>2
  <2>2. CASE k \notin K
    <3>1. k \in DOMAIN buffers /\ buffers'[k] = buffers[k]
      BY <1>1, <2>2
    <3> QED BY <3>1 DEF Telling
  <2> QED BY <2>1, <2>2
<1> QED BY <1>1, <1>2

LEMMA IngestGrows ==
  ASSUME Held, Ingest
  PROVE  /\ OneMore(past, [event |-> block[done + 1], ts |-> now], past')
         /\ Sorted(past') /\ block[done + 1] \in Event /\ now \in Nat
<1> DEFINE r == [event |-> block[done + 1], ts |-> now]
<1>1. phase = "ingest" /\ past' = Append(past, r) /\ past \in Seq(Ingested) /\ now \in Nat
  BY DEF Ingest, Held, Typed
<1>2. block[done + 1] \in Event
  BY <1>1, BlockEvent DEF Held
<1>3. r \in Ingested
  BY <1>1, <1>2 DEF Ingested
<1> HIDE DEF r
<1>4. OneMore(past, r, past')
  BY <1>1, <1>3, AppendOneMore
<1>5. Held'
  BY IngestHeld
<1>6. Sorted(past')
  BY <1>5 DEF Held, Typed, Timed, Sorted
<1> QED BY <1>1, <1>2, <1>4, <1>6 DEF r

LEMMA IngestTelling == Held /\ Telling /\ Ingest => Telling'
<1> SUFFICES ASSUME Held, Telling, Ingest PROVE Telling'
  OBVIOUS
<1> DEFINE e == block[done + 1]
           K == KeysOf(e)
           r == [event |-> e, ts |-> now]
<1>1. /\ phase = "ingest" /\ UNCHANGED <<cap, now>>
      /\ DOMAIN buffers' = DOMAIN buffers \cup K
      /\ \A k \in DOMAIN buffers' :
           buffers'[k] = IF k \in K THEN Appended(BufferFor(k), k[1], e, now) ELSE buffers[k]
  BY DEF Ingest
<1>2. OneMore(past, r, past') /\ Sorted(past')
  BY IngestGrows
<1>3. Sorted(past) /\ now \in Int
  BY PastSorted
<1>4. K \subseteq DOMAIN buffers
  <2>1. DOMAIN buffers = DOMAIN seen \cup UNION {KeysOf(block[d]) : d \in done + 1 .. Len(block)}
    BY <1>1 DEF Held, Buffered
  <2>2. done + 1 \in done + 1 .. Len(block)
    BY <1>1 DEF Held, Typed
  <2> QED BY <2>1, <2>2
<1>5. r.event = e /\ r.ts = now
  OBVIOUS
<1> HIDE DEF r, e
<1> SUFFICES ASSUME NEW k \in DOMAIN buffers' PROVE Told(k, buffers'[k], past', now', cap')
  BY DEF Telling
<1>6. k \in DOMAIN buffers
  BY <1>1, <1>4
<1>7. Told(k, buffers[k], past, now, cap)
  BY <1>6 DEF Telling
<1>8. CASE k \in K
  <2>1. buffers'[k] = Appended(buffers[k], k[1], r.event, r.ts)
    BY <1>1, <1>5, <1>6, <1>8 DEF BufferFor
  <2>2. k \in KeysOf(r.event)
    BY <1>5, <1>8
  <2>3. Told(k, Appended(buffers[k], k[1], r.event, r.ts), past', now, cap)
    BY <1>2, <1>3, <1>7, <2>2, AppendedTold
  <2> QED BY <1>1, <2>1, <2>3
<1>9. CASE k \notin K
  <2>1. k \notin KeysOf(r.event) /\ buffers'[k] = buffers[k]
    BY <1>1, <1>5, <1>9
  <2>2. Told(k, buffers[k], past', now, cap)
    BY <1>2, <1>7, <2>1, OtherTold
  <2> QED BY <1>1, <2>1, <2>2
<1> QED BY <1>8, <1>9

LEMMA OthersTelling ==
  ASSUME Held, Telling, [NextBlock \/ Expire]_vars PROVE Telling'
<1>1. CASE NextBlock
  <2>1. UNCHANGED <<cap, buffers, past>>
    BY <1>1 DEF NextBlock
  <2>2. now' \in Int /\ now <= now' /\ now \in Int /\ Sorted(past)
    <3>1. now' \in now + 1 .. MaxTime /\ now \in Nat
      BY <1>1 DEF NextBlock, Held, Typed
    <3> QED BY <3>1, PastSorted
  <2> SUFFICES ASSUME NEW k \in DOMAIN buffers PROVE Told(k, buffers[k], past, now', cap)
    BY <2>1 DEF Telling
  <2>3. Told(k, buffers[k], past, now, cap)
    BY DEF Telling
  <2> QED BY <2>2, <2>3, LaterTold
<1>2. CASE Expire
  <2>1. UNCHANGED <<cap, now, past>> /\ buffers' = Without(buffers, Aged \cup Crowded)
    BY <1>2 DEF Expire
  <2>2. \A k \in DOMAIN buffers' : k \in DOMAIN buffers /\ buffers'[k] = buffers[k]
    BY <2>1 DEF Without
  <2> QED BY <2>1, <2>2 DEF Telling
<1>3. CASE UNCHANGED vars
  BY <1>3 DEF Telling, vars
<1> QED BY <1>1, <1>2, <1>3

(* Each buffer lists its entity's events after some point of the history,  *)
(* and each of its windows holds the aggregates of those after its head.   *)
THEOREM BuffersTell == Spec => [](Held /\ Telling)
<1>1. Init => Held /\ Telling
  <2>1. Init => DOMAIN buffers = {}
    BY DEF Init
  <2> QED BY <2>1, InitHeld DEF Telling
<1>2. Held /\ Telling /\ [Next]_vars => (Held /\ Telling)'
  <2>1. Held /\ [Next]_vars => Held'
    BY NextBlockHeld, EmitHeld, IngestHeld, ExpireHeld, StutterHeld DEF Next
  <2>2. Held /\ Telling /\ [Next]_vars => Telling'
    BY EmitTelling, IngestTelling, OthersTelling DEF Next
  <2> QED BY <2>1, <2>2
<1> QED BY <1>1, <1>2, PTL DEF Spec

-----------------------------------------------------------------------------
(* What came before, from the events S of the history.                     *)

LatestOf(H, S) == IF S = {} THEN -1 ELSE H[Top(S)].ts
Ending(H, S, o) == {i \in S : H[i].event.outcome = o}
Since(H, S, X) == {i \in Failed(H, S) : \A j \in X : j < i}
Others(H, S) == S \ Failed(H, S)

Sequel(s, l, a, f, c, n, o) ==
  s = [last |-> l, success |-> a, failure |-> f, consecutive |-> c, since |-> n, previous |-> o]

SeqOf(H, S) ==
  [last |-> LatestOf(H, S), success |-> LatestOf(H, Ending(H, S, "success")),
   failure |-> LatestOf(H, Failed(H, S)),
   consecutive |-> Cardinality(Since(H, S, Others(H, S))),
   since |-> Cardinality(Since(H, S, Ending(H, S, "success"))),
   previous |-> IF S = {} THEN None ELSE H[Top(S)].event.outcome]

LEMMA ResequelIs ==
  ASSUME NEW s, NEW l, NEW a, NEW f, NEW c, NEW n, NEW o, Sequel(s, l, a, f, c, n, o),
         NEW l2, NEW a2, NEW f2, NEW c2, NEW n2, NEW o2
  PROVE  Sequel([s EXCEPT !.last = l2, !.previous = o2, !.consecutive = c2, !.since = n2,
                          !.failure = f2, !.success = a2], l2, a2, f2, c2, n2, o2)
<1> DEFINE s1 == [s EXCEPT !.last = l2]
           s2 == [s1 EXCEPT !.previous = o2]
           s3 == [s2 EXCEPT !.consecutive = c2]
           s4 == [s3 EXCEPT !.since = n2]
           s5 == [s4 EXCEPT !.failure = f2]
           s6 == [s5 EXCEPT !.success = a2]
<1>0. [s EXCEPT !.last = l2, !.previous = o2, !.consecutive = c2, !.since = n2,
                !.failure = f2, !.success = a2] = s6
  OBVIOUS
<1>1. s1 = [last |-> l2, success |-> a, failure |-> f, consecutive |-> c, since |-> n, previous |-> o]
  BY DEF Sequel
<1> HIDE DEF s1
<1>2. s2 = [last |-> l2, success |-> a, failure |-> f, consecutive |-> c, since |-> n, previous |-> o2]
  BY <1>1
<1> HIDE DEF s2
<1>3. s3 = [last |-> l2, success |-> a, failure |-> f, consecutive |-> c2, since |-> n, previous |-> o2]
  BY <1>2
<1> HIDE DEF s3
<1>4. s4 = [last |-> l2, success |-> a, failure |-> f, consecutive |-> c2, since |-> n2, previous |-> o2]
  BY <1>3
<1> HIDE DEF s4
<1>5. s5 = [last |-> l2, success |-> a, failure |-> f2, consecutive |-> c2, since |-> n2, previous |-> o2]
  BY <1>4
<1> HIDE DEF s5
<1>6. s6 = [last |-> l2, success |-> a2, failure |-> f2, consecutive |-> c2, since |-> n2, previous |-> o2]
  BY <1>5
<1> HIDE DEF s6
<1> QED BY <1>0, <1>6 DEF Sequel

LEMMA UpdatedIs ==
  ASSUME NEW s, NEW l, NEW a, NEW f, NEW c, NEW n, NEW o, Sequel(s, l, a, f, c, n, o), NEW ts, NEW e
  PROVE  Sequel(Updated(s, ts, e), ts, IF e = "success" THEN ts ELSE a, IF e = "failure" THEN ts ELSE f,
                IF e = "failure" THEN c + 1 ELSE 0,
                IF e = "failure" THEN n + 1 ELSE IF e = "success" THEN 0 ELSE n, e)
<1>1. /\ s.consecutive = c /\ s.since = n /\ s.failure = f /\ s.success = a
  BY DEF Sequel
<1> DEFINE a1 == IF e = "success" THEN ts ELSE s.success
           f1 == IF e = "failure" THEN ts ELSE s.failure
           c1 == IF e = "failure" THEN s.consecutive + 1 ELSE 0
           n1 == IF e = "failure" THEN s.since + 1 ELSE IF e = "success" THEN 0 ELSE s.since
<1>2. Updated(s, ts, e) = [s EXCEPT !.last = ts, !.previous = e, !.consecutive = c1, !.since = n1,
                                    !.failure = f1, !.success = a1]
  BY DEF Updated
<1>3. /\ a1 = IF e = "success" THEN ts ELSE a
      /\ f1 = IF e = "failure" THEN ts ELSE f
      /\ c1 = IF e = "failure" THEN c + 1 ELSE 0
      /\ n1 = IF e = "failure" THEN n + 1 ELSE IF e = "success" THEN 0 ELSE n
  BY <1>1
<1> HIDE DEF a1, f1, c1, n1
<1>4. Sequel([s EXCEPT !.last = ts, !.previous = e, !.consecutive = c1, !.since = n1,
                       !.failure = f1, !.success = a1], ts, a1, f1, c1, n1, e)
  BY ResequelIs
<1>5. Sequel(Updated(s, ts, e), ts, a1, f1, c1, n1, e)
  BY <1>2, <1>4
<1> QED BY <1>3, <1>5

(* The newest event is the last of those it joins.                         *)
LEMMA NewestIsTop ==
  ASSUME NEW H, NEW r, NEW q, OneMore(H, r, q), NEW S, NEW T, Takes(H, S, T)
  PROVE  /\ T # {} /\ Top(T) = Len(H) + 1 /\ q[Top(T)] = r /\ LatestOf(q, T) = r.ts
<1>1. PICK N : N = Len(H)
  OBVIOUS
<1>2. N \in Nat /\ S \subseteq 1 .. N /\ T = S \cup {N + 1} /\ q[N + 1] = r
  BY <1>1, OneMoreFacts DEF Takes, OneMore
<1> DEFINE m == N + 1
<1>3. m \in Nat /\ T \subseteq 1 .. m /\ m \in T /\ \A j \in T : j <= m
  BY <1>2
<1> HIDE DEF m
<1>4. Top(T) = m
  BY <1>3, TopIs
<1>5. T # {}
  BY <1>3
<1>6. q[Top(T)] = r
  BY <1>2, <1>4 DEF m
<1>7. LatestOf(q, T) = r.ts
  BY <1>5, <1>6 DEF LatestOf
<1> QED BY <1>1, <1>4, <1>5, <1>6, <1>7 DEF m

LEMMA SameLatest ==
  ASSUME NEW H, NEW r, NEW q, OneMore(H, r, q), NEW S, Old(H, S)
  PROVE  /\ LatestOf(q, S) = LatestOf(H, S) /\ Failed(q, S) = Failed(H, S)
         /\ \A o : Ending(q, S, o) = Ending(H, S, o)
         /\ S # {} => q[Top(S)] = H[Top(S)]
<1>0. S \subseteq 1 .. Len(H) /\ Len(H) \in Nat
  BY OneMoreFacts DEF Old
<1>1. \A i \in S : q[i] = H[i]
  BY <1>0 DEF OneMore
<1>2. S # {} => Top(S) \in S
  BY <1>0, TopFacts
<1>3. Failed(q, S) = Failed(H, S)
  BY <1>1 DEF Failed
<1>4. ASSUME NEW o PROVE Ending(q, S, o) = Ending(H, S, o)
  BY <1>1 DEF Ending
<1> QED BY <1>1, <1>2, <1>3, <1>4 DEF LatestOf

LEMMA SameSequence ==
  ASSUME NEW H, NEW r, NEW q, OneMore(H, r, q), NEW S, Old(H, S)
  PROVE  SeqOf(q, S) = SeqOf(H, S)
<1>1. /\ LatestOf(q, S) = LatestOf(H, S) /\ Failed(q, S) = Failed(H, S)
      /\ (\A o : Ending(q, S, o) = Ending(H, S, o)) /\ (S # {} => q[Top(S)] = H[Top(S)])
  BY SameLatest
<1>2. Old(H, Failed(H, S)) /\ Old(H, Ending(H, S, "success"))
  BY DEF Old, Failed, Ending
<1>3. /\ LatestOf(q, Failed(q, S)) = LatestOf(H, Failed(H, S))
      /\ LatestOf(q, Ending(q, S, "success")) = LatestOf(H, Ending(H, S, "success"))
  BY <1>1, <1>2, SameLatest
<1>4. /\ Since(q, S, Others(q, S)) = Since(H, S, Others(H, S))
      /\ Since(q, S, Ending(q, S, "success")) = Since(H, S, Ending(H, S, "success"))
  BY <1>1 DEF Since, Others
<1> QED BY <1>1, <1>3, <1>4 DEF SeqOf

(* The events of S with the outcome o, when the newest joins them.         *)
LEMMA MoreEnding ==
  ASSUME NEW H, NEW r, NEW q, OneMore(H, r, q), NEW S, NEW T, Takes(H, S, T), NEW o
  PROVE  /\ r.event.outcome = o => Takes(H, Ending(H, S, o), Ending(q, T, o))
         /\ r.event.outcome # o => Ending(q, T, o) = Ending(H, S, o)
         /\ LatestOf(q, Ending(q, T, o)) = IF r.event.outcome = o THEN r.ts ELSE LatestOf(H, Ending(H, S, o))
<1>1. /\ S \subseteq 1 .. Len(H) /\ T = S \cup {Len(H) + 1} /\ q[Len(H) + 1] = r
      /\ \A i \in S : q[i] = H[i]
  BY DEF Takes, OneMore
<1>2. Ending(H, S, o) \subseteq 1 .. Len(H)
  BY <1>1 DEF Ending
<1>3. CASE r.event.outcome = o
  <2>1. Ending(q, T, o) = Ending(H, S, o) \cup {Len(H) + 1}
    BY <1>1, <1>3 DEF Ending
  <2>2. Takes(H, Ending(H, S, o), Ending(q, T, o))
    BY <1>2, <2>1 DEF Takes
  <2>3. LatestOf(q, Ending(q, T, o)) = r.ts
    BY <2>2, NewestIsTop
  <2> QED BY <1>3, <2>2, <2>3
<1>4. CASE r.event.outcome # o
  <2>1. Ending(q, T, o) = Ending(H, S, o)
    BY <1>1, <1>4 DEF Ending
  <2>2. Old(H, Ending(H, S, o))
    BY <1>2 DEF Old
  <2>3. LatestOf(q, Ending(H, S, o)) = LatestOf(H, Ending(H, S, o))
    BY <2>2, SameLatest
  <2> QED BY <1>4, <2>1, <2>3
<1> QED BY <1>3, <1>4

(* The failures after X, when the newest event joins them.                 *)
LEMMA MoreSince ==
  ASSUME NEW H, NEW r, NEW q, OneMore(H, r, q), NEW S, NEW T, Takes(H, S, T), NEW X, Old(H, X)
  PROVE  /\ r.event.outcome = "failure" => Cardinality(Since(q, T, X)) = Cardinality(Since(H, S, X)) + 1
         /\ r.event.outcome # "failure" => Since(q, T, X) = Since(H, S, X)
         /\ \A Y : Len(H) + 1 \in Y /\ r.event.outcome # "failure" => Cardinality(Since(q, T, Y)) = 0
<1>1. PICK N : N = Len(H)
  OBVIOUS
<1>2. /\ N \in Nat /\ S \subseteq 1 .. N /\ T = S \cup {N + 1} /\ q[N + 1] = r /\ X \subseteq 1 .. N
      /\ \A i \in S : q[i] = H[i]
  BY <1>1, OneMoreFacts DEF Takes, OneMore, Old
<1>3. N + 1 \notin S /\ \A j \in X : j < N + 1
  BY <1>2
<1>4. ASSUME r.event.outcome = "failure"
      PROVE  Cardinality(Since(q, T, X)) = Cardinality(Since(H, S, X)) + 1
  <2> DEFINE A == Since(H, S, X)
             m == N + 1
             B == Since(q, T, X)
  <2>1. B = A \cup {m}
    BY <1>2, <1>3, <1>4 DEF Since, Failed
  <2>2. A \subseteq 1 .. N /\ m \notin A
    BY <1>2, <1>3 DEF Since, Failed
  <2> HIDE DEF A, m, B
  <2>3. IsFiniteSet(A)
    BY <1>2, <2>2, PartFinite
  <2>4. Cardinality(B) = Cardinality(A) + 1
    BY <2>1, <2>2, <2>3, CountMore
  <2> QED BY <2>4 DEF A, B
<1>5. ASSUME r.event.outcome # "failure" PROVE Since(q, T, X) = Since(H, S, X)
  BY <1>2, <1>5 DEF Since, Failed
<1>6. ASSUME NEW Y, N + 1 \in Y, r.event.outcome # "failure" PROVE Cardinality(Since(q, T, Y)) = 0
  <2>1. ASSUME NEW i \in Since(q, T, Y) PROVE FALSE
    <3>1. i \in T /\ q[i].event.outcome = "failure" /\ N + 1 < i
      BY <1>6 DEF Since, Failed
    <3>2. i # N + 1
      BY <1>2, <1>6, <3>1
    <3>3. i \in 1 .. N
      BY <1>2, <3>1, <3>2
    <3> QED BY <1>2, <3>1, <3>3
  <2>2. Cardinality({}) = 0
    BY FS_EmptySet
  <2>3. Since(q, T, Y) = {}
    BY <2>1
  <2> QED BY <2>2, <2>3
<1> QED BY <1>1, <1>4, <1>5, <1>6

LEMMA SequenceMore ==
  ASSUME NEW H, NEW r, NEW q, OneMore(H, r, q), NEW S, NEW T, Takes(H, S, T)
  PROVE  SeqOf(q, T) = Updated(SeqOf(H, S), r.ts, r.event.outcome)
<1> DEFINE e == r.event.outcome
           ts == r.ts
           l == LatestOf(H, S)
           a == LatestOf(H, Ending(H, S, "success"))
           f == LatestOf(H, Failed(H, S))
           c == Cardinality(Since(H, S, Others(H, S)))
           n == Cardinality(Since(H, S, Ending(H, S, "success")))
           o == IF S = {} THEN None ELSE H[Top(S)].event.outcome
           s == SeqOf(H, S)
<1>1. Sequel(s, l, a, f, c, n, o)
  BY DEF SeqOf, Sequel
<1>2. S \subseteq 1 .. Len(H) /\ T = S \cup {Len(H) + 1} /\ Len(H) \in Nat
  BY OneMoreFacts DEF Takes
<1>3. Old(H, Ending(H, S, "success")) /\ Old(H, Others(H, S))
  BY <1>2 DEF Old, Ending, Others
<1>4. /\ T # {} /\ q[Top(T)] = r /\ LatestOf(q, T) = ts
  BY NewestIsTop
<1>5. LatestOf(q, Ending(q, T, "success")) = IF e = "success" THEN ts ELSE a
  BY MoreEnding
<1>6. /\ \A W : Failed(q, W) = Ending(q, W, "failure") /\ Failed(H, W) = Ending(H, W, "failure")
      /\ LatestOf(q, Failed(q, T)) = IF e = "failure" THEN ts ELSE f
  <2>1. \A W : Failed(q, W) = Ending(q, W, "failure") /\ Failed(H, W) = Ending(H, W, "failure")
    BY DEF Failed, Ending
  <2>2. LatestOf(q, Ending(q, T, "failure")) = IF e = "failure" THEN ts ELSE LatestOf(H, Ending(H, S, "failure"))
    BY MoreEnding
  <2> QED BY <2>1, <2>2
<1>7. /\ e = "failure" => Others(q, T) = Others(H, S)
      /\ e # "failure" => Len(H) + 1 \in Others(q, T)
  <2>1. Len(H) + 1 \notin S
    BY <1>2
  <2>2. e = "failure" => Failed(q, T) = Failed(H, S) \cup {Len(H) + 1}
    <3>1. e = "failure" => Takes(H, Ending(H, S, "failure"), Ending(q, T, "failure"))
      BY MoreEnding
    <3> HIDE DEF e
    <3> QED BY <1>6, <3>1 DEF Takes
  <2>3. e # "failure" => Failed(q, T) = Failed(H, S)
    BY <1>6, MoreEnding
  <2>4. Failed(H, S) \subseteq S
    BY DEF Failed
  <2> QED BY <1>2, <2>1, <2>2, <2>3, <2>4 DEF Others
<1>8. Cardinality(Since(q, T, Others(q, T))) = IF e = "failure" THEN c + 1 ELSE 0
  <2>1. CASE e = "failure"
    BY <1>3, <1>7, <2>1, MoreSince
  <2>2. CASE e # "failure"
    BY <1>3, <1>7, <2>2, MoreSince
  <2> QED BY <2>1, <2>2
<1>9. Cardinality(Since(q, T, Ending(q, T, "success")))
        = IF e = "failure" THEN n + 1 ELSE IF e = "success" THEN 0 ELSE n
  <2>1. CASE e = "success"
    <3>1. Len(H) + 1 \in Ending(q, T, "success")
      <4>1. Takes(H, Ending(H, S, "success"), Ending(q, T, "success"))
        BY <2>1, MoreEnding
      <4> QED BY <4>1 DEF Takes
    <3> QED BY <1>3, <2>1, <3>1, MoreSince
  <2>2. CASE e # "success"
    <3>1. Ending(q, T, "success") = Ending(H, S, "success")
      BY <2>2, MoreEnding
    <3>2. CASE e = "failure"
      BY <1>3, <3>1, <3>2, MoreSince
    <3>3. CASE e # "failure"
      BY <1>3, <2>2, <3>1, <3>3, MoreSince
    <3> QED BY <3>2, <3>3
  <2> QED BY <2>1, <2>2
<1>10. Sequel(Updated(s, ts, e), ts, IF e = "success" THEN ts ELSE a, IF e = "failure" THEN ts ELSE f,
              IF e = "failure" THEN c + 1 ELSE 0,
              IF e = "failure" THEN n + 1 ELSE IF e = "success" THEN 0 ELSE n, e)
  <2> HIDE DEF s, l, a, f, c, n, o, ts, e
  <2> QED BY <1>1, UpdatedIs
<1>11. Sequel(SeqOf(q, T), ts, IF e = "success" THEN ts ELSE a, IF e = "failure" THEN ts ELSE f,
              IF e = "failure" THEN c + 1 ELSE 0,
              IF e = "failure" THEN n + 1 ELSE IF e = "success" THEN 0 ELSE n, e)
  <2> HIDE DEF s, l, a, f, c, n, o, ts
  <2> QED BY <1>4, <1>5, <1>6, <1>8, <1>9 DEF SeqOf, Sequel
<1> QED BY <1>10, <1>11 DEF Sequel

LEMMA EmptySequence == \A H : SeqOf(H, {}) = NoSequence
<1> SUFFICES ASSUME NEW H PROVE SeqOf(H, {}) = NoSequence
  OBVIOUS
<1>1. Failed(H, {}) = {} /\ Ending(H, {}, "success") = {}
  BY DEF Failed, Ending
<1>2. \A X : Since(H, {}, X) = {}
  BY <1>1 DEF Since
<1>3. Cardinality({}) = 0
  BY FS_EmptySet
<1>4. LatestOf(H, {}) = -1
  BY DEF LatestOf
<1> QED BY <1>1, <1>2, <1>3, <1>4 DEF SeqOf, NoSequence

(* What is kept of k's events is what came after the first c.              *)
After(H, k, c) == {i \in Touches(H, k) : i > c}
Tracked(k, s, H, lim) ==
  \E c \in 0 .. Len(H) : (lim = 0 => c = 0) /\ s = SeqOf(H, After(H, k, c))

LEMMA TrackedMore ==
  ASSUME NEW k, NEW s, NEW H, NEW lim, Tracked(k, s, H, lim), NEW r, NEW q, OneMore(H, r, q),
         k \in KeysOf(r.event)
  PROVE  Tracked(k, Updated(s, r.ts, r.event.outcome), q, lim)
<1>1. PICK c \in 0 .. Len(H) : (lim = 0 => c = 0) /\ s = SeqOf(H, After(H, k, c))
  BY DEF Tracked
<1> DEFINE S == After(H, k, c)
           T == After(q, k, c)
<1>2. \A i : i \in Touches(q, k) <=> i \in Touches(H, k) \/ i = Len(H) + 1
  <2>1. \A i : i \in Touches(q, k) <=> i \in Touches(H, k) \/ (i = Len(H) + 1 /\ k \in KeysOf(r.event))
    BY OneMoreFacts
  <2> QED BY <2>1
<1>3. Len(H) \in Nat /\ Len(q) = Len(H) + 1
  BY OneMoreFacts DEF OneMore
<1>4. Takes(H, S, T)
  <2>1. S \subseteq 1 .. Len(H)
    BY DEF After, Touches
  <2>2. T = S \cup {Len(H) + 1}
    BY <1>2, <1>3 DEF After
  <2> QED BY <2>1, <2>2 DEF Takes
<1>5. s = SeqOf(H, S)
  BY <1>1
<1> HIDE DEF S
<1>6. SeqOf(q, T) = Updated(s, r.ts, r.event.outcome)
  <2> HIDE DEF T
  <2> QED BY <1>4, <1>5, SequenceMore
<1>7. c \in 0 .. Len(q)
  BY <1>3
<1> QED BY <1>1, <1>6, <1>7 DEF Tracked

LEMMA TrackedOther ==
  ASSUME NEW k, NEW s, NEW H, NEW lim, Tracked(k, s, H, lim), NEW r, NEW q, OneMore(H, r, q),
         k \notin KeysOf(r.event)
  PROVE  Tracked(k, s, q, lim)
<1>1. PICK c \in 0 .. Len(H) : (lim = 0 => c = 0) /\ s = SeqOf(H, After(H, k, c))
  BY DEF Tracked
<1>2. \A i : i \in Touches(q, k) <=> i \in Touches(H, k)
  <2>1. \A i : i \in Touches(q, k) <=> i \in Touches(H, k) \/ (i = Len(H) + 1 /\ k \in KeysOf(r.event))
    BY OneMoreFacts
  <2> QED BY <2>1
<1>3. Len(H) \in Nat /\ Len(q) = Len(H) + 1
  BY OneMoreFacts DEF OneMore
<1> DEFINE S == After(H, k, c)
<1>4. Old(H, S) /\ After(q, k, c) = S
  BY <1>2 DEF Old, After, Touches
<1>5. SeqOf(q, S) = SeqOf(H, S)
  <2> HIDE DEF S
  <2> QED BY <1>4, SameSequence
<1>6. c \in 0 .. Len(q)
  BY <1>3
<1>7. s = SeqOf(q, After(q, k, c))
  BY <1>1, <1>4, <1>5
<1> QED BY <1>1, <1>6, <1>7 DEF Tracked

LEMMA TrackedNone ==
  ASSUME NEW k, NEW H \in Seq(Ingested), NEW lim, lim = 0 => k \notin Known(H)
  PROVE  Tracked(k, NoSequence, H, lim)
<1> DEFINE c == IF lim = 0 THEN 0 ELSE Len(H)
<1>1. c \in 0 .. Len(H) /\ (lim = 0 => c = 0) /\ Len(H) \in Nat
  OBVIOUS
<1>2. After(H, k, c) = {}
  <2>1. CASE lim = 0
    BY <2>1, KnownTouched DEF After
  <2>2. CASE lim # 0
    BY <1>1, <2>2 DEF After, Touches
  <2> QED BY <2>1, <2>2
<1>3. SeqOf(H, After(H, k, c)) = NoSequence
  BY <1>2, EmptySequence
<1> HIDE DEF c
<1> QED BY <1>1, <1>3 DEF Tracked

-----------------------------------------------------------------------------
(* The successes of a user, and those with coordinates.                    *)
Wins(H, u) == {i \in Touches(H, <<"user", u>>) : H[i].event.outcome = "success"}
Located(H, u) == {i \in Wins(H, u) : H[i].event.place # Nowhere}

GeoOf(H, u) ==
  [place |-> IF Wins(H, u) = {} THEN None ELSE H[Top(Wins(H, u))].event.place,
   since |-> LatestOf(H, Located(H, u)),
   from |-> IF Located(H, u) = {} THEN Nowhere ELSE H[Top(Located(H, u))].event.place]

LEMMA UserKey == \A u, e : <<"user", u>> \in KeysOf(e) <=> u = e.user
<1> SUFFICES ASSUME NEW u, NEW e PROVE <<"user", u>> \in KeysOf(e) <=> u = e.user
  OBVIOUS
<1>1. KeysOf(e) = {<<"user", e.user>>, <<"source", e.source>>, <<"pair", e.user, e.source>>}
  BY KeyFacts
<1>2. <<"user", u>> # <<"source", e.source>> /\ <<"user", u>> # <<"pair", e.user, e.source>>
  OBVIOUS
<1>3. <<"user", u>> = <<"user", e.user>> <=> u = e.user
  OBVIOUS
<1> QED BY <1>1, <1>2, <1>3

LEMMA WinsMore ==
  ASSUME NEW H, NEW r, NEW q, OneMore(H, r, q), NEW u
  PROVE  /\ u = r.event.user /\ r.event.outcome = "success" =>
              /\ Takes(H, Wins(H, u), Wins(q, u))
              /\ r.event.place # Nowhere => Takes(H, Located(H, u), Located(q, u))
              /\ r.event.place = Nowhere => Located(q, u) = Located(H, u)
         /\ ~ (u = r.event.user /\ r.event.outcome = "success") =>
              Wins(q, u) = Wins(H, u) /\ Located(q, u) = Located(H, u)
         /\ Old(H, Wins(H, u)) /\ Old(H, Located(H, u))
<1> DEFINE k == <<"user", u>>
<1>1. k \in KeysOf(r.event) <=> u = r.event.user
  BY UserKey
<1> HIDE DEF k
<1>2. \A i : i \in Touches(q, k) <=> i \in Touches(H, k) \/ (i = Len(H) + 1 /\ u = r.event.user)
  <2>1. \A i : i \in Touches(q, k) <=> i \in Touches(H, k) \/ (i = Len(H) + 1 /\ k \in KeysOf(r.event))
    BY OneMoreFacts
  <2> QED BY <1>1, <2>1
<1>3. q[Len(H) + 1] = r /\ Touches(H, k) \subseteq 1 .. Len(H) /\ \A i \in Touches(H, k) : q[i] = H[i]
  BY DEF OneMore, Touches
<1>4. Wins(H, u) = {i \in Touches(H, k) : H[i].event.outcome = "success"}
  BY DEF Wins, k
<1>5. Wins(q, u) = {i \in Touches(q, k) : q[i].event.outcome = "success"}
  BY DEF Wins, k
<1>6. Old(H, Wins(H, u)) /\ Old(H, Located(H, u))
  BY <1>3, <1>4 DEF Old, Located
<1>7. ASSUME u = r.event.user, r.event.outcome = "success"
      PROVE  /\ Takes(H, Wins(H, u), Wins(q, u))
             /\ r.event.place # Nowhere => Takes(H, Located(H, u), Located(q, u))
             /\ r.event.place = Nowhere => Located(q, u) = Located(H, u)
  <2>1. Wins(q, u) = Wins(H, u) \cup {Len(H) + 1}
    BY <1>2, <1>3, <1>4, <1>5, <1>7
  <2>2. \A i \in Wins(H, u) : q[i] = H[i]
    BY <1>3, <1>4
  <2>3. r.event.place # Nowhere => Located(q, u) = Located(H, u) \cup {Len(H) + 1}
    BY <1>3, <2>1, <2>2 DEF Located
  <2>4. r.event.place = Nowhere => Located(q, u) = Located(H, u)
    BY <1>3, <2>1, <2>2 DEF Located
  <2> QED BY <1>6, <2>1, <2>3, <2>4 DEF Takes, Old
<1>8. ASSUME ~ (u = r.event.user /\ r.event.outcome = "success")
      PROVE  Wins(q, u) = Wins(H, u) /\ Located(q, u) = Located(H, u)
  <2>1. Wins(q, u) = Wins(H, u)
    BY <1>2, <1>3, <1>4, <1>5, <1>8
  <2>2. \A i \in Wins(H, u) : q[i] = H[i]
    BY <1>3, <1>4
  <2> QED BY <2>1, <2>2 DEF Located
<1> QED BY <1>6, <1>7, <1>8

LEMMA GeoMore ==
  ASSUME NEW H, NEW r, NEW q, OneMore(H, r, q), NEW u
  PROVE  GeoOf(q, u) = IF u = r.event.user /\ r.event.outcome = "success"
                       THEN Moved(r.ts, r.event.place, GeoOf(H, u)) ELSE GeoOf(H, u)
<1> DEFINE W == Wins(H, u)
           L == Located(H, u)
           W2 == Wins(q, u)
           L2 == Located(q, u)
           y == r.event.place
<1>1. GeoOf(q, u) = [place |-> IF W2 = {} THEN None ELSE q[Top(W2)].event.place,
                     since |-> LatestOf(q, L2),
                     from |-> IF L2 = {} THEN Nowhere ELSE q[Top(L2)].event.place]
  BY DEF GeoOf
<1>2. GeoOf(H, u) = [place |-> IF W = {} THEN None ELSE H[Top(W)].event.place,
                     since |-> LatestOf(H, L),
                     from |-> IF L = {} THEN Nowhere ELSE H[Top(L)].event.place]
  BY DEF GeoOf
<1>3. Old(H, W) /\ Old(H, L)
  BY WinsMore
<1>4. CASE u = r.event.user /\ r.event.outcome = "success"
  <2>1. /\ Takes(H, W, W2) /\ (y # Nowhere => Takes(H, L, L2)) /\ (y = Nowhere => L2 = L)
    BY <1>4, WinsMore
  <2> HIDE DEF W, L, W2, L2
  <2>2. W2 # {} /\ q[Top(W2)] = r
    BY <2>1, NewestIsTop
  <2>3. CASE y # Nowhere
    <3>1. L2 # {} /\ q[Top(L2)] = r /\ LatestOf(q, L2) = r.ts
      BY <2>1, <2>3, NewestIsTop
    <3>2. GeoOf(q, u) = [place |-> y, since |-> r.ts, from |-> y]
      BY <1>1, <2>2, <3>1
    <3> HIDE DEF y
    <3> QED BY <1>4, <2>3, <3>2 DEF Moved, y
  <2>4. CASE y = Nowhere
    <3>1. LatestOf(q, L) = LatestOf(H, L) /\ (L # {} => q[Top(L)] = H[Top(L)])
      BY <1>3, SameLatest
    <3> DEFINE s == LatestOf(H, L)
               f == IF L = {} THEN Nowhere ELSE H[Top(L)].event.place
               p == IF W = {} THEN None ELSE H[Top(W)].event.place
    <3>2. GeoOf(q, u) = [place |-> y, since |-> s, from |-> f]
      BY <1>1, <2>1, <2>2, <2>4, <3>1
    <3>3. GeoOf(H, u) = [place |-> p, since |-> s, from |-> f]
      BY <1>2
    <3> HIDE DEF s, f, p
    <3>4. [GeoOf(H, u) EXCEPT !.place = y] = [place |-> y, since |-> s, from |-> f]
      BY <3>3
    <3> QED BY <1>4, <2>4, <3>2, <3>4 DEF Moved
  <2> QED BY <2>3, <2>4
<1>5. CASE ~ (u = r.event.user /\ r.event.outcome = "success")
  <2>1. W2 = W /\ L2 = L
    BY <1>5, WinsMore
  <2> HIDE DEF W, L, W2, L2
  <2>2. /\ LatestOf(q, L) = LatestOf(H, L) /\ (L # {} => q[Top(L)] = H[Top(L)])
        /\ (W # {} => q[Top(W)] = H[Top(W)])
    BY <1>3, SameLatest
  <2> QED BY <1>1, <1>2, <1>5, <2>1, <2>2
<1> QED BY <1>4, <1>5

-----------------------------------------------------------------------------
(* The sequence states say what came before, all of it when no limit       *)
(* holds, and the places where each user was.                              *)
Tracking ==
  /\ \A k \in DOMAIN sequences : Tracked(k, sequences[k], past, cap)
  /\ cap = 0 => Known(past) \subseteq DOMAIN sequences
Placed == \A u \in User : GeoFor(u) = GeoOf(past, u)

LEMMA SequenceTracked ==
  ASSUME Held, Tracking, NEW k
  PROVE  Tracked(k, SequenceFor(k), past, cap)
<1>1. CASE k \in DOMAIN sequences
  BY <1>1 DEF SequenceFor, Tracking
<1>2. CASE k \notin DOMAIN sequences
  <2>1. (cap = 0 => k \notin Known(past)) /\ past \in Seq(Ingested)
    BY <1>2 DEF Tracking, Held, Typed
  <2>2. Tracked(k, NoSequence, past, cap)
    BY <2>1, TrackedNone
  <2> QED BY <1>2, <2>2 DEF SequenceFor
<1> QED BY <1>1, <1>2

LEMMA IngestTracking == Held /\ Tracking /\ Ingest => Tracking'
<1> SUFFICES ASSUME Held, Tracking, Ingest PROVE Tracking'
  OBVIOUS
<1> DEFINE e == block[done + 1]
           K == KeysOf(e)
           r == [event |-> e, ts |-> now]
<1>1. /\ UNCHANGED cap /\ DOMAIN sequences' = DOMAIN sequences \cup K
      /\ \A k \in DOMAIN sequences' :
           sequences'[k] = IF k \in K THEN Updated(SequenceFor(k), now, e.outcome) ELSE sequences[k]
  BY DEF Ingest
<1>2. OneMore(past, r, past')
  BY IngestGrows
<1>3. r.event = e /\ r.ts = now
  OBVIOUS
<1> HIDE DEF r, e
<1>4. ASSUME NEW k \in DOMAIN sequences' PROVE Tracked(k, sequences'[k], past', cap)
  <2>1. CASE k \in K
    <3>1. Tracked(k, SequenceFor(k), past, cap) /\ k \in KeysOf(r.event)
      BY <1>3, <2>1, SequenceTracked
    <3>2. Tracked(k, Updated(SequenceFor(k), r.ts, r.event.outcome), past', cap)
      BY <1>2, <3>1, TrackedMore
    <3> QED BY <1>1, <1>3, <2>1, <3>2
  <2>2. CASE k \notin K
    <3>1. sequences'[k] = sequences[k] /\ k \in DOMAIN sequences /\ k \notin KeysOf(r.event)
      BY <1>1, <1>3, <2>2
    <3>2. Tracked(k, sequences[k], past, cap)
      BY <3>1 DEF Tracking
    <3>3. Tracked(k, sequences[k], past', cap)
      BY <1>2, <3>1, <3>2, TrackedOther
    <3> QED BY <3>1, <3>3
  <2> QED BY <2>1, <2>2
<1>5. cap = 0 => Known(past') \subseteq DOMAIN sequences'
  <2>1. Known(past') = Known(past) \cup KeysOf(r.event)
    BY <1>2, OneMoreFacts
  <2> QED BY <1>1, <1>3, <2>1 DEF Tracking
<1> QED BY <1>1, <1>4, <1>5 DEF Tracking

LEMMA EmitTracking == Held /\ Tracking /\ Emit => Tracking'
<1> SUFFICES ASSUME Held, Tracking, Emit PROVE Tracking'
  OBVIOUS
<1> DEFINE K == KeysOf(block[done + 1])
<1>1. /\ UNCHANGED <<cap, past>> /\ DOMAIN sequences' = DOMAIN sequences \cup K
      /\ \A k \in DOMAIN sequences' : sequences'[k] = SequenceFor(k)
  BY DEF Emit
<1>2. \A k : Tracked(k, SequenceFor(k), past, cap)
  BY SequenceTracked
<1> QED BY <1>1, <1>2 DEF Tracking

LEMMA OthersTracking ==
  ASSUME Tracking, [NextBlock \/ Expire]_vars PROVE Tracking'
<1>1. CASE NextBlock
  BY <1>1 DEF NextBlock, Tracking
<1>2. CASE Expire
  <2>1. UNCHANGED <<cap, past>> /\ sequences' = Without(sequences, Crowded)
    BY <1>2 DEF Expire
  <2>2. \A k \in DOMAIN sequences' : k \in DOMAIN sequences /\ sequences'[k] = sequences[k]
    BY <2>1 DEF Without
  <2>3. cap = 0 => DOMAIN sequences' = DOMAIN sequences
    BY <2>1 DEF Without, Crowded
  <2> QED BY <2>1, <2>2, <2>3 DEF Tracking
<1>3. CASE UNCHANGED vars
  BY <1>3 DEF Tracking, vars
<1> QED BY <1>1, <1>2, <1>3

LEMMA IngestPlaced == Held /\ Placed /\ Ingest => Placed'
<1> SUFFICES ASSUME Held, Placed, Ingest PROVE Placed'
  OBVIOUS
<1> DEFINE e == block[done + 1]
           r == [event |-> e, ts |-> now]
<1>1. OneMore(past, r, past') /\ e \in Event
  BY IngestGrows
<1>2. r.event = e /\ r.ts = now
  OBVIOUS
<1>3. geo' = IF e.outcome # "success" THEN geo
             ELSE [u \in DOMAIN geo \cup {e.user} |->
                     IF u = e.user THEN Moved(now, e.place, GeoFor(u)) ELSE geo[u]]
  BY DEF Ingest
<1> HIDE DEF r, e
<1> SUFFICES ASSUME NEW u \in User PROVE GeoFor(u)' = GeoOf(past', u)
  BY DEF Placed
<1>4. GeoFor(u)' = IF u = e.user /\ e.outcome = "success" THEN Moved(now, e.place, GeoFor(u)) ELSE GeoFor(u)
  <2>1. CASE e.outcome # "success"
    BY <1>3, <2>1 DEF GeoFor
  <2>2. CASE e.outcome = "success"
    <3>1. DOMAIN geo' = DOMAIN geo \cup {e.user}
      BY <1>3, <2>2
    <3>2. u \in DOMAIN geo' => geo'[u] = IF u = e.user THEN Moved(now, e.place, GeoFor(u)) ELSE geo[u]
      BY <1>3, <2>2
    <3> QED BY <2>2, <3>1, <3>2 DEF GeoFor
  <2> QED BY <2>1, <2>2
<1>5. GeoFor(u) = GeoOf(past, u)
  BY DEF Placed
<1>6. GeoOf(past', u) = IF u = r.event.user /\ r.event.outcome = "success"
                        THEN Moved(r.ts, r.event.place, GeoOf(past, u)) ELSE GeoOf(past, u)
  BY <1>1, GeoMore
<1> QED BY <1>2, <1>4, <1>5, <1>6

LEMMA OthersPlaced ==
  ASSUME Placed, [NextBlock \/ Emit \/ Expire]_vars PROVE Placed'
<1>1. UNCHANGED <<geo, past>>
  BY DEF NextBlock, Emit, Expire, vars
<1> QED BY <1>1 DEF Placed, GeoFor

LEMMA FirstKept == Init => Tracking /\ Placed
<1> SUFFICES ASSUME Init PROVE Tracking /\ Placed
  OBVIOUS
<1>1. past = <<>> /\ DOMAIN sequences = {} /\ DOMAIN geo = {}
  BY DEF Init
<1>2. Known(past) = {} /\ \A k : Touches(past, k) = {}
  BY <1>1 DEF Known, Touches
<1>3. ASSUME NEW u \in User PROVE GeoFor(u) = GeoOf(past, u)
  <2>1. GeoFor(u) = NoGeo
    BY <1>1 DEF GeoFor
  <2>2. Wins(past, u) = {}
    BY <1>2 DEF Wins
  <2>3. Located(past, u) = {}
    BY <2>2 DEF Located
  <2> QED BY <2>1, <2>2, <2>3 DEF GeoOf, NoGeo, LatestOf
<1> QED BY <1>1, <1>2, <1>3 DEF Tracking, Placed

-----------------------------------------------------------------------------
(* What a row says.                                                        *)

Recently(H, k, old) == {i \in Touches(H, k) : H[i].ts >= old}
Sees(k, H, w, t, lim, u) ==
  \E S : /\ S \subseteq Recently(H, k, t - w) /\ (lim = 0 => S = Recently(H, k, t - w))
         /\ \E h : u = Read(AggOf(H, k[1], S, h))

Looks(x, H, t, lim) ==
  /\ x.ts = t /\ x.event \in Event /\ x.geo = Way(GeoOf(H, x.event.user), x.event.place, t)
  /\ \A k \in KeysOf(x.event) :
       /\ Tracked(k, x.before[k], H, lim)
       /\ \A w \in Widths : Sees(k, H, w, t, lim, x.window[k][w])
Rows == row # NoRow => Looks(row, past, now, cap)

LEMMA SharpSees ==
  ASSUME NEW k, NEW b, NEW H, NEW c, NEW p, Lists(k, b, H, c, p), Sorted(H), NEW t \in Int, NEW lim,
         lim = 0 => Forgets(k, H, c, t), NEW w \in Widths, NEW v, Sharp(k, b, H, p, t, v, w)
  PROVE  Sees(k, H, w, t, lim, Read(v))
<1>0. PICK N, L : N = Len(H) /\ L = Len(b.records)
  OBVIOUS
<1>1. /\ N \in Nat /\ L \in Nat /\ p \in [1 .. L -> 1 .. N] /\ c \in 0 .. N
      /\ (\A i, j \in 1 .. L : i < j => p[i] < p[j])
      /\ (\A i : i \in Touches(H, k) /\ i > c <=> \E j \in 1 .. L : p[j] = i)
      /\ \A j \in 1 .. L : b.records[j].ts = H[p[j]].ts
  BY <1>0 DEF Lists, Sorted
<1>2. PICK h \in 0 .. L : /\ v = AggOf(H, k[1], Part(p, h), h)
                          /\ \A j \in 1 .. h : b.records[j].ts < t - w
                          /\ \A j \in h + 1 .. L : b.records[j].ts >= t - w
  BY <1>0 DEF Sharp
<1>3. \A i : i \in Part(p, h) <=> \E j \in h + 1 .. L : p[j] = i
  <2>1. Rising(p, L, N)
    BY <1>1 DEF Rising
  <2> QED BY <2>1, PartFacts
<1>4. \A j \in h + 1 .. L : j \in 1 .. L
  BY <1>1
<1>5. ASSUME NEW i \in Part(p, h) PROVE i \in Recently(H, k, t - w)
  <2>1. PICK j \in h + 1 .. L : p[j] = i
    BY <1>3
  <2>2. i \in Touches(H, k)
    BY <1>1, <1>4, <2>1
  <2>3. H[i].ts >= t - w
    BY <1>1, <1>2, <1>4, <2>1
  <2> QED BY <2>2, <2>3 DEF Recently
<1>6. ASSUME lim = 0, NEW i \in Recently(H, k, t - w) PROVE i \in Part(p, h)
  <2>1. i \in Touches(H, k) /\ H[i].ts >= t - w
    BY <1>6 DEF Recently
  <2>2. i \in 1 .. N /\ H[i].ts \in Nat
    BY <1>0, <2>1, PastFacts DEF Touches, Sorted
  <2>3. i > c
    <3> SUFFICES ASSUME i <= c PROVE FALSE
      BY <1>1, <2>2
    <3>1. H[i].ts < t - MaxWidth
      BY <1>6, <2>1 DEF Forgets
    <3> DEFINE u == H[i].ts
               m == MaxWidth
    <3>2. u < t - m /\ u >= t - w /\ w <= m /\ u \in Nat /\ m \in Nat /\ w \in Nat
      BY <2>1, <2>2, <3>1, Longest, TellsWidths
    <3> HIDE DEF u, m
    <3> QED BY <3>2
  <2>4. PICK j \in 1 .. L : p[j] = i
    BY <1>1, <2>1, <2>3
  <2>5. ~ (j \in 1 .. h)
    <3> SUFFICES ASSUME j \in 1 .. h PROVE FALSE
      OBVIOUS
    <3> DEFINE u == H[i].ts
               x == t - w
    <3>1. u < x /\ u >= x /\ u \in Nat /\ x \in Int
      BY <1>1, <1>2, <2>1, <2>2, <2>4, TellsWidths
    <3> HIDE DEF u, x
    <3> QED BY <3>1
  <2>6. j \in h + 1 .. L
    BY <1>1, <2>5
  <2> QED BY <1>3, <2>4, <2>6
<1> DEFINE S == Part(p, h)
<1>7. S \subseteq Recently(H, k, t - w) /\ (lim = 0 => S = Recently(H, k, t - w))
  BY <1>5, <1>6
<1>8. Read(v) = Read(AggOf(H, k[1], S, h))
  BY <1>2
<1> HIDE DEF S
<1> QED BY <1>7, <1>8 DEF Sees

LEMMA NowSees ==
  ASSUME NEW k, NEW b, NEW H, NEW t \in Int, NEW lim, ToldNow(k, b, H, t, lim), Sorted(H), NEW w \in Widths
  PROVE  Sees(k, H, w, t, lim, Read(b.window[w]))
<1>1. PICK c \in 0 .. Len(H), p \in [1 .. Len(b.records) -> 1 .. Len(H)] :
        /\ Lists(k, b, H, c, p)
        /\ \A v \in Widths : Sharp(k, b, H, p, t, b.window[v], v)
        /\ lim = 0 => Forgets(k, H, c, t)
  BY DEF ToldNow
<1>2. PICK v : Holds(b, w, v)
  BY DEF Holds
<1>3. Lists(k, b, H, c, p) /\ Sharp(k, b, H, p, t, v, w) /\ (lim = 0 => Forgets(k, H, c, t))
  BY <1>1, <1>2 DEF Holds
<1>4. Sees(k, H, w, t, lim, Read(v))
  BY <1>3, SharpSees
<1> QED BY <1>2, <1>4 DEF Holds

LEMMA EmitRows == Held /\ Telling /\ Tracking /\ Placed /\ Emit => Rows'
<1> SUFFICES ASSUME Held, Telling, Tracking, Placed, Emit PROVE Rows'
  OBVIOUS
<1> DEFINE e == block[done + 1]
           read(k) == Advanced(BufferFor(k), now)
<1>1. phase = "emit" /\ UNCHANGED <<cap, now, past>>
  BY DEF Emit
<1>2. row' = [event |-> e, ts |-> now,
              window |-> [k \in KeysOf(e) |-> [w \in Widths |-> Read(read(k).window[w])]],
              before |-> [k \in KeysOf(e) |-> SequenceFor(k)],
              geo |-> Way(GeoFor(e.user), e.place, now)]
  BY DEF Emit
<1>3. e \in Event /\ e.user \in User
  BY <1>1, BlockEvent DEF Held, Event
<1>4. \A k : ToldNow(k, read(k), past, now, cap)
  BY <1>1, EmitReads
<1>5. \A k : Tracked(k, SequenceFor(k), past, cap)
  BY SequenceTracked
<1>6. GeoFor(e.user) = GeoOf(past, e.user)
  BY <1>3 DEF Placed
<1>7. /\ row'.event = e /\ row'.ts = now /\ row'.geo = Way(GeoFor(e.user), e.place, now)
      /\ \A k \in KeysOf(e) : row'.before[k] = SequenceFor(k)
      /\ \A k \in KeysOf(e), w \in Widths : row'.window[k][w] = Read(read(k).window[w])
  BY <1>2
<1> HIDE DEF read, e
<1>8. ASSUME NEW k \in KeysOf(e), NEW w \in Widths
      PROVE  Sees(k, past, w, now, cap, row'.window[k][w])
  <2>1. Sees(k, past, w, now, cap, Read(read(k).window[w]))
    BY <1>4, PastSorted, NowSees
  <2> QED BY <1>7, <2>1
<1>9. Looks(row', past, now, cap)
  BY <1>3, <1>5, <1>6, <1>7, <1>8 DEF Looks
<1> QED BY <1>1, <1>9 DEF Rows

LEMMA OthersRows == Held /\ Rows /\ [NextBlock \/ Ingest \/ Expire]_vars => Rows'
<1> SUFFICES ASSUME Held, Rows, [NextBlock \/ Ingest \/ Expire]_vars PROVE Rows'
  OBVIOUS
<1>1. CASE NextBlock \/ Ingest \/ Expire
  <2>1. row' = NoRow
    BY <1>1 DEF NextBlock, Ingest, Expire, Held, Timed
  <2> QED BY <2>1 DEF Rows, NoRow, None
<1>2. CASE UNCHANGED vars
  BY <1>2 DEF Rows, vars, NoRow, None
<1> QED BY <1>1, <1>2

Kept == Held /\ Telling /\ Tracking /\ Placed /\ Rows

(* The sequence states, the places of the previous successes and the rows  *)
(* follow from the history as well: the inductive invariant of it all.     *)
THEOREM RowsFollow == Spec => []Kept
<1>1. Init => Kept
  <2>1. Init => DOMAIN buffers = {} /\ row = NoRow
    BY DEF Init
  <2> QED BY <2>1, InitHeld, FirstKept DEF Kept, Telling, Rows
<1>2. Kept /\ [Next]_vars => Kept'
  <2> SUFFICES ASSUME Kept, [Next]_vars PROVE Kept'
    OBVIOUS
  <2>1. Held /\ Telling /\ Tracking /\ Placed /\ Rows
    BY DEF Kept
  <2>2. Held'
    BY <2>1, NextBlockHeld, EmitHeld, IngestHeld, ExpireHeld, StutterHeld DEF Next
  <2>3. Telling'
    BY <2>1, EmitTelling, IngestTelling, OthersTelling DEF Next
  <2>4. Tracking'
    BY <2>1, EmitTracking, IngestTracking, OthersTracking DEF Next
  <2>5. Placed'
    BY <2>1, IngestPlaced, OthersPlaced DEF Next
  <2>6. Rows'
    BY <2>1, EmitRows, OthersRows DEF Next
  <2> QED BY <2>2, <2>3, <2>4, <2>5, <2>6 DEF Kept
<1> QED BY <1>1, <1>2, PTL DEF Spec

-----------------------------------------------------------------------------
(* What the reference says, in the terms above.                            *)

LEMMA BeforeIs ==
  ASSUME NEW t, \A i \in 1 .. Len(past) : past[i].ts < t, NEW k
  PROVE  Before(k, t) = Touches(past, k)
  BY DEF Before, Touches

LEMMA ReadIs ==
  ASSUME NEW H, NEW kind, NEW S, NEW h
  PROVE  Read(AggOf(H, kind, S, h)) =
           [n |-> Cardinality(S), failures |-> Cardinality(Failed(H, S)),
            gaps |-> IF S = {} THEN 0 ELSE Cardinality(S) - 1, span |-> Lapse(H, S),
            unique |-> Cardinality(Dimensions(H, kind, S))]
<1> DEFINE n == Cardinality(S)
           f == Cardinality(Failed(H, S))
           g == IF S = {} THEN 0 ELSE Cardinality(S) - 1
           l == Lapse(H, S)
           c == Tally(H, kind, S)
           a == AggOf(H, kind, S, h)
<1>1. a = [head |-> h, n |-> n, failures |-> f, gaps |-> g, span |-> l, counts |-> c]
  BY DEF AggOf
<1>2. DOMAIN c = Dimensions(H, kind, S)
  BY DEF Tally
<1> HIDE DEF n, f, g, l, c
<1>3. a.n = n /\ a.failures = f /\ a.gaps = g /\ a.span = l /\ a.counts = c
  BY <1>1
<1> HIDE DEF a
<1>4. Read(a) = [n |-> n, failures |-> f, gaps |-> g, span |-> l, unique |-> Cardinality(Dimensions(H, kind, S))]
  BY <1>2, <1>3 DEF Read
<1> QED BY <1>4 DEF n, f, g, l, a

(* The first and the last of S lie as far apart as its times.              *)
LEMMA LapseIs ==
  ASSUME NEW H, Sorted(H), NEW S, Old(H, S), S # {}
  PROVE  /\ Lapse(H, S) = (CHOOSE t \in {H[i].ts : i \in S} : \A u \in {H[i].ts : i \in S} : u <= t)
                          - (CHOOSE t \in {H[i].ts : i \in S} : \A u \in {H[i].ts : i \in S} : t <= u)
<1> DEFINE times == {H[i].ts : i \in S}
           x == H[Top(S)].ts
           y == H[Bottom(S)].ts
<1>1. /\ Len(H) \in Nat /\ S \subseteq 1 .. Len(H)
      /\ \A i, j \in 1 .. Len(H) : i <= j => H[i].ts <= H[j].ts
      /\ \A i \in 1 .. Len(H) : H[i].ts \in Nat
  BY PastFacts DEF Sorted, Old
<1>2. Top(S) \in S /\ Bottom(S) \in S /\ \A j \in S : j <= Top(S) /\ Bottom(S) <= j
  BY <1>1, TopFacts, BottomFacts
<1>3. x \in times /\ y \in times /\ \A u \in times : u <= x /\ y <= u /\ u \in Nat
  BY <1>1, <1>2
<1>4. Lapse(H, S) = x - y
  BY DEF Lapse
<1> HIDE DEF times, x, y
<1>5. (CHOOSE t \in times : \A u \in times : u <= t) = x
  <2> DEFINE z == CHOOSE t \in times : \A u \in times : u <= t
  <2>1. z \in times /\ \A u \in times : u <= z
    BY <1>3
  <2>2. z <= x /\ x <= z /\ z \in Nat /\ x \in Nat
    BY <1>3, <2>1
  <2> HIDE DEF z
  <2>3. z = x
    BY <2>2
  <2> QED BY <2>3 DEF z
<1>6. (CHOOSE t \in times : \A u \in times : t <= u) = y
  <2> DEFINE z == CHOOSE t \in times : \A u \in times : t <= u
  <2>1. z \in times /\ \A u \in times : z <= u
    BY <1>3
  <2>2. z <= y /\ y <= z /\ z \in Nat /\ y \in Nat
    BY <1>3, <2>1
  <2> HIDE DEF z
  <2>3. z = y
    BY <2>2
  <2> QED BY <2>3 DEF z
<1> QED BY <1>4, <1>5, <1>6 DEF times

LEMMA WindowIs ==
  ASSUME Sorted(past), NEW t, \A i \in 1 .. Len(past) : past[i].ts < t, NEW k, NEW w, NEW h
  PROVE  TrueWindow(k, w, t) = Read(AggOf(past, k[1], Recently(past, k, t - w), h))
<1> DEFINE S == Recently(past, k, t - w)
           kind == k[1]
           T == {i \in Before(k, t) : past[i].ts >= t - w}
           times == {past[i].ts : i \in T}
           dims == UNION {Dims(kind, past[i].event) : i \in T}
           s == IF T = {} THEN 0 ELSE (CHOOSE v \in times : \A u \in times : u <= v)
                                      - (CHOOSE v \in times : \A u \in times : v <= u)
<1>1. T = S
  BY BeforeIs DEF Recently
<1>2. TrueWindow(k, w, t) =
        [n |-> Cardinality(T), failures |-> Cardinality(Among(T, "failure")),
         gaps |-> IF T = {} THEN 0 ELSE Cardinality(T) - 1, span |-> s, unique |-> Cardinality(dims)]
  BY DEF TrueWindow
<1>3. Old(past, S)
  BY DEF Recently, Touches, Old
<1> HIDE DEF T, S
<1>4. Among(T, "failure") = Failed(past, S)
  BY <1>1 DEF Among, Failed
<1>5. dims = Dimensions(past, kind, S)
  BY <1>1 DEF Dimensions
<1>6. s = Lapse(past, S)
  <2>1. CASE S = {}
    BY <1>1, <2>1 DEF Lapse
  <2>2. CASE S # {}
    <3>1. Lapse(past, S) = (CHOOSE v \in {past[i].ts : i \in S} : \A u \in {past[i].ts : i \in S} : u <= v)
                           - (CHOOSE v \in {past[i].ts : i \in S} : \A u \in {past[i].ts : i \in S} : v <= u)
      BY <1>3, <2>2, LapseIs
    <3> QED BY <1>1, <2>2, <3>1
  <2> QED BY <2>1, <2>2
<1> HIDE DEF dims, s, kind
<1>7. TrueWindow(k, w, t) =
        [n |-> Cardinality(S), failures |-> Cardinality(Failed(past, S)),
         gaps |-> IF S = {} THEN 0 ELSE Cardinality(S) - 1, span |-> Lapse(past, S),
         unique |-> Cardinality(Dimensions(past, kind, S))]
  BY <1>1, <1>2, <1>4, <1>5, <1>6
<1>8. TrueWindow(k, w, t) = Read(AggOf(past, kind, S, h))
  BY <1>7, ReadIs
<1> QED BY <1>8 DEF S, kind

LEMMA SequenceIs ==
  ASSUME NEW t, \A i \in 1 .. Len(past) : past[i].ts < t, NEW k
  PROVE  TrueSequence(k, t) = SeqOf(past, Touches(past, k))
<1> DEFINE S == Before(k, t)
           failed == Among(S, "failure")
           aft(T) == {i \in failed : \A j \in T : j < i}
<1>1. TrueSequence(k, t) =
        [last |-> Latest(S), success |-> Latest(Among(S, "success")), failure |-> Latest(failed),
         consecutive |-> Cardinality(aft(S \ failed)),
         since |-> Cardinality(aft(Among(S, "success"))),
         previous |-> IF S = {} THEN None
                      ELSE past[CHOOSE i \in S : \A j \in S : j <= i].event.outcome]
  BY DEF TrueSequence
<1>2. S = Touches(past, k)
  BY BeforeIs
<1>3. \A T : Latest(T) = LatestOf(past, T)
  BY DEF Latest, LatestOf, Top
<1>4. failed = Failed(past, S) /\ Among(S, "success") = Ending(past, S, "success")
  BY DEF Among, Failed, Ending
<1>5. aft(S \ failed) = Since(past, S, Others(past, S)) /\ aft(Among(S, "success")) = Since(past, S, Ending(past, S, "success"))
  BY <1>4 DEF Since, Others
<1>6. (CHOOSE i \in S : \A j \in S : j <= i) = Top(S)
  BY DEF Top
<1> HIDE DEF S, failed, aft
<1>7. TrueSequence(k, t) = SeqOf(past, S)
  BY <1>1, <1>3, <1>4, <1>5, <1>6 DEF SeqOf
<1> QED BY <1>2, <1>7

(* A place p of a last success, y if there was one among W, and a time s   *)
(* and place f of a last located one, if there was one among L.            *)
Tells(g, p, s, f, W, L, y) ==
  /\ g.place = p /\ g.since = s /\ g.from = f
  /\ (W = {} => p = None) /\ (W # {} => p # None /\ p = y)
  /\ (L = {} => s = -1) /\ (L # {} => s \in Nat)
WayTold(s, f, W, L, y, place, t) ==
  [status |-> CASE W = {} -> "no_prior_success"
                [] W # {} /\ place = Nowhere -> "missing_current_location"
                [] W # {} /\ place # Nowhere /\ L = {} -> "missing_prior_location"
                [] OTHER -> "ok",
   from |-> f,
   elapsed |-> IF L = {} THEN NoGap ELSE t - s,
   changed |-> IF ~ (W # {} /\ y # Nowhere /\ place # Nowhere) THEN "unknown"
               ELSE IF y = place THEN "same" ELSE "changed"]

(* What is said of the way depends on the place p of the last success and  *)
(* on where, if anywhere, a located one was.                               *)
LEMMA WayCases ==
  ASSUME NEW p, NEW s, NEW f, NEW W, NEW L, NEW place, NEW t, NEW y, None # Nowhere,
         NEW g, Tells(g, p, s, f, W, L, y)
  PROVE  Way(g, place, t) = WayTold(s, f, W, L, y, place, t)
<1> DEFINE st == CASE W = {} -> "no_prior_success"
                   [] W # {} /\ place = Nowhere -> "missing_current_location"
                   [] W # {} /\ place # Nowhere /\ L = {} -> "missing_prior_location"
                   [] OTHER -> "ok"
           el == IF L = {} THEN NoGap ELSE t - s
           ch == IF ~ (W # {} /\ y # Nowhere /\ place # Nowhere) THEN "unknown"
                 ELSE IF y = place THEN "same" ELSE "changed"
<1>0. /\ g.place = p /\ g.since = s /\ g.from = f
      /\ (W = {} => p = None) /\ (W # {} => p # None /\ p = y)
      /\ (L = {} => s = -1) /\ (L # {} => s \in Nat)
  BY DEF Tells
<1>1. s < 0 <=> L = {}
  BY <1>0
<1>2. Status(g, place) = st
  <2>1. CASE W = {}
    BY <1>0, <2>1 DEF Status
  <2>2. CASE W # {}
    <3>1. CASE place = Nowhere
      BY <1>0, <2>2, <3>1 DEF Status
    <3>2. CASE place # Nowhere
      BY <1>0, <1>1, <2>2, <3>2 DEF Status
    <3> QED BY <3>1, <3>2
  <2> QED BY <2>1, <2>2
<1>3. (IF g.since < 0 THEN NoGap ELSE t - g.since) = el
  BY <1>0, <1>1
<1>4. Changed(g.place, place) = ch
  <2>1. CASE W = {}
    BY <1>0, <2>1 DEF Changed
  <2>2. CASE W # {}
    BY <1>0, <2>2 DEF Changed
  <2> QED BY <2>1, <2>2
<1> HIDE DEF st, el, ch
<1>5. Way(g, place, t) = [status |-> st, from |-> f, elapsed |-> el, changed |-> ch]
  BY <1>0, <1>2, <1>3, <1>4 DEF Way
<1> QED BY <1>5 DEF st, el, ch, WayTold

LEMMA WayIs ==
  ASSUME Sorted(past), NEW t, \A i \in 1 .. Len(past) : past[i].ts < t, NEW e
  PROVE  TrueWay(e, t) = Way(GeoOf(past, e.user), e.place, t)
<1> DEFINE u == e.user
           k == Key("user", e)
           S == Among(Before(k, t), "success")
           located == {i \in S : past[i].event.place # Nowhere}
           W == Wins(past, u)
           L == Located(past, u)
           y == past[Top(W)].event.place
           p == IF W = {} THEN None ELSE y
           s == LatestOf(past, L)
           f == IF L = {} THEN Nowhere ELSE past[Top(L)].event.place
           place == e.place
           g == GeoOf(past, u)
<1>1. S = W
  <2>1. k = <<"user", u>>
    BY KeyFacts
  <2>2. Before(k, t) = Touches(past, k)
    BY BeforeIs
  <2> QED BY <2>1, <2>2 DEF Among, Wins
<1>2. located = L
  BY <1>1 DEF Located
<1>3. Latest(located) = s
  <2> HIDE DEF located, L
  <2> QED BY <1>2 DEF Latest, LatestOf, Top
<1>4. /\ (CHOOSE i \in S : \A j \in S : j <= i) = Top(W)
      /\ (CHOOSE i \in located : \A j \in located : j <= i) = Top(L)
  BY <1>1, <1>2 DEF Top
<1>5. g.place = p /\ g.since = s /\ g.from = f
  BY DEF GeoOf
<1>6. /\ W \subseteq 1 .. Len(past) /\ L \subseteq 1 .. Len(past) /\ Len(past) \in Nat
      /\ past \in Seq(Ingested)
  BY DEF Wins, Located, Touches, Sorted
<1>7. W # {} => y \in Place \cup {Nowhere}
  <2> SUFFICES ASSUME W # {} PROVE y \in Place \cup {Nowhere}
    OBVIOUS
  <2>1. Top(W) \in 1 .. Len(past)
    BY <1>6, TopFacts
  <2>2. past[Top(W)].event \in Event
    BY <1>6, <2>1, PastFacts
  <2> QED BY <2>2 DEF Event
<1>8. None # Nowhere /\ (W # {} => y # None)
  BY <1>7, FeaturesAssumption
<1>9. (L = {} => s = -1) /\ (L # {} => s \in Nat)
  <2>1. L # {} => Top(L) \in 1 .. Len(past)
    BY <1>6, TopFacts
  <2>2. L # {} => past[Top(L)].ts \in Nat
    BY <1>6, <2>1, PastFacts
  <2> QED BY <2>2 DEF LatestOf
<1>10. TrueWay(e, t) = WayTold(s, f, W, L, y, place, t)
  <2> DEFINE po(T) == past[CHOOSE i \in T : \A j \in T : j <= i].event.place
  <2>1. po(S) = y /\ po(located) = past[Top(L)].event.place
    BY <1>4
  <2>2. TrueWay(e, t) =
         [status |-> CASE S = {} -> "no_prior_success"
                       [] S # {} /\ place = Nowhere -> "missing_current_location"
                       [] S # {} /\ place # Nowhere /\ located = {} -> "missing_prior_location"
                       [] OTHER -> "ok",
          from |-> IF located = {} THEN Nowhere ELSE po(located),
          elapsed |-> IF located = {} THEN NoGap ELSE t - Latest(located),
          changed |-> IF ~ (S # {} /\ po(S) # Nowhere /\ place # Nowhere) THEN "unknown"
                      ELSE IF po(S) = place THEN "same" ELSE "changed"]
    BY DEF TrueWay
  <2> HIDE DEF S, located, W, L, y, s, place, po
  <2> QED BY <1>1, <1>2, <1>3, <2>1, <2>2 DEF WayTold, f
<1>11. Tells(g, p, s, f, W, L, y)
  <2>1. (W = {} => p = None) /\ (W # {} => p # None /\ p = y)
    BY <1>8
  <2> HIDE DEF W, L, y, p, s, f, g
  <2> QED BY <1>5, <1>9, <2>1 DEF Tells
<1> HIDE DEF W, L, y, p, s, f, place, g
<1>12. Way(g, place, t) = TrueWay(e, t)
  BY <1>8, <1>10, <1>11, WayCases
<1> QED BY <1>12 DEF g, place

-----------------------------------------------------------------------------
(* Rows against the reference.                                             *)

LEMMA RowsWhen ==
  ASSUME Kept, row # NoRow
  PROVE  /\ Sorted(past) /\ now \in Int /\ row.ts = now /\ row.event \in Event
         /\ \A i \in 1 .. Len(past) : past[i].ts < now
         /\ row.geo = Way(GeoOf(past, row.event.user), row.event.place, now)
         /\ \A k \in KeysOf(row.event) : Tracked(k, row.before[k], past, cap) /\ k[1] \in Kinds
         /\ \A k \in KeysOf(row.event), w \in Widths : Sees(k, past, w, now, cap, row.window[k][w])
<1>1. Held /\ Looks(row, past, now, cap)
  BY DEF Kept, Rows
<1>2. \A i \in 1 .. Len(past) : past[i].ts < now
  BY <1>1 DEF Held, Timed
<1>3. \A k \in KeysOf(row.event) : k[1] \in Kinds
  BY KeyFacts
<1> QED BY <1>1, <1>2, <1>3, PastSorted DEF Looks

LEMMA NothingForgotten == \A H, k : After(H, k, 0) = Touches(H, k)
<1> SUFFICES ASSUME NEW H, NEW k PROVE After(H, k, 0) = Touches(H, k)
  OBVIOUS
<1>1. \A i \in Touches(H, k) : i > 0
  BY DEF Touches
<1> QED BY <1>1 DEF After

LEMMA LooksBack == Kept => RowsLookBack
<1> SUFFICES ASSUME Kept, row # NoRow
             PROVE  /\ row.geo = TrueWay(row.event, row.ts)
                    /\ cap = 0 => \A k \in KeysOf(row.event) :
                         /\ row.before[k] = TrueSequence(k, row.ts)
                         /\ \A w \in Widths : row.window[k][w] = TrueWindow(k, w, row.ts)
  BY DEF RowsLookBack
<1>1. /\ Sorted(past) /\ row.ts = now
      /\ \A i \in 1 .. Len(past) : past[i].ts < now
      /\ row.geo = Way(GeoOf(past, row.event.user), row.event.place, now)
  BY RowsWhen
<1>2. row.geo = TrueWay(row.event, row.ts)
  BY <1>1, WayIs
<1>3. ASSUME cap = 0, NEW k \in KeysOf(row.event) PROVE row.before[k] = TrueSequence(k, row.ts)
  <2>1. Tracked(k, row.before[k], past, cap)
    BY RowsWhen
  <2>2. row.before[k] = SeqOf(past, After(past, k, 0))
    BY <1>3, <2>1 DEF Tracked
  <2> QED BY <1>1, <2>2, NothingForgotten, SequenceIs
<1>4. ASSUME cap = 0, NEW k \in KeysOf(row.event), NEW w \in Widths
      PROVE  row.window[k][w] = TrueWindow(k, w, row.ts)
  <2> DEFINE u == row.window[k][w]
             R == Recently(past, k, now - w)
  <2>1. Sees(k, past, w, now, cap, u)
    BY RowsWhen
  <2>2. PICK h : u = Read(AggOf(past, k[1], R, h))
    <3> HIDE DEF u
    <3> QED BY <1>4, <2>1 DEF Sees
  <2>3. TrueWindow(k, w, now) = Read(AggOf(past, k[1], R, h))
    <3>1. Sorted(past) /\ \A i \in 1 .. Len(past) : past[i].ts < now
      BY <1>1
    <3> QED BY <3>1, WindowIs
  <2> HIDE DEF u, R
  <2>4. u = TrueWindow(k, w, now)
    BY <2>2, <2>3
  <2> QED BY <1>1, <2>4 DEF u
<1> QED BY <1>2, <1>3, <1>4

-----------------------------------------------------------------------------
(* What is seen of fewer events is less.                                   *)
LEMMA Fewer ==
  ASSUME NEW B, IsFiniteSet(B), NEW A, A \subseteq B
  PROVE  Cardinality(A) <= Cardinality(B)
  BY FS_Subset

LEMMA DimensionsFinite ==
  ASSUME NEW H, NEW S, IsFiniteSet(S), NEW kind \in Kinds
  PROVE  IsFiniteSet(Dimensions(H, kind, S))
<1> DEFINE g == [i \in S |-> Dims(kind, H[i].event)]
           T == {Dims(kind, H[i].event) : i \in S}
<1>1. g \in Surjection(S, T)
  BY DEF Surjection
<1>2. ASSUME NEW D \in T PROVE IsFiniteSet(D)
  <2>1. PICK i \in S : D = Dims(kind, H[i].event)
    OBVIOUS
  <2>2. D = {} \/ \E d : D = {d}
    BY <2>1 DEF Dims, Kinds
  <2> HIDE DEF T
  <2> QED BY <2>2, FS_EmptySet, FS_Singleton
<1>3. Dimensions(H, kind, S) = UNION T
  BY DEF Dimensions
<1> HIDE DEF g, T
<1>4. IsFiniteSet(T)
  BY <1>1, FS_Surjection
<1>5. IsFiniteSet(UNION T)
  BY <1>2, <1>4, FS_UNION
<1> QED BY <1>3, <1>5

LEMMA LapseGrows ==
  ASSUME NEW H, Sorted(H), NEW R, Old(H, R), NEW S, S \subseteq R
  PROVE  Lapse(H, S) <= Lapse(H, R)
<1> DEFINE n == Len(H)
           a == H[Top(S)].ts
           b == H[Bottom(S)].ts
           c == H[Top(R)].ts
           d == H[Bottom(R)].ts
<1>1. n \in Nat /\ R \subseteq 1 .. n /\ \A i, j \in 1 .. n : i <= j => H[i].ts <= H[j].ts
  BY DEF Sorted, Old
<1>2. \A i \in 1 .. n : H[i].ts \in Nat
  BY PastFacts DEF Sorted
<1> HIDE DEF n
<1>3. CASE R = {}
  BY <1>3 DEF Lapse
<1>4. CASE R # {}
  <2>1. Top(R) \in R /\ Bottom(R) \in R /\ \A j \in R : j <= Top(R) /\ Bottom(R) <= j
    BY <1>1, <1>4, TopFacts, BottomFacts
  <2>2. c \in Nat /\ d \in Nat
    BY <1>1, <1>2, <2>1
  <2>3. Lapse(H, R) = c - d
    BY <1>4 DEF Lapse
  <2>4. CASE S = {}
    <3>1. Lapse(H, S) = 0
      BY <2>4 DEF Lapse
    <3>2. d <= c
      BY <1>1, <2>1
    <3> HIDE DEF c, d
    <3> QED BY <2>2, <2>3, <3>1, <3>2
  <2>5. CASE S # {}
    <3>1. S \subseteq 1 .. n
      BY <1>1
    <3>2. Top(S) \in S /\ Bottom(S) \in S
      BY <1>1, <2>5, <3>1, TopFacts, BottomFacts
    <3>3. a \in Nat /\ b \in Nat
      BY <1>2, <3>1, <3>2
    <3>4. a <= c
      BY <1>1, <2>1, <3>1, <3>2
    <3>5. d <= b
      BY <1>1, <2>1, <3>1, <3>2
    <3>6. Lapse(H, S) = a - b
      BY <2>5 DEF Lapse
    <3> HIDE DEF a, b, c, d
    <3> QED BY <2>2, <2>3, <3>3, <3>4, <3>5, <3>6
  <2> QED BY <2>4, <2>5
<1> QED BY <1>3, <1>4

LEMMA ReadLess ==
  ASSUME NEW H, Sorted(H), NEW R, Old(H, R), NEW S, S \subseteq R, NEW kind \in Kinds, NEW h, NEW g
  PROVE  LET told == Read(AggOf(H, kind, S, h))
             true == Read(AggOf(H, kind, R, g))
         IN  /\ told.n <= true.n /\ told.failures <= true.failures
             /\ told.span <= true.span /\ told.unique <= true.unique
<1> DEFINE told == Read(AggOf(H, kind, S, h))
           true == Read(AggOf(H, kind, R, g))
<1>1. IsFiniteSet(R)
  <2>1. R \subseteq 1 .. Len(H) /\ Len(H) \in Nat
    BY DEF Old, Sorted
  <2> QED BY <2>1, PartFinite
<1>2. Cardinality(S) <= Cardinality(R)
  BY <1>1, Fewer
<1>3. Cardinality(Failed(H, S)) <= Cardinality(Failed(H, R))
  <2> DEFINE A == Failed(H, S)
             B == Failed(H, R)
  <2>1. A \subseteq B /\ B \subseteq R
    BY DEF Failed
  <2> HIDE DEF A, B
  <2>2. IsFiniteSet(B)
    BY <1>1, <2>1, FS_Subset
  <2>3. Cardinality(A) <= Cardinality(B)
    BY <2>1, <2>2, Fewer
  <2> QED BY <2>3 DEF A, B
<1>4. Lapse(H, S) <= Lapse(H, R)
  BY LapseGrows
<1>5. Cardinality(Dimensions(H, kind, S)) <= Cardinality(Dimensions(H, kind, R))
  <2> DEFINE A == Dimensions(H, kind, S)
             B == Dimensions(H, kind, R)
  <2>1. A \subseteq B
    BY DEF Dimensions
  <2>2. IsFiniteSet(B)
    BY <1>1, DimensionsFinite
  <2> HIDE DEF A, B
  <2>3. Cardinality(A) <= Cardinality(B)
    BY <2>1, <2>2, Fewer
  <2> QED BY <2>3 DEF A, B
<1>6. /\ told.n = Cardinality(S) /\ told.failures = Cardinality(Failed(H, S))
      /\ told.span = Lapse(H, S) /\ told.unique = Cardinality(Dimensions(H, kind, S))
  BY ReadIs
<1>7. /\ true.n = Cardinality(R) /\ true.failures = Cardinality(Failed(H, R))
      /\ true.span = Lapse(H, R) /\ true.unique = Cardinality(Dimensions(H, kind, R))
  BY ReadIs
<1> HIDE DEF told, true
<1>8. /\ told.n <= true.n /\ told.failures <= true.failures
      /\ told.span <= true.span /\ told.unique <= true.unique
  BY <1>2, <1>3, <1>4, <1>5, <1>6, <1>7
<1> QED BY <1>8 DEF told, true

(* Of the later events only, the failures at the end are no more, and the  *)
(* last one is the last of all.                                            *)
LEMMA LaterLess ==
  ASSUME NEW H, Sorted(H), NEW k, NEW c \in 0 .. Len(H)
  PROVE  /\ SeqOf(H, After(H, k, c)).consecutive <= SeqOf(H, Touches(H, k)).consecutive
         /\ SeqOf(H, After(H, k, c)).last \in {-1, SeqOf(H, Touches(H, k)).last}
<1> DEFINE n == Len(H)
           S == After(H, k, c)
           R == Touches(H, k)
<1>1. n \in Nat /\ c \in 0 .. n /\ R \subseteq 1 .. n /\ \A i : i \in S <=> i \in R /\ i > c
  BY DEF Sorted, Touches, After
<1> HIDE DEF n, S, R
<1>2. S \subseteq R /\ S \subseteq 1 .. n
  BY <1>1
<1>3. Cardinality(Since(H, S, Others(H, S))) <= Cardinality(Since(H, R, Others(H, R)))
  <2> DEFINE A == Since(H, S, Others(H, S))
             B == Since(H, R, Others(H, R))
  <2>1. ASSUME NEW i \in A PROVE i \in B
    <3>1. i \in Failed(H, S) /\ i \in S /\ i \in Failed(H, R) /\ \A j \in Others(H, S) : j < i
      BY <1>2 DEF Since, Failed
    <3>2. ASSUME NEW j \in Others(H, R) PROVE j < i
      <4>1. j \in R /\ j \notin Failed(H, R)
        BY DEF Others
      <4>2. CASE j > c
        <5>1. j \in S /\ j \notin Failed(H, S)
          BY <1>1, <4>1, <4>2 DEF Failed
        <5> QED BY <3>1, <5>1 DEF Others
      <4>3. CASE ~ (j > c)
        <5>1. j \in 1 .. n /\ i \in 1 .. n /\ i > c
          BY <1>1, <1>2, <3>1, <4>1
        <5> QED BY <1>1, <4>3, <5>1
      <4> QED BY <4>2, <4>3
    <3> QED BY <3>1, <3>2 DEF Since
  <2>2. B \subseteq 1 .. n
    BY <1>1 DEF Since, Failed
  <2>3. A \subseteq B
    BY <2>1
  <2> HIDE DEF A, B
  <2>4. IsFiniteSet(B)
    BY <1>1, <2>2, PartFinite
  <2>5. Cardinality(A) <= Cardinality(B)
    BY <2>3, <2>4, Fewer
  <2> QED BY <2>5 DEF A, B
<1>4. LatestOf(H, S) \in {-1, LatestOf(H, R)}
  <2>1. CASE S = {}
    BY <2>1 DEF LatestOf
  <2>2. CASE S # {}
    <3>1. R # {}
      BY <1>2, <2>2
    <3>2. /\ Top(S) \in S /\ \A j \in S : j <= Top(S)
      BY <1>1, <1>2, <2>2, TopFacts
    <3>3. /\ Top(S) \in R /\ Top(S) > c /\ Top(S) \in 1 .. n
      BY <1>1, <1>2, <3>2
    <3>4. ASSUME NEW j \in R PROVE j <= Top(S)
      <4>1. CASE j > c
        BY <1>1, <3>2, <4>1
      <4>2. CASE ~ (j > c)
        <5> DEFINE m == Top(S)
        <5>1. j \in 1 .. n /\ m \in 1 .. n /\ m > c /\ c \in 0 .. n
          BY <1>1, <3>3
        <5> HIDE DEF m
        <5>2. j <= m
          BY <1>1, <4>2, <5>1
        <5> QED BY <5>2 DEF m
      <4> QED BY <4>1, <4>2
    <3> DEFINE m == Top(S)
    <3>5. m \in R /\ \A j \in R : j <= m
      BY <3>3, <3>4
    <3> HIDE DEF m
    <3>6. Top(R) = m
      BY <1>1, <3>5, TopIs
    <3> QED BY <2>2, <3>1, <3>6 DEF LatestOf, m
  <2> QED BY <2>1, <2>2
<1>5. /\ SeqOf(H, S).consecutive = Cardinality(Since(H, S, Others(H, S)))
      /\ SeqOf(H, R).consecutive = Cardinality(Since(H, R, Others(H, R)))
      /\ SeqOf(H, S).last = LatestOf(H, S) /\ SeqOf(H, R).last = LatestOf(H, R)
  BY DEF SeqOf
<1> HIDE DEF n
<1>6. /\ SeqOf(H, S).consecutive <= SeqOf(H, R).consecutive
      /\ SeqOf(H, S).last \in {-1, SeqOf(H, R).last}
  BY <1>3, <1>4, <1>5
<1> QED BY <1>6 DEF S, R

LEMMA Forgetful == Kept => EvictionOnlyForgets
<1> SUFFICES ASSUME Kept, row # NoRow, NEW k \in KeysOf(row.event), NEW w \in Widths
             PROVE  LET told == row.window[k][w]
                        true == TrueWindow(k, w, row.ts)
                    IN /\ told.n <= true.n /\ told.failures <= true.failures
                       /\ told.span <= true.span /\ told.unique <= true.unique
                       /\ row.before[k].consecutive <= TrueSequence(k, row.ts).consecutive
                       /\ row.before[k].last \in {-1, TrueSequence(k, row.ts).last}
  BY DEF EvictionOnlyForgets
<1> DEFINE u == row.window[k][w]
           v == TrueWindow(k, w, row.ts)
           s == row.before[k]
           z == TrueSequence(k, row.ts)
<1>1. /\ Sorted(past) /\ row.ts = now
      /\ \A i \in 1 .. Len(past) : past[i].ts < now
      /\ Tracked(k, s, past, cap) /\ k[1] \in Kinds
      /\ Sees(k, past, w, now, cap, u)
  BY RowsWhen
<1>2. u.n <= v.n /\ u.failures <= v.failures /\ u.span <= v.span /\ u.unique <= v.unique
  <2> DEFINE R == Recently(past, k, now - w)
  <2>1. PICK S, h : S \subseteq R /\ u = Read(AggOf(past, k[1], S, h))
    <3> HIDE DEF u
    <3> QED BY <1>1 DEF Sees
  <2>2. v = Read(AggOf(past, k[1], R, h))
    BY <1>1, WindowIs
  <2>3. Old(past, R)
    BY DEF Old, Recently, Touches
  <2> HIDE DEF u, v, R
  <2> QED BY <1>1, <2>1, <2>2, <2>3, ReadLess
<1>3. s.consecutive <= z.consecutive /\ s.last \in {-1, z.last}
  <2>1. PICK c \in 0 .. Len(past) : s = SeqOf(past, After(past, k, c))
    <3> HIDE DEF s
    <3> QED BY <1>1 DEF Tracked
  <2>2. z = SeqOf(past, Touches(past, k))
    BY <1>1, SequenceIs
  <2> HIDE DEF s, z
  <2> QED BY <1>1, <2>1, <2>2, LaterLess
<1> QED BY <1>2, <1>3

(* RowsLookBack: without a limit every row says what the definitions give  *)
(* on the strictly earlier events, after any number of slides, compactions *)
(* and expiries; the way from the previous success under a limit as well.  *)
THEOREM RowsAreTrue == Spec => []RowsLookBack
  BY RowsFollow, LooksBack, PTL

(* EvictionOnlyForgets: under a limit no count, sum or failure run of a    *)
(* row is above the true one, and the last touch is the true one or none.  *)
THEOREM OnlyForgets == Spec => []EvictionOnlyForgets
  BY RowsFollow, Forgetful, PTL

=============================================================================
