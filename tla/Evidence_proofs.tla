--------------------------- MODULE Evidence_proofs ---------------------------
(***************************************************************************)
(* Proofs about Evidence, for any artifacts and any derivation between     *)
(* them, any bodies and any number of publishers, killed anywhere.  What   *)
(* rests on a publisher's staging directory being its own assumes that no  *)
(* two publishers work on one artifact at a time (Exclusive).              *)
(***************************************************************************)
EXTENDS Evidence, TLAPS

USE ChainAssumption

Kinds == {"run", "selection", "freeze", "evaluation"}

USE DEF Kinds

-----------------------------------------------------------------------------
(* Two publishers at work are at work on two artifacts.                    *)
Apart ==
  \A p, q \in Publisher : p # q /\ Busy(p) /\ Busy(q) => Art(p) # Art(q)

(* What a publisher at work has staged so far.                             *)
Progress(p) ==
  /\ pub[p].pc = "writing" => stage[Art(p)] = Empty
  /\ pub[p].pc = "opening" =>
       stage[Art(p)] = [body |-> pub[p].body, receipt |-> Absent]
  /\ pub[p].pc = "filling" =>
       stage[Art(p)] = [body |-> pub[p].body, receipt |-> Torn]
  /\ pub[p].pc \in {"verifying", "promoting"} =>
       stage[Art(p)] = [body |-> pub[p].body, receipt |-> pub[p].body]

StagedByOne == \A p \in Publisher : Progress(p)

(* A publisher that is past the rename finds its evidence published.       *)
Found(p) ==
  Art(p) \notin Unfitted =>
    dir[Art(p)] # Absent /\ dir[Art(p)].receipt = pub[p].body

Honest ==
  \A p \in Publisher :
    /\ pub[p].pc = "indexing" => Found(p)
    /\ pub[p].pc = "published" => Found(p) /\ pub[p].body \in index[Art(p)]

Whole == Apart /\ StagedByOne /\ PublishedWhole

(* Whatever there is of an artifact, what it is derived from is usable.    *)
Derivable(a) == \A n \in Needs[a] : Usable(n)

Chain ==
  /\ \A a \in Artifact :
       dir[a] # Absent \/ stage[a] # Absent \/ index[a] # {} => Derivable(a)
  /\ \A p \in Publisher : pub[p].pc # "idle" => Derivable(Art(p))
  /\ \A h \in walk.held : Derivable(h[1])

-----------------------------------------------------------------------------
Stages ==
  {"clearing", "making", "writing", "opening", "filling", "verifying",
   "promoting", "indexing", "published"}

Job == [art : Artifact, body : Body, pc : Stages]

Tree0 == [body : Body \cup {Absent}, receipt : Body \cup {Absent, Torn}]

(* A publisher that is not idle is at work on an artifact.                 *)
LEMMA JobShape ==
  ASSUME TypeOK, NEW p \in Publisher, pub[p].pc # "idle"
  PROVE  pub[p] \in Job
  BY DEF TypeOK, Job, Stages, Idle

(* Moving on keeps the type and everything but the position.               *)
LEMMA Moved ==
  ASSUME TypeOK, NEW p \in Publisher, pub[p].pc # "idle",
         NEW pc \in Stages, Move(p, pc)
  PROVE  /\ pub' \in [Publisher -> {Idle} \cup Job]
         /\ pub'[p] = [art |-> pub[p].art, body |-> pub[p].body, pc |-> pc]
         /\ \A q \in Publisher \ {p} : pub'[q] = pub[q]
  <1>1. pub[p] \in Job
    BY JobShape
  <1>2. pub' = [pub EXCEPT ![p] = [pub[p] EXCEPT !.pc = pc]]
    BY DEF Move
  <1>3. [pub[p] EXCEPT !.pc = pc] =
          [art |-> pub[p].art, body |-> pub[p].body, pc |-> pc]
    BY <1>1 DEF Job
  <1>4. [pub[p] EXCEPT !.pc = pc] \in Job
    BY <1>1 DEF Job
  <1>5. pub \in [Publisher -> {Idle} \cup Job]
    BY DEF TypeOK, Job, Stages
  <1>6. QED
    BY <1>2, <1>3, <1>4, <1>5

(* A refused or killed publisher is idle again, the others are as before.  *)
LEMMA RefusedShape ==
  ASSUME TypeOK, NEW p \in Publisher, Refused(p)
  PROVE  /\ pub' \in [Publisher -> {Idle} \cup Job]
         /\ pub'[p] = Idle
         /\ \A q \in Publisher \ {p} : pub'[q] = pub[q]
  <1>1. pub \in [Publisher -> {Idle} \cup Job]
    BY DEF TypeOK, Job, Stages
  <1>2. QED
    BY <1>1 DEF Refused

(* What a publisher's step does to its staging directory.                  *)
LEMMA StagedShape ==
  ASSUME TypeOK, NEW p \in Publisher, pub[p].pc # "idle",
         NEW tree \in {Absent} \cup Tree0, Staged(p, tree)
  PROVE  /\ stage' \in [Artifact -> {Absent} \cup Tree0]
         /\ stage'[Art(p)] = tree
         /\ \A a \in Artifact \ {Art(p)} : stage'[a] = stage[a]
  <1>1. Art(p) \in Artifact
    BY JobShape DEF Job, Art
  <1>2. stage \in [Artifact -> {Absent} \cup Tree0]
    BY DEF TypeOK, TreeType, Tree0
  <1>3. QED
    BY <1>1, <1>2 DEF Staged

(* The type of the reconciliation's position.                              *)
WalkType ==
  [pc : {"rest", "walking", "holding"},
   todo : SUBSET ({"staging", "published"} \X Artifact),
   held : SUBSET (Artifact \X Body)]

LEMMA TypeParts ==
  TypeOK <=>
    /\ dir \in [Artifact -> {Absent} \cup Tree0]
    /\ stage \in [Artifact -> {Absent} \cup Tree0]
    /\ index \in [Artifact -> SUBSET Body]
    /\ pub \in [Publisher -> {Idle} \cup Job]
    /\ walk \in WalkType
  BY DEF TypeOK, TreeType, Tree0, Job, Stages, WalkType

LEMMA TypePartsNext ==
  TypeOK' <=>
    /\ dir' \in [Artifact -> {Absent} \cup Tree0]
    /\ stage' \in [Artifact -> {Absent} \cup Tree0]
    /\ index' \in [Artifact -> SUBSET Body]
    /\ pub' \in [Publisher -> {Idle} \cup Job]
    /\ walk' \in WalkType
  BY DEF TypeOK, TreeType, Tree0, Job, Stages, WalkType

-----------------------------------------------------------------------------
(* The shape of each step of a publisher: where it was, where it goes, and *)
(* what it does to its own staging directory.                              *)

Goes(p, pc) ==
  /\ pub' \in [Publisher -> {Idle} \cup Job]
  /\ pub'[p] = [art |-> pub[p].art, body |-> pub[p].body, pc |-> pc]
  /\ \A q \in Publisher \ {p} : pub'[q] = pub[q]

Quits(p) ==
  /\ pub' \in [Publisher -> {Idle} \cup Job]
  /\ pub'[p] = Idle
  /\ \A q \in Publisher \ {p} : pub'[q] = pub[q]

Puts(p, tree) ==
  /\ stage' \in [Artifact -> {Absent} \cup Tree0]
  /\ stage'[Art(p)] = tree
  /\ \A a \in Artifact \ {Art(p)} : stage'[a] = stage[a]

Working == Stages \ {"published"}

LEMMA StagedTree ==
  ASSUME TypeOK, NEW p \in Publisher, pub[p].pc # "idle",
         stage[Art(p)] # Absent
  PROVE  stage[Art(p)] \in Tree0 /\ pub[p].body \in Body
  <1>1. pub[p] \in Job
    BY JobShape
  <1>2. QED
    BY <1>1, TypeParts DEF Job, Art

(* Steps that only stage.                                                  *)
LEMMA StagingShape ==
  ASSUME TypeOK, NEW p \in Publisher,
         \/ Clear(p) \/ Make(p) \/ WriteFiles(p) \/ OpenReceipt(p)
         \/ FillReceipt(p) \/ Verify(p) \/ StepFails(p)
  PROVE  /\ UNCHANGED <<dir, index, walk>>
         /\ \/ /\ pub[p].pc = "clearing" /\ Goes(p, "making")
               /\ Puts(p, Absent)
            \/ /\ pub[p].pc = "making" /\ Goes(p, "writing")
               /\ Puts(p, Empty)
            \/ /\ pub[p].pc = "making" /\ Quits(p)
               /\ UNCHANGED stage
            \/ /\ pub[p].pc \in {"writing", "opening", "filling", "verifying", "promoting"}
               /\ Quits(p) /\ Puts(p, Absent)
            \/ /\ pub[p].pc = "writing" /\ Goes(p, "opening")
               /\ stage[Art(p)] # Absent
               /\ Puts(p, [stage[Art(p)] EXCEPT !.body = pub[p].body])
            \/ /\ pub[p].pc = "opening" /\ Goes(p, "filling")
               /\ stage[Art(p)] # Absent
               /\ Puts(p, [stage[Art(p)] EXCEPT !.receipt = Torn])
            \/ /\ pub[p].pc = "filling" /\ Goes(p, "verifying")
               /\ stage[Art(p)] # Absent
               /\ Puts(p, [stage[Art(p)] EXCEPT !.receipt = pub[p].body])
            \/ /\ pub[p].pc = "verifying" /\ Goes(p, "promoting")
               /\ UNCHANGED stage
  <1>1. CASE Clear(p)
    <2>1. Goes(p, "making")
      BY <1>1, Moved DEF Clear, Goes, Stages
    <2>2. Puts(p, Absent)
      BY <1>1, StagedShape DEF Clear, Puts
    <2>3. QED
      BY <1>1, <2>1, <2>2 DEF Clear
  <1>2. CASE Make(p)
    <2>1. CASE stage[Art(p)] = Absent
      <3>1. Move(p, "writing") /\ Staged(p, Empty)
        BY <1>2, <2>1 DEF Make
      <3>2. Goes(p, "writing")
        BY <1>2, <3>1, Moved DEF Make, Goes, Stages
      <3>3. Puts(p, Empty)
        BY <1>2, <3>1, StagedShape DEF Make, Puts, Empty, Tree0
      <3>4. QED
        BY <1>2, <3>2, <3>3 DEF Make
    <2>2. CASE stage[Art(p)] # Absent
      BY <1>2, <2>2, RefusedShape DEF Make, Quits
    <2>3. QED
      BY <2>1, <2>2
  <1>3. CASE WriteFiles(p)
    <2>1. Goes(p, "opening")
      BY <1>3, Moved DEF WriteFiles, Goes, Stages
    <2>2. [stage[Art(p)] EXCEPT !.body = pub[p].body] \in Tree0
      BY <1>3, StagedTree DEF WriteFiles, Tree0
    <2>3. Puts(p, [stage[Art(p)] EXCEPT !.body = pub[p].body])
      BY <1>3, <2>2, StagedShape DEF WriteFiles, Puts
    <2>4. QED
      BY <1>3, <2>1, <2>3 DEF WriteFiles
  <1>4. CASE OpenReceipt(p)
    <2>1. Goes(p, "filling")
      BY <1>4, Moved DEF OpenReceipt, Goes, Stages
    <2>2. [stage[Art(p)] EXCEPT !.receipt = Torn] \in Tree0
      BY <1>4, StagedTree DEF OpenReceipt, Tree0
    <2>3. Puts(p, [stage[Art(p)] EXCEPT !.receipt = Torn])
      BY <1>4, <2>2, StagedShape DEF OpenReceipt, Puts
    <2>4. QED
      BY <1>4, <2>1, <2>3 DEF OpenReceipt
  <1>5. CASE FillReceipt(p)
    <2>1. Goes(p, "verifying")
      BY <1>5, Moved DEF FillReceipt, Goes, Stages
    <2>2. [stage[Art(p)] EXCEPT !.receipt = pub[p].body] \in Tree0
      BY <1>5, StagedTree DEF FillReceipt, Tree0
    <2>3. Puts(p, [stage[Art(p)] EXCEPT !.receipt = pub[p].body])
      BY <1>5, <2>2, StagedShape DEF FillReceipt, Puts
    <2>4. QED
      BY <1>5, <2>1, <2>3 DEF FillReceipt
  <1>6. CASE Verify(p)
    <2>1. Goes(p, "promoting")
      BY <1>6, Moved DEF Verify, Goes, Stages
    <2>2. QED
      BY <1>6, <2>1 DEF Verify
  <1>7. CASE StepFails(p)
    <2>1. Quits(p)
      BY <1>7, RefusedShape DEF StepFails, Quits
    <2>2. Puts(p, Absent)
      BY <1>7, StagedShape DEF StepFails, Puts
    <2>3. QED
      BY <1>7, <2>1, <2>2 DEF StepFails
  <1>8. QED
    BY <1>1, <1>2, <1>3, <1>4, <1>5, <1>6, <1>7

LEMMA PromoteShape ==
  ASSUME TypeOK, NEW p \in Publisher, Promote(p)
  PROVE  /\ pub[p].pc = "promoting" /\ Goes(p, "indexing") /\ Puts(p, Absent)
         /\ UNCHANGED <<index, walk>>
         /\ stage[Art(p)] # Absent /\ dir[Art(p)] = Absent
         /\ dir' \in [Artifact -> {Absent} \cup Tree0]
         /\ dir'[Art(p)] = stage[Art(p)]
         /\ \A a \in Artifact \ {Art(p)} : dir'[a] = dir[a]
  <1>1. Goes(p, "indexing")
    BY Moved DEF Promote, Goes, Stages
  <1>2. Puts(p, Absent)
    BY StagedShape DEF Promote, Puts
  <1>3. stage[Art(p)] \in Tree0 /\ Art(p) \in Artifact
    BY StagedTree, JobShape DEF Promote, Job, Art
  <1>4. QED
    BY <1>1, <1>2, <1>3, TypeParts DEF Promote

LEMMA IndexShape ==
  ASSUME TypeOK, NEW p \in Publisher, Index(p)
  PROVE  /\ pub[p].pc = "indexing"
         /\ UNCHANGED <<dir, stage, walk>>
         /\ \/ Quits(p) /\ UNCHANGED index
            \/ /\ Goes(p, "published")
               /\ index' \in [Artifact -> SUBSET Body]
               /\ index'[Art(p)] = index[Art(p)] \cup {pub[p].body}
               /\ \A a \in Artifact \ {Art(p)} : index'[a] = index[a]
  <1>1. CASE Refused(p) /\ UNCHANGED index
    BY <1>1, RefusedShape DEF Index, Quits
  <1>2. CASE /\ index' = [index EXCEPT ![Art(p)] = @ \cup {pub[p].body}]
             /\ Move(p, "published")
    <2>1. Goes(p, "published")
      BY <1>2, Moved DEF Index, Goes, Stages
    <2>2. Art(p) \in Artifact /\ pub[p].body \in Body
      BY JobShape DEF Index, Job, Art
    <2>3. QED
      BY <1>2, <2>1, <2>2, TypeParts DEF Index
  <1>3. QED
    BY <1>1, <1>2 DEF Index

LEMMA PublishShape ==
  ASSUME TypeOK, NEW p \in Publisher, NEW a \in Artifact, NEW b \in Body,
         Publish(p, a, b)
  PROVE  /\ UNCHANGED <<dir, stage, index, walk>>
         /\ ~ Busy(p)
         /\ Exclusive => \A q \in Publisher : Busy(q) => pub[q].art # a
         /\ \/ Quits(p)
            \/ /\ ~ Refuses(a, b)
               /\ pub' \in [Publisher -> {Idle} \cup Job]
               /\ \/ pub'[p] = [art |-> a, body |-> b, pc |-> "clearing"]
                  \/ /\ pub'[p] = [art |-> a, body |-> b, pc |-> "indexing"]
                     /\ a \in Unfitted \/ dir[a] # Absent
               /\ \A q \in Publisher \ {p} : pub'[q] = pub[q]
  <1>1. CASE Refused(p)
    BY <1>1, RefusedShape DEF Publish, Quits
  <1>2. CASE ~ Refuses(a, b) /\ ~ Refused(p)
    <2>1. PICK pc \in {"clearing", "indexing"} :
            /\ pub' = [pub EXCEPT ![p] = [art |-> a, body |-> b, pc |-> pc]]
            /\ pc = "indexing" => a \in Unfitted \/ dir[a] # Absent
      BY <1>2 DEF Publish
    <2>2. [art |-> a, body |-> b, pc |-> pc] \in Job
      BY <2>1 DEF Job, Stages
    <2>3. QED
      BY <1>2, <2>1, <2>2, TypeParts DEF Publish
  <1>3. QED
    BY <1>1, <1>2 DEF Publish

LEMMA CrashShape ==
  ASSUME TypeOK, NEW p \in Publisher, Crash(p)
  PROVE  Quits(p) /\ UNCHANGED <<dir, stage, index, walk>>
  BY RefusedShape DEF Crash, Quits

-----------------------------------------------------------------------------
(* The shape of each step of a reconciliation.                             *)

LEMMA HeldShape ==
  ASSUME TypeOK,
         (\E w \in {"staging", "published"} \X Artifact : Visit(w))
           \/ WalkEnds \/ (\E k \in Kinds : Reconcile(k))
  PROVE  /\ UNCHANGED <<dir, stage, index, pub>>
         /\ walk' \in WalkType
         /\ \A h \in walk'.held :
              h \in walk.held \/ stage[h[1]] # Absent \/ dir[h[1]] # Absent
  <1>1. ASSUME NEW w \in {"staging", "published"} \X Artifact, Visit(w)
        PROVE  /\ walk' \in WalkType
               /\ \A h \in walk'.held :
                    h \in walk.held \/ stage[h[1]] # Absent \/ dir[h[1]] # Absent
    <2>1. CASE walk' = AtRest
      BY <2>1 DEF AtRest, WalkType
    <2>2. CASE walk' = [walk EXCEPT !.todo = @ \ {w}]
      <3>1. walk'.held = walk.held /\ walk' \in WalkType
        BY <2>2, TypeParts DEF WalkType
      <3>2. QED
        BY <3>1
    <2>3. CASE /\ Receipt(w) # Absent /\ ~ Unreadable(w)
               /\ walk' = [pc |-> "holding", todo |-> walk.todo \ {w},
                           held |-> {<<w[2], Receipt(w)>>}]
      <3>1. Tree(w) # Absent /\ Receipt(w) = Tree(w).receipt
        BY <2>3 DEF Receipt
      <3>2. w[2] \in Artifact /\ Tree(w) \in {stage[w[2]], dir[w[2]]}
        BY DEF Tree
      <3>3. Tree(w) \in Tree0
        BY <3>1, <3>2, TypeParts
      <3>4. Receipt(w) \in Body
        BY <2>3, <3>1, <3>3 DEF Tree0, Unreadable
      <3>5. walk' \in WalkType
        BY <2>3, <3>2, <3>4, TypeParts DEF WalkType
      <3>6. walk'.held = {<<w[2], Receipt(w)>>}
        BY <2>3
      <3>7. \A h \in walk'.held : h[1] = w[2]
        BY <3>6
      <3>8. QED
        BY <3>1, <3>2, <3>5, <3>7
    <2>4. QED
      BY <1>1, <2>1, <2>2, <2>3 DEF Visit
  <1>2. ASSUME WalkEnds
        PROVE  walk' \in WalkType /\ walk'.held = {}
    BY <1>2 DEF WalkEnds, AtRest, WalkType
  <1>3. ASSUME NEW k, Reconcile(k)
        PROVE  walk' \in WalkType /\ walk'.held = {}
    <2>1. walk' = [pc |-> "walking", todo |-> Places(k), held |-> {}]
      BY <1>3 DEF Reconcile, AtRest
    <2>2. Places(k) \subseteq {"staging", "published"} \X Artifact
      BY DEF Places
    <2>3. QED
      BY <2>1, <2>2 DEF WalkType
  <1>4. UNCHANGED <<dir, stage, index, pub>>
    BY DEF Visit, WalkEnds, Reconcile
  <1>5. QED
    BY <1>1, <1>2, <1>3, <1>4

LEMMA AppendShape ==
  ASSUME TypeOK, AppendHeld
  PROVE  /\ UNCHANGED <<dir, stage, pub>>
         /\ walk' \in WalkType /\ walk'.held = {}
         /\ \/ UNCHANGED index
            \/ \E h \in walk.held :
                 /\ index' \in [Artifact -> SUBSET Body]
                 /\ index' = [index EXCEPT ![h[1]] = @ \cup {h[2]}]
  <1>1. PICK h \in walk.held :
          \/ UNCHANGED index /\ walk' = AtRest
          \/ /\ index' = [index EXCEPT ![h[1]] = @ \cup {h[2]}]
             /\ walk' = [walk EXCEPT !.pc = "walking", !.held = {}]
    BY DEF AppendHeld
  <1>2. h[1] \in Artifact /\ h[2] \in Body
    BY TypeParts DEF WalkType
  <1>3. CASE UNCHANGED index /\ walk' = AtRest
    BY <1>3 DEF AppendHeld, AtRest, WalkType
  <1>4. CASE /\ index' = [index EXCEPT ![h[1]] = @ \cup {h[2]}]
             /\ walk' = [walk EXCEPT !.pc = "walking", !.held = {}]
    <2>1. walk' \in WalkType /\ walk'.held = {}
      BY <1>4, TypeParts DEF WalkType
    <2>2. index' \in [Artifact -> SUBSET Body]
      BY <1>2, <1>4, TypeParts
    <2>3. QED
      BY <1>4, <2>1, <2>2 DEF AppendHeld
  <1>5. QED
    BY <1>1, <1>3, <1>4

-----------------------------------------------------------------------------
(* Every variable keeps its type.                                          *)
LEMMA TypeStep == TypeOK /\ [Next]_vars => TypeOK'
  <1> SUFFICES ASSUME TypeOK, [Next]_vars PROVE TypeOK'
    OBVIOUS
  <1> USE TypeParts, TypePartsNext
  <1>1. CASE UNCHANGED vars
    BY <1>1 DEF vars
  <1>2. ASSUME NEW p \in Publisher,
               \/ Clear(p) \/ Make(p) \/ WriteFiles(p) \/ OpenReceipt(p)
               \/ FillReceipt(p) \/ Verify(p) \/ StepFails(p)
        PROVE  TypeOK'
    BY <1>2, StagingShape DEF Goes, Quits, Puts
  <1>3. ASSUME NEW p \in Publisher, Promote(p) PROVE TypeOK'
    BY <1>3, PromoteShape DEF Goes, Puts
  <1>4. ASSUME NEW p \in Publisher, Index(p) PROVE TypeOK'
    BY <1>4, IndexShape DEF Goes, Quits
  <1>5. ASSUME NEW p \in Publisher, NEW a \in Artifact, NEW b \in Body,
               Publish(p, a, b)
        PROVE  TypeOK'
    BY <1>5, PublishShape DEF Quits
  <1>6. ASSUME NEW p \in Publisher, Crash(p) PROVE TypeOK'
    BY <1>6, CrashShape DEF Quits
  <1>7. CASE \/ \E w \in {"staging", "published"} \X Artifact : Visit(w)
             \/ WalkEnds
             \/ \E k \in Kinds : Reconcile(k)
    BY <1>7, HeldShape
  <1>8. CASE AppendHeld
    BY <1>8, AppendShape
  <1>9. QED
    BY <1>1, <1>2, <1>3, <1>4, <1>5, <1>6, <1>7, <1>8
       DEF Next, PublisherStep, WalkStep

(* What is published is never changed or removed, and a record of the      *)
(* ledger is never removed.                                                *)
LEMMA Lasting ==
  ASSUME TypeOK, [Next]_vars
  PROVE  \A a \in Artifact :
           /\ dir[a] # Absent => dir'[a] = dir[a]
           /\ index[a] \subseteq index'[a]
  <1>1. CASE UNCHANGED vars
    BY <1>1 DEF vars
  <1>2. ASSUME NEW p \in Publisher,
               \/ Clear(p) \/ Make(p) \/ WriteFiles(p) \/ OpenReceipt(p)
               \/ FillReceipt(p) \/ Verify(p) \/ StepFails(p)
        PROVE  UNCHANGED <<dir, index>>
    BY <1>2, StagingShape
  <1>3. ASSUME NEW p \in Publisher, Promote(p), NEW a \in Artifact
        PROVE  index'[a] = index[a] /\ (dir[a] # Absent => dir'[a] = dir[a])
    BY <1>3, PromoteShape
  <1>4. ASSUME NEW p \in Publisher, Index(p), NEW a \in Artifact
        PROVE  dir'[a] = dir[a] /\ index[a] \subseteq index'[a]
    <2>1. CASE UNCHANGED index
      BY <1>4, <2>1, IndexShape
    <2>2. CASE a = Art(p)
      BY <1>4, <2>2, IndexShape
    <2>3. CASE a # Art(p)
      BY <1>4, <2>3, IndexShape
    <2>4. QED
      BY <2>2, <2>3
  <1>5. ASSUME NEW p \in Publisher, NEW a \in Artifact, NEW b \in Body,
               Publish(p, a, b)
        PROVE  UNCHANGED <<dir, index>>
    BY <1>5, PublishShape
  <1>6. ASSUME NEW p \in Publisher, Crash(p) PROVE UNCHANGED <<dir, index>>
    BY <1>6, CrashShape
  <1>7. CASE \/ \E w \in {"staging", "published"} \X Artifact : Visit(w)
             \/ WalkEnds
             \/ \E k \in Kinds : Reconcile(k)
    BY <1>7, HeldShape
  <1>8. ASSUME AppendHeld, NEW a \in Artifact
        PROVE  dir'[a] = dir[a] /\ index[a] \subseteq index'[a]
    <2>1. CASE UNCHANGED index
      BY <1>8, <2>1, AppendShape
    <2>2. ASSUME NEW h \in walk.held,
                 index' = [index EXCEPT ![h[1]] = @ \cup {h[2]}]
          PROVE  index[a] \subseteq index'[a]
      <3>1. h[1] \in Artifact /\ index \in [Artifact -> SUBSET Body]
        BY TypeParts DEF WalkType
      <3>2. QED
        BY <2>2, <3>1
    <2>3. QED
      BY <1>8, <2>1, <2>2, AppendShape
  <1>9. QED
    BY <1>1, <1>2, <1>3, <1>4, <1>5, <1>6, <1>7, <1>8
       DEF Next, PublisherStep, WalkStep

-----------------------------------------------------------------------------
(* What is published is whole.                                             *)

(* A publisher that goes on with its artifact, or quits, stays apart.      *)
LEMMA StaysApart ==
  ASSUME TypeOK, Apart, NEW p \in Publisher, Busy(p),
         Quits(p) \/ \E pc \in Stages : Goes(p, pc)
  PROVE  Apart'
  <1> SUFFICES ASSUME NEW q \in Publisher, NEW r \in Publisher, q # r,
                      Busy(q)', Busy(r)'
               PROVE  Art(q)' # Art(r)'
    BY DEF Apart
  <1>1. \A s \in Publisher : Busy(s)' => Busy(s) /\ Art(s)' = Art(s)
    <2>1. \A s \in Publisher \ {p} : Busy(s)' => Busy(s) /\ Art(s)' = Art(s)
      BY DEF Goes, Quits, Busy, Art
    <2>2. CASE Quits(p)
      BY <2>1, <2>2 DEF Quits, Busy, Idle
    <2>3. ASSUME NEW pc \in Stages, Goes(p, pc)
          PROVE  Art(p)' = Art(p)
      BY <2>3 DEF Goes, Art
    <2>4. QED
      BY <2>1, <2>2, <2>3
  <1>2. QED
    BY <1>1 DEF Apart

(* ... and leaves what the others stage alone.                             *)
LEMMA OthersUndisturbed ==
  ASSUME TypeOK, Apart, StagedByOne, NEW p \in Publisher, Busy(p),
         \A q \in Publisher \ {p} : pub'[q] = pub[q],
         \A a \in Artifact \ {Art(p)} : stage'[a] = stage[a]
  PROVE  \A q \in Publisher \ {p} : Progress(q)'
  <1> SUFFICES ASSUME NEW q \in Publisher \ {p} PROVE Progress(q)'
    OBVIOUS
  <1>1. CASE ~ Busy(q)
    BY <1>1 DEF Busy, Progress, Art
  <1>2. CASE Busy(q)
    <2>1. Art(q) # Art(p) /\ Art(q) \in Artifact
      BY <1>2, JobShape DEF Apart, Busy, Art, Job
    <2>2. stage'[Art(q)] = stage[Art(q)] /\ pub'[q] = pub[q]
      BY <2>1
    <2>3. QED
      BY <2>2 DEF StagedByOne, Progress, Art
  <1>3. QED
    BY <1>1, <1>2

LEMMA WholeStaging ==
  ASSUME TypeOK, Whole, NEW p \in Publisher,
         \/ Clear(p) \/ Make(p) \/ WriteFiles(p) \/ OpenReceipt(p)
         \/ FillReceipt(p) \/ Verify(p) \/ StepFails(p)
  PROVE  Whole'
  <1>1. Busy(p)
    BY StagingShape DEF Busy
  <1>2. Quits(p) \/ \E pc \in Stages : Goes(p, pc)
    BY StagingShape DEF Stages
  <1>3. Apart'
    BY <1>1, <1>2, StaysApart DEF Whole
  <1>4. \A q \in Publisher \ {p} : Progress(q)'
    <2>1. \A a \in Artifact \ {Art(p)} : stage'[a] = stage[a]
      BY StagingShape DEF Puts
    <2>2. \A q \in Publisher \ {p} : pub'[q] = pub[q]
      BY <1>2 DEF Goes, Quits
    <2>3. QED
      BY <1>1, <2>1, <2>2, OthersUndisturbed DEF Whole
  <1>5. Progress(p)'
    <2>1. CASE Quits(p)
      BY <2>1 DEF Quits, Progress, Idle
    <2>2. CASE Goes(p, "making")
      BY <2>2 DEF Goes, Progress
    <2>3. CASE pub[p].pc = "making" /\ Goes(p, "writing") /\ Puts(p, Empty)
      BY <2>3 DEF Goes, Puts, Progress, Art
    <2>4. CASE /\ pub[p].pc = "writing" /\ Goes(p, "opening")
               /\ Puts(p, [stage[Art(p)] EXCEPT !.body = pub[p].body])
      <3>1. stage[Art(p)] = [body |-> Absent, receipt |-> Absent]
        BY <2>4 DEF Whole, StagedByOne, Progress, Empty
      <3>2. QED
        BY <2>4, <3>1 DEF Goes, Puts, Progress, Art
    <2>5. CASE /\ pub[p].pc = "opening" /\ Goes(p, "filling")
               /\ Puts(p, [stage[Art(p)] EXCEPT !.receipt = Torn])
      <3>1. stage[Art(p)] = [body |-> pub[p].body, receipt |-> Absent]
        BY <2>5 DEF Whole, StagedByOne, Progress
      <3>2. QED
        BY <2>5, <3>1 DEF Goes, Puts, Progress, Art
    <2>6. CASE /\ pub[p].pc = "filling" /\ Goes(p, "verifying")
               /\ Puts(p, [stage[Art(p)] EXCEPT !.receipt = pub[p].body])
      <3>1. stage[Art(p)] = [body |-> pub[p].body, receipt |-> Torn]
        BY <2>6 DEF Whole, StagedByOne, Progress
      <3>2. QED
        BY <2>6, <3>1 DEF Goes, Puts, Progress, Art
    <2>7. CASE pub[p].pc = "verifying" /\ Goes(p, "promoting") /\ UNCHANGED stage
      <3>1. stage[Art(p)] = [body |-> pub[p].body, receipt |-> pub[p].body]
        BY <2>7 DEF Whole, StagedByOne, Progress
      <3>2. QED
        BY <2>7, <3>1 DEF Goes, Progress, Art
    <2>8. QED
      BY StagingShape, <2>1, <2>2, <2>3, <2>4, <2>5, <2>6, <2>7
  <1>6. PublishedWhole'
    BY StagingShape DEF Whole, PublishedWhole
  <1>7. QED
    BY <1>3, <1>4, <1>5, <1>6 DEF Whole, StagedByOne

LEMMA WholeStep ==
  ASSUME Exclusive, TypeOK, Whole, [Next]_vars
  PROVE  Whole'
  <1>1. CASE UNCHANGED vars
    BY <1>1 DEF vars, Whole, Apart, StagedByOne, PublishedWhole, Progress,
                Busy, Art
  <1>2. ASSUME NEW p \in Publisher,
               \/ Clear(p) \/ Make(p) \/ WriteFiles(p) \/ OpenReceipt(p)
               \/ FillReceipt(p) \/ Verify(p) \/ StepFails(p)
        PROVE  Whole'
    BY <1>2, WholeStaging
  <1>3. ASSUME NEW p \in Publisher, Promote(p) PROVE Whole'
    <2>1. Busy(p) /\ Goes(p, "indexing") /\ Puts(p, Absent)
      BY <1>3, PromoteShape DEF Busy
    <2>2. Apart'
      BY <2>1, StaysApart DEF Whole, Stages
    <2>3. \A q \in Publisher \ {p} : Progress(q)'
      BY <2>1, OthersUndisturbed DEF Whole, Goes, Puts
    <2>4. Progress(p)'
      BY <2>1 DEF Goes, Progress
    <2>5. PublishedWhole'
      <3>1. stage[Art(p)] = [body |-> pub[p].body, receipt |-> pub[p].body]
        BY <1>3, PromoteShape DEF Whole, StagedByOne, Progress
      <3>2. pub[p].body \in Body
        BY <1>3, JobShape, PromoteShape DEF Job
      <3>3. QED
        BY <1>3, <3>1, <3>2, PromoteShape DEF Whole, PublishedWhole
    <2>6. QED
      BY <2>2, <2>3, <2>4, <2>5 DEF Whole, StagedByOne
  <1>4. ASSUME NEW p \in Publisher, Index(p) \/ Crash(p) PROVE Whole'
    <2>1. Quits(p) \/ Goes(p, "published")
      BY <1>4, IndexShape, CrashShape
    <2>2. UNCHANGED <<dir, stage>>
      BY <1>4, IndexShape, CrashShape
    <2>3. \A q \in Publisher : pub'[q] = pub[q] \/ ~ Busy(q)'
      BY <2>1 DEF Goes, Quits, Busy, Idle
    <2>4. Apart'
      BY <2>3 DEF Whole, Apart, Busy, Art
    <2>5. StagedByOne'
      BY <2>2, <2>3 DEF Whole, StagedByOne, Progress, Busy, Art
    <2>6. QED
      BY <2>2, <2>4, <2>5 DEF Whole, PublishedWhole
  <1>5. ASSUME NEW p \in Publisher, NEW a \in Artifact, NEW b \in Body,
               Publish(p, a, b)
        PROVE  Whole'
    <2>1. \A q \in Publisher \ {p} : pub'[q] = pub[q]
      BY <1>5, PublishShape DEF Quits
    <2>2. Busy(p)' => Art(p)' = a
      <3>1. CASE Quits(p)
        BY <3>1 DEF Quits, Busy, Idle
      <3>2. CASE pub'[p] = [art |-> a, body |-> b, pc |-> "clearing"]
        BY <3>2 DEF Art
      <3>3. CASE pub'[p] = [art |-> a, body |-> b, pc |-> "indexing"]
        BY <3>3 DEF Art
      <3>4. QED
        BY <1>5, <3>1, <3>2, <3>3, PublishShape
    <2>3. \A q \in Publisher : Busy(q) => Art(q) # a
      BY <1>5, PublishShape DEF Art
    <2>4. Apart'
      BY <2>1, <2>2, <2>3 DEF Whole, Apart, Busy, Art
    <2>5. UNCHANGED <<dir, stage>>
      BY <1>5, PublishShape
    <2>6. Progress(p)'
      <3>1. CASE Quits(p)
        BY <3>1 DEF Quits, Progress, Idle
      <3>2. CASE pub'[p] = [art |-> a, body |-> b, pc |-> "clearing"]
        BY <3>2 DEF Progress
      <3>3. CASE pub'[p] = [art |-> a, body |-> b, pc |-> "indexing"]
        BY <3>3 DEF Progress
      <3>4. QED
        BY <1>5, <3>1, <3>2, <3>3, PublishShape
    <2>7. StagedByOne'
      BY <2>1, <2>5, <2>6 DEF Whole, StagedByOne, Progress, Art
    <2>8. QED
      BY <2>4, <2>5, <2>7 DEF Whole, PublishedWhole
  <1>6. CASE WalkStep \/ \E k \in Kinds : Reconcile(k)
    <2>1. UNCHANGED <<dir, stage, pub>>
      BY <1>6, HeldShape, AppendShape DEF WalkStep
    <2>2. QED
      BY <2>1 DEF Whole, Apart, StagedByOne, PublishedWhole, Progress, Busy, Art
  <1>7. QED
    BY <1>1, <1>2, <1>3, <1>4, <1>5, <1>6 DEF Next, PublisherStep

-----------------------------------------------------------------------------
(* Whoever was told so finds its evidence published.                       *)

(* A publisher that does not move finds what it found.                     *)
LEMMA StillFound ==
  ASSUME TypeOK, [Next]_vars, NEW p \in Publisher, pub[p].pc # "idle",
         pub'[p].art = pub[p].art, pub'[p].body = pub[p].body, Found(p)
  PROVE  /\ Found(p)'
         /\ pub[p].body \in index[Art(p)] => pub[p].body \in index'[Art(p)]
  <1>1. Art(p) \in Artifact /\ Art(p)' = Art(p)
    BY JobShape DEF Art, Job
  <1>2. QED
    BY <1>1, Lasting DEF Found

LEMMA HonestStep ==
  ASSUME TypeOK, Whole, Honest, [Next]_vars
  PROVE  Honest'
  <1>1. ASSUME NEW q \in Publisher, pub'[q] = pub[q]
        PROVE  /\ pub'[q].pc = "indexing" => Found(q)'
               /\ pub'[q].pc = "published" =>
                    Found(q)' /\ pub'[q].body \in index'[Art(q)']
    BY <1>1, StillFound DEF Honest, Art
  <1>2. ASSUME NEW p \in Publisher, Quits(p) PROVE Honest'
    BY <1>1, <1>2 DEF Quits, Honest, Idle
  <1>3. ASSUME NEW p \in Publisher,
               NEW pc \in Stages \ {"indexing", "published"}, Goes(p, pc)
        PROVE  Honest'
    BY <1>1, <1>3 DEF Goes, Honest
  <1>4. CASE UNCHANGED vars
    BY <1>1, <1>4 DEF vars, Honest
  <1>5. ASSUME NEW p \in Publisher,
               \/ Clear(p) \/ Make(p) \/ WriteFiles(p) \/ OpenReceipt(p)
               \/ FillReceipt(p) \/ Verify(p) \/ StepFails(p)
        PROVE  Honest'
    BY <1>2, <1>3, <1>5, StagingShape DEF Stages
  <1>6. ASSUME NEW p \in Publisher, Promote(p) PROVE Honest'
    <2>1. stage[Art(p)] = [body |-> pub[p].body, receipt |-> pub[p].body]
      BY <1>6, PromoteShape DEF Whole, StagedByOne, Progress
    <2>2. /\ dir'[Art(p)] = stage[Art(p)] /\ stage[Art(p)] # Absent
          /\ Goes(p, "indexing")
      BY <1>6, PromoteShape
    <2>3. Found(p)' /\ pub'[p].pc = "indexing"
      BY <2>1, <2>2 DEF Found, Goes, Art
    <2>4. QED
      BY <1>1, <2>2, <2>3 DEF Goes, Honest
  <1>7. ASSUME NEW p \in Publisher, Index(p) PROVE Honest'
    <2>1. CASE Quits(p)
      BY <1>2, <2>1
    <2>2. CASE /\ Goes(p, "published")
               /\ index'[Art(p)] = index[Art(p)] \cup {pub[p].body}
      <3>1. Found(p)' /\ Art(p)' = Art(p)
        BY <1>7, <2>2, IndexShape, StillFound DEF Honest, Goes, Art
      <3>2. pub'[p].pc = "published" /\ pub'[p].body \in index'[Art(p)']
        BY <2>2, <3>1 DEF Goes
      <3>3. QED
        BY <1>1, <2>2, <3>1, <3>2 DEF Goes, Honest
    <2>3. QED
      BY <1>7, <2>1, <2>2, IndexShape
  <1>8. ASSUME NEW p \in Publisher, NEW a \in Artifact, NEW b \in Body,
               Publish(p, a, b)
        PROVE  Honest'
    <2>1. CASE Quits(p)
      BY <1>2, <2>1
    <2>2. CASE /\ ~ Refuses(a, b)
               /\ \A q \in Publisher \ {p} : pub'[q] = pub[q]
               /\ \/ pub'[p] = [art |-> a, body |-> b, pc |-> "clearing"]
                  \/ /\ pub'[p] = [art |-> a, body |-> b, pc |-> "indexing"]
                     /\ a \in Unfitted \/ dir[a] # Absent
      <3>1. dir' = dir
        BY <1>8, PublishShape
      <3>2. dir[a] # Absent => dir[a].receipt = b
        BY <2>2 DEF Refuses
      <3>3. pub'[p].pc # "published" /\ (pub'[p].pc = "indexing" => Found(p)')
        BY <2>2, <3>1, <3>2 DEF Found, Art
      <3>4. QED
        BY <1>1, <2>2, <3>3 DEF Honest
    <2>3. QED
      BY <1>8, <2>1, <2>2, PublishShape
  <1>9. ASSUME NEW p \in Publisher, Crash(p) PROVE Honest'
    BY <1>2, <1>9, CrashShape
  <1>10. CASE WalkStep \/ \E k \in Kinds : Reconcile(k)
    <2>1. UNCHANGED pub
      BY <1>10, HeldShape, AppendShape DEF WalkStep
    <2>2. QED
      BY <1>1, <2>1 DEF Honest
  <1>11. QED
    BY <1>4, <1>5, <1>6, <1>7, <1>8, <1>9, <1>10 DEF Next, PublisherStep

-----------------------------------------------------------------------------
(* Nothing stands without what it is derived from.                         *)

LEMMA StillDerivable ==
  ASSUME TypeOK, [Next]_vars, NEW a \in Artifact, Derivable(a)
  PROVE  Derivable(a)'
  <1> SUFFICES ASSUME NEW n \in Needs[a] PROVE Usable(n)'
    BY DEF Derivable
  <1>1. n \in Artifact /\ Usable(n)
    BY DEF Derivable
  <1>2. QED
    BY <1>1, Lasting DEF Usable

LEMMA ChainStep ==
  ASSUME TypeOK, Chain, [Next]_vars
  PROVE  Chain'
  <1>1. \A p \in Publisher : pub[p].pc # "idle" => Art(p) \in Artifact
    BY JobShape DEF Job, Art
  <1>2. \A h \in walk.held : h[1] \in Artifact
    BY TypeParts DEF WalkType
  <1>3. \A a \in Artifact : Derivable(a) => Derivable(a)'
    BY StillDerivable
  <1>4. ASSUME NEW p \in Publisher,
               \/ Quits(p)
               \/ pub[p].pc # "idle" /\ \E pc \in Stages : Goes(p, pc)
        PROVE  \A q \in Publisher : pub'[q].pc # "idle" => Derivable(Art(q))'
    <2>1. \A q \in Publisher :
            pub[q].pc # "idle" /\ Art(q)' = Art(q) => Derivable(Art(q))'
      BY <1>1, <1>3 DEF Chain
    <2>2. \A q \in Publisher \ {p} : pub'[q] = pub[q]
      BY <1>4 DEF Goes, Quits
    <2>3. pub'[p].pc = "idle" \/ (pub[p].pc # "idle" /\ Art(p)' = Art(p))
      <3>1. CASE Quits(p)
        BY <3>1 DEF Quits, Idle
      <3>2. ASSUME NEW pc \in Stages, Goes(p, pc)
            PROVE  Art(p)' = Art(p)
        BY <3>2 DEF Goes, Art
      <3>3. QED
        BY <1>4, <3>1, <3>2
    <2>4. QED
      BY <2>1, <2>2, <2>3 DEF Art
  <1>5. CASE UNCHANGED vars
    BY <1>5 DEF vars, Chain, Derivable, Usable, Art
  <1>6. ASSUME NEW p \in Publisher,
               \/ Clear(p) \/ Make(p) \/ WriteFiles(p) \/ OpenReceipt(p)
               \/ FillReceipt(p) \/ Verify(p) \/ StepFails(p)
        PROVE  Chain'
    <2>1. Art(p) \in Artifact /\ Derivable(Art(p)) /\ pub[p].pc # "idle"
      BY <1>1, <1>6, StagingShape DEF Chain
    <2>2. \A a \in Artifact \ {Art(p)} : stage'[a] = stage[a]
      BY <1>6, StagingShape DEF Puts
    <2>3. UNCHANGED <<dir, index, walk>>
      BY <1>6, StagingShape
    <2>4. Quits(p) \/ (pub[p].pc # "idle" /\ \E pc \in Stages : Goes(p, pc))
      BY <1>6, StagingShape DEF Stages
    <2>5. QED
      BY <1>2, <1>3, <1>4, <2>1, <2>2, <2>3, <2>4 DEF Chain
  <1>7. ASSUME NEW p \in Publisher, Promote(p) PROVE Chain'
    <2>1. Art(p) \in Artifact /\ Derivable(Art(p)) /\ pub[p].pc # "idle"
      BY <1>1, <1>7, PromoteShape DEF Chain
    <2>2. /\ \A a \in Artifact \ {Art(p)} : stage'[a] = stage[a] /\ dir'[a] = dir[a]
          /\ UNCHANGED <<index, walk>> /\ Goes(p, "indexing")
      BY <1>7, PromoteShape DEF Puts
    <2>3. QED
      BY <1>2, <1>3, <1>4, <2>1, <2>2 DEF Chain, Stages
  <1>8. ASSUME NEW p \in Publisher, Index(p) PROVE Chain'
    <2>1. Art(p) \in Artifact /\ Derivable(Art(p)) /\ pub[p].pc # "idle"
      BY <1>1, <1>8, IndexShape DEF Chain
    <2>2. /\ \A a \in Artifact \ {Art(p)} : index'[a] = index[a]
          /\ UNCHANGED <<dir, stage, walk>>
          /\ Quits(p) \/ Goes(p, "published")
      BY <1>8, IndexShape
    <2>3. QED
      BY <1>2, <1>3, <1>4, <2>1, <2>2 DEF Chain, Stages
  <1>9. ASSUME NEW p \in Publisher, NEW a \in Artifact, NEW b \in Body,
               Publish(p, a, b)
        PROVE  Chain'
    <2>1. UNCHANGED <<dir, stage, index, walk>>
      BY <1>9, PublishShape
    <2>2. CASE Quits(p)
      BY <1>2, <1>3, <1>4, <2>1, <2>2 DEF Chain
    <2>3. CASE ~ Refuses(a, b) /\ pub'[p].art = a
               /\ \A q \in Publisher \ {p} : pub'[q] = pub[q]
      <3>1. Derivable(a)
        BY <2>3 DEF Refuses, Derivable
      <3>2. \A q \in Publisher : pub'[q].pc # "idle" => Derivable(Art(q))'
        BY <1>1, <1>3, <2>3, <3>1 DEF Chain, Art
      <3>3. QED
        BY <1>2, <1>3, <2>1, <3>2 DEF Chain
    <2>4. pub'[p] = [art |-> a, body |-> b, pc |-> "clearing"]
            => pub'[p].art = a
      OBVIOUS
    <2>5. pub'[p] = [art |-> a, body |-> b, pc |-> "indexing"]
            => pub'[p].art = a
      OBVIOUS
    <2>6. QED
      BY <1>9, <2>2, <2>3, <2>4, <2>5, PublishShape
  <1>10. ASSUME NEW p \in Publisher, Crash(p) PROVE Chain'
    BY <1>2, <1>3, <1>4, <1>10, CrashShape DEF Chain
  <1>11. CASE \/ \E w \in {"staging", "published"} \X Artifact : Visit(w)
              \/ WalkEnds
              \/ \E k \in Kinds : Reconcile(k)
    <2>1. UNCHANGED <<dir, stage, index, pub>>
      BY <1>11, HeldShape
    <2>2. \A h \in walk'.held : h[1] \in Artifact /\ Derivable(h[1])
      <3>1. \A h \in walk'.held : h[1] \in Artifact
        BY <1>11, HeldShape DEF WalkType
      <3>2. QED
        BY <1>11, <3>1, HeldShape DEF Chain
    <2>3. QED
      BY <1>1, <1>3, <2>1, <2>2 DEF Chain, Art
  <1>12. CASE AppendHeld
    <2>1. UNCHANGED <<dir, stage, pub>> /\ walk'.held = {}
      BY <1>12, AppendShape
    <2>2. \A a \in Artifact : index'[a] = index[a] \/ Derivable(a)
      <3>1. CASE UNCHANGED index
        BY <3>1
      <3>2. ASSUME NEW h \in walk.held,
                   index' = [index EXCEPT ![h[1]] = @ \cup {h[2]}]
            PROVE  \A a \in Artifact : index'[a] = index[a] \/ Derivable(a)
        BY <3>2, TypeParts DEF Chain
      <3>3. QED
        BY <1>12, <3>1, <3>2, AppendShape
    <2>3. QED
      BY <1>1, <1>3, <2>1, <2>2 DEF Chain, Art
  <1>13. QED
    BY <1>5, <1>6, <1>7, <1>8, <1>9, <1>10, <1>11, <1>12
       DEF Next, PublisherStep, WalkStep

-----------------------------------------------------------------------------
(* THEOREMS                                                                *)

(* Every variable keeps its type.                                          *)
THEOREM TypeCorrect == Spec => []TypeOK
  <1>1. Init => TypeOK
    BY TypeParts DEF Init, Tree0, Idle, AtRest, WalkType
  <1>2. QED
    BY <1>1, TypeStep, PTL DEF Spec

(* Evidence never stands without what it was derived from, however many    *)
(* publishers work on whatever they like, and wherever they are killed.    *)
THEOREM ChainUnbroken == Spec => []EvidenceChain
  <1>1. Init => Chain
    BY DEF Init, Chain, Idle, AtRest
  <1>2. TypeOK /\ Chain /\ [Next]_vars => Chain'
    BY ChainStep
  <1>3. Chain => EvidenceChain
    BY DEF Chain, Derivable, Usable, EvidenceChain
  <1>4. QED
    BY <1>1, <1>2, <1>3, TypeCorrect, PTL DEF Spec

(* If no two publishers work on one artifact at a time, what is seen under *)
(* its final name is complete and says one thing.                          *)
THEOREM NothingHalfPublished == Exclusive => (Spec => []PublishedWhole)
  <1> SUFFICES ASSUME Exclusive PROVE Spec => []PublishedWhole
    OBVIOUS
  <1>1. Init => Whole
    BY DEF Init, Whole, Apart, StagedByOne, Progress, PublishedWhole, Busy, Idle
  <1>2. TypeOK /\ Whole /\ [Next]_vars => Whole'
    BY WholeStep
  <1>3. Whole => PublishedWhole
    BY DEF Whole
  <1>4. QED
    BY <1>1, <1>2, <1>3, TypeCorrect, PTL DEF Spec

(* ... and whoever was told that its evidence is published was told the    *)
(* truth, for good.                                                        *)
THEOREM PublishersAreHonest == Exclusive => (Spec => []PublishHonest)
  <1> SUFFICES ASSUME Exclusive PROVE Spec => []PublishHonest
    OBVIOUS
  <1>1. Init => Whole /\ Honest
    BY DEF Init, Whole, Honest, Apart, StagedByOne, Progress, PublishedWhole,
           Busy, Idle
  <1>2. TypeOK /\ Whole /\ Honest /\ [Next]_vars => Whole' /\ Honest'
    BY WholeStep, HonestStep
  <1>3. Honest => PublishHonest
    BY DEF Honest, Found, PublishHonest
  <1>4. QED
    BY <1>1, <1>2, <1>3, TypeCorrect, PTL DEF Spec
=============================================================================
