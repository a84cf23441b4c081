------------------------------ MODULE Evidence ------------------------------
(***************************************************************************)
(* How evidence is published: training runs (ml/experiments.py), champion  *)
(* selections (ml/selection.py), champion freezes (ml/champion.py) and     *)
(* test evaluations (ml/test_evaluation.py).  Each is built in a sibling   *)
(* directory, verified, renamed into place and then appended to the        *)
(* ledger; a reconciliation appends what a killed publisher left out.      *)
(*                                                                         *)
(* GRAIN OF ATOMICITY.  One action is one file-system step another process *)
(* can observe.  The ledger is the write-once register that Ledger         *)
(* implements, so an append is one step here.                              *)
(***************************************************************************)
EXTENDS FiniteSets

CONSTANTS
  Artifact,   \* publication identifiers
  Kind,       \* [Artifact -> "run", "selection", "freeze" or "evaluation"]
  Needs,      \* [Artifact -> the artifacts it is derived from]
  Unfitted,   \* runs whose model could not be fitted: they have no directory
  Body,       \* what a publication says
  Publisher,  \* processes that publish
  Absent, Torn,
  Crashes,    \* the steps before which a publisher may be killed
  Exclusive   \* TRUE: no two publishers work on one artifact at a time

ASSUME ChainAssumption ==
  /\ Kind \in [Artifact -> {"run", "selection", "freeze", "evaluation"}]
  /\ Needs \in [Artifact -> SUBSET Artifact]
  /\ \A a \in Unfitted : Kind[a] = "run"
  /\ \A a \in Artifact : Needs[a] \cap Unfitted = {}
  /\ Absent # Torn /\ {Absent, Torn} \cap Body = {}

VARIABLES
  dir,    \* the published directory of each artifact
  stage,  \* its staging sibling, ".staging-<id>"
  index,  \* the bodies the ledger records under each artifact
  pub,    \* where each publisher stands
  walk    \* where the reconciliation stands

vars == <<dir, stage, index, pub, walk>>

(* A directory: its files, and the receipt that is written last.           *)
Empty == [body |-> Absent, receipt |-> Absent]

(* A publisher that was refused, or killed, leaves only what it staged.    *)
Idle == [art |-> Absent, body |-> Absent, pc |-> "idle"]

Move(p, pc) == pub' = [pub EXCEPT ![p].pc = pc]
Refused(p) == pub' = [pub EXCEPT ![p] = Idle]

Busy(p) == pub[p].pc \notin {"idle", "published"}

-----------------------------------------------------------------------------
(* What a publication is derived from: runs and champions are read from    *)
(* their directories and must be indexed as they read; a selection is read *)
(* from the ledger alone (load_candidate_evidence, freeze, FrozenChampion).*)

(* Fault: being published is enough.                                       *)
UsablePublished(n) == dir[n] # Absent

Usable(n) ==
  /\ index[n] # {}
  /\ Kind[n] # "selection" => dir[n] # Absent /\ dir[n].receipt \in index[n]

(* Selecting and freezing read every indexed run, and stop at one whose    *)
(* directory and record disagree.                                          *)
Contradicted(a) ==
  /\ Kind[a] \in {"selection", "freeze"}
  /\ \E n \in Artifact :
       Kind[n] = "run" /\ index[n] # {} /\ dir[n] # Absent /\ ~ Usable(n)

Refuses(a, b) ==
  \/ Contradicted(a)
  \/ \E n \in Needs[a] : ~ Usable(n)
  \/ dir[a] # Absent /\ dir[a].receipt # b

(* The head of publish_*: what is published already is compared, never     *)
(* rewritten; a run that could not be fitted only goes to the ledger.      *)
Publish(p, a, b) ==
  /\ ~ Busy(p)
  /\ Exclusive => \A q \in Publisher : Busy(q) => pub[q].art # a
  /\ \/ /\ Refuses(a, b)
        /\ Refused(p)
     \/ /\ ~ Refuses(a, b)
        /\ pub' = [pub EXCEPT ![p] =
             [art |-> a, body |-> b,
              pc |-> IF a \in Unfitted \/ dir[a] # Absent
                     THEN "indexing" ELSE "clearing"]]
  /\ UNCHANGED <<dir, stage, index, walk>>

-----------------------------------------------------------------------------
(* Staging.  Every step addresses the staging directory by name.           *)
Art(p) == pub[p].art
Staged(p, tree) == stage' = [stage EXCEPT ![Art(p)] = tree]

Clear(p) ==
  /\ pub[p].pc = "clearing"
  /\ Staged(p, Absent)
  /\ Move(p, "making")
  /\ UNCHANGED <<dir, index, walk>>

Make(p) ==
  /\ pub[p].pc = "making"
  /\ \/ stage[Art(p)] = Absent /\ Staged(p, Empty) /\ Move(p, "writing")
     \/ stage[Art(p)] # Absent /\ UNCHANGED stage /\ Refused(p)
  /\ UNCHANGED <<dir, index, walk>>

(* The step raises, as the environment pleases or because the staging      *)
(* directory is not there: whatever is staged under the name is removed.   *)
StepFails(p) ==
  /\ pub[p].pc \in {"writing", "opening", "filling", "verifying", "promoting"}
  /\ Staged(p, Absent)
  /\ Refused(p)
  /\ UNCHANGED <<dir, index, walk>>

WriteFiles(p) ==
  /\ pub[p].pc = "writing"
  /\ stage[Art(p)] # Absent
  /\ Staged(p, [stage[Art(p)] EXCEPT !.body = pub[p].body])
  /\ Move(p, "opening")
  /\ UNCHANGED <<dir, index, walk>>

OpenReceipt(p) ==
  /\ pub[p].pc = "opening"
  /\ stage[Art(p)] # Absent
  /\ Staged(p, [stage[Art(p)] EXCEPT !.receipt = Torn])
  /\ Move(p, "filling")
  /\ UNCHANGED <<dir, index, walk>>

FillReceipt(p) ==
  /\ pub[p].pc = "filling"
  /\ stage[Art(p)] # Absent
  /\ Staged(p, [stage[Art(p)] EXCEPT !.receipt = pub[p].body])
  /\ Move(p, "verifying")
  /\ UNCHANGED <<dir, index, walk>>

(* A run is verified to read back; the others, to read back as themselves. *)
Verified(p) ==
  /\ stage[Art(p)] # Absent
  /\ stage[Art(p)].body \in Body
  /\ stage[Art(p)].receipt \in Body
  /\ Kind[Art(p)] # "run" => stage[Art(p)].receipt = pub[p].body

Verify(p) ==
  /\ pub[p].pc = "verifying"
  /\ Verified(p)
  /\ Move(p, "promoting")
  /\ UNCHANGED <<dir, stage, index, walk>>

(* Fault: the directory is promoted and the receipt written afterwards.    *)
PromoteEarly(p) ==
  /\ pub[p].pc \in {"opening", "promoting"}
  /\ stage[Art(p)] # Absent
  /\ dir[Art(p)] = Absent
  /\ dir' = [dir EXCEPT ![Art(p)] = stage[Art(p)]]
  /\ Staged(p, Absent)
  /\ Move(p, "indexing")
  /\ UNCHANGED <<index, walk>>

(* rename: atomic, and refused when there is something at the target.      *)
Promote(p) ==
  /\ pub[p].pc = "promoting"
  /\ stage[Art(p)] # Absent
  /\ dir[Art(p)] = Absent
  /\ dir' = [dir EXCEPT ![Art(p)] = stage[Art(p)]]
  /\ Staged(p, Absent)
  /\ Move(p, "indexing")
  /\ UNCHANGED <<index, walk>>

-----------------------------------------------------------------------------
(* ExperimentLedger.append.  A freeze's record is named by its content,    *)
(* its directory by its scope; everything else has one name for both.      *)
Conflicts(a, b) == Kind[a] # "freeze" /\ index[a] \ {b} # {}

(* Fault: a conflicting ledger record is left, and the publisher content.  *)
IndexQuietly(p) ==
  /\ pub[p].pc = "indexing"
  /\ \/ Conflicts(Art(p), pub[p].body) /\ UNCHANGED index
     \/ /\ ~ Conflicts(Art(p), pub[p].body)
        /\ index' = [index EXCEPT ![Art(p)] = @ \cup {pub[p].body}]
  /\ Move(p, "published")
  /\ UNCHANGED <<dir, stage, walk>>

Index(p) ==
  /\ pub[p].pc = "indexing"
  /\ \/ /\ Conflicts(Art(p), pub[p].body)
        /\ UNCHANGED index /\ Refused(p)
     \/ /\ ~ Conflicts(Art(p), pub[p].body)
        /\ index' = [index EXCEPT ![Art(p)] = @ \cup {pub[p].body}]
        /\ Move(p, "published")
  /\ UNCHANGED <<dir, stage, walk>>

(* The publisher is killed: nothing is cleaned up.                         *)
Crash(p) ==
  /\ pub[p].pc \in Crashes
  /\ Refused(p)
  /\ UNCHANGED <<dir, stage, index, walk>>

-----------------------------------------------------------------------------
(* reconcile(), reconcile_selections(), reconcile_freezes() and            *)
(* reconcile_evaluations(): every directory of one kind, in name order, so *)
(* the ".staging-" siblings come first.                                    *)

Tree(place) == IF place[1] = "staging" THEN stage[place[2]] ELSE dir[place[2]]

Places(k) ==
  {w \in {"staging", "published"} \X {a \in Artifact : Kind[a] = k} :
     Tree(w) # Absent}

(* The receipt found there, if there is one.                               *)
Receipt(w) == IF Tree(w) = Absent THEN Absent ELSE Tree(w).receipt

AtRest == [pc |-> "rest", todo |-> {}, held |-> {}]

Reconcile(k) ==
  /\ walk.pc = "rest"
  /\ walk' = [AtRest EXCEPT !.pc = "walking", !.todo = Places(k)]
  /\ UNCHANGED <<dir, stage, index, pub>>

IsNext(w) ==
  /\ walk.pc = "walking"
  /\ w \in walk.todo
  /\ w[1] = "published" => \A v \in walk.todo : v[1] = "published"

(* A directory without a receipt is passed over; one whose receipt does    *)
(* not parse, or a lock whose selection is not in the ledger, ends it all. *)
Unreadable(w) ==
  \/ Receipt(w) = Torn
  \/ /\ Kind[w[2]] = "freeze"
     /\ \E n \in Needs[w[2]] : Kind[n] = "selection" /\ index[n] = {}

Visit(w) ==
  /\ IsNext(w)
  /\ \/ /\ Receipt(w) = Absent
        /\ walk' = [walk EXCEPT !.todo = @ \ {w}]
     \/ /\ Receipt(w) # Absent /\ Unreadable(w)
        /\ walk' = AtRest
     \/ /\ Receipt(w) # Absent /\ ~ Unreadable(w)
        /\ walk' = [pc |-> "holding", todo |-> walk.todo \ {w},
                    held |-> {<<w[2], Receipt(w)>>}]
  /\ UNCHANGED <<dir, stage, index, pub>>

(* Fault: the walk reads a receipt and does not append it.                 *)
AppendHeldKnown ==
  /\ walk.pc = "holding"
  /\ walk' = [walk EXCEPT !.pc = "walking", !.held = {}]
  /\ UNCHANGED <<dir, stage, index, pub>>

AppendHeld ==
  /\ walk.pc = "holding"
  /\ \E h \in walk.held :
       \/ Conflicts(h[1], h[2]) /\ UNCHANGED index /\ walk' = AtRest
       \/ /\ ~ Conflicts(h[1], h[2])
          /\ index' = [index EXCEPT ![h[1]] = @ \cup {h[2]}]
          /\ walk' = [walk EXCEPT !.pc = "walking", !.held = {}]
  /\ UNCHANGED <<dir, stage, pub>>

WalkEnds ==
  /\ walk.pc = "walking"
  /\ walk.todo = {}
  /\ walk' = AtRest
  /\ UNCHANGED <<dir, stage, index, pub>>

-----------------------------------------------------------------------------
Init ==
  /\ dir = [a \in Artifact |-> Absent]
  /\ stage = [a \in Artifact |-> Absent]
  /\ index = [a \in Artifact |-> {}]
  /\ pub = [p \in Publisher |-> Idle]
  /\ walk = AtRest

PublisherStep(p) ==
  \/ Clear(p) \/ Make(p) \/ WriteFiles(p) \/ OpenReceipt(p) \/ FillReceipt(p)
  \/ Verify(p) \/ Promote(p) \/ Index(p) \/ StepFails(p)

WalkStep ==
  \/ \E w \in {"staging", "published"} \X Artifact : Visit(w)
  \/ AppendHeld
  \/ WalkEnds

Next ==
  \/ \E p \in Publisher, a \in Artifact, b \in Body : Publish(p, a, b)
  \/ \E p \in Publisher : PublisherStep(p) \/ Crash(p)
  \/ \E k \in {"run", "selection", "freeze", "evaluation"} : Reconcile(k)
  \/ WalkStep

Spec == Init /\ [][Next]_vars

(* The operator runs "ml experiments --reconcile" again and again, and the *)
(* process that runs it goes on; nothing is assumed of publishers.         *)
LiveSpec ==
  Spec /\ WF_vars(WalkStep) /\ SF_vars(Reconcile("run"))

-----------------------------------------------------------------------------
(* PROPERTIES                                                              *)

TreeType ==
  {Absent} \cup
  [body : Body \cup {Absent}, receipt : Body \cup {Absent, Torn}]

(* Every variable keeps its type.  (The files of a directory are written   *)
(* before its receipt is opened; only the receipt is ever seen Torn.)      *)
TypeOK ==
  /\ dir \in [Artifact -> TreeType]
  /\ stage \in [Artifact -> TreeType]
  /\ index \in [Artifact -> SUBSET Body]
  /\ pub \in [Publisher ->
       {Idle} \cup
       [art : Artifact, body : Body,
        pc : {"clearing", "making", "writing", "opening", "filling",
              "verifying", "promoting", "indexing", "published"}]]
  /\ walk \in [pc : {"rest", "walking", "holding"},
                todo : SUBSET ({"staging", "published"} \X Artifact),
                held : SUBSET (Artifact \X Body)]

(* What is published is complete and says one thing, whenever publishers   *)
(* were killed: a half-built directory is never seen under its final name. *)
PublishedWhole ==
  \A a \in Artifact : dir[a] # Absent =>
    dir[a].body \in Body /\ dir[a].receipt = dir[a].body

(* Whoever is told its evidence is published finds it so from then on, on  *)
(* disk and in the ledger, whatever later publishers offer and whatever    *)
(* reconciliation makes of what killed ones left.                          *)
PublishHonest ==
  \A p \in Publisher :
    pub[p].pc = "published" =>
      /\ pub[p].body \in index[Art(p)]
      /\ Art(p) \notin Unfitted =>
           dir[Art(p)] # Absent /\ dir[Art(p)].receipt = pub[p].body

(* Evidence never stands without what it was derived from: a selection     *)
(* without its runs, a freeze without its selection, an evaluation without *)
(* its champion.  What is derived is in the ledger, and but for selections *)
(* (which are read from there) published as the ledger says.               *)
EvidenceChain ==
  \A a \in Artifact :
    dir[a] # Absent \/ index[a] # {} =>
      \A n \in Needs[a] :
        /\ index[n] # {}
        /\ Kind[n] # "selection" => dir[n] # Absent /\ dir[n].receipt \in index[n]

(* docs/experiment-ledger.md:384-386: publishing the run first, the ledger *)
(* is never left "asserting a run that does not exist": what it records is *)
(* published, or is about to be by a publisher still at work on it.        *)
Agrees(a) == index[a] # {} => dir[a] # Absent /\ index[a] = {dir[a].receipt}

LedgerBacked ==
  \A a \in Artifact \ Unfitted :
    Agrees(a) \/ \E p \in Publisher : Busy(p) /\ Art(p) = a

NothingStaged == \A a \in Artifact : stage[a] = Absent

Unindexed(a) == dir[a] # Absent /\ dir[a].receipt \notin index[a]

(* ml/experiments.py:633: reconciliation is "the deterministic recovery    *)
(* for the one failure this design permits": where the ledger asserts      *)
(* nothing unpublished, every run a killed publisher left unindexed is     *)
(* indexed, once no staging directory is in the way.                       *)
RecoveryIndexes ==
  [](\A a \in Artifact \ Unfitted : Agrees(a)) /\ <>[]NothingStaged =>
    \A a \in Artifact : Kind[a] = "run" => (Unindexed(a) ~> ~ Unindexed(a))
=============================================================================
