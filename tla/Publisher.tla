----------------------------- MODULE Publisher -----------------------------
(***************************************************************************)
(* How a dataset, a feature set and a detection set replace one another in *)
(* their directory: DatasetPublisher (data/serialization.py),              *)
(* FeaturePublisher (features/serialization.py), DetectionPublisher        *)
(* (detection/serialization.py).                                           *)
(*                                                                         *)
(* GRAIN OF ATOMICITY.  One action is one file moved, copied or unlinked   *)
(* in the output directory; what happens in the private staging directory  *)
(* is one step.  A move is a rename: staging is made beside the directory, *)
(* on its file system.  A copy (shutil.copy2) opens, fills and stamps its  *)
(* target in place, and may break off anywhere.                            *)
(***************************************************************************)
EXTENDS Integers

CONSTANTS
  Tables,     \* the number of data files; the manifest is the file after them
  Gen,        \* generations of the artifacts
  Publisher,
  Absent, Damaged,
  Torn,       \* what a copy that broke off leaves: a file of no generation
  Exclusive   \* TRUE: no two publishers work on the directory at a time

ASSUME PublisherAssumption ==
  /\ Tables \in Nat \ {0}
  /\ Absent \notin Gen /\ Damaged \notin Gen /\ Absent # Damaged
  /\ Torn \notin Gen /\ Torn # Absent

VARIABLES
  protocol, \* "dataset", or "feature" for feature and detection sets; never changes
  out,      \* the output directory
  pub,      \* where each publisher stands
  forced    \* some publisher has been allowed to overwrite

vars == <<protocol, out, pub, forced>>

File == 1 .. Tables + 1
Manifest == Tables + 1
None == [f \in File |-> Absent]

(* A publisher: its generation, the backup it holds, the files its current *)
(* loop has left, and (history) what it found when it began.               *)
Idle == [pc |-> "idle", gen |-> Absent, backup |-> None, todo |-> {}, found |-> None]

At(p, pc) == pub[p].pc = pc
Busy(p) == pub[p].pc \in {"staging", "backing", "promoting", "unlinking", "restoring"}
Ends(p, how) == pub' = [pub EXCEPT ![p] =
  [pc |-> how, gen |-> Absent, backup |-> None, todo |-> {}, found |-> None]]
Goes(p, pc, backup, todo) == pub' = [pub EXCEPT ![p] =
  [pc |-> pc, gen |-> pub[p].gen, backup |-> backup, todo |-> todo, found |-> pub[p].found]]

Present(d) == {f \in File : d[f] # Absent}
Existing == Present(out)
Kept(p) == Present(pub[p].backup)
Promoted(p) == File \ pub[p].todo

(* A manifest carries the digests of its own generation's files, so it     *)
(* vouches for exactly those (verify_dataset).                             *)
Whole(d) == d[Manifest] \in Gen /\ \A f \in File : d[f] = d[Manifest]

-----------------------------------------------------------------------------
(* The guard is looked at once, before anything is staged.                 *)
Begin(p, g, force) ==
  /\ ~ Busy(p)
  /\ Exclusive => \A q \in Publisher : ~ Busy(q)
  /\ \/ /\ Existing # {} /\ ~ force
        /\ Ends(p, "failed")
        /\ UNCHANGED forced
     \/ /\ Existing = {} \/ force
        /\ pub' = [pub EXCEPT ![p] =
             [pc |-> "staging", gen |-> g, backup |-> None,
              todo |-> Existing, found |-> out]]
        /\ forced' = (forced \/ force)
  /\ UNCHANGED <<protocol, out>>

Stage(p) ==
  /\ At(p, "staging")
  /\ Goes(p, "backing", pub[p].backup,
          IF protocol = "dataset" THEN pub[p].todo ELSE Existing)
  /\ UNCHANGED <<protocol, out, forced>>

(* Fault: one of the tables is forgotten.                                  *)
BackUpAllButOne(p) ==
  /\ At(p, "backing")
  /\ \E f \in pub[p].todo :
       Goes(p, "backing", [pub[p].backup EXCEPT ![f] = IF f = Tables THEN @ ELSE out[f]],
            pub[p].todo \ {f})
  /\ UNCHANGED <<protocol, out, forced>>

BackUp(p) ==
  /\ At(p, "backing")
  /\ \E f \in pub[p].todo :
       /\ out[f] # Absent
       /\ Goes(p, "backing", [pub[p].backup EXCEPT ![f] = out[f]], pub[p].todo \ {f})
  /\ UNCHANGED <<protocol, out, forced>>

BackedUp(p) ==
  /\ At(p, "backing")
  /\ pub[p].todo = {}
  /\ Goes(p, "promoting", pub[p].backup, File)
  /\ UNCHANGED <<protocol, out, forced>>

(* Fault: the files are promoted in any order, the manifest among them.    *)
PromoteAny(p) ==
  /\ At(p, "promoting")
  /\ \E f \in pub[p].todo :
       /\ out' = [out EXCEPT ![f] = pub[p].gen]
       /\ IF pub[p].todo = {f} THEN Ends(p, "published")
          ELSE Goes(p, "promoting", pub[p].backup, pub[p].todo \ {f})
  /\ UNCHANGED <<protocol, forced>>

(* The data files in their order, the manifest last; with it, the          *)
(* publication is complete and staging and backup are removed.             *)
Promote(p) ==
  /\ At(p, "promoting")
  /\ \E f \in pub[p].todo :
       /\ \A other \in pub[p].todo : f <= other
       /\ out' = [out EXCEPT ![f] = pub[p].gen]
       /\ IF f = Manifest THEN Ends(p, "published")
          ELSE Goes(p, "promoting", pub[p].backup, pub[p].todo \ {f})
  /\ UNCHANGED <<protocol, forced>>

(* What the copy at hand may leave in the backup when it raises: nothing,  *)
(* a torn file, or the whole file and not its times.                       *)
LeftInBackup(p) ==
  {pub[p].backup} \cup
    IF At(p, "backing")
    THEN UNION {{[pub[p].backup EXCEPT ![f] = copy] : copy \in {Torn, out[f]}} :
                f \in pub[p].todo \cap Existing}
    ELSE {}

(* A step raises.  The dataset publisher has nothing to undo before the    *)
(* promotion; the others run their handler all the same, and copy back     *)
(* whatever is in the backup, the file whose copy broke off among it.      *)
StepFails(p) ==
  /\ pub[p].pc \in {"staging", "backing", "promoting"}
  /\ IF protocol = "dataset" /\ ~ At(p, "promoting")
     THEN Ends(p, "failed")
     ELSE \E backup \in LeftInBackup(p) :
            Goes(p, "unlinking", backup, IF At(p, "promoting") THEN Promoted(p) ELSE {})
  /\ UNCHANGED <<protocol, out, forced>>

Unlink(p) ==
  /\ At(p, "unlinking")
  /\ \E f \in pub[p].todo :
       /\ out' = [out EXCEPT ![f] = Absent]
       /\ Goes(p, "unlinking", pub[p].backup, pub[p].todo \ {f})
  /\ UNCHANGED <<protocol, forced>>

(* Fault: what was there before is not copied back.                        *)
UnlinkedOnly(p) ==
  /\ At(p, "unlinking")
  /\ pub[p].todo = {}
  /\ Goes(p, "restoring", pub[p].backup, {})
  /\ UNCHANGED <<protocol, out, forced>>

Unlinked(p) ==
  /\ At(p, "unlinking")
  /\ pub[p].todo = {}
  /\ Goes(p, "restoring", pub[p].backup, Kept(p))
  /\ UNCHANGED <<protocol, out, forced>>

Restore(p) ==
  /\ At(p, "restoring")
  /\ \E f \in pub[p].todo :
       /\ out' = [out EXCEPT ![f] = pub[p].backup[f]]
       /\ Goes(p, "restoring", pub[p].backup, pub[p].todo \ {f})
  /\ UNCHANGED <<protocol, forced>>

Restored(p) ==
  /\ At(p, "restoring")
  /\ pub[p].todo = {}
  /\ Ends(p, "failed")
  /\ UNCHANGED <<protocol, out, forced>>

(* The rollback itself raises, an interrupt (which no handler but the last *)
(* sees) comes, or the process is killed: the directory stays as it is, a  *)
(* file that was being copied back torn, and nothing ever looks at a       *)
(* backup again.                                                           *)
CutOff(p) ==
  /\ Busy(p)
  /\ \/ out' = out
     \/ /\ At(p, "restoring")
        /\ \E f \in pub[p].todo : out' = [out EXCEPT ![f] = Torn]
  /\ Ends(p, "cut off")
  /\ UNCHANGED <<protocol, forced>>

-----------------------------------------------------------------------------
Init ==
  /\ protocol \in {"dataset", "feature"}
  /\ out = None
  /\ pub = [p \in Publisher |-> Idle]
  /\ forced = FALSE

PublisherStep(p) ==
  \/ \E g \in Gen, force \in BOOLEAN : Begin(p, g, force)
  \/ Stage(p) \/ BackUp(p) \/ BackedUp(p) \/ Promote(p)
  \/ StepFails(p) \/ Unlink(p) \/ Unlinked(p) \/ Restore(p) \/ Restored(p)
  \/ CutOff(p)

Next == \E p \in Publisher : PublisherStep(p)

Spec == Init /\ [][Next]_vars

-----------------------------------------------------------------------------
Content == Gen \cup {Absent, Torn}

State ==
  [pc : {"idle", "staging", "backing", "promoting", "unlinking", "restoring",
         "published", "failed", "cut off"},
   gen : Gen \cup {Absent}, backup : [File -> Content],
   todo : SUBSET File, found : [File -> Content]]

(* Every variable keeps its type: the directory and the backups hold files *)
(* of known generations and what broken copies left (the publish methods   *)
(* of the three publishers).                                               *)
TypeOK ==
  /\ protocol \in {"dataset", "feature"}
  /\ out \in [File -> Content]
  /\ pub \in [Publisher -> State]
  /\ forced \in BOOLEAN

(* Whatever step of a publication raises, when the caller is told that it  *)
(* failed the files found at its start are back, byte for byte and with no *)
(* file added.  Only a feature or detection set may lose something: the    *)
(* one file whose copy into the backup broke off, which the handler copies *)
(* back over the intact original.                                          *)
FailureRestores ==
  [][\A p \in Publisher :
       Busy(p) /\ pub'[p].pc = "failed" =>
         \/ out' = pub[p].found
         \/ /\ protocol = "feature"
            /\ \E f \in Present(pub[p].found) :
                 /\ pub[p].backup[f] = Torn
                 /\ out' = [pub[p].found EXCEPT ![f] = Torn]]_vars

(* "Write every artifact, or leave the directory exactly as it was"; "a    *)
(* failed overwrite restores every previous artifact and the previous      *)
(* manifest byte for byte" (detection/serialization.py): refuted by the    *)
(* loss FailureRestores speaks of.                                         *)
LeavesItAsItWas ==
  [][\A p \in Publisher :
       Busy(p) /\ pub'[p].pc = "failed" => out' = pub[p].found]_vars

(* As long as nobody has been allowed to overwrite, a manifest means that  *)
(* every file of its generation is in place, wherever publishers fail, are *)
(* killed and are followed by others.                                      *)
ManifestLast ==
  ~ forced => (out[Manifest] # Absent => Whole(out))

(* "Its presence always signals a coherent dataset" (the manifest, in      *)
(* features/serialization.py): refuted, a publisher that is killed while   *)
(* it overwrites another generation leaves the manifest of one beside the  *)
(* tables of the other.                                                    *)
ManifestMeansComplete == out[Manifest] # Absent => Whole(out)

(* The directory implements the contract: seen at any moment by someone    *)
(* who knows whether a publication is under way, it holds one whole        *)
(* generation, or nothing, or the damage of a publisher that was cut off   *)
(* or whose backup broke off, and only a complete publication mends that.  *)
Holds(d) ==
  IF Present(d) = {} THEN Absent
  ELSE IF Whole(d) THEN d[Manifest] ELSE Damaged

Touching(p) == pub[p].pc \in {"promoting", "unlinking", "restoring"}

Held ==
  IF \E p \in Publisher : Touching(p)
  THEN Holds(pub[CHOOSE p \in Publisher : Touching(p)].found)
  ELSE Holds(out)

Told == [p \in Publisher |->
  IF pub[p].pc \in {"published", "failed", "cut off"} THEN pub[p].pc
  ELSE "nothing"]

Contract == INSTANCE PublisherContract WITH
  held <- Held, told <- Told, careful <- (protocol = "dataset"), Nothing <- Absent

KeepsContract == Contract!Spec
=============================================================================
