------------------------- MODULE PublisherContract -------------------------
(***************************************************************************)
(* What a publisher of several files promises (DatasetPublisher,           *)
(* FeaturePublisher, DetectionPublisher): the directory holds one whole    *)
(* generation or nothing, changes in one step, and a caller is told        *)
(* "published" in the step that makes it true.  A publisher that is cut    *)
(* off may leave it damaged, and so may a failed overwrite unless the      *)
(* publisher is careful (it undoes only what it did); only a publication   *)
(* mends it.                                                               *)
(***************************************************************************)
CONSTANTS Gen, Publisher, Nothing, Damaged

VARIABLES
  held,  \* what the directory holds: a generation, Nothing or Damaged
  told,  \* what each publisher was told when it last ended
  careful \* a failure costs nothing (the dataset publisher); never changes

cvars == <<held, told, careful>>

Init ==
  /\ held = Nothing
  /\ told = [p \in Publisher |-> "nothing"]
  /\ careful \in BOOLEAN

Start(p) ==
  /\ told' = [told EXCEPT ![p] = "nothing"]
  /\ UNCHANGED <<held, careful>>

Replace(p, g) ==
  /\ held' = g
  /\ told' = [told EXCEPT ![p] = "published"]
  /\ UNCHANGED careful

Decline(p) ==
  /\ told' = [told EXCEPT ![p] = "failed"]
  /\ \/ held' = held
     \/ ~ careful /\ held # Nothing /\ held' = Damaged
  /\ UNCHANGED careful

CutOff(p) ==
  /\ told' = [told EXCEPT ![p] = "cut off"]
  /\ held' \in Gen \cup {Nothing, Damaged}
  /\ UNCHANGED careful

Next ==
  \E p \in Publisher :
    \/ Start(p)
    \/ \E g \in Gen : Replace(p, g)
    \/ Decline(p)
    \/ CutOff(p)

Spec == Init /\ [][Next]_cvars
=============================================================================
