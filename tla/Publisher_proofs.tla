-------------------------- MODULE Publisher_proofs --------------------------
(***************************************************************************)
(* Proofs about Publisher, for any number of tables, generations and       *)
(* publishers.  TypeCorrect needs no premise; the rest are for publishers  *)
(* that take turns (Exclusive).                                            *)
(***************************************************************************)
EXTENDS Publisher, TLAPS

LEMMA Files ==
  /\ Manifest \in File
  /\ \A f \in File : f <= Manifest /\ f \in Int
BY PublisherAssumption DEF Manifest, File

LEMMA NoneTyped == None \in [File -> Content]
BY DEF None, Content

(* What a step that ends a publisher, or takes it on, makes of it.         *)
LEMMA EndsIs ==
  ASSUME TypeOK, NEW p \in Publisher,
         NEW how \in {"published", "failed", "cut off"}, Ends(p, how)
  PROVE  /\ pub' \in [Publisher -> State]
         /\ pub'[p].pc = how
         /\ \A q \in Publisher : q # p => pub'[q] = pub[q]
<1> DEFINE r == [pc |-> how, gen |-> Absent, backup |-> None, todo |-> {}, found |-> None]
<1>1. r \in State
  BY NoneTyped DEF State
<1>2. pub' = [pub EXCEPT ![p] = r]
  BY DEF Ends
<1>3. r.pc = how
  OBVIOUS
<1> HIDE DEF r
<1> QED
  BY <1>1, <1>2, <1>3 DEF TypeOK

LEMMA GoesIs ==
  ASSUME TypeOK, NEW p \in Publisher,
         NEW pc \in {"staging", "backing", "promoting", "unlinking", "restoring"},
         NEW backup \in [File -> Content], NEW todo \in SUBSET File,
         Goes(p, pc, backup, todo)
  PROVE  /\ pub' \in [Publisher -> State]
         /\ pub'[p].pc = pc /\ pub'[p].backup = backup /\ pub'[p].todo = todo
         /\ pub'[p].gen = pub[p].gen /\ pub'[p].found = pub[p].found
         /\ \A q \in Publisher : q # p => pub'[q] = pub[q]
<1> DEFINE r == [pc |-> pc, gen |-> pub[p].gen, backup |-> backup, todo |-> todo,
                 found |-> pub[p].found]
<1>1. r \in State
  BY DEF State, TypeOK
<1>2. pub' = [pub EXCEPT ![p] = r]
  BY DEF Goes
<1>3. /\ r.pc = pc /\ r.backup = backup /\ r.todo = todo
      /\ r.gen = pub[p].gen /\ r.found = pub[p].found
  OBVIOUS
<1> HIDE DEF r
<1> QED
  BY <1>1, <1>2, <1>3 DEF TypeOK

LEMMA BeginIs ==
  ASSUME TypeOK, NEW p \in Publisher, NEW g \in Gen, NEW force \in BOOLEAN,
         Begin(p, g, force), ~ (Existing # {} /\ ~ force)
  PROVE  /\ pub' \in [Publisher -> State]
         /\ pub'[p].pc = "staging" /\ pub'[p].backup = None
         /\ pub'[p].todo = Existing /\ pub'[p].gen = g /\ pub'[p].found = out
         /\ \A q \in Publisher : q # p => pub'[q] = pub[q]
         /\ forced' = (forced \/ force) /\ out' = out /\ protocol' = protocol
<1> DEFINE r == [pc |-> "staging", gen |-> g, backup |-> None,
                 todo |-> Existing, found |-> out]
<1>1. r \in State
  BY NoneTyped DEF State, TypeOK, Existing, Present
<1>2. /\ pub' = [pub EXCEPT ![p] = r]
      /\ forced' = (forced \/ force) /\ out' = out /\ protocol' = protocol
  BY DEF Begin
<1>3. /\ r.pc = "staging" /\ r.backup = None /\ r.todo = Existing
      /\ r.gen = g /\ r.found = out
  OBVIOUS
<1> HIDE DEF r
<1> QED
  BY <1>1, <1>2, <1>3 DEF TypeOK

LEMMA Loops ==
  ASSUME TypeOK, NEW p \in Publisher
  PROVE  /\ pub[p].todo \subseteq File
         /\ pub[p].backup \in [File -> Content]
         /\ pub[p].found \in [File -> Content]
         /\ pub[p].gen \in Gen \cup {Absent}
         /\ Existing \subseteq File /\ Kept(p) \subseteq File
         /\ Promoted(p) \subseteq File
BY DEF TypeOK, State, Existing, Present, Kept, Promoted

(* What is in the backup when a step raises: what was there, but for at    *)
(* most the file whose copy broke off.                                     *)
LEMMA Breaks ==
  ASSUME TypeOK, NEW p \in Publisher, NEW backup \in LeftInBackup(p)
  PROVE  /\ backup \in [File -> Content]
         /\ \/ backup = pub[p].backup
            \/ /\ At(p, "backing")
               /\ \E f \in pub[p].todo \cap Existing :
                    /\ backup[f] \in {Torn, out[f]}
                    /\ \A g \in File : g # f => backup[g] = pub[p].backup[g]
<1>1. CASE backup = pub[p].backup
  BY <1>1, Loops
<1>2. CASE backup # pub[p].backup
  <2>1. At(p, "backing")
    BY <1>2 DEF LeftInBackup
  <2>2. PICK f \in pub[p].todo \cap Existing :
          \E copy \in {Torn, out[f]} : backup = [pub[p].backup EXCEPT ![f] = copy]
    BY <1>2, <2>1 DEF LeftInBackup
  <2>3. PICK copy \in {Torn, out[f]} : backup = [pub[p].backup EXCEPT ![f] = copy]
    BY <2>2
  <2>4. f \in File /\ copy \in Content /\ pub[p].backup \in [File -> Content]
    BY Loops DEF TypeOK, Content
  <2> QED
    BY <2>1, <2>2, <2>3, <2>4
<1> QED
  BY <1>1, <1>2

LEMMA TypeInit == Init => TypeOK
<1> SUFFICES ASSUME Init PROVE TypeOK
  OBVIOUS
<1>1. Idle \in State
  BY NoneTyped DEF Idle, State, Content
<1> QED
  BY <1>1, NoneTyped DEF Init, TypeOK

LEMMA TypeStep ==
  ASSUME TypeOK, [Next]_vars
  PROVE  TypeOK'
<1>1. CASE UNCHANGED vars
  BY <1>1 DEF vars, TypeOK
<1>2. ASSUME NEW p \in Publisher, PublisherStep(p) PROVE TypeOK'
  <2>1. ASSUME NEW g \in Gen, NEW force \in BOOLEAN, Begin(p, g, force)
        PROVE TypeOK'
    <3>1. CASE Existing # {} /\ ~ force
      <4>1. Ends(p, "failed") /\ UNCHANGED <<protocol, out, forced>>
        BY <2>1, <3>1 DEF Begin
      <4> QED
        BY <4>1, EndsIs DEF TypeOK
    <3>2. CASE ~ (Existing # {} /\ ~ force)
      BY <2>1, <3>2, BeginIs DEF TypeOK
    <3> QED
      BY <3>1, <3>2
  <2>2. CASE Stage(p)
    <3>1. Goes(p, "backing", pub[p].backup,
            IF protocol = "dataset" THEN pub[p].todo ELSE Existing)
      BY <2>2 DEF Stage
    <3> QED
      BY <2>2, <3>1, Loops, GoesIs DEF Stage, TypeOK
  <2>3. CASE BackUp(p)
    <3>1. PICK f \in pub[p].todo :
            Goes(p, "backing", [pub[p].backup EXCEPT ![f] = out[f]], pub[p].todo \ {f})
      BY <2>3 DEF BackUp
    <3>2. [pub[p].backup EXCEPT ![f] = out[f]] \in [File -> Content]
      BY Loops DEF TypeOK
    <3> QED
      BY <2>3, <3>1, <3>2, Loops, GoesIs DEF BackUp, TypeOK
  <2>4. CASE BackedUp(p)
    BY <2>4, Loops, GoesIs DEF BackedUp, TypeOK
  <2>5. CASE Promote(p)
    <3>1. PICK f \in pub[p].todo :
            /\ out' = [out EXCEPT ![f] = pub[p].gen]
            /\ IF f = Manifest THEN Ends(p, "published")
               ELSE Goes(p, "promoting", pub[p].backup, pub[p].todo \ {f})
      BY <2>5 DEF Promote
    <3>2. out' \in [File -> Content] /\ UNCHANGED <<protocol, forced>>
      BY <2>5, <3>1, Loops DEF TypeOK, Promote, Content
    <3>3. CASE f = Manifest
      BY <3>1, <3>2, <3>3, EndsIs DEF TypeOK
    <3>4. CASE f # Manifest
      BY <3>1, <3>2, <3>4, Loops, GoesIs DEF TypeOK
    <3> QED
      BY <3>3, <3>4
  <2>6. CASE StepFails(p)
    <3>1. CASE protocol = "dataset" /\ ~ At(p, "promoting")
      BY <2>6, <3>1, EndsIs DEF StepFails, TypeOK
    <3>2. CASE ~ (protocol = "dataset" /\ ~ At(p, "promoting"))
      <4> DEFINE todo == IF At(p, "promoting") THEN Promoted(p) ELSE {}
      <4>1. PICK backup \in LeftInBackup(p) : Goes(p, "unlinking", backup, todo)
        BY <2>6, <3>2 DEF StepFails
      <4>2. todo \in SUBSET File /\ backup \in [File -> Content]
        BY Loops, Breaks
      <4>3. pub' \in [Publisher -> State]
        BY <4>1, <4>2, GoesIs
      <4> QED
        BY <2>6, <4>3 DEF StepFails, TypeOK
    <3> QED
      BY <3>1, <3>2
  <2>7. CASE Unlink(p)
    <3>1. PICK f \in pub[p].todo :
            /\ out' = [out EXCEPT ![f] = Absent]
            /\ Goes(p, "unlinking", pub[p].backup, pub[p].todo \ {f})
      BY <2>7 DEF Unlink
    <3> QED
      BY <2>7, <3>1, Loops, GoesIs DEF Unlink, TypeOK, Content
  <2>8. CASE Unlinked(p)
    BY <2>8, Loops, GoesIs DEF Unlinked, TypeOK
  <2>9. CASE Restore(p)
    <3>1. PICK f \in pub[p].todo :
            /\ out' = [out EXCEPT ![f] = pub[p].backup[f]]
            /\ Goes(p, "restoring", pub[p].backup, pub[p].todo \ {f})
      BY <2>9 DEF Restore
    <3>2. out' \in [File -> Content]
      BY <3>1, Loops DEF TypeOK
    <3> QED
      BY <2>9, <3>1, <3>2, Loops, GoesIs DEF Restore, TypeOK
  <2>10. CASE Restored(p)
    BY <2>10, EndsIs DEF Restored, TypeOK
  <2>11. CASE CutOff(p)
    <3>1. out' \in [File -> Content]
      BY <2>11, Loops DEF CutOff, TypeOK, Content
    <3> QED
      BY <2>11, <3>1, EndsIs DEF CutOff, TypeOK
  <2> QED
    BY <1>2, <2>1, <2>2, <2>3, <2>4, <2>5, <2>6, <2>7, <2>8, <2>9, <2>10, <2>11
    DEF PublisherStep
<1> QED
  BY <1>1, <1>2 DEF Next

(* The directory and the backups hold files of known generations and what  *)
(* broken copies left.                                                     *)
THEOREM TypeCorrect == Spec => []TypeOK
BY TypeInit, TypeStep, PTL DEF Spec


-----------------------------------------------------------------------------
(* The inductive invariant: at each point of a publication, how what was   *)
(* found at its start can be had back from the directory and the backup.   *)
Turns == \A p, q \in Publisher : Busy(p) /\ Busy(q) => p = q

Unchanged(p, f) == out[f] = pub[p].found[f]
Copied(p, f) == pub[p].backup[f] = pub[p].found[f]

(* The copy of f broke off; and of no other file.                          *)
Broken(p, f) ==
  /\ protocol = "feature"
  /\ pub[p].found[f] # Absent
  /\ pub[p].backup[f] = Torn
OneBroken(p) ==
  \A f, g \in File :
    Broken(p, f) /\ ~ Copied(p, f) /\ Broken(p, g) /\ ~ Copied(p, g) => f = g

Recoverable(p) ==
  /\ At(p, "staging") =>
       /\ pub[p].backup = None
       /\ protocol = "dataset" => pub[p].todo = Existing
  /\ At(p, "staging") \/ At(p, "backing") => out = pub[p].found
  /\ At(p, "backing") =>
       \A f \in File : Copied(p, f) \/ (pub[p].backup[f] = Absent /\ f \in pub[p].todo)
  /\ At(p, "promoting") =>
       /\ Manifest \in pub[p].todo
       /\ \A f \in File : Copied(p, f)
       /\ \A f \in pub[p].todo : Unchanged(p, f)
       /\ \A f \in File \ pub[p].todo : out[f] = pub[p].gen
  /\ At(p, "unlinking") =>
       /\ Manifest \notin pub[p].todo
       /\ \A f \in File : Copied(p, f) \/ Broken(p, f) \/ pub[p].backup[f] = Absent
       /\ OneBroken(p)
       /\ \A f \in pub[p].todo : Copied(p, f)
       /\ \A f \in File \ pub[p].todo :
            Unchanged(p, f) \/ (out[f] = Absent /\ Copied(p, f))
  /\ At(p, "restoring") =>
       /\ OneBroken(p)
       /\ \A f \in pub[p].todo :
            (Copied(p, f) \/ Broken(p, f)) /\ pub[p].backup[f] # Absent
       /\ \A f \in File \ pub[p].todo :
            Unchanged(p, f) \/ (Broken(p, f) /\ out[f] = Torn)

First(p) == ~ forced => out[Manifest] = Absent /\ pub[p].found = None

IInv ==
  /\ TypeOK
  /\ Turns
  /\ \A p \in Publisher : Busy(p) => pub[p].gen \in Gen /\ Recoverable(p) /\ First(p)
  /\ ManifestLast

LEMMA Alone ==
  ASSUME IInv, Exclusive, NEW p \in Publisher, PublisherStep(p),
         NEW q \in Publisher, q # p
  PROVE  ~ Busy(q)
<1>1. CASE Busy(p)
  BY <1>1 DEF IInv, Turns
<1>2. CASE ~ Busy(p)
  BY <1>2 DEF PublisherStep, Begin, Stage, BackUp, BackedUp, Promote, StepFails,
     Unlink, Unlinked, Restore, Restored, CutOff, At, Busy
<1> QED
  BY <1>1, <1>2

LEMMA Settles ==
  ASSUME IInv, Exclusive, NEW p \in Publisher, PublisherStep(p), TypeOK',
         \A q \in Publisher : q # p => pub'[q] = pub[q],
         Busy(p)' => (pub[p].gen \in Gen /\ Recoverable(p) /\ First(p))',
         ManifestLast'
  PROVE  IInv'
<1>1. \A q \in Publisher : q # p => ~ Busy(q)'
  BY Alone DEF Busy
<1> QED
  BY <1>1 DEF IInv, Turns

LEMMA IStep ==
  ASSUME IInv, Exclusive, [Next]_vars
  PROVE  IInv'
<1>1. CASE UNCHANGED vars
  BY <1>1 DEF vars, IInv, TypeOK, Turns, Recoverable, First, ManifestLast, Busy, At,
     Unchanged, Copied, Broken, OneBroken, Existing, Present, Whole
<1>2. ASSUME NEW p \in Publisher, PublisherStep(p) PROVE IInv'
  <2> USE <1>2
  <2>0. TypeOK /\ TypeOK'
    BY TypeStep DEF IInv, Next
  <2>1. ASSUME NEW g \in Gen, NEW force \in BOOLEAN, Begin(p, g, force)
        PROVE IInv'
    <3>1. CASE Existing # {} /\ ~ force
      <4>1. Ends(p, "failed") /\ UNCHANGED <<protocol, out, forced>>
        BY <2>1, <3>1 DEF Begin
      <4> QED
        BY <2>0, <4>1, EndsIs, Settles DEF Busy, IInv, ManifestLast, Whole
    <3>2. CASE ~ (Existing # {} /\ ~ force)
      <4>1. /\ pub'[p].pc = "staging" /\ pub'[p].backup = None
            /\ pub'[p].todo = Existing /\ pub'[p].gen = g /\ pub'[p].found = out
            /\ \A q \in Publisher : q # p => pub'[q] = pub[q]
            /\ forced' = (forced \/ force) /\ out' = out /\ protocol' = protocol
        BY <2>0, <2>1, <3>2, BeginIs
      <4>2. Recoverable(p)'
        BY <4>1 DEF Recoverable, At, Existing, Present
      <4>3. First(p)'
        <5>1. CASE force
          BY <4>1, <5>1 DEF First
        <5>2. CASE Existing = {}
          <6>1. out = None
            BY <2>0, <5>2 DEF Existing, Present, None, TypeOK
          <6> QED
            BY <4>1, <6>1, Files DEF First, None
        <5> QED
          BY <3>2, <5>1, <5>2
      <4>4. ManifestLast'
        BY <4>1 DEF IInv, ManifestLast, Whole
      <4> QED
        BY <2>0, <4>1, <4>2, <4>3, <4>4, Settles
    <3> QED
      BY <3>1, <3>2
  <2>2. CASE Stage(p)
    <3>1. Goes(p, "backing", pub[p].backup,
            IF protocol = "dataset" THEN pub[p].todo ELSE Existing)
          /\ UNCHANGED <<protocol, out, forced>> /\ pub[p].pc = "staging"
      BY <2>2 DEF Stage, At
    <3>2. Busy(p) /\ Recoverable(p) /\ First(p) /\ pub[p].gen \in Gen /\ ManifestLast
      BY <3>1 DEF Busy, IInv
    <3>3. /\ pub'[p].pc = "backing" /\ pub'[p].backup = None /\ pub'[p].todo = Existing
          /\ pub'[p].gen = pub[p].gen /\ pub'[p].found = pub[p].found /\ out = pub[p].found
          /\ \A q \in Publisher : q # p => pub'[q] = pub[q]
      BY <2>0, <3>1, <3>2, Loops, GoesIs DEF Recoverable, At
    <3>4. Recoverable(p)'
      BY <3>1, <3>3 DEF Recoverable, At, Existing, Present, None, Copied
    <3> QED
      BY <2>0, <3>1, <3>2, <3>3, <3>4, Settles DEF First, ManifestLast, Whole
  <2>3. CASE BackUp(p)
    <3>1. PICK f \in pub[p].todo :
            Goes(p, "backing", [pub[p].backup EXCEPT ![f] = out[f]], pub[p].todo \ {f})
      BY <2>3 DEF BackUp
    <3>2. UNCHANGED <<protocol, out, forced>> /\ pub[p].pc = "backing"
      BY <2>3 DEF BackUp, At
    <3>3. Busy(p) /\ Recoverable(p) /\ First(p) /\ pub[p].gen \in Gen /\ ManifestLast
      BY <3>2 DEF Busy, IInv
    <3>4. [pub[p].backup EXCEPT ![f] = out[f]] \in [File -> Content]
      BY <2>0, Loops DEF TypeOK
    <3>5. /\ pub'[p].pc = "backing" /\ pub'[p].backup = [pub[p].backup EXCEPT ![f] = out[f]]
          /\ pub'[p].todo = pub[p].todo \ {f}
          /\ pub'[p].gen = pub[p].gen /\ pub'[p].found = pub[p].found
          /\ \A q \in Publisher : q # p => pub'[q] = pub[q]
      BY <2>0, <3>1, <3>4, Loops, GoesIs
    <3>6. out = pub[p].found /\ f \in File
      BY <2>0, <3>2, <3>3, Loops DEF Recoverable, At
    <3>7. Recoverable(p)'
      BY <2>0, <3>2, <3>3, <3>5, <3>6, Loops DEF Recoverable, At, Copied
    <3> QED
      BY <2>0, <3>2, <3>3, <3>5, <3>7, Settles DEF First, ManifestLast, Whole
  <2>4. CASE BackedUp(p)
    <3>1. Goes(p, "promoting", pub[p].backup, File) /\ pub[p].todo = {}
          /\ UNCHANGED <<protocol, out, forced>> /\ pub[p].pc = "backing"
      BY <2>4 DEF BackedUp, At
    <3>2. Busy(p) /\ Recoverable(p) /\ First(p) /\ pub[p].gen \in Gen /\ ManifestLast
      BY <3>1 DEF Busy, IInv
    <3>3. /\ pub'[p].pc = "promoting" /\ pub'[p].backup = pub[p].backup
          /\ pub'[p].todo = File
          /\ pub'[p].gen = pub[p].gen /\ pub'[p].found = pub[p].found
          /\ \A q \in Publisher : q # p => pub'[q] = pub[q]
      BY <2>0, <3>1, Loops, GoesIs
    <3>4. Recoverable(p)'
      BY <3>1, <3>2, <3>3, Files DEF Recoverable, At, Copied, Unchanged
    <3> QED
      BY <2>0, <3>1, <3>2, <3>3, <3>4, Settles DEF First, ManifestLast, Whole
  <2>5. CASE Promote(p)
    <3>1. PICK f \in pub[p].todo :
            /\ \A other \in pub[p].todo : f <= other
            /\ out' = [out EXCEPT ![f] = pub[p].gen]
            /\ IF f = Manifest THEN Ends(p, "published")
               ELSE Goes(p, "promoting", pub[p].backup, pub[p].todo \ {f})
      BY <2>5 DEF Promote
    <3>2. UNCHANGED <<protocol, forced>> /\ pub[p].pc = "promoting"
      BY <2>5 DEF Promote, At
    <3>3. Busy(p) /\ Recoverable(p) /\ First(p) /\ pub[p].gen \in Gen /\ ManifestLast
      BY <3>2 DEF Busy, IInv
    <3>4. f \in File /\ out \in [File -> Content]
      BY <2>0, Loops DEF TypeOK
    <3>5. CASE f = Manifest
      <4>1. pub[p].todo = {Manifest}
        BY <2>0, <3>1, <3>5, Files, Loops
      <4>2. Whole(out')
        <5>1. \A x \in File : out'[x] = pub[p].gen
          BY <3>1, <3>2, <3>3, <3>4, <3>5, <4>1 DEF Recoverable, At
        <5> QED
          BY <3>3, <5>1, Files, PublisherAssumption DEF Whole
      <4> QED
        BY <2>0, <3>1, <3>5, <4>2, EndsIs, Settles DEF Busy, ManifestLast
    <3>6. CASE f # Manifest
      <4>1. /\ pub'[p].pc = "promoting" /\ pub'[p].backup = pub[p].backup
            /\ pub'[p].todo = pub[p].todo \ {f}
            /\ pub'[p].gen = pub[p].gen /\ pub'[p].found = pub[p].found
            /\ \A q \in Publisher : q # p => pub'[q] = pub[q]
        BY <2>0, <3>1, <3>6, Loops, GoesIs
      <4>2. Recoverable(p)'
        BY <2>0, <3>1, <3>2, <3>3, <3>4, <3>6, <4>1, Loops
        DEF Recoverable, At, Copied, Unchanged
      <4>3. out'[Manifest] = out[Manifest]
        BY <3>1, <3>4, <3>6, Files
      <4>4. First(p)' /\ ManifestLast'
        BY <3>2, <3>3, <4>1, <4>3 DEF First, ManifestLast
      <4> QED
        BY <2>0, <3>3, <4>1, <4>2, <4>4, Settles
    <3> QED
      BY <3>5, <3>6
  <2>6. CASE StepFails(p)
    <3>1. UNCHANGED <<protocol, out, forced>> /\ Busy(p)
      BY <2>6 DEF StepFails, Busy
    <3>2. Recoverable(p) /\ First(p) /\ pub[p].gen \in Gen /\ ManifestLast
      BY <3>1 DEF IInv
    <3>3. CASE protocol = "dataset" /\ ~ At(p, "promoting")
      <4>1. ~ Busy(p)' /\ \A q \in Publisher : q # p => pub'[q] = pub[q]
        BY <2>0, <2>6, <3>3, EndsIs DEF StepFails, Busy
      <4>2. ManifestLast'
        BY <3>1, <3>2 DEF ManifestLast, Whole
      <4> QED
        BY <2>0, <4>1, <4>2, Settles
    <3>4. CASE ~ (protocol = "dataset" /\ ~ At(p, "promoting"))
      <4> DEFINE todo == IF At(p, "promoting") THEN Promoted(p) ELSE {}
      <4>1. PICK backup \in LeftInBackup(p) : Goes(p, "unlinking", backup, todo)
        BY <2>6, <3>4 DEF StepFails
      <4>2. todo \in SUBSET File /\ backup \in [File -> Content]
        BY <2>0, Loops, Breaks
      <4>3. /\ pub'[p].pc = "unlinking" /\ pub'[p].backup = backup
            /\ pub'[p].todo = todo
            /\ pub'[p].gen = pub[p].gen /\ pub'[p].found = pub[p].found
            /\ \A q \in Publisher : q # p => pub'[q] = pub[q]
        BY <2>0, <4>1, <4>2, GoesIs
      <4>4. Recoverable(p)'
        <5>1. CASE At(p, "promoting")
          <6>1. backup = pub[p].backup
            BY <2>0, <5>1, Breaks DEF At
          <6> QED
            BY <3>1, <3>2, <4>3, <5>1, <6>1
            DEF Recoverable, At, Copied, Unchanged, Broken, OneBroken, Promoted
        <5>2. CASE At(p, "staging")
          <6>1. backup = pub[p].backup
            BY <2>0, <5>2, Breaks DEF At
          <6> QED
            BY <3>1, <3>2, <4>3, <5>2, <6>1, Files, PublisherAssumption
            DEF Recoverable, At, Copied, Unchanged, Broken, OneBroken, None
        <5>3. CASE At(p, "backing")
          <6>1. /\ \A f \in File : Copied(p, f) \/ pub[p].backup[f] = Absent
                /\ out = pub[p].found
            BY <3>2, <5>3 DEF Recoverable
          <6>2. CASE backup = pub[p].backup
            BY <3>1, <3>2, <4>3, <5>3, <6>1, <6>2, Files, PublisherAssumption
            DEF Recoverable, At, Copied, Unchanged, Broken, OneBroken
          <6>3. CASE backup # pub[p].backup
            <7>1. PICK f \in pub[p].todo \cap Existing :
                    /\ backup[f] \in {Torn, out[f]}
                    /\ \A g \in File : g # f => backup[g] = pub[p].backup[g]
              BY <2>0, <6>3, Breaks
            <7>2. f \in File /\ out[f] # Absent /\ protocol = "feature"
              BY <2>0, <3>4, <5>3 DEF Existing, Present, At, TypeOK
            <7>3. \A g \in File : Copied(p, g)' \/ Broken(p, g)' \/ backup[g] = Absent
              BY <3>1, <4>3, <6>1, <7>1, <7>2 DEF Copied, Broken
            <7>4. \A g \in File : Broken(p, g)' /\ ~ Copied(p, g)' => g = f
              BY <3>1, <4>3, <6>1, <7>1, PublisherAssumption DEF Copied, Broken
            <7>5. \A g \in File : Unchanged(p, g)'
              BY <3>1, <4>3, <6>1 DEF Unchanged
            <7>6. OneBroken(p)'
              BY <7>4 DEF OneBroken
            <7>7. pub'[p].todo = {} /\ pub'[p].pc = "unlinking"
              BY <4>3, <5>3 DEF At
            <7> QED
              BY <4>3, <7>3, <7>5, <7>6, <7>7 DEF Recoverable, At
          <6> QED
            BY <6>2, <6>3
        <5> QED
          BY <2>6, <5>1, <5>2, <5>3 DEF StepFails, At
      <4> QED
        BY <2>0, <3>1, <3>2, <4>3, <4>4, Settles DEF First, ManifestLast, Whole
    <3> QED
      BY <3>3, <3>4
  <2>7. CASE Unlink(p)
    <3>1. PICK f \in pub[p].todo :
            /\ out' = [out EXCEPT ![f] = Absent]
            /\ Goes(p, "unlinking", pub[p].backup, pub[p].todo \ {f})
      BY <2>7 DEF Unlink
    <3>2. UNCHANGED <<protocol, forced>> /\ pub[p].pc = "unlinking"
      BY <2>7 DEF Unlink, At
    <3>3. Busy(p) /\ Recoverable(p) /\ First(p) /\ pub[p].gen \in Gen /\ ManifestLast
      BY <3>2 DEF Busy, IInv
    <3>4. f \in File /\ out \in [File -> Content]
      BY <2>0, Loops DEF TypeOK
    <3>5. /\ pub'[p].pc = "unlinking" /\ pub'[p].backup = pub[p].backup
          /\ pub'[p].todo = pub[p].todo \ {f}
          /\ pub'[p].gen = pub[p].gen /\ pub'[p].found = pub[p].found
          /\ \A q \in Publisher : q # p => pub'[q] = pub[q]
      BY <2>0, <3>1, Loops, GoesIs
    <3>6. Recoverable(p)'
      BY <3>1, <3>2, <3>3, <3>4, <3>5
      DEF Recoverable, At, Copied, Unchanged, Broken, OneBroken
    <3>7. out'[Manifest] = out[Manifest]
      BY <3>1, <3>2, <3>3, <3>4, Files DEF Recoverable, At
    <3> QED
      BY <2>0, <3>2, <3>3, <3>5, <3>6, <3>7, Files, Settles DEF First, ManifestLast
  <2>8. CASE Unlinked(p)
    <3>1. Goes(p, "restoring", pub[p].backup, Kept(p)) /\ pub[p].todo = {}
          /\ UNCHANGED <<protocol, out, forced>> /\ pub[p].pc = "unlinking"
      BY <2>8 DEF Unlinked, At
    <3>2. Busy(p) /\ Recoverable(p) /\ First(p) /\ pub[p].gen \in Gen /\ ManifestLast
      BY <3>1 DEF Busy, IInv
    <3>3. /\ pub'[p].pc = "restoring" /\ pub'[p].backup = pub[p].backup
          /\ pub'[p].todo = Kept(p)
          /\ pub'[p].gen = pub[p].gen /\ pub'[p].found = pub[p].found
          /\ \A q \in Publisher : q # p => pub'[q] = pub[q]
      BY <2>0, <3>1, Loops, GoesIs
    <3>4. Recoverable(p)'
      BY <3>1, <3>2, <3>3, Loops
      DEF Recoverable, At, Copied, Unchanged, Broken, OneBroken, Kept, Present
    <3> QED
      BY <2>0, <3>1, <3>2, <3>3, <3>4, Settles DEF First, ManifestLast, Whole
  <2>9. CASE Restore(p)
    <3>1. PICK f \in pub[p].todo :
            /\ out' = [out EXCEPT ![f] = pub[p].backup[f]]
            /\ Goes(p, "restoring", pub[p].backup, pub[p].todo \ {f})
      BY <2>9 DEF Restore
    <3>2. UNCHANGED <<protocol, forced>> /\ pub[p].pc = "restoring"
      BY <2>9 DEF Restore, At
    <3>3. Busy(p) /\ Recoverable(p) /\ First(p) /\ pub[p].gen \in Gen /\ ManifestLast
      BY <3>2 DEF Busy, IInv
    <3>4. f \in File /\ out \in [File -> Content]
      BY <2>0, Loops DEF TypeOK
    <3>5. /\ pub'[p].pc = "restoring" /\ pub'[p].backup = pub[p].backup
          /\ pub'[p].todo = pub[p].todo \ {f}
          /\ pub'[p].gen = pub[p].gen /\ pub'[p].found = pub[p].found
          /\ \A q \in Publisher : q # p => pub'[q] = pub[q]
      BY <2>0, <3>1, Loops, GoesIs
    <3>6. Recoverable(p)'
      BY <3>1, <3>2, <3>3, <3>4, <3>5
      DEF Recoverable, At, Copied, Unchanged, Broken, OneBroken
    <3>7. First(p)' /\ ManifestLast'
      <4>1. CASE forced
        BY <3>2, <4>1 DEF First, ManifestLast
      <4>2. CASE ~ forced
        BY <3>1, <3>2, <3>3, <3>4, <4>2 DEF First, Recoverable, At, Copied, Broken, None
      <4> QED
        BY <4>1, <4>2
    <3> QED
      BY <2>0, <3>3, <3>5, <3>6, <3>7, Settles
  <2>10. CASE Restored(p)
    BY <2>0, <2>10, EndsIs, Settles DEF Restored, Busy, ManifestLast, Whole, IInv
  <2>11. CASE CutOff(p)
    <3>1. /\ ~ Busy(p)' /\ \A q \in Publisher : q # p => pub'[q] = pub[q]
          /\ Busy(p) /\ UNCHANGED forced
      BY <2>0, <2>11, EndsIs DEF CutOff, Busy
    <3>2. ~ forced => out' = out
      <4> SUFFICES ASSUME ~ forced, NEW f \in pub[p].todo, At(p, "restoring") PROVE FALSE
        BY <2>11 DEF CutOff
      <4>1. f \in File /\ pub[p].found = None /\ Recoverable(p)
        BY <2>0, <3>1, Loops DEF IInv, First
      <4> QED
        BY <4>1 DEF Recoverable, Copied, Broken, None
    <3>3. ManifestLast'
      BY <3>1, <3>2 DEF IInv, ManifestLast, Whole
    <3> QED
      BY <2>0, <3>1, <3>3, Settles
  <2> QED
    BY <2>1, <2>2, <2>3, <2>4, <2>5, <2>6, <2>7, <2>8, <2>9, <2>10, <2>11
    DEF PublisherStep
<1> QED
  BY <1>1, <1>2 DEF Next

LEMMA IInit == Init => IInv
<1> SUFFICES ASSUME Init PROVE IInv
  OBVIOUS
<1>1. \A p \in Publisher : ~ Busy(p)
  BY DEF Init, Idle, Busy
<1>2. ManifestLast
  BY Files DEF Init, None, ManifestLast
<1> QED
  BY <1>1, <1>2, TypeInit DEF IInv, Turns

(* The inductive invariant of publishers that take turns: at each point of *)
(* the program, which files are new and which are as they were found.      *)
THEOREM Invariant ==
  ASSUME Exclusive
  PROVE  Spec => []IInv
<1>1. IInv /\ [Next]_vars => IInv'
  BY IStep
<1> QED
  BY <1>1, IInit, PTL DEF Spec

(* In a directory nobody was allowed to overwrite, a manifest vouches for  *)
(* files that are there, wherever publishers fail and are killed.          *)
THEOREM ManifestVouches ==
  ASSUME Exclusive
  PROVE  Spec => []ManifestLast
BY Invariant, PTL DEF IInv

(* What a failed publication leaves once its last file has been copied     *)
(* back, or when it had nothing to undo.                                   *)
LeftBy(p) ==
  \/ out = pub[p].found
  \/ /\ protocol = "feature"
     /\ \E f \in Present(pub[p].found) :
          /\ pub[p].backup[f] = Torn
          /\ out = [pub[p].found EXCEPT ![f] = Torn]

LEMMA RestoredLeaves ==
  ASSUME TypeOK, NEW p \in Publisher, Recoverable(p), Restored(p)
  PROVE  LeftBy(p)
<1>1. /\ OneBroken(p)
      /\ \A f \in File : Unchanged(p, f) \/ (Broken(p, f) /\ out[f] = Torn)
  BY DEF Recoverable, Restored
<1>2. out \in [File -> Content] /\ pub[p].found \in [File -> Content]
  BY Loops DEF TypeOK
<1>3. CASE \A f \in File : Unchanged(p, f)
  BY <1>2, <1>3 DEF Unchanged, LeftBy
<1>4. ASSUME NEW f \in File, ~ Unchanged(p, f) PROVE LeftBy(p)
  <2>1. Broken(p, f) /\ ~ Copied(p, f) /\ out[f] = Torn
    BY <1>1, <1>4 DEF Broken, Copied, Unchanged
  <2>2. \A g \in File : g # f => out[g] = pub[p].found[g]
    BY <1>1, <2>1 DEF OneBroken, Broken, Copied, Unchanged
  <2>3. out = [pub[p].found EXCEPT ![f] = Torn]
    BY <1>2, <2>1, <2>2
  <2> QED
    BY <2>1, <2>3 DEF Broken, LeftBy, Present
<1> QED
  BY <1>3, <1>4

(* A publication that tells its caller it failed has put back what it      *)
(* found, whichever of its steps raised and however its copies broke off,  *)
(* but for the one file of a feature or detection set whose backup copy    *)
(* broke off.                                                              *)
THEOREM FailuresRestore ==
  ASSUME Exclusive
  PROVE  Spec => FailureRestores
<1> DEFINE Back == \A p \in Publisher :
                     Busy(p) /\ pub'[p].pc = "failed" =>
                       \/ out' = pub[p].found
                       \/ /\ protocol = "feature"
                          /\ \E f \in Present(pub[p].found) :
                               /\ pub[p].backup[f] = Torn
                               /\ out' = [pub[p].found EXCEPT ![f] = Torn]
<1>1. IInv /\ [Next]_vars => [Back]_vars
  <2> SUFFICES ASSUME IInv, Next, NEW p \in Publisher, Busy(p), pub'[p].pc = "failed"
               PROVE LeftBy(p) /\ out' = out
    BY DEF LeftBy
  <2>0. TypeOK /\ Recoverable(p)
    BY DEF IInv
  <2>1. PICK q \in Publisher : PublisherStep(q)
    BY DEF Next
  <2>2. CASE q # p
    BY <2>0, <2>1, <2>2, Alone
  <2>3. CASE q = p
    <3>1. CASE StepFails(p)
      <4>1. protocol = "dataset" /\ ~ At(p, "promoting")
        <5> SUFFICES ASSUME ~ (protocol = "dataset" /\ ~ At(p, "promoting"))
                     PROVE  FALSE
          OBVIOUS
        <5> DEFINE todo == IF At(p, "promoting") THEN Promoted(p) ELSE {}
        <5>1. PICK backup \in LeftInBackup(p) : Goes(p, "unlinking", backup, todo)
          BY <3>1 DEF StepFails
        <5>2. todo \in SUBSET File /\ backup \in [File -> Content]
          BY <2>0, Loops, Breaks
        <5>3. pub'[p].pc = "unlinking"
          BY <2>0, <5>1, <5>2, GoesIs
        <5> QED
          BY <5>3
      <4> QED
        BY <2>0, <3>1, <4>1 DEF StepFails, Recoverable, At, LeftBy
    <3>2. CASE Restored(p)
      BY <2>0, <3>2, RestoredLeaves DEF Restored
    <3>3. CASE ~ StepFails(p) /\ ~ Restored(p)
      <4>1. pub'[p].pc # "failed"
        <5>1. ASSUME NEW g \in Gen, NEW force \in BOOLEAN, Begin(p, g, force) PROVE FALSE
          BY <5>1 DEF Begin
        <5>2. CASE Stage(p)
          <6>1. Goes(p, "backing", pub[p].backup,
                  IF protocol = "dataset" THEN pub[p].todo ELSE Existing)
            BY <5>2 DEF Stage
          <6> QED
            BY <2>0, <6>1, Loops, GoesIs
        <5>3. CASE BackUp(p)
          <6>1. PICK f \in pub[p].todo :
                  Goes(p, "backing", [pub[p].backup EXCEPT ![f] = out[f]], pub[p].todo \ {f})
            BY <5>3 DEF BackUp
          <6>2. [pub[p].backup EXCEPT ![f] = out[f]] \in [File -> Content]
            BY <2>0, Loops DEF TypeOK
          <6> QED
            BY <2>0, <6>1, <6>2, Loops, GoesIs
        <5>4. CASE BackedUp(p)
          BY <2>0, <5>4, Loops, GoesIs DEF BackedUp
        <5>5. CASE Promote(p)
          <6>1. PICK f \in pub[p].todo :
                  IF f = Manifest THEN Ends(p, "published")
                  ELSE Goes(p, "promoting", pub[p].backup, pub[p].todo \ {f})
            BY <5>5 DEF Promote
          <6>2. CASE f = Manifest
            BY <2>0, <6>1, <6>2, EndsIs
          <6>3. CASE f # Manifest
            BY <2>0, <6>1, <6>3, Loops, GoesIs
          <6> QED
            BY <6>2, <6>3
        <5>6. CASE Unlink(p)
          <6>1. PICK f \in pub[p].todo :
                  Goes(p, "unlinking", pub[p].backup, pub[p].todo \ {f})
            BY <5>6 DEF Unlink
          <6> QED
            BY <2>0, <6>1, Loops, GoesIs
        <5>7. CASE Unlinked(p)
          BY <2>0, <5>7, Loops, GoesIs DEF Unlinked
        <5>8. CASE Restore(p)
          <6>1. PICK f \in pub[p].todo :
                  Goes(p, "restoring", pub[p].backup, pub[p].todo \ {f})
            BY <5>8 DEF Restore
          <6> QED
            BY <2>0, <6>1, Loops, GoesIs
        <5>9. CASE CutOff(p)
          BY <2>0, <5>9, EndsIs DEF CutOff
        <5> QED
          BY <2>1, <2>3, <3>3, <5>1, <5>2, <5>3, <5>4, <5>5, <5>6, <5>7, <5>8, <5>9
          DEF PublisherStep
      <4> QED
        BY <4>1
    <3> QED
      BY <3>1, <3>2, <3>3
  <2> QED
    BY <2>2, <2>3
<1>2. Spec => []IInv
  BY Invariant
<1>3. FailureRestores <=> [][Back]_vars
  BY DEF FailureRestores
<1> QED
  BY <1>1, <1>2, <1>3, PTL DEF Spec

-----------------------------------------------------------------------------
(* The refinement.  Only the publisher that steps can be touching the      *)
(* directory, so what is held is read off its state alone.                 *)
LEMMA HeldIs ==
  ASSUME NEW p \in Publisher, \A q \in Publisher : q # p => ~ Touching(q)
  PROVE  Held = IF Touching(p) THEN Holds(pub[p].found) ELSE Holds(out)
<1>1. CASE Touching(p)
  <2>1. (CHOOSE q \in Publisher : Touching(q)) = p
    BY <1>1
  <2> QED
    BY <1>1, <2>1 DEF Held
<1>2. CASE ~ Touching(p)
  BY <1>2 DEF Held
<1> QED
  BY <1>1, <1>2

LEMMA HoldsTyped ==
  ASSUME NEW d \in [File -> Content]
  PROVE  Holds(d) \in Gen \cup {Absent, Damaged}
BY Files DEF Holds, Whole

LEMMA HoldsWhole ==
  ASSUME NEW d \in [File -> Content], Whole(d)
  PROVE  Holds(d) = d[Manifest]
BY Files DEF Holds, Whole, Present

(* What a step does to Told, by the publisher's pc before and after it.    *)
LEMMA ToldIs ==
  ASSUME TypeOK, NEW p \in Publisher, NEW pc, pub'[p].pc = pc,
         \A q \in Publisher : q # p => pub'[q] = pub[q]
  PROVE  Told' = [Told EXCEPT ![p] =
           IF pc \in {"published", "failed", "cut off"} THEN pc ELSE "nothing"]
BY DEF Told

LEMMA Refines ==
  ASSUME IInv, IInv', Exclusive, [Next]_vars
  PROVE  [Contract!Next]_<<Held, Told, protocol = "dataset">>
<1>1. CASE UNCHANGED vars
  BY <1>1 DEF vars, Held, Told, Touching, Holds, Present, Whole
<1>2. ASSUME NEW p \in Publisher, PublisherStep(p)
      PROVE  [Contract!Next]_<<Held, Told, protocol = "dataset">>
  <2> USE <1>2
  <2>0. TypeOK /\ TypeOK'
    BY DEF IInv
  <2>1. \A q \in Publisher : q # p => ~ Busy(q)
    BY Alone
  <2>2. Held = IF Touching(p) THEN Holds(pub[p].found) ELSE Holds(out)
    <3>1. \A q \in Publisher : q # p => ~ Touching(q)
      BY <2>1 DEF Busy, Touching
    <3> QED
      BY <3>1, HeldIs
  <2>3. ASSUME \A q \in Publisher : q # p => pub'[q] = pub[q]
        PROVE  Held' = IF Touching(p)' THEN Holds(pub'[p].found) ELSE Holds(out')
    <3>1. \A q \in Publisher : q # p => ~ Touching(q)'
      BY <2>1, <2>3 DEF Busy, Touching
    <3>2. CASE Touching(p)'
      <4>1. (CHOOSE q \in Publisher : Touching(q)') = p
        BY <3>1, <3>2
      <4> QED
        BY <3>2, <4>1 DEF Held, Touching, Holds, Present, Whole
    <3>3. CASE ~ Touching(p)'
      BY <3>1, <3>3 DEF Held, Touching, Holds, Present, Whole
    <3> QED
      BY <3>2, <3>3
  <2>3a. (protocol = "dataset")' = (protocol = "dataset")
    BY DEF PublisherStep, Begin, Stage, BackUp, BackedUp, Promote, StepFails, Unlink,
       Unlinked, Restore, Restored, CutOff
  <2>4. Contract!Start(p) \/ Contract!Decline(p) \/ Contract!CutOff(p)
          \/ (\E g \in Gen : Contract!Replace(p, g))
        => [Contract!Next]_<<Held, Told, protocol = "dataset">>
    BY DEF Contract!Next
  (* A step on the way: the caller is told nothing yet, what is held stays. *)
  <2>5. ASSUME Busy(p), Busy(p)', \A q \in Publisher : q # p => pub'[q] = pub[q],
               Held' = Held
        PROVE  [Contract!Next]_<<Held, Told, protocol = "dataset">>
    <3>1. Told' = Told
      BY <2>0, <2>5 DEF Told, Busy, TypeOK
    <3> QED
      BY <2>3a, <2>5, <3>1
  (* A step that ends with the caller told it failed: what is held is kept, *)
  (* or damaged by the file that was copied back torn.                      *)
  <2>6. ASSUME Ends(p, "failed"), ~ Touching(p) \/ LeftBy(p), out' = out
        PROVE  [Contract!Next]_<<Held, Told, protocol = "dataset">>
    <3>1. pub'[p].pc = "failed" /\ \A q \in Publisher : q # p => pub'[q] = pub[q]
      BY <2>0, <2>6, EndsIs
    <3>2. Told' = [Told EXCEPT ![p] = "failed"]
      BY <2>0, <3>1, ToldIs
    <3>3. Held' = Holds(out)
      BY <2>3, <2>6, <3>1 DEF Touching, Holds, Present, Whole
    <3>4. CASE ~ Touching(p) \/ out = pub[p].found
      BY <2>2, <2>3a, <2>4, <3>2, <3>3, <3>4 DEF Contract!Decline
    <3>5. CASE Touching(p) /\ out # pub[p].found
      <4>1. PICK f \in Present(pub[p].found) :
              protocol = "feature" /\ out = [pub[p].found EXCEPT ![f] = Torn]
        BY <2>6, <3>5 DEF LeftBy
      <4>2. f \in File /\ pub[p].found \in [File -> Content] /\ out[f] = Torn
        BY <2>0, <4>1, Loops DEF Present
      <4>3. f \in Present(out) /\ ~ Whole(out)
        BY <4>2, PublisherAssumption DEF Present, Whole
      <4>4. Held' = Damaged
        BY <3>3, <4>3 DEF Holds
      <4>5. Held # Absent
        BY <2>2, <3>5, <4>1, PublisherAssumption DEF Holds, Whole
      <4> QED
        BY <2>3a, <2>4, <3>2, <4>1, <4>4, <4>5 DEF Contract!Decline
    <3> QED
      BY <3>4, <3>5
  <2>7. ASSUME NEW g \in Gen, NEW force \in BOOLEAN, Begin(p, g, force)
        PROVE  [Contract!Next]_<<Held, Told, protocol = "dataset">>
    <3>0. ~ Touching(p) /\ out' = out
      BY <2>7 DEF Begin, Busy, Touching
    <3>1. CASE Existing # {} /\ ~ force
      BY <2>6, <2>7, <3>0, <3>1 DEF Begin
    <3>2. CASE ~ (Existing # {} /\ ~ force)
      <4>1. pub'[p].pc = "staging" /\ \A q \in Publisher : q # p => pub'[q] = pub[q]
        BY <2>0, <2>7, <3>2, BeginIs
      <4>2. Told' = [Told EXCEPT ![p] = "nothing"]
        BY <2>0, <4>1, ToldIs
      <4>3. Held' = Held
        BY <2>2, <2>3, <3>0, <4>1 DEF Touching
      <4> QED
        BY <2>3a, <2>4, <4>2, <4>3 DEF Contract!Start
    <3> QED
      BY <3>1, <3>2
  <2>8. ASSUME Busy(p)
        PROVE  Recoverable(p) /\ pub[p].gen \in Gen
    BY <2>8 DEF IInv
  (* Where the files are being moved, what was found is what is held.       *)
  <2>9. ASSUME NEW pc \in {"staging", "backing", "promoting", "unlinking", "restoring"},
               NEW backup \in [File -> Content], NEW todo \in SUBSET File,
               Busy(p), Goes(p, pc, backup, todo),
               (~ Touching(p) \/ pc \notin {"promoting", "unlinking", "restoring"}) =>
                 out' = out /\ out = pub[p].found /\ ~ Touching(p)
        PROVE  [Contract!Next]_<<Held, Told, protocol = "dataset">>
    <3>1. /\ pub'[p].pc = pc /\ pub'[p].found = pub[p].found
          /\ \A q \in Publisher : q # p => pub'[q] = pub[q]
      BY <2>0, <2>9, GoesIs
    <3>2. Held' = Held
      BY <2>2, <2>3, <2>9, <3>1 DEF Touching
    <3> QED
      BY <2>5, <2>9, <3>1, <3>2 DEF Busy
  <2>10. CASE Stage(p)
    <3>1. pub[p].pc = "staging" /\ out' = out
          /\ Goes(p, "backing", pub[p].backup,
               IF protocol = "dataset" THEN pub[p].todo ELSE Existing)
      BY <2>10 DEF Stage, At
    <3>2. Busy(p) /\ ~ Touching(p)
      BY <3>1 DEF Busy, Touching
    <3>3. out = pub[p].found
      BY <2>8, <3>1, <3>2 DEF Recoverable, At
    <3> QED
      BY <2>0, <2>9, <3>1, <3>2, <3>3, Loops
  <2>11. CASE BackUp(p)
    <3>1. PICK f \in pub[p].todo :
            Goes(p, "backing", [pub[p].backup EXCEPT ![f] = out[f]], pub[p].todo \ {f})
      BY <2>11 DEF BackUp
    <3>2. pub[p].pc = "backing" /\ out' = out /\ Busy(p) /\ ~ Touching(p)
      BY <2>11 DEF BackUp, At, Busy, Touching
    <3>3. out = pub[p].found
      BY <2>8, <3>2 DEF Recoverable, At
    <3>4. [pub[p].backup EXCEPT ![f] = out[f]] \in [File -> Content]
      BY <2>0, Loops DEF TypeOK
    <3>5. pub[p].todo \ {f} \in SUBSET File
      BY <2>0, Loops
    <3> QED
      BY <2>9, <3>1, <3>2, <3>3, <3>4, <3>5
  <2>12. CASE BackedUp(p)
    <3>1. pub[p].pc = "backing" /\ out' = out /\ Goes(p, "promoting", pub[p].backup, File)
      BY <2>12 DEF BackedUp, At
    <3>2. Busy(p) /\ ~ Touching(p)
      BY <3>1 DEF Busy, Touching
    <3>3. out = pub[p].found
      BY <2>8, <3>1, <3>2 DEF Recoverable, At
    <3> QED
      BY <2>0, <2>9, <3>1, <3>2, <3>3, Loops
  <2>13. CASE Promote(p)
    <3>1. PICK f \in pub[p].todo :
            /\ \A other \in pub[p].todo : f <= other
            /\ out' = [out EXCEPT ![f] = pub[p].gen]
            /\ IF f = Manifest THEN Ends(p, "published")
               ELSE Goes(p, "promoting", pub[p].backup, pub[p].todo \ {f})
      BY <2>13 DEF Promote
    <3>2. pub[p].pc = "promoting" /\ Busy(p) /\ Touching(p)
      BY <2>13 DEF Promote, At, Busy, Touching
    <3>3. CASE f = Manifest
      <4>1. pub'[p].pc = "published" /\ \A q \in Publisher : q # p => pub'[q] = pub[q]
        BY <2>0, <3>1, <3>3, EndsIs
      <4>2. pub[p].todo = {Manifest} /\ out \in [File -> Content]
        <5>1. \A x \in pub[p].todo : x = Manifest
          BY <2>0, <3>1, <3>3, Files, Loops
        <5> QED
          BY <2>0, <3>1, <3>3, <5>1 DEF TypeOK
      <4>3. \A x \in File : out'[x] = pub[p].gen
        BY <2>8, <3>1, <3>2, <3>3, <4>2 DEF Recoverable, At
      <4>4. pub[p].gen \in Gen /\ Whole(out') /\ out'[Manifest] = pub[p].gen
        BY <2>8, <3>2, <4>3, Files, PublisherAssumption DEF Whole
      <4>5. Held' = pub[p].gen
        BY <2>0, <2>3, <4>1, <4>4, HoldsWhole DEF Touching, TypeOK
      <4>6. Told' = [Told EXCEPT ![p] = "published"]
        BY <2>0, <4>1, ToldIs
      <4> QED
        BY <2>3a, <2>4, <4>4, <4>5, <4>6 DEF Contract!Replace
    <3>4. CASE f # Manifest
      BY <2>0, <2>9, <3>1, <3>2, <3>4, Loops
    <3> QED
      BY <3>3, <3>4
  <2>14. CASE StepFails(p)
    <3>1. Busy(p) /\ out' = out
      BY <2>14 DEF StepFails, Busy
    <3>2. CASE protocol = "dataset" /\ ~ At(p, "promoting")
      BY <2>6, <2>14, <3>1, <3>2 DEF StepFails, Touching, At
    <3>3. CASE ~ (protocol = "dataset" /\ ~ At(p, "promoting"))
      <4> DEFINE todo == IF At(p, "promoting") THEN Promoted(p) ELSE {}
      <4>1. PICK backup \in LeftInBackup(p) : Goes(p, "unlinking", backup, todo)
        BY <2>14, <3>3 DEF StepFails
      <4>2. todo \in SUBSET File /\ backup \in [File -> Content]
        BY <2>0, Loops, Breaks
      <4>3. ~ Touching(p) => out = pub[p].found
        BY <2>8, <2>14, <3>1 DEF StepFails, Touching, Recoverable, At
      <4> QED
        BY <2>9, <3>1, <4>1, <4>2, <4>3
    <3> QED
      BY <3>2, <3>3
  <2>15. CASE Unlink(p)
    <3>1. PICK f \in pub[p].todo :
            Goes(p, "unlinking", pub[p].backup, pub[p].todo \ {f})
      BY <2>15 DEF Unlink
    <3>2. Busy(p) /\ Touching(p)
      BY <2>15 DEF Unlink, At, Busy, Touching
    <3> QED
      BY <2>0, <2>9, <3>1, <3>2, Loops
  <2>16. CASE Unlinked(p)
    <3>1. Busy(p) /\ Touching(p) /\ Goes(p, "restoring", pub[p].backup, Kept(p))
      BY <2>16 DEF Unlinked, At, Busy, Touching
    <3> QED
      BY <2>0, <2>9, <3>1, Loops
  <2>17. CASE Restore(p)
    <3>1. PICK f \in pub[p].todo :
            Goes(p, "restoring", pub[p].backup, pub[p].todo \ {f})
      BY <2>17 DEF Restore
    <3>2. Busy(p) /\ Touching(p)
      BY <2>17 DEF Restore, At, Busy, Touching
    <3> QED
      BY <2>0, <2>9, <3>1, <3>2, Loops
  <2>18. CASE Restored(p)
    <3>1. Busy(p) /\ pub[p].pc = "restoring" /\ pub[p].todo = {} /\ out' = out
      BY <2>18 DEF Restored, At, Busy
    <3>2. LeftBy(p)
      BY <2>0, <2>8, <2>18, <3>1, RestoredLeaves
    <3> QED
      BY <2>6, <2>18, <3>1, <3>2 DEF Restored
  <2>19. CASE CutOff(p)
    <3>1. /\ pub'[p].pc = "cut off"
          /\ \A q \in Publisher : q # p => pub'[q] = pub[q]
      BY <2>0, <2>19, EndsIs DEF CutOff
    <3>2. Told' = [Told EXCEPT ![p] = "cut off"]
      BY <2>0, <3>1, ToldIs
    <3>3. Held' \in Gen \cup {Absent, Damaged}
      BY <2>0, <2>3, <3>1, HoldsTyped DEF Touching, TypeOK
    <3> QED
      BY <2>3a, <2>4, <3>2, <3>3 DEF Contract!CutOff
  <2> QED
    BY <2>7, <2>10, <2>11, <2>12, <2>13, <2>14, <2>15, <2>16, <2>17, <2>18, <2>19
    DEF PublisherStep
<1> QED
  BY <1>1, <1>2 DEF Next

(* To whoever looks at it from outside, the directory changes from one     *)
(* whole generation to the next in one step, or not at all.                *)
THEOREM ContractKept ==
  ASSUME Exclusive
  PROVE  Spec => KeepsContract
<1>1. Init => Contract!Init
  <2> SUFFICES ASSUME Init PROVE Contract!Init
    OBVIOUS
  <2>1. \A p \in Publisher : ~ Touching(p) /\ pub[p].pc = "idle"
    BY DEF Init, Idle, Touching
  <2>2. Held = Absent
    BY <2>1 DEF Held, Holds, Present, Init, None
  <2> QED
    BY <2>1, <2>2 DEF Contract!Init, Told
<1>2. IInv /\ [Next]_vars => [Contract!Next]_(Contract!cvars)
  BY IStep, Refines DEF Contract!cvars
<1>3. Spec => []IInv
  BY Invariant
<1> QED
  BY <1>1, <1>2, <1>3, PTL DEF Spec, KeepsContract, Contract!Spec
=============================================================================
