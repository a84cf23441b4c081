---------------------------- MODULE Ledger_proofs ----------------------------
(***************************************************************************)
(* Proofs about Ledger, for any number of identifiers, bodies, appending   *)
(* processes and readers.  The theorems after TypeCorrect assume of the    *)
(* environment that a record whose bytes have been written is not unlinked *)
(* for a failed fsync; processes may be killed anywhere and writes fail.   *)
(***************************************************************************)
EXTENDS Ledger, TLAPS

USE ValuesAssumption

-----------------------------------------------------------------------------
(* What an append call holds of its file while it lasts.                   *)
Holds ==
  \A c \in Client :
    /\ call[c].pc = "writing" => file[call[c].id] = Torn
    /\ call[c].pc = "syncing" => file[call[c].id] = call[c].body

(* What a pass has read is still there, and it reports when it has read    *)
(* all it listed.                                                          *)
ReadsStay ==
  \A r \in Reader : \A i \in Id :
    /\ scan[r].history[i] # Absent => scan[r].history[i] = file[i]
    /\ scan[r].pc = "reported" /\ i \in scan[r].listed =>
         scan[r].history[i] # Absent

IInv == TypeOK /\ Holds /\ AppendHonest /\ OneCreator /\ ReadsStay

(* No bytes are unlinked once they are there.                              *)
Kept == "sync" \notin Faults

-----------------------------------------------------------------------------
(* Progress of a call.                                                     *)

Working ==
  {"staging", "clearing", "restaging", "filling", "promoting", "creating",
   "comparing", "writing", "syncing"}
Result == {"none", "created", "same", "conflict", "error"}

(* A call in progress is about a record.                                   *)
LEMMA CallShape ==
  ASSUME call \in [Client -> Call], NEW c \in Client, call[c].pc # "idle"
  PROVE  /\ call[c] \in [id : Id, body : Body, pc : Working \cup {"answered"},
                         result : Result]
  BY DEF Call, NoCall, Working, Result

(* Moving on keeps the call's type and everything but its position.        *)
LEMMA Moved ==
  ASSUME call \in [Client -> Call], NEW c \in Client, call[c].pc # "idle",
         NEW pc \in Working, Move(c, pc)
  PROVE  /\ call' \in [Client -> Call]
         /\ call'[c].pc = pc
         /\ call'[c].id = call[c].id /\ call'[c].body = call[c].body
         /\ \A d \in Client \ {c} : call'[d] = call[d]
  <1>1. call' = [call EXCEPT ![c] = [call[c] EXCEPT !.pc = pc]]
    BY DEF Move
  <1>2. [call[c] EXCEPT !.pc = pc] \in
          [id : Id, body : Body, pc : Working \cup {"answered"}, result : Result]
    BY CallShape
  <1>3. [call[c] EXCEPT !.pc = pc] \in Call
    BY <1>2 DEF Call, Working, Result
  <1>4. QED
    BY <1>1, <1>3, CallShape

(* Answering keeps the call's type and what it was about.                  *)
LEMMA Answered ==
  ASSUME call \in [Client -> Call], NEW c \in Client, call[c].pc # "idle",
         NEW result \in Result, Answer(c, result)
  PROVE  /\ call' \in [Client -> Call]
         /\ call'[c].pc = "answered" /\ call'[c].result = result
         /\ call'[c].id = call[c].id /\ call'[c].body = call[c].body
         /\ \A d \in Client \ {c} : call'[d] = call[d]
  <1>1. call' = [call EXCEPT ![c] =
                  [call[c] EXCEPT !.pc = "answered", !.result = result]]
    BY DEF Answer
  <1>2. [call[c] EXCEPT !.pc = "answered", !.result = result] \in
          [id : Id, body : Body, pc : Working \cup {"answered"}, result : Result]
    BY CallShape
  <1>3. [call[c] EXCEPT !.pc = "answered", !.result = result] \in Call
    BY <1>2 DEF Call, Working, Result
  <1>4. QED
    BY <1>1, <1>3, CallShape

-----------------------------------------------------------------------------
(* Every variable keeps its type, whatever fails.                          *)

LEMMA TypeStep == TypeOK /\ [Next]_vars => TypeOK'
  <1> SUFFICES ASSUME TypeOK, [Next]_vars PROVE TypeOK'
    OBVIOUS
  <1> USE DEF TypeOK
  <1>1. CASE UNCHANGED vars
    BY <1>1 DEF vars
  <1>2. ASSUME NEW c \in Client, NEW i \in Id, NEW b \in Body, Offer(c, i, b)
        PROVE  TypeOK'
    BY <1>2 DEF Offer, Call
  <1>3. ASSUME NEW c \in Client, ContractStep(c) \/ FillFails(c)
        PROVE  TypeOK'
    <2>1. CASE StageContract(c)
      BY <2>1, Moved, Answered, CallShape DEF StageContract, Working, Result
    <2>2. CASE ClearContract(c)
      BY <2>2, Moved, Answered, CallShape DEF ClearContract, Working, Result
    <2>3. CASE RestageContract(c)
      BY <2>3, Moved, Answered, CallShape DEF RestageContract, Working, Result
    <2>4. CASE FillContract(c)
      BY <2>4, Moved, Answered, CallShape DEF FillContract, Become, Working, Result
    <2>5. CASE PromoteContract(c)
      BY <2>5, Moved, Answered, CallShape DEF PromoteContract, Working, Result
    <2>6. CASE FillFails(c)
      BY <2>6, Moved, Answered, CallShape DEF FillFails, Become, Working, Result
    <2>7. QED
      BY <1>3, <2>1, <2>2, <2>3, <2>4, <2>5, <2>6 DEF ContractStep
  <1>4. ASSUME NEW c \in Client, RecordStep(c) \/ WriteFails(c) \/ Crash(c)
        PROVE  TypeOK'
    <2>1. CASE Create(c)
      BY <2>1, Moved, Answered, CallShape DEF Create, Working, Result
    <2>2. CASE Compare(c)
      BY <2>2, Moved, Answered, CallShape DEF Compare, Working, Result
    <2>3. CASE Flush(c)
      BY <2>3, Moved, Answered, CallShape DEF Flush, Working, Result
    <2>4. CASE Sync(c)
      BY <2>4, Moved, Answered, CallShape DEF Sync, Working, Result
    <2>5. CASE WriteFails(c)
      BY <2>5, Moved, Answered, CallShape DEF WriteFails, Working, Result
    <2>6. CASE Crash(c)
      BY <2>6 DEF Crash, Become, Call, NoCall
    <2>7. QED
      BY <1>4, <2>1, <2>2, <2>3, <2>4, <2>5, <2>6 DEF RecordStep
  <1>5. ASSUME NEW r \in Reader, ReaderStep(r)
        PROVE  TypeOK'
    <2>1. CASE List(r)
      BY <2>1 DEF List, Pass, Scan
    <2>2. ASSUME NEW i \in Id, Read(r, i)
          PROVE  TypeOK'
      BY <2>2 DEF Read, Scan
    <2>3. CASE Report(r)
      BY <2>3 DEF Report, Scan
    <2>4. QED
      BY <1>5, <2>1, <2>2, <2>3 DEF ReaderStep
  <1>6. QED
    BY <1>1, <1>2, <1>3, <1>4, <1>5 DEF Next

(* TypeOK is invariant; so nothing half written is ever read as a record.  *)
THEOREM TypeCorrect == Spec => []TypeOK
  <1>1. Init => TypeOK
    BY DEF Init, TypeOK, Call, Scan, Pass
  <1>2. QED
    BY <1>1, TypeStep, PTL DEF Spec

-----------------------------------------------------------------------------
(* What a step may do to the files of records, and on whose behalf.        *)

Told(c) == call[c].pc = "answered" /\ call[c].result \in {"created", "same"}

(* Client c's call goes on, still about the same record; no other does.    *)
GoesOn(c) ==
  /\ call'[c].id = call[c].id /\ call'[c].body = call[c].body
  /\ call[c].id \in Id /\ call[c].body \in Body
  /\ \A d \in Client \ {c} : call'[d] = call[d]

(* Client c opens a file nobody has, fills the one it opened, or gives up  *)
(* the one it could not fill.                                              *)
Opens(c) ==
  /\ GoesOn(c)
  /\ file[call[c].id] = Absent
  /\ file' = [file EXCEPT ![call[c].id] = Torn]
  /\ call'[c].pc = "writing"

Fills(c) ==
  /\ GoesOn(c)
  /\ call[c].pc = "writing"
  /\ file' = [file EXCEPT ![call[c].id] = call[c].body]
  /\ call'[c].pc = "syncing"

GivesUp(c) ==
  /\ GoesOn(c)
  /\ call[c].pc = "writing"
  /\ file' = [file EXCEPT ![call[c].id] = Absent]
  /\ call'[c].pc = "answered" /\ call'[c].result = "error"

(* It is told that its record is there: it wrote it, or found it.          *)
IsTold(c) ==
  /\ GoesOn(c)
  /\ file' = file
  /\ call'[c].pc = "answered"
  /\ \/ call[c].pc = "syncing" /\ call'[c].result = "created"
     \/ file[call[c].id] = call[c].body /\ call'[c].result = "same"

(* Or it touches no record and is told of none.                            *)
Aside(c) ==
  /\ file' = file
  /\ call'[c].pc \notin {"writing", "syncing"}
  /\ call'[c].pc = "answered" => call'[c].result \notin {"created", "same"}
  /\ \A d \in Client \ {c} : call'[d] = call[d]

ClientActs(c) == Opens(c) \/ Fills(c) \/ GivesUp(c) \/ IsTold(c) \/ Aside(c)

LEMMA ClientStep ==
  ASSUME Kept, TypeOK, [Next]_vars
  PROVE  UNCHANGED <<file, call>> \/ \E c \in Client : ClientActs(c)
  <1> USE DEF TypeOK, Kept, Working, Result, ClientActs
  <1>1. ASSUME NEW c \in Client, NEW i \in Id, NEW b \in Body, Offer(c, i, b)
        PROVE  ClientActs(c)
    BY <1>1 DEF Offer, Aside
  <1>2. ASSUME NEW c \in Client, ContractStep(c) \/ FillFails(c)
        PROVE  ClientActs(c)
    <2>1. CASE StageContract(c)
      BY <2>1, Moved DEF StageContract, Aside
    <2>2. CASE ClearContract(c)
      BY <2>2, Moved, Answered DEF ClearContract, Aside
    <2>3. CASE RestageContract(c)
      BY <2>3, Moved, Answered DEF RestageContract, Aside
    <2>4. CASE FillContract(c)
      BY <2>4, Moved DEF FillContract, Aside
    <2>5. CASE PromoteContract(c)
      BY <2>5, Moved, Answered DEF PromoteContract, Aside
    <2>6. CASE FillFails(c)
      BY <2>6, Answered DEF FillFails, Aside
    <2>7. QED
      BY <1>2, <2>1, <2>2, <2>3, <2>4, <2>5, <2>6 DEF ContractStep
  <1>3. ASSUME NEW c \in Client, RecordStep(c) \/ WriteFails(c) \/ Crash(c)
        PROVE  ClientActs(c)
    <2>1. CASE Create(c)
      BY <2>1, Moved, CallShape DEF Create, Opens, GoesOn, Aside
    <2>2. CASE Compare(c)
      BY <2>2, Answered, CallShape DEF Compare, IsTold, GoesOn, Aside
    <2>3. CASE Flush(c)
      BY <2>3, Moved, CallShape DEF Flush, Fills, GoesOn
    <2>4. CASE Sync(c)
      BY <2>4, Answered, CallShape DEF Sync, IsTold, GoesOn
    <2>5. CASE WriteFails(c)
      BY <2>5, Answered, CallShape DEF WriteFails, GivesUp, GoesOn
    <2>6. CASE Crash(c)
      BY <2>6 DEF Crash, NoCall, Aside
    <2>7. QED
      BY <1>3, <2>1, <2>2, <2>3, <2>4, <2>5, <2>6 DEF RecordStep
  <1>4. ASSUME NEW r \in Reader, ReaderStep(r)
        PROVE  UNCHANGED <<file, call>>
    BY <1>4 DEF ReaderStep, List, Read, Report
  <1>5. QED
    BY <1>1, <1>2, <1>3, <1>4 DEF Next, vars

-----------------------------------------------------------------------------
(* The invariant.                                                          *)

(* A record, once whole, stays.                                            *)
LEMMA RecordsStay ==
  ASSUME Kept, IInv, [Next]_vars, NEW i \in Id, file[i] \in Body
  PROVE  file'[i] = file[i]
  <1>1. CASE UNCHANGED <<file, call>>
    BY <1>1
  <1>2. ASSUME NEW c \in Client, ClientActs(c)
        PROVE  file'[i] = file[i]
    BY <1>2 DEF ClientActs, Opens, Fills, GivesUp, IsTold, Aside, GoesOn,
                IInv, TypeOK, Holds
  <1>3. QED
    BY <1>1, <1>2, ClientStep DEF IInv

LEMMA WritersStep ==
  ASSUME Kept, IInv, [Next]_vars
  PROVE  Holds' /\ AppendHonest' /\ OneCreator'
  <1> USE DEF IInv, TypeOK, Holds, AppendHonest, OneCreator, Writing
  <1>0. \A d \in Client : call[d].pc # "idle" =>
          call[d].id \in Id /\ call[d].body \in Body
    BY CallShape
  <1>1. CASE UNCHANGED <<file, call>>
    BY <1>1
  <1>2. ASSUME NEW c \in Client, Opens(c)
        PROVE  Holds' /\ AppendHonest' /\ OneCreator'
    BY <1>2 DEF Opens, GoesOn, Call, NoCall
  <1>3. ASSUME NEW c \in Client, Fills(c)
        PROVE  Holds' /\ AppendHonest' /\ OneCreator'
    <2>1. \A d \in Client \ {c} : call[d].id = call[c].id =>
            /\ call[d].pc \notin {"writing", "syncing"}
            /\ ~ Told(d)
      BY <1>0, <1>3 DEF Fills, GoesOn, Told
    <2>2. \A i \in Id \ {call[c].id} : file'[i] = file[i]
      BY <1>3 DEF Fills, GoesOn
    <2>3. file'[call[c].id] = call[c].body
      BY <1>3 DEF Fills, GoesOn
    <2>4. QED
      BY <1>0, <1>3, <2>1, <2>2, <2>3 DEF Fills, GoesOn, Told
  <1>4. ASSUME NEW c \in Client, GivesUp(c)
        PROVE  Holds' /\ AppendHonest' /\ OneCreator'
    <2>1. \A d \in Client \ {c} : call[d].id = call[c].id =>
            /\ call[d].pc \notin {"writing", "syncing"}
            /\ ~ Told(d)
      BY <1>0, <1>4 DEF GivesUp, GoesOn, Told
    <2>2. \A i \in Id \ {call[c].id} : file'[i] = file[i]
      BY <1>4 DEF GivesUp, GoesOn
    <2>3. QED
      BY <1>0, <1>4, <2>1, <2>2 DEF GivesUp, GoesOn, Told
  <1>5. ASSUME NEW c \in Client, IsTold(c)
        PROVE  Holds' /\ AppendHonest' /\ OneCreator'
    BY <1>5 DEF IsTold, GoesOn
  <1>6. ASSUME NEW c \in Client, Aside(c)
        PROVE  Holds' /\ AppendHonest' /\ OneCreator'
    BY <1>6 DEF Aside
  <1>7. QED
    BY <1>1, <1>2, <1>3, <1>4, <1>5, <1>6, ClientStep DEF ClientActs

LEMMA ReadersStep ==
  ASSUME Kept, IInv, [Next]_vars
  PROVE  ReadsStay'
  <1>1. CASE UNCHANGED scan
    <2>1. ASSUME NEW r \in Reader, NEW i \in Id, scan[r].history[i] # Absent
          PROVE  scan[r].history[i] = file'[i]
      <3>1. scan[r].history[i] = file[i] /\ file[i] \in Body
        BY <2>1 DEF IInv, TypeOK, Scan, ReadsStay
      <3>2. QED
        BY <3>1, RecordsStay
    <2>2. QED
      BY <1>1, <2>1 DEF IInv, ReadsStay
  <1>2. ASSUME NEW r \in Reader, ReaderStep(r)
        PROVE  ReadsStay'
    <2> USE DEF IInv, TypeOK, Scan, ReadsStay
    <2>1. CASE List(r)
      BY <2>1 DEF List, Pass
    <2>2. ASSUME NEW i \in Id, Read(r, i)
          PROVE  ReadsStay'
      BY <2>2 DEF Read
    <2>3. CASE Report(r)
      BY <2>3 DEF Report, Unread
    <2>4. QED
      BY <1>2, <2>1, <2>2, <2>3 DEF ReaderStep
  <1>3. QED
    BY <1>1, <1>2 DEF Next, vars, Offer, ContractStep, StageContract,
       ClearContract, RestageContract, FillContract, PromoteContract,
       RecordStep, Create, Compare, Flush, Sync, FillFails, WriteFails, Crash

(* The inductive invariant of appenders and readers, while no fsync fails  *)
(* after the bytes can be seen.                                            *)
THEOREM Invariant == Kept => (Spec => []IInv)
  <1>1. Init => IInv
    BY DEF Init, IInv, TypeOK, Call, Scan, Pass, NoCall, Holds, AppendHonest,
           OneCreator, Writing, ReadsStay
  <1>2. ASSUME Kept PROVE IInv /\ [Next]_vars => IInv'
    BY <1>2, TypeStep, WritersStep, ReadersStep DEF IInv
  <1>3. ASSUME Kept PROVE Spec => []IInv
    <2>1. IInv /\ [Next]_vars => IInv'
      BY <1>2, <1>3
    <2>2. QED
      BY <1>1, <2>1, PTL DEF Spec
  <1>4. QED
    BY <1>3

(* Who is told that its record is in the ledger finds it there for ever.   *)
THEOREM AppendsAreHonest == Kept => (Spec => []AppendHonest)
  <1>1. IInv => AppendHonest
    BY DEF IInv
  <1>2. QED
    BY <1>1, Invariant, PTL

(* Of all the calls for an identifier, one at most ever writes it.         *)
THEOREM OneWriter == Kept => (Spec => []OneCreator)
  <1>1. IInv => OneCreator
    BY DEF IInv
  <1>2. QED
    BY <1>1, Invariant, PTL

(* A reported history is complete, and stays true.                         *)
THEOREM HistoriesAreComplete == Kept => (Spec => []ReadComplete)
  <1>1. IInv => ReadComplete
    BY DEF IInv, TypeOK, Scan, ReadsStay, ReadComplete
  <1>2. QED
    BY <1>1, Invariant, PTL

-----------------------------------------------------------------------------
(* The directory of files implements the write-once register.              *)

LEMMA RegisterStep ==
  ASSUME Kept, IInv, [Next]_vars
  PROVE  [Contract!Next]_(Contract!cvars)
  <1> DEFINE Entry == [i \in Id |-> IF file[i] = Torn THEN Absent ELSE file[i]]
             Heard == [c \in Client |->
               IF call[c].pc = "answered" /\ call[c].result \in {"created", "same"}
               THEN {<<call[c].id, call[c].body>>} ELSE {}]
  <1> USE DEF IInv, TypeOK
  <1>1. CASE UNCHANGED <<file, call>>
    BY <1>1 DEF Contract!cvars
  <1>2. ASSUME NEW c \in Client, Opens(c) \/ GivesUp(c)
        PROVE  Contract!Forget(c)
    <2>1. Entry' = Entry
      BY <1>2 DEF Opens, GivesUp, GoesOn, Holds
    <2>2. Heard' = [Heard EXCEPT ![c] = {}]
      BY <1>2 DEF Opens, GivesUp, GoesOn
    <2>3. QED
      BY <2>1, <2>2 DEF Contract!Forget
  <1>3. ASSUME NEW c \in Client, NEW i \in Id, NEW b \in Body,
               i = call[c].id, b = call[c].body, Fills(c)
        PROVE  Contract!Record(i, b)
    BY <1>3 DEF Fills, GoesOn, Holds, Contract!Record
  <1>4. ASSUME NEW c \in Client, NEW i \in Id, NEW b \in Body,
               i = call[c].id, b = call[c].body, IsTold(c)
        PROVE  Contract!Tell(c, i, b)
    BY <1>4 DEF IsTold, GoesOn, Holds, Contract!Tell
  <1>5. ASSUME NEW c \in Client, Aside(c)
        PROVE  Contract!Forget(c)
    BY <1>5 DEF Aside, Contract!Forget
  <1>6. ASSUME NEW c \in Client, ClientActs(c)
        PROVE  Contract!Next
    <2>1. Fills(c) \/ IsTold(c) => call[c].id \in Id /\ call[c].body \in Body
      BY DEF Fills, IsTold, GoesOn
    <2>2. CASE Opens(c) \/ GivesUp(c) \/ Aside(c)
      <3>1. Contract!Forget(c)
        BY <1>2, <1>5, <2>2
      <3>2. QED
        BY <3>1 DEF Contract!Next
    <2>3. CASE Fills(c)
      <3>1. PICK i \in Id, b \in Body : i = call[c].id /\ b = call[c].body
        BY <2>1, <2>3
      <3>2. Contract!Record(i, b)
        BY <1>3, <2>3, <3>1
      <3>3. QED
        BY <3>2 DEF Contract!Next
    <2>4. CASE IsTold(c)
      <3>1. PICK i \in Id, b \in Body : i = call[c].id /\ b = call[c].body
        BY <2>1, <2>4
      <3>2. Contract!Tell(c, i, b)
        BY <1>4, <2>4, <3>1
      <3>3. QED
        BY <3>2 DEF Contract!Next
    <2>5. QED
      BY <1>6, <2>2, <2>3, <2>4 DEF ClientActs
  <1>7. QED
    BY <1>1, <1>6, ClientStep

(* Seen by its readers, the ledger is a register written once for each     *)
(* identifier (LedgerContract).                                            *)
THEOREM ImplementsRegister == Kept => (Spec => KeepsContract)
  <1>1. Init => Contract!Init
    BY DEF Init, NoCall, Contract!Init
  <1>2. ASSUME Kept PROVE Spec => KeepsContract
    <2>1. IInv /\ [Next]_vars => [Contract!Next]_(Contract!cvars)
      BY <1>2, RegisterStep
    <2>2. Spec => []IInv
      BY <1>2, Invariant
    <2>3. QED
      BY <1>1, <2>1, <2>2, PTL DEF Spec, KeepsContract, Contract!Spec
  <1>3. QED
    BY <1>2
=============================================================================
