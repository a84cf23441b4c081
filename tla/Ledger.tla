------------------------------- MODULE Ledger -------------------------------
(***************************************************************************)
(* The experiment ledger, ml/ledger.py: processes that append records to a *)
(* directory, one file per record, and processes that read the history     *)
(* back.  Processes run at once and may be killed between any two steps.   *)
(*                                                                         *)
(* GRAIN OF ATOMICITY.  One action is one file-system call that another    *)
(* process can observe or disturb.  A file being written is Torn: open,    *)
(* and not yet holding all its bytes.                                      *)
(***************************************************************************)
CONSTANTS
  Id,      \* record identifiers (with their record type)
  Body,    \* what a record says: its canonical JSON
  Client,  \* processes that append
  Reader,  \* processes that read the history
  Absent, Torn, Whole,
  Faults   \* the failures the environment may show: "crash", "flush", "sync"

ASSUME ValuesAssumption ==
  /\ Absent # Torn /\ Absent # Whole /\ Torn # Whole
  /\ {Absent, Torn, Whole} \cap (Client \cup Body) = {}

VARIABLES
  file,      \* <record_type>/<record_id>.json: Absent, Torn, or the record
  contract,  \* ledger.json: Absent, Torn, Whole, or the client filling it
  staging,   \* .staging-ledger.json, in the same terms
  call,      \* each client's append, where it stands and how it ended
  scan       \* each reader's pass over the history

vars == <<file, contract, staging, call, scan>>

-----------------------------------------------------------------------------
NoCall == [id |-> Absent, body |-> Absent, pc |-> "idle", result |-> "none"]

Move(c, pc) == call' = [call EXCEPT ![c].pc = pc]

Answer(c, result) ==
  call' = [call EXCEPT ![c].pc = "answered", ![c].result = result]

(* ExperimentLedger.append begins with initialize(): a contract file that  *)
(* is there must read as the expected one.                                 *)
Offer(c, i, b) ==
  /\ call[c].pc \in {"idle", "answered"}
  /\ call' = [call EXCEPT ![c] =
       [id |-> i, body |-> b,
        pc |-> IF contract = Whole THEN "creating"
               ELSE IF contract = Absent THEN "staging" ELSE "answered",
        result |-> IF contract \in {Whole, Absent} THEN "none" ELSE "conflict"]]
  /\ UNCHANGED <<file, contract, staging, scan>>

-----------------------------------------------------------------------------
(* _atomic_write(ledger.json): an exclusive write to a fixed sibling name, *)
(* taken over from whoever holds it, and a rename.  A rename moves         *)
(* whatever file has the name by then.                                     *)

(* The file client c is filling, wherever it has been moved, becomes x.    *)
Become(c, place, x) == IF place = c THEN x ELSE place

StageContract(c) ==
  /\ call[c].pc = "staging"
  /\ \/ staging = Absent /\ staging' = c /\ Move(c, "filling")
     \/ staging # Absent /\ UNCHANGED staging /\ Move(c, "clearing")
  /\ UNCHANGED <<file, contract, scan>>

ClearContract(c) ==
  /\ call[c].pc = "clearing"
  /\ staging' = Absent
  /\ \/ staging = Absent /\ Answer(c, "error")
     \/ staging # Absent /\ Move(c, "restaging")
  /\ UNCHANGED <<file, contract, scan>>

RestageContract(c) ==
  /\ call[c].pc = "restaging"
  /\ \/ staging = Absent /\ staging' = c /\ Move(c, "filling")
     \/ staging # Absent /\ UNCHANGED staging /\ Answer(c, "error")
  /\ UNCHANGED <<file, contract, scan>>

FillContract(c) ==
  /\ call[c].pc = "filling"
  /\ staging' = Become(c, staging, Whole)
  /\ contract' = Become(c, contract, Whole)
  /\ Move(c, "promoting")
  /\ UNCHANGED <<file, scan>>

(* The failed write is unlinked by name.                                   *)
FillFails(c) ==
  /\ "flush" \in Faults
  /\ call[c].pc = "filling"
  /\ staging' = Absent
  /\ contract' = Become(c, contract, Torn)
  /\ Answer(c, "error")
  /\ UNCHANGED <<file, scan>>

PromoteContract(c) ==
  /\ call[c].pc = "promoting"
  /\ \/ staging = Absent /\ UNCHANGED contract /\ Answer(c, "error")
     \/ staging # Absent /\ contract' = staging /\ Move(c, "creating")
  /\ staging' = Absent
  /\ UNCHANGED <<file, scan>>

-----------------------------------------------------------------------------
(* The record: _exclusive_write, or the comparison with what is there.     *)

(* open(O_CREAT | O_EXCL).                                                 *)
Create(c) ==
  /\ call[c].pc = "creating"
  /\ \/ /\ file[call[c].id] # Absent
        /\ UNCHANGED file /\ Move(c, "comparing")
     \/ /\ file[call[c].id] = Absent
        /\ file' = [file EXCEPT ![call[c].id] = Torn]
        /\ Move(c, "writing")
  /\ UNCHANGED <<contract, staging, scan>>

(* Fault: a used identifier is taken for the same record.                  *)
CompareNothing(c) ==
  /\ call[c].pc = "comparing"
  /\ \/ file[call[c].id] = Absent /\ Answer(c, "error")
     \/ file[call[c].id] # Absent /\ Answer(c, "same")
  /\ UNCHANGED <<file, contract, staging, scan>>

(* Fault: a differing record replaces the stored one.                      *)
CompareMerging(c) ==
  /\ call[c].pc = "comparing"
  /\ file' = [file EXCEPT ![call[c].id] = call[c].body]
  /\ Answer(c, "same")
  /\ UNCHANGED <<contract, staging, scan>>

(* The loser reads the winner's file, which may be half written or, the    *)
(* winner having failed, gone.                                             *)
Compare(c) ==
  /\ call[c].pc = "comparing"
  /\ \/ file[call[c].id] = Absent /\ Answer(c, "error")
     \/ file[call[c].id] = call[c].body /\ Answer(c, "same")
     \/ file[call[c].id] \notin {Absent, call[c].body} /\ Answer(c, "conflict")
  /\ UNCHANGED <<file, contract, staging, scan>>

Flush(c) ==
  /\ call[c].pc = "writing"
  /\ file' = [file EXCEPT ![call[c].id] = call[c].body]
  /\ Move(c, "syncing")
  /\ UNCHANGED <<contract, staging, scan>>

Sync(c) ==
  /\ call[c].pc = "syncing"
  /\ Answer(c, "created")
  /\ UNCHANGED <<file, contract, staging, scan>>

(* The write or the fsync raises (a full disk, an interrupt): the file is  *)
(* unlinked, and after a failed fsync other processes have seen it whole.  *)
WriteFails(c) ==
  /\ \/ call[c].pc = "writing" /\ "flush" \in Faults
     \/ call[c].pc = "syncing" /\ "sync" \in Faults
  /\ file' = [file EXCEPT ![call[c].id] = Absent]
  /\ Answer(c, "error")
  /\ UNCHANGED <<contract, staging, scan>>

(* The process is killed: nothing is cleaned up and no one is answered.    *)
Crash(c) ==
  /\ "crash" \in Faults
  /\ call[c].pc \notin {"idle", "answered"}
  /\ staging' = Become(c, staging, Torn)
  /\ contract' = Become(c, contract, Torn)
  /\ call' = [call EXCEPT ![c] = NoCall]
  /\ UNCHANGED <<file, scan>>

-----------------------------------------------------------------------------
(* training_runs() and its siblings: list the directory, read every file   *)
(* listed.  (The code reads in name order; any order is allowed here.)     *)

Pass(pc, listed) ==
  [pc |-> pc, listed |-> listed, history |-> [i \in Id |-> Absent]]

Unread(r) == {i \in scan[r].listed : scan[r].history[i] = Absent}

List(r) ==
  /\ scan[r].pc # "reading"
  /\ scan' = [scan EXCEPT ![r] = Pass("reading", {i \in Id : file[i] # Absent})]
  /\ UNCHANGED <<file, contract, staging, call>>

(* Fault: what the file holds is not parsed.                               *)
ReadUnparsed(r, i) ==
  /\ scan[r].pc = "reading"
  /\ i \in Unread(r)
  /\ scan' = IF file[i] = Absent
             THEN [scan EXCEPT ![r].pc = "refused"]
             ELSE [scan EXCEPT ![r].history[i] = file[i]]
  /\ UNCHANGED <<file, contract, staging, call>>

(* A record that is gone or does not parse ends the whole pass.            *)
Read(r, i) ==
  /\ scan[r].pc = "reading"
  /\ i \in Unread(r)
  /\ scan' = IF file[i] \in {Absent, Torn}
             THEN [scan EXCEPT ![r].pc = "refused"]
             ELSE [scan EXCEPT ![r].history[i] = file[i]]
  /\ UNCHANGED <<file, contract, staging, call>>

(* Fault: a record that does not parse is skipped.                         *)
ReportSkipping(r) ==
  /\ scan[r].pc = "reading"
  /\ \A i \in Unread(r) : file[i] = Torn
  /\ scan' = [scan EXCEPT ![r].pc = "reported"]
  /\ UNCHANGED <<file, contract, staging, call>>

Report(r) ==
  /\ scan[r].pc = "reading"
  /\ Unread(r) = {}
  /\ scan' = [scan EXCEPT ![r].pc = "reported"]
  /\ UNCHANGED <<file, contract, staging, call>>

-----------------------------------------------------------------------------
Init ==
  /\ file = [i \in Id |-> Absent]
  /\ contract = Absent
  /\ staging = Absent
  /\ call = [c \in Client |-> NoCall]
  /\ scan = [r \in Reader |-> Pass("idle", {})]

ContractStep(c) ==
  \/ StageContract(c) \/ ClearContract(c) \/ RestageContract(c)
  \/ FillContract(c) \/ PromoteContract(c)

RecordStep(c) == Create(c) \/ Compare(c) \/ Flush(c) \/ Sync(c)

ReaderStep(r) == List(r) \/ (\E i \in Id : Read(r, i)) \/ Report(r)

Next ==
  \/ \E c \in Client, i \in Id, b \in Body : Offer(c, i, b)
  \/ \E c \in Client :
       ContractStep(c) \/ RecordStep(c) \/ FillFails(c) \/ WriteFails(c) \/ Crash(c)
  \/ \E r \in Reader : ReaderStep(r)

Spec == Init /\ [][Next]_vars

-----------------------------------------------------------------------------
(* PROPERTIES                                                              *)

Call ==
  {NoCall} \cup
  [id : Id, body : Body,
   pc : {"staging", "clearing", "restaging", "filling", "promoting",
         "creating", "comparing", "writing", "syncing", "answered"},
   result : {"none", "created", "same", "conflict", "error"}]

Scan ==
  [pc : {"idle", "reading", "refused", "reported"}, listed : SUBSET Id,
   history : [Id -> Body \cup {Absent}]]

(* Every variable keeps its type; in particular nothing half written is    *)
(* ever part of a history a reader holds.                                  *)
TypeOK ==
  /\ file \in [Id -> Body \cup {Absent, Torn}]
  /\ contract \in Client \cup {Absent, Torn, Whole}
  /\ staging \in Client \cup {Absent, Torn, Whole}
  /\ call \in [Client -> Call]
  /\ scan \in [Reader -> Scan]

(* Whoever was told its record is in the ledger ("created", or "same" to   *)
(* the loser of a race) finds exactly that record there from then on,      *)
(* whatever the other processes offer and however they die.                *)
AppendHonest ==
  \A c \in Client :
    call[c].pc = "answered" /\ call[c].result \in {"created", "same"} =>
      file[call[c].id] = call[c].body

(* "Two processes racing on the same new identifier cannot both succeed":  *)
(* of all the calls for an identifier, one at most ever writes it.         *)
Writing(c) ==
  \/ call[c].pc \in {"writing", "syncing"}
  \/ call[c].pc = "answered" /\ call[c].result = "created"

OneCreator ==
  \A c, d \in Client :
    c # d /\ Writing(c) /\ Writing(d) => call[c].id # call[d].id

(* A reported history is the ledger: it leaves out no record that was      *)
(* there to list, and whatever the writers did meanwhile, or died doing,   *)
(* all it says is still what the ledger says.                              *)
ReadComplete ==
  \A r \in Reader : scan[r].pc = "reported" =>
    \A i \in scan[r].listed :
      scan[r].history[i] # Absent /\ scan[r].history[i] = file[i]

(* The directory of files implements the write-once register.              *)
Contract == INSTANCE LedgerContract WITH
  entry <- [i \in Id |-> IF file[i] = Torn THEN Absent ELSE file[i]],
  told <- [c \in Client |->
    IF call[c].pc = "answered" /\ call[c].result \in {"created", "same"}
    THEN {<<call[c].id, call[c].body>>} ELSE {}]

KeepsContract == Contract!Spec

-----------------------------------------------------------------------------
(* What the documentation says of this code and the code does not do.      *)

(* ml/ledger.py:12-14: a record "cannot be half-appended -- either the     *)
(* file exists complete or it does not exist": a torn record is at most    *)
(* one that a live process is still writing.                               *)
NeverHalfAppended ==
  \A i \in Id : file[i] = Torn =>
    \E c \in Client : call[c].pc = "writing" /\ call[c].id = i
=============================================================================
