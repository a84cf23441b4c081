--------------------------- MODULE LedgerContract ---------------------------
(***************************************************************************)
(* What ml/ledger.py promises: a register per record identifier that is    *)
(* written once and never changes, and callers who are told "recorded"     *)
(* only of what it holds.                                                  *)
(***************************************************************************)
CONSTANTS Id, Body, Client, Absent

VARIABLES
  entry,  \* the record held under each identifier
  told    \* the record each client was last told is held, as a set

cvars == <<entry, told>>

Init ==
  /\ entry = [i \in Id |-> Absent]
  /\ told = [c \in Client |-> {}]

Record(i, b) ==
  /\ entry[i] = Absent
  /\ entry' = [entry EXCEPT ![i] = b]
  /\ UNCHANGED told

Tell(c, i, b) ==
  /\ entry[i] = b
  /\ told' = [told EXCEPT ![c] = {<<i, b>>}]
  /\ UNCHANGED entry

Forget(c) ==
  /\ told' = [told EXCEPT ![c] = {}]
  /\ UNCHANGED entry

Next ==
  \/ \E i \in Id, b \in Body : Record(i, b)
  \/ \E c \in Client, i \in Id, b \in Body : Tell(c, i, b)
  \/ \E c \in Client : Forget(c)

Spec == Init /\ [][Next]_cvars
=============================================================================
