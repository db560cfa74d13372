---------------------------- MODULE SealedRecord ----------------------------
(***************************************************************************)
(* What sealing a run promises about its telemetry and observed facts:     *)
(* the record grows until it is sealed and never again; whatever digest is *)
(* recorded is of the sealed record, and every grade reads that record.    *)
(*                                                                         *)
(* Code: the seal and admission stores of otel/store and the order of      *)
(* rest/evidence_seal.py. EvidenceSeal implements this module.             *)
(***************************************************************************)
CONSTANT Runs

VARIABLES
  record,  \* the rows stored for each run
  sealed,  \* the runs whose record is closed
  digest,  \* the recorded digest: none, a hash of a record, or unavailable
  graded   \* whether the run was graded, and the record the grade read

vars == <<record, sealed, digest, graded>>

Init ==
  /\ record = [r \in Runs |-> {}]
  /\ sealed = {}
  /\ digest = [r \in Runs |-> [status |-> "none", of |-> {}]]
  /\ graded = [r \in Runs |-> [done |-> FALSE, of |-> {}]]

\* Rows are added to one open record, and none is ever changed or removed.
Grow(r) ==
  /\ r \notin sealed
  /\ record[r] \subseteq record'[r]
  /\ record' = [record EXCEPT ![r] = record'[r]]
  /\ UNCHANGED <<sealed, digest, graded>>

Seal(r) ==
  /\ sealed' = sealed \cup {r}
  /\ UNCHANGED <<record, digest, graded>>

\* Or a mark that the record could not be hashed. Two seals of one run may
\* both record theirs.
Attach(r) ==
  /\ r \in sealed
  /\ \E d \in {[status |-> "hash", of |-> record[r]], [status |-> "unavailable", of |-> {}]} :
       digest' = [digest EXCEPT ![r] = d]
  /\ UNCHANGED <<record, sealed, graded>>

Grade(r) ==
  /\ r \in sealed
  /\ graded' = [graded EXCEPT ![r] = [done |-> TRUE, of |-> record[r]]]
  /\ UNCHANGED <<record, sealed, digest>>

Next == \E r \in Runs : Grow(r) \/ Seal(r) \/ Attach(r) \/ Grade(r)

Spec == Init /\ [][Next]_vars
=============================================================================
