-------------------------- MODULE DeploymentStore --------------------------
(***************************************************************************)
(* The local deployment store: one bbolt database, its write transactions, *)
(* export and import (internal/store/bbolt).                               *)
(*                                                                         *)
(* bbolt admits one write transaction at a time and an open file has one   *)
(* process, so writers are serialised; readers see the committed contents. *)
(* MarkDeploymentClosed and Import write several records in one            *)
(* transaction: those are modelled write by write on a working copy, so    *)
(* that an error, a cancellation or a crash can fall between two writes.   *)
(***************************************************************************)
EXTENDS StoreRecords

CONSTANTS
    Inputs,      \* the records callers build and put
    Envelopes,   \* snapshot files that come from elsewhere
    SyncStates,  \* values of the sync state
    NoSync       \* no sync state stored

Envelope == [records : [Keys -> Record \cup {NoRecord}],
             sync    : SyncStates \cup {NoSync}]

ASSUME InputsAssumption == Inputs \subseteq Record

ASSUME EnvelopesAssumption == Envelopes \subseteq Envelope

VARIABLES
    db,       \* committed records
    sync,     \* committed sync state
    file,     \* the last snapshot file written by export
    op,       \* the open write transaction
    work,     \* its view of the records
    todo,     \* the keys it has yet to write
    env,      \* import: the decoded envelope
    merge,    \* import: keep what the envelope does not mention
    closing,  \* close: the deployment key
    closedAt  \* close: the time given by the caller

vars == <<db, sync, file, op, work, todo, env, merge, closing, closedAt>>

txVars == <<work, todo, env, merge, closing, closedAt>>

NoEnvelope == [records |-> Empty, sync |-> NoSync]

DeploymentKeys == {k \in Keys : k.bucket = "deployments"}

ASSUME DeploymentKeysAssumption == DeploymentKeys # {}

TypeOK ==
    /\ db \in Database
    /\ sync \in SyncStates \cup {NoSync}
    /\ file \in Envelope /\ file.records \in Database
    /\ op \in {"idle", "close", "import", "validate"}
    /\ work \in Database
    /\ todo \in SUBSET Keys
    /\ env \in Envelope
    /\ merge \in BOOLEAN
    /\ closing \in DeploymentKeys
    /\ closedAt \in 1..MaxTime

Init ==
    /\ db = Empty
    /\ sync = NoSync
    /\ file = NoEnvelope
    /\ op = "idle"
    /\ work = Empty
    /\ todo = {}
    /\ env = NoEnvelope
    /\ merge = FALSE
    /\ closing \in DeploymentKeys
    /\ closedAt = 1
-----------------------------------------------------------------------------
(* Single-record transactions. *)

(***************************************************************************)
(* PutDeployment, PutLease, PutBid.  The caller's record carries revision  *)
(* 0 when it was built afresh, and the revision read, stale or not, when   *)
(* a stored one was changed.  A write whose revision cannot advance        *)
(* returns an error and changes nothing.                                   *)
(***************************************************************************)
Put(k, r) ==
    /\ op = "idle"
    /\ CanPut(db, k, r)
    /\ db' = put(db, k, r)
    /\ UNCHANGED <<sync, file, op, txVars>>

(* DeleteDeployment and DeleteLease; bids are never deleted one by one. *)
Delete(k) ==
    /\ op = "idle"
    /\ k.bucket # "bids"
    /\ db' = [db EXCEPT ![k] = NoRecord]
    /\ UNCHANGED <<sync, file, op, txVars>>

PutSyncState(s) ==
    /\ op = "idle"
    /\ sync' = s
    /\ UNCHANGED <<db, file, op, txVars>>

(* Export writes a consistent snapshot of the committed contents. *)
Export ==
    /\ file' = [records |-> db, sync |-> sync]
    /\ UNCHANGED <<db, sync, op, txVars>>
-----------------------------------------------------------------------------
(* Transactions of several writes. *)

(* Mutant: the leases are left for a later transaction. *)
BeginCloseDeploymentOnly(k, t) ==
    /\ op = "idle"
    /\ op' = "close"
    /\ closing' = k
    /\ closedAt' = t
    /\ work' = db
    /\ todo' = {k}
    /\ UNCHANGED <<db, sync, file, env, merge>>

(* MarkDeploymentClosed: the deployment first, then each of its leases. *)
BeginClose(k, t) ==
    /\ op = "idle"
    /\ op' = "close"
    /\ closing' = k
    /\ closedAt' = t
    /\ work' = db
    /\ todo' = {k} \cup LeasesOf(db, k)
    /\ UNCHANGED <<db, sync, file, env, merge>>

(* Mutant: replace mode does not clear the buckets. *)
BeginImportUncleared(e, m, kind) ==
    /\ op = "idle"
    /\ op' = kind
    /\ env' = e
    /\ merge' = m
    /\ work' = db
    /\ todo' = {k \in Keys : e.records[k] # NoRecord}
    /\ UNCHANGED <<db, sync, file, closing, closedAt>>

(* importData and validateImportData: replace mode clears the buckets. *)
BeginImport(e, m, kind) ==
    /\ op = "idle"
    /\ op' = kind
    /\ env' = e
    /\ merge' = m
    /\ work' = IF m THEN db ELSE Empty
    /\ todo' = {k \in Keys : e.records[k] # NoRecord}
    /\ UNCHANGED <<db, sync, file, closing, closedAt>>

(* The record the open transaction writes at k. *)
Written(k) ==
    IF op = "close"
      THEN asClosed(IF Holds(db, k) THEN db[k] ELSE absentDeployment(closedAt),
                    closedAt)
      ELSE env.records[k]

(* Both kinds write deployments, then leases, then bids. *)
Rank(k) == CASE k.bucket = "deployments" -> 1
             [] k.bucket = "leases"      -> 2
             [] OTHER                    -> 3

Next1(k) == k \in todo /\ \A j \in todo : Rank(k) <= Rank(j)

(* Mutant: every write is a transaction of its own. *)
WriteNextCommitted(k) ==
    /\ op # "idle"
    /\ Next1(k)
    /\ CanPut(work, k, Written(k))
    /\ work' = put(work, k, Written(k))
    /\ db' = work'
    /\ todo' = todo \ {k}
    /\ UNCHANGED <<sync, file, op, env, merge, closing, closedAt>>

WriteNext(k) ==
    /\ op # "idle"
    /\ Next1(k)
    /\ CanPut(work, k, Written(k))
    /\ work' = put(work, k, Written(k))
    /\ todo' = todo \ {k}
    /\ UNCHANGED <<db, sync, file, op, env, merge, closing, closedAt>>

(* The end of a transaction: its working copy is gone. *)
EndTransaction ==
    /\ op' = "idle"
    /\ work' = Empty
    /\ todo' = {}
    /\ env' = NoEnvelope
    /\ merge' = FALSE
    /\ closedAt' = 1
    /\ UNCHANGED closing

(* A merge without a sync state keeps the one stored. *)
ImportedSync == IF merge /\ env.sync = NoSync THEN sync ELSE env.sync

(* bbolt publishes the working copy; the sync state is the last write. *)
Commit ==
    /\ op \in {"close", "import"}
    /\ todo = {}
    /\ db' = work
    /\ sync' = IF op = "close" THEN sync ELSE ImportedSync
    /\ EndTransaction
    /\ UNCHANGED file

(* The dry run ends in a deliberate rollback. *)
EndValidate ==
    /\ op = "validate"
    /\ todo = {}
    /\ EndTransaction
    /\ UNCHANGED <<db, sync, file>>

(***************************************************************************)
(* The transaction ends early: a write is refused (its revision cannot     *)
(* advance), the import's context is cancelled, or the process dies.  The  *)
(* last can happen at any point, so the guard is only that a transaction   *)
(* is open.                                                                *)
(***************************************************************************)
Rollback ==
    /\ op # "idle"
    /\ EndTransaction
    /\ UNCHANGED <<db, sync, file>>

Next ==
    \/ \E k \in Keys, r \in Inputs : Put(k, r)
    \/ \E k \in Keys : Delete(k)
    \/ \E s \in SyncStates : PutSyncState(s)
    \/ Export
    \/ \E k \in DeploymentKeys, t \in 1..MaxTime : BeginClose(k, t)
    \/ \E e \in Envelopes \cup {file}, m \in BOOLEAN,
          kind \in {"import", "validate"} : BeginImport(e, m, kind)
    \/ \E k \in Keys : WriteNext(k)
    \/ Commit
    \/ EndValidate
    \/ Rollback

Spec == Init /\ [][Next]_vars
-----------------------------------------------------------------------------
(* The inductive invariant. *)

(* The contents the open transaction started from. *)
Base == IF op # "close" /\ ~merge THEN Empty ELSE db

(* The keys the open transaction writes. *)
Target == IF op = "close" THEN {closing} \cup LeasesOf(db, closing)
          ELSE {k \in Keys : env.records[k] # NoRecord}

(* A complete application of the open transaction, key by key. *)
After(k) == [Written(k) EXCEPT !.rv = nextRecordVersion(Base[k], @)]

(***************************************************************************)
(* The working copy is the base with exactly the writes done so far        *)
(* applied: no write is lost, made twice, or made to another key.          *)
(***************************************************************************)
WorkIsPrefix ==
    op # "idle" =>
        /\ todo \subseteq Target
        /\ \A k \in Keys :
              /\ k \in Target \ todo => /\ CanPut(Base, k, Written(k))
                                        /\ work[k] = After(k)
              /\ k \notin Target \ todo => work[k] = Base[k]
-----------------------------------------------------------------------------
(* Properties. *)

(***************************************************************************)
(* RecordVersion is a monotonic revision: whatever sequence of puts,       *)
(* closes and merges is made, a record that changes gets a larger          *)
(* revision.  Only replacing the whole store may set it back.              *)
(***************************************************************************)
RevisionsAdvance ==
    [][\A k \in Keys :
          /\ Holds(db, k) /\ db'[k] \notin {NoRecord, db[k]}
          /\ ~(op = "import" /\ ~merge)
          => db'[k].rv > db[k].rv]_vars

(***************************************************************************)
(* Import is all or nothing: wherever it stops, the store holds either     *)
(* what it held before or the complete import, sync state included, and a  *)
(* dry run never changes it (applyImportTx, validateImportData).           *)
(***************************************************************************)
ImportOutcome ==
    [k \in Keys |-> IF env.records[k] = NoRecord THEN Base[k] ELSE After(k)]

ImportAllOrNothing ==
    [][(op \in {"import", "validate"}) =>
          \/ UNCHANGED <<db, sync>>
          \/ /\ op = "import"
             /\ db' = ImportOutcome
             /\ sync' = ImportedSync]_vars

(***************************************************************************)
(* Restoring a backup restores it exactly: a replacing import of a file    *)
(* that export wrote leaves the records, their revisions included, and the *)
(* sync state that were exported, whatever happened in between.            *)
(***************************************************************************)
RestoreIsExact ==
    [][op = "import" /\ ~merge /\ env = file /\ <<db, sync>>' # <<db, sync>>
          => db' = file.records /\ sync' = file.sync]_vars

(***************************************************************************)
(* MarkDeploymentClosed moves the deployment and all of its leases to      *)
(* closed together or not at all, keeps a closing time already recorded,   *)
(* and touches nothing else; "a crash cannot leave the two local views     *)
(* disagreeing".                                                           *)
(***************************************************************************)
CloseIsAtomic ==
    [][op = "close" /\ db' # db =>
          /\ \A k \in {closing} \cup LeasesOf(db, closing) :
                /\ db'[k].state = "closed"
                /\ db'[k].closedAt # 0
                /\ Holds(db, k) /\ db[k].state = "closed"
                     /\ db[k].closedAt # 0
                   => db'[k].closedAt = db[k].closedAt
          /\ \A k \in Keys \ ({closing} \cup LeasesOf(db, closing)) :
                db'[k] = db[k]]_vars
=============================================================================
