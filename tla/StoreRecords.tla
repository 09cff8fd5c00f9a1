---------------------------- MODULE StoreRecords ----------------------------
(***************************************************************************)
(* The records of the local deployment store and the pure functions the    *)
(* bbolt transactions are built from (internal/store, internal/store/bbolt *)
(* and the merge functions of internal/sync).                              *)
(*                                                                         *)
(* A database value is a function from keys to records, NoRecord where the *)
(* bucket holds nothing.  The three buckets store three Go types; they     *)
(* share the shape the operations tell apart:                              *)
(*   state      the State string;                                          *)
(*   createdAt  the CreatedAt timestamp, 0 when unset;                     *)
(*   closedAt   the ClosedAt timestamp (always 0 in a bid);                *)
(*   local      the fields the chain does not carry (SDL path and hash,    *)
(*              deposit, labels, notes, tags of a deployment; provider URI *)
(*              and endpoints of a lease; provider attributes of a bid);   *)
(*   chain      the fields only the chain reports (version hash, escrow,   *)
(*              price);                                                    *)
(*   rv         RecordVersion, the revision of the record.                 *)
(***************************************************************************)
EXTENDS Integers, FiniteSets

CONSTANTS
    Keys,        \* the store keys of the instance
    Contents,    \* values of the local and chain field groups
    Nothing,     \* the zero value of a field group
    NoRecord,    \* what a bucket returns for a key it does not hold
    MaxVersion,  \* the largest uint64, scaled down
    MaxTime      \* the last timestamp of the instance

(***************************************************************************)
(* A key is "<owner>:<dseq>" in the deployments bucket and                 *)
(* "<owner>:<dseq>:<gseq>:<oseq>:<provider>" in the two others.  Group and *)
(* order sequence are part of the provider field here; in a deployment key *)
(* that field is Nothing.                                                  *)
(***************************************************************************)
Buckets == {"deployments", "leases", "bids"}

ASSUME KeysAssumption ==
    \A k \in Keys : k.bucket \in Buckets

ASSUME NothingAssumption == Nothing \in Contents

ASSUME BoundsAssumption == MaxVersion \in Nat \ {0} /\ MaxTime \in Nat \ {0}

(***************************************************************************)
(* The states a bucket may hold: the values validateImportEnvelope lists.  *)
(***************************************************************************)
ValidStates(bucket) ==
    CASE bucket = "deployments" -> {"active", "closed"}
      [] bucket = "leases"      -> {"active", "closed", "insufficient_funds"}
      [] OTHER                  -> {"open", "matched", "closed", "lost"}

States == UNION {ValidStates(b) : b \in Buckets}

Record == [state     : States,
           createdAt : 0..MaxTime,
           closedAt  : 0..MaxTime,
           local     : Contents,
           chain     : Contents,
           rv        : 0..MaxVersion]

StoredRecord == {r \in Record : r.rv # 0}

Database == [Keys -> StoredRecord \cup {NoRecord}]

ASSUME NoRecordAssumption == NoRecord \notin Record

Empty == [k \in Keys |-> NoRecord]

Holds(db, k) == db[k] # NoRecord

(* Mutant: a rewrite keeps the revision. *)
nextRecordVersionKept(existing, incoming) ==
    IF existing = NoRecord
      THEN IF incoming = 0 THEN 1 ELSE incoming
      ELSE IF incoming > existing.rv THEN incoming ELSE existing.rv

(***************************************************************************)
(* nextRecordVersion: the revision a write leaves behind.  0 stands for    *)
(* the error of a record that cannot advance any further.                  *)
(***************************************************************************)
nextRecordVersion(existing, incoming) ==
    IF existing = NoRecord
      THEN IF incoming = 0 THEN 1 ELSE incoming
      ELSE IF incoming > existing.rv THEN incoming
           ELSE IF existing.rv = MaxVersion THEN 0 ELSE existing.rv + 1

CanPut(db, k, r) == nextRecordVersion(db[k], r.rv) # 0

(***************************************************************************)
(* putDeploymentTx, putLeaseTx and putBidTx: the record replaces whatever  *)
(* the key held, under its next revision.                                  *)
(***************************************************************************)
put(db, k, r) ==
    [db EXCEPT ![k] = [r EXCEPT !.rv = nextRecordVersion(db[k], r.rv)]]

(***************************************************************************)
(* The two record updates of MarkDeploymentClosed: a closing time already  *)
(* recorded for a closed record is kept.                                   *)
(***************************************************************************)
asClosed(r, t) ==
    [r EXCEPT !.state    = "closed",
              !.closedAt = IF r.state # "closed" \/ r.closedAt = 0
                             THEN t ELSE @]

(***************************************************************************)
(* The record MarkDeploymentClosed starts from when the deployment is not  *)
(* in the store yet; its state is overwritten before it is written.        *)
(***************************************************************************)
absentDeployment(t) ==
    [state |-> "active", createdAt |-> t, closedAt |-> 0,
     local |-> Nothing, chain |-> Nothing, rv |-> 0]

LeasesOf(db, dk) ==
    {k \in Keys : /\ k.bucket = "leases"
                  /\ k.owner = dk.owner
                  /\ k.dseq = dk.dseq
                  /\ Holds(db, k)}
=============================================================================
