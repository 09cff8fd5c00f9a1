----------------------------- MODULE StoreSync -----------------------------
(***************************************************************************)
(* The local store kept in step with the chain (internal/sync, the store   *)
(* half of `akt store sync`, and internal/cli/workflow/persist.go).        *)
(*                                                                         *)
(* Three kinds of process meet in the store of one context:                *)
(*   - workflow runs (deploy, update, close), which broadcast transactions *)
(*     and, when they end, record what they observed;                      *)
(*   - `akt store sync`, which reads the chain and merges what it finds    *)
(*     record by record;                                                   *)
(*   - the chain itself, which goes on changing meanwhile.                 *)
(* A process holds the store file exclusively from OpenContext to Close.   *)
(*                                                                         *)
(* The revision of a record is the subject of DeploymentStore: here it is  *)
(* left at 0.  Timestamps are 0 (unset) or 1.                              *)
(***************************************************************************)
EXTENDS StoreRecords, Sequences

CONSTANTS
    Owner,        \* the tracked account
    DSeqs,        \* deployments of the instance
    Providers,    \* providers that may bid
    SDLs,         \* SDL files a run can be given
    Runs,         \* workflow runs
    Nobody,       \* the store file is not open
    GapThreshold, \* gapThreshold, scaled down
    Modes,        \* which reconciliations are started: "now", "startup"
    MaxHeight,    \* bound: changes of the chain
    MaxSyncs      \* bound: reconciliations started

NoHeight == -1

deployment(d) == [bucket |-> "deployments", owner |-> Owner, dseq |-> d,
                  provider |-> Nothing]
lease(d, p) == [bucket |-> "leases", owner |-> Owner, dseq |-> d, provider |-> p]
bid(d, p) == [bucket |-> "bids", owner |-> Owner, dseq |-> d, provider |-> p]

SyncKeys == {deployment(d) : d \in DSeqs}
            \cup {lease(d, p) : d \in DSeqs, p \in Providers}
            \cup {bid(d, p) : d \in DSeqs, p \in Providers}

ASSUME SyncKeysAssumption == Keys = SyncKeys

ASSUME ModesAssumption == Modes \subseteq {"now", "startup"}

(* Who holds the file can be told from its value. *)
ASSUME LockAssumption == "sync" \notin Runs /\ Nobody \notin Runs \cup {"sync"}

(* What a record says of its SDL: the file, and the hash of its text when  *)
(* it could be read.  A record that names no file has Nothing.             *)
Identities == [path : SDLs, hash : SDLs \cup {Nothing}]

ASSUME SDLsAssumption == Identities \subseteq Contents

VARIABLES
    chain,    \* on-chain state of each object, "none" before it exists
    history,  \* history[h + 1] is the chain at height h
    mempool,  \* transactions accepted by CheckTx and not yet in a block
    db,       \* the records of the store
    synced,   \* SyncState.LastBlockHeight, NoHeight before the first sync
    lock,     \* who has the store file open
    sync,     \* the reconciliation in progress
    syncs,    \* how many were started
    run,      \* the workflow runs
    sdlOf     \* the SDL identity a run last recorded (auxiliary)

vars == <<chain, history, mempool, db, synced, lock, sync, syncs, run, sdlOf>>

height == Len(history) - 1

(* A lease ends closed, or overdrawn with its escrow account. *)
Ended == {"closed", "insufficient_funds"}

ChainStates == {"none", "active", "open", "lost"} \cup Ended

IdleSync == [pc |-> "idle", mode |-> "now", height |-> NoHeight,
             listed |-> [d \in DSeqs |-> "none"], left |-> {},
             cur |-> Nothing, batch |-> {}]

IdleRun == [kind |-> "none", phase |-> "idle", dseq |-> Nothing,
            provider |-> Nothing, sdl |-> Nothing, bids |-> {}, won |-> FALSE,
            todo |-> {}]

SyncPCs == {"idle", "opened", "list", "next", "leases", "putLeases", "bids",
            "putBids", "finish"}

Phases == {"idle", "created", "selected", "ended", "recording", "recorded",
           "crashed"}

TypeOK ==
    /\ chain \in [Keys -> ChainStates]
    /\ history \in Seq([Keys -> ChainStates])
    /\ db \in [Keys -> Record \cup {NoRecord}]
    /\ \A k \in Keys : Holds(db, k) => db[k].state \in ValidStates(k.bucket)
    /\ synced \in {NoHeight} \cup 0..MaxHeight
    /\ lock \in Runs \cup {"sync", Nobody}
    /\ sync.pc \in SyncPCs
    /\ \A r \in Runs : run[r].phase \in Phases
    /\ sdlOf \in [DSeqs -> Identities \cup {Nothing}]

Init ==
    /\ chain = [k \in Keys |-> "none"]
    /\ history = <<chain>>
    /\ mempool = {}
    /\ db = Empty
    /\ synced = NoHeight
    /\ lock = Nobody
    /\ sync = IdleSync
    /\ syncs = 0
    /\ run = [r \in Runs |-> IdleRun]
    /\ sdlOf = [d \in DSeqs |-> Nothing]

storeVars == <<db, synced, lock, sdlOf>>
chainVars == <<chain, history, mempool>>
-----------------------------------------------------------------------------
(* The chain: external, as the queries and transactions of akt see it. *)

Advance(c) ==
    /\ height < MaxHeight
    /\ chain' = c
    /\ history' = Append(history, c)

Leased(d) == \E p \in Providers : chain[lease(d, p)] # "none"

(* What a transaction does to the chain; the same chain if it is refused. *)
Applied(tx) ==
    LET d == tx.dseq
        p == tx.provider IN
    CASE tx.msg = "create" /\ chain[deployment(d)] = "none" ->
           [chain EXCEPT ![deployment(d)] = "active"]
      [] tx.msg = "lease" /\ chain[bid(d, p)] = "open" ->
           [k \in Keys |->
              CASE k = lease(d, p) -> "active"
                [] k = bid(d, p) -> "active"
                [] k.bucket = "bids" /\ k.dseq = d /\ chain[k] = "open" -> "lost"
                [] OTHER -> chain[k]]
      [] tx.msg = "close" /\ chain[deployment(d)] = "active" ->
           [k \in Keys |->
              IF k.dseq = d /\ chain[k] \in {"active", "open"}
                THEN "closed" ELSE chain[k]]
      [] OTHER -> chain

(* A block includes the transaction; it may fail there (gas, funds). *)
Deliver(tx) ==
    /\ tx \in mempool
    /\ mempool' = mempool \ {tx}
    /\ \/ Applied(tx) # chain /\ Advance(Applied(tx))
       \/ UNCHANGED <<chain, history>>
    /\ UNCHANGED <<storeVars, sync, syncs, run>>

(* Another tool, or another machine, acts for the same account. *)
Elsewhere(msg, d, p) ==
    LET tx == [msg |-> msg, dseq |-> d, provider |-> p] IN
    /\ Applied(tx) # chain
    /\ Advance(Applied(tx))
    /\ UNCHANGED <<mempool, storeVars, sync, syncs, run>>

ProviderBids(d, p) ==
    /\ chain[deployment(d)] = "active"
    /\ chain[bid(d, p)] = "none"
    /\ ~Leased(d)
    /\ Advance([chain EXCEPT ![bid(d, p)] = "open"])
    /\ UNCHANGED <<mempool, storeVars, sync, syncs, run>>

ProviderCloses(d, p) ==
    /\ chain[lease(d, p)] = "active"
    /\ Advance([chain EXCEPT ![lease(d, p)] = "closed", ![bid(d, p)] = "closed"])
    /\ UNCHANGED <<mempool, storeVars, sync, syncs, run>>

(* The escrow account of a leased deployment is empty. *)
Overdrawn(d) ==
    /\ chain[deployment(d)] = "active"
    /\ \E p \in Providers : chain[lease(d, p)] = "active"
    /\ Advance([k \in Keys |->
          IF k.dseq = d /\ chain[k] \in {"active", "open"}
            THEN IF k.bucket = "leases" THEN "insufficient_funds" ELSE "closed"
            ELSE chain[k]])
    /\ UNCHANGED <<mempool, storeVars, sync, syncs, run>>
-----------------------------------------------------------------------------
(* Records built from chain state. *)

(* deploymentState, leaseState, bidState. *)
storedState(k, s) == IF k.bucket = "bids" /\ s = "active" THEN "matched" ELSE s

fresh(k, s) ==
    [state |-> storedState(k, s), createdAt |-> 0, closedAt |-> 0,
     local |-> Nothing, chain |-> Nothing, rv |-> 0]

(* Mutant: the chain's record replaces the local one. *)
mergeOverwrites(k, old, new) ==
    [new EXCEPT !.createdAt = 1,
                !.closedAt = IF k.bucket # "bids" /\ new.state = "closed"
                               THEN 1 ELSE 0]

(***************************************************************************)
(* mergeDeployment, mergeLease, mergeBid: chain state over the local       *)
(* record, whose local fields, creation and closing times are kept.        *)
(***************************************************************************)
merge(k, old, new) ==
    LET kept == IF old = NoRecord THEN new
                ELSE [new EXCEPT !.local = old.local,
                                 !.createdAt = old.createdAt,
                                 !.closedAt = old.closedAt]
    IN [kept EXCEPT !.createdAt = 1,
                    !.closedAt = IF k.bucket # "bids" /\ new.state = "closed"
                                   THEN 1 ELSE @]
-----------------------------------------------------------------------------
(* akt store sync. *)

BeginSync(mode) ==
    /\ sync.pc = "idle"
    /\ syncs < MaxSyncs
    /\ lock = Nobody
    /\ lock' = "sync"
    /\ sync' = [IdleSync EXCEPT !.pc = "opened", !.mode = mode]
    /\ syncs' = syncs + 1
    /\ UNCHANGED <<chainVars, db, synced, sdlOf, run>>

(* CurrentHeight, and in Reconcile the choice by the gap. *)
ReadHeight ==
    /\ sync.pc = "opened"
    /\ sync' = [sync EXCEPT
                  !.height = height,
                  !.pc = IF sync.mode = "startup" /\ synced # NoHeight
                              /\ height - synced <= GapThreshold
                           THEN "finish" ELSE "list"]
    /\ UNCHANGED <<chainVars, storeVars, syncs, run>>

(* Deployments: one list for the owner. *)
ListDeployments ==
    /\ sync.pc = "list"
    /\ sync' = [sync EXCEPT
                  !.pc = "next",
                  !.listed = [d \in DSeqs |-> chain[deployment(d)]],
                  !.left = {d \in DSeqs : chain[deployment(d)] # "none"}]
    /\ UNCHANGED <<chainVars, storeVars, syncs, run>>

PutListed(d) ==
    /\ sync.pc = "next"
    /\ d \in sync.left
    /\ db' = [db EXCEPT ![deployment(d)] =
                merge(deployment(d), @,
                      fresh(deployment(d), sync.listed[d]))]
    /\ sync' = [sync EXCEPT !.pc = "leases", !.cur = d, !.left = @ \ {d}]
    /\ UNCHANGED <<chainVars, synced, lock, sdlOf, syncs, run>>

(* Mutant: the query is pinned to the height recorded at the start. *)
QueryObjectsPinned(pc, bucket, next) ==
    /\ sync.pc = pc
    /\ sync' = [sync EXCEPT
                  !.pc = next,
                  !.batch = {<<k, history[sync.height + 1][k]>> : k \in
                              {j \in Keys : /\ j.bucket = bucket
                                            /\ j.dseq = sync.cur
                                            /\ history[sync.height + 1][j]
                                                 # "none"}}]
    /\ UNCHANGED <<chainVars, storeVars, syncs, run>>

(* Leases and Bids: the objects of the deployment at this moment. *)
QueryObjects(pc, bucket, next) ==
    /\ sync.pc = pc
    /\ sync' = [sync EXCEPT
                  !.pc = next,
                  !.batch = {<<k, chain[k]>> : k \in
                              {j \in Keys : /\ j.bucket = bucket
                                            /\ j.dseq = sync.cur
                                            /\ chain[j] # "none"}}]
    /\ UNCHANGED <<chainVars, storeVars, syncs, run>>

PutObject(pc, next) ==
    /\ sync.pc = pc
    /\ \/ \E o \in sync.batch :
            /\ db' = [db EXCEPT ![o[1]] = merge(o[1], @, fresh(o[1], o[2]))]
            /\ sync' = [sync EXCEPT !.batch = @ \ {o}]
       \/ /\ sync.batch = {}
          /\ sync' = [sync EXCEPT !.pc = next]
          /\ UNCHANGED db
    /\ UNCHANGED <<chainVars, synced, lock, sdlOf, syncs, run>>

AllPut == sync.pc = "next" /\ sync.left = {}

(* Mutant: the height is read when everything has been written. *)
FinishSyncLateHeight ==
    /\ sync.pc = "finish" \/ AllPut
    /\ synced' = height
    /\ lock' = Nobody
    /\ sync' = IdleSync
    /\ UNCHANGED <<chainVars, db, sdlOf, syncs, run>>

(* putSyncState with the height read at the start, then Close. *)
FinishSync ==
    /\ sync.pc = "finish" \/ AllPut
    /\ synced' = sync.height
    /\ lock' = Nobody
    /\ sync' = IdleSync
    /\ UNCHANGED <<chainVars, db, sdlOf, syncs, run>>

(* A query or a put fails, or the process dies: earlier puts stay. *)
AbortSync ==
    /\ sync.pc # "idle"
    /\ lock' = Nobody
    /\ sync' = IdleSync
    /\ UNCHANGED <<chainVars, db, synced, sdlOf, syncs, run>>

SyncStep ==
    \/ ReadHeight
    \/ ListDeployments
    \/ \E d \in DSeqs : PutListed(d)
    \/ QueryObjects("leases", "leases", "putLeases")
    \/ PutObject("putLeases", "bids")
    \/ QueryObjects("bids", "bids", "putBids")
    \/ PutObject("putBids", "next")
    \/ FinishSync
-----------------------------------------------------------------------------
(* Workflow runs on the chain rail, broadcast mode sync. *)

Broadcast(msg, d, p) ==
    mempool' = mempool \cup {[msg |-> msg, dseq |-> d, provider |-> p]}

Unused(d) ==
    /\ chain[deployment(d)] = "none"
    /\ \A q \in Runs : run[q].dseq # d

(* create-deployment succeeds: CheckTx accepted the transaction. *)
StartDeploy(r, d, sdl) ==
    /\ run[r].phase = "idle"
    /\ Unused(d)
    /\ Broadcast("create", d, Nothing)
    /\ run' = [run EXCEPT ![r].kind = "deploy", ![r].phase = "created",
                          ![r].dseq = d, ![r].sdl = sdl]
    /\ UNCHANGED <<chain, history, storeVars, sync, syncs>>

(* wait-for-bids and select-bid; a selection that fails ends the run. *)
SelectBid(r) ==
    /\ run[r].phase = "created"
    /\ LET open == {p \in Providers : chain[bid(run[r].dseq, p)] = "open"} IN
       /\ open # {}
       /\ \E p \in open \cup {Nothing} :
             run' = [run EXCEPT
                       ![r].bids = open,
                       ![r].provider = p,
                       ![r].phase = IF p = Nothing THEN "ended" ELSE "selected"]
    /\ UNCHANGED <<chainVars, storeVars, sync, syncs>>

(* create-lease succeeds; the manifest steps that follow do not matter here. *)
CreateLease(r) ==
    /\ run[r].phase = "selected"
    /\ Broadcast("lease", run[r].dseq, run[r].provider)
    /\ run' = [run EXCEPT ![r].phase = "ended", ![r].won = TRUE]
    /\ UNCHANGED <<chain, history, storeVars, sync, syncs>>

(* A step fails, times out or is cancelled: the outcome is still recorded. *)
EndEarly(r) ==
    /\ run[r].phase \in {"created", "selected"}
    /\ run' = [run EXCEPT ![r].phase = "ended"]
    /\ UNCHANGED <<chainVars, storeVars, sync, syncs>>

(* update-deployment and close-deployment of a deployment on the chain; an *)
(* update without an SDL is one with --patch.                              *)
StartOther(r, kind, d, sdl) ==
    /\ run[r].phase = "idle"
    /\ chain[deployment(d)] = "active"
    /\ Broadcast(kind, d, Nothing)
    /\ run' = [run EXCEPT ![r].kind = kind, ![r].phase = "ended",
                          ![r].dseq = d, ![r].sdl = sdl]
    /\ UNCHANGED <<chain, history, storeVars, sync, syncs>>

(* The writes persistDeploy, persistUpdate and persistClose make. *)
Writes(r) ==
    LET d == run[r].dseq IN
    IF run[r].kind # "deploy" THEN {deployment(d)}
    ELSE {deployment(d)} \cup {bid(d, p) : p \in run[r].bids}
           \cup (IF run[r].won THEN {lease(d, run[r].provider)} ELSE {})

(* recordWorkflowOutcome: OpenContext waits for the file. *)
OpenStore(r) ==
    /\ run[r].phase = "ended"
    /\ lock = Nobody
    /\ lock' = r
    /\ run' = [run EXCEPT ![r].phase = "recording", ![r].todo = Writes(r)]
    /\ UNCHANGED <<chainVars, db, synced, sdlOf, sync, syncs>>

(* applySDL: a patch clears the identity, since the file still has the     *)
(* text from before it; a file that cannot be read any more is named, and  *)
(* the hash stays what it was.                                             *)
applySDL(old, sdl, readable) ==
    CASE sdl = Nothing -> Nothing
      [] sdl # Nothing /\ readable -> [path |-> sdl, hash |-> sdl]
      [] OTHER -> [path |-> sdl, hash |-> IF old = Nothing THEN Nothing ELSE old.hash]

(* What each write of a run leaves at k. *)
Outcome(r, k, readable) ==
    LET new(state) == [state |-> state, createdAt |-> 1, closedAt |-> 0,
                       local |-> Nothing, chain |-> Nothing, rv |-> 0] IN
    CASE k.bucket = "bids" ->
           new(IF k.provider = run[r].provider THEN "matched" ELSE "lost")
      [] k.bucket = "leases" -> new("active")
      [] k.bucket = "deployments" /\ run[r].kind = "update" ->
           [IF Holds(db, k) THEN db[k] ELSE new("active")
              EXCEPT !.local = applySDL(@, run[r].sdl, readable)]
      [] OTHER -> [new("active") EXCEPT !.local = applySDL(@, run[r].sdl, readable)]

(* MarkDeploymentClosed, one transaction (see DeploymentStore). *)
Closed(k, d) ==
    CASE k = deployment(d) ->
           asClosed(IF Holds(db, k) THEN db[k] ELSE absentDeployment(1), 1)
      [] k \in LeasesOf(db, deployment(d)) -> asClosed(db[k], 1)
      [] OTHER -> db[k]

(* One write of persistDeploy (deployment, bids, lease) or persistUpdate. *)
RecordNext(r, k, readable) ==
    /\ run[r].phase = "recording"
    /\ k \in run[r].todo
    /\ \A j \in run[r].todo :
          \/ k.bucket = "deployments"
          \/ k.bucket = "bids" /\ j.bucket # "deployments"
          \/ j.bucket = "leases"
    /\ db' = IF run[r].kind = "close"
               THEN [j \in Keys |-> Closed(j, run[r].dseq)]
               ELSE [db EXCEPT ![k] = Outcome(r, k, readable)]
    /\ sdlOf' = IF k.bucket = "deployments" /\ run[r].kind # "close"
                  THEN [sdlOf EXCEPT ![run[r].dseq] = Outcome(r, k, readable).local]
                  ELSE sdlOf
    /\ run' = [run EXCEPT ![r].todo = @ \ {k}]
    /\ UNCHANGED <<chainVars, synced, lock, sync, syncs>>

CloseStore(r) ==
    /\ run[r].phase = "recording"
    /\ run[r].todo = {}
    /\ lock' = Nobody
    /\ run' = [run EXCEPT ![r].phase = "recorded"]
    /\ UNCHANGED <<chainVars, db, synced, sdlOf, sync, syncs>>

(* The process dies; the operating system releases the file. *)
Crash(r) ==
    /\ run[r].phase \notin {"idle", "recorded", "crashed"}
    /\ lock' = IF lock = r THEN Nobody ELSE lock
    /\ run' = [run EXCEPT ![r].phase = "crashed", ![r].todo = {}]
    /\ UNCHANGED <<chainVars, db, synced, sdlOf, sync, syncs>>

RunStep(r) ==
    \/ SelectBid(r)
    \/ CreateLease(r)
    \/ EndEarly(r)
    \/ OpenStore(r)
    \/ \E k \in Keys, readable \in BOOLEAN : RecordNext(r, k, readable)
    \/ CloseStore(r)

Next ==
    \/ \E tx \in mempool : Deliver(tx)
    \/ \E msg \in {"create", "lease", "close"}, d \in DSeqs, p \in Providers :
          Elsewhere(msg, d, p)
    \/ \E d \in DSeqs, p \in Providers : ProviderBids(d, p)
    \/ \E d \in DSeqs, p \in Providers : ProviderCloses(d, p)
    \/ \E d \in DSeqs : Overdrawn(d)
    \/ \E mode \in Modes : BeginSync(mode)
    \/ SyncStep
    \/ AbortSync
    \/ \E r \in Runs, d \in DSeqs, sdl \in SDLs : StartDeploy(r, d, sdl)
    \/ \E r \in Runs, d \in DSeqs, sdl \in SDLs \cup {Nothing} :
          StartOther(r, "update", d, sdl)
    \/ \E r \in Runs, d \in DSeqs : StartOther(r, "close", d, Nothing)
    \/ \E r \in Runs : RunStep(r)
    \/ \E r \in Runs : Crash(r)

(***************************************************************************)
(* A process that has started takes its next step: queries, puts and the   *)
(* wait for the file are made in a loop without user input, and the        *)
(* wait-for-bids step ends at its deadline (EndEarly).                     *)
(***************************************************************************)
Fairness ==
    /\ WF_vars(SyncStep)
    /\ \A r \in Runs : WF_vars(RunStep(r))

Spec == Init /\ [][Next]_vars /\ Fairness
-----------------------------------------------------------------------------
(***************************************************************************)
(* The recorded height is honest: when a reconciliation records height h,  *)
(* everything that was on the chain at h is in the store, in a state it    *)
(* had at h or later, however the chain moved between the queries.         *)
(***************************************************************************)
SyncCoversHeight ==
    [][FinishSync =>
         \A k \in Keys : history[synced' + 1][k] # "none" =>
            /\ Holds(db, k)
            /\ \E h \in synced'..height :
                  db[k].state = storedState(k, history[h + 1][k])]_vars

(***************************************************************************)
(* Deployments are read before their leases, and a lease never outlives    *)
(* its deployment on the chain: under a deployment it shows closed, a      *)
(* finished reconciliation shows every lease of the chain as ended, and    *)
(* ended the way the chain says.                                           *)
(***************************************************************************)
NoLeaseOutlivesDeployment ==
    [][FinishSync /\ sync.mode = "now" =>
         \A d \in DSeqs, p \in Providers :
            /\ sync.listed[d] = "closed"
            /\ chain[lease(d, p)] # "none"
            => /\ Holds(db, lease(d, p))
               /\ db[lease(d, p)].state \in Ended
               /\ db[lease(d, p)].state = chain[lease(d, p)]]_vars

(***************************************************************************)
(* Reconciling and closing never discard or bring back what runs recorded: *)
(* the SDL identity of a stored deployment is the one the last run left,   *)
(* and none after a patch.                                                 *)
(***************************************************************************)
LastSDLKept ==
    \A d \in DSeqs :
        IF Holds(db, deployment(d)) THEN db[deployment(d)].local = sdlOf[d]
        ELSE sdlOf[d] = Nothing

(***************************************************************************)
(* applySDL's comment: a file that can no longer be read "leaves the hash  *)
(* empty".                                                                 *)
(***************************************************************************)
HashIsOfPath ==
    \A d \in DSeqs : Holds(db, deployment(d)) =>
        LET l == db[deployment(d)].local IN l # Nothing => l.hash \in {l.path, Nothing}

(***************************************************************************)
(* A run that ended gets to record its outcome, whoever holds the store,   *)
(* unless its process dies.                                                *)
(***************************************************************************)
OutcomeRecorded ==
    \A r \in Runs :
        run[r].phase = "ended" ~> run[r].phase \in {"recorded", "crashed"}

(***************************************************************************)
(* internal/store/store.go documents ClosedAt as "0 if not closed".        *)
(***************************************************************************)
ClosedAtOnlyWhenClosed ==
    \A d \in DSeqs : Holds(db, deployment(d)) =>
        (db[deployment(d)].closedAt # 0 => db[deployment(d)].state = "closed")
=============================================================================
