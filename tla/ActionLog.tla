------------------------------ MODULE ActionLog ------------------------------
(***************************************************************************)
(* The action log of a context and the transactions it records.  Commands  *)
(* run as processes of their own: each sends a transaction and records it; *)
(* `akt context log` reads the files, asks the node about the entries that *)
(* are pending and appends a revision for each it knows.                   *)
(*                                                                         *)
(* A process appends through the file it opened, which another process may *)
(* have renamed since: the renames of a rotation are separate steps.       *)
(***************************************************************************)
EXTENDS Integers, Sequences

CONSTANTS
    Commands,    \* processes that send a transaction; it is named after its process
    Readers,     \* processes that run `akt context log`
    MaxRotated,  \* rotated files that are kept
    MaxSize      \* entries of a file that is due for rotation

ASSUME LogAssumption == MaxRotated \in Nat \ {0} /\ MaxSize \in Nat

VARIABLES
    dir,    \* the file each name has: 0 is the current log, i the i-th rotated one
    files,  \* the contents of every file ever created
    ps,     \* the processes
    chain,  \* what became of each transaction
    next,   \* the number of the next entry
    raced   \* history: the races there have been between rotations

logVars == <<dir, files, ps, chain, next, raced>>

Procs == Commands \cup Readers
NoFile == 0

(* A process that is not running; `had` and `moved` are history. *)
Idle(at) ==
    [at |-> at, handle |-> NoFile, rot |-> 0, entry |-> << >>, reading |-> 0, read |-> << >>,
     todo |-> {}, again |-> FALSE, had |-> {}, moved |-> FALSE]

(* An entry of an earlier command. *)
Old == [id |-> 0, tx |-> "none", hash |-> FALSE, status |-> "success", err |-> FALSE]

(* There is no log yet, or one with a single file that may be full. *)
LogInit ==
    /\ \/ files = << >> /\ dir = [i \in 0..MaxRotated |-> NoFile]
       \/ \E n \in 0..MaxSize :
            /\ files = <<[i \in 1..n |-> [Old EXCEPT !.id = i]]>>
            /\ dir = [i \in 0..MaxRotated |-> IF i = 0 THEN 1 ELSE NoFile]
    /\ ps = [p \in Procs |-> Idle("start")]
    /\ chain = [c \in Commands |-> "unsent"]
    /\ next = MaxSize + 1
    /\ raced = {}

Set(p, s) == ps' = [ps EXCEPT ![p] = s]

(* The current file, created if the name is free. *)
OpenFile(p, where) ==
    LET fresh == Len(files) + 1 IN
    IF dir[0] = NoFile
    THEN /\ files' = Append(files, << >>)
         /\ dir' = [dir EXCEPT ![0] = fresh]
         /\ Set(p, [ps[p] EXCEPT !.at = where, !.handle = fresh])
    ELSE /\ Set(p, [ps[p] EXCEPT !.at = where, !.handle = dir[0]])
         /\ UNCHANGED <<dir, files>>

Open(p) ==
    /\ ps[p].at = "start"
    /\ OpenFile(p, IF p \in Commands THEN "broadcast" ELSE "read")
    /\ UNCHANGED <<chain, next, raced>>

-----------------------------------------------------------------------------
(* Log: a file that has reached the size is closed and the names shift,    *)
(* oldest first; the entry goes to the file that is then open.             *)
Entry(tx, hash, status, err) ==
    [id |-> next, tx |-> tx, hash |-> hash, status |-> status, err |-> err]

Log(p, e, s) == Set(p, [s EXCEPT !.at = "stat", !.entry = e]) /\ next' = next + 1

(* Whether the open file is due. *)
maybeRotate(p) ==
    /\ ps[p].at = "stat"
    /\ IF Len(files[ps[p].handle]) < MaxSize
       THEN Set(p, [ps[p] EXCEPT !.at = "write"])
       ELSE Set(p, [ps[p] EXCEPT !.at = "rename", !.rot = MaxRotated - 1])
    /\ UNCHANGED <<dir, files, chain, next, raced>>

(* "overlap": another rotation is under way, or one was interrupted before *)
(* it had opened the new file; "stale": the current file is not the one    *)
(* this process found full.                                                *)
Races(p) ==
    {r \in {"overlap", "stale"} :
        \/ r = "overlap" /\ (dir[0] = NoFile \/ \E q \in Procs \ {p} : ps[q].at \in {"rename", "reopen"})
        \/ r = "stale" /\ dir[0] # ps[p].handle}

(* The renamer goes on; readers at work note that a file moved. *)
Moved(p) ==
    ps' = [q \in Procs |->
            IF q = p THEN IF ps[p].rot = 0 THEN [ps[p] EXCEPT !.at = "reopen"]
                          ELSE [ps[p] EXCEPT !.rot = @ - 1]
            ELSE [ps[q] EXCEPT !.moved = @ \/ dir' # dir]]

(* One rename; it does nothing if there is no such file. *)
Rename(p) ==
    /\ ps[p].at = "rename"
    /\ LET i == ps[p].rot IN
       dir' = IF dir[i] = NoFile THEN dir
              ELSE [dir EXCEPT ![i + 1] = dir[i], ![i] = NoFile]
    /\ Moved(p)
    /\ raced' = raced \cup Races(p)
    /\ UNCHANGED <<files, chain, next>>

Reopen(p) == ps[p].at = "reopen" /\ OpenFile(p, "write") /\ UNCHANGED <<chain, next, raced>>

Write(p) ==
    /\ ps[p].at = "write"
    /\ files' = [files EXCEPT ![ps[p].handle] = Append(@, ps[p].entry)]
    /\ Set(p, IF p \in Commands THEN Idle("end")
              ELSE [ps[p] EXCEPT !.at = "reconcile", !.entry = << >>])
    /\ UNCHANGED <<dir, chain, next, raced>>

-----------------------------------------------------------------------------
Fates == {"unsent", "mempool", "rejected", "included", "reverted"}

(* Mutant: what was accepted is recorded as a success. *)
recordAsSuccess(fate, err) ==
    IF err \/ fate \in {"rejected", "reverted"} THEN "failed" ELSE "success"

(* The status of a broadcast whose answer tells `fate`: pending while the  *)
(* transaction has no height, failed for a code; and failed, whatever the  *)
(* answer tells, if the call also returned an error.                       *)
record(fate, err) ==
    CASE err \/ fate \in {"rejected", "reverted"} -> "failed"
      [] ~err /\ fate = "mempool" -> "pending"
      [] OTHER -> "success"

(* A command sends its transaction and records what it learns: an answer   *)
(* with its hash, which in block mode has the height as well, an error, or *)
(* both.                                                                   *)
Broadcast(p) ==
    /\ ps[p].at = "broadcast"
    /\ \E fate \in Fates, hash, err \in BOOLEAN :
        /\ hash => fate # "unsent"
        /\ err \/ hash
        /\ chain' = [chain EXCEPT ![p] = fate]
        /\ Log(p, Entry(p, hash, record(fate, err), err), ps[p])
    /\ UNCHANGED <<dir, files, raced>>

(* The network includes a transaction; one that is dropped stays as it is. *)
Block ==
    /\ \E t \in Commands, fate \in {"included", "reverted"} :
        chain[t] = "mempool" /\ chain' = [chain EXCEPT ![t] = fate]
    /\ UNCHANGED <<dir, files, ps, next, raced>>

-----------------------------------------------------------------------------
(* The entries of the files that have a name. *)
Linked ==
    UNION {{files[dir[i]][j].id : j \in DOMAIN files[dir[i]]} :
             i \in {n \in 0..MaxRotated : dir[n] # NoFile}}

(* Mutant: the oldest file is not read. *)
ReadLogFileNotLast(p) ==
    /\ ps[p].at = "read"
    /\ LET i == MaxRotated - ps[p].reading
           found == IF dir[i] = NoFile \/ i = MaxRotated THEN << >> ELSE files[dir[i]]
           s == [ps[p] EXCEPT !.read = @ \o found, !.reading = @ + 1,
                              !.had = IF i = MaxRotated THEN Linked ELSE @,
                              !.moved = @ /\ i # MaxRotated]
       IN Set(p, IF i > 0 THEN s ELSE [s EXCEPT !.at = "shown"])
    /\ UNCHANGED <<dir, files, chain, next, raced>>

(* Read: the files one by one, from the oldest name to the current one.    *)
(* (`had` and `moved` are history: what there was to read when it began,   *)
(* and whether a file was renamed since.)                                  *)
ReadLogFile(p) ==
    /\ ps[p].at = "read"
    /\ LET i == MaxRotated - ps[p].reading
           found == IF dir[i] = NoFile THEN << >> ELSE files[dir[i]]
           s == [ps[p] EXCEPT !.read = @ \o found, !.reading = @ + 1,
                              !.had = IF i = MaxRotated THEN Linked ELSE @,
                              !.moved = @ /\ i # MaxRotated]
       IN Set(p, IF i > 0 THEN s ELSE [s EXCEPT !.at = "shown"])
    /\ UNCHANGED <<dir, files, chain, next, raced>>

(* One row for each transaction, the latest of its entries in the place of *)
(* the first; a row is named by the position of its entry.                 *)
SameTx(e, f) == e.hash /\ f.hash /\ e.tx = f.tx

Revisions(entries, i) == {j \in DOMAIN entries : j = i \/ SameTx(entries[i], entries[j])}

collapseTransactionRevisions(entries) ==
    {i \in DOMAIN entries : \A j \in Revisions(entries, i) : j <= i}

Above(entries, i, j) ==
    \E a \in Revisions(entries, i) : \A b \in Revisions(entries, j) : a < b

Rows(p) == collapseTransactionRevisions(ps[p].read)

(* The pending rows are looked up one by one, the most recent first; then  *)
(* the log is read again if anything was appended.                         *)
Pending(e) == e.status = "pending" /\ e.hash

Show(p) ==
    /\ ps[p].at = "shown" /\ ~ps[p].again
    /\ Set(p, [ps[p] EXCEPT !.at = "reconcile",
                            !.todo = {i \in Rows(p) : Pending(ps[p].read[i])}])
    /\ UNCHANGED <<dir, files, chain, next, raced>>

reconcilePendingTransactions(p) ==
    /\ ps[p].at = "reconcile"
    /\ \E i \in ps[p].todo :
        LET tx == ps[p].read[i].tx
            rest == [ps[p] EXCEPT !.todo = @ \ {i}]
        IN  /\ \A j \in ps[p].todo \ {i} : Above(ps[p].read, j, i)
            /\ \/ Set(p, rest) /\ UNCHANGED next
               \/ /\ chain[tx] \in {"included", "reverted"}
                  /\ Log(p, Entry(tx, TRUE, IF chain[tx] = "included" THEN "success" ELSE "failed",
                                  FALSE),
                         [rest EXCEPT !.again = TRUE])
    /\ UNCHANGED <<dir, files, chain, raced>>

ReadAgain(p) ==
    /\ ps[p].at = "reconcile" /\ ps[p].todo = {}
    /\ Set(p, IF ps[p].again
              THEN [ps[p] EXCEPT !.at = "read", !.reading = 0, !.read = << >>]
              ELSE Idle("end"))
    /\ UNCHANGED <<dir, files, chain, next, raced>>

Finish(p) ==
    /\ ps[p].at = "shown" /\ ps[p].again
    /\ Set(p, Idle("end"))
    /\ UNCHANGED <<dir, files, chain, next, raced>>

(* The process is killed half way through a rotation (elsewhere this is    *)
(* the same as never taking another step).                                 *)
Crash(p) ==
    /\ ps[p].at \in {"rename", "reopen"}
    /\ Set(p, Idle("end"))
    /\ UNCHANGED <<dir, files, chain, next, raced>>

LogNext ==
    \/ Block
    \/ \E p \in Procs :
        \/ Open(p) \/ maybeRotate(p) \/ Rename(p) \/ Reopen(p) \/ Write(p) \/ Broadcast(p)
        \/ ReadLogFile(p) \/ Show(p) \/ reconcilePendingTransactions(p) \/ ReadAgain(p)
        \/ Finish(p) \/ Crash(p)

LogSpec == LogInit /\ [][LogNext]_logVars

-----------------------------------------------------------------------------
(* A name stands for a file that exists, and no file has two names;        *)
(* entries are numbered once.                                              *)
LogTypeOK ==
    /\ \A i \in 0..MaxRotated : dir[i] \in 0..Len(files)
    /\ \A i, j \in 0..MaxRotated : dir[i] = dir[j] /\ dir[i] # NoFile => i = j
    /\ \A p \in Procs : ps[p].handle \in 0..Len(files) /\ ps[p].rot \in 0..(MaxRotated - 1)
    /\ \A c \in Commands : chain[c] \in Fates

(* log.go:134, Read lists files that move while it goes on, and still      *)
(* shows no entry twice.                                                   *)
ReadOnce ==
    \A r \in Readers : \A i, j \in DOMAIN ps[r].read :
        ps[r].read[i].id = ps[r].read[j].id => i = j

(* log.go:134, and it misses no entry that was there when it began, unless *)
(* a file was renamed meanwhile.                                           *)
CompleteUnlessMoved ==
    \A r \in Readers :
        ps[r].at = "shown" /\ ~ps[r].moved =>
            ps[r].had \subseteq {ps[r].read[i].id : i \in DOMAIN ps[r].read}

(* actionlog.go:86, a row of the log never says more than the chain does:  *)
(* a "success" was included, a "failed" with a hash was rejected or        *)
(* reverted, and a transaction that was dropped stays pending.  Except     *)
(* that a broadcast that returned an error is "failed" for good, even with *)
(* the hash of a transaction that is included: it is not looked up again.  *)
RowsAreTrue ==
    \A r \in Readers : \A i \in Rows(r) :
        LET e == ps[r].read[i] IN
        e.hash =>
            /\ e.status = "success" => chain[e.tx] = "included"
            /\ e.status = "failed" => e.err \/ chain[e.tx] \in {"rejected", "reverted"}
            /\ e.err => e.status = "failed"
            /\ chain[e.tx] = "mempool" => e.err \/ e.status = "pending"

(* actionlog.go:129, no row with a hash is "failed" while its transaction  *)
(* is included.  It does not hold, for the errors just named.              *)
FailedIsNotIncluded ==
    \A r \in Readers : \A i \in Rows(r) :
        LET e == ps[r].read[i] IN
        e.hash /\ e.status = "failed" => chain[e.tx] # "included"

(* log.go:180, the row of a transaction is settled, and as the settled     *)
(* entries say, if any of its entries that the reading found is, whatever  *)
(* files they are in.                                                      *)
LatestShown ==
    \A r \in Readers : \A i \in Rows(r), j \in DOMAIN ps[r].read :
        LET e == ps[r].read[i]  f == ps[r].read[j] IN
        SameTx(e, f) /\ f.status # "pending" => e.status = f.status

(* log.go:180, so it is unless a process rotates a file that it did not    *)
(* find full.                                                              *)
LatestUnlessRaced == raced = {} => LatestShown

(* Read: no entry twice, none missed unless a file moved, and one row, the *)
(* latest, for each transaction unless a rotation was raced.               *)
ReadIsFaithful == ReadOnce /\ CompleteUnlessMoved /\ LatestUnlessRaced

Gone == {f \in DOMAIN files : \A i \in 0..MaxRotated : dir[i] # f}

(* log.go:226, a file loses its name only to MaxRotated newer files and    *)
(* the current one.                                                        *)
RotationKeepsFiles == \A f \in Gone : Len(files) - f >= MaxRotated

(* log.go:226, it does so unless a rotation begins before another, of      *)
(* another process, is complete.                                           *)
KeptUnlessRaced == "overlap" \in raced \/ RotationKeepsFiles
=============================================================================
