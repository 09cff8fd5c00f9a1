-------------------------- MODULE ActionLogProofs --------------------------
(***************************************************************************)
(* The inductive invariant of the action log, and the steps of processes   *)
(* that leave the names of the files alone: reading, looking up, sending,  *)
(* opening a file.  The renames, the writes and the theorems are in        *)
(* ContextFilesProofs.                                                     *)
(***************************************************************************)
EXTENDS ActionLog, TLAPS

Names == 0..MaxRotated
Holding == {"stat", "rename", "reopen", "write"}
Statuses == {"pending", "success", "failed"}

LogEntry ==
    {e \in [id : Nat, tx : Commands \cup {"none"}, hash : BOOLEAN, status : Statuses, err : BOOLEAN] :
        (e.hash => e.tx \in Commands) /\ (e.err => e.status = "failed")}

Process ==
    [at : {"start", "broadcast", "read", "shown", "reconcile", "end"} \cup Holding,
     handle : Nat, rot : Nat, entry : LogEntry \cup {<< >>}, reading : Nat,
     read : Seq(LogEntry), todo : SUBSET Nat, again : BOOLEAN, had : SUBSET Nat,
     moved : BOOLEAN]

(* There is a j-th entry in file g. *)
Has(f, g, j) == g \in 1..Len(f) /\ j \in 1..Len(f[g])

LogTypes ==
    /\ files \in Seq(Seq(LogEntry))
    /\ dir \in [Names -> Nat]
    /\ ps \in [Procs -> Process]
    /\ chain \in [Commands -> Fates]
    /\ next \in Nat

(* Entries are numbered once. *)
Numbered ==
    /\ \A g, h, i, j : Has(files, g, i) /\ Has(files, h, j) /\ files[g][i].id = files[h][j].id
                         => g = h /\ i = j
    /\ \A g, i : Has(files, g, i) => files[g][i].id < next
    /\ \A p, q \in Procs :
        /\ ps[p].at \in Holding /\ ps[q].at \in Holding /\ ps[p].entry.id = ps[q].entry.id
        => p = q

(* The newer a file, the younger its name; the current one is the newest. *)
NamesInOrder ==
    /\ \A i \in Names : dir[i] <= Len(files)
    /\ \A i, j \in Names : i < j /\ dir[i] # 0 /\ dir[j] # 0 => dir[j] < dir[i]
    /\ dir[0] \in {0, Len(files)}

Earlier(g, i, h, j) == g < h \/ (g = h /\ i < j)

(* A settled entry is true of the chain, unless it records an error. *)
True(e) ==
    e.hash => /\ e.status = "success" => chain[e.tx] = "included"
              /\ e.status = "failed" => e.err \/ chain[e.tx] \in {"rejected", "reverted"}

EntriesTrue == \A g, i : Has(files, g, i) => True(files[g][i])

(* Unless a rotation was raced, the files that are not current are full,   *)
(* and the pending entry of a transaction is before its settled ones; an   *)
(* entry with an error is the only one of its transaction.                 *)
FullWhenRotated ==
    raced = {} => \A g \in 1..Len(files) : g # dir[0] => Len(files[g]) >= MaxSize

PendingFirst ==
    raced = {} =>
        \A g, h, i, j :
            Has(files, g, i) /\ Has(files, h, j) /\ SameTx(files[g][i], files[h][j]) =>
                /\ files[g][i].status = "pending" /\ files[h][j].status # "pending"
                     => Earlier(g, i, h, j)
                /\ files[g][i].err => files[h][j].err

(* What a process is at. *)
AtWork(p) ==
    /\ ps[p].at = "start" => ps[p].reading = 0 /\ ps[p].read = << >>
    /\ ps[p].at \notin {"start", "end"} => ps[p].handle \in 1..Len(files)
    /\ ps[p].at \in Holding => ps[p].entry \in LogEntry
    /\ ps[p].at = "rename" =>
          ps[p].rot + 1 \in Names /\ Len(files[ps[p].handle]) >= MaxSize
    /\ ps[p].at = "read" => ps[p].reading \in Names
    /\ ps[p].at = "broadcast" => p \in Commands
    /\ ps[p].at \in {"read", "shown", "reconcile"} => p \notin Commands

(* The entry a process is to write. *)
Held(p) ==
    ps[p].at \in Holding =>
        /\ ps[p].entry.id < next
        /\ \A g, i : Has(files, g, i) => files[g][i].id # ps[p].entry.id
        /\ True(ps[p].entry)

(* What was read is in the files, in their order, and before what is left. *)
ReadFromFiles(p) ==
    \A a \in 1..Len(ps[p].read) : \E g, i : Has(files, g, i) /\ files[g][i] = ps[p].read[a]

InOrder(f, r) ==
    \A a, b \in 1..Len(r) : \A g, h, i, j :
        a < b /\ Has(f, g, i) /\ Has(f, h, j) /\ f[g][i] = r[a] /\ f[h][j] = r[b]
        => Earlier(g, i, h, j)

ReadInOrder(p) == InOrder(files, ps[p].read)

LeftIsNewer(p) ==
    ps[p].at = "read" =>
        \A a \in 1..Len(ps[p].read) : \A g, j : \A i \in 0..(MaxRotated - ps[p].reading) :
            Has(files, g, j) /\ files[g][j] = ps[p].read[a] /\ dir[i] # 0 => g < dir[i]

(* What there was to read has been read or is left, unless files moved. *)
InRead(p, id) == \E a \in 1..Len(ps[p].read) : ps[p].read[a].id = id

InLeft(p, id) ==
    \E i \in 0..(MaxRotated - ps[p].reading) : \E j :
        dir[i] # 0 /\ Has(files, dir[i], j) /\ files[dir[i]][j].id = id

ReadComplete(p) ==
    /\ ps[p].at = "read" /\ ps[p].reading = 0 => ps[p].read = << >>
    /\ ps[p].at = "read" /\ ps[p].reading > 0 /\ ~ps[p].moved =>
          \A id \in ps[p].had : InRead(p, id) \/ InLeft(p, id)
    /\ ps[p].at = "shown" /\ ~ps[p].moved => \A id \in ps[p].had : InRead(p, id)

(* The entry of a command is the first of its transaction. *)
OwnFirst(p) ==
    p \in Commands =>
        /\ ps[p].at \in {"start", "broadcast"} => chain[p] = "unsent"
        /\ ps[p].at \in Holding => ps[p].entry.tx = p
        /\ ps[p].at \in {"start", "broadcast"} \/ (ps[p].at \in Holding /\ ps[p].entry.hash)
             => \A g, i : Has(files, g, i) => ~(files[g][i].hash /\ files[g][i].tx = p)

(* The entry of a reader settles one of the files, and the file it goes to *)
(* is not older, unless a rotation was raced.                              *)
Revision(p) ==
    p \notin Commands /\ ps[p].at \in Holding =>
        /\ ps[p].entry.hash /\ ps[p].entry.status # "pending" /\ ~ps[p].entry.err
        /\ \E g, i : Has(files, g, i) /\ SameTx(ps[p].entry, files[g][i]) /\ ~files[g][i].err
        /\ ps[p].at = "write" /\ raced = {} =>
              \A g, i :
                  /\ Has(files, g, i) /\ SameTx(ps[p].entry, files[g][i])
                  /\ files[g][i].status = "pending"
                  => g <= ps[p].handle

(* What is left to look up are pending rows. *)
TodoPending(p) ==
    p \notin Commands /\ ps[p].at \in {"reconcile"} \cup Holding =>
        \A i \in ps[p].todo : i \in Rows(p) /\ Pending(ps[p].read[i])

Proc(p) ==
    /\ AtWork(p) /\ Held(p)
    /\ ReadFromFiles(p) /\ ReadInOrder(p) /\ LeftIsNewer(p) /\ ReadComplete(p)
    /\ OwnFirst(p) /\ Revision(p) /\ TodoPending(p)

LogInv ==
    /\ LogTypes /\ Numbered /\ NamesInOrder /\ EntriesTrue /\ FullWhenRotated /\ PendingFirst
    /\ \A p \in Procs : Proc(p)

-----------------------------------------------------------------------------
(* A file that is opened afresh is empty and the newest. *)
WithNew(f, f2) ==
    /\ f2 \in Seq(Seq(LogEntry)) /\ Len(f2) = Len(f) + 1
    /\ \A g \in 1..Len(f) : f2[g] = f[g]
    /\ \A g, j : Has(f2, g, j) <=> Has(f, g, j)
    /\ \A g, j : Has(f, g, j) => f2[g][j] = f[g][j]

LEMMA FileOpened ==
    ASSUME NEW f \in Seq(Seq(LogEntry))
    PROVE  WithNew(f, Append(f, << >>))
<1> DEFINE f2 == Append(f, << >>)
<1>1. f2 \in Seq(Seq(LogEntry)) /\ Len(f2) = Len(f) + 1
  OBVIOUS
<1>2. \A g \in 1..Len(f) : f2[g] = f[g]
  OBVIOUS
<1>3. f2[Len(f) + 1] = << >>
  OBVIOUS
<1>4. \A g, j : Has(f2, g, j) <=> Has(f, g, j)
  <2>1. Len(f) \in Nat /\ Len(<< >>) = 0
    OBVIOUS
  <2>2. \A g : g \in 1..(Len(f) + 1) <=> g \in 1..Len(f) \/ g = Len(f) + 1
    BY <2>1
  <2>3. \A j : j \notin 1..0
    OBVIOUS
  <2>4. Len(f) + 1 \notin 1..Len(f)
    BY <2>1
  <2> HIDE DEF f2
  <2> QED
    BY <1>1, <1>2, <1>3, <2>1, <2>2, <2>3, <2>4, Zenon DEF Has
<1> HIDE DEF f2
<1>5. \A g, j : Has(f, g, j) => f2[g][j] = f[g][j]
  BY <1>2 DEF Has
<1>6. WithNew(f, f2)
  BY <1>1, <1>2, <1>4, <1>5 DEF WithNew
<1> QED
  BY <1>6 DEF f2

(* An entry goes to the end of the file it is written to. *)
WithEntry(f, f2, h, n, e) ==
    /\ f2 \in Seq(Seq(LogEntry)) /\ Len(f2) = Len(f) /\ n \in Nat
    /\ \A g \in 1..Len(f) : Len(f2[g]) >= Len(f[g]) /\ Len(f2[g]) \in Nat
    /\ \A g, j : Has(f2, g, j) <=> Has(f, g, j) \/ (g = h /\ j = n)
    /\ \A g, j : Has(f, g, j) => f2[g][j] = f[g][j] /\ (g = h => j < n)
    /\ f2[h][n] = e

LEMMA EntryWritten ==
    ASSUME NEW f \in Seq(Seq(LogEntry)), NEW h \in 1..Len(f), NEW e \in LogEntry
    PROVE  WithEntry(f, [f EXCEPT ![h] = Append(f[h], e)], h, Len(f[h]) + 1, e)
<1> DEFINE f2 == [f EXCEPT ![h] = Append(f[h], e)]
<1>1. f[h] \in Seq(LogEntry) /\ Append(f[h], e) \in Seq(LogEntry)
  OBVIOUS
<1>2. f2 \in Seq(Seq(LogEntry)) /\ Len(f2) = Len(f)
  BY <1>1
<1>3. \A g \in 1..Len(f) : g # h => f2[g] = f[g]
  OBVIOUS
<1>4. f2[h] = Append(f[h], e)
  OBVIOUS
<1>5. /\ Len(f[h]) \in Nat /\ Len(f2[h]) = Len(f[h]) + 1 /\ f2[h][Len(f[h]) + 1] = e
      /\ \A j \in 1..Len(f[h]) : f2[h][j] = f[h][j]
  BY <1>1, <1>4
<1> HIDE DEF f2
<1>6. \A g \in 1..Len(f) : Len(f2[g]) >= Len(f[g]) /\ Len(f2[g]) \in Nat
  <2> SUFFICES ASSUME NEW g \in 1..Len(f)
               PROVE  Len(f2[g]) >= Len(f[g]) /\ Len(f2[g]) \in Nat
    OBVIOUS
  <2>1. Len(f[g]) \in Nat
    OBVIOUS
  <2>2. CASE g = h
    BY <1>5, <2>2
  <2>3. CASE g # h
    BY <1>3, <2>1, <2>3
  <2> QED
    BY <2>2, <2>3
<1>7. \A g, j : Has(f2, g, j) <=> Has(f, g, j) \/ (g = h /\ j = Len(f[h]) + 1)
  <2>1. \A j : j \in 1..(Len(f[h]) + 1) <=> j \in 1..Len(f[h]) \/ j = Len(f[h]) + 1
    BY <1>5
  <2> QED
    BY <1>2, <1>3, <1>5, <2>1, Zenon DEF Has
<1>8. \A g, j : Has(f, g, j) => f2[g][j] = f[g][j] /\ (g = h => j < Len(f[h]) + 1)
  <2> SUFFICES ASSUME NEW g \in 1..Len(f), NEW j \in 1..Len(f[g])
               PROVE  f2[g][j] = f[g][j] /\ (g = h => j < Len(f[h]) + 1)
    BY DEF Has
  <2>1. CASE g = h
    BY <1>5, <2>1
  <2>2. CASE g # h
    BY <1>3, <2>2
  <2> QED
    BY <2>1, <2>2
<1>9. WithEntry(f, f2, h, Len(f[h]) + 1, e)
  BY <1>2, <1>5, <1>6, <1>7, <1>8 DEF WithEntry
<1> QED
  BY <1>9 DEF f2

(* Entries of the files are entries. *)
LEMMA HasEntry ==
    ASSUME NEW A, NEW f \in Seq(Seq(A)), NEW g, NEW j, Has(f, g, j)
    PROVE  g \in Nat /\ j \in Nat /\ f[g][j] \in A /\ g \in 1..Len(f)
<1>1. f[g] \in Seq(A)
  BY DEF Has
<1> QED
  BY <1>1 DEF Has

(* A name before one that is read is a name. *)
LEMMA NameRange ==
    ASSUME NEW r \in Names, NEW i \in 0..(MaxRotated - r)
    PROVE  i \in Names
  BY LogAssumption DEF Names

(* What earlier commands left are entries without a transaction. *)
LEMMA OldFacts ==
    ASSUME NEW n \in Nat
    PROVE  /\ [Old EXCEPT !.id = n] \in LogEntry
           /\ [Old EXCEPT !.id = n].id = n
           /\ ~[Old EXCEPT !.id = n].hash
<1> DEFINE old == [Old EXCEPT !.id = n]
<1>1. /\ old.id = n /\ old.tx = "none" /\ old.hash = FALSE /\ old.status = "success"
      /\ old.err = FALSE
  BY DEF Old
<1>2. old \in [id : Nat, tx : Commands \cup {"none"}, hash : BOOLEAN, status : Statuses, err : BOOLEAN]
  BY Zenon DEF Old, Statuses
<1> HIDE DEF old
<1>3. old \in LogEntry
  BY <1>1, <1>2 DEF LogEntry
<1> USE DEF old
<1> QED
  BY <1>1, <1>3

(* The initial file holds entries of earlier commands. *)
LEMMA InitLogInv == ASSUME LogInit PROVE LogInv
<1> USE LogAssumption
<1>1. LogTypes
  <2>1. ps \in [Procs -> Process]
    BY DEF LogInit, Idle, NoFile, Procs, Process, LogEntry
  <2>2. files \in Seq(Seq(LogEntry))
    <3>1. CASE files = << >>
      BY <3>1
    <3>2. ASSUME NEW n \in 0..MaxSize, files = <<[i \in 1..n |-> [Old EXCEPT !.id = i]]>>
          PROVE  files \in Seq(Seq(LogEntry))
      <4>1. [i \in 1..n |-> [Old EXCEPT !.id = i]] \in Seq(LogEntry)
        <5>1. \A i \in 1..n : [Old EXCEPT !.id = i] \in LogEntry
          BY OldFacts
        <5> QED
          BY <5>1
      <4> QED
        BY <3>2, <4>1
    <3> QED
      BY <3>1, <3>2 DEF LogInit
  <2>3. dir \in [Names -> Nat]
    BY DEF LogInit, NoFile, Names
  <2> QED
    BY <2>1, <2>2, <2>3 DEF LogInit, LogTypes, Fates
<1>2. \A p \in Procs : ps[p] = Idle("start")
  BY DEF LogInit, Procs
<1>3. \A p \in Procs : ps[p].at = "start" /\ ps[p].reading = 0 /\ ps[p].read = << >>
  BY <1>2 DEF Idle
<1>4. \A g, i : Has(files, g, i) => /\ g = 1 /\ i \in 1..MaxSize /\ i < next
                                    /\ files[g][i] = [Old EXCEPT !.id = i]
  <2>1. CASE files = << >>
    BY <2>1 DEF Has
  <2>2. ASSUME NEW n \in 0..MaxSize, files = <<[i \in 1..n |-> [Old EXCEPT !.id = i]]>>,
               NEW g, NEW i, Has(files, g, i)
        PROVE  g = 1 /\ i \in 1..MaxSize /\ files[g][i] = [Old EXCEPT !.id = i]
    <3> DEFINE s == [k \in 1..n |-> [Old EXCEPT !.id = k]]
    <3>1. Len(files) = 1 /\ files[1] = s
      BY <2>2
    <3>2. Len(s) = n
      OBVIOUS
    <3>3. g = 1 /\ i \in 1..n
      <4> HIDE DEF s
      <4> QED
        BY <2>2, <3>1, <3>2 DEF Has
    <3> QED
      BY <3>1, <3>3
  <2>3. \A i \in 1..MaxSize : i < next
    BY DEF LogInit
  <2> QED
    BY <2>1, <2>2, <2>3 DEF LogInit
<1>5. \A g, i : Has(files, g, i) => files[g][i].id = i /\ ~files[g][i].hash
  <2> SUFFICES ASSUME NEW g, NEW i, Has(files, g, i)
               PROVE  files[g][i].id = i /\ ~files[g][i].hash
    OBVIOUS
  <2>1. i \in Nat /\ files[g][i] = [Old EXCEPT !.id = i]
    BY <1>4
  <2> QED
    BY <2>1, OldFacts, Zenon
<1>6. Numbered
  <2>1. ASSUME NEW g, NEW h, NEW i, NEW j, Has(files, g, i), Has(files, h, j),
                 files[g][i].id = files[h][j].id
          PROVE  g = h /\ i = j
    <3>1. g = 1 /\ h = 1
      BY <1>4, <2>1, Zenon
    <3>2. files[g][i].id = i /\ files[h][j].id = j
      BY <1>5, <2>1, Zenon
    <3> QED
      BY <2>1, <3>1, <3>2
  <2>2. ASSUME NEW g, NEW i, Has(files, g, i) PROVE files[g][i].id < next
    <3>1. files[g][i].id = i /\ i < next
      BY <1>4, <1>5, <2>2, Zenon
    <3> QED
      BY <3>1
  <2> QED
      BY <1>3, <2>1, <2>2, Zenon DEF Numbered, Holding
<1>7. NamesInOrder
  <2>1. CASE files = << >> /\ dir = [i \in 0..MaxRotated |-> 0]
    BY <2>1 DEF NamesInOrder, Names
  <2>2. CASE Len(files) = 1 /\ dir = [i \in 0..MaxRotated |-> IF i = 0 THEN 1 ELSE 0]
    BY <2>2 DEF NamesInOrder, Names
  <2> QED
    BY <2>1, <2>2 DEF LogInit, NoFile
<1>8. EntriesTrue /\ PendingFirst
  BY <1>5 DEF EntriesTrue, True, PendingFirst, SameTx
<1>9. FullWhenRotated
  BY DEF FullWhenRotated, LogInit, NoFile
<1>10. ASSUME NEW p \in Procs PROVE Proc(p)
  <2>1. ps[p].at = "start" /\ ps[p].reading = 0 /\ ps[p].read = << >>
    BY <1>3
  <2>2. AtWork(p) /\ Held(p) /\ ReadFromFiles(p) /\ ReadInOrder(p) /\ LeftIsNewer(p)
    BY <2>1 DEF AtWork, Held, ReadFromFiles, ReadInOrder, InOrder, LeftIsNewer, Holding
  <2>3. ReadComplete(p) /\ Revision(p) /\ TodoPending(p)
    BY <2>1 DEF ReadComplete, Revision, TodoPending, Holding
  <2>4. OwnFirst(p)
    BY <1>5, <2>1 DEF OwnFirst, Holding, LogInit
  <2> QED
    BY <2>2, <2>3, <2>4 DEF Proc
<1> QED
  BY <1>1, <1>6, <1>7, <1>8, <1>9, <1>10 DEF LogInv

(* What settled entries say stays true, and a transaction that its command *)
(* has not chain stays so.                                                  *)
ChainGoesOn ==
    /\ chain' \in [Commands -> Fates]
    /\ \A e \in LogEntry : True(e) => True(e)'

(* A process that rests while another one or the network takes a step that *)
(* leaves the files as they are.                                           *)
LEMMA OtherRests ==
    ASSUME LogInv, UNCHANGED <<files, dir, raced>>, next' \in Nat, next' >= next, ChainGoesOn,
           NEW q \in Procs, ps'[q] = ps[q],
           q \in Commands /\ chain[q] = "unsent" => chain'[q] = "unsent"
    PROVE  Proc(q)'
<1>1. Proc(q)
  BY DEF LogInv
<1>2. AtWork(q)'
  BY <1>1 DEF Proc, AtWork
<1>3. Held(q)'
  <2>1. ASSUME ps[q].at \in Holding
        PROVE  ps[q].entry \in LogEntry /\ ps[q].entry.id \in Nat /\ ps[q].entry.id < next
    BY <1>1, <2>1 DEF Proc, AtWork, Held, LogEntry
  <2>2. ASSUME ps[q].at \in Holding PROVE True(ps[q].entry)'
    <3>1. \A e \in LogEntry : True(e) => True(e)'
      BY DEF ChainGoesOn
    <3>2. ps[q].entry \in LogEntry /\ True(ps[q].entry)
      BY <1>1, <2>1, <2>2 DEF Proc, Held
    <3> QED
      BY <3>1, <3>2 DEF True
  <2> QED
    BY <1>1, <2>1, <2>2 DEF Proc, Held, LogInv, LogTypes
<1>4. ReadFromFiles(q)' /\ ReadInOrder(q)' /\ LeftIsNewer(q)'
  BY <1>1 DEF Proc, ReadFromFiles, ReadInOrder, InOrder, LeftIsNewer
<1>5. ReadComplete(q)'
  BY <1>1 DEF Proc, ReadComplete, InRead, InLeft
<1>6. OwnFirst(q)' /\ Revision(q)'
  BY <1>1 DEF Proc, OwnFirst, Revision
<1>7. TodoPending(q)'
  BY <1>1 DEF Proc, TodoPending, Rows
<1> QED
  BY <1>2, <1>3, <1>4, <1>5, <1>6, <1>7 DEF Proc

(* What a process has read stays what it has read. *)
LEMMA ReadsSame ==
    ASSUME NEW p \in Procs, Proc(p), UNCHANGED files, ps'[p].read = ps[p].read
    PROVE  ReadFromFiles(p)' /\ ReadInOrder(p)'
<1>1. ReadFromFiles(p)'
  <2>1. ReadFromFiles(p)
    BY DEF Proc
  <2> QED
    BY <2>1 DEF ReadFromFiles
<1>2. ReadInOrder(p)'
  <2>1. ReadInOrder(p)
    BY DEF Proc
  <2> QED
    BY <2>1 DEF ReadInOrder, InOrder
<1> QED
  BY <1>1, <1>2

LEMMA ReadKept ==
    ASSUME NEW p \in Procs, Proc(p), UNCHANGED files, ps'[p].read = ps[p].read,
           ps'[p].at \notin {"read", "shown"}
    PROVE  ReadFromFiles(p)' /\ ReadInOrder(p)' /\ LeftIsNewer(p)' /\ ReadComplete(p)'
<1>1. ReadFromFiles(p)' /\ ReadInOrder(p)'
  BY ReadsSame
<1>3. LeftIsNewer(p)' /\ ReadComplete(p)'
  BY DEF LeftIsNewer, ReadComplete
<1> QED
  BY <1>1, <1>3

(* A process that is set is set to a process. *)
LEMMA SetFacts ==
    ASSUME NEW p \in Procs, ps \in [Procs -> Process], NEW r \in Process,
           ps' = [ps EXCEPT ![p] = r]
    PROVE  /\ ps' \in [Procs -> Process] /\ ps'[p] = r
           /\ \A q \in Procs : q # p => ps'[q] = ps[q]
  OBVIOUS

LEMMA FilesRest ==
    ASSUME LogInv, UNCHANGED <<files, dir, raced>>, next' \in Nat, next' >= next, ChainGoesOn,
           \A p, q \in Procs :
              /\ ps'[p].at \in Holding /\ ps'[q].at \in Holding
              /\ ps'[p].entry.id = ps'[q].entry.id
              => p = q
    PROVE  Numbered' /\ NamesInOrder' /\ EntriesTrue' /\ FullWhenRotated' /\ PendingFirst'
<1>1. ASSUME NEW g, NEW i, Has(files, g, i)
      PROVE  files[g][i] \in LogEntry /\ files[g][i].id < next'
  <2>1. files[g][i] \in LogEntry
    BY <1>1, HasEntry DEF LogInv, LogTypes
  <2>2. files[g][i].id \in Nat /\ files[g][i].id < next /\ next \in Nat
    BY <1>1, <2>1 DEF LogInv, LogTypes, Numbered, LogEntry
  <2> QED
    BY <2>1, <2>2
<1>2. Numbered'
  BY <1>1 DEF LogInv, Numbered
<1>3. EntriesTrue'
  <2> SUFFICES ASSUME NEW g, NEW i, Has(files, g, i) PROVE True(files[g][i])'
    BY DEF EntriesTrue
  <2>1. files[g][i] \in LogEntry /\ True(files[g][i])
    BY <1>1 DEF LogInv, EntriesTrue
  <2> QED
    BY <2>1 DEF ChainGoesOn, True
<1> QED
  BY <1>2, <1>3 DEF LogInv, NamesInOrder, FullWhenRotated, PendingFirst

(* A step of one process that leaves the files as they are. *)
LEMMA LocalChainStep ==
    ASSUME LogInv, UNCHANGED <<files, dir, raced>>, next' \in Nat, next' >= next, ChainGoesOn,
           NEW p \in Procs, ps' \in [Procs -> Process],
           \A q \in Procs : q # p => ps'[q] = ps[q],
           \A c \in Commands : c # p /\ chain[c] = "unsent" => chain'[c] = "unsent",
           Proc(p)',
           \A q \in Procs : q # p /\ ps'[p].at \in Holding /\ ps'[q].at \in Holding
                                 => ps'[p].entry.id # ps'[q].entry.id
    PROVE  LogInv'
<1>1. LogTypes'
  BY DEF LogInv, LogTypes, ChainGoesOn
<1>2. ASSUME NEW q \in Procs, q # p PROVE Proc(q)'
  <2>1. ps'[q] = ps[q] /\ (q \in Commands /\ chain[q] = "unsent" => chain'[q] = "unsent")
    BY <1>2
  <2> QED
    BY <2>1, OtherRests
<1>3. \A q, r \in Procs :
        /\ ps'[q].at \in Holding /\ ps'[r].at \in Holding /\ ps'[q].entry.id = ps'[r].entry.id
        => q = r
  BY DEF LogInv, Numbered
<1> QED
  BY <1>1, <1>2, <1>3, FilesRest DEF LogInv

LEMMA LocalStep ==
    ASSUME LogInv, UNCHANGED <<files, dir, chain, raced>>, next' \in Nat, next' >= next,
           NEW p \in Procs, ps' \in [Procs -> Process],
           \A q \in Procs : q # p => ps'[q] = ps[q],
           Proc(p)',
           \A q \in Procs : q # p /\ ps'[p].at \in Holding /\ ps'[q].at \in Holding
                                 => ps'[p].entry.id # ps'[q].entry.id
    PROVE  LogInv'
<1>1. ChainGoesOn
  BY DEF ChainGoesOn, LogInv, LogTypes, True
<1>2. \A c \in Commands : c # p /\ chain[c] = "unsent" => chain'[c] = "unsent"
  OBVIOUS
<1> QED
  BY <1>1, <1>2, LocalChainStep

(* A process that ends. *)
LEMMA IdleFacts ==
    /\ Idle("end") \in Process
    /\ Idle("end").at = "end" /\ Idle("end").read = << >>
  BY DEF Idle, NoFile, Process

LEMMA Ended ==
    ASSUME NEW p \in Procs, ps'[p] = Idle("end")
    PROVE  Proc(p)'
<1>1. ps'[p].at = "end" /\ ps'[p].read = << >>
  BY IdleFacts
<1>2. AtWork(p)' /\ Held(p)' /\ ReadFromFiles(p)' /\ ReadInOrder(p)' /\ LeftIsNewer(p)'
  BY <1>1 DEF AtWork, Held, ReadFromFiles, ReadInOrder, InOrder, LeftIsNewer, Holding
<1>3. ReadComplete(p)' /\ OwnFirst(p)' /\ Revision(p)' /\ TodoPending(p)'
  BY <1>1 DEF ReadComplete, OwnFirst, Revision, TodoPending, Holding
<1> QED
  BY <1>2, <1>3 DEF Proc

LEMMA EndLogInv ==
    ASSUME LogInv, NEW p \in Procs, UNCHANGED <<files, dir, chain, next, raced>>,
           ps' = [ps EXCEPT ![p] = Idle("end")]
    PROVE  LogInv'
<1>1. ps \in [Procs -> Process] /\ next \in Nat
  BY DEF LogInv, LogTypes
<1>2. ps' \in [Procs -> Process] /\ ps'[p] = Idle("end")
  BY <1>1, IdleFacts
<1>3. ps'[p].at \notin Holding
  BY <1>2, IdleFacts DEF Holding
<1>4. \A q \in Procs : q # p => ps'[q] = ps[q]
  BY <1>1
<1>5. Proc(p)'
  BY <1>2, Ended
<1> QED
  BY <1>1, <1>2, <1>3, <1>4, <1>5, LocalStep

(* The file is full, and is to be rotated, or it is the current one unless *)
(* a rotation was raced.                                                   *)
LEMMA maybeRotateLogInv ==
    ASSUME LogInv, NEW p \in Procs, maybeRotate(p)
    PROVE  LogInv'
<1> USE LogAssumption
<1>1. /\ ps \in [Procs -> Process] /\ next \in Nat /\ files \in Seq(Seq(LogEntry))
      /\ Proc(p) /\ ps[p].at = "stat"
      /\ UNCHANGED <<files, dir, chain, next, raced>>
  BY DEF LogInv, LogTypes, maybeRotate
<1>2. ps[p].handle \in 1..Len(files)
  BY <1>1 DEF Proc, AtWork
<1>3. /\ ps' \in [Procs -> Process] /\ ps'[p].at \in {"write", "rename"}
      /\ ps'[p].handle = ps[p].handle /\ ps'[p].entry = ps[p].entry
      /\ ps'[p].read = ps[p].read /\ ps'[p].todo = ps[p].todo
      /\ \A q \in Procs : q # p => ps'[q] = ps[q]
      /\ ps'[p].at = "write" => Len(files[ps[p].handle]) < MaxSize
      /\ ps'[p].at = "rename" => /\ ps'[p].rot + 1 = MaxRotated
                                 /\ Len(files[ps[p].handle]) >= MaxSize
  <2> DEFINE r == MaxRotated - 1
             l == Len(files[ps[p].handle])
  <2>1. r \in Nat /\ r + 1 = MaxRotated /\ l \in Nat
    BY <1>1, <1>2
  <2>2. \/ l < MaxSize /\ ps' = [ps EXCEPT ![p] = [ps[p] EXCEPT !.at = "write"]]
        \/ l >= MaxSize /\ ps' = [ps EXCEPT ![p] = [ps[p] EXCEPT !.at = "rename", !.rot = r]]
    BY <2>1 DEF maybeRotate, Set
  <2> HIDE DEF r, l
  <2>3. CASE l < MaxSize /\ ps' = [ps EXCEPT ![p] = [ps[p] EXCEPT !.at = "write"]]
    <3> DEFINE s == [ps[p] EXCEPT !.at = "write"]
    <3>1. /\ s \in Process /\ s.at = "write" /\ s.handle = ps[p].handle
          /\ s.entry = ps[p].entry /\ s.read = ps[p].read /\ s.todo = ps[p].todo
      BY <1>1, Zenon DEF Process, Holding
    <3> HIDE DEF s
    <3>2. ps' = [ps EXCEPT ![p] = s]
      BY <2>3 DEF s
    <3>3. ps' \in [Procs -> Process] /\ ps'[p] = s /\ \A q \in Procs : q # p => ps'[q] = ps[q]
      BY <1>1, <3>1, <3>2, SetFacts
    <3> QED
      BY <2>3, <3>1, <3>3 DEF l
  <2>4. CASE l >= MaxSize /\ ps' = [ps EXCEPT ![p] = [ps[p] EXCEPT !.at = "rename", !.rot = r]]
    <3> DEFINE s == [ps[p] EXCEPT !.at = "rename", !.rot = r]
    <3>1. /\ s \in Process /\ s.at = "rename" /\ s.rot = r /\ s.handle = ps[p].handle
          /\ s.entry = ps[p].entry /\ s.read = ps[p].read /\ s.todo = ps[p].todo
      BY <1>1, <2>1, Zenon DEF Process, Holding
    <3> HIDE DEF s
    <3>2. ps' = [ps EXCEPT ![p] = s]
      BY <2>4 DEF s
    <3>3. ps' \in [Procs -> Process] /\ ps'[p] = s /\ \A q \in Procs : q # p => ps'[q] = ps[q]
      BY <1>1, <3>1, <3>2, SetFacts
    <3> QED
      BY <2>1, <2>4, <3>1, <3>3 DEF l
  <2> QED
    BY <2>2, <2>3, <2>4
<1>4. AtWork(p)'
  BY <1>1, <1>2, <1>3 DEF Proc, AtWork, Names, Holding
<1>5. Held(p)'
  BY <1>1, <1>3 DEF Proc, Held, Holding, True
<1>6. ReadFromFiles(p)' /\ ReadInOrder(p)' /\ LeftIsNewer(p)' /\ ReadComplete(p)'
  BY <1>1, <1>3, ReadKept, Zenon
<1>7. OwnFirst(p)'
  BY <1>1, <1>3 DEF Proc, OwnFirst, Holding
<1>8. Revision(p)'
  <2>1. ASSUME ps'[p].at = "write", raced = {} PROVE ps[p].handle = Len(files)
    <3>1. Len(files[ps[p].handle]) < MaxSize
      BY <1>3, <2>1
    <3>2. Len(files[ps[p].handle]) \in Nat
      BY <1>1, <1>2
    <3>3. ps[p].handle = dir[0]
      BY <1>2, <2>1, <3>1, <3>2 DEF LogInv, FullWhenRotated
    <3> QED
      BY <1>2, <3>3 DEF LogInv, NamesInOrder
  <2>2. \A g, i : Has(files, g, i) => g <= Len(files)
    BY <1>1 DEF Has
  <2> QED
    BY <1>1, <1>3, <2>1, <2>2 DEF Proc, Revision, Holding
<1>9. TodoPending(p)'
  BY <1>1, <1>3 DEF Proc, TodoPending, Holding, Rows
<1>10. Proc(p)'
  BY <1>4, <1>5, <1>6, <1>7, <1>8, <1>9 DEF Proc
<1>11. \A q \in Procs : q # p /\ ps'[p].at \in Holding /\ ps'[q].at \in Holding
                             => ps'[p].entry.id # ps'[q].entry.id
  BY <1>1, <1>3 DEF LogInv, Numbered, Holding
<1>12. next' \in Nat /\ next' >= next
  BY <1>1
<1> QED
  BY <1>1, <1>3, <1>10, <1>11, <1>12, LocalStep, Zenon

(* The rows are the latest entries of their transactions. *)
LEMMA RowFacts ==
    ASSUME NEW p \in Procs, ps[p].read \in Seq(LogEntry), NEW i \in Rows(p)
    PROVE  /\ i \in 1..Len(ps[p].read) /\ i \in Nat
           /\ \A b \in 1..Len(ps[p].read) :
                 SameTx(ps[p].read[i], ps[p].read[b]) => i >= b
<1>1. i \in 1..Len(ps[p].read)
  BY DEF Rows, collapseTransactionRevisions
<1> QED
  BY <1>1 DEF Rows, collapseTransactionRevisions, Revisions

(* The rows that are pending are to be looked up. *)
LEMMA ShowLogInv ==
    ASSUME LogInv, NEW p \in Procs, Show(p)
    PROVE  LogInv'
<1> DEFINE pend == {i \in Rows(p) : Pending(ps[p].read[i])}
<1>1. /\ ps \in [Procs -> Process] /\ next \in Nat /\ files \in Seq(Seq(LogEntry))
      /\ Proc(p) /\ ps[p].at = "shown"
      /\ UNCHANGED <<files, dir, chain, next, raced>>
  BY DEF LogInv, LogTypes, Show
<1>2. ps[p].read \in Seq(LogEntry)
  BY <1>1 DEF Process
<1>3. pend \in SUBSET Nat
  BY <1>2, RowFacts
<1>4. ps' = [ps EXCEPT ![p] = [ps[p] EXCEPT !.at = "reconcile", !.todo = pend]]
  BY DEF Show, Set
<1> HIDE DEF pend
<1>5. /\ ps' \in [Procs -> Process] /\ ps'[p].at = "reconcile"
      /\ ps'[p].handle = ps[p].handle /\ ps'[p].read = ps[p].read /\ ps'[p].todo = pend
      /\ \A q \in Procs : q # p => ps'[q] = ps[q]
  <2> DEFINE s == [ps[p] EXCEPT !.at = "reconcile", !.todo = pend]
  <2>1. /\ s \in Process /\ s.at = "reconcile" /\ s.handle = ps[p].handle
        /\ s.read = ps[p].read /\ s.todo = pend
    BY <1>1, <1>3, Zenon DEF Process
  <2> HIDE DEF s
  <2>2. ps' = [ps EXCEPT ![p] = s]
    BY <1>4 DEF s
  <2>3. ps' \in [Procs -> Process] /\ ps'[p] = s /\ \A q \in Procs : q # p => ps'[q] = ps[q]
    BY <1>1, <2>1, <2>2, SetFacts
  <2> QED
    BY <2>1, <2>3
<1>6. AtWork(p)' /\ Held(p)' /\ OwnFirst(p)' /\ Revision(p)'
  BY <1>1, <1>5, Zenon DEF Proc, AtWork, Held, OwnFirst, Revision, Holding
<1>7. ReadFromFiles(p)' /\ ReadInOrder(p)' /\ LeftIsNewer(p)' /\ ReadComplete(p)'
  BY <1>1, <1>5, ReadKept
<1>8. TodoPending(p)'
  BY <1>5 DEF TodoPending, Rows, pend
<1>9. Proc(p)'
  BY <1>6, <1>7, <1>8 DEF Proc
<1>10. ps'[p].at \notin Holding /\ next' \in Nat /\ next' >= next
  BY <1>1, <1>5 DEF Holding
<1> QED
  BY <1>1, <1>5, <1>9, <1>10, LocalStep

LEMMA ReadAgainLogInv ==
    ASSUME LogInv, NEW p \in Procs, ReadAgain(p)
    PROVE  LogInv'
<1> USE LogAssumption
<1>1. CASE ~ps[p].again
  BY <1>1, EndLogInv, Zenon DEF ReadAgain, Set
<1>2. CASE ps[p].again
  <2>1. /\ ps \in [Procs -> Process] /\ next \in Nat /\ Proc(p) /\ ps[p].at = "reconcile"
        /\ UNCHANGED <<files, dir, chain, next, raced>>
        /\ ps' = [ps EXCEPT ![p] = [ps[p] EXCEPT !.at = "read", !.reading = 0, !.read = << >>]]
    BY <1>2 DEF LogInv, LogTypes, ReadAgain, Set
  <2>2. /\ ps' \in [Procs -> Process] /\ ps'[p].at = "read" /\ ps'[p].reading = 0
        /\ ps'[p].handle = ps[p].handle /\ ps'[p].read = << >>
        /\ \A q \in Procs : q # p => ps'[q] = ps[q]
    <3> DEFINE r == [ps[p] EXCEPT !.at = "read", !.reading = 0, !.read = << >>]
    <3>1. << >> \in Seq(LogEntry)
      OBVIOUS
    <3>2. /\ r \in Process /\ r.at = "read" /\ r.reading = 0 /\ r.handle = ps[p].handle
          /\ r.read = << >>
      BY <2>1, <3>1, Zenon DEF Process
    <3> HIDE DEF r
    <3>3. ps' = [ps EXCEPT ![p] = r]
      BY <2>1 DEF r
    <3> QED
      BY <2>1, <3>2, <3>3
  <2>3. AtWork(p)' /\ Held(p)' /\ OwnFirst(p)' /\ Revision(p)' /\ TodoPending(p)'
    BY <2>1, <2>2 DEF Proc, AtWork, Held, OwnFirst, Revision, TodoPending, Holding, Names
  <2>4. ReadFromFiles(p)' /\ ReadInOrder(p)' /\ LeftIsNewer(p)' /\ ReadComplete(p)'
    BY <2>2 DEF ReadFromFiles, ReadInOrder, InOrder, LeftIsNewer, ReadComplete
  <2>5. Proc(p)'
    BY <2>3, <2>4 DEF Proc
  <2>6. ps'[p].at \notin Holding /\ next' \in Nat /\ next' >= next
    BY <2>1, <2>2 DEF Holding
  <2> QED
    BY <2>1, <2>2, <2>5, <2>6, LocalStep
<1> QED
  BY <1>1, <1>2

(* A pending row is looked up: what the chain says of it is to be written. *)
LEMMA reconcileLogInv ==
    ASSUME LogInv, NEW p \in Procs, reconcilePendingTransactions(p)
    PROVE  LogInv'
<1>1. /\ ps \in [Procs -> Process] /\ next \in Nat /\ files \in Seq(Seq(LogEntry))
      /\ Proc(p) /\ ps[p].at = "reconcile"
      /\ UNCHANGED <<files, dir, chain, raced>>
  BY DEF LogInv, LogTypes, reconcilePendingTransactions
<1>2. ps[p].read \in Seq(LogEntry) /\ ps[p].todo \in SUBSET Nat /\ ps[p] \in Process
  BY <1>1 DEF Process
<1>3. p \notin Commands /\ ps[p].handle \in 1..Len(files)
  BY <1>1 DEF Proc, AtWork
<1>4. \A i \in ps[p].todo : i \in Rows(p) /\ Pending(ps[p].read[i])
  BY <1>1, <1>3 DEF Proc, TodoPending
<1>5. PICK m \in ps[p].todo :
        LET tx == ps[p].read[m].tx
            rest == [ps[p] EXCEPT !.todo = @ \ {m}]
        IN  \/ Set(p, rest) /\ UNCHANGED next
            \/ /\ chain[tx] \in {"included", "reverted"}
               /\ Log(p, Entry(tx, TRUE, IF chain[tx] = "included" THEN "success" ELSE "failed", FALSE),
                      [rest EXCEPT !.again = TRUE])
  BY Zenon DEF reconcilePendingTransactions
<1> DEFINE tx == ps[p].read[m].tx
           rest == [ps[p] EXCEPT !.todo = @ \ {m}]
           e == Entry(tx, TRUE, IF chain[tx] = "included" THEN "success" ELSE "failed", FALSE)
           s == [[rest EXCEPT !.again = TRUE] EXCEPT !.at = "stat", !.entry = e]
<1>7. m \in 1..Len(ps[p].read)
  BY <1>2, <1>4, RowFacts
<1>8. ps[p].read[m] \in LogEntry /\ ps[p].read[m].hash /\ ps[p].read[m].tx = tx /\ ~ps[p].read[m].err
  <2>1. ps[p].read[m] \in LogEntry /\ Pending(ps[p].read[m])
    BY <1>2, <1>4, <1>7
  <2> QED
    BY <2>1 DEF Pending, LogEntry
<1>9. tx \in Commands
  BY <1>8 DEF LogEntry
<1>10. \E g, i : Has(files, g, i) /\ files[g][i].hash /\ files[g][i].tx = tx /\ ~files[g][i].err
  <2>1. ReadFromFiles(p)
    BY <1>1 DEF Proc
  <2>2. PICK g, i : Has(files, g, i) /\ files[g][i] = ps[p].read[m]
    BY <1>7, <2>1 DEF ReadFromFiles
  <2> QED
    BY <1>8, <2>2
<1>11. \/ next' = next /\ ps' = [ps EXCEPT ![p] = rest]
       \/ /\ chain[tx] \in {"included", "reverted"} /\ next' = next + 1
          /\ ps' = [ps EXCEPT ![p] = s]
  BY <1>5 DEF Set, Log
<1> DEFINE left == ps[p].todo \ {m}
<1>12. left \in SUBSET Nat /\ left \subseteq ps[p].todo
  BY <1>2
<1>13. CASE next' = next /\ ps' = [ps EXCEPT ![p] = rest]
  <2>1. rest = [ps[p] EXCEPT !.todo = left]
    OBVIOUS
  <2> HIDE DEF tx, rest, left
  <2>2. /\ ps' \in [Procs -> Process] /\ ps'[p].at = "reconcile"
        /\ ps'[p].handle = ps[p].handle /\ ps'[p].read = ps[p].read /\ ps'[p].todo = left
        /\ \A q \in Procs : q # p => ps'[q] = ps[q]
    <3>1. /\ rest \in Process /\ rest.at = "reconcile" /\ rest.handle = ps[p].handle
          /\ rest.read = ps[p].read /\ rest.todo = left
      BY <1>1, <1>2, <1>12, <2>1, Zenon DEF Process
    <3>2. ps' \in [Procs -> Process] /\ ps'[p] = rest /\ \A q \in Procs : q # p => ps'[q] = ps[q]
      BY <1>1, <1>13, <3>1, SetFacts
    <3> QED
      BY <3>1, <3>2
  <2>3. AtWork(p)' /\ Held(p)' /\ OwnFirst(p)' /\ Revision(p)'
    BY <1>1, <1>3, <2>2, Zenon DEF Proc, AtWork, Held, OwnFirst, Revision, Holding
  <2>4. ReadFromFiles(p)' /\ ReadInOrder(p)' /\ LeftIsNewer(p)' /\ ReadComplete(p)'
    BY <1>1, <2>2, ReadKept
  <2>5. TodoPending(p)'
    BY <1>4, <1>12, <2>2, Zenon DEF TodoPending, Rows
  <2>6. Proc(p)'
    BY <2>3, <2>4, <2>5 DEF Proc
  <2>7. ps'[p].at \notin Holding /\ next' \in Nat /\ next' >= next
    BY <1>1, <1>13, <2>2 DEF Holding
  <2> QED
    BY <1>1, <2>2, <2>6, <2>7, LocalStep
<1>14. CASE /\ chain[tx] \in {"included", "reverted"} /\ next' = next + 1
            /\ ps' = [ps EXCEPT ![p] = s]
  <2>1. /\ e \in LogEntry /\ e.id = next /\ e.hash /\ e.tx = tx /\ ~e.err
        /\ e.status \in {"success", "failed"} /\ True(e)
    <3>1. CASE chain[tx] = "included"
      <4>1. e = [id |-> next, tx |-> tx, hash |-> TRUE, status |-> "success", err |-> FALSE]
        BY <3>1 DEF Entry
      <4> HIDE DEF e, tx
      <4> QED
        BY <1>1, <1>9, <3>1, <4>1 DEF LogEntry, True, Statuses
    <3>2. CASE chain[tx] = "reverted"
      <4>1. e = [id |-> next, tx |-> tx, hash |-> TRUE, status |-> "failed", err |-> FALSE]
        BY <3>2 DEF Entry
      <4> HIDE DEF e, tx
      <4> QED
        BY <1>1, <1>9, <3>2, <4>1 DEF LogEntry, True, Statuses
    <3> QED
      BY <1>14, <3>1, <3>2, Zenon
  <2> HIDE DEF e
  <2>2. s = [ps[p] EXCEPT !.todo = left, !.again = TRUE, !.at = "stat", !.entry = e]
    BY <1>2, <1>12 DEF Process
  <2> HIDE DEF tx, rest, left, s
  <2>3. /\ ps' \in [Procs -> Process] /\ ps'[p].at = "stat" /\ ps'[p].entry = e
        /\ ps'[p].handle = ps[p].handle /\ ps'[p].read = ps[p].read /\ ps'[p].todo = left
        /\ \A q \in Procs : q # p => ps'[q] = ps[q]
    <3>1. /\ s \in Process /\ s.at = "stat" /\ s.entry = e
          /\ s.handle = ps[p].handle /\ s.read = ps[p].read /\ s.todo = left
      BY <1>2, <1>12, <2>1, <2>2, Zenon DEF Process, Holding
    <3> QED
      BY <1>1, <1>14, <3>1
  <2>4. next' \in Nat /\ next' >= next /\ next < next'
    BY <1>1, <1>14
  <2>5. AtWork(p)'
    BY <1>1, <1>3, <2>1, <2>3 DEF AtWork
  <2>6. Held(p)'
    <3>1. \A g, i : Has(files, g, i) => files[g][i].id # next
      <4> SUFFICES ASSUME NEW g, NEW i, Has(files, g, i) PROVE files[g][i].id # next
        OBVIOUS
      <4>1. files[g][i] \in LogEntry
        BY <1>1, HasEntry
      <4> QED
        BY <1>1, <4>1 DEF LogInv, Numbered, LogEntry
    <3> QED
      BY <1>1, <2>1, <2>3, <2>4, <3>1 DEF Held, True
  <2>7. OwnFirst(p)'
    BY <1>3 DEF OwnFirst
  <2>8. Revision(p)'
    BY <1>1, <1>10, <2>1, <2>3 DEF Revision, SameTx
  <2>9. ReadFromFiles(p)' /\ ReadInOrder(p)' /\ LeftIsNewer(p)' /\ ReadComplete(p)'
    BY <1>1, <2>3, ReadKept
  <2>10. TodoPending(p)'
    BY <1>4, <1>12, <2>3, Zenon DEF TodoPending, Rows
  <2>11. Proc(p)'
    BY <2>5, <2>6, <2>7, <2>8, <2>9, <2>10 DEF Proc
  <2>12. ASSUME NEW q \in Procs, q # p, ps'[q].at \in Holding
         PROVE  ps'[p].entry.id # ps'[q].entry.id
    <3>1. ps[q].at \in Holding /\ ps'[q] = ps[q] /\ Proc(q)
      BY <2>3, <2>12 DEF LogInv
    <3>2. ps[q].entry.id < next /\ ps[q].entry.id \in Nat
      BY <3>1 DEF Proc, AtWork, Held, LogEntry
    <3> QED
      BY <1>1, <2>1, <2>3, <3>1, <3>2
  <2> QED
    BY <1>1, <2>3, <2>4, <2>11, <2>12, LocalStep
<1> QED
  BY <1>11, <1>13, <1>14

-----------------------------------------------------------------------------
(* What becomes of a transaction that has not been settled contradicts no  *)
(* entry.                                                                  *)
LEMMA ChainStep ==
    ASSUME LogInv, NEW t \in Commands, chain[t] \in {"unsent", "mempool"},
           NEW v \in {"mempool", "rejected", "included", "reverted"},
           chain' = [chain EXCEPT ![t] = v]
    PROVE  /\ ChainGoesOn
           /\ chain'[t] = v /\ \A c \in Commands : c # t => chain'[c] = chain[c]
<1>1. chain \in [Commands -> Fates]
  BY DEF LogInv, LogTypes
<1>2. chain'[t] = v /\ \A c \in Commands : c # t => chain'[c] = chain[c]
  BY <1>1
<1>3. ASSUME NEW e \in LogEntry, True(e) PROVE True(e)'
  BY <1>2, <1>3 DEF True, LogEntry
<1> QED
  BY <1>1, <1>2, <1>3 DEF ChainGoesOn, Fates

LEMMA BlockLogInv ==
    ASSUME LogInv, Block
    PROVE  LogInv'
<1>1. PICK t \in Commands, v \in {"included", "reverted"} :
        chain[t] = "mempool" /\ chain' = [chain EXCEPT ![t] = v]
  BY Zenon DEF Block
<1>2. UNCHANGED <<files, dir, ps, next, raced>> /\ next' \in Nat /\ next' >= next
  BY DEF Block, LogInv, LogTypes
<1>3. ChainGoesOn /\ \A c \in Commands : c # t => chain'[c] = chain[c]
  BY <1>1, ChainStep, Zenon
<1>4. ASSUME NEW q \in Procs PROVE Proc(q)'
  <2>1. q \in Commands /\ chain[q] = "unsent" => chain'[q] = "unsent"
    BY <1>1, <1>3
  <2> QED
    BY <1>2, <1>3, <2>1, OtherRests
<1>5. \A q, r \in Procs :
        /\ ps'[q].at \in Holding /\ ps'[r].at \in Holding /\ ps'[q].entry.id = ps'[r].entry.id
        => q = r
  BY <1>2 DEF LogInv, Numbered
<1>6. LogTypes'
  BY <1>2, <1>3 DEF LogInv, LogTypes, ChainGoesOn
<1> QED
  BY <1>2, <1>3, <1>4, <1>5, <1>6, FilesRest DEF LogInv

(* A command records what it learnt when it sent its transaction. *)
LEMMA BroadcastLogInv ==
    ASSUME LogInv, NEW p \in Procs, Broadcast(p)
    PROVE  LogInv'
<1>1. /\ ps \in [Procs -> Process] /\ next \in Nat /\ files \in Seq(Seq(LogEntry))
      /\ Proc(p) /\ ps[p].at = "broadcast"
      /\ chain \in [Commands -> Fates]
      /\ UNCHANGED <<files, dir, raced>>
  BY DEF LogInv, LogTypes, Broadcast
<1>2. p \in Commands /\ ps[p].handle \in 1..Len(files) /\ ps[p] \in Process
  BY <1>1 DEF Proc, AtWork
<1>3. /\ chain[p] = "unsent"
      /\ \A g, i : Has(files, g, i) => ~(files[g][i].hash /\ files[g][i].tx = p)
  BY <1>1, <1>2 DEF Proc, OwnFirst
<1>b. PICK fate \in Fates, hash \in BOOLEAN, err \in BOOLEAN :
        /\ hash => fate # "unsent"
        /\ chain' = [chain EXCEPT ![p] = fate]
        /\ Log(p, Entry(p, hash, record(fate, err), err), ps[p])
  BY Zenon DEF Broadcast
<1>4. PICK status : status = record(fate, err)
  OBVIOUS
<1>r. /\ status \in Statuses /\ (err => status = "failed")
      /\ status = "failed" => err \/ fate \in {"rejected", "reverted"}
      /\ status = "success" => fate = "included" \/ fate = "unsent"
  BY <1>4 DEF record, Statuses, Fates
<1>e. PICK e : e = Entry(p, hash, status, err)
  OBVIOUS
<1>5. ps' = [ps EXCEPT ![p] = [ps[p] EXCEPT !.at = "stat", !.entry = e]] /\ next' = next + 1
  BY <1>b, <1>4, <1>e DEF Log, Set
<1>6. /\ e \in LogEntry /\ e.id = next /\ e.tx = p /\ e.hash = hash /\ e.status = status
      /\ e.err = err
  BY <1>1, <1>2, <1>e, <1>r DEF Entry, LogEntry
<1>c. chain'[p] = fate /\ \A c \in Commands : c # p => chain'[c] = chain[c]
  BY <1>1, <1>2, <1>b
<1>7. ChainGoesOn
  <2>1. CASE fate = "unsent"
    <3>1. chain' = chain
      BY <1>1, <1>2, <1>3, <1>b, <2>1
    <3> QED
      BY <1>1, <3>1 DEF ChainGoesOn, True
  <2>2. CASE fate # "unsent"
    <3>1. fate \in {"mempool", "rejected", "included", "reverted"}
      BY <2>2 DEF Fates
    <3> QED
      BY <1>2, <1>3, <1>b, <3>1, ChainStep, Zenon
  <2> QED
    BY <2>1, <2>2
<1>8. True(e)'
  BY <1>2, <1>6, <1>b, <1>c, <1>r DEF True
<1>9. /\ ps' \in [Procs -> Process] /\ ps'[p].at = "stat" /\ ps'[p].entry = e
      /\ ps'[p].handle = ps[p].handle /\ ps'[p].read = ps[p].read
      /\ \A q \in Procs : q # p => ps'[q] = ps[q]
  <2> DEFINE r == [ps[p] EXCEPT !.at = "stat", !.entry = e]
  <2>1. /\ r \in Process /\ r.at = "stat" /\ r.entry = e /\ r.handle = ps[p].handle
        /\ r.read = ps[p].read
    BY <1>2, <1>6, Zenon DEF Process, Holding
  <2> HIDE DEF r
  <2>2. ps' = [ps EXCEPT ![p] = r]
    BY <1>5 DEF r
  <2> QED
    BY <1>1, <2>1, <2>2
<1>10. next' \in Nat /\ next' >= next /\ next < next'
  BY <1>1, <1>5
<1>11. AtWork(p)'
  BY <1>1, <1>2, <1>6, <1>9 DEF AtWork
<1>12. Held(p)'
  <2>1. \A g, i : Has(files, g, i) => files[g][i].id # next
    <3> SUFFICES ASSUME NEW g, NEW i, Has(files, g, i) PROVE files[g][i].id # next
      OBVIOUS
    <3>1. files[g][i].id \in Nat
      BY <1>1, HasEntry DEF LogEntry
    <3>2. files[g][i].id < next
      BY DEF LogInv, Numbered
    <3> QED
      BY <1>1, <3>1, <3>2
  <2>2. True(ps[p].entry)'
    BY <1>8, <1>9 DEF True
  <2> QED
    BY <1>1, <1>6, <1>9, <1>10, <2>1, <2>2 DEF Held
<1>13. OwnFirst(p)'
  BY <1>1, <1>3, <1>6, <1>9 DEF OwnFirst, Holding
<1>14. Revision(p)' /\ TodoPending(p)'
  BY <1>2 DEF Revision, TodoPending
<1>15. ReadFromFiles(p)' /\ ReadInOrder(p)' /\ LeftIsNewer(p)' /\ ReadComplete(p)'
  <2>1. ReadFromFiles(p)' /\ ReadInOrder(p)'
    BY <1>1, <1>9, ReadsSame
  <2>2. LeftIsNewer(p)' /\ ReadComplete(p)'
    BY <1>9 DEF LeftIsNewer, ReadComplete
  <2> QED
    BY <2>1, <2>2
<1>16. Proc(p)'
  BY <1>11, <1>12, <1>13, <1>14, <1>15 DEF Proc
<1>17. ASSUME NEW q \in Procs, q # p, ps'[q].at \in Holding
       PROVE  ps'[p].entry.id # ps'[q].entry.id
  <2>1. ps[q].at \in Holding /\ ps'[q] = ps[q] /\ Proc(q)
    BY <1>9, <1>17 DEF LogInv
  <2>2. ps[q].entry.id < next /\ ps[q].entry.id \in Nat
    BY <2>1 DEF Proc, AtWork, Held, LogEntry
  <2> QED
    BY <1>1, <1>6, <1>9, <2>1, <2>2
<1>18. \A c \in Commands : c # p /\ chain[c] = "unsent" => chain'[c] = "unsent"
  BY <1>c
<1> QED
  BY <1>1, <1>7, <1>9, <1>10, <1>16, <1>17, <1>18, LocalChainStep

-----------------------------------------------------------------------------
LEMMA ReadOnFacts ==
    ASSUME NEW A, NEW q \in Seq(A), NEW r \in Seq(A), NEW s, s = q \o r
    PROVE  /\ s \in Seq(A) /\ Len(q) \in Nat /\ Len(s) = Len(q) + Len(r)
           /\ \A a \in 1..Len(q) : a \in 1..Len(s) /\ s[a] = q[a]
           /\ \A a \in 1..Len(s) :
                \/ a \in 1..Len(q) /\ s[a] = q[a]
                \/ /\ a > Len(q) /\ a - Len(q) \in 1..Len(r) /\ s[a] = r[a - Len(q)]
           /\ \A b \in 1..Len(r) : Len(q) + b \in 1..Len(s) /\ s[Len(q) + b] = r[b]
<1>1. s \in Seq(A) /\ Len(q) \in Nat /\ Len(r) \in Nat /\ Len(s) = Len(q) + Len(r)
  OBVIOUS
<1>2. \A a \in 1..Len(q) : a \in 1..Len(s) /\ s[a] = q[a]
  BY <1>1
<1>3. \A a \in 1..Len(s) :
         \/ a \in 1..Len(q) /\ s[a] = q[a]
         \/ /\ a > Len(q) /\ a - Len(q) \in 1..Len(r) /\ s[a] = r[a - Len(q)]
  BY <1>1
<1>4. \A b \in 1..Len(r) : Len(q) + b \in 1..Len(s) /\ s[Len(q) + b] = r[b]
  BY <1>1
<1> QED
  BY <1>1, <1>2, <1>3, <1>4

(* Where an entry is. *)
LEMMA OneId ==
    ASSUME Numbered, NEW g, NEW h, NEW i, NEW j, Has(files, g, i), Has(files, h, j),
           files[g][i].id = files[h][j].id
    PROVE  g = h /\ i = j
  BY DEF Numbered

LEMMA OnePlace ==
    ASSUME LogInv, NEW g, NEW h, NEW i, NEW j, Has(files, g, i), Has(files, h, j),
           files[g][i] = files[h][j]
    PROVE  g = h /\ i = j
  BY DEF LogInv, Numbered

(* What there is to read is in a file that has a name. *)
LEMMA LinkedFacts ==
    ASSUME LogInv
    PROVE  /\ Linked \in SUBSET Nat
           /\ \A id \in Linked : \E i \in Names : \E j :
                dir[i] # 0 /\ Has(files, dir[i], j) /\ files[dir[i]][j].id = id
<1>1. files \in Seq(Seq(LogEntry)) /\ dir \in [Names -> Nat] /\ \A i \in Names : dir[i] <= Len(files)
  BY DEF LogInv, LogTypes, NamesInOrder
<1>2. ASSUME NEW id \in Linked
      PROVE  \E i \in Names : \E j :
                dir[i] # 0 /\ Has(files, dir[i], j) /\ files[dir[i]][j].id = id
  <2>1. PICK i \in Names : dir[i] # 0 /\ 
                          id \in {files[dir[i]][j].id : j \in DOMAIN files[dir[i]]}
    BY <1>2 DEF Linked, NoFile, Names
  <2>2. dir[i] \in 1..Len(files)
    BY <1>1, <2>1
  <2>3. files[dir[i]] \in Seq(LogEntry)
    BY <1>1, <2>2
  <2>4. PICK j \in 1..Len(files[dir[i]]) : id = files[dir[i]][j].id
    BY <2>1, <2>3
  <2> QED
    BY <2>1, <2>2, <2>4 DEF Has
<1>3. ASSUME NEW id \in Linked PROVE id \in Nat
  <2>0. PICK i \in Names :
          \E j : dir[i] # 0 /\ Has(files, dir[i], j) /\ files[dir[i]][j].id = id
    BY <1>2
  <2>1. PICK j : dir[i] # 0 /\ Has(files, dir[i], j) /\ files[dir[i]][j].id = id
    BY <2>0
  <2>2. files[dir[i]][j] \in LogEntry
    BY <1>1, <2>1, HasEntry
  <2> QED
    BY <2>1, <2>2 DEF LogEntry
<1> QED
  BY <1>2, <1>3

(* A file is read: what it adds is after what was read, and before what is *)
(* left.                                                                   *)
LEMMA ReadLogFileLogInv ==
    ASSUME LogInv, NEW p \in Procs, ReadLogFile(p)
    PROVE  LogInv'
<1> USE LogAssumption
<1>1. /\ ps \in [Procs -> Process] /\ next \in Nat /\ files \in Seq(Seq(LogEntry))
      /\ dir \in [Names -> Nat] /\ Proc(p) /\ ps[p].at = "read" /\ ps[p] \in Process
      /\ UNCHANGED <<files, dir, chain, next, raced>>
  BY DEF LogInv, LogTypes, ReadLogFile
<1>2. /\ ps[p].reading \in Names /\ p \notin Commands /\ ps[p].handle \in 1..Len(files)
      /\ ps[p].read \in Seq(LogEntry)
  BY <1>1 DEF Proc, AtWork, Process
<1>3. PICK k : k = MaxRotated - ps[p].reading
  OBVIOUS
<1>4. k \in Names /\ k \in Nat /\ k <= MaxRotated /\ (k = MaxRotated <=> ps[p].reading = 0)
  BY <1>2, <1>3 DEF Names
<1>5. dir[k] \in Nat /\ dir[k] <= Len(files)
  BY <1>1, <1>4 DEF LogInv, NamesInOrder
<1>6. PICK found : found = IF dir[k] = 0 THEN << >> ELSE files[dir[k]]
  OBVIOUS
<1>7. /\ found \in Seq(LogEntry)
      /\ \A b \in 1..Len(found) :
            dir[k] # 0 /\ Has(files, dir[k], b) /\ found[b] = files[dir[k]][b]
      /\ \A b : dir[k] # 0 /\ Has(files, dir[k], b) => b \in 1..Len(found)
  <2>1. CASE dir[k] = 0
    <3>1. found = << >>
      BY <1>6, <2>1
    <3> QED
      BY <2>1, <3>1
  <2>2. CASE dir[k] # 0
    <3>1. found = files[dir[k]] /\ dir[k] \in 1..Len(files)
      BY <1>5, <1>6, <2>2
    <3>2. files[dir[k]] \in Seq(LogEntry)
      BY <1>1, <3>1
    <3> QED
      BY <2>2, <3>1, <3>2 DEF Has
  <2> QED
    BY <2>1, <2>2
<1>8. PICK hd : hd = IF k = MaxRotated THEN Linked ELSE ps[p].had
  OBVIOUS
<1>9. PICK mv : mv = (ps[p].moved /\ k # MaxRotated)
  OBVIOUS
<1>10. PICK rd : rd = ps[p].read \o found
  BY Zenon
<1>11. PICK on : on = ps[p].reading + 1
  OBVIOUS
<1>12. /\ hd \in SUBSET Nat /\ mv \in BOOLEAN /\ rd \in Seq(LogEntry) /\ on \in Nat
       /\ on > 0 /\ MaxRotated - on = k - 1
  <2>1. ps[p].had \in SUBSET Nat
    BY <1>1 DEF Process
  <2>2. hd \in SUBSET Nat
    BY <1>8, <2>1, LinkedFacts
  <2>3. on \in Nat /\ on > 0 /\ MaxRotated - on = k - 1
    BY <1>2, <1>3, <1>11 DEF Names
  <2>4. rd \in Seq(LogEntry)
    BY <1>2, <1>7, <1>10
  <2> QED
    BY <1>9, <2>2, <2>3, <2>4
<1> DEFINE s == [ps[p] EXCEPT !.read = rd, !.reading = on, !.had = hd, !.moved = mv]
<1>13. ps' = [ps EXCEPT ![p] = IF k > 0 THEN s ELSE [s EXCEPT !.at = "shown"]]
  BY <1>3, <1>6, <1>8, <1>9, <1>10, <1>11, Zenon DEF ReadLogFile, Set, NoFile
<1>14. /\ ps' \in [Procs -> Process] /\ ps'[p].at \in {"read", "shown"}
       /\ ps'[p].at = "read" <=> k > 0
       /\ ps'[p].handle = ps[p].handle /\ ps'[p].read = rd /\ ps'[p].reading = on
       /\ ps'[p].had = hd /\ ps'[p].moved = mv
       /\ \A q \in Procs : q # p => ps'[q] = ps[q]
  <2>1. PICK t : t = s
    OBVIOUS
  <2>2. /\ t \in Process /\ t.at = "read" /\ t.handle = ps[p].handle /\ t.read = rd
        /\ t.reading = on /\ t.had = hd /\ t.moved = mv
    BY <1>1, <1>12, <2>1, Zenon DEF Process
  <2>3. PICK u : u = [t EXCEPT !.at = "shown"]
    BY Zenon
  <2>4. /\ u \in Process /\ u.at = "shown" /\ u.handle = ps[p].handle /\ u.read = rd
        /\ u.reading = on /\ u.had = hd /\ u.moved = mv
    BY <2>2, <2>3 DEF Process
  <2>5. ps' = [ps EXCEPT ![p] = IF k > 0 THEN t ELSE u]
    BY <1>13, <2>1, <2>3
  <2> HIDE DEF s
  <2>6. CASE k > 0
    BY <1>1, <2>2, <2>5, <2>6
  <2>7. CASE ~(k > 0)
    BY <1>1, <2>4, <2>5, <2>7
  <2> QED
    BY <2>6, <2>7
<1> HIDE DEF s
<1> DEFINE n == Len(ps[p].read)
<1>15. /\ n \in Nat
       /\ \A a \in 1..n : a \in 1..Len(rd) /\ rd[a] = ps[p].read[a]
       /\ \A a \in 1..Len(rd) :
            \/ a \in 1..n /\ rd[a] = ps[p].read[a]
            \/ /\ a > n /\ a - n \in 1..Len(found) /\ rd[a] = found[a - n]
       /\ \A b \in 1..Len(found) : n + b \in 1..Len(rd) /\ rd[n + b] = found[b]
  BY <1>2, <1>7, <1>10, ReadOnFacts
<1> HIDE DEF n
<1>16. ReadFromFiles(p)'
  <2> SUFFICES ASSUME NEW a \in 1..Len(rd)
               PROVE  \E g, i : Has(files, g, i) /\ files[g][i] = rd[a]
    <3>1. files' = files /\ ps'[p].read = rd
      BY <1>1, <1>14
    <3> QED
      BY <3>1 DEF ReadFromFiles
  <2>1. CASE a \in 1..n /\ rd[a] = ps[p].read[a]
    BY <1>1, <2>1 DEF Proc, ReadFromFiles, n
  <2>2. CASE a > n /\ a - n \in 1..Len(found) /\ rd[a] = found[a - n]
    BY <1>7, <2>2
  <2> QED
    BY <1>15, <2>1, <2>2
<1>17. ASSUME NEW a \in 1..Len(rd), NEW g, NEW i, Has(files, g, i), files[g][i] = rd[a], a > n
       PROVE  dir[k] # 0 /\ g = dir[k] /\ i = a - n
  <2>1. a - n \in 1..Len(found) /\ rd[a] = found[a - n]
    BY <1>15, <1>17
  <2>2. dir[k] # 0 /\ Has(files, dir[k], a - n) /\ found[a - n] = files[dir[k]][a - n]
    BY <1>7, <2>1
  <2> QED
    BY <1>17, <2>1, <2>2, OnePlace
<1>18. ReadInOrder(p)'
  <2> SUFFICES ASSUME NEW a \in 1..Len(rd), NEW b \in 1..Len(rd), NEW g, NEW h, NEW i, NEW j,
                      a < b, Has(files, g, i), Has(files, h, j),
                      files[g][i] = rd[a], files[h][j] = rd[b]
               PROVE  Earlier(g, i, h, j)
    BY <1>1, <1>14 DEF ReadInOrder, InOrder
  <2>1. CASE a \in 1..n /\ b \in 1..n
    BY <1>1, <1>15, <2>1 DEF Proc, ReadInOrder, InOrder, n
  <2>2. CASE a \in 1..n /\ b > n
    <3>1. dir[k] # 0 /\ h = dir[k]
      BY <1>17, <2>2
    <3>2. k \in 0..(MaxRotated - ps[p].reading)
      BY <1>3, <1>4
    <3>3. g < dir[k]
      BY <1>1, <1>15, <2>2, <3>1, <3>2, Zenon DEF Proc, LeftIsNewer, n
    <3> QED
      BY <3>1, <3>3 DEF Earlier
  <2>3. CASE a > n
    <3>1. g = dir[k] /\ h = dir[k] /\ i = a - n /\ j = b - n
      <4>1. b > n
        BY <1>15, <2>3
      <4> HIDE DEF n
      <4> QED
        BY <1>17, <2>3, <4>1
    <3> QED
      BY <1>15, <3>1 DEF Earlier
  <2> QED
    BY <1>15, <2>1, <2>2, <2>3
<1>19. LeftIsNewer(p)'
  <2> SUFFICES ASSUME k > 0, NEW a \in 1..Len(rd), NEW g, NEW j, NEW i \in 0..(MaxRotated - on),
                      Has(files, g, j), files[g][j] = rd[a], dir[i] # 0
               PROVE  g < dir[i]
    BY <1>1, <1>14, Zenon DEF LeftIsNewer
  <2>1. i \in Names /\ i < k /\ i \in 0..(MaxRotated - ps[p].reading)
    BY <1>3, <1>4, <1>12 DEF Names
  <2>2. CASE a \in 1..n
    BY <1>1, <1>15, <2>1, <2>2, Zenon DEF Proc, LeftIsNewer, n
  <2>3. CASE a > n
    BY <1>4, <1>17, <2>1, <2>3, Zenon DEF LogInv, NamesInOrder
  <2> QED
    BY <1>15, <2>2, <2>3
<1>20. ReadComplete(p)'
  <2>1. ASSUME ~mv, NEW id \in hd
        PROVE  \/ \E a \in 1..Len(rd) : rd[a].id = id
               \/ \E i \in 0..(k - 1) : \E j :
                    dir[i] # 0 /\ Has(files, dir[i], j) /\ files[dir[i]][j].id = id
    <3>1. \/ InRead(p, id)
          \/ \E i \in 0..k : \E j :
                dir[i] # 0 /\ Has(files, dir[i], j) /\ files[dir[i]][j].id = id
      <4>1. CASE k = MaxRotated
        BY <1>8, <2>1, <4>1, LinkedFacts DEF Names
      <4>2. CASE k # MaxRotated
        <5>1. ~ps[p].moved
          BY <1>9, <2>1, <4>2, Zenon
        <5>2. id \in ps[p].had /\ ps[p].reading > 0
          BY <1>2, <1>4, <1>8, <2>1, <4>2 DEF Names
        <5> QED
          BY <1>1, <1>3, <5>1, <5>2, Zenon DEF Proc, ReadComplete, InLeft
      <4> QED
        BY <4>1, <4>2
    <3>2. CASE InRead(p, id)
      BY <1>15, <3>2 DEF InRead, n
    <3>3. ASSUME NEW i \in 0..k, NEW j, dir[i] # 0, Has(files, dir[i], j),
                 files[dir[i]][j].id = id
          PROVE  \/ \E a \in 1..Len(rd) : rd[a].id = id
                 \/ i \in 0..(k - 1)
      <4>1. CASE i = k
        <5>1. j \in 1..Len(found) /\ found[j] = files[dir[k]][j]
          BY <1>7, <3>3, <4>1
        <5>2. n + j \in 1..Len(rd) /\ rd[n + j] = found[j]
          BY <1>15, <5>1
        <5> QED
          BY <3>3, <4>1, <5>1, <5>2
      <4>2. CASE i # k
        BY <1>4, <4>2
      <4> QED
        BY <4>1, <4>2
    <3> QED
      BY <3>1, <3>2, <3>3
  <2>2. \A id \in hd : ~mv => InRead(p, id)' \/ (k > 0 /\ InLeft(p, id)')
    <3> SUFFICES ASSUME NEW id \in hd, ~mv PROVE InRead(p, id)' \/ (k > 0 /\ InLeft(p, id)')
      OBVIOUS
    <3>1. InRead(p, id)' <=> \E a \in 1..Len(rd) : rd[a].id = id
      BY <1>14 DEF InRead
    <3>2. InLeft(p, id)' <=> \E i \in 0..(k - 1) : \E j :
                    dir[i] # 0 /\ Has(files, dir[i], j) /\ files[dir[i]][j].id = id
      BY <1>1, <1>12, <1>14 DEF InLeft
    <3>3. (\E i \in 0..(k - 1) : TRUE) => k > 0
      BY <1>4
    <3> QED
      BY <2>1, <3>1, <3>2, <3>3
  <2>3. ps'[p].reading # 0 /\ (ps'[p].at = "shown" => ~(k > 0))
    BY <1>12, <1>14
  <2>4. ps'[p].had = hd /\ ps'[p].moved = mv
    BY <1>14
  <2> QED
    BY <2>2, <2>3, <2>4, Zenon DEF ReadComplete
<1>21. AtWork(p)' /\ Held(p)' /\ OwnFirst(p)' /\ Revision(p)' /\ TodoPending(p)'
  <2>1. k > 0 => on \in Names
    BY <1>4, <1>12 DEF Names
  <2> QED
    BY <1>1, <1>2, <1>14, <2>1, Zenon DEF AtWork, Held, OwnFirst, Revision, TodoPending, Holding
<1>22. Proc(p)'
  BY <1>16, <1>18, <1>19, <1>20, <1>21 DEF Proc
<1>23. ps'[p].at \notin Holding /\ next' \in Nat /\ next' >= next
  BY <1>1, <1>14 DEF Holding
<1> QED
  BY <1>1, <1>14, <1>22, <1>23, LocalStep

-----------------------------------------------------------------------------
(* The current file is opened: it is the newest, and the entries are where *)
(* they were.                                                              *)
OpensFile(p, where) ==
    /\ files' \in Seq(Seq(LogEntry)) /\ Len(files') >= Len(files) /\ Len(files') \in Nat
    /\ \A g \in 1..Len(files) : g \in 1..Len(files') /\ files'[g] = files[g]
    /\ \A g \in 1..Len(files') : g \in 1..Len(files) \/ (g = Len(files') /\ dir[0] = 0)
    /\ \A g, j : Has(files', g, j) <=> Has(files, g, j)
    /\ \A g, j : Has(files, g, j) => files'[g][j] = files[g][j]
    /\ dir' \in [Names -> Nat] /\ dir'[0] = Len(files') /\ Len(files') # 0
    /\ dir[0] # 0 => dir'[0] = dir[0]
    /\ dir[0] = 0 => \A g \in 1..Len(files) : g < dir'[0]
    /\ \A i \in Names : i # 0 => dir'[i] = dir[i]
    /\ ps' = [ps EXCEPT ![p] = [ps[p] EXCEPT !.at = where, !.handle = Len(files')]]

LEMMA OpenFacts ==
    ASSUME LogInv, NEW p \in Procs, NEW where, OpenFile(p, where)
    PROVE  OpensFile(p, where)
<1> USE LogAssumption
<1>1. /\ files \in Seq(Seq(LogEntry)) /\ dir \in [Names -> Nat] /\ Len(files) \in Nat
      /\ 0 \in Names /\ dir[0] \in {0, Len(files)}
  BY DEF LogInv, LogTypes, NamesInOrder, Names
<1>2. CASE dir[0] = 0
  <2>1. PICK n : n = Len(files) + 1
    OBVIOUS
  <2>2. n \in Nat /\ n # 0 /\ (\A g \in 1..Len(files) : g < n) /\ n >= Len(files)
    BY <1>1, <2>1
  <2>3. /\ files' = Append(files, << >>) /\ dir' = [dir EXCEPT ![0] = n]
        /\ ps' = [ps EXCEPT ![p] = [ps[p] EXCEPT !.at = where, !.handle = n]]
    BY <1>2, <2>1 DEF OpenFile, NoFile, Set
  <2>4. /\ files' \in Seq(Seq(LogEntry)) /\ Len(files') = n
        /\ \A g \in 1..Len(files) : files'[g] = files[g]
        /\ \A g, j : Has(files', g, j) <=> Has(files, g, j)
        /\ \A g, j : Has(files, g, j) => files'[g][j] = files[g][j]
    <3>1. WithNew(files, files')
      BY <1>1, <2>3, FileOpened
    <3> QED
      BY <2>1, <3>1 DEF WithNew
  <2>5. dir' \in [Names -> Nat] /\ dir'[0] = n /\ \A i \in Names : i # 0 => dir'[i] = dir[i]
    BY <1>1, <2>2, <2>3
  <2>6. /\ \A g \in 1..Len(files) : g \in 1..Len(files')
        /\ \A g \in 1..Len(files') : g \in 1..Len(files) \/ g = Len(files')
    BY <1>1, <2>1, <2>4
  <2> QED
    BY <1>2, <2>2, <2>3, <2>4, <2>5, <2>6, Zenon DEF OpensFile
<1>3. CASE dir[0] # 0
  <2>1. /\ files' = files /\ dir' = dir /\ dir[0] = Len(files)
        /\ ps' = [ps EXCEPT ![p] = [ps[p] EXCEPT !.at = where, !.handle = dir[0]]]
    BY <1>1, <1>3 DEF OpenFile, NoFile, Set
  <2> QED
    BY <1>1, <1>3, <2>1 DEF OpensFile
<1> QED
  BY <1>2, <1>3

LEMMA OrderKept ==
    ASSUME NEW f, NEW f2, NEW r, InOrder(f, r),
           \A g, i : Has(f2, g, i) => Has(f, g, i) /\ f2[g][i] = f[g][i]
    PROVE  InOrder(f2, r)
  BY DEF InOrder

LEMMA OpenReads ==
    ASSUME LogInv, NEW p \in Procs, NEW where, OpensFile(p, where),
           NEW q \in Procs, ps'[q].read = ps[q].read
    PROVE  ReadFromFiles(q)' /\ ReadInOrder(q)'
<1>1. Proc(q) /\ ps'[q].read = ps[q].read
  BY DEF LogInv
<1>2. ReadFromFiles(q)'
  <2> SUFFICES ASSUME NEW a \in 1..Len(ps[q].read)
               PROVE  \E g, i : Has(files', g, i) /\ files'[g][i] = ps[q].read[a]
    BY <1>1 DEF ReadFromFiles
  <2>1. PICK g, i : Has(files, g, i) /\ files[g][i] = ps[q].read[a]
    BY <1>1 DEF Proc, ReadFromFiles
  <2>2. Has(files', g, i) /\ files'[g][i] = ps[q].read[a]
    BY <2>1 DEF OpensFile
  <2> QED
    BY <2>2
<1>3. ReadInOrder(q)'
  <2>1. \A g, i : Has(files', g, i) => Has(files, g, i) /\ files'[g][i] = files[g][i]
    BY DEF OpensFile
  <2>2. InOrder(files, ps[q].read)
    BY <1>1 DEF Proc, ReadInOrder
  <2>3. InOrder(files', ps[q].read)
    BY <2>1, <2>2, OrderKept
  <2> QED
    BY <1>1, <2>3 DEF ReadInOrder
<1> QED
  BY <1>2, <1>3

(* The other processes meanwhile. *)
LEMMA OpenOthers ==
    ASSUME LogInv, NEW p \in Procs, NEW where, OpensFile(p, where),
           UNCHANGED <<chain, next, raced>>, NEW q \in Procs, ps'[q] = ps[q]
    PROVE  Proc(q)'
<1> USE LogAssumption
<1>1. /\ Proc(q) /\ files \in Seq(Seq(LogEntry)) /\ dir \in [Names -> Nat] /\ Len(files) \in Nat
      /\ ps[q] \in Process /\ dir[0] \in {0, Len(files)}
  BY DEF LogInv, LogTypes, NamesInOrder
<1>2. AtWork(q)'
  BY <1>1, Zenon DEF Proc, AtWork, OpensFile
<1>3. Held(q)'
  <2>1. True(ps[q].entry) => True(ps[q].entry)'
    BY DEF True
  <2>2. \A g, i : Has(files', g, i) => Has(files, g, i) /\ files'[g][i] = files[g][i]
    BY DEF OpensFile
  <2> QED
    <3>1. Held(q)
      BY <1>1 DEF Proc
    <3> QED
      BY <2>1, <2>2, <3>1 DEF Held
<1>4. ReadFromFiles(q)' /\ ReadInOrder(q)'
  BY OpenReads
<1>6. LeftIsNewer(q)'
  <2> SUFFICES ASSUME ps[q].at = "read", NEW a \in 1..Len(ps[q].read), NEW g, NEW j,
                      NEW i \in 0..(MaxRotated - ps[q].reading),
                      Has(files', g, j), files'[g][j] = ps[q].read[a], dir'[i] # 0
               PROVE  g < dir'[i]
    BY Zenon DEF LeftIsNewer
  <2>1. Has(files, g, j) /\ files[g][j] = ps[q].read[a]
    BY DEF OpensFile
  <2>5. ps[q].reading \in Names
    BY <1>1 DEF Proc, AtWork
  <2>2. i \in Names
    BY <2>5, NameRange
  <2>3. CASE i = 0 /\ dir[0] = 0
    BY <2>1, <2>3 DEF OpensFile, Has
  <2>4. CASE i # 0 \/ dir[0] # 0
    <3>1. dir'[i] = dir[i]
      BY <2>2, <2>4 DEF OpensFile
    <3> QED
      BY <1>1, <2>1, <3>1 DEF Proc, LeftIsNewer
  <2> QED
    BY <2>3, <2>4
<1>7. ReadComplete(q)'
  <2>1. ASSUME NEW id, InRead(q, id) PROVE InRead(q, id)'
    BY <2>1 DEF InRead
  <2>2. ASSUME NEW id, InLeft(q, id), ps[q].at = "read" PROVE InLeft(q, id)'
    <3>1. PICK i \in 0..(MaxRotated - ps[q].reading) : \E j :
            dir[i] # 0 /\ Has(files, dir[i], j) /\ files[dir[i]][j].id = id
      BY <2>2 DEF InLeft
    <3>2. PICK j : dir[i] # 0 /\ Has(files, dir[i], j) /\ files[dir[i]][j].id = id
      BY <3>1
    <3>6. ps[q].reading \in Names
      BY <1>1, <2>2 DEF Proc, AtWork
    <3>3. i \in Names
      BY <3>6, NameRange
    <3>4. dir'[i] = dir[i]
      BY <3>2, <3>3 DEF OpensFile
    <3>5. Has(files', dir'[i], j) /\ files'[dir'[i]][j].id = id
      BY <3>2, <3>4 DEF OpensFile
    <3> QED
      BY <3>2, <3>4, <3>5, Zenon DEF InLeft
  <2> QED
    BY <1>1, <2>1, <2>2, Zenon DEF Proc, ReadComplete
<1>8. OwnFirst(q)'
  <2>1. \A g, i : Has(files', g, i) => Has(files, g, i) /\ files'[g][i] = files[g][i]
    BY DEF OpensFile
  <2>2. OwnFirst(q) /\ chain' = chain
    BY <1>1 DEF Proc
  <2>3. ASSUME NEW g, NEW i, Has(files', g, i),
               \/ ps[q].at \in {"start", "broadcast"}
               \/ ps[q].at \in Holding /\ ps[q].entry.hash,
               q \in Commands
        PROVE  ~(files'[g][i].hash /\ files'[g][i].tx = q)
    <3>1. Has(files, g, i) /\ files'[g][i] = files[g][i]
      BY <2>1, <2>3
    <3> QED
      BY <2>2, <2>3, <3>1 DEF OwnFirst
  <2> QED
    BY <2>2, <2>3 DEF OwnFirst
<1>9. Revision(q)'
  <2>1. ASSUME NEW g, NEW i, Has(files', g, i)
        PROVE  Has(files, g, i) /\ files'[g][i] = files[g][i]
    BY <2>1 DEF OpensFile
  <2>2. ASSUME NEW g, NEW i, Has(files, g, i) PROVE Has(files', g, i) /\ files'[g][i] = files[g][i]
    BY <2>2 DEF OpensFile
  <2> SUFFICES ASSUME q \notin Commands, ps[q].at \in Holding PROVE Revision(q)'
    BY DEF Revision
  <2>3. Revision(q)
    BY <1>1 DEF Proc
  <2>4. PICK g, i : Has(files, g, i) /\ SameTx(ps[q].entry, files[g][i]) /\ ~files[g][i].err
    BY <2>3 DEF Revision
  <2>5. Has(files', g, i) /\ SameTx(ps[q].entry, files'[g][i]) /\ ~files'[g][i].err
    BY <2>2, <2>4
  <2> QED
    BY <2>1, <2>3, <2>5, Zenon DEF Revision
<1>10. TodoPending(q)'
  BY <1>1, Zenon DEF Proc, TodoPending, Rows
<1> QED
  BY <1>2, <1>3, <1>4, <1>6, <1>7, <1>8, <1>9, <1>10 DEF Proc

(* The files meanwhile. *)
LEMMA OpenFilesKept ==
    ASSUME LogInv, NEW p \in Procs, NEW where, OpensFile(p, where),
           UNCHANGED <<chain, next, raced>>
    PROVE  NamesInOrder' /\ EntriesTrue' /\ FullWhenRotated' /\ PendingFirst'
<1> USE LogAssumption
<1>1. /\ files \in Seq(Seq(LogEntry)) /\ dir \in [Names -> Nat] /\ Len(files) \in Nat
      /\ 0 \in Names
  BY DEF LogInv, LogTypes, Names
<1>2. NamesInOrder'
  <2>1. \A i \in Names : dir'[i] <= Len(files')
    <3> SUFFICES ASSUME NEW i \in Names PROVE dir'[i] <= Len(files')
      OBVIOUS
    <3>1. CASE i = 0
      BY <3>1 DEF OpensFile
    <3>2. CASE i # 0
      <4>1. dir'[i] = dir[i] /\ dir[i] \in Nat /\ dir[i] <= Len(files)
        BY <1>1, <3>2 DEF LogInv, NamesInOrder, OpensFile
      <4>2. Len(files') >= Len(files) /\ Len(files') \in Nat
        BY DEF OpensFile
      <4> QED
        BY <1>1, <4>1, <4>2
    <3> QED
      BY <3>1, <3>2
  <2>2. ASSUME NEW i \in Names, NEW j \in Names, i < j, dir'[i] # 0, dir'[j] # 0
        PROVE  dir'[j] < dir'[i]
    <3>1. j # 0 /\ dir'[j] = dir[j]
      BY <1>1, <2>2 DEF OpensFile, Names
    <3>2. dir[j] \in 1..Len(files)
      BY <1>1, <2>2, <3>1 DEF LogInv, NamesInOrder
    <3>3. CASE i = 0 /\ dir[0] = 0
      BY <3>1, <3>2, <3>3 DEF OpensFile
    <3>4. CASE i # 0 \/ dir[0] # 0
      <4>1. dir'[i] = dir[i]
        BY <3>4 DEF OpensFile
      <4> QED
        BY <2>2, <3>1, <4>1 DEF LogInv, NamesInOrder
    <3> QED
      BY <3>3, <3>4
  <2> QED
    BY <2>1, <2>2 DEF NamesInOrder, OpensFile
<1>3. EntriesTrue'
  <2> SUFFICES ASSUME NEW g, NEW i, Has(files', g, i) PROVE True(files[g][i])'
    BY DEF EntriesTrue
  <2>1. Has(files, g, i) /\ files'[g][i] = files[g][i]
    BY DEF OpensFile
  <2>2. True(files[g][i])
    BY <2>1 DEF LogInv, EntriesTrue
  <2> QED
    BY <2>1, <2>2 DEF True
<1>4. FullWhenRotated'
  <2> SUFFICES ASSUME raced = {}, NEW g \in 1..Len(files'), g # dir'[0]
               PROVE  Len(files'[g]) >= MaxSize
    BY DEF FullWhenRotated
  <2>1. g \in 1..Len(files) /\ files'[g] = files[g] /\ g # dir[0]
    BY <1>1 DEF OpensFile
  <2> QED
    BY <2>1 DEF LogInv, FullWhenRotated
<1>5. PendingFirst'
  <2>1. ASSUME NEW g, NEW i, Has(files', g, i)
        PROVE  Has(files, g, i) /\ files'[g][i] = files[g][i]
    BY <2>1 DEF OpensFile
  <2> SUFFICES ASSUME raced = {}, NEW g, NEW h, NEW i, NEW j, Has(files', g, i), Has(files', h, j),
                      SameTx(files'[g][i], files'[h][j])
               PROVE  /\ files'[g][i].status = "pending" /\ files'[h][j].status # "pending"
                           => Earlier(g, i, h, j)
                      /\ files'[g][i].err => files'[h][j].err
    BY DEF PendingFirst, Earlier
  <2>2. /\ Has(files, g, i) /\ files'[g][i] = files[g][i]
        /\ Has(files, h, j) /\ files'[h][j] = files[h][j]
    BY <2>1
  <2> QED
    BY <2>2 DEF LogInv, PendingFirst
<1> QED
  BY <1>2, <1>3, <1>4, <1>5

LEMMA OpenStep ==
    ASSUME LogInv, NEW p \in Procs, NEW where, OpensFile(p, where),
           UNCHANGED <<chain, next, raced>>,
           ps' \in [Procs -> Process], Proc(p)',
           \A q \in Procs : q # p => ps'[q] = ps[q],
           ps'[p].at \in Holding => ps[p].at \in Holding /\ ps'[p].entry = ps[p].entry
    PROVE  LogInv'
<1>1. LogTypes'
  BY DEF LogInv, LogTypes, OpensFile
<1>2. ASSUME NEW q \in Procs PROVE Proc(q)'
  BY OpenOthers
<1>3. Numbered'
  <2>1. \A g, i : Has(files', g, i) => Has(files, g, i) /\ files'[g][i] = files[g][i]
    BY DEF OpensFile
  <2>2. ASSUME NEW q \in Procs, NEW r \in Procs, ps'[q].at \in Holding, ps'[r].at \in Holding,
               ps'[q].entry.id = ps'[r].entry.id
        PROVE  q = r
    BY <2>2, Zenon DEF LogInv, Numbered
  <2>3. ASSUME NEW g, NEW h, NEW i, NEW j, Has(files', g, i), Has(files', h, j),
               files'[g][i].id = files'[h][j].id
        PROVE  g = h /\ i = j
    <3>1. /\ Has(files, g, i) /\ files'[g][i] = files[g][i]
          /\ Has(files, h, j) /\ files'[h][j] = files[h][j]
      BY <2>1, <2>3
    <3>2. Numbered /\ files[g][i].id = files[h][j].id
      BY <2>3, <3>1 DEF LogInv
    <3> QED
      BY <3>1, <3>2, OneId
  <2>4. ASSUME NEW g, NEW i, Has(files', g, i) PROVE files'[g][i].id < next'
    <3>1. Has(files, g, i) /\ files'[g][i] = files[g][i]
      BY <2>1, <2>4
    <3> QED
      BY <3>1 DEF LogInv, Numbered
  <2> QED
    BY <2>2, <2>3, <2>4 DEF Numbered
<1> QED
  BY <1>1, <1>2, <1>3, OpenFilesKept DEF LogInv

(* The record of a process that has opened the file. *)
LEMMA OpenRecord ==
    ASSUME LogInv, NEW p \in Procs, NEW where \in {"broadcast", "read", "write"},
           OpensFile(p, where)
    PROVE  /\ ps' \in [Procs -> Process] /\ ps'[p].at = where
           /\ ps'[p].handle = Len(files') /\ ps'[p].handle \in 1..Len(files')
           /\ ps'[p].entry = ps[p].entry /\ ps'[p].read = ps[p].read
           /\ ps'[p].reading = ps[p].reading /\ ps'[p].todo = ps[p].todo
           /\ \A q \in Procs : q # p => ps'[q] = ps[q]
<1>1. ps \in [Procs -> Process] /\ ps[p] \in Process
  BY DEF LogInv, LogTypes
<1>2. PICK n : n = Len(files')
  BY Zenon
<1>3. n \in Nat /\ n \in 1..n
  BY <1>2 DEF OpensFile
<1>4. PICK r : r = [ps[p] EXCEPT !.at = where, !.handle = n]
  OBVIOUS
<1>5. /\ r \in Process /\ r.at = where /\ r.handle = n /\ r.entry = ps[p].entry
      /\ r.read = ps[p].read /\ r.reading = ps[p].reading /\ r.todo = ps[p].todo
  BY <1>1, <1>3, <1>4, Zenon DEF Process, Holding
<1>6. ps' = [ps EXCEPT ![p] = r]
  BY <1>2, <1>4 DEF OpensFile
<1> QED
  BY <1>1, <1>2, <1>3, <1>5, <1>6

LEMMA OpenLogInv ==
    ASSUME LogInv, NEW p \in Procs, Open(p)
    PROVE  LogInv'
<1> USE LogAssumption
<1>1. PICK where : where = IF p \in Commands THEN "broadcast" ELSE "read"
  OBVIOUS
<1>2. /\ ps[p].at = "start" /\ Proc(p) /\ UNCHANGED <<chain, next, raced>>
      /\ OpenFile(p, where)
  BY <1>1 DEF LogInv, Open
<1>3. OpensFile(p, where)
  BY <1>2, OpenFacts
<1>4. where \in {"broadcast", "read"} /\ where \in {"broadcast", "read", "write"}
  BY <1>1
<1>5. /\ ps' \in [Procs -> Process] /\ ps'[p].at = where
      /\ ps'[p].handle \in 1..Len(files')
      /\ ps'[p].read = ps[p].read /\ ps'[p].reading = ps[p].reading
      /\ \A q \in Procs : q # p => ps'[q] = ps[q]
  BY <1>3, <1>4, OpenRecord
<1>6. ps'[p].reading = 0 /\ ps'[p].read = << >>
  BY <1>2, <1>5, Zenon DEF Proc, AtWork
<1>7. AtWork(p)' /\ Held(p)' /\ Revision(p)' /\ TodoPending(p)'
  <2>2. ps'[p].at \notin {"reconcile"} \cup Holding
    BY <1>4, <1>5 DEF Holding
  <2>3. 0 \in Names
    BY LogAssumption DEF Names
  <2>1. AtWork(p)'
    BY <1>1, <1>5, <1>6, <2>2, <2>3 DEF AtWork
  <2> QED
    BY <2>1, <2>2, Zenon DEF Held, Revision, TodoPending
<1>8. ReadFromFiles(p)' /\ ReadInOrder(p)' /\ LeftIsNewer(p)' /\ ReadComplete(p)'
  <2>1. ps'[p].at # "shown" /\ \A a : a \notin 1..Len(ps'[p].read)
    BY <1>4, <1>5, <1>6
  <2>2. ReadFromFiles(p)' /\ LeftIsNewer(p)'
    BY <2>1 DEF ReadFromFiles, LeftIsNewer
  <2>3. ReadInOrder(p)'
    BY <2>1 DEF ReadInOrder, InOrder
  <2>4. ReadComplete(p)'
    BY <1>6, <2>1 DEF ReadComplete
  <2> QED
    BY <2>2, <2>3, <2>4
<1>9. OwnFirst(p)'
  <2>1. p \in Commands => /\ chain[p] = "unsent"
                          /\ \A g, i : Has(files, g, i) => ~(files[g][i].hash /\ files[g][i].tx = p)
    BY <1>2, Zenon DEF Proc, OwnFirst
  <2>2. \A g, i : Has(files', g, i) => Has(files, g, i) /\ files'[g][i] = files[g][i]
    BY <1>3 DEF OpensFile
  <2>3. p \in Commands =>
          \A g, i : Has(files', g, i) => ~(files'[g][i].hash /\ files'[g][i].tx = p)
    BY <2>1, <2>2
  <2>4. ps'[p].at \notin Holding /\ chain' = chain
    BY <1>2, <1>4, <1>5 DEF Holding
  <2> QED
    BY <2>1, <2>3, <2>4 DEF OwnFirst
<1>10. Proc(p)'
  BY <1>7, <1>8, <1>9 DEF Proc
<1>11. ps'[p].at \notin Holding
  BY <1>4, <1>5 DEF Holding
<1> QED
  BY <1>2, <1>3, <1>5, <1>10, <1>11, OpenStep

LEMMA ReopenLogInv ==
    ASSUME LogInv, NEW p \in Procs, Reopen(p)
    PROVE  LogInv'
<1>1. /\ ps[p].at = "reopen" /\ Proc(p) /\ UNCHANGED <<chain, next, raced>>
      /\ OpenFile(p, "write")
  BY DEF LogInv, Reopen
<1>2. OpensFile(p, "write")
  BY <1>1, OpenFacts
<1>3. /\ ps' \in [Procs -> Process] /\ ps'[p].at = "write"
      /\ ps'[p].handle = Len(files') /\ ps'[p].handle \in 1..Len(files')
      /\ ps'[p].entry = ps[p].entry /\ ps'[p].read = ps[p].read /\ ps'[p].todo = ps[p].todo
      /\ \A q \in Procs : q # p => ps'[q] = ps[q]
  BY <1>2, OpenRecord
<1>4. \A g, i : Has(files', g, i) <=> Has(files, g, i)
  BY <1>2 DEF OpensFile
<1>5. \A g, i : Has(files, g, i) => files'[g][i] = files[g][i]
  BY <1>2 DEF OpensFile
<1>6. AtWork(p)'
  BY <1>1, <1>3, Zenon DEF Proc, AtWork, Holding
<1>7. Held(p)'
  <2>1. Held(p) /\ ps[p].at \in Holding
    BY <1>1 DEF Proc, Holding
  <2>2. True(ps[p].entry)'
    BY <1>1, <1>3, <2>1, Zenon DEF Held, True
  <2>3. \A g, i : Has(files', g, i) => files'[g][i].id # ps[p].entry.id
    BY <1>4, <1>5, <2>1 DEF Held
  <2>4. ps[p].entry.id < next'
    BY <1>1, <2>1 DEF Held
  <2> QED
    BY <1>3, <2>2, <2>3, <2>4 DEF Held
<1>8. ReadFromFiles(p)' /\ ReadInOrder(p)'
  BY <1>2, <1>3, OpenReads
<1>9. LeftIsNewer(p)' /\ ReadComplete(p)' /\ TodoPending(p)'
  BY <1>1, <1>3, Zenon DEF Proc, LeftIsNewer, ReadComplete, TodoPending, Holding, Rows
<1>10. OwnFirst(p)'
  <2>1. OwnFirst(p) /\ ps[p].at \in Holding
    BY <1>1, Zenon DEF Proc, Holding
  <2>2. p \in Commands /\ ps[p].entry.hash =>
          \A g, i : Has(files', g, i) => ~(files'[g][i].hash /\ files'[g][i].tx = p)
    <3>1. p \in Commands /\ ps[p].entry.hash =>
            \A g, i : Has(files, g, i) => ~(files[g][i].hash /\ files[g][i].tx = p)
      BY <2>1 DEF OwnFirst
    <3>2. ASSUME p \in Commands, ps[p].entry.hash, NEW g, NEW i, Has(files', g, i)
          PROVE  ~(files'[g][i].hash /\ files'[g][i].tx = p)
      <4>1. Has(files, g, i) /\ files'[g][i] = files[g][i]
        BY <1>4, <1>5, <3>2
      <4>2. ~(files[g][i].hash /\ files[g][i].tx = p)
        BY <3>1, <3>2, <4>1, Zenon
      <4> QED
        BY <4>1, <4>2
    <3> QED
      BY <3>2, Zenon
  <2> QED
    BY <1>3, <2>1, <2>2 DEF OwnFirst
<1>11. Revision(p)'
  <2>1. Revision(p) /\ ps[p].at \in Holding
    BY <1>1, Zenon DEF Proc, Holding
  <2>2. p \notin Commands =>
          /\ ps[p].entry.hash /\ ps[p].entry.status # "pending" /\ ~ps[p].entry.err
          /\ \E g, i : Has(files, g, i) /\ SameTx(ps[p].entry, files[g][i]) /\ ~files[g][i].err
    BY <2>1 DEF Revision
  <2>3. p \notin Commands =>
          \E g, i : Has(files', g, i) /\ SameTx(ps[p].entry, files'[g][i]) /\ ~files'[g][i].err
    BY <1>4, <1>5, <2>2
  <2>4. \A g, i : Has(files', g, i) => g <= ps'[p].handle
    BY <1>2, <1>3 DEF OpensFile, Has
  <2> QED
    BY <1>3, <2>2, <2>3, <2>4, Zenon DEF Revision
<1>12. Proc(p)'
  BY <1>6, <1>7, <1>8, <1>9, <1>10, <1>11 DEF Proc
<1>13. ps[p].at \in Holding
  BY <1>1 DEF Holding
<1> QED
  BY <1>1, <1>2, <1>3, <1>12, <1>13, OpenStep

-----------------------------------------------------------------------------
(* A file takes the next older name, or there is none to take. *)
Renames(k) ==
    /\ dir' \in [Names -> Nat]
    /\ \/ dir' = dir /\ dir[k] = 0
       \/ /\ dir[k] # 0 /\ dir'[k] = 0 /\ dir'[k + 1] = dir[k]
          /\ \A i \in Names : i # k /\ i # k + 1 => dir'[i] = dir[i]

LEMMA RenameFacts ==
    ASSUME LogInv, NEW p \in Procs, Rename(p)
    PROVE  /\ ps[p].rot \in Names /\ ps[p].rot \in Nat /\ ps[p].rot + 1 \in Names
           /\ ps[p].rot # ps[p].rot + 1
           /\ Renames(ps[p].rot)
<1>1. /\ ps[p] \in Process /\ dir \in [Names -> Nat] /\ Proc(p) /\ ps[p].at = "rename"
  BY DEF LogInv, LogTypes, Rename
<1>2. PICK k : k = ps[p].rot
  OBVIOUS
<1>3. k \in Nat /\ k + 1 \in Names /\ k \in Names /\ k # k + 1
  <2>1. k \in Nat
    BY <1>1, <1>2 DEF Process
  <2>2. k + 1 \in Names
    BY <1>1, <1>2 DEF Proc, AtWork
  <2> QED
    BY <2>1, <2>2, LogAssumption DEF Names
<1>4. dir' = IF dir[k] = 0 THEN dir ELSE [dir EXCEPT ![k + 1] = dir[k], ![k] = 0]
  BY <1>2 DEF Rename, NoFile
<1>5. CASE dir[k] = 0
  BY <1>1, <1>2, <1>3, <1>4, <1>5 DEF Renames
<1>6. CASE dir[k] # 0
  <2>1. PICK l : l = k + 1
    OBVIOUS
  <2>2. dir' = [dir EXCEPT ![l] = dir[k], ![k] = 0] /\ l \in Names /\ k # l /\ dir[k] \in Nat
    BY <1>1, <1>3, <1>4, <1>6, <2>1
  <2>3. /\ dir' \in [Names -> Nat] /\ dir'[k] = 0 /\ dir'[l] = dir[k]
        /\ \A i \in Names : i # k /\ i # l => dir'[i] = dir[i]
    BY <1>1, <1>3, <2>2
  <2> QED
    BY <1>2, <1>3, <1>6, <2>1, <2>3 DEF Renames
<1> QED
  BY <1>5, <1>6

(* The names keep their order. *)
LEMMA RenameNames ==
    ASSUME LogInv, NEW k \in Names, k \in Nat, k + 1 \in Names, Renames(k), files' = files
    PROVE  NamesInOrder'
<1> USE LogAssumption
<1>1. /\ dir \in [Names -> Nat] /\ Len(files) \in Nat /\ \A i \in Names : dir[i] <= Len(files)
      /\ \A i, j \in Names : i < j /\ dir[i] # 0 /\ dir[j] # 0 => dir[j] < dir[i]
      /\ dir[0] \in {0, Len(files)} /\ 0 \in Names /\ k # k + 1
  BY DEF LogInv, LogTypes, NamesInOrder, Names
<1>2. CASE dir' = dir
  BY <1>1, <1>2 DEF NamesInOrder
<1>3. CASE /\ dir[k] # 0 /\ dir'[k] = 0 /\ dir'[k + 1] = dir[k]
           /\ \A i \in Names : i # k /\ i # k + 1 => dir'[i] = dir[i]
  <2>1. \A i \in Names : dir'[i] <= Len(files)
    BY <1>1, <1>3
  <2>2. ASSUME NEW i \in Names, NEW j \in Names, i < j, dir'[i] # 0, dir'[j] # 0
        PROVE  dir'[j] < dir'[i]
    <3>1. i # k /\ j # k
      BY <1>3, <2>2
    <3>2. CASE i = k + 1
      <4>1. dir'[i] = dir[k] /\ dir'[j] = dir[j] /\ k < j
        BY <1>3, <2>2, <3>1, <3>2 DEF Names
      <4> QED
        BY <1>1, <1>3, <2>2, <4>1
    <3>3. CASE j = k + 1
      <4>1. dir'[j] = dir[k] /\ dir'[i] = dir[i] /\ i < k
        BY <1>3, <2>2, <3>1, <3>3 DEF Names
      <4> QED
        BY <1>1, <1>3, <2>2, <4>1
    <3>4. CASE i # k + 1 /\ j # k + 1
      <4>1. dir'[j] = dir[j] /\ dir'[i] = dir[i]
        BY <1>3, <3>1, <3>4
      <4> QED
        BY <1>1, <2>2, <4>1
    <3> QED
      BY <3>2, <3>3, <3>4
  <2>3. dir'[0] \in {0, Len(files)}
    <3>1. 0 # k + 1
      OBVIOUS
    <3> QED
      BY <1>1, <1>3, <3>1
  <2> QED
    BY <2>1, <2>2, <2>3 DEF NamesInOrder
<1> QED
  BY <1>2, <1>3 DEF Renames

(* What the renaming leaves of the processes. *)
LEMMA RenameProcesses ==
    ASSUME LogInv, NEW p \in Procs, Rename(p)
    PROVE  /\ ps' \in [Procs -> Process]
           /\ \A q \in Procs :
                /\ q # p => /\ ps'[q].at = ps[q].at /\ ps'[q].rot = ps[q].rot
                            /\ ~ps'[q].moved => ~ps[q].moved /\ dir' = dir
                /\ ps'[q].handle = ps[q].handle /\ ps'[q].entry = ps[q].entry
                /\ ps'[q].read = ps[q].read /\ ps'[q].reading = ps[q].reading
                /\ ps'[q].todo = ps[q].todo /\ ps'[q].had = ps[q].had
           /\ \/ ps'[p].at = "reopen"
              \/ ps'[p].at = "rename" /\ ps'[p].rot \in Nat /\ ps'[p].rot + 1 \in Names
<1>1. ps \in [Procs -> Process] /\ ps[p].at = "rename"
  BY DEF LogInv, LogTypes, Rename
<1>2. ps[p].rot \in Names /\ ps[p].rot \in Nat /\ ps[p].rot + 1 \in Names
  BY RenameFacts
<1>3. PICK t : t = IF ps[p].rot = 0 THEN [ps[p] EXCEPT !.at = "reopen"]
                   ELSE [ps[p] EXCEPT !.rot = ps[p].rot - 1]
  BY Zenon
<1>4. /\ t \in Process /\ t.handle = ps[p].handle /\ t.entry = ps[p].entry
      /\ t.read = ps[p].read /\ t.reading = ps[p].reading
      /\ t.todo = ps[p].todo /\ t.had = ps[p].had
      /\ \/ t.at = "reopen"
         \/ t.at = "rename" /\ t.rot \in Nat /\ t.rot + 1 \in Names
  <2>1. CASE ps[p].rot = 0
    BY <1>1, <1>3, <2>1, Zenon DEF Process, Holding
  <2>2. CASE ps[p].rot # 0
    <3>1. PICK n : n = ps[p].rot - 1
      OBVIOUS
    <3>2. n \in Nat /\ n + 1 \in Names
      BY <1>2, <2>2, <3>1
    <3>3. t = [ps[p] EXCEPT !.rot = n]
      BY <1>3, <2>2, <3>1
    <3> QED
      BY <1>1, <3>2, <3>3, Zenon DEF Process
  <2> QED
    BY <2>1, <2>2
<1>5. PICK d \in BOOLEAN : d = (dir' # dir)
  BY Zenon
<1>6. ASSUME NEW q \in Procs, NEW r, NEW b, b = (ps[q].moved \/ d),
             r = [ps[q] EXCEPT !.moved = b]
      PROVE  /\ r \in Process /\ r.at = ps[q].at /\ r.rot = ps[q].rot /\ r.handle = ps[q].handle
             /\ r.entry = ps[q].entry /\ r.read = ps[q].read /\ r.reading = ps[q].reading
             /\ r.todo = ps[q].todo /\ r.had = ps[q].had /\ r.moved = b
  <2>1. b \in BOOLEAN /\ ps[q] \in Process
    BY <1>1, <1>6
  <2>2. r \in Process
    BY <1>6, <2>1 DEF Process
  <2> QED
    BY <1>6, <2>1, <2>2 DEF Process
<1>7. ps' = [q \in Procs |-> IF q = p THEN t ELSE [ps[q] EXCEPT !.moved = ps[q].moved \/ d]]
  BY <1>3, <1>5, Zenon DEF Rename, Moved, Procs
<1>8. ps'[p] = t
  BY <1>7
<1>9. ASSUME NEW q \in Procs, q # p
      PROVE  /\ ps'[q] \in Process /\ ps'[q].at = ps[q].at /\ ps'[q].rot = ps[q].rot
             /\ ps'[q].handle = ps[q].handle
             /\ ps'[q].entry = ps[q].entry /\ ps'[q].read = ps[q].read
             /\ ps'[q].reading = ps[q].reading
             /\ ps'[q].todo = ps[q].todo /\ ps'[q].had = ps[q].had
             /\ ~ps'[q].moved => ~ps[q].moved /\ dir' = dir
  <2>1. PICK b : b = (ps[q].moved \/ d)
    OBVIOUS
  <2>2. ps'[q] = [ps[q] EXCEPT !.moved = b]
    BY <1>7, <1>9, <2>1
  <2>3. ps'[q].moved = b
    BY <1>6, <2>1, <2>2
  <2>4. ~ps'[q].moved => ~ps[q].moved /\ dir' = dir
    BY <1>5, <2>1, <2>3, Zenon
  <2> QED
    BY <1>6, <2>1, <2>2, <2>4
<1>10. ps' \in [Procs -> Process]
  <2>1. \A q \in Procs : ps'[q] \in Process
    BY <1>4, <1>8, <1>9
  <2>2. ps' = [q \in Procs |-> ps'[q]]
    BY <1>7
  <2> QED
    BY <2>1, <2>2
<1> QED
  BY <1>4, <1>8, <1>9, <1>10, Zenon

LEMMA RenameLogInv ==
    ASSUME LogInv, NEW p \in Procs, Rename(p)
    PROVE  LogInv'
<1> USE LogAssumption
<1>1. /\ ps \in [Procs -> Process] /\ files \in Seq(Seq(LogEntry)) /\ dir \in [Names -> Nat]
      /\ ps[p].at = "rename" /\ UNCHANGED <<files, chain, next>> /\ raced' = raced \cup Races(p)
  BY DEF LogInv, LogTypes, Rename
<1>2. PICK k : k = ps[p].rot
  OBVIOUS
<1>3. k \in Names /\ k \in Nat /\ k + 1 \in Names /\ k # k + 1 /\ Renames(k)
  BY <1>2, RenameFacts
<1>4. /\ ps' \in [Procs -> Process]
      /\ \/ ps'[p].at = "reopen"
         \/ ps'[p].at = "rename" /\ ps'[p].rot \in Nat /\ ps'[p].rot + 1 \in Names
  BY RenameProcesses
<1>5. \A q \in Procs : q # p => ps'[q].at = ps[q].at /\ ps'[q].rot = ps[q].rot
  BY RenameProcesses
<1>15. \A q \in Procs : q # p => (~ps'[q].moved => ~ps[q].moved /\ dir' = dir)
  BY RenameProcesses, Zenon
<1>6. \A q \in Procs :
        /\ ps'[q].handle = ps[q].handle /\ ps'[q].entry = ps[q].entry
        /\ ps'[q].read = ps[q].read /\ ps'[q].reading = ps[q].reading
        /\ ps'[q].todo = ps[q].todo /\ ps'[q].had = ps[q].had
  BY RenameProcesses
<1>7. raced' = {} => raced = {} /\ dir[0] = ps[p].handle
  BY <1>1, Zenon DEF Races
<1>8. LogTypes'
  BY <1>1, <1>3, <1>4 DEF LogInv, LogTypes, Renames
<1>9. NamesInOrder'
  BY <1>1, <1>3, RenameNames
<1>10. EntriesTrue' /\ PendingFirst'
  BY <1>1, <1>7, Zenon DEF LogInv, EntriesTrue, True, PendingFirst
<1>11. ps[p].at \in Holding /\ ps'[p].at \in Holding
  BY <1>1, <1>4 DEF Holding
<1>12. Numbered'
  <2>1. \A q \in Procs : ps'[q].at \in Holding => ps[q].at \in Holding
    BY <1>5, <1>11
  <2>2. Numbered /\ files' = files /\ next' = next
    BY <1>1 DEF LogInv
  <2>3. ASSUME NEW q \in Procs, NEW r \in Procs, ps'[q].at \in Holding, ps'[r].at \in Holding,
               ps'[q].entry.id = ps'[r].entry.id
        PROVE  q = r
    <3>1. ps[q].at \in Holding /\ ps[r].at \in Holding /\ ps[q].entry.id = ps[r].entry.id
      BY <1>6, <2>1, <2>3
    <3> QED
      BY <2>2, <3>1 DEF Numbered
  <2> QED
    BY <2>2, <2>3 DEF Numbered
<1>13. FullWhenRotated'
  <2> SUFFICES ASSUME raced' = {}, NEW g \in 1..Len(files), g # dir'[0]
               PROVE  Len(files[g]) >= MaxSize
    BY <1>1 DEF FullWhenRotated
  <2>1. raced = {} /\ dir[0] = ps[p].handle /\ Proc(p)
    BY <1>7 DEF LogInv
  <2>2. CASE g = dir[0]
    BY <1>1, <2>1, <2>2, Zenon DEF Proc, AtWork
  <2>3. CASE g # dir[0]
    BY <2>1, <2>3 DEF LogInv, FullWhenRotated
  <2> QED
    BY <2>2, <2>3
<1>14. ASSUME NEW q \in Procs PROVE Proc(q)'
  <2>1. /\ Proc(q)
        /\ ps'[q].handle = ps[q].handle /\ ps'[q].entry = ps[q].entry
        /\ ps'[q].read = ps[q].read /\ ps'[q].reading = ps[q].reading
        /\ ps'[q].todo = ps[q].todo /\ ps'[q].had = ps[q].had
    BY <1>6 DEF LogInv
  <2>2. /\ ps'[q].at = ps[q].at \/ (q = p /\ ps'[q].at \in {"rename", "reopen"})
        /\ ps'[q].at \in Holding <=> ps[q].at \in Holding
    BY <1>4, <1>5, <1>11
  <2>3. AtWork(q)'
    <3>1. CASE q = p
      BY <1>1, <1>4, <2>1, <3>1, Zenon DEF Proc, AtWork, Holding
    <3>2. CASE q # p
      BY <1>1, <1>5, <2>1, <3>2, Zenon DEF Proc, AtWork
    <3> QED
      BY <3>1, <3>2
  <2>4. Held(q)'
    <3>1. True(ps[q].entry)' <=> True(ps[q].entry)
      BY <1>1, <2>1, Zenon DEF True
    <3> QED
      BY <1>1, <2>1, <2>2, <3>1, Zenon DEF Proc, Held
  <2>5. ReadFromFiles(q)' /\ ReadInOrder(q)'
    BY <1>1, <2>1, ReadsSame, Zenon
  <2>6. LeftIsNewer(q)'
    <3> SUFFICES ASSUME ps[q].at = "read", NEW a \in 1..Len(ps[q].read), NEW g, NEW j,
                        NEW i \in 0..(MaxRotated - ps[q].reading),
                        Has(files, g, j), files[g][j] = ps[q].read[a], dir'[i] # 0
                 PROVE  g < dir'[i]
      BY <1>1, <2>1, <2>2, Zenon DEF LeftIsNewer
    <3>1. ps[q].reading \in Names /\ i \in Names
      <4>1. ps[q].reading \in Names
        BY <2>1, Zenon DEF Proc, AtWork
      <4> QED
        BY <4>1, NameRange, Zenon
    <3>2. \A l \in 0..(MaxRotated - ps[q].reading) : dir[l] # 0 => g < dir[l]
      BY <2>1, Zenon DEF Proc, LeftIsNewer
    <3>3. CASE dir'[i] = dir[i]
      BY <3>2, <3>3, Zenon
    <3>4. CASE i = k + 1 /\ dir'[i] = dir[k]
      <4>1. k \in 0..(MaxRotated - ps[q].reading)
        BY <1>3, <3>1, <3>4 DEF Names
      <4> QED
        BY <3>2, <3>4, <4>1
    <3> QED
      BY <1>3, <3>1, <3>3, <3>4, Zenon DEF Renames
  <2>7. ReadComplete(q)'
    <3>1. CASE q = p
      BY <1>4, <3>1 DEF ReadComplete
    <3>2. CASE q # p
      <4>1. ps'[q].at = ps[q].at
        BY <1>5, <3>2
      <4>5. ~ps'[q].moved => ~ps[q].moved /\ dir' = dir
        BY <1>15, <3>2, Zenon
      <4>2. \A id : InRead(q, id) => InRead(q, id)'
        BY <2>1 DEF InRead
      <4>3. ASSUME dir' = dir PROVE \A id : InLeft(q, id) => InLeft(q, id)'
        BY <1>1, <2>1, <4>3, Zenon DEF InLeft
      <4>4. ReadComplete(q)
        BY <2>1, Zenon DEF Proc
      <4> QED
        BY <2>1, <4>1, <4>2, <4>3, <4>4, <4>5, Zenon DEF ReadComplete
    <3> QED
      BY <3>1, <3>2
  <2>8. OwnFirst(q)'
    <3>1. ps'[q].at \in {"start", "broadcast"} => ps[q].at = ps'[q].at
      BY <2>2
    <3> QED
      BY <1>1, <2>1, <2>2, <3>1, Zenon DEF Proc, OwnFirst
  <2>9. Revision(q)'
    <3>1. ps'[q].at = "write" => ps[q].at = "write"
      BY <2>2, Zenon
    <3> QED
      BY <1>1, <1>7, <2>1, <2>2, <3>1, Zenon DEF Proc, Revision
  <2>10. TodoPending(q)'
    <3>1. ps'[q].at = "reconcile" => ps[q].at = "reconcile"
      BY <2>2
    <3> QED
      BY <2>1, <2>2, <3>1, Zenon DEF Proc, TodoPending, Rows
  <2> QED
    BY <2>3, <2>4, <2>5, <2>6, <2>7, <2>8, <2>9, <2>10 DEF Proc
<1> QED
  BY <1>8, <1>9, <1>10, <1>12, <1>13, <1>14 DEF LogInv
=============================================================================
