------------------------- MODULE ContextFilesProofs -------------------------
(***************************************************************************)
(* Proofs about the files of a context that processes share.  The action   *)
(* log, for any processes, sizes and numbers of rotated files; the         *)
(* deployment store, for every set of keys, every input record, every      *)
(* snapshot file and every bound.                                          *)
(***************************************************************************)
EXTENDS DeploymentStore, ActionLogProofs

-----------------------------------------------------------------------------
(* An entry is written: it is no entry of the files, and none that another *)
(* process holds.                                                          *)
LEMMA WriteFacts ==
    ASSUME LogInv, NEW p \in Procs, Write(p)
    PROVE  \E h, n, e :
              /\ h = ps[p].handle /\ e = ps[p].entry /\ e \in LogEntry /\ h \in 1..Len(files)
              /\ WithEntry(files, files', h, n, e)
              /\ e.id < next /\ True(e)
              /\ \A g, i : Has(files, g, i) => files[g][i].id # e.id
<1>1. /\ files \in Seq(Seq(LogEntry)) /\ ps[p].at = "write" /\ Proc(p)
      /\ files' = [files EXCEPT ![ps[p].handle] = Append(files[ps[p].handle], ps[p].entry)]
  BY DEF LogInv, LogTypes, Write
<1>2. PICK h, e : h = ps[p].handle /\ e = ps[p].entry
  OBVIOUS
<1>3. e \in LogEntry /\ h \in 1..Len(files)
  BY <1>1, <1>2 DEF Proc, AtWork, Holding
<1>4. WithEntry(files, files', h, Len(files[h]) + 1, e)
  BY <1>1, <1>2, <1>3, EntryWritten, Zenon
<1>5. e.id < next /\ True(e) /\ \A g, i : Has(files, g, i) => files[g][i].id # e.id
  BY <1>1, <1>2 DEF Proc, Held, Holding
<1> QED
  BY <1>2, <1>3, <1>4, <1>5

(* The files with the entry. *)
LEMMA WriteFiles ==
    ASSUME LogInv, NEW p \in Procs, ps[p].at = "write", NEW h, NEW n, NEW e,
           h = ps[p].handle, e = ps[p].entry, h \in 1..Len(files),
           e \in LogEntry, WithEntry(files, files', h, n, e), e.id < next, True(e),
           \A g, i : Has(files, g, i) => files[g][i].id # e.id,
           UNCHANGED <<dir, chain, next, raced>>
    PROVE  NamesInOrder' /\ EntriesTrue' /\ FullWhenRotated' /\ PendingFirst'
<1>1. /\ files \in Seq(Seq(LogEntry)) /\ Len(files') = Len(files) /\ n \in Nat /\ Proc(p)
      /\ ps[p].at \in Holding
  BY DEF LogInv, LogTypes, WithEntry, Holding
<1>2. \A g, i : Has(files', g, i) => \/ Has(files, g, i) /\ files'[g][i] = files[g][i]
                                     \/ g = h /\ i = n /\ files'[g][i] = e
  BY DEF WithEntry
<1>3. NamesInOrder'
  BY <1>1 DEF LogInv, NamesInOrder
<1>4. EntriesTrue'
  <2> SUFFICES ASSUME NEW g, NEW i, Has(files', g, i) PROVE True(files[g][i])'
    BY DEF EntriesTrue
  <2>1. CASE Has(files, g, i) /\ files'[g][i] = files[g][i]
    <3>1. True(files[g][i])
      BY <2>1 DEF LogInv, EntriesTrue
    <3> QED
      BY <2>1, <3>1 DEF True
  <2>2. CASE files'[g][i] = e
    BY <2>2 DEF True
  <2> QED
    BY <1>2, <2>1, <2>2
<1>5. FullWhenRotated'
  <2> SUFFICES ASSUME raced = {}, NEW g \in 1..Len(files), g # dir[0]
               PROVE  Len(files'[g]) >= MaxSize
    BY <1>1 DEF FullWhenRotated
  <2>1. Len(files[g]) >= MaxSize
    BY DEF LogInv, FullWhenRotated
  <2>2. Len(files'[g]) >= Len(files[g]) /\ Len(files'[g]) \in Nat
    BY DEF WithEntry
  <2>3. Len(files[g]) \in Nat
    BY <1>1
  <2> QED
    BY <2>1, <2>2, <2>3, LogAssumption
<1>6. PendingFirst'
  <2> SUFFICES ASSUME raced = {}, NEW g, NEW k, NEW i, NEW j, Has(files', g, i), Has(files', k, j),
                      SameTx(files'[g][i], files'[k][j])
               PROVE  /\ files'[g][i].status = "pending" /\ files'[k][j].status # "pending"
                           => Earlier(g, i, k, j)
                      /\ files'[g][i].err => files'[k][j].err
    BY DEF PendingFirst, Earlier
  <2>1. CASE Has(files, g, i) /\ files'[g][i] = files[g][i] /\ Has(files, k, j) /\ files'[k][j] = files[k][j]
    BY <2>1 DEF LogInv, PendingFirst
  <2>2. CASE files'[g][i] = e /\ files'[k][j] = e
    BY <2>2
  <2>3. CASE p \in Commands
    <3>1. e.tx = p /\ (e.hash => \A f, l : Has(files, f, l) => ~(files[f][l].hash /\ files[f][l].tx = p))
      BY <1>1, <2>3 DEF Proc, OwnFirst
    <3> QED
      BY <1>2, <2>1, <2>2, <3>1, SMTT(30) DEF SameTx
  <2>4. CASE p \notin Commands
    <3>1. /\ e.hash /\ e.status # "pending" /\ ~e.err
          /\ \A f, l : /\ Has(files, f, l) /\ SameTx(e, files[f][l])
                       /\ files[f][l].status = "pending"
                       => f <= h
      BY <1>1, <2>4 DEF Proc, Revision
    <3>4. \A f, l : Has(files, f, l) /\ SameTx(e, files[f][l]) => ~files[f][l].err
      <4>1. PICK f, l : Has(files, f, l) /\ SameTx(e, files[f][l]) /\ ~files[f][l].err
        BY <1>1, <2>4 DEF Proc, Revision
      <4>2. \A a, b : Has(files, a, b) /\ SameTx(e, files[a][b]) => SameTx(files[a][b], files[f][l])
        BY <4>1 DEF SameTx
      <4> QED
        BY <4>1, <4>2, Zenon DEF LogInv, PendingFirst
    <3>2. CASE k = h /\ j = n /\ files'[k][j] = e /\ Has(files, g, i) /\ files'[g][i] = files[g][i]
      <4>1. SameTx(e, files[g][i])
        BY <3>2, Zenon DEF SameTx
      <4>2. files'[g][i].status = "pending" => g <= h
        BY <3>1, <3>2, <4>1
      <4>3. g = h => i < n
        BY <3>2 DEF WithEntry
      <4>4. g \in Nat /\ h \in Nat
        BY <1>1, <3>2, HasEntry
      <4> QED
        BY <3>2, <3>4, <4>1, <4>2, <4>3, <4>4 DEF Earlier
    <3>3. CASE g = h /\ i = n /\ files'[g][i] = e
      BY <3>1, <3>3
    <3> QED
      BY <1>2, <2>1, <3>2, <3>3, Zenon
  <2> QED
    BY <2>3, <2>4
<1> QED
  BY <1>3, <1>4, <1>5, <1>6

(* A reader's entries meanwhile. *)
LEMMA WriteReads ==
    ASSUME LogInv, NEW h, NEW n, NEW e, WithEntry(files, files', h, n, e),
           \A g, i : Has(files, g, i) => files[g][i].id # e.id,
           NEW q \in Procs, ps'[q].read = ps[q].read
    PROVE  /\ ReadFromFiles(q)' /\ ReadInOrder(q)'
           /\ \A a \in 1..Len(ps[q].read) : \A g, i :
                Has(files', g, i) /\ files'[g][i] = ps[q].read[a] =>
                    Has(files, g, i) /\ files[g][i] = ps[q].read[a]
<1>1. ReadFromFiles(q) /\ ReadInOrder(q)
  BY DEF LogInv, Proc
<1>2. ASSUME NEW a \in 1..Len(ps[q].read), NEW g, NEW i, Has(files', g, i),
             files'[g][i] = ps[q].read[a]
      PROVE  Has(files, g, i) /\ files[g][i] = ps[q].read[a]
  <2>1. PICK k, j : Has(files, k, j) /\ files[k][j] = ps[q].read[a]
    BY <1>1 DEF ReadFromFiles
  <2>2. files'[g][i] # e
    BY <1>2, <2>1
  <2> QED
    BY <1>2, <2>2 DEF WithEntry
<1>3. ReadFromFiles(q)'
  <2> SUFFICES ASSUME NEW a \in 1..Len(ps[q].read)
               PROVE  \E g, i : Has(files', g, i) /\ files'[g][i] = ps[q].read[a]
    BY DEF ReadFromFiles
  <2>1. PICK g, i : Has(files, g, i) /\ files[g][i] = ps[q].read[a]
    BY <1>1 DEF ReadFromFiles
  <2>2. Has(files', g, i) /\ files'[g][i] = ps[q].read[a]
    BY <2>1 DEF WithEntry
  <2> QED
    BY <2>2
<1>4. ReadInOrder(q)'
  <2> SUFFICES ASSUME NEW a \in 1..Len(ps[q].read), NEW b \in 1..Len(ps[q].read),
                      NEW g, NEW k, NEW i, NEW j,
                      a < b, Has(files', g, i), Has(files', k, j),
                      files'[g][i] = ps[q].read[a], files'[k][j] = ps[q].read[b]
               PROVE  Earlier(g, i, k, j)
    BY DEF ReadInOrder, InOrder, Earlier
  <2> QED
    BY <1>1, <1>2 DEF ReadInOrder, InOrder
<1> QED
  BY <1>2, <1>3, <1>4

(* The other processes meanwhile. *)
LEMMA WriteOthers ==
    ASSUME LogInv, NEW p \in Procs, ps[p].at = "write", NEW h, NEW n, NEW e,
           h = ps[p].handle, e = ps[p].entry, h \in 1..Len(files),
           e \in LogEntry, WithEntry(files, files', h, n, e), e.id < next,
           \A g, i : Has(files, g, i) => files[g][i].id # e.id,
           UNCHANGED <<dir, chain, next, raced>>,
           NEW q \in Procs, q # p, ps'[q] = ps[q]
    PROVE  Proc(q)'
<1>1. /\ files \in Seq(Seq(LogEntry)) /\ Len(files') = Len(files) /\ n \in Nat /\ Proc(p) /\ Proc(q)
      /\ ps[p].at \in Holding
  BY DEF LogInv, LogTypes, WithEntry, Holding
<1>2. \A g, i : Has(files', g, i) => \/ Has(files, g, i) /\ files'[g][i] = files[g][i]
                                     \/ g = h /\ i = n /\ files'[g][i] = e
  BY DEF WithEntry
<1>3. \A g, i : Has(files, g, i) => Has(files', g, i) /\ files'[g][i] = files[g][i]
  BY Zenon DEF WithEntry
<1>4. AtWork(q)'
  <2>1. ASSUME ps[q].at = "rename" PROVE Len(files'[ps[q].handle]) >= MaxSize
    <3>1. ps[q].handle \in 1..Len(files) /\ Len(files[ps[q].handle]) >= MaxSize
      BY <1>1, <2>1, Zenon DEF Proc, AtWork
    <3>2. /\ Len(files'[ps[q].handle]) >= Len(files[ps[q].handle])
          /\ Len(files'[ps[q].handle]) \in Nat
      BY <3>1, Zenon DEF WithEntry
    <3>3. Len(files[ps[q].handle]) \in Nat
      BY <1>1, <3>1
    <3> QED
      BY <3>1, <3>2, <3>3, LogAssumption, SMTT(30)
  <2> QED
    BY <1>1, <2>1, Zenon DEF Proc, AtWork
<1>5. Held(q)'
  <2>1. True(ps[q].entry)' <=> True(ps[q].entry)
    BY DEF True
  <2>2. ASSUME ps[q].at \in Holding, NEW g, NEW i, Has(files', g, i)
        PROVE  files'[g][i].id # ps[q].entry.id
    <3>1. e.id # ps[q].entry.id
      BY <1>1, <2>2, Zenon DEF LogInv, Numbered
    <3>2. \A f, l : Has(files, f, l) => files[f][l].id # ps[q].entry.id
      BY <1>1, <2>2, Zenon DEF Proc, Held
    <3> QED
      BY <1>2, <2>2, <3>1, <3>2, Zenon
  <2> QED
    BY <1>1, <2>1, <2>2, Zenon DEF Proc, Held
<1>6. /\ ReadFromFiles(q)' /\ ReadInOrder(q)'
      /\ \A a \in 1..Len(ps[q].read) : \A g, i :
           Has(files', g, i) /\ files'[g][i] = ps[q].read[a] =>
               Has(files, g, i) /\ files[g][i] = ps[q].read[a]
  BY WriteReads
<1>7. LeftIsNewer(q)'
  <2> SUFFICES ASSUME ps[q].at = "read", NEW a \in 1..Len(ps[q].read), NEW g, NEW j,
                      NEW i \in 0..(MaxRotated - ps[q].reading),
                      Has(files', g, j), files'[g][j] = ps[q].read[a], dir[i] # 0
               PROVE  g < dir[i]
    BY Zenon DEF LeftIsNewer
  <2>1. Has(files, g, j) /\ files[g][j] = ps[q].read[a]
    BY <1>6, SMTT(30)
  <2> QED
    BY <1>1, <2>1, Zenon DEF Proc, LeftIsNewer
<1>8. ReadComplete(q)'
  <2>1. \A id : InRead(q, id) => InRead(q, id)'
    BY DEF InRead
  <2>2. ASSUME NEW id, InLeft(q, id) PROVE InLeft(q, id)'
    <3>1. PICK i \in 0..(MaxRotated - ps[q].reading) : \E j :
            dir[i] # 0 /\ Has(files, dir[i], j) /\ files[dir[i]][j].id = id
      BY <2>2 DEF InLeft
    <3>2. PICK j : dir[i] # 0 /\ Has(files, dir[i], j) /\ files[dir[i]][j].id = id
      BY <3>1
    <3>3. Has(files', dir[i], j) /\ files'[dir[i]][j].id = id
      BY <1>3, <3>2, Zenon
    <3> QED
      BY <3>2, <3>3 DEF InLeft
  <2>3. ReadComplete(q)
    BY <1>1, Zenon DEF Proc
  <2> QED
    BY <2>1, <2>2, <2>3, Zenon DEF ReadComplete
<1>9. OwnFirst(q)'
  <2>1. OwnFirst(q)
    BY <1>1, Zenon DEF Proc
  <2>2. ASSUME q \in Commands,
               \/ ps[q].at \in {"start", "broadcast"}
               \/ ps[q].at \in Holding /\ ps[q].entry.hash,
               NEW g, NEW i, Has(files', g, i)
        PROVE  ~(files'[g][i].hash /\ files'[g][i].tx = q)
    <3>1. \A f, l : Has(files, f, l) => ~(files[f][l].hash /\ files[f][l].tx = q)
      BY <2>1, <2>2 DEF OwnFirst
    <3>2. ~(e.hash /\ e.tx = q)
      <4>1. CASE p \in Commands
        BY <1>1, <4>1, Zenon DEF Proc, OwnFirst
      <4>2. CASE p \notin Commands
        <5>1. \E f, l : Has(files, f, l) /\ SameTx(e, files[f][l])
          BY <1>1, <4>2, Zenon DEF Proc, Revision
        <5> QED
          BY <3>1, <5>1 DEF SameTx
      <4> QED
        BY <4>1, <4>2
    <3> QED
      BY <1>2, <2>2, <3>1, <3>2, SMTT(30)
  <2> QED
    BY <2>1, <2>2, Zenon DEF OwnFirst
<1>10. Revision(q)'
  <2> SUFFICES ASSUME q \notin Commands, ps[q].at \in Holding
               PROVE  /\ ps[q].entry.hash /\ ps[q].entry.status # "pending" /\ ~ps[q].entry.err
                      /\ \E g, i : /\ Has(files', g, i) /\ SameTx(ps[q].entry, files'[g][i])
                                   /\ ~files'[g][i].err
                      /\ ps[q].at = "write" /\ raced = {} =>
                            \A g, i :
                                /\ Has(files', g, i) /\ SameTx(ps[q].entry, files'[g][i])
                                /\ files'[g][i].status = "pending"
                                => g <= ps[q].handle
    BY DEF Revision
  <2>1. Revision(q)
    BY <1>1, Zenon DEF Proc
  <2>2. ps[q].entry.hash /\ ps[q].entry.status # "pending" /\ ~ps[q].entry.err
    BY <2>1, Zenon DEF Revision
  <2>3. PICK f, l : Has(files, f, l) /\ SameTx(ps[q].entry, files[f][l]) /\ ~files[f][l].err
    BY <2>1 DEF Revision
  <2>4. Has(files', f, l) /\ SameTx(ps[q].entry, files'[f][l]) /\ ~files'[f][l].err
    BY <1>3, <2>3, Zenon
  <2>5. ASSUME ps[q].at = "write", raced = {}, NEW g, NEW i, Has(files', g, i),
               SameTx(ps[q].entry, files'[g][i]), files'[g][i].status = "pending"
        PROVE  g <= ps[q].handle
    <3>1. CASE Has(files, g, i) /\ files'[g][i] = files[g][i]
      BY <2>1, <2>5, <3>1 DEF Revision
    <3>2. CASE files'[g][i] = e
      <4>1. CASE p \in Commands
        <5>1. e.tx = p /\ e.hash
          BY <1>1, <2>5, <3>2, <4>1, Zenon DEF Proc, OwnFirst, SameTx
        <5>2. ~(files[f][l].hash /\ files[f][l].tx = p)
          BY <1>1, <2>3, <4>1, <5>1, Zenon DEF Proc, OwnFirst
        <5> QED
          BY <2>3, <2>5, <3>2, <5>1, <5>2 DEF SameTx
      <4>2. CASE p \notin Commands
        BY <1>1, <2>5, <3>2, <4>2, Zenon DEF Proc, Revision
      <4> QED
        BY <4>1, <4>2
    <3> QED
      BY <1>2, <2>5, <3>1, <3>2, Zenon
  <2> QED
    BY <2>2, <2>4, <2>5, Zenon
<1>11. TodoPending(q)'
  BY <1>1 DEF Proc, TodoPending, Rows
<1> QED
  BY <1>4, <1>5, <1>6, <1>7, <1>8, <1>9, <1>10, <1>11, Zenon DEF Proc

LEMMA WriteLogInv ==
    ASSUME LogInv, NEW p \in Procs, Write(p)
    PROVE  LogInv'
<1>1. /\ ps \in [Procs -> Process] /\ ps[p] \in Process /\ ps[p].at = "write" /\ Proc(p)
      /\ UNCHANGED <<dir, chain, next, raced>> /\ files \in Seq(Seq(LogEntry))
  BY DEF LogInv, LogTypes, Write
<1>2. PICK h, n, e :
        /\ h = ps[p].handle /\ e = ps[p].entry /\ e \in LogEntry /\ h \in 1..Len(files)
        /\ WithEntry(files, files', h, n, e)
        /\ e.id < next /\ True(e)
        /\ \A g, i : Has(files, g, i) => files[g][i].id # e.id
  BY WriteFacts
<1>3. PICK r : r = IF p \in Commands THEN Idle("end")
                   ELSE [ps[p] EXCEPT !.at = "reconcile", !.entry = << >>]
  OBVIOUS
<1>4. /\ r \in Process
      /\ p \in Commands => r = Idle("end")
      /\ p \notin Commands => /\ r.at = "reconcile" /\ r.handle = ps[p].handle
                              /\ r.read = ps[p].read /\ r.todo = ps[p].todo
  <2>1. CASE p \in Commands
    BY <1>3, <2>1, IdleFacts
  <2>2. CASE p \notin Commands
    BY <1>1, <1>3, <2>2, Zenon DEF Process
  <2> QED
    BY <2>1, <2>2
<1>5. ps' = [ps EXCEPT ![p] = r]
  BY <1>3 DEF Write, Set
<1>6. ps' \in [Procs -> Process] /\ ps'[p] = r /\ \A q \in Procs : q # p => ps'[q] = ps[q]
  BY <1>1, <1>4, <1>5
<1>7. ps'[p].at \notin Holding
  <2>1. CASE p \in Commands
    BY <1>4, <1>6, <2>1, IdleFacts DEF Holding
  <2>2. CASE p \notin Commands
    BY <1>4, <1>6, <2>2, Zenon DEF Holding
  <2> QED
    BY <2>1, <2>2
<1>8. LogTypes'
  BY <1>1, <1>2, <1>6, Zenon DEF LogInv, LogTypes, WithEntry
<1>9. Numbered'
  <2>1. \A g, i : Has(files', g, i) => \/ Has(files, g, i) /\ files'[g][i] = files[g][i]
                                       \/ g = h /\ i = n /\ files'[g][i] = e
    BY <1>2 DEF WithEntry
  <2>2. ASSUME NEW q \in Procs, NEW k \in Procs, ps'[q].at \in Holding, ps'[k].at \in Holding,
               ps'[q].entry.id = ps'[k].entry.id
        PROVE  q = k
    <3>1. ps'[q] = ps[q] /\ ps'[k] = ps[k]
      BY <1>6, <1>7, <2>2
    <3> QED
      BY <2>2, <3>1 DEF LogInv, Numbered
  <2>3. ASSUME NEW g, NEW k, NEW i, NEW j, Has(files', g, i), Has(files', k, j),
               files'[g][i].id = files'[k][j].id
        PROVE  g = k /\ i = j
    <3>1. CASE /\ Has(files, g, i) /\ files'[g][i] = files[g][i]
               /\ Has(files, k, j) /\ files'[k][j] = files[k][j]
      BY <2>3, <3>1, Zenon DEF LogInv, Numbered
    <3>2. CASE g = h /\ i = n /\ files'[g][i] = e
      BY <1>2, <2>1, <2>3, <3>2
    <3>3. CASE k = h /\ j = n /\ files'[k][j] = e
      BY <1>2, <2>1, <2>3, <3>3, SMTT(30)
    <3> QED
      BY <2>1, <2>3, <3>1, <3>2, <3>3, Zenon
  <2>4. ASSUME NEW g, NEW i, Has(files', g, i) PROVE files'[g][i].id < next'
    <3>1. CASE Has(files, g, i) /\ files'[g][i] = files[g][i]
      BY <1>1, <3>1, Zenon DEF LogInv, Numbered
    <3>2. CASE files'[g][i] = e
      BY <1>1, <1>2, <3>2, Zenon
    <3> QED
      BY <2>1, <2>4, <3>1, <3>2, Zenon
  <2> QED
    BY <2>2, <2>3, <2>4 DEF Numbered
<1>10. NamesInOrder' /\ EntriesTrue' /\ FullWhenRotated' /\ PendingFirst'
  BY <1>1, <1>2, WriteFiles
<1>11. ASSUME NEW q \in Procs, q # p PROVE Proc(q)'
  <2>1. ps'[q] = ps[q]
    BY <1>6, <1>11
  <2> QED
    BY <1>1, <1>2, <1>11, <2>1, WriteOthers, Zenon
<1>12. Proc(p)'
  <2>1. CASE p \in Commands
    BY <1>4, <1>6, <2>1, Ended
  <2>2. CASE p \notin Commands
    <3>1. /\ ps'[p].at = "reconcile" /\ ps'[p].handle = ps[p].handle
          /\ ps'[p].read = ps[p].read /\ ps'[p].todo = ps[p].todo
      BY <1>4, <1>6, <2>2, Zenon
    <3>2. AtWork(p)'
      <4>1. ps[p].handle \in 1..Len(files')
        BY <1>2, Zenon DEF WithEntry
      <4> QED
        BY <2>2, <3>1, <4>1, Zenon DEF AtWork, Holding
    <3>3. Held(p)' /\ OwnFirst(p)' /\ Revision(p)'
      BY <2>2, <3>1 DEF Held, OwnFirst, Revision, Holding
    <3>4. ReadFromFiles(p)' /\ ReadInOrder(p)'
      BY <1>2, <3>1, WriteReads, Zenon
    <3>5. LeftIsNewer(p)' /\ ReadComplete(p)'
      BY <3>1, Zenon DEF LeftIsNewer, ReadComplete
    <3>6. TodoPending(p)'
      BY <1>1, <3>1 DEF Proc, TodoPending, Holding, Rows
    <3> QED
      BY <3>2, <3>3, <3>4, <3>5, <3>6, Zenon DEF Proc
  <2> QED
    BY <2>1, <2>2, Zenon
<1> QED
  BY <1>8, <1>9, <1>10, <1>11, <1>12 DEF LogInv

-----------------------------------------------------------------------------
LEMMA NextLogInv == ASSUME LogInv, [LogNext]_logVars PROVE LogInv'
<1>1. CASE Block
  BY <1>1, BlockLogInv
<1>2. ASSUME NEW p \in Procs,
             \/ Open(p) \/ maybeRotate(p) \/ Rename(p) \/ Reopen(p)
             \/ Write(p) \/ Broadcast(p)
      PROVE  LogInv'
  BY <1>2, OpenLogInv, maybeRotateLogInv, RenameLogInv, ReopenLogInv, WriteLogInv,
     BroadcastLogInv
<1>3. ASSUME NEW p \in Procs,
             \/ ReadLogFile(p) \/ Show(p) \/ reconcilePendingTransactions(p)
             \/ ReadAgain(p)
      PROVE  LogInv'
  BY <1>3, ReadLogFileLogInv, ShowLogInv, reconcileLogInv, ReadAgainLogInv
<1>4. ASSUME NEW p \in Procs, Finish(p) \/ Crash(p)
      PROVE  LogInv'
  BY <1>4, EndLogInv DEF Finish, Crash, Set
<1>5. CASE UNCHANGED logVars
  <2>1. UNCHANGED <<files, dir, ps, chain, next, raced>>
    BY <1>5 DEF logVars
  <2>2. ChainGoesOn /\ next' \in Nat /\ next' >= next
    BY <2>1 DEF ChainGoesOn, True, LogInv, LogTypes
  <2>3. ASSUME NEW q \in Procs PROVE Proc(q)'
    BY <2>1, <2>2, OtherRests, Zenon
  <2>4. \A q, r \in Procs :
          /\ ps'[q].at \in Holding /\ ps'[r].at \in Holding /\ ps'[q].entry.id = ps'[r].entry.id
          => q = r
    BY <2>1 DEF LogInv, Numbered
  <2>5. LogTypes'
    BY <2>1 DEF LogInv, LogTypes
  <2> QED
    BY <2>1, <2>2, <2>3, <2>4, <2>5, FilesRest DEF LogInv
<1> QED
  BY <1>1, <1>2, <1>3, <1>4, <1>5 DEF LogNext, Procs

LEMMA LogInvariance == LogSpec => []LogInv
<1>1. LogInit => LogInv
  BY InitLogInv
<1>2. LogInv /\ [LogNext]_logVars => LogInv'
  BY NextLogInv, Zenon
<1> QED
  BY <1>1, <1>2, PTL DEF LogSpec

(* A row is an entry that was read, and an entry of the files. *)
LEMMA RowInFiles ==
    ASSUME LogInv, NEW r \in Readers, NEW m \in Rows(r)
    PROVE  ps[r].read[m] \in LogEntry /\ \E g, i : Has(files, g, i) /\ files[g][i] = ps[r].read[m]
<1>1. r \in Procs /\ ps[r] \in Process /\ Proc(r)
  BY DEF Procs, LogInv, LogTypes
<1>2. ps[r].read \in Seq(LogEntry)
  BY <1>1 DEF Process
<1>3. m \in 1..Len(ps[r].read)
  BY <1>1, <1>2, RowFacts, Zenon
<1> QED
  BY <1>1, <1>2, <1>3 DEF Proc, ReadFromFiles

LEMMA InvRowsAreTrue == LogInv => RowsAreTrue
<1> SUFFICES ASSUME LogInv, NEW r \in Readers, NEW m \in Rows(r), ps[r].read[m].hash
             PROVE  LET e == ps[r].read[m] IN
                    /\ e.status = "success" => chain[e.tx] = "included"
                    /\ e.status = "failed" => e.err \/ chain[e.tx] \in {"rejected", "reverted"}
                    /\ e.err => e.status = "failed"
                    /\ chain[e.tx] = "mempool" => e.err \/ e.status = "pending"
  BY DEF RowsAreTrue
<1>1. ps[r].read[m] \in LogEntry /\ True(ps[r].read[m])
  BY RowInFiles DEF LogInv, EntriesTrue
<1> QED
  BY <1>1, Zenon DEF True, LogEntry, Statuses

LEMMA InvReadOnce == LogInv => ReadOnce
<1> SUFFICES ASSUME LogInv, NEW r \in Readers, NEW a \in DOMAIN ps[r].read,
                    NEW b \in DOMAIN ps[r].read, ps[r].read[a].id = ps[r].read[b].id
             PROVE  a = b
  BY DEF ReadOnce
<1>1. r \in Procs /\ ps[r] \in Process /\ Proc(r)
  BY DEF Procs, LogInv, LogTypes
<1>2. ps[r].read \in Seq(LogEntry)
  BY <1>1 DEF Process
<1>3. a \in 1..Len(ps[r].read) /\ b \in 1..Len(ps[r].read) /\ a \in Nat /\ b \in Nat
  BY <1>2, SMTT(30)
<1>4. PICK g, i : Has(files, g, i) /\ files[g][i] = ps[r].read[a]
  BY <1>1, <1>3, Zenon DEF Proc, ReadFromFiles
<1>5. PICK h, j : Has(files, h, j) /\ files[h][j] = ps[r].read[b]
  BY <1>1, <1>3, Zenon DEF Proc, ReadFromFiles
<1>6. g = h /\ i = j
  BY <1>4, <1>5 DEF LogInv, Numbered
<1>7. ~Earlier(g, i, h, j) /\ ~Earlier(h, j, g, i)
  <2>1. g \in Nat /\ i \in Nat
    BY <1>4, HasEntry, Zenon DEF LogInv, LogTypes
  <2> QED
    BY <1>6, <2>1 DEF Earlier
<1>8. ~(a < b) /\ ~(b < a)
  BY <1>1, <1>3, <1>4, <1>5, <1>7 DEF Proc, ReadInOrder, InOrder
<1> QED
  BY <1>3, <1>8

LEMMA InvComplete == LogInv => CompleteUnlessMoved
<1> SUFFICES ASSUME LogInv, NEW r \in Readers, ps[r].at = "shown", ~ps[r].moved, NEW id \in ps[r].had
             PROVE  id \in {ps[r].read[i].id : i \in DOMAIN ps[r].read}
  BY DEF CompleteUnlessMoved
<1>1. r \in Procs /\ ps[r] \in Process /\ Proc(r)
  BY DEF Procs, LogInv, LogTypes
<1>2. ps[r].read \in Seq(LogEntry)
  BY <1>1, Zenon DEF Process
<1>3. InRead(r, id)
  BY <1>1, Zenon DEF Proc, ReadComplete
<1> QED
  BY <1>2, <1>3 DEF InRead

LEMMA InvLatest == LogInv => LatestUnlessRaced
<1> SUFFICES ASSUME LogInv, raced = {}, NEW r \in Readers, NEW m \in Rows(r),
                    NEW b \in DOMAIN ps[r].read, SameTx(ps[r].read[m], ps[r].read[b]),
                    ps[r].read[b].status # "pending"
             PROVE  ps[r].read[m].status = ps[r].read[b].status
  BY Zenon DEF LatestUnlessRaced, LatestShown
<1> DEFINE e == ps[r].read[m]
           f == ps[r].read[b]
<1>1. r \in Procs /\ ps[r] \in Process /\ Proc(r)
  BY DEF Procs, LogInv, LogTypes
<1>2. ps[r].read \in Seq(LogEntry)
  BY <1>1 DEF Process
<1>4. m \in 1..Len(ps[r].read)
  BY <1>1, <1>2, RowFacts
<1>5. b \in 1..Len(ps[r].read)
  BY <1>2
<1>6. m >= b /\ m \in Nat /\ b \in Nat
  BY <1>1, <1>2, <1>4, <1>5, RowFacts, SMTT(30)
<1>7. PICK g, j : Has(files, g, j) /\ files[g][j] = e
  BY <1>1, <1>4, Zenon DEF Proc, ReadFromFiles
<1>8. PICK h, k : Has(files, h, k) /\ files[h][k] = f
  BY <1>1, <1>5 DEF Proc, ReadFromFiles
<1>9. e.status # "pending"
  <2> SUFFICES ASSUME e.status = "pending" PROVE FALSE
    OBVIOUS
  <2>1. b < m
    BY <1>4, <1>5, <1>6, SMTT(30)
  <2>2. Earlier(h, k, g, j)
    BY <1>1, <1>4, <1>5, <1>7, <1>8, <2>1 DEF Proc, ReadInOrder, InOrder
  <2>3. Earlier(g, j, h, k)
    BY <1>7, <1>8, Zenon DEF LogInv, PendingFirst
  <2>4. g \in Nat /\ j \in Nat /\ h \in Nat /\ k \in Nat
    BY <1>7, <1>8, HasEntry, Zenon DEF LogInv, LogTypes
  <2> QED
    BY <2>2, <2>3, <2>4, SMTT(30) DEF Earlier
<1>10. e \in LogEntry /\ f \in LogEntry /\ True(e) /\ True(f)
  <2>1. e \in LogEntry /\ f \in LogEntry
    BY <1>2, <1>4, <1>5, SMTT(30)
  <2> QED
    BY <1>7, <1>8, <2>1, Zenon DEF LogInv, EntriesTrue
<1>11. e.tx = f.tx /\ e.hash /\ f.hash /\ SameTx(e, f) /\ SameTx(f, e)
  BY DEF SameTx
<1>18. \A a, c, d, w : Has(files, a, d) /\ Has(files, c, w) /\ SameTx(files[a][d], files[c][w])
                         => (files[a][d].err => files[c][w].err)
  BY Zenon DEF LogInv, PendingFirst
<1>16. \A x \in LogEntry : x.err => x.status = "failed"
  BY DEF LogEntry
<1>17. e.status \in {"success", "failed"} /\ f.status \in {"success", "failed"}
  BY <1>9, <1>10, Zenon DEF LogEntry, Statuses
<1> HIDE DEF e, f
<1>12. e.err => f.err
  <2>1. SameTx(files[g][j], files[h][k])
    BY <1>7, <1>8, <1>11
  <2>2. files[g][j].err => files[h][k].err
    BY <1>7, <1>8, <1>18, <2>1, Zenon
  <2> QED
    BY <1>7, <1>8, <2>2
<1>13. f.err => e.err
  <2>1. SameTx(files[h][k], files[g][j])
    BY <1>7, <1>8, <1>11
  <2>2. files[h][k].err => files[g][j].err
    BY <1>7, <1>8, <1>18, <2>1, Zenon
  <2> QED
    BY <1>7, <1>8, <2>2
<1>14. CASE e.err
  BY <1>10, <1>12, <1>14, <1>16, Zenon DEF e, f
<1>15. CASE ~e.err
  <2>1. e.status = f.status
    BY <1>10, <1>11, <1>13, <1>15, <1>17 DEF True
  <2> QED
    BY <2>1 DEF e, f
<1> QED
  BY <1>14, <1>15

(* actionlog.go:86, for any processes, sizes and interleavings of          *)
(* rotations, crashes and look-ups: no row of the log says more than the   *)
(* chain does, unless it records that the broadcast returned an error.     *)
THEOREM RowsAreTrueThm == LogSpec => []RowsAreTrue
  BY LogInvariance, InvRowsAreTrue, PTL

(* log.go:134 and log.go:180, likewise: Read shows no entry twice, misses  *)
(* none unless a file was renamed meanwhile, and shows the settled row of  *)
(* a transaction unless a rotation was raced.                              *)
THEOREM ReadIsFaithfulThm == LogSpec => []ReadIsFaithful
<1>1. LogInv => ReadIsFaithful
  BY InvReadOnce, InvComplete, InvLatest DEF ReadIsFaithful
<1> QED
  BY <1>1, LogInvariance, PTL

-----------------------------------------------------------------------------
(* The deployment store. *)

(* A revision computed for a stored and an incoming record is in range. *)
LEMMA NextVersionInRange ==
    ASSUME NEW old \in StoredRecord \cup {NoRecord}, NEW v \in 0..MaxVersion
    PROVE  nextRecordVersion(old, v) \in 0..MaxVersion
  BY BoundsAssumption, NoRecordAssumption
     DEF nextRecordVersion, StoredRecord, Record

(* A write that is not refused moves the revision of a held record up. *)
LEMMA NextVersionAdvances ==
    ASSUME NEW old \in StoredRecord, NEW v \in 0..MaxVersion,
           nextRecordVersion(old, v) # 0
    PROVE  nextRecordVersion(old, v) > old.rv
  BY BoundsAssumption, NoRecordAssumption
     DEF nextRecordVersion, StoredRecord, Record

(* Setting the revision of a record to one in range leaves a record. *)
LEMMA SetVersion ==
    ASSUME NEW r \in Record, NEW v \in 0..MaxVersion
    PROVE  /\ [r EXCEPT !.rv = v] \in Record
           /\ [r EXCEPT !.rv = v].rv = v
           /\ v # 0 => [r EXCEPT !.rv = v] \in StoredRecord
  BY DEF Record, StoredRecord

(* A put that is not refused leaves a database. *)
LEMMA PutType ==
    ASSUME NEW d \in Database, NEW k \in Keys, NEW r \in Record,
           CanPut(d, k, r)
    PROVE  put(d, k, r) \in Database
  <1>1. d[k] \in StoredRecord \cup {NoRecord}
    BY DEF Database
  <1>2. r.rv \in 0..MaxVersion
    BY DEF Record
  <1>3. nextRecordVersion(d[k], r.rv) \in 0..MaxVersion
    BY <1>1, <1>2, NextVersionInRange, Zenon
  <1>4. [r EXCEPT !.rv = nextRecordVersion(d[k], r.rv)] \in StoredRecord
    BY <1>3, SetVersion DEF CanPut
  <1> QED
    BY <1>4 DEF put, Database

LEMMA ClosedType ==
    ASSUME NEW r \in Record, NEW t \in 1..MaxTime
    PROVE  asClosed(r, t) \in Record
  <1>1. "closed" \in States
    BY DEF States, ValidStates, Buckets
  <1>2. t \in 0..MaxTime
    BY BoundsAssumption
  <1>3. (IF r.state # "closed" \/ r.closedAt = 0 THEN t ELSE r.closedAt)
          \in 0..MaxTime
    BY <1>2 DEF Record
  <1> QED
    BY <1>1, <1>3, Zenon DEF asClosed, Record

LEMMA AbsentType ==
    ASSUME NEW t \in 1..MaxTime
    PROVE  absentDeployment(t) \in Record
  <1>1. "active" \in States
    BY DEF States, ValidStates, Buckets
  <1> QED
    BY <1>1, BoundsAssumption, NothingAssumption DEF absentDeployment, Record

(* What the open transaction writes is a record. *)
LEMMA WrittenType ==
    ASSUME TypeOK, op # "idle", NEW k \in Keys,
           op = "close" \/ env.records[k] # NoRecord
    PROVE  Written(k) \in Record
  <1>1. CASE op = "close"
    <2>1. CASE Holds(db, k)
      <3>1. db[k] \in Record
        BY <2>1 DEF TypeOK, Database, StoredRecord, Holds
      <3> QED
        BY <3>1, <2>1, <1>1, ClosedType DEF Written, TypeOK
    <2>2. CASE ~Holds(db, k)
      BY <2>2, <1>1, ClosedType, AbsentType DEF Written, TypeOK
    <2> QED
      BY <2>1, <2>2
  <1>2. CASE op # "close"
    BY <1>2 DEF Written, TypeOK, Envelope
  <1> QED
    BY <1>1, <1>2

LEMMA EmptyType == Empty \in Database
  BY DEF Empty, Database

LEMMA NoEnvelopeType == NoEnvelope \in Envelope
  BY DEF NoEnvelope, Envelope, Empty

LEMMA NoEnvelopeRecords == NoEnvelope.records \in Database
  BY EmptyType DEF NoEnvelope
-----------------------------------------------------------------------------
Inv == TypeOK /\ WorkIsPrefix

LEMMA InitInv == Init => Inv
  <1> SUFFICES ASSUME Init PROVE Inv
    OBVIOUS
  <1>1. 1 \in 1..MaxTime
    BY BoundsAssumption
  <1>2. TypeOK
    BY <1>1, EmptyType, NoEnvelopeType, NoEnvelopeRecords, Zenon DEF Init, TypeOK
  <1>3. WorkIsPrefix
    BY DEF Init, WorkIsPrefix
  <1> QED
    BY <1>2, <1>3 DEF Inv

LEMMA TypeStep == Inv /\ [Next]_vars => TypeOK'
  <1> SUFFICES ASSUME Inv, [Next]_vars PROVE TypeOK'
    OBVIOUS
  <1> USE DEF Inv
  <1>0. 1 \in 1..MaxTime
    BY BoundsAssumption
  <1>1. ASSUME NEW k \in Keys, NEW r \in Inputs, Put(k, r) PROVE TypeOK'
    BY <1>1, PutType, InputsAssumption, Zenon DEF Put, TypeOK, txVars
  <1>2. ASSUME NEW k \in Keys, Delete(k) PROVE TypeOK'
    BY <1>2 DEF Delete, TypeOK, txVars, Database
  <1>3. ASSUME NEW s \in SyncStates, PutSyncState(s) PROVE TypeOK'
    BY <1>3, Zenon DEF PutSyncState, TypeOK, txVars
  <1>4. CASE Export
    <2>1. [records |-> db, sync |-> sync] \in Envelope
      BY Zenon DEF TypeOK, Envelope, Database, StoredRecord
    <2> QED
      BY <2>1, <1>4, Zenon DEF Export, TypeOK, txVars, Envelope
  <1>5. ASSUME NEW k \in DeploymentKeys, NEW t \in 1..MaxTime, BeginClose(k, t)
        PROVE TypeOK'
    BY <1>5, Zenon DEF BeginClose, TypeOK, LeasesOf, DeploymentKeys
  <1>6. ASSUME NEW e \in Envelopes \cup {file}, NEW m \in BOOLEAN,
               NEW kind \in {"import", "validate"}, BeginImport(e, m, kind)
        PROVE TypeOK'
    BY <1>6, EmptyType, EnvelopesAssumption, Zenon DEF BeginImport, TypeOK
  <1>7. ASSUME NEW k \in Keys, WriteNext(k) PROVE TypeOK'
    <2>1. Written(k) \in Record
      <3>1. k \in Target
        BY <1>7, Zenon DEF WriteNext, Next1, WorkIsPrefix
      <3> QED
        BY <3>1, <1>7, WrittenType DEF WriteNext, Target
    <2>2. work' \in Database
      BY <2>1, <1>7, PutType DEF WriteNext, TypeOK
    <2> QED
      BY <2>2, <1>7, Zenon DEF WriteNext, TypeOK
  <1>8. CASE Commit
    BY <1>8, <1>0, EmptyType, NoEnvelopeType, Zenon
       DEF Commit, EndTransaction, ImportedSync, TypeOK, Envelope
  <1>9. CASE EndValidate
    BY <1>9, <1>0, EmptyType, NoEnvelopeType, Zenon
       DEF EndValidate, EndTransaction, TypeOK
  <1>10. CASE Rollback
    BY <1>10, <1>0, EmptyType, NoEnvelopeType, Zenon
       DEF Rollback, EndTransaction, TypeOK
  <1>11. CASE UNCHANGED vars
    BY <1>11 DEF vars, TypeOK
  <1> QED
    BY <1>1, <1>2, <1>3, <1>4, <1>5, <1>6, <1>7, <1>8, <1>9, <1>10, <1>11, Zenon
       DEF Next

LEMMA PrefixStep == Inv /\ [Next]_vars => WorkIsPrefix'
  <1> SUFFICES ASSUME Inv, [Next]_vars PROVE WorkIsPrefix'
    OBVIOUS
  <1> USE DEF Inv
  <1>1. CASE op' = "idle"
    BY <1>1, Zenon DEF WorkIsPrefix
  <1>2. ASSUME NEW k \in DeploymentKeys, NEW t \in 1..MaxTime, BeginClose(k, t)
        PROVE WorkIsPrefix'
    BY <1>2, Zenon DEF BeginClose, WorkIsPrefix, Target, Base, LeasesOf, Holds
  <1>3. ASSUME NEW e \in Envelopes \cup {file}, NEW m \in BOOLEAN,
               NEW kind \in {"import", "validate"}, BeginImport(e, m, kind)
        PROVE WorkIsPrefix'
    BY <1>3, Zenon DEF BeginImport, WorkIsPrefix, Target, Base
  <1>4. ASSUME NEW k \in Keys, WriteNext(k) PROVE WorkIsPrefix'
    <2>1. /\ k \in todo /\ todo \subseteq Target
          /\ work[k] = Base[k]
      BY <1>4 DEF WriteNext, Next1, WorkIsPrefix
    <2>2. /\ Target' = Target /\ Base' = Base
          /\ todo' = todo \ {k}
          /\ \A j \in Keys : Written(j)' = Written(j) /\ After(j)' = After(j)
      BY <1>4 DEF WriteNext, Target, Base, Written, After, LeasesOf, Holds
    <2>3. /\ work'[k] = After(k)
          /\ \A j \in Keys \ {k} : work'[j] = work[j]
      BY <2>1, <1>4, Zenon DEF WriteNext, put, After, TypeOK, Database
    <2>4. CanPut(Base, k, Written(k))
      BY <2>1, <1>4, Zenon DEF WriteNext, CanPut
    <2>5. \A j \in Keys : CanPut(Base, j, Written(j))'
                             = CanPut(Base, j, Written(j))
      BY <2>2, Zenon DEF CanPut
    <2>6. ASSUME NEW j \in Keys
          PROVE  /\ (j \in Target \ todo)' => /\ CanPut(Base, j, Written(j))'
                                               /\ work'[j] = After(j)'
                 /\ (j \notin Target \ todo)' => work'[j] = Base'[j]
      <3>1. CASE j = k
        BY <3>1, <2>1, <2>2, <2>3, <2>4, <2>5, Zenon
      <3>2. CASE j # k
        BY <3>2, <2>1, <2>2, <2>3, <2>5, <1>4, Zenon DEF WorkIsPrefix, WriteNext
      <3> QED
        BY <3>1, <3>2, Zenon
    <2>7. (todo \subseteq Target)'
      BY <2>1, <2>2, Zenon
    <2> QED
      BY <2>6, <2>7, Zenon DEF WorkIsPrefix
  <1>5. CASE op # "idle" /\ UNCHANGED <<db, op, txVars>>
    BY <1>5 DEF txVars, WorkIsPrefix, Target, Base, After, Written, LeasesOf,
                Holds, CanPut
  <1> QED
    BY <1>1, <1>2, <1>3, <1>4, <1>5, Zenon
       DEF Next, vars, txVars, Put, Delete, PutSyncState, Export, Commit,
           EndValidate, Rollback, EndTransaction

LEMMA InvStep == Inv /\ [Next]_vars => Inv'
  BY TypeStep, PrefixStep DEF Inv

(***************************************************************************)
(* Every reachable state is well typed and the open transaction's working  *)
(* copy is the base with exactly the writes made so far.                   *)
(***************************************************************************)
THEOREM Invariance == Spec => [](TypeOK /\ WorkIsPrefix)
  <1>1. Spec => []Inv
    BY InitInv, InvStep, PTL DEF Spec
  <1> QED
    BY <1>1, PTL DEF Inv
-----------------------------------------------------------------------------
(* Only four actions change the records. *)
LEMMA WhoWrites ==
    ASSUME [Next]_vars, <<db, sync>>' # <<db, sync>>
    PROVE  \/ op = "idle" /\ \E k \in Keys, r \in Inputs : Put(k, r)
           \/ op = "idle" /\ \E k \in Keys : Delete(k)
           \/ op = "idle" /\ db' = db
           \/ Commit
  BY Zenon DEF Next, vars, Put, Delete, PutSyncState, Export, BeginClose,
         BeginImport, WriteNext, EndValidate, Rollback

(* What a commit publishes, key by key. *)
LEMMA CommitOutcome ==
    ASSUME Inv, Commit, NEW k \in Keys
    PROVE  /\ k \in Target => /\ CanPut(Base, k, Written(k))
                              /\ db'[k] = After(k)
           /\ k \notin Target => db'[k] = Base[k]
  BY DEF Inv, Commit, WorkIsPrefix

LEMMA BaseType == TypeOK => Base \in Database
  BY EmptyType DEF Base, TypeOK

(* After(k) carries the next revision of the record the base holds. *)
LEMMA AfterVersion ==
    ASSUME TypeOK, op # "idle", NEW k \in Target, k \in Keys
    PROVE  /\ After(k).rv = nextRecordVersion(Base[k], Written(k).rv)
           /\ After(k).state = Written(k).state
           /\ After(k).closedAt = Written(k).closedAt
           /\ Written(k).rv \in 0..MaxVersion
  <1>1. Written(k) \in Record
    BY WrittenType, Zenon DEF Target
  <1> QED
    BY <1>1 DEF After, Record

LEMMA RevisionStep ==
    ASSUME Inv, [Next]_vars, NEW k \in Keys,
           Holds(db, k), db'[k] \notin {NoRecord, db[k]},
           ~(op = "import" /\ ~merge)
    PROVE  db'[k].rv > db[k].rv
  <1>1. db[k] \in StoredRecord
    BY Zenon DEF Inv, TypeOK, Database, Holds
  <1>2. ASSUME NEW j \in Keys, NEW r \in Inputs, Put(j, r)
        PROVE db'[k].rv > db[k].rv
    <2>1. j = k
      BY <1>2 DEF Put, put, Inv, TypeOK, Database
    <2>2. r \in Record
      BY InputsAssumption
    <2>3. db'[k] = [r EXCEPT !.rv = nextRecordVersion(db[k], r.rv)]
      BY <1>2, <2>1, Zenon DEF Put, put, Inv, TypeOK, Database
    <2>4. r.rv \in 0..MaxVersion
      BY <2>2, Zenon DEF Record
    <2>5. nextRecordVersion(db[k], r.rv) > db[k].rv
      BY <1>1, <1>2, <2>1, <2>4, NextVersionAdvances DEF Put, CanPut
    <2>6. db'[k].rv = nextRecordVersion(db[k], r.rv)
      BY <2>2, <2>3, Zenon DEF Record
    <2> QED
      BY <2>5, <2>6, Zenon
  <1>3. ASSUME NEW j \in Keys, Delete(j) PROVE FALSE
    BY <1>3, Zenon DEF Delete, Inv, TypeOK, Database
  <1>4. CASE Commit
    <2>1. Base = db /\ op # "idle"
      BY <1>4, Zenon DEF Commit, Base
    <2>2. k \in Target
      BY <1>4, <2>1, CommitOutcome, Zenon
    <2>3. nextRecordVersion(db[k], Written(k).rv) # 0 /\ db'[k] = After(k)
      BY <1>4, <2>1, <2>2, CommitOutcome, Zenon DEF CanPut
    <2>4. nextRecordVersion(db[k], Written(k).rv) > db[k].rv
      BY <1>1, <2>1, <2>2, <2>3, AfterVersion, NextVersionAdvances, Zenon DEF Inv
    <2> QED
      BY <2>1, <2>2, <2>3, <2>4, AfterVersion, Zenon DEF Inv
  <1> QED
    BY <1>2, <1>3, <1>4, WhoWrites, Zenon

(***************************************************************************)
(* RecordVersion only moves up, for any interleaving of puts, deletions,   *)
(* closes, merges, failures and crashes; replacing the store excepted.     *)
(***************************************************************************)
THEOREM RevisionsAdvanceThm == Spec => RevisionsAdvance
  <1>1. Inv /\ [Next]_vars
          => [\A k \in Keys :
                 /\ Holds(db, k) /\ db'[k] \notin {NoRecord, db[k]}
                 /\ ~(op = "import" /\ ~merge)
                 => db'[k].rv > db[k].rv]_vars
    BY RevisionStep, Zenon
  <1>2. Spec => []Inv
    BY InitInv, InvStep, PTL DEF Spec
  <1> QED
    BY <1>1, <1>2, PTL DEF Spec, RevisionsAdvance

LEMMA ImportStep ==
    ASSUME Inv, [Next]_vars, op \in {"import", "validate"},
           <<db, sync>>' # <<db, sync>>
    PROVE  op = "import" /\ db' = ImportOutcome /\ sync' = ImportedSync
  <1>1. Commit
    BY WhoWrites
  <1>2. op = "import" /\ sync' = ImportedSync
    BY <1>1, Zenon DEF Commit
  <1>3. \A k \in Keys : db'[k] = ImportOutcome[k]
    BY <1>1, <1>2, CommitOutcome DEF ImportOutcome, Target
  <1>4. db' \in Database
    BY <1>1 DEF Commit, Inv, TypeOK
  <1> QED
    BY <1>2, <1>3, <1>4, Zenon DEF Database, ImportOutcome

(***************************************************************************)
(* An import is all or nothing and a dry run changes nothing, wherever an  *)
(* error, a cancellation or a crash falls.                                 *)
(***************************************************************************)
THEOREM ImportAllOrNothingThm == Spec => ImportAllOrNothing
  <1>1. Inv /\ [Next]_vars
          => [(op \in {"import", "validate"}) =>
                \/ UNCHANGED <<db, sync>>
                \/ /\ op = "import"
                   /\ db' = ImportOutcome
                   /\ sync' = ImportedSync]_vars
    BY ImportStep
  <1>2. Spec => []Inv
    BY InitInv, InvStep, PTL DEF Spec
  <1> QED
    BY <1>1, <1>2, PTL DEF Spec, ImportAllOrNothing

(* Writing a stored record where nothing is held leaves it as it is. *)
LEMMA RewriteAbsent ==
    ASSUME NEW r \in StoredRecord
    PROVE  [r EXCEPT !.rv = nextRecordVersion(NoRecord, r.rv)] = r
  <1>1. nextRecordVersion(NoRecord, r.rv) = r.rv
    BY DEF nextRecordVersion, StoredRecord
  <1> QED
    BY <1>1 DEF StoredRecord, Record

LEMMA RestoreStep ==
    ASSUME Inv, [Next]_vars, op = "import", ~merge, env = file,
           <<db, sync>>' # <<db, sync>>
    PROVE  db' = file.records /\ sync' = file.sync
  <1>1. db' = ImportOutcome /\ sync' = ImportedSync
    BY ImportStep, Zenon
  <1>2. ASSUME NEW k \in Keys PROVE ImportOutcome[k] = file.records[k]
    <2>1. CASE file.records[k] = NoRecord
      BY <2>1 DEF ImportOutcome, Base, Empty
    <2>2. CASE file.records[k] # NoRecord
      <3>1. file.records[k] \in StoredRecord
        BY <2>2, Zenon DEF Inv, TypeOK, Database
      <3>2. Written(k) = file.records[k] /\ Base[k] = NoRecord
        BY DEF Written, Base, Empty
      <3> QED
        BY <2>2, <3>1, <3>2, RewriteAbsent, Zenon DEF ImportOutcome, After
    <2> QED
      BY <2>1, <2>2, Zenon
  <1>3. file.records \in Database
    BY Zenon DEF Inv, TypeOK
  <1>4. ImportOutcome = file.records
    BY <1>2, <1>3 DEF ImportOutcome, Database
  <1> QED
    BY <1>1, <1>4 DEF ImportedSync

(***************************************************************************)
(* Restoring a backup with a replacing import gives back exactly the       *)
(* records, revisions and sync state that were exported.                   *)
(***************************************************************************)
THEOREM RestoreIsExactThm == Spec => RestoreIsExact
  <1>1. Inv /\ [Next]_vars
          => [op = "import" /\ ~merge /\ env = file
                 /\ <<db, sync>>' # <<db, sync>>
              => db' = file.records /\ sync' = file.sync]_vars
    BY RestoreStep
  <1>2. Spec => []Inv
    BY InitInv, InvStep, PTL DEF Spec
  <1> QED
    BY <1>1, <1>2, PTL DEF Spec, RestoreIsExact

LEMMA ClosedFields ==
    ASSUME NEW r \in Record, NEW t \in 1..MaxTime
    PROVE  /\ asClosed(r, t).state = "closed"
           /\ asClosed(r, t).closedAt # 0
           /\ r.state = "closed" /\ r.closedAt # 0
                => asClosed(r, t).closedAt = r.closedAt
  BY BoundsAssumption, SMTT(30) DEF asClosed, Record

LEMMA CloseStep ==
    ASSUME Inv, [Next]_vars, op = "close", db' # db
    PROVE  /\ \A k \in {closing} \cup LeasesOf(db, closing) :
                 /\ db'[k].state = "closed"
                 /\ db'[k].closedAt # 0
                 /\ Holds(db, k) /\ db[k].state = "closed"
                      /\ db[k].closedAt # 0
                    => db'[k].closedAt = db[k].closedAt
           /\ \A k \in Keys \ ({closing} \cup LeasesOf(db, closing)) :
                 db'[k] = db[k]
  <1>1. Commit
    BY WhoWrites
  <1>2. Target = {closing} \cup LeasesOf(db, closing) /\ Base = db
    BY Zenon DEF Target, Base
  <1>3. ASSUME NEW k \in Target
        PROVE  /\ db'[k].state = "closed"
               /\ db'[k].closedAt # 0
               /\ Holds(db, k) /\ db[k].state = "closed" /\ db[k].closedAt # 0
                  => db'[k].closedAt = db[k].closedAt
    <2>1. k \in Keys
      BY <1>2, Zenon DEF Inv, TypeOK, DeploymentKeys, LeasesOf
    <2>2. /\ db'[k].state = Written(k).state
          /\ db'[k].closedAt = Written(k).closedAt
      BY <1>1, <2>1, CommitOutcome, AfterVersion, Zenon DEF Inv
    <2>3. CASE Holds(db, k)
      <3>1. db[k] \in Record /\ closedAt \in 1..MaxTime
        BY <2>1, <2>3, Zenon DEF Inv, TypeOK, Database, StoredRecord, Holds
      <3> QED
        BY <2>2, <2>3, <3>1, ClosedFields, Zenon DEF Written
    <2>4. CASE ~Holds(db, k)
      <3>1. closedAt \in 1..MaxTime
        BY DEF Inv, TypeOK
      <3> QED
        BY <2>2, <2>4, <3>1, AbsentType, ClosedFields, Zenon DEF Written
    <2> QED
      BY <2>3, <2>4
  <1>4. ASSUME NEW k \in Keys \ Target PROVE db'[k] = db[k]
    BY <1>1, <1>2, <1>4, CommitOutcome
  <1> QED
    BY <1>2, <1>3, <1>4, Zenon

(***************************************************************************)
(* MarkDeploymentClosed closes a deployment and all of its leases together *)
(* or not at all, and no other record changes.                             *)
(***************************************************************************)
THEOREM CloseIsAtomicThm == Spec => CloseIsAtomic
  <1>1. Inv /\ [Next]_vars
          => [op = "close" /\ db' # db =>
                /\ \A k \in {closing} \cup LeasesOf(db, closing) :
                      /\ db'[k].state = "closed"
                      /\ db'[k].closedAt # 0
                      /\ Holds(db, k) /\ db[k].state = "closed"
                           /\ db[k].closedAt # 0
                         => db'[k].closedAt = db[k].closedAt
                /\ \A k \in Keys \ ({closing} \cup LeasesOf(db, closing)) :
                      db'[k] = db[k]]_vars
    BY CloseStep
  <1>2. Spec => []Inv
    BY InitInv, InvStep, PTL DEF Spec
  <1> QED
    BY <1>1, <1>2, PTL DEF Spec, CloseIsAtomic
=============================================================================
