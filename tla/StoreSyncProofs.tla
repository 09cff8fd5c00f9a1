-------------------------- MODULE StoreSyncProofs --------------------------
(***************************************************************************)
(* Reconciliations and runs on one store, for any number of deployments,   *)
(* providers and runs and any movement of the chain.                       *)
(***************************************************************************)
EXTENDS StoreSync, SequenceTheorems, TLAPS

(* The keys and what tells them apart. *)
LEMMA KeyFacts ==
    /\ \A d \in DSeqs : /\ deployment(d) \in Keys
                        /\ deployment(d).bucket = "deployments"
                        /\ deployment(d).dseq = d
    /\ \A d \in DSeqs, p \in Providers :
          /\ lease(d, p) \in Keys /\ bid(d, p) \in Keys
          /\ lease(d, p).bucket = "leases" /\ bid(d, p).bucket = "bids"
          /\ lease(d, p).dseq = d /\ bid(d, p).dseq = d
    /\ \A k \in Keys :
          /\ k.dseq \in DSeqs
          /\ k.bucket \in {"deployments", "leases", "bids"}
          /\ k.bucket = "deployments" => k = deployment(k.dseq)
          /\ k.bucket = "leases" => \E p \in Providers : k = lease(k.dseq, p)
          /\ k.bucket = "bids" => \E p \in Providers : k = bid(k.dseq, p)
  BY SyncKeysAssumption DEF SyncKeys, deployment, lease, bid
-----------------------------------------------------------------------------
(***************************************************************************)
(* A chain that makes sense: leases and bids belong to a deployment, a     *)
(* closed deployment has nothing open, and only bids are open or lost.     *)
(***************************************************************************)
Sound(c) ==
    /\ c \in [Keys -> ChainStates]
    /\ \A k \in Keys : c[k] # "none" => c[deployment(k.dseq)] # "none"
    /\ \A k \in Keys : c[deployment(k.dseq)] = "closed" => c[k] \notin {"active", "open"}
    /\ \A k \in Keys : k.bucket = "leases" => c[k] \in {"none", "active"} \cup Ended

(***************************************************************************)
(* What came later: nothing disappears, and nothing of a closed deployment *)
(* changes.                                                                *)
(***************************************************************************)
Later(c, e) ==
    \A k \in Keys :
        /\ c[k] # "none" => e[k] # "none"
        /\ c[deployment(k.dseq)] = "closed" =>
              e[deployment(k.dseq)] = "closed" /\ e[k] = c[k]

Moves(c, e) == Sound(e) /\ Later(c, e)

(* Later is a preorder. *)
LEMMA LaterTransitive ==
    ASSUME NEW a, NEW b, NEW c, Later(a, b), Later(b, c)
    PROVE  Later(a, c)
  BY KeyFacts DEF Later

(* A deployment is made. *)
LEMMA CreateMoves ==
    ASSUME NEW c, Sound(c), NEW d \in DSeqs, c[deployment(d)] = "none"
    PROVE  Moves(c, [c EXCEPT ![deployment(d)] = "active"])
<1> DEFINE e == [c EXCEPT ![deployment(d)] = "active"]
<1>1. \A k \in Keys : e[k] = IF k = deployment(d) THEN "active" ELSE c[k]
  BY DEF Sound
<1>2. e \in [Keys -> ChainStates]
  BY Zenon DEF Sound, ChainStates
<1> HIDE DEF e
<1>3. \A k \in Keys : c[deployment(k.dseq)] = "closed" => k.dseq # d
  OBVIOUS
<1>4. Sound(e)
  <2>1. \A k \in Keys : k.bucket = "leases" => e[k] = c[k]
    BY <1>1, KeyFacts
  <2>2. \A k \in Keys : k.dseq # d => e[deployment(k.dseq)] = c[deployment(k.dseq)] /\ e[k] = c[k]
    <3>1. \A k \in Keys : /\ k.dseq \in DSeqs /\ deployment(k.dseq) \in Keys
                           /\ deployment(k.dseq).dseq = k.dseq /\ deployment(d).dseq = d
      BY KeyFacts
    <3> QED
      BY <1>1, <3>1
  <2>3. e[deployment(d)] = "active"
    BY <1>1, KeyFacts
  <2> QED
    BY <1>2, <2>1, <2>2, <2>3 DEF Sound
<1>5. Later(c, e)
  BY <1>1, KeyFacts DEF Later, Sound
<1> QED
  BY <1>4, <1>5 DEF Moves, e

(* A chain whose objects change among existing states of their kind. *)
LEMMA ChangeMoves ==
    ASSUME NEW c, Sound(c), NEW e \in [Keys -> ChainStates], NEW d \in DSeqs,
           c[deployment(d)] # "none",
           \A k \in Keys : k.dseq # d => e[k] = c[k],
           \A k \in Keys : c[k] # "none" => e[k] # "none",
           \A k \in Keys : k.bucket = "leases" => e[k] \in {c[k], "active"} \cup Ended,
           c[deployment(d)] = "closed" => \A k \in Keys : k.dseq = d => e[k] = c[k],
           e[deployment(d)] = "closed" =>
               \A k \in Keys : k.dseq = d => e[k] \notin {"active", "open"}
    PROVE  Moves(c, e)
<1>1. \A k \in Keys : k.dseq # d => e[deployment(k.dseq)] = c[deployment(k.dseq)]
  BY KeyFacts
<1>2. e[deployment(d)] # "none"
  BY KeyFacts
<1>3. Sound(e)
  <2>1. \A k \in Keys : k.bucket = "leases" => e[k] \in {"none", "active"} \cup Ended
    BY DEF Sound
  <2> QED
    BY <1>1, <1>2, <2>1 DEF Sound
<1>4. Later(c, e)
  BY <1>1, KeyFacts DEF Later
<1> QED
  BY <1>3, <1>4 DEF Moves

(* A bid is made, and a lease of a provider ends. *)
LEMMA BidMoves ==
    ASSUME NEW c, Sound(c), NEW d \in DSeqs, NEW p \in Providers,
           c[deployment(d)] = "active"
    PROVE  Moves(c, [c EXCEPT ![bid(d, p)] = "open"])
<1> DEFINE e == [c EXCEPT ![bid(d, p)] = "open"]
<1>1. \A k \in Keys : e[k] = IF k = bid(d, p) THEN "open" ELSE c[k]
  BY DEF Sound
<1>2. e \in [Keys -> ChainStates]
  BY Zenon DEF Sound, ChainStates
<1> HIDE DEF e
<1>3. /\ bid(d, p).dseq = d /\ bid(d, p).bucket # "leases"
      /\ deployment(d) # bid(d, p) /\ deployment(d) \in Keys
  BY KeyFacts
<1>4. e[deployment(d)] = "active"
  BY <1>1, <1>3
<1>5. Moves(c, e)
  BY <1>1, <1>2, <1>3, <1>4, ChangeMoves
<1> QED
  BY <1>5 DEF e

LEMMA LeaseEndMoves ==
    ASSUME NEW c, Sound(c), NEW d \in DSeqs, NEW p \in Providers,
           c[lease(d, p)] = "active"
    PROVE  Moves(c, [c EXCEPT ![lease(d, p)] = "closed", ![bid(d, p)] = "closed"])
<1> DEFINE e == [c EXCEPT ![lease(d, p)] = "closed", ![bid(d, p)] = "closed"]
<1>0. /\ lease(d, p) \in Keys /\ bid(d, p) \in Keys /\ deployment(d) \in Keys
      /\ lease(d, p).dseq = d /\ bid(d, p).dseq = d
      /\ deployment(d) # bid(d, p) /\ deployment(d) # lease(d, p)
  BY KeyFacts
<1>1. \A k \in Keys : e[k] = IF k \in {lease(d, p), bid(d, p)} THEN "closed" ELSE c[k]
  BY <1>0 DEF Sound
<1>2. e \in [Keys -> ChainStates]
  BY Zenon DEF Sound, ChainStates, Ended
<1> HIDE DEF e
<1>3. c[deployment(d)] # "none" /\ c[deployment(d)] # "closed"
  BY <1>0 DEF Sound
<1>4. e[deployment(d)] = c[deployment(d)]
  BY <1>0, <1>1
<1>5. Moves(c, e)
  BY <1>0, <1>1, <1>2, <1>3, <1>4, ChangeMoves DEF Ended
<1> QED
  BY <1>5 DEF e

LEMMA OverdrawnMoves ==
    ASSUME NEW c, Sound(c), NEW d \in DSeqs, c[deployment(d)] = "active"
    PROVE  Moves(c, [k \in Keys |->
                       IF k.dseq = d /\ c[k] \in {"active", "open"}
                         THEN IF k.bucket = "leases" THEN "insufficient_funds" ELSE "closed"
                         ELSE c[k]])
<1> DEFINE e == [k \in Keys |->
                   IF k.dseq = d /\ c[k] \in {"active", "open"}
                     THEN IF k.bucket = "leases" THEN "insufficient_funds" ELSE "closed"
                     ELSE c[k]]
<1>1. e \in [Keys -> ChainStates]
  BY DEF Sound, ChainStates, Ended
<1>2. \A k \in Keys : /\ k.dseq # d => e[k] = c[k]
                      /\ c[k] # "none" => e[k] # "none"
                      /\ e[k] \in {c[k]} \cup Ended
                      /\ k.dseq = d => e[k] \notin {"active", "open"}
  BY DEF Ended
<1> HIDE DEF e
<1>3. Moves(c, e)
  BY <1>1, <1>2, ChangeMoves
<1> QED
  BY <1>3 DEF e

Transactions ==
    {tx \in [msg : {"create", "lease", "update", "close"}, dseq : DSeqs,
             provider : Providers \cup {Nothing}] :
        tx.msg = "lease" => tx.provider \in Providers}

(* A transaction that is executed. *)
LEMMA AppliedMoves ==
    ASSUME Sound(chain), NEW tx \in Transactions
    PROVE  Moves(chain, Applied(tx))
<1> DEFINE d == tx.dseq
           p == tx.provider
           A == tx.msg = "create" /\ chain[deployment(d)] = "none"
           B == tx.msg = "lease" /\ chain[bid(d, p)] = "open"
           C == tx.msg = "close" /\ chain[deployment(d)] = "active"
<1>0. d \in DSeqs /\ (tx.msg = "lease" => p \in Providers)
  BY DEF Transactions
<1>1. CASE A
  <2>1. Applied(tx) = [chain EXCEPT ![deployment(d)] = "active"]
    BY <1>1, Zenon DEF Applied
  <2> QED
    BY <1>0, <1>1, <2>1, CreateMoves, Zenon
<1>2. CASE B
  <2> DEFINE e == [k \in Keys |->
                     CASE k = lease(d, p) -> "active"
                       [] k = bid(d, p) -> "active"
                       [] k.bucket = "bids" /\ k.dseq = d /\ chain[k] = "open" -> "lost"
                       [] OTHER -> chain[k]]
  <2>1. Applied(tx) = e
    BY <1>2, Zenon DEF Applied
  <2>2. p \in Providers /\ lease(d, p).dseq = d /\ bid(d, p) \in Keys /\ bid(d, p).dseq = d
        /\ bid(d, p).bucket # "leases"
    BY <1>0, <1>2, KeyFacts
  <2>3. ASSUME NEW k \in Keys
        PROVE  /\ e[k] \in {chain[k], "active", "lost"}
               /\ k.dseq # d => e[k] = chain[k]
               /\ e[k] = "none" => chain[k] = "none"
               /\ k.bucket = "leases" => e[k] \in {chain[k], "active"}
    <3>1. CASE k = lease(d, p)
      BY <2>2, <3>1, Zenon
    <3>2. CASE k # lease(d, p) /\ k = bid(d, p)
      BY <2>2, <3>2, Zenon
    <3>3. CASE k # lease(d, p) /\ k # bid(d, p) /\ k.bucket = "bids" /\ k.dseq = d
               /\ chain[k] = "open"
      <4>1. e[k] = "lost"
        BY <3>3, Zenon
      <4> QED
        BY <3>3, <4>1
    <3>4. CASE k # lease(d, p) /\ k # bid(d, p)
               /\ ~(k.bucket = "bids" /\ k.dseq = d /\ chain[k] = "open")
      <4>1. e[k] = chain[k]
        BY <3>4, Zenon
      <4> QED
        BY <4>1
    <3> QED
      BY <3>1, <3>2, <3>3, <3>4
  <2>4. e[deployment(d)] = chain[deployment(d)]
    <3>1. /\ deployment(d) \in Keys /\ deployment(d) # lease(d, p)
          /\ deployment(d) # bid(d, p) /\ deployment(d).bucket # "bids"
      BY <1>0, <2>2, KeyFacts
    <3> QED
      BY <3>1, Zenon
  <2>5. chain[deployment(d)] # "none" /\ chain[deployment(d)] # "closed"
    BY <1>2, <2>2 DEF Sound
  <2>6. \A S : (\A k \in Keys : e[k] \in S) => e \in [Keys -> S]
    BY Zenon
  <2> HIDE DEF e
  <2>7. e \in [Keys -> ChainStates]
    <3>1. \A k \in Keys : e[k] \in ChainStates
      BY <2>3 DEF Sound, ChainStates
    <3> QED
      BY <2>6, <3>1, Zenon
  <2>8. Moves(chain, e)
    BY <1>0, <2>3, <2>4, <2>5, <2>7, ChangeMoves
  <2> QED
    BY <2>1, <2>8
<1>3. CASE C
  <2> DEFINE e == [k \in Keys |-> IF k.dseq = d /\ chain[k] \in {"active", "open"}
                                    THEN "closed" ELSE chain[k]]
  <2>1. Applied(tx) = e
    BY <1>3, Zenon DEF Applied
  <2>2. e \in [Keys -> ChainStates]
    BY DEF Sound, ChainStates, Ended
  <2>3. deployment(d) \in Keys
    BY <1>0, KeyFacts
  <2>4. Moves(chain, e)
    BY <1>0, <1>3, <2>2, <2>3, ChangeMoves DEF Ended
  <2> QED
    BY <2>1, <2>4
<1>4. CASE ~A /\ ~B /\ ~C
  <2>1. Applied(tx) = chain
    BY <1>4, Zenon DEF Applied
  <2> QED
    BY <2>1 DEF Moves, Later
<1> QED
  BY <1>1, <1>2, <1>3, <1>4
-----------------------------------------------------------------------------
(***************************************************************************)
(* A history H of chains, the last of them c: each makes sense, and c is   *)
(* later than all.                                                         *)
(***************************************************************************)
Past(H, c) ==
    /\ H \in Seq([Keys -> ChainStates])
    /\ Len(H) >= 1
    /\ H[Len(H)] = c
    /\ \A i \in 1..Len(H) : Sound(H[i]) /\ Later(H[i], c)

(* A block adds a chain to the history. *)
LEMMA PastGrows ==
    ASSUME NEW H, NEW c, Past(H, c), NEW e, Moves(c, e)
    PROVE  /\ Past(Append(H, e), e)
           /\ Len(Append(H, e)) = Len(H) + 1
           /\ \A i \in 1..Len(H) : Append(H, e)[i] = H[i]
<1> DEFINE G == Append(H, e)
<1>1. e \in [Keys -> ChainStates] /\ Sound(e)
  BY DEF Moves, Sound
<1>2. /\ G \in Seq([Keys -> ChainStates])
      /\ Len(G) = Len(H) + 1
      /\ G[Len(H) + 1] = e
      /\ \A i \in 1..Len(H) : G[i] = H[i]
  BY <1>1, AppendProperties DEF Past
<1>3. Len(H) \in Nat
  BY LenProperties DEF Past
<1> HIDE DEF G
<1>4. \A i \in 1..Len(H) : Later(H[i], e)
  BY LaterTransitive DEF Past, Moves
<1>5. Later(e, e)
  BY DEF Later
<1>6. \A i \in 1..Len(G) : Sound(G[i]) /\ Later(G[i], e)
  <2> SUFFICES ASSUME NEW i \in 1..Len(G) PROVE Sound(G[i]) /\ Later(G[i], e)
    OBVIOUS
  <2>1. CASE i = Len(H) + 1
    BY <1>1, <1>2, <1>5, <2>1
  <2>2. CASE i \in 1..Len(H)
    BY <1>2, <1>4, <2>2 DEF Past
  <2> QED
    BY <1>2, <1>3, <2>1, <2>2
<1>7. Past(G, e)
  BY <1>2, <1>3, <1>6 DEF Past
<1> QED
  BY <1>2, <1>7 DEF G
-----------------------------------------------------------------------------
(* What is left of the record and what comes from the chain after a merge. *)
LEMMA MergeFacts ==
    ASSUME NEW k \in Keys, NEW old \in Record \cup {NoRecord},
           NEW s \in ChainStates \ {"none"}
    PROVE  /\ merge(k, old, fresh(k, s)) \in Record
           /\ merge(k, old, fresh(k, s)).state = storedState(k, s)
           /\ merge(k, old, fresh(k, s)).local = IF old = NoRecord THEN Nothing ELSE old.local
<1> DEFINE new == fresh(k, s)
           kept == IF old = NoRecord THEN new
                   ELSE [new EXCEPT !.local = old.local, !.createdAt = old.createdAt,
                                    !.closedAt = old.closedAt]
<1>1. 0 \in 0..MaxTime /\ 1 \in 0..MaxTime /\ 0 \in 0..MaxVersion
  BY BoundsAssumption
<1>2. storedState(k, s) \in States
  <2>1. /\ {"active", "closed"} \subseteq States /\ {"open", "matched", "lost"} \subseteq States
        /\ "insufficient_funds" \in States
    <3>1. ValidStates("deployments") = {"active", "closed"}
      BY Zenon DEF ValidStates
    <3>2. ValidStates("bids") = {"open", "matched", "closed", "lost"}
      BY Zenon DEF ValidStates
    <3>3. ValidStates("leases") = {"active", "closed", "insufficient_funds"}
      BY Zenon DEF ValidStates
    <3> QED
      BY <3>1, <3>2, <3>3 DEF States, Buckets
  <2> QED
    BY <2>1 DEF storedState, ChainStates, Ended
<1>3. new \in Record /\ new.state = storedState(k, s) /\ new.local = Nothing
  BY <1>1, <1>2, NothingAssumption DEF fresh, Record
<1> HIDE DEF new
<1>4. /\ kept \in Record /\ kept.state = new.state
      /\ kept.local = IF old = NoRecord THEN Nothing ELSE old.local
  BY <1>3, Zenon DEF Record
<1>5. merge(k, old, new) = [kept EXCEPT !.createdAt = 1,
                              !.closedAt = IF k.bucket # "bids" /\ new.state = "closed"
                                             THEN 1 ELSE @]
  BY DEF merge
<1> HIDE DEF kept
<1>6. /\ merge(k, old, new) \in Record
      /\ merge(k, old, new).state = kept.state
      /\ merge(k, old, new).local = kept.local
  BY <1>1, <1>4, <1>5, Zenon DEF Record
<1> QED
  BY <1>3, <1>4, <1>6 DEF new

(* The write of a run, and of a close, is a record and keeps or sets the SDL. *)
LEMMA AsClosedFacts ==
    ASSUME NEW r \in Record
    PROVE  asClosed(r, 1) \in Record /\ asClosed(r, 1).local = r.local
<1>1. 1 \in 0..MaxTime
  BY BoundsAssumption
<1>2. "closed" \in States
  <2>1. ValidStates("deployments") = {"active", "closed"}
    BY Zenon DEF ValidStates
  <2> QED
    BY <2>1 DEF States, Buckets
<1> QED
  BY <1>1, <1>2, Zenon DEF asClosed, Record
DbType == [Keys -> Record \cup {NoRecord}]

LEMMA ApplySDLFacts ==
    ASSUME NEW old \in Identities \cup {Nothing}, NEW sdl \in SDLs \cup {Nothing}, NEW readable
    PROVE  /\ applySDL(old, sdl, readable) \in Identities \cup {Nothing}
           /\ applySDL(old, sdl, readable) \in Contents
<1>1. CASE sdl = Nothing
  BY <1>1, NothingAssumption DEF applySDL
<1>2. CASE sdl # Nothing /\ readable
  <2>1. applySDL(old, sdl, readable) = [path |-> sdl, hash |-> sdl]
    BY <1>2, Zenon DEF applySDL
  <2>2. [path |-> sdl, hash |-> sdl] \in Identities
    BY <1>2 DEF Identities
  <2> QED
    BY <2>1, <2>2, SDLsAssumption, Zenon
<1>3. CASE sdl # Nothing /\ ~readable
  <2>1. applySDL(old, sdl, readable)
          = [path |-> sdl, hash |-> IF old = Nothing THEN Nothing ELSE old.hash]
    BY <1>3, Zenon DEF applySDL
  <2>2. (IF old = Nothing THEN Nothing ELSE old.hash) \in SDLs \cup {Nothing}
    BY DEF Identities
  <2>3. applySDL(old, sdl, readable) \in Identities
    BY <1>3, <2>1, <2>2 DEF Identities
  <2> QED
    BY <2>3, SDLsAssumption, Zenon
<1> QED
  BY <1>1, <1>2, <1>3

LEMMA OutcomeFacts ==
    ASSUME db \in DbType, NEW r \in Runs, run[r].sdl \in SDLs \cup {Nothing}, NEW k \in Keys,
           NEW readable, k.bucket = "deployments" /\ Holds(db, k) =>
                             db[k].local \in Identities \cup {Nothing}
    PROVE  /\ Outcome(r, k, readable) \in Record
           /\ k.bucket = "deployments" =>
                 Outcome(r, k, readable).local \in Identities \cup {Nothing}
<1> DEFINE new(state) == [state |-> state, createdAt |-> 1, closedAt |-> 0,
                          local |-> Nothing, chain |-> Nothing, rv |-> 0]
           B == k.bucket = "bids"
           L == k.bucket = "leases"
           U == k.bucket = "deployments" /\ run[r].kind = "update"
           base == IF Holds(db, k) THEN db[k] ELSE new("active")
<1>1. {"active", "matched", "lost"} \subseteq States
  <2>1. ValidStates("deployments") = {"active", "closed"}
    BY Zenon DEF ValidStates
  <2>2. ValidStates("bids") = {"open", "matched", "closed", "lost"}
    BY Zenon DEF ValidStates
  <2> QED
    BY <2>1, <2>2 DEF States, Buckets
<1>2. \A state \in {"active", "matched", "lost"} : new(state) \in Record
  BY <1>1, BoundsAssumption, NothingAssumption DEF Record
<1>3. CASE B
  <2>1. Outcome(r, k, readable) = new(IF k.provider = run[r].provider THEN "matched" ELSE "lost")
    BY <1>3, Zenon DEF Outcome
  <2> HIDE DEF new
  <2> QED
    BY <1>2, <1>3, <2>1
<1>4. CASE ~B /\ L
  <2>1. Outcome(r, k, readable) = new("active")
    BY <1>4, Zenon DEF Outcome
  <2> HIDE DEF new
  <2> QED
    BY <1>2, <1>4, <2>1
<1>5. CASE ~B /\ ~L /\ U
  <2>1. Outcome(r, k, readable)
          = [base EXCEPT !.local = applySDL(base.local, run[r].sdl, readable)]
    BY <1>5, Zenon DEF Outcome
  <2>2. base \in Record
    BY <1>2 DEF DbType, Holds
  <2>3. base.local \in Identities \cup {Nothing}
    BY <1>5 DEF Holds
  <2> HIDE DEF new, base
  <2>4. /\ applySDL(base.local, run[r].sdl, readable) \in Identities \cup {Nothing}
        /\ applySDL(base.local, run[r].sdl, readable) \in Contents
    BY <2>3, ApplySDLFacts
  <2> QED
    BY <2>1, <2>2, <2>4 DEF Record
<1>6. CASE ~B /\ ~L /\ ~U
  <2>1. Outcome(r, k, readable)
          = [new("active") EXCEPT !.local = applySDL(new("active").local, run[r].sdl, readable)]
    BY <1>6, Zenon DEF Outcome
  <2>2. new("active") \in Record /\ new("active").local = Nothing
    BY <1>2
  <2> HIDE DEF new
  <2>3. /\ applySDL(new("active").local, run[r].sdl, readable) \in Identities \cup {Nothing}
        /\ applySDL(new("active").local, run[r].sdl, readable) \in Contents
    BY <2>2, ApplySDLFacts
  <2> QED
    BY <2>1, <2>2, <2>3 DEF Record
<1> QED
  BY <1>3, <1>4, <1>5, <1>6

LEMMA ClosedFacts ==
    ASSUME db \in DbType, NEW d \in DSeqs, NEW k \in Keys
    PROVE  /\ Closed(k, d) \in Record \cup {NoRecord}
           /\ Holds(db, k) => Closed(k, d) \in Record /\ Closed(k, d).local = db[k].local
           /\ ~Holds(db, k) /\ Closed(k, d) # NoRecord => Closed(k, d).local = Nothing
<1>1. absentDeployment(1) \in Record /\ absentDeployment(1).local = Nothing
  <2>1. ValidStates("deployments") = {"active", "closed"}
    BY Zenon DEF ValidStates
  <2>2. "active" \in States
    BY <2>1 DEF States, Buckets
  <2> QED
    BY <2>2, BoundsAssumption, NothingAssumption DEF absentDeployment, Record
<1>2. CASE k = deployment(d)
  <2>0. k \notin LeasesOf(db, deployment(d))
    BY <1>2, KeyFacts DEF LeasesOf
  <2>1. Closed(k, d) = asClosed(IF Holds(db, k) THEN db[k] ELSE absentDeployment(1), 1)
    BY <1>2, <2>0, Zenon DEF Closed
  <2> QED
    BY <1>1, <2>1, AsClosedFacts DEF DbType, Holds
<1>3. CASE k # deployment(d) /\ k \in LeasesOf(db, deployment(d))
  <2>1. Closed(k, d) = asClosed(db[k], 1)
    BY <1>3, Zenon DEF Closed
  <2>2. db[k] \in Record /\ Holds(db, k)
    BY <1>3 DEF DbType, LeasesOf, Holds
  <2> QED
    BY <2>1, <2>2, AsClosedFacts
<1>4. CASE k # deployment(d) /\ k \notin LeasesOf(db, deployment(d))
  <2>1. Closed(k, d) = db[k]
    BY <1>4, Zenon DEF Closed
  <2> QED
    BY <2>1 DEF DbType, Holds
<1> QED
  BY <1>2, <1>3, <1>4
-----------------------------------------------------------------------------
(***************************************************************************)
(* How far a reconciliation s has come, over a history H ending in c and   *)
(* records D.  Seen: x is a state the key had since the recorded height,   *)
(* and a lease under a deployment listed as closed was seen in its end.    *)
(***************************************************************************)
Seen(s, H, k, x) ==
    /\ x \in ChainStates \ {"none"}
    /\ \E h \in s.height..(Len(H) - 1) : x = H[h + 1][k]
    /\ k.bucket = "leases" /\ s.listed[k.dseq] = "closed" => x \in Ended /\ x = H[Len(H)][k]

Put(s, H, D, k) ==
    D[k] # NoRecord /\ \E x \in ChainStates : Seen(s, H, k, x) /\ D[k].state = storedState(k, x)

(* What must be in the store at the end. *)
Due(s, H, c, k) ==
    \/ H[s.height + 1][k] # "none"
    \/ k.bucket = "leases" /\ s.listed[k.dseq] = "closed" /\ c[k] # "none"

(* What the rest of the reconciliation will still write. *)
Waits(s, k) ==
    \/ k.dseq \in s.left
    \/ /\ k.dseq = s.cur
       /\ \/ s.pc = "leases" /\ k.bucket \in {"leases", "bids"}
          \/ s.pc = "putLeases" /\ k.bucket = "bids"
          \/ s.pc = "bids" /\ k.bucket = "bids"
          \/ s.pc \in {"putLeases", "putBids"} /\ \E o \in s.batch : o[1] = k

Bucket(pc) == IF pc = "putLeases" THEN "leases" ELSE "bids"

Listing == {"next", "leases", "putLeases", "bids", "putBids"}

Progress(s, H, c, D) ==
    /\ s.pc \in Listing \cup {"list", "finish"} => s.height \in 0..(Len(H) - 1)
    /\ s.pc \in Listing =>
          /\ \A d \in DSeqs : /\ s.listed[d] = "closed" => c[deployment(d)] = "closed"
                              /\ s.listed[d] # "none" => Seen(s, H, deployment(d), s.listed[d])
          /\ \A d \in s.left : s.listed[d] # "none"
          /\ \A k \in Keys : Due(s, H, c, k) => Put(s, H, D, k) \/ Waits(s, k)
    /\ s.pc \in {"putLeases", "putBids"} =>
          \A o \in s.batch : /\ o[1] \in Keys /\ o[1].bucket = Bucket(s.pc) /\ o[1].dseq = s.cur
                             /\ Seen(s, H, o[1], o[2])
(* The chain moves under a reconciliation. *)
LEMMA ProgressGrows ==
    ASSUME NEW s, NEW H, NEW c, NEW D, Past(H, c), Progress(s, H, c, D),
           NEW G, NEW e, Later(c, e), Len(G) = Len(H) + 1,
           \A i \in 1..Len(H) : G[i] = H[i], G[Len(G)] = e
    PROVE  Progress(s, G, e, D)
<1>1. Len(H) \in Nat
  BY LenProperties DEF Past
<1>2. CASE s.pc \notin Listing
  BY <1>1, <1>2, SMTT(30) DEF Progress, Listing
<1>3. CASE s.pc \in Listing
  <2>1. s.height \in 0..(Len(H) - 1) /\ s.height \in 0..(Len(G) - 1)
    BY <1>1, <1>3 DEF Progress
  <2>2. G[s.height + 1] = H[s.height + 1]
    BY <1>1, <2>1
  <2>3. ASSUME NEW k \in Keys, NEW x, Seen(s, H, k, x)
        PROVE  Seen(s, G, k, x)
    <3>1. PICK h \in s.height..(Len(H) - 1) : x = H[h + 1][k]
      BY <2>3 DEF Seen
    <3>2. h \in s.height..(Len(G) - 1) /\ h + 1 \in 1..Len(H)
      BY <1>1, <2>1
    <3>3. s.listed[k.dseq] = "closed" => G[Len(G)][k] = H[Len(H)][k]
      <4>1. k.dseq \in DSeqs /\ H[Len(H)] = c
        BY KeyFacts DEF Past
      <4> QED
        BY <1>3, <4>1, Zenon DEF Progress, Later
    <3> QED
      BY <2>3, <3>1, <3>2, <3>3 DEF Seen
  <2>4. \A k \in Keys : Put(s, H, D, k) => Put(s, G, D, k)
    BY <2>3 DEF Put
  <2>5. \A d \in DSeqs : s.listed[d] = "closed" => e[deployment(d)] = "closed"
    <3>1. \A d \in DSeqs : deployment(d) \in Keys /\ deployment(d).dseq = d
      BY KeyFacts
    <3> QED
      BY <1>3, <3>1 DEF Progress, Later
  <2>6. \A k \in Keys : Due(s, G, e, k) => Due(s, H, c, k)
    <3>1. \A k \in Keys : k.dseq \in DSeqs
      BY KeyFacts
    <3>2. \A k \in Keys : s.listed[k.dseq] = "closed" /\ e[k] # "none" => c[k] # "none"
      BY <1>3, <3>1, Zenon DEF Progress, Later
    <3> QED
      BY <2>2, <3>2 DEF Due
  <2>7. \A d \in DSeqs : deployment(d) \in Keys
    BY KeyFacts
  <2> QED
    BY <1>3, <2>1, <2>3, <2>4, <2>5, <2>6, <2>7 DEF Progress
<1> QED
  BY <1>2, <1>3

(* The deployments are listed. *)
LEMMA ProgressLists ==
    ASSUME NEW s, NEW H, NEW c, NEW D, Past(H, c), Progress(s, H, c, D), s.pc = "list",
           NEW t, t.pc = "next", t.height = s.height,
           t.listed = [d \in DSeqs |-> c[deployment(d)]],
           t.left = {d \in DSeqs : c[deployment(d)] # "none"}
    PROVE  Progress(t, H, c, D)
<1>1. Len(H) \in Nat /\ s.height \in 0..(Len(H) - 1)
  BY LenProperties DEF Past, Progress
<1>2. Sound(c) /\ H[(Len(H) - 1) + 1] = c
  BY <1>1 DEF Past
<1>3. \A d \in DSeqs : t.listed[d] # "none" => Seen(t, H, deployment(d), t.listed[d])
  <2> SUFFICES ASSUME NEW d \in DSeqs, t.listed[d] # "none"
               PROVE  Seen(t, H, deployment(d), t.listed[d])
    OBVIOUS
  <2>1. t.listed[d] = c[deployment(d)] /\ deployment(d) \in Keys
        /\ deployment(d).bucket # "leases"
    BY KeyFacts
  <2>2. c[deployment(d)] \in ChainStates
    BY <1>2, <2>1 DEF Sound
  <2>3. Len(H) - 1 \in t.height..(Len(H) - 1)
    BY <1>1
  <2> QED
    BY <1>2, <2>1, <2>2, <2>3 DEF Seen
<1>4. \A k \in Keys : Due(t, H, c, k) => k.dseq \in t.left
  <2> SUFFICES ASSUME NEW k \in Keys, Due(t, H, c, k) PROVE k.dseq \in t.left
    OBVIOUS
  <2>1. c[k] # "none"
    <3>1. Later(H[s.height + 1], c)
      BY <1>1 DEF Past
    <3> QED
      BY <3>1 DEF Due, Later
  <2> QED
    BY <1>2, <2>1, KeyFacts DEF Sound
<1> QED
  BY <1>1, <1>3, <1>4, Zenon DEF Progress, Listing, Waits

(* The next listed deployment is written. *)
LEMMA ProgressPuts ==
    ASSUME NEW s, NEW H, NEW c, NEW D \in DbType, Progress(s, H, c, D), s.pc = "next",
           NEW d \in DSeqs, d \in s.left,
           NEW t, t.pc = "leases", t.height = s.height, t.listed = s.listed,
           t.left = s.left \ {d}, t.cur = d,
           NEW E, E = [D EXCEPT ![deployment(d)] =
                         merge(deployment(d), @, fresh(deployment(d), s.listed[d]))]
    PROVE  Progress(t, H, c, E) /\ E \in DbType
<1> DEFINE dk == deployment(d)
           m == merge(dk, D[dk], fresh(dk, s.listed[d]))
<1>1. dk \in Keys /\ dk.bucket = "deployments" /\ dk.dseq = d
  BY KeyFacts, Zenon
<1>2. s.listed[d] \in ChainStates \ {"none"} /\ Seen(s, H, dk, s.listed[d])
  BY DEF Progress, Listing, Seen
<1>3. m \in Record /\ m.state = storedState(dk, s.listed[d])
  <2>1. D[dk] \in Record \cup {NoRecord}
    BY <1>1 DEF DbType
  <2> HIDE DEF dk
  <2> QED
    BY <1>1, <1>2, <2>1, MergeFacts
<1>4. E = [D EXCEPT ![dk] = m]
  OBVIOUS
<1> HIDE DEF m
<1>5. E \in DbType /\ E[dk] = m /\ \A k \in Keys : k # dk => E[k] = D[k]
  BY <1>1, <1>3, <1>4 DEF DbType
<1>6. \A k, x : Seen(t, H, k, x) <=> Seen(s, H, k, x)
  BY DEF Seen
<1>7. Put(t, H, E, dk)
  BY <1>2, <1>3, <1>5, <1>6, NoRecordAssumption DEF Put
<1>8. \A k \in Keys : k # dk /\ Put(s, H, D, k) => Put(t, H, E, k)
  BY <1>5, <1>6 DEF Put
<1>9. \A k \in Keys : k # dk /\ Waits(s, k) => Waits(t, k)
  BY KeyFacts DEF Waits
<1>10. \A k \in Keys : Due(t, H, c, k) => Due(s, H, c, k)
  BY DEF Due
<1>11. \A k \in Keys : Due(t, H, c, k) => Put(t, H, E, k) \/ Waits(t, k)
  BY <1>7, <1>8, <1>9, <1>10, Zenon DEF Progress, Listing
<1> QED
  BY <1>5, <1>6, <1>11, Zenon DEF Progress, Listing

LEMMA LastIn ==
    ASSUME NEW n \in Nat, NEW h \in 0..(n - 1)
    PROVE  n - 1 \in h..(n - 1)
  BY SMTT(30)

(* The objects of one deployment, as the chain has them. *)
Found(c, bucket, d) ==
    {<<k, c[k]>> : k \in {j \in Keys : j.bucket = bucket /\ j.dseq = d /\ c[j] # "none"}}

(* The leases, or the bids, of the current deployment are read. *)
LEMMA ProgressQueries ==
    ASSUME NEW s, NEW H, NEW c, NEW D, Past(H, c), Progress(s, H, c, D),
           NEW bucket, NEW t,
           \/ s.pc = "leases" /\ bucket = "leases" /\ t.pc = "putLeases"
           \/ s.pc = "bids" /\ bucket = "bids" /\ t.pc = "putBids",
           t.height = s.height, t.listed = s.listed, t.left = s.left, t.cur = s.cur,
           t.batch = Found(c, bucket, s.cur)
    PROVE  Progress(t, H, c, D)
<1>0. s.pc \in Listing /\ t.pc \in Listing /\ t.pc \in {"putLeases", "putBids"}
      /\ Bucket(t.pc) = bucket
  BY Zenon DEF Listing, Bucket
<1>1. Len(H) \in Nat /\ s.height \in 0..(Len(H) - 1)
  BY <1>0, LenProperties DEF Past, Progress
<1>2. Sound(c) /\ H[(Len(H) - 1) + 1] = c /\ Later(H[s.height + 1], c)
  BY <1>1, SMTT(30) DEF Past
<1>3. \A k, x : Seen(t, H, k, x) <=> Seen(s, H, k, x)
  BY DEF Seen
<1>4. \A k \in Keys : c[k] # "none" => Seen(s, H, k, c[k])
  <2> SUFFICES ASSUME NEW k \in Keys, c[k] # "none" PROVE Seen(s, H, k, c[k])
    BY Zenon
  <2>1. c[k] \in ChainStates \ {"none"} /\ k.dseq \in DSeqs
    BY <1>2, KeyFacts, Zenon DEF Sound
  <2>2. k.bucket = "leases" /\ s.listed[k.dseq] = "closed" => c[k] \in Ended /\ c[k] = H[Len(H)][k]
    BY <1>0, <1>2, <2>1 DEF Progress, Sound, Past
  <2>3. Len(H) - 1 \in s.height..(Len(H) - 1)
    BY <1>1, LastIn
  <2> QED
    BY <1>2, <2>1, <2>2, <2>3 DEF Seen
<1>5. \A o \in t.batch : /\ o[1] \in Keys /\ o[1].bucket = Bucket(t.pc) /\ o[1].dseq = t.cur
                         /\ Seen(t, H, o[1], o[2])
  BY <1>0, <1>3, <1>4, SMTT(30) DEF Found
<1>6. ASSUME NEW k \in Keys, Due(s, H, c, k), Waits(s, k)
      PROVE  Waits(t, k)
  <2>1. c[k] # "none"
    BY <1>2, <1>6 DEF Due, Later
  <2>2. k.bucket = bucket /\ k.dseq = s.cur => <<k, c[k]>> \in t.batch
    BY <2>1 DEF Found
  <2>3. k.bucket = bucket /\ k.dseq = s.cur => \E o \in t.batch : o[1] = k
    BY <2>2
  <2>4. CASE k.dseq \in s.left
    BY <2>4 DEF Waits
  <2>5. CASE k.dseq = s.cur /\ k.bucket = bucket
    BY <1>0, <2>3, <2>5, Zenon DEF Waits
  <2>6. CASE k.dseq = s.cur /\ k.bucket # bucket
    BY <1>6, <2>6, Zenon DEF Waits
  <2> QED
    BY <1>6, <2>4, <2>5, <2>6, Zenon DEF Waits
<1>7. \A k \in Keys : (Due(t, H, c, k) <=> Due(s, H, c, k)) /\ (Put(s, H, D, k) => Put(t, H, D, k))
  BY <1>3, Zenon DEF Due, Put
<1>8. \A k \in Keys : Due(t, H, c, k) => Put(t, H, D, k) \/ Waits(t, k)
  BY <1>0, <1>6, <1>7 DEF Progress
<1> QED
  BY <1>0, <1>1, <1>3, <1>5, <1>8, Zenon DEF Progress

(* One of them is written. *)
LEMMA ProgressPutsOne ==
    ASSUME NEW s, NEW H, NEW c, NEW D \in DbType, Progress(s, H, c, D),
           s.pc \in {"putLeases", "putBids"}, NEW o \in s.batch,
           NEW t, t.pc = s.pc, t.height = s.height, t.listed = s.listed, t.left = s.left,
           t.cur = s.cur, t.batch = s.batch \ {o},
           NEW E, E = [D EXCEPT ![o[1]] = merge(o[1], @, fresh(o[1], o[2]))]
    PROVE  Progress(t, H, c, E) /\ E \in DbType
<1> DEFINE ok == o[1]
           x == o[2]
           m == merge(ok, D[ok], fresh(ok, x))
<1>1. ok \in Keys /\ Seen(s, H, ok, x) /\ x \in ChainStates \ {"none"}
  BY DEF Progress, Seen
<1>2. m \in Record /\ m.state = storedState(ok, x)
  <2> HIDE DEF ok, x
  <2> QED
    BY <1>1, MergeFacts, ZenonT(60) DEF DbType
<1>3. E = [D EXCEPT ![ok] = m]
  OBVIOUS
<1> HIDE DEF m
<1>4. E \in DbType /\ E[ok] = m /\ \A k \in Keys : k # ok => E[k] = D[k]
  BY <1>1, <1>2, <1>3 DEF DbType
<1>5. \A k, y : Seen(t, H, k, y) <=> Seen(s, H, k, y)
  BY DEF Seen
<1>6. Put(t, H, E, ok)
  BY <1>1, <1>2, <1>4, <1>5, NoRecordAssumption DEF Put
<1>7. \A k \in Keys : k # ok /\ Put(s, H, D, k) => Put(t, H, E, k)
  BY <1>4, <1>5 DEF Put
<1>8. \A k \in Keys : k # ok /\ Waits(s, k) => Waits(t, k)
  BY DEF Waits
<1>9. \A k \in Keys : Due(t, H, c, k) => Due(s, H, c, k)
  BY DEF Due
<1>10. s.pc \in Listing
  BY DEF Listing
<1>11. \A k \in Keys : Due(t, H, c, k) => Put(t, H, E, k) \/ Waits(t, k)
  BY <1>6, <1>7, <1>8, <1>9, <1>10, Zenon DEF Progress
<1> QED
  BY <1>4, <1>5, <1>10, <1>11, Zenon DEF Progress

(* All of them were. *)
LEMMA ProgressGoesOn ==
    ASSUME NEW s, NEW H, NEW c, NEW D, Progress(s, H, c, D), s.batch = {}, NEW t,
           \/ s.pc = "putLeases" /\ t.pc = "bids"
           \/ s.pc = "putBids" /\ t.pc = "next",
           t.height = s.height, t.listed = s.listed, t.left = s.left, t.cur = s.cur
    PROVE  Progress(t, H, c, D)
<1>0. s.pc \in Listing /\ t.pc \in Listing /\ t.pc \notin {"putLeases", "putBids"}
  BY DEF Listing
<1>1. \A k, x : Seen(t, H, k, x) <=> Seen(s, H, k, x)
  BY DEF Seen
<1>2. \A k \in Keys : (Due(t, H, c, k) <=> Due(s, H, c, k)) /\ (Put(s, H, D, k) => Put(t, H, D, k))
  BY <1>1 DEF Due, Put
<1>3. \A k \in Keys : Waits(s, k) => Waits(t, k)
  BY DEF Waits
<1> QED
  BY <1>0, <1>1, <1>2, <1>3 DEF Progress
-----------------------------------------------------------------------------
(* The inductive invariant, a part for each kind of process. *)
World == Past(history, chain) /\ mempool \subseteq Transactions

RunType == [kind : {"none", "deploy", "update", "close"}, phase : Phases,
            dseq : DSeqs \cup {Nothing}, provider : Providers \cup {Nothing},
            sdl : SDLs \cup {Nothing}, bids : SUBSET Providers, won : BOOLEAN,
            todo : SUBSET Keys]

Runners ==
    /\ run \in [Runs -> RunType]
    /\ \A r \in Runs :
          /\ run[r].phase # "idle" => run[r].dseq \in DSeqs
          /\ run[r].phase = "selected" \/ run[r].won => run[r].provider \in Providers
          /\ run[r].phase \in {"idle", "created", "selected"} => ~run[r].won /\ run[r].todo = {}
          /\ run[r].phase = "recording" => lock = r
          /\ \A k \in run[r].todo : k.dseq = run[r].dseq

SyncType == [pc : SyncPCs, mode : {"now", "startup"}, height : Int,
             listed : [DSeqs -> ChainStates], left : SUBSET DSeqs,
             cur : DSeqs \cup {Nothing}, batch : SUBSET (Keys \X ChainStates)]

Syncer ==
    /\ sync \in SyncType
    /\ sync.pc # "idle" => lock = "sync" /\ sync.mode \in Modes
    /\ sync.pc = "finish" => sync.mode = "startup"

Kept == db \in DbType /\ sdlOf \in [DSeqs -> Identities \cup {Nothing}] /\ LastSDLKept

Reading == Progress(sync, history, chain, db)

SInv == World /\ Runners /\ Syncer /\ Kept /\ Reading

LEMMA InitSInv == Init => SInv
<1> SUFFICES ASSUME Init PROVE SInv
  OBVIOUS
<1> USE DEF Init
<1>1. World
  <2>1. chain \in [Keys -> ChainStates]
    BY DEF ChainStates
  <2>2. Sound(chain)
    BY <2>1, KeyFacts DEF Sound
  <2>3. history \in Seq([Keys -> ChainStates]) /\ Len(history) = 1 /\ history[1] = chain
    BY <2>1
  <2>4. Later(chain, chain)
    BY DEF Later
  <2> QED
    BY <2>2, <2>3, <2>4 DEF World, Past
<1>2. Runners
  BY Zenon DEF Runners, RunType, IdleRun, Phases
<1>3. Syncer
  BY SMTT(30) DEF Syncer, SyncType, IdleSync, SyncPCs, ChainStates, NoHeight
<1>4. Kept
  BY KeyFacts DEF Kept, DbType, Empty, LastSDLKept, Holds
<1>5. Reading
  BY DEF Reading, Progress, Listing, IdleSync
<1> QED
  BY <1>1, <1>2, <1>3, <1>4, <1>5 DEF SInv

(* A new height, when the chain moves as it may. *)
LEMMA AdvanceFacts ==
    ASSUME World, Reading, NEW e, Moves(chain, e), Advance(e)
    PROVE  Past(history', chain') /\ Progress(sync, history', chain', db)
<1>1. chain' = e /\ history' = Append(history, e) /\ Past(history, chain)
  BY DEF Advance, World
<1>2. /\ Past(history', e)
      /\ Len(history') = Len(history) + 1
      /\ \A i \in 1..Len(history) : history'[i] = history[i]
  BY <1>1, PastGrows
<1> QED
  BY <1>1, <1>2, ProgressGrows, Zenon DEF Reading, Moves, Past

LEMMA SoundNow == ASSUME World PROVE Sound(chain)
<1>1. Len(history) \in 1..Len(history)
  BY LenProperties DEF World, Past
<1> QED
  BY <1>1 DEF World, Past

LEMMA ChainSInv ==
    ASSUME SInv,
           \/ \E tx \in mempool : Deliver(tx)
           \/ \E msg \in {"create", "lease", "close"}, d \in DSeqs, p \in Providers :
                 Elsewhere(msg, d, p)
           \/ \E d \in DSeqs, p \in Providers : ProviderBids(d, p) \/ ProviderCloses(d, p)
           \/ \E d \in DSeqs : Overdrawn(d)
    PROVE  SInv'
<1>1. UNCHANGED <<db, synced, lock, sdlOf, sync, syncs, run>> /\ mempool' \subseteq mempool
  BY Zenon DEF Deliver, Elsewhere, ProviderBids, ProviderCloses, Overdrawn, storeVars
<1>2. Past(history', chain') /\ Progress(sync, history', chain', db)
  <2>0. World /\ Reading /\ Sound(chain) /\ mempool \subseteq Transactions
    BY SoundNow DEF SInv, World
  <2>1. ASSUME NEW tx \in mempool, Deliver(tx)
        PROVE  Past(history', chain') /\ Progress(sync, history', chain', db)
    <3>1. CASE Advance(Applied(tx))
      BY <2>0, <3>1, AppliedMoves, AdvanceFacts
    <3>2. CASE UNCHANGED <<chain, history>>
      BY <2>0, <3>2 DEF World, Reading
    <3> QED
      BY <2>1, <3>1, <3>2 DEF Deliver
  <2>2. ASSUME NEW msg \in {"create", "lease", "close"}, NEW d \in DSeqs, NEW p \in Providers,
               Elsewhere(msg, d, p)
        PROVE  Past(history', chain') /\ Progress(sync, history', chain', db)
    <3> DEFINE tx == [msg |-> msg, dseq |-> d, provider |-> p]
    <3>1. tx \in Transactions
      BY DEF Transactions
    <3>2. Advance(Applied(tx))
      BY <2>2 DEF Elsewhere
    <3> HIDE DEF tx
    <3> QED
      BY <2>0, <3>1, <3>2, AppliedMoves, AdvanceFacts
  <2>3. ASSUME NEW d \in DSeqs, NEW p \in Providers, ProviderBids(d, p)
        PROVE  Past(history', chain') /\ Progress(sync, history', chain', db)
    BY <2>0, <2>3, BidMoves, AdvanceFacts DEF ProviderBids
  <2>4. ASSUME NEW d \in DSeqs, NEW p \in Providers, ProviderCloses(d, p)
        PROVE  Past(history', chain') /\ Progress(sync, history', chain', db)
    BY <2>0, <2>4, LeaseEndMoves, AdvanceFacts DEF ProviderCloses
  <2>5. ASSUME NEW d \in DSeqs, Overdrawn(d)
        PROVE  Past(history', chain') /\ Progress(sync, history', chain', db)
    BY <2>0, <2>5, OverdrawnMoves, AdvanceFacts DEF Overdrawn
  <2> QED
    BY <2>1, <2>2, <2>3, <2>4, <2>5
<1>3. World'
  BY <1>1, <1>2, Zenon DEF SInv, World
<1>4. Runners' /\ Syncer' /\ Kept'
  BY <1>1 DEF SInv, Runners, Syncer, Kept, LastSDLKept
<1>5. Reading'
  BY <1>1, <1>2 DEF Reading
<1> QED
  BY <1>3, <1>4, <1>5 DEF SInv
-----------------------------------------------------------------------------
(* A step of a reconciliation that keeps the file open. *)
LEMMA OpenSyncSInv ==
    ASSUME SInv, sync.pc # "idle",
           UNCHANGED <<chain, history, mempool, lock, sdlOf, run>>,
           db' \in DbType,
           \A d \in DSeqs :
               /\ Holds(db, deployment(d)) =>
                     Holds(db', deployment(d)) /\ db'[deployment(d)].local = db[deployment(d)].local
               /\ ~Holds(db, deployment(d)) /\ Holds(db', deployment(d)) =>
                     db'[deployment(d)].local = Nothing,
           sync' \in SyncType, sync'.mode = sync.mode,
           sync'.pc = "finish" => sync.mode = "startup",
           Progress(sync', history, chain, db')
    PROVE  SInv'
<1>1. World' /\ Runners'
  BY Zenon DEF SInv, World, Runners
<1>2. Syncer'
  BY DEF SInv, Syncer
<1>3. Kept'
  BY DEF SInv, Kept, LastSDLKept
<1>4. Reading'
  BY DEF Reading
<1> QED
  BY <1>1, <1>2, <1>3, <1>4 DEF SInv

LEMMA PairsTyped ==
    ASSUME NEW c \in [Keys -> ChainStates], NEW bucket, NEW d
    PROVE  Found(c, bucket, d) \subseteq Keys \X ChainStates
  BY DEF Found

LEMMA SyncStepSInv ==
    ASSUME SInv, SyncStep \/ AbortSync \/ \E mode \in Modes : BeginSync(mode)
    PROVE  SInv'
<1>0. /\ World /\ Runners /\ Syncer /\ Kept /\ Reading
      /\ Past(history, chain) /\ Sound(chain) /\ Progress(sync, history, chain, db)
      /\ db \in DbType /\ sync \in SyncType
  BY SoundNow DEF SInv, World, Reading, Kept, Syncer
<1>1. ASSUME NEW mode \in Modes, BeginSync(mode) PROVE SInv'
  <2>1. UNCHANGED <<chain, history, mempool, db, sdlOf, run>> /\ lock = Nobody /\ lock' = "sync"
    BY <1>1, Zenon DEF BeginSync, chainVars
  <2>2. sync' = [IdleSync EXCEPT !.pc = "opened", !.mode = mode]
    BY <1>1, Zenon DEF BeginSync
  <2>3. sync' \in SyncType /\ sync'.pc = "opened" /\ sync'.mode = mode
    <3>1. IdleSync \in SyncType
      BY DEF SyncType, IdleSync, SyncPCs, ChainStates, NoHeight
    <3>2. "opened" \in SyncPCs /\ mode \in {"now", "startup"}
      BY ModesAssumption, Zenon DEF SyncPCs
    <3> QED
      BY <2>2, <3>1, <3>2, Zenon DEF SyncType
  <2>4. Runners'
    BY <1>0, <2>1, LockAssumption DEF Runners
  <2>5. Syncer'
    BY <2>1, <2>3 DEF Syncer
  <2>6. World' /\ Kept'
    BY <1>0, <2>1, Zenon DEF World, Kept, LastSDLKept
  <2>7. Reading'
    BY <2>3 DEF Reading, Progress, Listing
  <2> QED
    BY <2>4, <2>5, <2>6, <2>7 DEF SInv
<1>2. ASSUME FinishSync \/ AbortSync PROVE SInv'
  <2>1. UNCHANGED <<chain, history, mempool, db, sdlOf, run>> /\ lock' = Nobody /\ sync' = IdleSync
    BY <1>2, Zenon DEF FinishSync, AbortSync, chainVars
  <2>2. sync.pc # "idle"
    BY <1>2, Zenon DEF FinishSync, AbortSync, AllPut
  <2>3. Runners'
    BY <1>0, <2>1, <2>2, LockAssumption, Zenon DEF Runners, Syncer
  <2>4. sync' \in SyncType /\ sync'.pc = "idle"
    BY <2>1, SMTT(30) DEF SyncType, IdleSync, SyncPCs, ChainStates, NoHeight
  <2>5. Syncer' /\ Reading'
    BY <2>4 DEF Syncer, Reading, Progress, Listing
  <2>6. World' /\ Kept'
    BY <1>0, <2>1 DEF World, Kept, LastSDLKept
  <2> QED
    BY <2>3, <2>5, <2>6 DEF SInv
<1>3. ASSUME ReadHeight PROVE SInv'
  <2>1. UNCHANGED <<chain, history, mempool, db, lock, sdlOf, run>> /\ sync.pc = "opened"
    BY <1>3 DEF ReadHeight, chainVars, storeVars
  <2>2. Len(history) \in Nat /\ Len(history) >= 1
    BY <1>0, LenProperties DEF Past
  <2>3. /\ sync' \in SyncType /\ sync'.mode = sync.mode /\ sync'.height = Len(history) - 1
        /\ sync'.pc \in {"list", "finish"}
        /\ sync'.pc = "finish" => sync.mode = "startup"
    <3> DEFINE G == sync.mode = "startup" /\ synced # NoHeight /\ height - synced <= GapThreshold
    <3>1. sync' = [sync EXCEPT !.height = height, !.pc = IF G THEN "finish" ELSE "list"]
      BY <1>3 DEF ReadHeight
    <3>2. height = Len(history) - 1 /\ height \in Int
      BY <2>2 DEF height
    <3>3. G => sync.mode = "startup"
      OBVIOUS
    <3> HIDE DEF G
    <3> QED
      BY <1>0, <3>1, <3>2, <3>3, Zenon DEF SyncType, SyncPCs
  <2>4. Progress(sync', history, chain, db')
    <3>1. sync'.height \in 0..(Len(history) - 1)
      BY <2>2, <2>3
    <3>2. sync'.pc \notin Listing /\ sync'.pc \notin {"putLeases", "putBids"}
      BY <2>3, Zenon DEF Listing
    <3> QED
      BY <3>1, <3>2, Zenon DEF Progress
  <2> QED
    BY <1>0, <2>1, <2>3, <2>4, OpenSyncSInv
<1>4. ASSUME ListDeployments PROVE SInv'
  <2>1. UNCHANGED <<chain, history, mempool, db, lock, sdlOf, run>> /\ sync.pc = "list"
    BY <1>4 DEF ListDeployments, chainVars, storeVars
  <2>2. /\ sync' \in SyncType /\ sync'.mode = sync.mode /\ sync'.height = sync.height
        /\ sync'.pc = "next" /\ sync'.listed = [d \in DSeqs |-> chain[deployment(d)]]
        /\ sync'.left = {d \in DSeqs : chain[deployment(d)] # "none"}
    <3>1. \A d \in DSeqs : chain[deployment(d)] \in ChainStates
      BY <1>0, KeyFacts, Zenon DEF Sound
    <3> QED
      BY <1>0, <1>4, <3>1, Zenon DEF ListDeployments, SyncType, SyncPCs
  <2>3. Progress(sync', history, chain, db)
    BY <1>0, <2>1, <2>2, ProgressLists, Zenon
  <2> QED
    BY <1>0, <2>1, <2>2, <2>3, OpenSyncSInv
<1>5. ASSUME NEW d \in DSeqs, PutListed(d) PROVE SInv'
  <2>1. UNCHANGED <<chain, history, mempool, lock, sdlOf, run>> /\ sync.pc = "next" /\ d \in sync.left
    BY <1>5 DEF PutListed, chainVars
  <2>2. /\ sync' \in SyncType /\ sync'.mode = sync.mode /\ sync'.height = sync.height
        /\ sync'.pc = "leases" /\ sync'.listed = sync.listed /\ sync'.left = sync.left \ {d}
        /\ sync'.cur = d
    BY <1>0, <1>5, Zenon DEF PutListed, SyncType, SyncPCs
  <2>3. db' = [db EXCEPT ![deployment(d)] =
                 merge(deployment(d), @, fresh(deployment(d), sync.listed[d]))]
    BY <1>5 DEF PutListed
  <2>4. Progress(sync', history, chain, db') /\ db' \in DbType
    BY <1>0, <2>1, <2>2, <2>3, ProgressPuts, Zenon
  <2>5. sync.listed[d] \in ChainStates \ {"none"}
    BY <1>0, <2>1, Zenon DEF Progress, Listing, Seen
  <2>6. \A j \in DSeqs :
          /\ Holds(db, deployment(j)) =>
                Holds(db', deployment(j)) /\ db'[deployment(j)].local = db[deployment(j)].local
          /\ ~Holds(db, deployment(j)) /\ Holds(db', deployment(j)) =>
                db'[deployment(j)].local = Nothing
    <3>1. \A j \in DSeqs : deployment(j) \in Keys
      BY KeyFacts
    <3> DEFINE m == merge(deployment(d), db[deployment(d)], fresh(deployment(d), sync.listed[d]))
    <3>2. /\ m \in Record
          /\ m.local = IF db[deployment(d)] = NoRecord THEN Nothing ELSE db[deployment(d)].local
      BY <1>0, <2>5, <3>1, MergeFacts, ZenonT(60) DEF DbType
    <3>3. db' = [db EXCEPT ![deployment(d)] = m]
      BY <2>3
    <3> HIDE DEF m
    <3> QED
      BY <1>0, <3>1, <3>2, <3>3, NoRecordAssumption DEF DbType, Holds
  <2> QED
    BY <1>0, <2>1, <2>2, <2>4, <2>6, OpenSyncSInv
<1>6. ASSUME NEW bucket \in {"leases", "bids"}, NEW pc, NEW next,
             QueryObjects(pc, bucket, next),
             \/ pc = "leases" /\ bucket = "leases" /\ next = "putLeases"
             \/ pc = "bids" /\ bucket = "bids" /\ next = "putBids"
      PROVE  SInv'
  <2>1. UNCHANGED <<chain, history, mempool, db, lock, sdlOf, run>> /\ sync.pc = pc
    BY <1>6 DEF QueryObjects, chainVars, storeVars
  <2> DEFINE B == Found(chain, bucket, sync.cur)
  <2>2. sync' = [sync EXCEPT !.pc = next, !.batch = B]
    BY <1>6 DEF QueryObjects, Found
  <2>3. B \subseteq Keys \X ChainStates
    <3>1. chain \in [Keys -> ChainStates]
      BY <1>0 DEF Sound
    <3> QED
      BY <3>1, PairsTyped
  <2> HIDE DEF B
  <2>4. /\ sync' \in SyncType /\ sync'.mode = sync.mode /\ sync'.height = sync.height
        /\ sync'.pc = next /\ sync'.listed = sync.listed /\ sync'.left = sync.left
        /\ sync'.cur = sync.cur /\ sync'.batch = B
    BY <1>0, <1>6, <2>2, <2>3, Zenon DEF SyncType, SyncPCs
  <2>5. Progress(sync', history, chain, db)
    <3>1. sync'.batch = Found(chain, bucket, sync.cur)
      BY <2>4 DEF B
    <3>2. \/ sync.pc = "leases" /\ bucket = "leases" /\ sync'.pc = "putLeases"
          \/ sync.pc = "bids" /\ bucket = "bids" /\ sync'.pc = "putBids"
      BY <1>6, <2>1, <2>4
    <3>3. /\ Past(history, chain) /\ Progress(sync, history, chain, db)
          /\ sync'.height = sync.height /\ sync'.listed = sync.listed /\ sync'.left = sync.left
          /\ sync'.cur = sync.cur
      BY <1>0, <2>4
    <3> QED
      BY <3>1, <3>2, <3>3, ProgressQueries, Zenon
  <2> QED
    BY <1>0, <1>6, <2>1, <2>4, <2>5, OpenSyncSInv
<1>7. ASSUME NEW pc, NEW next, PutObject(pc, next),
             \/ pc = "putLeases" /\ next = "bids"
             \/ pc = "putBids" /\ next = "next"
      PROVE  SInv'
  <2>1. UNCHANGED <<chain, history, mempool, lock, sdlOf, run>> /\ sync.pc = pc
    BY <1>7, Zenon DEF PutObject, chainVars
  <2>2. ASSUME NEW o \in sync.batch,
               db' = [db EXCEPT ![o[1]] = merge(o[1], @, fresh(o[1], o[2]))],
               sync' = [sync EXCEPT !.batch = @ \ {o}]
        PROVE  SInv'
    <3>1. /\ sync' \in SyncType /\ sync'.mode = sync.mode /\ sync'.height = sync.height
          /\ sync'.pc = sync.pc /\ sync'.listed = sync.listed /\ sync'.left = sync.left
          /\ sync'.cur = sync.cur /\ sync'.batch = sync.batch \ {o}
      BY <1>0, <2>2 DEF SyncType
    <3>2. Progress(sync', history, chain, db') /\ db' \in DbType
      BY <1>0, <1>7, <2>1, <2>2, <3>1, ProgressPutsOne, ZenonT(60)
    <3>3. o[1] \in Keys /\ o[1].bucket \in {"leases", "bids"}
      BY <1>0, <1>7, <2>1, Zenon DEF Progress, Bucket
    <3>4. \A j \in DSeqs : db'[deployment(j)] = db[deployment(j)]
      <4>1. \A j \in DSeqs : deployment(j) \in Keys /\ deployment(j).bucket = "deployments"
        BY KeyFacts
      <4> QED
        BY <1>0, <2>2, <3>3, <4>1 DEF DbType
    <3> QED
      BY <1>0, <1>7, <2>1, <3>1, <3>2, <3>4, OpenSyncSInv DEF Holds
  <2>3. ASSUME sync.batch = {}, sync' = [sync EXCEPT !.pc = next], UNCHANGED db
        PROVE  SInv'
    <3>1. /\ sync' \in SyncType /\ sync'.mode = sync.mode /\ sync'.height = sync.height
          /\ sync'.pc = next /\ sync'.listed = sync.listed /\ sync'.left = sync.left
          /\ sync'.cur = sync.cur
      BY <1>0, <1>7, <2>3 DEF SyncType, SyncPCs
    <3>2. Progress(sync', history, chain, db)
      BY <1>0, <1>7, <2>1, <2>3, <3>1, ProgressGoesOn, Zenon
    <3> QED
      BY <1>0, <1>7, <2>1, <2>3, <3>1, <3>2, OpenSyncSInv
  <2> QED
    BY <1>7, <2>2, <2>3 DEF PutObject
<1> QED
  BY <1>1, <1>2, <1>3, <1>4, <1>5, <1>6, <1>7, Zenon DEF SyncStep
-----------------------------------------------------------------------------
(* What a step of run r must leave true, the other runs unchanged. *)
LEMMA RunnersKept ==
    ASSUME Runners, NEW r \in Runs, run' \in [Runs -> RunType],
           \A q \in Runs : q # r => run'[q] = run[q] /\ (run[q].phase = "recording" => lock' = q),
           run'[r].phase # "idle" => run'[r].dseq \in DSeqs,
           run'[r].phase = "selected" \/ run'[r].won => run'[r].provider \in Providers,
           run'[r].phase \in {"idle", "created", "selected"} => ~run'[r].won /\ run'[r].todo = {},
           run'[r].phase = "recording" => lock' = r,
           \A k \in run'[r].todo : k.dseq = run'[r].dseq
    PROVE  Runners'
  BY ZenonT(60) DEF Runners

LEMMA RunOnlySInv ==
    ASSUME SInv, UNCHANGED <<chain, history, db, sdlOf, sync>>,
           mempool' \subseteq Transactions, Runners',
           sync.pc # "idle" => lock' = "sync"
    PROVE  SInv'
<1>1. World' /\ Kept' /\ Reading'
  BY DEF SInv, World, Kept, LastSDLKept, Reading
<1>2. Syncer'
  BY DEF SInv, Syncer
<1> QED
  BY <1>1, <1>2 DEF SInv

LEMMA StartSInv ==
    ASSUME SInv, NEW r \in Runs, NEW d \in DSeqs, NEW sdl \in SDLs \cup {Nothing},
           StartDeploy(r, d, sdl) \/ \E kind \in {"update", "close"} : StartOther(r, kind, d, sdl)
    PROVE  SInv'
<1>0. Runners /\ Syncer /\ mempool \subseteq Transactions
  BY DEF SInv, World
<1>1. PICK kind \in {"deploy", "update", "close"}, phase \in {"created", "ended"},
           msg \in {"create", "update", "close"} :
        /\ run[r].phase = "idle"
        /\ mempool' = mempool \cup {[msg |-> msg, dseq |-> d, provider |-> Nothing]}
        /\ run' = [run EXCEPT ![r].kind = kind, ![r].phase = phase, ![r].dseq = d, ![r].sdl = sdl]
        /\ UNCHANGED <<chain, history, db, lock, sdlOf, sync>>
  BY Zenon DEF StartDeploy, StartOther, Broadcast, storeVars
<1>2. mempool' \subseteq Transactions
  BY <1>0, <1>1 DEF Transactions
<1>3. /\ run' \in [Runs -> RunType]
      /\ \A q \in Runs : q # r => run'[q] = run[q]
      /\ run'[r].phase = phase /\ run'[r].dseq = d /\ run'[r].won = run[r].won
      /\ run'[r].provider = run[r].provider /\ run'[r].todo = run[r].todo
  BY <1>0, <1>1 DEF Runners, RunType, Phases
<1>4. run[r].todo = {} /\ ~run[r].won
  BY <1>0, <1>1, Zenon DEF Runners
<1>5. Runners'
  <2>1. ~run'[r].won /\ run'[r].todo = {} /\ run'[r].phase \notin {"selected", "recording"}
    BY <1>3, <1>4
  <2>2. \A q \in Runs : q # r => run'[q] = run[q] /\ (run[q].phase = "recording" => lock' = q)
    BY <1>0, <1>1, <1>3 DEF Runners
  <2> QED
    BY <1>0, <1>3, <2>1, <2>2, RunnersKept, Zenon
<1> QED
  BY <1>0, <1>1, <1>2, <1>5, RunOnlySInv DEF Syncer

LEMMA RunStepSInv ==
    ASSUME SInv, NEW r \in Runs,
           SelectBid(r) \/ CreateLease(r) \/ EndEarly(r) \/ OpenStore(r) \/ CloseStore(r) \/ Crash(r)
    PROVE  SInv'
<1>0. Runners /\ Syncer /\ mempool \subseteq Transactions /\ run[r] \in RunType
  BY DEF SInv, World, Runners
<1>1. ASSUME SelectBid(r) PROVE SInv'
  <2> DEFINE open == {p \in Providers : chain[bid(run[r].dseq, p)] = "open"}
  <2>1. PICK p \in open \cup {Nothing} :
          run' = [run EXCEPT ![r].bids = open, ![r].provider = p,
                             ![r].phase = IF p = Nothing THEN "ended" ELSE "selected"]
    BY <1>1, Zenon DEF SelectBid
  <2>2. open \in SUBSET Providers /\ p \in Providers \cup {Nothing} /\ (p # Nothing => p \in Providers)
    OBVIOUS
  <2> HIDE DEF open
  <2>3. /\ run' \in [Runs -> RunType]
        /\ \A q \in Runs : q # r => run'[q] = run[q]
        /\ run'[r].phase = IF p = Nothing THEN "ended" ELSE "selected"
        /\ run'[r].dseq = run[r].dseq /\ run'[r].won = run[r].won
        /\ run'[r].provider = p /\ run'[r].todo = run[r].todo
    BY <1>0, <2>1, <2>2, Zenon DEF Runners, RunType, Phases
  <2>4. UNCHANGED <<chain, history, mempool, db, lock, sdlOf, sync>> /\ run[r].phase = "created"
    BY <1>1, Zenon DEF SelectBid, chainVars, storeVars
  <2>5. /\ run[r].dseq \in DSeqs /\ ~run[r].won /\ run[r].todo = {}
        /\ \A q \in Runs : run[q].phase = "recording" => lock' = q
    BY <1>0, <2>4, Zenon DEF Runners
  <2>6. Runners'
    BY <1>0, <2>2, <2>3, <2>5, RunnersKept
  <2> QED
    BY <1>0, <2>4, <2>6, RunOnlySInv DEF Syncer
<1>2. ASSUME CreateLease(r) PROVE SInv'
  <2>1. /\ UNCHANGED <<chain, history, db, lock, sdlOf, sync>> /\ run[r].phase = "selected"
        /\ run' = [run EXCEPT ![r].phase = "ended", ![r].won = TRUE]
        /\ mempool' = mempool \cup {[msg |-> "lease", dseq |-> run[r].dseq,
                                     provider |-> run[r].provider]}
    BY <1>2 DEF CreateLease, Broadcast, storeVars
  <2>2. run[r].dseq \in DSeqs /\ run[r].provider \in Providers
    BY <1>0, <2>1 DEF Runners
  <2>3. mempool' \subseteq Transactions
    BY <1>0, <2>1, <2>2 DEF Transactions
  <2>4. /\ run' \in [Runs -> RunType]
        /\ \A q \in Runs : q # r => run'[q] = run[q]
        /\ run'[r].phase = "ended" /\ run'[r].dseq = run[r].dseq
        /\ run'[r].provider = run[r].provider /\ run'[r].todo = run[r].todo
    BY <1>0, <2>1, Zenon DEF Runners, RunType, Phases
  <2>5. Runners'
    BY <1>0, <2>1, <2>2, <2>4, RunnersKept DEF Runners
  <2> QED
    BY <1>0, <2>1, <2>3, <2>5, RunOnlySInv DEF Syncer
<1>3. ASSUME EndEarly(r) PROVE SInv'
  <2>1. /\ UNCHANGED <<chain, history, mempool, db, lock, sdlOf, sync>>
        /\ run[r].phase \in {"created", "selected"}
        /\ run' = [run EXCEPT ![r].phase = "ended"]
    BY <1>3 DEF EndEarly, chainVars, storeVars
  <2>2. /\ run' \in [Runs -> RunType]
        /\ \A q \in Runs : q # r => run'[q] = run[q]
        /\ run'[r].phase = "ended" /\ run'[r].dseq = run[r].dseq /\ run'[r].won = run[r].won
        /\ run'[r].provider = run[r].provider /\ run'[r].todo = run[r].todo
    BY <1>0, <2>1 DEF Runners, RunType, Phases
  <2>3. Runners'
    BY <1>0, <2>1, <2>2, RunnersKept DEF Runners
  <2> QED
    BY <1>0, <2>1, <2>3, RunOnlySInv DEF Syncer
<1>4. ASSUME OpenStore(r) PROVE SInv'
  <2>1. /\ UNCHANGED <<chain, history, mempool, db, sdlOf, sync>>
        /\ run[r].phase = "ended" /\ lock = Nobody /\ lock' = r
        /\ run' = [run EXCEPT ![r].phase = "recording", ![r].todo = Writes(r)]
    BY <1>4 DEF OpenStore, chainVars
  <2>2. run[r].dseq \in DSeqs /\ run[r].bids \subseteq Providers
        /\ (run[r].won => run[r].provider \in Providers)
    BY <1>0, <2>1, Zenon DEF Runners, RunType
  <2>3. Writes(r) \subseteq Keys /\ \A k \in Writes(r) : k.dseq = run[r].dseq
    BY <2>2, KeyFacts, SMTT(30) DEF Writes
  <2>4. /\ run' \in [Runs -> RunType]
        /\ \A q \in Runs : q # r => run'[q] = run[q]
        /\ run'[r].phase = "recording" /\ run'[r].dseq = run[r].dseq /\ run'[r].won = run[r].won
        /\ run'[r].provider = run[r].provider /\ run'[r].todo = Writes(r)
    BY <1>0, <2>1, <2>3, Zenon DEF Runners, RunType, Phases
  <2>5. \A q \in Runs : run[q].phase # "recording"
    BY <1>0, <2>1, LockAssumption DEF Runners
  <2>6. Runners'
    BY <1>0, <2>1, <2>2, <2>3, <2>4, <2>5, RunnersKept, ZenonT(60) DEF Runners
  <2> QED
    BY <1>0, <2>1, <2>6, LockAssumption, RunOnlySInv DEF Syncer
<1>5. ASSUME CloseStore(r) \/ Crash(r) PROVE SInv'
  <2>1. PICK phase \in {"recorded", "crashed"} :
        /\ UNCHANGED <<chain, history, mempool, db, sdlOf, sync>>
        /\ run[r].phase # "idle"
        /\ lock' = IF lock = r THEN Nobody ELSE lock
        /\ run' \in [Runs -> RunType]
        /\ \A q \in Runs : q # r => run'[q] = run[q]
        /\ run'[r].phase = phase /\ run'[r].dseq = run[r].dseq /\ run'[r].won = run[r].won
        /\ run'[r].provider = run[r].provider /\ run'[r].todo = {}
    <3>1. CASE CloseStore(r)
      <4>1. /\ run[r].phase = "recording" /\ run[r].todo = {} /\ lock' = Nobody
            /\ run' = [run EXCEPT ![r].phase = "recorded"]
            /\ UNCHANGED <<chain, history, mempool, db, sdlOf, sync>>
        BY <3>1 DEF CloseStore, chainVars
      <4>2. lock = r
        BY <1>0, <4>1 DEF Runners
      <4> QED
        BY <1>0, <4>1, <4>2 DEF Runners, RunType, Phases
    <3>2. CASE Crash(r)
      <4>1. /\ run[r].phase # "idle" /\ lock' = IF lock = r THEN Nobody ELSE lock
            /\ run' = [run EXCEPT ![r].phase = "crashed", ![r].todo = {}]
            /\ UNCHANGED <<chain, history, mempool, db, sdlOf, sync>>
        BY <3>2 DEF Crash, chainVars
      <4> QED
        BY <1>0, <4>1, Zenon DEF Runners, RunType, Phases
    <3> QED
      BY <1>5, <3>1, <3>2, Zenon
  <2>2. \A q \in Runs : q # r /\ run[q].phase = "recording" => lock' = q
    BY <1>0, <2>1, Zenon DEF Runners
  <2>3. Runners'
    BY <1>0, <2>1, <2>2, RunnersKept, Zenon DEF Runners
  <2> QED
    BY <1>0, <2>1, <2>3, LockAssumption, RunOnlySInv DEF Syncer
<1> QED
  BY <1>1, <1>2, <1>3, <1>4, <1>5, Zenon
(* A write of a run: it holds the file, so no reconciliation is reading. *)
LEMMA RecordSInv ==
    ASSUME SInv, NEW r \in Runs, NEW k \in Keys, NEW readable \in BOOLEAN,
           RecordNext(r, k, readable)
    PROVE  SInv'
<1>0. /\ Runners /\ Syncer /\ db \in DbType /\ run[r] \in RunType
      /\ sdlOf \in [DSeqs -> Identities \cup {Nothing}] /\ LastSDLKept /\ World
  BY Zenon DEF SInv, Kept, Runners
<1>1. /\ UNCHANGED <<chain, history, mempool, lock, sync>>
      /\ run[r].phase = "recording" /\ k \in run[r].todo
      /\ run' = [run EXCEPT ![r].todo = @ \ {k}]
  BY DEF RecordNext, chainVars
<1>2. lock = r /\ run[r].dseq \in DSeqs /\ k.dseq = run[r].dseq
  BY <1>0, <1>1 DEF Runners
<1>3. sync.pc = "idle"
  BY <1>0, <1>2, LockAssumption, Zenon DEF Syncer
<1>4. Runners'
  <2>1. /\ run' \in [Runs -> RunType]
        /\ \A q \in Runs : q # r => run'[q] = run[q]
        /\ run'[r].phase = "recording" /\ run'[r].dseq = run[r].dseq /\ run'[r].won = run[r].won
        /\ run'[r].provider = run[r].provider /\ run'[r].todo = run[r].todo \ {k}
    BY <1>0, <1>1 DEF Runners, RunType
  <2> QED
    BY <1>0, <1>1, <1>2, <2>1, RunnersKept DEF Runners
<1>5. Syncer' /\ World' /\ Reading'
  BY <1>0, <1>1, <1>3 DEF Syncer, World, Reading, Progress, Listing
<1>6. Kept'
  <2>0. /\ \A d \in DSeqs : deployment(d) \in Keys /\ deployment(d).bucket = "deployments"
                            /\ deployment(d).dseq = d
        /\ k.bucket = "deployments" => k = deployment(run[r].dseq)
    BY <1>2, KeyFacts
  <2>1. CASE run[r].kind = "close"
    <3>1. db' = [j \in Keys |-> Closed(j, run[r].dseq)] /\ sdlOf' = sdlOf
      BY <2>1, Zenon DEF RecordNext
    <3>2. \A j \in Keys : /\ Closed(j, run[r].dseq) \in Record \cup {NoRecord}
                          /\ Holds(db, j) => /\ Closed(j, run[r].dseq) \in Record
                                             /\ Closed(j, run[r].dseq).local = db[j].local
                          /\ ~Holds(db, j) /\ Closed(j, run[r].dseq) # NoRecord =>
                                Closed(j, run[r].dseq).local = Nothing
      BY <1>0, <1>2, ClosedFacts, Zenon
    <3>3. db' \in DbType
      BY <3>1, <3>2, Zenon DEF DbType
    <3>4. LastSDLKept'
      BY <1>0, <2>0, <3>1, <3>2, NoRecordAssumption DEF LastSDLKept, Holds
    <3> QED
      BY <1>0, <3>1, <3>3, <3>4 DEF Kept
  <2>2. CASE run[r].kind # "close"
    <3> DEFINE new == Outcome(r, k, readable)
    <3>1. /\ db' = [db EXCEPT ![k] = new]
          /\ sdlOf' = IF k.bucket = "deployments"
                        THEN [sdlOf EXCEPT ![run[r].dseq] = new.local] ELSE sdlOf
      BY <2>2 DEF RecordNext
    <3>2. run[r].sdl \in SDLs \cup {Nothing}
      BY <1>0, Zenon DEF RunType
    <3>3. new \in Record /\ (k.bucket = "deployments" => new.local \in Identities \cup {Nothing})
      <4>1. k.bucket = "deployments" /\ Holds(db, k) => db[k].local \in Identities \cup {Nothing}
        BY <1>0, <1>2, <2>0 DEF LastSDLKept
      <4> QED
        BY <1>0, <3>2, <4>1, OutcomeFacts, Zenon
    <3> HIDE DEF new
    <3>4. db' \in DbType /\ db'[k] = new /\ \A j \in Keys : j # k => db'[j] = db[j]
      BY <1>0, <3>1, <3>3 DEF DbType
    <3>5. sdlOf' \in [DSeqs -> Identities \cup {Nothing}]
      BY <1>0, <3>1, <3>3, Zenon
    <3>6. LastSDLKept'
      <4> SUFFICES ASSUME NEW d \in DSeqs
                   PROVE  IF Holds(db', deployment(d)) THEN db'[deployment(d)].local = sdlOf'[d]
                          ELSE sdlOf'[d] = Nothing
        BY DEF LastSDLKept
      <4>1. CASE k = deployment(d)
        <5>1. run[r].dseq = d /\ sdlOf'[d] = new.local
          BY <1>0, <1>2, <2>0, <3>1, <4>1, Zenon
        <5> QED
          BY <2>0, <3>3, <3>4, <4>1, <5>1, NoRecordAssumption, Zenon DEF Holds
      <4>2. CASE k # deployment(d)
        <5>1. sdlOf'[d] = sdlOf[d] /\ db'[deployment(d)] = db[deployment(d)]
          BY <1>0, <1>2, <2>0, <3>1, <3>4, <4>2
        <5> QED
          BY <1>0, <5>1, Zenon DEF LastSDLKept, Holds
      <4> QED
        BY <4>1, <4>2
    <3> QED
      BY <3>4, <3>5, <3>6 DEF Kept
  <2> QED
    BY <2>1, <2>2, Zenon
<1> QED
  BY <1>4, <1>5, <1>6 DEF SInv

LEMMA NextSInv == SInv /\ [Next]_vars => SInv'
<1> SUFFICES ASSUME SInv, [Next]_vars PROVE SInv'
  OBVIOUS
<1>1. CASE UNCHANGED vars
  BY <1>1, Zenon DEF vars, SInv, World, Runners, Syncer, Kept, LastSDLKept, Reading
<1>2. CASE Next
  BY <1>2, ChainSInv, SyncStepSInv, StartSInv, RunStepSInv, RecordSInv DEF Next, RunStep
<1> QED
  BY <1>1, <1>2

(* The invariant holds in every reachable state. *)
THEOREM Invariance == Spec => []SInv
<1>1. Init => SInv
  BY InitSInv
<1>2. SInv /\ [Next]_vars => SInv'
  BY NextSInv
<1> QED
  BY <1>1, <1>2, PTL DEF Spec

(***************************************************************************)
(* persist.go and mergeDeployment: no reconciliation, close or other run   *)
(* discards the SDL identity the last run recorded, whatever the chain and *)
(* the other processes do.                                                 *)
(***************************************************************************)
THEOREM LastSDLKeptThm == Spec => []LastSDLKept
<1>1. SInv => LastSDLKept
  BY DEF SInv, Kept
<1> QED
  BY <1>1, Invariance, PTL

(* Everything due has been written when the height is recorded. *)
LEMMA AllDuePut ==
    ASSUME SInv, AllPut, NEW k \in Keys, Due(sync, history, chain, k)
    PROVE  Put(sync, history, db, k)
<1>1. sync.pc = "next" /\ sync.left = {} /\ Progress(sync, history, chain, db)
  BY DEF AllPut, SInv, Reading
<1>2. ~Waits(sync, k)
  BY <1>1 DEF Waits
<1> QED
  BY <1>1, <1>2, Zenon DEF Progress, Listing

(***************************************************************************)
(* ReconcileNow: the height it records is honest, for any number of        *)
(* objects and any movement of the chain between its queries.              *)
(***************************************************************************)
THEOREM SyncCoversHeightThm == Modes \subseteq {"now"} /\ Spec => SyncCoversHeight
<1> SUFFICES ASSUME Modes \subseteq {"now"} PROVE Spec => SyncCoversHeight
  OBVIOUS
<1> DEFINE Covers == FinishSync =>
              \A k \in Keys : history[synced' + 1][k] # "none" =>
                 /\ Holds(db, k)
                 /\ \E h \in synced'..height :
                       db[k].state = storedState(k, history[h + 1][k])
<1>1. SInv => Covers
  <2> SUFFICES ASSUME SInv, FinishSync, NEW k \in Keys,
                      history[synced' + 1][k] # "none"
               PROVE  /\ Holds(db, k)
                      /\ \E h \in synced'..height :
                            db[k].state = storedState(k, history[h + 1][k])
    OBVIOUS
  <2>1. AllPut /\ synced' = sync.height
    BY DEF FinishSync, SInv, Syncer
  <2>2. Put(sync, history, db, k)
    BY <2>1, AllDuePut DEF Due
  <2> QED
    BY <2>1, <2>2 DEF Put, Seen, Holds, height
<1>2. SyncCoversHeight <=> [][Covers]_vars
  BY PTL DEF SyncCoversHeight
<1> QED
  BY <1>1, <1>2, Invariance, PTL DEF Spec

(***************************************************************************)
(* ReconcileNow reads deployments before leases: under a deployment it     *)
(* shows closed, a finished reconciliation shows every lease ended, and as *)
(* the chain ended it.                                                     *)
(***************************************************************************)
THEOREM NoLeaseOutlivesDeploymentThm == Spec => NoLeaseOutlivesDeployment
<1> DEFINE Agrees == FinishSync /\ sync.mode = "now" =>
              \A d \in DSeqs, p \in Providers :
                 /\ sync.listed[d] = "closed"
                 /\ chain[lease(d, p)] # "none"
                 => /\ Holds(db, lease(d, p))
                    /\ db[lease(d, p)].state \in Ended
                    /\ db[lease(d, p)].state = chain[lease(d, p)]
<1>1. SInv => Agrees
  <2> SUFFICES ASSUME SInv, FinishSync, sync.mode = "now", NEW d \in DSeqs, NEW p \in Providers,
                      sync.listed[d] = "closed", chain[lease(d, p)] # "none"
               PROVE  /\ Holds(db, lease(d, p))
                      /\ db[lease(d, p)].state \in Ended
                      /\ db[lease(d, p)].state = chain[lease(d, p)]
    OBVIOUS
  <2>1. AllPut
    BY DEF FinishSync, SInv, Syncer
  <2>2. lease(d, p) \in Keys /\ lease(d, p).dseq = d /\ lease(d, p).bucket = "leases"
    BY KeyFacts, ZenonT(60)
  <2>3. Put(sync, history, db, lease(d, p))
    BY <2>1, <2>2, AllDuePut DEF Due
  <2>4. history[Len(history)] = chain
    BY DEF SInv, World, Past
  <2> QED
    BY <2>2, <2>3, <2>4, Zenon DEF Put, Seen, Holds, storedState
<1>2. NoLeaseOutlivesDeployment <=> [][Agrees]_vars
  BY PTL DEF NoLeaseOutlivesDeployment
<1> QED
  BY <1>1, <1>2, Invariance, PTL
=============================================================================
