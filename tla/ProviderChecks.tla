---------------------------- MODULE ProviderChecks ----------------------------
(***************************************************************************)
(* The monitor's scheduling of provider checks: the provider cache, the    *)
(* chain syncs that fill it, the queue of checks and the checks under way. *)
(* Syncs and checks run on goroutines of their own and answer with         *)
(* messages, handled one at a time in any order.                           *)
(***************************************************************************)
EXTENDS Naturals, FiniteSets, Sequences

CONSTANTS
    Monitored,       \* providers
    MaxConcurrentChecks,
    OnlineEvery, RecentEvery, LongEvery,  \* check intervals, in minutes
    Threshold,       \* failures that make a provider long-term offline
    MaxChainSyncs    \* bound on chain syncs

ASSUME ChecksAssumption ==
    /\ IsFiniteSet(Monitored)
    /\ MaxConcurrentChecks \in Nat /\ LongEvery \in Nat /\ Threshold \in Nat

VARIABLES
    registry,    \* providers registered on chain
    cache,       \* the provider cache
    chainSyncs,  \* chain syncs: the state of each that was started
    checks,      \* provider checks: the state of each under way
    loader       \* the queue of checks

checkVars == <<registry, cache, chainSyncs, checks, loader>>

(* age: minutes since the last check, up to the longest interval. *)
Statuses == [online : BOOLEAN, checked : BOOLEAN, failures : 0..Threshold, age : 0..LongEvery]

(* A listing has the provider online before its first check. *)
New(online) == [online |-> online, checked |-> FALSE, failures |-> 0, age |-> LongEvery]

NoLoad == [queue |-> << >>, inFlight |-> {}, loading |-> FALSE, firstRun |-> TRUE,
           total |-> 0, checked |-> 0]

(* Init lists the cached providers (sync 0, which answers at once) and     *)
(* then reads the chain (sync 1).                                          *)
ChecksInit ==
    /\ registry \in SUBSET Monitored
    /\ \E known \in SUBSET registry :
          cache \in [known -> {New(FALSE), [New(TRUE) EXCEPT !.checked = TRUE],
                               [New(FALSE) EXCEPT !.checked = TRUE, !.failures = Threshold]}]
    /\ chainSyncs = [n \in 0..MaxChainSyncs |-> IF n = 0 THEN "ok" ELSE IF n = 1 THEN "running" ELSE "none"]
    /\ checks = {}
    /\ loader = NoLoad

-----------------------------------------------------------------------------
(* The provider cache. *)
MarkProviderOnline(p) ==
    [cache EXCEPT ![p] = [online |-> TRUE, checked |-> TRUE, failures |-> 0, age |-> 0]]

MarkProviderOffline(p) ==
    [cache EXCEPT ![p] = [online |-> FALSE, checked |-> TRUE, age |-> 0,
                          failures |-> IF @.failures < Threshold THEN @.failures + 1 ELSE Threshold]]

Interval(s) ==
    IF s.online THEN OnlineEvery ELSE IF s.failures >= Threshold THEN LongEvery ELSE RecentEvery

Due(c, p) == c[p].age >= Interval(c[p])

calculatePriority(s) ==
    IF ~s.checked THEN 0 ELSE IF s.online THEN 1 ELSE IF s.failures < Threshold THEN 2 ELSE 3

Earlier(p, q) ==
    \/ calculatePriority(cache[p]) < calculatePriority(cache[q])
    \/ /\ calculatePriority(cache[p]) = calculatePriority(cache[q])
       /\ cache[p].age >= cache[q].age

(* The orders of a set of providers, each once. *)
Orders(S) ==
    {q \in [1..Cardinality(S) -> S] :
        \A p \in S : \E i \in DOMAIN q : \A j \in DOMAIN q : q[j] = p <=> i = j}

(* SyncWithChain: new providers enter the cache, known ones keep their     *)
(* status.                                                                 *)
SyncWithChain(listed) ==
    [p \in DOMAIN cache \cup DOMAIN listed |-> IF p \in DOMAIN cache THEN cache[p] ELSE New(listed[p])]

(* With an empty cache the provider list may come from the seed service,   *)
(* which knows some providers and whether they are online.                 *)
Listings ==
    {[p \in registry |-> FALSE]} \cup
        (IF DOMAIN cache = {} THEN UNION {[S -> BOOLEAN] : S \in SUBSET registry} ELSE {})

(* The registry, or the query of active leases, may fail. *)
syncChain(n) ==
    /\ chainSyncs[n] = "running"
    /\ \/ /\ chainSyncs' = [chainSyncs EXCEPT ![n] = "err"]
          /\ UNCHANGED cache
       \/ /\ chainSyncs' = [chainSyncs EXCEPT ![n] = "ok"]
          /\ \E listed \in Listings : cache' = SyncWithChain(listed)
    /\ UNCHANGED <<registry, checks, loader>>

(* The timer of the chain sync, and the r key. *)
SyncTick(n) ==
    /\ chainSyncs[n] = "none" /\ chainSyncs[n - 1] # "none"
    /\ chainSyncs' = [chainSyncs EXCEPT ![n] = "running"]
    /\ UNCHANGED <<registry, cache, checks, loader>>

(* gRPC, then REST; a check answers within its timeouts. *)
checkProvider(c) ==
    /\ c.out = "running"
    /\ \E out \in {"online", "offline"} : checks' = (checks \ {c}) \cup {[c EXCEPT !.out = out]}
    /\ UNCHANGED <<registry, cache, chainSyncs, loader>>

-----------------------------------------------------------------------------
(* The queue of checks. *)

(* The checks that the loop over the queue has started after i owners, and *)
(* whether it ends there.                                                  *)
dispatched(l, i) == {l.queue[j] : j \in 1..i} \ l.inFlight

Ends(l, i) ==
    LET available == MaxConcurrentChecks - Cardinality(l.inFlight)
        started == Cardinality(dispatched(l, i))
    IN  \/ started = available /\ (i > 0 => l.queue[i] \notin l.inFlight)
        \/ started < available /\ i = Len(l.queue)

(* nth tells a check from another one of the same provider. *)
Check(p) == [of |-> p, nth |-> Cardinality({c \in checks : c.of = p}), out |-> "running"]

(* Mutant: the loop does not skip the providers whose check is under way. *)
dispatchProviderChecksAgain(l) ==
    LET available == MaxConcurrentChecks - Cardinality(l.inFlight)
        started == {l.queue[j] : j \in {k \in DOMAIN l.queue : k <= available}}
    IN  /\ loader' = [l EXCEPT !.inFlight = @ \cup started]
        /\ checks' = checks \cup {Check(p) : p \in started}

dispatchProviderChecks(l) ==
    \E i \in 0..Len(l.queue) :
        /\ Ends(l, i)
        /\ loader' = [l EXCEPT !.inFlight = @ \cup dispatched(l, i)]
        /\ checks' = checks \cup {Check(p) : p \in dispatched(l, i)}

(* Providers by priority, those with active leases first (on the first run *)
(* only).                                                                  *)
Before(p, r, leased) ==
    IF (p \in leased) # (r \in leased) THEN p \in leased ELSE Earlier(p, r)

GetProvidersByPriority(leased) ==
    {q \in Orders(DOMAIN cache) : \A i, j \in DOMAIN q : i < j => Before(q[i], q[j], leased)}

buildProviderQueue(q) ==
    [loader EXCEPT !.queue = q, !.total = Len(q), !.checked = 0, !.loading = q # << >>]

handleChainSyncMsg(n) ==
    /\ chainSyncs[n] \in {"ok", "err"}
    /\ chainSyncs' = [chainSyncs EXCEPT ![n] = "handled"]
    /\ \/ chainSyncs[n] = "err" /\ UNCHANGED <<checks, loader>>
       \/ /\ chainSyncs[n] = "ok"
          /\ \E leased \in IF loader.firstRun THEN SUBSET DOMAIN cache ELSE {{}} :
             \E q \in GetProvidersByPriority(leased) :
                dispatchProviderChecks(buildProviderQueue(q))
    /\ UNCHANGED <<registry, cache>>

ProviderCheckTick == dispatchProviderChecks(loader) /\ UNCHANGED <<registry, cache, chainSyncs>>

removeFromQueue(q, p) ==
    LET i == CHOOSE k \in DOMAIN q : q[k] = p
    IN  IF \E k \in DOMAIN q : q[k] = p
        THEN [j \in 1..(Len(q) - 1) |-> IF j < i THEN q[j] ELSE q[j + 1]] ELSE q

(* Bound on a count that only matters while the queue is loading. *)
Plus1(n) == IF n > Cardinality(Monitored) THEN n ELSE n + 1

(* Mutant: the provider stays marked as being checked. *)
handleProviderCheckedMsgInFlight(c) ==
    /\ c.out # "running"
    /\ checks' = checks \ {c}
    /\ cache' = IF c.out = "online" THEN MarkProviderOnline(c.of) ELSE MarkProviderOffline(c.of)
    /\ loader' = [loader EXCEPT !.queue = removeFromQueue(@, c.of), !.checked = Plus1(@)]
    /\ UNCHANGED <<registry, chainSyncs>>

(* The queue is filled again only when its last check has answered, with   *)
(* the providers due at that moment.  Checks fail with an error only after *)
(* the loop has ended.                                                     *)
handleProviderCheckedMsg(c) ==
    /\ c.out # "running"
    /\ checks' = checks \ {c}
    /\ cache' = IF c.out = "online" THEN MarkProviderOnline(c.of) ELSE MarkProviderOffline(c.of)
    /\ LET l == [loader EXCEPT !.inFlight = @ \ {c.of}, !.queue = removeFromQueue(@, c.of),
                               !.checked = Plus1(@)]
           due == {p \in DOMAIN cache : Due(cache', p)}
       IN  IF l.queue = << >> /\ l.inFlight = {}
           THEN \E q \in Orders(due) :
                   loader' = [l EXCEPT !.loading = FALSE, !.firstRun = FALSE, !.queue = q]
           ELSE loader' = l
    /\ UNCHANGED <<registry, chainSyncs>>

-----------------------------------------------------------------------------
Minute ==
    /\ cache' = [p \in DOMAIN cache |->
                   [cache[p] EXCEPT !.age = IF @ < LongEvery THEN @ + 1 ELSE LongEvery]]
    /\ UNCHANGED <<registry, chainSyncs, checks, loader>>

Register(p) ==
    /\ p \notin registry
    /\ registry' = registry \cup {p}
    /\ UNCHANGED <<cache, chainSyncs, checks, loader>>

ChecksNext ==
    \/ ProviderCheckTick \/ Minute
    \/ \E n \in 0..MaxChainSyncs : syncChain(n) \/ handleChainSyncMsg(n)
    \/ \E n \in 1..MaxChainSyncs : SyncTick(n)
    \/ \E c \in checks : checkProvider(c) \/ handleProviderCheckedMsg(c)
    \/ \E p \in Monitored : Register(p)

(* Requests have timeouts, the loop handles its messages, ticks keep       *)
(* coming.                                                                 *)
CheckMoves(p) == \E c \in checks : c.of = p /\ (checkProvider(c) \/ handleProviderCheckedMsg(c))

SyncMoves == \E n \in 0..MaxChainSyncs : syncChain(n) \/ handleChainSyncMsg(n)

ChecksFairness ==
    /\ WF_checkVars(ProviderCheckTick)
    /\ WF_checkVars(SyncMoves)
    /\ \A p \in Monitored : WF_checkVars(CheckMoves(p))

ChecksSpec == ChecksInit /\ [][ChecksNext]_checkVars /\ ChecksFairness

-----------------------------------------------------------------------------
Queued == {loader.queue[i] : i \in DOMAIN loader.queue}

(* The variables keep their types, and the queue lists no provider twice.  *)
ChecksTypeOK ==
    /\ DOMAIN cache \subseteq registry
    /\ \A p \in DOMAIN cache : cache[p] \in Statuses
    /\ \A n \in 0..MaxChainSyncs : chainSyncs[n] \in {"none", "running", "ok", "err", "handled"}
    /\ loader.queue \in Orders(Queued) /\ Queued \subseteq DOMAIN cache
    /\ loader.inFlight \subseteq Queued

(* dispatchProviderChecks and the answers: a provider is marked in flight  *)
(* exactly when one check of it is under way, and no more than             *)
(* MaxConcurrentChecks are, whatever chain syncs rebuild the queue in      *)
(* between.                                                                *)
OneCheckEach ==
    /\ \A p \in Monitored :
          Cardinality({c \in checks : c.of = p}) = IF p \in loader.inFlight THEN 1 ELSE 0
    /\ Cardinality(loader.inFlight) <= MaxConcurrentChecks

(* The progress line: while the list is loading, the checks counted and    *)
(* those still queued add up to the total, also when a chain sync replaces *)
(* the queue while checks of the old one are under way.                    *)
ProgressAddsUp ==
    loader.loading => loader.checked + Len(loader.queue) = loader.total

(* The queue, the checks under way and the progress line agree. *)
ChecksAddUp == OneCheckEach /\ ProgressAddsUp

(* Once chain syncs stop replacing the queue, every provider that reached  *)
(* the cache gets checked.                                                 *)
KnownIsChecked == <>[](\A p \in DOMAIN cache : cache[p].checked)

(* SPEC.md, "Smart scheduling: online providers checked every 1m": after   *)
(* the first pass, an online provider a minute past its interval is        *)
(* waiting for its check.                                                  *)
DueIsQueued ==
    ~loader.firstRun => \A p \in DOMAIN cache :
        cache[p].checked /\ cache[p].online /\ cache[p].age > OnlineEvery => p \in Queued
=============================================================================
