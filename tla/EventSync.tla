------------------------------ MODULE EventSync ------------------------------
(***************************************************************************)
(* From blocks to the deployment store: the event service reads the events *)
(* of every block and publishes them, the bridge hands them one at a time  *)
(* to the sync engine, which writes them to the store.  A block's results  *)
(* may be unavailable, the subscription may close, a write may fail, and   *)
(* the program may quit between two writes of one handler.                 *)
(***************************************************************************)
EXTENDS Naturals, Sequences

CONSTANTS
    MaxUpdates,  \* bound on updates of the deployment
    MaxStarts    \* bound on sessions

VARIABLES
    chain,    \* the deployment, its bid and its lease on chain
    headers,  \* blocks announced to the service and not processed yet
    svc,      \* the event service: "off", "on", "closed"
    bus,      \* events published and not taken yet
    bridge,   \* the bridge: what waitForEvent is doing
    store,    \* the records of the store
    seen,     \* the chain as of the last event handled
    lost,     \* something did not reach the store in this session
    starts

vars == <<chain, headers, svc, bus, bridge, store, seen, lost, starts>>

Kinds == {"deployment", "bid", "lease"}

(* States in the order an object goes through them, the ways to end last.  *)
Lifecycle ==
    [k \in Kinds |->
        CASE k = "deployment" -> <<{"none"}, {"active"}, {"closed"}>>
          [] k = "bid" -> <<{"none"}, {"open"}, {"matched"}, {"closed", "lost"}>>
          [] k = "lease" -> <<{"none"}, {"active"}, {"closed", "insufficient_funds"}>>]

Rank(k, state) == CHOOSE i \in 1..Len(Lifecycle[k]) : state \in Lifecycle[k][i]

Absent == [deployment |-> "none", bid |-> "none", lease |-> "none", version |-> 0]

Waiting == [at |-> "off", event |-> << >>]

Init ==
    /\ chain = Absent /\ store = Absent /\ seen = Absent
    /\ headers = << >> /\ bus = << >>
    /\ svc = "off"
    /\ bridge = Waiting
    /\ lost = FALSE
    /\ starts = 0

-----------------------------------------------------------------------------
(* The chain.  A transaction, or the end of a block, makes a block of      *)
(* events; an event carries the chain as it is after it.                   *)
Event(type, after) == [type |-> type, after |-> after]

(* The chain once the objects these events name are closed; end is how the *)
(* lease ended.                                                            *)
Closed(c, types, end) ==
    [c EXCEPT !.deployment = IF "EventDeploymentClosed" \in types THEN "closed" ELSE @,
              !.lease = IF "EventLeaseClosed" \in types THEN end ELSE @,
              !.bid = IF "EventBidClosed" \in types THEN "closed" ELSE @]

(* What closing the lease, then the deployment, emits. *)
LeaseEnd(c) ==
    LET l == IF c.lease = "active" THEN <<"EventLeaseClosed">> ELSE << >>
        b == IF c.bid \in {"open", "matched"} THEN <<"EventBidClosed">> ELSE << >>
    IN  l \o b

Emit(events) ==
    LET last == events[Len(events)].after
    IN  /\ chain' = last
        /\ headers' = IF svc = "on" THEN Append(headers, events) ELSE headers
        /\ lost' = (lost \/ svc # "on")
        /\ UNCHANGED <<svc, bus, bridge, store, seen, starts>>

(* The events of a sequence of closings, each with the chain after it. *)
Closings(types, end) ==
    [i \in 1..Len(types) |-> Event(types[i], Closed(chain, {types[j] : j \in 1..i}, end))]

Block ==
    \/ /\ chain.deployment = "none"
       /\ LET c == [chain EXCEPT !.deployment = "active", !.version = 1]
          IN  Emit(<<Event("EventDeploymentCreated", c)>>)
    \/ /\ chain.deployment = "active" /\ chain.version <= MaxUpdates
       /\ LET c == [chain EXCEPT !.version = @ + 1]
          IN  Emit(<<Event("EventDeploymentUpdated", c)>>)
    \/ /\ chain.deployment = "active" /\ chain.bid = "none"
       /\ LET c == [chain EXCEPT !.bid = "open"]
          IN  Emit(<<Event("EventBidCreated", c)>>)
    \/ /\ chain.deployment = "active" /\ chain.bid = "open"
       /\ LET c == [chain EXCEPT !.bid = "matched", !.lease = "active"]
          IN  Emit(<<Event("EventLeaseCreated", c)>>)
    \/ /\ LeaseEnd(chain) # << >>
       /\ Emit(Closings(LeaseEnd(chain), "closed"))
    \/ /\ chain.deployment = "active"
       /\ \E end \in {"closed", "insufficient_funds"} :
             Emit(Closings(<<"EventDeploymentClosed">> \o LeaseEnd(chain), end))

(* Another bid wins: no event names the bids that lost. *)
BidLost ==
    /\ chain.deployment = "active" /\ chain.bid = "open"
    /\ chain' = [chain EXCEPT !.bid = "lost"]
    /\ UNCHANGED <<headers, svc, bus, bridge, store, seen, lost, starts>>

-----------------------------------------------------------------------------
(* The event service. *)
NewService ==
    /\ svc = "off" /\ starts < MaxStarts
    /\ svc' = "on" /\ starts' = starts + 1
    /\ bridge' = [Waiting EXCEPT !.at = "wait"]
    /\ UNCHANGED <<chain, headers, bus, store, seen, lost>>

(* Mutant: the end of the block is published before its transactions. *)
processBlockReversed ==
    /\ svc = "on" /\ headers # << >>
    /\ headers' = Tail(headers)
    /\ \/ LET b == Head(headers) IN bus' = bus \o [i \in 1..Len(b) |-> b[Len(b) + 1 - i]]
       \/ bus' = bus
    /\ lost' = (lost \/ bus' = bus)
    /\ UNCHANGED <<chain, svc, bridge, store, seen, starts>>

(* A block whose results cannot be read is passed over. *)
processBlock ==
    /\ svc = "on" /\ headers # << >>
    /\ headers' = Tail(headers)
    /\ \/ bus' = bus \o Head(headers) /\ UNCHANGED lost
       \/ bus' = bus /\ lost' = TRUE
    /\ UNCHANGED <<chain, svc, bridge, store, seen, starts>>

(* The subscription's channel is closed and drained: the service ends. *)
SubscriptionClosed ==
    /\ svc = "on" /\ headers = << >>
    /\ svc' = "closed"
    /\ UNCHANGED <<chain, headers, bus, bridge, store, seen, lost, starts>>

-----------------------------------------------------------------------------
(* The sync engine: what each handler writes. *)
handleDeploymentCreated(s, e) == [s EXCEPT !.deployment = "active", !.version = e.after.version]

handleDeploymentUpdated(s, e) ==
    [s EXCEPT !.deployment = IF @ = "none" THEN "active" ELSE @, !.version = e.after.version]

handleDeploymentClosed(s, e) == [s EXCEPT !.deployment = "closed"]

handleBidCreated(s, e) == [s EXCEPT !.bid = "open"]
handleBidClosed(s, e) == [s EXCEPT !.bid = "closed"]

(* The first of the two writes of a created lease, and the second: only a  *)
(* bid the store knows is marked.                                          *)
handleLeaseCreated(s, e) == [s EXCEPT !.lease = "active"]

(* Mutant: the bid is left as it is. *)
matchBidNot(s) == s

matchBid(s) == IF s.bid = "none" THEN s ELSE [s EXCEPT !.bid = "matched"]

handleLeaseClosed(s, e) == [s EXCEPT !.lease = "closed"]

HandleEvent(s, e) ==
    CASE e.type = "EventDeploymentCreated" -> handleDeploymentCreated(s, e)
      [] e.type = "EventDeploymentUpdated" -> handleDeploymentUpdated(s, e)
      [] e.type = "EventDeploymentClosed" -> handleDeploymentClosed(s, e)
      [] e.type = "EventBidCreated" -> handleBidCreated(s, e)
      [] e.type = "EventBidClosed" -> handleBidClosed(s, e)
      [] e.type = "EventLeaseCreated" -> handleLeaseCreated(s, e)
      [] e.type = "EventLeaseClosed" -> handleLeaseClosed(s, e)

(* waitForEvent hands the next event to the engine, whose error it drops.  *)
waitForEvent ==
    /\ bridge.at = "wait" /\ bus # << >>
    /\ bus' = Tail(bus)
    /\ LET e == Head(bus)
       IN  \/ /\ store' = HandleEvent(store, e)
              /\ bridge' = [at |-> IF e.type = "EventLeaseCreated" THEN "match" ELSE "refresh", event |-> e]
              /\ UNCHANGED lost
           \/ /\ bridge' = [at |-> "refresh", event |-> e]
              /\ lost' = TRUE
              /\ UNCHANGED store
    /\ UNCHANGED <<chain, headers, svc, seen, starts>>

MatchBid ==
    /\ bridge.at = "match"
    /\ bridge' = [bridge EXCEPT !.at = "refresh"]
    /\ \/ store' = matchBid(store) /\ UNCHANGED lost
       \/ lost' = TRUE /\ UNCHANGED store
    /\ UNCHANGED <<chain, headers, svc, bus, seen, starts>>

(* ViewDataRefreshMsg: the wait is armed again, once. *)
Refresh ==
    /\ bridge.at = "refresh"
    /\ bridge' = [Waiting EXCEPT !.at = "wait"]
    /\ seen' = bridge.event.after
    /\ UNCHANGED <<chain, headers, svc, bus, store, lost, starts>>

(* Mutant: events that were not taken wait for the next session. *)
QuitKeepsBus ==
    /\ svc # "off"
    /\ svc' = "off"
    /\ lost' = (lost \/ headers # << >> \/ bridge.at # "wait")
    /\ headers' = << >> /\ bridge' = Waiting
    /\ UNCHANGED <<chain, bus, store, seen, starts>>

(* The program ends; what was under way is gone. *)
Quit ==
    /\ svc # "off"
    /\ svc' = "off"
    /\ lost' = (lost \/ headers # << >> \/ bus # << >> \/ bridge.at # "wait")
    /\ headers' = << >> /\ bus' = << >> /\ bridge' = Waiting
    /\ UNCHANGED <<chain, store, seen, starts>>

(* A complete reconciliation between sessions. *)
Reconcile ==
    /\ svc = "off"
    /\ store' = chain /\ seen' = chain /\ lost' = FALSE
    /\ UNCHANGED <<chain, headers, svc, bus, bridge, starts>>

Next ==
    \/ Block \/ BidLost \/ NewService \/ processBlock \/ SubscriptionClosed
    \/ waitForEvent \/ MatchBid \/ Refresh \/ Quit \/ Reconcile

Fairness == WF_vars(processBlock) /\ WF_vars(waitForEvent) /\ WF_vars(MatchBid) /\ WF_vars(Refresh)

Spec == Init /\ [][Next]_vars /\ Fairness

-----------------------------------------------------------------------------
(* The variables keep their types. *)
TypeOK ==
    /\ \A k \in Kinds : \E i \in 1..Len(Lifecycle[k]) : store[k] \in Lifecycle[k][i]
    /\ store.version \in 0..(MaxUpdates + 1)
    /\ bridge.at \in {"off", "wait", "match", "refresh"}

(* What the events tell of the chain: not that a bid lost, and not how a   *)
(* lease ended.                                                            *)
Told(c) ==
    [c EXCEPT !.bid = IF @ = "lost" THEN "open" ELSE @,
              !.lease = IF @ = "insufficient_funds" THEN "closed" ELSE @]

(* processBlock and HandleEvent: between two events, when nothing was lost *)
(* since the last reconciliation, the store is what the events told of the *)
(* chain as of the event handled last.                                     *)
StoreIsReplay == bridge.at \in {"off", "wait"} /\ ~lost => Told(store) = Told(seen)

(* Whatever blocks were passed over and writes failed, no record is ahead  *)
(* of the chain.                                                           *)
NeverAhead == \A k \in Kinds : Rank(k, store[k]) <= Rank(k, chain[k])

(* Whatever was lost, a record never returns to an earlier state: what is  *)
(* closed stays closed.                                                    *)
NeverBack == [][\A k \in Kinds : Rank(k, store[k]) <= Rank(k, store'[k])]_vars

(* Both: no event is applied out of order or twice, and none that the      *)
(* chain has not made.                                                     *)
StoreFollowsChain == StoreIsReplay /\ NeverAhead

(* A session in which nothing is lost brings the store to what the events  *)
(* tell of the chain.                                                      *)
StoreCatchesUp == (svc = "on" /\ ~lost) ~> (Told(store) = Told(chain) \/ lost \/ svc # "on")

(* The store shows the chain itself once all events are handled: a bid     *)
(* that lost, and a lease that ended for lack of funds, too.               *)
StoreShowsChain == bridge.at \in {"off", "wait"} /\ ~lost => store = seen
=============================================================================
