-------------------------- MODULE ConsensusStream --------------------------
(***************************************************************************)
(* The monitor's consensus stream: the producer goroutine with its web     *)
(* socket and tracker, the channel of snapshots, and the part of the user  *)
(* interface that consumes them, records finished blocks and subscribes    *)
(* again when the stream ends.  The node is the environment: it publishes  *)
(* votes and steps in any order, late ones included.                       *)
(***************************************************************************)
EXTENDS ConsensusTracker, Sequences

CONSTANTS
    Capacity,         \* buffer of the snapshot channel
    MaxBlockHistory,  \* blocks the interface remembers
    Published,        \* bound: the messages the node may publish
    MaxMessages,      \* bound: how many it publishes
    NoSnapshot        \* the nil of Model.pendingState and Model.state

ASSUME StreamAssumption ==
    /\ Capacity \in Nat \ {0}
    /\ MaxBlockHistory \in Nat \ {0}
    /\ Published \subseteq Messages
    /\ MaxMessages \in Nat

VARIABLES
    conn,       \* where the producer is
    pending,    \* subscriptions not acknowledged yet
    buffered,   \* events that overtook an acknowledgement
    tracker,
    ch,         \* the snapshot channel
    cancelled,  \* the runtime context is cancelled
    ui,         \* the interface's outstanding command
    waiting,    \* Model.pendingState: not rendered yet
    block,      \* state, peakHeight and firstHeightSeen of the model
    history,    \* Model.blockHistory, newest first
    received,   \* votes read on this connection (auxiliary)
    last,       \* the last snapshot of each height taken (auxiliary)
    count       \* messages sent by the node (bound)

connection == <<pending, buffered, tracker, received>>
producer == <<conn, connection>>
interface == <<waiting, block, history, last>>
vars == <<producer, ch, cancelled, ui, interface, count>>

Subscriptions == {"Vote", "NewRoundStep"}

Snapshots == [height : Heights, round : Rounds, step : NodeSteps,
              prevoted : SUBSET Indexes, precommited : SUBSET Indexes]

ASSUME NoSnapshotAssumption == NoSnapshot \notin Snapshots

(* buildState. *)
buildState(t) ==
    [height |-> t.height, round |-> t.round, step |-> t.step,
     prevoted |-> t.prevoted, precommited |-> t.precommited]

TypeOK ==
    /\ conn \in {"idle", "setup", "read", "send", "backoff", "closed"}
    /\ pending \subseteq Subscriptions
    /\ pending # {} <=> conn = "setup"
    /\ buffered \in Seq(Messages)
    /\ tracker \in Trackers
    /\ ch \in Seq(Snapshots) /\ Len(ch) <= Capacity
    /\ cancelled \in BOOLEAN
    /\ ui \in {"connect", "wait", "retry", "stopped"}
    /\ waiting \in Snapshots \cup {NoSnapshot}
    /\ block \in [shown : Snapshots \cup {NoSnapshot}, peak : Heights \cup {0},
                 seen : BOOLEAN]
    /\ history \in Seq(Snapshots) /\ Len(history) <= MaxBlockHistory
    /\ received \subseteq Votes
    /\ last \in [Heights -> Snapshots \cup {NoSnapshot}]
    /\ count \in 0..MaxMessages

Init ==
    /\ conn = "idle"
    /\ pending = {}
    /\ buffered = <<>>
    /\ tracker = newConsensusTracker(Latest)
    /\ ch = <<>>
    /\ cancelled = FALSE
    /\ ui = "connect"
    /\ waiting = NoSnapshot
    /\ block = [shown |-> NoSnapshot, peak |-> 0, seen |-> FALSE]
    /\ history = <<>>
    /\ received = {}
    /\ last = [h \in Heights |-> NoSnapshot]
    /\ count = 0

Cancel ==
    /\ ~cancelled
    /\ cancelled' = TRUE
    /\ UNCHANGED <<producer, ch, ui, interface, count>>
-----------------------------------------------------------------------------
(* The producer. *)

(* The connection and what the goroutine keeps for it are gone. *)
Leave(phase) ==
    /\ conn' = phase
    /\ pending' = {}
    /\ buffered' = <<>>
    /\ tracker' = newConsensusTracker(Latest)
    /\ received' = {}

(* openConsensusConnection: dial, load the newest set, ask for the events. *)
Open ==
    /\ conn' = "setup"
    /\ pending' = Subscriptions
    /\ UNCHANGED <<buffered, tracker, received>>

(* subscribeConsensusEvents: the setup ends with the last one. *)
Acknowledge(s) ==
    /\ conn = "setup"
    /\ s \in pending
    /\ pending' = pending \ {s}
    /\ conn' = IF pending' = {} THEN "read" ELSE "setup"
    /\ IF pending' = {} /\ ui = "connect"
         THEN ui' = "wait" /\ ch' = <<>>
         ELSE UNCHANGED <<ui, ch>>
    /\ UNCHANGED <<buffered, tracker, received, cancelled, interface, count>>

(* Mutant: an event before the last acknowledgement is thrown away. *)
EarlyEventDropped(m) ==
    /\ conn = "setup"
    /\ count < MaxMessages
    /\ count' = count + 1
    /\ received' = received \cup ({m} \cap Votes)
    /\ UNCHANGED <<conn, pending, buffered, tracker, ch, cancelled, ui,
                   interface>>

(* The node publishes before it acknowledges. *)
EarlyEvent(m) ==
    /\ conn = "setup"
    /\ count < MaxMessages
    /\ count' = count + 1
    /\ buffered' = Append(buffered, m)
    /\ received' = received \cup ({m} \cap Votes)
    /\ UNCHANGED <<conn, pending, tracker, ch, cancelled, ui, interface>>

(***************************************************************************)
(* An error or the deadline of the setup.  The first setup of a            *)
(* subscription reports to the interface, a later one closes the channel.  *)
(***************************************************************************)
SetupFails ==
    /\ conn = "setup"
    /\ Leave("closed")
    /\ ui' = IF ui # "connect" THEN ui
             ELSE IF cancelled THEN "stopped" ELSE "retry"
    /\ UNCHANGED <<ch, cancelled, interface, count>>

(* A message of a higher height starts a tracker with that height's set. *)
SetFor(m) ==
    IF NeedsSet(tracker, m) THEN newConsensusTracker(m.height) ELSE tracker

(* One turn of the loop of consumeConsensusConnection. *)
Handle(m) ==
    LET t == SetFor(m)
    IN  /\ tracker' = IF Accepts(t, m) THEN handleMessage(t, m) ELSE t
        /\ conn' = IF Accepts(t, m) THEN "send" ELSE "read"

(* The set of the height cannot be had: the stream ends. *)
SetUnavailable(m) == NeedsSet(tracker, m) /\ Leave("closed")

TakeBuffered ==
    /\ conn = "read"
    /\ buffered # <<>>
    /\ \/ /\ Handle(Head(buffered))
          /\ buffered' = Tail(buffered)
          /\ UNCHANGED <<pending, received>>
       \/ SetUnavailable(Head(buffered))
    /\ UNCHANGED <<ch, cancelled, ui, interface, count>>

Receive(m) ==
    /\ conn = "read"
    /\ buffered = <<>>
    /\ count < MaxMessages
    /\ count' = count + 1
    /\ \/ /\ Handle(m)
          /\ received' = received \cup ({m} \cap Votes)
          /\ UNCHANGED <<pending, buffered>>
       \/ SetUnavailable(m)
    /\ UNCHANGED <<ch, cancelled, ui, interface>>

SendRoom ==
    /\ Len(ch) < Capacity
    /\ ch' = Append(ch, buildState(tracker))
    /\ conn' = "read"
    /\ UNCHANGED connection

(* Mutant: the send does not watch the context. *)
SendStuck ==
    /\ conn = "send"
    /\ SendRoom \/ (Len(ch) = Capacity /\ UNCHANGED <<producer, ch>>)
    /\ UNCHANGED <<cancelled, ui, interface, count>>

(* The select of the send: room in the channel, or the context is done. *)
Send ==
    /\ conn = "send"
    /\ SendRoom \/ (cancelled /\ Leave("closed") /\ UNCHANGED ch)
    /\ UNCHANGED <<cancelled, ui, interface, count>>

(* The node ends the subscription with an RPC error. *)
SubscriptionError ==
    /\ conn = "read"
    /\ buffered = <<>>
    /\ Leave("closed")
    /\ UNCHANGED <<ch, cancelled, ui, interface, count>>

(* A read fails: the transport broke, or the cancellation closed it. *)
ReadFails ==
    /\ conn = "read"
    /\ buffered = <<>>
    /\ Leave(IF cancelled THEN "closed" ELSE "backoff")
    /\ UNCHANGED <<ch, cancelled, ui, interface, count>>

(* waitForConsensusReconnect: the timer, and a new connection. *)
Reconnect ==
    /\ conn = "backoff"
    /\ Open
    /\ UNCHANGED <<ch, cancelled, ui, interface, count>>

(* Or the cancellation. *)
BackoffCancelled ==
    /\ conn = "backoff"
    /\ cancelled
    /\ Leave("closed")
    /\ UNCHANGED <<ch, cancelled, ui, interface, count>>
-----------------------------------------------------------------------------
(* The interface. *)

(* connectWebSocket. *)
Connect ==
    /\ ui = "connect"
    /\ conn \in {"idle", "closed"}
    /\ Open
    /\ UNCHANGED <<ch, cancelled, ui, interface, count>>

Newest(s) ==
    IF Len(s) > MaxBlockHistory THEN SubSeq(s, 1, MaxBlockHistory) ELSE s

(***************************************************************************)
(* handleStateMsg: the first height seen is incomplete and not recorded;   *)
(* every later change of height records the block shown so far.            *)
(***************************************************************************)
Shown(s) ==
    LET higher == block.peak > 0 /\ s.height > block.peak
    IN  /\ block' = [shown |-> s, peak |-> s.height,
                     seen |-> block.seen \/ higher]
        /\ history' = IF higher /\ block.seen
                        THEN Newest(<<block.shown>> \o history)
                        ELSE history

(* Mutant: the snapshot waiting is replaced, whatever its height. *)
TakeSnapshotReplacing ==
    /\ ui = "wait"
    /\ ch # <<>>
    /\ ch' = Tail(ch)
    /\ waiting' = Head(ch)
    /\ last' = [last EXCEPT ![Head(ch).height] = Head(ch)]
    /\ UNCHANGED <<producer, cancelled, ui, block, history, count>>

(* A snapshot: the one waiting is shown first if this is of a new height. *)
TakeSnapshot ==
    /\ ui = "wait"
    /\ ch # <<>>
    /\ ch' = Tail(ch)
    /\ IF waiting # NoSnapshot /\ Head(ch).height > waiting.height
         THEN Shown(waiting)
         ELSE UNCHANGED <<block, history>>
    /\ waiting' = Head(ch)
    /\ last' = [last EXCEPT ![Head(ch).height] = Head(ch)]
    /\ UNCHANGED <<producer, cancelled, ui, count>>

RenderTick ==
    /\ waiting # NoSnapshot
    /\ Shown(waiting)
    /\ waiting' = NoSnapshot
    /\ UNCHANGED <<producer, ch, cancelled, ui, last, count>>

(* Mutant: a stream that ended is not subscribed again. *)
StreamEndedForGood ==
    /\ ui = "wait"
    /\ (conn = "closed" /\ ch = <<>>) \/ cancelled
    /\ ui' = "stopped"
    /\ UNCHANGED <<producer, ch, cancelled, interface, count>>

(* The channel is closed and drained, or the context is done. *)
StreamEnded ==
    /\ ui = "wait"
    /\ (conn = "closed" /\ ch = <<>>) \/ cancelled
    /\ ui' = IF cancelled THEN "stopped" ELSE "retry"
    /\ UNCHANGED <<producer, ch, cancelled, interface, count>>

(* The timer of scheduleConsensusReconnect, or the cancellation. *)
Retry ==
    /\ ui = "retry"
    /\ ui' = IF cancelled THEN "stopped" ELSE "connect"
    /\ UNCHANGED <<producer, ch, cancelled, interface, count>>

Rest == conn \in {"idle", "closed"} /\ ui = "stopped" /\ UNCHANGED vars

ProducerStep ==
    \/ SetupFails
    \/ TakeBuffered
    \/ Send
    \/ ReadFails
    \/ Reconnect
    \/ BackoffCancelled

Next ==
    \/ Cancel
    \/ \E s \in Subscriptions : Acknowledge(s)
    \/ \E m \in Published : EarlyEvent(m)
    \/ \E m \in Published : Receive(m)
    \/ SubscriptionError
    \/ ProducerStep
    \/ Connect
    \/ TakeSnapshot
    \/ RenderTick
    \/ StreamEnded
    \/ Retry
    \/ Rest

(***************************************************************************)
(* The setup has a deadline, the send and the waits watch the context, and *)
(* the cancellation closes the socket under a read; the interface's event  *)
(* loop runs its commands.  Nothing is assumed of the node.                *)
(***************************************************************************)
Fairness ==
    /\ WF_vars(SetupFails)
    /\ WF_vars(TakeBuffered)
    /\ WF_vars(Send)
    /\ WF_vars(cancelled /\ ReadFails)
    /\ WF_vars(Reconnect \/ BackoffCancelled)
    /\ WF_vars(Connect)
    /\ WF_vars(TakeSnapshot \/ StreamEnded)
    /\ WF_vars(Retry)

Spec == Init /\ [][Next]_vars /\ Fairness
-----------------------------------------------------------------------------
Reading == conn \in {"read", "send"}

(***************************************************************************)
(* Within a connection the tracker never goes back to an earlier height,   *)
(* round or step, whatever order votes and steps arrive in (advanceTo and  *)
(* the check of the step in handleNewRoundStepEvent).                      *)
(***************************************************************************)
TrackerNeverRewinds ==
    [][Reading /\ Reading' /\ tracker.initialized =>
         /\ tracker'.initialized
         /\ \/ tracker'.height > tracker.height
            \/ /\ tracker'.height = tracker.height
               /\ \/ tracker'.round > tracker.round
                  \/ /\ tracker'.round = tracker.round
                     /\ tracker'.step >= tracker.step]_vars

Counted(kind) ==
    IF kind = "prevote" THEN tracker.prevoted ELSE tracker.precommited

VotesOfRound(kind) ==
    {m \in received : /\ m.kind = kind
                      /\ m.height = tracker.height
                      /\ m.round = tracker.round}

(***************************************************************************)
(* The votes counted are exactly the votes of the tracker's height and     *)
(* round that were read on this connection, those that overtook an         *)
(* acknowledgement and those that arrived before the round's step event    *)
(* included, and they are weighed with the validator set of that height.   *)
(***************************************************************************)
VotesExact ==
    Reading /\ buffered = <<>> =>
        /\ tracker.initialized => tracker.set = tracker.height
        /\ \A kind \in {"prevote", "precommit"} :
             Counted(kind) = {m.index : m \in VotesOfRound(kind)}

(***************************************************************************)
(* A block enters the history with the votes of the last snapshot of its   *)
(* height that the interface took, although snapshots are only shown at    *)
(* the render tick (TakeSnapshot shows the waiting one first).             *)
(***************************************************************************)
HistoryKeepsVotes ==
    [][history' # history => Head(history') = last[Head(history').height]]_vars

(***************************************************************************)
(* After the cancellation the producer ends and the interface stops, with  *)
(* a full channel, in the setup, in a read or in the back-off alike.       *)
(***************************************************************************)
CancellationDrains ==
    cancelled ~> (conn \in {"idle", "closed"} /\ ui = "stopped")

(* A stream that ended is subscribed again unless the monitor is stopped. *)
Resubscribes == conn = "closed" ~> (conn = "setup" \/ cancelled)

(***************************************************************************)
(* internal/monitor/ui/model.go describes blockHistory as "completed       *)
(* blocks, newest first": heights only fall along it.                      *)
(***************************************************************************)
HistoryNewestFirst ==
    \A i, j \in 1..Len(history) :
        i < j => history[i].height > history[j].height
=============================================================================
