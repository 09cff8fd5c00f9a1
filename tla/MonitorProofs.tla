---------------------------- MODULE MonitorProofs ----------------------------
(***************************************************************************)
(* The monitor: the consensus tracker never goes back and counts exactly   *)
(* the votes it was sent, for any number of validators, heights, rounds    *)
(* and messages; and every provider in flight has one check under way, for *)
(* any number of providers and chain syncs.                                *)
(***************************************************************************)
EXTENDS ConsensusStream, ProviderChecks, FiniteSetTheorems, TLAPS

(* The front of a sequence (SubSeq), and a sequence with a new head. *)
LEMMA FrontFacts ==
    ASSUME NEW S, NEW s \in Seq(S), NEW n \in Nat, 0 < n, n <= Len(s)
    PROVE  /\ SubSeq(s, 1, n) \in Seq(S) /\ Len(SubSeq(s, 1, n)) = n
           /\ SubSeq(s, 1, n) # << >> /\ Head(SubSeq(s, 1, n)) = Head(s)
<1>1. PICK f : f = SubSeq(s, 1, n)
  BY Zenon
<1>2. f \in Seq(S) /\ Len(f) = n /\ f[1] = s[1]
  BY <1>1
<1>3. f # << >> /\ Head(f) = f[1] /\ Head(s) = s[1]
  BY <1>2
<1> QED
  BY <1>1, <1>2, <1>3

LEMMA LongerFacts ==
    ASSUME NEW S, NEW s \in Seq(S), NEW e \in S
    PROVE  /\ <<e>> \o s \in Seq(S) /\ Len(<<e>> \o s) = Len(s) + 1
           /\ <<e>> \o s # << >> /\ Head(<<e>> \o s) = e
<1>1. PICK f : f = <<e>> \o s
  BY Zenon
<1>2. f \in Seq(S) /\ Len(f) = Len(s) + 1 /\ f[1] = e
  BY <1>1
<1>3. f # << >> /\ Head(f) = f[1]
  BY <1>2
<1> QED
  BY <1>1, <1>2, <1>3

Kinds == {"prevote", "precommit"}

(* A tracker that has a height looks indexes up in that height's set. *)
Sound(t) ==
    /\ t \in Trackers
    /\ t.initialized => t.height \in Heights /\ t.set = t.height
    /\ ~t.initialized => t.prevoted = {} /\ t.precommited = {}

CountedBy(t, kind) ==
    IF kind = "prevote" THEN t.prevoted ELSE t.precommited

(* The tracker has left the vote's round, or counts it. *)
Settled(t, v) ==
    /\ t.initialized
    /\ \/ v.height < t.height
       \/ v.height = t.height /\ v.round < t.round
       \/ /\ v.height = t.height
          /\ v.round = t.round
          /\ v.index \in CountedBy(t, v.kind)

(* u is the tracker t or one in a later round or with more votes. *)
NotBehind(t, u) ==
    t.initialized =>
        /\ u.initialized
        /\ \/ u.height > t.height
           \/ /\ u.height = t.height
              /\ u.round > t.round \/ (u.round = t.round /\ u.step >= t.step)

SameCount(t, u) ==
    /\ t.initialized
    /\ u.height = t.height
    /\ u.round = t.round

(* The vote m adds to the count of its kind. *)
Added(m, kind) == IF m.kind = kind THEN {m.index} ELSE {}

(***************************************************************************)
(* What one message does to the tracker (SetFor and handleMessage).        *)
(***************************************************************************)
HandleResult(t, u, m) ==
    /\ Sound(u)
    /\ u.initialized
    /\ NotBehind(t, u)
    /\ m.kind # "step" => Settled(u, m)
    /\ IF SameCount(t, u)
         THEN \A k \in Kinds :
                \/ CountedBy(u, k) = CountedBy(t, k)
                \/ /\ SameCount(t, m)
                   /\ CountedBy(u, k) = CountedBy(t, k) \cup Added(m, k)
         ELSE /\ m.height = u.height /\ m.round = u.round
              /\ t.initialized => \/ u.height > t.height
                                  \/ u.height = t.height /\ u.round > t.round
              /\ \A k \in Kinds : CountedBy(u, k) = Added(m, k)

(***************************************************************************)
(* addVote on a tracker of the vote's height: only the count of the vote's *)
(* kind changes, by the vote's index.                                      *)
(***************************************************************************)
LEMMA AddVoteFacts ==
    ASSUME NEW t \in Trackers, NEW v \in Votes, t.set = v.height
    PROVE  LET u == addVote(t, v)
           IN  /\ u \in Trackers
               /\ u.initialized = t.initialized
               /\ u.set = t.set
               /\ u.height = t.height
               /\ u.round = t.round
               /\ u.step = t.step
               /\ \A k \in Kinds :
                    CountedBy(u, k) = CountedBy(t, k) \cup Added(v, k)
<1> DEFINE w == Power[t.set][v.index]
<1>1. v.index \in Indexes /\ v.kind \in Kinds /\ w \in Nat
  BY TrackerAssumption DEF Votes, Indexes, Kinds
<1>2. CASE v.kind = "prevote" /\ v.index \notin t.prevoted
  <2>1. addVote(t, v) = [t EXCEPT !.prevoted = @ \cup {v.index},
                                  !.pvPower = @ + w]
    BY <1>2 DEF addVote
  <2> HIDE DEF w
  <2> DEFINE u == addVote(t, v)
  <2>a. t.prevoted \cup {v.index} \in SUBSET Indexes /\ t.pvPower + w \in Nat
    BY <1>1 DEF Trackers
  <2>2. u \in Trackers
    BY <2>a, <2>1, Zenon DEF Trackers
  <2>3. u.prevoted = t.prevoted \cup {v.index} /\ u.precommited = t.precommited
    BY <2>1 DEF Trackers
  <2>4. /\ u.initialized = t.initialized
        /\ u.set = t.set
        /\ u.height = t.height
        /\ u.round = t.round
        /\ u.step = t.step
    BY <2>1 DEF Trackers
  <2>5. Added(v, "prevote") = {v.index}
        /\ Added(v, "precommit") = {}
    BY <1>2 DEF Added
  <2> HIDE DEF u
  <2>6. \A k \in Kinds : CountedBy(u, k) = CountedBy(t, k) \cup Added(v, k)
    BY <2>3, <2>5 DEF CountedBy, Kinds
  <2> QED
    BY <2>2, <2>4, <2>6 DEF u
<1>3. CASE v.kind = "precommit" /\ v.index \notin t.precommited
  <2>1. addVote(t, v) = [t EXCEPT !.precommited = @ \cup {v.index},
                                  !.pcPower = @ + w]
    BY <1>3 DEF addVote
  <2> HIDE DEF w
  <2> DEFINE u == addVote(t, v)
  <2>a. t.precommited \cup {v.index} \in SUBSET Indexes /\ t.pcPower + w \in Nat
    BY <1>1 DEF Trackers
  <2>2. u \in Trackers
    BY <2>a, <2>1, Zenon DEF Trackers
  <2>3. u.precommited = t.precommited \cup {v.index} /\ u.prevoted = t.prevoted
    BY <2>1 DEF Trackers
  <2>4. /\ u.initialized = t.initialized
        /\ u.set = t.set
        /\ u.height = t.height
        /\ u.round = t.round
        /\ u.step = t.step
    BY <2>1 DEF Trackers
  <2>5. Added(v, "precommit") = {v.index}
        /\ Added(v, "prevote") = {}
    BY <1>3 DEF Added
  <2> HIDE DEF u
  <2>6. \A k \in Kinds : CountedBy(u, k) = CountedBy(t, k) \cup Added(v, k)
    BY <2>3, <2>5 DEF CountedBy, Kinds
  <2> QED
    BY <2>2, <2>4, <2>6 DEF u
<1>4. CASE v.index \in CountedBy(t, v.kind)
  <2>1. addVote(t, v) = t
    BY <1>1, <1>4 DEF addVote, CountedBy, Kinds
  <2> QED
    BY <1>1, <1>4, <2>1 DEF CountedBy, Added, Kinds
<1> QED
  BY <1>1, <1>2, <1>3, <1>4 DEF CountedBy, Kinds

(* handleMessage on a tracker with the set of the message's height. *)
LEMMA MessageFacts ==
    ASSUME NEW t \in Trackers, NEW m \in Messages, t.set = m.height
    PROVE  LET a == advanceTo(t, m.height, m.round)
               u == handleMessage(t, m)
           IN  /\ u \in Trackers
               /\ u.initialized
               /\ u.set = m.height
               /\ u.height = m.height
               /\ u.round = m.round
               /\ u.step = IF m.kind = "step" THEN m.step ELSE a.step
               /\ \A k \in Kinds :
                    CountedBy(u, k) = CountedBy(a, k) \cup Added(m, k)
<1> DEFINE a == advanceTo(t, m.height, m.round)
<1>1. m.height \in Heights /\ m.round \in Rounds
  BY DEF Messages, Votes, RoundSteps
<1>a. 0 \in Rounds /\ 0 \in NodeSteps
  BY TrackerAssumption DEF Rounds, NodeSteps
<1>2. /\ a \in Trackers
      /\ a.initialized
      /\ a.set = m.height
      /\ a.height = m.height
      /\ a.round = m.round
  <2>1. CASE SameRound(t, m.height, m.round)
    BY <2>1 DEF advanceTo, SameRound
  <2>2. CASE ~SameRound(t, m.height, m.round)
    <3>1. a = [newConsensusTracker(m.height) EXCEPT
                 !.initialized = TRUE, !.height = m.height, !.round = m.round]
      BY <2>2 DEF advanceTo
    <3>2. a = [initialized |-> TRUE, set |-> m.height, height |-> m.height,
               round |-> m.round, step |-> 0, prevoted |-> {},
               precommited |-> {}, pvPower |-> 0, pcPower |-> 0]
      BY <3>1, Zenon DEF newConsensusTracker
    <3> HIDE DEF a
    <3> QED
      BY <3>2, <1>1, <1>a DEF Trackers
  <2> QED
    BY <2>1, <2>2
<1>3. CASE m.kind = "step"
  <2>1. m.step \in NodeSteps
    BY <1>3 DEF Messages, Votes, RoundSteps
  <2>2. handleMessage(t, m) = [a EXCEPT !.step = m.step]
    BY <1>3 DEF handleMessage
  <2> HIDE DEF a
  <2> DEFINE u == handleMessage(t, m)
  <2>3. u \in Trackers
    BY <1>2, <2>1, <2>2 DEF Trackers
  <2>4. /\ u.initialized = a.initialized
        /\ u.set = a.set
        /\ u.height = a.height
        /\ u.round = a.round
        /\ u.step = m.step
        /\ u.prevoted = a.prevoted
        /\ u.precommited = a.precommited
    BY <1>2, <2>2, Zenon DEF Trackers
  <2>5. \A k \in Kinds : Added(m, k) = {}
    BY <1>3 DEF Added, Kinds
  <2> HIDE DEF u
  <2>6. \A k \in Kinds : CountedBy(u, k) = CountedBy(a, k) \cup Added(m, k)
    BY <2>4, <2>5 DEF CountedBy
  <2> QED
    BY <1>2, <1>3, <2>3, <2>4, <2>6 DEF u, a
<1>4. CASE m.kind # "step"
  <2>1. m \in Votes
    BY <1>4 DEF Messages, RoundSteps
  <2>2. handleMessage(t, m) = addVote(a, m)
    BY <1>4 DEF handleMessage
  <2>3. a.set = m.height
    BY <1>2
  <2> HIDE DEF a
  <2> QED
    BY <1>2, <1>4, <2>1, <2>2, <2>3, AddVoteFacts DEF a
<1> QED
  BY <1>3, <1>4

(* The counts after advanceTo: kept in the same round, else empty. *)
LEMMA AdvanceFacts ==
    ASSUME NEW t \in Trackers, NEW h \in Heights, NEW r \in Rounds
    PROVE  LET a == advanceTo(t, h, r)
           IN  /\ SameRound(t, h, r) => a = t
               /\ ~SameRound(t, h, r) => \A k \in Kinds : CountedBy(a, k) = {}
  BY DEF advanceTo, newConsensusTracker, CountedBy

(***************************************************************************)
(* One turn of the producer's loop (consumeConsensusConnection) never      *)
(* takes the tracker back and counts a vote of the round it ends in.       *)
(***************************************************************************)
LEMMA HandleFacts ==
    ASSUME Sound(tracker), NEW m \in Messages, Handle(m)
    PROVE  /\ HandleResult(tracker, tracker', m)
           /\ conn' \in {"read", "send"}
<1>1. /\ m.height \in Heights /\ m.round \in Rounds
      /\ m.kind # "step" => m \in Votes /\ m.kind \in Kinds
  BY DEF Messages, Votes, RoundSteps, Kinds
<1>2. /\ m.height \in Int /\ m.round \in Int
      /\ tracker.height \in Int /\ tracker.round \in Int /\ tracker.step \in Int
  BY <1>1, TrackerAssumption
  DEF Sound, Trackers, Heights, Rounds, NodeSteps
<1>3. conn' \in {"read", "send"}
  BY DEF Handle
<1>4. CASE NeedsSet(tracker, m)
  <2> DEFINE t == newConsensusTracker(m.height)
             u == handleMessage(t, m)
  <2>1. 0 \in Rounds /\ 0 \in NodeSteps
    BY TrackerAssumption DEF Rounds, NodeSteps
  <2>2. /\ t \in Trackers
        /\ t.set = m.height
        /\ t.initialized = FALSE
    BY <1>1, <2>1 DEF newConsensusTracker, Trackers
  <2>3. Accepts(t, m)
    BY <1>1, <2>2 DEF Accepts, Behind, SameRound, Votes
  <2>4. tracker' = u
    BY <1>4, <2>3 DEF Handle, SetFor
  <2>5. ~SameRound(t, m.height, m.round)
    BY <2>2 DEF SameRound
  <2> HIDE DEF t
  <2>6. \A k \in Kinds : CountedBy(advanceTo(t, m.height, m.round), k) = {}
    BY <1>1, <2>2, <2>5, AdvanceFacts
  <2>7. /\ u \in Trackers
        /\ u.initialized
        /\ u.set = m.height
        /\ u.height = m.height
        /\ u.round = m.round
        /\ \A k \in Kinds : CountedBy(u, k) = Added(m, k)
    <3>1. t.set = m.height
      BY <2>2
    <3>2. /\ u \in Trackers
          /\ u.initialized
          /\ u.set = m.height
          /\ u.height = m.height
          /\ u.round = m.round
          /\ \A k \in Kinds :
               CountedBy(u, k) = CountedBy(advanceTo(t, m.height, m.round), k)
                                 \cup Added(m, k)
      BY <2>2, <3>1, MessageFacts
    <3> HIDE DEF u
    <3> QED
      BY <2>6, <3>2
  <2> HIDE DEF u
  <2>8. Sound(u)
    BY <1>1, <2>7 DEF Sound
  <2>9. m.kind # "step" => Settled(u, m)
    BY <1>1, <2>7 DEF Settled, Added
  <2>10. tracker.initialized => m.height > tracker.height
    BY <1>4 DEF NeedsSet
  <2>11. NotBehind(tracker, u)
    BY <2>7, <2>10 DEF NotBehind
  <2>12. ~SameCount(tracker, u)
    BY <1>2, <2>7, <2>10 DEF SameCount
  <2> QED
    BY <1>3, <2>4, <2>7, <2>8, <2>9, <2>10, <2>11, <2>12 DEF HandleResult
<1>5. CASE ~NeedsSet(tracker, m)
  <2>1. /\ tracker.initialized
        /\ m.height <= tracker.height
        /\ tracker.set = tracker.height
        /\ tracker \in Trackers
    BY <1>2, <1>5 DEF NeedsSet, Sound
  <2>2. tracker' = IF Accepts(tracker, m) THEN handleMessage(tracker, m)
                   ELSE tracker
    BY <1>5 DEF Handle, SetFor
  <2>3. CASE ~Accepts(tracker, m)
    <3>1. tracker' = tracker
      BY <2>2, <2>3
    <3>2. m.kind # "step" => Behind(tracker, m.height, m.round)
      <4> SUFFICES ASSUME m.kind # "step",
                          ~Behind(tracker, m.height, m.round)
                   PROVE  FALSE
        OBVIOUS
      <4>1. m.height = tracker.height
        BY <1>2, <2>1 DEF Behind
      <4>2. m.index \in DOMAIN Power[tracker.set]
        BY <1>1, <2>1, <4>1 DEF Votes
      <4> QED
        BY <2>3, <4>2 DEF Accepts
    <3>3. m.kind # "step" => Settled(tracker, m)
      BY <2>1, <3>2 DEF Behind, Settled
    <3>4. NotBehind(tracker, tracker)
      BY <1>2, <2>1 DEF NotBehind
    <3>5. SameCount(tracker, tracker)
      BY <2>1 DEF SameCount
    <3> QED
      BY <1>3, <2>1, <3>1, <3>3, <3>4, <3>5 DEF HandleResult
  <2>4. CASE Accepts(tracker, m)
    <3> DEFINE u == handleMessage(tracker, m)
               a == advanceTo(tracker, m.height, m.round)
    <3>1. m.height = tracker.height /\ m.round >= tracker.round
      BY <1>2, <2>1, <2>4 DEF Accepts, Behind
    <3>2. tracker' = u
      BY <2>2, <2>4
    <3>3. /\ u \in Trackers
          /\ u.initialized
          /\ u.set = m.height
          /\ u.height = m.height
          /\ u.round = m.round
          /\ u.step = IF m.kind = "step" THEN m.step ELSE a.step
          /\ \A k \in Kinds : CountedBy(u, k) = CountedBy(a, k) \cup Added(m, k)
      <4>1. tracker.set = m.height
        BY <2>1, <3>1
      <4> QED
        BY <2>1, <4>1, MessageFacts
    <3> HIDE DEF u
    <3>4. Sound(u)
      BY <1>1, <3>3 DEF Sound
    <3>5. m.kind # "step" => Settled(u, m)
      BY <1>1, <3>3 DEF Settled, Added
    <3>6. CASE SameRound(tracker, m.height, m.round)
      <4>1. a = tracker
        BY <1>1, <2>1, <3>6, AdvanceFacts
      <4> HIDE DEF a
      <4>2. SameCount(tracker, u) /\ SameCount(tracker, m)
        BY <2>1, <3>3, <3>6 DEF SameCount, SameRound
      <4>3. u.step >= tracker.step
        BY <1>2, <2>4, <3>3, <3>6, <4>1 DEF Accepts
      <4>4. NotBehind(tracker, u)
        BY <3>3, <4>2, <4>3 DEF NotBehind, SameCount
      <4> QED
        BY <1>3, <3>2, <3>3, <3>4, <3>5, <4>1, <4>2, <4>4 DEF HandleResult
    <3>7. CASE ~SameRound(tracker, m.height, m.round)
      <4>1. \A k \in Kinds : CountedBy(a, k) = {}
        BY <1>1, <2>1, <3>7, AdvanceFacts
      <4> HIDE DEF a
      <4>2. m.round > tracker.round
        BY <1>2, <2>1, <3>1, <3>7 DEF SameRound
      <4>3. ~SameCount(tracker, u)
        BY <1>2, <3>3, <4>2 DEF SameCount
      <4>4. NotBehind(tracker, u)
        BY <3>1, <3>3, <4>2 DEF NotBehind
      <4> QED
        BY <1>3, <3>1, <3>2, <3>3, <3>4, <3>5, <4>1, <4>2, <4>3, <4>4
        DEF HandleResult
    <3> QED
      BY <3>6, <3>7
  <2> QED
    BY <2>3, <2>4
<1> QED
  BY <1>4, <1>5

(* The counted votes of a tracker are among the votes in R. *)
CountedIn(t, R) ==
    \A k \in Kinds : \A i \in CountedBy(t, k) :
        [kind |-> k, height |-> t.height, round |-> t.round, index |-> i] \in R

(* Handling a message loses no vote and invents none. *)
LEMMA VotesKept ==
    ASSUME NEW t, NEW u, NEW m \in Messages, NEW R \in SUBSET Votes,
           Sound(t), HandleResult(t, u, m), CountedIn(t, R)
    PROVE  /\ CountedIn(u, R \cup ({m} \cap Votes))
           /\ \A v \in Votes : Settled(t, v) => Settled(u, v)
<1>1. /\ t.height \in Int /\ t.round \in Int
      /\ u.height \in Int /\ u.round \in Int
      /\ \A v \in Votes : v.height \in Int /\ v.round \in Int
  BY TrackerAssumption
  DEF Sound, HandleResult, Trackers, Heights, Rounds, Votes
<1>2. \A k \in Kinds : Added(m, k) # {} =>
         /\ m \in Votes
         /\ Added(m, k) = {m.index}
         /\ m = [kind |-> k, height |-> m.height, round |-> m.round,
                 index |-> m.index]
  BY DEF Added, Kinds, Messages, Votes, RoundSteps
<1>3. CASE SameCount(t, u)
  <2>1. CountedIn(u, R \cup ({m} \cap Votes))
    <3> SUFFICES ASSUME NEW k \in Kinds, NEW i \in CountedBy(u, k)
                 PROVE  [kind |-> k, height |-> u.height, round |-> u.round,
                         index |-> i] \in R \cup ({m} \cap Votes)
      BY DEF CountedIn
    <3>1. u.height = t.height /\ u.round = t.round
      BY <1>3 DEF SameCount
    <3>2. CASE i \in CountedBy(t, k)
      BY <3>1, <3>2 DEF CountedIn
    <3>3. CASE i \notin CountedBy(t, k)
      <4>1. SameCount(t, m) /\ i \in Added(m, k)
        BY <1>3, <3>3 DEF HandleResult
      <4>2. m.height = u.height /\ m.round = u.round
        BY <3>1, <4>1 DEF SameCount
      <4> QED
        BY <1>2, <4>1, <4>2
    <3> QED
      BY <3>2, <3>3
  <2>2. ASSUME NEW v \in Votes, Settled(t, v)
        PROVE  Settled(u, v)
    <3>1. v.kind \in Kinds
      BY DEF Votes, Kinds
    <3>2. CountedBy(t, v.kind) \subseteq CountedBy(u, v.kind)
      BY <1>3, <3>1 DEF HandleResult
    <3> QED
      BY <1>3, <2>2, <3>2 DEF Settled, SameCount, HandleResult
  <2> QED
    BY <2>1, <2>2
<1>4. CASE ~SameCount(t, u)
  <2>1. /\ m.height = u.height /\ m.round = u.round
        /\ t.initialized => \/ u.height > t.height
                            \/ u.height = t.height /\ u.round > t.round
        /\ \A k \in Kinds : CountedBy(u, k) = Added(m, k)
        /\ u.initialized
    BY <1>4 DEF HandleResult
  <2>2. CountedIn(u, R \cup ({m} \cap Votes))
    <3> SUFFICES ASSUME NEW k \in Kinds, NEW i \in CountedBy(u, k)
                 PROVE  [kind |-> k, height |-> u.height, round |-> u.round,
                         index |-> i] \in R \cup ({m} \cap Votes)
      BY DEF CountedIn
    <3>1. i \in Added(m, k)
      BY <2>1
    <3> QED
      BY <1>2, <2>1, <3>1
  <2>3. ASSUME NEW v \in Votes, Settled(t, v)
        PROVE  Settled(u, v)
    BY <1>1, <2>1, <2>3 DEF Settled
  <2> QED
    BY <2>2, <2>3
<1> QED
  BY <1>3, <1>4
-----------------------------------------------------------------------------
(* What a connection has between its steps, and what it has not. *)
Coherent ==
    /\ Sound(tracker)
    /\ ~Reading => tracker = newConsensusTracker(Latest)
    /\ ~Reading /\ conn # "setup" => buffered = <<>> /\ received = {}
    /\ conn = "send" => tracker.initialized

(* Every vote read is counted, out of date or still buffered. *)
VotesHeld ==
    /\ \A v \in received :
         Settled(tracker, v) \/ \E i \in DOMAIN buffered : buffered[i] = v
    /\ \A i \in DOMAIN buffered :
         buffered[i] \in Votes => buffered[i] \in received
    /\ CountedIn(tracker, received)

ProducerType ==
    /\ conn \in {"idle", "setup", "read", "send", "backoff", "closed"}
    /\ pending \subseteq Subscriptions
    /\ pending # {} <=> conn = "setup"
    /\ buffered \in Seq(Messages)
    /\ received \subseteq Votes

ProducerInv == ProducerType /\ Coherent /\ VotesHeld

Blocks == [shown : Snapshots \cup {NoSnapshot}, peak : Heights \cup {0},
           seen : BOOLEAN]

ShownInv ==
    /\ block \in Blocks
    /\ block.peak > 0 => block.shown \in Snapshots
    /\ history \in Seq(Snapshots)
    /\ Len(history) <= MaxBlockHistory

InterfaceInv ==
    /\ ch \in Seq(Snapshots)
    /\ Len(ch) <= Capacity
    /\ cancelled \in BOOLEAN
    /\ ui \in {"connect", "wait", "retry", "stopped"}
    /\ waiting \in Snapshots \cup {NoSnapshot}
    /\ ShownInv
    /\ last \in [Heights -> Snapshots \cup {NoSnapshot}]
    /\ count \in 0..MaxMessages

IInv == ProducerInv /\ InterfaceInv

(* The tracker a connection starts with. *)
LEMMA FreshFacts ==
    /\ Sound(newConsensusTracker(Latest))
    /\ \A R : CountedIn(newConsensusTracker(Latest), R)
<1>1. 0 \in Rounds /\ 0 \in NodeSteps
  BY TrackerAssumption DEF Rounds, NodeSteps
<1>2. newConsensusTracker(Latest) \in Trackers
  BY <1>1 DEF newConsensusTracker, Trackers
<1> QED
  BY <1>2 DEF newConsensusTracker, Sound, CountedIn, CountedBy, Kinds

LEMMA InitIInv == Init => IInv
<1> SUFFICES ASSUME Init PROVE IInv
  OBVIOUS
<1>1. Sound(tracker) /\ CountedIn(tracker, received)
  BY FreshFacts DEF Init
<1>2. ProducerInv
  <2>1. buffered \in Seq(Messages) /\ DOMAIN buffered = {}
    BY DEF Init
  <2>2. ProducerType /\ Coherent
    BY <1>1, <2>1 DEF Init, ProducerType, Coherent, Reading
  <2>3. VotesHeld
    BY <1>1, <2>1 DEF Init, VotesHeld
  <2> QED
    BY <2>2, <2>3 DEF ProducerInv
<1>3. InterfaceInv
  <2>1. ch \in Seq(Snapshots) /\ history \in Seq(Snapshots)
    BY DEF Init
  <2>2. Len(ch) <= Capacity /\ Len(history) <= MaxBlockHistory
        /\ count \in 0..MaxMessages
    BY StreamAssumption DEF Init
  <2>3. block \in Blocks /\ ~(block.peak > 0)
    BY DEF Init, Blocks
  <2>4. last \in [Heights -> Snapshots \cup {NoSnapshot}]
    BY DEF Init
  <2> QED
    BY <2>1, <2>2, <2>3, <2>4, Zenon DEF Init, InterfaceInv, ShownInv
<1> QED
  BY <1>2, <1>3 DEF IInv
-----------------------------------------------------------------------------
(* A connection that was given up. *)
LEMMA LeaveInv ==
    ASSUME NEW phase \in {"closed", "backoff"}, Leave(phase)
    PROVE  ProducerInv'
<1>1. Sound(tracker') /\ CountedIn(tracker', received')
  BY FreshFacts DEF Leave
<1>2. buffered' \in Seq(Messages) /\ DOMAIN buffered' = {}
  BY DEF Leave
<1>3. ProducerType' /\ Coherent'
  BY <1>1, <1>2 DEF Leave, ProducerType, Coherent, Reading
<1>4. VotesHeld'
  BY <1>1, <1>2 DEF Leave, VotesHeld
<1> QED
  BY <1>3, <1>4 DEF ProducerInv

(* A connection that is being set up. *)
LEMMA OpenInv ==
    ASSUME ProducerInv, conn \in {"idle", "closed", "backoff"}, Open
    PROVE  ProducerInv'
<1>1. ProducerType' /\ Coherent'
  BY DEF ProducerInv, Open, ProducerType, Coherent, Reading, Subscriptions
<1>2. VotesHeld'
  BY DEF ProducerInv, Open, VotesHeld
<1> QED
  BY <1>1, <1>2 DEF ProducerInv

(* handleStateMsg keeps what is shown and the history well-formed. *)
LEMMA ShownKeeps ==
    ASSUME ShownInv, NEW s \in Snapshots, Shown(s)
    PROVE  ShownInv'
<1>1. s.height \in Heights /\ s.height > 0
  BY TrackerAssumption DEF Snapshots, Heights
<1>2. block' \in Blocks /\ block'.shown \in Snapshots
  BY <1>1 DEF ShownInv, Shown, Blocks
<1>3. history' \in Seq(Snapshots) /\ Len(history') <= MaxBlockHistory
  <2>1. CASE history' = history
    BY <2>1 DEF ShownInv
  <2>2. CASE history' # history
    <3> DEFINE longer == <<block.shown>> \o history
    <3>1. block.shown \in Snapshots /\ history' = Newest(longer)
      BY <2>2 DEF Shown, ShownInv
    <3>2. longer \in Seq(Snapshots) /\ Len(longer) \in Nat
      BY <3>1, LongerFacts DEF ShownInv
    <3> HIDE DEF longer
    <3>3. CASE Len(longer) > MaxBlockHistory
      <4>1. history' = SubSeq(longer, 1, MaxBlockHistory)
        BY <3>1, <3>3, Zenon DEF Newest
      <4> QED
        BY <3>2, <3>3, <4>1, StreamAssumption, FrontFacts
    <3>4. CASE ~(Len(longer) > MaxBlockHistory)
      BY <3>1, <3>2, <3>4, StreamAssumption DEF Newest
    <3> QED
      BY <3>3, <3>4
  <2> QED
    BY <2>1, <2>2
<1> QED
  BY <1>2, <1>3 DEF ShownInv

(* An event that overtakes an acknowledgement is buffered. *)
LEMMA EarlyEventInv ==
    ASSUME ProducerInv, NEW m \in Messages, EarlyEvent(m)
    PROVE  ProducerInv'
<1>1. /\ buffered \in Seq(Messages)
      /\ buffered' = Append(buffered, m)
      /\ received' = received \cup ({m} \cap Votes)
      /\ UNCHANGED <<conn, pending, tracker>>
      /\ conn = "setup"
  BY DEF ProducerInv, ProducerType, EarlyEvent
<1>2. /\ buffered' \in Seq(Messages)
      /\ DOMAIN buffered = 1..Len(buffered)
      /\ DOMAIN buffered' = 1..(Len(buffered) + 1)
      /\ \A i \in DOMAIN buffered : i \in DOMAIN buffered' /\ buffered'[i] = buffered[i]
      /\ buffered'[Len(buffered) + 1] = m
      /\ Len(buffered) \in Nat
  BY <1>1
<1>3. ProducerType' /\ Coherent'
  BY <1>1, <1>2 DEF ProducerInv, ProducerType, Coherent, Reading
<1>4. VotesHeld'
  <2>1. ASSUME NEW v \in received'
        PROVE  Settled(tracker', v) \/ \E i \in DOMAIN buffered' : buffered'[i] = v
    <3>1. CASE v \in received
      <4>1. Settled(tracker, v) \/ \E i \in DOMAIN buffered : buffered[i] = v
        BY <3>1 DEF ProducerInv, VotesHeld
      <4> QED
        BY <1>1, <1>2, <4>1
    <3>2. CASE v = m
      BY <1>2, <3>2
    <3> QED
      BY <1>1, <2>1, <3>1, <3>2
  <2>2. ASSUME NEW i \in DOMAIN buffered', buffered'[i] \in Votes
        PROVE  buffered'[i] \in received'
    <3>1. CASE i \in DOMAIN buffered
      BY <1>1, <1>2, <2>2, <3>1 DEF ProducerInv, VotesHeld
    <3>2. CASE i = Len(buffered) + 1
      BY <1>1, <1>2, <2>2, <3>2
    <3> QED
      BY <1>2, <3>1, <3>2
  <2>3. CountedIn(tracker', received')
    BY <1>1 DEF ProducerInv, VotesHeld, CountedIn
  <2> QED
    BY <2>1, <2>2, <2>3 DEF VotesHeld
<1> QED
  BY <1>3, <1>4 DEF ProducerInv

(* The messages that arrived during the setup are handled in order. *)
LEMMA TakeBufferedInv ==
    ASSUME ProducerInv, TakeBuffered
    PROVE  ProducerInv'
<1> DEFINE m == Head(buffered)
<1>1. /\ buffered \in Seq(Messages)
      /\ buffered # <<>>
      /\ m \in Messages
      /\ conn = "read"
  BY DEF ProducerInv, ProducerType, TakeBuffered
<1>2. CASE SetUnavailable(m)
  <2>1. Leave("closed")
    BY <1>2 DEF SetUnavailable
  <2> QED
    BY <2>1, LeaveInv
<1>3. CASE /\ Handle(m)
           /\ buffered' = Tail(buffered)
           /\ UNCHANGED <<pending, received>>
  <2>1. Sound(tracker) /\ CountedIn(tracker, received) /\ received \in SUBSET Votes
    BY DEF ProducerInv, Coherent, VotesHeld, ProducerType
  <2>2. HandleResult(tracker, tracker', m) /\ conn' \in {"read", "send"}
    BY <1>1, <1>3, <2>1, HandleFacts
  <2>3. /\ Len(buffered) \in Nat \ {0}
        /\ m = buffered[1]
        /\ buffered' \in Seq(Messages)
        /\ DOMAIN buffered = 1..Len(buffered)
        /\ DOMAIN buffered' = 1..(Len(buffered) - 1)
        /\ \A i \in 1..(Len(buffered) - 1) : buffered'[i] = buffered[i + 1]
    BY <1>1, <1>3
  <2> HIDE DEF m
  <2>4. m \in Votes => m \in received
    BY <2>3 DEF ProducerInv, VotesHeld
  <2>5. /\ CountedIn(tracker', received \cup ({m} \cap Votes))
        /\ \A v \in Votes : Settled(tracker, v) => Settled(tracker', v)
    BY <1>1, <2>1, <2>2, VotesKept
  <2>6. ProducerType' /\ Coherent'
    BY <1>1, <1>3, <2>2, <2>3
    DEF ProducerInv, ProducerType, Coherent, Reading, HandleResult
  <2>7. ASSUME NEW v \in received'
        PROVE  Settled(tracker', v) \/ \E i \in DOMAIN buffered' : buffered'[i] = v
    <3>1. v \in received /\ v \in Votes
      BY <1>3, <2>1, <2>7
    <3>2. CASE Settled(tracker, v)
      BY <2>5, <3>1, <3>2
    <3>3. CASE v = m
      <4>1. v.kind # "step"
        BY <3>1 DEF Votes
      <4> QED
        BY <2>2, <3>3, <4>1 DEF HandleResult
    <3>4. ASSUME NEW i \in DOMAIN buffered, buffered[i] = v, i # 1
          PROVE  \E j \in DOMAIN buffered' : buffered'[j] = v
      <4>1. i - 1 \in DOMAIN buffered' /\ buffered'[i - 1] = v
        BY <2>3, <3>4
      <4> QED
        BY <4>1
    <3> QED
      BY <2>3, <3>1, <3>2, <3>3, <3>4 DEF ProducerInv, VotesHeld
  <2>8. ASSUME NEW i \in DOMAIN buffered', buffered'[i] \in Votes
        PROVE  buffered'[i] \in received'
    <3>1. i + 1 \in DOMAIN buffered /\ buffered'[i] = buffered[i + 1]
      BY <2>3
    <3> QED
      BY <1>3, <2>8, <3>1 DEF ProducerInv, VotesHeld
  <2>9. CountedIn(tracker', received')
    BY <1>3, <2>4, <2>5, Zenon DEF CountedIn
  <2>10. VotesHeld'
    BY <2>7, <2>8, <2>9 DEF VotesHeld
  <2> QED
    BY <2>6, <2>10 DEF ProducerInv
<1> QED
  BY <1>2, <1>3 DEF TakeBuffered

(* A message from the socket is handled once the buffer is empty. *)
LEMMA ReceiveInv ==
    ASSUME ProducerInv, NEW m \in Messages, Receive(m)
    PROVE  ProducerInv'
<1>1. conn = "read" /\ buffered = <<>> /\ DOMAIN buffered = {}
  BY DEF Receive
<1>2. CASE SetUnavailable(m)
  <2>1. Leave("closed")
    BY <1>2 DEF SetUnavailable
  <2> QED
    BY <2>1, LeaveInv
<1>3. CASE /\ Handle(m)
           /\ received' = received \cup ({m} \cap Votes)
           /\ UNCHANGED <<pending, buffered>>
  <2>1. Sound(tracker) /\ CountedIn(tracker, received) /\ received \in SUBSET Votes
    BY DEF ProducerInv, Coherent, VotesHeld, ProducerType
  <2>2. HandleResult(tracker, tracker', m) /\ conn' \in {"read", "send"}
    BY <1>3, <2>1, HandleFacts
  <2>3. /\ CountedIn(tracker', received')
        /\ \A v \in Votes : Settled(tracker, v) => Settled(tracker', v)
    BY <1>3, <2>1, <2>2, VotesKept
  <2>4. ProducerType' /\ Coherent'
    BY <1>1, <1>3, <2>1, <2>2
    DEF ProducerInv, ProducerType, Coherent, Reading, HandleResult
  <2>5. ASSUME NEW v \in received'
        PROVE  Settled(tracker', v)
    <3>1. CASE v \in received
      BY <1>1, <2>1, <2>3, <3>1 DEF ProducerInv, VotesHeld
    <3>2. CASE v = m /\ m \in Votes
      <4>1. m.kind # "step"
        BY <3>2 DEF Votes
      <4> QED
        BY <2>2, <3>2, <4>1 DEF HandleResult
    <3> QED
      BY <1>3, <2>5, <3>1, <3>2
  <2>6. VotesHeld'
    BY <1>1, <1>3, <2>3, <2>5 DEF VotesHeld
  <2> QED
    BY <2>4, <2>6 DEF ProducerInv
<1> QED
  BY <1>2, <1>3 DEF Receive

(* A step that leaves the producer alone. *)
LEMMA ProducerUnchanged ==
    ASSUME ProducerInv, UNCHANGED producer
    PROVE  ProducerInv'
<1>1. UNCHANGED <<conn, pending, buffered, tracker, received>>
  BY DEF producer, connection
<1>2. ProducerType' /\ Coherent'
  BY <1>1 DEF ProducerInv, ProducerType, Coherent, Reading
<1>3. VotesHeld'
  BY <1>1 DEF ProducerInv, VotesHeld, CountedIn
<1> QED
  BY <1>2, <1>3 DEF ProducerInv

(* A step that leaves the interface's model and the channel alone. *)
LEMMA InterfaceUnchanged ==
    ASSUME InterfaceInv, UNCHANGED <<ch, interface>>,
           cancelled' \in BOOLEAN,
           ui' \in {"connect", "wait", "retry", "stopped"},
           count' \in 0..MaxMessages
    PROVE  InterfaceInv'
BY DEF InterfaceInv, ShownInv, interface

LEMMA NextIInv == IInv /\ [Next]_vars => IInv'
<1> SUFFICES ASSUME ProducerInv, InterfaceInv, [Next]_vars
             PROVE  IInv'
  BY DEF IInv
<1>0. /\ cancelled \in BOOLEAN
      /\ ui \in {"connect", "wait", "retry", "stopped"}
      /\ count \in 0..MaxMessages
      /\ MaxMessages \in Nat
      /\ Published \subseteq Messages
  BY StreamAssumption DEF InterfaceInv
<1>1. CASE Cancel
  BY <1>0, <1>1, ProducerUnchanged, InterfaceUnchanged DEF Cancel, IInv
<1>2. ASSUME NEW s \in Subscriptions, Acknowledge(s)
      PROVE  IInv'
  <2>1. ProducerType' /\ Coherent'
    BY <1>2 DEF Acknowledge, ProducerInv, ProducerType, Coherent, Reading
  <2>2. VotesHeld'
    BY <1>2 DEF Acknowledge, ProducerInv, VotesHeld, CountedIn
  <2>3. /\ ch' \in Seq(Snapshots) /\ Len(ch') <= Capacity
        /\ ui' \in {"connect", "wait", "retry", "stopped"}
    <3>1. CASE ch' = <<>> /\ ui' = "wait"
      BY <3>1, StreamAssumption
    <3>2. CASE UNCHANGED <<ui, ch>>
      BY <3>2 DEF InterfaceInv
    <3> QED
      BY <1>2, <3>1, <3>2 DEF Acknowledge
  <2>4. InterfaceInv'
    BY <1>2, <2>3 DEF Acknowledge, InterfaceInv, ShownInv, interface
  <2> QED
    BY <2>1, <2>2, <2>4 DEF IInv, ProducerInv
<1>3. ASSUME NEW m \in Published, EarlyEvent(m)
      PROVE  IInv'
  <2>1. m \in Messages
    BY <1>0
  <2>2. ProducerInv'
    BY <1>3, <2>1, EarlyEventInv
  <2>3. count' \in 0..MaxMessages
    BY <1>0, <1>3 DEF EarlyEvent
  <2> QED
    BY <1>0, <1>3, <2>2, <2>3, InterfaceUnchanged DEF EarlyEvent, IInv
<1>4. ASSUME NEW m \in Published, Receive(m)
      PROVE  IInv'
  <2>1. m \in Messages
    BY <1>0
  <2>2. ProducerInv'
    BY <1>4, <2>1, ReceiveInv
  <2>3. count' \in 0..MaxMessages
    BY <1>0, <1>4 DEF Receive
  <2> QED
    BY <1>0, <1>4, <2>2, <2>3, InterfaceUnchanged DEF Receive, IInv
<1>5. CASE SubscriptionError
  <2>1. ProducerInv'
    BY <1>5, LeaveInv DEF SubscriptionError
  <2> QED
    BY <1>0, <1>5, <2>1, InterfaceUnchanged DEF SubscriptionError, IInv
<1>6. CASE SetupFails
  <2>1. ProducerInv'
    BY <1>6, LeaveInv DEF SetupFails
  <2> QED
    BY <1>0, <1>6, <2>1, InterfaceUnchanged DEF SetupFails, IInv
<1>7. CASE TakeBuffered
  <2>1. ProducerInv'
    BY <1>7, TakeBufferedInv
  <2> QED
    BY <1>0, <1>7, <2>1, InterfaceUnchanged DEF TakeBuffered, IInv
<1>8. CASE Send
  <2>1. CASE SendRoom
    <3>1. tracker \in Trackers /\ tracker.height \in Heights
      BY <1>8 DEF Send, ProducerInv, Coherent, Sound
    <3>2. buildState(tracker) \in Snapshots
      BY <3>1 DEF buildState, Trackers, Snapshots
    <3>3. ch' \in Seq(Snapshots) /\ Len(ch') <= Capacity
      BY <2>1, <3>2, StreamAssumption DEF SendRoom, InterfaceInv
    <3>4. InterfaceInv'
      BY <1>8, <3>3 DEF Send, InterfaceInv, ShownInv, interface
    <3>5. UNCHANGED <<pending, buffered, tracker, received>> /\ conn' = "read"
      BY <2>1 DEF SendRoom, connection
    <3>6. ProducerType' /\ Coherent'
      BY <1>8, <3>5 DEF Send, ProducerInv, ProducerType, Coherent, Reading
    <3>7. VotesHeld'
      BY <3>5 DEF ProducerInv, VotesHeld, CountedIn
    <3> QED
      BY <3>4, <3>6, <3>7 DEF IInv, ProducerInv
  <2>2. CASE Leave("closed") /\ UNCHANGED ch
    <3>1. ProducerInv'
      BY <2>2, LeaveInv
    <3> QED
      BY <1>0, <1>8, <2>2, <3>1, InterfaceUnchanged DEF Send, IInv
  <2> QED
    BY <1>8, <2>1, <2>2 DEF Send
<1>9. CASE ReadFails
  <2>1. ProducerInv'
    BY <1>9, LeaveInv DEF ReadFails
  <2> QED
    BY <1>0, <1>9, <2>1, InterfaceUnchanged DEF ReadFails, IInv
<1>10. CASE Reconnect
  <2>1. ProducerInv'
    BY <1>10, OpenInv DEF Reconnect
  <2> QED
    BY <1>0, <1>10, <2>1, InterfaceUnchanged DEF Reconnect, IInv
<1>11. CASE BackoffCancelled
  <2>1. ProducerInv'
    BY <1>11, LeaveInv DEF BackoffCancelled
  <2> QED
    BY <1>0, <1>11, <2>1, InterfaceUnchanged DEF BackoffCancelled, IInv
<1>12. CASE Connect
  <2>1. ProducerInv'
    BY <1>12, OpenInv DEF Connect
  <2> QED
    BY <1>0, <1>12, <2>1, InterfaceUnchanged DEF Connect, IInv
<1>13. CASE TakeSnapshot
  <2>1. ProducerInv'
    BY <1>13, ProducerUnchanged DEF TakeSnapshot
  <2>2. /\ ch' \in Seq(Snapshots) /\ Len(ch') <= Capacity
        /\ Head(ch) \in Snapshots
    BY <1>13, StreamAssumption DEF TakeSnapshot, InterfaceInv
  <2>3. Head(ch).height \in Heights
    BY <2>2 DEF Snapshots
  <2>4. /\ waiting' \in Snapshots \cup {NoSnapshot}
        /\ last' \in [Heights -> Snapshots \cup {NoSnapshot}]
    BY <1>13, <2>2, <2>3 DEF TakeSnapshot, InterfaceInv
  <2>5. ShownInv'
    <3>1. CASE Shown(waiting) /\ waiting # NoSnapshot
      BY <3>1, ShownKeeps DEF InterfaceInv
    <3>2. CASE UNCHANGED <<block, history>>
      BY <3>2 DEF InterfaceInv, ShownInv
    <3> QED
      BY <1>13, <3>1, <3>2 DEF TakeSnapshot
  <2> QED
    BY <1>13, <2>1, <2>2, <2>4, <2>5 DEF TakeSnapshot, InterfaceInv, IInv
<1>14. CASE RenderTick
  <2>1. ProducerInv'
    BY <1>14, ProducerUnchanged DEF RenderTick
  <2>2. ShownInv'
    BY <1>14, ShownKeeps DEF RenderTick, InterfaceInv
  <2> QED
    BY <1>14, <2>1, <2>2 DEF RenderTick, InterfaceInv, IInv
<1>15. CASE StreamEnded
  BY <1>0, <1>15, ProducerUnchanged, InterfaceUnchanged DEF StreamEnded, IInv
<1>16. CASE Retry
  BY <1>0, <1>16, ProducerUnchanged, InterfaceUnchanged DEF Retry, IInv
<1>17. CASE UNCHANGED vars
  BY <1>0, <1>17, ProducerUnchanged, InterfaceUnchanged DEF vars, IInv
<1> QED
  BY <1>1, <1>2, <1>3, <1>4, <1>5, <1>6, <1>7, <1>8, <1>9, <1>10, <1>11, <1>12,
     <1>13, <1>14, <1>15, <1>16, <1>17
  DEF Next, ProducerStep, Rest

LEMMA InvariantHolds == Spec => []IInv
<1> QED
  BY InitIInv, NextIInv, PTL DEF Spec

-----------------------------------------------------------------------------
(***************************************************************************)
(* The types of the producer, the channel and the interface, the buffer    *)
(* limits of the channel and of the block history included.                *)
(***************************************************************************)
THEOREM TypeCorrect == Spec => []TypeOK
<1>1. IInv => TypeOK
  BY Zenon DEF IInv, ProducerInv, ProducerType, Coherent, Sound, InterfaceInv,
         ShownInv, Blocks, TypeOK
<1> QED
  BY <1>1, InvariantHolds, PTL

(***************************************************************************)
(* Once what the setup buffered is handled, the tracker counts exactly the *)
(* votes of its height and round that were read on the connection.         *)
(***************************************************************************)
THEOREM VotesExactThm == Spec => []VotesExact
<1>1. IInv => VotesExact
  <2> SUFFICES ASSUME ProducerInv, Reading, buffered = <<>>
               PROVE  /\ tracker.initialized => tracker.set = tracker.height
                      /\ \A k \in Kinds :
                           Counted(k) = {m.index : m \in VotesOfRound(k)}
    BY DEF IInv, VotesExact, Kinds
  <2>1. /\ Sound(tracker)
        /\ received \in SUBSET Votes
        /\ \A v \in received : Settled(tracker, v)
        /\ CountedIn(tracker, received)
    BY DEF ProducerInv, ProducerType, Coherent, VotesHeld
  <2>2. /\ tracker.height \in Int /\ tracker.round \in Int
        /\ \A v \in Votes : v.height \in Int /\ v.round \in Int
    BY <2>1, TrackerAssumption, SMTT(30) DEF Sound, Trackers, Heights, Rounds, Votes
  <2>3. ASSUME NEW k \in Kinds
        PROVE  Counted(k) = {m.index : m \in VotesOfRound(k)}
    <3>1. Counted(k) = CountedBy(tracker, k)
      BY DEF Counted, CountedBy
    <3>2. ASSUME NEW i \in CountedBy(tracker, k)
          PROVE  i \in {m.index : m \in VotesOfRound(k)}
      <4> DEFINE v == [kind |-> k, height |-> tracker.height,
                       round |-> tracker.round, index |-> i]
      <4>1. v \in VotesOfRound(k) /\ v.index = i
        BY <2>1, <3>2 DEF CountedIn, VotesOfRound
      <4> QED
        BY <4>1
    <3>3. ASSUME NEW v \in VotesOfRound(k)
          PROVE  v.index \in CountedBy(tracker, k)
      BY <2>1, <2>2, <3>3 DEF VotesOfRound, Settled
    <3> QED
      BY <3>1, <3>2, <3>3
  <2> QED
    BY <2>1, <2>3, Zenon DEF Sound
<1> QED
  BY <1>1, InvariantHolds, PTL

(***************************************************************************)
(* Within a connection the tracker never goes back to an earlier height,   *)
(* round or step.                                                          *)
(***************************************************************************)
THEOREM TrackerNeverRewindsThm == Spec => TrackerNeverRewinds
<1> DEFINE A == Reading /\ Reading' /\ tracker.initialized =>
                  /\ tracker'.initialized
                  /\ \/ tracker'.height > tracker.height
                     \/ /\ tracker'.height = tracker.height
                        /\ \/ tracker'.round > tracker.round
                           \/ /\ tracker'.round = tracker.round
                              /\ tracker'.step >= tracker.step
<1>1. IInv /\ [Next]_vars => [A]_vars
  <2> SUFFICES ASSUME ProducerInv, Next, Reading, Reading', tracker.initialized
               PROVE  NotBehind(tracker, tracker')
    BY DEF IInv, NotBehind
  <2>1. Sound(tracker) /\ buffered \in Seq(Messages)
    BY DEF ProducerInv, Coherent, ProducerType
  <2>2. tracker.height \in Int /\ tracker.round \in Int /\ tracker.step \in Int
    BY <2>1, TrackerAssumption DEF Sound, Trackers, Heights, Rounds, NodeSteps
  <2>3. CASE tracker' = tracker
    BY <2>2, <2>3 DEF NotBehind
  <2>4. ASSUME NEW m \in Messages, Handle(m)
        PROVE  NotBehind(tracker, tracker')
    BY <2>1, <2>4, HandleFacts DEF HandleResult
  <2>5. \/ tracker' = tracker
        \/ \E m \in Messages : Handle(m)
    <3>1. CASE Cancel
      BY <3>1 DEF Cancel, producer, connection
    <3>2. CASE \E s \in Subscriptions : Acknowledge(s)
      BY <3>2 DEF Acknowledge
    <3>3. CASE \E m \in Published : EarlyEvent(m)
      BY <3>3 DEF EarlyEvent
    <3>4. ASSUME NEW m \in Published, Receive(m)
          PROVE  \E n \in Messages : Handle(n)
      BY <3>4, StreamAssumption DEF Receive, SetUnavailable, Leave, Reading
    <3>5. CASE SubscriptionError \/ SetupFails \/ ReadFails \/ BackoffCancelled
      BY <3>5 DEF SubscriptionError, SetupFails, ReadFails, BackoffCancelled,
                  Leave, Reading
    <3>6. CASE TakeBuffered
      <4>1. Head(buffered) \in Messages /\ Handle(Head(buffered))
        BY <2>1, <3>6 DEF TakeBuffered, SetUnavailable, Leave, Reading
      <4> QED
        BY <4>1
    <3>7. CASE Send
      BY <3>7 DEF Send, SendRoom, connection, Leave, Reading
    <3>8. CASE Reconnect \/ Connect
      BY <3>8 DEF Reconnect, Connect, Open
    <3>9. CASE TakeSnapshot \/ RenderTick \/ StreamEnded \/ Retry \/ Rest
      BY <3>9 DEF TakeSnapshot, RenderTick, StreamEnded, Retry, Rest, vars,
                  producer, connection
    <3> QED
      BY <3>1, <3>2, <3>3, <3>4, <3>5, <3>6, <3>7, <3>8, <3>9
      DEF Next, ProducerStep
  <2> QED
    BY <2>3, <2>4, <2>5
<1> QED
  BY <1>1, InvariantHolds, PTL DEF Spec, TrackerNeverRewinds
-----------------------------------------------------------------------------
(***************************************************************************)
(* The snapshot waiting is the last of its height, and so is the one shown *)
(* unless a snapshot that cannot record it, of its height or a lower one,  *)
(* is waiting.                                                             *)
(***************************************************************************)
Freshest ==
    /\ waiting # NoSnapshot => waiting = last[waiting.height]
    /\ block.peak > 0 =>
         /\ block.peak = block.shown.height
         /\ \/ block.shown = last[block.shown.height]
            \/ waiting # NoSnapshot /\ waiting.height <= block.shown.height

(* Showing the snapshot that waits records nothing but the last of a height. *)
LEMMA ShownFreshest ==
    ASSUME InterfaceInv, Freshest, waiting # NoSnapshot, Shown(waiting)
    PROVE  /\ block'.peak = block'.shown.height
           /\ block'.shown = waiting
           /\ history' # history =>
                Head(history') = last[Head(history').height]
<1>1. /\ block'.peak = waiting.height
      /\ block'.shown = waiting
      /\ waiting \in Snapshots
      /\ block.peak > 0 => block.shown \in Snapshots
  BY DEF Shown, InterfaceInv, ShownInv
<1>2. ASSUME history' # history
      PROVE  Head(history') = last[Head(history').height]
  <2> DEFINE longer == <<block.shown>> \o history
  <2>1. /\ block.peak > 0 /\ waiting.height > block.peak
        /\ history' = Newest(longer)
    BY <1>2 DEF Shown
  <2>2. longer \in Seq(Snapshots) /\ longer # <<>> /\ Head(longer) = block.shown
    <3>1. block.shown \in Snapshots /\ history \in Seq(Snapshots)
      BY <1>1, <2>1, Zenon DEF InterfaceInv, ShownInv
    <3> QED
      BY <3>1, LongerFacts
  <2> HIDE DEF longer
  <2>3. Head(history') = block.shown
    <3>1. CASE Len(longer) > MaxBlockHistory
      <4>1. history' = SubSeq(longer, 1, MaxBlockHistory)
        BY <2>1, <3>1, Zenon DEF Newest
      <4> QED
        BY <2>2, <3>1, <4>1, StreamAssumption, FrontFacts
    <3>2. CASE ~(Len(longer) > MaxBlockHistory)
      BY <2>1, <2>2, <3>2 DEF Newest
    <3> QED
      BY <3>1, <3>2
  <2>4. waiting.height \in Int /\ block.shown.height \in Int
    BY <1>1, <2>1 DEF Snapshots, Heights
  <2>5. block.shown = last[block.shown.height]
    BY <2>1, <2>4 DEF Freshest
  <2> QED
    BY <2>3, <2>5
<1> QED
  BY <1>1, <1>2

LEMMA TakeSnapshotFreshest ==
    ASSUME InterfaceInv, Freshest, TakeSnapshot
    PROVE  Freshest'
<1> DEFINE h == Head(ch)
<1>1. /\ h \in Snapshots /\ h # NoSnapshot
      /\ waiting' = h
      /\ last' = [last EXCEPT ![h.height] = h]
  BY NoSnapshotAssumption DEF TakeSnapshot, InterfaceInv
<1>2. /\ last \in [Heights -> Snapshots \cup {NoSnapshot}]
      /\ waiting \in Snapshots \cup {NoSnapshot}
      /\ block.peak > 0 => block.shown \in Snapshots
      /\ \A s \in Snapshots : s.height \in Heights /\ s.height \in Int
  <2>1. last \in [Heights -> Snapshots \cup {NoSnapshot}] /\ waiting \in Snapshots \cup {NoSnapshot}
    BY DEF InterfaceInv
  <2>2. block.peak > 0 => block.shown \in Snapshots
    BY DEF InterfaceInv, ShownInv
  <2>3. \A s \in Snapshots : s.height \in Heights /\ s.height \in Int
    BY DEF Snapshots, Heights
  <2> QED
    BY <2>1, <2>2, <2>3
<1>3. CASE waiting # NoSnapshot /\ h.height > waiting.height
  <2>1. Shown(waiting)
    BY <1>3 DEF TakeSnapshot
  <2>2. block'.peak = block'.shown.height /\ block'.shown = waiting
    BY <1>3, <2>1, ShownFreshest
  <2> HIDE DEF h
  <2>3. last'[waiting.height] = last[waiting.height]
    BY <1>1, <1>2, <1>3
  <2> QED
    BY <1>1, <1>2, <1>3, <2>2, <2>3 DEF Freshest
<1>4. CASE ~(waiting # NoSnapshot /\ h.height > waiting.height)
  <2>1. UNCHANGED block
    BY <1>4 DEF TakeSnapshot
  <2> HIDE DEF h
  <2>2. waiting' # NoSnapshot => waiting' = last'[waiting'.height]
    BY <1>1, <1>2
  <2>3. ASSUME block.peak > 0
        PROVE  /\ block.peak = block.shown.height
               /\ \/ block.shown = last'[block.shown.height]
                  \/ h.height <= block.shown.height
    <3>1. CASE block.shown = last[block.shown.height]
      BY <1>1, <1>2, <2>3, <3>1 DEF Freshest
    <3>2. CASE waiting # NoSnapshot /\ waiting.height <= block.shown.height
      BY <1>1, <1>2, <1>4, <2>3, <3>2 DEF Freshest
    <3> QED
      BY <2>3, <3>1, <3>2 DEF Freshest
  <2> QED
    BY <1>1, <2>1, <2>2, <2>3 DEF Freshest
<1> QED
  BY <1>3, <1>4

LEMMA NextFreshest == IInv /\ Freshest /\ [Next]_vars => Freshest'
<1> SUFFICES ASSUME InterfaceInv, Freshest, [Next]_vars
             PROVE  Freshest'
  BY DEF IInv
<1>1. CASE TakeSnapshot
  BY <1>1, TakeSnapshotFreshest
<1>2. CASE RenderTick
  <2>1. waiting # NoSnapshot /\ Shown(waiting)
    BY <1>2 DEF RenderTick
  <2>2. block'.peak = block'.shown.height /\ block'.shown = waiting
    BY <2>1, ShownFreshest
  <2> QED
    BY <1>2, <2>1, <2>2, Zenon DEF RenderTick, Freshest
<1>3. CASE UNCHANGED interface
  BY <1>3 DEF interface, Freshest
<1> QED
  BY <1>1, <1>2, <1>3, Zenon
  DEF Next, ProducerStep, Cancel, Acknowledge, EarlyEvent, Receive,
      SubscriptionError, SetupFails, TakeBuffered, Send, ReadFails, Reconnect,
      BackoffCancelled, Connect, StreamEnded, Retry, Rest, vars

(***************************************************************************)
(* A block enters the history with the votes of the last snapshot of its   *)
(* height, whatever the order of snapshots, reconnections and ticks.       *)
(***************************************************************************)
THEOREM HistoryKeepsVotesThm == Spec => HistoryKeepsVotes
<1> DEFINE A == history' # history =>
                  Head(history') = last[Head(history').height]
<1>1. Init => Freshest
  BY DEF Init, Freshest
<1>2. IInv /\ Freshest /\ [Next]_vars => [A]_vars
  <2> SUFFICES ASSUME InterfaceInv, Freshest, Next, history' # history
               PROVE  A
    BY DEF IInv
  <2>1. waiting # NoSnapshot /\ Shown(waiting)
    BY Zenon DEF Next, ProducerStep, Cancel, Acknowledge, EarlyEvent, Receive,
      SubscriptionError, SetupFails, TakeBuffered, Send, ReadFails, Reconnect,
      BackoffCancelled, Connect, TakeSnapshot, RenderTick, StreamEnded, Retry,
      Rest, interface, vars
  <2> QED
    BY <2>1, ShownFreshest
<1> QED
  BY <1>1, <1>2, InvariantHolds, NextFreshest, PTL DEF Spec, HistoryKeepsVotes

-----------------------------------------------------------------------------
(* The queue and the checks under way, for any number of providers. *)
Once(q) == \A i, j \in 1..Len(q) : q[i] = q[j] => i = j

In(p, q) == \E i \in 1..Len(q) : q[i] = p

Loader == [queue : Seq(Monitored), inFlight : SUBSET Monitored, loading : BOOLEAN,
           firstRun : BOOLEAN, total : Nat, checked : Nat]

(* Each provider once in the queue, those in flight among them, and a      *)
(* count that is right while the list is loading.                          *)
QueueOK(l) ==
    /\ l \in Loader
    /\ Once(l.queue)
    /\ \A p \in l.inFlight : In(p, l.queue)
    /\ Cardinality(l.inFlight) <= MaxConcurrentChecks
    /\ l.loading => l.checked + Len(l.queue) = l.total /\ l.total <= Cardinality(Monitored)

(* One check under way for each provider in flight, and no other. *)
Checks == [of : Monitored, nth : Nat, out : {"running", "online", "offline"}]

CheckOf(cs, l) ==
    /\ cs \subseteq Checks
    /\ \A c \in cs : c.of \in l.inFlight
    /\ \A p \in l.inFlight : \E c \in cs : c.of = p
    /\ \A c, d \in cs : c.of = d.of => c = d

Known(q, S) == \A i \in 1..Len(q) : q[i] \in S

ChecksInv ==
    /\ registry \subseteq Monitored /\ DOMAIN cache \subseteq registry
    /\ QueueOK(loader) /\ Known(loader.queue, DOMAIN cache)
    /\ CheckOf(checks, loader)

-----------------------------------------------------------------------------
(* An order lists every provider of the set once. *)
LEMMA OrderFacts ==
    ASSUME NEW S, IsFiniteSet(S), NEW q \in Orders(S)
    PROVE  /\ q \in Seq(S) /\ Len(q) = Cardinality(S) /\ Once(q)
           /\ Known(q, S) /\ \A p \in S : In(p, q)
<1>1. Cardinality(S) \in Nat
  BY FS_CardinalityType
<1>2. /\ q \in [1..Cardinality(S) -> S]
      /\ \A p \in S : \E i \in 1..Cardinality(S) : \A j \in 1..Cardinality(S) : q[j] = p <=> i = j
  BY DEF Orders
<1>3. q \in Seq(S) /\ Len(q) = Cardinality(S)
  BY <1>1, <1>2
<1>4. Known(q, S) /\ \A p \in S : In(p, q)
  BY <1>2, <1>3 DEF Known, In
<1>5. Once(q)
  <2> SUFFICES ASSUME NEW i \in 1..Len(q), NEW j \in 1..Len(q), q[i] = q[j] PROVE i = j
    BY DEF Once
  <2>1. q[i] \in S
    BY <1>2, <1>3
  <2>2. PICK k \in 1..Cardinality(S) : \A m \in 1..Cardinality(S) : q[m] = q[i] <=> k = m
    BY <1>2, <2>1
  <2> QED
    BY <1>3, <2>2
<1> QED
  BY <1>3, <1>4, <1>5

(* removeFromQueue removes the one place of a provider. *)
LEMMA RemoveFacts ==
    ASSUME NEW S, NEW q \in Seq(S), Once(q), NEW p, In(p, q)
    PROVE  /\ removeFromQueue(q, p) \in Seq(S) /\ Len(removeFromQueue(q, p)) = Len(q) - 1
           /\ Len(q) > 0 /\ Once(removeFromQueue(q, p))
           /\ \A r : In(r, removeFromQueue(q, p)) <=> In(r, q) /\ r # p
<1>1. Len(q) \in Nat /\ DOMAIN q = 1..Len(q)
  OBVIOUS
<1>2. PICK k : k = CHOOSE i \in 1..Len(q) : q[i] = p
  OBVIOUS
<1>3. k \in 1..Len(q) /\ q[k] = p
  BY <1>2 DEF In
<1>4. PICK r : r = [j \in 1..(Len(q) - 1) |-> IF j < k THEN q[j] ELSE q[j + 1]]
  BY Zenon
<1>5. removeFromQueue(q, p) = r
  BY <1>1, <1>2, <1>4 DEF removeFromQueue, In
<1>6. \A j \in 1..(Len(q) - 1) : r[j] \in S
  BY <1>1, <1>3, <1>4
<1>7. r \in Seq(S) /\ Len(r) = Len(q) - 1 /\ Len(q) > 0
  BY <1>1, <1>3, <1>4, <1>6
<1>8. \A j \in 1..Len(r) : IF j < k THEN j \in 1..Len(q) /\ r[j] = q[j]
                           ELSE j + 1 \in 1..Len(q) /\ r[j] = q[j + 1]
  BY <1>1, <1>3, <1>4, <1>7
<1>9. Once(r)
  BY <1>1, <1>3, <1>7, <1>8 DEF Once
<1>10. ASSUME NEW x, In(x, r) PROVE In(x, q) /\ x # p
  <2>1. PICK j \in 1..Len(r) : r[j] = x
    BY <1>10 DEF In
  <2>2. CASE j < k
    BY <1>1, <1>3, <1>8, <2>1, <2>2 DEF In, Once
  <2>3. CASE ~(j < k)
    BY <1>1, <1>3, <1>8, <2>1, <2>3 DEF In, Once
  <2> QED
    BY <2>2, <2>3
<1>11. ASSUME NEW x, In(x, q), x # p PROVE In(x, r)
  <2>1. PICK j \in 1..Len(q) : q[j] = x
    BY <1>11 DEF In
  <2>2. CASE j < k
    <3>1. j \in 1..Len(r) /\ r[j] = x
      BY <1>1, <1>3, <1>7, <1>8, <2>1, <2>2
    <3> QED
      BY <3>1 DEF In
  <2>3. CASE j > k
    <3>1. j - 1 \in 1..Len(r) /\ r[j - 1] = x
      BY <1>1, <1>3, <1>7, <1>8, <2>1, <2>3
    <3> QED
      BY <3>1 DEF In
  <2> QED
    BY <1>1, <1>3, <1>11, <2>1, <2>2, <2>3
<1> QED
  BY <1>5, <1>7, <1>9, <1>10, <1>11

(* A subset of the providers is finite. *)
LEMMA FiniteProviders ==
    ASSUME NEW S, S \subseteq Monitored
    PROVE  IsFiniteSet(S) /\ Cardinality(S) \in Nat /\ Cardinality(S) <= Cardinality(Monitored)
<1>1. IsFiniteSet(Monitored)
  BY ChecksAssumption
<1>2. IsFiniteSet(S) /\ Cardinality(S) <= Cardinality(Monitored)
  BY <1>1, FS_Subset
<1> QED
  BY <1>2, FS_CardinalityType

(* dispatchProviderChecks starts checks of providers that have none, within *)
(* the limit.                                                              *)
LEMMA DispatchFacts ==
    ASSUME NEW l, QueueOK(l), CheckOf(checks, l), dispatchProviderChecks(l)
    PROVE  QueueOK(loader') /\ loader'.queue = l.queue /\ CheckOf(checks', loader')
<1>1. PICK i \in 0..Len(l.queue) :
        /\ Ends(l, i)
        /\ loader' = [l EXCEPT !.inFlight = l.inFlight \cup dispatched(l, i)]
        /\ checks' = checks \cup {Check(p) : p \in dispatched(l, i)}
  BY Zenon DEF dispatchProviderChecks
<1>2. PICK D : D = dispatched(l, i)
  OBVIOUS
<1>3. l \in Loader /\ l.queue \in Seq(Monitored) /\ l.inFlight \subseteq Monitored /\ Len(l.queue) \in Nat
  BY DEF QueueOK, Loader
<1>4. D \subseteq Monitored /\ D \cap l.inFlight = {} /\ \A p \in D : In(p, l.queue)
  <2> SUFFICES ASSUME NEW p \in D PROVE p \in Monitored /\ p \notin l.inFlight /\ In(p, l.queue)
    OBVIOUS
  <2>1. p \notin l.inFlight /\ \E j \in 1..i : p = l.queue[j]
    BY <1>2 DEF dispatched
  <2>2. PICK j \in 1..Len(l.queue) : p = l.queue[j]
    BY <1>3, <2>1
  <2> QED
    BY <1>3, <2>1, <2>2 DEF In
<1>5. PICK F : F = l.inFlight \cup D
  BY Zenon
<1>6. F \subseteq Monitored /\ Cardinality(F) <= MaxConcurrentChecks
  <2>1. /\ IsFiniteSet(l.inFlight) /\ IsFiniteSet(D)
        /\ Cardinality(l.inFlight) \in Nat /\ Cardinality(D) \in Nat
    BY <1>3, <1>4, FiniteProviders
  <2>2. Cardinality(F) = Cardinality(l.inFlight) + Cardinality(D) - Cardinality(l.inFlight \cap D)
    BY <1>5, <2>1, FS_Union
  <2>3. Cardinality(l.inFlight \cap D) = 0
    BY <1>4, FS_EmptySet, Zenon
  <2>4. Cardinality(D) <= MaxConcurrentChecks - Cardinality(l.inFlight)
    BY <1>1, <1>2, <2>1, ChecksAssumption DEF Ends
  <2> QED
    <3>1. F \subseteq Monitored
      BY <1>3, <1>4, <1>5
    <3>2. PICK a \in Nat, b \in Nat : a = Cardinality(l.inFlight) /\ b = Cardinality(D)
      BY <2>1
    <3>3. Cardinality(F) = a + b
      BY <2>2, <2>3, <3>2
    <3>4. b <= MaxConcurrentChecks - a
      BY <2>4, <3>2
    <3>5. a + b <= MaxConcurrentChecks
      BY <3>4, ChecksAssumption
    <3> QED
      BY <3>1, <3>3, <3>5
<1>7. loader' = [l EXCEPT !.inFlight = F]
  BY <1>1, <1>2, <1>5
<1>8. /\ loader' \in Loader /\ loader'.inFlight = F /\ loader'.queue = l.queue
      /\ loader'.total = l.total /\ loader'.checked = l.checked
  BY <1>3, <1>6, <1>7 DEF Loader
<1>9. loader'.loading = l.loading
  BY <1>3, <1>7 DEF Loader
<1>10. QueueOK(loader')
  <2>1. Once(l.queue) /\ \A p \in F : In(p, l.queue)
    BY <1>4, <1>5, Zenon DEF QueueOK
  <2>2. l.loading => l.checked + Len(l.queue) = l.total /\ l.total <= Cardinality(Monitored)
    BY DEF QueueOK
  <2>3. loader'.loading => loader'.checked + Len(loader'.queue) = loader'.total
                           /\ loader'.total <= Cardinality(Monitored)
    BY <1>8, <1>9, <2>2
  <2> QED
    BY <1>6, <1>8, <2>1, <2>3 DEF QueueOK
<1>11. CheckOf(checks', loader')
  <2>1. checks' = checks \cup {Check(p) : p \in D}
    BY <1>1, <1>2
  <2>2. \A p : Check(p).of = p
    BY DEF Check
  <2>6. checks' \subseteq Checks
    <3> SUFFICES ASSUME NEW p \in D PROVE Check(p) \in Checks
      BY <2>1 DEF CheckOf
    <3>1. {c \in checks : c.of = p} = {}
      BY <1>4 DEF CheckOf
    <3>2. Check(p) = [of |-> p, nth |-> 0, out |-> "running"]
      BY <3>1, FS_EmptySet, Zenon DEF Check
    <3>3. p \in Monitored
      BY <1>4
    <3> QED
      BY <3>2, <3>3 DEF Checks
  <2>3. ASSUME NEW c \in checks' PROVE c.of \in F
    <3>1. CASE c \in checks
      BY <1>5, <3>1 DEF CheckOf
    <3>2. CASE \E p \in D : c = Check(p)
      BY <1>5, <2>2, <3>2
    <3> QED
      BY <2>1, <3>1, <3>2
  <2>4. ASSUME NEW p \in F PROVE \E c \in checks' : c.of = p
    <3>1. CASE p \in l.inFlight
      BY <2>1, <3>1 DEF CheckOf
    <3>2. CASE p \in D
      <4>1. Check(p) \in checks'
        BY <2>1, <3>2
      <4> QED
        BY <2>2, <4>1
    <3> QED
      BY <1>5, <3>1, <3>2
  <2>5. ASSUME NEW c \in checks', NEW d \in checks', c.of = d.of PROVE c = d
    <3>1. c \in checks \/ (c.of \in D /\ c = Check(c.of))
      BY <2>1, <2>2
    <3>2. d \in checks \/ (d.of \in D /\ d = Check(d.of))
      BY <2>1, <2>2
    <3>3. \A e \in checks : e.of \notin D
      BY <1>4 DEF CheckOf
    <3>4. c \in checks /\ d \in checks => c = d
      BY <2>5 DEF CheckOf
    <3> QED
      BY <2>5, <3>1, <3>2, <3>3, <3>4
  <2> QED
    BY <1>8, <2>3, <2>4, <2>5, <2>6 DEF CheckOf
<1> QED
  BY <1>8, <1>10, <1>11

LEMMA ChecksInitInv == ChecksInit => ChecksInv
<1> SUFFICES ASSUME ChecksInit PROVE ChecksInv
  OBVIOUS
<1>1. registry \subseteq Monitored /\ DOMAIN cache \subseteq registry /\ checks = {} /\ loader = NoLoad
  BY DEF ChecksInit
<1>2. /\ NoLoad \in Loader /\ NoLoad.queue = << >> /\ NoLoad.inFlight = {} /\ NoLoad.loading = FALSE
  BY DEF NoLoad, Loader
<1>3. Cardinality({}) <= MaxConcurrentChecks
  BY FS_EmptySet, ChecksAssumption
<1>4. \A i : i \notin 1..Len(<< >>)
  OBVIOUS
<1> HIDE DEF NoLoad
<1>5. QueueOK(NoLoad) /\ Known(NoLoad.queue, DOMAIN cache) /\ CheckOf({}, NoLoad)
  BY <1>2, <1>3, <1>4 DEF QueueOK, Once, Known, CheckOf
<1> QED
  BY <1>1, <1>5 DEF ChecksInv

(* A chain sync that is handled queues every provider of the cache. *)
LEMMA SyncHandledInv ==
    ASSUME ChecksInv, NEW n, handleChainSyncMsg(n)
    PROVE  ChecksInv'
<1>1. CASE UNCHANGED <<checks, loader>>
  BY <1>1 DEF ChecksInv, handleChainSyncMsg
<1>2. ASSUME NEW leased, NEW q \in GetProvidersByPriority(leased),
             dispatchProviderChecks(buildProviderQueue(q))
      PROVE  ChecksInv'
  <2>1. /\ registry' = registry /\ cache' = cache /\ registry \subseteq Monitored
        /\ DOMAIN cache \subseteq registry /\ loader \in Loader
    BY Zenon DEF ChecksInv, handleChainSyncMsg, QueueOK
  <2>2. /\ IsFiniteSet(DOMAIN cache) /\ Cardinality(DOMAIN cache) \in Nat
        /\ Cardinality(DOMAIN cache) <= Cardinality(Monitored) /\ q \in Orders(DOMAIN cache)
    BY <1>2, <2>1, FiniteProviders DEF GetProvidersByPriority
  <2>3. /\ q \in Seq(DOMAIN cache) /\ Len(q) = Cardinality(DOMAIN cache) /\ Once(q)
        /\ Known(q, DOMAIN cache) /\ \A p \in DOMAIN cache : In(p, q)
    BY <2>2, OrderFacts, Zenon
  <2>4. q \in Seq(Monitored) /\ Len(q) \in Nat
    BY <2>1, <2>2, <2>3
  <2>5. PICK l : l = buildProviderQueue(q)
    OBVIOUS
  <2>6. PICK b \in BOOLEAN : b = (q # << >>)
    BY Zenon
  <2>7. l = [loader EXCEPT !.queue = q, !.total = Len(q), !.checked = 0, !.loading = b]
    BY <2>5, <2>6 DEF buildProviderQueue
  <2>8. /\ l \in Loader /\ l.queue = q /\ l.total = Len(q) /\ l.checked = 0
        /\ l.inFlight = loader.inFlight
    BY <2>1, <2>4, <2>7, Zenon DEF Loader
  <2>9. \A p \in loader.inFlight : In(p, q)
    BY <2>3 DEF ChecksInv, QueueOK, Known, In
  <2>10. QueueOK(l)
    <3>1. Len(q) \in Nat /\ 0 + Len(q) = Len(q) /\ Len(q) <= Cardinality(Monitored)
      BY <2>1, <2>2, <2>3
    <3>2. Cardinality(loader.inFlight) <= MaxConcurrentChecks
      BY DEF QueueOK, ChecksInv
    <3> QED
      BY <2>3, <2>8, <2>9, <3>1, <3>2 DEF QueueOK
  <2>11. CheckOf(checks, l)
    BY <2>8, Zenon DEF ChecksInv, CheckOf
  <2>12. QueueOK(loader') /\ loader'.queue = q /\ CheckOf(checks', loader')
    BY <1>2, <2>5, <2>8, <2>10, <2>11, DispatchFacts, Zenon
  <2> QED
    BY <2>1, <2>3, <2>12 DEF ChecksInv
<1> QED
  BY <1>1, <1>2 DEF handleChainSyncMsg

(* A check that has answered leaves the queue and the checks under way;    *)
(* the queue is filled again when nothing is under way.                    *)
LEMMA CheckedInv ==
    ASSUME ChecksInv, NEW c \in checks, handleProviderCheckedMsg(c)
    PROVE  ChecksInv'
<1>1. /\ registry' = registry /\ registry \subseteq Monitored /\ DOMAIN cache \subseteq registry
      /\ loader \in Loader /\ checks' = checks \ {c}
  BY Zenon DEF ChecksInv, handleProviderCheckedMsg, QueueOK
<1>2. DOMAIN cache' = DOMAIN cache
  BY Zenon DEF handleProviderCheckedMsg, MarkProviderOnline, MarkProviderOffline
<1>3. PICK r : r = removeFromQueue(loader.queue, c.of)
  OBVIOUS
<1>4. PICK F : F = loader.inFlight \ {c.of}
  BY Zenon
<1>5. PICK m : m = Plus1(loader.checked)
  OBVIOUS
<1>6. PICK l : l = [loader EXCEPT !.inFlight = F, !.queue = r, !.checked = m]
  OBVIOUS
<1>7. PICK due : due = {p \in DOMAIN cache : Due(cache', p)}
  BY Zenon
<1>8. \/ loader' = l /\ ~(l.queue = << >> /\ l.inFlight = {})
      \/ /\ l.queue = << >> /\ l.inFlight = {}
         /\ \E q \in Orders(due) :
               loader' = [l EXCEPT !.loading = FALSE, !.firstRun = FALSE, !.queue = q]
  BY <1>3, <1>4, <1>5, <1>6, <1>7, Zenon DEF handleProviderCheckedMsg
<1>9. /\ loader.queue \in Seq(Monitored) /\ loader.inFlight \subseteq Monitored
      /\ loader.checked \in Nat /\ loader.total \in Nat /\ Len(loader.queue) \in Nat
  BY <1>1 DEF Loader
<1>10. c.of \in loader.inFlight /\ In(c.of, loader.queue) /\ Once(loader.queue)
  BY Zenon DEF ChecksInv, CheckOf, QueueOK
<1>11. /\ r \in Seq(Monitored) /\ Len(r) = Len(loader.queue) - 1 /\ Len(loader.queue) > 0
       /\ Once(r) /\ \A p : In(p, r) <=> In(p, loader.queue) /\ p # c.of
  BY <1>3, <1>9, <1>10, RemoveFacts, Zenon
<1>12. /\ m \in Nat /\ Cardinality(Monitored) \in Nat
       /\ loader.checked < Cardinality(Monitored) => m = loader.checked + 1
  BY <1>5, <1>9, FiniteProviders DEF Plus1
<1>13. /\ l \in Loader /\ l.inFlight = F /\ l.queue = r /\ l.checked = m /\ l.total = loader.total
  BY <1>1, <1>4, <1>6, <1>9, <1>11, <1>12, Zenon DEF Loader
<1>14. l.loading = loader.loading
  BY <1>1, <1>6 DEF Loader
<1>15. Cardinality(F) <= MaxConcurrentChecks
  <2>1. /\ IsFiniteSet(loader.inFlight) /\ Cardinality(loader.inFlight) \in Nat
        /\ Cardinality(F) \in Nat
    BY <1>4, <1>9, FiniteProviders
  <2>2. Cardinality(F) <= Cardinality(loader.inFlight)
    BY <1>4, <2>1, FS_Subset
  <2>3. Cardinality(loader.inFlight) <= MaxConcurrentChecks
    BY Zenon DEF ChecksInv, QueueOK
  <2> QED
    BY <2>1, <2>2, <2>3, ChecksAssumption
<1>16. QueueOK(l)
  <2>1. \A p \in F : In(p, r)
    BY <1>4, <1>11, Zenon DEF ChecksInv, QueueOK
  <2>2. loader.loading => m + Len(r) = loader.total /\ loader.total <= Cardinality(Monitored)
    <3> SUFFICES ASSUME loader.loading
                 PROVE  m + Len(r) = loader.total /\ loader.total <= Cardinality(Monitored)
      OBVIOUS
    <3>1. loader.checked + Len(loader.queue) = loader.total /\ loader.total <= Cardinality(Monitored)
      BY Zenon DEF ChecksInv, QueueOK
    <3>2. PICK n : n = Len(loader.queue)
      BY Zenon
    <3>3. n \in Nat /\ n > 0 /\ Len(r) = n - 1 /\ loader.checked + n = loader.total
      BY <1>9, <1>11, <3>1, <3>2, Zenon
    <3>4. m = loader.checked + 1
      BY <1>9, <1>12, <3>1, <3>3
    <3>5. PICK k \in Nat : k = loader.checked
      BY <1>9
    <3>6. m = k + 1 /\ k + n = loader.total
      BY <3>3, <3>4, <3>5
    <3>7. (k + 1) + (n - 1) = k + n
      BY <3>3
    <3>8. m + Len(r) = loader.total
      BY <3>3, <3>6, <3>7
    <3> QED
      BY <3>1, <3>8
  <2>3. l.loading => l.checked + Len(l.queue) = l.total /\ l.total <= Cardinality(Monitored)
    BY <1>13, <1>14, <2>2
  <2> QED
    BY <1>11, <1>13, <1>15, <2>1, <2>3 DEF QueueOK
<1>17. Known(r, DOMAIN cache)
  <2>1. \A i \in 1..Len(r) : In(r[i], r)
    BY DEF In
  <2>2. \A p : In(p, loader.queue) => p \in DOMAIN cache
    BY DEF ChecksInv, Known, In
  <2> QED
    BY <1>11, <2>1, <2>2 DEF Known
<1>18. CheckOf(checks', l)
  <2>1. CheckOf(checks, loader)
    BY DEF ChecksInv
  <2> QED
    BY <1>1, <1>4, <1>13, <2>1 DEF CheckOf
<1>19. CASE loader' = l
  BY <1>1, <1>2, <1>13, <1>16, <1>17, <1>18, <1>19, Zenon DEF ChecksInv
<1>20. ASSUME l.inFlight = {}, NEW q \in Orders(due),
              loader' = [l EXCEPT !.loading = FALSE, !.firstRun = FALSE, !.queue = q]
       PROVE  ChecksInv'
  <2>1. due \subseteq DOMAIN cache /\ due \subseteq Monitored
    BY <1>1, <1>7
  <2>2. q \in Seq(due) /\ Once(q) /\ Known(q, due)
    BY <1>20, <2>1, FiniteProviders, OrderFacts
  <2>3. q \in Seq(Monitored)
    BY <2>1, <2>2
  <2>4. /\ loader' \in Loader /\ loader'.queue = q /\ loader'.inFlight = {}
        /\ loader'.loading = FALSE
    BY <1>13, <1>20, <2>3, Zenon DEF Loader
  <2>5. QueueOK(loader')
    BY <1>13, <1>15, <1>20, <2>2, <2>4, Zenon DEF QueueOK
  <2>6. CheckOf(checks', loader')
    BY <1>18, <1>20, <2>4 DEF CheckOf
  <2>7. Known(q, DOMAIN cache)
    BY <2>1, <2>2 DEF Known
  <2> QED
    BY <1>1, <1>2, <2>4, <2>5, <2>6, <2>7, Zenon DEF ChecksInv
<1> QED
  BY <1>8, <1>19, <1>20, Zenon

(* What the chain syncs, the clock and the answers change besides. *)
LEMMA OthersInv ==
    ASSUME ChecksInv, UNCHANGED loader, registry' \subseteq Monitored, registry \subseteq registry',
           DOMAIN cache \subseteq DOMAIN cache', DOMAIN cache' \subseteq registry',
           CheckOf(checks', loader)
    PROVE  ChecksInv'
<1>1. Known(loader.queue, DOMAIN cache')
  BY DEF ChecksInv, Known
<1> QED
  BY <1>1 DEF ChecksInv

LEMMA ChecksNextInv == ChecksInv /\ [ChecksNext]_checkVars => ChecksInv'
<1> SUFFICES ASSUME ChecksInv, [ChecksNext]_checkVars PROVE ChecksInv'
  OBVIOUS
<1>1. /\ registry \subseteq Monitored /\ DOMAIN cache \subseteq registry
      /\ QueueOK(loader) /\ Known(loader.queue, DOMAIN cache) /\ CheckOf(checks, loader)
  BY DEF ChecksInv
<1>2. CASE UNCHANGED checkVars
  BY <1>1, <1>2, OthersInv DEF checkVars
<1>3. CASE ProviderCheckTick
  <2>1. QueueOK(loader') /\ loader'.queue = loader.queue /\ CheckOf(checks', loader')
    BY <1>1, <1>3, DispatchFacts DEF ProviderCheckTick
  <2> QED
    BY <1>1, <1>3, <2>1 DEF ChecksInv, ProviderCheckTick
<1>4. CASE Minute
  BY <1>1, <1>4, OthersInv DEF Minute
<1>5. ASSUME NEW n, syncChain(n) PROVE ChecksInv'
  <2>1. CASE UNCHANGED cache
    BY <1>1, <1>5, <2>1, OthersInv DEF syncChain
  <2>2. ASSUME NEW listed \in Listings, cache' = SyncWithChain(listed) PROVE ChecksInv'
    <3>1. DOMAIN listed \subseteq registry
      BY <2>2 DEF Listings
    <3>2. DOMAIN cache' = DOMAIN cache \cup DOMAIN listed
      BY <2>2 DEF SyncWithChain
    <3> QED
      BY <1>1, <1>5, <3>1, <3>2, OthersInv, Zenon DEF syncChain
  <2> QED
    BY <1>5, <2>1, <2>2 DEF syncChain
<1>6. ASSUME NEW n, handleChainSyncMsg(n) PROVE ChecksInv'
  BY <1>6, SyncHandledInv
<1>7. ASSUME NEW n, SyncTick(n) PROVE ChecksInv'
  BY <1>1, <1>7, OthersInv DEF SyncTick
<1>8. ASSUME NEW c \in checks, checkProvider(c) PROVE ChecksInv'
  <2>1. PICK out \in {"online", "offline"} : checks' = (checks \ {c}) \cup {[c EXCEPT !.out = out]}
    BY <1>8 DEF checkProvider
  <2>2. c \in Checks
    BY <1>1 DEF CheckOf
  <2>3. PICK d : d = [c EXCEPT !.out = out]
    BY Zenon
  <2>4. d.of = c.of /\ d \in Checks
    BY <2>2, <2>3 DEF Checks
  <2>5. CheckOf(checks', loader)
    <3>1. checks' = (checks \ {c}) \cup {d}
      BY <2>1, <2>3
    <3>2. checks' \subseteq Checks /\ \A e \in checks' : e.of \in loader.inFlight
      BY <1>1, <2>4, <3>1 DEF CheckOf
    <3>3. ASSUME NEW p \in loader.inFlight PROVE \E e \in checks' : e.of = p
      BY <1>1, <2>4, <3>1 DEF CheckOf
    <3>4. ASSUME NEW e \in checks', NEW f \in checks', e.of = f.of PROVE e = f
      BY <1>1, <2>4, <3>1, <3>4, Zenon DEF CheckOf
    <3> QED
      BY <3>2, <3>3, <3>4 DEF CheckOf
  <2> QED
    BY <1>1, <1>8, <2>5, OthersInv DEF checkProvider
<1>9. ASSUME NEW c \in checks, handleProviderCheckedMsg(c) PROVE ChecksInv'
  BY <1>9, CheckedInv
<1>10. ASSUME NEW p \in Monitored, Register(p) PROVE ChecksInv'
  BY <1>1, <1>10, OthersInv DEF Register
<1> QED
  BY <1>2, <1>3, <1>4, <1>5, <1>6, <1>7, <1>8, <1>9, <1>10 DEF ChecksNext

(***************************************************************************)
(* For any number of providers and chain syncs, in any order: a provider   *)
(* is marked in flight exactly when one check of it is under way, no more  *)
(* than MaxConcurrentChecks are, and while the list is loading the checks  *)
(* counted and those queued add up to the total (dispatchProviderChecks,   *)
(* buildProviderQueue, handleProviderCheckedMsg).                          *)
(***************************************************************************)
THEOREM ChecksAddUpThm == ChecksSpec => []ChecksAddUp
<1>1. ChecksInit => ChecksInv
  BY ChecksInitInv
<1>2. ChecksInv /\ [ChecksNext]_checkVars => ChecksInv'
  BY ChecksNextInv
<1>3. ChecksInv => ChecksAddUp
  <2> SUFFICES ASSUME ChecksInv PROVE ChecksAddUp
    OBVIOUS
  <2>1. ASSUME NEW p \in Monitored
        PROVE  Cardinality({c \in checks : c.of = p}) = IF p \in loader.inFlight THEN 1 ELSE 0
    <3>1. CASE p \in loader.inFlight
      <4>1. PICK c \in checks : c.of = p
        BY <3>1 DEF ChecksInv, CheckOf
      <4>2. {d \in checks : d.of = p} = {c}
        BY <4>1 DEF ChecksInv, CheckOf
      <4> QED
        BY <3>1, <4>2, FS_Singleton, Zenon
    <3>2. CASE p \notin loader.inFlight
      <4>1. {d \in checks : d.of = p} = {}
        BY <3>2 DEF ChecksInv, CheckOf
      <4> QED
        BY <3>2, <4>1, FS_EmptySet, Zenon
    <3> QED
      BY <3>1, <3>2
  <2>2. Cardinality(loader.inFlight) <= MaxConcurrentChecks /\ ProgressAddsUp
    BY Zenon DEF ChecksInv, QueueOK, ProgressAddsUp
  <2> QED
    BY <2>1, <2>2 DEF ChecksAddUp, OneCheckEach
<1> QED
  BY <1>1, <1>2, <1>3, PTL DEF ChecksSpec
=============================================================================
