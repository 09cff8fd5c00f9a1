-------------------------- MODULE ConsensusTracker --------------------------
(***************************************************************************)
(* The tracker of one consensus subscription of the monitor: the height,   *)
(* round and step of the node and the validators that have voted in it.    *)
(* A validator index has a meaning only in the validator set of a height.  *)
(***************************************************************************)
EXTENDS Integers

CONSTANTS
    MaxHeight, MaxRound, MaxStep,  \* bounds of what the node reports
    Power                          \* validator sets: height -> index -> power

Heights == 1..MaxHeight
Rounds == 0..MaxRound
NodeSteps == 0..MaxStep

(* The set of the newest height, which the connection starts with. *)
Latest == 0

ASSUME TrackerAssumption ==
    /\ MaxHeight \in Nat \ {0}
    /\ MaxRound \in Nat
    /\ MaxStep \in Nat
    /\ \A h \in Heights : \A i \in DOMAIN Power[h] : Power[h][i] \in Nat

Indexes == UNION {DOMAIN Power[h] : h \in Heights}

(* A vote names a validator of its height's set. *)
Votes ==
    {v \in [kind : {"prevote", "precommit"}, height : Heights, round : Rounds,
            index : Indexes] : v.index \in DOMAIN Power[v.height]}
RoundSteps ==
    [kind : {"step"}, height : Heights, round : Rounds, step : NodeSteps]
Messages == Votes \cup RoundSteps

Trackers ==
    [initialized : BOOLEAN, set : Heights \cup {Latest},
     height : Heights \cup {0}, round : Rounds, step : NodeSteps,
     prevoted : SUBSET Indexes, precommited : SUBSET Indexes,
     pvPower : Nat, pcPower : Nat]

newConsensusTracker(set) ==
    [initialized |-> FALSE, set |-> set, height |-> 0, round |-> 0, step |-> 0,
     prevoted |-> {}, precommited |-> {}, pvPower |-> 0, pcPower |-> 0]

SameRound(t, h, r) == t.initialized /\ h = t.height /\ r = t.round

(* Mutant: a vote of an earlier round of the height is let through. *)
BehindByHeight(t, h, r) == t.initialized /\ h < t.height

(* advanceTo returns false. *)
Behind(t, h, r) ==
    t.initialized /\ (h < t.height \/ (h = t.height /\ r < t.round))

(* The tracker when advanceTo returns true. *)
advanceTo(t, h, r) ==
    IF SameRound(t, h, r) THEN t
    ELSE [newConsensusTracker(t.set) EXCEPT
            !.initialized = TRUE, !.height = h, !.round = r]

addVote(t, v) ==
    CASE v.kind = "prevote" /\ v.index \notin t.prevoted ->
           [t EXCEPT !.prevoted = @ \cup {v.index},
                     !.pvPower = @ + Power[t.set][v.index]]
      [] v.kind = "precommit" /\ v.index \notin t.precommited ->
           [t EXCEPT !.precommited = @ \cup {v.index},
                     !.pcPower = @ + Power[t.set][v.index]]
      [] OTHER -> t

(* handleMessage: whether the message changes the tracker, and to what. *)
Accepts(t, m) ==
    /\ ~Behind(t, m.height, m.round)
    /\ IF m.kind = "step"
         THEN SameRound(t, m.height, m.round) => m.step >= t.step
         ELSE m.index \in DOMAIN Power[t.set]

handleMessage(t, m) ==
    LET a == advanceTo(t, m.height, m.round)
    IN  IF m.kind = "step" THEN [a EXCEPT !.step = m.step] ELSE addVote(a, m)

(* The votes the tracker counts are of its validator set's height. *)
NeedsSet(t, m) == ~t.initialized \/ m.height > t.height
=============================================================================
