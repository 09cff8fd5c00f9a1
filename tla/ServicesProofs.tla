----------------------------- MODULE ServicesProofs -----------------------------
(***************************************************************************)
(* The parts that run beside a command or below it.  The workflow engine,  *)
(* for every definition: any number of steps, retry limits and on-error    *)
(* actions.  The events, for any number of sessions, blocks and pending    *)
(* events.  The monitor, for any providers and any number of requests.     *)
(***************************************************************************)
EXTENDS MCServices, TLAPS

-----------------------------------------------------------------------------
(* The workflow engine. *)
(***************************************************************************)
(* What is true of the loop index, the phase and the outcome together.  A  *)
(* wait for a retry only starts when an attempt is left.                   *)
(***************************************************************************)
Progress ==
    /\ phase \in {"execute", "delay"} => step <= N
    /\ phase = "delay" => attempt < MaxAttempts(step)
    /\ phase = "done" <=> outcome # "running"
    /\ outcome = "aborted" => step <= N /\ result[step] = "failed"
    /\ outcome = "completed" => step = N + 1
    /\ outcome = "cancelled" => cancelled /\ step <= N

(* How the two cancellation flags and the count of late attempts relate. *)
Lateness ==
    /\ raced => phase = "delay" /\ cancelled
    /\ late > 0 => cancelled
    /\ phase \in {"execute", "delay"} => late < attempt
    /\ phase \in {"execute", "delay"} /\ ~Steps[step].brief =>
           late <= 1 /\ (raced => late = 0)

IInv ==
    /\ TypeOK
    /\ Progress
    /\ Lateness
    /\ RecordedInOrder
    /\ NothingAfterAbort
    /\ AttemptsBounded

(* Facts about the definition that every proof uses. *)
LEMMA StepFacts ==
    /\ N \in Nat
    /\ \A i \in 1..N : MaxAttempts(i) \in Nat \ {0}
    /\ \A i \in 1..N : Steps[i].brief \in BOOLEAN
<1>1. N \in Nat
  BY StepsAssumption DEF N
<1>2. ASSUME NEW i \in 1..N PROVE Steps[i] \in StepDef
  BY StepsAssumption DEF N
<1>3. ASSUME NEW i \in 1..N PROVE MaxAttempts(i) \in Nat \ {0}
  <2>1. Steps[i].retry \in Nat
    BY <1>2, <1>3, Zenon DEF StepDef
  <2> QED
    BY <2>1 DEF MaxAttempts
<1>4. ASSUME NEW i \in 1..N PROVE Steps[i].brief \in BOOLEAN
  BY <1>2, Zenon DEF StepDef
<1> QED
  BY <1>1, <1>3, <1>4

(* Init establishes the inductive invariant. *)
LEMMA InitIInv == Init => IInv
<1> SUFFICES ASSUME Init PROVE IInv
  OBVIOUS
<1> USE StepFacts
<1>1. TypeOK
  <2>1. step \in 1..(N + 1)
    BY DEF Init
  <2>2. result \in [1..N -> Statuses \cup {"none"}]
    BY DEF Init
  <2>3. order \in Seq((1..N) \X Statuses)
    BY DEF Init
  <2> QED
    BY <2>1, <2>2, <2>3, Zenon DEF Init, TypeOK
<1>2. Progress /\ Lateness
  BY DEF Init, Progress, Lateness
<1>3. RecordedInOrder /\ NothingAfterAbort /\ AttemptsBounded
  BY DEF Init, RecordedInOrder, NothingAfterAbort, AttemptsBounded
<1> QED
  BY <1>1, <1>2, <1>3 DEF IInv

(* What recording the result of the current step leaves behind. *)
LEMMA RecordFacts ==
    ASSUME TypeOK, RecordedInOrder, NEW status \in Statuses,
           step <= N, outcome # "aborted", Record(status)
    PROVE  /\ result' \in [1..N -> Statuses \cup {"none"}]
           /\ order' \in Seq((1..N) \X Statuses)
           /\ Len(order') = step
           /\ \A i \in 1..step : order'[i] = <<i, result'[i]>>
           /\ \A i \in 1..N : result'[i] = "none" <=> i > step
           /\ \A i \in 1..N : i # step => result'[i] = result[i]
           /\ result'[step] = status
<1> USE StepFacts
<1>1. step \in 1..N /\ Len(order) = step - 1
  BY DEF TypeOK, RecordedInOrder
<1>2. result' \in [1..N -> Statuses \cup {"none"}]
  BY <1>1 DEF TypeOK, Record
<1>3. order' \in Seq((1..N) \X Statuses) /\ Len(order') = step
  BY <1>1 DEF TypeOK, Record
<1>4. /\ \A i \in 1..N : i # step => result'[i] = result[i]
      /\ result'[step] = status
  BY <1>1 DEF TypeOK, Record
<1>5. ASSUME NEW i \in 1..step PROVE order'[i] = <<i, result'[i]>>
  <2>1. CASE i = step
    BY <1>1, <1>4, <2>1 DEF TypeOK, Record
  <2>2. CASE i # step
    <3>1. i \in 1..Len(order) /\ i \in 1..N
      BY <1>1, <2>2
    <3>2. order'[i] = order[i]
      BY <3>1 DEF TypeOK, Record
    <3> QED
      BY <1>4, <2>2, <3>1, <3>2 DEF RecordedInOrder
  <2> QED
    BY <2>1, <2>2
<1>6. ASSUME NEW i \in 1..N PROVE result'[i] = "none" <=> i > step
  <2>1. CASE i = step
    <3>1. result'[i] = status
      BY <1>4, <2>1
    <3>2. status # "none"
      BY DEF Statuses
    <3>3. ~(i > step)
      BY <1>1, <2>1
    <3> QED
      BY <3>1, <3>2, <3>3
  <2>2. CASE i # step
    <3>1. result'[i] = result[i]
      BY <1>4, <2>2
    <3>2. result[i] = "none" <=> i > Len(order)
      BY DEF RecordedInOrder
    <3>3. i > Len(order) <=> i > step
      BY <1>1, <2>2
    <3> QED
      BY <3>1, <3>2, <3>3
  <2> QED
    BY <2>1, <2>2
<1> QED
  BY <1>2, <1>3, <1>4, <1>5, <1>6, Zenon

(* Both ends of a failed step keep the invariant. *)
LEMMA StepFailedIInv ==
    ASSUME IInv, step <= N, phase # "done", StepFailed,
           cancelled' = cancelled, late' = late, raced' = FALSE
    PROVE  IInv'
<1> USE StepFacts
<1>0. outcome = "running" /\ step \in 1..N /\ "failed" \in Statuses
  BY DEF IInv, TypeOK, Progress, Statuses
<1>1. /\ result' \in [1..N -> Statuses \cup {"none"}]
      /\ order' \in Seq((1..N) \X Statuses)
      /\ Len(order') = step
      /\ \A i \in 1..step : order'[i] = <<i, result'[i]>>
      /\ \A i \in 1..N : result'[i] = "none" <=> i > step
      /\ \A i \in 1..N : i # step => result'[i] = result[i]
      /\ result'[step] = "failed"
  BY <1>0, RecordFacts, Zenon DEF IInv, StepFailed
<1>2. CASE GoesOn(step)
  <2>1. GoOn
    BY <1>2 DEF StepFailed
  <2>2. TypeOK'
    <3>1. step' \in 1..(N + 1) /\ attempt' \in Nat
      BY <1>0, <2>1 DEF GoOn
    <3> QED
      BY <1>1, <2>1, <3>1, Zenon DEF IInv, TypeOK, GoOn
  <2>5. Progress' /\ Lateness' /\ AttemptsBounded'
    BY <1>0, <1>1, <2>1 DEF IInv, TypeOK, Progress, Lateness, AttemptsBounded, GoOn
  <2>3. RecordedInOrder'
    <3>1. outcome' = "running" /\ step' - 1 = step
      BY <1>0, <2>1 DEF GoOn
    <3>2. Len(order') = IF outcome' = "aborted" THEN step' ELSE step' - 1
      BY <1>1, <3>1
    <3> QED
      BY <1>1, <3>2, Zenon DEF RecordedInOrder
  <2>4. NothingAfterAbort'
    BY <1>0, <1>1, <1>2, <2>1, Zenon DEF IInv, NothingAfterAbort, GoOn
  <2> QED
    BY <2>2, <2>3, <2>4, <2>5 DEF IInv
<1>3. CASE ~GoesOn(step)
  <2>1. Stop("aborted")
    BY <1>3 DEF StepFailed
  <2>2. TypeOK' /\ Progress' /\ Lateness' /\ AttemptsBounded'
    BY <1>0, <1>1, <2>1, Zenon DEF IInv, TypeOK, Progress, Lateness, AttemptsBounded, Stop
  <2>3. RecordedInOrder'
    BY <1>0, <1>1, <2>1, Zenon DEF RecordedInOrder, Stop
  <2>4. NothingAfterAbort'
    BY <1>0, <1>1, <1>3, <2>1, Zenon DEF IInv, NothingAfterAbort, Stop
  <2> QED
    BY <2>2, <2>3, <2>4 DEF IInv
<1> QED
  BY <1>2, <1>3

(* Every step of the engine keeps the inductive invariant. *)
LEMMA NextIInv == IInv /\ [Next]_engineVars => IInv'
<1> SUFFICES ASSUME IInv, [Next]_engineVars PROVE IInv'
  OBVIOUS
<1> USE StepFacts
<1>1. CASE Begin
  <2>1. TypeOK' /\ Progress' /\ AttemptsBounded'
    BY <1>1 DEF Begin, IInv, TypeOK, Progress, AttemptsBounded
  <2>2. Lateness'
    BY <1>1 DEF Begin, IInv, TypeOK, Progress, Lateness
  <2>3. RecordedInOrder' /\ NothingAfterAbort'
    BY <1>1 DEF Begin, IInv, RecordedInOrder, NothingAfterAbort
  <2> QED
    BY <2>1, <2>2, <2>3 DEF IInv
<1>2. CASE NoExecutor
  <2>1. raced = FALSE
    BY <1>2 DEF NoExecutor, IInv, Lateness, TypeOK
  <2> QED
    BY <1>2, <2>1, StepFailedIInv, Zenon DEF NoExecutor
<1>3. CASE StopCancelled
  <2>1. TypeOK' /\ Progress' /\ AttemptsBounded'
    BY <1>3 DEF StopCancelled, Stop, IInv, TypeOK, Progress, AttemptsBounded
  <2>2. Lateness'
    BY <1>3 DEF StopCancelled, Stop, IInv, TypeOK, Progress, Lateness
  <2>3. RecordedInOrder' /\ NothingAfterAbort'
    BY <1>3 DEF StopCancelled, Stop, IInv, Progress, RecordedInOrder,
                NothingAfterAbort
  <2> QED
    BY <2>1, <2>2, <2>3 DEF IInv
<1>4. CASE Finish
  <2>1. TypeOK' /\ Progress' /\ AttemptsBounded'
    BY <1>4 DEF Finish, Stop, IInv, TypeOK, Progress, AttemptsBounded
  <2>2. Lateness'
    BY <1>4 DEF Finish, Stop, IInv, TypeOK, Progress, Lateness
  <2>3. RecordedInOrder' /\ NothingAfterAbort'
    BY <1>4 DEF Finish, Stop, IInv, Progress, RecordedInOrder,
                NothingAfterAbort
  <2> QED
    BY <2>1, <2>2, <2>3 DEF IInv
<1>5. ASSUME NEW status \in {"success", "skipped"}, Succeed(status) PROVE IInv'
  <2>0. outcome = "running" /\ step \in 1..N /\ status \in Statuses
    BY <1>5 DEF Succeed, IInv, TypeOK, Progress, Statuses
  <2>1. /\ result' \in [1..N -> Statuses \cup {"none"}]
        /\ order' \in Seq((1..N) \X Statuses)
        /\ Len(order') = step
        /\ \A i \in 1..step : order'[i] = <<i, result'[i]>>
        /\ \A i \in 1..N : result'[i] = "none" <=> i > step
        /\ \A i \in 1..N : i # step => result'[i] = result[i]
        /\ result'[step] = status
    <3>1. TypeOK /\ RecordedInOrder /\ Record(status)
      BY <1>5 DEF IInv, Succeed
    <3>2. step <= N /\ outcome # "aborted"
      BY <2>0
    <3> QED
      BY <2>0, <3>1, <3>2, RecordFacts, Zenon
  <2>6. step' \in 1..(N + 1) /\ attempt' \in Nat
    BY <1>5, <2>0 DEF Succeed, GoOn
  <2>2. TypeOK' /\ Progress' /\ AttemptsBounded'
    BY <1>5, <2>0, <2>1, <2>6
    DEF Succeed, GoOn, IInv, TypeOK, Progress, AttemptsBounded
  <2>3. Lateness'
    BY <1>5, <2>0 DEF Succeed, GoOn, IInv, TypeOK, Lateness
  <2>4. RecordedInOrder'
    BY <1>5, <2>0, <2>1 DEF Succeed, GoOn, RecordedInOrder
  <2>5. NothingAfterAbort'
    BY <1>5, <2>0, <2>1 DEF Succeed, GoOn, IInv, NothingAfterAbort
  <2> QED
    BY <2>2, <2>3, <2>4, <2>5 DEF IInv
<1>6. CASE Fail
  <2>0. step \in 1..N /\ raced = FALSE
    BY <1>6 DEF Fail, IInv, TypeOK, Progress, Lateness
  <2>1. CASE attempt < MaxAttempts(step)
    <3>1. TypeOK' /\ Progress' /\ AttemptsBounded'
      BY <1>6, <2>0, <2>1 DEF Fail, IInv, TypeOK, Progress, AttemptsBounded
    <3>2. Lateness'
      BY <1>6, <2>0, <2>1 DEF Fail, IInv, TypeOK, Lateness
    <3>3. RecordedInOrder' /\ NothingAfterAbort'
      BY <1>6, <2>1 DEF Fail, IInv, RecordedInOrder, NothingAfterAbort
    <3> QED
      BY <3>1, <3>2, <3>3 DEF IInv
  <2>2. CASE ~(attempt < MaxAttempts(step))
    <3>1. StepFailed /\ cancelled' = cancelled /\ late' = late /\ raced' = FALSE
      BY <1>6, <2>0, <2>2 DEF Fail
    <3>2. step <= N /\ phase # "done"
      BY <1>6, <2>0 DEF Fail
    <3> QED
      BY <3>1, <3>2, StepFailedIInv, Zenon
  <2> QED
    BY <2>1, <2>2
<1>7. CASE Retry
  <2>0. /\ step \in 1..N /\ attempt \in Nat /\ MaxAttempts(step) \in Nat
        /\ attempt < MaxAttempts(step)
    BY <1>7 DEF Retry, IInv, TypeOK, Progress, AttemptsBounded
  <2>5. attempt' \in Nat /\ late' \in Nat /\ raced' = FALSE
    BY <1>7, <2>0 DEF Retry, IInv, TypeOK
  <2>1. TypeOK'
    BY <1>7, <2>5, Zenon DEF Retry, IInv, TypeOK
  <2>6. Progress'
    BY <1>7, <2>0 DEF Retry, IInv, Progress
  <2>2. Lateness'
    BY <1>7, <2>0 DEF Retry, IInv, TypeOK, Lateness
  <2>3. RecordedInOrder' /\ NothingAfterAbort'
    BY <1>7 DEF Retry, IInv, RecordedInOrder, NothingAfterAbort
  <2>7. attempt' <= Steps[step'].retry
    <3>1. attempt' = attempt + 1 /\ step' = step /\ attempt >= 1
      BY <1>7, <2>0 DEF Retry, IInv, AttemptsBounded
    <3>2. Steps[step].retry \in Nat
      <4>1. Steps[step] \in StepDef
        BY <2>0, StepsAssumption DEF N
      <4> QED
        BY <4>1 DEF StepDef
    <3> QED
      BY <2>0, <3>1, <3>2 DEF MaxAttempts
  <2>4. AttemptsBounded'
    BY <1>7, <2>0, <2>7 DEF Retry, IInv, TypeOK, AttemptsBounded
  <2> QED
    BY <2>1, <2>2, <2>3, <2>4, <2>6 DEF IInv
<1>8. CASE DelayCancelled
  <2>0. step <= N
    BY <1>8 DEF DelayCancelled, IInv, Progress
  <2> QED
    BY <1>8, <2>0, StepFailedIInv, Zenon DEF DelayCancelled
<1>9. CASE Cancel
  <2>1. TypeOK' /\ Progress' /\ AttemptsBounded'
    BY <1>9 DEF Cancel, IInv, TypeOK, Progress, AttemptsBounded
  <2>2. Lateness'
    BY <1>9 DEF Cancel, IInv, TypeOK, Progress, Lateness
  <2>3. RecordedInOrder' /\ NothingAfterAbort'
    BY <1>9 DEF Cancel, IInv, RecordedInOrder, NothingAfterAbort
  <2> QED
    BY <2>1, <2>2, <2>3 DEF IInv
<1>10. CASE UNCHANGED engineVars
  BY <1>10, Zenon DEF engineVars, IInv, TypeOK, Progress, Lateness, RecordedInOrder,
               NothingAfterAbort, AttemptsBounded
<1> QED
  BY <1>1, <1>2, <1>3, <1>4, <1>5, <1>6, <1>7, <1>8, <1>9, <1>10
  DEF Next, Work, Done

(***************************************************************************)
(* Every reachable state of the engine satisfies the inductive invariant.  *)
(***************************************************************************)
THEOREM Invariance == Spec => []IInv
<1> QED
  BY InitIInv, NextIInv, PTL DEF Spec

(* A run follows its definition, whatever the definition: results are      *)
(* recorded once and in order, none after a failure that aborts, and       *)
(* retries respect the limit of the step.                                  *)
THEOREM RunFollowsStepsThm == Spec => []RunFollowsSteps
<1>1. IInv => RunFollowsSteps
  BY DEF IInv, RunFollowsSteps
<1> QED
  BY <1>1, Invariance, PTL

(* After cancellation only retries of the current step start. *)
THEOREM CancellationStopsThm == Spec => []CancellationStops
<1>1. IInv => CancellationStops
  BY DEF IInv, Lateness, CancellationStops
<1> QED
  BY <1>1, Invariance, PTL

(* The outcome that Run returns is the truth about the steps. *)
THEOREM OutcomeIsTrueThm == Spec => []OutcomeIsTrue
<1>1. IInv => OutcomeIsTrue
  <2> SUFFICES ASSUME IInv PROVE OutcomeIsTrue
    OBVIOUS
  <2>1. ASSUME outcome = "completed", NEW i \in 1..N PROVE result[i] # "none"
    BY <2>1, StepFacts DEF IInv, Progress, RecordedInOrder
  <2>2. ASSUME outcome = "cancelled"
        PROVE  cancelled /\ \E i \in 1..N : result[i] = "none"
    <3>1. step \in 1..N /\ step > Len(order) /\ cancelled
      BY <2>2, StepFacts DEF IInv, TypeOK, Progress, RecordedInOrder
    <3> QED
      BY <3>1 DEF IInv, RecordedInOrder
  <2> QED
    BY <2>1, <2>2 DEF OutcomeIsTrue
<1> QED
  BY <1>1, Invariance, PTL

-----------------------------------------------------------------------------
(* The events. *)
State ==
    [deployment : {"none", "active", "closed"}, bid : {"none", "open", "matched", "closed", "lost"},
     lease : {"none", "active", "closed", "insufficient_funds"}, version : Nat]

(* No object of b is in an earlier state than it is in a. *)
Reaches(x, y) ==
    \/ x = y \/ x = "none" \/ y \in {"closed", "lost", "insufficient_funds"}
    \/ x = "open" /\ y = "matched"

Upto(a, b) ==
    /\ Reaches(a.deployment, b.deployment)
    /\ Reaches(a.bid, b.bid)
    /\ Reaches(a.lease, b.lease)

(* What an event says of the state after it. *)
Says(e) ==
    /\ e.type \in {"EventDeploymentCreated", "EventDeploymentUpdated"}
         => e.after.deployment = "active"
    /\ e.type = "EventDeploymentClosed" => e.after.deployment = "closed"
    /\ e.type = "EventBidCreated" => e.after.bid = "open"
    /\ e.type = "EventBidClosed" => e.after.bid = "closed"
    /\ e.type = "EventLeaseCreated" => e.after.bid = "matched" /\ e.after.lease = "active"
    /\ e.type = "EventLeaseClosed" => e.after.lease \in {"closed", "insufficient_funds"}

EventType ==
    {"EventDeploymentCreated", "EventDeploymentUpdated", "EventDeploymentClosed",
     "EventBidCreated", "EventBidClosed", "EventLeaseCreated", "EventLeaseClosed"}

EventSet == {e \in [type : EventType, after : State] : Says(e)}

(* All that an event makes the engine write. *)
Apply(s, e) ==
    LET t == E!HandleEvent(s, e)
    IN  IF e.type = "EventLeaseCreated" THEN E!matchBid(t) ELSE t

(* The order of the states of each kind of object. *)
LEMMA Cycles ==
    /\ E!Lifecycle["deployment"] = <<{"none"}, {"active"}, {"closed"}>>
    /\ E!Lifecycle["bid"] = <<{"none"}, {"open"}, {"matched"}, {"closed", "lost"}>>
    /\ E!Lifecycle["lease"] = <<{"none"}, {"active"}, {"closed", "insufficient_funds"}>>
<1>1. {"deployment", "bid", "lease"} = E!Kinds
  BY DEF E!Kinds
<1> QED
  BY <1>1 DEF E!Lifecycle

(* Every state has its place. *)
LEMMA Ranks ==
    /\ E!Rank("deployment", "none") = 1
    /\ E!Rank("deployment", "active") = 2
    /\ E!Rank("deployment", "closed") = 3
    /\ E!Rank("bid", "none") = 1
    /\ E!Rank("bid", "open") = 2
    /\ E!Rank("bid", "matched") = 3
    /\ E!Rank("bid", "closed") = 4
    /\ E!Rank("bid", "lost") = 4
    /\ E!Rank("lease", "none") = 1
    /\ E!Rank("lease", "active") = 2
    /\ E!Rank("lease", "closed") = 3
    /\ E!Rank("lease", "insufficient_funds") = 3
BY Cycles DEF E!Rank

(* Upto is the order of the ranks. *)
LEMMA UptoRank ==
    ASSUME NEW a \in State, NEW b \in State, Upto(a, b)
    PROVE  \A k \in E!Kinds : E!Rank(k, a[k]) <= E!Rank(k, b[k])
<1>1. E!Rank("deployment", a.deployment) <= E!Rank("deployment", b.deployment)
  BY Ranks DEF State, Upto, Reaches
<1>2. E!Rank("bid", a.bid) <= E!Rank("bid", b.bid)
  BY Ranks DEF State, Upto, Reaches
<1>3. E!Rank("lease", a.lease) <= E!Rank("lease", b.lease)
  BY Ranks DEF State, Upto, Reaches
<1> QED
  BY <1>1, <1>2, <1>3 DEF E!Kinds

(* The order of states is transitive, whatever the kind. *)
LEMMA ReachesOrder ==
    ASSUME NEW x, NEW y, NEW z, Reaches(x, y), Reaches(y, z)
    PROVE  Reaches(x, z)
BY DEF Reaches

(* Upto is reflexive and transitive. *)
LEMMA UptoOrder ==
    ASSUME NEW a, NEW b, NEW c
    PROVE  /\ Upto(a, a)
           /\ Upto(a, b) /\ Upto(b, c) => Upto(a, c)
<1>1. Upto(a, a)
  BY DEF Upto, Reaches
<1>2. ASSUME Upto(a, b), Upto(b, c) PROVE Upto(a, c)
  BY <1>2, ReachesOrder DEF Upto
<1> QED
  BY <1>1, <1>2

(* A state made of two lies between them. *)
LEMMA Between ==
    ASSUME NEW a, NEW b, NEW c, Upto(a, c),
           b.deployment \in {a.deployment, c.deployment},
           b.bid \in {a.bid, c.bid},
           b.lease \in {a.lease, c.lease}
    PROVE  Upto(a, b) /\ Upto(b, c)
<1>1. \A x : Reaches(x, x)
  BY DEF Reaches
<1> QED
  BY <1>1 DEF Upto

(* Applying an event. *)
LEMMA HandleCases ==
    ASSUME NEW s, NEW e \in EventSet
    PROVE  /\ e.type = "EventDeploymentCreated"
                => E!HandleEvent(s, e) = E!handleDeploymentCreated(s, e)
           /\ e.type = "EventDeploymentUpdated"
                => E!HandleEvent(s, e) = E!handleDeploymentUpdated(s, e)
           /\ e.type = "EventDeploymentClosed"
                => E!HandleEvent(s, e) = E!handleDeploymentClosed(s, e)
           /\ e.type = "EventBidCreated" => E!HandleEvent(s, e) = E!handleBidCreated(s, e)
           /\ e.type = "EventBidClosed" => E!HandleEvent(s, e) = E!handleBidClosed(s, e)
           /\ e.type = "EventLeaseCreated" => E!HandleEvent(s, e) = E!handleLeaseCreated(s, e)
           /\ e.type = "EventLeaseClosed" => E!HandleEvent(s, e) = E!handleLeaseClosed(s, e)
BY DEF E!HandleEvent

(* A handler writes what the chain has reached: from a store that is not   *)
(* ahead of the event, the record moves forward and not past the event.    *)
LEMMA HandleForward ==
    ASSUME NEW s \in State, NEW e \in EventSet, Upto(s, e.after)
    PROVE  /\ E!HandleEvent(s, e) \in State
           /\ Upto(s, E!HandleEvent(s, e))
           /\ Upto(E!HandleEvent(s, e), e.after)
<1>1. e.type \in EventType /\ e.after \in State /\ Says(e)
  BY DEF EventSet
<1> DEFINE t == E!HandleEvent(s, e)
           Made == /\ t \in State
                   /\ t.deployment \in {s.deployment, e.after.deployment}
                   /\ t.bid \in {s.bid, e.after.bid}
                   /\ t.lease \in {s.lease, e.after.lease}
<1>2. CASE e.type = "EventDeploymentCreated"
  <2>1. t = [s EXCEPT !.deployment = "active", !.version = e.after.version]
    BY <1>2, HandleCases, Zenon DEF E!handleDeploymentCreated
  <2>2. e.after.version \in Nat /\ e.after.deployment = "active"
    BY <1>1, <1>2 DEF State, Says
  <2> HIDE DEF t
  <2>3. Made
    BY <2>1, <2>2, Zenon DEF State
  <2> QED
    BY <2>3, Between DEF t
<1>3. CASE e.type = "EventDeploymentUpdated"
  <2>1. s.deployment \in {"none", "active"}
    BY <1>1, <1>3 DEF State, Says, Upto, Reaches
  <2>2. t = [s EXCEPT !.deployment = IF @ = "none" THEN "active" ELSE @,
                      !.version = e.after.version]
    BY <1>3, HandleCases, Zenon DEF E!handleDeploymentUpdated
  <2>3. e.after.version \in Nat /\ e.after.deployment = "active"
    BY <1>1, <1>3 DEF State, Says
  <2> HIDE DEF t
  <2>4. Made
    BY <2>1, <2>2, <2>3, Zenon DEF State
  <2> QED
    BY <2>4, Between DEF t
<1>4. CASE e.type = "EventDeploymentClosed"
  <2>1. Made
    BY <1>1, <1>4, HandleCases DEF State, Says, E!handleDeploymentClosed
  <2> QED
    BY <2>1, Between
<1>5. CASE e.type = "EventBidCreated"
  <2>1. Made
    BY <1>1, <1>5, HandleCases DEF State, Says, E!handleBidCreated
  <2> QED
    BY <2>1, Between
<1>6. CASE e.type = "EventBidClosed"
  <2>1. Made
    BY <1>1, <1>6, HandleCases DEF State, Says, E!handleBidClosed
  <2> QED
    BY <2>1, Between
<1>7. CASE e.type = "EventLeaseCreated"
  <2>1. Made
    BY <1>1, <1>7, HandleCases DEF State, Says, E!handleLeaseCreated
  <2> QED
    BY <2>1, Between
<1>8. CASE e.type = "EventLeaseClosed"
  <2>1. t = [s EXCEPT !.lease = "closed"]
    BY <1>8, HandleCases, Zenon DEF E!handleLeaseClosed
  <2>2. e.after.lease \in {"closed", "insufficient_funds"}
    BY <1>1, <1>8 DEF Says
  <2> HIDE DEF t
  <2>3. /\ t \in State /\ t.deployment = s.deployment /\ t.bid = s.bid /\ t.lease = "closed"
    BY <2>1, Zenon DEF State
  <2> QED
    BY <2>2, <2>3 DEF Upto, Reaches, t
<1> QED
  BY <1>1, <1>2, <1>3, <1>4, <1>5, <1>6, <1>7, <1>8 DEF EventType

(* A matched bid is no further than the event that matched it. *)
LEMMA MatchForward ==
    ASSUME NEW s \in State, NEW c \in State, Upto(s, c), c.bid = "matched"
    PROVE  E!matchBid(s) \in State /\ Upto(s, E!matchBid(s)) /\ Upto(E!matchBid(s), c)
<1> DEFINE t == E!matchBid(s)
<1>1. /\ t \in State
      /\ t.deployment = s.deployment /\ t.lease = s.lease /\ t.bid \in {s.bid, c.bid}
  BY DEF State, E!matchBid
<1> QED
  BY <1>1, Between

(* Events in the order the chain made them, none before s. *)
Sorted(s, q) ==
    /\ \A i \in 1..Len(q) : q[i] \in EventSet /\ Upto(s, q[i].after)
    /\ \A i, j \in 1..Len(q) : i <= j => Upto(q[i].after, q[j].after)

(* The states events cannot tell apart: what the handlers make of them     *)
(* cannot be told apart either.                                            *)
Alike(a, b) == E!Told(a) = E!Told(b)

LEMMA ToldFields ==
    ASSUME NEW c \in State
    PROVE  /\ E!Told(c) \in State
           /\ E!Told(c).deployment = c.deployment /\ E!Told(c).version = c.version
           /\ E!Told(c).bid = (IF c.bid = "lost" THEN "open" ELSE c.bid)
           /\ E!Told(c).lease = (IF c.lease = "insufficient_funds" THEN "closed" ELSE c.lease)
BY Zenon DEF E!Told, State

(* Each event makes of the state before it the state it carries. *)
Linked(s, q) ==
    /\ q # << >> => Alike(q[1].after, Apply(s, q[1]))
    /\ \A i \in 1..(Len(q) - 1) : Alike(q[i + 1].after, Apply(q[i].after, q[i + 1]))

End(s, q) == IF q = << >> THEN s ELSE q[Len(q)].after

(* Taking the first event moves the start to what it carries. *)
LEMMA SortedTail ==
    ASSUME NEW s, NEW q \in Seq(EventSet), q # << >>, Sorted(s, q)
    PROVE  /\ Tail(q) \in Seq(EventSet)
           /\ Sorted(q[1].after, Tail(q))
           /\ End(q[1].after, Tail(q)) = End(s, q)
<1>1. /\ Tail(q) \in Seq(EventSet)
      /\ Len(q) \in Nat /\ Len(q) > 0 /\ Len(Tail(q)) = Len(q) - 1
      /\ \A i \in 1..Len(Tail(q)) : Tail(q)[i] = q[i + 1] /\ i + 1 \in 1..Len(q)
  OBVIOUS
<1>2. Sorted(q[1].after, Tail(q))
  BY <1>1 DEF Sorted
<1>3. End(q[1].after, Tail(q)) = End(s, q)
  <2>1. CASE Len(q) = 1
    BY <1>1, <2>1 DEF End
  <2>2. CASE Len(q) # 1
    BY <1>1, <2>2 DEF End
  <2> QED
    BY <2>1, <2>2
<1> QED
  BY <1>1, <1>2, <1>3

(* The same for events that follow one from the other. *)
LEMMA LinkedTail ==
    ASSUME NEW s, NEW q \in Seq(EventSet), q # << >>, Linked(s, q)
    PROVE  Linked(q[1].after, Tail(q))
<1>1. /\ Tail(q) \in Seq(EventSet)
      /\ Len(q) \in Nat /\ Len(q) > 0 /\ Len(Tail(q)) = Len(q) - 1
      /\ \A i \in 1..Len(Tail(q)) : Tail(q)[i] = q[i + 1] /\ i + 1 \in 1..Len(q)
  OBVIOUS
<1>2. Tail(q) # << >> => Alike(Tail(q)[1].after, Apply(q[1].after, Tail(q)[1]))
  BY <1>1 DEF Linked
<1>3. ASSUME NEW i \in 1..(Len(Tail(q)) - 1)
      PROVE  Alike(Tail(q)[i + 1].after, Apply(Tail(q)[i].after, Tail(q)[i + 1]))
  <2>1. /\ i \in 1..Len(Tail(q)) /\ i + 1 \in 1..Len(Tail(q)) /\ i + 1 \in 1..(Len(q) - 1)
    BY <1>1
  <2>2. Tail(q)[i + 1] = q[i + 1 + 1] /\ Tail(q)[i] = q[i + 1]
    BY <1>1, <2>1
  <2> QED
    BY <2>1, <2>2 DEF Linked
<1> QED
  BY <1>2, <1>3 DEF Linked

(* Two runs of events in order, one after the other. *)
LEMMA SortedConcat ==
    ASSUME NEW s, NEW q \in Seq(EventSet), NEW r \in Seq(EventSet), r # << >>,
           Sorted(s, q), Sorted(End(s, q), r), Upto(s, End(s, q))
    PROVE  /\ q \o r \in Seq(EventSet)
           /\ Sorted(s, q \o r)
           /\ End(s, q \o r) = r[Len(r)].after
<1>1. /\ q \o r \in Seq(EventSet) /\ Len(q) \in Nat /\ Len(r) \in Nat /\ Len(r) > 0
      /\ Len(q \o r) = Len(q) + Len(r) /\ q \o r # << >>
      /\ \A i \in 1..Len(q \o r) : (q \o r)[i] = IF i <= Len(q) THEN q[i] ELSE r[i - Len(q)]
  OBVIOUS
<1>2. End(s, q \o r) = r[Len(r)].after
  BY <1>1 DEF End
<1>3. \A i \in 1..Len(r) : r[i] \in EventSet /\ Upto(End(s, q), r[i].after)
  BY DEF Sorted
<1>4. \A i \in 1..Len(q) : Upto(q[i].after, End(s, q))
  BY DEF Sorted, End
<1>5. ASSUME NEW i \in 1..Len(q \o r)
      PROVE  (q \o r)[i] \in EventSet /\ Upto(s, (q \o r)[i].after)
  <2>1. CASE i <= Len(q)
    BY <1>1, <2>1 DEF Sorted
  <2>2. CASE ~(i <= Len(q))
    <3>1. i - Len(q) \in 1..Len(r) /\ (q \o r)[i] = r[i - Len(q)]
      BY <1>1, <2>2
    <3> QED
      BY <1>3, <3>1, UptoOrder
  <2> QED
    BY <2>1, <2>2
<1>6. ASSUME NEW i \in 1..Len(q \o r), NEW j \in 1..Len(q \o r), i <= j
      PROVE  Upto((q \o r)[i].after, (q \o r)[j].after)
  <2>1. CASE j <= Len(q)
    BY <1>1, <1>6, <2>1 DEF Sorted
  <2>2. CASE ~(j <= Len(q)) /\ i <= Len(q)
    <3>1. j - Len(q) \in 1..Len(r) /\ (q \o r)[j] = r[j - Len(q)] /\ (q \o r)[i] = q[i]
          /\ i \in 1..Len(q)
      BY <1>1, <2>2
    <3> QED
      BY <1>3, <1>4, <3>1, UptoOrder
  <2>3. CASE ~(j <= Len(q)) /\ ~(i <= Len(q))
    <3>1. /\ j - Len(q) \in 1..Len(r) /\ (q \o r)[j] = r[j - Len(q)]
          /\ i - Len(q) \in 1..Len(r) /\ (q \o r)[i] = r[i - Len(q)]
          /\ i - Len(q) <= j - Len(q)
      BY <1>1, <1>6, <2>3
    <3> QED
      BY <3>1 DEF Sorted
  <2> QED
    BY <2>1, <2>2, <2>3
<1> QED
  BY <1>1, <1>2, <1>5, <1>6 DEF Sorted

(* Two runs of events that follow one from the other. *)
LEMMA LinkedConcat ==
    ASSUME NEW s, NEW q \in Seq(EventSet), NEW r \in Seq(EventSet), r # << >>,
           Linked(s, q), Linked(End(s, q), r)
    PROVE  Linked(s, q \o r)
<1>1. /\ q \o r \in Seq(EventSet) /\ Len(q) \in Nat /\ Len(r) \in Nat /\ Len(r) > 0
      /\ Len(q \o r) = Len(q) + Len(r) /\ q \o r # << >>
      /\ \A i \in 1..Len(q \o r) : (q \o r)[i] = IF i <= Len(q) THEN q[i] ELSE r[i - Len(q)]
      /\ q # << >> <=> Len(q) > 0
  OBVIOUS
<1>2. Alike((q \o r)[1].after, Apply(s, (q \o r)[1]))
  BY <1>1 DEF Linked, End
<1>3. ASSUME NEW i \in 1..(Len(q \o r) - 1)
      PROVE  Alike((q \o r)[i + 1].after, Apply((q \o r)[i].after, (q \o r)[i + 1]))
  <2>0. i \in 1..Len(q \o r) /\ i + 1 \in 1..Len(q \o r)
    BY <1>1
  <2>1. CASE i < Len(q)
    <3>1. i \in 1..(Len(q) - 1) /\ (q \o r)[i] = q[i] /\ (q \o r)[i + 1] = q[i + 1]
      BY <1>1, <2>0, <2>1
    <3> QED
      BY <3>1 DEF Linked
  <2>2. CASE i = Len(q)
    <3>1. (q \o r)[i] = q[Len(q)] /\ (q \o r)[i + 1] = r[1] /\ q # << >>
      BY <1>1, <2>0, <2>2
    <3> QED
      BY <3>1 DEF Linked, End
  <2>3. CASE i > Len(q)
    <3>1. /\ i - Len(q) \in 1..(Len(r) - 1) /\ (q \o r)[i] = r[i - Len(q)]
          /\ (q \o r)[i + 1] = r[i + 1 - Len(q)] /\ i + 1 - Len(q) = (i - Len(q)) + 1
      BY <1>1, <2>0, <2>3
    <3> QED
      BY <3>1 DEF Linked
  <2> QED
    BY <1>1, <2>1, <2>2, <2>3
<1> QED
  BY <1>2, <1>3 DEF Linked

(* What every block of the chain is: at least one event, in order from the *)
(* chain as it was.                                                        *)
Makes(events) ==
    /\ events \in Seq(EventSet) /\ events # << >>
    /\ Sorted(evChain, events)
    /\ Linked(evChain, events)

(* A block of one event. *)
LEMMA OneEvent ==
    ASSUME evChain \in State, NEW type \in EventType, NEW c \in State, Says(E!Event(type, c)),
           Upto(evChain, c), c = Apply(evChain, E!Event(type, c))
    PROVE  Makes(<<E!Event(type, c)>>) /\ End(evChain, <<E!Event(type, c)>>) = c
<1> DEFINE e == E!Event(type, c)
           q == <<e>>
<1>1. e \in EventSet /\ e.after = c
  BY DEF E!Event, EventSet
<1> HIDE DEF e
<1>2. q \in Seq(EventSet) /\ q # << >> /\ Len(q) = 1 /\ q[1] = e
  BY <1>1
<1> HIDE DEF q
<1>3. Sorted(evChain, q)
  <2>1. \A i \in 1..Len(q) : i = 1
    BY <1>2
  <2> QED
    BY <1>1, <1>2, <2>1, UptoOrder DEF Sorted
<1>4. Linked(evChain, q)
  <2>1. 1..(Len(q) - 1) = {}
    BY <1>2
  <2>2. Alike(q[1].after, Apply(evChain, q[1]))
    BY <1>1, <1>2 DEF e, Alike
  <2> QED
    BY <2>1, <2>2, Zenon DEF Linked
<1>5. End(evChain, q) = c
  BY <1>1, <1>2 DEF End
<1> QED
  BY <1>2, <1>3, <1>4, <1>5 DEF Makes, q, e

ClosingType == {"EventDeploymentClosed", "EventLeaseClosed", "EventBidClosed"}

(* How a lease ends. *)
LeaseEnds == {"closed", "insufficient_funds"}

(* What closing some objects leaves of each. *)
LEMMA ClosedFields ==
    ASSUME NEW c \in State, NEW T, NEW end \in LeaseEnds
    PROVE  /\ E!Closed(c, T, end) \in State
           /\ E!Closed(c, T, end).deployment
                = IF "EventDeploymentClosed" \in T THEN "closed" ELSE c.deployment
           /\ E!Closed(c, T, end).lease = IF "EventLeaseClosed" \in T THEN end ELSE c.lease
           /\ E!Closed(c, T, end).bid = IF "EventBidClosed" \in T THEN "closed" ELSE c.bid
           /\ E!Closed(c, T, end).version = c.version
BY Zenon DEF E!Closed, State, LeaseEnds

(* A state is its four fields. *)
LEMMA SameState ==
    ASSUME NEW a \in State, NEW b \in State, a.deployment = b.deployment, a.bid = b.bid,
           a.lease = b.lease, a.version = b.version
    PROVE  a = b
BY DEF State

(* Closing more objects moves the chain further. *)
LEMMA ClosedFacts ==
    ASSUME NEW c \in State, NEW T, NEW U, T \subseteq U, NEW end \in LeaseEnds
    PROVE  /\ E!Closed(c, T, end) \in State
           /\ Upto(c, E!Closed(c, T, end))
           /\ Upto(E!Closed(c, T, end), E!Closed(c, U, end))
<1> DEFINE a == E!Closed(c, T, end)
           b == E!Closed(c, U, end)
<1>1. /\ a \in State
      /\ a.deployment = (IF "EventDeploymentClosed" \in T THEN "closed" ELSE c.deployment)
      /\ a.lease = (IF "EventLeaseClosed" \in T THEN end ELSE c.lease)
      /\ a.bid = (IF "EventBidClosed" \in T THEN "closed" ELSE c.bid)
  BY ClosedFields
<1>2. /\ b.deployment = (IF "EventDeploymentClosed" \in U THEN "closed" ELSE c.deployment)
      /\ b.lease = (IF "EventLeaseClosed" \in U THEN end ELSE c.lease)
      /\ b.bid = (IF "EventBidClosed" \in U THEN "closed" ELSE c.bid)
  BY ClosedFields
<1> HIDE DEF a, b
<1>3. \A x, y : Reaches(x, x) /\ (y \in LeaseEnds => Reaches(x, y))
  BY DEF Reaches, LeaseEnds
<1>4. end \in LeaseEnds /\ "closed" \in LeaseEnds
  BY DEF LeaseEnds
<1>5. Upto(c, a)
  BY <1>1, <1>3, <1>4, Zenon DEF Upto
<1>6. Upto(a, b)
  <2>1. Reaches(a.deployment, b.deployment)
    BY <1>1, <1>2, <1>3, <1>4, Zenon
  <2>2. Reaches(a.lease, b.lease)
    BY <1>1, <1>2, <1>3, <1>4, Zenon
  <2>3. Reaches(a.bid, b.bid)
    BY <1>1, <1>2, <1>3, <1>4, Zenon
  <2> QED
    BY <2>1, <2>2, <2>3 DEF Upto
<1> QED
  BY <1>1, <1>5, <1>6 DEF a, b

(* One more closing is what the handler of its event writes. *)
LEMMA ClosedApply ==
    ASSUME NEW c \in State, NEW T, NEW t \in ClosingType, NEW e \in EventSet, e.type = t,
           NEW end \in LeaseEnds
    PROVE  Alike(E!Closed(c, T \cup {t}, end), Apply(E!Closed(c, T, end), e))
<1> DEFINE a == E!Closed(c, T, end)
           b == E!Closed(c, T \cup {t}, end)
           h == E!HandleEvent(a, e)
<1>1. Apply(a, e) = h
  BY DEF Apply, ClosingType
<1>2. a \in State /\ b \in State
  BY ClosedFields
<1>3. h \in State /\ h.version = a.version
      /\ h.deployment = (IF t = "EventDeploymentClosed" THEN "closed" ELSE a.deployment)
      /\ h.lease = (IF t = "EventLeaseClosed" THEN "closed" ELSE a.lease)
      /\ h.bid = (IF t = "EventBidClosed" THEN "closed" ELSE a.bid)
  <2> HIDE DEF a
  <2>1. CASE t = "EventDeploymentClosed"
    BY <1>2, <2>1, HandleCases DEF E!handleDeploymentClosed, State
  <2>2. CASE t = "EventLeaseClosed"
    BY <1>2, <2>2, HandleCases DEF E!handleLeaseClosed, State
  <2>3. CASE t = "EventBidClosed"
    BY <1>2, <2>3, HandleCases DEF E!handleBidClosed, State
  <2> QED
    BY <2>1, <2>2, <2>3 DEF ClosingType
<1>4. /\ b.deployment = (IF t = "EventDeploymentClosed" THEN "closed" ELSE a.deployment)
      /\ b.lease = (IF t = "EventLeaseClosed" THEN end ELSE a.lease)
      /\ b.bid = (IF t = "EventBidClosed" THEN "closed" ELSE a.bid)
      /\ b.version = a.version
  BY ClosedFields
<1> HIDE DEF a, b, h
<1>5. Alike(b, h)
  <2>1. /\ E!Told(b).deployment = E!Told(h).deployment /\ E!Told(b).bid = E!Told(h).bid
        /\ E!Told(b).lease = E!Told(h).lease /\ E!Told(b).version = E!Told(h).version
        /\ E!Told(b) \in State /\ E!Told(h) \in State
    BY <1>2, <1>3, <1>4, ToldFields DEF LeaseEnds
  <2> QED
    BY <2>1, SameState DEF Alike
<1> QED
  BY <1>1, <1>5 DEF a, b, h

(* Closing nothing changes nothing. *)
LEMMA ClosedNone == ASSUME NEW c \in State, NEW end PROVE E!Closed(c, {}, end) = c
BY Zenon DEF E!Closed, State

(* A block of closings. *)
LEMMA ManyEvents ==
    ASSUME evChain \in State, NEW types \in Seq(ClosingType), types # << >>,
           NEW end \in LeaseEnds
    PROVE  /\ Makes(E!Closings(types, end))
           /\ End(evChain, E!Closings(types, end))
                = E!Closed(evChain, {types[j] : j \in 1..Len(types)}, end)
<1> DEFINE q == E!Closings(types, end)
           T(i) == {types[j] : j \in 1..i}
<1>1. Len(types) \in Nat /\ Len(types) > 0
  OBVIOUS
<1>2. q = [i \in 1..Len(types) |-> E!Event(types[i], E!Closed(evChain, T(i), end))]
  BY DEF E!Closings
<1>3. ASSUME NEW i \in 1..Len(types)
      PROVE  E!Event(types[i], E!Closed(evChain, T(i), end)) \in EventSet
  <2> DEFINE c == E!Closed(evChain, T(i), end)
             e == E!Event(types[i], c)
  <2>1. types[i] \in ClosingType /\ types[i] \in T(i)
    BY <1>1
  <2>2. c \in State
    BY ClosedFacts
  <2>3. /\ types[i] = "EventDeploymentClosed" => c.deployment = "closed"
        /\ types[i] = "EventLeaseClosed" => c.lease \in LeaseEnds
        /\ types[i] = "EventBidClosed" => c.bid = "closed"
    BY <2>1, ClosedFields
  <2> HIDE DEF c, T
  <2>4. e \in [type : EventType, after : State]
    BY <2>1, <2>2 DEF E!Event, EventType, ClosingType
  <2>5. e.type = types[i] /\ e.after = c
    BY DEF E!Event
  <2>6. Says(e)
    BY <2>1, <2>3, <2>5 DEF Says, ClosingType, LeaseEnds
  <2> QED
    BY <2>4, <2>6 DEF EventSet, c
<1> HIDE DEF q
<1>4. q \in Seq(EventSet) /\ q # << >> /\ Len(q) = Len(types)
  BY <1>1, <1>2, <1>3
<1>5. \A i \in 1..Len(q) : /\ q[i] \in EventSet
                           /\ q[i].type = types[i]
                           /\ q[i].after = E!Closed(evChain, T(i), end)
  BY <1>2, <1>3, <1>4 DEF E!Event
<1>6. Sorted(evChain, q)
  <2>1. ASSUME NEW i \in 1..Len(q), NEW j \in 1..Len(q), i <= j PROVE T(i) \subseteq T(j)
    BY <1>1, <1>4, <2>1
  <2> HIDE DEF T
  <2>2. \A i \in 1..Len(q) : Upto(evChain, q[i].after)
    BY <1>5, ClosedFacts
  <2>3. \A i, j \in 1..Len(q) : i <= j => Upto(q[i].after, q[j].after)
    BY <1>5, <2>1, ClosedFacts
  <2> QED
    BY <1>5, <2>2, <2>3 DEF Sorted
<1>7. Linked(evChain, q)
  <2>1. Alike(q[1].after, Apply(evChain, q[1]))
    <3>1. T(1) = {} \cup {types[1]} /\ types[1] \in ClosingType /\ 1 \in 1..Len(q)
      BY <1>1, <1>4
    <3> HIDE DEF T
    <3>2. q[1].after = E!Closed(evChain, {} \cup {types[1]}, end) /\ q[1] \in EventSet
          /\ q[1].type = types[1]
      BY <1>5, <3>1, Zenon
    <3>3. Alike(E!Closed(evChain, {} \cup {types[1]}, end),
                Apply(E!Closed(evChain, {}, end), q[1]))
      BY <3>1, <3>2, ClosedApply, Zenon
    <3> QED
      BY <3>2, <3>3, ClosedNone, Zenon
  <2>2. ASSUME NEW i \in 1..(Len(q) - 1) PROVE Alike(q[i + 1].after, Apply(q[i].after, q[i + 1]))
    <3>1. /\ T(i + 1) = T(i) \cup {types[i + 1]} /\ types[i + 1] \in ClosingType
          /\ i \in 1..Len(q) /\ i + 1 \in 1..Len(q)
      BY <1>1, <1>4
    <3> HIDE DEF T
    <3> QED
      BY <1>5, <3>1, ClosedApply
  <2> QED
    BY <2>1, <2>2 DEF Linked
<1>8. End(evChain, q) = E!Closed(evChain, T(Len(types)), end)
  <2>1. Len(q) \in 1..Len(q)
    BY <1>1, <1>4
  <2> QED
    BY <1>4, <1>5, <2>1 DEF End
<1> QED
  BY <1>4, <1>6, <1>7, <1>8 DEF Makes, q

(* A lease is of a bid that has been matched. *)
LeaseOfMatched(c) == c.bid \in {"none", "open"} => c.lease = "none"

(* The elements of a concatenation. *)
LEMMA ConcatFacts ==
    ASSUME NEW A, NEW q \in Seq(A), NEW r \in Seq(A)
    PROVE  /\ q \o r \in Seq(A) /\ Len(q) \in Nat /\ Len(r) \in Nat
           /\ Len(q \o r) = Len(q) + Len(r)
           /\ \A i \in 1..Len(q \o r) : (q \o r)[i] = IF i <= Len(q) THEN q[i] ELSE r[i - Len(q)]
OBVIOUS

(* A place of a concatenation is a place of one of the two. *)
LEMMA ConcatPlace ==
    ASSUME NEW A, NEW q \in Seq(A), NEW r \in Seq(A), NEW i \in 1..Len(q \o r)
    PROVE  \/ i \in 1..Len(q) /\ (q \o r)[i] = q[i]
           \/ i - Len(q) \in 1..Len(r) /\ (q \o r)[i] = r[i - Len(q)]
  BY ConcatFacts

(* Only a lease that is active is closed. *)
LEMMA LeaseEndFacts ==
    ASSUME NEW c \in State
    PROVE  /\ E!LeaseEnd(c) \in Seq(ClosingType)
           /\ <<"EventDeploymentClosed">> \o E!LeaseEnd(c) \in Seq(ClosingType)
           /\ <<"EventDeploymentClosed">> \o E!LeaseEnd(c) # << >>
           /\ c.lease # "active" =>
                /\ \A i \in 1..Len(E!LeaseEnd(c)) : E!LeaseEnd(c)[i] # "EventLeaseClosed"
                /\ LET q == <<"EventDeploymentClosed">> \o E!LeaseEnd(c)
                   IN  \A i \in 1..Len(q) : q[i] # "EventLeaseClosed"
<1> DEFINE l == IF c.lease = "active" THEN <<"EventLeaseClosed">> ELSE << >>
           b == IF c.bid \in {"open", "matched"} THEN <<"EventBidClosed">> ELSE << >>
           d == <<"EventDeploymentClosed">>
<1>1. E!LeaseEnd(c) = l \o b
  BY DEF E!LeaseEnd
<1>2. l \in Seq(ClosingType) /\ b \in Seq(ClosingType) /\ d \in Seq(ClosingType) /\ Len(d) = 1
      /\ d[1] = "EventDeploymentClosed"
  <2>1. \A x \in ClosingType : <<x>> \in Seq(ClosingType)
    OBVIOUS
  <2>2. << >> \in Seq(ClosingType)
    OBVIOUS
  <2>3. {"EventDeploymentClosed", "EventLeaseClosed", "EventBidClosed"} \subseteq ClosingType
    BY DEF ClosingType
  <2>4. l \in Seq(ClosingType)
    BY <2>1, <2>2, <2>3
  <2>5. b \in Seq(ClosingType)
    BY <2>1, <2>2, <2>3
  <2>6. d \in Seq(ClosingType)
    BY <2>1, <2>3
  <2> QED
    BY <2>4, <2>5, <2>6
<1>3. c.lease # "active" => Len(l) = 0
  OBVIOUS
<1>4. \A i \in 1..Len(b) : b[i] = "EventBidClosed"
  OBVIOUS
<1> HIDE DEF l, b, d
<1>5. /\ l \o b \in Seq(ClosingType) /\ Len(l \o b) = Len(l) + Len(b)
      /\ \A i \in 1..Len(l \o b) : (l \o b)[i] = IF i <= Len(l) THEN l[i] ELSE b[i - Len(l)]
      /\ Len(l) \in Nat /\ Len(b) \in Nat
  BY <1>2
<1>6. ASSUME c.lease # "active", NEW i \in 1..Len(l \o b) PROVE (l \o b)[i] # "EventLeaseClosed"
  <2>1. (l \o b)[i] = b[i] /\ i \in 1..Len(b)
    BY <1>3, <1>5, <1>6
  <2> QED
    BY <1>4, <2>1
<1>7. LET q == d \o (l \o b)
      IN  /\ q \in Seq(ClosingType) /\ q # << >> /\ Len(q) = 1 + Len(l \o b)
          /\ \A i \in 1..Len(q) :
                q[i] = IF i <= 1 THEN "EventDeploymentClosed" ELSE (l \o b)[i - 1]
  <2> DEFINE r == l \o b
             q == d \o r
  <2>1. r \in Seq(ClosingType)
    BY <1>5
  <2> HIDE DEF r
  <2>2. /\ q \in Seq(ClosingType) /\ Len(q) = Len(d) + Len(r)
        /\ \A i \in 1..Len(q) : q[i] = IF i <= Len(d) THEN d[i] ELSE r[i - Len(d)]
    BY <1>2, <2>1, ConcatFacts, Zenon
  <2>3. Len(q) \in Nat /\ Len(q) > 0
    BY <1>2, <2>1, <2>2, ConcatFacts
  <2> HIDE DEF q
  <2>4. \A i \in 1..Len(q) : q[i] = IF i <= 1 THEN "EventDeploymentClosed" ELSE r[i - 1]
    BY <1>2, <2>2, <2>3
  <2>5. q # << >>
    BY <2>2, <2>3
  <2> QED
    BY <1>2, <2>2, <2>4, <2>5 DEF q, r
<1>8. ASSUME c.lease # "active", NEW i \in 1..Len(d \o (l \o b))
      PROVE  (d \o (l \o b))[i] # "EventLeaseClosed"
  <2>1. CASE i <= 1
    BY <1>7, <2>1
  <2>2. CASE ~(i <= 1)
    <3>1. (d \o (l \o b))[i] = (l \o b)[i - 1] /\ i - 1 \in 1..Len(l \o b)
      BY <1>5, <1>7, <2>2
    <3> QED
      BY <1>6, <1>8, <3>1
  <2> QED
    BY <2>1, <2>2
<1> QED
  BY <1>1, <1>5, <1>6, <1>7, <1>8 DEF d

(* A block of closings, for the closings the chain makes. *)
LEMMA ClosingsMake ==
    ASSUME evChain \in State, LeaseOfMatched(evChain),
           NEW types \in Seq(ClosingType), types # << >>, NEW end \in LeaseEnds,
           evChain.lease # "active" => \A i \in 1..Len(types) : types[i] # "EventLeaseClosed"
    PROVE  /\ Makes(E!Closings(types, end))
           /\ LeaseOfMatched(End(evChain, E!Closings(types, end)))
<1> DEFINE T == {types[j] : j \in 1..Len(types)}
<1>1. Makes(E!Closings(types, end)) /\ End(evChain, E!Closings(types, end)) = E!Closed(evChain, T, end)
  BY ManyEvents
<1>2. evChain.lease # "active" => "EventLeaseClosed" \notin T
  OBVIOUS
<1> HIDE DEF T
<1>3. LeaseOfMatched(E!Closed(evChain, T, end))
  BY <1>2, ClosedFields DEF LeaseOfMatched
<1> QED
  BY <1>1, <1>3

(* Whatever the chain does makes a block of events in order. *)
LEMMA BlockMakes ==
    ASSUME evChain \in State, LeaseOfMatched(evChain), E!Block
    PROVE  \E events : /\ Makes(events) /\ LeaseOfMatched(End(evChain, events))
                       /\ E!Emit(events)
<1>1. ASSUME evChain.deployment = "none",
             E!Emit(<<E!Event("EventDeploymentCreated",
                              [evChain EXCEPT !.deployment = "active", !.version = 1])>>)
      PROVE  \E events : /\ Makes(events) /\ LeaseOfMatched(End(evChain, events))
                         /\ E!Emit(events)
  <2> DEFINE c == [evChain EXCEPT !.deployment = "active", !.version = 1]
             type == "EventDeploymentCreated"
  <2>1. c \in State /\ Upto(evChain, c) /\ LeaseOfMatched(c) /\ c.deployment = "active"
    BY <1>1, Zenon DEF State, Upto, Reaches, LeaseOfMatched
  <2>2. type \in EventType /\ Says(E!Event(type, c)) /\ E!Event(type, c) \in EventSet
    BY <2>1, Zenon DEF EventType, Says, E!Event, EventSet
  <2>3. c = Apply(evChain, E!Event(type, c))
    <3> DEFINE e == E!Event(type, c)
    <3>1. e.type = type /\ e.after = c /\ c.version = 1
      BY DEF E!Event, State
    <3>2. Apply(evChain, e) = [evChain EXCEPT !.deployment = "active", !.version = e.after.version]
      BY <2>2, <3>1, HandleCases, Zenon DEF Apply, E!handleDeploymentCreated
    <3> QED
      BY <3>1, <3>2, Zenon
  <2> HIDE DEF c
  <2> QED
    BY <1>1, <2>1, <2>2, <2>3, OneEvent DEF c
<1>2. ASSUME evChain.deployment = "active",
             E!Emit(<<E!Event("EventDeploymentUpdated", [evChain EXCEPT !.version = @ + 1])>>)
      PROVE  \E events : /\ Makes(events) /\ LeaseOfMatched(End(evChain, events))
                         /\ E!Emit(events)
  <2> DEFINE c == [evChain EXCEPT !.version = @ + 1]
             type == "EventDeploymentUpdated"
  <2>1. c \in State /\ Upto(evChain, c) /\ LeaseOfMatched(c) /\ c.deployment = "active"
    BY <1>2 DEF State, Upto, Reaches, LeaseOfMatched
  <2>2. type \in EventType /\ Says(E!Event(type, c)) /\ E!Event(type, c) \in EventSet
    BY <2>1, Zenon DEF EventType, Says, E!Event, EventSet
  <2>3. c = Apply(evChain, E!Event(type, c))
    <3> DEFINE e == E!Event(type, c)
               h == [evChain EXCEPT !.deployment = IF @ = "none" THEN "active" ELSE @,
                                    !.version = e.after.version]
    <3>1. Apply(evChain, e) = h /\ e.after = c
      BY <2>2, HandleCases, Zenon DEF Apply, E!handleDeploymentUpdated, E!Event
    <3>2. /\ h \in State /\ h.version = c.version /\ h.deployment = c.deployment
          /\ h.bid = c.bid /\ h.lease = c.lease
      BY <1>2, <2>1, <3>1, Zenon DEF State
    <3> HIDE DEF c, h, e
    <3> QED
      BY <2>1, <3>1, <3>2, SameState DEF e
  <2> HIDE DEF c
  <2> QED
    BY <1>2, <2>1, <2>2, <2>3, OneEvent DEF c
<1>3. ASSUME evChain.bid = "none",
             E!Emit(<<E!Event("EventBidCreated", [evChain EXCEPT !.bid = "open"])>>)
      PROVE  \E events : /\ Makes(events) /\ LeaseOfMatched(End(evChain, events))
                         /\ E!Emit(events)
  <2> DEFINE c == [evChain EXCEPT !.bid = "open"]
             type == "EventBidCreated"
  <2>1. c \in State /\ Upto(evChain, c) /\ LeaseOfMatched(c) /\ c.bid = "open"
    BY <1>3 DEF State, Upto, Reaches, LeaseOfMatched
  <2>2. type \in EventType /\ Says(E!Event(type, c)) /\ E!Event(type, c) \in EventSet
    BY <2>1, Zenon DEF EventType, Says, E!Event, EventSet
  <2>3. c = Apply(evChain, E!Event(type, c))
    BY <2>2, HandleCases DEF Apply, E!handleBidCreated, E!Event, State
  <2> HIDE DEF c
  <2> QED
    BY <1>3, <2>1, <2>2, <2>3, OneEvent DEF c
<1>4. ASSUME evChain.bid = "open",
             E!Emit(<<E!Event("EventLeaseCreated",
                              [evChain EXCEPT !.bid = "matched", !.lease = "active"])>>)
      PROVE  \E events : /\ Makes(events) /\ LeaseOfMatched(End(evChain, events))
                         /\ E!Emit(events)
  <2> DEFINE c == [evChain EXCEPT !.bid = "matched", !.lease = "active"]
             type == "EventLeaseCreated"
  <2>1. /\ c \in State /\ Upto(evChain, c) /\ LeaseOfMatched(c)
        /\ c.bid = "matched" /\ c.lease = "active"
    BY <1>4, Zenon DEF State, Upto, Reaches, LeaseOfMatched
  <2>2. type \in EventType /\ Says(E!Event(type, c)) /\ E!Event(type, c) \in EventSet
    BY <2>1, Zenon DEF EventType, Says, E!Event, EventSet
  <2>3. c = Apply(evChain, E!Event(type, c))
    <3> DEFINE e == E!Event(type, c)
               h == [evChain EXCEPT !.lease = "active"]
    <3>1. E!HandleEvent(evChain, e) = h /\ e.type = "EventLeaseCreated"
      BY <2>2, HandleCases DEF E!handleLeaseCreated, E!Event
    <3>2. h.bid = "open"
      BY <1>4 DEF State
    <3>3. Apply(evChain, e) = [h EXCEPT !.bid = "matched"]
      BY <3>1, <3>2, Zenon DEF Apply, E!matchBid
    <3>4. c = [h EXCEPT !.bid = "matched"]
      BY Zenon DEF State
    <3> QED
      BY <3>3, <3>4
  <2> HIDE DEF c
  <2> QED
    BY <1>4, <2>1, <2>2, <2>3, OneEvent DEF c
<1>5. CASE E!LeaseEnd(evChain) # << >> /\ E!Emit(E!Closings(E!LeaseEnd(evChain), "closed"))
  BY <1>5, LeaseEndFacts, ClosingsMake DEF LeaseEnds
<1>6. CASE \E end \in {"closed", "insufficient_funds"} :
             E!Emit(E!Closings(<<"EventDeploymentClosed">> \o E!LeaseEnd(evChain), end))
  BY <1>6, LeaseEndFacts, ClosingsMake, Zenon DEF LeaseEnds
<1> QED
  BY <1>1, <1>2, <1>3, <1>4, <1>5, <1>6 DEF E!Block

(* Blocks in the order of the chain, after the state s. *)
Blocks == Seq(EventSet) \ {<< >>}

Last(q) == q[Len(q)].after

Before(s, hs, j) == IF j = 1 THEN s ELSE Last(hs[j - 1])

Ordered(s, hs) == \A j \in 1..Len(hs) : Sorted(Before(s, hs, j), hs[j])

Chained(s, hs) == \A j \in 1..Len(hs) : Linked(Before(s, hs, j), hs[j])

Final(s, hs) == IF hs = << >> THEN s ELSE Last(hs[Len(hs)])

(* The elements of a tail. *)
LEMMA TailFacts ==
    ASSUME NEW A, NEW q \in Seq(A), q # << >>
    PROVE  /\ Tail(q) \in Seq(A) /\ Len(q) \in Nat /\ Len(q) > 0 /\ Len(Tail(q)) = Len(q) - 1
           /\ \A i \in 1..Len(Tail(q)) : Tail(q)[i] = q[i + 1] /\ i + 1 \in 1..Len(q)
           /\ Head(q) = q[1] /\ q[1] \in A
OBVIOUS

(* The elements of a sequence with one more. *)
LEMMA AppendFacts ==
    ASSUME NEW A, NEW q \in Seq(A), NEW x \in A
    PROVE  /\ Append(q, x) \in Seq(A) /\ Len(q) \in Nat /\ Len(Append(q, x)) = Len(q) + 1
           /\ \A i \in 1..Len(q) : Append(q, x)[i] = q[i]
           /\ Append(q, x)[Len(q) + 1] = x
           /\ Append(q, x) # << >>
OBVIOUS

(* Taking the first block moves the start to its end. *)
LEMMA BlocksTail ==
    ASSUME NEW s, NEW hs \in Seq(Blocks), hs # << >>
    PROVE  /\ Ordered(s, hs) => Sorted(s, hs[1]) /\ Ordered(Last(hs[1]), Tail(hs))
           /\ Chained(s, hs) => Linked(s, hs[1]) /\ Chained(Last(hs[1]), Tail(hs))
           /\ Final(Last(hs[1]), Tail(hs)) = Final(s, hs)
<1> DEFINE t == Tail(hs)
<1>1. /\ t \in Seq(Blocks) /\ Len(hs) \in Nat /\ Len(hs) > 0 /\ Len(t) = Len(hs) - 1
      /\ \A i \in 1..Len(t) : t[i] = hs[i + 1] /\ i + 1 \in 1..Len(hs)
  BY TailFacts
<1>2. 1 \in 1..Len(hs) /\ Before(s, hs, 1) = s
  BY <1>1 DEF Before
<1> HIDE DEF t
<1>3. ASSUME NEW j \in 1..Len(t) PROVE Before(Last(hs[1]), t, j) = Before(s, hs, j + 1)
  <2>1. CASE j = 1
    BY <1>1, <2>1 DEF Before
  <2>2. CASE j # 1
    <3>1. j - 1 \in 1..Len(t) /\ j + 1 # 1 /\ (j - 1) + 1 = j /\ (j + 1) - 1 = j
      BY <1>1, <2>2
    <3> QED
      BY <1>1, <2>2, <3>1 DEF Before
  <2> QED
    BY <2>1, <2>2
<1>4. Ordered(s, hs) => Sorted(s, hs[1]) /\ Ordered(Last(hs[1]), t)
  BY <1>1, <1>2, <1>3 DEF Ordered
<1>5. Chained(s, hs) => Linked(s, hs[1]) /\ Chained(Last(hs[1]), t)
  BY <1>1, <1>2, <1>3 DEF Chained
<1>6. Final(Last(hs[1]), t) = Final(s, hs)
  <2>1. CASE Len(hs) = 1
    <3>1. t = << >>
      BY <1>1, <2>1
    <3> QED
      BY <2>1, <3>1 DEF Final
  <2>2. CASE Len(hs) # 1
    <3>1. t # << >> /\ t[Len(t)] = hs[Len(hs)]
      BY <1>1, <2>2
    <3> QED
      BY <3>1 DEF Final
  <2> QED
    BY <2>1, <2>2
<1> QED
  BY <1>4, <1>5, <1>6 DEF t

(* A new block comes after the last. *)
LEMMA BlocksAppend ==
    ASSUME NEW s, NEW hs \in Seq(Blocks), NEW b \in Blocks
    PROVE  /\ Ordered(s, hs) /\ Sorted(Final(s, hs), b) => Ordered(s, Append(hs, b))
           /\ Chained(s, hs) /\ Linked(Final(s, hs), b) => Chained(s, Append(hs, b))
           /\ Final(s, Append(hs, b)) = Last(b)
<1> DEFINE a == Append(hs, b)
<1>1. /\ a \in Seq(Blocks) /\ Len(hs) \in Nat /\ Len(a) = Len(hs) + 1 /\ a # << >>
      /\ \A i \in 1..Len(hs) : a[i] = hs[i]
      /\ a[Len(hs) + 1] = b
  BY AppendFacts
<1>2. hs = << >> <=> Len(hs) = 0
  OBVIOUS
<1> HIDE DEF a
<1>3. \A j \in 1..Len(hs) : Before(s, a, j) = Before(s, hs, j)
  BY <1>1 DEF Before
<1>4. Before(s, a, Len(hs) + 1) = Final(s, hs)
  <2>1. CASE Len(hs) = 0
    BY <1>2, <2>1 DEF Before, Final
  <2>2. CASE Len(hs) # 0
    BY <1>1, <1>2, <2>2 DEF Before, Final
  <2> QED
    BY <2>1, <2>2
<1>5. \A j \in 1..Len(a) : j \in 1..Len(hs) \/ j = Len(hs) + 1
  BY <1>1
<1>6. Ordered(s, hs) /\ Sorted(Final(s, hs), b) => Ordered(s, a)
  BY <1>1, <1>3, <1>4, <1>5 DEF Ordered
<1>7. Chained(s, hs) /\ Linked(Final(s, hs), b) => Chained(s, a)
  BY <1>1, <1>3, <1>4, <1>5 DEF Chained
<1>8. Final(s, a) = Last(b)
  BY <1>1 DEF Final
<1> QED
  BY <1>6, <1>7, <1>8 DEF a

(* What is in order after a state is in order after an earlier one. *)
LEMMA SortedLower ==
    ASSUME NEW s, NEW t, Upto(t, s), NEW q, Sorted(s, q)
    PROVE  Sorted(t, q)
BY UptoOrder DEF Sorted

(* The same for blocks. *)
LEMMA BlocksLower ==
    ASSUME NEW s, NEW t, Upto(t, s), NEW hs, Ordered(s, hs)
    PROVE  Ordered(t, hs)
<1> SUFFICES ASSUME NEW j \in 1..Len(hs) PROVE Sorted(Before(t, hs, j), hs[j])
  BY DEF Ordered
<1>1. Upto(Before(t, hs, j), Before(s, hs, j))
  BY UptoOrder DEF Before
<1> QED
  BY <1>1, SortedLower DEF Ordered

(* The end of a run of events is not before its start. *)
LEMMA SortedEnd ==
    ASSUME NEW s, NEW q \in Seq(EventSet), Sorted(s, q)
    PROVE  Upto(s, End(s, q)) /\ (q # << >> => Last(q) = End(s, q))
<1>1. CASE q = << >>
  BY <1>1, UptoOrder DEF End
<1>2. CASE q # << >>
  <2>1. Len(q) \in Nat /\ Len(q) # 0
    BY <1>2
  <2>2. Len(q) \in 1..Len(q)
    BY <2>1
  <2>3. Last(q) = q[Len(q)].after /\ End(s, q) = q[Len(q)].after
    BY <1>2 DEF Last, End
  <2>4. Upto(s, q[Len(q)].after)
    BY <2>2 DEF Sorted
  <2> QED
    BY <2>3, <2>4
<1> QED
  BY <1>1, <1>2

(* What applying an event makes of each field. *)
LEMMA ApplyFields ==
    ASSUME NEW a \in State, NEW e \in EventSet
    PROVE  LET h == Apply(a, e)
               on == e.type \in {"EventDeploymentCreated", "EventDeploymentUpdated"}
           IN  /\ h \in State
               /\ h.version = (IF on THEN e.after.version ELSE a.version)
               /\ h.deployment = (IF e.type = "EventDeploymentCreated" THEN "active"
                                  ELSE IF e.type = "EventDeploymentClosed" THEN "closed"
                                  ELSE IF on /\ a.deployment = "none" THEN "active"
                                  ELSE a.deployment)
               /\ h.bid = (IF e.type = "EventBidCreated" THEN "open"
                           ELSE IF e.type = "EventBidClosed" THEN "closed"
                           ELSE IF e.type = "EventLeaseCreated" /\ a.bid # "none" THEN "matched"
                           ELSE a.bid)
               /\ h.lease = (IF e.type = "EventLeaseCreated" THEN "active"
                             ELSE IF e.type = "EventLeaseClosed" THEN "closed"
                             ELSE a.lease)
<1>1. e.type \in EventType /\ e.after.version \in Nat
  BY DEF EventSet, State
<1>2. CASE e.type = "EventDeploymentCreated"
  <2>1. Apply(a, e) = [a EXCEPT !.deployment = "active", !.version = e.after.version]
    BY <1>2, HandleCases, Zenon DEF Apply, E!handleDeploymentCreated
  <2> QED
    BY <1>1, <1>2, <2>1, Zenon DEF State
<1>3. CASE e.type = "EventDeploymentUpdated"
  <2>1. Apply(a, e) = [a EXCEPT !.deployment = IF @ = "none" THEN "active" ELSE @,
                                !.version = e.after.version]
    BY <1>3, HandleCases, Zenon DEF Apply, E!handleDeploymentUpdated
  <2> QED
    BY <1>1, <1>3, <2>1, Zenon DEF State
<1>4. CASE e.type = "EventDeploymentClosed"
  <2>1. Apply(a, e) = [a EXCEPT !.deployment = "closed"]
    BY <1>4, HandleCases, Zenon DEF Apply, E!handleDeploymentClosed
  <2> QED
    BY <1>4, <2>1 DEF State
<1>5. CASE e.type = "EventBidCreated"
  <2>1. Apply(a, e) = [a EXCEPT !.bid = "open"]
    BY <1>5, HandleCases, Zenon DEF Apply, E!handleBidCreated
  <2> QED
    BY <1>5, <2>1 DEF State
<1>6. CASE e.type = "EventBidClosed"
  <2>1. Apply(a, e) = [a EXCEPT !.bid = "closed"]
    BY <1>6, HandleCases, Zenon DEF Apply, E!handleBidClosed
  <2> QED
    BY <1>6, <2>1 DEF State
<1>7. CASE e.type = "EventLeaseCreated"
  <2>1. Apply(a, e) = E!matchBid([a EXCEPT !.lease = "active"])
    BY <1>7, HandleCases, Zenon DEF Apply, E!handleLeaseCreated
  <2> QED
    BY <1>7, <2>1, Zenon DEF State, E!matchBid
<1>8. CASE e.type = "EventLeaseClosed"
  <2>1. Apply(a, e) = [a EXCEPT !.lease = "closed"]
    BY <1>8, HandleCases, Zenon DEF Apply, E!handleLeaseClosed
  <2> QED
    BY <1>8, <2>1 DEF State
<1> QED
  BY <1>1, <1>2, <1>3, <1>4, <1>5, <1>6, <1>7, <1>8 DEF EventType

(* States that are alike in their fields are alike. *)
LEMMA AlikeFields ==
    ASSUME NEW a \in State, NEW b \in State
    PROVE  Alike(a, b) <=>
             /\ a.deployment = b.deployment /\ a.version = b.version
             /\ a.bid = b.bid \/ {a.bid, b.bid} = {"lost", "open"}
             /\ a.lease = b.lease \/ {a.lease, b.lease} = {"insufficient_funds", "closed"}
<1> DEFINE x == E!Told(a)
           y == E!Told(b)
<1>1. /\ x \in State /\ y \in State
      /\ x.deployment = a.deployment /\ x.version = a.version
      /\ x.bid = (IF a.bid = "lost" THEN "open" ELSE a.bid)
      /\ x.lease = (IF a.lease = "insufficient_funds" THEN "closed" ELSE a.lease)
      /\ y.deployment = b.deployment /\ y.version = b.version
      /\ y.bid = (IF b.bid = "lost" THEN "open" ELSE b.bid)
      /\ y.lease = (IF b.lease = "insufficient_funds" THEN "closed" ELSE b.lease)
  BY ToldFields
<1>2. Alike(a, b) <=> x = y
  BY DEF Alike
<1> HIDE DEF x, y
<1>3. x = y <=> /\ x.deployment = y.deployment /\ x.version = y.version
                /\ x.bid = y.bid /\ x.lease = y.lease
  BY <1>1, SameState
<1>4. x.bid = y.bid <=> a.bid = b.bid \/ {a.bid, b.bid} = {"lost", "open"}
  BY <1>1
<1>5. x.lease = y.lease
        <=> a.lease = b.lease \/ {a.lease, b.lease} = {"insufficient_funds", "closed"}
  BY <1>1
<1> QED
  BY <1>1, <1>2, <1>3, <1>4, <1>5

(* Of states that are alike, an event makes states that are alike. *)
LEMMA ApplyAlike ==
    ASSUME NEW a \in State, NEW b \in State, Alike(a, b), NEW e \in EventSet
    PROVE  Alike(Apply(a, e), Apply(b, e))
<1> DEFINE g == Apply(a, e)
           h == Apply(b, e)
<1>1. /\ a.deployment = b.deployment /\ a.version = b.version
      /\ a.bid = b.bid \/ {a.bid, b.bid} = {"lost", "open"}
      /\ a.lease = b.lease \/ {a.lease, b.lease} = {"insufficient_funds", "closed"}
  BY AlikeFields
<1>2. g \in State /\ h \in State /\ g.deployment = h.deployment /\ g.version = h.version
  BY <1>1, ApplyFields
<1>3. g.bid = h.bid \/ (g.bid = a.bid /\ h.bid = b.bid)
  <2>1. g.bid = (IF e.type = "EventBidCreated" THEN "open"
                 ELSE IF e.type = "EventBidClosed" THEN "closed"
                 ELSE IF e.type = "EventLeaseCreated" /\ a.bid # "none" THEN "matched"
                 ELSE a.bid)
    BY ApplyFields, Zenon
  <2>2. h.bid = (IF e.type = "EventBidCreated" THEN "open"
                 ELSE IF e.type = "EventBidClosed" THEN "closed"
                 ELSE IF e.type = "EventLeaseCreated" /\ b.bid # "none" THEN "matched"
                 ELSE b.bid)
    BY ApplyFields, Zenon
  <2>3. a.bid = "none" <=> b.bid = "none"
    BY <1>1
  <2> HIDE DEF g, h
  <2> QED
    BY <2>1, <2>2, <2>3
<1>4. g.lease = h.lease \/ (g.lease = a.lease /\ h.lease = b.lease)
  BY <1>1, ApplyFields
<1> HIDE DEF g, h
<1>5. Alike(g, h)
  BY <1>1, <1>2, <1>3, <1>4, AlikeFields
<1> QED
  BY <1>5 DEF g, h

(* What follows from a state follows from one that is alike. *)
LEMMA LinkedAlike ==
    ASSUME NEW a \in State, NEW b \in State, Alike(a, b), NEW q \in Seq(EventSet), Linked(a, q)
    PROVE  /\ Linked(b, q) /\ Alike(End(a, q), End(b, q))
           /\ End(a, q) \in State /\ End(b, q) \in State
<1>1. CASE q = << >>
  BY <1>1 DEF Linked, End
<1>2. CASE q # << >>
  <2>1. q[1] \in EventSet /\ q[Len(q)] \in EventSet
    BY <1>2
  <2>2. Alike(q[1].after, Apply(b, q[1]))
    BY <1>2, <2>1, ApplyAlike DEF Linked, Alike
  <2>3. End(a, q) = q[Len(q)].after /\ End(b, q) = q[Len(q)].after
    BY <1>2 DEF End
  <2>4. Linked(b, q)
    BY <2>2 DEF Linked
  <2> QED
    BY <2>1, <2>3, <2>4 DEF EventSet, Alike
<1> QED
  BY <1>1, <1>2

(* The same for blocks. *)
LEMMA ChainedAlike ==
    ASSUME NEW a \in State, NEW b \in State, Alike(a, b), NEW hs \in Seq(Blocks), Chained(a, hs)
    PROVE  /\ Chained(b, hs) /\ Alike(Final(a, hs), Final(b, hs))
           /\ Final(a, hs) \in State /\ Final(b, hs) \in State
<1>1. CASE hs = << >>
  BY <1>1 DEF Chained, Final
<1>2. CASE hs # << >>
  <2>1. /\ 1 \in 1..Len(hs) /\ hs[1] \in Blocks
        /\ Len(hs) \in 1..Len(hs) /\ hs[Len(hs)] \in Blocks
    BY <1>2
  <2>2. Linked(b, hs[1])
    <3>1. hs[1] \in Seq(EventSet)
      BY <2>1 DEF Blocks
    <3>2. Linked(a, hs[1])
      BY <2>1 DEF Chained, Before
    <3> QED
      BY <3>1, <3>2, LinkedAlike
  <2>3. ASSUME NEW j \in 1..Len(hs) PROVE Linked(Before(b, hs, j), hs[j])
    <3>1. CASE j = 1
      BY <2>2, <3>1 DEF Before
    <3>2. CASE j # 1
      BY <3>2 DEF Chained, Before
    <3> QED
      BY <3>1, <3>2
  <2>4. Last(hs[Len(hs)]) \in State
    <3> DEFINE q == hs[Len(hs)]
    <3>1. q \in Seq(EventSet) /\ q # << >>
      BY <2>1 DEF Blocks
    <3> HIDE DEF q
    <3>2. q[Len(q)] \in EventSet
      BY <3>1
    <3> QED
      BY <3>2 DEF Last, EventSet, q
  <2>5. Final(a, hs) = Last(hs[Len(hs)]) /\ Final(b, hs) = Last(hs[Len(hs)])
    BY <1>2 DEF Final
  <2> QED
    BY <2>3, <2>4, <2>5 DEF Chained, Alike
<1> QED
  BY <1>1, <1>2

(* The state the pending events start from. *)
Floor == IF bridge.at \in {"match", "refresh"} THEN bridge.event.after ELSE store

EventTypes ==
    /\ evChain \in State /\ LeaseOfMatched(evChain)
    /\ store \in State /\ seen \in State
    /\ lost \in BOOLEAN
    /\ bus \in Seq(EventSet) /\ headers \in Seq(Blocks)
    /\ bridge = [at |-> bridge.at, event |-> bridge.event]
    /\ bridge.at \in {"off", "wait", "match", "refresh"}
    /\ bridge.at \in {"match", "refresh"} => bridge.event \in EventSet
    /\ bridge.at = "match" => bridge.event.type = "EventLeaseCreated"
    /\ svc = "off" => headers = << >> /\ bus = << >> /\ bridge.at = "off"

(* The store, then the event in hand, the bus, the headers and the chain   *)
(* are in order.                                                           *)
PendingOrder ==
    /\ Upto(store, Floor)
    /\ Sorted(Floor, bus)
    /\ Ordered(End(Floor, bus), headers)

(* None is ahead of the chain. *)
PendingMade ==
    /\ Upto(Floor, evChain)
    /\ \A i \in 1..Len(bus) : Upto(bus[i].after, evChain)
    /\ \A j \in 1..Len(headers) :
          \A i \in 1..Len(headers[j]) : Upto(headers[j][i].after, evChain)

(* When nothing was lost, the pending events lead from the store to the    *)
(* chain, as far as events tell.                                           *)
PendingReplay ==
    /\ bridge.at \in {"off", "wait"} => Alike(store, seen)
    /\ bridge.at = "match" => Alike(E!matchBid(store), Floor)
    /\ bridge.at = "refresh" => Alike(store, Floor)
    /\ Linked(Floor, bus)
    /\ Chained(End(Floor, bus), headers)
    /\ Alike(Final(End(Floor, bus), headers), evChain)

EInv == EventTypes /\ PendingOrder /\ PendingMade /\ (~lost => PendingReplay)

(* Nothing pending. *)
LEMMA EmptyFacts ==
    ASSUME NEW s
    PROVE  /\ Sorted(s, << >>) /\ Linked(s, << >>) /\ End(s, << >>) = s
           /\ Ordered(s, << >>) /\ Chained(s, << >>) /\ Final(s, << >>) = s
<1>1. Len(<< >>) = 0 /\ 1..0 = {} /\ 1..(0 - 1) = {}
  OBVIOUS
<1> QED
  BY <1>1 DEF Sorted, Linked, End, Ordered, Chained, Final

(* At first nothing is pending. *)
LEMMA InitEInv == E!Init => EInv
<1> SUFFICES ASSUME E!Init PROVE EInv
  OBVIOUS
<1>1. E!Absent \in State /\ LeaseOfMatched(E!Absent)
  BY DEF State, LeaseOfMatched, E!Absent
<1>2. Floor = E!Absent
  BY DEF E!Init, Floor, E!Waiting
<1>3. EventTypes
  <2>1. bus \in Seq(EventSet) /\ headers \in Seq(Blocks)
    BY DEF E!Init
  <2>2. bridge = [at |-> bridge.at, event |-> bridge.event] /\ bridge.at = "off"
    BY DEF E!Init, E!Waiting
  <2>3. evChain = E!Absent /\ store = E!Absent /\ seen = E!Absent /\ lost \in BOOLEAN
    BY Zenon DEF E!Init
  <2>4. headers = << >> /\ bus = << >>
    BY DEF E!Init
  <2> QED
    BY <1>1, <2>1, <2>2, <2>3, <2>4 DEF EventTypes
<1>4. PendingOrder
  BY <1>2, EmptyFacts, UptoOrder DEF E!Init, PendingOrder
<1>5. PendingMade
  BY <1>2, UptoOrder DEF E!Init, PendingMade
<1>6. PendingReplay
  BY <1>2, EmptyFacts DEF E!Init, PendingReplay, E!Waiting, Alike
<1> QED
  BY <1>3, <1>4, <1>5, <1>6 DEF EInv

(* The chain makes a block, which the service may not hear of. *)
LEMMA EmitEInv ==
    ASSUME EInv, NEW events, Makes(events), LeaseOfMatched(End(evChain, events)),
           E!Emit(events)
    PROVE  EInv'
<1> USE DEF EInv
<1>1. /\ events \in Blocks /\ events \in Seq(EventSet) /\ events # << >>
      /\ Sorted(evChain, events) /\ Linked(evChain, events)
  BY DEF Makes, Blocks
<1>2. /\ evChain' = Last(events) /\ evChain' = End(evChain, events)
      /\ Upto(evChain, evChain')
  BY <1>1, SortedEnd DEF E!Emit, Last, End
<1>3. evChain' \in State /\ \A i \in 1..Len(events) : Upto(events[i].after, evChain')
  <2>1. Len(events) \in 1..Len(events) /\ \A i \in 1..Len(events) : i <= Len(events)
    BY <1>1
  <2>2. events[Len(events)] \in EventSet
    BY <1>1, <2>1
  <2> QED
    BY <1>1, <1>2, <2>1, <2>2, Zenon DEF Last, Sorted, EventSet
<1>4. UNCHANGED <<svc, bus, bridge, store, seen>> /\ lost' = (lost \/ svc # "on")
      /\ headers' = IF svc = "on" THEN Append(headers, events) ELSE headers
  BY DEF E!Emit
<1>5. Floor' = Floor /\ End(Floor, bus)' = End(Floor, bus)
  BY <1>4 DEF Floor, End
<1> DEFINE f == End(Floor, bus)
<1>6. Upto(f, evChain) /\ Upto(Final(f, headers), evChain)
  <2>1. Upto(f, evChain)
    <3>1. bus # << >> => Len(bus) \in 1..Len(bus)
      BY SMTT(30) DEF EventTypes
    <3> QED
      BY <3>1 DEF End, PendingMade
  <2>2. CASE headers # << >>
    <3>1. /\ Len(headers) \in 1..Len(headers) /\ headers[Len(headers)] \in Blocks
      BY <2>2 DEF EventTypes
    <3>2. Len(headers[Len(headers)]) \in 1..Len(headers[Len(headers)])
      BY <3>1 DEF Blocks
    <3> QED
      BY <2>1, <2>2, <3>1, <3>2 DEF Final, Last, PendingMade
  <2> QED
    BY <2>1, <2>2 DEF Final
<1> HIDE DEF f
<1>7. EventTypes'
  <2>1. headers' \in Seq(Blocks)
    BY <1>1, <1>4, AppendFacts DEF EventTypes
  <2>2. lost' \in BOOLEAN
    BY <1>4 DEF EventTypes
  <2> QED
    BY <1>2, <1>3, <1>4, <2>1, <2>2 DEF EventTypes
<1>8. PendingOrder'
  <2>1. Sorted(Final(f, headers), events)
    BY <1>1, <1>6, SortedLower
  <2>2. Ordered(f, headers)
    BY DEF PendingOrder, f
  <2>3. Ordered(f, headers')
    BY <1>1, <1>4, <2>1, <2>2, BlocksAppend, Zenon DEF EventTypes
  <2> QED
    BY <1>4, <1>5, <2>3 DEF PendingOrder, f
<1>9. PendingMade'
  <2>1. \A c : Upto(c, evChain) => Upto(c, evChain')
    BY <1>2, UptoOrder
  <2>2. ASSUME NEW j \in 1..Len(headers'), NEW i \in 1..Len(headers'[j])
        PROVE  Upto(headers'[j][i].after, evChain')
    <3>1. CASE j \in 1..Len(headers)
      <4>1. headers'[j] = headers[j]
        BY <1>1, <1>4, <3>1, AppendFacts DEF EventTypes
      <4> QED
        BY <2>1, <2>2, <3>1, <4>1 DEF PendingMade
    <3>2. CASE j \notin 1..Len(headers)
      <4>1. headers'[j] = events
        BY <1>1, <1>4, <2>2, <3>2, AppendFacts DEF EventTypes
      <4> QED
        BY <1>3, <2>2, <4>1, Zenon
    <3> QED
      BY <3>1, <3>2, Zenon
  <2>3. \A i \in 1..Len(bus') : Upto(bus'[i].after, evChain')
    BY <1>4, <2>1, Zenon DEF PendingMade
  <2>4. Upto(Floor', evChain')
    BY <1>5, <2>1 DEF PendingMade
  <2> QED
    BY <2>2, <2>3, <2>4 DEF PendingMade
<1>10. ASSUME ~lost' PROVE PendingReplay'
  <2>1. svc = "on" /\ ~lost /\ headers' = Append(headers, events)
    BY <1>4, <1>10, Zenon DEF EventTypes
  <2>2. Alike(Final(f, headers), evChain) /\ Chained(f, headers) /\ f \in State
    <3>1. Floor \in State
      BY DEF Floor, EventTypes, EventSet
    <3>2. bus \in Seq(EventSet) /\ Linked(Floor, bus)
      BY <2>1 DEF EventTypes, PendingReplay
    <3>3. f \in State
      BY <3>1, <3>2, LinkedAlike DEF f, Alike
    <3> QED
      BY <2>1, <3>3 DEF PendingReplay, f
  <2>6. Linked(Final(f, headers), events)
    <3>1. Final(f, headers) \in State /\ evChain \in State
      BY <2>2, ChainedAlike DEF EventTypes, Alike
    <3>2. Alike(evChain, Final(f, headers))
      BY <2>2 DEF Alike
    <3> QED
      BY <1>1, <3>1, <3>2, LinkedAlike, Zenon
  <2>3. Chained(f, headers') /\ Alike(Final(f, headers'), evChain')
    <3>1. Chained(f, headers') /\ Final(f, headers') = evChain'
      BY <1>1, <1>2, <2>1, <2>2, <2>6, BlocksAppend, Zenon DEF EventTypes
    <3> QED
      BY <3>1 DEF Alike
  <2>4. Floor' = Floor /\ f = End(Floor, bus)'
    BY <1>5 DEF f
  <2>5. Linked(Floor, bus)' <=> Linked(Floor, bus)
    BY <1>4, <1>5 DEF Linked
  <2> QED
    BY <1>4, <2>1, <2>3, <2>4, <2>5 DEF PendingReplay
<1> QED
  BY <1>7, <1>8, <1>9, <1>10

(* No event tells that a bid lost. *)
LEMMA LostAlike ==
    ASSUME NEW c \in State, c.bid = "open"
    PROVE  LET d == [c EXCEPT !.bid = "lost"]
           IN  d \in State /\ Upto(c, d) /\ Alike(c, d) /\ LeaseOfMatched(d)
<1> DEFINE d == [c EXCEPT !.bid = "lost"]
<1>1. /\ d \in State /\ d.bid = "lost" /\ d.deployment = c.deployment /\ d.lease = c.lease
      /\ d.version = c.version
  BY Zenon DEF State
<1> HIDE DEF d
<1>2. Upto(c, d) /\ LeaseOfMatched(d)
  BY <1>1 DEF Upto, Reaches, LeaseOfMatched
<1>3. {c.bid, d.bid} = {"lost", "open"}
  BY <1>1
<1>4. Alike(c, d)
  BY <1>1, <1>3, AlikeFields
<1> QED
  BY <1>1, <1>2, <1>4 DEF d

(* A bid loses, and no event says so. *)
LEMMA BidLostEInv == ASSUME EInv, E!BidLost PROVE EInv'
<1> USE DEF EInv
<1>1. /\ UNCHANGED <<headers, svc, bus, bridge, store, seen, lost>> /\ evChain.bid = "open"
      /\ evChain' = [evChain EXCEPT !.bid = "lost"] /\ evChain \in State
  BY DEF E!BidLost, EventTypes
<1>2. evChain' \in State
  BY <1>1, LostAlike
<1>3. Upto(evChain, evChain') /\ Alike(evChain, evChain') /\ LeaseOfMatched(evChain')
  BY <1>1, LostAlike
<1>4. Floor' = Floor /\ End(Floor, bus)' = End(Floor, bus)
  BY <1>1 DEF Floor, End
<1>5. EventTypes'
  BY <1>1, <1>2, <1>3 DEF EventTypes
<1>6. PendingOrder'
  BY <1>1, <1>4 DEF PendingOrder
<1>7. PendingMade'
  <2>1. \A c : Upto(c, evChain) => Upto(c, evChain')
    BY <1>3, UptoOrder
  <2> QED
    BY <1>1, <1>4, <2>1, Zenon DEF PendingMade
<1>8. ~lost' => PendingReplay'
  <2>1. Alike(Final(End(Floor, bus), headers), evChain)
          => Alike(Final(End(Floor, bus), headers), evChain')
    BY <1>3 DEF Alike
  <2>2. Linked(Floor, bus)' <=> Linked(Floor, bus)
    BY <1>1, <1>4 DEF Linked
  <2> QED
    BY <1>1, <1>4, <2>1, <2>2 DEF PendingReplay
<1> QED
  BY <1>5, <1>6, <1>7, <1>8

(* Steps of the service and of the program that move no event. *)
LEMMA QuietEInv ==
    ASSUME EInv, E!NewService \/ E!SubscriptionClosed
    PROVE  EInv'
<1> USE DEF EInv
<1>1. UNCHANGED <<evChain, headers, bus, store, seen, lost>> /\ svc' # "off"
  BY DEF E!NewService, E!SubscriptionClosed
<1>2. bridge' = bridge \/ (bridge' = [at |-> "wait", event |-> << >>] /\ bridge.at = "off")
  BY DEF E!NewService, E!SubscriptionClosed, E!Waiting, EventTypes
<1>3. Floor' = Floor
  BY <1>1, <1>2 DEF Floor
<1>4. EventTypes'
  BY <1>1, <1>2 DEF EventTypes
<1>5. PendingOrder' /\ PendingMade'
  BY <1>1, <1>3, Zenon DEF PendingOrder, PendingMade, End
<1>6. ~lost' => PendingReplay'
  BY <1>1, <1>2, <1>3 DEF PendingReplay, End
<1> QED
  BY <1>4, <1>5, <1>6

(* The program ends, or is brought up to date between two sessions.        *)
LEMMA IdleEInv ==
    ASSUME EInv, E!Quit \/ E!Reconcile
    PROVE  EInv'
<1> USE DEF EInv
<1>1. /\ evChain' = evChain /\ headers' = << >> /\ bus' = << >> /\ svc' = "off"
      /\ bridge'.at = "off" /\ bridge' = [at |-> bridge'.at, event |-> bridge'.event]
  BY DEF E!Quit, E!Reconcile, E!Waiting, EventTypes
<1>2. Floor' = store'
  BY <1>1 DEF Floor
<1>3. /\ store' \in State /\ seen' \in State /\ lost' \in BOOLEAN
      /\ Upto(store', evChain)
  <2>1. CASE E!Quit
    BY <2>1, UptoOrder DEF E!Quit, EventTypes, PendingOrder, PendingMade
  <2>2. CASE E!Reconcile
    BY <2>2, UptoOrder, Zenon DEF E!Reconcile, EventTypes
  <2> QED
    BY <2>1, <2>2
<1>4. ~lost' => Alike(store', seen') /\ Alike(store', evChain)
  <2>1. CASE E!Quit
    <3>1. ASSUME ~lost'
          PROVE  ~lost /\ headers = << >> /\ bus = << >> /\ bridge.at = "wait" /\ store' = store
                 /\ seen' = seen
      BY <2>1, <3>1, Zenon DEF E!Quit, EventTypes
    <3>2. ~lost' => Floor = store /\ Final(End(Floor, bus), headers) = store
      BY <3>1, EmptyFacts DEF Floor
    <3> QED
      BY <3>1, <3>2 DEF PendingReplay
  <2>2. CASE E!Reconcile
    BY <2>2 DEF E!Reconcile, Alike
  <2> QED
    BY <2>1, <2>2
<1>5. EventTypes'
  <2>1. bus' \in Seq(EventSet) /\ headers' \in Seq(Blocks)
    BY <1>1
  <2> QED
    BY <1>1, <1>3, <2>1 DEF EventTypes
<1>6. PendingOrder'
  BY <1>1, <1>2, EmptyFacts, UptoOrder DEF PendingOrder
<1>7. PendingMade'
  BY <1>1, <1>2, <1>3 DEF PendingMade
<1>8. ~lost' => PendingReplay'
  BY <1>1, <1>2, <1>4, EmptyFacts DEF PendingReplay
<1> QED
  BY <1>5, <1>6, <1>7, <1>8

(* A block is published, or passed over. *)
LEMMA processBlockEInv == ASSUME EInv, E!processBlock PROVE EInv'
<1> USE DEF EInv
<1> DEFINE f == End(Floor, bus)
           b == headers[1]
<1>1. UNCHANGED <<evChain, svc, bridge, store, seen>> /\ Floor' = Floor /\ svc = "on"
  BY DEF E!processBlock, Floor
<1>2. /\ headers \in Seq(Blocks) /\ headers # << >> /\ headers' = Tail(headers)
      /\ headers' \in Seq(Blocks) /\ Head(headers) = b /\ b \in Blocks
      /\ b \in Seq(EventSet) /\ b # << >>
      /\ Len(headers) \in Nat /\ Len(headers) > 0
      /\ \A j \in 1..Len(headers') : headers'[j] = headers[j + 1] /\ j + 1 \in 1..Len(headers)
  <2>1. headers \in Seq(Blocks) /\ headers # << >> /\ headers' = Tail(headers)
    BY DEF E!processBlock, EventTypes
  <2>2. b \in Blocks
    BY <2>1, TailFacts, Zenon
  <2> QED
    BY <2>1, <2>2, TailFacts DEF Blocks
<1>3. /\ Sorted(f, b) /\ Ordered(Last(b), headers') /\ Final(Last(b), headers') = Final(f, headers)
      /\ ~lost => Linked(f, b) /\ Chained(Last(b), headers')
  BY <1>2, BlocksTail, Zenon DEF PendingOrder, PendingReplay
<1>4. /\ bus \in Seq(EventSet) /\ Sorted(Floor, bus) /\ Upto(Floor, f)
      /\ Upto(f, Last(b)) /\ \A i \in 1..Len(b) : Upto(b[i].after, evChain)
  <2>1. bus \in Seq(EventSet) /\ Sorted(Floor, bus)
    BY DEF EventTypes, PendingOrder
  <2>2. Last(b) = End(f, b)
    BY <1>2, <1>3, SortedEnd
  <2> HIDE DEF f
  <2>3. Upto(f, Last(b))
    BY <1>2, <1>3, <2>2, SortedEnd
  <2>4. 1 \in 1..Len(headers)
    BY <1>2
  <2> QED
    BY <2>1, <2>3, <2>4, SortedEnd DEF PendingMade, f
<1>5. \A j \in 1..Len(headers') :
          \A i \in 1..Len(headers'[j]) : Upto(headers'[j][i].after, evChain)
  <2>1. ASSUME NEW j \in 1..Len(headers'), NEW i \in 1..Len(headers'[j])
        PROVE  Upto(headers'[j][i].after, evChain)
    <3>1. headers'[j] = headers[j + 1] /\ j + 1 \in 1..Len(headers)
      BY <1>2
    <3> QED
      BY <3>1 DEF PendingMade
  <2> QED
    BY <2>1, Zenon
<1> HIDE DEF b
<1>6. CASE bus' = bus /\ lost' = TRUE
  <2>1. EventTypes'
    BY <1>1, <1>2, <1>6 DEF EventTypes
  <2>2. End(Floor, bus)' = f
    BY <1>1, <1>6 DEF End
  <2>3. Ordered(f, headers')
    BY <1>3, <1>4, BlocksLower
  <2> HIDE DEF f
  <2>4. PendingOrder'
    BY <1>1, <1>6, <2>2, <2>3, Zenon DEF PendingOrder
  <2>5. PendingMade'
    BY <1>1, <1>5, <1>6 DEF PendingMade
  <2> QED
    BY <1>6, <2>1, <2>4, <2>5
<1>7. CASE bus' = bus \o b /\ lost' = lost
  <2>1. /\ bus' \in Seq(EventSet) /\ Sorted(Floor, bus') /\ End(Floor, bus') = Last(b)
    <3>1. Sorted(End(Floor, bus), b) /\ Upto(Floor, End(Floor, bus))
      BY <1>3, <1>4
    <3>2. /\ bus \o b \in Seq(EventSet) /\ Sorted(Floor, bus \o b)
          /\ End(Floor, bus \o b) = b[Len(b)].after
      BY <1>2, <1>4, <3>1, SortedConcat, SMTT(30)
    <3> QED
      BY <1>7, <3>2 DEF Last
  <2>2. EventTypes'
    BY <1>1, <1>2, <1>7, <2>1 DEF EventTypes
  <2>3. PendingOrder'
    BY <1>1, <1>3, <2>1 DEF PendingOrder
  <2>4. PendingMade'
    <3>1. ASSUME NEW i \in 1..Len(bus') PROVE Upto(bus'[i].after, evChain)
      <4>1. i \in 1..Len(bus \o b) /\ b \in Seq(EventSet) /\ bus \in Seq(EventSet)
        BY <1>2, <1>4, <1>7, <3>1, Zenon
      <4>2. \/ i \in 1..Len(bus) /\ bus'[i] = bus[i]
            \/ i - Len(bus) \in 1..Len(b) /\ bus'[i] = b[i - Len(bus)]
        BY <1>7, <4>1, ConcatPlace, Zenon
      <4>3. CASE i \in 1..Len(bus) /\ bus'[i] = bus[i]
        BY <4>3, Zenon DEF EInv, PendingMade
      <4>4. CASE i - Len(bus) \in 1..Len(b) /\ bus'[i] = b[i - Len(bus)]
        BY <1>4, <4>4, Zenon
      <4> QED
        BY <4>2, <4>3, <4>4, Zenon
    <3> QED
      BY <1>1, <1>5, <3>1, Zenon DEF PendingMade
  <2>5. ASSUME ~lost' PROVE PendingReplay'
    <3>1. ~lost /\ Linked(f, b) /\ Chained(Last(b), headers') /\ Linked(Floor, bus)
      BY <1>3, <1>7, <2>5 DEF PendingReplay
    <3>2. Linked(Floor, bus')
      BY <1>2, <1>4, <1>7, <3>1, LinkedConcat, Zenon
    <3>3. Alike(Final(Last(b), headers'), evChain)
      BY <1>3, <3>1, Zenon DEF PendingReplay
    <3> QED
      BY <1>1, <2>1, <3>1, <3>2, <3>3 DEF PendingReplay
  <2> QED
    BY <2>2, <2>3, <2>4, <2>5
<1> QED
  BY <1>2, <1>6, <1>7, Zenon DEF E!processBlock

(* The bridge takes the next event; its first write succeeds or fails. *)
LEMMA waitForEventEInv ==
    ASSUME EInv, E!waitForEvent
    PROVE  EInv' /\ Upto(store, store') /\ store' \in State
<1> USE DEF EInv
<1> DEFINE e == bus[1]
           f == End(Floor, bus)
<1>1. /\ UNCHANGED <<evChain, headers, svc, seen>> /\ bus # << >> /\ bus' = Tail(bus)
      /\ bridge.at = "wait" /\ Floor = store /\ svc # "off"
  BY DEF E!waitForEvent, Floor, EventTypes
<1>2. /\ bus \in Seq(EventSet) /\ bus' \in Seq(EventSet) /\ Head(bus) = e /\ e \in EventSet
      /\ Len(bus) \in Nat /\ Len(bus) > 0 /\ 1 \in 1..Len(bus)
      /\ \A i \in 1..Len(bus') : bus'[i] = bus[i + 1] /\ i + 1 \in 1..Len(bus)
  <2>1. bus \in Seq(EventSet)
    BY DEF EventTypes
  <2> QED
    BY <1>1, <2>1, TailFacts
<1>3. Sorted(e.after, bus') /\ End(e.after, bus') = f
  BY <1>1, <1>2, SortedTail, Zenon DEF PendingOrder
<1>4. e.after \in State /\ Upto(store, e.after) /\ Upto(e.after, evChain) /\ store \in State
  BY <1>1, <1>2, Zenon DEF EventSet, PendingOrder, Sorted, PendingMade, EventTypes
<1> DEFINE t == E!HandleEvent(store, e)
<1>5. t \in State /\ Upto(store, t) /\ Upto(t, e.after)
  BY <1>2, <1>4, HandleForward
<1>6. ~lost => Alike(e.after, Apply(store, e)) /\ Linked(e.after, bus')
  BY <1>1, <1>2, LinkedTail, Zenon DEF PendingReplay, Linked
<1>7. /\ bridge'.at \in {"match", "refresh"} /\ bridge'.event = e
      /\ bridge' = [at |-> bridge'.at, event |-> bridge'.event]
      /\ bridge'.at = "match" <=> (e.type = "EventLeaseCreated" /\ store' = t /\ bridge'.at = "match")
      /\ \/ /\ store' = t /\ lost' = lost
            /\ bridge'.at = IF e.type = "EventLeaseCreated" THEN "match" ELSE "refresh"
         \/ store' = store /\ lost' = TRUE
  BY <1>2 DEF E!waitForEvent
<1> HIDE DEF t, e, f
<1>8. Floor' = e.after
  BY <1>7 DEF Floor
<1>9. EventTypes'
  BY <1>1, <1>2, <1>4, <1>5, <1>7, Zenon DEF EventTypes
<1>10. PendingOrder'
  BY <1>1, <1>3, <1>4, <1>5, <1>7, <1>8, Zenon DEF PendingOrder, f
<1>11. PendingMade'
  BY <1>1, <1>2, <1>4, <1>8, Zenon DEF PendingMade
<1>12. ASSUME ~lost' PROVE PendingReplay'
  <2>1. /\ store' = t /\ ~lost
        /\ bridge'.at = IF e.type = "EventLeaseCreated" THEN "match" ELSE "refresh"
    BY <1>7, <1>12
  <2>2. /\ bridge'.at = "match" => Alike(E!matchBid(store'), e.after)
        /\ bridge'.at = "refresh" => Alike(store', e.after)
    BY <1>6, <2>1 DEF Apply, t, Alike
  <2>3. Chained(f, headers) /\ Alike(Final(f, headers), evChain)
    BY <2>1 DEF PendingReplay, f
  <2> QED
    BY <1>1, <1>3, <1>6, <1>7, <1>8, <2>1, <2>2, <2>3 DEF PendingReplay
<1> QED
  BY <1>4, <1>5, <1>7, <1>9, <1>10, <1>11, <1>12, UptoOrder, Zenon

(* The second write of a created lease. *)
LEMMA MatchBidEInv ==
    ASSUME EInv, E!MatchBid
    PROVE  EInv' /\ Upto(store, store') /\ store' \in State
<1> USE DEF EInv
<1>1. /\ UNCHANGED <<evChain, headers, svc, bus, seen>> /\ bridge.at = "match"
      /\ bridge'.at = "refresh" /\ bridge'.event = bridge.event
      /\ bridge' = [at |-> bridge'.at, event |-> bridge'.event]
      /\ \/ store' = E!matchBid(store) /\ lost' = lost
         \/ store' = store /\ lost' = TRUE
  BY DEF E!MatchBid, EventTypes
<1>2. Floor = bridge.event.after /\ Floor' = Floor
  BY <1>1 DEF Floor
<1>3. /\ store \in State /\ Floor \in State /\ Floor.bid = "matched" /\ Upto(store, Floor)
  BY <1>1, <1>2 DEF EventTypes, EventSet, Says, PendingOrder
<1>4. store' \in State /\ Upto(store, store') /\ Upto(store', Floor)
  BY <1>1, <1>3, MatchForward, UptoOrder
<1>5. EventTypes'
  BY <1>1, <1>4, Zenon DEF EventTypes
<1>6. PendingOrder' /\ PendingMade'
  BY <1>1, <1>2, <1>4 DEF PendingOrder, PendingMade, End
<1>7. ~lost' => PendingReplay'
  BY <1>1, <1>2 DEF PendingReplay, End
<1> QED
  BY <1>4, <1>5, <1>6, <1>7

(* The bridge waits again. *)
LEMMA RefreshEInv == ASSUME EInv, E!Refresh PROVE EInv'
<1> USE DEF EInv
<1>1. /\ UNCHANGED <<evChain, headers, svc, bus, store, lost>> /\ bridge.at = "refresh"
      /\ bridge'.at = "wait" /\ seen' = bridge.event.after
      /\ bridge' = [at |-> bridge'.at, event |-> bridge'.event]
  BY DEF E!Refresh, E!Waiting
<1>2. Floor = bridge.event.after /\ Floor' = store /\ Upto(store, Floor)
  BY <1>1 DEF Floor, PendingOrder
<1>3. EventTypes'
  BY <1>1 DEF EventTypes, EventSet
<1>4. PendingOrder'
  <2>1. Sorted(store, bus)
    BY <1>2, SortedLower DEF PendingOrder
  <2>2. Upto(End(store, bus), End(Floor, bus))
    BY <1>2, UptoOrder DEF End
  <2>3. Ordered(End(store, bus), headers)
    BY <2>2, BlocksLower DEF PendingOrder
  <2> QED
    BY <1>1, <1>2, <2>1, <2>3, UptoOrder DEF PendingOrder
<1>5. PendingMade'
  BY <1>1, <1>2, UptoOrder, Zenon DEF PendingMade
<1>6. ASSUME ~lost' PROVE PendingReplay'
  <2>1. PendingReplay /\ Alike(Floor, store)
    BY <1>1, <1>6 DEF PendingReplay, Alike
  <2>2. Floor \in State /\ store \in State /\ bus \in Seq(EventSet) /\ headers \in Seq(Blocks)
    BY <1>1, <1>2 DEF EventTypes, EventSet
  <2>3. /\ Linked(store, bus) /\ Alike(End(Floor, bus), End(store, bus))
        /\ End(Floor, bus) \in State /\ End(store, bus) \in State
    BY <2>1, <2>2, LinkedAlike DEF PendingReplay
  <2>4. /\ Chained(End(store, bus), headers)
        /\ Alike(Final(End(Floor, bus), headers), Final(End(store, bus), headers))
    BY <2>1, <2>2, <2>3, ChainedAlike DEF PendingReplay
  <2>5. Alike(Final(End(store, bus), headers), evChain)
    BY <2>1, <2>4 DEF PendingReplay, Alike
  <2>6. Alike(store, seen')
    BY <1>1, <1>2, <2>1 DEF Alike
  <2> QED
    BY <1>1, <1>2, <2>3, <2>4, <2>5, <2>6 DEF PendingReplay
<1> QED
  BY <1>3, <1>4, <1>5, <1>6

(* A record's writes move it forward, and keep what is pending in order. *)
LEMMA NextEInv ==
    EInv /\ [E!Next]_eventVars => EInv' /\ Upto(store, store')
<1> SUFFICES ASSUME EInv, [E!Next]_eventVars PROVE EInv' /\ Upto(store, store')
  OBVIOUS
<1>1. CASE UNCHANGED eventVars
  <2>1. UNCHANGED <<evChain, headers, svc, bus, bridge, store, seen, lost>>
    BY <1>1 DEF eventVars
  <2>2. UNCHANGED Floor /\ UNCHANGED End(Floor, bus)
    BY <2>1, Zenon DEF Floor, End
  <2>3. EventTypes' /\ PendingOrder' /\ PendingMade'
    BY <2>1, <2>2 DEF EInv, EventTypes, PendingOrder, PendingMade
  <2>4. ~lost' => PendingReplay'
    BY <2>1, <2>2, Zenon DEF EInv, PendingReplay
  <2> QED
    BY <2>1, <2>3, <2>4, UptoOrder DEF EInv
<1>2. CASE E!Block
  <2>1. EInv'
    BY <1>2, BlockMakes, EmitEInv DEF EInv, EventTypes
  <2> QED
    BY <1>2, <2>1, BlockMakes, UptoOrder, Zenon DEF EInv, EventTypes, E!Emit
<1>3. CASE E!BidLost \/ E!NewService \/ E!SubscriptionClosed \/ E!processBlock \/ E!Refresh
  <2>1. store' = store
    BY <1>3 DEF E!BidLost, E!NewService, E!SubscriptionClosed, E!processBlock, E!Refresh
  <2> QED
    BY <1>3, <2>1, BidLostEInv, QuietEInv, processBlockEInv, RefreshEInv, UptoOrder
<1>4. CASE E!Quit \/ E!Reconcile
  <2>1. EInv'
    BY <1>4, IdleEInv, Zenon
  <2>2. Upto(store, evChain)
    BY UptoOrder DEF EInv, PendingOrder, PendingMade
  <2>3. store' = store \/ store' = evChain
    BY <1>4 DEF E!Quit, E!Reconcile
  <2> QED
    BY <2>1, <2>2, <2>3, UptoOrder
<1>5. CASE E!waitForEvent \/ E!MatchBid
  BY <1>5, waitForEventEInv, MatchBidEInv
<1> QED
  BY <1>1, <1>2, <1>3, <1>4, <1>5 DEF E!Next

(* The invariant holds. *)
LEMMA EventInvariance == E!Spec => []EInv
<1>1. E!Init => EInv
  BY InitEInv
<1>2. EInv /\ [E!Next]_eventVars => EInv'
  BY NextEInv
<1> QED
  BY <1>1, <1>2, PTL DEF E!Spec, E!vars, eventVars

(* processBlock and HandleEvent: whatever blocks were passed over and      *)
(* writes failed, no record is ahead of the chain; and between two events, *)
(* when nothing was lost since the last reconciliation, the store is what  *)
(* events can tell of the chain as of the event handled last.              *)
THEOREM StoreFollowsChainThm == E!Spec => []StoreFollowsChain
<1>1. EInv => StoreFollowsChain
  <2> SUFFICES ASSUME EInv PROVE StoreFollowsChain
    OBVIOUS
  <2>1. E!StoreIsReplay
    BY DEF EInv, E!StoreIsReplay, PendingReplay, Alike
  <2>2. E!NeverAhead
    <3>1. Upto(store, evChain) /\ store \in State /\ evChain \in State
      BY UptoOrder DEF EInv, PendingOrder, PendingMade, EventTypes
    <3> QED
      BY <3>1, UptoRank DEF E!NeverAhead
  <2> QED
    BY <2>1, <2>2 DEF StoreFollowsChain, E!StoreFollowsChain
<1> QED
  BY <1>1, EventInvariance, PTL

(* HandleEvent and Reconcile: whatever was lost, no write takes a record   *)
(* back to an earlier state.                                               *)
THEOREM NeverBackThm == E!Spec => NeverBack
<1> DEFINE Forward == \A k \in E!Kinds : E!Rank(k, store[k]) <= E!Rank(k, store'[k])
<1>1. EInv /\ EInv' /\ [E!Next]_eventVars => [Forward]_eventVars
  <2> SUFFICES ASSUME EInv, EInv', [E!Next]_eventVars PROVE Forward
    OBVIOUS
  <2>1. Upto(store, store')
    BY NextEInv
  <2>2. store \in State /\ store' \in State
    BY DEF EInv, EventTypes
  <2> QED
    BY <2>1, <2>2, UptoRank
<1>2. E!Spec => [][Forward]_eventVars
  BY <1>1, EventInvariance, PTL DEF E!Spec, E!vars, eventVars
<1>3. NeverBack <=> [][Forward]_eventVars
  BY PTL DEF NeverBack, E!NeverBack, E!vars, eventVars
<1> QED
  BY <1>2, <1>3, PTL

-----------------------------------------------------------------------------
(* The monitor. *)
Resources == {"db", "tasks", "bus", "client", "events"}

Ending == {"cancel", "stop", "wait"}
Releasing == {"shutdown", "stopClient", "closeBus", "closeDB", "done"}

(* What Run holds at each of its steps, wherever the build was left. *)
Holdings ==
    /\ at \in {"db", "stores", "client", "service", "loop"} \cup Ending \cup Releasing
    /\ open \subseteq Resources
    /\ at = "db" => open = {}
    /\ at = "stores" => open = {"db"}
    /\ at = "client" => open = {"db", "tasks", "bus"}
    /\ at = "service" => open = {"db", "tasks", "bus", "client"}
    /\ at = "loop" => open = Resources
    /\ "events" \in open => {"bus", "client", "db"} \subseteq open
    /\ at \in Releasing => "tasks" \notin open
    /\ at \in Releasing \ {"shutdown"} => "events" \notin open
    /\ at \in {"closeBus", "closeDB", "done"} => "client" \notin open
    /\ at \in {"closeDB", "done"} => "bus" \notin open
    /\ at = "done" => "db" \notin open

Task ==
    [kind : {"connect", "bus", "fetch", "detail", "socket"}, of : Hosts \cup {NoHost}, id : Nat,
     stage : {"issued", "running", "answered"}, out : {"none", "ok", "err"}]

(* Commands are there only while the group is, run only until it has been  *)
(* waited for, and answer only to the loop.                                *)
Commands ==
    /\ tasks \subseteq Task
    /\ at \in {"db", "stores", "client", "service"} => tasks = {}
    /\ at \in {"cancel", "stop"} /\ tasks # {} => "tasks" \in open
    /\ at \in {"wait"} \cup Releasing /\ tasks # {} => stopped
    /\ at # "loop" => \A t \in tasks : t.stage # "answered"
    /\ at \in Releasing => \A t \in tasks : t.stage = "issued"

(* Rows are there only for the request shown. *)
Screen ==
    /\ detail = [of |-> detail.of, nodes |-> detail.nodes, loading |-> detail.loading,
                 id |-> detail.id]
    /\ detail.id \in Nat
    /\ M!DetailIsCurrent

MInv == Holdings /\ Commands /\ Screen

(* At first nothing is open. *)
LEMMA InitMInv == M!Init => MInv
<1> SUFFICES ASSUME M!Init PROVE MInv
  OBVIOUS
<1>1. Holdings
  BY Zenon DEF M!Init, Holdings, Ending, Releasing, Resources
<1>2. Commands
  BY DEF M!Init, Commands, Releasing
<1>3. Screen
  BY DEF M!Init, Screen, M!DetailIsCurrent
<1> QED
  BY <1>1, <1>2, <1>3, Zenon DEF MInv

(* The build, one resource at a time, and its failures. *)
LEMMA BuildingMInv == ASSUME MInv, M!Building PROVE MInv'
<1> USE DEF MInv
<1>0. Screen'
  BY DEF M!Building, M!OpenDB, M!InitializeStores, M!StartClient, M!Build, M!StartProgram,
         M!BuildFails, Screen, M!DetailIsCurrent
<1>1. CASE M!OpenDB \/ M!InitializeStores \/ M!StartClient
  <2>1. Holdings'
    BY <1>1, Zenon DEF M!OpenDB, M!InitializeStores, M!StartClient, M!Build, Holdings, Resources,
                Ending, Releasing
  <2>2. tasks = {} /\ tasks' = {} /\ stopped' = stopped
    BY <1>1 DEF M!OpenDB, M!InitializeStores, M!StartClient, M!Build, Commands
  <2>3. Commands'
    BY <2>2, Zenon DEF Commands
  <2> QED
    BY <1>0, <2>1, <2>3
<1>2. CASE M!StartProgram
  <2>1. Holdings'
    BY <1>2 DEF M!StartProgram, Holdings, Resources, Ending, Releasing
  <2>2. \A t \in tasks' : t \in Task /\ t.stage = "issued"
    BY <1>2 DEF M!StartProgram, M!Command, Task
  <2>3. Commands'
    BY <1>2, <2>2, Zenon DEF M!StartProgram, Commands, Releasing
  <2> QED
    BY <1>0, <2>1, <2>3
<1>3. CASE M!BuildFails
  <2>1. Holdings'
    BY <1>3 DEF M!BuildFails, Holdings, Resources, Ending, Releasing
  <2>2. tasks = {} /\ tasks' = {}
    BY <1>3 DEF M!BuildFails, Commands
  <2>3. Commands'
    BY <2>2 DEF Commands
  <2> QED
    BY <1>0, <2>1, <2>3
<1> QED
  BY <1>1, <1>2, <1>3, Zenon DEF M!Building

(* The end of the loop, and clean-up to its last release. *)
LEMMA CleanupMInv == ASSUME MInv, M!Quit \/ M!Cleanup PROVE MInv'
<1> USE DEF MInv
<1>0. Screen'
  BY DEF M!Quit, M!Cleanup, M!Cancel, M!Stop, M!Wait, M!Shutdown, M!Release, Screen,
         M!DetailIsCurrent
<1>1. CASE M!Quit
  <2>1. Holdings'
    BY <1>1, Zenon DEF M!Quit, Holdings, Resources, Ending, Releasing
  <2>2. Commands'
    BY <1>1, Zenon DEF M!Quit, M!Answered, Commands, Holdings, Resources, Releasing
  <2> QED
    BY <1>0, <2>1, <2>2, Zenon
<1>2. CASE M!Cancel
  <2>1. Holdings'
    BY <1>2 DEF M!Cancel, Holdings, Ending, Releasing
  <2>2. Commands'
    BY <1>2, Zenon DEF M!Cancel, Commands, Releasing
  <2> QED
    BY <1>0, <2>1, <2>2
<1>3. CASE M!Stop
  <2>1. Holdings'
    BY <1>3 DEF M!Stop, Holdings, Ending, Releasing
  <2>2. Commands'
    BY <1>3, Zenon DEF M!Stop, Commands, Releasing
  <2> QED
    BY <1>0, <2>1, <2>2
<1>4. CASE M!Wait
  <2>1. Holdings'
    BY <1>4 DEF M!Wait, Holdings, Ending, Releasing, Resources
  <2>2. \A t \in tasks : t.stage = "issued"
    BY <1>4 DEF M!Wait, M!Counted, Commands, Task
  <2>3. Commands'
    BY <1>4, <2>2 DEF M!Wait, Commands, Releasing
  <2> QED
    BY <1>0, <2>1, <2>3
<1>5. CASE M!Shutdown
  <2>1. Holdings'
    BY <1>5, Zenon DEF M!Shutdown, M!Release, Holdings, Ending, Releasing, Resources
  <2>2. at \in Releasing /\ at' \in Releasing /\ tasks' = tasks /\ stopped' = stopped
    BY <1>5 DEF M!Shutdown, M!Release, Releasing
  <2>3. Commands'
    BY <2>2 DEF Commands, Releasing
  <2> QED
    BY <1>0, <2>1, <2>3
<1> QED
  BY <1>1, <1>2, <1>3, <1>4, <1>5, Zenon DEF M!Cleanup

(* A command starts, unless the group is stopped, or returns. *)
LEMMA WorkMInv == ASSUME MInv, NEW t \in tasks, M!Work(t) PROVE MInv'
<1> USE DEF MInv
<1>1. UNCHANGED <<at, open, closing, stopped, detail>>
  BY DEF M!Work, M!Start, M!Fetch, M!fetchProviderDetail, M!waitForBusEvent,
         M!connectWebSocket, M!StreamEnds, M!run
<1>2. Holdings' /\ Screen'
  <2>1. Holdings'
    BY <1>1 DEF Holdings
  <2>2. Screen'
    BY <1>1 DEF Screen, M!DetailIsCurrent
  <2> QED
    BY <2>1, <2>2, Zenon
<1>3. t \in Task
  BY DEF Commands
<1>4. CASE tasks' \subseteq tasks
  BY <1>1, <1>2, <1>4 DEF Commands
<1>5. CASE M!Start(t) /\ ~stopped
  <2> DEFINE u == [t EXCEPT !.stage = "running"]
  <2>1. u \in Task /\ u.stage = "running"
    BY <1>3 DEF Task
  <2>2. t.stage = "issued" /\ tasks' = (tasks \ {t}) \cup {u}
    BY <1>5 DEF M!Start
  <2> HIDE DEF u
  <2>3. at \notin {"wait"} \cup Releasing
    BY <1>5 DEF Commands
  <2>4. Commands'
    BY <1>1, <2>1, <2>2, <2>3 DEF Commands, Releasing
  <2> QED
    BY <1>2, <2>4
<1>6. CASE t.stage = "running" /\ \E out \in {"ok", "err"} : tasks' = M!Return(t, out)
  <2>1. PICK out \in {"ok", "err"} : tasks' = M!Return(t, out)
    BY <1>6
  <2> DEFINE u == [t EXCEPT !.stage = "answered", !.out = out]
  <2>2. u \in Task
    BY <1>3, Zenon DEF Task
  <2>3. \/ tasks' \subseteq tasks
        \/ at = "loop" /\ tasks' = (tasks \ {t}) \cup {u}
    BY <2>1, Zenon DEF M!Return
  <2> HIDE DEF u
  <2>4. CASE at = "loop" /\ tasks' = (tasks \ {t}) \cup {u}
    BY <1>1, <1>2, <2>2, <2>4 DEF Commands, Releasing
  <2> QED
    BY <1>4, <2>3, <2>4
<1>7. CASE M!connectWebSocket(t) /\ ~ \E out \in {"ok", "err"} : tasks' = M!Return(t, out)
  <2> DEFINE v == [M!Command("socket", NoHost) EXCEPT !.stage = "running"]
             u == [t EXCEPT !.stage = "answered", !.out = "ok"]
  <2>1. v \in Task /\ v.stage = "running"
    BY DEF Task, M!Command
  <2>2. u \in Task
    BY <1>3, Zenon DEF Task
  <2>3. t.stage = "running" /\ tasks' = M!Return(t, "ok") \cup {v}
    BY <1>7 DEF M!connectWebSocket
  <2>4. M!Return(t, "ok") = IF at = "loop" THEN (tasks \ {t}) \cup {u} ELSE tasks \ {t}
    BY DEF M!Return
  <2> HIDE DEF v, u
  <2>5. at \notin Releasing
    BY <2>3, Zenon DEF Commands
  <2>6. CASE at = "loop"
    BY <1>1, <1>2, <2>1, <2>2, <2>3, <2>4, <2>6, Zenon DEF Commands, Releasing
  <2>7. CASE at # "loop"
    BY <1>1, <1>2, <2>1, <2>3, <2>4, <2>5, <2>7 DEF Commands
  <2> QED
    BY <2>6, <2>7
<1> QED
  <2>1. CASE M!Start(t) \/ M!StreamEnds(t)
    BY <1>4, <1>5, <2>1 DEF M!Start, M!StreamEnds
  <2>2. CASE M!Fetch(t) \/ M!fetchProviderDetail(t) \/ M!waitForBusEvent(t)
    BY <1>6, <2>2 DEF M!Fetch, M!fetchProviderDetail, M!waitForBusEvent
  <2>3. CASE M!connectWebSocket(t)
    BY <1>6, <1>7, <2>3 DEF M!connectWebSocket
  <2> QED
    BY <2>1, <2>2, <2>3 DEF M!Work

(* The loop handles a message: rows are taken only from the answer to the  *)
(* request shown.                                                          *)
LEMMA HandleMInv == ASSUME MInv, NEW t \in tasks, M!Handle(t) PROVE MInv'
<1> USE DEF MInv
<1>1. at = "loop" /\ UNCHANGED <<at, open, closing, stopped>>
  BY DEF M!Handle, M!handleProviderDetailMsg, M!HandleOther, M!run
<1>2. Holdings'
  BY <1>1 DEF Holdings
<1>3. t \in Task
  BY DEF Commands
<1>4. CASE M!handleProviderDetailMsg(t)
  <2>1. Commands'
    BY <1>1, <1>4 DEF M!handleProviderDetailMsg, Commands, Releasing
  <2>2. Screen'
    BY <1>4, Zenon DEF M!handleProviderDetailMsg, Screen, M!DetailIsCurrent
  <2> QED
    BY <1>2, <2>1, <2>2
<1>5. CASE M!HandleOther(t)
  <2> DEFINE u == M!Command(t.kind, NoHost)
  <2>1. u \in Task
    BY <1>3 DEF Task, M!Command
  <2> HIDE DEF u
  <2>2. tasks' \subseteq tasks \cup {u} /\ detail' = detail
    BY <1>5 DEF M!HandleOther, u
  <2>3. Commands'
    BY <1>1, <2>1, <2>2 DEF Commands, Releasing
  <2>4. Screen'
    BY <2>2 DEF Screen, M!DetailIsCurrent
  <2> QED
    BY <1>2, <2>3, <2>4
<1> QED
  BY <1>4, <1>5 DEF M!Handle

(* The user opens or leaves the detail view. *)
LEMMA DetailMInv ==
    ASSUME MInv, M!leaveProviderDetail \/ \E p \in Hosts : M!enterProviderDetail(p)
    PROVE  MInv'
<1> USE DEF MInv
<1>1. CASE M!leaveProviderDetail
  <2>1. Holdings' /\ Commands'
    BY <1>1 DEF M!leaveProviderDetail, M!run, Holdings, Commands
  <2>2. Screen'
    BY <1>1, Zenon DEF M!leaveProviderDetail, Screen, M!DetailIsCurrent
  <2> QED
    BY <2>1, <2>2
<1>2. ASSUME NEW p \in Hosts, M!enterProviderDetail(p) PROVE MInv'
  <2> DEFINE u == [M!Command("detail", p) EXCEPT !.id = detail.id + 1]
  <2>1. u \in Task
    BY DEF Task, M!Command, Screen
  <2>2. tasks' = tasks \cup {u} /\ at = "loop" /\ UNCHANGED <<at, open, closing, stopped>>
    BY <1>2, Zenon DEF M!enterProviderDetail, M!run
  <2> HIDE DEF u
  <2>3. Holdings' /\ Commands'
    BY <2>1, <2>2 DEF Holdings, Commands, Releasing
  <2>4. Screen'
    BY <1>2 DEF M!enterProviderDetail, Screen, M!DetailIsCurrent
  <2> QED
    BY <2>3, <2>4
<1> QED
  BY <1>1, <1>2

(* Every step of the monitor. *)
LEMMA NextMInv == MInv /\ [M!Next]_monitorVars => MInv'
<1> SUFFICES ASSUME MInv, [M!Next]_monitorVars PROVE MInv'
  BY Zenon
<1>1. CASE UNCHANGED monitorVars
  BY <1>1 DEF monitorVars, MInv, Holdings, Commands, Screen, M!DetailIsCurrent
<1>2. CASE M!Next
  <2>1. CASE M!Building \/ M!Quit \/ M!Cleanup
    BY <2>1, BuildingMInv, CleanupMInv
  <2>2. ASSUME NEW t \in tasks, M!Work(t) \/ M!Handle(t) PROVE MInv'
    BY <2>2, WorkMInv, HandleMInv
  <2>3. CASE M!leaveProviderDetail \/ \E p \in Hosts : M!enterProviderDetail(p)
    BY <2>3, DetailMInv
  <2> QED
    BY <1>2, <2>1, <2>2, <2>3 DEF M!Next
<1> QED
  BY <1>1, <1>2

(* The invariant holds. *)
LEMMA MonitorInvariance == M!Spec => []MInv
<1>1. M!Init => MInv
  BY InitMInv
<1>2. MInv /\ [M!Next]_monitorVars => MInv'
  BY NextMInv
<1> QED
  BY <1>1, <1>2, PTL DEF M!Spec, M!vars, monitorVars

(* handleProviderDetailMsg: the rows on screen are always the answer to    *)
(* the last request, for the provider on screen, in whichever order the    *)
(* answers to earlier requests arrive.                                     *)
THEOREM DetailIsCurrentThm == M!Spec => []DetailIsCurrent
<1>1. MInv => DetailIsCurrent
  BY Zenon DEF MInv, Screen, DetailIsCurrent
<1> QED
  BY <1>1, MonitorInvariance, PTL

(* Run and cleanup: whatever the commands were doing when the loop ended,  *)
(* and wherever the build failed, resources are released in an order that  *)
(* leaves no running command or service without what it uses, and none is  *)
(* left when Run returns.                                                  *)
THEOREM CleanShutdownThm == M!Spec => []CleanShutdown
<1>1. MInv => CleanShutdown
  <2> SUFFICES ASSUME MInv PROVE CleanShutdown
    OBVIOUS
  <2>1. M!ReleasedInOrder
    BY DEF MInv, M!ReleasedInOrder, Commands, Holdings, Releasing
  <2>2. M!NothingLeft
    BY DEF MInv, M!NothingLeft, Holdings, Releasing, Resources
  <2> QED
    BY <2>1, <2>2 DEF CleanShutdown, M!CleanShutdown
<1> QED
  BY <1>1, MonitorInvariance, PTL
=============================================================================
