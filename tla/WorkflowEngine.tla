--------------------------- MODULE WorkflowEngine ---------------------------
(***************************************************************************)
(* The workflow engine (internal/workflow/engine.go): it runs the steps of *)
(* a definition one after the other, retries a step that asks for it,      *)
(* stops at a failure or goes on, and honours the cancellation of the      *)
(* command's context.  What a step does is left open: an execution returns *)
(* success, skipped (a check step) or failed.                              *)
(***************************************************************************)
EXTENDS Integers, Sequences

CONSTANT Steps  \* the definition: a sequence of steps

(***************************************************************************)
(* A step has a name (distinct in a definition), whether its type has an   *)
(* executor in the registry, retry.max (0 when there is no retry block),   *)
(* whether the retry delay is so short, or negative, that its timer can be *)
(* ready when the wait starts, and its on-error action.                    *)
(***************************************************************************)
StepDef == [name : STRING, known : BOOLEAN, retry : Nat, brief : BOOLEAN,
            onError : {"abort", "continue", "skip", ""}]

ASSUME StepsAssumption == Steps \in Seq(StepDef)

N == Len(Steps)

(* A retry block with a positive maximum replaces the single attempt. *)
MaxAttempts(i) == IF Steps[i].retry > 0 THEN Steps[i].retry ELSE 1

GoesOn(i) == Steps[i].onError \in {"continue", "skip"}

VARIABLES
    step,       \* the index of the loop in Run
    phase,      \* where the engine is
    attempt,    \* attempts made at the current step
    result,     \* state.Steps: the recorded status of each step
    order,      \* state.StepOrder, also the entries of the action log
    outcome,    \* what Run returns
    cancelled,  \* the command's context is done
    raced,      \* it became done while a retry timer was running
    late        \* executions started after cancellation (auxiliary)

engineVars == <<step, phase, attempt, result, order, outcome, cancelled, raced,
                late>>

Statuses == {"success", "skipped", "failed"}

TypeOK ==
    /\ step \in 1..(N + 1)
    /\ phase \in {"check", "execute", "delay", "done"}
    /\ attempt \in Nat
    /\ result \in [1..N -> Statuses \cup {"none"}]
    /\ order \in Seq((1..N) \X Statuses)
    /\ outcome \in {"running", "completed", "aborted", "cancelled"}
    /\ cancelled \in BOOLEAN
    /\ raced \in BOOLEAN
    /\ late \in Nat

Init ==
    /\ step = 1
    /\ phase = "check"
    /\ attempt = 0
    /\ result = [i \in 1..N |-> "none"]
    /\ order = <<>>
    /\ outcome = "running"
    /\ cancelled = FALSE
    /\ raced = FALSE
    /\ late = 0

(* SetStepResult and LogStep: the result is recorded once, then logged. *)
Record(status) ==
    /\ result' = [result EXCEPT ![step] = status]
    /\ order' = Append(order, <<step, status>>)

GoOn ==
    /\ step' = step + 1
    /\ phase' = "check"
    /\ attempt' = 0
    /\ UNCHANGED outcome

Stop(how) ==
    /\ phase' = "done"
    /\ outcome' = how
    /\ UNCHANGED <<step, attempt>>

(* Mutant: the on-error action is not looked at. *)
StepFailedIgnored ==
    /\ Record("failed")
    /\ GoOn

(* The error path of Run: continue and skip go on, anything else aborts. *)
StepFailed ==
    /\ Record("failed")
    /\ IF GoesOn(step) THEN GoOn ELSE Stop("aborted")

-----------------------------------------------------------------------------
(* Mutant: cancellation is not looked at between steps. *)
BeginUnchecked ==
    /\ phase = "check"
    /\ step <= N
    /\ Steps[step].known
    /\ phase' = "execute"
    /\ attempt' = 1
    /\ late' = IF cancelled THEN late + 1 ELSE late
    /\ UNCHANGED <<step, result, order, outcome, cancelled, raced>>

(* The context is checked before every step. *)
Begin ==
    /\ phase = "check"
    /\ step <= N
    /\ ~cancelled
    /\ Steps[step].known
    /\ phase' = "execute"
    /\ attempt' = 1
    /\ UNCHANGED <<step, result, order, outcome, cancelled, raced, late>>

(* registry.Get fails: a failed result without an attempt. *)
NoExecutor ==
    /\ phase = "check"
    /\ step <= N
    /\ ~cancelled
    /\ ~Steps[step].known
    /\ StepFailed
    /\ UNCHANGED <<cancelled, raced, late>>

StopCancelled ==
    /\ phase = "check"
    /\ step <= N
    /\ cancelled
    /\ Stop("cancelled")
    /\ UNCHANGED <<result, order, cancelled, raced, late>>

Finish ==
    /\ phase = "check"
    /\ step > N
    /\ Stop("completed")
    /\ UNCHANGED <<result, order, cancelled, raced, late>>

Succeed(status) ==
    /\ phase = "execute"
    /\ Record(status)
    /\ GoOn
    /\ UNCHANGED <<cancelled, raced, late>>

(* An attempt fails: wait and try again, or give up. *)
Fail ==
    /\ phase = "execute"
    /\ IF attempt < MaxAttempts(step)
         THEN /\ phase' = "delay"
              /\ UNCHANGED <<step, attempt, result, order, outcome>>
         ELSE StepFailed
    /\ UNCHANGED <<cancelled, raced, late>>

(***************************************************************************)
(* The select of executeStep.  A context that was done before the select   *)
(* wins, unless the delay is so brief that the timer is ready as well; one *)
(* that becomes done during the wait may find the timer ready too, and Go  *)
(* then picks either.                                                      *)
(***************************************************************************)
Retry ==
    /\ phase = "delay"
    /\ cancelled => raced \/ Steps[step].brief
    /\ phase' = "execute"
    /\ attempt' = attempt + 1
    /\ raced' = FALSE
    /\ late' = IF cancelled THEN late + 1 ELSE late
    /\ UNCHANGED <<step, result, order, outcome, cancelled>>

(* The last attempt's result is recorded with the context's error. *)
DelayCancelled ==
    /\ phase = "delay"
    /\ cancelled
    /\ StepFailed
    /\ raced' = FALSE
    /\ UNCHANGED <<cancelled, late>>

(* Ctrl-C or a deadline. *)
Cancel ==
    /\ phase # "done"
    /\ ~cancelled
    /\ cancelled' = TRUE
    /\ raced' = (phase = "delay")
    /\ UNCHANGED <<step, phase, attempt, result, order, outcome, late>>

Work ==
    \/ Begin
    \/ NoExecutor
    \/ StopCancelled
    \/ Finish
    \/ \E status \in {"success", "skipped"} : Succeed(status)
    \/ Fail
    \/ Retry
    \/ DelayCancelled

Done == phase = "done" /\ UNCHANGED engineVars

Next == Work \/ Cancel \/ Done

(***************************************************************************)
(* The engine keeps working and an execution returns: network calls carry  *)
(* the context and the wait steps their own deadline.  A prompt that waits *)
(* for the user is assumed to be answered.                                 *)
(***************************************************************************)
Spec == Init /\ [][Next]_engineVars /\ WF_engineVars(Work)
-----------------------------------------------------------------------------
(***************************************************************************)
(* The record of a run is a faithful history: results are recorded and     *)
(* logged once, in the order of the definition, without gaps, and nothing  *)
(* beyond the step where the run stopped.                                  *)
(***************************************************************************)
RecordedInOrder ==
    /\ Len(order) = IF outcome = "aborted" THEN step ELSE step - 1
    /\ \A i \in 1..Len(order) : order[i] = <<i, result[i]>>
    /\ \A i \in 1..N : result[i] = "none" <=> i > Len(order)

(***************************************************************************)
(* No step runs after a failed step whose on-error action is abort (or     *)
(* unset): the run ended there, as aborted.                                *)
(***************************************************************************)
NothingAfterAbort ==
    \A i \in 1..N : result[i] = "failed" /\ ~GoesOn(i) =>
        outcome = "aborted" /\ step = i

(* A step is tried once, and again only while its retry block allows that  *)
(* many attempts.                                                          *)
AttemptsBounded ==
    phase \in {"execute", "delay"} =>
        attempt >= 1 /\ (attempt > 1 => attempt <= Steps[step].retry)

(***************************************************************************)
(* A run follows its definition: executeStep's results are recorded in the *)
(* order of the steps, none comes after one that aborts, and no step is    *)
(* tried more often than it may be.                                        *)
(***************************************************************************)
RunFollowsSteps == RecordedInOrder /\ NothingAfterAbort /\ AttemptsBounded

(***************************************************************************)
(* Cancellation stops the run: after it no step starts, only retries of    *)
(* the current one do, and unless its delay is brief at most one of them   *)
(* slips through, when the timer fires together with the cancellation.     *)
(***************************************************************************)
CancellationStops ==
    phase \in {"execute", "delay"} =>
        /\ late < attempt
        /\ ~Steps[step].brief => late <= 1

(***************************************************************************)
(* A run that completes went through every step; one that was not          *)
(* cancelled is never reported as cancelled.                               *)
(***************************************************************************)
OutcomeIsTrue ==
    /\ outcome = "completed" => \A i \in 1..N : result[i] # "none"
    /\ outcome = "cancelled" => cancelled /\ \E i \in 1..N : result[i] = "none"

(* Every run ends, cancelled or not. *)
RunEnds == <>[](phase = "done")
=============================================================================
