----------------------------- MODULE RunsProofs -----------------------------
(***************************************************************************)
(* The two workflows for any number of providers, leases that come and go  *)
(* and edits of the file.  Each is a run of the engine; the providers an   *)
(* update reports hold it, and what a deployment run on the chain rail     *)
(* reports is true.  U is the update run of MCRuns.                        *)
(***************************************************************************)
EXTENDS MCRuns, TLAPS

(* Each step of the run is a step of its engine, or none. *)
LEMMA UpdateEngineMoves ==
    ASSUME [U!Next]_updateVars PROVE [U!Engine!Next]_engineVars
<1>1. CASE UNCHANGED U!vars \/ U!EditFile \/ U!Done
  BY <1>1 DEF U!vars, U!EditFile, U!Done, engineVars, U!engineVars
<1>2. ASSUME NEW p \in UpdateProviders, U!LeaseChanges(p) PROVE UNCHANGED engineVars
  BY <1>2 DEF U!LeaseChanges, engineVars, U!engineVars
<1>3. CASE U!Cancel
  BY <1>3 DEF U!Cancel, U!Engine!Next
<1>4. CASE U!RunStep
  <2>1. CASE U!EngineStep
    BY <2>1 DEF U!EngineStep, U!Engine!Next, U!Engine!Work
  <2>2. CASE U!UpdateDeployment
    BY <2>2 DEF U!UpdateDeployment, U!Engine!Next, U!Engine!Work
  <2>3. CASE U!QueryLeases
    BY <2>3 DEF U!QueryLeases, engineVars, U!engineVars
  <2>4. CASE U!QueryFails
    BY <2>4 DEF U!QueryFails, U!Engine!Next, U!Engine!Work
  <2>5. ASSUME NEW p \in UpdateProviders, U!Submit(p) PROVE UNCHANGED engineVars
    BY <2>5 DEF U!Submit, engineVars, U!engineVars
  <2>6. CASE U!RoundEnds
    BY <2>6 DEF U!RoundEnds, U!Engine!Next, U!Engine!Work
  <2>7. CASE U!DisplayResult
    BY <2>7 DEF U!DisplayResult, U!Engine!Next, U!Engine!Work
  <2> QED
    BY <1>4, <2>1, <2>2, <2>3, <2>4, <2>5, <2>6, <2>7 DEF U!RunStep
<1> QED
  BY <1>1, <1>2, <1>3, <1>4 DEF U!Next, updateVars

(***************************************************************************)
(* An update is a run of the workflow engine with the steps of update.yaml *)
(* (Engine.Run): what providers, leases and the user do are steps of the   *)
(* engine or leave it alone.                                               *)
(***************************************************************************)
THEOREM UpdateImplementsEngine == U!Spec => U!Engine!Init /\ [][U!Engine!Next]_engineVars
<1>1. U!Init => U!Engine!Init
  BY DEF U!Init
<1>2. [U!Next]_updateVars => [U!Engine!Next]_engineVars
  BY UpdateEngineMoves
<1> QED
  BY <1>1, <1>2, PTL DEF U!Spec, updateVars
-----------------------------------------------------------------------------
(* The loop of the engine, as far as an update needs it. *)
UpdateLoop ==
    /\ step \in 1..4
    /\ phase \in {"check", "execute", "delay", "done"}
    /\ attempt \in Nat
    /\ result \in [1..3 -> {"none", "success", "skipped", "failed"}]
    /\ phase \in {"execute", "delay"} => step <= 3 /\ attempt >= 1
    /\ phase = "delay" => step = 2
    /\ phase # "done" /\ step <= 2 => result[2] = "none"

UpdateWorld ==
    /\ file \in Nat
    /\ remembered \in Nat \cup {U!NoSDL}
    /\ leases \subseteq UpdateProviders
    /\ updated \in [UpdateProviders -> Nat \cup {U!NoSDL}]
    /\ sent \subseteq UpdateProviders
    /\ round \in [pc : {"query", "send"}, asked : SUBSET UpdateProviders,
                  left : SUBSET UpdateProviders, ok : SUBSET UpdateProviders,
                  failed : SUBSET UpdateProviders]

(***************************************************************************)
(* A round accounts for every provider it asked, and who accepted, in this *)
(* round or in the one reported, holds the text of the transaction.        *)
(***************************************************************************)
Delivery ==
    /\ step > 1 => remembered # U!NoSDL
    /\ step = 1 => round = U!NoRound /\ sent = {}
    /\ round.pc = "send" => phase = "execute" /\ step = 2
    /\ round.left \cup round.ok \cup round.failed = round.asked
    /\ \A p \in round.ok \cup sent : updated[p] = remembered

UInv == UpdateLoop /\ UpdateWorld /\ Delivery

(* The definition, step by step. *)
LEMMA UpdateSteps ==
    /\ Len(U!Steps) = 3
    /\ U!Steps[1].name = "update-deployment"
    /\ U!Steps[2].name = "send-manifest"
    /\ U!Steps[3].name = "display-result"
    /\ \A i \in 1..3 : U!Steps[i].onError = "abort"
    /\ U!Steps[1].retry = 0 /\ U!Steps[2].retry = 3 /\ U!Steps[3].retry = 0
  BY DEF U!Steps, U!StepOf

(* The index of the step that executes follows from its name. *)
LEMMA AtUpdateStep ==
    ASSUME UpdateLoop
    PROVE  /\ U!At("update-deployment") => phase = "execute" /\ step = 1
           /\ U!At("send-manifest") => phase = "execute" /\ step = 2
           /\ U!At("display-result") => phase = "execute" /\ step = 3
<1>1. phase = "execute" => step \in 1..3
  BY DEF UpdateLoop
<1> QED
  BY <1>1, UpdateSteps DEF U!At

(* An execution that succeeded. *)
LEMMA UpdateSucceedFacts ==
    ASSUME UpdateLoop, U!Engine!Succeed("success")
    PROVE  /\ UpdateLoop'
           /\ phase = "execute" /\ phase' = "check" /\ step' = step + 1
           /\ result'[step] = "success" /\ step \in 1..3
  BY DEF UpdateLoop, U!Engine!Succeed, U!Engine!Record, U!Engine!GoOn

(* One that failed: only a round of manifests is tried again. *)
LEMMA UpdateFailFacts ==
    ASSUME UpdateLoop, U!Engine!Fail
    PROVE  /\ UpdateLoop'
           /\ phase = "execute" /\ step' = step /\ step \in 1..3
           /\ \/ phase' = "delay" /\ step = 2 /\ result' = result
              \/ phase' = "done" /\ result'[step] = "failed"
<1>1. phase = "execute" /\ step \in 1..3 /\ attempt >= 1
  BY DEF UpdateLoop, U!Engine!Fail
<1>2. ~U!Engine!GoesOn(step)
  BY <1>1, UpdateSteps DEF U!Engine!GoesOn
<1>3. U!Engine!MaxAttempts(step) = IF step = 2 THEN 3 ELSE 1
  BY <1>1, UpdateSteps DEF U!Engine!MaxAttempts
<1>4. CASE attempt < U!Engine!MaxAttempts(step)
  <2>1. step = 2
    BY <1>1, <1>3, <1>4 DEF UpdateLoop
  <2> QED
    BY <1>1, <1>4, <2>1 DEF UpdateLoop, U!Engine!Fail
<1>5. CASE ~(attempt < U!Engine!MaxAttempts(step))
  BY <1>1, <1>2, <1>5
  DEF UpdateLoop, U!Engine!Fail, U!Engine!StepFailed, U!Engine!Record, U!Engine!Stop
<1> QED
  BY <1>4, <1>5
(* The engine between executions. *)
LEMMA UpdateEngineFacts ==
    ASSUME UpdateLoop, U!EngineStep
    PROVE  UpdateLoop' /\ step' = step /\ phase # "execute"
<1> USE DEF UpdateLoop
<1>1. CASE U!Engine!Begin
  BY <1>1, UpdateSteps DEF U!Engine!Begin, U!Engine!N
<1>2. CASE U!Engine!StopCancelled \/ U!Engine!Finish
  BY <1>2 DEF U!Engine!StopCancelled, U!Engine!Finish, U!Engine!Stop
<1>3. CASE U!Engine!Retry
  BY <1>3 DEF U!Engine!Retry
<1>4. CASE U!Engine!DelayCancelled
  <2>1. step = 2 /\ phase = "delay"
    BY <1>4 DEF U!Engine!DelayCancelled
  <2>2. ~U!Engine!GoesOn(step)
    BY <2>1, UpdateSteps DEF U!Engine!GoesOn
  <2> QED
    BY <1>4, <2>1, <2>2
    DEF U!Engine!DelayCancelled, U!Engine!StepFailed, U!Engine!Record, U!Engine!Stop
<1> QED
  BY <1>1, <1>2, <1>3, <1>4 DEF U!EngineStep

(* Init establishes the invariant. *)
LEMMA InitUInv == U!Init => UInv
<1> SUFFICES ASSUME U!Init PROVE UInv
  OBVIOUS
<1>1. UpdateLoop
  BY UpdateSteps DEF U!Init, UpdateLoop, U!Engine!Init, U!Engine!N
<1>2. UpdateWorld /\ Delivery
  BY DEF U!Init, UpdateWorld, Delivery, U!NoRound, U!NoSDL, U!Engine!Init
<1> QED
  BY <1>1, <1>2 DEF UInv

(* What does not touch the delivery. *)
LEMMA OutsideUInv ==
    ASSUME UInv,
           \/ UNCHANGED U!vars
           \/ U!EditFile
           \/ \E p \in UpdateProviders : U!LeaseChanges(p)
           \/ U!Cancel
           \/ U!EngineStep
    PROVE  UInv'
<1> USE DEF UInv, U!engineVars, U!runVars, U!vars
<1>1. UNCHANGED <<remembered, round, sent, updated>>
  BY DEF U!EditFile, U!LeaseChanges, U!Cancel, U!EngineStep
<1>2. UpdateWorld'
  BY <1>1 DEF U!EditFile, U!LeaseChanges, U!Cancel, U!EngineStep, UpdateWorld
<1>3. UpdateLoop' /\ step' = step /\ (phase = "execute" => phase' = "execute")
  <2>1. CASE UNCHANGED U!engineVars
    BY <2>1 DEF UpdateLoop
  <2>2. CASE U!Cancel
    BY <2>2 DEF U!Cancel, U!Engine!Cancel, UpdateLoop
  <2>3. CASE U!EngineStep
    BY <2>3, UpdateEngineFacts
  <2> QED
    BY <2>1, <2>2, <2>3 DEF U!EditFile, U!LeaseChanges
<1>4. Delivery'
  BY <1>1, <1>3 DEF Delivery
<1> QED
  BY <1>2, <1>3, <1>4

(* The transaction: only here does the text remembered change. *)
LEMMA UpdateUInv ==
    ASSUME UInv, U!UpdateDeployment
    PROVE  UInv'
<1> USE DEF UInv
<1>1. step = 1 /\ round = U!NoRound /\ sent = {}
  BY AtUpdateStep DEF U!UpdateDeployment, Delivery
<1>2. UpdateWorld'
  BY DEF U!UpdateDeployment, UpdateWorld
<1>3. CASE U!Engine!Succeed("success") /\ remembered' = file
  <2>1. UpdateLoop' /\ phase' = "check" /\ step' = 2
    BY <1>1, <1>3, UpdateSucceedFacts
  <2>2. Delivery'
    BY <1>1, <1>3, <2>1 DEF U!UpdateDeployment, Delivery, U!NoRound, UpdateWorld, U!NoSDL
  <2> QED
    BY <1>2, <2>1, <2>2
<1>4. CASE U!Engine!Fail
  <2>1. UpdateLoop' /\ step' = 1
    BY <1>1, <1>4, UpdateFailFacts
  <2>2. Delivery'
    BY <1>1, <2>1 DEF U!UpdateDeployment, Delivery, U!NoRound
  <2> QED
    BY <1>2, <2>1, <2>2
<1> QED
  BY <1>3, <1>4 DEF U!UpdateDeployment

(* A round asks the providers of the moment. *)
LEMMA QueryUInv ==
    ASSUME UInv, U!QueryLeases \/ U!QueryFails
    PROVE  UInv'
<1> USE DEF UInv
<1>1. phase = "execute" /\ step = 2
  BY AtUpdateStep DEF U!QueryLeases, U!QueryFails
<1>2. CASE U!QueryLeases
  <2>1. round' = [pc |-> "send", asked |-> leases, left |-> leases, ok |-> {},
                  failed |-> {}]
    BY <1>2, Zenon DEF U!QueryLeases, U!NoRound
  <2>2. UpdateLoop' /\ UpdateWorld'
    BY <1>2, <2>1 DEF U!QueryLeases, U!engineVars, UpdateLoop, UpdateWorld
  <2>3. UNCHANGED <<step, phase, remembered, sent, updated>>
    BY <1>2 DEF U!QueryLeases, U!engineVars
  <2>4. Delivery'
    BY <1>1, <2>1, <2>3 DEF Delivery
  <2> QED
    BY <2>2, <2>4
<1>3. CASE U!QueryFails
  <2>1. UpdateLoop' /\ step' = 2
    BY <1>1, <1>3, UpdateFailFacts DEF U!QueryFails
  <2>2. UpdateWorld'
    BY <1>3 DEF U!QueryFails, UpdateWorld
  <2>3. Delivery'
    BY <1>1, <1>3, <2>1 DEF U!QueryFails, Delivery
  <2> QED
    BY <2>1, <2>2, <2>3
<1> QED
  BY <1>2, <1>3
(* One provider accepts, refuses, or accepts with the answer lost. *)
LEMMA SubmitUInv ==
    ASSUME UInv, NEW p \in UpdateProviders, U!Submit(p)
    PROVE  UInv'
<1> USE DEF UInv
<1>1. phase = "execute" /\ step = 2 /\ remembered # U!NoSDL
  BY AtUpdateStep DEF U!Submit, Delivery
<1>2. UNCHANGED <<U!engineVars, file, remembered, sent, leases>>
  BY DEF U!Submit
<1>3. UpdateLoop'
  BY <1>2 DEF U!engineVars, UpdateLoop
<1>4. updated' \in {updated, [updated EXCEPT ![p] = remembered]}
  BY <1>1 DEF U!Submit, U!providerSDL
<1>5. /\ updated' \in [UpdateProviders -> Nat \cup {U!NoSDL}]
      /\ \A q \in UpdateProviders : updated[q] = remembered => updated'[q] = remembered
  BY <1>4 DEF UpdateWorld
<1>6. CASE /\ updated' = [updated EXCEPT ![p] = U!providerSDL]
           /\ round' = [round EXCEPT !.left = @ \ {p}, !.ok = @ \cup {p}]
  <2>1. updated'[p] = remembered
    BY <1>1, <1>6 DEF U!providerSDL, UpdateWorld
  <2>2. /\ round'.pc = round.pc /\ round'.asked = round.asked
        /\ round'.left = round.left \ {p} /\ round'.ok = round.ok \cup {p}
        /\ round'.failed = round.failed
    BY <1>6 DEF UpdateWorld
  <2>3. UpdateWorld'
    BY <1>2, <1>5, <1>6, Zenon DEF UpdateWorld
  <2>4. round'.left \cup round'.ok \cup round'.failed = round'.asked
    BY <2>2 DEF U!Submit, Delivery
  <2>5. \A q \in round'.ok \cup sent' : updated'[q] = remembered'
    BY <1>2, <1>5, <2>1, <2>2 DEF Delivery, UpdateWorld
  <2>6. Delivery'
    BY <1>1, <1>2, <2>2, <2>4, <2>5 DEF U!engineVars, Delivery
  <2> QED
    BY <1>3, <2>3, <2>6
<1>7. CASE round' = [round EXCEPT !.left = @ \ {p}, !.failed = @ \cup {p}]
  <2>2. /\ round'.pc = round.pc /\ round'.asked = round.asked
        /\ round'.left = round.left \ {p} /\ round'.ok = round.ok
        /\ round'.failed = round.failed \cup {p}
    BY <1>7 DEF UpdateWorld
  <2>3. UpdateWorld'
    BY <1>2, <1>5, <1>7, Zenon DEF UpdateWorld
  <2>4. round'.left \cup round'.ok \cup round'.failed = round'.asked
    BY <2>2 DEF U!Submit, Delivery
  <2>5. \A q \in round'.ok \cup sent' : updated'[q] = remembered'
    BY <1>2, <1>5, <2>2 DEF Delivery, UpdateWorld
  <2>6. Delivery'
    BY <1>1, <1>2, <2>2, <2>4, <2>5 DEF U!engineVars, Delivery
  <2> QED
    BY <1>3, <2>3, <2>6
<1> QED
  BY <1>6, <1>7 DEF U!Submit

(* A round ends, and its providers are reported. *)
LEMMA RoundUInv ==
    ASSUME UInv, U!RoundEnds
    PROVE  UInv' /\ U!RoundOutcome
<1> USE DEF UInv
<1>1. phase = "execute" /\ step = 2
  BY AtUpdateStep DEF U!RoundEnds
<1>2. /\ round' = U!NoRound /\ sent' = round.ok
      /\ UNCHANGED <<file, remembered, leases, updated>>
  BY DEF U!RoundEnds
<1>3. UpdateWorld'
  BY <1>2 DEF UpdateWorld, U!NoRound
<1>4. Delivery'
  <2>1. step' > 1 /\ step' # 1
    BY <1>1, UpdateSucceedFacts, UpdateFailFacts DEF U!RoundEnds
  <2> QED
    BY <1>1, <1>2, <2>1 DEF Delivery, U!NoRound
<1>5. UpdateLoop'
  BY UpdateSucceedFacts, UpdateFailFacts DEF U!RoundEnds
<1>6. result'[step] = "success" => round.failed = {} /\ round.left = {}
  <2>1. CASE U!Engine!Fail
    <3>1. result'[step] # "success"
      BY <1>1, <2>1, UpdateFailFacts DEF UpdateLoop
    <3> QED
      BY <3>1
  <2> QED
    BY <2>1 DEF U!RoundEnds
<1>7. U!RoundOutcome
  BY <1>2, <1>6 DEF U!RoundOutcome, U!RoundEnds, Delivery
<1> QED
  BY <1>3, <1>4, <1>5, <1>7

(* Every step keeps the invariant. *)
LEMMA NextUInv == UInv /\ [U!Next]_updateVars => UInv'
<1> SUFFICES ASSUME UInv, [U!Next]_updateVars PROVE UInv'
  OBVIOUS
<1>1. CASE U!DisplayResult
  <2>1. phase = "execute" /\ step = 3
    BY <1>1, AtUpdateStep DEF U!DisplayResult, UInv
  <2>2. UpdateLoop' /\ step' > 1
    BY <1>1, <2>1, UpdateSucceedFacts, UpdateFailFacts DEF U!DisplayResult, UInv
  <2>3. UpdateWorld'
    BY <1>1 DEF U!DisplayResult, U!runVars, UInv, UpdateWorld
  <2>4. Delivery'
    BY <1>1, <2>1, <2>2 DEF U!DisplayResult, U!runVars, UInv, Delivery
  <2> QED
    BY <2>2, <2>3, <2>4 DEF UInv
<1>2. CASE \E p \in UpdateProviders : U!Submit(p)
  BY <1>2, SubmitUInv
<1> QED
  BY <1>1, <1>2, OutsideUInv, UpdateUInv, QueryUInv, RoundUInv
  DEF updateVars, U!Next, U!RunStep, U!Done

(***************************************************************************)
(* For any number of providers and edits, the providers that an update     *)
(* reports hold the text of the transaction (sendManifestToProviders).     *)
(***************************************************************************)
THEOREM UpdateInvariance == U!Spec => [](UInv /\ U!ReportedProvidersHoldUpdate)
<1>1. UInv => U!ReportedProvidersHoldUpdate
  BY DEF UInv, Delivery, U!ReportedProvidersHoldUpdate
<1> QED
  BY <1>1, InitUInv, NextUInv, PTL DEF U!Spec, updateVars

(* The invariant in the behaviours of MCRuns that are an update. *)
MCUInv == which = "update" => UInv

(* It holds in all of them. *)
LEMMA MCInvariance == MCSpec => []MCUInv
<1>1. MCInit => MCUInv
  BY InitUInv DEF MCInit, MCUInv
<1>2. MCUInv /\ [MCNext]_mcVars => MCUInv'
  <2> SUFFICES ASSUME MCUInv, [MCNext]_mcVars, which' = "update" PROVE UInv'
    BY DEF MCUInv
  <2>1. which = "update" /\ [U!Next]_updateVars
    BY DEF MCNext, mcVars, vars, engineVars, runVars, updateOnly, updateVars, U!vars,
           U!engineVars, U!runVars
  <2> QED
    BY <2>1, NextUInv DEF MCUInv
<1> QED
  BY <1>1, <1>2, PTL DEF MCSpec

(***************************************************************************)
(* For any number of providers and edits, the providers that an update     *)
(* reports hold the text of the transaction, whatever happened to the file *)
(* and in earlier rounds (sendManifestToProviders).                        *)
(***************************************************************************)
THEOREM ReportedProvidersThm == MCSpec => []ReportedProvidersHoldUpdate
<1>1. MCUInv => ReportedProvidersHoldUpdate
  BY DEF MCUInv, UInv, Delivery, ReportedProvidersHoldUpdate,
         U!ReportedProvidersHoldUpdate
<1> QED
  BY <1>1, MCInvariance, PTL

(***************************************************************************)
(* However leases come and go, a round that succeeds reached every         *)
(* provider it asked, and unless cancelled one that fails tried them all   *)
(* (sendManifestToProviders and its errors.Join).                          *)
(***************************************************************************)
THEOREM RoundIsCompleteThm == MCSpec => RoundIsComplete
<1>1. MCUInv /\ [MCNext]_mcVars => [which = "update" => U!RoundOutcome]_mcVars
  BY RoundUInv DEF MCUInv, U!RoundOutcome
<1> QED
  BY <1>1, MCInvariance, PTL DEF MCSpec, RoundIsComplete
-----------------------------------------------------------------------------
(* On the chain rail a step of the run is a step of its engine, or none. *)
LEMMA ChainStep ==
    ASSUME OnChain, [Next]_vars
    PROVE  [Chain!Next]_engineVars /\ OnChain'
<1> USE DEF OnChain, options
<1>1. CASE UNCHANGED vars
  BY <1>1 DEF vars
<1>2. CASE EditFile
  BY <1>2 DEF EditFile
<1>3. ASSUME NEW tx \in mempool, Deliver(tx) PROVE UNCHANGED <<engineVars, options>>
  BY <1>3 DEF Deliver
<1>4. ASSUME NEW p \in Providers, ProviderBids(p) \/ ConsoleDelivers(p)
      PROVE  UNCHANGED <<engineVars, options>>
  BY <1>4 DEF ProviderBids, ConsoleDelivers
<1>5. CASE Cancel
  BY <1>5 DEF Cancel, Chain!Next
<1>6. CASE RunStep
  <2>1. CASE EngineStep
    BY <2>1 DEF EngineStep, Chain!Next, Chain!Work
  <2>2. CASE StepFails
    BY <2>2 DEF StepFails, Fails, Chain!Next, Chain!Work
  <2>3. CASE SendCreate \/ SendCreateLease
    BY <2>3 DEF SendCreate, SendCreateLease
  <2>4. CASE ReplyArrives
    BY <2>4 DEF ReplyArrives, Succeeds, Chain!Next, Chain!Work
  <2>5. CASE ReplyLost
    BY <2>5 DEF ReplyLost, Fails, Chain!Next, Chain!Work
  <2>6. CASE BidsArrive
    BY <2>6 DEF BidsArrive, Succeeds, Chain!Next, Chain!Work
  <2>7. ASSUME NEW p \in Providers, SelectBid(p) PROVE Chain!Next /\ OnChain'
    BY <2>7 DEF SelectBid, Succeeds, Chain!Next, Chain!Work
  <2>8. CASE SendManifest
    BY <2>8 DEF SendManifest, Succeeds, Fails, Chain!Next, Chain!Work
  <2>9. CASE DisplayResult
    BY <2>9 DEF DisplayResult, Succeeds, Chain!Next, Chain!Work
  <2>10. CASE RunFailed \/ RunSucceeded
    BY <2>10, Zenon DEF RunFailed, RunSucceeded
  <2> QED
    BY <1>6, <2>1, <2>2, <2>3, <2>4, <2>5, <2>6, <2>7, <2>8, <2>9, <2>10, Zenon DEF RunStep
<1>7. CASE Reported
  BY <1>7 DEF Reported, vars
<1> QED
  BY <1>1, <1>2, <1>3, <1>4, <1>5, <1>6, <1>7 DEF Next

(* And so on the Console rail, with the engine of the shorter definition. *)
LEMMA ConsoleStep ==
    ASSUME ~OnChain, [Next]_vars
    PROVE  [Console!Next]_engineVars /\ ~OnChain'
<1> USE DEF OnChain, options
<1>1. CASE UNCHANGED vars
  BY <1>1 DEF vars
<1>2. CASE EditFile
  BY <1>2 DEF EditFile
<1>3. ASSUME NEW tx \in mempool, Deliver(tx) PROVE UNCHANGED <<engineVars, options>>
  BY <1>3 DEF Deliver
<1>4. ASSUME NEW p \in Providers, ProviderBids(p) \/ ConsoleDelivers(p)
      PROVE  UNCHANGED <<engineVars, options>>
  BY <1>4 DEF ProviderBids, ConsoleDelivers
<1>5. CASE Cancel
  BY <1>5 DEF Cancel, Chain!Cancel, Console!Cancel, Console!Next
<1>6. CASE RunStep
  <2>1. CASE EngineStep
    BY <2>1 DEF EngineStep, Console!Next, Console!Work
  <2>2. CASE StepFails
    BY <2>2 DEF StepFails, Fails, Console!Next, Console!Work
  <2>3. CASE SendCreate \/ SendCreateLease
    BY <2>3 DEF SendCreate, SendCreateLease
  <2>4. CASE ReplyArrives
    BY <2>4 DEF ReplyArrives, Succeeds, Console!Next, Console!Work
  <2>5. CASE ReplyLost
    BY <2>5 DEF ReplyLost, Fails, Console!Next, Console!Work
  <2>6. CASE BidsArrive
    BY <2>6 DEF BidsArrive, Succeeds, Console!Next, Console!Work
  <2>7. ASSUME NEW p \in Providers, SelectBid(p) PROVE Console!Next /\ ~OnChain'
    BY <2>7 DEF SelectBid, Succeeds, Console!Next, Console!Work
  <2>8. CASE SendManifest
    BY <2>8 DEF SendManifest, Succeeds, Fails, Console!Next, Console!Work
  <2>9. CASE DisplayResult
    BY <2>9 DEF DisplayResult, Succeeds, Console!Next, Console!Work
  <2>10. CASE RunFailed \/ RunSucceeded
    BY <2>10, Zenon DEF RunFailed, RunSucceeded
  <2> QED
    BY <1>6, <2>1, <2>2, <2>3, <2>4, <2>5, <2>6, <2>7, <2>8, <2>9, <2>10 DEF RunStep
<1>7. CASE Reported
  BY <1>7 DEF Reported, vars
<1> QED
  BY <1>1, <1>2, <1>3, <1>4, <1>5, <1>6, <1>7 DEF Next

(***************************************************************************)
(* A deployment is a run of the workflow engine: on the chain rail with    *)
(* the steps of deploy.yaml, on the Console rail without the manifest step *)
(* (Engine.Run with the definition of filterProviderSteps).  What the      *)
(* executors, the chain and the user do shows as steps of the engine.      *)
(***************************************************************************)
THEOREM ImplementsEngine ==
    Spec => /\ OnChain => Chain!Init /\ [][Chain!Next]_engineVars
            /\ ~OnChain => Console!Init /\ [][Console!Next]_engineVars
<1>1. Init => /\ OnChain => Chain!Init
              /\ ~OnChain => Console!Init
  BY DEF Init
<1>2. OnChain /\ [Next]_vars => [Chain!Next]_engineVars /\ OnChain'
  BY ChainStep
<1>3. ~OnChain /\ [Next]_vars => [Console!Next]_engineVars /\ ~OnChain'
  BY ConsoleStep
<1> QED
  BY <1>1, <1>2, <1>3, PTL DEF Spec
-----------------------------------------------------------------------------
(* The loop of the engine, as far as a deployment on the chain needs it. *)
Loop ==
    /\ step \in 1..7
    /\ phase \in {"check", "execute", "delay", "done"}
    /\ attempt \in Nat
    /\ result \in [1..6 -> {"none", "success", "skipped", "failed"}]
    /\ phase \in {"execute", "delay"} => step <= 6 /\ attempt >= 1
    /\ phase = "delay" => step = 5
    /\ outcome = "completed" => step = 7 /\ phase = "done"

World ==
    /\ file \in Nat
    /\ remembered \in Nat \cup {NoSDL}
    /\ call \in {"none", "sent"}
    /\ chain \in [sdl : Nat \cup {NoSDL}, bids : SUBSET Providers,
                  leases : SUBSET Providers]
    /\ mempool \subseteq [msg : {"create"}, sdl : Nat]
                         \cup [msg : {"lease"}, provider : Providers]
    /\ held \in [Providers -> Nat \cup {NoSDL}]
    /\ report \in Report

(***************************************************************************)
(* One transaction creates the deployment, from the text remembered.  A    *)
(* run that is past it knows that it was accepted; one that ended at it    *)
(* has lost the reply.                                                     *)
(***************************************************************************)
CreatedOnce ==
    /\ remembered = NoSDL => step = 1 /\ call = "none" /\ mempool = {}
                             /\ chain.sdl = NoSDL
    /\ remembered # NoSDL /\ step = 1 =>
           (phase = "execute" /\ call = "sent") \/ (phase = "done" /\ lost)
    /\ call = "sent" => phase = "execute" /\ step \in {1, 4}
    /\ chain.sdl \in {NoSDL, remembered}
    /\ \A tx \in mempool : tx.msg = "create" => tx.sdl = remembered
    /\ step > 1 => result[1] = "success"

(* Bids are for the deployment, and what is chosen or leased has bid. *)
BidsFirst ==
    /\ chain.bids # {} => Created
    /\ seen \subseteq chain.bids
    /\ chain.leases \subseteq chain.bids
    /\ \A tx \in mempool : tx.msg = "lease" => tx.provider \in chain.bids
    /\ step >= 4 => chosen \in seen
    /\ step >= 6 => chosen \in chain.leases /\ held[chosen] # NoSDL

Reporting ==
    /\ report.status # "none" => phase = "done"
    /\ report.status = "success" => step = 7
    /\ report.status = "failure" => (report.cleanup <=> result[1] = "success")

DInv ==
    /\ OnChain
    /\ Loop
    /\ World
    /\ CreatedOnce
    /\ BidsFirst
    /\ ManifestMatchesChain
    /\ Reporting

(* The definition, step by step. *)
LEMMA DeploySteps ==
    /\ Len(deploy) = 6
    /\ deploy[1].name = "create-deployment"
    /\ deploy[2].name = "wait-for-bids"
    /\ deploy[3].name = "select-bid"
    /\ deploy[4].name = "create-lease"
    /\ deploy[5].name = "send-manifest"
    /\ deploy[6].name = "display-result"
    /\ \A i \in 1..6 : deploy[i].onError = "abort"
    /\ \A i \in 1..6 : i # 5 => deploy[i].retry = 0
    /\ deploy[5].retry = 3
  BY DEF deploy, StepOf

(* The index of the step that executes follows from its name. *)
LEMMA AtStep ==
    ASSUME OnChain, Loop
    PROVE  /\ At("create-deployment") => phase = "execute" /\ step = 1
           /\ At("wait-for-bids") => phase = "execute" /\ step = 2
           /\ At("select-bid") => phase = "execute" /\ step = 3
           /\ At("create-lease") => phase = "execute" /\ step = 4
           /\ At("send-manifest") => phase = "execute" /\ step = 5
           /\ At("display-result") => phase = "execute" /\ step = 6
<1>1. phase = "execute" => step \in 1..6
  BY DEF Loop
<1> QED
  BY <1>1, DeploySteps DEF At, Steps

(* What the adviser looks up. *)
LEMMA ResultOfCreate ==
    ASSUME OnChain PROVE Result("create-deployment") = result[1]
<1>1. \A i \in 1..6 : deploy[i].name = "create-deployment" <=> i = 1
  BY DeploySteps
<1>2. (CHOOSE i \in 1..Len(deploy) : deploy[i].name = "create-deployment") = 1
  BY <1>1, DeploySteps
<1>3. \E i \in 1..Len(deploy) : deploy[i].name = "create-deployment"
  BY <1>1, DeploySteps
<1> QED
  BY <1>2, <1>3, Zenon DEF Result, Steps

(* An execution that succeeded. *)
LEMMA SucceedFacts ==
    ASSUME OnChain, Loop, Succeeds
    PROVE  /\ Loop'
           /\ phase = "execute" /\ phase' = "check" /\ step' = step + 1
           /\ result' = [result EXCEPT ![step] = "success"]
           /\ step \in 1..6
  BY DEF Succeeds, Loop, Chain!Succeed, Chain!Record, Chain!GoOn

(* One that failed: it is tried again, or it ends the run. *)
LEMMA FailFacts ==
    ASSUME OnChain, Loop, Fails
    PROVE  /\ Loop'
           /\ phase = "execute" /\ step' = step /\ step \in 1..6
           /\ \/ phase' = "delay" /\ result' = result
              \/ phase' = "done" /\ result' = [result EXCEPT ![step] = "failed"]
<1>1. Chain!Fail /\ phase = "execute" /\ step \in 1..6 /\ attempt >= 1
  BY DEF Fails, Loop, Chain!Fail
<1>2. ~Chain!GoesOn(step)
  BY <1>1, DeploySteps DEF Chain!GoesOn
<1>3. Chain!MaxAttempts(step) = IF step = 5 THEN 3 ELSE 1
  BY <1>1, DeploySteps DEF Chain!MaxAttempts
<1>4. CASE attempt < Chain!MaxAttempts(step)
  <2>1. step = 5
    BY <1>1, <1>3, <1>4 DEF Loop
  <2> QED
    BY <1>1, <1>4, <2>1 DEF Loop, Chain!Fail
<1>5. CASE ~(attempt < Chain!MaxAttempts(step))
  BY <1>1, <1>2, <1>5, Zenon DEF Loop, Chain!Fail, Chain!StepFailed, Chain!Record, Chain!Stop
<1> QED
  BY <1>4, <1>5
(* The engine between executions leaves the first result alone. *)
LEMMA EngineFacts ==
    ASSUME OnChain, Loop, EngineStep
    PROVE  /\ Loop'
           /\ step' = step /\ result'[1] = result[1]
           /\ phase = "check" \/ (phase = "delay" /\ step = 5)
           /\ phase' \in {"execute", "done"}
<1> USE DEF Loop
<1>1. CASE Chain!Begin
  BY <1>1, DeploySteps DEF Chain!Begin, Chain!N
<1>2. CASE Chain!StopCancelled
  BY <1>2, DeploySteps DEF Chain!StopCancelled, Chain!Stop, Chain!N
<1>3. CASE Chain!Finish
  BY <1>3, DeploySteps DEF Chain!Finish, Chain!Stop, Chain!N
<1>4. CASE Chain!Retry
  BY <1>4 DEF Chain!Retry
<1>5. CASE Chain!DelayCancelled
  <2>1. step = 5 /\ phase = "delay"
    BY <1>5 DEF Chain!DelayCancelled
  <2>2. ~Chain!GoesOn(step)
    BY <2>1, DeploySteps DEF Chain!GoesOn
  <2> QED
    BY <1>5, <2>1, <2>2
    DEF Chain!DelayCancelled, Chain!StepFailed, Chain!Record, Chain!Stop
<1> QED
  BY <1>1, <1>2, <1>3, <1>4, <1>5, Zenon DEF EngineStep

(* Init establishes the invariant on the chain rail. *)
LEMMA InitDInv == Init /\ OnChain => DInv
<1> SUFFICES ASSUME Init, OnChain PROVE DInv
  BY Zenon
<1>1. Loop
  BY DeploySteps DEF Init, Loop, Chain!Init, Chain!N
<1>2. World
  BY DEF Init, World, NoSDL, Report
<1>3. CreatedOnce /\ BidsFirst
  BY DEF Init, CreatedOnce, BidsFirst, Chain!Init
<1>4. ManifestMatchesChain /\ Reporting
  BY Zenon DEF Init, ManifestMatchesChain, Reporting
<1> QED
  BY <1>1, <1>2, <1>3, <1>4 DEF DInv

(* A step of the environment that moves the chain forward keeps it. *)
LEMMA DeliverDInv ==
    ASSUME DInv, NEW tx \in mempool, Deliver(tx)
    PROVE  DInv'
<1> USE DEF DInv, Deliver, engineVars, options, runVars
<1>1. OnChain' /\ Loop' /\ Reporting'
  BY Zenon DEF OnChain, Loop, Reporting
<1>2. CASE chain' = chain
  <2>1. World'
    BY <1>2 DEF World
  <2> QED
    BY <1>1, <1>2, <2>1, Zenon DEF CreatedOnce, BidsFirst, ManifestMatchesChain, Created
<1>3. CASE chain' = Execute(tx) /\ tx.msg = "create"
  <2>1. chain' = [chain EXCEPT !.sdl = tx.sdl] /\ tx.sdl \in Nat
    BY <1>3 DEF Execute, World
  <2>2. tx.sdl = remembered /\ remembered # NoSDL
    BY <1>3, <2>1 DEF CreatedOnce, NoSDL
  <2>3. /\ chain'.sdl = remembered /\ chain'.bids = chain.bids
        /\ chain'.leases = chain.leases
    BY <2>1, <2>2 DEF World
  <2>4. World'
    BY <2>1, Zenon DEF World
  <2>5. CreatedOnce'
    BY <2>2, <2>3, Zenon DEF CreatedOnce
  <2>6. BidsFirst'
    BY <2>2, <2>3, Zenon DEF BidsFirst, Created
  <2>7. ManifestMatchesChain'
    BY <2>3 DEF ManifestMatchesChain, CreatedOnce
  <2> QED
    BY <1>1, <2>4, <2>5, <2>6, <2>7
<1>4. CASE chain' = Execute(tx) /\ tx.msg = "lease"
  <2>1. chain' = [chain EXCEPT !.leases = @ \cup {tx.provider}]
    BY <1>4 DEF Execute
  <2>2. tx.provider \in chain.bids
    BY <1>4, Zenon DEF BidsFirst
  <2>3. /\ chain'.sdl = chain.sdl /\ chain'.bids = chain.bids
        /\ chain'.leases = chain.leases \cup {tx.provider}
    BY <2>1 DEF World
  <2>4. World'
    BY <2>1, <2>2, Zenon DEF World
  <2>5. CreatedOnce' /\ ManifestMatchesChain'
    BY <2>3 DEF CreatedOnce, ManifestMatchesChain
  <2>6. BidsFirst'
    BY <2>2, <2>3, Zenon DEF BidsFirst, Created
  <2> QED
    BY <1>1, <2>4, <2>5, <2>6
<1> QED
  BY <1>2, <1>3, <1>4, Zenon DEF World
(* The other steps of the environment. *)
LEMMA EnvironmentDInv ==
    ASSUME DInv,
           \/ EditFile
           \/ \E p \in Providers : ProviderBids(p) \/ ConsoleDelivers(p)
           \/ Cancel
    PROVE  DInv'
<1> USE DEF DInv, engineVars, options, runVars, chainVars
<1>1. CASE EditFile
  <2>1. OnChain' /\ Loop' /\ World'
    BY <1>1, SMTT(30) DEF EditFile, OnChain, Loop, World
  <2>2. CreatedOnce' /\ BidsFirst'
    BY <1>1 DEF EditFile, CreatedOnce, BidsFirst, Created
  <2>3. ManifestMatchesChain' /\ Reporting'
    BY <1>1, Zenon DEF EditFile, ManifestMatchesChain, Reporting
  <2> QED
    BY <2>1, <2>2, <2>3, Zenon
<1>2. ASSUME NEW p \in Providers, ProviderBids(p) PROVE DInv'
  <2>1. /\ chain'.sdl = chain.sdl /\ chain'.bids = chain.bids \cup {p}
        /\ chain'.leases = chain.leases
    BY <1>2 DEF ProviderBids, World
  <2>2. World'
    BY <1>2 DEF ProviderBids, World
  <2>3. OnChain' /\ Loop' /\ Reporting'
    BY <1>2 DEF ProviderBids, OnChain, Loop, Reporting
  <2>4. CreatedOnce' /\ ManifestMatchesChain'
    BY <1>2, <2>1 DEF ProviderBids, CreatedOnce, ManifestMatchesChain
  <2>5. BidsFirst'
    BY <1>2, <2>1, Zenon DEF ProviderBids, BidsFirst, Created
  <2> QED
    BY <2>2, <2>3, <2>4, <2>5
<1>3. ASSUME NEW p \in Providers, ConsoleDelivers(p) PROVE FALSE
  BY <1>3, Zenon DEF ConsoleDelivers
<1>4. CASE Cancel
  <2>1. OnChain' /\ Loop' /\ World'
    BY <1>4, Zenon DEF Cancel, Chain!Cancel, OnChain, Loop, World
  <2>2. CreatedOnce' /\ BidsFirst'
    BY <1>4 DEF Cancel, Chain!Cancel, CreatedOnce, BidsFirst, Created
  <2>3. ManifestMatchesChain' /\ Reporting'
    BY <1>4, Zenon DEF Cancel, Chain!Cancel, ManifestMatchesChain, Reporting
  <2> QED
    BY <2>1, <2>2, <2>3
<1> QED
  BY <1>1, <1>2, <1>3, <1>4

(* A request is sent: the deployment's only once. *)
LEMMA SendDInv ==
    ASSUME DInv, SendCreate \/ SendCreateLease
    PROVE  DInv'
<1> USE DEF DInv, engineVars, options
<1>1. OnChain' /\ Loop' /\ Reporting'
  BY DEF SendCreate, SendCreateLease, OnChain, Loop, Reporting
<1>2. CASE SendCreate
  <2>1. step = 1 /\ phase = "execute" /\ call = "none"
    BY <1>2, AtStep DEF SendCreate
  <2>2. remembered = NoSDL /\ mempool = {} /\ chain.sdl = NoSDL
    BY <2>1, Zenon DEF CreatedOnce
  <2>3. remembered' = file /\ file \in Nat /\ mempool' = {[msg |-> "create", sdl |-> file]}
    BY <1>2, <2>2, Zenon DEF SendCreate, World
  <2>4. World'
    <3>1. call' = "sent" /\ UNCHANGED <<file, chain, held, report>>
      BY <1>2, Zenon DEF SendCreate
    <3> QED
      BY <2>3, <3>1, SMTT(30) DEF World
  <2>5. CreatedOnce'
    BY <1>2, <2>1, <2>2, <2>3, SMTT(30) DEF SendCreate, CreatedOnce, NoSDL
  <2>6. UNCHANGED <<chain, seen, chosen, step, held>>
    BY <1>2, Zenon DEF SendCreate
  <2>7. BidsFirst'
    <3>1. \A tx \in mempool' : tx.msg = "lease" => tx.provider \in chain.bids
      BY <2>3
    <3> QED
      BY <2>6, <3>1 DEF BidsFirst, Created
  <2>8. ManifestMatchesChain'
    BY <2>6, Zenon DEF ManifestMatchesChain
  <2> QED
    BY <1>1, <2>4, <2>5, <2>7, <2>8, Zenon
<1>3. CASE SendCreateLease
  <2>1. step = 4 /\ phase = "execute" /\ call = "none"
    BY <1>3, AtStep DEF SendCreateLease
  <2>2. chosen \in chain.bids /\ chosen \in Providers
    BY <2>1 DEF BidsFirst, World
  <2>3. World'
    <3>1. /\ call' = "sent" /\ UNCHANGED <<file, remembered, chain, held, report>>
          /\ mempool' = mempool \cup {[msg |-> "lease", provider |-> chosen]}
      BY <1>3, Zenon DEF SendCreateLease
    <3> QED
      BY <2>2, <3>1, SMTT(30) DEF World
  <2>4. CreatedOnce'
    <3>1. /\ UNCHANGED <<remembered, chain, step, phase, result>>
          /\ mempool' = mempool \cup {[msg |-> "lease", provider |-> chosen]}
      BY <1>3, Zenon DEF SendCreateLease
    <3>2. \A tx \in mempool' : tx.msg = "create" => tx.sdl = remembered
      BY <3>1 DEF CreatedOnce
    <3>3. remembered # NoSDL
      BY <2>1 DEF CreatedOnce
    <3> QED
      BY <2>1, <3>1, <3>2, <3>3, Zenon DEF CreatedOnce
  <2>5. UNCHANGED <<chain, seen, chosen, step, held>>
    BY <1>3, Zenon DEF SendCreateLease
  <2>6. BidsFirst'
    <3>1. \A tx \in mempool' : tx.msg = "lease" => tx.provider \in chain.bids
      BY <1>3, <2>2 DEF SendCreateLease, BidsFirst
    <3> QED
      BY <2>5, <3>1 DEF BidsFirst, Created
  <2>7. ManifestMatchesChain'
    BY <2>5 DEF ManifestMatchesChain
  <2> QED
    BY <1>1, <2>3, <2>4, <2>6, <2>7
<1> QED
  BY <1>2, <1>3, Zenon

(* A step of the definition that fails, before or after its request. *)
LEMMA FailDInv ==
    ASSUME DInv, StepFails \/ ReplyLost
    PROVE  DInv'
<1> USE DEF DInv, options, runVars, chainVars
<1>0. Fails
  BY DEF StepFails, ReplyLost
<1>1. /\ Loop'
      /\ phase = "execute" /\ step' = step /\ step \in 1..6
      /\ \/ phase' = "delay" /\ result' = result
         \/ phase' = "done" /\ result' = [result EXCEPT ![step] = "failed"]
  BY <1>0, FailFacts, Zenon
<1>2. OnChain' /\ World'
  BY DEF StepFails, ReplyLost, OnChain, World
<1>3. step > 1 => result'[1] = result[1]
  BY <1>1 DEF Loop
<1>4. CreatedOnce'
  <2>1. CASE StepFails
    <3>1. UNCHANGED <<remembered, chain, mempool, call>> /\ call = "none"
      BY <2>1 DEF StepFails
    <3>2. CASE remembered = NoSDL
      BY <1>1, <3>1, <3>2, SMTT(30) DEF CreatedOnce
    <3>3. CASE remembered # NoSDL
      <4>1. step # 1
        BY <1>1, <3>1, <3>3, Zenon DEF CreatedOnce
      <4> QED
        BY <1>1, <1>3, <3>1, <3>3, <4>1, Zenon DEF CreatedOnce
    <3> QED
      BY <3>2, <3>3
  <2>2. CASE ReplyLost
    BY <1>1, <1>3, <2>2 DEF ReplyLost, CreatedOnce, Loop
  <2> QED
    BY <2>1, <2>2
<1>5. BidsFirst' /\ ManifestMatchesChain'
  BY <1>1, Zenon DEF StepFails, ReplyLost, BidsFirst, Created, ManifestMatchesChain
<1>6. Reporting'
  BY <1>1 DEF StepFails, ReplyLost, Reporting
<1> QED
  BY <1>1, <1>2, <1>4, <1>5, <1>6
(* The engine goes from one step to the next, tries again, or ends. *)
LEMMA EngineDInv ==
    ASSUME DInv, EngineStep
    PROVE  DInv'
<1> USE DEF DInv, options, runVars, chainVars
<1>1. /\ Loop'
      /\ step' = step /\ result'[1] = result[1]
      /\ phase = "check" \/ (phase = "delay" /\ step = 5)
      /\ phase' \in {"execute", "done"}
  BY EngineFacts
<1>2. OnChain' /\ World'
  BY Zenon DEF EngineStep, OnChain, World
<1>3. CreatedOnce'
  BY <1>1 DEF EngineStep, CreatedOnce, Loop
<1>4. BidsFirst' /\ ManifestMatchesChain'
  BY <1>1, Zenon DEF EngineStep, BidsFirst, Created, ManifestMatchesChain
<1>5. Reporting'
  BY <1>1 DEF EngineStep, Reporting
<1> QED
  BY <1>1, <1>2, <1>3, <1>4, <1>5

(* The engine moves on, or not, and nothing changes on the chain. *)
LEMMA BidsFirstKept ==
    ASSUME BidsFirst, UNCHANGED <<chain, mempool>>, seen' \subseteq chain.bids,
           step' >= 4 => chosen' \in seen',
           step' >= 6 => chosen' \in chain.leases /\ held'[chosen'] # NoSDL
    PROVE  BidsFirst'
  BY DEF BidsFirst, Created

LEMMA CreatedOnceKept ==
    ASSUME CreatedOnce, UNCHANGED <<remembered, chain, mempool>>, remembered # NoSDL,
           call' # "sent", step' > 1, step' \in Int, result'[1] = "success"
    PROVE  CreatedOnce'
  BY DEF CreatedOnce

(* A step of the definition that succeeds. *)
LEMMA SucceedDInv ==
    ASSUME DInv,
           \/ ReplyArrives
           \/ BidsArrive
           \/ \E p \in Providers : SelectBid(p)
           \/ DisplayResult
    PROVE  DInv'
<1> USE DEF DInv, options, runVars, chainVars
<1>0. Succeeds
  BY DEF ReplyArrives, BidsArrive, SelectBid, DisplayResult
<1>1. /\ Loop'
      /\ phase = "execute" /\ phase' = "check" /\ step' = step + 1
      /\ result' = [result EXCEPT ![step] = "success"]
      /\ step \in 1..6
  BY <1>0, SucceedFacts, Zenon
<1>2. OnChain' /\ World'
  BY DEF ReplyArrives, BidsArrive, SelectBid, DisplayResult, OnChain, World
<1>3. result'[1] = IF step = 1 THEN "success" ELSE result[1]
  BY <1>1, SMTT(30) DEF Loop
<1>4. Reporting'
  BY <1>1, Zenon DEF ReplyArrives, BidsArrive, SelectBid, DisplayResult, Reporting
<1>5. ManifestMatchesChain'
  BY DEF ReplyArrives, BidsArrive, SelectBid, DisplayResult, ManifestMatchesChain
<1>6. CASE ReplyArrives
  <2>1. call = "sent" /\ step \in {1, 4} /\ remembered # NoSDL
    BY <1>6 DEF ReplyArrives, CreatedOnce
  <2>2. CreatedOnce'
    <3>1. UNCHANGED <<remembered, chain, mempool>> /\ remembered # NoSDL
      BY <1>6, <2>1, Zenon DEF ReplyArrives, CreatedOnce
    <3>2. call' # "sent"
      BY <1>6, <2>1 DEF ReplyArrives, CreatedOnce
    <3>3. step' > 1 /\ step' \in Int
      BY <1>1
    <3>4. result'[1] = "success"
      BY <1>1, <1>3 DEF CreatedOnce
    <3> QED
      BY <3>1, <3>2, <3>3, <3>4, CreatedOnceKept, Zenon
  <2>3. BidsFirst'
    <3>1. UNCHANGED <<chain, mempool>> /\ seen' \subseteq chain.bids
      BY <1>6 DEF ReplyArrives, BidsFirst
    <3>2. /\ step' >= 4 => chosen' \in seen'
          /\ step' >= 6 => chosen' \in chain.leases /\ held'[chosen'] # NoSDL
      <4>1. UNCHANGED <<seen, chosen>> /\ step' \in {2, 5}
        BY <1>1, <1>6, <2>1, SMTT(30) DEF ReplyArrives
      <4>2. step' = 5 => chosen \in seen
        BY <1>1, <2>1, SMTT(30) DEF BidsFirst
      <4> QED
        BY <4>1, <4>2, SMTT(30)
    <3> QED
      BY <3>1, <3>2, BidsFirstKept, Zenon
  <2> QED
    BY <1>1, <1>2, <1>4, <1>5, <2>2, <2>3, Zenon
<1>7. CASE BidsArrive
  <2>1. step = 2
    BY <1>7, AtStep, Zenon DEF BidsArrive
  <2>2. CreatedOnce'
    <3>1. UNCHANGED <<remembered, chain, mempool>> /\ remembered # NoSDL
      BY <1>7, <2>1, SMTT(30) DEF BidsArrive, CreatedOnce
    <3>2. call' # "sent"
      BY <1>7, <2>1, SMTT(30) DEF BidsArrive, CreatedOnce
    <3>3. step' > 1 /\ step' \in Int
      BY <1>1
    <3>4. result'[1] = "success"
      BY <1>1, <1>3 DEF CreatedOnce
    <3> QED
      BY <3>1, <3>2, <3>3, <3>4, CreatedOnceKept
  <2>3. BidsFirst'
    <3>1. UNCHANGED <<chain, mempool>> /\ seen' \subseteq chain.bids
      BY <1>7 DEF BidsArrive, BidsFirst
    <3>2. /\ step' >= 4 => chosen' \in seen'
          /\ step' >= 6 => chosen' \in chain.leases /\ held'[chosen'] # NoSDL
      BY <1>1, <2>1
    <3> QED
      BY <3>1, <3>2, BidsFirstKept
  <2> QED
    BY <1>1, <1>2, <1>4, <1>5, <2>2, <2>3
<1>8. ASSUME NEW p \in Providers, SelectBid(p) PROVE DInv'
  <2>1. step = 3
    BY <1>8, AtStep DEF SelectBid
  <2>2. CreatedOnce'
    <3>1. UNCHANGED <<remembered, chain, mempool>> /\ remembered # NoSDL
      BY <1>8, <2>1, SMTT(30) DEF SelectBid, CreatedOnce
    <3>2. call' # "sent"
      BY <1>8, <2>1 DEF SelectBid, CreatedOnce
    <3>3. step' > 1 /\ step' \in Int
      BY <1>1
    <3>4. result'[1] = "success"
      BY <1>1, <1>3 DEF CreatedOnce
    <3> QED
      BY <3>1, <3>2, <3>3, <3>4, CreatedOnceKept, Zenon
  <2>3. BidsFirst'
    <3>1. UNCHANGED <<chain, mempool>> /\ seen' \subseteq chain.bids
      BY <1>8 DEF SelectBid, BidsFirst
    <3>2. /\ step' >= 4 => chosen' \in seen'
          /\ step' >= 6 => chosen' \in chain.leases /\ held'[chosen'] # NoSDL
      <4>1. chosen' \in seen' /\ step' = 4
        BY <1>1, <1>8, <2>1, SMTT(30) DEF SelectBid
      <4> QED
        BY <4>1
    <3> QED
      BY <3>1, <3>2, BidsFirstKept, Zenon
  <2> QED
    BY <1>1, <1>2, <1>4, <1>5, <2>2, <2>3, Zenon
<1>9. CASE DisplayResult
  <2>1. step = 6
    BY <1>9, AtStep, Zenon DEF DisplayResult
  <2>2. CreatedOnce'
    <3>1. UNCHANGED <<remembered, chain, mempool>> /\ remembered # NoSDL
      BY <1>9, <2>1, SMTT(30) DEF DisplayResult, CreatedOnce
    <3>2. call' # "sent"
      BY <1>9, <2>1, SMTT(30) DEF DisplayResult, CreatedOnce
    <3>3. step' > 1 /\ step' \in Int
      BY <1>1
    <3>4. result'[1] = "success"
      BY <1>1, <1>3 DEF CreatedOnce
    <3> QED
      BY <3>1, <3>2, <3>3, <3>4, CreatedOnceKept
  <2>3. BidsFirst'
    <3>1. UNCHANGED <<chain, mempool>> /\ seen' \subseteq chain.bids
      BY <1>9 DEF DisplayResult, BidsFirst
    <3>2. /\ step' >= 4 => chosen' \in seen'
          /\ step' >= 6 => chosen' \in chain.leases /\ held'[chosen'] # NoSDL
      <4>1. UNCHANGED <<seen, chosen, held>>
        BY <1>9 DEF DisplayResult
      <4>2. chosen \in seen /\ chosen \in chain.leases /\ held[chosen] # NoSDL
        BY <2>1, SMTT(30) DEF BidsFirst
      <4> QED
        BY <4>1, <4>2
    <3> QED
      BY <3>1, <3>2, BidsFirstKept
  <2> QED
    BY <1>1, <1>2, <1>4, <1>5, <2>2, <2>3
<1> QED
  BY <1>6, <1>7, <1>8, <1>9, Zenon

(***************************************************************************)
(* The manifest: the provider has bid on a deployment, which was created   *)
(* from the text remembered, so that is what it gets.                      *)
(***************************************************************************)
LEMMA ManifestDInv ==
    ASSUME DInv, SendManifest
    PROVE  DInv'
<1> USE DEF DInv, options, runVars, chainVars
<1>1. phase = "execute" /\ step = 5 /\ chosen \in chain.leases
  BY AtStep, Zenon DEF SendManifest
<1>2. chosen \in Providers /\ Created /\ chain.sdl = remembered
  BY <1>1, Zenon DEF BidsFirst, World, CreatedOnce, Created
<1>3. held' = [held EXCEPT ![chosen] = chain.sdl]
  BY <1>2, Zenon DEF SendManifest, providerSDL, Created
<1>4. OnChain' /\ World'
  BY <1>3, Zenon DEF SendManifest, OnChain, World
<1>5. ManifestMatchesChain' /\ held'[chosen] # NoSDL
  BY <1>2, <1>3 DEF SendManifest, ManifestMatchesChain, World, Created
<1>6. CASE Succeeds
  <2>1. /\ Loop' /\ phase' = "check" /\ step' = 6
        /\ result' = [result EXCEPT ![step] = "success"]
    BY <1>1, <1>6, SucceedFacts, SMTT(30)
  <2>2. CreatedOnce' /\ Reporting'
    <3>1. UNCHANGED <<remembered, chain, mempool, call, report>> /\ step = 5
      BY <1>1 DEF SendManifest
    <3>2. remembered # NoSDL /\ call # "sent" /\ result[1] = "success"
      BY <3>1 DEF CreatedOnce
    <3>3. result'[1] = result[1]
      BY <2>1, <3>1 DEF Loop
    <3>4. CreatedOnce'
      BY <2>1, <3>1, <3>2, <3>3, CreatedOnceKept, SMTT(30)
    <3> QED
      BY <1>1, <2>1, <3>1, <3>4, Zenon DEF Reporting
  <2>3. BidsFirst'
    <3>1. UNCHANGED <<chain, mempool>> /\ seen' \subseteq chain.bids
      BY DEF SendManifest, BidsFirst
    <3>2. /\ step' >= 4 => chosen' \in seen'
          /\ step' >= 6 => chosen' \in chain.leases /\ held'[chosen'] # NoSDL
      <4>1. UNCHANGED <<seen, chosen>> /\ chosen \in chain.leases
        BY Zenon DEF SendManifest
      <4>2. chosen \in seen
        BY <1>1 DEF BidsFirst
      <4> QED
        BY <1>5, <4>1, <4>2, Zenon
    <3> QED
      BY <3>1, <3>2, BidsFirstKept, Zenon
  <2> QED
    BY <1>4, <1>5, <2>1, <2>2, <2>3, Zenon
<1>7. CASE Fails
  <2>1. /\ Loop' /\ step' = 5 /\ phase' \in {"delay", "done"}
        /\ result'[1] = result[1]
    <3>1. /\ Loop' /\ step' = step /\ phase' \in {"delay", "done"}
          /\ result' = result \/ result' = [result EXCEPT ![step] = "failed"]
      BY <1>7, FailFacts
    <3>2. result'[1] = result[1]
      BY <1>1, <3>1, SMTT(30) DEF Loop
    <3> QED
      BY <1>1, <3>1, <3>2
  <2>2. CreatedOnce' /\ Reporting'
    <3>1. UNCHANGED <<remembered, chain, mempool, call, report>> /\ step = 5
      BY <1>1 DEF SendManifest
    <3>2. remembered # NoSDL /\ call # "sent" /\ result[1] = "success"
      BY <3>1 DEF CreatedOnce
    <3>3. CreatedOnce'
      BY <2>1, <3>1, <3>2, CreatedOnceKept, SMTT(30)
    <3> QED
      BY <1>1, <2>1, <3>1, <3>3, Zenon DEF Reporting
  <2>3. BidsFirst'
    <3>1. UNCHANGED <<chain, mempool>> /\ seen' \subseteq chain.bids
      BY DEF SendManifest, BidsFirst
    <3>2. /\ step' >= 4 => chosen' \in seen'
          /\ step' >= 6 => chosen' \in chain.leases /\ held'[chosen'] # NoSDL
      <4>1. UNCHANGED <<seen, chosen>>
        BY Zenon DEF SendManifest
      <4>2. chosen \in seen
        BY <1>1 DEF BidsFirst
      <4> QED
        BY <2>1, <4>1, <4>2
    <3> QED
      BY <3>1, <3>2, BidsFirstKept
  <2> QED
    BY <1>4, <1>5, <2>1, <2>2, <2>3, Zenon
<1> QED
  BY <1>6, <1>7, Zenon DEF SendManifest
(* The report: what it says of the deployment is what was recorded. *)
LEMMA ReportDInv ==
    ASSUME DInv, RunFailed \/ RunSucceeded
    PROVE  DInv'
<1> USE DEF DInv, engineVars, options, runVars, chainVars
<1>1. OnChain' /\ Loop' /\ CreatedOnce' /\ BidsFirst' /\ ManifestMatchesChain'
  BY Zenon DEF RunFailed, RunSucceeded, OnChain, Loop, CreatedOnce, BidsFirst, Created,
         ManifestMatchesChain
<1>2. \A ok \in BOOLEAN : advice(ok) \in Report
  BY DEF advice, Report
<1>3. World'
  BY <1>2, Zenon DEF RunFailed, RunSucceeded, World
<1>4. Reporting'
  <2>1. CASE RunFailed
    BY <2>1, ResultOfCreate, Zenon DEF RunFailed, Reporting, advice
  <2>2. CASE RunSucceeded
    BY <2>2, Zenon DEF RunSucceeded, Reporting, advice, Loop
  <2> QED
    BY <2>1, <2>2
<1> QED
  BY <1>1, <1>3, <1>4

(* Every step keeps the invariant. *)
LEMMA NextDInv == DInv /\ [Next]_vars => DInv'
<1> SUFFICES ASSUME DInv, [Next]_vars PROVE DInv'
  BY Zenon
<1>1. CASE UNCHANGED vars
  <2> USE <1>1 DEF vars, engineVars, options, runVars, chainVars
  <2>1. OnChain' /\ Loop' /\ World'
    BY Zenon DEF DInv, OnChain, Loop, World
  <2>2. CreatedOnce' /\ BidsFirst'
    BY Zenon DEF DInv, CreatedOnce, BidsFirst, Created
  <2>3. ManifestMatchesChain' /\ Reporting'
    BY Zenon DEF DInv, ManifestMatchesChain, Reporting
  <2> QED
    BY <2>1, <2>2, <2>3, Zenon DEF DInv
<1>2. CASE RunStep
  BY <1>2, EngineDInv, FailDInv, SendDInv, SucceedDInv, ManifestDInv, ReportDInv
  DEF RunStep
<1>3. CASE \E tx \in mempool : Deliver(tx)
  BY <1>3, DeliverDInv
<1>4. CASE \/ EditFile
           \/ \E p \in Providers : ProviderBids(p) \/ ConsoleDelivers(p)
           \/ Cancel
  BY <1>4, EnvironmentDInv
<1> QED
  BY <1>1, <1>2, <1>3, <1>4 DEF Next, Reported

(* The invariant holds throughout a run on the chain rail. *)
THEOREM Invariance == Spec => (OnChain => []DInv)
  BY InitDInv, NextDInv, PTL DEF Spec

(***************************************************************************)
(* On the chain rail, for any number of providers and edits, a provider    *)
(* that holds a manifest holds the one of the deployment transaction       *)
(* (remember and providerSDL).                                             *)
(***************************************************************************)
THEOREM ManifestMatchesChainThm == Spec => (OnChain => []ManifestMatchesChain)
<1>1. DInv => ManifestMatchesChain
  BY Zenon DEF DInv
<1> QED
  BY <1>1, Invariance, PTL

(***************************************************************************)
(* On the chain rail a run that reports success has a deployment, a lease  *)
(* of the selected provider and its manifest there, with or without        *)
(* waiting for the services.                                               *)
(***************************************************************************)
THEOREM SuccessIsRealThm == Spec => (OnChain => []SuccessIsReal)
<1>1. DInv => SuccessIsReal
  BY DEF DInv, Reporting, BidsFirst, SuccessIsReal
<1> QED
  BY <1>1, Invariance, PTL

(***************************************************************************)
(* On the chain rail a failed run whose replies all arrived names the      *)
(* command that closes the deployment, if there is one or a transaction    *)
(* that may still create it (deployRecoveryAdvice).                        *)
(***************************************************************************)
THEOREM NoSilentOrphanThm == Spec => (OnChain => []NoSilentOrphan)
<1>1. ASSUME DInv PROVE NoSilentOrphan
  <2> SUFFICES ASSUME report.status = "failure", ~lost,
                      Created \/ \E tx \in mempool : tx.msg = "create"
               PROVE  report.cleanup
    BY Zenon DEF NoSilentOrphan
  <2>1. phase = "done" /\ remembered # NoSDL
    BY <1>1, Zenon DEF DInv, Reporting, CreatedOnce, Created
  <2>2. step # 1 /\ step \in 1..7
    BY <1>1, <2>1 DEF DInv, CreatedOnce, Loop
  <2> QED
    BY <1>1, <2>2 DEF DInv, CreatedOnce, Reporting
<1> QED
  BY <1>1, Invariance, PTL
=============================================================================
