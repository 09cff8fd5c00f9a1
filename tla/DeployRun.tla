----------------------------- MODULE DeployRun -----------------------------
(***************************************************************************)
(* One run of `akt deploy`: the built-in definition on the workflow engine *)
(* with the transaction and provider adapters, on the chain rail or on the *)
(* Console rail, up to the report to the user.  The chain, the provider,   *)
(* the Console and whoever edits the SDL file are the environment.         *)
(***************************************************************************)
EXTENDS Integers, Sequences

CONSTANTS
    Providers,  \* providers that may bid
    NoProvider,
    MaxEdits    \* bound: edits of the SDL file during the run

NoSDL == -1

(* An SDL text is the number of edits made before it was read. *)
SDLs == 0..MaxEdits

StepOf(name, retry) ==
    [name |-> name, known |-> TRUE, retry |-> retry, brief |-> FALSE,
     onError |-> "abort"]

(* Mutant: a manifest that cannot be delivered does not stop the run. *)
deployContinues ==
    <<StepOf("create-deployment", 0), StepOf("wait-for-bids", 0),
      StepOf("select-bid", 0), StepOf("create-lease", 0),
      [StepOf("send-manifest", 3) EXCEPT !.onError = "continue"],
      StepOf("display-result", 0)>>

(* builtin/deploy.yaml. *)
deploy ==
    <<StepOf("create-deployment", 0), StepOf("wait-for-bids", 0),
      StepOf("select-bid", 0), StepOf("create-lease", 0),
      StepOf("send-manifest", 3), StepOf("display-result", 0)>>

(* The Console delivers manifests itself. *)
filterProviderSteps(def) ==
    SelectSeq(def, LAMBDA s : s.name # "send-manifest")

VARIABLES
    step, phase, attempt, result, order, outcome, cancelled, raced, late,
    rail,        \* "chain" or "console": where transactions go
    noWait,      \* --no-wait-active
    file,        \* the SDL file
    remembered,  \* DeploymentInputs.sdls: what the transaction was built from
    call,        \* a request whose reply has not arrived
    lost,        \* a reply was lost (auxiliary)
    mempool,     \* requests accepted and not yet executed
    chain,       \* the deployment, its SDL, bids and leases on the chain
    held,        \* the manifest each provider holds
    seen,        \* output of wait-for-bids
    chosen,      \* output of select-bid
    report       \* what the command tells the user

engineVars == <<step, phase, attempt, result, order, outcome, cancelled, raced,
                late>>
chainVars == <<mempool, chain>>
runVars == <<remembered, call, lost, seen, chosen>>
options == <<rail, noWait>>
vars == <<engineVars, options, file, runVars, chainVars, held, report>>

Chain == INSTANCE WorkflowEngine WITH Steps <- deploy
Console == INSTANCE WorkflowEngine WITH Steps <- filterProviderSteps(deploy)

OnChain == rail = "chain"

Steps == IF OnChain THEN deploy ELSE filterProviderSteps(deploy)

(* The engine's way to go on after an execution that succeeded or failed. *)
Succeeds ==
    IF OnChain THEN Chain!Succeed("success") ELSE Console!Succeed("success")
Fails == IF OnChain THEN Chain!Fail ELSE Console!Fail

Report == [status : {"none", "success", "failure"}, cleanup : BOOLEAN,
           retry : BOOLEAN]

TypeOK ==
    /\ IF OnChain THEN Chain!TypeOK ELSE Console!TypeOK
    /\ file \in SDLs
    /\ remembered \in SDLs \cup {NoSDL}
    /\ call \in {"none", "sent"}
    /\ chain.sdl \in SDLs \cup {NoSDL}
    /\ chain.leases \subseteq chain.bids
    /\ held \in [Providers -> SDLs \cup {NoSDL}]
    /\ seen \subseteq Providers
    /\ chosen \in seen \cup {NoProvider}
    /\ report \in Report

Init ==
    /\ rail \in {"chain", "console"}
    /\ noWait \in BOOLEAN
    /\ IF OnChain THEN Chain!Init ELSE Console!Init
    /\ file = 0
    /\ remembered = NoSDL
    /\ call = "none"
    /\ lost = FALSE
    /\ mempool = {}
    /\ chain = [sdl |-> NoSDL, bids |-> {}, leases |-> {}]
    /\ held = [p \in Providers |-> NoSDL]
    /\ seen = {}
    /\ chosen = NoProvider
    /\ report = [status |-> "none", cleanup |-> FALSE, retry |-> FALSE]

(* The step that is executing. *)
At(name) == phase = "execute" /\ Steps[step].name = name

Result(name) ==
    IF \E i \in 1..Len(Steps) : Steps[i].name = name
      THEN result[CHOOSE i \in 1..Len(Steps) : Steps[i].name = name]
      ELSE "none"
-----------------------------------------------------------------------------
(* The environment. *)

EditFile ==
    /\ file < MaxEdits
    /\ report.status = "none"
    /\ file' = file + 1
    /\ UNCHANGED <<options, engineVars, runVars, chainVars, held, report>>

Created == chain.sdl # NoSDL

Execute(tx) ==
    CASE tx.msg = "create" -> [chain EXCEPT !.sdl = tx.sdl]
      [] tx.msg = "lease" -> [chain EXCEPT !.leases = @ \cup {tx.provider}]

(* A block executes the request, or drops it. *)
Deliver(tx) ==
    /\ tx \in mempool
    /\ mempool' = mempool \ {tx}
    /\ chain' \in {chain, Execute(tx)}
    /\ UNCHANGED <<options, engineVars, file, runVars, held, report>>

ProviderBids(p) ==
    /\ Created
    /\ p \notin chain.bids
    /\ chain.leases = {}
    /\ chain' = [chain EXCEPT !.bids = @ \cup {p}]
    /\ UNCHANGED <<options, engineVars, file, runVars, mempool, held, report>>

(* The Console sends the manifest of the saved definition to the lease. *)
ConsoleDelivers(p) ==
    /\ ~OnChain
    /\ p \in chain.leases
    /\ held[p] = NoSDL
    /\ held' = [held EXCEPT ![p] = chain.sdl]
    /\ UNCHANGED <<options, engineVars, file, runVars, chainVars, report>>
-----------------------------------------------------------------------------
(* The engine around the executors. *)

EngineStep ==
    /\ \/ IF OnChain THEN Chain!Begin ELSE Console!Begin
       \/ IF OnChain THEN Chain!StopCancelled ELSE Console!StopCancelled
       \/ IF OnChain THEN Chain!Finish ELSE Console!Finish
       \/ OnChain /\ (Chain!Retry \/ Chain!DelayCancelled)
    /\ UNCHANGED <<options, file, runVars, chainVars, held, report>>

Cancel ==
    /\ Chain!Cancel
    /\ UNCHANGED <<options, file, runVars, chainVars, held, report>>

(* A failure before anything was sent: parameters, a query, a deadline. *)
StepFails ==
    /\ call = "none"
    /\ Fails
    /\ UNCHANGED <<options, file, runVars, chainVars, held, report>>
-----------------------------------------------------------------------------
(* The transaction steps. *)

(***************************************************************************)
(* prepareChain reads the file once, and the text is remembered for the    *)
(* deployment before the broadcast; the Console keeps the text itself.     *)
(***************************************************************************)
SendCreate ==
    /\ At("create-deployment")
    /\ call = "none"
    /\ call' = "sent"
    /\ remembered' = IF OnChain THEN file ELSE remembered
    /\ mempool' = mempool \cup {[msg |-> "create", sdl |-> file]}
    /\ UNCHANGED <<options, engineVars, file, lost, seen, chosen, chain,
                   held, report>>

SendCreateLease ==
    /\ At("create-lease")
    /\ call = "none"
    /\ call' = "sent"
    /\ mempool' = mempool \cup {[msg |-> "lease", provider |-> chosen]}
    /\ UNCHANGED <<options, engineVars, file, remembered, lost, seen, chosen,
                   chain, held, report>>

(***************************************************************************)
(* The reply.  The chain rail answers once the transaction is in the       *)
(* mempool; the Console once it has done what was asked, for a lease with  *)
(* the manifest delivered.                                                 *)
(***************************************************************************)
ReplyArrives ==
    /\ call = "sent"
    /\ ~OnChain =>
          IF At("create-deployment") THEN Created
          ELSE chosen \in chain.leases /\ held[chosen] # NoSDL
    /\ call' = "none"
    /\ Succeeds
    /\ UNCHANGED <<options, file, remembered, lost, seen, chosen, chainVars,
                   held, report>>

(* The reply is lost or an error, whatever became of the request. *)
ReplyLost ==
    /\ call = "sent"
    /\ call' = "none"
    /\ lost' = TRUE
    /\ Fails
    /\ UNCHANGED <<options, file, remembered, seen, chosen, chainVars, held,
                   report>>

(* wait-for-bids: polls until the query shows a bid. *)
BidsArrive ==
    /\ At("wait-for-bids")
    /\ chain.bids # {}
    /\ seen' = chain.bids
    /\ Succeeds
    /\ UNCHANGED <<options, file, remembered, call, lost, chosen, chainVars,
                   held, report>>

(* select-bid: interactive, cheapest or a given provider. *)
SelectBid(p) ==
    /\ At("select-bid")
    /\ p \in seen
    /\ chosen' = p
    /\ Succeeds
    /\ UNCHANGED <<options, file, remembered, call, lost, seen, chainVars,
                   held, report>>

DisplayResult ==
    /\ At("display-result")
    /\ Succeeds
    /\ UNCHANGED <<options, file, runVars, chainVars, held, report>>
-----------------------------------------------------------------------------
(* Mutant: the file is read again for the provider. *)
providerSDLReread == file

(* What is sent to the provider: the remembered text, else the file. *)
providerSDL == IF remembered # NoSDL THEN remembered ELSE file

(***************************************************************************)
(* send-manifest: the provider accepts for a lease that is on the chain.   *)
(* Its answer may be lost, and then the attempt failed although it has     *)
(* the manifest.                                                           *)
(***************************************************************************)
SendManifest ==
    /\ At("send-manifest")
    /\ chosen \in chain.leases
    /\ held' = [held EXCEPT ![chosen] = providerSDL]
    /\ Succeeds \/ Fails
    /\ UNCHANGED <<options, file, runVars, chainVars, report>>
-----------------------------------------------------------------------------
(* Mutant: clean-up is only suggested once a provider was selected. *)
adviceWithProvider(ok) ==
    [status |-> IF ok THEN "success" ELSE "failure",
     cleanup |-> ~ok /\ Result("create-deployment") = "success"
                     /\ chosen # NoProvider,
     retry |-> FALSE]

(* deployRecoveryAdvice and workflowFailureError. *)
advice(ok) ==
    [status |-> IF ok THEN "success" ELSE "failure",
     cleanup |-> ~ok /\ Result("create-deployment") = "success",
     retry |-> /\ ~ok
               /\ Result("create-deployment") = "success"
               /\ chosen # NoProvider
               /\ Result("send-manifest") = "failed"]

(***************************************************************************)
(* The run failed, or it completed and the services were not ready before  *)
(* the deadline or the cancellation.                                       *)
(***************************************************************************)
RunFailed ==
    /\ phase = "done"
    /\ report.status = "none"
    /\ outcome = "completed" => ~noWait
    /\ report' = advice(FALSE)
    /\ UNCHANGED <<options, engineVars, file, runVars, chainVars, held>>

(* Completed, and the services are ready or were not waited for. *)
RunSucceeded ==
    /\ phase = "done"
    /\ report.status = "none"
    /\ outcome = "completed"
    /\ noWait \/ (~cancelled /\ chosen # NoProvider /\ held[chosen] # NoSDL)
    /\ report' = advice(TRUE)
    /\ UNCHANGED <<options, engineVars, file, runVars, chainVars, held>>

Reported == report.status # "none" /\ UNCHANGED vars

RunStep ==
    \/ EngineStep
    \/ StepFails
    \/ SendCreate
    \/ SendCreateLease
    \/ ReplyArrives
    \/ ReplyLost
    \/ BidsArrive
    \/ \E p \in Providers : SelectBid(p)
    \/ SendManifest
    \/ DisplayResult
    \/ RunFailed
    \/ RunSucceeded

Next ==
    \/ EditFile
    \/ \E tx \in mempool : Deliver(tx)
    \/ \E p \in Providers : ProviderBids(p)
    \/ \E p \in Providers : ConsoleDelivers(p)
    \/ Cancel
    \/ RunStep
    \/ Reported

(***************************************************************************)
(* The run itself keeps going: every call has a deadline or the command's  *)
(* context, and a prompt is answered.  Nothing is assumed of the chain,    *)
(* the providers or the Console.                                           *)
(***************************************************************************)
Spec == Init /\ [][Next]_vars /\ WF_vars(RunStep)
-----------------------------------------------------------------------------
(***************************************************************************)
(* A provider runs what the deployment transaction committed to, however   *)
(* the SDL file is edited during the run, the retries included             *)
(* (remember and providerSDL; on the Console rail the saved definition).   *)
(***************************************************************************)
ManifestMatchesChain ==
    \A p \in Providers : held[p] # NoSDL => held[p] = chain.sdl

(***************************************************************************)
(* Success is only reported when the deployment is on the chain with a     *)
(* lease of the selected provider, which holds the manifest.               *)
(***************************************************************************)
SuccessIsReal ==
    report.status = "success" =>
        /\ Created
        /\ chosen \in chain.leases
        /\ held[chosen] # NoSDL

(***************************************************************************)
(* A failed run never leaves a deployment behind in silence: unless a      *)
(* reply was lost, a deployment that exists or may still come to exist is  *)
(* reported with the command that closes it.                               *)
(***************************************************************************)
NoSilentOrphan ==
    /\ report.status = "failure"
    /\ Created \/ \E tx \in mempool : tx.msg = "create"
    /\ ~lost
    => report.cleanup

(* Every run ends with a report, whatever the chain and the provider do. *)
RunReports == <>(report.status # "none")

(***************************************************************************)
(* SPEC.md 2.3.6: a run that failed after create-lease but before          *)
(* send-manifest suggests the command that sends the manifest.             *)
(***************************************************************************)
RetrySuggestedAfterLease ==
    /\ report.status = "failure"
    /\ Result("create-lease") = "success"
    /\ Result("send-manifest") = "none"
    => report.retry
=============================================================================
