----------------------------- MODULE UpdateRun -----------------------------
(***************************************************************************)
(* One run of `akt update` on the chain rail: the update transaction, then *)
(* the new manifest to every provider with an active lease, one after the  *)
(* other, the whole round being retried when any of them failed.  Leases   *)
(* come and go and the SDL file is edited meanwhile.                       *)
(***************************************************************************)
EXTENDS Integers, Sequences

CONSTANTS
    Providers,  \* providers of the deployment
    MaxEdits    \* bound: edits of the SDL file during the run

NoSDL == -1
SDLs == 0..MaxEdits

StepOf(name, retry) ==
    [name |-> name, known |-> TRUE, retry |-> retry, brief |-> FALSE,
     onError |-> "abort"]

(* builtin/update.yaml. *)
Steps == <<StepOf("update-deployment", 0), StepOf("send-manifest", 3),
           StepOf("display-result", 0)>>

VARIABLES
    step, phase, attempt, result, order, outcome, cancelled, raced, late,
    file,        \* the SDL file
    remembered,  \* DeploymentInputs.sdls
    leases,      \* providers with an active lease, on the chain
    held,        \* the manifest each provider holds; NoSDL is the old one
    round,       \* the round of send-manifest in progress
    sent         \* the providers in the output of send-manifest

engineVars == <<step, phase, attempt, result, order, outcome, cancelled, raced,
                late>>
runVars == <<remembered, round, sent>>
vars == <<engineVars, file, runVars, leases, held>>

Engine == INSTANCE WorkflowEngine

NoRound == [pc |-> "query", asked |-> {}, left |-> {}, ok |-> {}, failed |-> {}]

TypeOK ==
    /\ Engine!TypeOK
    /\ file \in SDLs
    /\ remembered \in SDLs \cup {NoSDL}
    /\ leases \subseteq Providers
    /\ held \in [Providers -> SDLs \cup {NoSDL}]
    /\ round.pc \in {"query", "send"}
    /\ round.left \cup round.ok \cup round.failed = round.asked
    /\ sent \subseteq Providers

Init ==
    /\ Engine!Init
    /\ file = 0
    /\ remembered = NoSDL
    /\ leases \in SUBSET Providers
    /\ held = [p \in Providers |-> NoSDL]
    /\ round = NoRound
    /\ sent = {}

At(name) == phase = "execute" /\ Steps[step].name = name

EditFile ==
    /\ file < MaxEdits
    /\ phase # "done"
    /\ file' = file + 1
    /\ UNCHANGED <<engineVars, runVars, leases, held>>

(* A provider closes its lease, or a new one is won. *)
LeaseChanges(p) ==
    /\ phase # "done"
    /\ leases' = (leases \ {p}) \cup ({p} \ leases)
    /\ UNCHANGED <<engineVars, file, runVars, held>>

EngineStep ==
    /\ \/ Engine!Begin
       \/ Engine!StopCancelled
       \/ Engine!Finish
       \/ Engine!Retry
       \/ Engine!DelayCancelled
    /\ UNCHANGED <<file, runVars, leases, held>>

Cancel ==
    /\ Engine!Cancel
    /\ UNCHANGED <<file, runVars, leases, held>>

(***************************************************************************)
(* update-deployment: prepareChain reads the file, the groups are compared *)
(* with the chain, the text is remembered and the transaction broadcast.   *)
(***************************************************************************)
UpdateDeployment ==
    /\ At("update-deployment")
    /\ remembered' \in {file, NoSDL}
    /\ IF remembered' = file
         THEN Engine!Succeed("success") \/ Engine!Fail
         ELSE Engine!Fail
    /\ UNCHANGED <<file, round, sent, leases, held>>

(* activeLeaseProviders: the leases active at this moment. *)
QueryLeases ==
    /\ At("send-manifest")
    /\ round.pc = "query"
    /\ round' = [NoRound EXCEPT !.pc = "send", !.asked = leases, !.left = leases]
    /\ UNCHANGED <<engineVars, file, remembered, sent, leases, held>>

(* The query, or building the manifest, fails: nobody was sent anything. *)
QueryFails ==
    /\ At("send-manifest")
    /\ round.pc = "query"
    /\ sent' = {}
    /\ Engine!Fail
    /\ UNCHANGED <<file, remembered, round, leases, held>>

providerSDL == IF remembered # NoSDL THEN remembered ELSE file

(***************************************************************************)
(* submitManifest: accepted, refused, or accepted with the answer lost.    *)
(* An error of one provider does not keep the next from being tried.       *)
(***************************************************************************)
Submit(p) ==
    /\ At("send-manifest")
    /\ round.pc = "send"
    /\ p \in round.left
    /\ ~cancelled
    /\ \/ /\ held' = [held EXCEPT ![p] = providerSDL]
          /\ round' = [round EXCEPT !.left = @ \ {p}, !.ok = @ \cup {p}]
       \/ /\ held' \in {held, [held EXCEPT ![p] = providerSDL]}
          /\ round' = [round EXCEPT !.left = @ \ {p}, !.failed = @ \cup {p}]
    /\ UNCHANGED <<engineVars, file, remembered, sent, leases>>

(* Mutant: a round is a success as soon as one provider accepted. *)
RoundEndsPartly ==
    /\ At("send-manifest")
    /\ round.pc = "send"
    /\ round.left = {} \/ cancelled
    /\ sent' = round.ok
    /\ round' = NoRound
    /\ IF round.failed = {} \/ round.ok # {}
         THEN Engine!Succeed("success") ELSE Engine!Fail
    /\ UNCHANGED <<file, remembered, leases, held>>

(* Mutant: the providers asked are reported as the ones that accepted. *)
RoundEndsReportsAsked ==
    /\ At("send-manifest")
    /\ round.pc = "send"
    /\ round.left = {} \/ cancelled
    /\ sent' = round.asked
    /\ round' = NoRound
    /\ IF round.failed = {} /\ round.left = {}
         THEN Engine!Succeed("success") ELSE Engine!Fail
    /\ UNCHANGED <<file, remembered, leases, held>>

(* Mutant: a round with failures is repeated without counting it. *)
RoundEndsRepeats ==
    /\ At("send-manifest")
    /\ round.pc = "send"
    /\ round.left = {} \/ cancelled
    /\ sent' = round.ok
    /\ round' = NoRound
    /\ IF round.failed = {} /\ round.left = {}
         THEN Engine!Succeed("success") ELSE UNCHANGED engineVars
    /\ UNCHANGED <<file, remembered, leases, held>>

(* errors.Join of the failures, the cancellation being one of them. *)
RoundEnds ==
    /\ At("send-manifest")
    /\ round.pc = "send"
    /\ round.left = {} \/ cancelled
    /\ sent' = round.ok
    /\ round' = NoRound
    /\ IF round.failed = {} /\ round.left = {}
         THEN Engine!Succeed("success") ELSE Engine!Fail
    /\ UNCHANGED <<file, remembered, leases, held>>

DisplayResult ==
    /\ At("display-result")
    /\ Engine!Succeed("success") \/ Engine!Fail
    /\ UNCHANGED <<file, runVars, leases, held>>

RunStep ==
    \/ EngineStep
    \/ UpdateDeployment
    \/ QueryLeases
    \/ QueryFails
    \/ \E p \in Providers : Submit(p)
    \/ RoundEnds
    \/ DisplayResult

Done == phase = "done" /\ UNCHANGED vars

Next ==
    \/ EditFile
    \/ \E p \in Providers : LeaseChanges(p)
    \/ Cancel
    \/ RunStep
    \/ Done

(* The run keeps going; nothing is assumed of the providers or the leases. *)
Spec == Init /\ [][Next]_vars /\ WF_vars(RunStep)
-----------------------------------------------------------------------------
(***************************************************************************)
(* An update that reports success reached every provider it reports, with  *)
(* the text the transaction was built from, whatever happened to the file  *)
(* and in earlier rounds; those are all the leases that were active when   *)
(* the last round asked.                                                   *)
(***************************************************************************)
ReportedProvidersHoldUpdate ==
    \A p \in sent : held[p] = remembered

(***************************************************************************)
(* sendManifestToProviders: "Every provider is attempted even when an      *)
(* earlier one rejects the manifest", unless the run is cancelled.  So a   *)
(* provider that was never reached was not asked in the last round.        *)
(***************************************************************************)
RoundOutcome ==
    RoundEnds =>
        /\ result'[step] = "success" =>
              sent' = round.asked /\ \A p \in round.asked : held[p] = remembered
        /\ ~cancelled => round.ok \cup round.failed = round.asked

RoundIsComplete == [][RoundOutcome]_vars

(* The run ends although a round can be repeated and leases keep changing. *)
RunEnds == <>(phase = "done")
=============================================================================
