------------------------------- MODULE MCRuns -------------------------------
(***************************************************************************)
(* The two workflows, each on a small instance.  A behaviour is one of     *)
(* either; what only the other has rests.                                  *)
(***************************************************************************)
EXTENDS DeployRun

CONSTANT UpdateProviders

VARIABLES which, leases, round, sent, updated

U == INSTANCE UpdateRun WITH Providers <- UpdateProviders, held <- updated

updateVars == U!vars
deployOnly == <<rail, noWait, call, lost, mempool, chain, held, seen, chosen, report>>
updateOnly == <<leases, round, sent, updated>>
mcVars == <<which, vars, updateOnly>>

RestDeploy ==
    /\ rail = "chain" /\ noWait = FALSE /\ call = "none" /\ lost = FALSE
    /\ mempool = {} /\ chain = [sdl |-> NoSDL, bids |-> {}, leases |-> {}]
    /\ held = [p \in Providers |-> NoSDL] /\ seen = {} /\ chosen = NoProvider
    /\ report = [status |-> "none", cleanup |-> FALSE, retry |-> FALSE]

RestUpdate ==
    leases = {} /\ round = U!NoRound /\ sent = {} /\ updated = << >>

MCInit ==
    \/ which = "deploy" /\ Init /\ RestUpdate
    \/ which = "update" /\ U!Init /\ RestDeploy

MCNext ==
    \/ which = "deploy" /\ Next /\ UNCHANGED <<which, updateOnly>>
    \/ which = "update" /\ U!Next /\ UNCHANGED <<which, deployOnly>>

MCSpec ==
    /\ MCInit /\ [][MCNext]_mcVars
    /\ WF_vars(which = "deploy" /\ RunStep)
    /\ WF_updateVars(which = "update" /\ U!RunStep)

-----------------------------------------------------------------------------
(* Providers reported as updated hold the update. *)
ReportedProvidersHoldUpdate == which = "update" => U!ReportedProvidersHoldUpdate

(* A round that ends has tried every provider it asked. *)
RoundIsComplete == [][which = "update" => U!RoundOutcome]_mcVars

(* Every deployment run ends with a report, and an update ends although a  *)
(* round can be repeated.                                                  *)
RunsEnd ==
    /\ which = "deploy" => RunReports
    /\ which = "update" => U!RunEnds
=============================================================================
