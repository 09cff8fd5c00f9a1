------------------------------ MODULE MCParts ------------------------------
(***************************************************************************)
(* The services and the recording of outcomes in the store, each on a      *)
(* small instance.  A behaviour is one of them; the others rest.           *)
(***************************************************************************)
EXTENDS MCServices

CONSTANTS
    Keys, Contents, Nothing, NoRecord, MaxVersion, MaxTime, Owner, DSeqs,
    Providers, SDLs, Runs, Nobody, GapThreshold, Modes, MaxHeight,
    MaxSyncs

VARIABLES
    which,
    chain, history, mempool, db, synced, lock, sync, syncs, run, sdlOf

S == INSTANCE StoreSync

storeVars == <<chain, history, mempool, db, synced, lock, sync, syncs, run, sdlOf>>
mcVars == <<which, engineVars, eventVars, storeVars, monitorVars>>

(* Steps that meet every branch of the engine. *)
MCStep(name, known, retry, brief, onError) ==
    [name |-> name, known |-> known, retry |-> retry, brief |-> brief,
     onError |-> onError]

MCSteps == <<MCStep("a", TRUE, 0, FALSE, "abort"),
             MCStep("b", TRUE, 3, TRUE, "continue"),
             MCStep("c", FALSE, 2, FALSE, "skip"),
             MCStep("d", TRUE, 4, FALSE, "")>>

(* What StoreSync's SyncKeys is for its constants. *)
MCKey(bucket, d, p) == [bucket |-> bucket, owner |-> Owner, dseq |-> d, provider |-> p]

MCKeys == {MCKey("deployments", d, Nothing) : d \in DSeqs}
          \cup {MCKey(b, d, p) : b \in {"leases", "bids"}, d \in DSeqs, p \in Providers}

(* What its SDLsAssumption asks for. *)
MCContents == [path : SDLs, hash : SDLs \cup {Nothing}] \cup {Nothing}

MCInit ==
    /\ Init /\ E!Init /\ S!Init /\ M!Init
    /\ which \in {"engine", "events", "store", "monitor"}

MCNext ==
    \/ /\ which = "engine" /\ Next
       /\ UNCHANGED <<which, eventVars, storeVars, monitorVars>>
    \/ /\ which = "events" /\ E!Next
       /\ UNCHANGED <<which, engineVars, storeVars, monitorVars>>
    \/ /\ which = "store" /\ S!Next
       /\ UNCHANGED <<which, engineVars, eventVars, monitorVars>>
    \/ /\ which = "monitor" /\ M!Next
       /\ UNCHANGED <<which, engineVars, eventVars, storeVars>>

MCSpec ==
    /\ MCInit /\ [][MCNext]_mcVars
    /\ WF_engineVars(which = "engine" /\ Work)
    /\ WF_eventVars(which = "events" /\ E!processBlock)
    /\ WF_eventVars(which = "events" /\ E!waitForEvent)
    /\ WF_eventVars(which = "events" /\ E!MatchBid)
    /\ WF_eventVars(which = "events" /\ E!Refresh)
    /\ WF_storeVars(which = "store" /\ S!SyncStep)
    /\ \A r \in Runs : WF_storeVars(which = "store" /\ S!RunStep(r))
    /\ WF_monitorVars(which = "monitor" /\ M!Cleanup)
    /\ \A kind \in {"connect", "socket", "bus", "fetch"} :
          WF_monitorVars(which = "monitor" /\ M!Progress(kind, 0))
    /\ \A id \in 1..MaxRequests :
          WF_monitorVars(which = "monitor" /\ M!Progress("detail", id))

-----------------------------------------------------------------------------
(* What each part has begun, and that it has finished it. *)
Begun ==
    CASE which = "engine" -> TRUE
      [] which = "events" -> svc = "on" /\ ~lost
      [] which = "store" -> \E r \in Runs : run[r].phase = "ended"
      [] which = "monitor" -> at = "cancel"

Finished ==
    CASE which = "engine" -> phase = "done"
      [] which = "events" -> E!Told(store) = E!Told(evChain) \/ lost \/ svc # "on"
      [] which = "store" -> \A r \in Runs : run[r].phase # "ended"
      [] which = "monitor" -> at = "done"

(* Whichever part runs finishes what it has begun, as RunEnds,             *)
(* StoreCatchesUp, OutcomeRecorded and CleanupEnds say of each: a run of   *)
(* the engine ends, a session in which no event is lost catches up with    *)
(* the chain, a run that ended gets to record its outcome or its process   *)
(* dies, and a clean-up ends.                                              *)
PartsProgress == Begun ~> Finished
=============================================================================
