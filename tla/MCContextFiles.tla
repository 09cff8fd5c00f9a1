--------------------------- MODULE MCContextFiles ---------------------------
(***************************************************************************)
(* The files of a context that processes share: the deployment store and   *)
(* the action log.  A behaviour is one of either; the other rests.         *)
(***************************************************************************)
EXTENDS DeploymentStore, ActionLog, TLC

CONSTANTS o1, p1, c0, c1

MCDeployment ==
    [bucket |-> "deployments", owner |-> o1, dseq |-> 1, provider |-> c0]
MCLease ==
    [bucket |-> "leases", owner |-> o1, dseq |-> 1, provider |-> p1]

MCKeys == {MCDeployment, MCLease}

MCRecord(s, ct, l, v) ==
    [state |-> s, createdAt |-> 1, closedAt |-> ct, local |-> l, chain |-> c0,
     rv |-> v]

MCInputs == {MCRecord("active", 0, c0, 0), MCRecord("closed", 1, c0, 0)}

MCEnvelopeOf(dep, lease, s) ==
    [records |-> [k \in Keys |-> IF k = MCDeployment THEN dep ELSE lease],
     sync |-> s]

(* One file with a record at the last revision, one without sync state. *)
MCEnvelopes ==
    {MCEnvelopeOf(MCRecord("active", 0, c1, 0),
                  MCRecord("active", 0, c0, MaxVersion), NoSync),
     MCEnvelopeOf(NoRecord, MCRecord("insufficient_funds", 0, c1, 2), 1)}

VARIABLE which

mcVars == <<which, vars, logVars>>

MCInit ==
    /\ Init /\ LogInit
    /\ \/ which = "store" /\ files = << >>
       \/ which = "log"

MCNext ==
    \/ which = "store" /\ Next /\ UNCHANGED <<which, logVars>>
    \/ which = "log" /\ LogNext /\ UNCHANGED <<which, vars>>

MCSpec == MCInit /\ [][MCNext]_mcVars

Symmetry == Permutations(Commands)
=============================================================================
