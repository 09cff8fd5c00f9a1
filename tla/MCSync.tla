------------------------------- MODULE MCSync -------------------------------
(***************************************************************************)
(* The two components that keep a local copy of what the chain holds: the  *)
(* store with its reconciliations, and the monitor's provider cache with   *)
(* its checks.  A behaviour is one of the two; the other rests.            *)
(***************************************************************************)
EXTENDS StoreSync, ProviderChecks, TLC

VARIABLE which

mcVars == <<which, vars, checkVars>>

MCKeys == SyncKeys
MCContents == Identities \cup {Nothing}
Symmetry == Permutations(Runs) \cup Permutations(SDLs)

MCInit ==
    \/ which = "store" /\ Init /\ registry = {} /\ ChecksInit
    \/ which = "checks" /\ Init /\ ChecksInit

MCNext ==
    \/ which = "store" /\ Next /\ UNCHANGED <<which, checkVars>>
    \/ which = "checks" /\ ChecksNext /\ UNCHANGED <<which, vars>>

MCSpec == MCInit /\ [][MCNext]_mcVars
=============================================================================
