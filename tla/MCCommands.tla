----------------------------- MODULE MCCommands -----------------------------
(***************************************************************************)
(* Invocations of commands, the operation on the Console account that a    *)
(* command performs, and the provider checks of `akt monitor`.  A          *)
(* behaviour is one of the three; the others rest.                         *)
(***************************************************************************)
EXTENDS Invocation

CONSTANTS
    MaxRetries, MaxEdits,
    Monitored, MaxConcurrentChecks, OnlineEvery, RecentEvery, LongEvery, Threshold,
    MaxChainSyncs

VARIABLES which, srv, cl, edits, registry, cache, chainSyncs, checks, loader

C == INSTANCE ConsoleClient
P == INSTANCE ProviderChecks

consoleVars == <<srv, cl, edits>>
checkVars == <<registry, cache, chainSyncs, checks, loader>>
mcVars == <<which, vars, consoleVars, checkVars>>

AnInvocation == CHOOSE i \in Invocations : TRUE
AnEnvironment == CHOOSE e \in Environments : TRUE
AServer == CHOOSE s \in C!Servers : TRUE

CommandRests == inv = AnInvocation /\ env = AnEnvironment /\ Init
ConsoleRests == srv = AServer /\ C!Init /\ cl.op = "create"
ChecksRest == registry = {} /\ P!ChecksInit

MCInit ==
    \/ which = "command" /\ Init /\ ConsoleRests /\ ChecksRest
    \/ which = "console" /\ CommandRests /\ C!Init /\ ChecksRest
    \/ which = "checks" /\ CommandRests /\ ConsoleRests /\ P!ChecksInit

MCNext ==
    \/ which = "command" /\ Next /\ UNCHANGED <<which, consoleVars, checkVars>>
    \/ which = "console" /\ C!Next /\ UNCHANGED <<which, vars, checkVars>>
    \/ which = "checks" /\ P!ChecksNext /\ UNCHANGED <<which, vars, consoleVars>>

MCSpec ==
    /\ MCInit /\ [][MCNext]_mcVars
    /\ WF_consoleVars(which = "console" /\ C!Client)
    /\ WF_checkVars(which = "checks" /\ P!ProviderCheckTick)
    /\ WF_checkVars(which = "checks" /\ P!SyncMoves)
    /\ \A p \in Monitored : WF_checkVars(which = "checks" /\ P!CheckMoves(p))

-----------------------------------------------------------------------------
(* What a POST or PATCH asks for is done at most once. *)
DoneOnce == C!DoneOnce

(* What is recorded of a Console operation is what happened. *)
RecordIsTrue == C!RecordIsTrue

(* A patch never replaces a definition the client has not read. *)
ConcurrentEditKept == C!ConcurrentEditKept

(* An operation that sent something ends, with its one entry. *)
EndsRecorded == which = "console" => C!EndsRecorded

(* Every provider known is checked. *)
KnownIsChecked == which = "checks" => P!KnownIsChecked
=============================================================================
