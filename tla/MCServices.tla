----------------------------- MODULE MCServices -----------------------------
(***************************************************************************)
(* The parts that run below a command or beside it, with variables of      *)
(* their own: the workflow engine, the event service with its bridge to    *)
(* the store, and the life of the monitor.                                 *)
(***************************************************************************)
EXTENDS WorkflowEngine

CONSTANTS
    MaxUpdates, MaxStarts,                             \* events
    Hosts, NoHost, MaxRequests                         \* monitor

VARIABLES
    evChain, headers, svc, bus, bridge, store, seen, lost, starts,
    at, open, closing, stopped, tasks, detail

E == INSTANCE EventSync WITH chain <- evChain
M == INSTANCE MonitorRuntime WITH cancelled <- closing

eventVars == <<evChain, headers, svc, bus, bridge, store, seen, lost, starts>>
monitorVars == <<at, open, closing, stopped, tasks, detail>>

-----------------------------------------------------------------------------
(* Events: the store follows the chain. *)
StoreFollowsChain == E!StoreFollowsChain

(* Events: a record never returns to an earlier state. *)
NeverBack == E!NeverBack

(* Monitor: the nodes on screen answer the last request. *)
DetailIsCurrent == M!DetailIsCurrent

(* Monitor: everything is released, once nothing uses it. *)
CleanShutdown == M!CleanShutdown
=============================================================================
