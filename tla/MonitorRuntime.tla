---------------------------- MODULE MonitorRuntime ----------------------------
(***************************************************************************)
(* The monitor's runtime: the resources Run opens and releases, the group  *)
(* that counts the commands which may outlive the program loop, and the    *)
(* detail view of one provider, whose answers may arrive late.  A command  *)
(* runs on its own goroutine and answers with a message, so answers arrive *)
(* in any order, also after the loop has ended.                            *)
(***************************************************************************)
EXTENDS Naturals

CONSTANTS
    Hosts,           \* providers the detail view can show
    NoHost,
    MaxRequests      \* bound on openings of the detail view

VARIABLES
    at,         \* where Run is: building, in the loop, cleaning up
    open,       \* the resources Run holds
    cancelled,  \* runtimeContext is cancelled
    stopped,    \* the task group takes no more commands
    tasks,      \* commands, and messages not yet handled
    detail      \* the detail view

vars == <<at, open, cancelled, stopped, tasks, detail>>
run == <<at, open, cancelled, stopped>>

Command(kind, of) == [kind |-> kind, of |-> of, id |-> 0, stage |-> "issued", out |-> "none"]

Init ==
    /\ at = "db"
    /\ open = {}
    /\ cancelled = FALSE
    /\ stopped = FALSE
    /\ tasks = {}
    /\ detail = [of |-> NoHost, nodes |-> << >>, loading |-> FALSE, id |-> 0]

-----------------------------------------------------------------------------
(* Building: every failure after the database is open goes to cleanup. *)
Build(step, resources, next) ==
    /\ at = step
    /\ open' = open \cup resources
    /\ at' = next
    /\ UNCHANGED <<cancelled, stopped, tasks, detail>>

OpenDB == Build("db", {"db"}, "stores")
InitializeStores == Build("stores", {"tasks", "bus"}, "client")
StartClient == Build("client", {"client"}, "service")

(* The event service is up and the model's first commands are issued. *)
StartProgram ==
    /\ at = "service"
    /\ open' = open \cup {"events"}
    /\ at' = "loop"
    /\ tasks' = {Command("connect", NoHost), Command("bus", NoHost), Command("fetch", NoHost)}
    /\ UNCHANGED <<cancelled, stopped, detail>>

BuildFails ==
    /\ at \in {"db", "stores", "client", "service"}
    /\ at' = IF at = "db" THEN "done" ELSE "cancel"
    /\ UNCHANGED <<open, cancelled, stopped, tasks, detail>>

Answered == {t \in tasks : t.stage = "answered"}

(* The loop ends: messages not handled yet are dropped. *)
Quit ==
    /\ at = "loop"
    /\ at' = "cancel"
    /\ tasks' = tasks \ Answered
    /\ UNCHANGED <<open, cancelled, stopped, detail>>

-----------------------------------------------------------------------------
(* cleanup, and the task group's StopAndWait. *)
Cancel ==
    /\ at = "cancel"
    /\ cancelled' = TRUE
    /\ at' = "stop"
    /\ UNCHANGED <<open, stopped, tasks, detail>>

Stop ==
    /\ at = "stop"
    /\ stopped' = ("tasks" \in open)
    /\ at' = "wait"
    /\ UNCHANGED <<open, cancelled, tasks, detail>>

Counted == {t \in tasks : t.stage = "running"}

(* Mutant: cleanup does not wait for the commands it cancelled. *)
WaitNot ==
    /\ at = "wait"
    /\ open' = open \ {"tasks"}
    /\ at' = "shutdown"
    /\ UNCHANGED <<cancelled, stopped, tasks, detail>>

Wait ==
    /\ at = "wait"
    /\ Counted = {}
    /\ open' = open \ {"tasks"}
    /\ at' = "shutdown"
    /\ UNCHANGED <<cancelled, stopped, tasks, detail>>

Release(step, resource, next) ==
    /\ at = step
    /\ open' = open \ {resource}
    /\ at' = next
    /\ UNCHANGED <<cancelled, stopped, tasks, detail>>

(* Mutant: the bus is closed first. *)
ShutdownBusFirst ==
    \/ Release("shutdown", "bus", "stopClient")
    \/ Release("stopClient", "client", "closeBus")
    \/ Release("closeBus", "events", "closeDB")
    \/ Release("closeDB", "db", "done")

Shutdown ==
    \/ Release("shutdown", "events", "stopClient")
    \/ Release("stopClient", "client", "closeBus")
    \/ Release("closeBus", "bus", "closeDB")
    \/ Release("closeDB", "db", "done")

-----------------------------------------------------------------------------
(* Commands.  RuntimeTaskGroup.run counts a command, or drops it once the  *)
(* group is stopped; a command that returns leaves a message to the loop.  *)
Start(t) ==
    /\ t.stage = "issued"
    /\ tasks' = IF stopped THEN tasks \ {t}
                ELSE (tasks \ {t}) \cup {[t EXCEPT !.stage = "running"]}
    /\ UNCHANGED <<run, detail>>

Return(t, out) ==
    IF at = "loop" THEN (tasks \ {t}) \cup {[t EXCEPT !.stage = "answered", !.out = out]}
    ELSE tasks \ {t}

(* A chain sync, a provider check, or one of the other reads of the model, *)
(* all of which use the caches of the database.                            *)
Fetch(t) ==
    /\ t.kind = "fetch" /\ t.stage = "running"
    /\ \E out \in IF cancelled THEN {"err"} ELSE {"ok", "err"} : tasks' = Return(t, out)
    /\ UNCHANGED <<run, detail>>

fetchProviderDetail(t) ==
    /\ t.kind = "detail" /\ t.stage = "running"
    /\ \E out \in IF cancelled THEN {"err"} ELSE {"ok", "err"} : tasks' = Return(t, out)
    /\ UNCHANGED <<run, detail>>

(* Mutant: the wait for the next event does not watch the context. *)
waitForBusEventOnly(t) ==
    /\ t.kind = "bus" /\ t.stage = "running"
    /\ ~cancelled
    /\ tasks' = Return(t, "ok")
    /\ UNCHANGED <<run, detail>>

waitForBusEvent(t) ==
    /\ t.kind = "bus" /\ t.stage = "running"
    /\ \E out \in IF cancelled THEN {"ok", "err"} ELSE {"ok"} : tasks' = Return(t, out)
    /\ UNCHANGED <<run, detail>>

(* Mutant: the stream is started and left to itself. *)
connectWebSocketAlone(t) ==
    /\ t.kind = "connect" /\ t.stage = "running"
    /\ \/ tasks' = Return(t, "err")
       \/ /\ ~cancelled
          /\ tasks' = Return(t, "ok") \cup {[Command("socket", NoHost) EXCEPT !.stage = "loose"]}
    /\ UNCHANGED <<run, detail>>

(* The stream's goroutine is adopted, and counted, before the command that *)
(* started it returns.                                                     *)
connectWebSocket(t) ==
    /\ t.kind = "connect" /\ t.stage = "running"
    /\ \/ tasks' = Return(t, "err")
       \/ /\ ~cancelled
          /\ tasks' = Return(t, "ok") \cup {[Command("socket", NoHost) EXCEPT !.stage = "running"]}
    /\ UNCHANGED <<run, detail>>

StreamEnds(t) ==
    /\ t.kind = "socket" /\ t.stage # "issued"
    /\ cancelled
    /\ tasks' = tasks \ {t}
    /\ UNCHANGED <<run, detail>>

-----------------------------------------------------------------------------
(* The detail view.  nodes remembers which request the rows are from. *)
enterProviderDetail(p) ==
    /\ at = "loop"
    /\ detail.of = NoHost
    /\ detail.id < MaxRequests
    /\ detail' = [of |-> p, nodes |-> << >>, loading |-> TRUE, id |-> detail.id + 1]
    /\ tasks' = tasks \cup {[Command("detail", p) EXCEPT !.id = detail.id + 1]}
    /\ UNCHANGED run

leaveProviderDetail ==
    /\ at = "loop"
    /\ detail.of # NoHost
    /\ detail' = [detail EXCEPT !.of = NoHost, !.nodes = << >>, !.loading = FALSE]
    /\ UNCHANGED <<run, tasks>>

(* Mutant: only the provider is compared. *)
handleProviderDetailMsgByHost(t) ==
    /\ t.kind = "detail" /\ t.stage = "answered" /\ at = "loop"
    /\ tasks' = tasks \ {t}
    /\ detail' = IF detail.of # t.of THEN detail
                 ELSE [detail EXCEPT !.loading = FALSE, !.nodes = IF t.out = "ok" THEN <<t.of, t.id>> ELSE @]
    /\ UNCHANGED run

handleProviderDetailMsg(t) ==
    /\ t.kind = "detail" /\ t.stage = "answered" /\ at = "loop"
    /\ tasks' = tasks \ {t}
    /\ detail' = IF detail.of # t.of \/ detail.id # t.id THEN detail
                 ELSE [detail EXCEPT !.loading = FALSE, !.nodes = IF t.out = "ok" THEN <<t.of, t.id>> ELSE @]
    /\ UNCHANGED run

-----------------------------------------------------------------------------
(* The other messages: the wait for an event is armed again, a failed      *)
(* connection is tried again, and a timer issues the next read.            *)
HandleOther(t) ==
    /\ t.kind \in {"bus", "connect", "fetch"} /\ t.stage = "answered" /\ at = "loop"
    /\ tasks' = IF t.kind = "fetch" \/ (t.kind = "bus") = (t.out = "ok")
                THEN (tasks \ {t}) \cup {Command(t.kind, NoHost)} ELSE tasks \ {t}
    /\ UNCHANGED <<run, detail>>

Building == OpenDB \/ InitializeStores \/ StartClient \/ StartProgram \/ BuildFails
Cleanup == Cancel \/ Stop \/ Wait \/ Shutdown

Work(t) ==
    \/ Start(t) \/ Fetch(t) \/ fetchProviderDetail(t) \/ waitForBusEvent(t) \/ connectWebSocket(t)
    \/ StreamEnds(t)

Handle(t) == handleProviderDetailMsg(t) \/ HandleOther(t)

Next ==
    \/ Building \/ Quit \/ Cleanup
    \/ leaveProviderDetail
    \/ \E t \in tasks : Work(t) \/ Handle(t)
    \/ \E p \in Hosts : enterProviderDetail(p)

(* Every command ends: its requests have timeouts and watch the context.   *)
Progress(kind, id) == \E t \in tasks : t.kind = kind /\ t.id = id /\ Work(t)

Fairness ==
    /\ WF_vars(Cleanup)
    /\ \A kind \in {"connect", "socket", "bus", "fetch"} : WF_vars(Progress(kind, 0))
    /\ \A id \in 1..MaxRequests : WF_vars(Progress("detail", id))

Spec == Init /\ [][Next]_vars /\ Fairness

-----------------------------------------------------------------------------
(* The variables keep their types, and one command at a time waits for the *)
(* bus.                                                                    *)
TypeOK ==
    /\ open \subseteq {"db", "tasks", "bus", "client", "events"}
    /\ \A t, u \in tasks : t.kind = "bus" /\ u.kind = "bus" => t = u
    /\ detail.of \in Hosts \cup {NoHost} /\ detail.id \in 0..MaxRequests

(* handleProviderDetailMsg: the nodes on screen are the answer to the last *)
(* request, for the provider on screen.                                    *)
DetailIsCurrent ==
    detail.nodes # << >> => detail.nodes = <<detail.of, detail.id>>

(* cleanup: no command runs once the database or the bus is released, and  *)
(* the event service is down before the bus it publishes to and the client *)
(* it reads from.                                                          *)
ReleasedInOrder ==
    at \in {"shutdown", "stopClient", "closeBus", "closeDB", "done"} =>
        /\ \A t \in tasks : t.stage = "issued"
        /\ "events" \in open => {"bus", "client", "db"} \subseteq open

(* Run: when it returns, from whichever step of the build or from the      *)
(* loop, nothing it opened is left open.                                   *)
NothingLeft == at = "done" => open = {}

(* Run and cleanup: what was opened is released, and only once nothing     *)
(* uses it.                                                                *)
CleanShutdown == ReleasedInOrder /\ NothingLeft

(* cleanup ends, whatever the commands were doing when the loop ended.     *)
CleanupEnds == at = "cancel" ~> at = "done"
=============================================================================
