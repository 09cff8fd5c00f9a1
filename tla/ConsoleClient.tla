---------------------------- MODULE ConsoleClient ----------------------------
(***************************************************************************)
(* The Console client: one operation that changes the account, from its    *)
(* checks to its entry in the action log, while another session uses the   *)
(* same account.  A request may be processed and its answer lost, and the  *)
(* answer to a request that was processed may be an error.  The client     *)
(* replays requests of idempotent methods, reads back what it cannot tell, *)
(* and records success, failed, or pending for what stays unknown.         *)
(***************************************************************************)
EXTENDS Naturals

CONSTANTS
    MaxRetries,  \* attempts of one call, and rounds of an update
    MaxEdits     \* bound on what the other session does

VARIABLES
    srv,    \* the account on the server
    cl,     \* the operation
    edits   \* what the other session did so far

vars == <<srv, cl, edits>>

(* lease without a manifest: the server delivers its saved definition;     *)
(* definition: an update that diffs against the saved definition; rename:  *)
(* a patch of nothing but the name.                                        *)
Ops == {"create", "lease", "managedLease", "update", "definition", "patch", "rename",
        "close", "limit", "createKey", "deleteKey", "wallet"}

(* dep: the deployment's state; version, author: of its definition, which  *)
(* is saved or not; made, keys: what this operation added.                 *)
Servers ==
    [dep : {"active", "closed"}, version : {0}, author : {"before"}, saved : BOOLEAN,
     lease : {FALSE}, made : {0}, keys : {0}, key : BOOLEAN, limit : {FALSE},
     name : {FALSE}, wallet : {"none", "off"}]

Method(c) ==
    CASE c.op \in {"create", "lease", "managedLease", "createKey"} -> "POST"
      [] c.op \in {"patch", "rename", "limit"} -> "PATCH"
      [] c.op \in {"close", "deleteKey"} -> "DELETE"
      [] c.op = "update" -> "PUT"
      [] c.op = "wallet" -> IF c.post THEN "POST" ELSE "PUT"

(* named: the version the caller's patch names, if any; guard: the version *)
(* the request requires; sent: requests on the wire.  For the properties:  *)
(* read, the version the preflight read; applied, how often the server     *)
(* carried the request out; met, whether the effect was there since the    *)
(* operation began; blind, whether the read-back failed or was behind.     *)
Init ==
    /\ srv \in Servers
    /\ cl \in [op : Ops, at : {"start"}, named : {{}} \cup {{v} : v \in 0..MaxEdits}, guard : {{}},
               read : {0}, post : {FALSE}, attempt : {1}, round : {1}, answer : {"none"}, sent : {0},
               applied : {0}, met : {FALSE}, blind : {FALSE}, record : {"none"}]
    /\ cl.op \in {"patch", "rename"} \/ cl.named = {}
    /\ edits = 0

-----------------------------------------------------------------------------
(* The effect an operation is for. *)
Goal(s, c) ==
    CASE c.op = "create" -> s.made > 0
      [] c.op \in {"lease", "managedLease"} -> s.lease
      [] c.op \in {"update", "definition", "patch"} -> s.author = "ours"
      [] c.op = "close" -> s.dep = "closed"
      [] c.op = "limit" -> s.limit
      [] c.op = "rename" -> s.name
      [] c.op = "createKey" -> s.keys > 0
      [] c.op = "deleteKey" -> ~s.key
      [] c.op = "wallet" -> s.wallet = "on"

Go(where) == cl' = [cl EXCEPT !.at = where] /\ UNCHANGED <<srv, edits>>

(* Mutant: the error alone decides the status. *)
recordOutcomeTwoValued(status) ==
    /\ cl' = [cl EXCEPT !.at = "end", !.record = IF status = "success" THEN status ELSE "failed"]
    /\ UNCHANGED <<srv, edits>>

recordOutcome(status) ==
    /\ cl' = [cl EXCEPT !.at = "end", !.record = status]
    /\ UNCHANGED <<srv, edits>>

(* The same, after a read that showed the state or did not. *)
recordUnread(seen) ==
    /\ cl' = [cl EXCEPT !.at = "end", !.record = "failed", !.blind = ~seen]
    /\ UNCHANGED <<srv, edits>>

(* Checks of the arguments.  Only CreateLease fails without an entry. *)
Validate ==
    /\ cl.at = "start"
    /\ \/ IF cl.op \in {"lease", "managedLease"} THEN Go("end") ELSE recordOutcome("failed")
       \/ Go(CASE cl.op \in {"update", "definition", "patch", "rename", "close", "limit",
                            "deleteKey"} -> "preflight"
               [] cl.op = "create" -> "seal"
               [] OTHER -> "submit")

(* The operation is refused for what the preflight read shows. *)
Refused ==
    \/ cl.op \in {"update", "definition", "patch", "rename", "close", "limit"} /\ srv.dep = "closed"
    \/ cl.op = "patch" /\ ~srv.saved
    \/ cl.op = "rename" /\ cl.named # {}
    \/ cl.op = "deleteKey" /\ ~srv.key

(* A definition that was not saved is updated in full, as a legacy one is; *)
(* a patch requires the version it names, or else the one read here.       *)
Preflight ==
    /\ cl.at = "preflight"
    /\ \/ recordOutcome("failed")
       \/ /\ ~Refused
          /\ cl' = [cl EXCEPT
                !.at = IF cl.op = "patch" \/ (cl.op = "definition" /\ srv.saved)
                       THEN "seal" ELSE "submit",
                !.op = IF @ # "definition" THEN @ ELSE IF srv.saved THEN "patch" ELSE "update",
                !.guard = IF cl.named = {} THEN {srv.version} ELSE cl.named,
                !.read = srv.version]
          /\ UNCHANGED <<srv, edits>>

(* Secrets are sealed for the key the server publishes. *)
sealSecrets == cl.at = "seal" /\ (recordOutcome("failed") \/ Go("submit"))

(* Mutant: the version a patch requires is read again as it is sent. *)
SubmitLatest ==
    /\ cl.at = "submit"
    /\ cl' = [cl EXCEPT !.at = "sent", !.sent = @ + 1, !.guard = {srv.version}]
    /\ UNCHANGED <<srv, edits>>

Submit ==
    /\ cl.at = "submit"
    /\ cl' = [cl EXCEPT !.at = "sent", !.sent = @ + 1]
    /\ UNCHANGED <<srv, edits>>

-----------------------------------------------------------------------------
(* The server.  It carries the request out or not; whichever it did, the   *)
(* answer may be an error of its own or of an intermediary, may not        *)
(* acknowledge what was asked, or may be lost.  A lease or an update may   *)
(* be refused although it was carried out.                                 *)
Possible ==
    CASE cl.op \in {"lease", "managedLease", "update", "rename", "close"} -> srv.dep = "active"
      [] cl.op = "patch" -> srv.dep = "active" /\ srv.version \in cl.guard
      [] cl.op = "wallet" -> cl.post \/ srv.wallet # "none"
      [] OTHER -> TRUE

Carried ==
    CASE cl.op = "create" -> [srv EXCEPT !.made = @ + 1]
      [] cl.op \in {"lease", "managedLease"} -> [srv EXCEPT !.lease = TRUE]
      [] cl.op \in {"update", "patch"} ->
            [srv EXCEPT !.version = IF srv.author = "ours" THEN @ ELSE @ + 1, !.author = "ours"]
      [] cl.op = "close" -> [srv EXCEPT !.dep = "closed", !.lease = FALSE]
      [] cl.op = "limit" -> [srv EXCEPT !.limit = TRUE]
      [] cl.op = "rename" -> [srv EXCEPT !.name = TRUE]
      [] cl.op = "createKey" -> [srv EXCEPT !.keys = @ + 1]
      [] cl.op = "deleteKey" -> [srv EXCEPT !.key = FALSE]
      [] cl.op = "wallet" -> [srv EXCEPT !.wallet = "on"]

Unclear == {"unacknowledged", "overloaded", "lost"}
                \cup (IF cl.op = "update" THEN {"version"} ELSE {})

Answer(s, a, n) ==
    /\ srv' = s
    /\ cl' = [cl EXCEPT !.at = "answered", !.answer = a, !.applied = @ + n,
                        !.met = @ \/ Goal(s, cl)]
    /\ UNCHANGED edits

ServerCarriesOut ==
    /\ cl.at = "sent" /\ Possible
    /\ \E a \in {"ok"} \cup Unclear
                  \cup (IF cl.op \in {"lease", "managedLease"} THEN {"undelivered"} ELSE {})
                  \cup (IF cl.op \in {"lease", "managedLease", "update"} THEN {"refused"} ELSE {}) :
        Answer(Carried, a, 1)

ServerDoesNot ==
    /\ cl.at = "sent"
    /\ \/ \E a \in Unclear : Answer(srv, a, 0)
       \/ Answer(srv, "refused", 0)
       \/ cl.op \in {"lease", "managedLease"} /\ Answer(srv, "unreachable", 0)
       \/ cl.op = "close" /\ srv.dep = "closed" /\ Answer(srv, "closed", 0)
       \/ cl.op = "wallet" /\ ~Possible /\ Answer(srv, "missing", 0)

(* The other session edits the definition, closes the deployment with its  *)
(* lease or deletes the key.                                               *)
OtherSession ==
    /\ edits < MaxEdits /\ cl.at # "end"
    /\ edits' = edits + 1
    /\ \/ srv' = [srv EXCEPT !.version = @ + 1, !.author = "theirs"]
       \/ srv' = [srv EXCEPT !.dep = "closed", !.lease = FALSE]
       \/ srv' = [srv EXCEPT !.key = FALSE]
    /\ cl' = [cl EXCEPT !.met = @ \/ (cl.at # "start" /\ Goal(srv', cl))]

-----------------------------------------------------------------------------
(* Mutant: a 429 is taken to mean that nothing was processed. *)
retryableAlways(method, answer) == answer = "overloaded"

retryableStatus(method, answer) == answer = "overloaded" /\ method \in {"PUT", "DELETE"}

(* The call is repeated after a delay, unless the context ends first. *)
Replay ==
    /\ cl.at = "answered"
    /\ retryableStatus(Method(cl), cl.answer)
    /\ cl.attempt < MaxRetries
    /\ \/ cl' = [cl EXCEPT !.at = "submit", !.attempt = @ + 1]
       \/ cl' = [cl EXCEPT !.answer = "lost"]
    /\ UNCHANGED <<srv, edits>>

Final == ~(retryableStatus(Method(cl), cl.answer) /\ cl.attempt < MaxRetries)
definitiveCreateFailure == cl.answer \in {"refused", "closed", "missing"}

(* What follows the answer. *)
Succeed == cl.at = "answered" /\ cl.answer = "ok" /\ recordOutcome("success")

(* An answer other than success that is not followed by another attempt.   *)
Failed(ops) == cl.at = "answered" /\ cl.answer # "ok" /\ Final /\ cl.op \in ops

(* One submission: an unclear answer stays pending. *)
SubmittedOnce == recordOutcome(IF definitiveCreateFailure THEN "failed" ELSE "pending")

CreateDeployment == Failed({"create"}) /\ SubmittedOnce
CreateAPIKey == Failed({"createKey"}) /\ SubmittedOnce
PatchDeployment == Failed({"patch", "rename"}) /\ SubmittedOnce

CreateLease ==
    /\ Failed({"lease", "managedLease"})
    /\ CASE cl.answer \in {"undelivered", "unreachable"} -> recordOutcome("failed")
         [] OTHER ->
              IF cl.op = "lease"
              THEN Go(IF definitiveCreateFailure THEN "readBack" ELSE "poll")
              ELSE SubmittedOnce

CloseDeployment ==
    /\ Failed({"close"})
    /\ IF definitiveCreateFailure THEN recordOutcome("failed") ELSE Go("poll")

updateDeploymentSDL == Failed({"update"}) /\ Go("readBack")

SetDeploymentRuntimeLimit == Failed({"limit"}) /\ recordOutcome("failed")
DeleteAPIKey == Failed({"deleteKey"}) /\ recordOutcome("failed")

(* The wallet's record is created when there is none to update. *)
UpdateWalletSettings ==
    /\ Failed({"wallet"})
    /\ IF cl.answer = "missing" /\ ~cl.post
       THEN /\ cl' = [cl EXCEPT !.at = "submit", !.post = TRUE, !.attempt = 1]
            /\ UNCHANGED <<srv, edits>>
       ELSE recordOutcome("failed")

(* One read: what it shows, if it succeeds and is not behind. *)
ReadBack ==
    /\ cl.at = "readBack"
    /\ \E seen \in BOOLEAN :
        IF seen /\ Goal(srv, cl) THEN recordOutcome("success")
        ELSE \/ /\ cl.op = "update" /\ cl.answer = "version" /\ cl.round < MaxRetries
                /\ cl' = [cl EXCEPT !.at = "submit", !.round = @ + 1, !.attempt = 1]
                /\ UNCHANGED <<srv, edits>>
             \/ recordUnread(seen)

(* Mutant: the reads have no window. *)
ReconcileForever == cl.at = "poll" /\ Goal(srv, cl) /\ recordOutcome("success")

(* Reads until the effect shows or the window for it ends. *)
Reconcile ==
    /\ cl.at = "poll"
    /\ (Goal(srv, cl) /\ recordOutcome("success")) \/ recordOutcome("pending")

Client ==
    \/ Validate \/ Preflight \/ sealSecrets \/ Submit \/ ServerCarriesOut \/ ServerDoesNot
    \/ Replay \/ Succeed \/ CreateDeployment \/ CreateAPIKey \/ PatchDeployment \/ CreateLease
    \/ CloseDeployment \/ updateDeploymentSDL \/ SetDeploymentRuntimeLimit \/ DeleteAPIKey
    \/ UpdateWalletSettings \/ ReadBack \/ Reconcile

Next == Client \/ OtherSession

(* Requests and waits have time limits, so the operation never stays in    *)
(* one of its steps.                                                       *)
Spec == Init /\ [][Next]_vars /\ WF_vars(Client)

-----------------------------------------------------------------------------
TypeOK ==
    /\ cl.at \in {"start", "preflight", "seal", "submit", "sent", "answered", "readBack",
                  "poll", "end"}
    /\ cl.attempt \in 1..MaxRetries /\ cl.round \in 1..MaxRetries
    /\ cl.sent \in 0..MaxRetries * MaxRetries + 1
    /\ cl.record \in {"none", "success", "failed", "pending"}

(* What a POST or PATCH asks for is done at most once: such a request is   *)
(* never sent again (client.go, retryableStatus).                          *)
DoneOnce ==
    cl.op \in {"create", "createKey", "lease", "managedLease", "patch", "rename", "limit"} =>
        cl.sent <= 1 /\ cl.applied <= 1

(* "success" is recorded only if the effect was there while the operation  *)
(* ran, whatever answers were lost or wrong.                               *)
SuccessIsReal == cl.record = "success" => cl.met

(* "failed" is never recorded for money spent or a secret issued: a        *)
(* deployment, a key, a patch or a lease whose request was carried out.    *)
(* CreateLease falls short of it in three cases.  The manifest was not     *)
(* delivered, and the error says that the lease exists.  A lease that      *)
(* exists was refused, and the one read-back failed or was behind, or came *)
(* after the deployment was closed.  Or it was asked for without a         *)
(* manifest: then nothing is read back.                                    *)
FailedMeansUndone ==
    /\ cl.record = "failed"
    /\ cl.op \in {"create", "createKey", "patch", "rename", "lease", "managedLease"}
    => \/ cl.applied = 0
       \/ cl.answer = "undelivered"
       \/ /\ cl.answer = "refused"
          /\ \/ cl.op = "lease" /\ (cl.blind \/ srv.dep = "closed")
             \/ cl.op = "managedLease"

(* The one entry an operation leaves in the action log says what happened  *)
(* (recordOutcome and its callers).                                        *)
RecordIsTrue == SuccessIsReal /\ FailedMeansUndone

(* A patch replaces the definition the client read, or the one its caller  *)
(* named, and no other: the version the server compares is fixed before    *)
(* the secrets are sealed and the request is sent                          *)
(* (deployment_secrets.go, patchDeploymentDefinition).                     *)
ConcurrentEditKept ==
    [][cl.op = "patch" /\ srv'.author = "ours" /\ srv.author # "ours"
          => srv.version = cl.read \/ srv.version \in cl.named]_vars

(* An operation that sent something ends, with its one entry. *)
EndsRecorded == <>(cl.at = "end" /\ (cl.sent > 0 => cl.record # "none"))

(* A close whose outcome is unknown was submitted once (the error it       *)
(* reports says so).                                                       *)
UnknownCloseSentOnce == cl.op = "close" /\ cl.record = "pending" => cl.sent = 1

(* A refused lease that exists all the same is not recorded as failed: a   *)
(* refused request is read back.                                           *)
FailedLeaseIsUndone ==
    cl.op \in {"lease", "managedLease"} /\ cl.answer = "refused" /\ cl.record = "failed" => ~srv.lease

(* A close is reported as done only if this client did it. *)
ClosedByThisClient == cl.op = "close" /\ cl.record = "success" => cl.applied > 0
=============================================================================
