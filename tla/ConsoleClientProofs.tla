------------------------- MODULE ConsoleClientProofs -------------------------
(***************************************************************************)
(* An operation on the Console account, for any limits of its retries and  *)
(* any number of edits by another session.  C is the client of MCCommands. *)
(***************************************************************************)
EXTENDS MCCommands, TLAPS

Steps == {"start", "preflight", "seal", "submit", "sent", "answered", "readBack", "poll", "end"}

Answers == {"none", "ok", "unacknowledged", "overloaded", "lost", "version", "refused",
            "undelivered", "unreachable", "closed", "missing"}

ClientType ==
    [op : C!Ops, at : Steps, named : SUBSET Nat, guard : SUBSET Nat, read : Nat, post : BOOLEAN,
     attempt : Nat, round : Nat, answer : Answers, sent : Nat, applied : Nat, met : BOOLEAN,
     blind : BOOLEAN, record : {"none", "success", "failed", "pending"}]

ServerType ==
    [dep : {"active", "closed"}, version : Nat, author : {"before", "ours", "theirs"},
     saved : BOOLEAN, lease : BOOLEAN, made : Nat, keys : Nat, key : BOOLEAN, limit : BOOLEAN,
     name : BOOLEAN, wallet : {"none", "off", "on"}]

(* The operations that must not be carried out twice. *)
Once == {"create", "createKey", "lease", "managedLease", "patch", "rename", "limit"}

Definitive == {"refused", "closed", "missing"}

Leases == {"lease", "managedLease"}

(* Goal, without the cases. *)
Reached(s, op) ==
    \/ op = "create" /\ s.made > 0
    \/ op \in {"lease", "managedLease"} /\ s.lease
    \/ op \in {"update", "definition", "patch"} /\ s.author = "ours"
    \/ op = "close" /\ s.dep = "closed"
    \/ op = "limit" /\ s.limit
    \/ op = "rename" /\ s.name
    \/ op = "createKey" /\ s.keys > 0
    \/ op = "deleteKey" /\ ~s.key
    \/ op = "wallet" /\ s.wallet = "on"

LEMMA GoalReached ==
    ASSUME NEW s, NEW c, c.op \in C!Ops
    PROVE  C!Goal(s, c) <=> Reached(s, c.op)
<1>1. CASE c.op = "create"
  BY <1>1, Zenon DEF C!Goal, Reached
<1>2. CASE c.op \in {"lease", "managedLease"}
  BY <1>2, Zenon DEF C!Goal, Reached
<1>3. CASE c.op \in {"update", "definition", "patch"}
  BY <1>3, Zenon DEF C!Goal, Reached
<1>4. CASE c.op = "close"
  BY <1>4, Zenon DEF C!Goal, Reached
<1>5. CASE c.op = "limit"
  BY <1>5, Zenon DEF C!Goal, Reached
<1>6. CASE c.op = "rename"
  BY <1>6, Zenon DEF C!Goal, Reached
<1>7. CASE c.op = "createKey"
  BY <1>7, Zenon DEF C!Goal, Reached
<1>8. CASE c.op = "deleteKey"
  BY <1>8, Zenon DEF C!Goal, Reached
<1>9. CASE c.op = "wallet"
  BY <1>9, Zenon DEF C!Goal, Reached
<1> QED
  BY <1>1, <1>2, <1>3, <1>4, <1>5, <1>6, <1>7, <1>8, <1>9 DEF C!Ops

(* Only operations that may be repeated are replayed. *)
LEMMA OnceNotReplayed ==
    ASSUME NEW c, c.op \in Once, NEW a
    PROVE  ~C!retryableStatus(C!Method(c), a)
<1>1. CASE c.op \in {"create", "lease", "managedLease", "createKey"}
  <2>1. C!Method(c) = "POST"
    BY <1>1, Zenon DEF C!Method
  <2> QED
    BY <2>1 DEF C!retryableStatus
<1>2. CASE c.op \in {"patch", "rename", "limit"}
  <2>1. C!Method(c) = "PATCH"
    BY <1>2, Zenon DEF C!Method
  <2> QED
    BY <2>1 DEF C!retryableStatus
<1> QED
  BY <1>1, <1>2 DEF Once

(* What the server does reaches the goal, and keeps its shape. *)
LEMMA CarriedReaches ==
    ASSUME srv \in ServerType, cl.op \in C!Ops \ {"definition"}
    PROVE  C!Carried \in ServerType /\ Reached(C!Carried, cl.op)
<1>1. CASE cl.op = "create"
  <2>1. C!Carried = [srv EXCEPT !.made = @ + 1]
    BY <1>1, Zenon DEF C!Carried
  <2> QED
    BY <1>1, <2>1 DEF ServerType, Reached
<1>2. CASE cl.op \in {"lease", "managedLease"}
  <2>1. C!Carried = [srv EXCEPT !.lease = TRUE]
    BY <1>2, Zenon DEF C!Carried
  <2> QED
    BY <1>2, <2>1, Zenon DEF ServerType, Reached
<1>3. CASE cl.op \in {"update", "patch"}
  <2>1. C!Carried = [srv EXCEPT !.version = IF srv.author = "ours" THEN @ ELSE @ + 1, !.author = "ours"]
    BY <1>3, Zenon DEF C!Carried
  <2> DEFINE v == IF srv.author = "ours" THEN srv.version ELSE srv.version + 1
  <2>2. C!Carried = [srv EXCEPT !.version = v, !.author = "ours"] /\ v \in Nat
    BY <2>1 DEF ServerType
  <2> HIDE DEF v
  <2> QED
    BY <1>3, <2>2, Zenon DEF ServerType, Reached
<1>4. CASE cl.op = "close"
  <2>1. C!Carried = [srv EXCEPT !.dep = "closed", !.lease = FALSE]
    BY <1>4, Zenon DEF C!Carried
  <2> QED
    BY <1>4, <2>1, Zenon DEF ServerType, Reached
<1>5. CASE cl.op = "limit"
  <2>1. C!Carried = [srv EXCEPT !.limit = TRUE]
    BY <1>5, Zenon DEF C!Carried
  <2> QED
    BY <1>5, <2>1, Zenon DEF ServerType, Reached
<1>6. CASE cl.op = "rename"
  <2>1. C!Carried = [srv EXCEPT !.name = TRUE]
    BY <1>6, Zenon DEF C!Carried
  <2> QED
    BY <1>6, <2>1, Zenon DEF ServerType, Reached
<1>7. CASE cl.op = "createKey"
  <2>1. C!Carried = [srv EXCEPT !.keys = @ + 1]
    BY <1>7, Zenon DEF C!Carried
  <2> QED
    BY <1>7, <2>1 DEF ServerType, Reached
<1>8. CASE cl.op = "deleteKey"
  <2>1. C!Carried = [srv EXCEPT !.key = FALSE]
    BY <1>8, Zenon DEF C!Carried
  <2> QED
    BY <1>8, <2>1, Zenon DEF ServerType, Reached
<1>9. CASE cl.op = "wallet"
  <2>1. C!Carried = [srv EXCEPT !.wallet = "on"]
    BY <1>9, Zenon DEF C!Carried
  <2> QED
    BY <1>9, <2>1 DEF ServerType, Reached
<1> QED
  BY <1>1, <1>2, <1>3, <1>4, <1>5, <1>6, <1>7, <1>8, <1>9 DEF C!Ops
-----------------------------------------------------------------------------
(* The inductive invariant. *)
Fields == cl \in ClientType /\ srv \in ServerType /\ cl.guard \subseteq {cl.read} \cup cl.named

(* Before the first request, and before the end. *)
Early ==
    /\ cl.op = "definition" => cl.at \in {"start", "preflight", "end"}
    /\ cl.at \in {"start", "preflight", "seal"} => cl.sent = 0 /\ cl.applied = 0
    /\ cl.at # "end" => cl.record = "none"

(* How often a request that must not be repeated was sent and carried out. *)
Sending ==
    cl.op \in Once =>
        /\ cl.sent <= 1 /\ cl.applied <= 1
        /\ cl.at = "submit" => cl.sent = 0 /\ cl.applied = 0
        /\ cl.at = "sent" => cl.applied = 0
        /\ /\ cl.at \in {"answered", "readBack"} /\ cl.answer \in Definitive \cup {"unreachable"}
           /\ ~(cl.op \in Leases /\ cl.answer = "refused")
           => cl.applied = 0

(* What the client may conclude from an answer and from what it reads. *)
Conclusions ==
    /\ cl.at \in {"answered", "readBack", "poll"} /\ Reached(srv, cl.op) => cl.met
    /\ cl.at = "answered" /\ cl.answer = "ok" => cl.met
    /\ cl.at = "readBack" => cl.op = "update" \/ (cl.op = "lease" /\ cl.answer \in Definitive)
    /\ cl.op \in Leases /\ cl.applied > 0 => srv.lease \/ srv.dep = "closed"

CInv == Fields /\ Early /\ Sending /\ Conclusions /\ C!RecordIsTrue

LEMMA InitCInv == C!Init => CInv
<1> SUFFICES ASSUME C!Init PROVE CInv
  OBVIOUS
<1>1. Fields
  <2>1. srv \in ServerType
    <3>1. {0} \subseteq Nat /\ {FALSE} \subseteq BOOLEAN
      OBVIOUS
    <3>2. srv \in C!Servers
      BY DEF C!Init
    <3> QED
      BY <3>1, <3>2, Zenon DEF C!Servers, ServerType
  <2>2. cl \in ClientType /\ cl.guard \subseteq {cl.read} \cup cl.named
    <3> DEFINE Named == {{}} \cup {{v} : v \in 0..MaxEdits}
               First == [op : C!Ops, at : {"start"}, named : Named, guard : {{}}, read : {0},
                         post : {FALSE}, attempt : {1}, round : {1}, answer : {"none"}, sent : {0},
                         applied : {0}, met : {FALSE}, blind : {FALSE}, record : {"none"}]
    <3>1. cl \in First
      BY Zenon DEF C!Init
    <3>2. /\ {0} \subseteq Nat /\ {1} \subseteq Nat /\ {FALSE} \subseteq BOOLEAN
          /\ {"start"} \subseteq Steps /\ {"none"} \subseteq Answers
          /\ {{}} \subseteq SUBSET Nat
      BY DEF Steps, Answers
    <3>5. Named \subseteq SUBSET Nat
      OBVIOUS
    <3> HIDE DEF Named
    <3>3. cl \in ClientType
      BY <3>1, <3>2, <3>5, Zenon DEF ClientType
    <3>4. cl.guard = {}
      BY <3>1
    <3> QED
      BY <3>3, <3>4
  <2> QED
    BY <2>1, <2>2 DEF Fields
<1>2. /\ cl.op \in C!Ops /\ cl.at = "start" /\ cl.sent = 0 /\ cl.applied = 0 /\ cl.record = "none"
  BY DEF C!Init
<1>3. Early /\ Sending /\ Conclusions
  BY <1>2 DEF Early, Sending, Conclusions
<1>4. C!RecordIsTrue
  BY <1>2 DEF C!RecordIsTrue, C!SuccessIsReal, C!FailedMeansUndone
<1> QED
  BY <1>1, <1>3, <1>4 DEF CInv

(* The operation ends with an entry that is true. *)
LEMMA RecordCInv ==
    ASSUME CInv, NEW status \in {"success", "failed", "pending"}, C!recordOutcome(status),
           status = "success" => cl.met,
           status = "failed" /\ cl.op \in Once
              => \/ cl.applied = 0 \/ cl.answer = "undelivered" \/ cl.op = "limit"
                 \/ cl.op = "managedLease" /\ cl.answer = "refused"
    PROVE  CInv'
<1>1. srv' = srv /\ cl' = [cl EXCEPT !.at = "end", !.record = status]
  BY DEF C!recordOutcome
<1>2. /\ cl' \in ClientType /\ cl'.at = "end" /\ cl'.record = status /\ cl'.op = cl.op
      /\ cl'.sent = cl.sent /\ cl'.applied = cl.applied /\ cl'.met = cl.met
      /\ cl'.answer = cl.answer /\ cl'.guard = cl.guard /\ cl'.read = cl.read /\ cl'.named = cl.named
  BY <1>1, Zenon DEF CInv, Fields, ClientType, Steps
<1>3. Fields' /\ Early' /\ Conclusions'
  BY <1>1, <1>2 DEF CInv, Fields, Early, Conclusions
<1>4. Sending'
  BY <1>2 DEF CInv, Sending
<1>5. C!SuccessIsReal' /\ C!FailedMeansUndone'
  BY <1>2 DEF C!SuccessIsReal, C!FailedMeansUndone, Once
<1> QED
  BY <1>3, <1>4, <1>5 DEF CInv, C!RecordIsTrue

(* The operation goes on to another step, with nothing else changed. *)
LEMMA GoCInv ==
    ASSUME CInv, NEW where \in Steps, C!Go(where), cl.at # "end",
           where # "start",
           where \in {"preflight", "seal", "submit"} => cl.at \in {"start", "preflight", "seal"},
           where = "preflight" \/ where = "end" \/ cl.op # "definition",
           where \notin {"sent", "answered"},
           where \in {"readBack", "poll"} => cl.at = "answered",
           where = "readBack" => cl.op = "update" \/ (cl.op = "lease" /\ cl.answer \in Definitive)
    PROVE  CInv'
<1>1. srv' = srv /\ cl' = [cl EXCEPT !.at = where]
  BY DEF C!Go
<1>2. /\ cl' \in ClientType /\ cl'.at = where /\ cl'.record = cl.record /\ cl'.op = cl.op
      /\ cl'.sent = cl.sent /\ cl'.applied = cl.applied /\ cl'.met = cl.met
      /\ cl'.answer = cl.answer /\ cl'.guard = cl.guard /\ cl'.read = cl.read /\ cl'.named = cl.named
  BY <1>1 DEF CInv, Fields, ClientType
<1>3. Fields' /\ Early'
  BY <1>1, <1>2 DEF CInv, Fields, Early
<1>4. Sending'
  BY <1>2 DEF CInv, Sending, Early
<1>5. Conclusions'
  BY <1>1, <1>2 DEF CInv, Conclusions
<1>6. C!SuccessIsReal' /\ C!FailedMeansUndone'
  BY <1>2 DEF CInv, Early, C!SuccessIsReal, C!FailedMeansUndone
<1> QED
  BY <1>3, <1>4, <1>5, <1>6 DEF CInv, C!RecordIsTrue
(* Up to the request. *)
LEMMA BeforeCInv ==
    ASSUME CInv, C!Validate \/ C!Preflight \/ C!sealSecrets \/ C!Submit
    PROVE  CInv'
<1>0. cl \in ClientType /\ srv \in ServerType /\ cl.op \in C!Ops
  BY DEF CInv, Fields, ClientType
<1>1. ASSUME C!Validate PROVE CInv'
  <2>0. cl.at = "start" /\ cl.applied = 0
    BY <1>1 DEF C!Validate, CInv, Early
  <2>1. CASE C!Go("end")
    BY <2>0, <2>1, GoCInv DEF Steps
  <2>2. CASE C!recordOutcome("failed")
    BY <2>0, <2>2, RecordCInv
  <2>3. ASSUME C!Go(CASE cl.op \in {"update", "definition", "patch", "rename", "close", "limit",
                                  "deleteKey"} -> "preflight"
                    [] cl.op = "create" -> "seal"
                    [] OTHER -> "submit")
        PROVE  CInv'
    <3>1. CASE cl.op \in {"update", "definition", "patch", "rename", "close", "limit", "deleteKey"}
      <4>1. C!Go("preflight")
        BY <2>3, <3>1, Zenon
      <4> QED
        BY <2>0, <4>1, GoCInv DEF Steps
    <3>2. CASE cl.op = "create"
      <4>1. C!Go("seal")
        BY <2>3, <3>2, Zenon
      <4> QED
        BY <2>0, <3>2, <4>1, GoCInv DEF Steps
    <3>3. CASE cl.op \notin {"update", "definition", "patch", "rename", "close", "limit",
                             "deleteKey", "create"}
      <4>1. C!Go("submit")
        BY <2>3, <3>3, Zenon
      <4> QED
        BY <2>0, <3>3, <4>1, GoCInv DEF Steps
    <3> QED
      BY <3>1, <3>2, <3>3
  <2> QED
    BY <1>1, <2>1, <2>2, <2>3 DEF C!Validate
<1>2. ASSUME C!Preflight PROVE CInv'
  <2>0. cl.at = "preflight" /\ cl.applied = 0 /\ cl.sent = 0 /\ cl.record = "none"
    BY <1>2 DEF C!Preflight, CInv, Early
  <2>1. CASE C!recordOutcome("failed")
    BY <2>0, <2>1, RecordCInv
  <2>2. CASE ~C!recordOutcome("failed")
    <3> DEFINE where == IF cl.op = "patch" \/ (cl.op = "definition" /\ srv.saved)
                        THEN "seal" ELSE "submit"
               op == IF cl.op # "definition" THEN cl.op ELSE IF srv.saved THEN "patch" ELSE "update"
               guard == IF cl.named = {} THEN {srv.version} ELSE cl.named
    <3>1. cl' = [cl EXCEPT !.at = where, !.op = op, !.guard = guard, !.read = srv.version]
          /\ srv' = srv
      BY <1>2, <2>2 DEF C!Preflight
    <3>2. where \in {"seal", "submit"} /\ op \in C!Ops \ {"definition"} /\ srv.version \in Nat
      BY <1>0 DEF C!Ops, ServerType
    <3>7. guard \in SUBSET Nat /\ guard \subseteq {srv.version} \cup cl.named
      BY <1>0, <3>2 DEF ClientType
    <3> HIDE DEF where, op, guard
    <3>8. /\ cl' \in ClientType /\ cl'.at = where /\ cl'.op = op /\ cl'.guard = guard
          /\ cl'.read = srv.version /\ cl'.named = cl.named
          /\ cl'.sent = cl.sent /\ cl'.applied = cl.applied /\ cl'.record = cl.record
      BY <1>0, <3>1, <3>2, <3>7, Zenon DEF ClientType, Steps
    <3>3. /\ cl' \in ClientType /\ cl'.at = where /\ cl'.op = op
          /\ cl'.guard \subseteq {cl'.read} \cup cl'.named
          /\ cl'.sent = cl.sent /\ cl'.applied = cl.applied /\ cl'.record = cl.record
      BY <3>7, <3>8
    <3>4. Fields' /\ Early'
      BY <1>0, <2>0, <3>1, <3>2, <3>3 DEF Fields, Early
    <3>5. Sending' /\ Conclusions'
      BY <2>0, <3>2, <3>3 DEF Sending, Conclusions
    <3>6. C!SuccessIsReal' /\ C!FailedMeansUndone'
      BY <2>0, <3>3 DEF C!SuccessIsReal, C!FailedMeansUndone
    <3> QED
      BY <3>4, <3>5, <3>6 DEF CInv, C!RecordIsTrue
  <2> QED
    BY <2>1, <2>2
<1>3. ASSUME C!sealSecrets PROVE CInv'
  <2>0. cl.at = "seal" /\ cl.applied = 0 /\ cl.op # "definition"
    BY <1>3 DEF C!sealSecrets, CInv, Early
  <2>1. CASE C!recordOutcome("failed")
    BY <2>0, <2>1, RecordCInv
  <2>2. CASE C!Go("submit")
    BY <2>0, <2>2, GoCInv DEF Steps
  <2> QED
    BY <1>3, <2>1, <2>2 DEF C!sealSecrets
<1>4. ASSUME C!Submit PROVE CInv'
  <2>0. cl.at = "submit" /\ cl.record = "none" /\ cl.op # "definition" /\ srv' = srv
        /\ cl' = [cl EXCEPT !.at = "sent", !.sent = @ + 1]
    BY <1>4 DEF C!Submit, CInv, Early
  <2>1. /\ cl' \in ClientType /\ cl'.at = "sent" /\ cl'.op = cl.op /\ cl'.guard = cl.guard
        /\ cl'.read = cl.read /\ cl'.named = cl.named /\ cl'.sent = cl.sent + 1 /\ cl'.applied = cl.applied
        /\ cl'.record = cl.record
    <3> DEFINE n == cl.sent + 1
    <3>1. n \in Nat /\ cl' = [cl EXCEPT !.at = "sent", !.sent = n]
      BY <1>0, <2>0 DEF ClientType
    <3>2. n = cl.sent + 1
      OBVIOUS
    <3> HIDE DEF n
    <3> QED
      BY <1>0, <3>1, <3>2, Zenon DEF ClientType, Steps
  <2>2. Fields' /\ Early' /\ Conclusions'
    BY <2>0, <2>1 DEF CInv, Fields, Early, Conclusions
  <2>3. Sending'
    BY <2>0, <2>1 DEF CInv, Sending
  <2>4. C!SuccessIsReal' /\ C!FailedMeansUndone'
    BY <2>0, <2>1 DEF C!SuccessIsReal, C!FailedMeansUndone
  <2> QED
    BY <2>2, <2>3, <2>4 DEF CInv, C!RecordIsTrue
<1> QED
  BY <1>1, <1>2, <1>3, <1>4

(* The server answers a request, which it carried out n times. *)
LEMMA AnswerCInv ==
    ASSUME CInv, cl.at = "sent", NEW s \in ServerType, NEW a \in Answers, NEW n \in {0, 1},
           C!Answer(s, a, n),
           a = "ok" => Reached(s, cl.op),
           a \in Definitive \cup {"unreachable"}
              => n = 0 \/ (cl.op \in Leases \cup {"update"} /\ a = "refused"),
           n = 0 => s = srv,
           n = 1 => Reached(s, cl.op)
    PROVE  CInv'
<1>0. cl \in ClientType /\ cl.op \in C!Ops
  BY DEF CInv, Fields, ClientType
<1>1. srv' = s /\ cl' = [cl EXCEPT !.at = "answered", !.answer = a, !.applied = @ + n,
                                   !.met = @ \/ C!Goal(s, cl)]
  BY DEF C!Answer
<1>2. (cl.met \/ C!Goal(s, cl)) \in BOOLEAN
  BY Zenon
<1>3. /\ cl' \in ClientType /\ cl'.at = "answered" /\ cl'.answer = a
      /\ cl'.applied = cl.applied + n /\ cl'.sent = cl.sent /\ cl'.op = cl.op
      /\ cl'.guard = cl.guard /\ cl'.read = cl.read /\ cl'.named = cl.named /\ cl'.record = cl.record
  <2> DEFINE m == cl.met \/ C!Goal(s, cl)
  <2> HIDE DEF m
  <2>1. m \in BOOLEAN
    BY <1>2 DEF m
  <2> DEFINE t == cl.applied + n
  <2>2. cl' = [cl EXCEPT !.at = "answered", !.answer = a, !.applied = t, !.met = m]
    BY <1>1 DEF m
  <2>3. t \in Nat
    BY <1>0 DEF ClientType
  <2>4. t = cl.applied + n
    OBVIOUS
  <2> HIDE DEF t
  <2> QED
    BY <1>0, <2>1, <2>2, <2>3, <2>4, Zenon DEF ClientType, Steps
<1>4. cl'.met <=> cl.met \/ Reached(s, cl.op)
  <2>1. C!Goal(s, cl) <=> Reached(s, cl.op)
    BY <1>0, GoalReached
  <2>2. cl'.met = (cl.met \/ C!Goal(s, cl))
    BY <1>0, <1>1, Zenon DEF ClientType
  <2> QED
    BY <2>1, <2>2, Zenon
<1>5. Fields' /\ Early'
  BY <1>1, <1>3 DEF CInv, Fields, Early
<1>6. Sending'
  BY <1>0, <1>3 DEF CInv, Sending, ClientType, Once, Leases
<1>9. cl'.op \in Leases /\ cl'.applied > 0 => srv'.lease \/ srv'.dep = "closed"
  BY <1>0, <1>1, <1>3 DEF CInv, Conclusions, Reached, Leases, ClientType
<1>7. Conclusions'
  BY <1>1, <1>3, <1>4, <1>9 DEF Conclusions
<1>8. C!SuccessIsReal' /\ C!FailedMeansUndone'
  BY <1>3 DEF CInv, Early, C!SuccessIsReal, C!FailedMeansUndone
<1> QED
  BY <1>5, <1>6, <1>7, <1>8 DEF CInv, C!RecordIsTrue
LEMMA ServerCInv ==
    ASSUME CInv, C!ServerCarriesOut \/ C!ServerDoesNot
    PROVE  CInv'
<1>0. /\ cl.at = "sent" /\ srv \in ServerType /\ cl.op \in C!Ops \ {"definition"}
  BY DEF C!ServerCarriesOut, C!ServerDoesNot, CInv, Fields, ClientType, Early
<1>1. C!Unclear \subseteq {"unacknowledged", "overloaded", "lost", "version"}
  BY DEF C!Unclear
<1>2. ASSUME C!ServerCarriesOut PROVE CInv'
  <2>1. PICK a \in {"ok", "unacknowledged", "overloaded", "lost", "version", "undelivered",
                    "refused"} :
          C!Answer(C!Carried, a, 1) /\ (a = "refused" => cl.op \in Leases \cup {"update"})
    BY <1>1, <1>2 DEF C!ServerCarriesOut, Leases
  <2>2. C!Carried \in ServerType /\ Reached(C!Carried, cl.op)
    BY <1>0, CarriedReaches
  <2> QED
    BY <1>0, <2>1, <2>2, AnswerCInv DEF Answers, Definitive
<1>3. ASSUME C!ServerDoesNot PROVE CInv'
  <2>1. PICK a \in {"unacknowledged", "overloaded", "lost", "version", "refused", "unreachable",
                    "closed", "missing"} : C!Answer(srv, a, 0)
    BY <1>1, <1>3 DEF C!ServerDoesNot
  <2> QED
    BY <1>0, <2>1, AnswerCInv DEF Answers
<1> QED
  BY <1>2, <1>3

(* The other session reaches the goal or leaves it: met remembers. *)
LEMMA OtherCInv ==
    ASSUME CInv, C!OtherSession
    PROVE  CInv'
<1>0. cl \in ClientType /\ srv \in ServerType /\ cl.op \in C!Ops /\ cl.at # "end"
  BY DEF CInv, Fields, ClientType, C!OtherSession
<1>1. srv' \in ServerType
  <2> DEFINE v == srv.version + 1
  <2>1. v \in Nat
    BY <1>0 DEF ServerType
  <2>2. \/ srv' = [srv EXCEPT !.version = v, !.author = "theirs"]
        \/ srv' = [srv EXCEPT !.dep = "closed", !.lease = FALSE]
        \/ srv' = [srv EXCEPT !.key = FALSE]
    BY DEF C!OtherSession
  <2> HIDE DEF v
  <2> QED
    BY <1>0, <2>1, <2>2, Zenon DEF ServerType
<1> DEFINE m == cl.met \/ (cl.at # "start" /\ C!Goal(srv', cl))
<1>2. cl' = [cl EXCEPT !.met = m] /\ m \in BOOLEAN
  BY Zenon DEF C!OtherSession
<1>3. m <=> cl.met \/ (cl.at # "start" /\ Reached(srv', cl.op))
  BY <1>0, GoalReached
<1> HIDE DEF m
<1>4. /\ cl' \in ClientType /\ cl'.at = cl.at /\ cl'.op = cl.op /\ cl'.guard = cl.guard
      /\ cl'.read = cl.read /\ cl'.named = cl.named /\ cl'.answer = cl.answer /\ cl'.sent = cl.sent
      /\ cl'.applied = cl.applied /\ cl'.record = cl.record /\ cl'.met = m
  BY <1>0, <1>2 DEF ClientType
<1>5. Fields' /\ Early' /\ Sending'
  BY <1>1, <1>4 DEF CInv, Fields, Early, Sending
<1>6. Conclusions'
  <2>1. cl'.met <=> cl.met \/ (cl.at # "start" /\ Reached(srv', cl.op))
    BY <1>3, <1>4, Zenon
  <2>2. srv'.lease \/ srv'.dep = "closed" \/ ~(srv.lease \/ srv.dep = "closed")
    BY <1>0 DEF C!OtherSession, ServerType
  <2> QED
    BY <1>4, <2>1, <2>2 DEF CInv, Conclusions
<1>7. C!SuccessIsReal' /\ C!FailedMeansUndone'
  BY <1>0, <1>4 DEF CInv, Early, C!SuccessIsReal, C!FailedMeansUndone
<1> QED
  BY <1>5, <1>6, <1>7 DEF CInv, C!RecordIsTrue

(* Another attempt, round or method: never of an operation in Once. *)
LEMMA AgainCInv ==
    ASSUME CInv, cl.at \in {"answered", "readBack"}, cl.op \in C!Ops \ Once, cl.op # "definition",
           NEW n \in Nat, NEW r \in Nat, NEW post \in BOOLEAN,
           srv' = srv,
           cl' = [cl EXCEPT !.at = "submit", !.attempt = n, !.round = r, !.post = post]
    PROVE  CInv'
<1>1. /\ cl' \in ClientType /\ cl'.at = "submit" /\ cl'.op = cl.op /\ cl'.guard = cl.guard
      /\ cl'.read = cl.read /\ cl'.named = cl.named /\ cl'.record = cl.record
  BY Zenon DEF CInv, Fields, ClientType, Steps
<1>2. Fields' /\ Early' /\ Sending' /\ Conclusions'
  BY <1>1 DEF CInv, Fields, Early, Sending, Conclusions
<1>3. C!SuccessIsReal' /\ C!FailedMeansUndone'
  BY <1>1 DEF CInv, Early, C!SuccessIsReal, C!FailedMeansUndone
<1> QED
  BY <1>2, <1>3 DEF CInv, C!RecordIsTrue
(* After the answer. *)
LEMMA AfterCInv ==
    ASSUME CInv,
           \/ C!Replay \/ C!Succeed \/ C!CreateDeployment \/ C!CreateAPIKey \/ C!PatchDeployment
           \/ C!CreateLease \/ C!CloseDeployment \/ C!updateDeploymentSDL \/ C!SetDeploymentRuntimeLimit
           \/ C!DeleteAPIKey \/ C!UpdateWalletSettings
    PROVE  CInv'
<1>0. /\ cl.at = "answered" /\ cl \in ClientType /\ cl.op \in C!Ops \ {"definition"}
      /\ cl.record = "none"
  BY DEF C!Replay, C!Succeed, C!CreateDeployment, C!CreateAPIKey, C!PatchDeployment, C!CreateLease,
         C!CloseDeployment, C!updateDeploymentSDL, C!SetDeploymentRuntimeLimit, C!DeleteAPIKey,
         C!UpdateWalletSettings, C!Failed, CInv, Fields, ClientType, Early
<1>1. C!definitiveCreateFailure <=> cl.answer \in Definitive
  BY DEF C!definitiveCreateFailure, Definitive
<1>2. /\ cl.op \in Once /\ cl.answer \in Definitive \cup {"unreachable"}
      /\ ~(cl.op \in Leases /\ cl.answer = "refused")
      => cl.applied = 0
  BY <1>0 DEF CInv, Sending
<1>3. ASSUME C!Replay PROVE CInv'
  <2>1. cl.op \notin Once
    BY <1>3, OnceNotReplayed DEF C!Replay
  <2>2. CASE cl' = [cl EXCEPT !.at = "submit", !.attempt = @ + 1]
    <3> DEFINE n == cl.attempt + 1
    <3>1. n \in Nat /\ cl.round \in Nat /\ cl.post \in BOOLEAN
      BY <1>0 DEF ClientType
    <3>2. cl' = [cl EXCEPT !.at = "submit", !.attempt = n]
      BY <2>2
    <3> HIDE DEF n
    <3>3. cl' = [cl EXCEPT !.at = "submit", !.attempt = n, !.round = cl.round, !.post = cl.post]
      BY <1>0, <3>2, Zenon DEF ClientType
    <3>4. srv' = srv
      BY <1>3 DEF C!Replay
    <3> QED
      BY <1>0, <2>1, <3>1, <3>3, <3>4, AgainCInv, Zenon
  <2>3. CASE cl' = [cl EXCEPT !.answer = "lost"]
    <3>1. /\ cl' \in ClientType /\ cl'.at = cl.at /\ cl'.op = cl.op /\ cl'.guard = cl.guard
          /\ cl'.read = cl.read /\ cl'.named = cl.named /\ cl'.answer = "lost" /\ cl'.met = cl.met
          /\ cl'.record = cl.record /\ cl'.applied = cl.applied
      BY <1>0, <2>3, Zenon DEF ClientType, Answers
    <3>2. srv' = srv
      BY <1>3 DEF C!Replay
    <3>3. Fields' /\ Early' /\ Sending'
      BY <1>0, <2>1, <3>1, <3>2 DEF CInv, Fields, Early, Sending
    <3>5. Conclusions'
      BY <1>0, <2>1, <3>1, <3>2 DEF CInv, Conclusions, Leases, Once
    <3>4. C!SuccessIsReal' /\ C!FailedMeansUndone'
      BY <1>0, <3>1 DEF C!SuccessIsReal, C!FailedMeansUndone
    <3> QED
      BY <3>3, <3>4, <3>5 DEF CInv, C!RecordIsTrue
  <2> QED
    BY <1>3, <2>2, <2>3 DEF C!Replay
<1>4. ASSUME C!Succeed PROVE CInv'
  <2>1. C!recordOutcome("success") /\ cl.met
    BY <1>4 DEF C!Succeed, CInv, Conclusions
  <2> QED
    BY <2>1, RecordCInv
<1>5. ASSUME C!SubmittedOnce, cl.op # "lease" PROVE CInv'
  <2>1. PICK status \in {"failed", "pending"} :
          C!recordOutcome(status) /\ (status = "failed" => cl.answer \in Definitive)
    BY <1>1, <1>5 DEF C!SubmittedOnce
  <2> QED
    BY <1>2, <1>5, <2>1, RecordCInv DEF Leases
<1>6. ASSUME C!CreateLease PROVE CInv'
  <2>1. CASE cl.answer \in {"undelivered", "unreachable"}
    <3>1. C!recordOutcome("failed")
      BY <1>6, <2>1, Zenon DEF C!CreateLease
    <3> QED
      BY <1>2, <2>1, <3>1, RecordCInv
  <2>2. CASE cl.answer \notin {"undelivered", "unreachable"}
    <3>1. IF cl.op = "lease" THEN C!Go(IF C!definitiveCreateFailure THEN "readBack" ELSE "poll")
          ELSE C!SubmittedOnce
      BY <1>6, <2>2, Zenon DEF C!CreateLease
    <3>2. CASE cl.op = "lease" /\ C!definitiveCreateFailure
      BY <1>0, <1>1, <3>1, <3>2, GoCInv, Zenon DEF Steps
    <3>3. CASE cl.op = "lease" /\ ~C!definitiveCreateFailure
      BY <1>0, <3>1, <3>3, GoCInv DEF Steps
    <3> QED
      BY <1>5, <3>1, <3>2, <3>3, Zenon
  <2> QED
    BY <2>1, <2>2
<1>7. ASSUME C!CloseDeployment PROVE CInv'
  <2>1. cl.op = "close"
    BY <1>7 DEF C!CloseDeployment, C!Failed
  <2>2. C!recordOutcome("failed") \/ C!Go("poll")
    BY <1>7 DEF C!CloseDeployment
  <2>3. CASE C!recordOutcome("failed")
    BY <2>1, <2>3, RecordCInv DEF Once
  <2>4. CASE C!Go("poll")
    BY <1>0, <2>4, GoCInv DEF Steps
  <2> QED
    BY <2>2, <2>3, <2>4, Zenon
<1>8. ASSUME C!updateDeploymentSDL PROVE CInv'
  BY <1>0, <1>8, GoCInv DEF C!updateDeploymentSDL, C!Failed, Steps
<1>9. ASSUME C!SetDeploymentRuntimeLimit \/ C!DeleteAPIKey PROVE CInv'
  <2>1. C!recordOutcome("failed") /\ cl.op \in {"limit", "deleteKey"}
    BY <1>9 DEF C!SetDeploymentRuntimeLimit, C!DeleteAPIKey, C!Failed
  <2> QED
    BY <2>1, RecordCInv DEF Once
<1>10. ASSUME C!UpdateWalletSettings PROVE CInv'
  <2>1. cl.op = "wallet"
    BY <1>10 DEF C!UpdateWalletSettings, C!Failed
  <2>2. CASE C!recordOutcome("failed")
    BY <2>1, <2>2, RecordCInv DEF Once
  <2>3. CASE cl' = [cl EXCEPT !.at = "submit", !.post = TRUE, !.attempt = 1] /\ srv' = srv
    <3>1. cl.round \in Nat
      BY <1>0 DEF ClientType
    <3>2. cl' = [cl EXCEPT !.at = "submit", !.attempt = 1, !.round = cl.round, !.post = TRUE]
      BY <1>0, <2>3, Zenon DEF ClientType
    <3> QED
      BY <1>0, <2>1, <2>3, <3>1, <3>2, AgainCInv, ZenonT(60) DEF Once
  <2> QED
    BY <1>10, <2>2, <2>3 DEF C!UpdateWalletSettings
<1> QED
  BY <1>3, <1>4, <1>5, <1>6, <1>7, <1>8, <1>9, <1>10, Zenon
     DEF C!CreateDeployment, C!CreateAPIKey, C!PatchDeployment, C!Failed

(* What the client reads back. *)
LEMMA ReadCInv ==
    ASSUME CInv, C!ReadBack \/ C!Reconcile
    PROVE  CInv'
<1>0. /\ cl.at \in {"readBack", "poll"} /\ cl \in ClientType /\ cl.op \in C!Ops \ {"definition"}
  BY DEF C!ReadBack, C!Reconcile, CInv, Fields, ClientType, Early
<1>1. C!Goal(srv, cl) => cl.met
  <2>1. C!Goal(srv, cl) <=> Reached(srv, cl.op)
    BY <1>0, GoalReached
  <2> QED
    BY <1>0, <2>1 DEF CInv, Conclusions
<1>2. CASE C!Goal(srv, cl) /\ C!recordOutcome("success")
  BY <1>1, <1>2, RecordCInv
<1>3. CASE C!Reconcile /\ C!recordOutcome("pending")
  BY <1>3, RecordCInv
<1>4. ASSUME NEW seen \in BOOLEAN, cl.at = "readBack", ~(seen /\ C!Goal(srv, cl)),
             C!recordUnread(seen)
      PROVE  CInv'
  <2>1. srv' = srv /\ cl' = [cl EXCEPT !.at = "end", !.record = "failed", !.blind = ~seen]
    BY <1>4 DEF C!recordUnread
  <2>2. /\ cl' \in ClientType /\ cl'.at = "end" /\ cl'.record = "failed" /\ cl'.op = cl.op
        /\ cl'.sent = cl.sent /\ cl'.applied = cl.applied /\ cl'.blind = ~seen
        /\ cl'.answer = cl.answer /\ cl'.guard = cl.guard /\ cl'.read = cl.read /\ cl'.named = cl.named
    BY <1>0, <2>1, Zenon DEF ClientType, Steps
  <2>3. Fields' /\ Early' /\ Conclusions'
    BY <2>1, <2>2 DEF CInv, Fields, Early, Conclusions
  <2>4. Sending'
    BY <2>2 DEF CInv, Sending
  <2>5. cl.op = "update" \/ cl.op = "lease"
    BY <1>4 DEF CInv, Conclusions
  <2>6. ASSUME cl.op = "lease" PROVE C!FailedMeansUndone'
    <3>1. cl.answer = "refused" \/ cl.applied = 0
      BY <1>4, <2>6 DEF CInv, Conclusions, Sending, Once, Leases, Definitive
    <3>2. C!Goal(srv, cl) <=> srv.lease
      BY <1>0, <2>6, GoalReached DEF Reached
    <3>3. cl.applied > 0 => srv.lease \/ srv.dep = "closed"
      BY <2>6 DEF CInv, Conclusions, Leases
    <3>4. cl.applied = 0 \/ cl.applied > 0
      BY <1>0 DEF ClientType
    <3>5. cl.applied = 0 \/ (cl.answer = "refused" /\ (~seen \/ srv.dep = "closed"))
      BY <1>4, <3>1, <3>2, <3>3, <3>4, Zenon
    <3> QED
      BY <2>1, <2>2, <2>6, <3>5, Zenon DEF C!FailedMeansUndone
  <2>7. ASSUME cl.op = "update" PROVE C!FailedMeansUndone'
    <3>1. cl'.op = "update"
      BY <2>2, <2>7, Zenon
    <3> QED
      BY <3>1 DEF C!FailedMeansUndone
  <2>8. C!SuccessIsReal'
    BY <2>2 DEF C!SuccessIsReal
  <2> QED
    BY <2>3, <2>4, <2>5, <2>6, <2>7, <2>8 DEF CInv, C!RecordIsTrue
<1>5. CASE /\ cl.at = "readBack" /\ cl.op = "update" /\ srv' = srv
           /\ cl' = [cl EXCEPT !.at = "submit", !.round = @ + 1, !.attempt = 1]
  <2> DEFINE r == cl.round + 1
  <2>1. r \in Nat /\ cl.post \in BOOLEAN
    BY <1>0 DEF ClientType
  <2>2. cl' = [cl EXCEPT !.at = "submit", !.round = r, !.attempt = 1]
    BY <1>5
  <2> HIDE DEF r
  <2>3. cl' = [cl EXCEPT !.at = "submit", !.attempt = 1, !.round = r, !.post = cl.post]
    BY <1>0, <2>2, Zenon DEF ClientType
  <2>4. /\ cl.at \in {"answered", "readBack"} /\ cl.op \in C!Ops \ Once /\ cl.op # "definition"
        /\ 1 \in Nat /\ srv' = srv
    BY <1>0, <1>5 DEF Once
  <2> QED
    BY <2>1, <2>3, <2>4, AgainCInv, Zenon
<1> QED
  BY <1>2, <1>3, <1>4, <1>5, Zenon DEF C!ReadBack, C!Reconcile

LEMMA NextCInv == CInv /\ [C!Next]_consoleVars => CInv'
<1> SUFFICES ASSUME CInv, [C!Next]_consoleVars PROVE CInv'
  BY Zenon
<1>1. CASE UNCHANGED consoleVars
  BY <1>1 DEF consoleVars, CInv, Fields, Early, Sending, Conclusions, C!RecordIsTrue, C!SuccessIsReal,
              C!FailedMeansUndone, Reached
<1>2. CASE C!Next
  BY <1>2, BeforeCInv, ServerCInv, OtherCInv, AfterCInv, ReadCInv DEF C!Next, C!Client
<1> QED
  BY <1>1, <1>2

(***************************************************************************)
(* A behaviour of MCCommands is one of the Console client, which may rest: *)
(* the commands and the provider checks leave its account alone.           *)
(***************************************************************************)
LEMMA IsConsole == MCSpec => C!Init /\ [][C!Next]_consoleVars
<1>1. MCInit => C!Init
  BY DEF MCInit, ConsoleRests
<1>2. [MCNext]_mcVars => [C!Next]_consoleVars
  BY DEF MCNext, mcVars, consoleVars
<1> QED
  BY <1>1, <1>2, PTL DEF MCSpec

(* The invariant holds in every reachable state. *)
LEMMA ConsoleInvariance == MCSpec => []CInv
  BY IsConsole, InitCInv, NextCInv, PTL

(***************************************************************************)
(* client.go, retryableStatus: whatever answers are lost or wrong and      *)
(* however often calls may be repeated, what creates, leases, patches or   *)
(* issues a key is sent and carried out at most once.                      *)
(***************************************************************************)
THEOREM DoneOnceThm == MCSpec => []DoneOnce
<1>1. CInv => DoneOnce
  BY DEF CInv, Sending, DoneOnce, C!DoneOnce, Once
<1> QED
  BY <1>1, ConsoleInvariance, PTL

(***************************************************************************)
(* recordOutcome and its callers: for any limits and any edits of another  *)
(* session, "success" is recorded only for an effect that was there, and   *)
(* "failed" for one of those operations that was carried out only in the   *)
(* three cases of a lease that FailedMeansUndone names.                    *)
(***************************************************************************)
THEOREM RecordIsTrueThm == MCSpec => []RecordIsTrue
<1>1. CInv => RecordIsTrue
  BY DEF CInv, RecordIsTrue
<1> QED
  BY <1>1, ConsoleInvariance, PTL

(***************************************************************************)
(* PatchDeployment: however often another session edits the definition, a  *)
(* patch replaces none but the one the client read or the caller named.    *)
(***************************************************************************)
THEOREM ConcurrentEditKeptThm == MCSpec => ConcurrentEditKept
<1> DEFINE Kept == cl.op = "patch" /\ srv'.author = "ours" /\ srv.author # "ours"
                      => srv.version = cl.read \/ srv.version \in cl.named
<1>1. CInv /\ [C!Next]_consoleVars => [Kept]_consoleVars
  <2> SUFFICES ASSUME CInv, C!Next, cl.op = "patch", srv'.author = "ours", srv.author # "ours"
               PROVE  srv.version = cl.read \/ srv.version \in cl.named
    BY DEF consoleVars
  <2>0. srv \in ServerType /\ cl.guard \subseteq {cl.read} \cup cl.named
    BY DEF CInv, Fields
  <2>1. srv' # srv
    OBVIOUS
  <2>2. C!ServerCarriesOut
    <3>1. ~C!OtherSession
      BY <2>0, Zenon DEF C!OtherSession, ServerType
    <3>2. ~C!ServerDoesNot
      BY <2>1, Zenon DEF C!ServerDoesNot, C!Answer
    <3>3. \A where : ~C!Go(where) /\ ~C!recordOutcome(where) /\ ~C!recordUnread(where)
      BY <2>1 DEF C!Go, C!recordOutcome, C!recordUnread
    <3>4. ~(C!Validate \/ C!sealSecrets \/ C!Succeed \/ C!SubmittedOnce \/ C!CloseDeployment
            \/ C!updateDeploymentSDL \/ C!SetDeploymentRuntimeLimit \/ C!DeleteAPIKey \/ C!Reconcile)
      BY <3>3 DEF C!Validate, C!sealSecrets, C!Succeed, C!SubmittedOnce, C!CloseDeployment,
                  C!updateDeploymentSDL, C!SetDeploymentRuntimeLimit, C!DeleteAPIKey, C!Reconcile
    <3>5. ~(C!Preflight \/ C!Submit \/ C!Replay \/ C!UpdateWalletSettings \/ C!ReadBack)
      BY <2>1, <3>3 DEF C!Preflight, C!Submit, C!Replay, C!UpdateWalletSettings, C!ReadBack
    <3>6. ~(C!CreateDeployment \/ C!CreateAPIKey \/ C!PatchDeployment \/ C!CreateLease)
      BY <3>4 DEF C!CreateDeployment, C!CreateAPIKey, C!PatchDeployment, C!CreateLease, C!Failed
    <3> QED
      BY <3>1, <3>2, <3>4, <3>5, <3>6 DEF C!Next, C!Client
  <2>3. C!Possible <=> srv.dep = "active" /\ srv.version \in cl.guard
    BY Zenon DEF C!Possible
  <2> QED
    BY <2>0, <2>2, <2>3 DEF C!ServerCarriesOut
<1>2. ConcurrentEditKept <=> [][Kept]_consoleVars
  BY PTL DEF ConcurrentEditKept, C!ConcurrentEditKept, C!vars, consoleVars
<1> QED
  BY <1>1, <1>2, IsConsole, ConsoleInvariance, PTL
=============================================================================
