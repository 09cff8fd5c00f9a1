----------------------------- MODULE Invocation -----------------------------
(***************************************************************************)
(* One run of the akt program: the root command's hook (configuration,     *)
(* context, local identity, capability gating, action log), then the steps *)
(* of the command, which the tables of commands list.  The first step that *)
(* fails ends the run; what it did before stays done.                      *)
(*                                                                         *)
(* An invocation is the command's family and steps with the flags that     *)
(* matter: --node, --height, --from, --console-api-key, --enable-writes    *)
(* and, as "mode", which of --generate-only, --dry-run and --offline.      *)
(***************************************************************************)
EXTENDS Integers, Sequences, FiniteSets, TxCommands, QueryCommands, LocalCommands, McpTools

Console == INSTANCE ConsoleCommands
Provider == INSTANCE ProviderCommands

CONSTANT MaxBroadcasts  \* bound on the broadcasts of a command that sends several

ASSUME BroadcastAssumption == MaxBroadcasts \in Nat \ {0}

VARIABLES
    inv,  \* what the user typed
    env,  \* the machine: configuration, selected context, gating mode
    st    \* how far the run is and what it did

vars == <<inv, env, st>>

-----------------------------------------------------------------------------
(* The machine.  A context has a network with an RPC endpoint, a Console   *)
(* key, or both; its workflows run on one of those rails; its default      *)
(* account is a key's name or an address.                                  *)
NoContext == [name |-> FALSE, rpc |-> FALSE, console |-> FALSE, rail |-> "chain",
              account |-> "none"]

ContextSettings ==
    {c \in [name : {TRUE}, rpc : BOOLEAN, console : BOOLEAN,
            rail : {"chain", "console"}, account : {"none", "name", "address"}] :
        c.rail = "chain" => c.rpc}

Environments ==
    [config : {FALSE}, context : {NoContext}, gating : {TRUE}]
        \cup [config : {TRUE}, context : {NoContext} \cup ContextSettings, gating : BOOLEAN]

Invocation(family, plans, nodes, heights, froms, modes, keys, writes) ==
    [family : {family}, plan : plans, node : nodes, height : heights, from : froms,
     mode : modes, key : keys, writes : writes]

No == {FALSE}
Plain == {"none"}

Invocations ==
    UNION {
      Invocation("tx", TxPlans, BOOLEAN, No, {"none", "name", "address"},
                 {"none", "generate", "dryrun", "offline"}, No, No),
      Invocation("query", QueryPlans, BOOLEAN, BOOLEAN, Plain, Plain, No, No),
      Invocation("console", Console!ConsolePlans, No, No, Plain, Plain, BOOLEAN, No),
      Invocation("consolePublic", Console!ConsolePublicPlans, No, No, Plain, Plain, No, No),
      Invocation("provider", Provider!ProviderPlans, BOOLEAN, No, Plain, Plain, No, No),
      Invocation("providerStatus", {Provider!statusCmd}, BOOLEAN, No, Plain, Plain, No, No),
      Invocation("contextCreate", {createCmd, networkCreateCmd}, No, No, Plain, Plain, No, No),
      Invocation("context", ContextPlans, No, No, Plain, Plain, No, No),
      Invocation("store", StorePlans, No, No, Plain, Plain, No, No),
      Invocation("storeSync", {syncCmd}, BOOLEAN, No, Plain, Plain, No, No),
      Invocation("sdl", SDLPlans, No, No, Plain, Plain, No, No),
      Invocation("faucet", {faucetCmd}, No, No, Plain, Plain, No, No),
      Invocation("workflow", {commandFromDef}, BOOLEAN, No, {"none", "name", "address"},
                 {"none", "dryrun"}, No, No),
      Invocation("mcp", McpPlans, No, No, Plain, Plain, BOOLEAN, BOOLEAN)}

-----------------------------------------------------------------------------
(* What the root hook derives from the command's place in the tree. *)
requiresConfig(family) == family \notin {"mcp", "sdl", "contextCreate"}

requiresContext(family) ==
    family \notin {"context", "contextCreate", "sdl", "console", "consolePublic", "mcp"}

(* Mutant: queries are taken to need no identity. *)
localIdentityModeNone(i) ==
    CASE i.family = "query" -> "none"
      [] i.family \in {"storeSync", "workflow", "faucet", "mcp"} -> "deferred"
      [] i.family = "tx" /\ i.mode \in {"generate", "dryrun"} -> "deferred"
      [] i.family \in {"tx", "provider"} -> "open"
      [] OTHER -> "none"

(* The commands of `akt provider` and those outside the groups have no     *)
(* --dry-run today; the hook provides for one.                             *)
localIdentityMode(i) ==
    CASE i.family \in {"sdl", "context", "contextCreate", "store", "console",
                       "consolePublic", "providerStatus"} -> "none"
      [] i.family \in {"storeSync", "query", "workflow", "faucet", "mcp"} -> "deferred"
      [] i.family = "tx" /\ i.mode \in {"generate", "dryrun"} -> "deferred"
      [] i.family = "provider" /\ i.mode = "dryrun" -> "deferred"
      [] OTHER -> IF i.family \notin {"tx", "provider"} /\ i.mode = "dryrun" THEN "none"
                  ELSE "open"

(* Mutant: a Console key is enough for a query. *)
RequirementLoose(family) ==
    CASE family = "tx" -> {"chain-tx"}
      [] family = "query" -> {"chain-query", "console"}
      [] OTHER -> {}

(* The capabilities that satisfy the command's requirement, if it has one. *)
Requirement(family) ==
    CASE family = "tx" -> {"chain-tx"}
      [] family \in {"query", "storeSync"} -> {"chain-query"}
      [] family = "console" -> {"console"}
      [] family \in {"provider", "providerStatus"} -> {"provider"}
      [] family = "workflow" -> {"chain-tx", "console"}
      [] OTHER -> {}

Resolve(c) == (IF c.rpc THEN {"chain-query", "chain-tx", "provider"} ELSE {})
                  \cup (IF c.console THEN {"console"} ELSE {})

(* An endpoint or a key on the command line grants its capability. *)
invocationCapabilities(set, i) ==
    set \cup (IF i.node THEN {"chain-query", "chain-tx", "provider"} ELSE {})
        \cup (IF i.key THEN {"console"} ELSE {})

requirementError(i, set) == Requirement(i.family) # {} /\ Requirement(i.family) \cap set = {}

(* The RPC endpoint the flags and the context select; a context without    *)
(* one leaves the flag's default.                                          *)
ReadPersistentCommandFlags(i, c) ==
    IF i.node THEN "node" ELSE IF c.rpc THEN "context" ELSE "localhost"

Signer(i, c) == IF i.from # "none" THEN i.from ELSE c.account

(* Whether reading the transaction flags asks the keyring for the signer:  *)
(* an explicit --from is looked up again, and so is a name the start left  *)
(* unresolved.  Only --generate-only spares an address.                    *)
ReadTxCommandFlags(i, c) ==
    /\ Signer(i, c) # "none"
    /\ i.from # "none" \/ (Signer(i, c) = "name" /\ localIdentityMode(i) = "deferred")
    /\ Signer(i, c) = "address" => i.mode # "generate"

-----------------------------------------------------------------------------
(* The run.  contacted: the RPC endpoints asked; heights: "selected" for   *)
(* state read at the height the flags select, "now" for what the node has  *)
(* now; calls: operations that change something outside the machine;       *)
(* logged: their entries in the action log.                                *)
RootHook == <<"config", "identity", "defaults", "gating", "log">>
Program == RootHook \o inv.plan

Init ==
    /\ inv \in Invocations
    /\ env \in Environments
    /\ st = [pc |-> 1, mode |-> inv.mode, keyring |-> "none", keyless |-> FALSE,
             endpoint |-> "unset", client |-> FALSE, log |-> FALSE, genesis |-> FALSE,
             contacted |-> {}, heights |-> {}, calls |-> 0, logged |-> 0,
             rejected |-> FALSE, gated |-> FALSE, setup |-> FALSE, outcome |-> "running"]

(* The steps that are hooks of the command, not its handler.  A wizard     *)
(* that wrote a configuration replaces the handler; the hooks still run.   *)
Hooks == {"from", "forceOffline", "toGenesis", "fileOutput", "pre", "queryPre", "noHeight",
          "directNoHeight", "vendored", "direct", "local", "railPre"}

Replaced == st.setup /\ Program[st.pc] \notin Hooks

At(kinds) == st.outcome = "running" /\ ~Replaced /\ Program[st.pc] \in kinds

Advance(s) ==
    /\ st' = [s EXCEPT !.pc = @ + 1,
                       !.outcome = IF s.pc = Len(Program) THEN "ok" ELSE "running"]
    /\ UNCHANGED <<inv, env>>

Stop(s, how) == st' = [s EXCEPT !.outcome = how] /\ UNCHANGED <<inv, env>>

MayFail(s) == Advance(s) \/ Stop(s, "error")

Contact(s) == [s EXCEPT !.contacted = @ \cup {s.endpoint}]
ReadAt(s, height) == [Contact(s) EXCEPT !.heights = @ \cup {height}]
Open(s) == [s EXCEPT !.keyring = "open"]
Recorded(s) == [s EXCEPT !.calls = @ + 1, !.logged = IF s.log THEN @ + 1 ELSE @]

(* The steps of the root hook.  A missing configuration starts the wizard; *)
(* once it wrote one the rest of the root hook and the handler are left    *)
(* out.                                                                    *)
Bootstrap ==
    /\ At({"config"})
    /\ IF env.config \/ ~requiresConfig(inv.family)
       THEN MayFail(st)
       ELSE \/ MayFail(st)
            \/ /\ st' = [st EXCEPT !.pc = Len(RootHook) + 1, !.setup = TRUE]
               /\ UNCHANGED <<inv, env>>

SetupEnds == st.outcome = "running" /\ Replaced /\ Stop(st, "setup")

MustResolveAndInit ==
    /\ At({"identity"})
    /\ \/ /\ ~env.context.name
          /\ IF requiresContext(inv.family) THEN Stop(st, "error") ELSE Advance(st)
       \/ /\ env.context.name
          /\ IF localIdentityMode(inv) = "open"
             THEN MayFail(Open(st))
             ELSE Advance([st EXCEPT !.keyring = localIdentityMode(inv)])

Gating ==
    /\ At({"gating"})
    /\ IF /\ env.context.name
          /\ env.gating
          /\ requirementError(inv, invocationCapabilities(Resolve(env.context), inv))
       THEN Stop([st EXCEPT !.gated = TRUE], "error")
       ELSE Advance(st)

OpenLog ==
    /\ At({"log"})
    /\ IF env.context.name
       THEN Advance([st EXCEPT !.log = TRUE]) \/ Stop(st, "error")
       ELSE Advance(st)

(* Work on the machine itself: it may fail and changes nothing outside. *)
LocalStep ==
    /\ At({"defaults", "check", "file", "file?", "from", "terminal", "prompt", "prompt?",
           "write", "write?", "print", "public", "configure", "configure?", "secret?",
           "open", "store", "readLog", "fileOutput"})
    /\ MayFail(st)

(* Best effort: a failure is not the command's. *)
BestEffort == At({"note", "keep", "converge"}) /\ Advance(st)

Confirm == At({"confirm"}) /\ (MayFail(st) \/ Stop(st, "declined"))

-----------------------------------------------------------------------------
(* Keys.  A step that needs one finds the keyring the start supplied; the  *)
(* keys commands open it themselves.                                       *)
KeyStep ==
    /\ At({"key", "sign", "authenticate", "dial"})
    /\ IF st.keyring = "none"
       THEN Stop([st EXCEPT !.keyless = TRUE], "error")
       ELSE MayFail(Open(st))

getKeyring == At({"keyring"}) /\ MayFail(Open(st))

(* An omitted owner is the default account; without one the Console's      *)
(* wallet, for a context with a Console key.                               *)
resolveDefaultAccountAddress ==
    /\ At({"owner", "owner?", "address"})
    /\ \/ Advance(st)
       \/ /\ Signer(inv, env.context) = "name"
          /\ st.keyring # "none"
          /\ Advance(Open(st)) \/ (~At({"owner?"}) /\ Stop(Open(st), "error"))
       \/ /\ Signer(inv, env.context) = "name"
          /\ st.keyring = "none"
          /\ Stop([st EXCEPT !.keyless = TRUE], "error")
       \/ /\ Signer(inv, env.context) = "none"
          /\ ~At({"owner?"})
          /\ Stop(st, "error")

-----------------------------------------------------------------------------
(* Transactions.  The preflight selects the endpoint, resolves the signer  *)
(* and builds the client that records broadcasts.                          *)
Preflighted(s) ==
    LET signed == IF ReadTxCommandFlags(inv, env.context) THEN Open(s) ELSE s
        chosen == [signed EXCEPT !.endpoint = ReadPersistentCommandFlags(inv, env.context)]
    IN IF s.mode = "offline" THEN chosen ELSE Contact(chosen)

TxPersistentPreRunE ==
    /\ At({"pre"})
    /\ Advance([Preflighted(st) EXCEPT !.client = TRUE]) \/ Stop(Preflighted(st), "error")

SetFlag ==
    \/ At({"forceOffline"}) /\ Advance([st EXCEPT !.mode = "offline"])
    \/ /\ At({"toGenesis"})
       /\ Advance(st) \/ Advance([st EXCEPT !.mode = "offline", !.genesis = TRUE])

addCertToGenesis ==
    /\ At({"genesis"})
    /\ IF st.genesis THEN Stop(st, "ok") \/ Stop(st, "error") ELSE Advance(st)

Online == At({"online"}) /\ IF st.mode = "offline" THEN Stop(st, "error") ELSE Advance(st)

(* The SDK's reading keeps the client the preflight stored, and otherwise  *)
(* takes the flag, whose default is a node on this machine.                *)
sdkContext ==
    /\ At({"sdkContext"})
    /\ MayFail([st EXCEPT !.endpoint =
                    IF @ # "unset" THEN @ ELSE IF inv.node THEN "node" ELSE "localhost"])

AccountLookup ==
    /\ At({"account"})
    /\ IF st.mode = "offline" THEN Advance(st) ELSE MayFail(ReadAt(st, "now"))

(* A call of the recording client.  Nothing is sent or recorded when the   *)
(* transaction is only built or simulated; a rejection is an error.        *)
BroadcastMsgs ==
    /\ At({"tx", "txs"})
    /\ \/ st.mode = "offline" /\ MayFail(st)
       \/ st.mode \in {"generate", "dryrun"} /\ MayFail(Contact(st))
       \/ /\ st.mode = "none"
          /\ LET s == Recorded(Contact(Open(st))) IN
             \/ Advance(s)
             \/ At({"txs"}) /\ s.calls < MaxBroadcasts /\ st' = s /\ UNCHANGED <<inv, env>>
             \/ Stop([s EXCEPT !.rejected = TRUE], "error")
             \/ Stop(s, "error")

(* The SDK's own function: no record, and a rejection is printed. *)
GenerateOrBroadcastTxCLI ==
    /\ At({"rawtx"})
    /\ \/ st.mode \in {"generate", "dryrun"} /\ MayFail(Contact(st))
       \/ st.mode = "offline" /\ Stop(st, "error")
       \/ /\ st.mode = "none"
          /\ LET s == [Contact(Open(st)) EXCEPT !.calls = @ + 1] IN
             MayFail(s) \/ Advance([s EXCEPT !.rejected = TRUE])

-----------------------------------------------------------------------------
(* Queries. *)
Selected(s) == [s EXCEPT !.endpoint = ReadPersistentCommandFlags(inv, env.context)]

QueryPersistentPreRunE == At({"queryPre"}) /\ MayFail(Contact(Selected(st)))

vendoredQueryPreRunE == At({"vendored", "direct"}) /\ MayFail(Selected(st))

(* Flags the query cannot honour are refused before anything is read. *)
localQueryPreRunE ==
    /\ At({"local"})
    /\ IF inv.node \/ inv.height THEN Stop(st, "error") ELSE MayFail(st)

queryWithoutHeightPreRunE ==
    /\ At({"noHeight", "directNoHeight"})
    /\ IF inv.height
       THEN Stop(st, "error")
       ELSE MayFail(IF At({"noHeight"}) THEN Contact(Selected(st)) ELSE Selected(st))

ReadState ==
    /\ At({"query", "query?", "header"})
    /\ MayFail(ReadAt(st, "selected")) \/ (At({"query?"}) /\ Advance(st))

ReadNow ==
    /\ At({"now", "now?", "nowOrQuery", "latest?"})
    /\ \/ At({"now", "now?", "nowOrQuery"}) /\ MayFail(ReadAt(st, "now"))
       \/ At({"now?"}) /\ Advance(st)
       \/ At({"nowOrQuery"}) /\ MayFail(ReadAt(st, "selected"))
       \/ At({"latest?"}) /\ IF inv.height THEN Advance(st) ELSE MayFail(ReadAt(st, "now"))

(* Pending entries of the log are looked up on the context's network. *)
refreshPendingTransactions ==
    /\ At({"reconcile"})
    /\ \/ Advance(st)
       \/ /\ env.context.rpc
          /\ Advance(Contact(Selected(st)))

-----------------------------------------------------------------------------
(* The Console, a provider's gateway, the faucet, the keyring's contents:  *)
(* what changes something is recorded, whatever came of it.                *)
clientFromCmd ==
    /\ At({"console", "context"})
    /\ IF \/ At({"console"}) /\ ~inv.key /\ ~env.context.console
          \/ At({"context"}) /\ ~env.context.name
       THEN Stop(st, "error")
       ELSE MayFail(st)

Ask == At({"ask", "ask?", "mint", "gateway"}) /\ MayFail(st)

(* Mutant: a failed operation is not recorded. *)
ChangeUnrecorded ==
    /\ At({"change", "alter", "faucet?", "keychange"})
    /\ \/ Advance(Recorded(st))
       \/ Stop([st EXCEPT !.calls = @ + 1], "error")
       \/ At({"faucet?"}) /\ Advance(st)

Change ==
    /\ At({"change", "alter", "faucet?", "keychange"})
    /\ MayFail(Recorded(st)) \/ (At({"faucet?"}) /\ Advance(st))

(* The chain is asked for what no flag gives. *)
Route ==
    At({"route"}) /\ (Advance(Selected(st)) \/ MayFail(ReadAt(Selected(st), "selected")))

(* Every provider is tried; a failure is reported at the end. *)
Deliver ==
    /\ At({"deliver"})
    /\ \/ MayFail(Recorded(Contact(Selected(st))))
       \/ /\ st.calls + 1 < MaxBroadcasts
          /\ st' = Recorded(Contact(Selected(st)))
          /\ UNCHANGED <<inv, env>>

-----------------------------------------------------------------------------
(* Workflows.  The hook runs the preflight of the rail and keeps its error *)
(* for the handler.                                                        *)
RailPreRunE ==
    /\ At({"railPre"})
    /\ \/ /\ env.context.rail = "console"
          /\ Advance(st)
       \/ /\ env.context.rail = "chain" /\ st.mode = "dryrun"
          /\ Advance(st) \/ MayFail(Contact(Selected(st)))
       \/ /\ env.context.rail = "chain" /\ st.mode = "none"
          /\ Advance(Preflighted(st)) \/ Advance([Preflighted(st) EXCEPT !.client = TRUE])

executeWorkflow ==
    /\ At({"workflow"})
    /\ \/ st.mode = "dryrun" /\ Stop(st, "ok")
       \/ /\ st.mode = "none"
          /\ IF env.context.rail = "console"
             THEN IF env.context.console THEN MayFail(Recorded(st)) ELSE Stop(st, "error")
             ELSE IF st.client /\ Signer(inv, env.context) # "none"
                  THEN MayFail(Recorded(Contact(Open(st))))
                  ELSE Stop(st, "error")

-----------------------------------------------------------------------------
(* The tool server.  Its chain client takes the context's endpoint; the    *)
(* write client, which resolves the account, may be missing.               *)
NewServer ==
    /\ At({"connect"})
    /\ LET chain == [st EXCEPT !.endpoint = IF env.context.rpc THEN "context" ELSE @]
           named == Signer(inv, env.context) = "name"
       IN \/ /\ inv.writes /\ ~env.context.name
             /\ Stop(st, "error")
          \/ /\ ~(inv.writes /\ ~env.context.name)
             /\ ~env.context.rpc /\ ~env.context.console /\ ~inv.key
             /\ Stop(st, "error")
          \/ /\ ~(inv.writes /\ ~env.context.name)
             /\ env.context.rpc \/ env.context.console \/ inv.key
             /\ \/ MayFail(chain)
                \/ /\ inv.writes /\ env.context.rpc /\ st.keyring # "none"
                   /\ Advance([Contact(IF named THEN Open(chain) ELSE chain)
                                  EXCEPT !.client = TRUE])

Offered ==
    /\ At({"chainTool", "chainWrite", "consoleTool", "consoleWrite"})
    /\ IF CASE At({"chainTool"}) -> st.endpoint # "unset"
            [] At({"chainWrite"}) -> st.client
            [] At({"consoleTool"}) -> inv.key \/ env.context.console
            [] At({"consoleWrite"}) -> inv.writes /\ (inv.key \/ env.context.console)
       THEN Advance(st)
       ELSE Stop(st, "unknown tool")

Next ==
    \/ Bootstrap \/ SetupEnds \/ MustResolveAndInit \/ Gating \/ OpenLog
    \/ LocalStep \/ BestEffort \/ Confirm
    \/ KeyStep \/ getKeyring \/ resolveDefaultAccountAddress
    \/ TxPersistentPreRunE \/ SetFlag \/ addCertToGenesis \/ Online \/ sdkContext
    \/ AccountLookup \/ BroadcastMsgs \/ GenerateOrBroadcastTxCLI
    \/ QueryPersistentPreRunE \/ vendoredQueryPreRunE \/ localQueryPreRunE
    \/ queryWithoutHeightPreRunE \/ ReadState \/ ReadNow \/ refreshPendingTransactions
    \/ clientFromCmd \/ Ask \/ Change \/ Route \/ Deliver
    \/ RailPreRunE \/ executeWorkflow \/ NewServer \/ Offered

Spec == Init /\ [][Next]_vars

-----------------------------------------------------------------------------
(* Every step of every command has a meaning, and the state its shape. *)
TypeOK ==
    /\ st.pc \in 1..Len(Program) + 1
    /\ st.keyring \in {"none", "deferred", "open"}
    /\ st.contacted \subseteq {"node", "context", "localhost"}
    /\ st.outcome \in {"running", "ok", "error", "declined", "setup", "unknown tool"}
    /\ st.outcome = "running" => ENABLED Next

Has(kind) == \E k \in DOMAIN inv.plan : inv.plan[k] = kind

(* Whatever asks the chain asks the endpoint of --node, or else of the     *)
(* selected context.                                                       *)
EndpointIsSelected ==
    env.gating => st.contacted \subseteq {IF inv.node THEN "node" ELSE "context"}

(* A command with akt's preflight, and every query, tool and workflow,     *)
(* asks the endpoint of --node, or else of the selected context: gating    *)
(* rejects what would fall back to a node on this machine.                 *)
PreflightReachesSelected ==
    (Has("sdkContext") /\ ~Has("pre")) \/ st.setup \/ EndpointIsSelected

(* SPEC.md 3593: every transaction leaf runs akt's preflight and none      *)
(* falls back to the SDK's localhost default.                              *)
NoLeafUsesDefault == st.setup \/ EndpointIsSelected

(* An invocation whose wizard wrote the configuration exits successfully. *)
SetupSucceeds == st.setup => st.outcome # "error"

(* Under --generate-only, --dry-run and --offline nothing is sent and      *)
(* nothing is recorded as sent.                                            *)
BuildingSendsNothing == st.mode # "none" => st.calls = 0 /\ st.logged = 0

(* No command that needs a key is started without a keyring:               *)
(* localIdentityMode knows what every command does.                        *)
SignerAvailable == ~st.keyless

(* A command that only reads opens the keyring for nothing but a named     *)
(* account it has to resolve, or a key of its own that it uses.            *)
OnDemandStaysClosed ==
    /\ inv.family \in {"query", "storeSync", "faucet", "mcp"}
    /\ st.keyring = "open"
    => Signer(inv, env.context) = "name" \/ Has("key") \/ st.calls > 0

(* localIdentityMode: the keyring is there for every command that uses a   *)
(* key, and stays closed for those that do not.                            *)
KeyringWhenNeeded == SignerAvailable /\ OnDemandStaysClosed

(* A signer given as an address needs no keyring where nothing is signed. *)
AddressNeedsNoKeyring ==
    /\ inv.family = "tx" /\ inv.mode \in {"generate", "dryrun"}
    /\ Signer(inv, env.context) = "address"
    /\ ~Has("key") /\ ~Has("sign")
    => st.keyring # "open"

(* A transaction the chain rejects makes the command fail. *)
RejectionIsReported == st.outcome = "ok" /\ ~Has("rawtx") => ~st.rejected

(* Every operation that changes something outside the machine has its one  *)
(* entry in the action log, and no tool changes anything without a log.    *)
CallsAreRecorded ==
    (st.log \/ inv.family = "mcp") /\ ~Has("rawtx") => st.logged = st.calls

(* With every broadcast, the SDK's included. *)
EveryBroadcastRecorded == inv.family = "tx" /\ st.log => st.logged = st.calls

(* A query that accepts --height answers from that height.                 *)
HeightIsHonoured == inv.height /\ st.outcome = "ok" => "now" \notin st.heights

(* So does every query but the three that also read what the node has now. *)
PinnedReadsAgree ==
    \/ inv.plan \in {GetQueryGovVoteCmd, GetQueryGovVotesCmd, GetQueryEscrowBlocksRemainingCmd}
    \/ HeightIsHonoured

(* Gating never rejects a command that carries its own connection. *)
OwnConnectionNotGated ==
    st.gated => ~inv.node /\ ~(inv.key /\ inv.family = "console")

(* A command asks the node the user selected, at the height they selected, *)
(* and is not refused a connection it brings along.                        *)
AsksAsSelected == PreflightReachesSelected /\ PinnedReadsAgree /\ OwnConnectionNotGated

(* A command the user declines has changed nothing. *)
DeclineChangesNothing == st.outcome = "declined" => st.calls = 0

(* What a command does to the chain or the Console is asked for, in its    *)
(* log, and what its exit says (BroadcastMsgs and recordOutcome).          *)
EffectsAccounted ==
    /\ BuildingSendsNothing
    /\ CallsAreRecorded
    /\ RejectionIsReported
    /\ DeclineChangesNothing
=============================================================================
