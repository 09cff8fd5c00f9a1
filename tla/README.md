# akt: a TLA+ verification project

`akt` is the command line client of the Akash network. It deploys workloads by
sending transactions to a chain (or requests to the Console API), keeps what it
did in a local store and an action log, and shows the network in a monitor. This
directory keeps TLA+ models of its stateful parts beside the code: the modules,
the TLC configurations that check them on small instances, and proofs that hold
for instances of any size. `PROJECT.json` lists components, runs, mutants, the
map from definitions to source lines, findings, hazards and theorems.

## The system and its parts

| Part | State | Who acts on it |
| --- | --- | --- |
| Local store (`internal/store/bbolt`) | records of deployments, leases and bids, each with a revision; the height of the last sync | one process at a time holds the file; one write transaction at a time |
| Reconciliation (`internal/sync`, `akt store sync`) | progress through its queries and puts | the process, against a chain that moves between its queries |
| Workflow outcomes (`internal/cli/workflow/persist.go`) | what a run observed | every workflow run, when it ends |
| Live events (`internal/events`, `internal/sync/engine.go`, `tui/sync_bridge.go`) | subscription, bus, the event being handled | event service, bridge, store |
| Workflow engine (`internal/workflow/engine.go`) | step, attempt, results, log | the run; the user or a deadline cancels it |
| Deploy and update runs (`internal/workflow/adapters`, `steps`, `builtin`) | the remembered SDL text, requests in flight, bids, chosen provider | the run, the chain, providers, the Console, whoever edits the SDL file |
| Commands, queries, MCP tools (`internal/cli`, `internal/mcp`) | hooks run, keyring, endpoint, what was sent and recorded | one invocation on one configuration |
| Console client (`internal/console`) | one operation: requests, answers, read-backs, its entry in the log | the client, the server, another session of the account |
| Action log (`internal/actionlog`) | current and rotated files | all processes, without a lock |
| Configuration home (`internal/context`, `internal/bootstrap`) | `config.yaml`, data directories, each process's copy | all processes, without a lock; the watcher |
| Consensus stream of the monitor (`internal/monitor/rpc`, `ui`) | connection, tracker of votes, channel of snapshots, block history | a producer goroutine, the event loop, the node |
| Provider checks of the monitor (`internal/monitor/cache`, `ui`) | cache, queue, checks under way | chain syncs and checks on goroutines, the event loop |
| Runtime of the monitor (`internal/monitor/runtime`) | resources, counted commands, the detail view | `Run`, its commands, the clean-up |

A command resolves its context from the configuration, is gated, opens the
keyring if it needs one, and then asks the chain, the Console or a provider. A
workflow run drives the engine, whose steps call the same clients; when it ends,
its outcome is written to the store. Reconciliations and, in a session with live
events, the handlers merge the chain into the same store, possibly from another
process. What a command changes outside the machine goes to the action log. The
monitor reads the chain on its own.

### What is hard in this code

- Several writes that must be one: closing a deployment with its leases, an
  import that first clears the store, a directory renamed before the
  configuration that explains it is saved.
- Two processes and a moving chain: queries at different heights, a merge that
  must keep local fields, transactions that fail after they were recorded, files
  rotated under a reader, a configuration saved over another's.
- Cancellation: it races the retry timer, the send on a full channel, the
  blocking read of a socket, and it may fall between any two steps.
- Lost and wrong answers: a transaction, a manifest or a request that spends
  money may have been carried out although the caller saw an error.
- A file that changes during a run: the provider must get the text that the
  transaction committed to.
- Messages in any order: votes before the acknowledgement of the subscription,
  answers for a view that was left, a queue rebuilt while its checks run.
- More than two hundred commands and tools that share hooks in different combinations: which
  endpoint, height and keyring each of them really uses.

`PROJECT.json` lists each of these at its line under "hazards", with the
properties that cover it, or a note where none does.

## Modules

| Module | Models |
| --- | --- |
| `StoreRecords` | records, revision numbering, put, close: pure operators |
| `DeploymentStore` | the store: puts and deletes, closing, export, import, dry run, rollback |
| `StoreSync` | the store of one account kept by runs and by reconciliations while the chain moves |
| `EventSync` | the event service, the bus and the seven handlers that bring events to the store |
| `ActionLog` | append, rotation, reading and the revisions of pending transactions, by several processes |
| `ConfigHome` | configuration file, copies, data directories, first-run wizard, watcher |
| `WorkflowEngine` | the loop over the steps of a definition, retries, on-error actions, cancellation |
| `DeployRun`, `UpdateRun` | `akt deploy` on both rails and `akt update` on the chain rail: the engine instantiated with the built-in definition and its executors, up to the report |
| `Invocation` | one run of the program: root hook, gating, keyring, then the steps of the command |
| `TxCommands`, `QueryCommands`, `ConsoleCommands`, `ProviderCommands`, `LocalCommands`, `McpTools` | the tables of commands and tools that `Invocation` interprets |
| `ConsoleClient` | one operation on a Console account, with replays and read-backs |
| `ConsensusTracker`, `ConsensusStream` | the tracker of one subscription (pure operators); producer, channel and interface of the stream |
| `ProviderChecks` | the monitor's provider cache, its chain syncs and its queue of checks |
| `MonitorRuntime` | what the monitor opens and releases, its commands, the detail view |
| `MCSync`, `MCRuns`, `MCConsensusStream`, `MCCommands`, `MCConfigHome`, `MCContextFiles`, `MCParts` | the instances of the passing runs |
| `MCServices` | engine, events and monitor runtime side by side; the part of `MCParts` that has proofs |
| `MCStoreSync`, `MCDeployRun`, `MCInvocation`, `MCProviderChecks` | the instances of the runs that end in a counterexample |
| `ContextFilesProofs`, `ActionLogProofs` | theorems about `DeploymentStore` and `ActionLog` |
| `StoreSyncProofs`, `ConfigHomeProofs`, `ConsoleClientProofs` | theorems about the module they are named after |
| `ServicesProofs` | theorems about `WorkflowEngine`, `EventSync` and `MonitorRuntime` |
| `RunsProofs` | theorems about `DeployRun` and `UpdateRun` |
| `MonitorProofs` | theorems about `ConsensusStream` and `ProviderChecks` |

A definition marked "Mutant" is a plausible mistake in the definition that
follows it. No specification uses one; `PROJECT.json` pairs each with a property
that must fail when it replaces the real definition.

Several MC modules put components that do not share state into one run. Their
variable `which` names the component a behaviour belongs to; the others rest in
an initial state. The reachable states are the union of the components' own, not
their product, and a property of one of them is checked on its behaviours.

### The store

`db` and `sync` are the committed contents. A put of one record is one action. A
close or an import is a transaction on a working copy (`work`), one action per
write, in the order of the code; `Rollback` ends it anywhere: a refused revision,
a cancelled context or a dead process. A revision is `max(stored + 1, given)`,
refused beyond the last one (`MaxVersion` stands for the maximum of uint64). What
a record holds besides its state, times and revision is one value set by the
user (`local`) and one from the chain. Decoding and validating an import file is
the domain of `Envelopes`: a file that does not validate never reaches a
transaction.

### Reconciliation, outcomes and events

In `StoreSync`, `chain` is external: it executes transactions of the mempool or
drops them, other tools and providers act on it, and a lease ends closed or, with
its escrow account, overdrawn. `history` keeps the chain at every height. A reconciliation is the sequence of the code's queries and puts
with the chain free to move between them. A run is reduced to its transactions
and its final writes (`persistDeploy`, `persistUpdate`, `persistClose`), one
action per write; its process may die between any two. What a record says of its
SDL is the file and, if it could be read then, the hash of its text (`applySDL`).
The store file is a lock.
Revisions are left to `DeploymentStore`; timestamps are unset or set.

`EventSync` follows one deployment, its bid and its lease from the chain through
block headers, the bus and the bridge to the store. A block's results may be
unavailable, a write may fail, the subscription may close, and the program may
quit between the two writes of a lease event. No event tells that a bid lost or
why a lease ended: `Told` is what the events tell of a state, and the properties
compare the store with that. This is the library code behind the full-screen
interface, which is started without a store today.

### The engine and the runs

`WorkflowEngine` leaves open what a step does. `Retry` is the branch of the
select in `executeStep` that takes the timer: after a cancellation it is only
possible if the context became done while the timer ran, or if the delay is so
short that both are ready. `DeployRun` and `UpdateRun` instantiate the engine
with the built-in definitions and give the executors a meaning; every action of
a run that ends an execution is a conjunction with `Succeed` or `Fail` of the
engine. The Console rail has its own instance because its definition has no
manifest step (`filterProviderSteps`). An SDL text is the number of edits of the
file when it was read.

### Commands

A command is a sequence of steps in program order: hooks, checks, lookups,
requests, broadcasts, writes, records. The tables are pure data, one definition
per command constructor or handler, mapped to it. `Invocation` gives every step
its meaning for the flags that matter (`--node`, `--height`, `--from`,
`--console-api-key`, `--enable-writes`, and which of `--generate-only`,
`--dry-run`, `--offline`) on every kind of configuration; a step may fail, and
the first that does ends the command. What a message or an answer contains is
left out.

`ConsoleClient` is what one `change` step of such a command does: method by
method which requests are replayed (`retryableStatus`), which outcomes are read
back, and what is recorded. The server may carry a request out and lose or
falsify the answer, with a refusal as well where the client's own read-backs
reckon with it (leases and updates); another session edits, closes and deletes.
The definition a patch is made for is the one the preflight read, or the one the
user named with the patch.

### Files without locks

In `ActionLog` a process appends through the file it opened, which another may
have renamed since; the renames of a rotation are separate steps, and a process
may die between them. `raced` remembers the overlaps of rotations the properties
make exceptions for. A broadcast may return a hash, an error or both, whatever
becomes of the transaction. In `ConfigHome` every command loads the file, changes its
copy, touches data directories and saves the whole copy by truncating and then
writing; a process may be killed at any point, and the watcher reads what is
there (only tests construct the watcher so far). `context edit` may fork the
context's own network or, at the prompt, one it has just been given and another
context is on. Names of forked networks and of the wizard's contexts are constant
operators.

### The monitor

The producer of the consensus stream is `conn`: setting up (two acknowledgements
outstanding), reading, sending a snapshot, backing off, closed. Events that
overtake an acknowledgement are buffered and handled first. A message of a
higher height starts a new tracker with that height's validator set, or ends the
stream if the set cannot be had. The interface takes snapshots from the channel,
shows the newest at a render tick and records a block when the height rises.
`received` and `last` are auxiliary. `ProviderChecks` has the age of a status in
minutes; chain syncs and checks run beside each other and answer in any order.
`MonitorRuntime` builds and releases the resources in the code's order, from a
failure at any step of the build or from the loop.

## What TLC checks

Run a configuration with `tlc -config X.cfg M`; `PROJECT.json` names the module.

| Run | Configuration | Shows |
| --- | --- | --- |
| `sync` | `MCSync.cfg` | Store and chain: when a reconciliation records a height, everything the chain held then is in the store in a state it had then or later (`SyncCoversHeight`); under a deployment listed as closed every lease of the chain is stored as ended, the way it ended (`NoLeaseOutlivesDeployment`); the SDL identity the last run recorded survives reconciliations and closes (`LastSDLKept`). Provider checks: a provider is in flight exactly when one check of it runs, within the limit, and the progress line adds up while chain syncs rebuild the queue (`ChecksAddUp`). |
| `runs` | `MCRuns.cfg` | Deploy: providers run the text the transaction committed to (`ManifestMatchesChain`); success is only reported for a lease whose provider has the manifest (`SuccessIsReal`); a failed run names the command that closes what it left (`NoSilentOrphan`). Update: the providers reported hold the update (`ReportedProvidersHoldUpdate`); a round tries every provider and only succeeds if all accepted (`RoundIsComplete`). Every run ends with its report although leases keep changing (`RunsEnd`). |
| `consensus` | `MCConsensusStream.cfg` | The tracker counts exactly the votes of its round that were read, with the set of its height (`VotesExact`), and never goes back (`TrackerNeverRewinds`); a block is recorded with the last snapshot of its height (`HistoryKeepsVotes`); after a cancellation both goroutines end (`CancellationDrains`); a stream that ended is subscribed again (`Resubscribes`). |
| `commands` | `MCCommands.cfg` | Every command asks the endpoint and height the user selected and is not refused a connection it brings along (`AsksAsSelected`, with the exceptions named below); the keyring is there for what needs it and closed otherwise (`KeyringWhenNeeded`); what is sent is asked for, recorded once and reflected in the exit (`EffectsAccounted`). Console: a POST or PATCH is sent and done at most once (`DoneOnce`); the record is true (`RecordIsTrue`); a patch replaces no definition but the one read or named (`ConcurrentEditKept`); an operation that sent something ends with its entry (`EndsRecorded`). Every provider the monitor knows is checked (`KnownIsChecked`). |
| `home` | `MCConfigHome.cfg` | No interleaving of loads, saves and kills leaves a dangling reference (`ConfigClosed`) or loses data no `context delete` removed (`DataKept`); a fork changes no other context (`ForkIsolates`); subscribers of the watcher are in the end given what the last save wrote (`WatcherConverges`). |
| `files` | `MCContextFiles.cfg` | Store: a close or an import is all or nothing wherever it stops (`CloseIsAtomic`, `ImportAllOrNothing`); restoring an exported file is exact (`RestoreIsExact`); a record that changes gets a larger revision (`RevisionsAdvance`). Action log: a row never says more than the chain (`RowsAreTrue`); a reading shows no entry twice, misses none unless a file moved, and shows one row, the latest, per transaction unless rotations raced (`ReadIsFaithful`). |
| `parts` | `MCParts.cfg` | Engine: results and log are a gapless history, nothing follows an aborting failure, retries are bounded (`RunFollowsSteps`); after a cancellation no step starts and at most one retry slips through unless its delay is brief (`CancellationStops`). Events: between two events the store is what the handled events tell, and never ahead of the chain (`StoreFollowsChain`); no record goes back (`NeverBack`). Monitor: late answers never show under another provider (`DetailIsCurrent`); resources outlast their users and nothing is left open (`CleanShutdown`). Each part finishes what it began (`PartsProgress`). |

Five runs end in a counterexample: the code and what is written about it
disagree.

- `sync_closed_at`: `mergeDeployment` keeps the closing time of a record that
  the chain reports active again (the close failed in its block), although the
  field is documented as "0 if not closed".
- `deploy_advice`: a run cancelled between create-lease and send-manifest gets
  the clean-up command alone, although SPEC.md promises the manifest command.
- `consensus_history`: if the first event after a reconnect is a late vote of a
  finished block, the interface goes back to that block and later records it a
  second time, although the history is documented as "newest first".
- `tx_endpoint`: `tx sign`, `sign-batch` and `multisign` run without the
  transaction preflight and ask the SDK's default endpoint for the account,
  although SPEC.md says that every leaf runs it and none falls back.
- `provider_recheck`: the queue of checks is refilled only when its last check
  answers, from the providers due at that moment, so an online provider may wait
  for the next chain sync instead of the minute SPEC.md names.

The modules state more sentences of the documentation that the code does not
meet. TLC refutes each when it is listed in a configuration of its module; the
properties of the passing runs are stated with the exception.

| Statement | Documentation | What the code does |
| --- | --- | --- |
| `EveryBroadcastRecorded` | SPEC.md:4544 | the governance proposals that go through the SDK's own broadcast leave no entry |
| `HeightIsHonoured` | SPEC.md:3694 | `query escrow blocks-remaining`, `gov vote` and `gov votes` also read the node's present |
| `AddressNeedsNoKeyring` | SPEC.md:315, 3637 | an address given to `--dry-run` is looked up in the keyring |
| `SetupSucceeds` | SPEC.md:617, root.go:221 | `query`, `tx` and `store sync` go on after the first-run wizard and may fail |
| `UnknownCloseSentOnce` | console/deployments.go:512 | the DELETE of a close is replayed, and the error says it was not |
| `ClosedByThisClient` | console/deployments.go:455 | a close whose answer was lost counts as this client's if another session closed |
| `FailedLeaseIsUndone` | console/deployments.go:684 | a refused lease that exists is recorded as failed if its one read-back fails or is behind, or if it was asked for without a manifest: then nothing is read back |
| `FailedIsNotIncluded` | SPEC.md:6754 | a broadcast that returns an error beside its hash is recorded as failed and never looked up, although the transaction may be included |
| `HashIsOfPath` (two SDL files) | cli/workflow/persist.go:303 | a file that cannot be read leaves the hash of the file recorded before, not an empty one |
| `StoreShowsChain` | SPEC.md:4592 | a bid that lost emits no event and stays open, and every lease that ends is stored as closed, until a reconciliation |
| `NeverToldEmpty` | DESIGN.md:468, context/watcher.go:92 | an empty file parses: a writer that is slower than the settling delay or dies after truncating it has an empty configuration published |
| `RotationKeepsFiles` | SPEC.md:4572 | two processes that rotate at once drop the oldest file early |
| `LatestShown` | SPEC.md:4415 | an entry appended to a file that was rotated meanwhile is read before an older one |
| `SyncCoversHeight` in startup mode | SPEC.md:4677 | within the gap threshold `Reconcile` records the height without reading the gap |

### Bounds, and why they are enough

- `sync`: one deployment, one provider, two runs, one reconciliation, four
  changes of the chain: a deployment can be created, bid on, leased and closed
  while the reconciliation stands between two queries. One SDL file, readable or
  not when an outcome is recorded. Runs are symmetric. Three providers, two checked at a time, so that one waits while the
  queue is rebuilt. Only `ReconcileNow`, which `akt store sync` calls.
- `runs`: two providers compete for one deployment; three are updated, so that a
  refusal has one before and one after it; one edit of the file distinguishes
  the text read first from any text read later. Leases change without bound.
- `consensus`: three heights (a block must be recorded after the first, which
  is skipped as incomplete), two rounds, two validator sets of different size
  and power, four messages, a channel of one.
- `commands`: all commands, flags and configurations, exhaustively; at most two
  broadcasts of a command that sends several. Three attempts and three rounds,
  two edits of the other session. Two providers and one check at a time.
- `home`: two processes, two contexts, three networks (one of them the name a
  fork gets), one keyring, two commands. A lost update needs two processes; a
  dangling reference needs one to delete what the other refers to.
- `files`: one deployment with one lease, revisions up to 2, two closing times:
  every order of writes inside a transaction, a crash between them, and the
  refusal at the last revision. Two commands and one reader, two rotated files,
  a rotation at every entry: overlapping rotations and one under a reader.
- `parts`: four steps with every on-error action, an unknown step type, a brief
  and a long delay, up to four attempts; one update of the deployment and two
  sessions; two runs that want the lock with one reconciliation; two providers
  and two openings of the detail view.

Deadlock is checked in `runs` and `consensus`, whose modules have an explicit
action for a finished system. Elsewhere the environment stops at its bounds or a
command ends the program. Type invariants are defined in the modules, and where a
module has proofs its inductive invariant contains the types; no run lists them.

### Fairness

- `DeploymentStore`, `ActionLog`, `Invocation`: none; only safety is stated.
- `StoreSync`: a process that has started takes its next step. Its loops contain
  no user input, and waiting for bids ends at a deadline. Weak fairness is enough
  for the lock because each process of the instance holds it once; others who
  open the file again and again (the file lock is not fair) are not in the run.
- `WorkflowEngine`, `DeployRun`, `UpdateRun`: the run keeps going. Network calls
  carry the command's context or a deadline; a prompt is assumed to be answered.
  Nothing is assumed of chain, providers, Console or file.
- `EventSync`: the service handles a header it has, the bridge takes an event it
  has and finishes it. Nothing is assumed of the chain, and `lost` excuses blocks
  that could not be read.
- `ConsoleClient`: one fairness for the operation as a whole: requests and waits
  have time limits, so it never stays in a step. The other session may do
  nothing.
- `ConfigHome`: only the watcher's two goroutine steps.
- `ProviderChecks`: ticks keep coming, and every sync and check answers within
  its timeouts. The registry and the minutes are free.
- `MonitorRuntime`: the clean-up goes on, and each counted command returns once
  the context is cancelled, as its requests carry that context.
- `ConsensusStream`: the setup has a deadline, sends and waits watch the
  context, the cancellation closes the socket under a blocked read, and the
  interface runs its commands. An uncancelled read may block forever, and
  nothing is assumed of the node.

## What is proved

TLAPS checks eight modules. The theorems hold for all values of the constants
under the assumptions named in the modules.

**`ContextFilesProofs`, the store**: `RevisionsAdvanceThm`,
`ImportAllOrNothingThm`, `RestoreIsExactThm`, `CloseIsAtomicThm`, for any keys,
records and files. None of the properties is inductive: they speak of the
committing step, whose result depends on all writes before it. `WorkIsPrefix`
closes the gap: the working copy is the base with exactly the writes done so
far. At the commit nothing is left to write, so the working copy is the complete
outcome (`CommitOutcome`), and each property follows from what one write does to
one key.

**`ContextFilesProofs`, the action log**: `RowsAreTrueThm` and
`ReadIsFaithfulThm`, for any processes, file size and number of rotated files (at
least one: `LogAssumption`). The invariant `LogInv` and the steps that rename
nothing are in `ActionLogProofs`. `Numbered` gives every entry one place, in one
file or in the hand of one process. `NamesInOrder` says that younger names belong
to newer files, also halfway through a rotation. `LeftIsNewer` and `ReadComplete`
follow a reader that holds no lock: whatever is still to be read is newer than
what was read, and what there was is in one of the two unless a file moved under
it. `PendingFirst` puts the pending entry of a transaction before its settled
ones unless rotations raced; it needs `FullWhenRotated` and `Revision`, since a
reader settles an entry through a file that may have been rotated since.
`EntriesTrue` with `Held` says that what a process is about to write is still
true when it writes it, and keeps apart the entries of broadcasts that returned
an error.

**`StoreSyncProofs`**: `SyncCoversHeightThm` (for `akt store sync`:
`Modes \subseteq {"now"}`), `NoLeaseOutlivesDeploymentThm`, `LastSDLKeptThm`, for
any deployments, providers, runs and heights. The invariant has five parts.
`World`: every chain in the history is sound (no lease without its deployment, an
active lease only under an active one) and the present chain is later than all of
them. `Runners` and `Syncer`: whoever writes holds the lock, so a reconciliation
and a recording never interleave. `Kept`: `LastSDLKept` with the types it needs.
`Reading`: everything that was on the chain at the recorded height, or is a lease
of a deployment listed as closed, is already in the store in a state seen since,
or is still to be written. The two action properties are this last part when
nothing is left to write.

**`ServicesProofs`, the engine**: `RunFollowsStepsThm`, `CancellationStopsThm`,
`OutcomeIsTrueThm`, for any definition. The invariant adds `Progress` (what the
phases mean; a wait only starts when an attempt is left, which is why no step
exceeds its retry block) and `Lateness` (how the
cancellation, the racing timer and the late attempts relate; `CancellationStops`
alone does not say that a race can be used only once).

**`ServicesProofs`, the events**: `StoreFollowsChainThm` and `NeverBackThm`, for
any number of updates and sessions. Both need to know what is under way:
`PendingOrder` says that the store, the event in hand, the bus, the headers and
the chain are in the order of the chain, `PendingMade` that no event is ahead of
it, and `PendingReplay` that, when nothing was lost, handling all of them leads
from the store to what events tell of the chain. A block passed over breaks only
the last. `ApplyAlike` carries the difference: states that events cannot tell
apart stay so under every handler.

**`ServicesProofs`, the monitor's runtime**: `DetailIsCurrentThm` and
`CleanShutdownThm`, for any providers and requests. `Holdings` is what is open at
each step of `Run`, wherever the build failed; `Commands` says that commands run
only until the group has been waited for.

**`RunsProofs`, deploy**: `ImplementsEngine` shows on both rails that the run is
a run of the engine with the rail's definition: every step of the run, the chain,
the providers and the user is a step of the engine or a stutter.
`ManifestMatchesChainThm`, `SuccessIsRealThm` and `NoSilentOrphanThm` are for the
chain rail, with any number of providers and edits: the definition of the Console
rail is the result of a filter over a sequence, which the provers cannot compute
with. `CreatedOnce` is the heart of the invariant: one transaction creates the
deployment, from the text remembered, and a run that is past it knows so or has
lost the reply; `BidsFirst` and `Reporting` tie bids, leases and the report to
the step.

**`RunsProofs`, update**: `UpdateImplementsEngine`, `ReportedProvidersThm`,
`RoundIsCompleteThm`. `Delivery` says that the providers asked are those left,
those that accepted and those that failed, and that whoever accepted holds the
remembered text.

**`MonitorProofs`, the stream**: `TypeCorrect`, `VotesExactThm`,
`TrackerNeverRewindsThm`, `HistoryKeepsVotesThm`, for any number of heights,
rounds, validators and messages. `HandleFacts` says what one message does to the
tracker. `VotesHeld` says that every vote read is counted, out of date or still
buffered, and that every vote counted was read; `Coherent` ties the tracker's set
to its height and says what is reset when a connection ends. `VotesExact` is not
inductive because it is silent while the buffer is not empty. `HistoryKeepsVotes`
needs `Freshest`: the snapshot shown is the last of its height unless one that
cannot record it is waiting.

**`MonitorProofs`, the checks**: `ChecksAddUpThm`, for any finite set of
providers, any limit and any chain syncs. The queue holds each provider once and
keeps those in flight (`QueueOK`), only of providers in the cache (`Known`), and
each provider in flight has one check under way and no other has any
(`CheckOf`). Without the first, removing a provider could take more than one from the count;
without the last a queue rebuilt by a chain sync could start a second check.

**`ConfigHomeProofs`**: `ConfigClosedThm`, `DataKeptThm` and `ForkIsolatesThm`,
for any processes, contexts, networks and keyrings. The operations preserve
closedness one by one on a copy; the missing piece is `UseIsNamed`: a process that
will switch to a context after its save has that context in its copy.
`ForkIsolates` rests on closedness: the name a fork gets was no network of the
copy, so no other context of the copy can refer to it.

**`ConsoleClientProofs`**: `DoneOnceThm`, `RecordIsTrueThm`,
`ConcurrentEditKeptThm`, for any limits and any number of edits. `Sending` counts
what may have been sent and carried out at each step of an operation that must
not be repeated, and says that a definitive refusal means it was not, except for
a lease; `Conclusions` says that an effect the client sees, or is told of, was
there, and that a lease that was made is there until the deployment is closed.

Only model-checked:

- the liveness properties (`RunsEnd`, `CancellationDrains`, `Resubscribes`,
  `EndsRecorded`, `KnownIsChecked`, `WatcherConverges`, `PartsProgress`), since
  fairness is out of the prover's reach;
- the three properties of `Invocation`, whose commands, flags and configurations
  are finite tables that the run covers exhaustively; only the number of
  broadcasts of one command is bounded;
- the three safety properties of a deployment on the Console rail;
- the statements that the code does not meet.

## What is not modelled, and why

`PROJECT.json` gives every component a status and a reason.

- Text and layout: rendering, widgets, output formats, error wording, the
  templates and parameters of workflows, the validation and patching of SDL
  documents, decimal conversion of deposits. Pure functions on text, which say
  nothing the unit tests do not say better.
- Reads: chain state queries of the monitor, the moniker cache, filters and
  statistics of the store. One request or one transaction each.
- Libraries: cryptography and keyring backends, HTTP, TLS and attestation of the
  provider gateway, gRPC, bbolt's pages. They appear as calls that may fail.
- Steps whose effect is outside the program (shell) or a single read (query,
  check, output): to the engine they are steps with an outcome.
- `CreateDeployment` of the Console client without options, which only tests call.
- The polls of the readiness wait after a deployment: one step that succeeds,
  times out or is cancelled.
- The close workflow is one transaction and a message, and redeploy differs from
  deploy in where the SDL comes from; the Console rail of `akt update` is the
  operation `update` of `ConsoleClient` inside one engine step.
- The full-screen interface: started only with `AKT_EXPERIMENTAL_TUI=1` and
  without a store; its views load and render. The bridge to the store is in
  `EventSync`.
