----------------------------- MODULE ConfigHome -----------------------------
(***************************************************************************)
(* The configuration home: config.yaml, the data directories of the        *)
(* contexts, the processes that load the file, change their copy of it and *)
(* write it back, and the watcher that reloads it.  There is no lock: each *)
(* process saves the whole configuration it loaded, a save truncates the   *)
(* file before it writes, and a process may be killed at any point.        *)
(***************************************************************************)
EXTENDS FiniteSets, Integers

CONSTANTS
    Procs, Contexts, Networks, Keyrings,
    DefaultKeyring,  \* "default"
    Fork(_, _),      \* the name of a network forked for a context
    SameName(_),     \* the network a context of the first-run wizard is named after
    None,            \* no name, no record
    MaxCommands      \* bound: how many invocations are started

ASSUME ConfigAssumption ==
    /\ DefaultKeyring \in Keyrings
    /\ None \notin Contexts \cup Networks \cup Keyrings
    /\ \A n \in Networks, c \in Contexts : Fork(n, c) \in Networks
    /\ \A c \in Contexts : SameName(c) \in Networks
    /\ MaxCommands \in Nat

VARIABLES
    file,     \* config.yaml
    opener,   \* the process that truncated it, until something is written
    data,     \* what each context directory holds: the names it was written under
    ps,       \* the processes
    changed,  \* the watcher has an event it has not handled
    settling, \* the watcher waits for the writer to settle
    told,     \* the configuration its subscribers were last given
    kept,     \* names whose data no command removed (auxiliary)
    count     \* invocations so far (bound)

procVars == <<ps, count>>
watcherVars == <<settling, told>>
vars == <<file, opener, data, ps, changed, settling, told, kept, count>>

ContextRecords == [net : Networks \cup {None}, kr : Keyrings]

(* A network is absent (0) or has one of two definitions.  A keyring is    *)
(* there or not; what backend it has is left out.                          *)
Configs == [ctxs : [Contexts -> ContextRecords \cup {None}],
            nets : [Networks -> 0..2], krs : SUBSET Keyrings,
            cur : Contexts \cup {None}]

ASSUME NoneAssumption == None \notin ContextRecords

EmptyConfig == [ctxs |-> [c \in Contexts |-> None], nets |-> [n \in Networks |-> 0],
                krs |-> {}, cur |-> None]

(* DefaultConfig: what a missing file means. *)
DefaultConfig == [EmptyConfig EXCEPT !.krs = {DefaultKeyring}]

Readable == file.st # "torn"

(* LoadConfig.  A truncated file parses as an empty configuration. *)
LoadConfig == CASE file.st = "missing" -> DefaultConfig
                [] file.st = "empty" -> EmptyConfig
                [] OTHER -> file.cfg

Named(cfg) == {c \in Contexts : cfg.ctxs[c] # None}

(* ActiveContext: the override, the current context, the only context. *)
ActiveContext(cfg, override) ==
    CASE override # None -> override
      [] cfg.cur # None -> cfg.cur
      [] Cardinality(Named(cfg)) = 1 -> CHOOSE c \in Contexts : c \in Named(cfg)
      [] OTHER -> None

(* Resolve succeeds: the context and what it refers to are defined. *)
Resolves(cfg, c) ==
    /\ c \in Named(cfg)
    /\ cfg.ctxs[c].net # None => cfg.nets[cfg.ctxs[c].net] # 0
    /\ cfg.ctxs[c].kr \in cfg.krs

Idle == [pc |-> "idle", mem |-> EmptyConfig, ctx |-> None, use |-> FALSE]

TypeOK ==
    /\ file \in [st : {"missing", "empty", "ok", "torn"}, cfg : Configs]
    /\ opener \in Procs \cup {None}
    /\ data \in [Contexts -> SUBSET Contexts]
    /\ ps \in [Procs -> [pc : {"idle", "wizard", "ready", "open", "write", "done"},
                         mem : Configs, ctx : Contexts \cup {None}, use : BOOLEAN]]
    /\ changed \in BOOLEAN /\ settling \in BOOLEAN
    /\ told \in Configs
    /\ kept \subseteq Contexts
    /\ count \in 0..MaxCommands

(* What the first-run wizard builds: a context for each selected network,  *)
(* all on the default keyring, and the current one of the user's choice.   *)
WizardConfig(selected, cur) ==
    [ctxs |-> [c \in Contexts |-> IF c \notin selected THEN None
                  ELSE [net |-> SameName(c), kr |-> DefaultKeyring]],
     nets |-> [n \in Networks |-> IF \E c \in selected : SameName(c) = n THEN 1 ELSE 0],
     krs |-> {DefaultKeyring}, cur |-> cur]

OnOneNetwork(cfg, n) ==
    [cfg EXCEPT !.ctxs = [c \in Contexts |-> IF @[c] = None THEN None ELSE [@[c] EXCEPT !.net = n]]]

(* Nothing is configured yet, or the wizard has been through and the       *)
(* contexts were moved to one network since.                               *)
Init ==
    /\ file \in {[st |-> "missing", cfg |-> EmptyConfig]} \cup
               {[st |-> "ok", cfg |-> OnOneNetwork(WizardConfig(Contexts, c), SameName(c))] :
                    c \in Contexts}
    /\ opener = None
    /\ data = [c \in Contexts |-> {}]
    /\ ps = [p \in Procs |-> Idle]
    /\ changed = FALSE /\ settling = FALSE
    /\ told = LoadConfig
    /\ kept = {}
    /\ count = 0

(* Opening an action log, making the directories of a context or storing a *)
(* credential puts something into the directory of c.                      *)
Written(c) == IF c = None THEN data ELSE [data EXCEPT ![c] = @ \cup {c}]
KeptWith(c) == kept \cup ({c} \ {None})

Ready(p) == ps[p].pc = "ready"

-----------------------------------------------------------------------------
(* The root command's PersistentPreRunE for the commands that manage the   *)
(* configuration: load it, resolve the selected context, open its log.  An *)
(* unreadable file or a selected context that does not resolve is an error *)
(* and the process ends.                                                   *)
Start(p, override) ==
    LET sel == ActiveContext(LoadConfig, override) IN
    /\ ps[p].pc = "idle" /\ count < MaxCommands
    /\ count' = count + 1
    /\ IF Readable /\ (sel = None \/ Resolves(LoadConfig, sel))
       THEN /\ ps' = [ps EXCEPT ![p] = [Idle EXCEPT !.pc = "ready", !.mem = LoadConfig]]
            /\ data' = Written(sel) /\ kept' = KeptWith(sel)
       ELSE UNCHANGED <<ps, data, kept>>
    /\ UNCHANGED <<file, opener, changed, watcherVars>>

(* The first-run wizard starts when there is no file. *)
StartWizard(p) ==
    /\ ps[p].pc = "idle" /\ count < MaxCommands
    /\ file.st = "missing"
    /\ count' = count + 1
    /\ ps' = [ps EXCEPT ![p].pc = "wizard"]
    /\ UNCHANGED <<file, opener, data, changed, watcherVars, kept>>

(* bootstrap.Run after its last prompt: the chosen current context may get *)
(* a Console credential.  It saves, whatever the file is by now.           *)
Wizard(p, selected, cur, key) ==
    /\ ps[p].pc = "wizard"
    /\ cur \in selected
    /\ ps' = [ps EXCEPT ![p] = [pc |-> "open", mem |-> WizardConfig(selected, cur),
                                ctx |-> IF key THEN cur ELSE None, use |-> FALSE]]
    /\ UNCHANGED <<file, opener, data, changed, watcherVars, kept, count>>

(* A command has changed its copy and calls save; ctx is the context whose *)
(* directory it writes to afterwards, use whether it then switches to it.  *)
Save(p, cfg, ctx, use) ==
    ps' = [ps EXCEPT ![p] = [pc |-> "open", mem |-> cfg, ctx |-> ctx, use |-> use]]

(* CreateContext: the directories are made before the save. *)
CreateContext(p, c, net, kr, use) ==
    /\ Ready(p)
    /\ ps[p].mem.ctxs[c] = None
    /\ net # None => ps[p].mem.nets[net] # 0
    /\ kr \in ps[p].mem.krs
    /\ data' = Written(c) /\ kept' = KeptWith(c)
    /\ Save(p, [ps[p].mem EXCEPT !.ctxs[c] = [net |-> net, kr |-> kr]], c, use)
    /\ UNCHANGED <<file, opener, changed, watcherVars, count>>

UseContext(p, c) ==
    /\ Ready(p)
    /\ c \in Named(ps[p].mem)
    /\ Save(p, [ps[p].mem EXCEPT !.cur = c], c, FALSE)
    /\ UNCHANGED <<file, opener, data, changed, watcherVars, kept, count>>

Edited(v) == 3 - v

(* UpdateContextAndNetwork.  The references are checked after the change;  *)
(* the network it then has may be edited in place ...                      *)
UpdateContext(p, c, net, kr, edit) ==
    /\ Ready(p)
    /\ c \in Named(ps[p].mem)
    /\ net = None => ~edit
    /\ net # None => ps[p].mem.nets[net] # 0
    /\ kr \in ps[p].mem.krs
    /\ Save(p, [ps[p].mem EXCEPT !.ctxs[c] = [net |-> net, kr |-> kr],
                                 !.nets = [n \in Networks |->
                                     IF edit /\ n = net THEN Edited(@[n]) ELSE @[n]]], c, FALSE)
    /\ UNCHANGED <<file, opener, data, changed, watcherVars, kept, count>>

(* `context edit`: --fork-network forks the network the context is on; the *)
(* prompt offers to fork the network it will be on, the one of --network   *)
(* included, when another context is on it.                                *)
MayFork(cfg, c, net) ==
    \/ net = cfg.ctxs[c].net
    \/ \E d \in Named(cfg) \ {c} : cfg.ctxs[d].net = net

(* Mutant: the fork shares its endpoints with its parent. *)
UpdateForkedAlias(p, c, net, kr) ==
    LET fork == Fork(net, c) IN
    /\ Ready(p)
    /\ c \in Named(ps[p].mem)
    /\ MayFork(ps[p].mem, c, net)
    /\ ps[p].mem.nets[net] # 0
    /\ ps[p].mem.nets[fork] = 0
    /\ kr \in ps[p].mem.krs
    /\ Save(p, [ps[p].mem EXCEPT !.nets[fork] = Edited(ps[p].mem.nets[net]), !.nets[net] = Edited(@),
                                 !.ctxs[c] = [net |-> fork, kr |-> kr]], c, FALSE)
    /\ UNCHANGED <<file, opener, data, changed, watcherVars, kept, count>>

(* ... or as a fork that is made for this context. *)
UpdateForkedNetwork(p, c, net, kr) ==
    LET fork == Fork(net, c) IN
    /\ Ready(p)
    /\ c \in Named(ps[p].mem)
    /\ MayFork(ps[p].mem, c, net)
    /\ ps[p].mem.nets[net] # 0
    /\ ps[p].mem.nets[fork] = 0
    /\ kr \in ps[p].mem.krs
    /\ Save(p, [ps[p].mem EXCEPT !.nets[fork] = Edited(ps[p].mem.nets[net]),
                                 !.ctxs[c] = [net |-> fork, kr |-> kr]], c, FALSE)
    /\ UNCHANGED <<file, opener, data, changed, watcherVars, kept, count>>

(* DeleteContext: the directory goes before the save, unless it is kept. *)
DeleteContext(p, c, keepData) ==
    /\ Ready(p)
    /\ c \in Named(ps[p].mem)
    /\ ps[p].mem.cur # c
    /\ Save(p, [ps[p].mem EXCEPT !.ctxs[c] = None], ps[p].mem.cur, FALSE)
    /\ IF keepData THEN UNCHANGED <<data, kept>>
       ELSE /\ data' = [data EXCEPT ![c] = {}]
            /\ kept' = kept \ data[c]
    /\ UNCHANGED <<file, opener, changed, watcherVars, count>>

(* Mutant: a directory at the new name is replaced. *)
RenameContextOver(p, old, new) ==
    /\ Ready(p)
    /\ new \notin Named(ps[p].mem) /\ old \in Named(ps[p].mem)
    /\ Save(p, [ps[p].mem EXCEPT !.ctxs[new] = ps[p].mem.ctxs[old], !.ctxs[old] = None,
                                 !.cur = IF @ = old THEN new ELSE @], new, FALSE)
    /\ data' = IF data[old] = {} THEN data
               ELSE [data EXCEPT ![new] = data[old], ![old] = {}]
    /\ UNCHANGED <<file, opener, changed, watcherVars, kept, count>>

(* RenameContext: the directory moves before the save.  A directory that   *)
(* is already at the new name is not empty, so moving onto it fails.       *)
RenameContext(p, old, new) ==
    /\ Ready(p)
    /\ new \notin Named(ps[p].mem) /\ old \in Named(ps[p].mem)
    /\ data[old] # {} => data[new] = {}
    /\ Save(p, [ps[p].mem EXCEPT !.ctxs[new] = ps[p].mem.ctxs[old], !.ctxs[old] = None,
                                 !.cur = IF @ = old THEN new ELSE @], new, FALSE)
    /\ data' = IF data[old] = {} THEN data
               ELSE [data EXCEPT ![new] = data[old], ![old] = {}]
    /\ UNCHANGED <<file, opener, changed, watcherVars, kept, count>>

(* CreateNetwork, UpdateNetwork, DeleteNetwork, CreateKeyring.  None of    *)
(* them writes to a context directory.                                     *)
CreateNetwork(p, n) ==
    /\ Ready(p)
    /\ ps[p].mem.nets[n] = 0
    /\ Save(p, [ps[p].mem EXCEPT !.nets[n] = 1], None, FALSE)
    /\ UNCHANGED <<file, opener, data, changed, watcherVars, kept, count>>

UpdateNetwork(p, n) ==
    /\ Ready(p)
    /\ ps[p].mem.nets[n] # 0
    /\ Save(p, [ps[p].mem EXCEPT !.nets[n] = Edited(@)], None, FALSE)
    /\ UNCHANGED <<file, opener, data, changed, watcherVars, kept, count>>

(* Mutant: contexts that use the network are not looked for. *)
DeleteNetworkInUse(p, n) ==
    /\ Ready(p)
    /\ ps[p].mem.nets[n] # 0
    /\ Save(p, [ps[p].mem EXCEPT !.nets[n] = 0], None, FALSE)
    /\ UNCHANGED <<file, opener, data, changed, watcherVars, kept, count>>

DeleteNetwork(p, n) ==
    /\ Ready(p)
    /\ ps[p].mem.nets[n] # 0
    /\ \A c \in Named(ps[p].mem) : ps[p].mem.ctxs[c].net # n
    /\ Save(p, [ps[p].mem EXCEPT !.nets[n] = 0], None, FALSE)
    /\ UNCHANGED <<file, opener, data, changed, watcherVars, kept, count>>

CreateKeyring(p, k) ==
    /\ Ready(p)
    /\ k \notin ps[p].mem.krs
    /\ Save(p, [ps[p].mem EXCEPT !.krs = @ \cup {k}], None, FALSE)
    /\ UNCHANGED <<file, opener, data, changed, watcherVars, kept, count>>

-----------------------------------------------------------------------------
(* SaveConfig: os.Create truncates the file, ... *)
SaveOpen(p) ==
    /\ ps[p].pc = "open"
    /\ file' = [st |-> "empty", cfg |-> EmptyConfig]
    /\ opener' = p
    /\ changed' = TRUE
    /\ ps' = [ps EXCEPT ![p].pc = "write"]
    /\ UNCHANGED <<data, watcherVars, kept, count>>

(* Mutant: only the creation of the file is an event. *)
SaveWriteUnnoticed(p) ==
    /\ ps[p].pc = "write"
    /\ \/ file' = [st |-> "ok", cfg |-> ps[p].mem]
       \/ /\ opener # p \/ file.st # "empty"
          /\ file' = [st |-> "torn", cfg |-> EmptyConfig]
    /\ opener' = None
    /\ ps' = [ps EXCEPT ![p].pc = "done"]
    /\ UNCHANGED <<changed, data, watcherVars, kept, count>>

(* ... then the payload is written.  When another process has truncated or *)
(* written the file in between, the bytes of the two can mix: the result   *)
(* is this payload or a file that does not parse.                          *)
SaveWrite(p) ==
    /\ ps[p].pc = "write"
    /\ \/ file' = [st |-> "ok", cfg |-> ps[p].mem]
       \/ /\ opener # p \/ file.st # "empty"
          /\ file' = [st |-> "torn", cfg |-> EmptyConfig]
    /\ changed' = TRUE
    /\ opener' = None
    /\ ps' = [ps EXCEPT ![p].pc = "done"]
    /\ UNCHANGED <<data, watcherVars, kept, count>>

(* After the save: the credential and the log entry of the context, then   *)
(* `create --use` switches to it with a second save.                       *)
Finish(p) ==
    /\ ps[p].pc = "done"
    /\ data' = Written(ps[p].ctx) /\ kept' = KeptWith(ps[p].ctx)
    /\ ps' = [ps EXCEPT ![p] =
                 IF @.use THEN [ps[p] EXCEPT !.pc = "open", !.use = FALSE, !.mem.cur = ps[p].ctx]
                 ELSE Idle]
    /\ UNCHANGED <<file, opener, changed, watcherVars, count>>

(* The process ends: refused by a check, aborted at a prompt, failed while *)
(* creating or writing the file, or killed.                                *)
End(p) ==
    /\ ps[p].pc # "idle"
    /\ ps' = [ps EXCEPT ![p] = Idle]
    /\ UNCHANGED <<file, opener, data, changed, watcherVars, kept, count>>

-----------------------------------------------------------------------------
(* Watcher.loop: an event is taken (more of the same burst may follow) and *)
(* the writer is given time to settle; then the file is read again.        *)
WatcherEvent ==
    /\ changed /\ ~settling
    /\ changed' \in BOOLEAN
    /\ settling' = TRUE
    /\ UNCHANGED <<file, opener, data, procVars, told, kept>>

(* Reload: on an error the configuration stays as it is and no subscriber  *)
(* is called.                                                              *)
WatcherReload ==
    /\ settling
    /\ settling' = FALSE
    /\ told' = IF Readable THEN LoadConfig ELSE told
    /\ UNCHANGED <<file, opener, data, procVars, changed, kept>>

Manage(p) ==
    \/ \E c \in Contexts, net \in Networks \cup {None}, kr \in Keyrings :
          \/ \E use \in BOOLEAN : CreateContext(p, c, net, kr, use)
          \/ \E edit \in BOOLEAN : UpdateContext(p, c, net, kr, edit)
    \/ \E c \in Contexts :
          \/ UseContext(p, c)
          \/ \E net \in Networks, kr \in Keyrings : UpdateForkedNetwork(p, c, net, kr)
          \/ \E keepData \in BOOLEAN : DeleteContext(p, c, keepData)
          \/ \E new \in Contexts : RenameContext(p, c, new)
    \/ \E n \in Networks : CreateNetwork(p, n) \/ UpdateNetwork(p, n) \/ DeleteNetwork(p, n)
    \/ \E k \in Keyrings : CreateKeyring(p, k)

Next ==
    \/ \E p \in Procs :
          \/ \E override \in Contexts \cup {None} : Start(p, override)
          \/ StartWizard(p)
          \/ \E selected \in SUBSET Contexts, cur \in Contexts, key \in BOOLEAN :
                Wizard(p, selected, cur, key)
          \/ Manage(p)
          \/ SaveOpen(p) \/ SaveWrite(p) \/ Finish(p) \/ End(p)
    \/ WatcherEvent \/ WatcherReload

(* The watcher's goroutine runs until it is stopped. *)
Fairness == WF_vars(WatcherEvent) /\ WF_vars(WatcherReload)

Spec == Init /\ [][Next]_vars /\ Fairness

-----------------------------------------------------------------------------
(* Every reference of a configuration resolves. *)
Closed(cfg) ==
    /\ \A c \in Named(cfg) : Resolves(cfg, c)
    /\ cfg.cur # None => cfg.cur \in Named(cfg)

(* The commands check references only in the copy they loaded and save     *)
(* that copy over whatever is there, and MustResolveAndInit makes every    *)
(* command fail on a context that does not resolve.  Still no interleaving *)
(* of loads, saves and kills leaves a readable file, a loaded copy or a    *)
(* watcher's configuration with a dangling reference.                      *)
ConfigClosed ==
    /\ file.st = "ok" => Closed(file.cfg)
    /\ \A p \in Procs : Closed(ps[p].mem)
    /\ Closed(told)

(* Directories are made, moved and removed before the configuration that   *)
(* explains it is saved.  Nothing written for a context is lost unless a   *)
(* `context delete` removes the directory it is in.                        *)
DataKept == kept \subseteq UNION {data[c] : c \in Contexts}

NetworkSeen(cfg, c) == IF cfg.ctxs[c].net = None THEN 0 ELSE cfg.nets[cfg.ctxs[c].net]

(* A fork with `context edit`, of the context's own network or of one      *)
(* chosen with it: a command that moves a context to a network it has just *)
(* made leaves every other context's network as it was.                    *)
ForkIsolates ==
    [][\A p \in Procs : Ready(p) /\ ps'[p].pc = "open" =>
          LET old == ps[p].mem  new == ps'[p].mem IN
          (\E c \in Named(old) \cap Named(new) :
              LET net == new.ctxs[c].net IN
              net # old.ctxs[c].net /\ net # None /\ old.nets[net] = 0)
          => \E c \in Named(old) :
                \A d \in Named(old) \ {c} : NetworkSeen(new, d) = NetworkSeen(old, d)]_vars

(* The watcher misses no save: once the file stays what a save wrote,      *)
(* subscribers have been given what it says.                               *)
WatcherConverges == <>[](file.st = "ok" => told = file.cfg)

(* Not met: an empty intermediate file is never published.  It parses, so  *)
(* a writer that takes longer than the settling delay, or is killed after  *)
(* it truncated the file, has the subscribers given an empty configuration.*)
NeverToldEmpty == told # EmptyConfig
=============================================================================
