-------------------------- MODULE ConfigHomeProofs --------------------------
(***************************************************************************)
(* No interleaving of loads, saves and kills leaves a dangling reference,  *)
(* and no data is lost, for any number of processes, contexts, networks    *)
(* and keyrings.                                                           *)
(***************************************************************************)
EXTENDS ConfigHome, TLAPS

(* A process that will switch to a context after its save has that context *)
(* in its copy.                                                            *)
UseIsNamed == \A p \in Procs : ps[p].use => ps[p].ctx \in Named(ps[p].mem)

(* The inductive invariant. *)
IInv == TypeOK /\ ConfigClosed /\ UseIsNamed /\ DataKept

ProcRecords ==
    [pc : {"idle", "wizard", "ready", "open", "write", "done"},
     mem : Configs, ctx : Contexts \cup {None}, use : BOOLEAN]

-----------------------------------------------------------------------------
(* Configurations.  An empty configuration refers to nothing. *)
LEMMA EmptyIsClosed ==
    /\ EmptyConfig \in Configs /\ Closed(EmptyConfig)
    /\ DefaultConfig \in Configs /\ Closed(DefaultConfig)
<1>1. EmptyConfig \in Configs
  BY ConfigAssumption DEF EmptyConfig, Configs
<1>2. Named(EmptyConfig) = {} /\ EmptyConfig.cur = None
  BY DEF Named, EmptyConfig
<1>3. DefaultConfig \in Configs
  BY <1>1, ConfigAssumption, Zenon DEF DefaultConfig, EmptyConfig, Configs
<1>4. Named(DefaultConfig) = {} /\ DefaultConfig.cur = None
  BY DEF Named, DefaultConfig, EmptyConfig
<1> QED
  BY <1>1, <1>2, <1>3, <1>4 DEF Closed

(* What a load gives: a readable file holds a closed configuration. *)
LEMMA LoadIsClosed ==
    ASSUME IInv, Readable
    PROVE  LoadConfig \in Configs /\ Closed(LoadConfig)
<1>1. CASE file.st = "missing"
  BY <1>1, EmptyIsClosed DEF LoadConfig
<1>2. CASE file.st = "empty"
  BY <1>2, EmptyIsClosed DEF LoadConfig
<1>3. CASE file.st = "ok"
  BY <1>3 DEF LoadConfig, IInv, TypeOK, ConfigClosed
<1> QED
  BY <1>1, <1>2, <1>3 DEF IInv, TypeOK, Readable

(* The wizard's configuration is closed: each context is on a network and  *)
(* a keyring that it defines.                                              *)
LEMMA WizardIsClosed ==
    ASSUME NEW selected \in SUBSET Contexts, NEW cur \in selected
    PROVE  WizardConfig(selected, cur) \in Configs /\ Closed(WizardConfig(selected, cur))
<1> DEFINE w == WizardConfig(selected, cur)
<1>1. /\ w.ctxs = [c \in Contexts |-> IF c \notin selected THEN None
                                       ELSE [net |-> SameName(c), kr |-> DefaultKeyring]]
      /\ w.nets = [n \in Networks |-> IF \E c \in selected : SameName(c) = n THEN 1 ELSE 0]
      /\ w.krs = {DefaultKeyring} /\ w.cur = cur
  BY DEF WizardConfig
<1>2. \A c \in Contexts : [net |-> SameName(c), kr |-> DefaultKeyring] \in ContextRecords
  BY ConfigAssumption DEF ContextRecords
<1>3. w.ctxs \in [Contexts -> ContextRecords \cup {None}]
  BY <1>1, <1>2
<1>4. w.nets \in [Networks -> 0..2]
  BY <1>1
<1>5. w \in Configs
  BY <1>1, <1>3, <1>4, ConfigAssumption DEF Configs, WizardConfig
<1>6. Named(w) = selected
  BY <1>1, <1>2, NoneAssumption DEF Named
<1>7. ASSUME NEW c \in selected PROVE Resolves(w, c)
  <2>1. w.ctxs[c].net = SameName(c) /\ w.ctxs[c].kr = DefaultKeyring
    BY <1>1, <1>7
  <2>2. SameName(c) \in Networks /\ w.nets[SameName(c)] = 1
    BY <1>1, <1>7, ConfigAssumption
  <2> QED
    BY <2>1, <2>2, <1>1, <1>6 DEF Resolves
<1> QED
  BY <1>1, <1>5, <1>6, <1>7 DEF Closed

(* So is the same with every context on the network of one of them. *)
LEMMA MovedIsClosed ==
    ASSUME NEW c \in Contexts
    PROVE  LET m == OnOneNetwork(WizardConfig(Contexts, c), SameName(c))
           IN  m \in Configs /\ Closed(m)
<1> DEFINE w == WizardConfig(Contexts, c)
           m == OnOneNetwork(w, SameName(c))
<1>1. w \in Configs /\ Closed(w)
  BY WizardIsClosed
<1>2. /\ w.ctxs = [d \in Contexts |-> [net |-> SameName(d), kr |-> DefaultKeyring]]
      /\ w.nets[SameName(c)] = 1
      /\ w.krs = {DefaultKeyring} /\ w.cur = c
  BY ConfigAssumption DEF WizardConfig
<1>3. \A d \in Contexts : [net |-> SameName(c), kr |-> DefaultKeyring] \in ContextRecords
  BY ConfigAssumption DEF ContextRecords
<1>4. \A d \in Contexts : w.ctxs[d] # None
  <2> SUFFICES ASSUME NEW d \in Contexts PROVE w.ctxs[d] # None
    OBVIOUS
  <2>1. w.ctxs[d] = [net |-> SameName(d), kr |-> DefaultKeyring]
    BY <1>2
  <2>2. w.ctxs[d] \in ContextRecords
    BY <2>1, ConfigAssumption DEF ContextRecords
  <2> QED
    BY <2>2, NoneAssumption
<1> HIDE DEF w
<1>5. m = [w EXCEPT !.ctxs = [d \in Contexts |-> [net |-> SameName(c), kr |-> DefaultKeyring]]]
  <2>1. \A d \in Contexts : [w.ctxs[d] EXCEPT !.net = SameName(c)]
                                = [net |-> SameName(c), kr |-> DefaultKeyring]
    BY <1>2
  <2>2. [d \in Contexts |-> IF w.ctxs[d] = None THEN None ELSE [w.ctxs[d] EXCEPT !.net = SameName(c)]]
            = [d \in Contexts |-> [net |-> SameName(c), kr |-> DefaultKeyring]]
    BY <1>4, <2>1
  <2> QED
    BY <2>2, Zenon DEF OnOneNetwork
<1> HIDE DEF m
<1>6. /\ m.ctxs = [d \in Contexts |-> [net |-> SameName(c), kr |-> DefaultKeyring]]
      /\ m.nets = w.nets /\ m.krs = w.krs /\ m.cur = w.cur
  BY <1>1, <1>5 DEF Configs
<1>7. m.ctxs \in [Contexts -> ContextRecords \cup {None}]
  BY <1>3, <1>6
<1>8. m \in Configs
  BY <1>1, <1>5, <1>7, <1>6 DEF Configs
<1>9. Named(m) = Contexts
  BY <1>3, <1>6, NoneAssumption DEF Named
<1>10. \A d \in Contexts : Resolves(m, d)
  BY <1>2, <1>6, <1>9 DEF Resolves
<1> QED
  BY <1>8, <1>9, <1>10, <1>2, <1>6 DEF Closed, m, w

-----------------------------------------------------------------------------
(* What the commands do to a configuration.  A changed configuration is    *)
(* closed if each context it names is as before or resolves, and neither a *)
(* keyring nor a network in use was removed.                               *)
LEMMA ClosedAfter ==
    ASSUME NEW cfg \in Configs, Closed(cfg), NEW d \in Configs,
           cfg.krs \subseteq d.krs,
           \A n \in Networks : cfg.nets[n] # 0 /\ (\E e \in Named(cfg) : cfg.ctxs[e].net = n)
                                   => d.nets[n] # 0,
           \A e \in Named(d) : (e \in Named(cfg) /\ d.ctxs[e] = cfg.ctxs[e]) \/ Resolves(d, e),
           d.cur # None => d.cur \in Named(d)
    PROVE  Closed(d)
<1> SUFFICES ASSUME NEW e \in Named(d), e \in Named(cfg), d.ctxs[e] = cfg.ctxs[e]
             PROVE  Resolves(d, e)
  BY DEF Closed
<1>1. Resolves(cfg, e) /\ e \in Contexts
  BY DEF Closed, Named
<1>2. cfg.ctxs[e] \in ContextRecords
  BY <1>1 DEF Named, Configs
<1>3. cfg.ctxs[e].net \in Networks \cup {None}
  BY <1>2 DEF ContextRecords
<1> QED
  BY <1>1, <1>3 DEF Resolves

(* A context is created, or its references are changed, and networks are   *)
(* made or edited.                                                         *)
LEMMA PutContext ==
    ASSUME NEW cfg \in Configs, Closed(cfg), NEW c \in Contexts,
           NEW net \in Networks \cup {None}, NEW kr \in Keyrings,
           NEW d \in Configs, d.ctxs = [cfg.ctxs EXCEPT ![c] = [net |-> net, kr |-> kr]],
           d.krs = cfg.krs, d.cur = cfg.cur,
           net # None => d.nets[net] # 0, kr \in cfg.krs,
           \A n \in Networks : cfg.nets[n] # 0 => d.nets[n] # 0
    PROVE  Closed(d) /\ c \in Named(d)
<1> DEFINE r == [net |-> net, kr |-> kr]
<1>1. r \in ContextRecords /\ r # None /\ r.net = net /\ r.kr = kr
  BY NoneAssumption DEF ContextRecords
<1>2. d.ctxs = [cfg.ctxs EXCEPT ![c] = r]
  OBVIOUS
<1> HIDE DEF r
<1>3. cfg.ctxs \in [Contexts -> ContextRecords \cup {None}]
  BY DEF Configs
<1>6. Named(d) = Named(cfg) \cup {c}
  BY <1>1, <1>2, <1>3 DEF Named
<1>7. Resolves(d, c)
  BY <1>1, <1>2, <1>3, <1>6 DEF Resolves
<1>8. \A e \in Named(d) : (e \in Named(cfg) /\ d.ctxs[e] = cfg.ctxs[e]) \/ Resolves(d, e)
  BY <1>2, <1>3, <1>6, <1>7 DEF Named
<1>9. d.cur # None => d.cur \in Named(d)
  BY <1>6 DEF Closed
<1>10. Closed(d)
  BY <1>8, <1>9, ClosedAfter, Zenon
<1> QED
  BY <1>6, <1>10

(* CreateContext, UpdateContext and UpdateForkedNetwork, with the checks   *)
(* they make.                                                              *)
LEMMA CreatedConfig ==
    ASSUME NEW cfg \in Configs, Closed(cfg), NEW c \in Contexts,
           NEW net \in Networks \cup {None}, NEW kr \in Keyrings,
           net # None => cfg.nets[net] # 0, kr \in cfg.krs
    PROVE  LET d == [cfg EXCEPT !.ctxs[c] = [net |-> net, kr |-> kr]]
           IN  d \in Configs /\ Closed(d) /\ c \in Named(d)
<1> DEFINE r == [net |-> net, kr |-> kr]
           d == [cfg EXCEPT !.ctxs[c] = r]
<1>1. r \in ContextRecords
  BY DEF ContextRecords
<1> HIDE DEF r
<1>2. [cfg.ctxs EXCEPT ![c] = r] \in [Contexts -> ContextRecords \cup {None}]
  BY <1>1 DEF Configs
<1>3. d \in Configs /\ d.ctxs = [cfg.ctxs EXCEPT ![c] = r] /\ d.nets = cfg.nets
      /\ d.krs = cfg.krs /\ d.cur = cfg.cur
  BY <1>2 DEF Configs
<1> HIDE DEF d
<1>4. Closed(d) /\ c \in Named(d)
  BY <1>3, PutContext DEF r
<1> QED
  BY <1>3, <1>4 DEF d, r

LEMMA UpdatedConfig ==
    ASSUME NEW cfg \in Configs, Closed(cfg), NEW c \in Contexts,
           NEW net \in Networks \cup {None}, NEW kr \in Keyrings, NEW edit \in BOOLEAN,
           net # None => cfg.nets[net] # 0, kr \in cfg.krs
    PROVE  LET d == [cfg EXCEPT !.ctxs[c] = [net |-> net, kr |-> kr],
                                !.nets = [n \in Networks |->
                                     IF edit /\ n = net THEN Edited(@[n]) ELSE @[n]]]
           IN  d \in Configs /\ Closed(d) /\ c \in Named(d)
<1> DEFINE r == [net |-> net, kr |-> kr]
           nets == [n \in Networks |-> IF edit /\ n = net THEN Edited(cfg.nets[n]) ELSE cfg.nets[n]]
           d == [cfg EXCEPT !.ctxs[c] = r, !.nets = nets]
<1>1. cfg.nets \in [Networks -> 0..2] /\ None \notin Networks
  BY ConfigAssumption DEF Configs
<1>2. \A n \in Networks : nets[n] \in 0..2 /\ (cfg.nets[n] # 0 => nets[n] # 0)
  <2> SUFFICES ASSUME NEW n \in Networks
               PROVE  nets[n] \in 0..2 /\ (cfg.nets[n] # 0 => nets[n] # 0)
    OBVIOUS
  <2>1. CASE edit /\ n = net
    <3>1. cfg.nets[n] \in 1..2 /\ nets[n] = 3 - cfg.nets[n]
      BY <2>1, <1>1 DEF Edited
    <3> QED
      BY <3>1
  <2>2. CASE ~(edit /\ n = net)
    BY <2>2, <1>1
  <2> QED
    BY <2>1, <2>2
<1>3. nets \in [Networks -> 0..2]
  BY <1>2
<1> HIDE DEF nets
<1>4. r \in ContextRecords
  BY DEF ContextRecords
<1> HIDE DEF r
<1>5. [cfg.ctxs EXCEPT ![c] = r] \in [Contexts -> ContextRecords \cup {None}]
  BY <1>4 DEF Configs
<1>6. d \in Configs /\ d.ctxs = [cfg.ctxs EXCEPT ![c] = r] /\ d.nets = nets
      /\ d.krs = cfg.krs /\ d.cur = cfg.cur
  BY <1>3, <1>5, Zenon DEF Configs
<1>7. net # None => nets[net] # 0
  BY <1>2
<1> HIDE DEF d
<1>8. Closed(d) /\ c \in Named(d)
  BY <1>2, <1>6, <1>7, PutContext DEF r
<1> QED
  BY <1>6, <1>8 DEF d, r, nets

LEMMA ForkedConfig ==
    ASSUME NEW cfg \in Configs, Closed(cfg), NEW c \in Named(cfg), NEW net \in Networks,
           NEW kr \in Keyrings, cfg.nets[net] # 0, kr \in cfg.krs
    PROVE  LET fork == Fork(net, c)
               d == [cfg EXCEPT !.nets[fork] = Edited(cfg.nets[net]),
                                !.ctxs[c] = [net |-> fork, kr |-> kr]]
           IN  d \in Configs /\ Closed(d) /\ c \in Named(d)
<1> DEFINE fork == Fork(net, c)
           v == Edited(cfg.nets[net])
           r == [net |-> fork, kr |-> kr]
           d == [cfg EXCEPT !.nets[fork] = v, !.ctxs[c] = r]
<1>1. cfg.nets \in [Networks -> 0..2] /\ c \in Contexts
  BY DEF Configs, Named
<1>3. fork \in Networks
  BY <1>1, ConfigAssumption
<1>4. v \in 1..2
  <2>1. cfg.nets[net] \in 1..2
    BY <1>1
  <2> QED
    BY <2>1 DEF Edited
<1> HIDE DEF fork, v
<1>5. r \in ContextRecords
  BY <1>3 DEF ContextRecords
<1> HIDE DEF r
<1>6. /\ [cfg.ctxs EXCEPT ![c] = r] \in [Contexts -> ContextRecords \cup {None}]
      /\ [cfg.nets EXCEPT ![fork] = v] \in [Networks -> 0..2]
  BY <1>1, <1>3, <1>4, <1>5 DEF Configs
<1>7. d \in Configs /\ d.ctxs = [cfg.ctxs EXCEPT ![c] = r]
      /\ d.nets = [cfg.nets EXCEPT ![fork] = v] /\ d.krs = cfg.krs /\ d.cur = cfg.cur
  BY <1>6, Zenon DEF Configs
<1> HIDE DEF d
<1>8. d.nets[fork] # 0 /\ \A n \in Networks : cfg.nets[n] # 0 => d.nets[n] # 0
  BY <1>1, <1>3, <1>4, <1>7
<1>9. Closed(d) /\ c \in Named(d)
  BY <1>1, <1>3, <1>7, <1>8, PutContext DEF r
<1> QED
  BY <1>7, <1>9 DEF d, r, v, fork

(* The current context is switched. *)
LEMMA PutCurrent ==
    ASSUME NEW cfg \in Configs, Closed(cfg), NEW c \in Named(cfg)
    PROVE  [cfg EXCEPT !.cur = c] \in Configs /\ Closed([cfg EXCEPT !.cur = c])
<1> DEFINE d == [cfg EXCEPT !.cur = c]
<1>1. c \in Contexts
  BY DEF Named
<1>2. /\ d \in Configs /\ d.cur = c /\ d.ctxs = cfg.ctxs /\ d.nets = cfg.nets /\ d.krs = cfg.krs
  BY <1>1 DEF Configs
<1> HIDE DEF d
<1>3. Named(d) = Named(cfg)
  BY <1>2 DEF Named
<1>4. Closed(d)
  BY <1>2, <1>3, ClosedAfter
<1> QED
  BY <1>2, <1>4 DEF d

(* A context that is not the current one is removed. *)
LEMMA RemoveContext ==
    ASSUME NEW cfg \in Configs, Closed(cfg), NEW c \in Contexts, cfg.cur # c
    PROVE  [cfg EXCEPT !.ctxs[c] = None] \in Configs /\ Closed([cfg EXCEPT !.ctxs[c] = None])
<1> DEFINE d == [cfg EXCEPT !.ctxs[c] = None]
<1>1. cfg.ctxs \in [Contexts -> ContextRecords \cup {None}]
  BY DEF Configs
<1>2. /\ d \in Configs /\ d.cur = cfg.cur /\ d.ctxs = [cfg.ctxs EXCEPT ![c] = None]
      /\ d.nets = cfg.nets /\ d.krs = cfg.krs
  BY <1>1 DEF Configs
<1> HIDE DEF d
<1>3. Named(d) = Named(cfg) \ {c} /\ \A e \in Named(d) : d.ctxs[e] = cfg.ctxs[e]
  BY <1>1, <1>2 DEF Named
<1>4. d.cur # None => d.cur \in Named(d)
  BY <1>2, <1>3 DEF Closed
<1>5. Closed(d)
  BY <1>2, <1>3, <1>4, ClosedAfter, Zenon
<1> QED
  BY <1>2, <1>5 DEF d

(* A context gets another name, and stays the current one if it is. *)
LEMMA MoveContext ==
    ASSUME NEW cfg \in Configs, Closed(cfg), NEW old \in Named(cfg), NEW new \in Contexts,
           new \notin Named(cfg)
    PROVE  LET d == [cfg EXCEPT !.ctxs[new] = cfg.ctxs[old], !.ctxs[old] = None,
                                !.cur = IF @ = old THEN new ELSE @]
           IN  d \in Configs /\ Closed(d)
<1> DEFINE d == [cfg EXCEPT !.ctxs[new] = cfg.ctxs[old], !.ctxs[old] = None,
                            !.cur = IF @ = old THEN new ELSE @]
<1>1. /\ cfg.ctxs \in [Contexts -> ContextRecords \cup {None}] /\ old \in Contexts /\ old # new
      /\ cfg.ctxs[old] \in ContextRecords /\ cfg.ctxs[old] # None
      /\ cfg.cur \in Contexts \cup {None}
  BY DEF Configs, Named
<1>2. /\ d.cur = IF cfg.cur = old THEN new ELSE cfg.cur
      /\ d.ctxs = [[cfg.ctxs EXCEPT ![new] = cfg.ctxs[old]] EXCEPT ![old] = None]
      /\ d.nets = cfg.nets /\ d.krs = cfg.krs
  BY DEF Configs
<1>3. /\ d.ctxs \in [Contexts -> ContextRecords \cup {None}]
      /\ d.ctxs[new] = cfg.ctxs[old] /\ d.ctxs[old] = None
      /\ \A e \in Contexts \ {old, new} : d.ctxs[e] = cfg.ctxs[e]
  BY <1>1, <1>2
<1>4. d \in Configs
  BY <1>1, <1>2, <1>3, Zenon DEF Configs
<1> HIDE DEF d
<1>5. Named(d) = (Named(cfg) \ {old}) \cup {new}
  BY <1>1, <1>3 DEF Named
<1>6. Resolves(cfg, old)
  BY DEF Closed
<1>7. Resolves(d, new)
  BY <1>2, <1>3, <1>5, <1>6 DEF Resolves
<1>8. \A e \in Named(d) : (e \in Named(cfg) /\ d.ctxs[e] = cfg.ctxs[e]) \/ Resolves(d, e)
  BY <1>1, <1>3, <1>5, <1>7 DEF Named
<1>9. d.cur # None => d.cur \in Named(d)
  BY <1>1, <1>2, <1>5 DEF Closed
<1>10. Closed(d)
  BY <1>2, <1>4, <1>8, <1>9, ClosedAfter, Zenon
<1> QED
  BY <1>4, <1>10 DEF d

(* A network is made, edited, or removed while no context is on it. *)
LEMMA PutNetwork ==
    ASSUME NEW cfg \in Configs, Closed(cfg), NEW n \in Networks, NEW v \in 0..2,
           v # 0 \/ \A c \in Named(cfg) : cfg.ctxs[c].net # n
    PROVE  [cfg EXCEPT !.nets[n] = v] \in Configs /\ Closed([cfg EXCEPT !.nets[n] = v])
<1> DEFINE d == [cfg EXCEPT !.nets[n] = v]
<1>1. cfg.nets \in [Networks -> 0..2]
  BY DEF Configs
<1>2. /\ d \in Configs /\ d.cur = cfg.cur /\ d.ctxs = cfg.ctxs
      /\ d.nets = [cfg.nets EXCEPT ![n] = v] /\ d.krs = cfg.krs
  BY <1>1 DEF Configs
<1> HIDE DEF d
<1>3. Named(d) = Named(cfg)
  BY <1>2 DEF Named
<1>4. d.cur # None => d.cur \in Named(d)
  BY <1>2, <1>3 DEF Closed
<1>5. \A m \in Networks : cfg.nets[m] # 0 /\ (\E e \in Named(cfg) : cfg.ctxs[e].net = m)
                              => d.nets[m] # 0
  BY <1>1, <1>2
<1>6. Closed(d)
  BY <1>2, <1>3, <1>4, <1>5, ClosedAfter, Zenon
<1> QED
  BY <1>2, <1>6 DEF d

(* A keyring is added. *)
LEMMA PutKeyring ==
    ASSUME NEW cfg \in Configs, Closed(cfg), NEW k \in Keyrings
    PROVE  LET d == [cfg EXCEPT !.krs = @ \cup {k}] IN d \in Configs /\ Closed(d)
<1> DEFINE d == [cfg EXCEPT !.krs = @ \cup {k}]
<1>1. /\ d \in Configs /\ d.cur = cfg.cur /\ d.ctxs = cfg.ctxs
      /\ d.nets = cfg.nets /\ d.krs = cfg.krs \cup {k}
  BY DEF Configs
<1> HIDE DEF d
<1>2. Named(d) = Named(cfg)
  BY <1>1 DEF Named
<1>3. d.cur # None => d.cur \in Named(d)
  BY <1>1, <1>2 DEF Closed
<1>4. Closed(d)
  BY <1>1, <1>2, <1>3, ClosedAfter
<1> QED
  BY <1>1, <1>4 DEF d

-----------------------------------------------------------------------------
(* The steps.  A process gets a record with a closed configuration. *)
LEMMA ProcStep ==
    ASSUME IInv, NEW p \in Procs, NEW r \in ProcRecords, Closed(r.mem),
           r.use => r.ctx \in Named(r.mem),
           ps' = [ps EXCEPT ![p] = r]
    PROVE  /\ ps' \in [Procs -> ProcRecords]
           /\ \A q \in Procs : Closed(ps'[q].mem)
           /\ \A q \in Procs : ps'[q].use => ps'[q].ctx \in Named(ps'[q].mem)
<1>1. ps \in [Procs -> ProcRecords]
  BY DEF IInv, TypeOK, ProcRecords
<1>2. \A q \in Procs : Closed(ps[q].mem) /\ (ps[q].use => ps[q].ctx \in Named(ps[q].mem))
  BY DEF IInv, ConfigClosed, UseIsNamed
<1>3. \A q \in Procs : ps'[q] = IF q = p THEN r ELSE ps[q]
  BY <1>1
<1> QED
  BY <1>1, <1>2, <1>3

(* The steps that leave the file and what the watcher has told alone. *)
LEMMA OutsideFile ==
    ASSUME IInv, UNCHANGED <<file, opener, changed, settling, told>>,
           ps' \in [Procs -> ProcRecords],
           \A q \in Procs : Closed(ps'[q].mem),
           \A q \in Procs : ps'[q].use => ps'[q].ctx \in Named(ps'[q].mem),
           data' \in [Contexts -> SUBSET Contexts], kept' \subseteq Contexts, DataKept',
           count' \in 0..MaxCommands
    PROVE  IInv'
<1>1. TypeOK'
  BY DEF IInv, TypeOK, ProcRecords
<1>2. ConfigClosed'
  BY DEF IInv, ConfigClosed
<1>3. UseIsNamed'
  BY DEF UseIsNamed
<1> QED
  BY <1>1, <1>2, <1>3 DEF IInv

(* A save that leaves the data directories alone. *)
LEMMA SaveStep ==
    ASSUME IInv, NEW p \in Procs, NEW cfg \in Configs, Closed(cfg),
           NEW ctx \in Contexts \cup {None}, NEW use \in BOOLEAN,
           use => ctx \in Named(cfg), Save(p, cfg, ctx, use),
           UNCHANGED <<file, opener, changed, watcherVars, count>>,
           data' \in [Contexts -> SUBSET Contexts], kept' \subseteq Contexts, DataKept'
    PROVE  IInv'
<1> DEFINE r == [pc |-> "open", mem |-> cfg, ctx |-> ctx, use |-> use]
<1>1. r \in ProcRecords /\ r.mem = cfg /\ r.use = use /\ r.ctx = ctx
  BY DEF ProcRecords
<1>2. ps' = [ps EXCEPT ![p] = r]
  BY DEF Save
<1> HIDE DEF r
<1>3. /\ ps' \in [Procs -> ProcRecords]
      /\ \A q \in Procs : Closed(ps'[q].mem)
      /\ \A q \in Procs : ps'[q].use => ps'[q].ctx \in Named(ps'[q].mem)
  BY <1>1, <1>2, ProcStep, Zenon
<1>4. count' \in 0..MaxCommands
  BY DEF IInv, TypeOK
<1> QED
  BY <1>3, <1>4, OutsideFile DEF watcherVars

(* The data directories are as before. *)
LEMMA SameData ==
    ASSUME IInv, UNCHANGED <<data, kept>>
    PROVE  data' \in [Contexts -> SUBSET Contexts] /\ kept' \subseteq Contexts /\ DataKept'
BY DEF IInv, TypeOK, DataKept

(* Something is written for a context. *)
LEMMA WrittenData ==
    ASSUME IInv, NEW c \in Contexts \cup {None}, data' = Written(c), kept' = KeptWith(c)
    PROVE  data' \in [Contexts -> SUBSET Contexts] /\ kept' \subseteq Contexts /\ DataKept'
<1>1. data \in [Contexts -> SUBSET Contexts] /\ kept \subseteq Contexts /\ DataKept
  BY DEF IInv, TypeOK
<1>2. CASE c = None
  BY <1>1, <1>2 DEF Written, KeptWith, DataKept
<1>3. CASE c # None
  <2>1. c \in Contexts /\ data' = [data EXCEPT ![c] = @ \cup {c}] /\ kept' = kept \cup {c}
    BY <1>3 DEF Written, KeptWith
  <2>2. \A e \in Contexts : data[e] \subseteq data'[e]
    BY <1>1, <2>1
  <2>3. c \in data'[c]
    BY <1>1, <2>1
  <2> QED
    BY <1>1, <2>1, <2>2, <2>3 DEF DataKept
<1> QED
  BY <1>2, <1>3

(* A directory is removed, with what it holds. *)
LEMMA RemovedData ==
    ASSUME IInv, NEW c \in Contexts, data' = [data EXCEPT ![c] = {}], kept' = kept \ data[c]
    PROVE  data' \in [Contexts -> SUBSET Contexts] /\ kept' \subseteq Contexts /\ DataKept'
<1>1. data \in [Contexts -> SUBSET Contexts] /\ kept \subseteq Contexts /\ DataKept
  BY DEF IInv, TypeOK
<1>2. \A e \in Contexts \ {c} : data'[e] = data[e]
  BY <1>1
<1> QED
  BY <1>1, <1>2 DEF DataKept

(* A directory moves to a name where there is none. *)
LEMMA MovedData ==
    ASSUME IInv, NEW old \in Contexts, NEW new \in Contexts, old # new,
           data[old] # {} => data[new] = {},
           data' = IF data[old] = {} THEN data ELSE [data EXCEPT ![new] = data[old], ![old] = {}],
           kept' = kept
    PROVE  data' \in [Contexts -> SUBSET Contexts] /\ kept' \subseteq Contexts /\ DataKept'
<1>1. data \in [Contexts -> SUBSET Contexts] /\ kept \subseteq Contexts /\ DataKept
  BY DEF IInv, TypeOK
<1>2. CASE data[old] = {}
  BY <1>1, <1>2 DEF DataKept
<1>3. CASE data[old] # {}
  <2>1. /\ data' \in [Contexts -> SUBSET Contexts] /\ data'[new] = data[old]
        /\ \A e \in Contexts \ {old, new} : data'[e] = data[e]
    BY <1>1, <1>3
  <2>2. ASSUME NEW x \in kept PROVE \E e \in Contexts : x \in data'[e]
    <3>1. PICK e \in Contexts : x \in data[e]
      BY <1>1 DEF DataKept
    <3>2. e # new
      BY <1>3, <3>1
    <3> QED
      BY <2>1, <3>1, <3>2
  <2> QED
    BY <1>1, <2>1, <2>2 DEF DataKept
<1> QED
  BY <1>2, <1>3

(* The commands that manage the configuration. *)
LEMMA ManageStep ==
    ASSUME IInv, NEW p \in Procs, Manage(p)
    PROVE  IInv'
<1> DEFINE mem == ps[p].mem
<1>1. mem \in Configs /\ Closed(mem) /\ None \notin Contexts
  BY ConfigAssumption DEF IInv, TypeOK, ConfigClosed
<1>2. mem.nets \in [Networks -> 0..2] /\ mem.cur \in Contexts \cup {None}
  BY <1>1 DEF Configs
<1>a. ASSUME NEW c \in Contexts, NEW net \in Networks \cup {None}, NEW kr \in Keyrings,
             NEW use \in BOOLEAN, CreateContext(p, c, net, kr, use)
      PROVE  IInv'
  <2> DEFINE d == [mem EXCEPT !.ctxs[c] = [net |-> net, kr |-> kr]]
  <2>1. (net # None => mem.nets[net] # 0) /\ kr \in mem.krs /\ Save(p, d, c, use)
    BY <1>a DEF CreateContext
  <2>2. d \in Configs /\ Closed(d) /\ c \in Named(d)
    BY <1>1, <2>1, CreatedConfig
  <2> HIDE DEF d
  <2>3. data' \in [Contexts -> SUBSET Contexts] /\ kept' \subseteq Contexts /\ DataKept'
    BY <1>a, WrittenData DEF CreateContext
  <2> QED
    BY <1>a, <2>1, <2>2, <2>3, SaveStep DEF CreateContext
<1>b. ASSUME NEW c \in Contexts, NEW net \in Networks \cup {None}, NEW kr \in Keyrings,
             NEW edit \in BOOLEAN, UpdateContext(p, c, net, kr, edit)
      PROVE  IInv'
  <2> DEFINE d == [mem EXCEPT !.ctxs[c] = [net |-> net, kr |-> kr],
                              !.nets = [n \in Networks |->
                                   IF edit /\ n = net THEN Edited(@[n]) ELSE @[n]]]
  <2>1. (net # None => mem.nets[net] # 0) /\ kr \in mem.krs /\ Save(p, d, c, FALSE)
    BY <1>b, Zenon DEF UpdateContext
  <2>2. d \in Configs /\ Closed(d)
    BY <1>1, <2>1, UpdatedConfig, Zenon
  <2> HIDE DEF d
  <2>3. data' \in [Contexts -> SUBSET Contexts] /\ kept' \subseteq Contexts /\ DataKept'
    BY <1>b, SameData DEF UpdateContext
  <2> QED
    BY <1>b, <2>1, <2>2, <2>3, SaveStep, Zenon DEF UpdateContext
<1>c. ASSUME NEW c \in Contexts, UseContext(p, c)
      PROVE  IInv'
  <2>1. [mem EXCEPT !.cur = c] \in Configs /\ Closed([mem EXCEPT !.cur = c])
    BY <1>c, <1>1, PutCurrent DEF UseContext
  <2>2. data' \in [Contexts -> SUBSET Contexts] /\ kept' \subseteq Contexts /\ DataKept'
    BY <1>c, SameData DEF UseContext
  <2> QED
    BY <1>c, <2>1, <2>2, SaveStep, Zenon DEF UseContext
<1>d. ASSUME NEW c \in Contexts, NEW net \in Networks, NEW kr \in Keyrings,
             UpdateForkedNetwork(p, c, net, kr)
      PROVE  IInv'
  <2> DEFINE fork == Fork(net, c)
             d == [mem EXCEPT !.nets[fork] = Edited(mem.nets[net]),
                              !.ctxs[c] = [net |-> fork, kr |-> kr]]
  <2>1. /\ c \in Named(mem) /\ mem.nets[net] # 0
        /\ kr \in mem.krs /\ Save(p, d, c, FALSE)
    BY <1>d, Zenon DEF UpdateForkedNetwork
  <2>2. d \in Configs /\ Closed(d)
    BY <1>1, <2>1, ForkedConfig, Zenon
  <2> HIDE DEF d
  <2>3. data' \in [Contexts -> SUBSET Contexts] /\ kept' \subseteq Contexts /\ DataKept'
    BY <1>d, SameData, Zenon DEF UpdateForkedNetwork
  <2> QED
    BY <1>d, <2>1, <2>2, <2>3, SaveStep, Zenon DEF UpdateForkedNetwork
<1>e. ASSUME NEW c \in Contexts, NEW keepData \in BOOLEAN, DeleteContext(p, c, keepData)
      PROVE  IInv'
  <2>1. [mem EXCEPT !.ctxs[c] = None] \in Configs /\ Closed([mem EXCEPT !.ctxs[c] = None])
    BY <1>e, <1>1, RemoveContext DEF DeleteContext
  <2>2. data' \in [Contexts -> SUBSET Contexts] /\ kept' \subseteq Contexts /\ DataKept'
    <3>1. CASE keepData
      BY <1>e, <3>1, SameData DEF DeleteContext
    <3>2. CASE ~keepData
      BY <1>e, <3>2, RemovedData DEF DeleteContext
    <3> QED
      BY <3>1, <3>2
  <2> QED
    BY <1>e, <1>2, <2>1, <2>2, SaveStep, Zenon DEF DeleteContext
<1>f. ASSUME NEW old \in Contexts, NEW new \in Contexts, RenameContext(p, old, new)
      PROVE  IInv'
  <2> DEFINE d == [mem EXCEPT !.ctxs[new] = mem.ctxs[old], !.ctxs[old] = None,
                              !.cur = IF @ = old THEN new ELSE @]
  <2>1. new \notin Named(mem) /\ old \in Named(mem) /\ old # new /\ Save(p, d, new, FALSE)
    BY <1>f, Zenon DEF RenameContext
  <2>2. d \in Configs /\ Closed(d)
    BY <1>1, <2>1, MoveContext, Zenon
  <2> HIDE DEF d
  <2>3. data' \in [Contexts -> SUBSET Contexts] /\ kept' \subseteq Contexts /\ DataKept'
    BY <1>f, <2>1, MovedData, Zenon DEF RenameContext
  <2> QED
    BY <1>f, <2>1, <2>2, <2>3, SaveStep, Zenon DEF RenameContext
<1>g. ASSUME NEW d \in Configs, Closed(d), Save(p, d, None, FALSE),
             UNCHANGED <<file, opener, data, changed, watcherVars, kept, count>>
      PROVE  IInv'
  <2>1. data' \in [Contexts -> SUBSET Contexts] /\ kept' \subseteq Contexts /\ DataKept'
    BY <1>g, SameData
  <2> QED
    BY <1>g, <2>1, SaveStep, Zenon
<1>h. ASSUME NEW k \in Keyrings, CreateKeyring(p, k)
      PROVE  IInv'
  <2> DEFINE d == [mem EXCEPT !.krs = @ \cup {k}]
  <2>1. d \in Configs /\ Closed(d)
    BY <1>1, PutKeyring
  <2>2. Save(p, d, None, FALSE)
    BY <1>h, Zenon DEF CreateKeyring
  <2> HIDE DEF d
  <2> QED
    BY <1>g, <1>h, <2>1, <2>2, Zenon DEF CreateKeyring
<1>i. ASSUME NEW n \in Networks, CreateNetwork(p, n)
      PROVE  IInv'
  <2> DEFINE v == 1
             d == [mem EXCEPT !.nets[n] = v]
  <2>1. v \in 0..2 /\ v # 0
    OBVIOUS
  <2>2. Save(p, d, None, FALSE)
    BY <1>i, Zenon DEF CreateNetwork
  <2> HIDE DEF v
  <2>3. d \in Configs /\ Closed(d)
    BY <1>1, <2>1, PutNetwork, Zenon
  <2> HIDE DEF d
  <2> QED
    BY <1>g, <1>i, <2>2, <2>3, Zenon DEF CreateNetwork
<1>j. ASSUME NEW n \in Networks, UpdateNetwork(p, n)
      PROVE  IInv'
  <2> DEFINE v == Edited(mem.nets[n])
             d == [mem EXCEPT !.nets[n] = v]
  <2>1. mem.nets[n] \in 1..2
    BY <1>2, <1>j DEF UpdateNetwork
  <2>2. v \in 1..2
    BY <2>1 DEF Edited
  <2>3. Save(p, d, None, FALSE)
    BY <1>j, Zenon DEF UpdateNetwork
  <2> HIDE DEF v
  <2>4. v \in 0..2 /\ v # 0
    BY <2>2
  <2>5. d \in Configs /\ Closed(d)
    BY <1>1, <2>4, PutNetwork, Zenon
  <2> HIDE DEF d
  <2> QED
    BY <1>g, <1>j, <2>3, <2>5, Zenon DEF UpdateNetwork
<1>k. ASSUME NEW n \in Networks, DeleteNetwork(p, n)
      PROVE  IInv'
  <2> DEFINE v == 0
             d == [mem EXCEPT !.nets[n] = v]
  <2>1. \A c \in Named(mem) : mem.ctxs[c].net # n
    BY <1>k DEF DeleteNetwork
  <2>2. v \in 0..2
    OBVIOUS
  <2>3. Save(p, d, None, FALSE)
    BY <1>k, Zenon DEF DeleteNetwork
  <2> HIDE DEF v
  <2>4. d \in Configs /\ Closed(d)
    BY <1>1, <2>1, <2>2, PutNetwork, Zenon
  <2> HIDE DEF d
  <2> QED
    BY <1>g, <1>k, <2>3, <2>4, Zenon DEF DeleteNetwork
<1> QED
  BY <1>a, <1>b, <1>c, <1>d, <1>e, <1>f, <1>h, <1>i, <1>j, <1>k, Zenon DEF Manage

-----------------------------------------------------------------------------
(* The invariant holds at the start. *)
LEMMA InitIInv == Init => IInv
<1> SUFFICES ASSUME Init PROVE IInv
  OBVIOUS
<1>1. \/ file = [st |-> "missing", cfg |-> EmptyConfig]
      \/ \E c \in Contexts :
            file = [st |-> "ok", cfg |-> OnOneNetwork(WizardConfig(Contexts, c), SameName(c))]
  BY DEF Init
<1>2. /\ file \in [st : {"missing", "empty", "ok", "torn"}, cfg : Configs]
      /\ file.st \in {"missing", "ok"} /\ Closed(file.cfg)
  <2>1. CASE file = [st |-> "missing", cfg |-> EmptyConfig]
    BY <2>1, EmptyIsClosed
  <2>2. CASE \E c \in Contexts :
                file = [st |-> "ok", cfg |-> OnOneNetwork(WizardConfig(Contexts, c), SameName(c))]
    <3>1. PICK c \in Contexts :
              file = [st |-> "ok", cfg |-> OnOneNetwork(WizardConfig(Contexts, c), SameName(c))]
      BY <2>2
    <3> DEFINE m == OnOneNetwork(WizardConfig(Contexts, c), SameName(c))
    <3>2. m \in Configs /\ Closed(m) /\ file = [st |-> "ok", cfg |-> m]
      BY <3>1, MovedIsClosed
    <3> HIDE DEF m
    <3> QED
      BY <3>2
  <2> QED
    BY <1>1, <2>1, <2>2
<1>3. LoadConfig \in Configs /\ Closed(LoadConfig)
  <2>1. CASE file.st = "missing"
    BY <2>1, EmptyIsClosed DEF LoadConfig
  <2>2. CASE file.st = "ok"
    BY <2>2, <1>2 DEF LoadConfig
  <2> QED
    BY <1>2, <2>1, <2>2
<1>4. Idle \in ProcRecords /\ Idle.mem = EmptyConfig /\ ~Idle.use
  BY EmptyIsClosed DEF Idle, ProcRecords
<1>5. ps = [p \in Procs |-> Idle]
  BY DEF Init
<1>6. TypeOK
  <2>1. ps \in [Procs -> ProcRecords]
    BY <1>4, <1>5
  <2>2. told \in Configs /\ count \in 0..MaxCommands
    BY <1>3, ConfigAssumption DEF Init
  <2>3. /\ opener = None /\ data = [c \in Contexts |-> {}] /\ changed = FALSE
        /\ settling = FALSE /\ kept = {}
    BY DEF Init
  <2> QED
    BY <1>2, <2>1, <2>2, <2>3, Zenon DEF TypeOK, ProcRecords
<1>7. ConfigClosed
  <2>1. told = LoadConfig
    BY DEF Init
  <2> QED
    BY <1>2, <1>3, <1>4, <1>5, <2>1, EmptyIsClosed DEF ConfigClosed
<1>8. UseIsNamed
  BY <1>4, <1>5 DEF UseIsNamed
<1>9. DataKept
  BY DEF Init, DataKept
<1> QED
  BY <1>6, <1>7, <1>8, <1>9 DEF IInv

(* Every step keeps it. *)
LEMMA NextIInv == IInv /\ [Next]_vars => IInv'
<1> SUFFICES ASSUME IInv, [Next]_vars PROVE IInv'
  OBVIOUS
<1>1. /\ ps \in [Procs -> ProcRecords] /\ count \in 0..MaxCommands
      /\ None \notin Contexts /\ MaxCommands \in Nat
  BY ConfigAssumption DEF IInv, TypeOK, ProcRecords
<1>2. Idle \in ProcRecords /\ Idle.mem = EmptyConfig /\ ~Idle.use
  BY EmptyIsClosed DEF Idle, ProcRecords
<1>3. \A p \in Procs : Closed(ps[p].mem) /\ (ps[p].use => ps[p].ctx \in Named(ps[p].mem))
  BY DEF IInv, ConfigClosed, UseIsNamed
<1>a. ASSUME NEW p \in Procs, NEW override \in Contexts \cup {None}, Start(p, override)
      PROVE  IInv'
  <2> DEFINE sel == ActiveContext(LoadConfig, override)
             r == [Idle EXCEPT !.pc = "ready", !.mem = LoadConfig]
  <2>1. count' \in 0..MaxCommands /\ UNCHANGED <<file, opener, changed, settling, told>>
    BY <1>1, <1>a DEF Start, watcherVars
  <2>2. CASE Readable /\ (sel = None \/ Resolves(LoadConfig, sel))
    <3>1. sel \in Contexts \cup {None}
      BY <2>2 DEF Resolves, Named
    <3>2. ps' = [ps EXCEPT ![p] = r] /\ data' = Written(sel) /\ kept' = KeptWith(sel)
      BY <1>a, <2>2 DEF Start
    <3>3. LoadConfig \in Configs /\ Closed(LoadConfig)
      BY <2>2, LoadIsClosed
    <3> HIDE DEF sel
    <3>4. data' \in [Contexts -> SUBSET Contexts] /\ kept' \subseteq Contexts /\ DataKept'
      BY <3>1, <3>2, WrittenData
    <3>5. r \in ProcRecords /\ r.mem = LoadConfig /\ r.use = FALSE
      BY <3>3, Zenon DEF Idle, ProcRecords
    <3> HIDE DEF r
    <3>6. /\ ps' \in [Procs -> ProcRecords]
          /\ \A q \in Procs : Closed(ps'[q].mem)
          /\ \A q \in Procs : ps'[q].use => ps'[q].ctx \in Named(ps'[q].mem)
      BY <3>2, <3>3, <3>5, ProcStep, Zenon
    <3> QED
      BY <2>1, <3>4, <3>6, OutsideFile
  <2>3. CASE ~(Readable /\ (sel = None \/ Resolves(LoadConfig, sel)))
    <3>1. UNCHANGED <<ps, data, kept>>
      BY <1>a, <2>3 DEF Start
    <3>2. data' \in [Contexts -> SUBSET Contexts] /\ kept' \subseteq Contexts /\ DataKept'
      BY <3>1, SameData
    <3> QED
      BY <1>1, <1>3, <2>1, <3>1, <3>2, OutsideFile
  <2> QED
    BY <2>2, <2>3
<1>b. ASSUME NEW p \in Procs, NEW r \in ProcRecords, Closed(r.mem),
             r.use => r.ctx \in Named(r.mem), ps' = [ps EXCEPT ![p] = r],
             UNCHANGED <<file, opener, changed, settling, told>>, count' \in 0..MaxCommands,
             data' \in [Contexts -> SUBSET Contexts], kept' \subseteq Contexts, DataKept'
      PROVE  IInv'
  <2>1. /\ ps' \in [Procs -> ProcRecords]
        /\ \A q \in Procs : Closed(ps'[q].mem)
        /\ \A q \in Procs : ps'[q].use => ps'[q].ctx \in Named(ps'[q].mem)
    BY <1>b, ProcStep, Zenon
  <2> QED
    BY <1>b, <2>1, OutsideFile
<1>c. ASSUME NEW p \in Procs, StartWizard(p)
      PROVE  IInv'
  <2> DEFINE r == [ps[p] EXCEPT !.pc = "wizard"]
  <2>1. ps' = [ps EXCEPT ![p] = r]
    BY <1>c DEF StartWizard
  <2>2. r \in ProcRecords /\ r.mem = ps[p].mem /\ r.use = ps[p].use /\ r.ctx = ps[p].ctx
    BY <1>1 DEF ProcRecords
  <2> HIDE DEF r
  <2>3. data' \in [Contexts -> SUBSET Contexts] /\ kept' \subseteq Contexts /\ DataKept'
    BY <1>c, SameData DEF StartWizard
  <2>4. count' \in 0..MaxCommands /\ UNCHANGED <<file, opener, changed, settling, told>>
    BY <1>1, <1>c DEF StartWizard, watcherVars
  <2> QED
    BY <1>3, <1>b, <2>1, <2>2, <2>3, <2>4, Zenon
<1>d. ASSUME NEW p \in Procs, NEW selected \in SUBSET Contexts, NEW cur \in Contexts,
             NEW key \in BOOLEAN, Wizard(p, selected, cur, key)
      PROVE  IInv'
  <2> DEFINE w == WizardConfig(selected, cur)
             r == [pc |-> "open", mem |-> w, ctx |-> IF key THEN cur ELSE None, use |-> FALSE]
  <2>1. ps' = [ps EXCEPT ![p] = r] /\ cur \in selected
    BY <1>d DEF Wizard
  <2>2. w \in Configs /\ Closed(w)
    BY <2>1, WizardIsClosed
  <2> HIDE DEF w
  <2>3. r \in ProcRecords /\ r.mem = w /\ r.use = FALSE
    BY <2>2 DEF ProcRecords
  <2> HIDE DEF r
  <2>4. data' \in [Contexts -> SUBSET Contexts] /\ kept' \subseteq Contexts /\ DataKept'
    BY <1>d, SameData DEF Wizard
  <2>5. count' \in 0..MaxCommands /\ UNCHANGED <<file, opener, changed, settling, told>>
    BY <1>1, <1>d DEF Wizard, watcherVars
  <2> QED
    BY <1>b, <2>1, <2>2, <2>3, <2>4, <2>5, Zenon
<1>e. ASSUME NEW p \in Procs, SaveOpen(p) \/ SaveWrite(p)
      PROVE  IInv'
  <2>1. PICK pc \in {"write", "done"} : ps' = [ps EXCEPT ![p] = [ps[p] EXCEPT !.pc = pc]]
    BY <1>e DEF SaveOpen, SaveWrite
  <2> DEFINE r == [ps[p] EXCEPT !.pc = pc]
  <2>2. r \in ProcRecords /\ r.mem = ps[p].mem /\ r.use = ps[p].use /\ r.ctx = ps[p].ctx
    BY <1>1 DEF ProcRecords
  <2> HIDE DEF r
  <2>3. /\ ps' \in [Procs -> ProcRecords]
        /\ \A q \in Procs : Closed(ps'[q].mem)
        /\ \A q \in Procs : ps'[q].use => ps'[q].ctx \in Named(ps'[q].mem)
    BY <1>3, <2>1, <2>2, ProcStep, Zenon DEF r
  <2>4. ps[p].mem \in Configs
    BY <1>1 DEF ProcRecords
  <2>5. /\ file' \in [st : {"missing", "empty", "ok", "torn"}, cfg : Configs]
        /\ file'.st = "ok" => Closed(file'.cfg)
    BY <1>e, <1>3, <2>4, EmptyIsClosed DEF SaveOpen, SaveWrite
  <2>6. opener' \in Procs \cup {None} /\ changed' = TRUE
    BY <1>e DEF SaveOpen, SaveWrite
  <2>7. UNCHANGED <<data, settling, told, kept, count>>
    BY <1>e DEF SaveOpen, SaveWrite, watcherVars
  <2>8. TypeOK'
    BY <2>3, <2>5, <2>6, <2>7 DEF IInv, TypeOK, ProcRecords
  <2>9. ConfigClosed'
    BY <2>3, <2>5, <2>7 DEF IInv, ConfigClosed
  <2>10. UseIsNamed' /\ DataKept'
    BY <2>3, <2>7 DEF IInv, UseIsNamed, DataKept
  <2> QED
    BY <2>8, <2>9, <2>10 DEF IInv
<1>f. ASSUME NEW p \in Procs, Finish(p)
      PROVE  IInv'
  <2>1. ps[p] \in ProcRecords
    BY <1>1
  <2>2. /\ ps[p].mem \in Configs /\ ps[p].ctx \in Contexts \cup {None} /\ ps[p].use \in BOOLEAN
    BY <2>1 DEF ProcRecords
  <2>3. data' \in [Contexts -> SUBSET Contexts] /\ kept' \subseteq Contexts /\ DataKept'
    BY <1>f, <2>2, WrittenData DEF Finish
  <2>4. count' \in 0..MaxCommands /\ UNCHANGED <<file, opener, changed, settling, told>>
    BY <1>1, <1>f DEF Finish, watcherVars
  <2>5. CASE ps[p].use
    <3> DEFINE m == [ps[p].mem EXCEPT !.cur = ps[p].ctx]
               r == [ps[p] EXCEPT !.pc = "open", !.use = FALSE, !.mem = m]
    <3>1. m \in Configs /\ Closed(m)
      BY <1>3, <2>2, <2>5, PutCurrent
    <3>2. ps' = [ps EXCEPT ![p] = r]
      BY <1>1, <1>f, <2>5 DEF Finish
    <3> HIDE DEF m
    <3>3. r \in ProcRecords /\ r.mem = m /\ r.use = FALSE
      BY <2>1, <3>1, Zenon DEF ProcRecords
    <3> HIDE DEF r
    <3> QED
      BY <1>b, <2>3, <2>4, <3>1, <3>2, <3>3, Zenon
  <2>6. CASE ~ps[p].use
    <3>1. ps' = [ps EXCEPT ![p] = Idle]
      BY <1>1, <1>f, <2>6 DEF Finish
    <3> QED
      BY <1>2, <1>b, <2>3, <2>4, <3>1, EmptyIsClosed, Zenon
  <2> QED
    BY <2>5, <2>6
<1>g. ASSUME NEW p \in Procs, End(p)
      PROVE  IInv'
  <2>1. ps' = [ps EXCEPT ![p] = Idle]
    BY <1>g DEF End
  <2>2. data' \in [Contexts -> SUBSET Contexts] /\ kept' \subseteq Contexts /\ DataKept'
    BY <1>g, SameData DEF End
  <2>3. count' \in 0..MaxCommands /\ UNCHANGED <<file, opener, changed, settling, told>>
    BY <1>1, <1>g DEF End, watcherVars
  <2> QED
    BY <1>2, <1>b, <2>1, <2>2, <2>3, EmptyIsClosed, Zenon
<1>h. ASSUME WatcherEvent \/ WatcherReload
      PROVE  IInv'
  <2>1. UNCHANGED <<file, opener, data, ps, count, kept>>
    BY <1>h DEF WatcherEvent, WatcherReload, procVars
  <2>2. told' \in Configs /\ Closed(told')
    <3>1. told \in Configs /\ Closed(told)
      BY DEF IInv, TypeOK, ConfigClosed
    <3>2. told' = told \/ (Readable /\ told' = LoadConfig)
      BY <1>h DEF WatcherEvent, WatcherReload
    <3> QED
      BY <3>1, <3>2, LoadIsClosed
  <2>3. changed' \in BOOLEAN /\ settling' \in BOOLEAN
    BY <1>h, Zenon DEF WatcherEvent, WatcherReload, IInv, TypeOK
  <2>4. TypeOK'
    BY <2>1, <2>2, <2>3 DEF IInv, TypeOK
  <2>5. ConfigClosed' /\ UseIsNamed' /\ DataKept'
    BY <2>1, <2>2 DEF IInv, ConfigClosed, UseIsNamed, DataKept
  <2> QED
    BY <2>4, <2>5 DEF IInv
<1>i. CASE UNCHANGED vars
  BY <1>i DEF vars, IInv, TypeOK, ConfigClosed, UseIsNamed, DataKept
<1> QED
  BY <1>a, <1>c, <1>d, <1>e, <1>f, <1>g, <1>h, <1>i, ManageStep DEF Next

-----------------------------------------------------------------------------
(* Every reachable state satisfies the inductive invariant. *)
THEOREM Invariance == Spec => []IInv
<1> QED
  BY InitIInv, NextIInv, PTL DEF Spec

(* However many processes load, change and save the configuration, killed  *)
(* anywhere, no readable file, no loaded copy and nothing the watcher told *)
(* has a dangling reference.                                               *)
THEOREM ConfigClosedThm == Spec => []ConfigClosed
<1>1. IInv => ConfigClosed
  BY DEF IInv
<1> QED
  BY <1>1, Invariance, PTL

(* Nothing written for a context is lost unless a command deletes it. *)
THEOREM DataKeptThm == Spec => []DataKept
<1>1. IInv => DataKept
  BY DEF IInv
<1> QED
  BY <1>1, Invariance, PTL

-----------------------------------------------------------------------------
(* What `context edit --fork-network` may do to a configuration. *)
Forks(old, new) ==
    \E c \in Named(old) \cap Named(new) :
        /\ new.ctxs[c].net # old.ctxs[c].net
        /\ new.ctxs[c].net # None /\ old.nets[new.ctxs[c].net] = 0

OthersSeeTheSame(old, new) ==
    \E c \in Named(old) : \A d \in Named(old) \ {c} : NetworkSeen(new, d) = NetworkSeen(old, d)

Isolated == \A p \in Procs : Ready(p) /\ ps'[p].pc = "open" =>
                (Forks(ps[p].mem, ps'[p].mem) => OthersSeeTheSame(ps[p].mem, ps'[p].mem))

(* A context keeps its network, loses it or moves to one that exists. *)
LEMMA NoFork ==
    ASSUME NEW old, NEW new,
           \A c \in Named(old) \cap Named(new) :
              \/ new.ctxs[c].net = old.ctxs[c].net
              \/ new.ctxs[c].net = None
              \/ old.nets[new.ctxs[c].net] # 0
    PROVE  ~Forks(old, new)
  BY DEF Forks

LEMMA SameContextsNoFork ==
    ASSUME NEW old, NEW new, \A c \in Named(old) \cap Named(new) : new.ctxs[c] = old.ctxs[c]
    PROVE  ~Forks(old, new)
  BY NoFork

(* The network of a fork is new, so no other context is on it: references  *)
(* do not dangle.                                                          *)
LEMMA ForkIsolated ==
    ASSUME NEW old \in Configs, Closed(old), NEW c \in Named(old), NEW fork \in Networks,
           old.nets[fork] = 0, NEW v, NEW r, NEW new,
           new.nets = [old.nets EXCEPT ![fork] = v], new.ctxs = [old.ctxs EXCEPT ![c] = r]
    PROVE  OthersSeeTheSame(old, new)
<1>1. ASSUME NEW d \in Named(old) \ {c} PROVE NetworkSeen(new, d) = NetworkSeen(old, d)
  <2>1. d \in Contexts /\ old.ctxs \in [Contexts -> ContextRecords \cup {None}]
        /\ old.nets \in [Networks -> 0..2] /\ old.ctxs[d] \in ContextRecords
    BY DEF Named, Configs
  <2>2. new.ctxs[d] = old.ctxs[d]
    BY <2>1
  <2>3. PICK n : n = old.ctxs[d].net
    OBVIOUS
  <2>4. n \in Networks \cup {None} /\ (n # None => old.nets[n] # 0)
    BY <2>1, <2>3 DEF Closed, Resolves, ContextRecords
  <2>5. n # None => new.nets[n] = old.nets[n]
    BY <2>1, <2>4
  <2> QED
    BY <2>2, <2>3, <2>5 DEF NetworkSeen
<1> QED
  BY <1>1 DEF OthersSeeTheSame

(* Only the process that saves changes its copy. *)
LEMMA SaveIsolates ==
    ASSUME TypeOK, NEW p \in Procs, NEW d, NEW ctx, NEW use, Save(p, d, ctx, use),
           Forks(ps[p].mem, d) => OthersSeeTheSame(ps[p].mem, d)
    PROVE  Isolated
<1>1. ps'[p].mem = d /\ \A q \in Procs \ {p} : ps'[q] = ps[q]
  BY DEF TypeOK, Save
<1> QED
  BY <1>1 DEF Isolated, Ready

LEMMA ManageIsolates ==
    ASSUME IInv, NEW p \in Procs, Manage(p)
    PROVE  Isolated
<1>0. PICK old \in Configs : old = ps[p].mem
  BY DEF IInv, TypeOK
<1>1. /\ TypeOK /\ Closed(old)
      /\ old.ctxs \in [Contexts -> ContextRecords \cup {None}] /\ old.nets \in [Networks -> 0..2]
      /\ old = [ctxs |-> old.ctxs, nets |-> old.nets, krs |-> old.krs, cur |-> old.cur]
  BY <1>0, Zenon DEF IInv, ConfigClosed, Configs
<1>2. ASSUME NEW c \in Contexts, NEW net \in Networks \cup {None}, NEW kr \in Keyrings,
             NEW use \in BOOLEAN, CreateContext(p, c, net, kr, use)
      PROVE  Isolated
  <2>1. PICK d : d = [old EXCEPT !.ctxs[c] = [net |-> net, kr |-> kr]]
    BY Zenon
  <2>2. c \notin Named(old) /\ Save(p, d, c, use)
    BY <1>0, <1>2, <2>1 DEF CreateContext, Named
  <2>3. d.ctxs = [old.ctxs EXCEPT ![c] = [net |-> net, kr |-> kr]]
    BY <1>1, <2>1
  <2>4. \A e \in Named(old) \cap Named(d) : d.ctxs[e] = old.ctxs[e]
    BY <1>1, <2>2, <2>3 DEF Named
  <2> QED
    BY <1>0, <1>1, <2>2, <2>4, SameContextsNoFork, SaveIsolates
<1>3. ASSUME NEW c \in Contexts, NEW net \in Networks \cup {None}, NEW kr \in Keyrings,
             NEW edit \in BOOLEAN, UpdateContext(p, c, net, kr, edit)
      PROVE  Isolated
  <2>1. PICK d : d = [old EXCEPT !.ctxs[c] = [net |-> net, kr |-> kr],
                                 !.nets = [n \in Networks |->
                                     IF edit /\ n = net THEN Edited(@[n]) ELSE @[n]]]
    BY Zenon
  <2>2. Save(p, d, c, FALSE) /\ (net # None => old.nets[net] # 0)
    BY <1>0, <1>3, <2>1, Zenon DEF UpdateContext
  <2>3. d.ctxs = [old.ctxs EXCEPT ![c] = [net |-> net, kr |-> kr]]
    BY <1>1, <2>1
  <2>4. ASSUME NEW e \in Named(old) \cap Named(d)
        PROVE  \/ d.ctxs[e].net = old.ctxs[e].net
               \/ d.ctxs[e].net = None \/ old.nets[d.ctxs[e].net] # 0
    <3>1. CASE e = c
      <4>1. d.ctxs[e].net = net
        BY <1>1, <2>3, <3>1
      <4> QED
        BY <2>2, <4>1
    <3>2. CASE e # c
      BY <1>1, <2>3, <3>2 DEF Named
    <3> QED
      BY <3>1, <3>2
  <2> QED
    BY <1>0, <1>1, <2>2, <2>4, NoFork, SaveIsolates, Zenon
<1>4. ASSUME NEW c \in Contexts, UseContext(p, c) PROVE Isolated
  <2>1. PICK d : d = [old EXCEPT !.cur = c]
    BY Zenon
  <2>2. Save(p, d, c, FALSE)
    BY <1>0, <1>4, <2>1, Zenon DEF UseContext
  <2>3. d.ctxs = old.ctxs
    BY <1>1, <2>1
  <2> QED
    BY <1>0, <1>1, <2>2, <2>3, SameContextsNoFork, SaveIsolates, Zenon
<1>5. ASSUME NEW c \in Contexts, NEW net \in Networks, NEW kr \in Keyrings,
             UpdateForkedNetwork(p, c, net, kr)
      PROVE  Isolated
  <2>1. PICK fork : fork = Fork(net, c)
    OBVIOUS
  <2>2. PICK v, r : v = Edited(old.nets[net]) /\ r = [net |-> fork, kr |-> kr]
    BY Zenon
  <2>3. PICK d : d = [old EXCEPT !.nets[fork] = v, !.ctxs[c] = r]
    OBVIOUS
  <2>4. Save(p, d, c, FALSE) /\ c \in Named(old) /\ old.nets[fork] = 0
    BY <1>0, <1>5, <2>1, <2>2, <2>3, Zenon DEF UpdateForkedNetwork
  <2>6. fork \in Networks
    BY <2>1, ConfigAssumption
  <2>7. d.nets = [old.nets EXCEPT ![fork] = v] /\ d.ctxs = [old.ctxs EXCEPT ![c] = r]
    BY <1>1, <2>3
  <2>8. OthersSeeTheSame(old, d)
    BY <1>1, <2>4, <2>6, <2>7, ForkIsolated
  <2> QED
    BY <1>0, <1>1, <2>4, <2>8, SaveIsolates, Zenon
<1>6. ASSUME NEW c \in Contexts, NEW keepData \in BOOLEAN, DeleteContext(p, c, keepData)
      PROVE  Isolated
  <2>1. PICK d : d = [old EXCEPT !.ctxs[c] = None]
    BY Zenon
  <2>2. Save(p, d, old.cur, FALSE)
    BY <1>0, <1>6, <2>1, Zenon DEF DeleteContext
  <2>3. d.ctxs = [old.ctxs EXCEPT ![c] = None]
    BY <1>1, <2>1
  <2>4. \A e \in Named(old) \cap Named(d) : d.ctxs[e] = old.ctxs[e]
    BY <1>1, <2>3 DEF Named
  <2> QED
    BY <1>0, <1>1, <2>2, <2>4, SameContextsNoFork, SaveIsolates, Zenon
<1>7. ASSUME NEW c \in Contexts, NEW new \in Contexts, RenameContext(p, c, new) PROVE Isolated
  <2>1. PICK cur : cur = IF old.cur = c THEN new ELSE old.cur
    OBVIOUS
  <2>2. PICK d : d = [old EXCEPT !.ctxs[new] = old.ctxs[c], !.ctxs[c] = None, !.cur = cur]
    OBVIOUS
  <2>3. Save(p, d, new, FALSE) /\ new \notin Named(old)
    BY <1>0, <1>7, <2>1, <2>2, Zenon DEF RenameContext
  <2>4. d.ctxs = [[old.ctxs EXCEPT ![new] = old.ctxs[c]] EXCEPT ![c] = None]
    BY <1>1, <2>2
  <2>5. \A e \in Named(old) \cap Named(d) : d.ctxs[e] = old.ctxs[e]
    BY <1>1, <2>3, <2>4 DEF Named
  <2> QED
    BY <1>0, <1>1, <2>3, <2>5, SameContextsNoFork, SaveIsolates, Zenon
<1>8. ASSUME NEW n \in Networks, CreateNetwork(p, n) \/ UpdateNetwork(p, n) \/ DeleteNetwork(p, n)
      PROVE  Isolated
  <2>1. PICK v : Save(p, [old EXCEPT !.nets[n] = v], None, FALSE)
    BY <1>0, <1>8, Zenon DEF CreateNetwork, UpdateNetwork, DeleteNetwork
  <2>2. PICK d : d = [old EXCEPT !.nets[n] = v]
    BY Zenon
  <2>3. d.ctxs = old.ctxs
    BY <1>1, <2>2
  <2> QED
    BY <1>0, <1>1, <2>1, <2>2, <2>3, SameContextsNoFork, SaveIsolates, Zenon
<1>9. ASSUME NEW k \in Keyrings, CreateKeyring(p, k) PROVE Isolated
  <2>1. PICK d : d = [old EXCEPT !.krs = old.krs \cup {k}]
    BY Zenon
  <2>2. Save(p, d, None, FALSE)
    BY <1>0, <1>9, <2>1, Zenon DEF CreateKeyring
  <2>3. d.ctxs = old.ctxs
    BY <1>1, <2>1
  <2> QED
    BY <1>0, <1>1, <2>2, <2>3, SameContextsNoFork, SaveIsolates, Zenon
<1> QED
  BY <1>2, <1>3, <1>4, <1>5, <1>6, <1>7, <1>8, <1>9 DEF Manage

(***************************************************************************)
(* `context edit --fork-network` leaves the networks that the other        *)
(* contexts see alone, for any number of processes, contexts and networks. *)
(* It needs that no reference dangles: the name of the fork would be the   *)
(* one another context refers to.                                          *)
(***************************************************************************)
THEOREM ForkIsolatesThm == Spec => ForkIsolates
<1>1. ASSUME IInv, [Next]_vars PROVE Isolated
  <2>1. ASSUME NEW p \in Procs, Manage(p) PROVE Isolated
    BY <1>1, <2>1, ManageIsolates
  <2>2. CASE UNCHANGED vars
    BY <2>2 DEF vars, Isolated, Ready
  <2>3. CASE WatcherEvent \/ WatcherReload
    BY <2>3 DEF WatcherEvent, WatcherReload, procVars, Isolated, Ready
  <2>4. ASSUME NEW p \in Procs, ~Ready(p) \/ ps'[p].pc # "open",
               \A q \in Procs \ {p} : ps'[q] = ps[q]
        PROVE  Isolated
    BY <2>4 DEF Isolated, Ready
  <2>5. ps \in [Procs -> ProcRecords]
    BY <1>1 DEF IInv, TypeOK, ProcRecords
  <2>6. ASSUME NEW p \in Procs, NEW x, ps' = [ps EXCEPT ![p] = x], ps[p].pc # "ready" \/ x.pc # "open"
        PROVE  Isolated
    BY <2>4, <2>5, <2>6 DEF Ready
  <2>7. ASSUME NEW p \in Procs, NEW override, Start(p, override) PROVE Isolated
    <3>1. ps[p].pc = "idle" /\ (ps' = ps \/ \E x : ps' = [ps EXCEPT ![p] = x])
      BY <2>7 DEF Start
    <3>2. CASE ps' = ps
      BY <3>2 DEF Isolated, Ready
    <3> QED
      BY <2>6, <3>1, <3>2
  <2>8. ASSUME NEW p \in Procs, NEW selected, NEW cur, NEW key, Wizard(p, selected, cur, key)
        PROVE  Isolated
    BY <2>6, <2>8, Zenon DEF Wizard
  <2>9. ASSUME NEW p \in Procs, StartWizard(p) \/ SaveOpen(p) \/ SaveWrite(p) \/ Finish(p)
        PROVE  Isolated
    <3>1. ps[p].pc # "ready" /\ \E x : ps' = [ps EXCEPT ![p] = x]
      BY <2>9 DEF StartWizard, SaveOpen, SaveWrite, Finish
    <3> QED
      BY <2>6, <3>1, Zenon
  <2>10. ASSUME NEW p \in Procs, End(p) PROVE Isolated
    BY <2>6, <2>10, Zenon DEF End, Idle
  <2> QED
    BY <1>1, <2>1, <2>2, <2>3, <2>7, <2>8, <2>9, <2>10 DEF Next
<1>2. ASSUME Isolated
      PROVE  \A p \in Procs : Ready(p) /\ ps'[p].pc = "open" =>
          LET old == ps[p].mem  new == ps'[p].mem IN
          (\E c \in Named(old) \cap Named(new) :
              LET net == new.ctxs[c].net IN
              net # old.ctxs[c].net /\ net # None /\ old.nets[net] = 0)
          => \E c \in Named(old) :
                \A d \in Named(old) \ {c} : NetworkSeen(new, d) = NetworkSeen(old, d)
  BY <1>2, Zenon DEF Isolated, Forks, OthersSeeTheSame
<1> QED
  BY <1>1, <1>2, Invariance, PTL DEF Spec, ForkIsolates
=============================================================================
