------------------------------ MODULE VpnSticky ------------------------------
(***************************************************************************)
(* vpn-sticky (vpn-sticky.init): for each tunnel an ip rule and a routing  *)
(* table, and nftables rules that mark the replies which belong to it.     *)
(*                                                                         *)
(* A reload brings the kernel from whatever it holds to what the           *)
(* configuration says, in place: it installs what is missing and then      *)
(* removes what the state file of the last reload names and it did not     *)
(* install.  It runs when procd is told of a changed configuration or of   *)
(* an interface that came up, when somebody says so, and is one process of *)
(* several at a time, with a lock; the configuration and the interfaces    *)
(* change between any two of its commands.                                 *)
(***************************************************************************)
EXTENDS Naturals, Sequences, Functions

CONSTANTS
  Procs,        \* processes of the init script
  Names,        \* interfaces
  Fams,         \* address families: {4, 6}
  Prefs, Tables, \* rule preferences and routing tables
  Spellings,    \* prefixes, as a configuration may write them
  Family(_),    \* the families of a prefix
  Key(_),       \* the prefix that the kernel knows it by
  Configs,      \* the configurations there may be
  BootConfigs,  \* those there may be at the start
  None,         \* nothing
  MaxEvents     \* bound: reconfigurations, interfaces up or down, commands of a
                \* user, failures and kills

\* A configuration: the interfaces in their order, target_prefix (an empty list
\* stands for the default route), enabled, ipv6.  No two interface sections name
\* the same interface, preference or table.
Entry == [name : Names, mark : Nat, pref : Prefs, table : Tables]
Config == [ifaces : Seq(Entry), prefixes : SUBSET Spellings,
           enabled : BOOLEAN, ipv6 : BOOLEAN]
Distinct(c) ==
  \A m, n \in DOMAIN c.ifaces :
    m # n => /\ c.ifaces[m].name # c.ifaces[n].name
             /\ c.ifaces[m].pref # c.ifaces[n].pref
             /\ c.ifaces[m].table # c.ifaces[n].table

ASSUME VpnStickyAssumption ==
  /\ Procs # {}
  /\ BootConfigs \subseteq Configs /\ Configs \subseteq Config
  /\ \A c \in Configs : Distinct(c)
  /\ \A s \in Spellings : Family(s) \subseteq Fams
  /\ "default" \in Spellings /\ Family("default") = Fams
  /\ 4 \in Fams /\ Fams \subseteq {4, 6}
  /\ MaxEvents \in Nat

VARIABLES
  conf,       \* /etc/config/vpn-sticky
  up,         \* the interfaces that netifd reports up
  triggers,   \* the interfaces procd has a trigger for, None when stopped
  pending,    \* procd is to run reload
  lock,       \* who has LOCK_FILE, "gone" a killed process
  pc, op,     \* where each process is, and which command it was called with
  cfg,        \* the configuration it has loaded
  todo,       \* the interfaces it has still to come to
  work,       \* the commands left of apply_iface() for the one it is at
  new,        \* VS_STATE: the entries it has installed
  stale,      \* the entries it has still to remove
  rules,      \* kernel: for a family and a preference <<mark, table>>
  routes,     \* kernel: for a family, a table and a prefix the interface
  nft,        \* kernel: the interfaces and marks of table vpn_sticky
  stateFile,  \* the entries of STATE_FILE
  abandoned,  \* configurations the kernel may hold entries of that no state file
              \* names: their reload was killed, or they were replaced after an
              \* installation that kept no state file, or could not be read by
              \* the stop that should have removed it
  unseen,     \* interfaces that came up, or "conf" if it changed, when procd had
              \* no trigger for it, or the process it ran was killed or failed to
              \* load the configuration, and that nobody has looked at since
  respelled,  \* a prefix was replaced by another spelling of it
  refused,    \* the routes that could not be replaced when last tried
  missing,    \* the rules that could not be added when last tried
  nftFailed,  \* the last attempt at nft failed
  events

local == <<op, cfg, todo, work, new, stale>>
proc == <<pc, local>>
system == <<conf, up, triggers, pending>>
kernel == <<rules, routes, nft>>
ghosts == <<abandoned, unseen, respelled, refused, missing, nftFailed>>
vars == <<system, lock, proc, kernel, stateFile, ghosts, events>>

RuleKeys == Fams \X Prefs
RouteKeys == Fams \X Tables \X {Key(s) : s \in Spellings}
RuleEntry(f, p) == [kind |-> "rule", fam |-> f, pref |-> p]
RouteEntry(f, t, s) == [kind |-> "route", fam |-> f, table |-> t, prefix |-> s]

\* Lines of the state file, and what in the kernel each is about.
RuleEntries == {RuleEntry(f, p) : f \in Fams, p \in Prefs}
RouteEntries == {RouteEntry(f, t, s) : f \in Fams, t \in Tables, s \in Spellings}
Entries == RuleEntries \cup RouteEntries
RuleKey(e) == <<e.fam, e.pref>>
RouteKey(e) == <<e.fam, e.table, Key(e.prefix)>>

\* A command of apply_iface(): the interface section and the line it adds to the
\* state.
Commands == [iface : Entry, line : Entries]
Install(e, line) == [iface |-> e, line |-> line]

\* None is none of the things it stands for the absence of.
ASSUME NoneAssumption ==
  /\ None \notin Procs /\ None \notin Names /\ None \notin Configs
  /\ None \notin {"gone", "conf"}
  /\ \A E \in SUBSET Entries : None # E
  /\ "gone" \notin Procs /\ "conf" \notin Names

\* What the variables may hold.
TypeOK ==
  /\ conf \in Configs /\ up \subseteq Names
  /\ triggers \in {None} \cup SUBSET Names /\ pending \in BOOLEAN
  /\ lock \in Procs \cup {None, "gone"}
  /\ pc \in [Procs -> {"idle", "lock", "load", "nft", "work", "stale", "unload"}]
  /\ op \in [Procs -> {"none", "start", "reload", "stop"}]
  /\ cfg \in [Procs -> Configs \cup {None}]
  /\ todo \in [Procs -> Seq(Entry)]
  /\ work \in [Procs -> SUBSET Commands]
  /\ new \in [Procs -> SUBSET Entries] /\ stale \in [Procs -> SUBSET Entries]
  /\ rules \in [RuleKeys -> {None} \cup (Nat \X Tables)]
  /\ routes \in [RouteKeys -> {None} \cup up]
  /\ nft \in {None} \cup SUBSET (Names \X Nat)
  /\ stateFile \in {None} \cup SUBSET Entries
  /\ abandoned \subseteq Configs /\ unseen \subseteq Names \cup {"conf"}
  /\ respelled \in BOOLEAN /\ refused \subseteq RouteKeys
  /\ missing \subseteq RuleKeys /\ nftFailed \in BOOLEAN
  /\ events \in 0..MaxEvents

Spend == events < MaxEvents /\ events' = events + 1
Goto(p, where) == pc' = [pc EXCEPT ![p] = where]

\* A process that does nothing, or that is called.
Reset(p, where, command) ==
  /\ Goto(p, where) /\ op' = [op EXCEPT ![p] = command]
  /\ cfg' = [cfg EXCEPT ![p] = None] /\ todo' = [todo EXCEPT ![p] = <<>>]
  /\ work' = [work EXCEPT ![p] = {}]
  /\ new' = [new EXCEPT ![p] = {}] /\ stale' = [stale EXCEPT ![p] = {}]

-----------------------------------------------------------------------------
(* What a configuration asks for.                                          *)

Families(c) == IF c.ipv6 THEN Fams ELSE Fams \ {6}

FamilyPrefixes(c, f) ==
  IF c.prefixes = {} THEN {"default"} ELSE {s \in c.prefixes : f \in Family(s)}

RuleFor(e) == <<e.mark, e.table>>

\* The commands of apply_iface() for one interface: for each family the rule and,
\* if the interface is up, the routes.
FamilyWork(c, e, f, is_up) ==
  {Install(e, RuleEntry(f, e.pref))}
    \cup {Install(e, RouteEntry(f, e.table, s)) :
            s \in IF is_up THEN FamilyPrefixes(c, f) ELSE {}}

IfaceWork(c, e, is_up) == UNION {FamilyWork(c, e, f, is_up) : f \in Families(c)}

\* Family 4 comes first, and of a family the rule.
Before(v, w) ==
  \/ v.line.fam < w.line.fam
  \/ v.line.fam = w.line.fam /\ v.line.kind = "rule" /\ w.line.kind = "route"

\* The interfaces apply_routes() comes to.
Work(c) == IF c.enabled THEN c.ifaces ELSE <<>>

\* What the rendered nftables file makes of the table: a disabled configuration
\* renders to a comment, which changes nothing.
Rendered(c) ==
  IF c.enabled THEN {<<e.name, e.mark>> : e \in Range(c.ifaces)} ELSE nft

-----------------------------------------------------------------------------
(* The system around the script.                                           *)

\* The kernel holds what an installation without a state file has left.
Legacy ==
  /\ stateFile = None
  /\ \A p \in Procs : pc[p] \in {"idle", "lock", "load", "unload"}
  /\ (\E k \in RuleKeys : rules[k] # None) \/ (\E k \in RouteKeys : routes[k] # None)

\* The file is edited and committed; procd has a reload trigger for it.
Configure ==
  /\ Spend
  /\ conf' \in Configs \ {conf}
  /\ pending' = (pending \/ triggers # None)
  /\ unseen' = IF triggers = None THEN unseen \cup {"conf"} ELSE unseen
  /\ abandoned' = abandoned \cup (IF Legacy THEN {conf} ELSE {})
  /\ UNCHANGED <<up, triggers, lock, proc, kernel, stateFile,
                 respelled, refused, missing, nftFailed>>

Up(i) ==
  /\ i \notin up /\ Spend
  /\ up' = up \cup {i}
  /\ IF triggers # None /\ i \in triggers
     THEN pending' = TRUE /\ UNCHANGED unseen
     ELSE unseen' = unseen \cup {i} /\ UNCHANGED pending
  /\ UNCHANGED <<conf, triggers, lock, proc, kernel, stateFile,
                 abandoned, respelled, refused, missing, nftFailed>>

\* The kernel drops the routes of an interface that goes down.
Down(i) ==
  /\ i \in up /\ Spend
  /\ up' = up \ {i}
  /\ routes' = [k \in RouteKeys |-> IF routes[k] = i THEN None ELSE routes[k]]
  /\ unseen' = unseen \ {i}
  /\ UNCHANGED <<conf, triggers, pending, lock, proc, rules, nft, stateFile,
                 abandoned, respelled, refused, missing, nftFailed>>

\* procd runs reload, a user any of the commands.
Trigger(p) ==
  /\ pc[p] = "idle" /\ pending
  /\ pending' = FALSE
  /\ Reset(p, "lock", "reload")
  /\ UNCHANGED <<conf, up, triggers, lock, kernel, stateFile, ghosts, events>>

Command(p) ==
  /\ pc[p] = "idle" /\ Spend
  /\ \E command \in {"start", "reload", "stop"} : Reset(p, "lock", command)
  /\ UNCHANGED <<system, lock, kernel, stateFile, ghosts>>

-----------------------------------------------------------------------------
(* reload_service() and stop_service().                                    *)

Lock(p) ==
  /\ pc[p] = "lock"
  /\ lock = None /\ lock' = p
  /\ Goto(p, IF op[p] = "stop" THEN "unload" ELSE "load")
  /\ UNCHANGED <<system, local, kernel, stateFile, ghosts, events>>

\* The state file names a prefix that the configuration spells otherwise.
Respells(c) ==
  /\ stateFile # None
  /\ \E e \in stateFile, s \in Spellings :
       /\ e.kind = "route" /\ e.prefix # s /\ Key(e.prefix) = Key(s)
       /\ s = "default" \/ s \in c.prefixes

\* load_config_data()
Load(p) ==
  /\ pc[p] = "load"
  /\ Goto(p, "nft")
  /\ cfg' = [cfg EXCEPT ![p] = conf] /\ todo' = [todo EXCEPT ![p] = Work(conf)]
  /\ respelled' = (respelled \/ Respells(conf))
  /\ unseen' = unseen \ {"conf"}
  /\ UNCHANGED <<system, lock, op, work, new, stale, kernel, stateFile,
                 abandoned, refused, missing, nftFailed, events>>

\* load_config_data() fails: the file cannot be parsed, or its mark_mask is no
\* number.  Nothing is applied and the lock released; start registers its triggers
\* all the same, those of the interfaces if the file can be parsed.
LoadFails(p) ==
  /\ pc[p] = "load" /\ Spend
  /\ lock' = None
  /\ triggers' \in IF op[p] = "start" THEN {{}, {e.name : e \in Range(conf.ifaces)}}
                   ELSE {triggers}
  /\ Reset(p, "idle", "none")
  /\ unseen' = unseen \cup {"conf"}
  /\ UNCHANGED <<conf, up, pending, kernel, stateFile,
                 abandoned, respelled, refused, missing, nftFailed>>

\* flush_legacy(): the rules and whole tables of the configured interfaces.
FlushLegacy(c) ==
  /\ rules' = [k \in RuleKeys |->
                 IF \E e \in Range(c.ifaces) : e.pref = k[2] THEN None ELSE rules[k]]
  /\ routes' = [k \in RouteKeys |->
                  IF \E e \in Range(c.ifaces) : e.table = k[2] THEN None ELSE routes[k]]

\* apply_nft_rules(), which reads the configuration again; then the start of
\* apply_routes().
Nft(p) ==
  /\ pc[p] = "nft"
  /\ Goto(p, "work")
  /\ \/ /\ nft' = IF cfg[p].enabled THEN Rendered(conf) ELSE None
        /\ nftFailed' = FALSE /\ UNCHANGED events
     \/ /\ cfg[p].enabled /\ Spend
        /\ nftFailed' = TRUE /\ UNCHANGED nft
  /\ IF stateFile = None THEN FlushLegacy(cfg[p]) ELSE UNCHANGED <<rules, routes>>
  /\ UNCHANGED <<system, lock, local, stateFile,
                 abandoned, unseen, respelled, refused, missing>>

\* iface_netifd_up() of the next interface, which says what there is to install.
LookUp(p) ==
  /\ pc[p] = "work" /\ work[p] = {} /\ todo[p] # <<>>
  /\ LET e == Head(todo[p])
     IN  /\ work' = [work EXCEPT ![p] = IfaceWork(cfg[p], e, e.name \in up)]
         /\ unseen' = unseen \ {e.name}
  /\ todo' = [todo EXCEPT ![p] = Tail(@)]
  /\ UNCHANGED <<system, lock, pc, op, cfg, new, stale, kernel, stateFile,
                 abandoned, respelled, refused, missing, nftFailed, events>>

\* The next commands, of those left, and what the process has when one is done.
NextCommands(p) == {w \in work[p] : \A v \in work[p] : ~Before(v, w)}
Done(p, w) ==
  /\ work' = [work EXCEPT ![p] = @ \ {w}]
  /\ new' = [new EXCEPT ![p] = @ \cup {w.line}]

\* Mutant: the rule is deleted and added also when it is right.
MEnsureRule(p) ==
  /\ pc[p] = "work"
  /\ \E w \in NextCommands(p) :
       LET k == RuleKey(w.line)
       IN  /\ w.line.kind = "rule"
           /\ \/ /\ rules[k] # None
                 /\ rules' = [rules EXCEPT ![k] = None] /\ UNCHANGED <<work, new>>
              \/ /\ rules[k] = None
                 /\ rules' = [rules EXCEPT ![k] = RuleFor(w.iface)]
                 /\ Done(p, w)
  /\ UNCHANGED <<system, lock, pc, op, cfg, todo, stale, routes, nft, stateFile, ghosts, events>>

\* ensure_rule(): a rule that is right is left alone; one that is not is deleted,
\* then the right one added, which may fail; its line is in the state all the same.
EnsureRule(p) ==
  /\ pc[p] = "work"
  /\ \E w \in NextCommands(p) :
       LET k == RuleKey(w.line)
       IN  /\ w.line.kind = "rule"
           /\ \/ /\ rules[k] \notin {None, RuleFor(w.iface)}
                 /\ rules' = [rules EXCEPT ![k] = None]
                 /\ UNCHANGED <<work, new, missing, events>>
              \/ /\ rules[k] \in {None, RuleFor(w.iface)}
                 /\ rules' = [rules EXCEPT ![k] = RuleFor(w.iface)]
                 /\ Done(p, w)
                 /\ missing' = missing \ {k} /\ UNCHANGED events
              \/ /\ rules[k] = None /\ Spend
                 /\ Done(p, w)
                 /\ missing' = missing \cup {k} /\ UNCHANGED rules
  /\ UNCHANGED <<system, lock, pc, op, cfg, todo, stale, routes, nft, stateFile,
                 abandoned, unseen, respelled, refused, nftFailed>>

\* ip route replace, which fails when the interface went down meanwhile; the
\* entry is in the state file all the same.
ReplaceRoute(p) ==
  /\ pc[p] = "work"
  /\ \E w \in NextCommands(p) :
       LET k == RouteKey(w.line)
       IN  /\ w.line.kind = "route"
           /\ Done(p, w)
           /\ \/ /\ w.iface.name \in up
                 /\ routes' = [routes EXCEPT ![k] = w.iface.name]
                 /\ refused' = refused \ {k}
              \/ /\ w.iface.name \notin up
                 /\ refused' = refused \cup {k} /\ UNCHANGED routes
  /\ UNCHANGED <<system, lock, pc, op, cfg, todo, stale, rules, nft, stateFile,
                 abandoned, unseen, respelled, missing, nftFailed, events>>

\* Mutant: grep -vxFf selects the lines, and busybox selects none of them when
\* the file of patterns is empty.
MStale(p) ==
  /\ pc[p] = "work" /\ work[p] = {} /\ todo[p] = <<>>
  /\ Goto(p, "stale")
  /\ stale' = [stale EXCEPT ![p] = IF stateFile = None \/ new[p] = {} THEN {}
                                   ELSE stateFile \ new[p]]
  /\ UNCHANGED <<system, lock, op, cfg, todo, work, new, kernel, stateFile, ghosts, events>>

\* remove_stale(): the entries of the state file that are not in the new one.
Stale(p) ==
  /\ pc[p] = "work" /\ work[p] = {} /\ todo[p] = <<>>
  /\ Goto(p, "stale")
  /\ stale' = [stale EXCEPT ![p] = (IF stateFile = None THEN {} ELSE stateFile) \ new[p]]
  /\ UNCHANGED <<system, lock, op, cfg, todo, work, new, kernel, stateFile, ghosts, events>>

\* remove_state_entry(): by key, whoever installed it.
RemoveEntry(p) ==
  /\ pc[p] = "stale"
  /\ \E e \in stale[p] :
       /\ stale' = [stale EXCEPT ![p] = @ \ {e}]
       /\ \/ /\ e.kind = "rule"
             /\ rules' = [rules EXCEPT ![RuleKey(e)] = None]
             /\ missing' = missing \ {RuleKey(e)}
             /\ UNCHANGED <<routes, refused>>
          \/ /\ e.kind = "route"
             /\ routes' = [routes EXCEPT ![RouteKey(e)] = None]
             /\ refused' = refused \ {RouteKey(e)}
             /\ UNCHANGED <<rules, missing>>
  /\ UNCHANGED <<system, lock, pc, op, cfg, todo, work, new, nft, stateFile,
                 abandoned, unseen, respelled, nftFailed, events>>

\* stop_service(): the table, then what the state file names, or without one
\* what flush_legacy() finds, if the configuration can be loaded.
Unload(p) ==
  /\ pc[p] = "unload"
  /\ Goto(p, "stale")
  /\ nft' = None
  /\ \/ /\ stateFile = None /\ FlushLegacy(conf)
        /\ UNCHANGED <<abandoned, events>>
     \/ /\ stateFile = None /\ Spend
        /\ abandoned' = abandoned \cup (IF Legacy THEN {conf} ELSE {})
        /\ UNCHANGED <<rules, routes>>
     \/ stateFile # None /\ UNCHANGED <<rules, routes, abandoned, events>>
  /\ stale' = [stale EXCEPT ![p] = IF stateFile = None THEN {} ELSE stateFile]
  /\ UNCHANGED <<system, lock, op, cfg, todo, work, new, stateFile,
                 unseen, respelled, refused, missing, nftFailed>>

\* Mutant: reload returns before it releases the lock when nft failed.
MUnlock(p) ==
  /\ pc[p] = "stale" /\ stale[p] = {}
  /\ stateFile' = IF op[p] = "stop" THEN None ELSE new[p]
  /\ triggers' = CASE op[p] = "stop" -> None
                   [] op[p] = "start" -> {e.name : e \in Range(conf.ifaces)}
                   [] OTHER -> triggers
  /\ lock' = IF nftFailed /\ op[p] = "reload" THEN lock ELSE None
  /\ Reset(p, "idle", "none")
  /\ abandoned' = abandoned \ {cfg[p]}
  /\ UNCHANGED <<conf, up, pending, kernel,
                 unseen, respelled, refused, missing, nftFailed, events>>

\* The state file is renamed or removed and the lock released.  start makes procd
\* register the triggers anew, stop makes it forget them.
Finish(p) ==
  /\ pc[p] = "stale" /\ stale[p] = {}
  /\ stateFile' = IF op[p] = "stop" THEN None ELSE new[p]
  /\ triggers' = CASE op[p] = "stop" -> None
                   [] op[p] = "start" -> {e.name : e \in Range(conf.ifaces)}
                   [] OTHER -> triggers
  /\ lock' = None
  /\ Reset(p, "idle", "none")
  /\ abandoned' = abandoned \ {cfg[p]}
  /\ UNCHANGED <<conf, up, pending, kernel,
                 unseen, respelled, refused, missing, nftFailed, events>>

\* A process is killed.  The child of `lock` that holds LOCK_FILE for it may
\* outlive it.
Kill(p) ==
  /\ pc[p] # "idle" /\ Spend
  /\ lock' \in IF lock = p THEN {None, "gone"} ELSE {lock}
  /\ Reset(p, "idle", "none")
  /\ abandoned' = abandoned \cup ({cfg[p]} \ {None})
  /\ unseen' = unseen \cup {"conf"}
  /\ UNCHANGED <<system, kernel, stateFile, respelled, refused, missing, nftFailed>>

-----------------------------------------------------------------------------
(* What the kernel should hold.                                            *)

WantedRule(k) ==
  LET es == {e \in Range(conf.ifaces) : e.pref = k[2]}
  IN  IF ~conf.enabled \/ es = {} \/ k[1] \notin Families(conf) THEN None
      ELSE RuleFor(CHOOSE e \in es : TRUE)

WantedRoute(k) ==
  LET es == {e \in Range(conf.ifaces) : e.table = k[2] /\ e.name \in up}
      ps == {Key(s) : s \in FamilyPrefixes(conf, k[1])}
  IN  IF ~conf.enabled \/ es = {} \/ k[1] \notin Families(conf) \/ k[3] \notin ps
      THEN None
      ELSE (CHOOSE e \in es : TRUE).name

\* The system boots, or the package is upgraded from a version that kept no state
\* file and had set up everything: procd runs start, with no interface up yet or
\* all of them.
Init ==
  /\ conf \in BootConfigs /\ up \in {{}, Names}
  /\ triggers = None /\ pending = FALSE /\ lock = None
  /\ LET first == CHOOSE p \in Procs : TRUE
     IN  /\ pc = [p \in Procs |-> IF p = first THEN "lock" ELSE "idle"]
         /\ op = [p \in Procs |-> IF p = first THEN "start" ELSE "none"]
  /\ cfg = [p \in Procs |-> None] /\ todo = [p \in Procs |-> <<>>]
  /\ work = [p \in Procs |-> {}] /\ new = [p \in Procs |-> {}]
  /\ stale = [p \in Procs |-> {}]
  /\ \/ /\ rules = [k \in RuleKeys |-> None] /\ routes = [k \in RouteKeys |-> None]
     \/ /\ conf.enabled
        /\ rules = [k \in RuleKeys |-> WantedRule(k)]
        /\ routes = [k \in RouteKeys |-> WantedRoute(k)]
  /\ nft = None /\ stateFile = None
  /\ abandoned = {} /\ unseen = {} /\ respelled = FALSE /\ refused = {}
  /\ missing = {} /\ nftFailed = FALSE
  /\ events = 0

Step(p) ==
  \/ Lock(p) \/ Load(p) \/ LoadFails(p) \/ Nft(p) \/ LookUp(p)
  \/ EnsureRule(p) \/ ReplaceRoute(p) \/ Stale(p) \/ RemoveEntry(p) \/ Unload(p) \/ Finish(p)

Next ==
  \/ Configure
  \/ \E i \in Names : Up(i) \/ Down(i)
  \/ \E p \in Procs : Trigger(p) \/ Command(p) \/ Step(p) \/ Kill(p)

\* A process of the script runs on.
Spec == Init /\ [][Next]_vars /\ \A p \in Procs : WF_vars(Step(p))

-----------------------------------------------------------------------------
(* Properties.                                                             *)

\* The service is started and nothing is left to do.
Quiet ==
  /\ triggers # None /\ ~pending /\ lock = None
  /\ \A p \in Procs : pc[p] = "idle"
  /\ "conf" \notin unseen /\ abandoned = {}

\* After any sequence of configurations, interfaces that come and go, reloads,
\* stops and starts the rules are those of the configuration, with no leftover of
\* an earlier one (vpn-sticky.init:119-132, 157-182, 202-230); one that could not
\* be added is not there (130-131).
RulesSettled ==
  Quiet => \A k \in RuleKeys : \/ rules[k] = WantedRule(k)
                               \/ rules[k] = None /\ k \in missing

\* ... and the routes those of the interfaces that are up, whenever they came up
\* during a reload (vpn-sticky.init:88-93, 134-182, 303-315); except for one
\* that came up unseen, and when a prefix was only spelled anew.  A route that
\* could not be replaced stays until its interface is up (149-151).
RoutesSettled ==
  Quiet /\ ~respelled
    => \A k \in RouteKeys : \/ WantedRoute(k) \in unseen
                            \/ routes[k] = WantedRoute(k)
                            \/ WantedRoute(k) = None /\ k \in refused

\* ... and the nftables rules mark for those interfaces, although the template
\* reads the configuration a second time (vpn-sticky.init:232-266, 281-283).
NftSettled ==
  Quiet /\ ~nftFailed
    => nft = IF conf.enabled THEN {<<e.name, e.mark>> : e \in Range(conf.ifaces)}
             ELSE None

\* When stop is done nothing is left in the kernel (vpn-sticky.init:224-230,
\* 263-266, 292-301), until something is started again.
Stopped ==
  /\ triggers = None /\ stateFile = None /\ lock = None
  /\ \A p \in Procs : pc[p] = "idle"
  /\ "conf" \notin unseen /\ abandoned = {}

StopClears ==
  Stopped => /\ nft = None
             /\ \A k \in RuleKeys : rules[k] = None
             /\ \A k \in RouteKeys : routes[k] = None

\* Whenever nothing is under way, what the kernel holds is a function of the
\* configuration, the interfaces that are up and whether the service is started.
Settled == RulesSettled /\ RoutesSettled /\ NftSettled /\ StopClears

\* No process works on another configuration, removes or stops.
Undisturbed ==
  /\ stateFile # None /\ ~respelled'
  /\ \A p \in Procs : op[p] # "stop" /\ cfg[p] \in {None, conf}

\* "Lets a reload update in place and remove only what is no longer wanted,
\* instead of flushing everything first (which opened a no-route window)"
\* (vpn-sticky.init:14-15): a rule or a route that is right is never taken away,
\* not for a moment, unless its interface goes down.
NoWindow ==
  [][Undisturbed
       => /\ \A k \in RuleKeys :
               rules[k] # None /\ rules[k] = WantedRule(k) => rules'[k] = rules[k]
          /\ \A k \in RouteKeys :
               routes[k] # None /\ routes[k] = WantedRoute(k) /\ up \subseteq up'
                 => routes'[k] = routes[k]]_vars

\* Every reload, start and stop comes to its end, also the ones that wait for the
\* lock (vpn-sticky.init:272-301), unless a killed one's lock stays.
ReloadsEnd == \A p \in Procs : pc[p] # "idle" ~> pc[p] = "idle" \/ lock = "gone"

=============================================================================
