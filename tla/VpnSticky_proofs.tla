-------------------------- MODULE VpnSticky_proofs --------------------------
(***************************************************************************)
(* Proofs about VpnSticky: whenever nothing is under way the kernel holds  *)
(* what the configuration asks for, and a reload never takes away what is  *)
(* right.                                                                  *)
(***************************************************************************)
EXTENDS VpnSticky, TLAPS

-----------------------------------------------------------------------------
(* The invariant: what each process knows of the kernel.                   *)

\* A process holds the lock; it works on the configuration it has loaded.
Active(p) == pc[p] \in {"load", "nft", "work", "stale", "unload"}
Reloading(p) == pc[p] \in {"nft", "work", "stale"} /\ op[p] # "stop"
Alone == \A p \in Procs : ~Active(p)

\* A reload is due, or has yet to load the configuration.
Waiting ==
  \/ "conf" \in unseen
  \/ \E p \in Procs : pc[p] \in {"lock", "load"} /\ op[p] # "stop"
Outdated == pending \/ Waiting

\* What configuration c asks for on account of its interface e, and the lines that
\* say so.
AsksRule(c, e, f) == c.enabled /\ e \in Range(c.ifaces) /\ f \in Families(c)
AsksRoute(c, e, f, s) == AsksRule(c, e, f) /\ s \in FamilyPrefixes(c, f)
Asks(c, e, l) ==
  \/ \E f \in Fams : AsksRule(c, e, f) /\ l = RuleEntry(f, e.pref)
  \/ \E f \in Fams, s \in Spellings : AsksRoute(c, e, f, s) /\ l = RouteEntry(f, e.table, s)

\* The keys in the kernel that it installs.
InstallsRule(c, k) == \E e \in Range(c.ifaces) : AsksRule(c, e, k[1]) /\ e.pref = k[2]
InstallsRoute(c, k, i) ==
  \E e \in Range(c.ifaces), s \in Spellings :
    AsksRoute(c, e, k[1], s) /\ e.table = k[2] /\ Key(s) = k[3] /\ e.name = i

\* A set of lines has one about key k.
RuleNamed(L, k) == RuleEntry(k[1], k[2]) \in L
RouteNamed(L, k) == \E s \in Spellings : Key(s) = k[3] /\ RouteEntry(k[1], k[2], s) \in L
File == IF stateFile = None THEN {} ELSE stateFile

\* One process at a time holds the lock.
Mutex == \A p \in Procs : lock = p <=> Active(p)

\* What a process has when it is not reloading.
Phase(p) ==
  /\ op[p] = "stop" => pc[p] \in {"lock", "unload", "stale"}
  /\ pc[p] = "unload" => op[p] = "stop"
  /\ ~Reloading(p) => cfg[p] = None /\ todo[p] = <<>> /\ work[p] = {} /\ new[p] = {}
  /\ pc[p] # "stale" => stale[p] = {}
  /\ stale[p] \subseteq File \ new[p]
Phases == \A p \in Procs : Phase(p)

\* What it has when it is: it has come to some of the interfaces.
Position(p) ==
  /\ cfg[p] \in Configs
  /\ Range(todo[p]) \subseteq Range(cfg[p].ifaces)
  /\ todo[p] # <<>> => cfg[p].enabled
  /\ \A m, n \in DOMAIN todo[p] : todo[p][m] = todo[p][n] => m = n
  /\ pc[p] = "nft" => todo[p] = Work(cfg[p]) /\ work[p] = {} /\ new[p] = {}
  /\ pc[p] = "stale" => todo[p] = <<>> /\ work[p] = {}
  /\ \A w \in work[p] :
       Asks(cfg[p], w.iface, w.line) /\ w.iface \notin Range(todo[p])
  /\ \A l \in new[p] : \E e \in Range(cfg[p].ifaces) \ Range(todo[p]) : Asks(cfg[p], e, l)
Positions == \A p \in Procs : Reloading(p) => Position(p)

Current == \A p \in Procs : Reloading(p) => cfg[p] = conf \/ Outdated
Spelled == \A p \in Procs : Reloading(p) /\ ~respelled => ~Respells(cfg[p])

\* procd has triggers only if there is a state file, or one is being made, or the
\* configuration could not be loaded.
Registered ==
  triggers # None =>
    stateFile # None \/ "conf" \in unseen \/ \E p \in Procs : Reloading(p)

\* The lines L and the kernel agree about a rule of e: it is there, or could not be
\* added ...
RuleRight(k, e) == rules[k] = RuleFor(e) \/ (rules[k] = None /\ k \in missing)
RuleHolds(L, e, f) == RuleEntry(f, e.pref) \in L /\ RuleRight(<<f, e.pref>>, e)

\* ... and about a route: it is there, or could not be replaced, or the interface
\* was down when it was looked up and none of its routes is.
Excused(i) == i \notin up \/ i \in unseen \/ Outdated
Skipped(L, e) == \A l \in L : l.kind = "route" => l.table # e.table
RouteRight(k, i) == routes[k] \in {None, i} \/ k \in refused
RouteHolds(L, e, f, s) ==
  \/ /\ RouteEntry(f, e.table, s) \in L
     /\ RouteRight(<<f, e.table, Key(s)>>, e.name)
     /\ respelled \/ routes[<<f, e.table, Key(s)>>] = e.name \/ Excused(e.name)
  \/ /\ Skipped(L, e)
     /\ routes[<<f, e.table, Key(s)>>] # e.name
     /\ Excused(e.name)

\* What is done of a reload holds.
RuleProgress ==
  \A p \in Procs : Reloading(p) =>
    \A e \in Range(cfg[p].ifaces), f \in Fams :
      AsksRule(cfg[p], e, f) =>
        \/ e \in Range(todo[p])
        \/ Install(e, RuleEntry(f, e.pref)) \in work[p]
        \/ RuleHolds(new[p], e, f)
RoutesLeft(p, e) == \E w \in work[p] : w.line.kind = "route" /\ w.iface = e
RouteProgress ==
  \A p \in Procs : Reloading(p) =>
    \A e \in Range(cfg[p].ifaces), f \in Fams, s \in Spellings :
      AsksRoute(cfg[p], e, f, s) =>
        \/ e \in Range(todo[p])
        \/ Install(e, RouteEntry(f, e.table, s)) \in work[p]
        \/ /\ RouteHolds(new[p], e, f, s)
           /\ Skipped(new[p], e) => ~RoutesLeft(p, e)

\* When nothing is under way the state file is that of the configuration, and
\* holds.
Rested == Alone /\ stateFile # None /\ ~Outdated
FileRested == Rested => \A l \in File : \E e \in Range(conf.ifaces) : Asks(conf, e, l)
RulesRested ==
  Rested => \A e \in Range(conf.ifaces), f \in Fams :
              AsksRule(conf, e, f) => RuleHolds(File, e, f)
RoutesRested ==
  Rested => \A e \in Range(conf.ifaces), f \in Fams, s \in Spellings :
              AsksRoute(conf, e, f, s) => RouteHolds(File, e, f, s)

\* Whatever is in the kernel is in the state file, in the lines of the reload
\* under way, or of a configuration that is remembered: an abandoned one, or one
\* that an installation without a state file had set up.
Unloaded ==
  Waiting /\ \A p \in Procs : pc[p] \notin {"nft", "work", "stale"}
Remembered(c) ==
  \/ c \in abandoned
  \/ /\ stateFile = None
     /\ \/ Unloaded /\ c = conf
        \/ \E p \in Procs : pc[p] = "nft" /\ c = cfg[p]
RulesCovered ==
  \A k \in RuleKeys : rules[k] # None =>
    \/ RuleNamed(File, k)
    \/ \E p \in Procs : Reloading(p) /\ RuleNamed(new[p], k)
    \/ \E c \in Configs : Remembered(c) /\ InstallsRule(c, k)
RoutesCovered ==
  \A k \in RouteKeys : routes[k] # None =>
    \/ RouteNamed(File, k)
    \/ \E p \in Procs : /\ Reloading(p) /\ RouteNamed(new[p], k)
                        /\ InstallsRoute(cfg[p], k, routes[k])
    \/ \E c \in Configs : Remembered(c) /\ InstallsRoute(c, k, routes[k])

\* ... and once the lines to remove are known, in these, the new ones, or of an
\* abandoned configuration.
RulesKept ==
  \A p \in Procs : pc[p] = "stale" => \A k \in RuleKeys : rules[k] # None =>
    RuleNamed(new[p] \cup stale[p], k) \/ \E c \in abandoned : InstallsRule(c, k)
RoutesKept ==
  \A p \in Procs : pc[p] = "stale" => \A k \in RouteKeys : routes[k] # None =>
    \/ RouteNamed(new[p] \cup stale[p], k)
    \/ \E c \in abandoned : InstallsRoute(c, k, routes[k])

WantedNft(c) == IF c.enabled THEN {<<e.name, e.mark>> : e \in Range(c.ifaces)} ELSE None
NftHolds == Outdated \/ nftFailed \/ nft = WantedNft(conf)
NftRested ==
  /\ \A p \in Procs : Reloading(p) /\ pc[p] # "nft" => NftHolds
  /\ Alone /\ stateFile # None => NftHolds
  /\ \A p \in Procs : pc[p] = "stale" /\ op[p] = "stop" => nft = None
  /\ stateFile = None /\ "conf" \notin unseen /\ (\A p \in Procs : ~Reloading(p))
       => nft = None

Structured == Mutex /\ Phases /\ Positions
Working == Current /\ Spelled /\ RuleProgress /\ RouteProgress
Resting == FileRested /\ RulesRested /\ RoutesRested
Covered == RulesCovered /\ RoutesCovered /\ RulesKept /\ RoutesKept
IInv ==
  /\ TypeOK /\ Structured /\ Registered /\ Working /\ Resting /\ Covered /\ NftRested

-----------------------------------------------------------------------------
(* Configurations and lines.                                               *)

\* The parts of a configuration.
LEMMA ConfigParts ==
  ASSUME NEW c \in Configs
  PROVE  /\ c.ifaces \in Seq(Entry) /\ Range(c.ifaces) \subseteq Entry
         /\ c.prefixes \subseteq Spellings
         /\ c.enabled \in BOOLEAN
         /\ Families(c) \subseteq Fams
         /\ \A f : FamilyPrefixes(c, f) \subseteq Spellings
         /\ \A f : FamilyPrefixes(c, f) \subseteq {"default"} \cup c.prefixes
<1>1. c \in Config
  BY VpnStickyAssumption
<1>2. c.ifaces \in Seq(Entry) /\ c.prefixes \subseteq Spellings
        /\ c.enabled \in BOOLEAN
  BY <1>1 DEF Config
<1>3. Range(c.ifaces) \subseteq Entry
  BY <1>2 DEF Range
<1>4. "default" \in Spellings
  BY VpnStickyAssumption
<1> QED
  BY <1>2, <1>3, <1>4 DEF Families, FamilyPrefixes

\* Of a configuration's interfaces each has a name, preference and table to itself.
LEMMA Alike ==
  ASSUME NEW c \in Configs, NEW d \in Range(c.ifaces), NEW e \in Range(c.ifaces),
         d.name = e.name \/ d.pref = e.pref \/ d.table = e.table
  PROVE  d = e
<1>1. PICK m \in DOMAIN c.ifaces : d = c.ifaces[m]
  BY DEF Range
<1>2. PICK n \in DOMAIN c.ifaces : e = c.ifaces[n]
  BY DEF Range
<1>3. Distinct(c)
  BY VpnStickyAssumption
<1> QED
  BY <1>1, <1>2, <1>3 DEF Distinct

\* What an interface has.
LEMMA EntryParts ==
  ASSUME NEW e \in Entry
  PROVE  e.name \in Names /\ e.mark \in Nat /\ e.pref \in Prefs /\ e.table \in Tables
BY DEF Entry

\* The lines and their parts.
LEMMA RuleLine ==
  ASSUME NEW f, NEW q
  PROVE  /\ RuleEntry(f, q).kind = "rule" /\ RuleEntry(f, q).fam = f
         /\ RuleEntry(f, q).pref = q
         /\ RuleKey(RuleEntry(f, q)) = <<f, q>>
         /\ f \in Fams /\ q \in Prefs => RuleEntry(f, q) \in Entries
BY DEF RuleEntry, RuleKey, Entries, RuleEntries

LEMMA RouteLine ==
  ASSUME NEW f, NEW t, NEW s
  PROVE  /\ RouteEntry(f, t, s).kind = "route" /\ RouteEntry(f, t, s).fam = f
         /\ RouteEntry(f, t, s).table = t /\ RouteEntry(f, t, s).prefix = s
         /\ RouteKey(RouteEntry(f, t, s)) = <<f, t, Key(s)>>
         /\ f \in Fams /\ t \in Tables /\ s \in Spellings => RouteEntry(f, t, s) \in Entries
BY DEF RouteEntry, RouteKey, Entries, RouteEntries

\* A line is one or the other.
LEMMA LineKinds ==
  ASSUME NEW l \in Entries
  PROVE  \/ /\ l.kind = "rule" /\ l.fam \in Fams /\ l.pref \in Prefs
            /\ l = RuleEntry(l.fam, l.pref)
         \/ /\ l.kind = "route" /\ l.fam \in Fams /\ l.table \in Tables
            /\ l.prefix \in Spellings
            /\ l = RouteEntry(l.fam, l.table, l.prefix)
<1>1. CASE l \in RuleEntries
  <2>1. PICK f \in Fams, q \in Prefs : l = RuleEntry(f, q)
    BY <1>1 DEF RuleEntries
  <2> QED
    BY <2>1, RuleLine
<1>2. CASE l \in RouteEntries
  <2>1. PICK f \in Fams, t \in Tables, s \in Spellings : l = RouteEntry(f, t, s)
    BY <1>2 DEF RouteEntries
  <2> QED
    BY <2>1, RouteLine
<1> QED
  BY <1>1, <1>2 DEF Entries

\* The keys.
LEMMA RuleKeyParts ==
  /\ \A k \in RuleKeys : k[1] \in Fams /\ k[2] \in Prefs /\ k = <<k[1], k[2]>>
  /\ \A f \in Fams, q \in Prefs : <<f, q>> \in RuleKeys
BY DEF RuleKeys

LEMMA RouteKeyParts ==
  /\ \A k \in RouteKeys : /\ k[1] \in Fams /\ k[2] \in Tables
                          /\ \E s \in Spellings : k[3] = Key(s)
                          /\ k = <<k[1], k[2], k[3]>>
  /\ \A f \in Fams, t \in Tables, s \in Spellings : <<f, t, Key(s)>> \in RouteKeys
BY DEF RouteKeys

\* What a configuration asks for.
LEMMA AskedRule ==
  ASSUME NEW c \in Configs, NEW e, NEW f, AsksRule(c, e, f)
  PROVE  /\ e \in Entry /\ e \in Range(c.ifaces) /\ f \in Fams /\ e.pref \in Prefs
         /\ c.enabled
         /\ <<f, e.pref>> \in RuleKeys /\ RuleEntry(f, e.pref) \in Entries
         /\ Asks(c, e, RuleEntry(f, e.pref))
         /\ InstallsRule(c, <<f, e.pref>>)
<1>1. e \in Entry /\ e \in Range(c.ifaces) /\ f \in Fams /\ f \in Families(c) /\ c.enabled
  BY ConfigParts DEF AsksRule
<1>2. e.pref \in Prefs
  BY <1>1, EntryParts
<1>3. <<f, e.pref>> \in RuleKeys /\ RuleEntry(f, e.pref) \in Entries
  BY <1>1, <1>2, RuleKeyParts, RuleLine
<1>4. Asks(c, e, RuleEntry(f, e.pref))
  BY <1>1 DEF Asks
<1>5. InstallsRule(c, <<f, e.pref>>)
  BY <1>1 DEF InstallsRule
<1> QED
  BY <1>1, <1>2, <1>3, <1>4, <1>5

LEMMA AskedRoute ==
  ASSUME NEW c \in Configs, NEW e, NEW f, NEW s, AsksRoute(c, e, f, s)
  PROVE  /\ e \in Entry /\ e \in Range(c.ifaces) /\ f \in Fams /\ s \in Spellings
         /\ e.table \in Tables /\ e.name \in Names
         /\ s \in {"default"} \cup c.prefixes
         /\ <<f, e.table, Key(s)>> \in RouteKeys
         /\ RouteEntry(f, e.table, s) \in Entries
         /\ Asks(c, e, RouteEntry(f, e.table, s))
         /\ InstallsRoute(c, <<f, e.table, Key(s)>>, e.name)
<1>1. /\ e \in Entry /\ e \in Range(c.ifaces) /\ f \in Fams /\ s \in Spellings
      /\ s \in {"default"} \cup c.prefixes
  BY ConfigParts DEF AsksRoute, AsksRule
<1>2. e.table \in Tables /\ e.name \in Names
  BY <1>1, EntryParts
<1>3. <<f, e.table, Key(s)>> \in RouteKeys /\ RouteEntry(f, e.table, s) \in Entries
  BY <1>1, <1>2, RouteKeyParts, RouteLine
<1>4. Asks(c, e, RouteEntry(f, e.table, s))
  BY <1>1 DEF Asks
<1>5. InstallsRoute(c, <<f, e.table, Key(s)>>, e.name)
  BY <1>1 DEF InstallsRoute
<1> QED
  BY <1>1, <1>2, <1>3, <1>4, <1>5

\* A line that is asked for says what for.
LEMMA AskedLine ==
  ASSUME NEW c \in Configs, NEW e, NEW l, Asks(c, e, l)
  PROVE  /\ e \in Range(c.ifaces) /\ e \in Entry /\ l \in Entries
         /\ l.kind = "rule" =>
              /\ AsksRule(c, e, l.fam) /\ l = RuleEntry(l.fam, e.pref)
              /\ RuleKey(l) = <<l.fam, e.pref>>
         /\ l.kind = "route" =>
              /\ AsksRoute(c, e, l.fam, l.prefix)
              /\ l = RouteEntry(l.fam, e.table, l.prefix) /\ l.table = e.table
              /\ RouteKey(l) = <<l.fam, e.table, Key(l.prefix)>>
         /\ l.kind \in {"rule", "route"}
<1>1. CASE \E f \in Fams : AsksRule(c, e, f) /\ l = RuleEntry(f, e.pref)
  <2>1. PICK f \in Fams : AsksRule(c, e, f) /\ l = RuleEntry(f, e.pref)
    BY <1>1
  <2> QED
    BY <2>1, AskedRule, RuleLine
<1>2. CASE \E f \in Fams, s \in Spellings :
             AsksRoute(c, e, f, s) /\ l = RouteEntry(f, e.table, s)
  <2>1. PICK f \in Fams, s \in Spellings :
          AsksRoute(c, e, f, s) /\ l = RouteEntry(f, e.table, s)
    BY <1>2
  <2> QED
    BY <2>1, AskedRoute, RouteLine
<1> QED
  BY <1>1, <1>2 DEF Asks

\* The commands of apply_iface() are those.
LEMMA Commanded ==
  ASSUME NEW c \in Configs, c.enabled, NEW e \in Range(c.ifaces), NEW u \in BOOLEAN
  PROVE  /\ \A w \in IfaceWork(c, e, u) :
              /\ w \in Commands /\ w.iface = e /\ Asks(c, e, w.line)
              /\ w = Install(e, w.line)
              /\ w.line.kind = "route" => u
         /\ \A f \in Fams : AsksRule(c, e, f)
              => Install(e, RuleEntry(f, e.pref)) \in IfaceWork(c, e, u)
         /\ u => \A f \in Fams, s \in Spellings : AsksRoute(c, e, f, s)
              => Install(e, RouteEntry(f, e.table, s)) \in IfaceWork(c, e, u)
<1>1. e \in Entry
  BY ConfigParts
<1>2. ASSUME NEW w \in IfaceWork(c, e, u)
      PROVE  /\ w \in Commands /\ w.iface = e /\ Asks(c, e, w.line)
             /\ w = Install(e, w.line)
             /\ w.line.kind = "route" => u
  <2>1. PICK f \in Families(c) : w \in FamilyWork(c, e, f, u)
    BY DEF IfaceWork
  <2>2. f \in Fams /\ AsksRule(c, e, f)
    BY ConfigParts DEF AsksRule
  <2>3. CASE w = Install(e, RuleEntry(f, e.pref))
    <3>1. Asks(c, e, RuleEntry(f, e.pref)) /\ RuleEntry(f, e.pref) \in Entries
      BY <2>2, AskedRule
    <3>2. w.iface = e /\ w.line = RuleEntry(f, e.pref)
      BY <2>3 DEF Install
    <3>3. w \in Commands
      BY <2>3, <3>1, <1>1 DEF Install, Commands
    <3> QED
      BY <2>3, <3>1, <3>2, <3>3, RuleLine
  <2>4. CASE u /\ \E s \in FamilyPrefixes(c, f) : w = Install(e, RouteEntry(f, e.table, s))
    <3>0. PICK s \in FamilyPrefixes(c, f) : w = Install(e, RouteEntry(f, e.table, s))
      BY <2>4
    <3>a. AsksRoute(c, e, f, s)
      BY <2>2 DEF AsksRoute
    <3>1. Asks(c, e, RouteEntry(f, e.table, s)) /\ RouteEntry(f, e.table, s) \in Entries
      BY <3>a, AskedRoute
    <3>2. w.iface = e /\ w.line = RouteEntry(f, e.table, s)
      BY <3>0 DEF Install
    <3>3. w \in Commands
      BY <3>0, <3>1, <1>1 DEF Install, Commands
    <3> QED
      BY <2>4, <3>0, <3>1, <3>2, <3>3
  <2> QED
    BY <2>1, <2>3, <2>4 DEF FamilyWork
<1>3. ASSUME NEW f \in Fams, AsksRule(c, e, f)
      PROVE  Install(e, RuleEntry(f, e.pref)) \in IfaceWork(c, e, u)
  BY <1>3 DEF IfaceWork, FamilyWork, AsksRule
<1>4. ASSUME u, NEW f \in Fams, NEW s \in Spellings, AsksRoute(c, e, f, s)
      PROVE  Install(e, RouteEntry(f, e.table, s)) \in IfaceWork(c, e, u)
  BY <1>4 DEF IfaceWork, FamilyWork, AsksRoute, AsksRule
<1> QED
  BY <1>2, <1>3, <1>4

\* The interfaces left when one is taken.
LEMMA Popped ==
  ASSUME NEW S, NEW t \in Seq(S), t # <<>>,
         \A m, n \in DOMAIN t : t[m] = t[n] => m = n
  PROVE  /\ Head(t) \in S /\ Head(t) \in Range(t) /\ Tail(t) \in Seq(S)
         /\ Range(t) = {Head(t)} \cup Range(Tail(t))
         /\ Head(t) \notin Range(Tail(t))
         /\ \A m, n \in DOMAIN Tail(t) : Tail(t)[m] = Tail(t)[n] => m = n
<1>1. Len(t) \in Nat /\ Len(t) # 0 /\ DOMAIN t = 1..Len(t) /\ \A n \in 1..Len(t) : t[n] \in S
  OBVIOUS
<1>2. /\ Tail(t) \in Seq(S) /\ DOMAIN Tail(t) = 1..Len(t) - 1
      /\ \A n \in 1..Len(t) - 1 : Tail(t)[n] = t[n + 1]
  BY <1>1
<1>3. Head(t) = t[1]
  OBVIOUS
<1>4. 1 \in DOMAIN t
  BY <1>1
<1>5. Head(t) \in S /\ Head(t) \in Range(t)
  BY <1>1, <1>3, <1>4 DEF Range
<1>6. Range(Tail(t)) \subseteq Range(t)
  <2>1. ASSUME NEW n \in 1..Len(t) - 1 PROVE Tail(t)[n] \in Range(t)
    <3>1. n + 1 \in DOMAIN t
      BY <1>1
    <3> QED
      BY <3>1, <1>2 DEF Range
  <2> QED
    BY <2>1, <1>2 DEF Range
<1>7. Range(t) \subseteq {Head(t)} \cup Range(Tail(t))
  <2>1. ASSUME NEW n \in DOMAIN t PROVE t[n] \in {Head(t)} \cup Range(Tail(t))
    <3>1. CASE n = 1
      BY <3>1, <1>3
    <3>2. CASE n # 1
      <4>1. n - 1 \in 1..Len(t) - 1 /\ (n - 1) + 1 = n
        BY <3>2, <1>1
      <4>2. Tail(t)[n - 1] = t[n]
        BY <4>1, <1>2
      <4> QED
        BY <4>1, <4>2, <1>2 DEF Range
    <3> QED
      BY <3>1, <3>2
  <2> QED
    BY <2>1 DEF Range
<1>8. Head(t) \notin Range(Tail(t))
  <2>1. SUFFICES ASSUME NEW n \in 1..Len(t) - 1, Tail(t)[n] = Head(t) PROVE FALSE
    BY <1>2 DEF Range
  <2>2. n + 1 \in DOMAIN t /\ n + 1 # 1
    BY <1>1
  <2> QED
    BY <2>1, <2>2, <1>2, <1>3, <1>4
<1>9. ASSUME NEW m \in DOMAIN Tail(t), NEW n \in DOMAIN Tail(t), Tail(t)[m] = Tail(t)[n]
      PROVE  m = n
  <2>1. m + 1 \in DOMAIN t /\ n + 1 \in DOMAIN t /\ m \in Nat /\ n \in Nat
    BY <1>1, <1>2
  <2>2. t[m + 1] = t[n + 1]
    BY <1>2, <1>9
  <2>3. m + 1 = n + 1
    BY <2>1, <2>2
  <2> QED
    BY <2>1, <2>3
<1> QED
  BY <1>2, <1>5, <1>6, <1>7, <1>8, <1>9

\* All of them, at the start.
LEMMA AllWork ==
  ASSUME NEW c \in Configs
  PROVE  /\ Work(c) \in Seq(Entry) /\ Range(Work(c)) \subseteq Range(c.ifaces)
         /\ \A m, n \in DOMAIN Work(c) : Work(c)[m] = Work(c)[n] => m = n
         /\ c.enabled => Work(c) = c.ifaces
<1>1. c.ifaces \in Seq(Entry) /\ Range(<<>>) = {}
  BY ConfigParts DEF Range
<1>2. \A m, n \in DOMAIN c.ifaces : c.ifaces[m] = c.ifaces[n] => m = n
  BY VpnStickyAssumption DEF Distinct
<1>3. CASE c.enabled
  BY <1>1, <1>2, <1>3 DEF Work
<1>4. CASE ~c.enabled
  BY <1>1, <1>4 DEF Work
<1> QED
  BY <1>3, <1>4

-----------------------------------------------------------------------------
(* The variables.                                                          *)

LEMMA TypeInit == Init => TypeOK
<1> SUFFICES ASSUME Init PROVE TypeOK
  OBVIOUS
<1> USE DEF Init
<1>1. conf \in Configs /\ up \subseteq Names
  BY VpnStickyAssumption
<1>2. triggers \in {None} \cup SUBSET Names /\ pending \in BOOLEAN
  OBVIOUS
<1>3. lock \in Procs \cup {None, "gone"}
  OBVIOUS
<1>4. pc \in [Procs -> {"idle", "lock", "load", "nft", "work", "stale", "unload"}]
  OBVIOUS
<1>5. op \in [Procs -> {"none", "start", "reload", "stop"}]
  OBVIOUS
<1>6. cfg \in [Procs -> Configs \cup {None}] /\ todo \in [Procs -> Seq(Entry)]
  OBVIOUS
<1>7. /\ work \in [Procs -> SUBSET Commands]
      /\ new \in [Procs -> SUBSET Entries] /\ stale \in [Procs -> SUBSET Entries]
  OBVIOUS
<1>8. rules \in [RuleKeys -> {None} \cup (Nat \X Tables)]
  <2>1. ASSUME NEW k PROVE WantedRule(k) \in {None} \cup (Nat \X Tables)
    <3> DEFINE es == {e \in Range(conf.ifaces) : e.pref = k[2]}
    <3>1. es \subseteq Entry
      BY <1>1, ConfigParts
    <3>2. es # {} => (CHOOSE e \in es : TRUE) \in es
      OBVIOUS
    <3>3. \A e \in es : RuleFor(e) \in Nat \X Tables
      BY <3>1, EntryParts DEF RuleFor
    <3>4. WantedRule(k) = IF ~conf.enabled \/ es = {} \/ k[1] \notin Families(conf) THEN None
                          ELSE RuleFor(CHOOSE e \in es : TRUE)
      BY Zenon DEF WantedRule
    <3> HIDE DEF es
    <3> QED
      BY <3>2, <3>3, <3>4
  <2> QED
    BY <2>1
<1>9. routes \in [RouteKeys -> {None} \cup up]
  <2>1. ASSUME NEW k PROVE WantedRoute(k) \in {None} \cup up
    <3> DEFINE es == {e \in Range(conf.ifaces) : e.table = k[2] /\ e.name \in up}
    <3>2. es # {} => (CHOOSE e \in es : TRUE) \in es
      OBVIOUS
    <3> DEFINE ps == {Key(s) : s \in FamilyPrefixes(conf, k[1])}
    <3>3. \A e \in es : e.name \in up
      OBVIOUS
    <3>4. WantedRoute(k) = IF \/ ~conf.enabled \/ es = {} \/ k[1] \notin Families(conf)
                              \/ k[3] \notin ps
                           THEN None ELSE (CHOOSE e \in es : TRUE).name
      BY Zenon DEF WantedRoute
    <3> HIDE DEF es, ps
    <3> QED
      BY <3>2, <3>3, <3>4
  <2> QED
    BY <2>1
<1>10. nft \in {None} \cup SUBSET (Names \X Nat) /\ stateFile \in {None} \cup SUBSET Entries
  OBVIOUS
<1>11. /\ abandoned \subseteq Configs /\ unseen \subseteq Names \cup {"conf"}
       /\ respelled \in BOOLEAN /\ refused \subseteq RouteKeys
       /\ missing \subseteq RuleKeys /\ nftFailed \in BOOLEAN
  OBVIOUS
<1>12. events \in 0..MaxEvents
  BY VpnStickyAssumption
<1> QED
  BY <1>1, <1>2, <1>3, <1>4, <1>5, <1>6, <1>7, <1>8, <1>9, <1>10, <1>11, <1>12 DEF TypeOK

\* The local variables, when a process starts or ends.
LEMMA ResetType ==
  ASSUME TypeOK, NEW p \in Procs, NEW where \in {"idle", "lock"},
         NEW command \in {"none", "start", "reload", "stop"}, Reset(p, where, command)
  PROVE  /\ pc' \in [Procs -> {"idle", "lock", "load", "nft", "work", "stale", "unload"}]
         /\ op' \in [Procs -> {"none", "start", "reload", "stop"}]
         /\ cfg' \in [Procs -> Configs \cup {None}]
         /\ todo' \in [Procs -> Seq(Entry)]
         /\ work' \in [Procs -> SUBSET Commands]
         /\ new' \in [Procs -> SUBSET Entries] /\ stale' \in [Procs -> SUBSET Entries]
<1>1. /\ pc' \in [Procs -> {"idle", "lock", "load", "nft", "work", "stale", "unload"}]
      /\ op' \in [Procs -> {"none", "start", "reload", "stop"}]
  BY DEF TypeOK, Reset, Goto
<1>2. cfg' \in [Procs -> Configs \cup {None}]
  BY DEF TypeOK, Reset
<1>3. todo' \in [Procs -> Seq(Entry)]
  BY DEF TypeOK, Reset
<1>4. work' \in [Procs -> SUBSET Commands]
  BY DEF TypeOK, Reset
<1>5. new' \in [Procs -> SUBSET Entries] /\ stale' \in [Procs -> SUBSET Entries]
  BY DEF TypeOK, Reset
<1> QED
  BY <1>1, <1>2, <1>3, <1>4, <1>5

\* Flushing leaves the kernel's maps what they are.
LEMMA FlushType ==
  ASSUME TypeOK, NEW c, FlushLegacy(c) \/ UNCHANGED <<rules, routes>>
  PROVE  /\ rules' \in [RuleKeys -> {None} \cup (Nat \X Tables)]
         /\ routes' \in [RouteKeys -> {None} \cup up]
<1>1. /\ rules \in [RuleKeys -> {None} \cup (Nat \X Tables)]
      /\ routes \in [RouteKeys -> {None} \cup up]
  BY DEF TypeOK
<1>2. CASE FlushLegacy(c)
  <2>1. rules' \in [RuleKeys -> {None} \cup (Nat \X Tables)]
    BY <1>1, <1>2 DEF FlushLegacy
  <2>2. routes' \in [RouteKeys -> {None} \cup up]
    BY <1>1, <1>2 DEF FlushLegacy
  <2> QED
    BY <2>1, <2>2
<1> QED
  BY <1>1, <1>2

LEMMA SpendType == ASSUME TypeOK, Spend PROVE events' \in 0..MaxEvents
BY VpnStickyAssumption DEF TypeOK, Spend

LEMMA FinishType == ASSUME TypeOK, NEW p \in Procs, Finish(p) PROVE TypeOK'
<1>1. /\ pc' \in [Procs -> {"idle", "lock", "load", "nft", "work", "stale", "unload"}]
      /\ op' \in [Procs -> {"none", "start", "reload", "stop"}]
      /\ cfg' \in [Procs -> Configs \cup {None}]
      /\ todo' \in [Procs -> Seq(Entry)]
      /\ work' \in [Procs -> SUBSET Commands]
      /\ new' \in [Procs -> SUBSET Entries] /\ stale' \in [Procs -> SUBSET Entries]
  BY ResetType DEF Finish
<1>2. triggers' \in {None} \cup SUBSET Names
  <2>1. {e.name : e \in Range(conf.ifaces)} \subseteq Names
    BY ConfigParts, EntryParts DEF TypeOK
  <2> QED
    BY <2>1 DEF Finish, TypeOK
<1>3. stateFile' \in {None} \cup SUBSET Entries
  BY DEF Finish, TypeOK
<1>4. /\ up' = up /\ conf' = conf /\ pending' = pending /\ rules' = rules /\ routes' = routes
      /\ nft' = nft /\ unseen' = unseen /\ respelled' = respelled /\ refused' = refused
      /\ missing' = missing
      /\ nftFailed' = nftFailed /\ events' = events /\ lock' = None
      /\ abandoned' \subseteq abandoned
  BY DEF Finish, kernel
<1> QED
  BY <1>1, <1>2, <1>3, <1>4 DEF TypeOK

LEMMA TypeStep == TypeOK /\ Positions /\ Phases /\ [Next]_vars => TypeOK'
<1> SUFFICES ASSUME TypeOK, Positions, Phases, [Next]_vars PROVE TypeOK'
  OBVIOUS
<1>1. CASE Configure
  BY <1>1, SpendType DEF Configure, TypeOK, proc, local, kernel
<1>2. ASSUME NEW i \in Names, Up(i) PROVE TypeOK'
  <2>1. routes' \in [RouteKeys -> {None} \cup up']
    BY <1>2 DEF Up, TypeOK, kernel
  <2>2. unseen' \subseteq Names \cup {"conf"}
    BY <1>2 DEF Up, TypeOK
  <2>3. up' \subseteq Names /\ pending' \in BOOLEAN
    BY <1>2 DEF Up, TypeOK
  <2> QED
    BY <1>2, <2>1, <2>2, <2>3, SpendType DEF Up, TypeOK, proc, local, kernel
<1>3. ASSUME NEW i \in Names, Down(i) PROVE TypeOK'
  <2>1. routes' \in [RouteKeys -> {None} \cup up']
    BY <1>3 DEF Down, TypeOK
  <2> QED
    BY <1>3, <2>1, SpendType DEF Down, TypeOK, proc, local
<1>4. ASSUME NEW p \in Procs, Trigger(p) PROVE TypeOK'
  <2>1. Reset(p, "lock", "reload")
    BY <1>4 DEF Trigger
  <2> QED
    BY <1>4, <2>1, ResetType DEF Trigger, TypeOK, kernel, ghosts
<1>5. ASSUME NEW p \in Procs, Command(p) PROVE TypeOK'
  <2>1. PICK command \in {"start", "reload", "stop"} : Reset(p, "lock", command)
    BY <1>5 DEF Command
  <2>2. command \in {"none", "start", "reload", "stop"}
    OBVIOUS
  <2>3. events' \in 0..MaxEvents
    BY <1>5, SpendType DEF Command
  <2> QED
    BY <1>5, <2>1, <2>2, <2>3, ResetType DEF Command, TypeOK, system, kernel, ghosts
<1>6. ASSUME NEW p \in Procs, Lock(p) PROVE TypeOK'
  BY <1>6 DEF Lock, Goto, TypeOK, system, local, kernel, ghosts
<1>7. ASSUME NEW p \in Procs, Load(p) PROVE TypeOK'
  <2>1. todo' \in [Procs -> Seq(Entry)]
    BY <1>7, AllWork DEF Load, TypeOK
  <2>2. cfg' \in [Procs -> Configs \cup {None}]
    BY <1>7 DEF Load, TypeOK
  <2>3. respelled' \in BOOLEAN
    BY <1>7 DEF Load, TypeOK, Respells
  <2> QED
    BY <1>7, <2>1, <2>2, <2>3 DEF Load, Goto, TypeOK, system, kernel
<1>8. ASSUME NEW p \in Procs, Nft(p) PROVE TypeOK'
  <2>1. /\ rules' \in [RuleKeys -> {None} \cup (Nat \X Tables)]
        /\ routes' \in [RouteKeys -> {None} \cup up]
    BY <1>8, FlushType DEF Nft
  <2>2. nft' \in {None} \cup SUBSET (Names \X Nat)
    <3>1. {<<e.name, e.mark>> : e \in Range(conf.ifaces)} \subseteq Names \X Nat
      BY ConfigParts, EntryParts DEF TypeOK
    <3>2. nft' \in {None, nft, {<<e.name, e.mark>> : e \in Range(conf.ifaces)}}
      BY <1>8 DEF Nft, Rendered
    <3> QED
      BY <3>1, <3>2 DEF TypeOK
  <2>3. events' \in 0..MaxEvents
    BY <1>8, VpnStickyAssumption DEF Nft, Spend, TypeOK
  <2> QED
    BY <1>8, <2>1, <2>2, <2>3 DEF Nft, Goto, TypeOK, system, local
<1>9. ASSUME NEW p \in Procs, LookUp(p) PROVE TypeOK'
  <2> DEFINE e == Head(todo[p])
  <2>1. todo[p] \in Seq(Entry) /\ todo[p] # <<>>
    BY <1>9 DEF LookUp, TypeOK
  <2>2. todo' \in [Procs -> Seq(Entry)]
    <3>1. Tail(todo[p]) \in Seq(Entry)
      BY <2>1
    <3> QED
      BY <1>9, <3>1 DEF LookUp, TypeOK
  <2>3. Reloading(p) /\ Position(p)
    BY <1>9 DEF LookUp, Reloading, Phases, Phase, Positions
  <2>4. cfg[p] \in Configs /\ e \in Range(cfg[p].ifaces) /\ e.name \in Names
    BY <2>1, <2>3, Popped, ConfigParts, EntryParts DEF Position
  <2>5. cfg[p].enabled
    BY <2>1, <2>3 DEF Position
  <2>6. IfaceWork(cfg[p], e, e.name \in up) \subseteq Commands
    <3>1. (e.name \in up) \in BOOLEAN
      OBVIOUS
    <3> QED
      BY <2>4, <2>5, <3>1, Commanded
  <2>7. work' \in [Procs -> SUBSET Commands]
    BY <1>9, <2>6 DEF LookUp, TypeOK
  <2> QED
    BY <1>9, <2>2, <2>4, <2>7 DEF LookUp, TypeOK, system, kernel
<1>10. ASSUME NEW p \in Procs, EnsureRule(p) PROVE TypeOK'
  <2>1. PICK w \in work[p] :
          /\ w.line.kind = "rule"
          /\ rules' \in {rules, [rules EXCEPT ![RuleKey(w.line)] = None],
                         [rules EXCEPT ![RuleKey(w.line)] = RuleFor(w.iface)]}
          /\ UNCHANGED <<work, new>> \/ Done(p, w)
          /\ missing' \subseteq missing \cup {RuleKey(w.line)}
          /\ UNCHANGED events \/ Spend
    BY <1>10 DEF EnsureRule, NextCommands
  <2>2. w.iface \in Entry /\ w.line \in Entries
    BY <2>1 DEF TypeOK, Commands
  <2>3. RuleFor(w.iface) \in Nat \X Tables
    BY <2>2, EntryParts DEF RuleFor
  <2>4. rules' \in [RuleKeys -> {None} \cup (Nat \X Tables)]
    BY <2>1, <2>3 DEF TypeOK
  <2>a. new \in [Procs -> SUBSET Entries] /\ work \in [Procs -> SUBSET Commands]
    BY DEF TypeOK
  <2>5. work' \in [Procs -> SUBSET Commands]
    BY <2>1, <2>a DEF Done
  <2>6. new' \in [Procs -> SUBSET Entries]
    BY <2>1, <2>2, <2>a DEF Done
  <2>7. missing' \subseteq RuleKeys
    <3>1. RuleKey(w.line) \in RuleKeys
      BY <2>1, <2>2, LineKinds, RuleKeyParts DEF RuleKey
    <3> QED
      BY <2>1, <3>1 DEF TypeOK
  <2>8. events' \in 0..MaxEvents
    BY <2>1, SpendType DEF TypeOK
  <2> QED
    BY <1>10, <2>4, <2>5, <2>6, <2>7, <2>8 DEF EnsureRule, TypeOK, system
<1>11. ASSUME NEW p \in Procs, ReplaceRoute(p) PROVE TypeOK'
  <2>1. PICK w \in work[p] :
          /\ w.line.kind = "route" /\ Done(p, w)
          /\ \/ /\ w.iface.name \in up
                /\ routes' = [routes EXCEPT ![RouteKey(w.line)] = w.iface.name]
                /\ refused' = refused \ {RouteKey(w.line)}
             \/ refused' = refused \cup {RouteKey(w.line)} /\ UNCHANGED routes
    BY <1>11 DEF ReplaceRoute, NextCommands
  <2>2. w.iface \in Entry /\ w.line \in Entries
    BY <2>1 DEF TypeOK, Commands
  <2>3. RouteKey(w.line) \in RouteKeys
    BY <2>1, <2>2, LineKinds, RouteKeyParts DEF RouteKey
  <2>4. routes' \in [RouteKeys -> {None} \cup up]
    BY <2>1 DEF TypeOK
  <2>5. work' \in [Procs -> SUBSET Commands] /\ new' \in [Procs -> SUBSET Entries]
    BY <2>1, <2>2 DEF TypeOK, Done
  <2>6. refused' \subseteq RouteKeys
    BY <2>1, <2>3 DEF TypeOK
  <2> QED
    BY <1>11, <2>4, <2>5, <2>6 DEF ReplaceRoute, TypeOK, system
<1>12. ASSUME NEW p \in Procs, Stale(p) PROVE TypeOK'
  <2>1. stale' \in [Procs -> SUBSET Entries]
    BY <1>12 DEF Stale, TypeOK
  <2> QED
    BY <1>12, <2>1 DEF Stale, Goto, TypeOK, system, kernel, ghosts
<1>13. ASSUME NEW p \in Procs, RemoveEntry(p) PROVE TypeOK'
  <2>1. PICK e \in stale[p] :
          /\ stale' = [stale EXCEPT ![p] = @ \ {e}]
          /\ \/ /\ rules' = [rules EXCEPT ![RuleKey(e)] = None]
                /\ missing' = missing \ {RuleKey(e)}
                /\ UNCHANGED <<routes, refused>>
             \/ /\ routes' = [routes EXCEPT ![RouteKey(e)] = None]
                /\ refused' = refused \ {RouteKey(e)}
                /\ UNCHANGED <<rules, missing>>
    BY <1>13 DEF RemoveEntry
  <2>2. stale' \in [Procs -> SUBSET Entries]
    BY <2>1 DEF TypeOK
  <2>3. rules' \in [RuleKeys -> {None} \cup (Nat \X Tables)]
    BY <2>1 DEF TypeOK
  <2>4. routes' \in [RouteKeys -> {None} \cup up]
    BY <2>1 DEF TypeOK
  <2>5. refused' \subseteq RouteKeys /\ missing' \subseteq RuleKeys
    BY <2>1 DEF TypeOK
  <2> QED
    BY <1>13, <2>2, <2>3, <2>4, <2>5 DEF RemoveEntry, TypeOK, system
<1>14. ASSUME NEW p \in Procs, Unload(p) PROVE TypeOK'
  <2>1. /\ rules' \in [RuleKeys -> {None} \cup (Nat \X Tables)]
        /\ routes' \in [RouteKeys -> {None} \cup up]
    BY <1>14, FlushType DEF Unload
  <2>2. stale' \in [Procs -> SUBSET Entries]
    BY <1>14 DEF Unload, TypeOK
  <2>3. abandoned' \subseteq Configs
    BY <1>14 DEF Unload, TypeOK
  <2>4. events' \in 0..MaxEvents
    BY <1>14, SpendType DEF Unload, TypeOK
  <2> QED
    BY <1>14, <2>1, <2>2, <2>3, <2>4 DEF Unload, Goto, TypeOK, system
<1>15. ASSUME NEW p \in Procs, Kill(p) PROVE TypeOK'
  <2>1. Reset(p, "idle", "none")
    BY <1>15 DEF Kill
  <2>2. abandoned' \subseteq Configs
    BY <1>15 DEF Kill, TypeOK
  <2>3. events' \in 0..MaxEvents
    BY <1>15, SpendType DEF Kill
  <2>4. lock' \in Procs \cup {None, "gone"}
    BY <1>15 DEF Kill, TypeOK
  <2> QED
    BY <1>15, <2>1, <2>2, <2>3, <2>4, ResetType DEF Kill, TypeOK, system, kernel
<1>16. ASSUME NEW p \in Procs, LoadFails(p) PROVE TypeOK'
  <2>1. Reset(p, "idle", "none")
    BY <1>16 DEF LoadFails
  <2>2. triggers' \in {None} \cup SUBSET Names
    <3>1. {e.name : e \in Range(conf.ifaces)} \subseteq Names
      BY ConfigParts, EntryParts DEF TypeOK
    <3> QED
      BY <1>16, <3>1 DEF LoadFails, TypeOK
  <2>3. events' \in 0..MaxEvents
    BY <1>16, SpendType DEF LoadFails
  <2> QED
    BY <1>16, <2>1, <2>2, <2>3, ResetType DEF LoadFails, TypeOK, kernel
<1>17. CASE UNCHANGED vars
  BY <1>17 DEF vars, system, proc, local, kernel, ghosts, TypeOK
<1> QED
  BY <1>1, <1>2, <1>3, <1>4, <1>5, <1>6, <1>7, <1>8, <1>9, <1>10, <1>11, <1>12, <1>13,
     <1>14, <1>15, <1>16, <1>17, FinishType DEF Next, Step

-----------------------------------------------------------------------------
(* What no step disturbs that leaves the reload under way alone.           *)

\* Of a process nothing changes.
Same(q) ==
  /\ pc'[q] = pc[q] /\ op'[q] = op[q] /\ cfg'[q] = cfg[q] /\ todo'[q] = todo[q]
  /\ work'[q] = work[q] /\ new'[q] = new[q] /\ stale'[q] = stale[q]

LEMMA SamePosition == ASSUME NEW q, Same(q), Position(q) PROVE Position(q)'
BY DEF Same, Position

LEMMA SameReloading ==
  ASSUME NEW q, Same(q)
  PROVE  (Active(q)' <=> Active(q)) /\ (Reloading(q)' <=> Reloading(q))
BY DEF Same, Active, Reloading

\* A process that starts or ends.
LEMMA ResetParts ==
  ASSUME TypeOK, NEW p \in Procs, NEW where, NEW command, Reset(p, where, command)
  PROVE  /\ pc'[p] = where /\ op'[p] = command /\ cfg'[p] = None /\ todo'[p] = <<>>
         /\ work'[p] = {} /\ new'[p] = {} /\ stale'[p] = {}
         /\ \A q \in Procs : q # p => Same(q)
<1>1. pc'[p] = where /\ op'[p] = command /\ cfg'[p] = None /\ todo'[p] = <<>>
  BY DEF TypeOK, Reset, Goto
<1>2. work'[p] = {} /\ new'[p] = {} /\ stale'[p] = {}
  BY DEF TypeOK, Reset
<1>3. ASSUME NEW q \in Procs, q # p PROVE Same(q)
  BY <1>3 DEF TypeOK, Reset, Goto, Same
<1> QED
  BY <1>1, <1>2, <1>3

\* One process at a time.
LEMMA OnlyOne ==
  ASSUME Mutex, NEW p \in Procs, Active(p), NEW q \in Procs, q # p
  PROVE  ~Active(q) /\ ~Reloading(q) /\ pc[q] \notin {"load", "nft", "work", "stale", "unload"}
BY DEF Mutex, Active, Reloading

\* The reloads under way are the same, and so is the kernel, but for the routes of
\* an interface that went down; what excuses a route still does.
Undisturbing ==
  /\ \A q \in Procs : Reloading(q)' =>
       /\ Reloading(q) /\ cfg'[q] = cfg[q] /\ todo'[q] = todo[q]
       /\ work'[q] = work[q] /\ new'[q] = new[q]
  /\ rules' = rules /\ stateFile' = stateFile
  /\ refused' = refused /\ missing' = missing /\ respelled' = respelled
  /\ \A k \in RouteKeys :
       \/ routes'[k] = routes[k]
       \/ routes'[k] = None /\ \E i \in Names : routes[k] = i /\ Excused(i)'
  /\ Outdated' \/ (~Outdated /\ conf' = conf)
  /\ \A i \in Names : Excused(i) => Excused(i)'
  /\ Alone' /\ ~Outdated' => Alone

\* What a reload has done stays done.
LEMMA WorkingFrame ==
  ASSUME TypeOK, Positions, Working, Undisturbing
  PROVE  Working'
<1>1. Current'
  BY DEF Working, Undisturbing, Current
<1>2. Spelled'
  BY DEF Working, Undisturbing, Spelled, Respells
<1>3. RuleProgress'
  <2> SUFFICES ASSUME NEW q \in Procs, Reloading(q)', NEW e \in Range(cfg'[q].ifaces),
                      NEW f \in Fams, AsksRule(cfg'[q], e, f)
               PROVE  \/ e \in Range(todo'[q])
                      \/ Install(e, RuleEntry(f, e.pref)) \in work'[q]
                      \/ RuleHolds(new[q], e, f)'
    BY DEF RuleProgress
  <2>1. /\ Reloading(q) /\ cfg'[q] = cfg[q] /\ todo'[q] = todo[q]
        /\ work'[q] = work[q] /\ new'[q] = new[q] /\ rules' = rules
        /\ missing' = missing
    BY DEF Undisturbing
  <2> QED
    BY <2>1 DEF Working, RuleProgress, RuleHolds, RuleRight
<1>4. RouteProgress'
  <2> SUFFICES ASSUME NEW q \in Procs, Reloading(q)', NEW e \in Range(cfg'[q].ifaces),
                      NEW f \in Fams, NEW s \in Spellings, AsksRoute(cfg'[q], e, f, s)
               PROVE  \/ e \in Range(todo'[q])
                      \/ Install(e, RouteEntry(f, e.table, s)) \in work'[q]
                      \/ /\ RouteHolds(new[q], e, f, s)'
                         /\ Skipped(new'[q], e) => ~RoutesLeft(q, e)'
    BY DEF RouteProgress
  <2>1. /\ Reloading(q) /\ cfg'[q] = cfg[q] /\ todo'[q] = todo[q]
        /\ work'[q] = work[q] /\ new'[q] = new[q] /\ refused' = refused
        /\ respelled' = respelled
    BY DEF Undisturbing
  <2>2. cfg[q] \in Configs /\ AsksRoute(cfg[q], e, f, s)
    BY <2>1 DEF Positions, Position
  <2> DEFINE k == <<f, e.table, Key(s)>>
  <2>3. k \in RouteKeys /\ e.name \in Names
    BY <2>2, AskedRoute
  <2>4. /\ routes[k] # e.name => routes'[k] # e.name
        /\ routes[k] \in {None, e.name} => routes'[k] \in {None, e.name}
        /\ routes[k] = e.name \/ Excused(e.name) => routes'[k] = e.name \/ Excused(e.name)'
        /\ Excused(e.name) => Excused(e.name)'
    <3>1. \/ routes'[k] = routes[k]
          \/ routes'[k] = None /\ \E i \in Names : routes[k] = i /\ Excused(i)'
      BY <2>3 DEF Undisturbing
    <3>2. Excused(e.name) => Excused(e.name)'
      BY <2>3 DEF Undisturbing
    <3> QED
      BY <2>3, <3>1, <3>2, NoneAssumption
  <2>5. \/ e \in Range(todo[q])
        \/ Install(e, RouteEntry(f, e.table, s)) \in work[q]
        \/ /\ RouteHolds(new[q], e, f, s)
           /\ Skipped(new[q], e) => ~RoutesLeft(q, e)
    BY <2>1, <2>2 DEF Working, RouteProgress
  <2>6. RoutesLeft(q, e)' <=> RoutesLeft(q, e)
    BY <2>1 DEF RoutesLeft
  <2>7. RouteHolds(new[q], e, f, s) => RouteHolds(new[q], e, f, s)'
    BY <2>1, <2>4 DEF RouteHolds, RouteRight, Skipped
  <2> QED
    BY <2>1, <2>5, <2>6, <2>7
<1> QED
  BY <1>1, <1>2, <1>3, <1>4 DEF Working

\* What was left when the last one ended stays right.
LEMMA RestingFrame ==
  ASSUME TypeOK, Resting, Undisturbing
  PROVE  Resting'
<1>1. Rested' => Rested /\ conf' = conf /\ File' = File
  BY DEF Rested, Undisturbing, File
<1>2. FileRested'
  BY <1>1 DEF Resting, FileRested
<1>3. RulesRested'
  <2> SUFFICES ASSUME Rested', NEW e \in Range(conf'.ifaces), NEW f \in Fams,
                      AsksRule(conf', e, f)
               PROVE  RuleHolds(File, e, f)'
    BY DEF RulesRested
  <2> QED
    BY <1>1 DEF Resting, RulesRested, RuleHolds, RuleRight, Undisturbing
<1>4. RoutesRested'
  <2> SUFFICES ASSUME Rested', NEW e \in Range(conf'.ifaces), NEW f \in Fams,
                      NEW s \in Spellings, AsksRoute(conf', e, f, s)
               PROVE  RouteHolds(File, e, f, s)'
    BY DEF RoutesRested
  <2>1. /\ Rested /\ conf' = conf /\ File' = File
        /\ refused' = refused /\ respelled' = respelled
    BY <1>1 DEF Undisturbing
  <2>2. conf \in Configs /\ AsksRoute(conf, e, f, s)
    BY <2>1 DEF TypeOK
  <2> DEFINE k == <<f, e.table, Key(s)>>
  <2>3. k \in RouteKeys /\ e.name \in Names
    BY <2>2, AskedRoute
  <2>4. /\ routes[k] # e.name => routes'[k] # e.name
        /\ routes[k] \in {None, e.name} => routes'[k] \in {None, e.name}
        /\ routes[k] = e.name \/ Excused(e.name) => routes'[k] = e.name \/ Excused(e.name)'
        /\ Excused(e.name) => Excused(e.name)'
    <3>1. \/ routes'[k] = routes[k]
          \/ routes'[k] = None /\ \E i \in Names : routes[k] = i /\ Excused(i)'
      BY <2>3 DEF Undisturbing
    <3>2. Excused(e.name) => Excused(e.name)'
      BY <2>3 DEF Undisturbing
    <3> QED
      BY <2>3, <3>1, <3>2, NoneAssumption
  <2>5. RouteHolds(File, e, f, s)
    BY <2>1, <2>2 DEF Resting, RoutesRested
  <2> QED
    BY <2>1, <2>4, <2>5 DEF RouteHolds, RouteRight, Skipped
<1> QED
  BY <1>2, <1>3, <1>4 DEF Resting

\* Nothing is forgotten while the reloads under way go on and what is remembered
\* stays so.
Holding == (\E k \in RuleKeys : rules[k] # None) \/ (\E k \in RouteKeys : routes[k] # None)

Remembering ==
  /\ \A q \in Procs : Reloading(q) =>
       Reloading(q)' /\ cfg'[q] = cfg[q] /\ new[q] \subseteq new'[q]
  /\ \A c \in Configs : Remembered(c) /\ Holding => Remembered(c)'

LEMMA CoveredFrame ==
  ASSUME RulesCovered, RoutesCovered, Remembering, stateFile' = stateFile,
         \A k \in RuleKeys :
           \/ rules'[k] \in {None, rules[k]}
           \/ \E p \in Procs : Reloading(p)' /\ RuleNamed(new'[p], k),
         \A k \in RouteKeys :
           \/ routes'[k] \in {None, routes[k]}
           \/ \E p \in Procs : /\ Reloading(p)' /\ RouteNamed(new'[p], k)
                                /\ InstallsRoute(cfg'[p], k, routes'[k])
  PROVE  RulesCovered' /\ RoutesCovered'
<1>1. File' = File
  BY DEF File
<1>2. RulesCovered'
  <2> SUFFICES ASSUME NEW k \in RuleKeys, rules'[k] # None
               PROVE  \/ RuleNamed(File', k)
                      \/ \E p \in Procs : Reloading(p)' /\ RuleNamed(new'[p], k)
                      \/ \E c \in Configs : Remembered(c)' /\ InstallsRule(c, k)
    BY DEF RulesCovered
  <2>0. CASE rules'[k] \notin {None, rules[k]}
    BY <2>0
  <2>1. rules'[k] \in {None, rules[k]} => rules[k] # None /\ Holding
    BY DEF Holding
  <2>2. CASE RuleNamed(File, k)
    BY <1>1, <2>2
  <2>3. CASE \E p \in Procs : Reloading(p) /\ RuleNamed(new[p], k)
    BY <2>3 DEF RuleNamed, Remembering
  <2>4. CASE rules[k] # None /\ \E c \in Configs : Remembered(c) /\ InstallsRule(c, k)
    BY <2>4 DEF Remembering, Holding
  <2> QED
    BY <2>0, <2>1, <2>2, <2>3, <2>4 DEF RulesCovered
<1>3. RoutesCovered'
  <2> SUFFICES ASSUME NEW k \in RouteKeys, routes'[k] # None
               PROVE  \/ RouteNamed(File', k)
                      \/ \E p \in Procs : /\ Reloading(p)' /\ RouteNamed(new'[p], k)
                                          /\ InstallsRoute(cfg'[p], k, routes'[k])
                      \/ \E c \in Configs : Remembered(c)' /\ InstallsRoute(c, k, routes'[k])
    BY DEF RoutesCovered
  <2>0. CASE routes'[k] \notin {None, routes[k]}
    BY <2>0
  <2>1. routes'[k] \in {None, routes[k]}
          => routes[k] # None /\ Holding /\ routes'[k] = routes[k]
    BY DEF Holding
  <2>2. CASE RouteNamed(File, k)
    BY <1>1, <2>2
  <2>3. CASE /\ routes'[k] = routes[k]
             /\ \E p \in Procs : /\ Reloading(p) /\ RouteNamed(new[p], k)
                                 /\ InstallsRoute(cfg[p], k, routes[k])
    BY <2>3 DEF RouteNamed, Remembering
  <2>4. CASE /\ routes'[k] = routes[k]
             /\ \E c \in Configs : Remembered(c) /\ InstallsRoute(c, k, routes[k])
    BY <2>4 DEF Remembering, Holding
  <2> QED
    BY <2>0, <2>1, <2>2, <2>3, <2>4 DEF RoutesCovered
<1> QED
  BY <1>2, <1>3

LEMMA KeptFrame ==
  ASSUME RulesKept, RoutesKept, abandoned \subseteq abandoned',
         \A q \in Procs : pc'[q] = "stale" =>
           pc[q] = "stale" /\ new'[q] = new[q] /\ stale'[q] = stale[q],
         \A k \in RuleKeys : rules'[k] \in {None, rules[k]},
         \A k \in RouteKeys : routes'[k] \in {None, routes[k]}
  PROVE  RulesKept' /\ RoutesKept'
<1>1. RulesKept'
  <2> SUFFICES ASSUME NEW p \in Procs, pc'[p] = "stale", NEW k \in RuleKeys, rules'[k] # None
               PROVE  \/ RuleNamed(new'[p] \cup stale'[p], k)
                      \/ \E c \in abandoned' : InstallsRule(c, k)
    BY DEF RulesKept
  <2> QED
    BY DEF RulesKept
<1>2. RoutesKept'
  <2> SUFFICES ASSUME NEW p \in Procs, pc'[p] = "stale", NEW k \in RouteKeys, routes'[k] # None
               PROVE  \/ RouteNamed(new'[p] \cup stale'[p], k)
                      \/ \E c \in abandoned' : InstallsRoute(c, k, routes'[k])
    BY DEF RoutesKept
  <2>1. routes'[k] = routes[k]
    OBVIOUS
  <2> QED
    BY <2>1 DEF RoutesKept
<1> QED
  BY <1>1, <1>2

\* The table of nftables.
LEMMA NftFrame ==
  ASSUME NftRested, nft' = nft, nftFailed' = nftFailed, stateFile' = stateFile,
         Outdated' \/ (~Outdated /\ conf' = conf),
         Alone' /\ ~Outdated' => Alone,
         \A q \in Procs : Reloading(q)' => Reloading(q) /\ (pc'[q] = "nft" <=> pc[q] = "nft"),
         \A q \in Procs : pc'[q] = "stale" /\ op'[q] = "stop"
           => pc[q] = "stale" /\ op[q] = "stop",
         \A q \in Procs : Reloading(q) => Reloading(q)' \/ "conf" \in unseen',
         "conf" \in unseen => "conf" \in unseen'
  PROVE  NftRested'
<1>1. Outdated' \/ (NftHolds => NftHolds')
  BY DEF NftHolds
<1>2. Outdated' => NftHolds'
  BY DEF NftHolds
<1>3. ASSUME NEW q \in Procs, Reloading(q)', pc'[q] # "nft" PROVE NftHolds'
  BY <1>1, <1>2, <1>3 DEF NftRested
<1>4. ASSUME Alone', stateFile' # None PROVE NftHolds'
  BY <1>1, <1>2, <1>4 DEF NftRested
<1>5. ASSUME NEW q \in Procs, pc'[q] = "stale", op'[q] = "stop" PROVE nft' = None
  BY <1>5 DEF NftRested
<1>6. ASSUME stateFile' = None, "conf" \notin unseen', \A q \in Procs : ~Reloading(q)'
      PROVE nft' = None
  BY <1>6 DEF NftRested
<1> QED
  BY <1>3, <1>4, <1>5, <1>6 DEF NftRested

\* The processes, when only p moves.
LEMMA StructureFrame ==
  ASSUME Phases, Positions, NEW p \in Procs, \A q \in Procs : q # p => Same(q),
         File' = File \/ \A q \in Procs : q # p => pc[q] # "stale",
         Phase(p)', Reloading(p)' => Position(p)'
  PROVE  Phases' /\ Positions'
<1>1. ASSUME NEW q \in Procs, q # p PROVE Phase(q)'
  <2>1. Same(q) /\ Phase(q)
    BY <1>1 DEF Phases
  <2>2. Reloading(q)' <=> Reloading(q)
    BY <2>1, SameReloading
  <2> QED
    BY <1>1, <2>1, <2>2 DEF Phase, Same
<1>2. ASSUME NEW q \in Procs, q # p, Reloading(q)' PROVE Position(q)'
  <2>1. Same(q) /\ Reloading(q)
    BY <1>2, SameReloading
  <2> QED
    BY <2>1, SamePosition DEF Positions
<1> QED
  BY <1>1, <1>2 DEF Phases, Positions

\* ... and the lock.
LEMMA LockFrame ==
  ASSUME Mutex, NEW p \in Procs, \A q \in Procs : q # p => Same(q),
         lock' = p <=> Active(p)',
         lock' = lock \/ (lock \in {None, p} /\ lock' \in {None, "gone", p})
  PROVE  Mutex'
<1>1. ASSUME NEW q \in Procs, q # p PROVE lock' = q <=> Active(q)'
  <2>1. Active(q)' <=> Active(q)
    BY <1>1, SameReloading
  <2>2. lock' = q <=> lock = q
    BY <1>1, NoneAssumption
  <2> QED
    BY <2>1, <2>2 DEF Mutex
<1> QED
  BY <1>1 DEF Mutex

\* The triggers.
LEMMA StillRegistered ==
  ASSUME Registered, triggers' = triggers, stateFile' = stateFile,
         "conf" \in unseen => "conf" \in unseen',
         \A q \in Procs : Reloading(q) => Reloading(q)' \/ "conf" \in unseen'
  PROVE  Registered'
BY DEF Registered

-----------------------------------------------------------------------------
(* The system around the script.                                           *)

LEMMA Around ==
  ASSUME Structured, Registered, proc' = proc, lock' = lock, stateFile' = stateFile,
         triggers' = triggers, "conf" \in unseen => "conf" \in unseen'
  PROVE  /\ Structured' /\ Registered'
         /\ \A q \in Procs : /\ Same(q) /\ (Reloading(q)' <=> Reloading(q))
                             /\ (Active(q)' <=> Active(q))
         /\ (Alone' <=> Alone)
<1>1. \A q \in Procs : Same(q)
  BY DEF proc, local, Same
<1>2. \A q \in Procs : (Reloading(q)' <=> Reloading(q)) /\ (Active(q)' <=> Active(q))
  BY <1>1, SameReloading
<1>3. Mutex'
  BY <1>2 DEF Structured, Mutex
<1>4. Phases'
  BY <1>1, <1>2 DEF Structured, Phases, Phase, Same, File
<1>5. Positions'
  BY <1>1, <1>2, SamePosition DEF Structured, Positions
<1>6. Registered'
  BY <1>2, StillRegistered
<1>7. Alone' <=> Alone
  BY <1>2 DEF Alone
<1> QED
  BY <1>1, <1>2, <1>3, <1>4, <1>5, <1>6, <1>7 DEF Structured

LEMMA ConfigureStep ==
  ASSUME IInv, Configure
  PROVE  (Structured /\ Registered /\ Working /\ Resting /\ Covered /\ NftRested)'
<1>1. /\ proc' = proc /\ lock' = lock /\ stateFile' = stateFile /\ triggers' = triggers
      /\ up' = up /\ kernel' = kernel /\ respelled' = respelled
      /\ refused' = refused /\ missing' = missing /\ nftFailed' = nftFailed
      /\ abandoned \subseteq abandoned' /\ unseen \subseteq unseen'
  BY DEF Configure
<1>2. rules' = rules /\ routes' = routes /\ nft' = nft
  BY <1>1 DEF kernel
<1>3. /\ Structured' /\ Registered'
      /\ \A q \in Procs : /\ Same(q) /\ (Reloading(q)' <=> Reloading(q))
                          /\ (Active(q)' <=> Active(q))
      /\ (Alone' <=> Alone)
  BY <1>1, Around DEF IInv
<1>4. Outdated'
  BY DEF Configure, Outdated, Waiting
<1>5. Undisturbing
  BY <1>1, <1>2, <1>3, <1>4 DEF Undisturbing, Same, Excused
<1>6. Working'
  BY <1>5, WorkingFrame DEF IInv, Structured
<1>7. Resting'
  BY <1>5, RestingFrame DEF IInv
<1>8. Remembering
  <2>1. ASSUME NEW c \in Configs, Remembered(c), Holding PROVE Remembered(c)'
    <3>1. CASE c \in abandoned
      BY <1>1, <3>1 DEF Remembered
    <3>2. CASE stateFile = None /\ Unloaded /\ c = conf
      <4>1. Legacy
        BY <2>1, <3>2 DEF Legacy, Unloaded, Holding, IInv, TypeOK
      <4> QED
        BY <3>2, <4>1 DEF Configure, Remembered
    <3>3. CASE stateFile = None /\ \E p \in Procs : pc[p] = "nft" /\ c = cfg[p]
      BY <1>1, <1>3, <3>3 DEF Remembered, Same
    <3> QED
      BY <2>1, <3>1, <3>2, <3>3 DEF Remembered
  <2> QED
    BY <1>3, <2>1 DEF Remembering, Same
<1>9. RulesCovered' /\ RoutesCovered'
  BY <1>1, <1>2, <1>8, CoveredFrame DEF IInv, Covered
<1>10. RulesKept' /\ RoutesKept'
  BY <1>1, <1>2, <1>3, KeptFrame DEF IInv, Covered, Same
<1>11. NftRested'
  BY <1>1, <1>2, <1>3, <1>4, NftFrame DEF IInv, Same
<1> QED
  BY <1>3, <1>6, <1>7, <1>9, <1>10, <1>11 DEF Covered

\* An interface that came up or went down.
LEMMA UpDownStep ==
  ASSUME IInv, NEW i \in Names, Up(i) \/ Down(i)
  PROVE  (Structured /\ Registered /\ Working /\ Resting /\ Covered /\ NftRested)'
<1>1. /\ proc' = proc /\ lock' = lock /\ stateFile' = stateFile /\ triggers' = triggers
      /\ conf' = conf /\ rules' = rules /\ nft' = nft /\ respelled' = respelled
      /\ refused' = refused /\ missing' = missing /\ nftFailed' = nftFailed
      /\ abandoned' = abandoned
      /\ "conf" \in unseen' <=> "conf" \in unseen
  BY NoneAssumption DEF Up, Down, kernel
<1>3. /\ Structured' /\ Registered'
      /\ \A q \in Procs : /\ Same(q) /\ (Reloading(q)' <=> Reloading(q))
                          /\ (Active(q)' <=> Active(q))
      /\ (Alone' <=> Alone)
  BY <1>1, Around DEF IInv
<1>4. Waiting' <=> Waiting
  BY <1>1, <1>3 DEF Waiting, Same
<1>5. Outdated' \/ ~Outdated
  BY <1>4 DEF Outdated, Up, Down
<1>6. \A j \in Names : Excused(j) => Excused(j)'
  <2>1. CASE Up(i)
    BY <1>5, <2>1 DEF Excused, Up, Outdated
  <2>2. CASE Down(i)
    BY <1>5, <2>2 DEF Excused, Down
  <2> QED
    BY <2>1, <2>2
<1>7. \A k \in RouteKeys :
        \/ routes'[k] = routes[k]
        \/ routes'[k] = None /\ \E j \in Names : routes[k] = j /\ Excused(j)'
  <2>1. CASE Up(i)
    BY <2>1 DEF Up, kernel
  <2>2. CASE Down(i)
    <3>1. Excused(i)'
      BY <2>2 DEF Down, Excused
    <3> QED
      BY <2>2, <3>1 DEF Down
  <2> QED
    BY <2>1, <2>2
<1>8. Undisturbing
  BY <1>1, <1>3, <1>5, <1>6, <1>7 DEF Undisturbing, Same
<1>9. Working'
  BY <1>8, WorkingFrame DEF IInv, Structured
<1>10. Resting'
  BY <1>8, RestingFrame DEF IInv
<1>11. Remembering
  <2>1. ASSUME NEW c \in Configs, Remembered(c) PROVE Remembered(c)'
    BY <1>1, <1>3, <1>4, <2>1 DEF Remembered, Unloaded, Same
  <2> QED
    BY <1>3, <2>1 DEF Remembering, Same
<1>12. RulesCovered' /\ RoutesCovered'
  BY <1>1, <1>7, <1>11, CoveredFrame DEF IInv, Covered
<1>13. RulesKept' /\ RoutesKept'
  BY <1>1, <1>3, <1>7, KeptFrame DEF IInv, Covered, Same
<1>14. NftRested'
  BY <1>1, <1>3, <1>5, NftFrame DEF IInv, Same
<1> QED
  BY <1>3, <1>9, <1>10, <1>12, <1>13, <1>14 DEF Covered

\* A process that is called, gets the lock or is killed: the kernel stays, and no
\* reload begins.
Controlled(p) ==
  /\ \A q \in Procs : q # p => Same(q)
  /\ ~Reloading(p)' /\ pc'[p] # "stale"
  /\ UNCHANGED <<conf, up, kernel, stateFile, respelled, refused, missing, nftFailed>>
  /\ triggers' = triggers \/ "conf" \in unseen'
  /\ unseen \subseteq unseen' /\ abandoned \subseteq abandoned'
  /\ Outdated => Outdated'
  /\ Alone' /\ ~Outdated' => Alone
  /\ Reloading(p) => "conf" \in unseen'

LEMMA Control ==
  ASSUME IInv, NEW p \in Procs, Controlled(p), Mutex', Phase(p)'
  PROVE  (Structured /\ Registered /\ Working /\ Resting /\ RulesKept /\ RoutesKept /\ NftRested)'
<1>1. /\ conf' = conf /\ up' = up /\ rules' = rules /\ routes' = routes
      /\ nft' = nft /\ stateFile' = stateFile /\ respelled' = respelled /\ refused' = refused
      /\ missing' = missing /\ nftFailed' = nftFailed /\ File' = File
  BY DEF Controlled, kernel, File
<1>2. ASSUME NEW q \in Procs, Reloading(q)' PROVE q # p /\ Same(q) /\ Reloading(q)
  BY <1>2, SameReloading DEF Controlled
<1>3. Structured'
  BY <1>1, StructureFrame DEF IInv, Structured, Controlled
<1>4. Registered'
  <2>1. CASE "conf" \in unseen'
    BY <2>1 DEF Registered
  <2>2. CASE triggers' = triggers
    <3>1. \A q \in Procs : Reloading(q) => Reloading(q)' \/ "conf" \in unseen'
      BY SameReloading DEF Controlled
    <3> QED
      BY <1>1, <2>2, <3>1, StillRegistered DEF IInv, Controlled
  <2> QED
    BY <2>1, <2>2 DEF Controlled
<1>5. Undisturbing
  <2>1. \A i \in Names : Excused(i) => Excused(i)'
    BY <1>1 DEF Excused, Controlled
  <2> QED
    BY <1>1, <1>2, <2>1 DEF Undisturbing, Same, Controlled
<1>6. Working'
  BY <1>5, WorkingFrame DEF IInv, Structured
<1>7. Resting'
  BY <1>5, RestingFrame DEF IInv
<1>8. RulesKept' /\ RoutesKept'
  <2>1. \A q \in Procs : pc'[q] = "stale" =>
          pc[q] = "stale" /\ new'[q] = new[q] /\ stale'[q] = stale[q]
    BY DEF Controlled, Same
  <2> QED
    BY <1>1, <2>1, KeptFrame DEF IInv, Covered, Controlled
<1>9. NftRested'
  <2>1. \A q \in Procs : pc'[q] = "stale" /\ op'[q] = "stop"
          => pc[q] = "stale" /\ op[q] = "stop"
    BY DEF Controlled, Same
  <2>2. \A q \in Procs : Reloading(q) => Reloading(q)' \/ "conf" \in unseen'
    BY SameReloading DEF Controlled
  <2>3. \A q \in Procs : Reloading(q)' => Reloading(q) /\ (pc'[q] = "nft" <=> pc[q] = "nft")
    BY <1>2 DEF Same
  <2> QED
    BY <1>1, <2>1, <2>2, <2>3, NftFrame DEF IInv, Controlled
<1> QED
  BY <1>3, <1>4, <1>6, <1>7, <1>8, <1>9

\* When it was not reloading, nothing is forgotten.
LEMMA ControlCovered ==
  ASSUME IInv, NEW p \in Procs, Controlled(p), ~Reloading(p),
         Unloaded => Unloaded'
  PROVE  RulesCovered' /\ RoutesCovered'
<1>1. /\ conf' = conf /\ rules' = rules /\ routes' = routes /\ stateFile' = stateFile
  BY DEF Controlled, kernel
<1>2. \A q \in Procs : Reloading(q) => Reloading(q)' /\ cfg'[q] = cfg[q] /\ new[q] \subseteq new'[q]
  BY SameReloading DEF Controlled, Same
<1>3. ASSUME NEW c \in Configs, Remembered(c) PROVE Remembered(c)'
  <2>1. ASSUME NEW q \in Procs, pc[q] = "nft" PROVE pc'[q] = "nft" /\ cfg'[q] = cfg[q]
    <3>1. op[q] # "stop"
      BY <2>1 DEF IInv, Structured, Phases, Phase
    <3>2. q # p
      BY <2>1, <3>1 DEF Reloading
    <3> QED
      BY <2>1, <3>2 DEF Controlled, Same
  <2> QED
    BY <1>1, <1>3, <2>1 DEF Remembered, Controlled
<1>4. Remembering
  BY <1>2, <1>3 DEF Remembering
<1> QED
  BY <1>1, <1>4, CoveredFrame DEF IInv, Covered

LEMMA CalledStep ==
  ASSUME IInv, NEW p \in Procs, Trigger(p) \/ Command(p)
  PROVE  (Structured /\ Registered /\ Working /\ Resting /\ Covered /\ NftRested)'
<1>1. PICK command \in {"start", "reload", "stop"} :
        /\ Reset(p, "lock", command)
        /\ pending => pending' \/ command = "reload"
  BY DEF Trigger, Command, system
<1>2. /\ pc'[p] = "lock" /\ op'[p] = command /\ cfg'[p] = None /\ todo'[p] = <<>>
      /\ work'[p] = {} /\ new'[p] = {} /\ stale'[p] = {}
      /\ \A q \in Procs : q # p => Same(q)
  BY <1>1, ResetParts DEF IInv
<1>3. pc[p] = "idle"
  BY DEF Trigger, Command
<1>4. /\ UNCHANGED <<conf, up, triggers, kernel, stateFile, respelled, refused, missing, nftFailed>>
      /\ unseen' = unseen /\ abandoned' = abandoned /\ lock' = lock
  BY DEF Trigger, Command, system, ghosts, kernel
<1>5. ~Active(p) /\ ~Active(p)' /\ ~Reloading(p) /\ ~Reloading(p)'
  BY <1>2, <1>3 DEF Active, Reloading
<1>6. Waiting => Waiting'
  BY <1>2, <1>3, <1>4 DEF Waiting, Same
<1>7. Outdated => Outdated'
  BY <1>1, <1>2, <1>6 DEF Outdated, Waiting
<1>8. Alone' => Alone
  BY <1>2, <1>5, SameReloading DEF Alone
<1>9. Mutex'
  <2>1. lock # p
    BY <1>5 DEF IInv, Structured, Mutex
  <2> QED
    BY <1>2, <1>4, <1>5, <2>1, LockFrame DEF IInv, Structured
<1>10. Phase(p)'
  BY <1>2 DEF Phase
<1>11. Controlled(p)
  BY <1>2, <1>4, <1>5, <1>7, <1>8 DEF Controlled
<1>12. Unloaded => Unloaded'
  BY <1>2, <1>6 DEF Unloaded, Same
<1>13. RulesCovered' /\ RoutesCovered'
  BY <1>5, <1>11, <1>12, ControlCovered
<1> QED
  BY <1>9, <1>10, <1>11, <1>13, Control DEF Covered

LEMMA LockStep ==
  ASSUME IInv, NEW p \in Procs, Lock(p)
  PROVE  (Structured /\ Registered /\ Working /\ Resting /\ Covered /\ NftRested)'
<1>1. /\ pc[p] = "lock" /\ lock = None /\ lock' = p
      /\ pc'[p] = IF op[p] = "stop" THEN "unload" ELSE "load"
      /\ op'[p] = op[p] /\ cfg'[p] = cfg[p] /\ todo'[p] = todo[p] /\ work'[p] = work[p]
      /\ new'[p] = new[p] /\ stale'[p] = stale[p]
  BY DEF Lock, Goto, local, IInv, TypeOK
<1>2. \A q \in Procs : q # p => Same(q)
  BY DEF Lock, Goto, local, IInv, TypeOK, Same
<1>3. /\ UNCHANGED <<conf, up, triggers, kernel, stateFile, respelled, refused, missing, nftFailed>>
      /\ unseen' = unseen /\ abandoned' = abandoned /\ pending' = pending
  BY DEF Lock, system, ghosts
<1>4. Active(p)' /\ ~Reloading(p) /\ ~Reloading(p)'
  BY <1>1 DEF Active, Reloading
<1>5. Waiting => Waiting'
  BY <1>1, <1>2, <1>3 DEF Waiting, Same
<1>6. Outdated => Outdated'
  BY <1>3, <1>5 DEF Outdated
<1>7. ~Alone'
  BY <1>4 DEF Alone
<1>8. Mutex'
  BY <1>1, <1>2, <1>4, LockFrame DEF IInv, Structured
<1>9. Phase(p)'
  <2>1. Phase(p) /\ File' = File
    BY <1>3 DEF IInv, Structured, Phases, File
  <2> QED
    BY <1>1, <1>4, <2>1 DEF Phase
<1>10. Controlled(p)
  BY <1>1, <1>2, <1>3, <1>4, <1>6, <1>7 DEF Controlled
<1>11. Unloaded => Unloaded'
  BY <1>1, <1>2, <1>5 DEF Unloaded, Same
<1>12. RulesCovered' /\ RoutesCovered'
  BY <1>4, <1>10, <1>11, ControlCovered
<1> QED
  BY <1>8, <1>9, <1>10, <1>12, Control DEF Covered

\* A line of a reload is one that its configuration asks for.
LEMMA NamedRule ==
  ASSUME NEW p, Position(p), NEW k \in RuleKeys, RuleNamed(new[p], k)
  PROVE  InstallsRule(cfg[p], k)
<1>1. PICK e \in Range(cfg[p].ifaces) : Asks(cfg[p], e, RuleEntry(k[1], k[2]))
  BY DEF Position, RuleNamed
<1>2. cfg[p] \in Configs
  BY DEF Position
<1>3. AsksRule(cfg[p], e, k[1]) /\ RuleEntry(k[1], k[2]) = RuleEntry(k[1], e.pref)
  BY <1>1, <1>2, AskedLine, RuleLine
<1>4. e.pref = k[2]
  BY <1>3, RuleLine
<1> QED
  BY <1>3, <1>4 DEF InstallsRule

LEMMA KillStep ==
  ASSUME IInv, NEW p \in Procs, Kill(p)
  PROVE  (Structured /\ Registered /\ Working /\ Resting /\ Covered /\ NftRested)'
<1>1. /\ pc'[p] = "idle" /\ op'[p] = "none" /\ cfg'[p] = None /\ todo'[p] = <<>>
      /\ work'[p] = {} /\ new'[p] = {} /\ stale'[p] = {}
      /\ \A q \in Procs : q # p => Same(q)
  BY ResetParts DEF IInv, Kill
<1>2. /\ UNCHANGED <<conf, up, triggers, kernel, stateFile, respelled, refused, missing, nftFailed>>
      /\ unseen' = unseen \cup {"conf"} /\ pending' = pending
      /\ abandoned' = abandoned \cup ({cfg[p]} \ {None})
      /\ lock' \in IF lock = p THEN {None, "gone"} ELSE {lock}
  BY DEF Kill, system, kernel
<1>3. ~Active(p)' /\ ~Reloading(p)'
  BY <1>1 DEF Active, Reloading
<1>4. Outdated' /\ Waiting'
  BY <1>2 DEF Outdated, Waiting
<1>5. Mutex'
  <2>1. lock' # p
    BY <1>2, NoneAssumption
  <2> QED
    BY <1>1, <1>2, <1>3, <2>1, LockFrame DEF IInv, Structured
<1>6. Phase(p)'
  BY <1>1 DEF Phase
<1>7. Controlled(p)
  BY <1>1, <1>2, <1>3, <1>4 DEF Controlled
<1>8. /\ conf' = conf /\ rules' = rules /\ routes' = routes /\ stateFile' = stateFile
      /\ File' = File
  BY <1>2 DEF kernel, File
<1>9. ASSUME NEW c \in Configs, Remembered(c) PROVE Remembered(c)'
  <2>1. CASE c \in abandoned
    BY <1>2, <2>1 DEF Remembered
  <2>2. CASE stateFile = None /\ Unloaded /\ c = conf
    BY <1>1, <1>4, <1>8, <2>2 DEF Remembered, Unloaded, Same
  <2>3. CASE stateFile = None /\ \E q \in Procs : pc[q] = "nft" /\ c = cfg[q]
    <3>1. PICK q \in Procs : pc[q] = "nft" /\ c = cfg[q]
      BY <2>3
    <3>2. CASE q = p
      BY <1>2, <3>1, <3>2, NoneAssumption DEF Remembered
    <3>3. CASE q # p
      BY <1>1, <1>8, <2>3, <3>1, <3>3 DEF Remembered, Same
    <3> QED
      BY <3>2, <3>3
  <2> QED
    BY <1>9, <2>1, <2>2, <2>3 DEF Remembered
<1>10. Reloading(p) => Position(p) /\ \E c \in Configs : c = cfg[p] /\ Remembered(c)'
  <2>1. Reloading(p) => Position(p) /\ cfg[p] \in Configs
    BY DEF IInv, Structured, Positions, Position
  <2>2. ASSUME NEW c \in Configs, c = cfg[p] PROVE Remembered(c)'
    BY <2>2, <1>2, NoneAssumption DEF Remembered
  <2> QED
    BY <2>1, <2>2
<1>11. RulesCovered'
  <2> SUFFICES ASSUME NEW k \in RuleKeys, rules'[k] # None
               PROVE  \/ RuleNamed(File', k)
                      \/ \E q \in Procs : Reloading(q)' /\ RuleNamed(new'[q], k)
                      \/ \E c \in Configs : Remembered(c)' /\ InstallsRule(c, k)
    BY DEF RulesCovered
  <2>1. CASE RuleNamed(File, k)
    BY <1>8, <2>1
  <2>2. ASSUME NEW q \in Procs, Reloading(q), RuleNamed(new[q], k), q # p
        PROVE  Reloading(q)' /\ RuleNamed(new'[q], k)
    BY <1>1, <2>2, SameReloading DEF Same
  <2>3. CASE Reloading(p) /\ RuleNamed(new[p], k)
    BY <1>10, <2>3, NamedRule
  <2>4. CASE \E c \in Configs : Remembered(c) /\ InstallsRule(c, k)
    BY <1>9, <2>4
  <2> QED
    BY <1>8, <2>1, <2>2, <2>3, <2>4 DEF IInv, Covered, RulesCovered
<1>12. RoutesCovered'
  <2> SUFFICES ASSUME NEW k \in RouteKeys, routes'[k] # None
               PROVE  \/ RouteNamed(File', k)
                      \/ \E q \in Procs : /\ Reloading(q)' /\ RouteNamed(new'[q], k)
                                          /\ InstallsRoute(cfg'[q], k, routes'[k])
                      \/ \E c \in Configs : Remembered(c)' /\ InstallsRoute(c, k, routes'[k])
    BY DEF RoutesCovered
  <2>1. CASE RouteNamed(File, k)
    BY <1>8, <2>1
  <2>2. ASSUME NEW q \in Procs, Reloading(q), RouteNamed(new[q], k), q # p
        PROVE  Reloading(q)' /\ RouteNamed(new'[q], k) /\ cfg'[q] = cfg[q]
    BY <1>1, <2>2, SameReloading DEF Same
  <2>3. CASE Reloading(p) /\ InstallsRoute(cfg[p], k, routes[k])
    BY <1>8, <1>10, <2>3
  <2>4. CASE \E c \in Configs : Remembered(c) /\ InstallsRoute(c, k, routes[k])
    BY <1>8, <1>9, <2>4
  <2> QED
    BY <1>8, <2>1, <2>2, <2>3, <2>4 DEF IInv, Covered, RoutesCovered
<1> QED
  BY <1>5, <1>6, <1>7, <1>11, <1>12, Control DEF Covered

\* A reload that could not load the configuration ends.
LEMMA LoadFailsStep ==
  ASSUME IInv, NEW p \in Procs, LoadFails(p)
  PROVE  (Structured /\ Registered /\ Working /\ Resting /\ Covered /\ NftRested)'
<1>1. /\ pc'[p] = "idle" /\ op'[p] = "none" /\ cfg'[p] = None /\ todo'[p] = <<>>
      /\ work'[p] = {} /\ new'[p] = {} /\ stale'[p] = {}
      /\ \A q \in Procs : q # p => Same(q)
  BY ResetParts DEF IInv, LoadFails
<1>2. /\ UNCHANGED <<conf, up, kernel, stateFile, respelled, refused, missing, nftFailed>>
      /\ unseen' = unseen \cup {"conf"} /\ abandoned' = abandoned
      /\ pc[p] = "load" /\ lock' = None
  BY DEF LoadFails, kernel
<1>3. ~Active(p)' /\ ~Reloading(p)' /\ Active(p) /\ ~Reloading(p)
  BY <1>1, <1>2 DEF Active, Reloading
<1>4. Outdated' /\ Waiting'
  BY <1>2 DEF Outdated, Waiting
<1>5. Mutex'
  <2>1. lock = p
    BY <1>3 DEF IInv, Structured, Mutex
  <2> QED
    BY <1>1, <1>2, <1>3, <2>1, LockFrame, NoneAssumption DEF IInv, Structured
<1>6. Phase(p)'
  BY <1>1 DEF Phase
<1>7. Controlled(p)
  BY <1>1, <1>2, <1>3, <1>4 DEF Controlled
<1>8. Unloaded => Unloaded'
  BY <1>1, <1>4 DEF Unloaded, Same
<1>9. RulesCovered' /\ RoutesCovered'
  BY <1>3, <1>7, <1>8, ControlCovered
<1> QED
  BY <1>5, <1>6, <1>7, <1>9, Control DEF Covered

-----------------------------------------------------------------------------
(* The process that has the lock.                                          *)

LEMMA Busy ==
  ASSUME IInv, NEW p \in Procs, Active(p), Active(p)', lock' = lock,
         \A q \in Procs : q # p => Same(q)
  PROVE  /\ Mutex' /\ Resting' /\ ~Alone /\ ~Alone'
         /\ \A q \in Procs : q # p =>
              /\ ~Active(q) /\ ~Reloading(q) /\ ~Active(q)' /\ ~Reloading(q)'
              /\ pc[q] \notin {"load", "nft", "work", "stale", "unload"}
              /\ pc'[q] \notin {"load", "nft", "work", "stale", "unload"}
<1>1. ASSUME NEW q \in Procs, q # p
      PROVE  /\ ~Active(q) /\ ~Reloading(q) /\ ~Active(q)' /\ ~Reloading(q)'
             /\ pc[q] \notin {"load", "nft", "work", "stale", "unload"}
             /\ pc'[q] \notin {"load", "nft", "work", "stale", "unload"}
  <2>1. /\ ~Active(q) /\ ~Reloading(q)
        /\ pc[q] \notin {"load", "nft", "work", "stale", "unload"}
    BY <1>1, OnlyOne DEF IInv, Structured
  <2> QED
    BY <1>1, <2>1, SameReloading DEF Same
<1>2. lock' = p
  BY DEF IInv, Structured, Mutex
<1>3. Mutex'
  BY <1>2, LockFrame DEF IInv, Structured
<1>4. ~Alone /\ ~Alone'
  BY DEF Alone
<1>5. Resting'
  BY <1>4 DEF Resting, FileRested, RulesRested, RoutesRested, Rested
<1> QED
  BY <1>1, <1>3, <1>4, <1>5

LEMMA LoadStep ==
  ASSUME IInv, NEW p \in Procs, Load(p)
  PROVE  (Structured /\ Registered /\ Working /\ Resting /\ Covered /\ NftRested)'
<1>1. /\ pc[p] = "load" /\ pc'[p] = "nft" /\ op'[p] = op[p] /\ cfg'[p] = conf
      /\ todo'[p] = Work(conf) /\ work'[p] = work[p] /\ new'[p] = new[p]
      /\ stale'[p] = stale[p]
  BY DEF Load, Goto, IInv, TypeOK
<1>2. \A q \in Procs : q # p => Same(q)
  BY DEF Load, Goto, IInv, TypeOK, Same
<1>3. /\ conf' = conf /\ lock' = lock /\ triggers' = triggers /\ rules' = rules
      /\ routes' = routes /\ stateFile' = stateFile /\ abandoned' = abandoned
      /\ respelled' = (respelled \/ Respells(conf)) /\ File' = File
  BY DEF Load, system, kernel, File
<1>4. Phase(p) /\ conf \in Configs
  BY DEF IInv, Structured, Phases, TypeOK
<1>5. op[p] # "stop" /\ ~Reloading(p) /\ work[p] = {} /\ new[p] = {} /\ stale[p] = {}
  BY <1>1, <1>4 DEF Phase, Reloading
<1>6. Active(p) /\ Active(p)' /\ Reloading(p)'
  BY <1>1, <1>5 DEF Active, Reloading
<1>7. /\ Mutex' /\ Resting' /\ ~Alone'
      /\ \A q \in Procs : q # p =>
           /\ ~Reloading(q) /\ ~Reloading(q)'
           /\ pc[q] \notin {"load", "nft", "work", "stale", "unload"}
           /\ pc'[q] \notin {"load", "nft", "work", "stale", "unload"}
  BY <1>2, <1>3, <1>6, Busy
<1>8. Structured'
  <2>1. Phase(p)'
    BY <1>1, <1>5, <1>6 DEF Phase
  <2>2. Position(p)'
    <3>1. /\ Range(Work(conf)) \subseteq Range(conf.ifaces)
          /\ \A m, n \in DOMAIN Work(conf) : Work(conf)[m] = Work(conf)[n] => m = n
          /\ Work(conf) # <<>> => conf.enabled
      BY <1>4, AllWork DEF Work
    <3> QED
      BY <1>1, <1>4, <1>5, <3>1 DEF Position
  <2> QED
    BY <1>2, <1>3, <1>7, <2>1, <2>2, StructureFrame DEF IInv, Structured
<1>9. Registered'
  BY <1>6 DEF Registered
<1>10. Working'
  <2>1. Current'
    BY <1>1, <1>3, <1>7 DEF Current
  <2>2. Spelled'
    BY <1>1, <1>3, <1>7 DEF Spelled, Respells
  <2>3. conf.enabled => Range(todo'[p]) = Range(conf.ifaces)
    BY <1>1, <1>4, AllWork
  <2>4. RuleProgress'
    BY <1>1, <1>7, <2>3 DEF RuleProgress, AsksRule
  <2>5. RouteProgress'
    BY <1>1, <1>7, <2>3 DEF RouteProgress, AsksRoute, AsksRule
  <2> QED
    BY <2>1, <2>2, <2>4, <2>5 DEF Working
<1>11. RulesCovered' /\ RoutesCovered'
  <2>1. ASSUME NEW c \in Configs, Remembered(c) PROVE Remembered(c)'
    BY <1>1, <1>3, <1>7, <2>1 DEF Remembered
  <2>2. \A q \in Procs : ~Reloading(q)
    BY <1>5, <1>7
  <2>3. Remembering
    BY <2>1, <2>2 DEF Remembering
  <2> QED
    BY <1>3, <2>3, CoveredFrame DEF IInv, Covered
<1>12. RulesKept' /\ RoutesKept'
  BY <1>1, <1>7 DEF RulesKept, RoutesKept
<1>13. NftRested'
  BY <1>1, <1>6, <1>7 DEF NftRested
<1> QED
  BY <1>7, <1>8, <1>9, <1>10, <1>11, <1>12, <1>13 DEF Covered

LEMMA NftStep ==
  ASSUME IInv, NEW p \in Procs, Nft(p)
  PROVE  (Structured /\ Registered /\ Working /\ Resting /\ Covered /\ NftRested)'
<1>1. /\ pc[p] = "nft" /\ pc'[p] = "work" /\ op'[p] = op[p] /\ cfg'[p] = cfg[p]
      /\ todo'[p] = todo[p] /\ work'[p] = work[p] /\ new'[p] = new[p]
      /\ stale'[p] = stale[p]
  BY DEF Nft, Goto, local, IInv, TypeOK
<1>2. \A q \in Procs : q # p => Same(q)
  BY DEF Nft, Goto, local, IInv, TypeOK, Same
<1>3. /\ conf' = conf /\ pending' = pending /\ lock' = lock /\ triggers' = triggers
      /\ stateFile' = stateFile /\ abandoned' = abandoned /\ unseen' = unseen
      /\ respelled' = respelled /\ File' = File
  BY DEF Nft, system, File
<1>4. Phase(p) /\ conf \in Configs
  BY DEF IInv, Structured, Phases, TypeOK
<1>5. op[p] # "stop" /\ Reloading(p) /\ Active(p) /\ Active(p)' /\ Reloading(p)'
  BY <1>1, <1>4 DEF Phase, Reloading, Active
<1>6. Position(p) /\ todo[p] = Work(cfg[p]) /\ work[p] = {} /\ new[p] = {} /\ cfg[p] \in Configs
  BY <1>1, <1>5 DEF IInv, Structured, Positions, Position
<1>7. /\ Mutex' /\ Resting' /\ ~Alone'
      /\ \A q \in Procs : q # p =>
           /\ ~Reloading(q) /\ ~Reloading(q)'
           /\ pc[q] \notin {"load", "nft", "work", "stale", "unload"}
           /\ pc'[q] \notin {"load", "nft", "work", "stale", "unload"}
  BY <1>2, <1>3, <1>5, Busy
<1>8. Structured'
  <2>1. Phase(p)'
    BY <1>1, <1>3, <1>4, <1>5 DEF Phase
  <2>2. Position(p)'
    BY <1>1, <1>6 DEF Position
  <2> QED
    BY <1>2, <1>3, <1>7, <2>1, <2>2, StructureFrame DEF IInv, Structured
<1>9. Registered'
  BY <1>5 DEF Registered
<1>a. Outdated' <=> Outdated
  BY <1>1, <1>2, <1>3, <1>7 DEF Outdated, Waiting, Same
<1>10. Working'
  <2>1. Current'
    BY <1>1, <1>3, <1>5, <1>7, <1>a DEF Current, IInv, Working
  <2>2. Spelled'
    BY <1>1, <1>3, <1>5, <1>7 DEF Spelled, Respells, IInv, Working
  <2>3. cfg[p].enabled => Range(todo'[p]) = Range(cfg'[p].ifaces)
    BY <1>1, <1>6, AllWork
  <2>4. RuleProgress'
    BY <1>1, <1>7, <2>3 DEF RuleProgress, AsksRule
  <2>5. RouteProgress'
    BY <1>1, <1>7, <2>3 DEF RouteProgress, AsksRoute, AsksRule
  <2> QED
    BY <2>1, <2>2, <2>4, <2>5 DEF Working
<1>11. /\ ~Unloaded
       /\ \A c : Remembered(c) => c \in abandoned \/ (stateFile = None /\ c = cfg[p])
  BY <1>1, <1>7 DEF Unloaded, Remembered
<1>12. RulesCovered'
  <2> SUFFICES ASSUME NEW k \in RuleKeys, rules'[k] # None
               PROVE  \/ RuleNamed(File', k)
                      \/ \E c \in Configs : Remembered(c)' /\ InstallsRule(c, k)
    BY DEF RulesCovered
  <2>1. /\ rules[k] # None
        /\ stateFile = None => ~InstallsRule(cfg[p], k)
    BY DEF Nft, FlushLegacy, InstallsRule
  <2>2. ~RuleNamed(new[p], k)
    BY <1>6 DEF RuleNamed
  <2>3. RuleNamed(File, k) \/ \E c \in Configs : Remembered(c) /\ InstallsRule(c, k)
    BY <1>7, <2>1, <2>2 DEF IInv, Covered, RulesCovered
  <2> QED
    BY <1>3, <1>11, <2>1, <2>3 DEF Remembered
<1>13. RoutesCovered'
  <2> SUFFICES ASSUME NEW k \in RouteKeys, routes'[k] # None
               PROVE  \/ RouteNamed(File', k)
                      \/ \E c \in Configs : Remembered(c)' /\ InstallsRoute(c, k, routes'[k])
    BY DEF RoutesCovered
  <2>1. /\ routes[k] # None /\ routes'[k] = routes[k]
        /\ stateFile = None => ~InstallsRoute(cfg[p], k, routes[k])
    BY DEF Nft, FlushLegacy, InstallsRoute
  <2>2. ~RouteNamed(new[p], k)
    BY <1>6 DEF RouteNamed
  <2>3. RouteNamed(File, k) \/ \E c \in Configs : Remembered(c) /\ InstallsRoute(c, k, routes[k])
    BY <1>7, <2>1, <2>2 DEF IInv, Covered, RoutesCovered
  <2> QED
    BY <1>3, <1>11, <2>1, <2>3 DEF Remembered
<1>14. RulesKept' /\ RoutesKept'
  BY <1>1, <1>7 DEF RulesKept, RoutesKept
<1>15. NftRested'
  <2>1. ASSUME ~Outdated', ~nftFailed' PROVE nft' = WantedNft(conf)
    <3>1. cfg[p] = conf
      BY <1>5, <1>a, <2>1 DEF IInv, Working, Current
    <3> QED
      BY <2>1, <3>1 DEF Nft, Rendered, WantedNft
  <2>2. NftHolds'
    BY <1>3, <2>1 DEF NftHolds
  <2> QED
    BY <1>1, <1>5, <1>7, <2>2 DEF NftRested
<1> QED
  BY <1>7, <1>8, <1>9, <1>10, <1>12, <1>13, <1>14, <1>15 DEF Covered

\* A reload that is applying its configuration.
LEMMA AtWork ==
  ASSUME IInv, NEW p \in Procs, pc[p] = "work"
  PROVE  /\ Phase(p) /\ Position(p) /\ Reloading(p) /\ Active(p)
         /\ op[p] # "stop" /\ cfg[p] \in Configs /\ stale[p] = {}
         /\ \A l \in new[p] :
              \E e \in Range(cfg[p].ifaces) \ Range(todo[p]) : Asks(cfg[p], e, l)
<1>1. Phase(p)
  BY DEF IInv, Structured, Phases
<1>2. op[p] # "stop" /\ stale[p] = {}
  BY <1>1 DEF Phase
<1>3. Reloading(p) /\ Active(p)
  BY <1>2 DEF Reloading, Active
<1>4. Position(p)
  BY <1>3 DEF IInv, Structured, Positions
<1> QED
  BY <1>1, <1>2, <1>3, <1>4 DEF Position

LEMMA LookUpStep ==
  ASSUME IInv, NEW p \in Procs, LookUp(p)
  PROVE  (Structured /\ Registered /\ Working /\ Resting /\ Covered /\ NftRested)'
<1> DEFINE e0 == Head(todo[p])
<1>1. /\ pc[p] = "work" /\ pc'[p] = "work" /\ op'[p] = op[p] /\ cfg'[p] = cfg[p]
      /\ todo[p] # <<>> /\ todo'[p] = Tail(todo[p]) /\ work[p] = {}
      /\ work'[p] = IfaceWork(cfg[p], e0, e0.name \in up)
      /\ new'[p] = new[p] /\ stale'[p] = stale[p]
  BY DEF LookUp, IInv, TypeOK
<1>2. \A q \in Procs : q # p => Same(q)
  BY DEF LookUp, IInv, TypeOK, Same
<1>3. /\ conf' = conf /\ up' = up /\ pending' = pending /\ lock' = lock /\ triggers' = triggers
      /\ stateFile' = stateFile /\ abandoned' = abandoned /\ unseen' = unseen \ {e0.name}
      /\ respelled' = respelled /\ refused' = refused /\ missing' = missing
      /\ nftFailed' = nftFailed
      /\ File' = File /\ rules' = rules /\ routes' = routes /\ nft' = nft
  BY DEF LookUp, system, kernel, File
<1>4. /\ Phase(p) /\ Position(p) /\ Reloading(p) /\ Active(p)
      /\ op[p] # "stop" /\ cfg[p] \in Configs /\ stale[p] = {}
      /\ \A l \in new[p] :
           \E e \in Range(cfg[p].ifaces) \ Range(todo[p]) : Asks(cfg[p], e, l)
  BY <1>1, AtWork
<1>5. Active(p)' /\ Reloading(p)'
  BY <1>1, <1>4 DEF Reloading, Active
<1>6. /\ todo[p] \in Seq(Entry) /\ Range(todo[p]) \subseteq Range(cfg[p].ifaces)
      /\ cfg[p].enabled
      /\ \A m, n \in DOMAIN todo[p] : todo[p][m] = todo[p][n] => m = n
  BY <1>1, <1>4 DEF Position, IInv, TypeOK
<1>7. /\ e0 \in Entry /\ e0 \in Range(todo[p])
      /\ Range(todo[p]) = {e0} \cup Range(todo'[p])
      /\ e0 \notin Range(todo'[p])
      /\ \A m, n \in DOMAIN todo'[p] : todo'[p][m] = todo'[p][n] => m = n
  BY <1>1, <1>6, Popped
<1>8. e0 \in Range(cfg[p].ifaces) /\ e0.name \in Names /\ e0.name # "conf"
  BY <1>6, <1>7, EntryParts, NoneAssumption
<1>9. /\ \A w \in work'[p] :
           /\ w.iface = e0 /\ Asks(cfg[p], e0, w.line)
           /\ w.line.kind = "route" => e0.name \in up
      /\ \A f \in Fams : AsksRule(cfg[p], e0, f)
           => Install(e0, RuleEntry(f, e0.pref)) \in work'[p]
      /\ e0.name \in up => \A f \in Fams, s \in Spellings : AsksRoute(cfg[p], e0, f, s)
           => Install(e0, RouteEntry(f, e0.table, s)) \in work'[p]
  <2> DEFINE u == e0.name \in up
  <2>1. u \in BOOLEAN
    OBVIOUS
  <2>2. work'[p] = IfaceWork(cfg[p], e0, u)
    BY <1>1
  <2> HIDE DEF e0
  <2>3. /\ \A w \in work'[p] :
             w.iface = e0 /\ Asks(cfg[p], e0, w.line) /\ (w.line.kind = "route" => u)
        /\ \A f \in Fams : AsksRule(cfg[p], e0, f)
             => Install(e0, RuleEntry(f, e0.pref)) \in work'[p]
        /\ u => \A f \in Fams, s \in Spellings : AsksRoute(cfg[p], e0, f, s)
             => Install(e0, RouteEntry(f, e0.table, s)) \in work'[p]
    <3> HIDE DEF u
    <3> QED
      BY <1>4, <1>6, <1>8, <2>1, <2>2, Commanded
  <2> QED
    BY <2>3
<1> HIDE DEF e0
<1>10. /\ Mutex' /\ Resting' /\ ~Alone'
       /\ \A q \in Procs : q # p =>
            /\ ~Reloading(q) /\ ~Reloading(q)'
            /\ pc[q] \notin {"load", "nft", "work", "stale", "unload"}
            /\ pc'[q] \notin {"load", "nft", "work", "stale", "unload"}
  BY <1>2, <1>3, <1>4, <1>5, Busy
<1>11. Structured'
  <2>1. Phase(p)'
    BY <1>1, <1>3, <1>4, <1>5 DEF Phase
  <2>2. Position(p)'
    <3>1. \A l \in new'[p] :
            \E e \in Range(cfg'[p].ifaces) \ Range(todo'[p]) : Asks(cfg'[p], e, l)
      BY <1>1, <1>4, <1>7
    <3> QED
      BY <1>1, <1>4, <1>6, <1>7, <1>9, <3>1 DEF Position
  <2> QED
    BY <1>2, <1>3, <1>10, <2>1, <2>2, StructureFrame DEF IInv, Structured
<1>12. Registered'
  BY <1>5 DEF Registered
<1>13. Outdated' <=> Outdated
  BY <1>1, <1>2, <1>3, <1>8, <1>10 DEF Outdated, Waiting, Same
<1>14. Current'
  BY <1>1, <1>3, <1>5, <1>10, <1>4, <1>13 DEF Current, IInv, Working
<1>15. Spelled'
  BY <1>1, <1>3, <1>5, <1>4, <1>10 DEF Spelled, Respells, IInv, Working
<1>16. RuleProgress'
  <2> SUFFICES ASSUME NEW e \in Range(cfg[p].ifaces), NEW f \in Fams, AsksRule(cfg[p], e, f)
               PROVE  \/ e \in Range(todo'[p])
                      \/ Install(e, RuleEntry(f, e.pref)) \in work'[p]
                      \/ RuleHolds(new[p], e, f)'
    BY <1>1, <1>10 DEF RuleProgress
  <2>1. CASE e = e0
    BY <1>9, <2>1
  <2>2. CASE e # e0
    <3>1. e \in Range(todo[p]) \/ RuleHolds(new[p], e, f)
      BY <1>1, <1>4 DEF IInv, Working, RuleProgress
    <3> QED
      BY <1>1, <1>3, <1>7, <2>2, <3>1 DEF RuleHolds, RuleRight
  <2> QED
    BY <2>1, <2>2
<1>17. RouteProgress'
  <2> SUFFICES ASSUME NEW e \in Range(cfg[p].ifaces), NEW f \in Fams, NEW s \in Spellings,
                      AsksRoute(cfg[p], e, f, s)
               PROVE  \/ e \in Range(todo'[p])
                      \/ Install(e, RouteEntry(f, e.table, s)) \in work'[p]
                      \/ /\ RouteHolds(new[p], e, f, s)'
                         /\ Skipped(new'[p], e) => ~RoutesLeft(p, e)'
    BY <1>1, <1>10 DEF RouteProgress
  <2>1. CASE e = e0 /\ e0.name \in up
    BY <1>9, <2>1
  <2>2. CASE e = e0 /\ e0.name \notin up
    <3>1. Skipped(new'[p], e0)
      <4> SUFFICES ASSUME NEW l \in new[p], l.kind = "route", l.table = e0.table
                   PROVE  FALSE
        BY <1>1 DEF Skipped
      <4>1. PICK d \in Range(cfg[p].ifaces) \ Range(todo[p]) : Asks(cfg[p], d, l)
        BY <1>4
      <4>2. d.table = e0.table
        BY <1>4, <4>1, AskedLine
      <4>3. d = e0
        BY <1>4, <1>8, <4>1, <4>2, Alike
      <4> QED
        BY <1>7, <4>1, <4>3
    <3>2. routes'[<<f, e.table, Key(s)>>] # e.name
      <4>1. <<f, e.table, Key(s)>> \in RouteKeys /\ e.name \in Names
        BY <1>4, AskedRoute
      <4> QED
        BY <1>3, <2>2, <4>1, NoneAssumption DEF IInv, TypeOK
    <3>3. Excused(e.name)'
      BY <1>3, <2>2 DEF Excused
    <3>4. ~RoutesLeft(p, e)'
      BY <1>9, <2>2 DEF RoutesLeft
    <3> QED
      BY <2>2, <3>1, <3>2, <3>3, <3>4 DEF RouteHolds
  <2>3. CASE e # e0
    <3>1. \/ e \in Range(todo[p])
          \/ RouteHolds(new[p], e, f, s)
      BY <1>1, <1>4 DEF IInv, Working, RouteProgress
    <3>2. e.name # e0.name
      BY <1>4, <1>8, <2>3, Alike
    <3>3. Excused(e.name) => Excused(e.name)'
      BY <1>3, <1>13, <3>2 DEF Excused
    <3>4. ~RoutesLeft(p, e)'
      BY <1>9, <2>3 DEF RoutesLeft
    <3>5. RouteHolds(new[p], e, f, s) => RouteHolds(new[p], e, f, s)'
      BY <1>1, <1>3, <3>3 DEF RouteHolds, RouteRight, Skipped
    <3> QED
      BY <1>7, <2>3, <3>1, <3>4, <3>5
  <2> QED
    BY <2>1, <2>2, <2>3
<1>18. RulesCovered' /\ RoutesCovered'
  <2>1. ASSUME NEW c \in Configs, Remembered(c) PROVE Remembered(c)'
    BY <1>1, <1>3, <1>10, <2>1 DEF Remembered, Unloaded
  <2>2. \A q \in Procs : Reloading(q) => q = p
    BY <1>10
  <2>3. Remembering
    BY <1>1, <1>5, <2>1, <2>2 DEF Remembering
  <2> QED
    BY <1>3, <2>3, CoveredFrame DEF IInv, Covered
<1>19. RulesKept' /\ RoutesKept'
  BY <1>1, <1>10 DEF RulesKept, RoutesKept
<1>20. NftRested'
  <2>1. NftHolds
    BY <1>1, <1>4 DEF IInv, NftRested
  <2>2. NftHolds'
    BY <1>3, <1>13, <2>1 DEF NftHolds
  <2> QED
    BY <1>1, <1>5, <1>10, <2>2 DEF NftRested
<1> QED
  BY <1>10, <1>11, <1>12, <1>14, <1>15, <1>16, <1>17, <1>18, <1>19, <1>20 DEF Covered, Working

\* A command of the interface it is at.
LEMMA AtCommand ==
  ASSUME IInv, NEW p \in Procs, pc[p] = "work", NEW w \in work[p]
  PROVE  /\ w.iface \in Range(cfg[p].ifaces) \ Range(todo[p])
         /\ Asks(cfg[p], w.iface, w.line) /\ w.line \in Entries
         /\ w = Install(w.iface, w.line)
<1>1. w \in Commands
  BY DEF IInv, TypeOK
<1>2. w = Install(w.iface, w.line)
  BY <1>1 DEF Commands, Install
<1>3. Asks(cfg[p], w.iface, w.line) /\ w.iface \notin Range(todo[p]) /\ cfg[p] \in Configs
  BY AtWork DEF Position
<1> QED
  BY <1>2, <1>3, AskedLine

\* When one is done its line is in the state, and those left are what they were.
LEMMA DonePosition ==
  ASSUME IInv, NEW p \in Procs, pc[p] = "work", NEW w \in work[p],
         pc'[p] = "work", cfg'[p] = cfg[p], todo'[p] = todo[p],
         work'[p] \subseteq work[p], new'[p] \subseteq new[p] \cup {w.line}
  PROVE  Position(p)'
<1>1. /\ w.iface \in Range(cfg[p].ifaces) \ Range(todo[p])
      /\ Asks(cfg[p], w.iface, w.line)
  BY AtCommand
<1>2. Position(p)
  BY AtWork
<1>3. \A l \in new'[p] :
        \E e \in Range(cfg'[p].ifaces) \ Range(todo'[p]) : Asks(cfg'[p], e, l)
  BY <1>1, AtWork
<1> QED
  BY <1>2, <1>3 DEF Position

\* What the kernel had of other keys is covered as before.
LEMMA EnsureRuleStep ==
  ASSUME IInv, NEW p \in Procs, EnsureRule(p)
  PROVE  (Structured /\ Registered /\ Working /\ Resting /\ Covered /\ NftRested)'
<1>1. PICK w \in work[p] :
        /\ w.line.kind = "rule"
        /\ \/ /\ rules' = [rules EXCEPT ![RuleKey(w.line)] = None]
              /\ UNCHANGED <<work, new, missing>>
           \/ /\ rules' = [rules EXCEPT ![RuleKey(w.line)] = RuleFor(w.iface)]
              /\ Done(p, w) /\ missing' = missing \ {RuleKey(w.line)}
           \/ /\ rules[RuleKey(w.line)] = None /\ rules' = rules
              /\ Done(p, w) /\ missing' = missing \cup {RuleKey(w.line)}
  BY DEF EnsureRule, NextCommands
<1> DEFINE e0 == w.iface
           f0 == w.line.fam
           k0 == <<f0, e0.pref>>
<1>2. /\ pc[p] = "work" /\ pc'[p] = "work" /\ op'[p] = op[p] /\ cfg'[p] = cfg[p]
      /\ todo'[p] = todo[p] /\ stale'[p] = stale[p]
  BY DEF EnsureRule
<1>3. \A q \in Procs : q # p => Same(q)
  BY <1>1 DEF EnsureRule, Done, IInv, TypeOK, Same
<1>4. /\ conf' = conf /\ up' = up /\ pending' = pending /\ lock' = lock /\ triggers' = triggers
      /\ stateFile' = stateFile /\ abandoned' = abandoned /\ unseen' = unseen
      /\ respelled' = respelled /\ refused' = refused /\ nftFailed' = nftFailed
      /\ File' = File /\ routes' = routes /\ nft' = nft
  BY DEF EnsureRule, system, File
<1>5. /\ Phase(p) /\ Position(p) /\ Reloading(p) /\ Active(p)
      /\ op[p] # "stop" /\ cfg[p] \in Configs /\ stale[p] = {}
  BY <1>2, AtWork
<1>6. Active(p)' /\ Reloading(p)'
  BY <1>2, <1>5 DEF Reloading, Active
<1>7. /\ e0 \in Range(cfg[p].ifaces) \ Range(todo[p])
      /\ Asks(cfg[p], e0, w.line) /\ w = Install(e0, w.line)
  BY <1>2, AtCommand
<1>8. /\ AsksRule(cfg[p], e0, f0) /\ w.line = RuleEntry(f0, e0.pref)
      /\ RuleKey(w.line) = k0 /\ k0 \in RuleKeys
  <2>1. /\ AsksRule(cfg[p], e0, f0) /\ w.line = RuleEntry(f0, e0.pref)
        /\ RuleKey(w.line) = k0
    BY <1>1, <1>5, <1>7, AskedLine
  <2> QED
    BY <1>5, <2>1, AskedRule
<1>9. \/ /\ rules' = [rules EXCEPT ![k0] = None]
         /\ work'[p] = work[p] /\ new'[p] = new[p] /\ missing' = missing
      \/ /\ rules' = [rules EXCEPT ![k0] = RuleFor(e0)] /\ missing' = missing \ {k0}
         /\ work'[p] = work[p] \ {w} /\ new'[p] = new[p] \cup {w.line}
      \/ /\ rules[k0] = None /\ rules' = rules /\ missing' = missing \cup {k0}
         /\ work'[p] = work[p] \ {w} /\ new'[p] = new[p] \cup {w.line}
  <2>1. Done(p, w) => /\ work'[p] = work[p] \ {w}
                      /\ new'[p] = new[p] \cup {w.line}
    BY DEF Done, IInv, TypeOK
  <2> HIDE DEF k0, e0
  <2> QED
    BY <1>1, <1>8, <2>1 DEF e0
<1>10. /\ work'[p] \subseteq work[p] /\ new[p] \subseteq new'[p]
       /\ new'[p] \subseteq new[p] \cup {w.line}
       /\ \A v \in work[p] : v # w => v \in work'[p]
       /\ \A k \in RuleKeys : k # k0
            => rules'[k] = rules[k] /\ (k \in missing' <=> k \in missing)
       /\ w \in work'[p] \/ (w.line \in new'[p] /\ RuleRight(k0, e0)')
  BY <1>8, <1>9 DEF IInv, TypeOK, RuleRight
<1> HIDE DEF e0, f0, k0
<1>11. /\ Mutex' /\ Resting' /\ ~Alone'
       /\ \A q \in Procs : q # p =>
            /\ ~Reloading(q) /\ ~Reloading(q)'
            /\ pc[q] \notin {"load", "nft", "work", "stale", "unload"}
            /\ pc'[q] \notin {"load", "nft", "work", "stale", "unload"}
  BY <1>3, <1>4, <1>5, <1>6, Busy
<1>12. Structured'
  <2>1. Phase(p)'
    BY <1>2, <1>4, <1>5, <1>6 DEF Phase
  <2>2. Position(p)'
    BY <1>2, <1>10, DonePosition
  <2> QED
    BY <1>3, <1>4, <1>11, <2>1, <2>2, StructureFrame DEF IInv, Structured
<1>13. Registered'
  BY <1>6 DEF Registered
<1>14. Outdated' <=> Outdated
  BY <1>2, <1>3, <1>4, <1>11 DEF Outdated, Waiting, Same
<1>15. Current' /\ Spelled'
  BY <1>2, <1>4, <1>5, <1>6, <1>11, <1>14 DEF Current, Spelled, Respells, IInv, Working
<1>16. RuleProgress'
  <2> SUFFICES ASSUME NEW e \in Range(cfg[p].ifaces), NEW f \in Fams, AsksRule(cfg[p], e, f)
               PROVE  \/ e \in Range(todo[p])
                      \/ Install(e, RuleEntry(f, e.pref)) \in work'[p]
                      \/ RuleEntry(f, e.pref) \in new'[p] /\ RuleRight(<<f, e.pref>>, e)'
    BY <1>2, <1>11 DEF RuleProgress, RuleHolds
  <2>1. CASE e = e0 /\ f = f0
    BY <1>7, <1>8, <1>10, <2>1 DEF k0
  <2>2. CASE ~(e = e0 /\ f = f0)
    <3>1. <<f, e.pref>> # k0 /\ <<f, e.pref>> \in RuleKeys
      <4>1. <<f, e.pref>> = k0 => f = f0 /\ e.pref = e0.pref
        BY DEF k0
      <4> QED
        BY <1>5, <1>7, <2>2, <4>1, Alike, AskedRule
    <3>2. Install(e, RuleEntry(f, e.pref)) # w
      <4>1. Install(e, RuleEntry(f, e.pref)).iface = e
            /\ Install(e, RuleEntry(f, e.pref)).line.fam = f
        BY RuleLine DEF Install
      <4> QED
        BY <2>2, <4>1 DEF e0, f0
    <3>3. \/ e \in Range(todo[p])
          \/ Install(e, RuleEntry(f, e.pref)) \in work[p]
          \/ RuleEntry(f, e.pref) \in new[p] /\ RuleRight(<<f, e.pref>>, e)
      BY <1>5 DEF IInv, Working, RuleProgress, RuleHolds
    <3> QED
      BY <1>10, <3>1, <3>2, <3>3 DEF RuleRight
  <2> QED
    BY <2>1, <2>2
<1>17. RouteProgress'
  <2> SUFFICES ASSUME NEW e \in Range(cfg[p].ifaces), NEW f \in Fams, NEW s \in Spellings,
                      AsksRoute(cfg[p], e, f, s)
               PROVE  \/ e \in Range(todo[p])
                      \/ Install(e, RouteEntry(f, e.table, s)) \in work'[p]
                      \/ /\ RouteHolds(new[p], e, f, s)'
                         /\ Skipped(new'[p], e) => ~RoutesLeft(p, e)'
    BY <1>2, <1>11 DEF RouteProgress
  <2>1. \/ e \in Range(todo[p])
        \/ Install(e, RouteEntry(f, e.table, s)) \in work[p]
        \/ /\ RouteHolds(new[p], e, f, s)
           /\ Skipped(new[p], e) => ~RoutesLeft(p, e)
    BY <1>5 DEF IInv, Working, RouteProgress
  <2>2. Install(e, RouteEntry(f, e.table, s)) # w
    <3>1. Install(e, RouteEntry(f, e.table, s)).line.kind = "route"
      BY RouteLine DEF Install
    <3> QED
      BY <1>1, <3>1
  <2>3. Skipped(new'[p], e) <=> Skipped(new[p], e)
    BY <1>1, <1>10 DEF Skipped
  <2>4. RoutesLeft(p, e)' => RoutesLeft(p, e)
    BY <1>10 DEF RoutesLeft
  <2>5. Excused(e.name) => Excused(e.name)'
    BY <1>4, <1>14 DEF Excused
  <2>6. RouteHolds(new[p], e, f, s) => RouteHolds(new[p], e, f, s)'
    BY <1>4, <1>10, <2>3, <2>5 DEF RouteHolds, RouteRight
  <2> QED
    BY <1>10, <2>1, <2>2, <2>3, <2>4, <2>6
<1>18. Remembering
  <2>1. ASSUME NEW c \in Configs, Remembered(c) PROVE Remembered(c)'
    BY <1>2, <1>4, <1>11, <2>1 DEF Remembered, Unloaded
  <2>2. \A q \in Procs : Reloading(q) => q = p
    BY <1>11
  <2> QED
    BY <1>2, <1>6, <1>10, <2>1, <2>2 DEF Remembering
<1>19. RulesCovered' /\ RoutesCovered'
  <2>1. \A k \in RuleKeys :
          rules'[k] \in {None, rules[k]} \/ RuleNamed(new'[p], k)
    <3>1. rules'[k0] = None \/ w.line \in new'[p]
      BY <1>8, <1>9 DEF IInv, TypeOK
    <3>2. w.line = RuleEntry(k0[1], k0[2])
      BY <1>8 DEF k0
    <3> QED
      BY <1>10, <3>1, <3>2 DEF RuleNamed
  <2>2. \A k \in RouteKeys : routes'[k] \in {None, routes[k]}
    BY <1>4
  <2> QED
    BY <1>4, <1>6, <1>18, <2>1, <2>2, CoveredFrame DEF IInv, Covered
<1>20. RulesKept' /\ RoutesKept'
  BY <1>2, <1>11 DEF RulesKept, RoutesKept
<1>21. NftRested'
  <2>1. NftHolds
    BY <1>2, <1>5 DEF IInv, NftRested
  <2>2. NftHolds'
    BY <1>4, <1>14, <2>1 DEF NftHolds
  <2> QED
    BY <1>2, <1>6, <1>11, <2>2 DEF NftRested
<1> QED
  BY <1>11, <1>12, <1>13, <1>15, <1>16, <1>17, <1>19, <1>20, <1>21 DEF Covered, Working

LEMMA ReplaceRouteStep ==
  ASSUME IInv, NEW p \in Procs, ReplaceRoute(p)
  PROVE  (Structured /\ Registered /\ Working /\ Resting /\ Covered /\ NftRested)'
<1>1. PICK w \in work[p] :
        /\ w.line.kind = "route" /\ Done(p, w)
        /\ \/ /\ w.iface.name \in up
              /\ routes' = [routes EXCEPT ![RouteKey(w.line)] = w.iface.name]
              /\ refused' = refused \ {RouteKey(w.line)}
           \/ /\ w.iface.name \notin up
              /\ refused' = refused \cup {RouteKey(w.line)} /\ routes' = routes
  BY DEF ReplaceRoute, NextCommands
<1> DEFINE e0 == w.iface
           f0 == w.line.fam
           s0 == w.line.prefix
           k0 == <<f0, e0.table, Key(s0)>>
<1>2. /\ pc[p] = "work" /\ pc'[p] = "work" /\ op'[p] = op[p] /\ cfg'[p] = cfg[p]
      /\ todo'[p] = todo[p] /\ stale'[p] = stale[p]
      /\ work'[p] = work[p] \ {w} /\ new'[p] = new[p] \cup {w.line}
  BY <1>1 DEF ReplaceRoute, Done, IInv, TypeOK
<1>3. \A q \in Procs : q # p => Same(q)
  BY <1>1 DEF ReplaceRoute, Done, IInv, TypeOK, Same
<1>4. /\ conf' = conf /\ up' = up /\ pending' = pending /\ lock' = lock /\ triggers' = triggers
      /\ stateFile' = stateFile /\ abandoned' = abandoned /\ unseen' = unseen
      /\ respelled' = respelled /\ missing' = missing /\ nftFailed' = nftFailed
      /\ File' = File /\ rules' = rules /\ nft' = nft
  BY DEF ReplaceRoute, system, File
<1>5. /\ Phase(p) /\ Position(p) /\ Reloading(p) /\ Active(p)
      /\ op[p] # "stop" /\ cfg[p] \in Configs /\ stale[p] = {}
  BY <1>2, AtWork
<1>6. Active(p)' /\ Reloading(p)'
  BY <1>2, <1>5 DEF Reloading, Active
<1>7. /\ e0 \in Range(cfg[p].ifaces) \ Range(todo[p])
      /\ Asks(cfg[p], e0, w.line) /\ w = Install(e0, w.line)
  BY <1>2, AtCommand
<1>8. /\ AsksRoute(cfg[p], e0, f0, s0) /\ w.line = RouteEntry(f0, e0.table, s0)
      /\ w.line.table = e0.table /\ RouteKey(w.line) = k0 /\ k0 \in RouteKeys
      /\ s0 \in Spellings /\ InstallsRoute(cfg[p], k0, e0.name) /\ e0.name \in Names
  <2>1. /\ AsksRoute(cfg[p], e0, f0, s0) /\ w.line = RouteEntry(f0, e0.table, s0)
        /\ w.line.table = e0.table /\ RouteKey(w.line) = k0
    BY <1>1, <1>5, <1>7, AskedLine
  <2> QED
    BY <1>5, <2>1, AskedRoute
<1>9. /\ \A k \in RouteKeys : k # k0 => routes'[k] = routes[k] /\ (k \in refused' <=> k \in refused)
      /\ \/ e0.name \in up /\ routes'[k0] = e0.name
         \/ e0.name \notin up /\ routes'[k0] = routes[k0] /\ k0 \in refused'
  BY <1>1, <1>8 DEF IInv, TypeOK
<1> HIDE DEF e0, f0, s0, k0
<1>11. /\ Mutex' /\ Resting' /\ ~Alone'
       /\ \A q \in Procs : q # p =>
            /\ ~Reloading(q) /\ ~Reloading(q)'
            /\ pc[q] \notin {"load", "nft", "work", "stale", "unload"}
            /\ pc'[q] \notin {"load", "nft", "work", "stale", "unload"}
  BY <1>3, <1>4, <1>5, <1>6, Busy
<1>12. Structured'
  <2>1. Phase(p)'
    BY <1>2, <1>4, <1>5, <1>6 DEF Phase
  <2>2. Position(p)'
    BY <1>2, DonePosition
  <2> QED
    BY <1>3, <1>4, <1>11, <2>1, <2>2, StructureFrame DEF IInv, Structured
<1>13. Registered'
  BY <1>6 DEF Registered
<1>14. Outdated' <=> Outdated
  BY <1>2, <1>3, <1>4, <1>11 DEF Outdated, Waiting, Same
<1>15. Current' /\ Spelled'
  BY <1>2, <1>4, <1>5, <1>6, <1>11, <1>14 DEF Current, Spelled, Respells, IInv, Working
<1>16. RuleProgress'
  <2> SUFFICES ASSUME NEW e \in Range(cfg[p].ifaces), NEW f \in Fams, AsksRule(cfg[p], e, f)
               PROVE  \/ e \in Range(todo[p])
                      \/ Install(e, RuleEntry(f, e.pref)) \in work'[p]
                      \/ RuleEntry(f, e.pref) \in new'[p] /\ RuleRight(<<f, e.pref>>, e)'
    BY <1>2, <1>11 DEF RuleProgress, RuleHolds
  <2>1. Install(e, RuleEntry(f, e.pref)) # w
    <3>1. Install(e, RuleEntry(f, e.pref)).line.kind = "rule"
      BY RuleLine DEF Install
    <3> QED
      BY <1>1, <3>1
  <2>2. \/ e \in Range(todo[p])
        \/ Install(e, RuleEntry(f, e.pref)) \in work[p]
        \/ RuleEntry(f, e.pref) \in new[p] /\ RuleRight(<<f, e.pref>>, e)
    BY <1>5 DEF IInv, Working, RuleProgress, RuleHolds
  <2> QED
    BY <1>2, <1>4, <2>1, <2>2 DEF RuleRight
<1>17. RouteProgress'
  <2> SUFFICES ASSUME NEW e \in Range(cfg[p].ifaces), NEW f \in Fams, NEW s \in Spellings,
                      AsksRoute(cfg[p], e, f, s)
               PROVE  \/ e \in Range(todo[p])
                      \/ Install(e, RouteEntry(f, e.table, s)) \in work'[p]
                      \/ /\ RouteHolds(new[p], e, f, s)'
                         /\ Skipped(new'[p], e) => ~RoutesLeft(p, e)'
    BY <1>2, <1>11 DEF RouteProgress
  <2> DEFINE k == <<f, e.table, Key(s)>>
             l == RouteEntry(f, e.table, s)
  <2>1. /\ k \in RouteKeys /\ e.name \in Names
        /\ l.kind = "route" /\ l.table = e.table
    BY <1>5, AskedRoute, RouteLine
  <2>2. k = k0 => e = e0
    <3>1. k = k0 => e.table = e0.table
      BY DEF k0
    <3> QED
      BY <1>5, <1>7, <3>1, Alike
  <2>3. Excused(e.name) => Excused(e.name)'
    BY <1>4, <1>14 DEF Excused
  <2>4. e = e0 => \/ e.name \in up
                  \/ Excused(e.name)'
    BY <1>4 DEF Excused
  <2>5. ASSUME Install(e, l) \in work[p], Install(e, l) # w
        PROVE  Install(e, l) \in work'[p]
    BY <1>2, <2>5
  <2>6. ASSUME l \in new'[p],
               k # k0 => /\ RouteRight(k, e.name)
                         /\ respelled \/ routes[k] = e.name \/ Excused(e.name)
        PROVE  RouteHolds(new[p], e, f, s)' /\ ~Skipped(new'[p], e)
    <3>1. RouteRight(k, e.name)' /\ (respelled' \/ routes'[k] = e.name \/ Excused(e.name)')
      <4>1. CASE k = k0
        BY <1>9, <2>2, <2>4, <4>1 DEF RouteRight
      <4>2. CASE k # k0
        BY <1>4, <1>9, <2>1, <2>3, <2>6, <4>2 DEF RouteRight
      <4> QED
        BY <4>1, <4>2
    <3>2. ~Skipped(new'[p], e)
      BY <2>1, <2>6 DEF Skipped
    <3> QED
      BY <2>6, <3>1, <3>2 DEF RouteHolds
  <2>7. CASE Install(e, l) = w
    <3>1. l = w.line /\ e = e0
      BY <2>7 DEF Install, e0
    <3>2. k = k0
      <4>1. f = f0 /\ s = s0
        BY <3>1, RouteLine DEF f0, s0
      <4> QED
        BY <3>1, <4>1 DEF k0
    <3> QED
      BY <1>2, <2>6, <3>1, <3>2
  <2>8. CASE /\ l \in new[p] /\ RouteRight(k, e.name)
             /\ respelled \/ routes[k] = e.name \/ Excused(e.name)
    BY <1>2, <2>6, <2>8
  <2>9. CASE Skipped(new[p], e) /\ routes[k] # e.name /\ Excused(e.name) /\ ~RoutesLeft(p, e)
    <3>1. e # e0
      BY <1>1, <2>9 DEF RoutesLeft, e0
    <3>2. e.table # e0.table
      BY <1>5, <1>7, <3>1, Alike
    <3>3. Skipped(new'[p], e)
      BY <1>2, <1>8, <2>9, <3>2 DEF Skipped
    <3>4. ~RoutesLeft(p, e)'
      BY <1>2, <2>9 DEF RoutesLeft
    <3>5. routes'[k] # e.name
      BY <1>9, <2>1, <2>2, <2>9, <3>1
    <3> QED
      BY <2>3, <2>9, <3>3, <3>4, <3>5 DEF RouteHolds
  <2>10. \/ e \in Range(todo[p])
         \/ Install(e, l) \in work[p]
         \/ /\ RouteHolds(new[p], e, f, s)
            /\ Skipped(new[p], e) => ~RoutesLeft(p, e)
    BY <1>5 DEF IInv, Working, RouteProgress
  <2> QED
    BY <2>5, <2>7, <2>8, <2>9, <2>10 DEF RouteHolds
<1>18. Remembering
  <2>1. ASSUME NEW c \in Configs, Remembered(c) PROVE Remembered(c)'
    BY <1>2, <1>4, <1>11, <2>1 DEF Remembered, Unloaded
  <2>2. \A q \in Procs : Reloading(q) => q = p
    BY <1>11
  <2> QED
    BY <1>2, <1>6, <2>1, <2>2 DEF Remembering
<1>19. RulesCovered' /\ RoutesCovered'
  <2>1. \A k \in RuleKeys : rules'[k] \in {None, rules[k]}
    BY <1>4
  <2>2. \A k \in RouteKeys :
          \/ routes'[k] \in {None, routes[k]}
          \/ RouteNamed(new'[p], k) /\ InstallsRoute(cfg'[p], k, routes'[k])
    <3>1. RouteNamed(new'[p], k0)
      <4>1. w.line = RouteEntry(k0[1], k0[2], s0) /\ Key(s0) = k0[3]
        BY <1>8 DEF k0
      <4> QED
        BY <1>2, <1>8, <4>1 DEF RouteNamed
    <3>2. routes'[k0] = routes[k0] \/ InstallsRoute(cfg'[p], k0, routes'[k0])
      BY <1>2, <1>8, <1>9
    <3> QED
      BY <1>9, <3>1, <3>2
  <2> QED
    BY <1>4, <1>6, <1>18, <2>1, <2>2, CoveredFrame DEF IInv, Covered
<1>20. RulesKept' /\ RoutesKept'
  BY <1>2, <1>11 DEF RulesKept, RoutesKept
<1>21. NftRested'
  <2>1. NftHolds
    BY <1>2, <1>5 DEF IInv, NftRested
  <2>2. NftHolds'
    BY <1>4, <1>14, <2>1 DEF NftHolds
  <2> QED
    BY <1>2, <1>6, <1>11, <2>2 DEF NftRested
<1> QED
  BY <1>11, <1>12, <1>13, <1>15, <1>16, <1>17, <1>19, <1>20, <1>21 DEF Covered, Working

\* The lines to remove are known: whatever the kernel has is among them, installed,
\* or abandoned.
LEMMA StaleStep ==
  ASSUME IInv, NEW p \in Procs, Stale(p)
  PROVE  (Structured /\ Registered /\ Working /\ Resting /\ Covered /\ NftRested)'
<1>1. /\ pc[p] = "work" /\ pc'[p] = "stale" /\ op'[p] = op[p] /\ cfg'[p] = cfg[p]
      /\ todo[p] = <<>> /\ todo'[p] = todo[p] /\ work[p] = {} /\ work'[p] = work[p]
      /\ new'[p] = new[p] /\ stale'[p] = File \ new[p]
  BY DEF Stale, Goto, File, IInv, TypeOK
<1>2. \A q \in Procs : q # p => Same(q)
  BY DEF Stale, Goto, IInv, TypeOK, Same
<1>3. /\ conf' = conf /\ up' = up /\ pending' = pending /\ lock' = lock /\ triggers' = triggers
      /\ stateFile' = stateFile /\ abandoned' = abandoned /\ unseen' = unseen
      /\ respelled' = respelled /\ refused' = refused /\ missing' = missing
      /\ nftFailed' = nftFailed
      /\ File' = File /\ rules' = rules /\ routes' = routes /\ nft' = nft
  BY DEF Stale, system, kernel, ghosts, File
<1>4. /\ Phase(p) /\ Position(p) /\ Reloading(p) /\ Active(p)
      /\ op[p] # "stop" /\ cfg[p] \in Configs
  BY <1>1, AtWork
<1>5. Active(p)' /\ Reloading(p)'
  BY <1>1, <1>4 DEF Reloading, Active
<1>6. /\ Mutex' /\ Resting' /\ ~Alone'
      /\ \A q \in Procs : q # p =>
           /\ ~Reloading(q) /\ ~Reloading(q)'
           /\ pc[q] \notin {"load", "nft", "work", "stale", "unload"}
           /\ pc'[q] \notin {"load", "nft", "work", "stale", "unload"}
  BY <1>2, <1>3, <1>4, <1>5, Busy
<1>7. Structured'
  <2>1. Phase(p)'
    BY <1>1, <1>3, <1>4, <1>5 DEF Phase
  <2>2. Position(p)'
    BY <1>1, <1>4 DEF Position
  <2> QED
    BY <1>2, <1>3, <1>6, <2>1, <2>2, StructureFrame DEF IInv, Structured
<1>8. Registered'
  BY <1>5 DEF Registered
<1>9. Outdated' <=> Outdated
  BY <1>1, <1>2, <1>3, <1>6 DEF Outdated, Waiting, Same
<1>10. Working'
  <2>1. \A i \in Names : Excused(i) => Excused(i)'
    BY <1>3, <1>9 DEF Excused
  <2>2. Undisturbing
    BY <1>1, <1>3, <1>4, <1>6, <1>9, <2>1 DEF Undisturbing
  <2> QED
    BY <2>2, WorkingFrame DEF IInv, Structured
<1>11. \A c : Remembered(c) => c \in abandoned
  BY <1>1, <1>6 DEF Remembered, Unloaded
<1>12. RulesCovered' /\ RoutesCovered'
  <2>1. ASSUME NEW c \in Configs, Remembered(c) PROVE Remembered(c)'
    BY <1>3, <1>11, <2>1 DEF Remembered
  <2>2. \A q \in Procs : Reloading(q) => q = p
    BY <1>6
  <2>3. Remembering
    BY <1>1, <1>5, <2>1, <2>2 DEF Remembering
  <2> QED
    BY <1>3, <2>3, CoveredFrame DEF IInv, Covered
<1>13. RulesKept'
  <2> SUFFICES ASSUME NEW k \in RuleKeys, rules[k] # None
               PROVE  \/ RuleNamed(new[p] \cup stale'[p], k)
                      \/ \E c \in abandoned : InstallsRule(c, k)
    BY <1>1, <1>3, <1>6 DEF RulesKept
  <2>1. \/ RuleNamed(File, k) \/ RuleNamed(new[p], k)
        \/ \E c \in Configs : Remembered(c) /\ InstallsRule(c, k)
    BY <1>6 DEF IInv, Covered, RulesCovered
  <2> QED
    BY <1>1, <1>11, <2>1 DEF RuleNamed
<1>14. RoutesKept'
  <2> SUFFICES ASSUME NEW k \in RouteKeys, routes[k] # None
               PROVE  \/ RouteNamed(new[p] \cup stale'[p], k)
                      \/ \E c \in abandoned : InstallsRoute(c, k, routes[k])
    BY <1>1, <1>3, <1>6 DEF RoutesKept
  <2>1. \/ RouteNamed(File, k) \/ RouteNamed(new[p], k)
        \/ \E c \in Configs : Remembered(c) /\ InstallsRoute(c, k, routes[k])
    BY <1>6 DEF IInv, Covered, RoutesCovered
  <2> QED
    BY <1>1, <1>11, <2>1 DEF RouteNamed
<1>15. NftRested'
  <2>1. NftHolds
    BY <1>1, <1>4 DEF IInv, NftRested
  <2>2. NftHolds'
    BY <1>3, <1>9, <2>1 DEF NftHolds
  <2> QED
    BY <1>1, <1>4, <1>5, <1>6, <2>2 DEF NftRested
<1> QED
  BY <1>6, <1>7, <1>8, <1>10, <1>12, <1>13, <1>14, <1>15 DEF Covered

\* A reload that removes has installed what its configuration asks for.
LEMMA AllInstalled ==
  ASSUME IInv, NEW p \in Procs, pc[p] = "stale", op[p] # "stop"
  PROVE  /\ Reloading(p) /\ Position(p) /\ cfg[p] \in Configs
         /\ \A e \in Range(cfg[p].ifaces), f \in Fams :
              AsksRule(cfg[p], e, f) => RuleHolds(new[p], e, f)
         /\ \A e \in Range(cfg[p].ifaces), f \in Fams, s \in Spellings :
              AsksRoute(cfg[p], e, f, s) => RouteHolds(new[p], e, f, s)
<1>1. Reloading(p)
  BY DEF Reloading
<1>2. Position(p)
  BY <1>1 DEF IInv, Structured, Positions
<1>3. Range(todo[p]) = {} /\ work[p] = {} /\ cfg[p] \in Configs
  BY <1>2 DEF Position, Range
<1> QED
  BY <1>1, <1>2, <1>3 DEF IInv, Working, RuleProgress, RouteProgress

LEMMA RemoveEntryStep ==
  ASSUME IInv, NEW p \in Procs, RemoveEntry(p)
  PROVE  (Structured /\ Registered /\ Working /\ Resting /\ Covered /\ NftRested)'
<1>1. PICK l \in stale[p] :
        /\ stale' = [stale EXCEPT ![p] = @ \ {l}]
        /\ \/ /\ l.kind = "rule"
              /\ rules' = [rules EXCEPT ![RuleKey(l)] = None]
              /\ missing' = missing \ {RuleKey(l)}
              /\ routes' = routes /\ refused' = refused
           \/ /\ l.kind = "route"
              /\ routes' = [routes EXCEPT ![RouteKey(l)] = None]
              /\ refused' = refused \ {RouteKey(l)}
              /\ rules' = rules /\ missing' = missing
  BY DEF RemoveEntry
<1>2. /\ pc[p] = "stale" /\ pc'[p] = "stale" /\ op'[p] = op[p] /\ cfg'[p] = cfg[p]
      /\ todo'[p] = todo[p] /\ work'[p] = work[p] /\ new'[p] = new[p]
      /\ stale'[p] = stale[p] \ {l}
  BY <1>1 DEF RemoveEntry, IInv, TypeOK
<1>3. \A q \in Procs : q # p => Same(q)
  BY <1>1 DEF RemoveEntry, IInv, TypeOK, Same
<1>4. /\ conf' = conf /\ up' = up /\ pending' = pending /\ lock' = lock /\ triggers' = triggers
      /\ stateFile' = stateFile /\ abandoned' = abandoned /\ unseen' = unseen
      /\ respelled' = respelled /\ nftFailed' = nftFailed
      /\ File' = File /\ nft' = nft
  BY DEF RemoveEntry, system, File
<1>5. Phase(p) /\ Active(p) /\ Active(p)' /\ (Reloading(p)' <=> Reloading(p))
  BY <1>2 DEF IInv, Structured, Phases, Active, Reloading
<1>6. l \in File \ new[p] /\ l \in Entries
  BY <1>5 DEF Phase, IInv, TypeOK
<1>7. \/ /\ l.kind = "rule" /\ l = RuleEntry(l.fam, l.pref) /\ RuleKey(l) = <<l.fam, l.pref>>
         /\ <<l.fam, l.pref>> \in RuleKeys
         /\ rules'[<<l.fam, l.pref>>] = None
         /\ \A k \in RuleKeys : k # <<l.fam, l.pref>>
              => rules'[k] = rules[k] /\ (k \in missing' <=> k \in missing)
         /\ routes' = routes /\ refused' = refused
      \/ /\ l.kind = "route" /\ l.prefix \in Spellings
         /\ l = RouteEntry(l.fam, l.table, l.prefix)
         /\ RouteKey(l) = <<l.fam, l.table, Key(l.prefix)>>
         /\ RouteKey(l) \in RouteKeys
         /\ routes'[RouteKey(l)] = None
         /\ \A k \in RouteKeys : k # RouteKey(l)
              => routes'[k] = routes[k] /\ (k \in refused' <=> k \in refused)
         /\ rules' = rules /\ missing' = missing
  <2>1. CASE l.kind = "rule"
    <3>1. /\ l = RuleEntry(l.fam, l.pref) /\ RuleKey(l) = <<l.fam, l.pref>>
          /\ <<l.fam, l.pref>> \in RuleKeys
      BY <1>6, <2>1, LineKinds, RuleKeyParts DEF RuleKey
    <3> QED
      BY <1>1, <2>1, <3>1 DEF IInv, TypeOK
  <2>2. CASE l.kind = "route"
    <3>1. /\ l = RouteEntry(l.fam, l.table, l.prefix) /\ l.prefix \in Spellings
          /\ RouteKey(l) = <<l.fam, l.table, Key(l.prefix)>>
          /\ RouteKey(l) \in RouteKeys
      BY <1>6, <2>2, LineKinds, RouteKeyParts DEF RouteKey
    <3> QED
      BY <1>1, <2>2, <3>1 DEF IInv, TypeOK
  <2> QED
    BY <1>1, <2>1, <2>2
<1>8. /\ \A k \in RuleKeys : rules'[k] \in {None, rules[k]}
      /\ \A k \in RouteKeys : routes'[k] \in {None, routes[k]}
  BY <1>7
<1>9. /\ Mutex' /\ Resting' /\ ~Alone'
      /\ \A q \in Procs : q # p =>
           /\ ~Reloading(q) /\ ~Reloading(q)'
           /\ pc[q] \notin {"load", "nft", "work", "stale", "unload"}
           /\ pc'[q] \notin {"load", "nft", "work", "stale", "unload"}
  BY <1>3, <1>4, <1>5, Busy
<1>10. Structured'
  <2>1. Phase(p)'
    BY <1>2, <1>4, <1>5 DEF Phase
  <2>2. Reloading(p) => Position(p)
    BY DEF IInv, Structured, Positions
  <2>3. Reloading(p)' => Position(p)'
    BY <1>2, <1>5, <2>2 DEF Position
  <2> QED
    BY <1>3, <1>4, <1>9, <2>1, <2>3, StructureFrame DEF IInv, Structured
<1>11. Registered'
  BY <1>4, <1>5, <1>9, StillRegistered DEF IInv
<1>12. Outdated' <=> Outdated
  BY <1>2, <1>3, <1>4, <1>9 DEF Outdated, Waiting, Same
<1>13. Current' /\ Spelled'
  BY <1>2, <1>4, <1>5, <1>9, <1>12 DEF Current, Spelled, Respells, IInv, Working
<1>14. RuleProgress'
  <2> SUFFICES ASSUME Reloading(p), NEW e \in Range(cfg[p].ifaces), NEW f \in Fams,
                      AsksRule(cfg[p], e, f)
               PROVE  RuleEntry(f, e.pref) \in new[p] /\ RuleRight(<<f, e.pref>>, e)'
    BY <1>2, <1>5, <1>9 DEF RuleProgress, RuleHolds
  <2>1. RuleEntry(f, e.pref) \in new[p] /\ RuleRight(<<f, e.pref>>, e)
    BY <1>2, AllInstalled DEF Reloading, RuleHolds
  <2>2. <<f, e.pref>> \in RuleKeys
    BY <1>2, AllInstalled, AskedRule DEF Reloading
  <2>3. <<f, e.pref>> # <<l.fam, l.pref>> \/ l.kind # "rule"
    BY <1>6, <1>7, <2>1
  <2> QED
    BY <1>7, <2>1, <2>2, <2>3 DEF RuleRight
<1>15. RouteProgress'
  <2> SUFFICES ASSUME Reloading(p), NEW e \in Range(cfg[p].ifaces), NEW f \in Fams,
                      NEW s \in Spellings, AsksRoute(cfg[p], e, f, s)
               PROVE  RouteHolds(new[p], e, f, s)' /\ ~RoutesLeft(p, e)'
    BY <1>2, <1>5, <1>9 DEF RouteProgress
  <2> DEFINE k == <<f, e.table, Key(s)>>
  <2>1. /\ RouteHolds(new[p], e, f, s) /\ cfg[p] \in Configs /\ Position(p)
    BY <1>2, AllInstalled DEF Reloading
  <2>2. ~RoutesLeft(p, e)'
    BY <1>2, <2>1 DEF Position, RoutesLeft
  <2>3. /\ k \in RouteKeys /\ e.name \in Names /\ s \in {"default"} \cup cfg[p].prefixes
    BY <2>1, AskedRoute
  <2>4. Excused(e.name) => Excused(e.name)'
    BY <1>4, <1>12 DEF Excused
  <2>5. CASE routes'[k] = routes[k] /\ (k \in refused' <=> k \in refused)
    BY <1>2, <1>4, <2>1, <2>2, <2>4, <2>5 DEF RouteHolds, RouteRight, Skipped
  <2>6. CASE l.kind = "route" /\ k = RouteKey(l)
    <3>1. routes'[k] = None
      BY <1>7, <2>6
    <3>2. CASE RouteEntry(f, e.table, s) \in new[p]
      <4>1. /\ l = RouteEntry(f, e.table, l.prefix) /\ Key(l.prefix) = Key(s)
        BY <1>7, <2>6
      <4>2. l.prefix # s
        BY <1>6, <3>2, <4>1
      <4>3. l \in stateFile /\ stateFile # None
        BY <1>6 DEF File
      <4>4. Respells(cfg[p])
        BY <2>3, <2>6, <4>1, <4>2, <4>3 DEF Respells
      <4>5. respelled
        BY <4>4 DEF IInv, Working, Spelled
      <4> QED
        BY <1>2, <1>4, <2>2, <3>1, <3>2, <4>5 DEF RouteHolds, RouteRight
    <3>3. CASE Skipped(new[p], e) /\ Excused(e.name)
      BY <1>2, <2>2, <2>3, <2>4, <3>1, <3>3, NoneAssumption DEF RouteHolds, Skipped
    <3> QED
      BY <2>1, <3>2, <3>3 DEF RouteHolds
  <2> QED
    BY <1>7, <2>3, <2>5, <2>6
<1>16. RulesCovered' /\ RoutesCovered'
  <2>1. ASSUME NEW c \in Configs, Remembered(c) PROVE Remembered(c)'
    BY <1>2, <1>4, <1>9, <2>1 DEF Remembered, Unloaded
  <2>2. \A q \in Procs : Reloading(q) => q = p
    BY <1>9
  <2>3. Remembering
    BY <1>2, <1>5, <2>1, <2>2 DEF Remembering
  <2> QED
    BY <1>4, <1>8, <2>3, CoveredFrame DEF IInv, Covered
<1>17. RulesKept'
  <2> SUFFICES ASSUME NEW k \in RuleKeys, rules'[k] # None
               PROVE  \/ RuleNamed(new[p] \cup stale'[p], k)
                      \/ \E c \in abandoned : InstallsRule(c, k)
    BY <1>2, <1>4, <1>9 DEF RulesKept
  <2>1. \/ RuleNamed(new[p] \cup stale[p], k)
        \/ \E c \in abandoned : InstallsRule(c, k)
    BY <1>2, <1>8 DEF IInv, Covered, RulesKept
  <2>2. RuleEntry(k[1], k[2]) # l
    <3>1. ASSUME RuleEntry(k[1], k[2]) = l PROVE FALSE
      <4>1. l.kind = "rule" /\ l.fam = k[1] /\ l.pref = k[2]
        BY <3>1, RuleLine
      <4>2. k = <<l.fam, l.pref>>
        BY <4>1, RuleKeyParts
      <4> QED
        BY <1>7, <4>1, <4>2
    <3> QED
      BY <3>1
  <2> QED
    BY <1>2, <2>1, <2>2 DEF RuleNamed
<1>18. RoutesKept'
  <2> SUFFICES ASSUME NEW k \in RouteKeys, routes'[k] # None
               PROVE  \/ RouteNamed(new[p] \cup stale'[p], k)
                      \/ \E c \in abandoned : InstallsRoute(c, k, routes'[k])
    BY <1>2, <1>4, <1>9 DEF RoutesKept
  <2>1. routes'[k] = routes[k]
    BY <1>8
  <2>2. \/ RouteNamed(new[p] \cup stale[p], k)
        \/ \E c \in abandoned : InstallsRoute(c, k, routes[k])
    BY <1>2, <2>1 DEF IInv, Covered, RoutesKept
  <2>3. ASSUME NEW s \in Spellings, Key(s) = k[3] PROVE RouteEntry(k[1], k[2], s) # l
    <3>1. ASSUME RouteEntry(k[1], k[2], s) = l PROVE FALSE
      <4>1. l.kind = "route" /\ l.fam = k[1] /\ l.table = k[2] /\ l.prefix = s
        BY <3>1, RouteLine
      <4>2. k = RouteKey(l)
        BY <1>7, <2>3, <4>1, RouteKeyParts
      <4> QED
        BY <1>7, <4>1, <4>2
    <3> QED
      BY <3>1
  <2> QED
    BY <1>2, <2>1, <2>2, <2>3 DEF RouteNamed
<1>19. NftRested'
  <2>1. \A q \in Procs : pc'[q] = "stale" /\ op'[q] = "stop" => pc[q] = "stale" /\ op[q] = "stop"
    BY <1>2, <1>9
  <2>2. \A q \in Procs : Reloading(q)' => Reloading(q) /\ (pc'[q] = "nft" <=> pc[q] = "nft")
    BY <1>2, <1>5, <1>9
  <2>3. \A q \in Procs : Reloading(q) => Reloading(q)'
    BY <1>5, <1>9
  <2> QED
    BY <1>4, <1>9, <1>12, <2>1, <2>2, <2>3, NftFrame DEF IInv
<1> QED
  BY <1>9, <1>10, <1>11, <1>13, <1>14, <1>15, <1>16, <1>17, <1>18, <1>19 DEF Covered, Working

LEMMA UnloadStep ==
  ASSUME IInv, NEW p \in Procs, Unload(p)
  PROVE  (Structured /\ Registered /\ Working /\ Resting /\ Covered /\ NftRested)'
<1>1. /\ pc[p] = "unload" /\ pc'[p] = "stale" /\ op'[p] = op[p] /\ cfg'[p] = cfg[p]
      /\ todo'[p] = todo[p] /\ work'[p] = work[p] /\ new'[p] = new[p]
      /\ stale'[p] = File
  BY DEF Unload, Goto, File, IInv, TypeOK
<1>2. \A q \in Procs : q # p => Same(q)
  BY DEF Unload, Goto, IInv, TypeOK, Same
<1>3. /\ lock' = lock /\ triggers' = triggers
      /\ stateFile' = stateFile /\ unseen' = unseen
      /\ abandoned \subseteq abandoned' /\ abandoned' \subseteq Configs
      /\ File' = File /\ nft' = None
  BY DEF Unload, system, File, IInv, TypeOK
<1>4. Phase(p) /\ op[p] = "stop"
  BY <1>1 DEF IInv, Structured, Phases, Phase
<1>5. /\ Active(p) /\ Active(p)' /\ ~Reloading(p) /\ ~Reloading(p)'
      /\ cfg[p] = None /\ todo[p] = <<>> /\ work[p] = {} /\ new[p] = {}
  BY <1>1, <1>4 DEF Reloading, Active, Phase
<1>6. /\ Mutex' /\ Resting' /\ ~Alone'
      /\ \A q \in Procs : q # p =>
           /\ ~Reloading(q) /\ ~Reloading(q)'
           /\ pc[q] \notin {"load", "nft", "work", "stale", "unload"}
           /\ pc'[q] \notin {"load", "nft", "work", "stale", "unload"}
  BY <1>2, <1>3, <1>5, Busy
<1>7. \A q \in Procs : ~Reloading(q) /\ ~Reloading(q)'
  BY <1>5, <1>6
<1>8. Structured'
  <2>1. Phase(p)'
    BY <1>1, <1>3, <1>4, <1>5 DEF Phase
  <2> QED
    BY <1>2, <1>3, <1>5, <1>6, <2>1, StructureFrame DEF IInv, Structured
<1>9. Registered'
  BY <1>3, <1>7, StillRegistered DEF IInv
<1>10. Working'
  BY <1>7 DEF Working, Current, Spelled, RuleProgress, RouteProgress
<1>11. \A c : Remembered(c) => c \in abandoned \/ (stateFile = None /\ c = conf)
  BY <1>1, <1>6 DEF Remembered
<1>a. \A q \in Procs : pc[q] \in {"idle", "lock", "load", "unload"}
  BY <1>1, <1>6 DEF IInv, TypeOK
<1>12. ASSUME NEW k \in RuleKeys, rules'[k] # None
       PROVE  RuleNamed(File, k) \/ \E c \in abandoned' : InstallsRule(c, k)
  <2>1. /\ rules[k] # None
        /\ stateFile = None => ~InstallsRule(conf, k) \/ conf \in abandoned'
    BY <1>12, <1>a DEF Unload, FlushLegacy, InstallsRule, Legacy
  <2>2. RuleNamed(File, k) \/ \E c \in Configs : Remembered(c) /\ InstallsRule(c, k)
    BY <1>7, <2>1 DEF IInv, Covered, RulesCovered
  <2> QED
    BY <1>3, <1>11, <2>1, <2>2
<1>13. ASSUME NEW k \in RouteKeys, routes'[k] # None
       PROVE  RouteNamed(File, k) \/ \E c \in abandoned' : InstallsRoute(c, k, routes'[k])
  <2>1. /\ routes[k] # None /\ routes'[k] = routes[k]
        /\ stateFile = None => ~InstallsRoute(conf, k, routes[k]) \/ conf \in abandoned'
    BY <1>13, <1>a DEF Unload, FlushLegacy, InstallsRoute, Legacy
  <2>2. RouteNamed(File, k) \/ \E c \in Configs : Remembered(c) /\ InstallsRoute(c, k, routes[k])
    BY <1>7, <2>1 DEF IInv, Covered, RoutesCovered
  <2> QED
    BY <1>3, <1>11, <2>1, <2>2
<1>14. RulesCovered' /\ RoutesCovered'
  <2>1. \A c \in abandoned' : c \in Configs /\ Remembered(c)'
    BY <1>3 DEF Remembered
  <2>2. RulesCovered'
    BY <1>3, <1>12, <2>1 DEF RulesCovered
  <2>3. RoutesCovered'
    BY <1>3, <1>13, <2>1 DEF RoutesCovered
  <2> QED
    BY <2>2, <2>3
<1>15. RulesKept' /\ RoutesKept'
  <2>1. new'[p] \cup stale'[p] = File
    BY <1>1, <1>5
  <2>2. RulesKept'
    BY <1>3, <1>6, <1>12, <2>1 DEF RulesKept
  <2>3. RoutesKept'
    BY <1>3, <1>6, <1>13, <2>1 DEF RoutesKept
  <2> QED
    BY <2>2, <2>3
<1>16. NftRested'
  BY <1>3, <1>6, <1>7 DEF NftRested
<1> QED
  BY <1>6, <1>8, <1>9, <1>10, <1>14, <1>15, <1>16 DEF Covered

\* The end of a stop, and of a reload.
LEMMA Ended ==
  ASSUME IInv, NEW p \in Procs, Finish(p)
  PROVE  /\ pc[p] = "stale" /\ stale[p] = {} /\ pc'[p] = "idle"
         /\ \A q \in Procs : q # p => Same(q)
         /\ Structured' /\ Registered' /\ Working' /\ (Outdated' <=> Outdated)
         /\ \A q \in Procs : ~Reloading(q)' /\ pc'[q] \notin {"nft", "work", "stale"}
         /\ \A q \in Procs : q # p => ~Reloading(q)
         /\ Phase(p)
<1>1. /\ pc[p] = "stale" /\ stale[p] = {}
      /\ pc'[p] = "idle" /\ op'[p] = "none" /\ cfg'[p] = None /\ todo'[p] = <<>>
      /\ work'[p] = {} /\ new'[p] = {} /\ stale'[p] = {}
      /\ \A q \in Procs : q # p => Same(q)
  BY ResetParts DEF IInv, Finish
<1>2. lock' = None /\ pending' = pending /\ unseen' = unseen
  BY DEF Finish
<1>3. Active(p) /\ ~Active(p)' /\ ~Reloading(p)' /\ lock = p
  BY <1>1 DEF Active, Reloading, IInv, Structured, Mutex
<1>4. \A q \in Procs : q # p =>
        /\ ~Reloading(q) /\ ~Reloading(q)' /\ pc'[q] = pc[q]
        /\ pc[q] \notin {"load", "nft", "work", "stale", "unload"}
  BY <1>1, <1>3, OnlyOne, SameReloading DEF IInv, Structured, Same
<1>5. Mutex'
  BY <1>1, <1>2, <1>3, LockFrame, NoneAssumption DEF IInv, Structured
<1>6. Phase(p)'
  BY <1>1 DEF Phase
<1>7. Structured'
  BY <1>1, <1>3, <1>4, <1>5, <1>6, StructureFrame DEF IInv, Structured
<1>8. Registered'
  <2>1. new[p] # None
    BY NoneAssumption DEF IInv, TypeOK
  <2>3. op[p] = "stop" => triggers' = None
    BY DEF Finish
  <2>4. op[p] # "stop" => stateFile' = new[p]
    BY DEF Finish
  <2> QED
    BY <2>1, <2>3, <2>4 DEF Registered
<1>9. \A q \in Procs : ~Reloading(q)'
  BY <1>3, <1>4
<1>10. Working'
  BY <1>9 DEF Working, Current, Spelled, RuleProgress, RouteProgress
<1>11. Outdated' <=> Outdated
  BY <1>1, <1>2, <1>4 DEF Outdated, Waiting, Same
<1> QED
  BY <1>1, <1>4, <1>7, <1>8, <1>9, <1>10, <1>11 DEF IInv, Structured, Phases

LEMMA FinishStopStep ==
  ASSUME IInv, NEW p \in Procs, Finish(p), op[p] = "stop"
  PROVE  (Structured /\ Registered /\ Working /\ Resting /\ Covered /\ NftRested)'
<1>1. /\ pc[p] = "stale" /\ stale[p] = {}
      /\ Structured' /\ Registered' /\ Working'
      /\ \A q \in Procs : ~Reloading(q)' /\ pc'[q] \notin {"nft", "work", "stale"}
      /\ Phase(p)
  BY Ended
<1>2. cfg[p] = None /\ new[p] = {}
  BY <1>1 DEF Phase, Reloading
<1>3. /\ stateFile' = None /\ rules' = rules /\ routes' = routes /\ nft' = nft
      /\ abandoned' = abandoned
  <2>1. None \notin abandoned
    BY NoneAssumption DEF IInv, TypeOK
  <2> QED
    BY <1>2, <2>1 DEF Finish, kernel
<1>4. Resting'
  BY <1>3 DEF Resting, FileRested, RulesRested, RoutesRested, Rested
<1>5. \A c \in abandoned : c \in Configs /\ Remembered(c)'
  BY <1>3 DEF Remembered, IInv, TypeOK
<1>6. RulesCovered'
  <2> SUFFICES ASSUME NEW k \in RuleKeys, rules[k] # None
               PROVE  \E c \in Configs : Remembered(c)' /\ InstallsRule(c, k)
    BY <1>3 DEF RulesCovered
  <2>1. ~RuleNamed(new[p] \cup stale[p], k)
    BY <1>1, <1>2 DEF RuleNamed
  <2> QED
    BY <1>1, <1>5, <2>1 DEF IInv, Covered, RulesKept
<1>7. RoutesCovered'
  <2> SUFFICES ASSUME NEW k \in RouteKeys, routes[k] # None
               PROVE  \E c \in Configs : Remembered(c)' /\ InstallsRoute(c, k, routes[k])
    BY <1>3 DEF RoutesCovered
  <2>1. ~RouteNamed(new[p] \cup stale[p], k)
    BY <1>1, <1>2 DEF RouteNamed
  <2> QED
    BY <1>1, <1>5, <2>1 DEF IInv, Covered, RoutesKept
<1>8. RulesKept' /\ RoutesKept'
  BY <1>1 DEF RulesKept, RoutesKept
<1>9. NftRested'
  BY <1>1, <1>3 DEF NftRested, IInv
<1> QED
  BY <1>1, <1>4, <1>6, <1>7, <1>8, <1>9 DEF Covered

LEMMA FinishReloadStep ==
  ASSUME IInv, NEW p \in Procs, Finish(p), op[p] # "stop"
  PROVE  (Structured /\ Registered /\ Working /\ Resting /\ Covered /\ NftRested)'
<1>1. /\ pc[p] = "stale" /\ stale[p] = {}
      /\ Structured' /\ Registered' /\ Working' /\ (Outdated' <=> Outdated)
      /\ \A q \in Procs : ~Reloading(q)' /\ pc'[q] \notin {"nft", "work", "stale"}
      /\ Phase(p)
  BY Ended
<1>2. /\ Reloading(p) /\ Position(p) /\ cfg[p] \in Configs
      /\ \A e \in Range(cfg[p].ifaces), f \in Fams :
           AsksRule(cfg[p], e, f) => RuleHolds(new[p], e, f)
      /\ \A e \in Range(cfg[p].ifaces), f \in Fams, s \in Spellings :
           AsksRoute(cfg[p], e, f, s) => RouteHolds(new[p], e, f, s)
  BY <1>1, AllInstalled
<1>3. new[p] # None
  BY NoneAssumption DEF IInv, TypeOK
<1>4. /\ stateFile' = new[p] /\ File' = new[p] /\ conf' = conf /\ up' = up
      /\ unseen' = unseen /\ respelled' = respelled /\ refused' = refused
      /\ missing' = missing /\ nftFailed' = nftFailed
      /\ rules' = rules /\ routes' = routes /\ nft' = nft
      /\ abandoned' = abandoned \ {cfg[p]}
  BY <1>3 DEF Finish, kernel, File
<1>5. Rested' => cfg[p] = conf
  BY <1>1, <1>2 DEF Rested, IInv, Working, Current
<1>6. FileRested'
  <2>1. \A l \in new[p] : \E e \in Range(cfg[p].ifaces) : Asks(cfg[p], e, l)
    BY <1>2 DEF Position
  <2> QED
    BY <1>4, <1>5, <2>1 DEF FileRested
<1>7. RulesRested'
  BY <1>2, <1>4, <1>5 DEF RulesRested, RuleHolds, RuleRight
<1>8. RoutesRested'
  <2> SUFFICES ASSUME Rested', NEW e \in Range(conf.ifaces), NEW f \in Fams,
                      NEW s \in Spellings, AsksRoute(conf, e, f, s)
               PROVE  RouteHolds(File, e, f, s)'
    BY <1>4 DEF RoutesRested
  <2>1. RouteHolds(new[p], e, f, s)
    BY <1>2, <1>5
  <2>2. Excused(e.name) => Excused(e.name)'
    BY <1>1, <1>4 DEF Excused
  <2> QED
    BY <1>4, <2>1, <2>2 DEF RouteHolds, RouteRight, Skipped
<1>9. \A c \in abandoned : c \in Configs /\ (c = cfg[p] \/ Remembered(c)')
  BY <1>4 DEF Remembered, IInv, TypeOK
<1>10. RulesCovered'
  <2> SUFFICES ASSUME NEW k \in RuleKeys, rules[k] # None
               PROVE  \/ RuleNamed(new[p], k)
                      \/ \E c \in Configs : Remembered(c)' /\ InstallsRule(c, k)
    BY <1>4 DEF RulesCovered
  <2>1. RuleNamed(new[p], k) \/ \E c \in abandoned : InstallsRule(c, k)
    BY <1>1 DEF IInv, Covered, RulesKept, RuleNamed
  <2>2. ASSUME InstallsRule(cfg[p], k) PROVE RuleNamed(new[p], k)
    <3>1. PICK e \in Range(cfg[p].ifaces) : AsksRule(cfg[p], e, k[1]) /\ e.pref = k[2]
      BY <2>2 DEF InstallsRule
    <3>2. k[1] \in Fams
      BY RuleKeyParts
    <3> QED
      BY <1>2, <3>1, <3>2 DEF RuleHolds, RuleNamed
  <2> QED
    BY <1>9, <2>1, <2>2
<1>11. RoutesCovered'
  <2> SUFFICES ASSUME NEW k \in RouteKeys, routes[k] # None
               PROVE  \/ RouteNamed(new[p], k)
                      \/ \E c \in Configs : Remembered(c)' /\ InstallsRoute(c, k, routes[k])
    BY <1>4 DEF RoutesCovered
  <2>1. RouteNamed(new[p], k) \/ \E c \in abandoned : InstallsRoute(c, k, routes[k])
    BY <1>1 DEF IInv, Covered, RoutesKept, RouteNamed
  <2>2. ASSUME InstallsRoute(cfg[p], k, routes[k]) PROVE RouteNamed(new[p], k)
    <3>1. PICK e \in Range(cfg[p].ifaces), s \in Spellings :
            /\ AsksRoute(cfg[p], e, k[1], s) /\ e.table = k[2] /\ Key(s) = k[3]
            /\ e.name = routes[k]
      BY <2>2 DEF InstallsRoute
    <3>2. k[1] \in Fams /\ k = <<k[1], e.table, Key(s)>>
      BY <3>1, RouteKeyParts
    <3>3. RouteHolds(new[p], e, k[1], s)
      BY <1>2, <3>1, <3>2
    <3>4. RouteEntry(k[1], e.table, s) \in new[p]
      BY <3>1, <3>2, <3>3 DEF RouteHolds
    <3> QED
      BY <3>1, <3>4 DEF RouteNamed
  <2> QED
    BY <1>9, <2>1, <2>2
<1>12. RulesKept' /\ RoutesKept'
  BY <1>1 DEF RulesKept, RoutesKept
<1>13. NftRested'
  <2>1. NftHolds
    BY <1>1, <1>2 DEF IInv, NftRested
  <2>2. NftHolds'
    BY <1>1, <1>4, <2>1 DEF NftHolds
  <2> QED
    BY <1>1, <1>3, <1>4, <2>2 DEF NftRested
<1> QED
  BY <1>1, <1>6, <1>7, <1>8, <1>10, <1>11, <1>12, <1>13 DEF Covered, Resting

-----------------------------------------------------------------------------
(* The invariant holds.                                                    *)

LEMMA InvInit == Init => IInv
<1> SUFFICES ASSUME Init PROVE IInv
  OBVIOUS
<1>1. TypeOK
  BY TypeInit
<1>2. PICK first \in Procs : /\ pc = [p \in Procs |-> IF p = first THEN "lock" ELSE "idle"]
                             /\ op = [p \in Procs |-> IF p = first THEN "start" ELSE "none"]
  <2>1. (CHOOSE p \in Procs : TRUE) \in Procs
    BY VpnStickyAssumption
  <2> QED
    BY <2>1 DEF Init
<1>3. \A p \in Procs : /\ pc[p] \in {"lock", "idle"} /\ op[p] # "stop" /\ ~Active(p)
                       /\ ~Reloading(p)
                       /\ cfg[p] = None /\ todo[p] = <<>> /\ work[p] = {} /\ new[p] = {}
                       /\ stale[p] = {}
  BY <1>2 DEF Init, Active, Reloading
<1>4. Waiting /\ Unloaded /\ Outdated
  BY <1>2, <1>3 DEF Waiting, Unloaded, Outdated
<1>5. /\ lock = None /\ triggers = None /\ stateFile = None /\ nft = None /\ conf \in Configs
  BY <1>1 DEF Init, TypeOK
<1>6. Structured
  <2>1. Mutex
    BY <1>3, <1>5, NoneAssumption DEF Mutex
  <2>2. Phases
    BY <1>3 DEF Phases, Phase
  <2>3. Positions
    BY <1>3 DEF Positions
  <2> QED
    BY <2>1, <2>2, <2>3 DEF Structured
<1>7. Registered
  BY <1>5 DEF Registered
<1>8. Working
  BY <1>3 DEF Working, Current, Spelled, RuleProgress, RouteProgress
<1>9. Resting
  BY <1>5 DEF Resting, FileRested, RulesRested, RoutesRested, Rested
<1>10. Remembered(conf)
  BY <1>4, <1>5 DEF Remembered
<1>11. RulesCovered
  <2> SUFFICES ASSUME NEW k \in RuleKeys, rules[k] # None PROVE InstallsRule(conf, k)
    BY <1>5, <1>10 DEF RulesCovered
  <2>1. conf.enabled /\ WantedRule(k) # None
    BY DEF Init
  <2> DEFINE es == {e \in Range(conf.ifaces) : e.pref = k[2]}
  <2>2. es # {} /\ k[1] \in Families(conf)
    BY <2>1 DEF WantedRule
  <2> QED
    BY <2>1, <2>2 DEF InstallsRule, AsksRule
<1>12. RoutesCovered
  <2> SUFFICES ASSUME NEW k \in RouteKeys, routes[k] # None
               PROVE  InstallsRoute(conf, k, routes[k])
    BY <1>5, <1>10 DEF RoutesCovered
  <2>1. conf.enabled /\ WantedRoute(k) # None /\ routes[k] = WantedRoute(k)
    BY DEF Init
  <2> DEFINE es == {e \in Range(conf.ifaces) : e.table = k[2] /\ e.name \in up}
             ps == {Key(s) : s \in FamilyPrefixes(conf, k[1])}
  <2>2. WantedRoute(k) = IF \/ ~conf.enabled \/ es = {} \/ k[1] \notin Families(conf)
                            \/ k[3] \notin ps
                         THEN None ELSE (CHOOSE e \in es : TRUE).name
    BY Zenon DEF WantedRoute
  <2>3. es # {} => (CHOOSE e \in es : TRUE) \in es
    OBVIOUS
  <2>4. PICK e \in es : /\ WantedRoute(k) = e.name /\ k[1] \in Families(conf)
                        /\ k[3] \in ps
    <3> HIDE DEF es, ps
    <3> QED
      BY <2>1, <2>2, <2>3
  <2>5. PICK s \in FamilyPrefixes(conf, k[1]) : Key(s) = k[3]
    BY <2>4
  <2>6. s \in Spellings
    BY <1>5, ConfigParts
  <2> QED
    BY <2>1, <2>4, <2>5, <2>6 DEF InstallsRoute, AsksRoute, AsksRule
<1>13. RulesKept /\ RoutesKept
  BY <1>3 DEF RulesKept, RoutesKept
<1>14. NftRested
  BY <1>3, <1>5 DEF NftRested
<1> QED
  BY <1>1, <1>6, <1>7, <1>8, <1>9, <1>11, <1>12, <1>13, <1>14 DEF IInv, Covered

LEMMA Stuttering ==
  ASSUME IInv, UNCHANGED vars
  PROVE  (Structured /\ Registered /\ Working /\ Resting /\ Covered /\ NftRested)'
<1>1. /\ proc' = proc /\ lock' = lock /\ stateFile' = stateFile /\ triggers' = triggers
      /\ conf' = conf /\ up' = up /\ pending' = pending /\ rules' = rules /\ routes' = routes
      /\ nft' = nft /\ respelled' = respelled /\ refused' = refused /\ nftFailed' = nftFailed
      /\ missing' = missing /\ abandoned' = abandoned /\ unseen' = unseen
  BY DEF vars, system, kernel, ghosts
<1>2. /\ Structured' /\ Registered'
      /\ \A q \in Procs : /\ Same(q) /\ (Reloading(q)' <=> Reloading(q))
                          /\ (Active(q)' <=> Active(q))
      /\ (Alone' <=> Alone)
  BY <1>1, Around DEF IInv
<1>3. (Waiting' <=> Waiting) /\ (Outdated' <=> Outdated)
  BY <1>1, <1>2 DEF Outdated, Waiting, Same
<1>4. Undisturbing
  BY <1>1, <1>2, <1>3 DEF Undisturbing, Same, Excused
<1>5. Working' /\ Resting'
  BY <1>4, WorkingFrame, RestingFrame DEF IInv, Structured
<1>6. Remembering
  <2>1. ASSUME NEW c \in Configs, Remembered(c) PROVE Remembered(c)'
    BY <1>1, <1>2, <1>3, <2>1 DEF Remembered, Unloaded, Same
  <2> QED
    BY <1>2, <2>1 DEF Remembering, Same
<1>7. Covered'
  <2>1. RulesCovered' /\ RoutesCovered'
    BY <1>1, <1>6, CoveredFrame DEF IInv, Covered
  <2>2. RulesKept' /\ RoutesKept'
    BY <1>1, <1>2, KeptFrame DEF IInv, Covered, Same
  <2> QED
    BY <2>1, <2>2 DEF Covered
<1>8. NftRested'
  BY <1>1, <1>2, <1>3, NftFrame DEF IInv, Same
<1> QED
  BY <1>2, <1>5, <1>7, <1>8

LEMMA InvStep == IInv /\ [Next]_vars => IInv'
<1> SUFFICES ASSUME IInv, [Next]_vars PROVE IInv'
  OBVIOUS
<1>1. TypeOK'
  BY TypeStep DEF IInv, Structured
<1>2. (Structured /\ Registered /\ Working /\ Resting /\ Covered /\ NftRested)'
  <2>1. CASE Configure
    BY <2>1, ConfigureStep
  <2>2. ASSUME NEW i \in Names, Up(i) \/ Down(i)
        PROVE  (Structured /\ Registered /\ Working /\ Resting /\ Covered /\ NftRested)'
    BY <2>2, UpDownStep
  <2>3. ASSUME NEW p \in Procs, Trigger(p) \/ Command(p) \/ Step(p) \/ Kill(p)
        PROVE  (Structured /\ Registered /\ Working /\ Resting /\ Covered /\ NftRested)'
    <3>1. CASE Trigger(p) \/ Command(p)
      BY <3>1, CalledStep
    <3>2. CASE Lock(p)
      BY <3>2, LockStep
    <3>3. CASE Load(p)
      BY <3>3, LoadStep
    <3>4. CASE Nft(p)
      BY <3>4, NftStep
    <3>5. CASE LookUp(p)
      BY <3>5, LookUpStep
    <3>6. CASE EnsureRule(p)
      BY <3>6, EnsureRuleStep
    <3>7. CASE ReplaceRoute(p)
      BY <3>7, ReplaceRouteStep
    <3>8. CASE Stale(p)
      BY <3>8, StaleStep
    <3>9. CASE RemoveEntry(p)
      BY <3>9, RemoveEntryStep
    <3>10. CASE Unload(p)
      BY <3>10, UnloadStep
    <3>11. CASE Finish(p)
      BY <3>11, FinishStopStep, FinishReloadStep
    <3>12. CASE Kill(p)
      BY <3>12, KillStep
    <3>13. CASE LoadFails(p)
      BY <3>13, LoadFailsStep
    <3> QED
      BY <2>3, <3>1, <3>2, <3>3, <3>4, <3>5, <3>6, <3>7, <3>8, <3>9, <3>10, <3>11, <3>12, <3>13
      DEF Step
  <2>4. CASE UNCHANGED vars
    BY <2>4, Stuttering
  <2> QED
    BY <2>1, <2>2, <2>3, <2>4 DEF Next
<1> QED
  BY <1>1, <1>2 DEF IInv

LEMMA Inductive == Spec => []IInv
<1>1. Init => IInv
  BY InvInit
<1>2. IInv /\ [Next]_vars => IInv'
  BY InvStep
<1> QED
  BY <1>1, <1>2, PTL DEF Spec

\* The variables hold what they are meant to.
THEOREM TypeCorrect == Spec => []TypeOK
<1>1. IInv => TypeOK
  BY DEF IInv
<1>2. Spec => []IInv
  BY Inductive
<1> QED
  BY <1>1, <1>2, PTL


-----------------------------------------------------------------------------
(* What is wanted, and that it is there when nothing is under way.         *)

LEMMA Chosen ==
  ASSUME NEW S, NEW e \in S, \A d \in S : d = e
  PROVE  (CHOOSE d \in S : TRUE) = e
  OBVIOUS

\* The rule wanted for a key is that of the interface that installs it.
LEMMA RuleWanted ==
  ASSUME conf \in Configs, NEW k \in RuleKeys
  PROVE  /\ \A e \in Range(conf.ifaces) :
              AsksRule(conf, e, k[1]) /\ e.pref = k[2] => WantedRule(k) = RuleFor(e)
         /\ ~InstallsRule(conf, k) => WantedRule(k) = None
<1> DEFINE es == {e \in Range(conf.ifaces) : e.pref = k[2]}
<1>1. WantedRule(k) =
        IF ~conf.enabled \/ es = {} \/ k[1] \notin Families(conf) THEN None
        ELSE RuleFor(CHOOSE e \in es : TRUE)
  BY Zenon DEF WantedRule
<1>2. ASSUME NEW e \in Range(conf.ifaces), AsksRule(conf, e, k[1]), e.pref = k[2]
      PROVE  WantedRule(k) = RuleFor(e)
  <2>1. e \in es /\ \A d \in es : d = e
    BY <1>2, Alike
  <2> HIDE DEF es
  <2>2. (CHOOSE d \in es : TRUE) = e
    BY <2>1, Chosen
  <2> QED
    BY <1>1, <1>2, <2>1, <2>2 DEF AsksRule
<1>3. ASSUME WantedRule(k) # None PROVE InstallsRule(conf, k)
  <2>1. conf.enabled /\ es # {} /\ k[1] \in Families(conf)
    BY <1>1, <1>3
  <2> QED
    BY <2>1 DEF InstallsRule, AsksRule
<1> QED
  BY <1>2, <1>3

\* The route wanted for a key is to the interface that installs it, if it is up.
LEMMA RouteWanted ==
  ASSUME conf \in Configs, NEW k \in RouteKeys
  PROVE  /\ \A e \in Range(conf.ifaces), s \in Spellings :
              AsksRoute(conf, e, k[1], s) /\ e.table = k[2] /\ Key(s) = k[3]
                => WantedRoute(k) = IF e.name \in up THEN e.name ELSE None
         /\ (\A i : ~InstallsRoute(conf, k, i)) => WantedRoute(k) = None
<1> DEFINE es == {e \in Range(conf.ifaces) : e.table = k[2] /\ e.name \in up}
           ps == {Key(s) : s \in FamilyPrefixes(conf, k[1])}
<1>1. WantedRoute(k) =
        IF ~conf.enabled \/ es = {} \/ k[1] \notin Families(conf) \/ k[3] \notin ps
        THEN None
        ELSE (CHOOSE e \in es : TRUE).name
  BY Zenon DEF WantedRoute
<1>2. ASSUME NEW e \in Range(conf.ifaces), NEW s \in Spellings,
             AsksRoute(conf, e, k[1], s), e.table = k[2], Key(s) = k[3]
      PROVE  WantedRoute(k) = IF e.name \in up THEN e.name ELSE None
  <2>1. \A d \in es : d = e
    BY <1>2, Alike
  <2>2. conf.enabled /\ k[1] \in Families(conf) /\ k[3] \in ps
    BY <1>2 DEF AsksRoute, AsksRule
  <2>3. CASE e.name \in up
    <3>1. e \in es
      BY <1>2, <2>3
    <3> HIDE DEF es, ps
    <3>2. (CHOOSE d \in es : TRUE) = e
      BY <2>1, <3>1, Chosen
    <3> QED
      BY <1>1, <2>2, <2>3, <3>1, <3>2
  <2>4. CASE e.name \notin up
    <3>1. es = {}
      BY <2>1, <2>4
    <3> QED
      BY <1>1, <2>4, <3>1
  <2> QED
    BY <2>3, <2>4
<1>3. ASSUME WantedRoute(k) # None PROVE \E i : InstallsRoute(conf, k, i)
  <2>1. conf.enabled /\ es # {} /\ k[1] \in Families(conf) /\ k[3] \in ps
    BY <1>1, <1>3
  <2>2. PICK e \in es : TRUE
    BY <2>1
  <2>3. PICK s \in FamilyPrefixes(conf, k[1]) : Key(s) = k[3]
    BY <2>1
  <2>4. s \in Spellings
    BY ConfigParts
  <2>5. AsksRoute(conf, e, k[1], s) /\ e \in Range(conf.ifaces) /\ e.table = k[2]
    BY <2>1, <2>2, <2>3 DEF AsksRoute, AsksRule
  <2> QED
    BY <2>3, <2>4, <2>5 DEF InstallsRoute
<1> QED
  BY <1>2, <1>3

\* What is under way when all processes are idle and nothing is unseen or
\* remembered: nothing.
LEMMA NothingUnderWay ==
  ASSUME IInv, \A p \in Procs : pc[p] = "idle", "conf" \notin unseen, abandoned = {}
  PROVE  /\ Alone /\ ~Waiting /\ \A p \in Procs : ~Reloading(p)
         /\ \A c : ~Remembered(c)
         /\ \A k \in RuleKeys : rules[k] # None => RuleNamed(File, k)
         /\ \A k \in RouteKeys : routes[k] # None => RouteNamed(File, k)
<1>1. Alone /\ ~Waiting /\ \A p \in Procs : ~Reloading(p)
  BY DEF Alone, Active, Waiting, Reloading
<1>2. \A c : ~Remembered(c)
  BY <1>1 DEF Remembered, Unloaded
<1>3. RulesCovered /\ RoutesCovered
  BY DEF IInv, Covered
<1>4. \A k \in RuleKeys : rules[k] # None => RuleNamed(File, k)
  BY <1>1, <1>2, <1>3 DEF RulesCovered
<1>5. \A k \in RouteKeys : routes[k] # None => RouteNamed(File, k)
  BY <1>1, <1>2, <1>3 DEF RoutesCovered
<1> QED
  BY <1>1, <1>2, <1>4, <1>5

LEMMA QuietRests ==
  ASSUME IInv, Quiet
  PROVE  /\ Rested /\ ~Outdated /\ conf \in Configs
         /\ \A k \in RuleKeys : rules[k] # None => RuleNamed(File, k)
         /\ \A k \in RouteKeys : routes[k] # None => RouteNamed(File, k)
         /\ \A l \in File : \E e \in Range(conf.ifaces) : Asks(conf, e, l)
<1>1. /\ Alone /\ ~Waiting /\ \A p \in Procs : ~Reloading(p)
      /\ \A k \in RuleKeys : rules[k] # None => RuleNamed(File, k)
      /\ \A k \in RouteKeys : routes[k] # None => RouteNamed(File, k)
  BY NothingUnderWay DEF Quiet
<1>2. Rested /\ ~Outdated /\ conf \in Configs
  BY <1>1 DEF Rested, Outdated, Quiet, IInv, Registered, TypeOK
<1> QED
  BY <1>1, <1>2 DEF IInv, Resting, FileRested

LEMMA QuietRules == ASSUME IInv PROVE RulesSettled
<1> SUFFICES ASSUME Quiet, NEW k \in RuleKeys
             PROVE  rules[k] = WantedRule(k) \/ (rules[k] = None /\ k \in missing)
  BY DEF RulesSettled
<1>1. /\ Rested /\ conf \in Configs
      /\ rules[k] # None => RuleNamed(File, k)
      /\ \A l \in File : \E e \in Range(conf.ifaces) : Asks(conf, e, l)
  BY QuietRests
<1>2. k = <<k[1], k[2]>> /\ k[1] \in Fams
  BY RuleKeyParts
<1>3. CASE InstallsRule(conf, k)
  <2>1. PICK e \in Range(conf.ifaces) : AsksRule(conf, e, k[1]) /\ e.pref = k[2]
    BY <1>3 DEF InstallsRule
  <2>2. RuleHolds(File, e, k[1])
    BY <1>1, <1>2, <2>1 DEF IInv, Resting, RulesRested
  <2>3. WantedRule(k) = RuleFor(e)
    BY <1>1, <2>1, RuleWanted
  <2> QED
    BY <1>2, <2>1, <2>2, <2>3 DEF RuleHolds, RuleRight
<1>4. CASE ~InstallsRule(conf, k)
  <2>1. WantedRule(k) = None
    BY <1>1, <1>4, RuleWanted
  <2>2. ASSUME rules[k] # None PROVE FALSE
    <3>1. RuleEntry(k[1], k[2]) \in File
      BY <1>1, <2>2 DEF RuleNamed
    <3>2. PICK e \in Range(conf.ifaces) : Asks(conf, e, RuleEntry(k[1], k[2]))
      BY <1>1, <3>1
    <3> DEFINE l == RuleEntry(k[1], k[2])
    <3>3. l.kind = "rule" /\ l.fam = k[1] /\ l.pref = k[2]
      BY RuleLine
    <3> HIDE DEF l
    <3>4. AsksRule(conf, e, l.fam) /\ l = RuleEntry(l.fam, e.pref)
      BY <1>1, <3>2, <3>3, AskedLine DEF l
    <3>5. e.pref = k[2]
      BY <3>3, <3>4, RuleLine
    <3> QED
      BY <1>4, <3>3, <3>4, <3>5 DEF InstallsRule
  <2> QED
    BY <2>1, <2>2
<1> QED
  BY <1>3, <1>4

LEMMA QuietRoutes == ASSUME IInv PROVE RoutesSettled
<1> SUFFICES ASSUME Quiet, ~respelled, NEW k \in RouteKeys
             PROVE  \/ WantedRoute(k) \in unseen \/ routes[k] = WantedRoute(k)
                    \/ WantedRoute(k) = None /\ k \in refused
  BY DEF RoutesSettled
<1>1. /\ Rested /\ ~Outdated /\ conf \in Configs
      /\ routes[k] # None => RouteNamed(File, k)
      /\ \A l \in File : \E e \in Range(conf.ifaces) : Asks(conf, e, l)
  BY QuietRests
<1>2. k = <<k[1], k[2], k[3]>> /\ k[1] \in Fams
  BY RouteKeyParts
<1>3. routes[k] \in {None} \cup up
  BY DEF IInv, TypeOK
<1>4. ASSUME NEW e \in Range(conf.ifaces), NEW s \in Spellings,
             AsksRoute(conf, e, k[1], s), e.table = k[2], Key(s) = k[3]
      PROVE  \/ WantedRoute(k) \in unseen \/ routes[k] = WantedRoute(k)
             \/ WantedRoute(k) = None /\ k \in refused
  <2>1. RouteHolds(File, e, k[1], s) /\ <<k[1], e.table, Key(s)>> = k
    BY <1>1, <1>2, <1>4 DEF IInv, Resting, RoutesRested
  <2>2. WantedRoute(k) = IF e.name \in up THEN e.name ELSE None
    BY <1>1, <1>4, RouteWanted
  <2>3. CASE e.name \in up
    BY <1>1, <2>1, <2>2, <2>3 DEF RouteHolds, Excused
  <2>4. CASE e.name \notin up /\ ~Skipped(File, e)
    BY <1>3, <2>1, <2>2, <2>4 DEF RouteHolds, RouteRight
  <2>5. CASE e.name \notin up /\ Skipped(File, e)
    <3>1. ASSUME routes[k] # None PROVE FALSE
      <4>1. PICK r \in Spellings : RouteEntry(k[1], k[2], r) \in File
        BY <1>1, <3>1 DEF RouteNamed
      <4>2. RouteEntry(k[1], k[2], r).kind = "route" /\ RouteEntry(k[1], k[2], r).table = k[2]
        BY RouteLine
      <4> QED
        BY <1>4, <2>5, <4>1, <4>2 DEF Skipped
    <3> QED
      BY <2>2, <2>5, <3>1
  <2> QED
    BY <2>3, <2>4, <2>5
<1>5. CASE \A i : ~InstallsRoute(conf, k, i)
  <2>1. WantedRoute(k) = None
    BY <1>1, <1>5, RouteWanted
  <2>2. ASSUME routes[k] # None PROVE FALSE
    <3>1. PICK r \in Spellings : Key(r) = k[3] /\ RouteEntry(k[1], k[2], r) \in File
      BY <1>1, <2>2 DEF RouteNamed
    <3>2. PICK e \in Range(conf.ifaces) : Asks(conf, e, RouteEntry(k[1], k[2], r))
      BY <1>1, <3>1
    <3> DEFINE l == RouteEntry(k[1], k[2], r)
    <3>3. l.kind = "route" /\ l.fam = k[1] /\ l.table = k[2] /\ l.prefix = r
      BY RouteLine
    <3> HIDE DEF l
    <3>4. AsksRoute(conf, e, l.fam, l.prefix) /\ l.table = e.table
      BY <1>1, <3>2, <3>3, AskedLine DEF l
    <3>5. InstallsRoute(conf, k, e.name)
      BY <3>1, <3>3, <3>4 DEF InstallsRoute
    <3> QED
      BY <1>5, <3>5
  <2> QED
    BY <2>1, <2>2
<1> QED
  BY <1>4, <1>5 DEF InstallsRoute

LEMMA QuietNft == ASSUME IInv PROVE NftSettled
<1> SUFFICES ASSUME Quiet, ~nftFailed PROVE nft = WantedNft(conf)
  BY DEF NftSettled, WantedNft
<1>1. Rested /\ ~Outdated
  BY QuietRests
<1> QED
  BY <1>1 DEF Rested, IInv, NftRested, NftHolds

LEMMA StoppedClears == ASSUME IInv PROVE StopClears
<1> SUFFICES ASSUME Stopped
             PROVE  /\ nft = None
                    /\ \A k \in RuleKeys : rules[k] = None
                    /\ \A k \in RouteKeys : routes[k] = None
  BY DEF StopClears
<1>1. /\ \A p \in Procs : ~Reloading(p)
      /\ \A k \in RuleKeys : rules[k] # None => RuleNamed(File, k)
      /\ \A k \in RouteKeys : routes[k] # None => RouteNamed(File, k)
  BY NothingUnderWay DEF Stopped
<1>2. File = {} /\ stateFile = None /\ "conf" \notin unseen
  BY DEF Stopped, File
<1>3. nft = None
  BY <1>1, <1>2 DEF IInv, NftRested
<1> QED
  BY <1>1, <1>2, <1>3 DEF RuleNamed, RouteNamed

\* After any sequence of configurations, interfaces that come and go, reloads that
\* run to their end or are killed, stops and starts: when nothing is left to do, the
\* rules, the routes and the nftables rules are those of the configuration, and
\* after a stop there are none (vpn-sticky.init:88-93, 119-182, 202-315).
THEOREM SettledAlways == Spec => []Settled
<1>1. IInv => Settled
  BY QuietRules, QuietRoutes, QuietNft, StoppedClears DEF Settled
<1>2. Spec => []IInv
  BY Inductive
<1> QED
  BY <1>1, <1>2, PTL

-----------------------------------------------------------------------------
(* A reload takes away nothing that is right.                              *)

\* Without a disturbance a process that reloads works on the configuration.
LEMMA UpToDate ==
  ASSUME IInv, Undisturbed, NEW p \in Procs, Reloading(p)
  PROVE  cfg[p] = conf /\ conf \in Configs
<1>1. Position(p)
  BY DEF IInv, Structured, Positions
<1> QED
  BY <1>1, NoneAssumption DEF Undisturbed, Position

\* The actions that touch the rules and the routes.
LEMMA Untouched ==
  ASSUME [Next]_vars, stateFile # None,
         \A p \in Procs : ~EnsureRule(p) /\ ~ReplaceRoute(p) /\ ~RemoveEntry(p)
  PROVE  rules' = rules /\ (up \subseteq up' => routes' = routes)
<1>1. CASE Configure
  BY <1>1 DEF Configure, kernel
<1>2. ASSUME NEW i \in Names, Up(i) PROVE rules' = rules /\ routes' = routes
  BY <1>2 DEF Up, kernel
<1>3. ASSUME NEW i \in Names, Down(i) PROVE rules' = rules /\ ~(up \subseteq up')
  BY <1>3 DEF Down
<1>4. ASSUME NEW p \in Procs, Trigger(p) \/ Command(p) \/ Step(p) \/ Kill(p)
      PROVE  rules' = rules /\ routes' = routes
  BY <1>4 DEF Step, Trigger, Command, Lock, Load, LoadFails, Nft, LookUp,
              Stale, Unload, Finish, Kill, kernel
<1>5. CASE UNCHANGED vars
  BY <1>5 DEF vars, kernel
<1> QED
  BY <1>1, <1>2, <1>3, <1>4, <1>5 DEF Next

LEMMA RulesSafe ==
  ASSUME IInv, [Next]_vars, Undisturbed,
         NEW k \in RuleKeys, rules[k] # None, rules[k] = WantedRule(k)
  PROVE  rules'[k] = rules[k]
<1>1. conf \in Configs /\ rules \in [RuleKeys -> {None} \cup (Nat \X Tables)]
  BY DEF IInv, TypeOK
<1>2. PICK e \in Range(conf.ifaces) : AsksRule(conf, e, k[1]) /\ e.pref = k[2]
  BY <1>1, RuleWanted DEF InstallsRule
<1>3. rules[k] = RuleFor(e)
  BY <1>1, <1>2, RuleWanted
<1>4. k[1] \in Fams /\ k = <<k[1], k[2]>>
  BY RuleKeyParts
<1>5. ASSUME NEW p \in Procs, EnsureRule(p) PROVE rules'[k] = rules[k]
  <2>1. PICK w \in work[p] :
          /\ w.line.kind = "rule"
          /\ \/ /\ rules[RuleKey(w.line)] \notin {None, RuleFor(w.iface)}
                /\ rules' = [rules EXCEPT ![RuleKey(w.line)] = None]
             \/ rules' = [rules EXCEPT ![RuleKey(w.line)] = RuleFor(w.iface)]
             \/ rules' = rules
    BY <1>5 DEF EnsureRule, NextCommands
  <2>2. pc[p] = "work" /\ Reloading(p)
    BY <1>5 DEF EnsureRule, Reloading, Undisturbed
  <2>3. cfg[p] = conf
    BY <2>2, UpToDate
  <2>4. w.iface \in Range(conf.ifaces) /\ Asks(conf, w.iface, w.line)
    BY <2>2, <2>3, AtCommand
  <2>5. RuleKey(w.line) = <<w.line.fam, w.iface.pref>>
    BY <1>1, <2>1, <2>4, AskedLine
  <2>6. CASE RuleKey(w.line) = k
    <3>1. w.iface.pref = e.pref
      BY <1>2, <2>5, <2>6
    <3>2. w.iface = e
      BY <1>1, <2>4, <3>1, Alike
    <3> QED
      BY <1>1, <1>3, <2>1, <2>6, <3>2
  <2>7. CASE RuleKey(w.line) # k
    BY <1>1, <2>1, <2>7
  <2> QED
    BY <2>6, <2>7
<1>6. ASSUME NEW p \in Procs, RemoveEntry(p) PROVE rules'[k] = rules[k]
  <2>1. PICK l \in stale[p] :
          \/ l.kind = "rule" /\ rules' = [rules EXCEPT ![RuleKey(l)] = None]
          \/ rules' = rules
    BY <1>6 DEF RemoveEntry
  <2>2. pc[p] = "stale" /\ op[p] # "stop" /\ Reloading(p)
    BY <1>6 DEF RemoveEntry, Reloading, Undisturbed
  <2>3. cfg[p] = conf
    BY <2>2, UpToDate
  <2>4. RuleHolds(new[p], e, k[1])
    BY <1>2, <1>4, <2>2, <2>3, AllInstalled
  <2>5. RuleEntry(k[1], k[2]) \in new[p]
    BY <1>2, <2>4 DEF RuleHolds
  <2>6. l \notin new[p] /\ l \in Entries
    BY DEF IInv, Structured, Phases, Phase, TypeOK
  <2>7. CASE l.kind = "rule" /\ rules' = [rules EXCEPT ![RuleKey(l)] = None]
    <3>1. l = RuleEntry(l.fam, l.pref)
      BY <2>6, <2>7, LineKinds
    <3>2. RuleKey(l) # k
      BY <2>5, <2>6, <3>1 DEF RuleKey
    <3> QED
      BY <1>1, <2>7, <3>2
  <2> QED
    BY <2>1, <2>7
<1>7. ASSUME NEW p \in Procs, ReplaceRoute(p) PROVE rules'[k] = rules[k]
  BY <1>7 DEF ReplaceRoute
<1> QED
  BY <1>5, <1>6, <1>7, Untouched DEF Undisturbed

LEMMA RoutesSafe ==
  ASSUME IInv, [Next]_vars, Undisturbed, up \subseteq up',
         NEW k \in RouteKeys, routes[k] # None, routes[k] = WantedRoute(k)
  PROVE  routes'[k] = routes[k]
<1>1. conf \in Configs /\ routes \in [RouteKeys -> {None} \cup up]
  BY DEF IInv, TypeOK
<1>2. PICK e \in Range(conf.ifaces), s \in Spellings :
        AsksRoute(conf, e, k[1], s) /\ e.table = k[2] /\ Key(s) = k[3]
  BY <1>1, RouteWanted DEF InstallsRoute
<1>3. routes[k] = e.name
  BY <1>1, <1>2, RouteWanted
<1>4. k[1] \in Fams /\ k = <<k[1], k[2], k[3]>>
  BY RouteKeyParts
<1>5. ASSUME NEW p \in Procs, ReplaceRoute(p) PROVE routes'[k] = routes[k]
  <2>1. PICK w \in work[p] :
          /\ w.line.kind = "route"
          /\ \/ routes' = [routes EXCEPT ![RouteKey(w.line)] = w.iface.name]
             \/ routes' = routes
    BY <1>5 DEF ReplaceRoute, NextCommands
  <2>2. pc[p] = "work" /\ Reloading(p)
    BY <1>5 DEF ReplaceRoute, Reloading, Undisturbed
  <2>3. cfg[p] = conf
    BY <2>2, UpToDate
  <2>4. w.iface \in Range(conf.ifaces) /\ Asks(conf, w.iface, w.line)
    BY <2>2, <2>3, AtCommand
  <2>5. RouteKey(w.line) = <<w.line.fam, w.iface.table, Key(w.line.prefix)>>
    BY <1>1, <2>1, <2>4, AskedLine
  <2>6. CASE RouteKey(w.line) = k
    <3>1. w.iface.table = e.table
      BY <1>2, <2>5, <2>6
    <3>2. w.iface = e
      BY <1>1, <2>4, <3>1, Alike
    <3> QED
      BY <1>1, <1>3, <2>1, <2>6, <3>2
  <2>7. CASE RouteKey(w.line) # k
    BY <1>1, <2>1, <2>7
  <2> QED
    BY <2>6, <2>7
<1>6. ASSUME NEW p \in Procs, RemoveEntry(p) PROVE routes'[k] = routes[k]
  <2>1. PICK l \in stale[p] :
          \/ l.kind = "route" /\ routes' = [routes EXCEPT ![RouteKey(l)] = None]
          \/ routes' = routes
    BY <1>6 DEF RemoveEntry
  <2>2. pc[p] = "stale" /\ op[p] # "stop" /\ Reloading(p)
    BY <1>6 DEF RemoveEntry, Reloading, Undisturbed
  <2>3. cfg[p] = conf
    BY <2>2, UpToDate
  <2>4. RouteHolds(new[p], e, k[1], s)
    BY <1>2, <1>4, <2>2, <2>3, AllInstalled
  <2>5. RouteEntry(k[1], k[2], s) \in new[p]
    BY <1>2, <1>3, <1>4, <2>4 DEF RouteHolds
  <2>6. l \notin new[p] /\ l \in Entries /\ l \in File
    BY DEF IInv, Structured, Phases, Phase, TypeOK
  <2>7. ~Respells(conf)
    <3>1. ~respelled
      BY <1>6 DEF RemoveEntry, Undisturbed
    <3> QED
      BY <2>2, <2>3, <3>1 DEF IInv, Working, Spelled
  <2>8. CASE l.kind = "route" /\ routes' = [routes EXCEPT ![RouteKey(l)] = None]
    <3>1. l = RouteEntry(l.fam, l.table, l.prefix)
      BY <2>6, <2>8, LineKinds
    <3>2. l.fam = k[1] /\ l.table = k[2] => l.prefix # s
      BY <2>5, <2>6, <3>1
    <3>3. s = "default" \/ s \in conf.prefixes
      BY <1>1, <1>2, AskedRoute
    <3>4. l.prefix # s => Key(l.prefix) # Key(s)
      BY <2>6, <2>7, <2>8, <3>3 DEF Respells, File, Undisturbed
    <3>5. RouteKey(l) # k
      BY <1>2, <1>4, <3>2, <3>4 DEF RouteKey
    <3> QED
      BY <1>1, <2>8, <3>5
  <2> QED
    BY <2>1, <2>8
<1>7. ASSUME NEW p \in Procs, EnsureRule(p) PROVE routes'[k] = routes[k]
  BY <1>7 DEF EnsureRule
<1> QED
  BY <1>5, <1>6, <1>7, Untouched DEF Undisturbed

\* A rule or a route that is right is never taken away, not for a moment, by a
\* reload that works on the current configuration, unless its interface goes down
\* (vpn-sticky.init:14-15, 105-132, 157-182).
THEOREM NoWindowAlways == Spec => NoWindow
<1> DEFINE Kept ==
      Undisturbed
        => /\ \A k \in RuleKeys :
                rules[k] # None /\ rules[k] = WantedRule(k) => rules'[k] = rules[k]
           /\ \A k \in RouteKeys :
                routes[k] # None /\ routes[k] = WantedRoute(k) /\ up \subseteq up'
                  => routes'[k] = routes[k]
<1>1. IInv /\ [Next]_vars => Kept
  BY RulesSafe, RoutesSafe
<1>2. Spec => []IInv
  BY Inductive
<1>3. ASSUME []IInv, [][Next]_vars PROVE [][Kept]_vars
  BY <1>1, <1>3, PTL
<1> QED
  BY <1>2, <1>3, PTL DEF Spec, NoWindow
=============================================================================
