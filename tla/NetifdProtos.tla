---------------------------- MODULE NetifdProtos ----------------------------
(***************************************************************************)
(* The netifd protocol handlers of the feed and the LuCI forms that write  *)
(* their configuration: tunnels in UDP (netifd-proto-fou: fou.sh with      *)
(* fou_ip6gre.sh and fou_ip6tnl.sh; luci-proto-fou-ip6gre and              *)
(* luci-proto-fou-ip6tnl) and dummy interfaces (dummy.sh,                  *)
(* luci-proto-dummy), which carry the addresses the tunnels end at.        *)
(*                                                                         *)
(* netifd runs a handler as a process of its own for each interface, so    *)
(* the `ip` commands of several interfaces interleave; it ends a setup     *)
(* with a teardown, and kills a handler that does not come back.  What the *)
(* commands change is in the kernel and outlives all of them: the links,   *)
(* and the FOU listeners, which belong to no interface and which two       *)
(* tunnels with the same port share.                                       *)
(***************************************************************************)
EXTENDS Naturals, FiniteSets

CONSTANTS
  Dummies, Tunnels,   \* the interfaces of either kind
  Gre,                \* the tunnels of proto fou_ip6gre; the others are ip6tnl
  None,               \* no address, no port given, no protocol given, no link
  Addr(_),            \* the address a dummy interface carries
  DefaultPort,        \* 5555
  Entries(_),         \* what may be entered for an interface, by form or hand
  BootEntries(_),     \* those of them it may have when the system boots
  DelWorks,           \* does this iproute2 accept `ip fou del ... -6`?
  MaxTries,           \* attempts at registering a listener: 5
  MaxEvents           \* bound: reconfigurations, ifup, ifdown, faults and kills

Ifaces == Dummies \cup Tunnels

ASSUME NetifdProtosAssumption ==
  /\ Dummies \cap Tunnels = {} /\ Gre \subseteq Tunnels
  /\ DelWorks \subseteq BOOLEAN
  /\ MaxTries \in Nat \ {0} /\ MaxEvents \in Nat

VARIABLES
  conf,      \* the UCI section of each interface
  run,       \* the configuration netifd set the interface up with
  pc,        \* where the interface's handler is
  tries,     \* attempts at the listener so far
  error,     \* the last proto_notify_error
  blocked,   \* proto_block_restart was called
  links,     \* kernel: for each name None or what the link was made with
  listeners, \* kernel: the FOU listeners
  delWorks,  \* this iproute2: constant in a behaviour
  killed,    \* interfaces with a handler that was killed
  users,     \* for each port the tunnels netifd ever tried to set up with it
  events     \* how many there have been, up to MaxEvents

vars == <<conf, run, pc, tries, error, blocked, links, listeners,
          delWorks, killed, users, events>>
kernel == <<links, listeners>>

-----------------------------------------------------------------------------
(* Configurations and the forms.                                           *)

\* An entry: the options that the handlers test, and "bad", an option that the
\* form has a datatype for with a value outside it (an address, port, ttl or tos
\* of a tunnel, the macaddr of a dummy).  sportBad is a source port that
\* is none: the form has no datatype for that.
\* by: who wrote the section, for the properties.
Options ==
  {"laddr", "peer", "listen", "port", "ipproto", "mode", "bad", "sportBad", "by"}

ASSUME EntriesAssumption ==
  \A i \in Ifaces :
    /\ BootEntries(i) \subseteq Entries(i)
    /\ \A e \in Entries(i) :
         DOMAIN e = Options /\ {e.peer, e.listen, e.bad, e.sportBad} \subseteq BOOLEAN

ByHand(e) == [e EXCEPT !.by = "hand"]

\* Mutant: the remote address may be left empty.
MGreForm(e) ==
  IF e.laddr = None \/ e.bad THEN {}
  ELSE {[e EXCEPT !.peer = @ /\ ~e.listen, !.mode = None, !.by = "form"]}

\* laddr is required; peeraddr too unless listen is set, in which case the
\* field is not shown and its option is removed.
GreForm(e) ==
  IF e.laddr = None \/ e.bad \/ (~e.listen /\ ~e.peer) THEN {}
  ELSE {[e EXCEPT !.peer = @ /\ ~e.listen, !.mode = None, !.by = "form"]}

\* The same, with a mode.
TnlForm(e) == {[c EXCEPT !.mode = e.mode] : c \in GreForm(e)}

DummyForm(e) == IF e.bad THEN {} ELSE {[e EXCEPT !.by = "form"]}

FormSaves(i, e) ==
  CASE i \in Dummies -> DummyForm(e)
    [] i \in Gre -> GreForm(e)
    [] OTHER -> TnlForm(e)

\* The sections that come of an entry: what the form saves of it, and the entry
\* itself if the form would not save it as it is.
Sections(i, e) ==
  LET saved == FormSaves(i, e)
  IN  saved \cup {ByHand(f) : f \in {e} \ {ByHand(g) : g \in saved}}

-----------------------------------------------------------------------------
(* What a handler makes of a configuration.                                *)

Port(c) == IF c.port = None THEN DefaultPort ELSE c.port

\* netifd hands ipproto on as an integer: a name is not handed on.
IsNumber(p) == p \notin {None, "name"}

IpProto(i, c) ==
  CASE IsNumber(c.ipproto) -> c.ipproto
    [] i \in Gre -> "gre"
    [] c.mode = "ip6ip6" -> "ipv6"
    [] OTHER -> "ipip"

\* The listener and the link of a tunnel, the link of a dummy.
Listener(i, c) == [port |-> Port(c), laddr |-> c.laddr, ipproto |-> IpProto(i, c)]

LinkOf(i, c) ==
  IF i \in Dummies THEN [type |-> "dummy"]
  ELSE [type |-> IF i \in Gre THEN "ip6gre" ELSE "ip6tnl",
        mode |-> IF i \in Gre THEN None
                 ELSE IF c.mode = "ip6ip6" THEN "ip6ip6" ELSE "ip4ip6",
        laddr |-> c.laddr, remote |-> c.peer, port |-> Port(c)]

\* None is no section, no link and no error.
ASSUME NoneAssumption ==
  /\ None # "MISSING"
  /\ \A i \in Ifaces : \A e \in Entries(i) : \A c \in Sections(i, e) :
       c # None /\ LinkOf(i, c) # None

\* The addresses that are there to bind to.
Present == {Addr(d) : d \in {d \in Dummies : pc[d] = "up"}}

-----------------------------------------------------------------------------
(* The user, and netifd.                                                   *)

Spend == events < MaxEvents /\ events' = events + 1

\* A form is saved, or the file edited.
Configure(i) ==
  /\ Spend
  /\ \E e \in Entries(i) : \E c \in Sections(i, e) :
       c # conf[i] /\ conf' = [conf EXCEPT ![i] = c]
  /\ UNCHANGED <<run, pc, tries, error, blocked, kernel,
                 delWorks, killed, users>>

\* fou.sh:43-53
Missing(c) == c.laddr = None \/ (~c.listen /\ ~c.peer)

\* netifd starts the setup handler: of itself, or, if a handler has blocked
\* that, when the configuration has changed or the user says ifup.
Setup(i) ==
  /\ pc[i] = "down"
  /\ IF blocked[i] /\ conf[i] = run[i] THEN Spend ELSE UNCHANGED events
  /\ run' = [run EXCEPT ![i] = conf[i]]
  /\ tries' = [tries EXCEPT ![i] = 0]
  /\ users' = IF i \in Tunnels THEN [users EXCEPT ![Port(conf[i])] = @ \cup {i}]
              ELSE users
  /\ IF i \in Tunnels /\ Missing(conf[i])
     THEN /\ pc' = [pc EXCEPT ![i] = "failed"]
          /\ error' = [error EXCEPT ![i] = "MISSING"]
          /\ blocked' = [blocked EXCEPT ![i] = TRUE]
     ELSE /\ pc' = [pc EXCEPT ![i] = IF i \in Tunnels THEN "listener" ELSE "link"]
          /\ error' = [error EXCEPT ![i] = None]
          /\ blocked' = [blocked EXCEPT ![i] = FALSE]
  /\ UNCHANGED <<conf, kernel, delWorks, killed>>

\* Mutant: the first attempt is the only one.
MTriesOnce(n) == TRUE

GivesUp(n) == n = MaxTries

\* ip fou add: the address must be there, and the port of it free.
AddListener(i) ==
  LET l == Listener(i, run[i])
      can == /\ l.laddr \in Present
             /\ \A k \in listeners : k.port # l.port \/ k.laddr # l.laddr
  IN  /\ pc[i] = "listener"
      /\ tries' = [tries EXCEPT ![i] = IF @ < MaxTries THEN @ + 1 ELSE @]
      /\ listeners' = IF can THEN listeners \cup {l} ELSE listeners
      /\ pc' = IF can \/ GivesUp(tries'[i]) THEN [pc EXCEPT ![i] = "link"] ELSE pc
      /\ UNCHANGED <<conf, run, error, blocked, links,
                     delWorks, killed, users, events>>

\* ip link add, and ip link show if it fails: a link that is there is kept.
AddLink(i) ==
  /\ pc[i] = "link"
  /\ \/ /\ links[i] # None
        /\ pc' = [pc EXCEPT ![i] = "update"]
        /\ UNCHANGED <<links, error, blocked, events>>
     \/ /\ links[i] = None
        /\ i \in Dummies \/ (~run[i].bad /\ ~run[i].sportBad)
        /\ links' = [links EXCEPT ![i] = LinkOf(i, run[i])]
        /\ pc' = [pc EXCEPT ![i] = "update"]
        /\ UNCHANGED <<error, blocked, events>>
     \/ /\ links[i] = None
        /\ IF i \in Tunnels /\ (run[i].bad \/ run[i].sportBad)
           THEN UNCHANGED events ELSE Spend
        /\ pc' = [pc EXCEPT ![i] = "failed"]
        /\ error' = [error EXCEPT ![i] = "DEVICE_CREATE_FAIL"]
        /\ blocked' = [blocked EXCEPT ![i] = TRUE]
        /\ UNCHANGED links
  /\ UNCHANGED <<conf, run, tries, listeners, delWorks, killed, users>>

\* The mtu or the MAC address, and proto_send_update().  A MAC address that is
\* refused is reported and the interface comes up with another.
Update(i) ==
  /\ pc[i] = "update"
  /\ pc' = [pc EXCEPT ![i] = "up"]
  /\ error' = [error EXCEPT ![i] =
                 IF i \in Dummies /\ run[i].bad THEN "INVALID_MACADDR" ELSE @]
  /\ UNCHANGED <<conf, run, tries, blocked, kernel,
                 delWorks, killed, users, events>>

\* ifdown or a changed configuration, also in the middle of a setup, whose
\* handler netifd then ends; and after a setup that failed.
Teardown(i) ==
  /\ pc[i] \in {"listener", "link", "update", "up", "failed"}
  /\ IF pc[i] = "failed" \/ conf[i] # run[i] THEN UNCHANGED events ELSE Spend
  /\ pc' = [pc EXCEPT ![i] = "unlink"]
  /\ UNCHANGED <<conf, run, tries, error, blocked, kernel,
                 delWorks, killed, users>>

\* Mutant: the listener is deleted, the link forgotten.
MDelLink(i) ==
  /\ pc[i] = "unlink"
  /\ pc' = [pc EXCEPT ![i] = IF i \in Tunnels THEN "unlisten" ELSE "down"]
  /\ UNCHANGED <<conf, run, tries, error, blocked, kernel,
                 delWorks, killed, users, events>>

DelLink(i) ==
  /\ pc[i] = "unlink"
  /\ links' = [links EXCEPT ![i] = None]
  /\ pc' = [pc EXCEPT ![i] = IF i \in Tunnels THEN "unlisten" ELSE "down"]
  /\ UNCHANGED <<conf, run, tries, error, blocked, listeners,
                 delWorks, killed, users, events>>

\* Mutant: without a port in the configuration no listener is deleted.
MDelListener(i) ==
  LET found == {l \in listeners : l.port = run[i].port}
  IN  /\ pc[i] = "unlisten"
      /\ IF delWorks /\ found # {}
         THEN \E l \in found : listeners' = listeners \ {l}
         ELSE UNCHANGED listeners
      /\ pc' = [pc EXCEPT ![i] = "down"]
      /\ UNCHANGED <<conf, run, tries, error, blocked, links,
                     delWorks, killed, users, events>>

\* ip fou del port: a listener with that port, whoever added it.
DelListener(i) ==
  LET found == {l \in listeners : l.port = Port(run[i])}
  IN  /\ pc[i] = "unlisten"
      /\ IF delWorks /\ found # {}
         THEN \E l \in found : listeners' = listeners \ {l}
         ELSE UNCHANGED listeners
      /\ pc' = [pc EXCEPT ![i] = "down"]
      /\ UNCHANGED <<conf, run, tries, error, blocked, links,
                     delWorks, killed, users, events>>

\* The handler is killed and what it had left to do is not done: netifd itself
\* ends, or gives up waiting for a teardown.
Kill(i) ==
  /\ Spend
  /\ pc[i] \notin {"down", "failed"}
  /\ pc' = [pc EXCEPT ![i] = "down"]
  /\ killed' = killed \cup {i}
  /\ UNCHANGED <<conf, run, tries, error, blocked, kernel, delWorks, users>>

-----------------------------------------------------------------------------
Ports(i) == {Port(e) : e \in Entries(i)}

Boot(i) == UNION {Sections(i, e) : e \in BootEntries(i)}

\* A system boots: netifd has read its configuration and nothing is set up.
Init ==
  /\ conf \in {c \in [Ifaces -> UNION {Boot(i) : i \in Ifaces}] :
                \A i \in Ifaces : c[i] \in Boot(i)}
  /\ run = [i \in Ifaces |-> None]
  /\ pc = [i \in Ifaces |-> "down"]
  /\ tries = [i \in Ifaces |-> 0]
  /\ error = [i \in Ifaces |-> None]
  /\ blocked = [i \in Ifaces |-> FALSE]
  /\ links = [i \in Ifaces |-> None]
  /\ listeners = {}
  /\ delWorks \in DelWorks
  /\ killed = {}
  /\ users = [p \in UNION {Ports(i) : i \in Tunnels} |-> {}]
  /\ events = 0

Handler(i) ==
  AddListener(i) \/ AddLink(i) \/ Update(i) \/ DelLink(i) \/ DelListener(i)

Next ==
  \E i \in Ifaces :
    Configure(i) \/ Setup(i) \/ Handler(i) \/ Teardown(i) \/ Kill(i)

Spec == Init /\ [][Next]_vars

-----------------------------------------------------------------------------
(* Properties.                                                             *)

\* What the variables may hold.
TypeOK ==
  /\ pc \in [Ifaces -> {"down", "listener", "link", "update", "up", "failed",
                        "unlink", "unlisten"}]
  /\ \A i \in Dummies : pc[i] \notin {"listener", "unlisten"}
  /\ tries \in [Ifaces -> 0..MaxTries]
  /\ error \in [Ifaces -> {None, "MISSING", "DEVICE_CREATE_FAIL", "INVALID_MACADDR"}]
  /\ blocked \in [Ifaces -> BOOLEAN]
  /\ \A l \in listeners : DOMAIN l = {"port", "laddr", "ipproto"}
  /\ killed \subseteq Ifaces
  /\ events \in 0..MaxEvents

\* What a tunnel's form saves the handler does not turn down: the two agree on
\* which options go together (fou_ip6gre.js and fou_ip6tnl.js:43-55,
\* fou.sh:43-53).  Only a section that was edited by hand is reported MISSING.
FormFits ==
  \A i \in Tunnels : error[i] = "MISSING" => run[i].by = "hand"

\* An interface that is up has a link, made of the configuration it is up
\* with; unless an earlier handler of it was killed, which may leave a link
\* that setup keeps (fou.sh:78-93, 120; dummy.sh:20-26, 65).
LinkFits ==
  \A i \in Ifaces :
    pc[i] = "up" => /\ links[i] # None
                    /\ i \notin killed => links[i] = LinkOf(i, run[i])

\* The tunnel is the only one that ever was set up with its port, or was to be:
\* the teardown after a setup that was turned down deletes a listener too.
Alone(i) == users[Port(run[i])] = {i}

Received(i) == {l \in listeners : l.port = Port(run[i]) /\ l.laddr = run[i].laddr}

\* While a tunnel is up, what arrives at its address and port is decapsulated
\* as its own protocol, if no other tunnel uses the port, no handler of it was
\* killed and its listeners can be deleted (fou.sh:66-76, 122-131).
ListenerFitsAlone ==
  \A i \in Tunnels :
    pc[i] = "up" /\ delWorks /\ Alone(i) /\ i \notin killed
      => \A l \in Received(i) : l.ipproto = IpProto(i, run[i])

\* A tunnel that came up before its attempts at the listener were used up has
\* its listener for as long as it is up, if no other tunnel uses the port
\* (fou.sh:66-76, 122-131): no reconfiguration of its own takes it away.
KeepsListener ==
  \A i \in Tunnels :
    pc[i] = "up" /\ tries[i] < MaxTries /\ Alone(i) => Received(i) # {}

\* A tunnel receives as its configuration says, under these conditions.
ListenerFits == ListenerFitsAlone /\ KeepsListener

\* An interface that is down has left nothing in the kernel (fou.sh:117-131,
\* dummy.sh:61-66), under the same conditions.
NothingLeft ==
  \A i \in Ifaces :
    pc[i] = "down" /\ run[i] # None /\ i \notin killed
      => /\ links[i] = None
         /\ i \in Tunnels /\ delWorks /\ Alone(i)
              => \A l \in listeners : l.port # Port(run[i])

=============================================================================
