------------------------- MODULE NetifdProtos_proofs -------------------------
(***************************************************************************)
(* Theorems about NetifdProtos, for every set of interfaces, every set of  *)
(* entries for each, and every number of attempts and of events.           *)
(***************************************************************************)
EXTENDS NetifdProtos, TLAPS

(***************************************************************************)
(* The inductive invariant.                                                *)
(*                                                                         *)
(* A section has a port of the interface's entries, and the form writes    *)
(* none that the handler turns down.  No section is None.                  *)
(***************************************************************************)
SectionOK(i, c) ==
  /\ c # None /\ LinkOf(i, c) # None
  /\ i \in Tunnels => Port(c) \in Ports(i) /\ (Missing(c) => c.by = "hand")

(* A handler that runs has a configuration, and a tunnel that was ever     *)
(* set up is among the users of its port.                                  *)
RunInv ==
  /\ DOMAIN conf = Ifaces /\ DOMAIN run = Ifaces
  /\ \A i \in Ifaces :
       /\ SectionOK(i, conf[i])
       /\ run[i] # None => SectionOK(i, run[i])
       /\ run[i] = None => pc[i] = "down"
       /\ i \in Tunnels /\ run[i] # None => i \in users[Port(run[i])]

(* Whoever added a listener is among the users of its port.                *)
UsersInv ==
  /\ users \in [UNION {Ports(i) : i \in Tunnels} -> SUBSET Tunnels]
  /\ \A l \in listeners : l.port \in DOMAIN users /\ users[l.port] # {}

(* An interface of which no handler was killed has its link between the    *)
(* steps that add and delete it, and at no other time.                     *)
LinkInv ==
  /\ DOMAIN links = Ifaces
  /\ \A i \in Ifaces :
       /\ pc[i] \in {"update", "up"} => links[i] # None
       /\ i \notin killed =>
            /\ pc[i] \in {"update", "up"} => links[i] = LinkOf(i, run[i])
            /\ pc[i] \in {"down", "listener", "link", "failed", "unlisten"}
                 => links[i] = None

(* A listener whose port only one tunnel ever used is that of this         *)
(* tunnel's configuration, and there only after the step that adds it and  *)
(* up to the one that deletes it.                                          *)
OwnInv ==
  delWorks =>
    \A i \in Tunnels \ killed : \A l \in listeners :
      users[l.port] = {i}
        => /\ pc[i] \notin {"down", "listener"}
           /\ l = Listener(i, run[i])

(* From the last attempt at its listener on such a tunnel has one, or has  *)
(* used all its attempts up.                                               *)
KeepInv ==
  \A i \in Tunnels :
    pc[i] \in {"link", "update", "up"} /\ tries[i] < MaxTries /\ Alone(i)
      => Received(i) # {}

IInv ==
  TypeOK /\ RunInv /\ UsersInv /\ LinkInv /\ OwnInv /\ KeepInv /\ FormFits

-----------------------------------------------------------------------------
(* The forms.                                                              *)

(* What the form of a GRE tunnel saves has an address, and a peer or       *)
(* listens; the port is the one that was entered.                          *)
LEMMA GreFormOK ==
  ASSUME NEW i \in Ifaces, NEW e \in Entries(i), NEW g \in GreForm(e)
  PROVE  DOMAIN g = Options /\ g.port = e.port /\ ~Missing(g)
<1>1. DOMAIN e = Options /\ e.peer \in BOOLEAN /\ e.listen \in BOOLEAN
  BY EntriesAssumption
<1>2. /\ g = [e EXCEPT !.peer = @ /\ ~e.listen, !.mode = None, !.by = "form"]
      /\ e.laddr # None /\ (e.listen \/ e.peer)
  BY DEF GreForm
<1>3. DOMAIN g = Options /\ g.port = e.port /\ g.laddr = e.laddr /\ g.listen = e.listen
  BY <1>1, <1>2 DEF Options
<1>4. g.peer = (e.peer /\ ~e.listen)
  BY <1>1, <1>2 DEF Options
<1> QED
  BY <1>1, <1>2, <1>3, <1>4 DEF Missing

LEMMA SectionsOK ==
  ASSUME NEW i \in Ifaces, NEW e \in Entries(i), NEW c \in Sections(i, e)
  PROVE  SectionOK(i, c)
<1>1. c # None /\ LinkOf(i, c) # None
  BY NoneAssumption
<1>2. DOMAIN e = Options
  BY EntriesAssumption
<1>3. CASE c = ByHand(e)
  <2>1. c.port = e.port /\ c.by = "hand"
    BY <1>2, <1>3 DEF ByHand, Options
  <2> QED
    BY <1>1, <2>1 DEF SectionOK, Port, Ports
<1>4. CASE i \in Gre /\ c \in GreForm(e)
  BY <1>1, <1>4, GreFormOK DEF SectionOK, Port, Ports
<1>5. CASE c \in TnlForm(e)
  <2>1. PICK g \in GreForm(e) : c = [g EXCEPT !.mode = e.mode]
    BY <1>5 DEF TnlForm
  <2>2. DOMAIN g = Options /\ g.port = e.port /\ ~Missing(g)
    BY GreFormOK
  <2>3. /\ c.port = g.port /\ c.laddr = g.laddr
        /\ c.listen = g.listen /\ c.peer = g.peer
    BY <2>1, <2>2 DEF Options
  <2>4. ~Missing(c)
    BY <2>2, <2>3 DEF Missing
  <2> QED
    BY <1>1, <2>2, <2>3, <2>4 DEF SectionOK, Port, Ports
<1>6. CASE i \notin Tunnels
  BY <1>1, <1>6 DEF SectionOK
<1> QED
  BY <1>3, <1>4, <1>5, <1>6, NetifdProtosAssumption
  DEF Sections, FormSaves, ByHand, Ifaces

-----------------------------------------------------------------------------
(* Each part of the invariant is kept by every step.                       *)

Act(i) == Configure(i) \/ Setup(i) \/ Handler(i) \/ Teardown(i) \/ Kill(i)

(* What a step of interface i's handler leaves alone.                      *)
LEMMA OthersKept ==
  ASSUME TypeOK, RunInv, LinkInv, UsersInv, NEW i \in Ifaces, Act(i),
         NEW j \in Ifaces, j # i
  PROVE  /\ pc'[j] = pc[j] /\ run'[j] = run[j] /\ links'[j] = links[j]
         /\ tries'[j] = tries[j] /\ error'[j] = error[j] /\ conf'[j] = conf[j]
         /\ j \in killed' <=> j \in killed
<1>0. /\ DOMAIN pc = Ifaces /\ DOMAIN run = Ifaces /\ DOMAIN links = Ifaces
      /\ DOMAIN tries = Ifaces /\ DOMAIN error = Ifaces /\ DOMAIN conf = Ifaces
  BY DEF TypeOK, RunInv, LinkInv
<1> USE DEF kernel
<1>1. CASE Configure(i)
  BY <1>0, <1>1 DEF Configure
<1>2. CASE Setup(i)
  BY <1>0, <1>2 DEF Setup
<1>3. CASE AddListener(i)
  BY <1>0, <1>3 DEF AddListener
<1>4. CASE AddLink(i)
  BY <1>0, <1>4 DEF AddLink
<1>5. CASE Update(i)
  BY <1>0, <1>5 DEF Update
<1>6. CASE DelLink(i)
  BY <1>0, <1>6 DEF DelLink
<1>7. CASE DelListener(i)
  BY <1>0, <1>7 DEF DelListener
<1>8. CASE Teardown(i)
  BY <1>0, <1>8 DEF Teardown
<1>9. CASE Kill(i)
  BY <1>0, <1>9 DEF Kill
<1> QED
  BY <1>1, <1>2, <1>3, <1>4, <1>5, <1>6, <1>7, <1>8, <1>9 DEF Act, Handler

LEMMA SpendType == TypeOK /\ (Spend \/ UNCHANGED events) => events' \in 0..MaxEvents
BY NetifdProtosAssumption DEF TypeOK, Spend

PcOK ==
  /\ pc \in [Ifaces -> {"down", "listener", "link", "update", "up", "failed",
                        "unlink", "unlisten"}]
  /\ \A i \in Dummies : pc[i] \notin {"listener", "unlisten"}

LEMMA PcType ==
  ASSUME TypeOK, NEW i \in Ifaces,
         \/ pc' = [pc EXCEPT ![i] = "listener"] /\ i \in Tunnels
         \/ \E st \in {"down", "link", "update", "up", "failed", "unlink"} :
                pc' = [pc EXCEPT ![i] = st]
  PROVE  PcOK'
BY NetifdProtosAssumption DEF TypeOK, PcOK, Ifaces

LEMMA TypeStep == ASSUME TypeOK, NEW i \in Ifaces, Act(i) PROVE TypeOK'
<1> USE DEF TypeOK, kernel
<1>0. i \in Tunnels <=> i \notin Dummies
  BY NetifdProtosAssumption DEF Ifaces
<1>1. CASE Configure(i)
  BY <1>1, SpendType DEF Configure
<1>2. CASE Setup(i)
  <2>1. events' \in 0..MaxEvents /\ 0 \in 0..MaxTries
    BY <1>2, SpendType, NetifdProtosAssumption DEF Setup
  <2>2. tries' \in [Ifaces -> 0..MaxTries]
    BY <1>2, <2>1 DEF Setup
  <2>3. /\ blocked' = [blocked EXCEPT ![i] = TRUE] \/ blocked' = [blocked EXCEPT ![i] = FALSE]
        /\ error' = [error EXCEPT ![i] = "MISSING"] \/ error' = [error EXCEPT ![i] = None]
    BY <1>2 DEF Setup
  <2>4. blocked' \in [Ifaces -> BOOLEAN]
    BY <2>3
  <2>5. error' \in [Ifaces -> {None, "MISSING", "DEVICE_CREATE_FAIL", "INVALID_MACADDR"}]
    BY <2>3
  <2>6. PcOK'
    BY <1>2, PcType DEF Setup
  <2>7. UNCHANGED <<listeners, killed>>
    BY <1>2 DEF Setup
  <2> QED
    BY <2>1, <2>2, <2>4, <2>5, <2>6, <2>7 DEF PcOK
<1>3. CASE AddListener(i)
  <2>1. tries' \in [Ifaces -> 0..MaxTries]
    BY <1>3, NetifdProtosAssumption DEF AddListener
  <2>2. \A l \in listeners' : DOMAIN l = {"port", "laddr", "ipproto"}
    BY <1>3 DEF AddListener, Listener
  <2> QED
    BY <1>0, <1>3, <2>1, <2>2 DEF AddListener
<1>4. CASE AddLink(i)
  <2>1. events' \in 0..MaxEvents
    BY <1>4, SpendType DEF AddLink
  <2>2. pc' = [pc EXCEPT ![i] = "update"] \/ pc' = [pc EXCEPT ![i] = "failed"]
    BY <1>4 DEF AddLink
  <2>3. /\ error' = error \/ error' = [error EXCEPT ![i] = "DEVICE_CREATE_FAIL"]
        /\ blocked' = blocked \/ blocked' = [blocked EXCEPT ![i] = TRUE]
    BY <1>4 DEF AddLink
  <2>4. blocked' \in [Ifaces -> BOOLEAN]
    BY <2>3
  <2>5. error' \in [Ifaces -> {None, "MISSING", "DEVICE_CREATE_FAIL", "INVALID_MACADDR"}]
    BY <2>3
  <2>6. UNCHANGED <<tries, listeners, killed>>
    BY <1>4 DEF AddLink
  <2>7. PcOK'
    BY <2>2, PcType
  <2> QED
    BY <2>1, <2>4, <2>5, <2>6, <2>7 DEF PcOK
<1>5. CASE Update(i)
  BY <1>5 DEF Update
<1>6. CASE DelLink(i)
  BY <1>0, <1>6 DEF DelLink
<1>7. CASE DelListener(i)
  BY <1>7 DEF DelListener
<1>8. CASE Teardown(i)
  <2>1. events' \in 0..MaxEvents
    BY <1>8, SpendType DEF Teardown
  <2> QED
    BY <1>8, <2>1 DEF Teardown
<1>9. CASE Kill(i)
  <2>1. events' \in 0..MaxEvents
    BY <1>9, SpendType DEF Kill
  <2> QED
    BY <1>9, <2>1 DEF Kill
<1> QED
  BY <1>1, <1>2, <1>3, <1>4, <1>5, <1>6, <1>7, <1>8, <1>9 DEF Act, Handler

(* The steps of a handler that is set up leave its configuration alone.    *)
LEMMA RunKept ==
  ASSUME NEW i \in Ifaces, Act(i)
  PROVE  Setup(i) \/ UNCHANGED <<run, users>>
BY DEF Act, Handler, Configure, AddListener, AddLink, Update, DelLink, DelListener,
       Teardown, Kill

(* Only a section that the forms or an editor may write is configured.     *)
LEMMA ConfKept ==
  ASSUME RunInv, NEW i \in Ifaces, Act(i)
  PROVE  DOMAIN conf' = Ifaces /\ \A j \in Ifaces : SectionOK(j, conf'[j])
<1>1. CASE Configure(i)
  <2>1. PICK e \in Entries(i) : \E c \in Sections(i, e) : conf' = [conf EXCEPT ![i] = c]
    BY <1>1 DEF Configure
  <2>2. PICK c \in Sections(i, e) : conf' = [conf EXCEPT ![i] = c]
    BY <2>1
  <2>3. SectionOK(i, c)
    BY SectionsOK
  <2> QED
    BY <2>2, <2>3 DEF RunInv
<1>2. CASE conf' = conf
  BY <1>2 DEF RunInv
<1> QED
  BY <1>1, <1>2
  DEF Act, Handler, Setup, AddListener, AddLink, Update, DelLink, DelListener,
      Teardown, Kill

LEMMA SetupUsers ==
  ASSUME RunInv, UsersInv, NEW i \in Ifaces, Setup(i)
  PROVE  /\ users' \in [UNION {Ports(j) : j \in Tunnels} -> SUBSET Tunnels]
         /\ \A p \in DOMAIN users :
              \/ users'[p] = users[p]
              \/ i \in Tunnels /\ p = Port(conf[i]) /\ users'[p] = users[p] \cup {i}
         /\ i \in Tunnels => i \in users'[Port(conf[i])] /\ Port(conf[i]) \in DOMAIN users
<1>1. CASE i \in Tunnels
  <2>1. Port(conf[i]) \in UNION {Ports(j) : j \in Tunnels}
    BY <1>1 DEF RunInv, SectionOK
  <2>2. users' = [users EXCEPT ![Port(conf[i])] = @ \cup {i}]
    BY <1>1 DEF Setup
  <2> QED
    BY <1>1, <2>1, <2>2 DEF UsersInv
<1>2. CASE i \notin Tunnels
  BY <1>2 DEF Setup, UsersInv
<1> QED
  BY <1>1, <1>2

LEMMA RunStep ==
  ASSUME TypeOK, RunInv, UsersInv, LinkInv, NEW i \in Ifaces, Act(i)
  PROVE  RunInv'
<1>1. CASE Setup(i)
  <2>1. run' = [run EXCEPT ![i] = conf[i]]
    BY <1>1 DEF Setup
  <2>2. /\ DOMAIN run' = Ifaces /\ SectionOK(i, run'[i]) /\ run'[i] # None
        /\ run'[i] = conf[i]
    BY <2>1 DEF RunInv, SectionOK
  <2>3. i \in Tunnels => i \in users'[Port(run'[i])]
    BY <1>1, <2>2, SetupUsers
  <2>4. ASSUME NEW j \in Ifaces, j # i
        PROVE  /\ run'[j] # None => SectionOK(j, run'[j])
               /\ run'[j] = None => pc'[j] = "down"
               /\ j \in Tunnels /\ run'[j] # None => j \in users'[Port(run'[j])]
    <3>1. run'[j] = run[j] /\ pc'[j] = pc[j]
      BY <2>4, OthersKept
    <3>2. CASE j \in Tunnels /\ run[j] # None
      <4>1. Port(run[j]) \in DOMAIN users /\ j \in users[Port(run[j])]
        BY <3>2 DEF RunInv, SectionOK, UsersInv
      <4>2. j \in users'[Port(run[j])]
        BY <1>1, <4>1, SetupUsers
      <4> QED
        BY <3>1, <3>2, <4>2 DEF RunInv
    <3> QED
      BY <3>1, <3>2 DEF RunInv
  <2> QED
    BY <2>2, <2>3, <2>4, ConfKept DEF RunInv
<1>2. CASE ~Setup(i) /\ UNCHANGED <<run, users>>
  <2>1. \A j \in Ifaces : run[j] = None => pc'[j] = "down"
    <3>1. CASE run[i] = None
      <4>1. pc[i] = "down"
        BY <3>1 DEF RunInv
      <4>2. pc' = pc
        BY <1>2, <4>1 DEF Act, Handler, Configure, AddListener, AddLink, Update,
           DelLink, DelListener, Teardown, Kill
      <4> QED
        BY <4>2 DEF RunInv
    <3>2. CASE run[i] # None
      BY <3>2, OthersKept DEF RunInv
    <3> QED
      BY <3>1, <3>2, OthersKept DEF RunInv
  <2> QED
    BY <1>2, <2>1, ConfKept DEF RunInv
<1> QED
  BY <1>1, <1>2, RunKept

(* Listeners are added by a handler that is among the users of the port.   *)
LEMMA ListenersKept ==
  ASSUME NEW i \in Ifaces, Act(i)
  PROVE  \A l \in listeners' :
           \/ l \in listeners
           \/ AddListener(i) /\ l = Listener(i, run[i])
BY DEF Act, Handler, Configure, Setup, AddListener, AddLink, Update, DelLink, DelListener,
       Teardown, Kill, kernel

LEMMA RunsTunnel ==
  ASSUME TypeOK, RunInv, UsersInv, NEW i \in Ifaces, pc[i] \in {"listener", "unlisten"}
  PROVE  i \in Tunnels /\ run[i] # None /\ Port(run[i]) \in DOMAIN users
         /\ i \in users[Port(run[i])]
<1>1. i \in Tunnels /\ run[i] # None
  BY DEF TypeOK, RunInv, Ifaces
<1> QED
  BY <1>1 DEF RunInv, SectionOK, UsersInv

LEMMA UsersStep ==
  ASSUME TypeOK, RunInv, UsersInv, NEW i \in Ifaces, Act(i)
  PROVE  UsersInv' /\ \A p \in DOMAIN users : users[p] \subseteq users'[p]
<1>1. CASE Setup(i)
  <2>1. listeners' = listeners
    BY <1>1 DEF Setup, kernel
  <2>2. DOMAIN users' = DOMAIN users
    BY <1>1, SetupUsers DEF UsersInv
  <2>3. \A p \in DOMAIN users : users[p] \subseteq users'[p]
    BY <1>1, SetupUsers
  <2> QED
    BY <1>1, <2>1, <2>2, <2>3, SetupUsers DEF UsersInv
<1>2. CASE users' = users
  <2>1. ASSUME NEW l \in listeners' PROVE l.port \in DOMAIN users /\ users[l.port] # {}
    <3>1. CASE l \in listeners
      BY <3>1 DEF UsersInv
    <3>2. CASE AddListener(i) /\ l = Listener(i, run[i])
      <4>1. l.port = Port(run[i])
        BY <3>2 DEF Listener
      <4>2. pc[i] = "listener"
        BY <3>2 DEF AddListener
      <4> QED
        BY <4>1, <4>2, RunsTunnel
    <3> QED
      BY <3>1, <3>2, ListenersKept
  <2> QED
    BY <1>2, <2>1 DEF UsersInv
<1> QED
  BY <1>1, <1>2, RunKept

LEMMA LinkStep ==
  ASSUME TypeOK, RunInv, UsersInv, LinkInv, NEW i \in Ifaces, Act(i)
  PROVE  LinkInv'
<1> DEFINE P(j) ==
      /\ pc[j] \in {"update", "up"} => links[j] # None
      /\ j \notin killed =>
           /\ pc[j] \in {"update", "up"} => links[j] = LinkOf(j, run[j])
           /\ pc[j] \in {"down", "listener", "link", "failed", "unlisten"}
                => links[j] = None
<1>0. P(i) /\ DOMAIN pc = Ifaces /\ DOMAIN links = Ifaces
  BY DEF TypeOK, LinkInv
<1> USE DEF kernel
<1>1. P(i)'
  <2>1. CASE Configure(i)
    BY <2>1, <1>0 DEF Configure
  <2>2. CASE Setup(i)
    <3>1. pc'[i] \in {"listener", "link", "failed"} /\ links' = links /\ killed' = killed
      BY <1>0, <2>2 DEF Setup
    <3>2. pc[i] = "down"
      BY <2>2 DEF Setup
    <3> QED
      BY <3>1, <3>2, <1>0
  <2>3. CASE AddListener(i)
    BY <2>3, <1>0 DEF AddListener
  <2>4. CASE AddLink(i)
    <3>1. LinkOf(i, run[i]) # None
      BY <2>4 DEF AddLink, RunInv, SectionOK
    <3> QED
      BY <2>4, <3>1, <1>0 DEF AddLink
  <2>5. CASE Update(i)
    BY <2>5, <1>0 DEF Update
  <2>6. CASE DelLink(i)
    BY <2>6, <1>0 DEF DelLink
  <2>7. CASE DelListener(i)
    BY <2>7, <1>0 DEF DelListener
  <2>8. CASE Teardown(i)
    BY <2>8, <1>0 DEF Teardown
  <2>9. CASE Kill(i)
    BY <2>9, <1>0 DEF Kill
  <2> QED
    BY <2>1, <2>2, <2>3, <2>4, <2>5, <2>6, <2>7, <2>8, <2>9 DEF Act, Handler
<1>2. ASSUME NEW j \in Ifaces, j # i PROVE P(j)'
  BY <1>2, OthersKept DEF LinkInv
<1>3. DOMAIN links' = Ifaces
  BY <1>0 DEF Act, Handler, Configure, Setup, AddListener, AddLink, Update, DelLink,
     DelListener, Teardown, Kill
<1> QED
  BY <1>1, <1>2, <1>3 DEF LinkInv

(* Only the teardown deletes a listener, one with the port of its tunnel.  *)
LEMMA ListenersLost ==
  ASSUME NEW i \in Ifaces, Act(i), NEW l \in listeners, l \notin listeners'
  PROVE  DelListener(i) /\ l.port = Port(run[i])
<1>1. ~DelListener(i) => listeners \subseteq listeners'
  BY DEF Act, Handler, Configure, Setup, AddListener, AddLink, Update, DelLink,
         Teardown, Kill, kernel
<1>2. DelListener(i) => l.port = Port(run[i])
  BY DEF DelListener
<1> QED
  BY <1>1, <1>2

LEMMA OwnStep ==
  ASSUME TypeOK, RunInv, UsersInv, LinkInv, OwnInv, NEW i \in Ifaces, Act(i)
  PROVE  OwnInv'
<1>1. delWorks' = delWorks /\ killed \subseteq killed'
  BY DEF Act, Handler, Configure, Setup, AddListener, AddLink, Update, DelLink,
         DelListener, Teardown, Kill
<1> SUFFICES ASSUME delWorks, NEW k \in Tunnels, k \notin killed', NEW l \in listeners',
                    users'[l.port] = {k}
             PROVE  pc'[k] \notin {"down", "listener"} /\ l = Listener(k, run'[k])
  BY <1>1 DEF OwnInv
<1>2. k \in Ifaces /\ k \notin killed
  BY <1>1 DEF Ifaces
<1>3. ASSUME NEW m \in listeners, users[m.port] = {k}
      PROVE  pc[k] \notin {"down", "listener"} /\ m = Listener(k, run[k])
  BY <1>2, <1>3 DEF OwnInv
<1>4. CASE l \in listeners
  <2>1. users[l.port] = {k}
    BY <1>4, UsersStep DEF UsersInv
  <2>2. pc[k] \notin {"down", "listener"} /\ l = Listener(k, run[k])
    BY <1>3, <1>4, <2>1
  <2>3. CASE i # k
    BY <1>2, <2>2, <2>3, OthersKept
  <2>4. CASE i = k
    <3>1. ~Setup(i) /\ ~AddListener(i) /\ ~Kill(i)
      BY <2>2, <2>4, <1>2 DEF Setup, AddListener, Kill
    <3>2. ~DelListener(i)
      <4>1. SUFFICES ASSUME DelListener(i) PROVE FALSE
        OBVIOUS
      <4>2. l.port = Port(run[i])
        BY <2>2, <2>4 DEF Listener
      <4>3. PICK m \in listeners : m.port = Port(run[i]) /\ listeners' = listeners \ {m}
        BY <1>4, <4>1, <4>2 DEF DelListener
      <4>4. m = l
        BY <1>3, <2>1, <2>2, <4>2, <4>3
      <4> QED
        BY <4>3, <4>4
    <3>3. run' = run
      BY <3>1, RunKept
    <3>4. pc'[i] \notin {"down", "listener"}
      <4>1. DOMAIN pc = Ifaces /\ i \in Tunnels
        BY <2>4 DEF TypeOK
      <4> QED
        BY <4>1, <2>2, <2>4, <3>1, <3>2
        DEF Act, Handler, Configure, AddLink, Update, DelLink, Teardown
    <3> QED
      BY <2>2, <2>4, <3>3, <3>4
  <2> QED
    BY <2>3, <2>4
<1>5. CASE l \notin listeners /\ AddListener(i) /\ l = Listener(i, run[i])
  <2>1. l.port = Port(run[i]) /\ pc[i] = "listener" /\ UNCHANGED <<run, users>>
    BY <1>5 DEF Listener, AddListener
  <2>2. i = k
    BY <2>1, RunsTunnel
  <2>3. pc' = [pc EXCEPT ![i] = "link"] /\ DOMAIN pc = Ifaces
    BY <1>5 DEF AddListener, TypeOK
  <2> QED
    BY <1>5, <2>1, <2>2, <2>3
<1> QED
  BY <1>4, <1>5, ListenersKept

LEMMA KeepStep ==
  ASSUME TypeOK, RunInv, UsersInv, LinkInv, KeepInv, NEW i \in Ifaces, Act(i)
  PROVE  KeepInv'
<1> SUFFICES ASSUME NEW k \in Tunnels, pc'[k] \in {"link", "update", "up"},
                    tries'[k] < MaxTries, Alone(k)'
             PROVE  Received(k)' # {}
  BY DEF KeepInv
<1>1. k \in Ifaces
  BY DEF Ifaces
<1>2. CASE i # k
  <2>1. /\ pc'[k] = pc[k] /\ tries'[k] = tries[k] /\ run'[k] = run[k]
    BY <1>1, <1>2, OthersKept
  <2>2. Port(run[k]) \in DOMAIN users /\ k \in users[Port(run[k])]
    BY <1>1, <2>1 DEF RunInv, SectionOK, UsersInv
  <2>3. users[Port(run[k])] = {k}
    BY <2>1, <2>2, UsersStep DEF Alone
  <2>4. PICK l \in listeners : l.port = Port(run[k]) /\ l.laddr = run[k].laddr
    BY <2>1, <2>3 DEF KeepInv, Alone, Received
  <2>5. l \in listeners'
    <3>1. SUFFICES ASSUME l \notin listeners' PROVE FALSE
      OBVIOUS
    <3>2. DelListener(i) /\ Port(run[i]) = Port(run[k])
      BY <2>4, <3>1, ListenersLost
    <3>3. i \in users[Port(run[i])]
      BY <3>2, RunsTunnel DEF DelListener
    <3> QED
      BY <1>2, <2>3, <3>2, <3>3
  <2> QED
    BY <2>1, <2>4, <2>5 DEF Received
<1>3. CASE i = k
  <2>0. /\ DOMAIN pc = Ifaces /\ DOMAIN tries = Ifaces /\ DOMAIN run = Ifaces
        /\ i \in Tunnels
    BY <1>3 DEF TypeOK, RunInv
  <2>1. CASE AddListener(i)
    <3>1. run' = run /\ tries'[i] # MaxTries
      BY <1>3, <2>1, <2>0, NetifdProtosAssumption DEF AddListener, TypeOK
    <3>2. Listener(i, run[i]) \in listeners'
      BY <1>3, <2>1, <2>0, <3>1 DEF AddListener, GivesUp
    <3>3. /\ Listener(i, run[i]).port = Port(run'[i])
          /\ Listener(i, run[i]).laddr = run'[i].laddr
      BY <3>1 DEF Listener
    <3> QED
      BY <1>3, <3>2, <3>3 DEF Received
  <2>2. CASE Configure(i) \/ AddLink(i) \/ Update(i)
    <3>1. /\ UNCHANGED <<tries, run, users, listeners>>
          /\ pc[i] \in {"link", "update", "up"}
      BY <1>3, <2>2, <2>0 DEF Configure, AddLink, Update, kernel
    <3> QED
      BY <1>3, <3>1 DEF KeepInv, Alone, Received
  <2>3. ~Setup(i) /\ ~DelLink(i) /\ ~DelListener(i) /\ ~Teardown(i) /\ ~Kill(i)
    BY <1>3, <2>0 DEF Setup, DelLink, DelListener, Teardown, Kill
  <2> QED
    BY <2>1, <2>2, <2>3 DEF Act, Handler
<1> QED
  BY <1>2, <1>3

LEMMA FormFitsStep ==
  ASSUME TypeOK, RunInv, UsersInv, LinkInv, FormFits, NEW i \in Ifaces, Act(i)
  PROVE  FormFits'
<1> SUFFICES ASSUME NEW k \in Tunnels, error'[k] = "MISSING"
             PROVE  run'[k].by = "hand"
  BY DEF FormFits
<1>0. /\ DOMAIN error = Ifaces /\ DOMAIN run = Ifaces /\ k \in Ifaces
  BY DEF TypeOK, RunInv, Ifaces
<1>1. CASE i # k
  BY <1>0, <1>1, OthersKept DEF FormFits
<1>2. CASE i = k /\ Setup(i)
  <2>1. Missing(conf[i]) /\ run'[i] = conf[i]
    BY <1>0, <1>2, NoneAssumption DEF Setup
  <2> QED
    BY <1>0, <1>2, <2>1 DEF RunInv, SectionOK
<1>3. CASE i = k /\ ~Setup(i)
  <2>1. run' = run
    BY <1>3, RunKept
  <2>2. error[i] = "MISSING"
    BY <1>0, <1>3 DEF Act, Handler, Configure, AddListener, AddLink, Update, DelLink,
       DelListener, Teardown, Kill
  <2> QED
    BY <1>3, <2>1, <2>2 DEF FormFits
<1> QED
  BY <1>1, <1>2, <1>3

-----------------------------------------------------------------------------
(* The theorems.                                                           *)

LEMMA InitIInv == Init => IInv
<1> SUFFICES ASSUME Init PROVE IInv
  OBVIOUS
<1>1. TypeOK
  <2>1. 0 \in 0..MaxTries /\ 0 \in 0..MaxEvents
    BY NetifdProtosAssumption
  <2>2. tries \in [Ifaces -> 0..MaxTries] /\ events \in 0..MaxEvents
    BY <2>1 DEF Init
  <2> QED
    BY <2>2 DEF Init, TypeOK, Ifaces
<1>2. ASSUME NEW i \in Ifaces PROVE SectionOK(i, conf[i])
  <2>1. conf[i] \in Boot(i)
    BY DEF Init
  <2>2. PICK e \in BootEntries(i) : conf[i] \in Sections(i, e)
    BY <2>1 DEF Boot
  <2>3. e \in Entries(i)
    BY EntriesAssumption
  <2> QED
    BY <2>2, <2>3, SectionsOK
<1>3. RunInv
  BY <1>2 DEF Init, RunInv
<1>4. UsersInv
  BY DEF Init, UsersInv
<1>5. LinkInv
  BY DEF Init, LinkInv
<1>6. OwnInv
  BY DEF Init, OwnInv
<1>7. KeepInv
  BY DEF Init, KeepInv, Ifaces
<1>8. FormFits
  BY NoneAssumption DEF Init, FormFits, Ifaces
<1> QED
  BY <1>1, <1>3, <1>4, <1>5, <1>6, <1>7, <1>8 DEF IInv

LEMMA NextIInv == IInv /\ [Next]_vars => IInv'
<1> SUFFICES ASSUME IInv, [Next]_vars PROVE IInv'
  OBVIOUS
<1>1. CASE UNCHANGED vars
  BY <1>1 DEF IInv, vars, TypeOK, RunInv, UsersInv, LinkInv, OwnInv, KeepInv, FormFits,
     Alone, Received
<1>2. ASSUME NEW i \in Ifaces, Act(i) PROVE IInv'
  BY <1>2, TypeStep, RunStep, UsersStep, LinkStep, OwnStep, KeepStep, FormFitsStep
  DEF IInv
<1> QED
  BY <1>1, <1>2 DEF Next, Act

(* The variables keep to their types; a dummy has no listener to add.      *)
THEOREM TypeCorrect == Spec => []TypeOK
<1>1. IInv => TypeOK
  BY DEF IInv
<1> QED
  BY <1>1, InitIInv, NextIInv, PTL DEF Spec

(* What the form of a tunnel saves is never turned down as MISSING         *)
(* (fou_ip6gre.js, fou_ip6tnl.js and fou.sh).                              *)
THEOREM FormFitsAlways == Spec => []FormFits
<1>1. IInv => FormFits
  BY DEF IInv
<1> QED
  BY <1>1, InitIInv, NextIInv, PTL DEF Spec

(* An interface that is up has a link, that of the configuration it is up  *)
(* with unless a handler of it was killed (fou.sh and dummy.sh).           *)
THEOREM LinkFitsAlways == Spec => []LinkFits
<1>1. IInv => LinkFits
  BY DEF IInv, LinkInv, LinkFits
<1> QED
  BY <1>1, InitIInv, NextIInv, PTL DEF Spec

(* A tunnel that is up receives what arrives at its port as its own        *)
(* protocol, under the conditions that ListenerFits states (fou.sh).       *)
THEOREM ListenerFitsAlways == Spec => []ListenerFits
<1>1. IInv => ListenerFits
  <2> SUFFICES ASSUME IInv PROVE ListenerFits
    OBVIOUS
  <2>1. ASSUME NEW i \in Tunnels, pc[i] = "up", delWorks, Alone(i), i \notin killed,
               NEW l \in Received(i)
        PROVE  l.ipproto = IpProto(i, run[i])
    <3>1. l \in listeners /\ users[l.port] = {i}
      BY <2>1 DEF Received, Alone
    <3>2. l = Listener(i, run[i])
      BY <2>1, <3>1 DEF IInv, OwnInv
    <3> QED
      BY <3>2 DEF Listener
  <2>2. KeepsListener
    BY DEF IInv, KeepInv, KeepsListener
  <2> QED
    BY <2>1, <2>2 DEF ListenerFits, ListenerFitsAlone
<1> QED
  BY <1>1, InitIInv, NextIInv, PTL DEF Spec

(* An interface that is down has left no link, and no listener that only   *)
(* it could have added (fou.sh and dummy.sh).                              *)
THEOREM NothingLeftAlways == Spec => []NothingLeft
<1>1. IInv => NothingLeft
  <2> SUFFICES ASSUME IInv, NEW i \in Ifaces, pc[i] = "down", i \notin killed
               PROVE  /\ links[i] = None
                      /\ i \in Tunnels /\ delWorks /\ Alone(i)
                           => \A l \in listeners : l.port # Port(run[i])
    BY DEF NothingLeft
  <2>1. links[i] = None
    BY DEF IInv, LinkInv
  <2>2. ASSUME i \in Tunnels, delWorks, Alone(i), NEW l \in listeners
        PROVE  l.port # Port(run[i])
    BY <2>2 DEF IInv, OwnInv, Alone
  <2> QED
    BY <2>1, <2>2
<1> QED
  BY <1>1, InitIInv, NextIInv, PTL DEF Spec

=============================================================================
