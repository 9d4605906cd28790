---------------------------- MODULE BirdReconfig ----------------------------
(***************************************************************************)
(* set_ospf_cost of rpcd-mod-bird (bird.uc): derive a runtime              *)
(* configuration, have BIRD check it, promote it and have BIRD load it.    *)
(*                                                                         *)
(* A process of Procs is an rpcd that serves one call at a time (procd may *)
(* have started a new one while an old one still waits for BIRD).  Each    *)
(* file access and each exchange with BIRD is an action, so that the       *)
(* administrator, procd and other processes act between any two.  BIRD and *)
(* procd are external: BIRD loads /etc/bird.conf when it starts and on     *)
(* SIGHUP, and a configuration it is told to load if it is valid.          *)
(***************************************************************************)
EXTENDS BirdConfig

CONSTANTS
  Procs,       \* rpcd processes
  CostArgs,    \* values of the cost argument, 0: one outside 1..65535
  Texts,       \* the texts the administrator writes to /etc/bird.conf
  Faults,      \* what the environment may do, see AllFaults
  MaxCalls,    \* bound: calls
  MaxEvents    \* bound: edits, reloads, restarts and other faults

(* edit      the administrator edits /etc/bird.conf                        *)
(* sighup    ... reloads BIRD                                              *)
(* forget    ... deletes the runtime configuration                         *)
(* down      BIRD exits; procd starts it again                             *)
(* cut       BIRD exits between a command and its reply                    *)
(* kill      rpcd is killed                                                *)
(* full      a file cannot be written or renamed                           *)
AllFaults == {"edit", "sighup", "forget", "down", "cut", "kill", "full"}

ASSUME TextsAssumption == Texts # {} /\ None \notin Texts
ASSUME ProcsAssumption == None \notin Procs
ASSUME CostArgsAssumption == CostArgs \subseteq Nat
ASSUME FaultsAssumption == Faults \subseteq AllFaults
ASSUME BoundsAssumption == MaxCalls \in Nat /\ MaxEvents \in Nat

VARIABLES
  default,     \* /etc/bird.conf
  runtime,     \* /tmp/etc/bird.conf, None: no such file
  next,        \* /tmp/etc/.bird.next.conf, None: no such file
  up,          \* BIRD runs
  active,      \* the text BIRD has loaded
  lock,        \* holder of the flock on bird.reconfigure.lock
  pc,          \* step of a call; "idle" between calls
  args,        \* [interface, cost] of a call
  src, text,   \* what the call has read, and derived from it
  code,        \* result of the last call, -1 while it is under way
  kept,        \* history: cost of an interface since the last forget that
               \* a successful call set, 0 when unknown
  was_cut,     \* history: BIRD once exited in the middle of an exchange
  calls, events

files == <<default, runtime, next>>
bird  == <<up, active>>
local == <<args, src, text, code>>
count == <<was_cut, calls, events>>
vars  == <<files, bird, lock, pc, local, kept, count>>

NoCosts == [i \in Ifaces |-> 0]

Init ==
  /\ default \in {t \in Texts : Valid(t)}
  /\ runtime = None /\ next = None
  /\ up = TRUE /\ active = default
  /\ lock = None
  /\ pc = [p \in Procs |-> "idle"]
  /\ args = [p \in Procs |-> [interface |-> CHOOSE i \in Ifaces : TRUE,
                              cost |-> 0]]
  /\ src = [p \in Procs |-> <<>>] /\ text = [p \in Procs |-> <<>>]
  /\ code = [p \in Procs |-> 0]
  /\ kept = NoCosts /\ was_cut = FALSE /\ calls = 0 /\ events = 0

Can(f) == f \in Faults /\ events < MaxEvents /\ events' = events + 1

----------------------------------------------------------------------------
(* The steps of a call.                                                    *)

Goto(p, l) == pc' = [pc EXCEPT ![p] = l]

(* Mutant: an error leaves the lock held.                                  *)
MReturn(p, c) ==
  /\ Goto(p, "idle") /\ code' = [code EXCEPT ![p] = c]
  /\ lock' = IF c = 0 THEN None ELSE lock
  /\ UNCHANGED <<args, src, text>>

(* lock.close() and the result.                                            *)
Return(p, c) ==
  /\ Goto(p, "idle") /\ code' = [code EXCEPT ![p] = c]
  /\ lock' = None
  /\ UNCHANGED <<args, src, text>>

ValidCost(c) == c \in 1..65535

(* The arguments are checked before anything else.                         *)
Call(p, i, c) ==
  /\ pc[p] = "idle" /\ calls < MaxCalls
  /\ calls' = calls + 1
  /\ args' = [args EXCEPT ![p] = [interface |-> i, cost |-> c]]
  /\ IF ValidCost(c)
     THEN Goto(p, "lock") /\ code' = [code EXCEPT ![p] = -1]
     ELSE UNCHANGED pc /\ code' = [code EXCEPT ![p] = 2]
  /\ UNCHANGED <<files, bird, lock, src, text, kept, was_cut, events>>

(* Mutant: the result of lock() is ignored.                                *)
MLock(p) ==
  /\ pc[p] = "lock"
  /\ lock' = p /\ Goto(p, "read")
  /\ UNCHANGED <<files, bird, local, kept, count>>

(* flock 'xn': busy is an error, not a wait.                               *)
Lock(p) ==
  /\ pc[p] = "lock"
  /\ IF lock = None
     THEN lock' = p /\ Goto(p, "read") /\ UNCHANGED code
     ELSE UNCHANGED lock /\ Goto(p, "idle") /\ code' = [code EXCEPT ![p] = 5]
  /\ UNCHANGED <<files, bird, args, src, text, kept, count>>

(* Mutant: always derived from the default.                                *)
MSource == default

Source == IF runtime # None THEN runtime ELSE default

Read(p) ==
  /\ pc[p] = "read"
  /\ LET r == editOspfCost(Source, args[p].interface, args[p].cost)
     IN IF r.ok
        THEN /\ src' = [src EXCEPT ![p] = Source]
             /\ text' = [text EXCEPT ![p] = r.text]
             /\ Goto(p, "write") /\ UNCHANGED <<lock, args, code>>
        ELSE Return(p, 3)
  /\ UNCHANGED <<files, bird, kept, count>>

Write(p) ==
  /\ pc[p] = "write"
  /\ \/ next' = text[p] /\ Goto(p, "check") /\ UNCHANGED <<lock, local, events>>
     \/ Can("full") /\ Return(p, 4) /\ UNCHANGED next
  /\ UNCHANGED <<default, runtime, bird, kept, was_cut, calls>>

(* birdRaw: no answer at all is null, an answer that is cut short counts   *)
(* as code 0.                                                              *)
Unreachable == ~up /\ UNCHANGED <<up, was_cut, events>>
Answers == up /\ UNCHANGED <<up, was_cut, events>>
Cut == up /\ Can("cut") /\ up' = FALSE /\ was_cut' = TRUE

Checked(t) == Valid(t)

Check(p) ==
  /\ pc[p] = "check"
  /\ \/ Unreachable /\ Return(p, 1)
     \/ /\ Answers
        /\ IF next # None /\ Checked(next)
           THEN Goto(p, "promote") /\ UNCHANGED <<lock, local>>
           ELSE Return(p, 1)
     \/ Cut /\ Goto(p, "promote") /\ UNCHANGED <<lock, local>>
  /\ UNCHANGED <<files, active, kept, calls>>

Promote(p) ==
  /\ pc[p] = "promote"
  /\ \/ /\ next # None
        /\ runtime' = next /\ next' = None
        /\ Goto(p, "configure") /\ UNCHANGED <<lock, local, events>>
     \/ /\ IF next = None THEN UNCHANGED events ELSE Can("full")
        /\ Return(p, 4) /\ UNCHANGED <<runtime, next>>
  /\ UNCHANGED <<default, bird, kept, was_cut, calls>>

(* What a call leaves known of the cost of its interface.                  *)
Remember(p, c) == kept' = [kept EXCEPT ![args[p].interface] = c]

Configure(p) ==
  /\ pc[p] = "configure"
  /\ \/ Unreachable /\ Return(p, 1) /\ Remember(p, 0) /\ UNCHANGED active
     \/ /\ Answers
        /\ IF runtime # None /\ Valid(runtime)
           THEN /\ active' = runtime
                /\ Return(p, 0) /\ Remember(p, args[p].cost)
           ELSE Return(p, 1) /\ Remember(p, 0) /\ UNCHANGED active
     \/ Cut /\ Return(p, 0) /\ Remember(p, 0) /\ UNCHANGED active
  /\ UNCHANGED <<files, calls>>

Kill(p) ==
  /\ pc[p] # "idle" /\ Can("kill")
  /\ Goto(p, "idle") /\ lock' = (IF lock = p THEN None ELSE lock)
  /\ IF pc[p] = "configure" THEN Remember(p, 0) ELSE UNCHANGED kept
  /\ UNCHANGED <<files, bird, local, was_cut, calls>>

----------------------------------------------------------------------------
(* The administrator, procd and BIRD.                                      *)

Edit == /\ Can("edit") /\ default' \in Texts \ {default}
        /\ UNCHANGED <<runtime, next, bird, lock, pc, local, kept, was_cut, calls>>

Load(t) == IF Valid(t) THEN t ELSE active

Sighup == /\ up /\ Can("sighup") /\ active' = Load(default)
          /\ UNCHANGED <<files, up, lock, pc, local, kept, was_cut, calls>>

Forget == /\ runtime # None /\ Can("forget")
          /\ runtime' = None /\ kept' = NoCosts
          /\ UNCHANGED <<default, next, bird, lock, pc, local, was_cut, calls>>

Down == /\ up /\ Can("down") /\ up' = FALSE
        /\ UNCHANGED <<files, active, lock, pc, local, kept, was_cut, calls>>

Start == /\ ~up /\ Valid(default)
         /\ up' = TRUE /\ active' = default
         /\ UNCHANGED <<files, lock, pc, local, kept, count>>

----------------------------------------------------------------------------
Step(p) == Lock(p) \/ Read(p) \/ Write(p) \/ Check(p) \/ Promote(p)
             \/ Configure(p)

Next ==
  \/ \E p \in Procs : \/ \E i \in Ifaces, c \in CostArgs : Call(p, i, c)
                      \/ Step(p) \/ Kill(p)
  \/ Edit \/ Sighup \/ Forget \/ Down \/ Start

Spec == Init /\ [][Next]_vars

----------------------------------------------------------------------------
Tokens == {Header(i) : i \in Ifaces} \cup {Cost(c) : c \in CostArgs}
            \cup {Open, Close, Other, Bad}

(* Types; a call that is under way has a cost that BIRD accepts.           *)
TypeOK ==
  /\ default \in Texts
  /\ runtime = None \/ runtime \in Seq(Seq(Tokens))
  /\ next = None \/ next \in Seq(Seq(Tokens))
  /\ up \in BOOLEAN /\ active # None
  /\ lock \in Procs \cup {None}
  /\ pc \in [Procs -> {"idle", "lock", "read", "write", "check", "promote",
                       "configure"}]
  /\ args \in [Procs -> [interface : Ifaces, cost : CostArgs \cup {0}]]
  /\ was_cut \in BOOLEAN
  /\ code \in [Procs -> {-1, 0, 1, 2, 3, 4, 5}]
  /\ \A p \in Procs : pc[p] # "idle" => args[p].cost \in 1..65535
  /\ kept \in [Ifaces -> CostArgs \cup {0}]

(* The runtime configuration, which BIRD is told to load and from which    *)
(* the next call starts, is a text that BIRD has checked (bird.uc:28).     *)
RuntimeValid == runtime # None => Valid(runtime)

(* ... which holds until BIRD exits in the middle of an exchange.           *)
RuntimeChecked == ~was_cut => RuntimeValid

Succeeds(p) == code[p] = -1 /\ code'[p] = 0

(* A call that returns 0 has changed the cost of its interface, and of no  *)
(* other, from what it was in the text the call was derived from, until    *)
(* BIRD exits in the middle of an exchange (birdconfig.uc:520).            *)
Applies ==
  [][ \A p \in Procs : Succeeds(p) /\ ~was_cut' =>
        up' /\ Costs(active') =
                 [Costs(src[p]) EXCEPT ![args[p].interface] = args[p].cost] ]_vars

(* A successful call brings BIRD to the costs that earlier calls set on    *)
(* the other interfaces, whatever the administrator edited, reloaded or    *)
(* restarted since, unless he deleted the runtime configuration            *)
(* (bird.uc:26).                                                           *)
CarriedOver ==
  [][ \A p \in Procs : Succeeds(p) /\ ~was_cut' =>
        \A i \in Ifaces \ {args[p].interface} :
          kept[i] # 0 => Costs(active')[i] = kept[i] ]_vars

(* The lock is held by the one call that reads, writes or loads a          *)
(* configuration, and given back by every call, also by one that fails or  *)
(* is killed.                                                              *)
LockHeld == \A p \in Procs : lock = p <=> pc[p] \notin {"idle", "lock"}

=============================================================================
