----------------------------- MODULE CostFields -----------------------------
(***************************************************************************)
(* The OSPF cost fields of the BIRD status page (luci-app-bird,            *)
(* view/bird/status.js): numeric inputs that a user types into, steps with *)
(* their spinner, confirms with Enter or by leaving them, on a page that a *)
(* poll refreshes every five seconds and on which each refresh creates     *)
(* every input anew.                                                       *)
(*                                                                         *)
(* The page counts the fields under edit and stops the poll while there is *)
(* one.  What makes it hard: requests are asynchronous and are not         *)
(* cancelled when the poll stops, their answers arrive in any order, an    *)
(* input may be replaced while it has the focus or a pending timer, and    *)
(* browsers differ in whether a focused element that is removed gets a     *)
(* blur event.                                                             *)
(*                                                                         *)
(* An input is a member of Widgets: its closure (the variables of          *)
(* costWidget) lives on after the input left the page, for as long as its  *)
(* timer is pending.  Handlers run to completion: each is a function from  *)
(* a page, the closure it runs in with the page's counter and poll, to the *)
(* page it leaves.                                                         *)
(***************************************************************************)
EXTENDS Integers, FiniteSets

CONSTANTS
  Ifaces,        \* the OSPF interfaces the status lists
  Widgets,       \* inputs, on the page or left over from a refresh
  None,          \* no input, no interface, no call
  NoCost,        \* an interface whose status has no cost: its field is disabled
  Blank,         \* the empty text
  NaN,           \* a text that parseInt() makes nothing of
  MaxCost,       \* the largest cost: 65535 in the code
  Texts,         \* what may be typed: Blank, NaN, or what parseInt() reads
  Routers,       \* the costs BIRD may start with
  RemovalBlurs,  \* does the browser blur a focused element that is removed?
  MaxCalls,      \* bound: RPC calls in flight
  MaxEvents      \* bound: things the user does, calls that fail and changes of
                 \* the router by others, together

Costs == 1..MaxCost
Snapshot == [Ifaces -> Costs \cup {NoCost}]

ASSUME CostFieldsAssumption ==
  /\ IsFiniteSet(Widgets) /\ IsFiniteSet(Ifaces)
  /\ None \notin Widgets \cup Ifaces
  /\ MaxCost \in Nat \ {0}
  /\ NoCost \notin Int /\ Blank \notin Int /\ NaN \notin Int
  /\ NaN # Blank
  /\ Texts \subseteq Int \cup {Blank, NaN}
  /\ Routers \subseteq Snapshot
  /\ RemovalBlurs \subseteq BOOLEAN
  /\ MaxEvents \in Nat /\ MaxCalls \in Nat \ {0}

VARIABLES
  widget,    \* the closure of each input
  shown,     \* the input on the page for each interface
  focus,     \* document.activeElement, if it is a cost field
  edits,     \* costEdits
  polling,   \* is the poll running?
  calls,     \* the RPC calls in flight
  notices,   \* interfaces of which the page says that the cost was not set
  router,    \* the costs BIRD uses
  asked,     \* history: the cost sent last for an interface, until the user is
             \* told of a failure, somebody else sets the cost, or two calls of
             \* the interface are in flight at once; then None
  up,        \* does BIRD answer the status request?
  blurs,     \* the browser: constant in a behaviour
  events     \* how many there have been, up to MaxEvents

vars == <<widget, shown, focus, edits, polling, calls, notices,
          router, asked, up, blurs, events>>

Slots == 1..MaxCalls

Widget ==
  [iface   : Ifaces \cup {None},
   val     : Int \cup {Blank, NoCost},   \* input.value
   cost    : Costs \cup {NoCost},        \* iface.cost of the status that made it
   last    : Costs \cup {NoCost},        \* lastApplied
   applied : BOOLEAN,
   timer   : BOOLEAN,                    \* spinTimer is pending
   paused  : BOOLEAN]                    \* spinPaused

\* The closure of an input made from a status entry, and no closure at all.
NewWidget(i, c) ==
  [iface |-> i, val |-> c, cost |-> c, last |-> c,
   applied |-> FALSE, timer |-> FALSE, paused |-> FALSE]

NoWidget == NewWidget(None, NoCost)

\* A call of set_ospf_cost, and one of status; "by" is the interface whose
\* applyCost() made the status call, None for the poll.
SetCall(i, c, step) == [op |-> "set", iface |-> i, cost |-> c, step |-> step]
StatusCall(by, step, seen) ==
  [op |-> "status", by |-> by, step |-> step, seen |-> seen]

NoCall == StatusCall(None, "free", None)

Call ==
  [op : {"set"}, iface : Ifaces, cost : Costs,
   step : {"sent", "done", "refused", "failed"}]
  \cup
  [op : {"status"}, by : Ifaces \cup {None},
   step : {"free", "sent", "done", "failed"}, seen : Snapshot \cup {None}]

\* What the variables may hold.
TypeOK ==
  /\ widget \in [Widgets -> Widget]
  /\ shown \in [Ifaces -> Widgets \cup {None}]
  /\ focus \in Widgets \cup {None}
  /\ edits \in Nat
  /\ polling \in BOOLEAN
  /\ calls \in [Slots -> Call]
  /\ notices \subseteq Ifaces
  /\ router \in Snapshot
  /\ asked \in [Ifaces -> Costs \cup {None}]
  /\ up \in BOOLEAN
  /\ blurs \in RemovalBlurs
  /\ events \in 0..MaxEvents

-----------------------------------------------------------------------------
(* The poll and the closure of an input.                                   *)

\* What a handler works on: a closure, the count, the poll and the cost that
\* it calls set_ospf_cost with.
Page(w) == [w |-> widget[w], edits |-> edits, polling |-> polling, out |-> None]

\* Mutant: the poll is stopped by the second edit, not the first.
MPauseCostPoll(p) ==
  [p EXCEPT !.edits = @ + 1, !.polling = @ /\ p.edits # 1]

PauseCostPoll(p) ==
  [p EXCEPT !.edits = @ + 1, !.polling = @ /\ p.edits # 0]

\* Mutant: counting down and testing are swapped.
MResumeCostPoll(p) ==
  [p EXCEPT !.edits = @ - 1, !.polling = @ \/ p.edits = 0]

ResumeCostPoll(p) ==
  [p EXCEPT !.edits = @ - 1, !.polling = @ \/ p.edits = 1]

Clamp(v) == IF v < 1 THEN 1 ELSE IF v > MaxCost THEN MaxCost ELSE v

\* parseInt(input.value, 10) || iface.cost || 0
Current(w) ==
  IF w.val \notin {Blank, NoCost, 0} THEN w.val
  ELSE IF w.cost # NoCost THEN w.cost ELSE 0

EndSpin(p) ==
  LET t == [p EXCEPT !.w.timer = FALSE, !.w.paused = FALSE]
  IN  IF p.w.paused THEN ResumeCostPoll(t) ELSE t

Apply(p) ==
  LET v == Clamp(Current(p.w))
  IN  [EndSpin(p) EXCEPT !.w.val = v, !.w.applied = TRUE, !.w.last = v,
                         !.out = IF v = p.w.last THEN @ ELSE v]

OnFocus(p) == PauseCostPoll([p EXCEPT !.w.applied = FALSE])

\* Mutant: the poll is resumed only if the value is still to be applied.
MOnBlur(p) == IF p.w.applied THEN p ELSE Apply(ResumeCostPoll(p))

OnBlur(p) ==
  LET r == ResumeCostPoll(p)
  IN  IF r.w.applied THEN r ELSE Apply(r)

\* "active": document.activeElement is the input.
OnChange(p, active) ==
  LET t == [p EXCEPT !.w.timer = TRUE]
  IN  IF active \/ p.w.paused THEN t
      ELSE PauseCostPoll([t EXCEPT !.w.paused = TRUE])

\* The field loses the focus.  A browser that finds the value changed since it
\* was entered fires change before blur, with the field still active or not.
Blurred(p, fires, active) == OnBlur(IF fires THEN OnChange(p, active) ELSE p)

\* "inside": the input has the focus when its timer is due.
OnTimer(p, inside, fires, active) ==
  LET t == [p EXCEPT !.w.timer = FALSE]
  IN  IF inside THEN Blurred(t, fires, active) ELSE Apply(t)

\* Enter applies, then leaves the field.
OnEnter(p, fires, active) == Blurred(Apply(p), fires, active)

OnInput(p, text) == [p EXCEPT !.w.val = IF text = NaN THEN p.w.cost ELSE text]

-----------------------------------------------------------------------------
(* RPC calls.                                                              *)

FreeSlots == {s \in Slots : calls[s] = NoCall}
FreeSlot == CHOOSE s \in FreeSlots : \A t \in FreeSlots : s <= t

\* callSetOspfCost() as a handler leaves it, if it calls it; cs are the calls
\* in flight and s a free slot of theirs.
Sent(cs, s, w, p) ==
  IF p.out = None THEN cs
  ELSE [cs EXCEPT ![s] = SetCall(widget[w].iface, p.out, "sent")]

\* Is a call of set_ospf_cost for an interface on its way to rpcd?
OnItsWay(i) ==
  \E s \in Slots : calls[s].op = "set" /\ calls[s].step = "sent" /\ calls[s].iface = i

\* What was asked for then: rpcd may take up two calls in either order.
Asked(w, p) ==
  IF p.out = None THEN asked
  ELSE [asked EXCEPT ![widget[w].iface] =
          IF OnItsWay(widget[w].iface) THEN None ELSE p.out]

\* The handler of an input on the page left the page as p.
Handled(w, p) ==
  /\ events < MaxEvents /\ events' = events + 1
  /\ FreeSlots # {}
  /\ widget' = [widget EXCEPT ![w] = p.w]
  /\ edits' = p.edits
  /\ polling' = p.polling
  /\ calls' = Sent(calls, FreeSlot, w, p)
  /\ asked' = Asked(w, p)
  /\ UNCHANGED <<shown, notices, router, up, blurs>>

OnPage(w) == \E i \in Ifaces : shown[i] = w
Enabled(w) == OnPage(w) /\ widget[w].cost # NoCost

-----------------------------------------------------------------------------
(* The user.                                                               *)

Focus(w) ==
  /\ focus = None
  /\ Enabled(w)
  /\ focus' = w
  /\ Handled(w, OnFocus(Page(w)))

Leave(w) ==
  /\ focus = w
  /\ focus' = None
  /\ \E fires, active \in BOOLEAN :
       Handled(w, Blurred(Page(w), fires, active))

Enter(w) ==
  /\ focus = w
  /\ focus' = None
  /\ \E fires, active \in BOOLEAN :
       Handled(w, OnEnter(Page(w), fires, active))

Type(w) ==
  /\ focus = w
  /\ \E text \in Texts : Handled(w, OnInput(Page(w), text))
  /\ UNCHANGED focus

\* The arrows of the spinner, within its min and max.
Spin(w) ==
  /\ Enabled(w)
  /\ \E v \in Costs :
       /\ v # widget[w].val
       /\ Handled(w, OnChange([Page(w) EXCEPT !.w.val = v], focus = w))
  /\ UNCHANGED focus

-----------------------------------------------------------------------------
(* Timers, polls and refreshes.                                            *)

\* Mutant: the value is applied without leaving the field.
MTimer(w) ==
  /\ widget[w].timer
  /\ FreeSlots # {}
  /\ LET p == OnTimer(Page(w), FALSE, FALSE, FALSE)
     IN  /\ widget' = [widget EXCEPT ![w] = IF OnPage(w) THEN p.w ELSE NoWidget]
         /\ edits' = p.edits
         /\ polling' = p.polling
         /\ calls' = Sent(calls, FreeSlot, w, p)
         /\ asked' = Asked(w, p)
  /\ UNCHANGED <<shown, focus, notices, router, up, blurs, events>>

\* The timer of an input, which may have left the page: then nothing keeps it
\* when its timer is done.
Timer(w) ==
  /\ widget[w].timer
  /\ FreeSlots # {}
  /\ \E fires, active \in BOOLEAN :
       LET p == OnTimer(Page(w), focus = w, fires, active)
       IN  /\ widget' = [widget EXCEPT ![w] = IF OnPage(w) THEN p.w ELSE NoWidget]
           /\ edits' = p.edits
           /\ polling' = p.polling
           /\ calls' = Sent(calls, FreeSlot, w, p)
           /\ asked' = Asked(w, p)
  /\ focus' = IF focus = w THEN None ELSE focus
  /\ UNCHANGED <<shown, notices, router, up, blurs, events>>

\* A tick of the poll calls refresh(); it does not wait for the last one.
Tick ==
  /\ polling
  /\ FreeSlots # {}
  /\ calls' = [calls EXCEPT ![FreeSlot] = StatusCall(None, "sent", None)]
  /\ UNCHANGED <<widget, shown, focus, edits, polling, notices,
                 router, asked, up, blurs, events>>

Unused == {w \in Widgets : widget[w] = NoWidget}

\* The inputs of a refresh: one of its own for each interface.
NewInputs ==
  CHOOSE f \in [Ifaces -> Unused] :
    \A i, j \in Ifaces : f[i] = f[j] => i = j

\* The closures once the page shows new inputs "on": of the old ones only
\* those stay whose timer is pending.
Closures(ws, on, seen) ==
  [w \in Widgets |->
     IF \E i \in Ifaces : on[i] = w
     THEN LET i == CHOOSE i \in Ifaces : on[i] = w IN NewWidget(i, seen[i])
     ELSE IF ws[w].timer THEN ws[w] ELSE NoWidget]

\* updateOspfSection() of a status, or renderUnreachable() without one.
Replaced(seen) == IF seen = None THEN [i \in Ifaces |-> None] ELSE NewInputs

\* The answer in slot s is put on the page.  If the browser blurs the focused
\* input when it is removed, its blur handler runs.
Refresh(s) ==
  LET lost == focus # None
      p    == IF lost /\ blurs THEN OnBlur(Page(focus)) ELSE Page(focus)
      ws   == IF lost /\ blurs THEN [widget EXCEPT ![focus] = p.w] ELSE widget
      free == [calls EXCEPT ![s] = NoCall]
  IN  /\ calls[s].seen # None => Cardinality(Unused) >= Cardinality(Ifaces)
      /\ shown' = Replaced(calls[s].seen)
      /\ widget' = Closures(ws, shown', calls[s].seen)
      /\ focus' = None
      /\ IF lost /\ blurs
         THEN /\ edits' = p.edits
              /\ polling' = p.polling
              /\ calls' = Sent(free, s, focus, p)
              /\ asked' = Asked(focus, p)
         ELSE /\ UNCHANGED <<edits, polling, asked>>
              /\ calls' = free

\* Mutant: a cost that rpcd refuses is not reported.
MNotices(c) ==
  IF c.step = "failed"
  THEN (IF c.op = "set" THEN {c.iface} ELSE {c.by} \ {None})
  ELSE {}

\* The interfaces of which an answer makes applyCost() report a failure:
\* set_ospf_cost was refused or failed, or the status call after it failed.
Notices(c) ==
  CASE c.op = "set" -> IF c.step = "done" THEN {} ELSE {c.iface}
    [] c.op = "status" -> IF c.step = "failed" THEN {c.by} \ {None} ELSE {}

\* The user is told of these interfaces that their cost was not set.
Told(is) == [i \in Ifaces |-> IF i \in is THEN None ELSE asked[i]]

\* The answer to the call in slot s arrives.
Arrive(s) ==
  /\ calls[s].step \in {"done", "refused", "failed"}
  /\ notices' = notices \cup Notices(calls[s])
  /\ \/ /\ calls[s].op = "status" /\ calls[s].step = "done"
        /\ Refresh(s)
     \/ /\ calls[s].step = "failed"
        /\ calls' = [calls EXCEPT ![s] = NoCall]
        /\ asked' = Told(Notices(calls[s]))
        /\ UNCHANGED <<widget, shown, focus, edits, polling>>
     \/ /\ calls[s].op = "set" /\ calls[s].step # "failed"
        /\ calls' = [calls EXCEPT ![s] = StatusCall(@.iface, "sent", None)]
        /\ asked' = Told(Notices(calls[s]))
        /\ UNCHANGED <<widget, shown, focus, edits, polling>>
  /\ UNCHANGED <<router, up, blurs, events>>

-----------------------------------------------------------------------------
(* The router.                                                             *)

\* rpcd answers; set_ospf_cost takes effect.
Serve(s) ==
  /\ calls[s].step = "sent"
  /\ IF calls[s].op = "status"
     THEN /\ calls' = [calls EXCEPT ![s].step = "done",
                                    ![s].seen = IF up THEN router ELSE None]
          /\ UNCHANGED router
     ELSE IF up
     THEN /\ router' = [router EXCEPT ![calls[s].iface] = calls[s].cost]
          /\ calls' = [calls EXCEPT ![s].step = "done"]
     ELSE /\ calls' = [calls EXCEPT ![s].step = "refused"]
          /\ UNCHANGED router
  /\ UNCHANGED <<widget, shown, focus, edits, polling, notices, asked,
                 up, blurs, events>>

\* A call fails on its way there or back, rpcd refuses it, or it answers the
\* status request as if BIRD were down.
Fault(s) ==
  /\ events < MaxEvents /\ events' = events + 1
  /\ \/ /\ calls[s].step = "sent"
        /\ calls' = [calls EXCEPT ![s].step = "failed"]
     \/ /\ calls[s].op = "set" /\ calls[s].step = "sent"
        /\ calls' = [calls EXCEPT ![s].step = "refused"]
     \/ /\ calls[s].op = "set" /\ calls[s].step = "done"
        /\ calls' = [calls EXCEPT ![s].step = "failed"]
     \/ /\ calls[s].op = "status" /\ calls[s].step = "sent"
        /\ calls' = [calls EXCEPT ![s].step = "done"]
  /\ UNCHANGED <<widget, shown, focus, edits, polling, notices,
                 router, asked, up, blurs>>

\* Somebody else sets a cost; BIRD goes down or comes back.
Change ==
  /\ events < MaxEvents /\ events' = events + 1
  /\ \/ /\ up
        /\ \E i \in Ifaces, c \in Costs \cup {NoCost} :
             /\ router' = [router EXCEPT ![i] = c]
             /\ asked' = [asked EXCEPT ![i] = None]
        /\ UNCHANGED up
     \/ up' = ~up /\ UNCHANGED <<router, asked>>
  /\ UNCHANGED <<widget, shown, focus, edits, polling, calls, notices,
                 blurs>>

-----------------------------------------------------------------------------
\* render(): no field yet, the poll added and the first refresh() called.
Init ==
  /\ widget = [w \in Widgets |-> NoWidget]
  /\ shown = [i \in Ifaces |-> None]
  /\ focus = None
  /\ edits = 0
  /\ polling = TRUE
  /\ calls = [s \in Slots |->
                IF s = 1 THEN StatusCall(None, "sent", None) ELSE NoCall]
  /\ notices = {}
  /\ router \in Routers
  /\ asked = [i \in Ifaces |-> None]
  /\ up = TRUE
  /\ blurs \in RemovalBlurs
  /\ events = 0

User(w) == Focus(w) \/ Leave(w) \/ Enter(w) \/ Type(w) \/ Spin(w)

Next ==
  \/ \E w \in Widgets : User(w) \/ Timer(w)
  \/ Tick
  \/ \E s \in Slots : Arrive(s) \/ Serve(s) \/ Fault(s)
  \/ Change

\* The browser runs its timers and delivers answers, rpcd answers; nothing is
\* assumed of the user and of others.
Fairness ==
  /\ WF_vars(\E w \in Widgets : Timer(w))
  /\ WF_vars(Tick)
  /\ \A s \in Slots : WF_vars(Arrive(s)) /\ WF_vars(Serve(s))

Spec == Init /\ [][Next]_vars /\ Fairness

-----------------------------------------------------------------------------
(* Properties.                                                             *)

Paused == {w \in Widgets : widget[w].paused}

\* While a field has the focus or the spinner was clicked within the last 700
\* ms the poll is stopped (status.js:59-71): no sequence of focus, blur, Enter,
\* spinner clicks, timers and refreshes makes the count reach zero too early.
PollOff == focus # None \/ Paused # {} => ~polling

\* In a browser that blurs removed elements the count never stays behind: once
\* no field is edited the poll runs (status.js:63-71, 102-111, 131-135).
PollBack == blurs => (polling <=> focus = None /\ Paused = {})

\* Nothing is sent for a field while the cursor stays in it (status.js:73-75,
\* 148-165): a timer that is due takes the cursor out first.
NotWhileTyping ==
  [][focus # None /\ focus' = focus
       => widget'[focus].last = widget[focus].last]_vars

\* No cost is lost in silence (status.js:35-50, 113-124): what the page sent last
\* for an interface is what BIRD uses, or its call is under way still, or the
\* user was told that it failed - unless somebody else has set the cost since, or
\* two calls of the interface were in flight at once.  So rpcd's refusals, lost
\* calls and lost replies, also those of inputs that were replaced, all reach
\* the user.
UnderWay(i, c) ==
  \E s \in Slots : /\ calls[s].op = "set" /\ calls[s].step # "done"
                   /\ calls[s].iface = i /\ calls[s].cost = c

CostKept ==
  \A i \in Ifaces :
    asked[i] # None => asked[i] = router[i] \/ UnderWay(i, asked[i])

\* Once nobody changes anything any more the fields that are not edited come to
\* show what BIRD uses, whatever order answers arrived in (status.js:289-315,
\* 362-392): the poll is running and every answer from before has been replaced.
\* From then on a value is taken for unchanged (status.js:120) exactly if it is
\* BIRD's, and a blank field goes back to it (status.js:98).
Fresh(w, c) ==
  widget[w].val = c /\ widget[w].last = c /\ widget[w].cost = c

ShowsRouter ==
  IF up THEN \A i \in Ifaces : shown[i] # None /\ Fresh(shown[i], router[i])
        ELSE \A i \in Ifaces : shown[i] = None

Converges == blurs => <>[](focus = None => ShowsRouter)

=============================================================================
