-------------------------- MODULE CostFields_proofs --------------------------
(***************************************************************************)
(* Theorems about CostFields, for every number of interfaces and inputs,   *)
(* every text, and browsers of either kind.                                *)
(***************************************************************************)
EXTENDS CostFields, TLAPS, FiniteSetTheorems, FunctionTheorems,
        WellFoundedInduction

N(b) == IF b THEN 1 ELSE 0

(***************************************************************************)
(* The inductive invariant.                                                *)
(*                                                                         *)
(* The count is never less than the number of fields that the cursor or    *)
(* the spinner is in, and the same in a browser that blurs what it         *)
(* removes; the poll runs while it is zero.                                *)
(***************************************************************************)
CountInv ==
  /\ polling <=> edits = 0
  /\ edits >= Cardinality(Paused) + N(focus # None)
  /\ blurs => edits = Cardinality(Paused) + N(focus # None)

(* A closure counts only while it has a timer that will end that; so no    *)
(* new input takes the place of one that counts, and none is forgotten.    *)
TimerInv == \A w \in Widgets : widget[w].paused => widget[w].timer

(* A field in which the cursor is can be left: it is on the page, and its  *)
(* value was not applied since it was entered, so that leaving it applies. *)
FocusInv == focus # None => OnPage(focus) /\ ~widget[focus].applied

(* A closure in use, by the page or by a timer, is that of an interface.   *)
IfaceInv ==
  \A w \in Widgets : OnPage(w) \/ widget[w].timer => widget[w].iface \in Ifaces

(* The calls on their way to rpcd ask for what was asked for last.         *)
AloneInv ==
  \A i \in Ifaces : \A s \in Slots :
    asked[i] # None /\ calls[s].op = "set" /\ calls[s].step = "sent"
      /\ calls[s].iface = i => calls[s].cost = asked[i]

CallsInv == AloneInv /\ CostKept

IInv == TypeOK /\ CountInv /\ TimerInv /\ FocusInv /\ IfaceInv /\ CallsInv

-----------------------------------------------------------------------------
(* What the handlers do to the count, the poll and the closure.            *)

PageType == [w : Widget, edits : Nat, polling : BOOLEAN, out : Costs \cup {None}]

(* A page in which the poll and the count agree, and that counts the       *)
(* closure, if it does, and k more.                                        *)
Ready(p, k) ==
  /\ p \in PageType
  /\ p.polling <=> p.edits = 0
  /\ p.edits >= k + N(p.w.paused)

TimerOK(w) == w.paused => w.timer

(* A handler makes r of p and moves the cursor in (d is 1), out (-1) or    *)
(* neither: the count follows the cursor and the spinner, and a call is    *)
(* made only with a cost.                                                  *)
Does(p, r, d) ==
  /\ r \in PageType
  /\ r.polling <=> r.edits = 0
  /\ r.edits = p.edits + d + N(r.w.paused) - N(p.w.paused)
  /\ r.w.iface = p.w.iface
  /\ r.out = p.out \/ r.out \in Costs

LEMMA ConstantsType ==
  /\ None \notin Ifaces /\ None \notin Widgets
  /\ MaxCost \in Nat /\ MaxCost >= 1 /\ Costs \subseteq Int
  /\ NoCost \notin Int /\ Blank \notin Int
BY CostFieldsAssumption DEF Costs

(* What is sent is a cost, whatever was typed.                             *)
LEMMA ClampType ==
  ASSUME NEW w \in Widget
  PROVE  Clamp(Current(w)) \in Costs
<1>1. Current(w) \in Int
  <2>1. w.val \in Int \cup {Blank, NoCost} /\ w.cost \in Costs \cup {NoCost}
    BY DEF Widget
  <2>2. w.val \notin {Blank, NoCost, 0} => w.val \in Int
    BY <2>1
  <2>3. w.cost # NoCost => w.cost \in Int
    BY <2>1, ConstantsType
  <2> QED
    BY <2>2, <2>3 DEF Current
<1>2. ASSUME NEW v \in Int PROVE Clamp(v) \in Costs
  BY ConstantsType DEF Clamp, Costs
<1> QED
  BY <1>1, <1>2

(* Updates of a page stay pages.                                           *)
LEMMA CountUpdate ==
  ASSUME NEW p \in PageType, NEW n \in Nat, NEW b \in BOOLEAN
  PROVE  LET r == [p EXCEPT !.edits = n, !.polling = b]
         IN  /\ r \in PageType /\ r.w = p.w /\ r.out = p.out
             /\ r.edits = n /\ r.polling = b
<1> DEFINE q == [p EXCEPT !.edits = n]
           r == [q EXCEPT !.polling = b]
<1>1. q \in PageType /\ q.w = p.w /\ q.out = p.out /\ q.edits = n
  BY DEF PageType
<1>2. r \in PageType /\ r.w = p.w /\ r.out = p.out /\ r.edits = n /\ r.polling = b
  <2> HIDE DEF q
  <2> QED
    BY <1>1 DEF PageType
<1>3. r = [p EXCEPT !.edits = n, !.polling = b]
  BY Zenon
<1> QED
  BY <1>2, <1>3

LEMMA ClosureType ==
  ASSUME NEW p \in PageType
  PROVE  /\ p.w \in Widget /\ p.w.iface \in Ifaces \cup {None}
         /\ p.w.val \in Int \cup {Blank, NoCost}
         /\ p.w.cost \in Costs \cup {NoCost} /\ p.w.last \in Costs \cup {NoCost}
         /\ p.w.applied \in BOOLEAN /\ p.w.timer \in BOOLEAN
         /\ p.w.paused \in BOOLEAN /\ p.edits \in Nat /\ p.polling \in BOOLEAN
BY DEF PageType, Widget

LEMMA EndSpinUpdate ==
  ASSUME NEW p \in PageType
  PROVE  LET r == [p EXCEPT !.w.timer = FALSE, !.w.paused = FALSE]
         IN  /\ r \in PageType /\ ~r.w.timer /\ ~r.w.paused
             /\ r.w.iface = p.w.iface /\ r.w.last = p.w.last
             /\ r.w.applied = p.w.applied /\ r.w.val = p.w.val
             /\ r.edits = p.edits /\ r.polling = p.polling /\ r.out = p.out
<1> DEFINE q == [p EXCEPT !.w.timer = FALSE]
           r == [q EXCEPT !.w.paused = FALSE]
<1>1. /\ q \in PageType /\ ~q.w.timer
      /\ q.w.iface = p.w.iface /\ q.w.last = p.w.last
      /\ q.w.applied = p.w.applied /\ q.w.val = p.w.val
      /\ q.edits = p.edits /\ q.polling = p.polling /\ q.out = p.out
  BY DEF PageType, Widget
<1>2. /\ r \in PageType /\ ~r.w.timer /\ ~r.w.paused
      /\ r.w.iface = p.w.iface /\ r.w.last = p.w.last
      /\ r.w.applied = p.w.applied /\ r.w.val = p.w.val
      /\ r.edits = p.edits /\ r.polling = p.polling /\ r.out = p.out
  <2> HIDE DEF q
  <2> QED
    BY <1>1 DEF PageType, Widget
<1>3. r = [p EXCEPT !.w.timer = FALSE, !.w.paused = FALSE]
  BY Zenon
<1> QED
  BY <1>2, <1>3

LEMMA PauseDoes ==
  ASSUME NEW p, Ready(p, 0)
  PROVE  LET r == PauseCostPoll(p)
         IN  /\ r \in PageType /\ r.w = p.w /\ r.out = p.out
             /\ r.edits = p.edits + 1 /\ r.polling = FALSE
<1>1. p \in PageType /\ p.edits \in Nat /\ (p.polling /\ p.edits # 0) = FALSE
  BY ClosureType DEF Ready
<1>2. PauseCostPoll(p) = [p EXCEPT !.edits = p.edits + 1, !.polling = FALSE]
  BY <1>1, Zenon DEF PauseCostPoll
<1>3. p.edits + 1 \in Nat /\ FALSE \in BOOLEAN
  BY <1>1
<1>4. LET r == [p EXCEPT !.edits = p.edits + 1, !.polling = FALSE]
      IN  /\ r \in PageType /\ r.w = p.w /\ r.out = p.out
          /\ r.edits = p.edits + 1 /\ r.polling = FALSE
  BY <1>1, <1>3, CountUpdate, Zenon
<1> QED
  BY <1>2, <1>4, Zenon

LEMMA ResumeDoes ==
  ASSUME NEW p, Ready(p, 0), p.edits >= 1
  PROVE  LET r == ResumeCostPoll(p)
         IN  /\ r \in PageType /\ r.w = p.w /\ r.out = p.out
             /\ r.edits = p.edits - 1 /\ (r.polling <=> r.edits = 0)
<1>1. /\ p \in PageType /\ p.edits \in Nat /\ p.edits - 1 \in Nat
      /\ p.polling = FALSE
  BY ClosureType DEF Ready
<1>2. CASE p.edits = 1
  <2>1. (p.polling \/ p.edits = 1) = TRUE
    BY <1>2
  <2>2. ResumeCostPoll(p) = [p EXCEPT !.edits = p.edits - 1, !.polling = TRUE]
    BY <2>1, Zenon DEF ResumeCostPoll
  <2>3. LET r == [p EXCEPT !.edits = p.edits - 1, !.polling = TRUE]
        IN  /\ r \in PageType /\ r.w = p.w /\ r.out = p.out
            /\ r.edits = p.edits - 1 /\ r.polling = TRUE
    BY <1>1, CountUpdate, Zenon
  <2>4. TRUE <=> p.edits - 1 = 0
    BY <1>1, <1>2
  <2> QED
    BY <2>2, <2>3, <2>4, Zenon
<1>3. CASE p.edits # 1
  <2>1. (p.polling \/ p.edits = 1) = FALSE
    BY <1>1, <1>3
  <2>2. ResumeCostPoll(p) = [p EXCEPT !.edits = p.edits - 1, !.polling = FALSE]
    BY <2>1, Zenon DEF ResumeCostPoll
  <2>3. LET r == [p EXCEPT !.edits = p.edits - 1, !.polling = FALSE]
        IN  /\ r \in PageType /\ r.w = p.w /\ r.out = p.out
            /\ r.edits = p.edits - 1 /\ r.polling = FALSE
    BY <1>1, CountUpdate, Zenon
  <2>4. FALSE <=> p.edits - 1 = 0
    BY <1>1, <1>3
  <2> QED
    BY <2>2, <2>3, <2>4, Zenon
<1> QED
  BY <1>2, <1>3

LEMMA EndSpinDoes ==
  ASSUME NEW p, Ready(p, 0)
  PROVE  LET r == EndSpin(p)
         IN  /\ Does(p, r, 0) /\ ~r.w.paused /\ ~r.w.timer /\ r.out = p.out
             /\ r.w.val = p.w.val /\ r.w.last = p.w.last
<1> DEFINE t == [p EXCEPT !.w.timer = FALSE, !.w.paused = FALSE]
<1>1. /\ t \in PageType /\ ~t.w.timer /\ ~t.w.paused
      /\ t.w.iface = p.w.iface /\ t.w.last = p.w.last
      /\ t.w.applied = p.w.applied /\ t.w.val = p.w.val
      /\ t.edits = p.edits /\ t.polling = p.polling /\ t.out = p.out
  BY EndSpinUpdate DEF Ready
<1>2. EndSpin(p) = IF p.w.paused THEN ResumeCostPoll(t) ELSE t
  BY Zenon DEF EndSpin
<1> HIDE DEF t
<1>3. p.edits \in Nat /\ p.w.paused \in BOOLEAN /\ (p.polling <=> p.edits = 0)
  BY ClosureType DEF Ready
<1>4. CASE p.w.paused
  <2>1. Ready(t, 0) /\ t.edits >= 1
    BY <1>1, <1>3, <1>4 DEF Ready, N
  <2> QED
    BY <1>1, <1>2, <1>3, <1>4, <2>1, ResumeDoes DEF Does, N
<1>5. CASE ~p.w.paused
  BY <1>1, <1>2, <1>3, <1>5 DEF Does, N
<1> QED
  BY <1>4, <1>5

LEMMA ApplyDoes ==
  ASSUME NEW p, Ready(p, 0)
  PROVE  LET r == Apply(p)
         IN  Does(p, r, 0) /\ r.w.applied /\ ~r.w.paused /\ ~r.w.timer
<1> DEFINE v == Clamp(Current(p.w))
           e == EndSpin(p)
           o == IF v = p.w.last THEN e.out ELSE v
           a == [e EXCEPT !.w.val = v]
           b == [a EXCEPT !.w.applied = TRUE]
           c == [b EXCEPT !.w.last = v]
           r == [c EXCEPT !.out = o]
<1>1. v \in Costs
  BY ClampType, ClosureType DEF Ready
<1>2. Does(p, e, 0) /\ ~e.w.paused /\ ~e.w.timer /\ e.out = p.out
  BY EndSpinDoes
<1>3. Apply(p) = r
  BY Zenon DEF Apply
<1> HIDE DEF v, e
<1>4. e \in PageType /\ o \in Costs \cup {None}
  BY <1>1, <1>2 DEF Does, PageType
<1>5. o = p.out \/ o \in Costs
  BY <1>1, <1>2
<1> HIDE DEF o
<1>6. /\ a \in PageType
      /\ a.w.timer = e.w.timer /\ a.w.paused = e.w.paused /\ a.w.iface = e.w.iface
      /\ a.edits = e.edits /\ a.polling = e.polling
  BY <1>1, <1>4, ConstantsType DEF PageType, Widget
<1> HIDE DEF a
<1>7. /\ b \in PageType /\ b.w.applied
      /\ b.w.timer = e.w.timer /\ b.w.paused = e.w.paused /\ b.w.iface = e.w.iface
      /\ b.edits = e.edits /\ b.polling = e.polling
  BY <1>6 DEF PageType, Widget
<1> HIDE DEF b
<1>8. /\ c \in PageType /\ c.w.applied
      /\ c.w.timer = e.w.timer /\ c.w.paused = e.w.paused /\ c.w.iface = e.w.iface
      /\ c.edits = e.edits /\ c.polling = e.polling
  BY <1>1, <1>7 DEF PageType, Widget
<1> HIDE DEF c
<1>9. /\ r \in PageType /\ r.w.applied /\ r.out = o
      /\ r.w.timer = e.w.timer /\ r.w.paused = e.w.paused /\ r.w.iface = e.w.iface
      /\ r.edits = e.edits /\ r.polling = e.polling
  BY <1>4, <1>8 DEF PageType, Widget
<1> HIDE DEF r
<1> QED
  BY <1>2, <1>3, <1>5, <1>9 DEF Does, N

LEMMA OnFocusDoes ==
  ASSUME NEW p, Ready(p, 0)
  PROVE  LET r == OnFocus(p)
         IN  /\ Does(p, r, 1) /\ ~r.w.applied /\ r.out = p.out
             /\ r.w.paused = p.w.paused /\ r.w.timer = p.w.timer
             /\ r.w.last = p.w.last
<1> DEFINE t == [p EXCEPT !.w.applied = FALSE]
<1>1. /\ t \in PageType /\ ~t.w.applied /\ t.out = p.out
      /\ t.w.paused = p.w.paused /\ t.w.timer = p.w.timer
      /\ t.w.last = p.w.last /\ t.w.iface = p.w.iface
      /\ t.edits = p.edits /\ t.polling = p.polling
  BY DEF Ready, PageType, Widget
<1>2. OnFocus(p) = PauseCostPoll(t)
  BY Zenon DEF OnFocus
<1> HIDE DEF t
<1>3. Ready(t, 0)
  BY <1>1 DEF Ready
<1>4. p.edits \in Nat
  BY ClosureType DEF Ready
<1> DEFINE r == PauseCostPoll(t)
<1>5. /\ r \in PageType /\ r.w = t.w /\ r.out = t.out
      /\ r.edits = t.edits + 1 /\ r.polling = FALSE
  BY <1>3, PauseDoes, Zenon
<1> HIDE DEF r
<1> QED
  BY <1>1, <1>2, <1>4, <1>5 DEF Does, N, r

LEMMA OnChangeDoes ==
  ASSUME NEW p, Ready(p, 0), NEW active \in BOOLEAN
  PROVE  LET r == OnChange(p, active)
         IN  /\ Does(p, r, 0) /\ r.w.timer /\ r.out = p.out
             /\ r.w.applied = p.w.applied /\ r.w.last = p.w.last
             /\ r.w.val = p.w.val
<1> DEFINE t == [p EXCEPT !.w.timer = TRUE]
           u == [t EXCEPT !.w.paused = TRUE]
<1>1. /\ t \in PageType /\ t.w.applied = p.w.applied /\ t.out = p.out
      /\ t.w.paused = p.w.paused /\ t.w.timer
      /\ t.w.last = p.w.last /\ t.w.iface = p.w.iface /\ t.w.val = p.w.val
      /\ t.edits = p.edits /\ t.polling = p.polling
  BY DEF Ready, PageType, Widget
<1>2. OnChange(p, active) = IF active \/ p.w.paused THEN t ELSE PauseCostPoll(u)
  BY Zenon DEF OnChange
<1> HIDE DEF t
<1>3. /\ u \in PageType /\ u.w.applied = p.w.applied /\ u.out = p.out
      /\ u.w.paused /\ u.w.timer
      /\ u.w.last = p.w.last /\ u.w.iface = p.w.iface /\ u.w.val = p.w.val
      /\ u.edits = p.edits /\ u.polling = p.polling
  BY <1>1 DEF PageType, Widget
<1> HIDE DEF u
<1>4. /\ p.edits \in Nat /\ p.w.paused \in BOOLEAN
      /\ p.polling <=> p.edits = 0
  BY ClosureType DEF Ready
<1>5. CASE active \/ p.w.paused
  BY <1>1, <1>2, <1>4, <1>5 DEF Does, N
<1>6. CASE ~(active \/ p.w.paused)
  <2> DEFINE q == [u EXCEPT !.edits = u.edits + 1, !.polling = FALSE]
  <2>1. u.edits + 1 \in Nat /\ (u.polling /\ u.edits # 0) = FALSE
    BY <1>3, <1>4
  <2>2. PauseCostPoll(u) = q
    BY <2>1, Zenon DEF PauseCostPoll
  <2>3. q \in PageType /\ q.w = u.w /\ q.out = u.out /\ q.edits = u.edits + 1
        /\ q.polling = FALSE
    BY <1>3, <2>1, CountUpdate, Zenon
  <2> HIDE DEF q
  <2>4. OnChange(p, active) = q
    BY <1>2, <1>6, <2>2
  <2> QED
    BY <1>3, <1>4, <1>6, <2>3, <2>4 DEF Does, N
<1> QED
  BY <1>5, <1>6

(* Leaving a field: what was not applied since it was entered is applied,  *)
(* and its spinner then counts no more.                                    *)
LEMMA OnBlurDoes ==
  ASSUME NEW p, Ready(p, 1)
  PROVE  LET r == OnBlur(p)
         IN  /\ Does(p, r, -1)
             /\ TimerOK(p.w) \/ ~p.w.applied => TimerOK(r.w)
             /\ p.w.applied => r.out = p.out
<1> DEFINE q == ResumeCostPoll(p)
<1>1. p.edits \in Nat /\ p.edits >= 1 + N(p.w.paused) /\ p.w.paused \in BOOLEAN
  BY ClosureType DEF Ready
<1>2. Ready(p, 0) /\ p.edits >= 1
  BY <1>1 DEF Ready, N
<1>3. /\ q \in PageType /\ q.w = p.w /\ q.out = p.out
      /\ q.edits = p.edits - 1 /\ (q.polling <=> q.edits = 0)
  BY <1>2, ResumeDoes
<1>4. OnBlur(p) = IF q.w.applied THEN q ELSE Apply(q)
  BY Zenon DEF OnBlur
<1> HIDE DEF q
<1>5. CASE q.w.applied
  BY <1>1, <1>3, <1>4, <1>5 DEF Does, N
<1>6. CASE ~q.w.applied
  <2>1. Ready(q, 0)
    BY <1>1, <1>3 DEF Ready, N
  <2>2. Does(q, Apply(q), 0) /\ ~Apply(q).w.paused
    BY <2>1, ApplyDoes
  <2> QED
    BY <1>1, <1>3, <1>4, <1>6, <2>2 DEF Does, N, TimerOK
<1> QED
  BY <1>5, <1>6

LEMMA BlurredDoes ==
  ASSUME NEW p, Ready(p, 1), NEW fires \in BOOLEAN, NEW active \in BOOLEAN
  PROVE  LET r == Blurred(p, fires, active)
         IN  /\ Does(p, r, -1)
             /\ TimerOK(p.w) \/ ~p.w.applied => TimerOK(r.w)
             /\ p.w.applied => r.out = p.out
<1> DEFINE q == OnChange(p, active)
<1>1. Blurred(p, fires, active) = OnBlur(IF fires THEN q ELSE p)
  BY Zenon DEF Blurred
<1>2. p.edits \in Nat /\ p.edits >= 1 + N(p.w.paused) /\ p.w.paused \in BOOLEAN
  BY ClosureType DEF Ready
<1>3. Ready(p, 0)
  BY <1>2 DEF Ready, N
<1>4. /\ Does(p, q, 0) /\ q.w.timer /\ q.out = p.out
      /\ q.w.applied = p.w.applied /\ q.w.last = p.w.last
  BY <1>3, OnChangeDoes
<1> HIDE DEF q
<1>5. q.w.paused \in BOOLEAN
  BY <1>4, ClosureType DEF Does
<1>6. Ready(q, 1)
  BY <1>2, <1>4, <1>5 DEF Ready, Does, N
<1>7. CASE fires
  <2> DEFINE r == OnBlur(q)
  <2>1. /\ Does(q, r, -1) /\ TimerOK(r.w)
        /\ q.w.applied => r.out = q.out
    BY <1>4, <1>6, OnBlurDoes DEF TimerOK
  <2> HIDE DEF r
  <2>2. Blurred(p, fires, active) = r
    BY <1>1, <1>7 DEF r
  <2> QED
    BY <1>2, <1>4, <1>5, <2>1, <2>2 DEF Does, N
<1>8. CASE ~fires
  BY <1>1, <1>8, OnBlurDoes
<1> QED
  BY <1>7, <1>8

(* A timer that is due in the field the cursor is in.                      *)
LEMMA OnTimerInsideDoes ==
  ASSUME NEW p, Ready(p, 1), ~p.w.applied,
         NEW fires \in BOOLEAN, NEW active \in BOOLEAN
  PROVE  LET r == OnTimer(p, TRUE, fires, active)
         IN  Does(p, r, -1) /\ TimerOK(r.w)
<1> DEFINE t == [p EXCEPT !.w.timer = FALSE]
<1>1. /\ t \in PageType /\ t.w.applied = p.w.applied /\ t.out = p.out
      /\ t.w.paused = p.w.paused /\ t.w.last = p.w.last /\ t.w.iface = p.w.iface
      /\ t.edits = p.edits /\ t.polling = p.polling
  BY DEF Ready, PageType, Widget
<1>2. OnTimer(p, TRUE, fires, active) = Blurred(t, fires, active)
  BY Zenon DEF OnTimer
<1> HIDE DEF t
<1>3. Ready(t, 1)
  BY <1>1 DEF Ready
<1> DEFINE r == Blurred(t, fires, active)
<1>4. Does(t, r, -1) /\ TimerOK(r.w)
  BY <1>1, <1>3, BlurredDoes
<1> HIDE DEF r
<1> QED
  BY <1>1, <1>2, <1>4 DEF Does, r

(* A timer that is due elsewhere.                                          *)
LEMMA OnTimerOutsideDoes ==
  ASSUME NEW p, Ready(p, 0), NEW fires \in BOOLEAN, NEW active \in BOOLEAN
  PROVE  LET r == OnTimer(p, FALSE, fires, active)
         IN  Does(p, r, 0) /\ ~r.w.paused
<1> DEFINE t == [p EXCEPT !.w.timer = FALSE]
<1>1. /\ t \in PageType /\ t.w.applied = p.w.applied /\ t.out = p.out
      /\ t.w.paused = p.w.paused /\ t.w.last = p.w.last /\ t.w.iface = p.w.iface
      /\ t.edits = p.edits /\ t.polling = p.polling
  BY DEF Ready, PageType, Widget
<1>2. OnTimer(p, FALSE, fires, active) = Apply(t)
  BY Zenon DEF OnTimer
<1> HIDE DEF t
<1>3. Ready(t, 0)
  BY <1>1 DEF Ready
<1> DEFINE r == Apply(t)
<1>4. Does(t, r, 0) /\ ~r.w.paused
  BY <1>3, ApplyDoes
<1> HIDE DEF r
<1> QED
  BY <1>1, <1>2, <1>4 DEF Does, r

(* Enter applies, and leaving the field does not apply again.              *)
LEMMA OnEnterDoes ==
  ASSUME NEW p, Ready(p, 1), NEW fires \in BOOLEAN, NEW active \in BOOLEAN
  PROVE  LET r == OnEnter(p, fires, active)
         IN  Does(p, r, -1) /\ TimerOK(r.w)
<1> DEFINE q == Apply(p)
           r == Blurred(q, fires, active)
<1>1. OnEnter(p, fires, active) = r
  BY Zenon DEF OnEnter
<1>2. p.edits \in Nat /\ p.edits >= 1 + N(p.w.paused) /\ p.w.paused \in BOOLEAN
  BY ClosureType DEF Ready
<1>3. Ready(p, 0)
  BY <1>2 DEF Ready, N
<1>4. Does(p, q, 0) /\ q.w.applied /\ ~q.w.paused
  BY <1>3, ApplyDoes
<1> HIDE DEF q
<1>5. Ready(q, 1)
  BY <1>2, <1>4 DEF Ready, Does, N
<1>6. Does(q, r, -1) /\ TimerOK(r.w) /\ r.out = q.out
  BY <1>4, <1>5, BlurredDoes DEF TimerOK
<1> HIDE DEF r
<1>7. r.w.paused \in BOOLEAN
  BY <1>6, ClosureType DEF Does
<1> QED
  BY <1>1, <1>2, <1>4, <1>6, <1>7 DEF Does, N

(* Typing leaves everything but the text.                                  *)
LEMMA OnInputDoes ==
  ASSUME NEW p, Ready(p, 0), NEW text \in Texts
  PROVE  LET r == OnInput(p, text)
         IN  /\ Does(p, r, 0) /\ r.out = p.out /\ r.w.applied = p.w.applied
             /\ r.w.timer = p.w.timer /\ r.w.paused = p.w.paused
             /\ r.w.last = p.w.last
<1> DEFINE v == IF text = NaN THEN p.w.cost ELSE text
<1>1. v \in Int \cup {Blank, NoCost}
  BY ClosureType, ConstantsType, CostFieldsAssumption DEF Ready
<1>2. OnInput(p, text) = [p EXCEPT !.w.val = v]
  BY Zenon DEF OnInput
<1> HIDE DEF v
<1> DEFINE r == [p EXCEPT !.w.val = v]
<1>3. /\ r \in PageType /\ r.out = p.out /\ r.w.applied = p.w.applied
      /\ r.w.timer = p.w.timer /\ r.w.paused = p.w.paused
      /\ r.w.last = p.w.last /\ r.w.iface = p.w.iface
      /\ r.edits = p.edits /\ r.polling = p.polling
  BY <1>1 DEF Ready, PageType, Widget
<1> HIDE DEF r
<1>4. p.edits \in Nat /\ p.w.paused \in BOOLEAN
  BY ClosureType DEF Ready
<1> QED
  BY <1>2, <1>3, <1>4 DEF Ready, Does, N, r

-----------------------------------------------------------------------------
(* Counting the inputs that the spinner is in.                             *)

PausedOf(ws) == {w \in Widgets : ws[w].paused}

LEMMA PausedStep ==
  ASSUME NEW ws \in [Widgets -> Widget], NEW w \in Widgets, NEW x \in Widget
  PROVE  /\ Cardinality(PausedOf(ws)) \in Nat
         /\ Cardinality(PausedOf(ws)) >= N(ws[w].paused)
         /\ Cardinality(PausedOf([ws EXCEPT ![w] = x]))
              = Cardinality(PausedOf(ws)) + N(x.paused) - N(ws[w].paused)
<1> DEFINE S == PausedOf(ws)
           T == PausedOf([ws EXCEPT ![w] = x])
<1>1. IsFiniteSet(S) /\ Cardinality(S) \in Nat
  BY CostFieldsAssumption, FS_Subset, FS_CardinalityType DEF PausedOf
<1>2. /\ w \in S <=> ws[w].paused
      /\ T = IF x.paused THEN S \cup {w} ELSE S \ {w}
      /\ x.paused \in BOOLEAN
  BY DEF PausedOf, Widget
<1>3. /\ Cardinality(S \cup {w}) = IF w \in S THEN Cardinality(S) ELSE Cardinality(S) + 1
      /\ Cardinality(S \ {w}) = IF w \in S THEN Cardinality(S) - 1 ELSE Cardinality(S)
      /\ Cardinality(S \ {w}) \in Nat
  BY <1>1, FS_AddElement, FS_RemoveElement, FS_CardinalityType
<1> HIDE DEF S, T
<1>4. Cardinality(S) >= N(ws[w].paused)
  BY <1>1, <1>2, <1>3 DEF N
<1>5. Cardinality(T) = Cardinality(S) + N(x.paused) - N(ws[w].paused)
  BY <1>1, <1>2, <1>3 DEF N
<1> QED
  BY <1>1, <1>4, <1>5 DEF S, T

(* There are inputs for a refresh, each for one interface, when there are  *)
(* as many unused ones as interfaces.                                      *)
LEMMA NewInputsType ==
  ASSUME Cardinality(Unused) >= Cardinality(Ifaces)
  PROVE  /\ NewInputs \in [Ifaces -> Unused]
         /\ \A i, j \in Ifaces : NewInputs[i] = NewInputs[j] => i = j
<1> DEFINE n == Cardinality(Ifaces)
           m == Cardinality(Unused)
<1>1. IsFiniteSet(Unused) /\ IsFiniteSet(Ifaces)
  BY CostFieldsAssumption, FS_Subset DEF Unused
<1>2. /\ n \in Nat /\ ExistsBijection(1..n, Ifaces)
      /\ m \in Nat /\ ExistsBijection(1..m, Unused)
  BY <1>1, FS_CardinalityType
<1>3. ExistsInjection(Ifaces, 1..n) /\ ExistsInjection(1..m, Unused)
  BY <1>2, Fun_ExistsBijEquiv
<1>4. ExistsInjection(1..n, 1..m)
  BY <1>2, Fun_NatInjLeq
<1>5. ExistsInjection(Ifaces, Unused)
  BY <1>3, <1>4, Fun_ExistsInjTransitive
<1>6. PICK f \in [Ifaces -> Unused] : \A i, j \in Ifaces : f[i] = f[j] => i = j
  BY <1>5 DEF ExistsInjection, Injection, IsInjective
<1> QED
  BY <1>6 DEF NewInputs

-----------------------------------------------------------------------------
(* A handler runs.                                                         *)

LEMMA PageReady ==
  ASSUME IInv, NEW w \in Widgets
  PROVE  /\ Ready(Page(w), 0) /\ (focus = w => Ready(Page(w), 1))
         /\ Page(w).w = widget[w] /\ Page(w).out = None /\ Page(w).edits = edits
<1>1. /\ widget \in [Widgets -> Widget] /\ edits \in Nat /\ polling \in BOOLEAN
      /\ widget[w] \in Widget /\ None \notin Widgets
  BY ConstantsType DEF IInv, TypeOK
<1>2. /\ Page(w) \in PageType /\ Page(w).w = widget[w] /\ Page(w).out = None
      /\ Page(w).edits = edits /\ (Page(w).polling <=> polling)
  BY <1>1 DEF Page, PageType
<1>3. /\ Cardinality(Paused) \in Nat
      /\ Cardinality(Paused) >= N(widget[w].paused)
  BY <1>1, PausedStep DEF Paused, PausedOf
<1>4. /\ edits >= Cardinality(Paused) + N(focus # None)
      /\ polling <=> edits = 0
  BY DEF IInv, CountInv
<1>5. edits >= N(widget[w].paused) /\ (focus = w => edits >= 1 + N(widget[w].paused))
  BY <1>1, <1>3, <1>4 DEF N
<1> QED
  BY <1>1, <1>2, <1>4, <1>5 DEF Ready, N

LEMMA SentType ==
  ASSUME NEW cs \in [Slots -> Call], NEW t, NEW w \in Widgets,
         NEW r, r.out \in Costs \cup {None}, widget[w].iface \in Ifaces
  PROVE  Sent(cs, t, w, r) \in [Slots -> Call]
BY DEF Sent, SetCall, Call

LEMMA AskedType ==
  ASSUME asked \in [Ifaces -> Costs \cup {None}], NEW w \in Widgets,
         NEW r, r.out \in Costs \cup {None}, widget[w].iface \in Ifaces
  PROVE  Asked(w, r) \in [Ifaces -> Costs \cup {None}]
BY DEF Asked

LEMMA FreeSlotType ==
  ASSUME FreeSlots # {}
  PROVE  FreeSlot \in Slots /\ calls[FreeSlot] = NoCall
<1>1. FreeSlots \subseteq Slots /\ Slots \subseteq Nat
  BY CostFieldsAssumption DEF FreeSlots, Slots
<1> DEFINE R == OpToRel(<, Nat)
<1>2. IsWellFoundedOn(R, Nat) /\ \A x, y \in Nat : <<x, y>> \in R <=> x < y
  BY NatLessThanWellFounded DEF OpToRel
<1> HIDE DEF R
<1>3. \E x \in FreeSlots : \A y \in FreeSlots : x <= y
  <2>1. PICK x \in FreeSlots : \A y \in FreeSlots : ~(<<y, x>> \in R)
    BY <1>1, <1>2, WFMin
  <2>2. \A y \in FreeSlots : x \in Nat /\ y \in Nat /\ ~(y < x)
    BY <1>1, <1>2, <2>1
  <2> QED
    BY <2>2
<1>4. FreeSlot \in FreeSlots
  BY <1>3 DEF FreeSlot
<1> QED
  BY <1>4 DEF FreeSlots

(* A handler calls set_ospf_cost through slot t of cs, the calls that are  *)
(* in flight but for the answer of a status call: what it asks for is      *)
(* under way, and what was asked for before is not disturbed.              *)
LEMMA SentKept ==
  ASSUME TypeOK, CallsInv, NEW cs \in [Slots -> Call], NEW t \in Slots,
         \A s \in Slots : s # t => cs[s] = calls[s],
         calls[t].op = "status", cs[t].op = "status",
         NEW w \in Widgets, NEW r, r.out \in Costs \cup {None},
         widget[w].iface \in Ifaces,
         calls' = Sent(cs, t, w, r), asked' = Asked(w, r), router' = router
  PROVE  CallsInv'
<1>1. calls \in [Slots -> Call] /\ asked \in [Ifaces -> Costs \cup {None}]
  BY DEF TypeOK
<1>2. CASE r.out = None
  <2>1. calls' = cs /\ asked' = asked
    BY <1>2 DEF Sent, Asked
  <2>2. AloneInv'
    BY <2>1 DEF CallsInv, AloneInv
  <2>3. CostKept'
    BY <2>1 DEF CallsInv, CostKept, UnderWay
  <2> QED
    BY <2>2, <2>3 DEF CallsInv
<1>3. CASE r.out # None
  <2>0. PICK i \in Ifaces : i = widget[w].iface
    OBVIOUS
  <2> DEFINE n == SetCall(i, r.out, "sent")
  <2>1. /\ n.op = "set" /\ n.iface = i /\ n.cost = r.out /\ n.step = "sent"
    BY DEF SetCall
  <2>2. \A s \in Slots : calls'[s] = IF s = t THEN n ELSE calls[s]
    BY <1>3, <2>0 DEF Sent
  <2>3. \A j \in Ifaces : asked'[j] = IF j # i THEN asked[j]
                                     ELSE IF OnItsWay(i) THEN None ELSE r.out
    BY <1>1, <1>3, <2>0 DEF Asked
  <2> HIDE DEF n
  <2>4. AloneInv'
    BY <2>1, <2>2, <2>3 DEF CallsInv, AloneInv, OnItsWay
  <2>6. ASSUME NEW j \in Ifaces, asked'[j] # None, j # i
        PROVE  asked'[j] = router'[j] \/ UnderWay(j, asked[j])'
    <3>1. asked'[j] = asked[j] /\ (asked[j] = router[j] \/ UnderWay(j, asked[j]))
      BY <2>3, <2>6 DEF CallsInv, CostKept
    <3>2. CASE UnderWay(j, asked[j])
      <4>1. PICK s \in Slots : /\ calls[s].op = "set" /\ calls[s].step # "done"
                               /\ calls[s].iface = j /\ calls[s].cost = asked[j]
        BY <3>2 DEF UnderWay
      <4>2. calls'[s] = calls[s]
        BY <2>2, <4>1
      <4> QED
        BY <3>1, <4>1, <4>2 DEF UnderWay
    <3> QED
      BY <3>1, <3>2
  <2>7. ASSUME asked'[i] # None
        PROVE  UnderWay(i, asked[i])'
    <3>1. asked'[i] = r.out
      BY <2>3, <2>7
    <3>2. /\ calls'[t].op = "set" /\ calls'[t].step # "done"
          /\ calls'[t].iface = i /\ calls'[t].cost = asked'[i]
      BY <2>1, <2>2, <3>1
    <3> QED
      BY <3>2 DEF UnderWay
  <2>8. CostKept'
    BY <2>6, <2>7 DEF CostKept
  <2> QED
    BY <2>4, <2>8 DEF CallsInv
<1> QED
  BY <1>2, <1>3

(* The count follows when a handler makes r of the page and x is left of   *)
(* the closure.                                                            *)
LEMMA CountKept ==
  ASSUME IInv, NEW w \in Widgets, NEW d \in {-1, 0, 1}, NEW r, NEW x \in Widget,
         Does(Page(w), r, d), x.paused = r.w.paused,
         N(focus' # None) = N(focus # None) + d,
         Paused' = PausedOf([widget EXCEPT ![w] = x]),
         edits' = r.edits, polling' = r.polling, blurs' = blurs
  PROVE  CountInv'
<1>1. /\ widget \in [Widgets -> Widget] /\ edits \in Nat
      /\ N(focus # None) \in {0, 1} /\ widget[w].paused \in BOOLEAN
      /\ x.paused \in BOOLEAN
  BY DEF IInv, TypeOK, Widget, N
<1>2. /\ Cardinality(Paused) \in Nat
      /\ Cardinality(Paused') = Cardinality(Paused) + N(x.paused) - N(widget[w].paused)
  BY <1>1, PausedStep DEF Paused, PausedOf
<1>3. edits' = edits + d + N(x.paused) - N(widget[w].paused) /\ (polling' <=> edits' = 0)
  BY PageReady DEF Does
<1>4. /\ edits >= Cardinality(Paused) + N(focus # None)
      /\ blurs => edits = Cardinality(Paused) + N(focus # None)
  BY DEF IInv, CountInv
<1>5. N(x.paused) \in {0, 1} /\ N(widget[w].paused) \in {0, 1}
  BY DEF N
<1> HIDE DEF N
<1>6. edits' >= Cardinality(Paused') + N(focus' # None)
  BY <1>1, <1>2, <1>3, <1>4, <1>5
<1>7. blurs' => edits' = Cardinality(Paused') + N(focus' # None)
  BY <1>1, <1>2, <1>3, <1>4, <1>5
<1> QED
  BY <1>3, <1>6, <1>7 DEF CountInv

(* The handler of input w turns its page into r and x is what is left of   *)
(* its closure; the cursor comes, goes or stays.                           *)
LEMMA HandlerIInv ==
  ASSUME IInv, NEW w \in Widgets, NEW d \in {-1, 0, 1}, NEW r, NEW x \in Widget,
         widget[w].iface \in Ifaces,
         Does(Page(w), r, d), x.paused = r.w.paused, TimerOK(x),
         x = r.w \/ (~OnPage(w) /\ ~x.timer),
         widget' = [widget EXCEPT ![w] = x],
         edits' = r.edits, polling' = r.polling,
         FreeSlots # {},
         calls' = Sent(calls, FreeSlot, w, r), asked' = Asked(w, r),
         UNCHANGED <<shown, notices, router, up, blurs>>, events' \in 0..MaxEvents,
         N(focus' # None) = N(focus # None) + d,
         focus' \in {focus, w, None},
         focus' = w => OnPage(w) /\ ~x.applied
  PROVE  IInv'
<1>1. /\ widget \in [Widgets -> Widget] /\ widget' \in [Widgets -> Widget]
      /\ \A v \in Widgets : widget'[v] = IF v = w THEN x ELSE widget[v]
      /\ None \notin Widgets
  BY ConstantsType DEF IInv, TypeOK
<1>2. r.out \in Costs \cup {None} /\ edits' \in Nat /\ polling' \in BOOLEAN
  BY DEF Does, PageType
<1>3. calls' \in [Slots -> Call]
  BY <1>2, SentType DEF IInv, TypeOK
<1>4. TypeOK'
  <2>1. asked' \in [Ifaces -> Costs \cup {None}]
    BY <1>2, AskedType DEF IInv, TypeOK
  <2> QED
    BY <1>1, <1>2, <1>3, <2>1 DEF IInv, TypeOK
<1>5. CountInv'
  BY <1>1, CountKept DEF Paused, PausedOf
<1>6. TimerInv'
  BY <1>1 DEF IInv, TimerInv, TimerOK
<1>7. \A v \in Widgets : OnPage(v)' <=> OnPage(v)
  BY DEF OnPage
<1>8. FocusInv'
  BY <1>1, <1>7 DEF IInv, TypeOK, FocusInv
<1>9. IfaceInv'
  <2>1. x = r.w => x.iface \in Ifaces
    BY PageReady DEF Does
  <2> QED
    BY <1>1, <1>7, <2>1 DEF IInv, IfaceInv
<1>10. CallsInv'
  <2>1. FreeSlot \in Slots /\ calls[FreeSlot].op = "status"
    BY FreeSlotType DEF NoCall, StatusCall
  <2> QED
    BY <1>2, <2>1, SentKept DEF IInv, TypeOK
<1> QED
  BY <1>4, <1>5, <1>6, <1>8, <1>9, <1>10 DEF IInv

(* While the cursor stays in a field, what was last sent for it stays.     *)
TypingStep ==
  focus # None /\ focus' = focus => widget'[focus].last = widget[focus].last

StepOK == IInv' /\ TypingStep

(* The facts about an input that every handler of it starts from.          *)
LEMMA WidgetFacts ==
  ASSUME IInv, NEW w \in Widgets
  PROVE  /\ widget \in [Widgets -> Widget] /\ widget[w] \in Widget
         /\ w # None /\ TimerOK(widget[w]) /\ widget[w].paused \in BOOLEAN
         /\ OnPage(w) \/ widget[w].timer => widget[w].iface \in Ifaces
         /\ focus = w => OnPage(w) /\ ~widget[w].applied
BY ConstantsType
   DEF IInv, TypeOK, TimerInv, TimerOK, IfaceInv, FocusInv, Widget

LEMMA EventsType ==
  ASSUME IInv, events < MaxEvents, events' = events + 1
  PROVE  events' \in 0..MaxEvents
BY CostFieldsAssumption DEF IInv, TypeOK

LEMMA FocusOK ==
  ASSUME IInv, NEW w \in Widgets, Focus(w)
  PROVE  StepOK
<1> DEFINE r == OnFocus(Page(w))
<1>1. Handled(w, r) /\ focus = None /\ focus' = w /\ OnPage(w)
  BY DEF Focus, Enabled
<1>2. /\ Does(Page(w), r, 1) /\ ~r.w.applied
      /\ r.w.paused = widget[w].paused /\ r.w.timer = widget[w].timer
  BY PageReady, OnFocusDoes
<1> HIDE DEF r
<1>3. r.w \in Widget
  BY <1>2 DEF Does, PageType
<1>4. TimerOK(r.w)
  BY <1>2, WidgetFacts DEF TimerOK
<1>5. N(focus' # None) = N(focus # None) + 1
  BY <1>1, WidgetFacts DEF N
<1>6. events' \in 0..MaxEvents
  BY <1>1, EventsType DEF Handled
<1>7. IInv'
  BY <1>1, <1>2, <1>3, <1>4, <1>5, <1>6, WidgetFacts, HandlerIInv DEF Handled
<1> QED
  BY <1>1, <1>7 DEF StepOK, TypingStep

(* The cursor leaves the field, by a click elsewhere or by Enter.          *)
LEMMA LeaveOK ==
  ASSUME IInv, NEW w \in Widgets, NEW r, focus = w, focus' = None,
         Handled(w, r), Does(Page(w), r, -1), TimerOK(r.w)
  PROVE  StepOK
<1>1. r.w \in Widget
  BY DEF Does, PageType
<1>2. N(focus' # None) = N(focus # None) + (-1)
  BY WidgetFacts DEF N
<1>3. events' \in 0..MaxEvents
  BY EventsType DEF Handled
<1>4. IInv'
  BY <1>1, <1>2, <1>3, WidgetFacts, HandlerIInv DEF Handled
<1> QED
  BY <1>4, WidgetFacts DEF StepOK, TypingStep

(* The cursor stays where it is.                                           *)
LEMMA StayOK ==
  ASSUME IInv, NEW w \in Widgets, NEW r, focus' = focus, OnPage(w),
         Handled(w, r), Does(Page(w), r, 0), TimerOK(r.w),
         r.w.applied = widget[w].applied, r.w.last = widget[w].last
  PROVE  StepOK
<1>1. r.w \in Widget
  BY DEF Does, PageType
<1>2. N(focus' # None) = N(focus # None) + 0
  BY DEF N
<1>3. events' \in 0..MaxEvents
  BY EventsType DEF Handled
<1>4. IInv'
  BY <1>1, <1>2, <1>3, WidgetFacts, HandlerIInv DEF Handled
<1>5. TypingStep
  BY DEF TypingStep, Handled, IInv, TypeOK
<1> QED
  BY <1>4, <1>5 DEF StepOK

LEMMA UserOK ==
  ASSUME IInv, NEW w \in Widgets, User(w)
  PROVE  StepOK
<1>1. CASE Focus(w)
  BY <1>1, FocusOK
<1>2. CASE Leave(w)
  <2>1. PICK fires \in BOOLEAN, active \in BOOLEAN :
          Handled(w, Blurred(Page(w), fires, active))
    BY <1>2 DEF Leave
  <2>2. focus = w /\ focus' = None
    BY <1>2 DEF Leave
  <2> DEFINE r == Blurred(Page(w), fires, active)
  <2>3. Ready(Page(w), 1) /\ Page(w).w = widget[w]
    BY <2>2, PageReady
  <2>4. Does(Page(w), r, -1) /\ TimerOK(r.w)
    BY <2>3, WidgetFacts, BlurredDoes
  <2> QED
    BY <2>1, <2>2, <2>4, LeaveOK
<1>3. CASE Enter(w)
  <2>1. PICK fires \in BOOLEAN, active \in BOOLEAN :
          Handled(w, OnEnter(Page(w), fires, active))
    BY <1>3 DEF Enter
  <2>2. focus = w /\ focus' = None
    BY <1>3 DEF Enter
  <2>3. Ready(Page(w), 1)
    BY <2>2, PageReady
  <2> DEFINE r == OnEnter(Page(w), fires, active)
  <2>4. Does(Page(w), r, -1) /\ TimerOK(r.w)
    BY <2>3, OnEnterDoes
  <2> QED
    BY <2>1, <2>2, <2>4, LeaveOK
<1>4. CASE Type(w)
  <2>1. PICK text \in Texts : Handled(w, OnInput(Page(w), text))
    BY <1>4 DEF Type
  <2>2. focus = w /\ focus' = focus /\ OnPage(w)
    BY <1>4, WidgetFacts DEF Type
  <2>3. Ready(Page(w), 0) /\ Page(w).w = widget[w]
    BY PageReady
  <2> DEFINE r == OnInput(Page(w), text)
  <2>4. /\ Does(Page(w), r, 0) /\ r.w.applied = widget[w].applied
        /\ r.w.timer = widget[w].timer /\ r.w.paused = widget[w].paused
        /\ r.w.last = widget[w].last
    BY <2>3, OnInputDoes
  <2>5. TimerOK(r.w)
    BY <2>4, WidgetFacts DEF TimerOK
  <2> QED
    BY <2>1, <2>2, <2>4, <2>5, StayOK
<1>5. CASE Spin(w)
  <2> DEFINE p(v) == [Page(w) EXCEPT !.w.val = v]
  <2>1. PICK v \in Costs : Handled(w, OnChange(p(v), focus = w))
    BY <1>5 DEF Spin
  <2>2. focus' = focus /\ OnPage(w)
    BY <1>5 DEF Spin, Enabled
  <2>3. Ready(Page(w), 0) /\ Page(w).w = widget[w]
    BY PageReady
  <2>4. /\ Ready(p(v), 0) /\ p(v).edits = Page(w).edits /\ p(v).out = Page(w).out
        /\ p(v).w.iface = widget[w].iface /\ p(v).w.paused = widget[w].paused
        /\ p(v).w.last = widget[w].last /\ p(v).w.applied = widget[w].applied
    BY <2>3, ConstantsType DEF Ready, PageType, Widget
  <2> HIDE DEF p
  <2> DEFINE r == OnChange(p(v), focus = w)
  <2>5. /\ Does(p(v), r, 0) /\ r.w.timer
        /\ r.w.applied = widget[w].applied /\ r.w.last = widget[w].last
    BY <2>4, OnChangeDoes
  <2> HIDE DEF r
  <2>6. Does(Page(w), r, 0)
    BY <2>3, <2>4, <2>5 DEF Does
  <2> QED
    BY <2>1, <2>2, <2>5, <2>6, StayOK DEF TimerOK, r
<1> QED
  BY <1>1, <1>2, <1>3, <1>4, <1>5 DEF User

LEMMA TimerOKStep ==
  ASSUME IInv, NEW w \in Widgets, Timer(w)
  PROVE  StepOK
<1>1. PICK fires \in BOOLEAN, active \in BOOLEAN :
        LET p == OnTimer(Page(w), focus = w, fires, active)
        IN  /\ widget' = [widget EXCEPT ![w] = IF OnPage(w) THEN p.w ELSE NoWidget]
            /\ edits' = p.edits
            /\ polling' = p.polling
            /\ calls' = Sent(calls, FreeSlot, w, p)
            /\ asked' = Asked(w, p)
  BY DEF Timer
<1> DEFINE r == OnTimer(Page(w), focus = w, fires, active)
           x == IF OnPage(w) THEN r.w ELSE NoWidget
           d == IF focus = w THEN -1 ELSE 0
<1>2. /\ widget[w].timer /\ focus' = IF focus = w THEN None ELSE focus
      /\ UNCHANGED <<shown, notices, router, up, blurs, events>>
      /\ FreeSlots # {}
  BY DEF Timer
<1>3. Does(Page(w), r, d) /\ TimerOK(r.w) /\ (focus # w => ~r.w.paused)
  <2>1. CASE focus = w
    <3>1. Ready(Page(w), 1) /\ ~Page(w).w.applied /\ (focus = w) = TRUE
      BY <2>1, PageReady, WidgetFacts
    <3>2. r = OnTimer(Page(w), TRUE, fires, active)
      BY <3>1
    <3>3. Does(Page(w), r, -1) /\ TimerOK(r.w)
      BY <3>1, <3>2, OnTimerInsideDoes
    <3> QED
      BY <2>1, <3>3
  <2>2. CASE focus # w
    <3>1. Ready(Page(w), 0) /\ (focus = w) = FALSE
      BY <2>2, PageReady
    <3>2. r = OnTimer(Page(w), FALSE, fires, active)
      BY <3>1
    <3>3. Does(Page(w), r, 0) /\ ~r.w.paused
      BY <3>1, <3>2, OnTimerOutsideDoes
    <3> QED
      BY <2>2, <3>3 DEF TimerOK
  <2> QED
    BY <2>1, <2>2
<1> HIDE DEF r
<1>4. x \in Widget /\ NoWidget \in Widget /\ NoWidget.timer = FALSE
      /\ NoWidget.paused = FALSE
  BY <1>3, ConstantsType DEF Does, PageType, NoWidget, NewWidget, Widget
<1>5. r.w.paused \in BOOLEAN
  BY <1>3 DEF Does, PageType, Widget
<1>6. /\ x.paused = r.w.paused /\ TimerOK(x)
      /\ x = r.w \/ (~OnPage(w) /\ ~x.timer)
  <2>1. CASE OnPage(w)
    BY <1>3, <2>1
  <2>2. CASE ~OnPage(w)
    <3>1. x = NoWidget /\ r.w.paused = FALSE
      BY <1>3, <1>5, <2>2, WidgetFacts
    <3> HIDE DEF x
    <3> QED
      BY <1>4, <2>2, <3>1 DEF TimerOK
  <2> QED
    BY <2>1, <2>2
<1>7. /\ N(focus' # None) = N(focus # None) + d /\ d \in {-1, 0, 1}
      /\ focus' \in {focus, w, None} /\ focus' # w
  BY <1>2, WidgetFacts DEF N
<1>8. events' \in 0..MaxEvents
  BY <1>2 DEF IInv, TypeOK
<1>9. /\ widget' = [widget EXCEPT ![w] = x] /\ edits' = r.edits /\ polling' = r.polling
      /\ calls' = Sent(calls, FreeSlot, w, r) /\ asked' = Asked(w, r)
  BY <1>1 DEF r
<1> HIDE DEF x, d
<1>10. IInv'
  BY <1>2, <1>3, <1>4, <1>6, <1>7, <1>8, <1>9, WidgetFacts, HandlerIInv
<1>11. TypingStep
  BY <1>7, <1>9 DEF TypingStep, IInv, TypeOK
<1> QED
  BY <1>10, <1>11 DEF StepOK

-----------------------------------------------------------------------------
(* A refresh.                                                              *)

LEMMA NewWidgetType ==
  ASSUME NEW i \in Ifaces, NEW c \in Costs \cup {NoCost}
  PROVE  /\ NewWidget(i, c) \in Widget /\ NewWidget(i, c).iface = i
         /\ NewWidget(i, c).timer = FALSE /\ NewWidget(i, c).paused = FALSE
BY ConstantsType DEF NewWidget, Widget

LEMMA NoWidgetType ==
  /\ NoWidget \in Widget /\ NoWidget.iface = None
  /\ NoWidget.timer = FALSE /\ NoWidget.paused = FALSE
BY ConstantsType DEF NoWidget, NewWidget, Widget

(* No input on the page is unused, so none that the cursor is in becomes   *)
(* that of another interface.                                              *)
LEMMA ReplacedType ==
  ASSUME IInv, NEW seen \in Snapshot \cup {None},
         seen # None => Cardinality(Unused) >= Cardinality(Ifaces)
  PROVE  /\ Replaced(seen) \in [Ifaces -> Unused \cup {None}]
         /\ seen = None => \A i \in Ifaces : Replaced(seen)[i] = None
         /\ focus \notin Unused
<1>1. Replaced(seen) \in [Ifaces -> Unused \cup {None}]
  BY NewInputsType DEF Replaced
<1>2. seen = None => \A i \in Ifaces : Replaced(seen)[i] = None
  BY DEF Replaced
<1>3. focus \notin Unused
  BY NoWidgetType, ConstantsType DEF Unused, IInv, TypeOK, FocusInv, IfaceInv
<1> QED
  BY <1>1, <1>2, <1>3

(* The closures after a refresh: those of the new inputs, and those with a *)
(* timer; so the count loses nobody.                                       *)
LEMMA ClosuresType ==
  ASSUME NEW ws \in [Widgets -> Widget], NEW seen \in Snapshot \cup {None},
         NEW on \in [Ifaces -> Widgets \cup {None}],
         seen = None => \A i \in Ifaces : on[i] = None,
         \A w \in Widgets : TimerOK(ws[w]),
         \A w \in Widgets : (\E i \in Ifaces : on[i] = w) => ws[w] = NoWidget,
         \A w \in Widgets : ws[w].timer => ws[w].iface \in Ifaces
  PROVE  LET cl == Closures(ws, on, seen)
         IN  /\ cl \in [Widgets -> Widget] /\ PausedOf(cl) = PausedOf(ws)
             /\ \A w \in Widgets :
                  /\ TimerOK(cl[w])
                  /\ (\E i \in Ifaces : on[i] = w) \/ cl[w].timer => cl[w].iface \in Ifaces
<1> DEFINE cl == Closures(ws, on, seen)
<1>1. ASSUME NEW w \in Widgets
      PROVE  /\ cl[w] \in Widget /\ TimerOK(cl[w]) /\ cl[w].paused = ws[w].paused
             /\ (\E i \in Ifaces : on[i] = w) \/ cl[w].timer => cl[w].iface \in Ifaces
  <2>1. CASE \E i \in Ifaces : on[i] = w
    <3> DEFINE j == CHOOSE i \in Ifaces : on[i] = w
    <3>1. j \in Ifaces /\ on[j] = w
      BY <2>1
    <3>2. seen[j] \in Costs \cup {NoCost}
      BY <3>1, ConstantsType DEF Snapshot
    <3>3. cl[w] = NewWidget(j, seen[j])
      BY <2>1 DEF Closures
    <3> HIDE DEF j, cl
    <3>4. ws[w].paused = FALSE
      BY <2>1, NoWidgetType
    <3> DEFINE n == NewWidget(j, seen[j])
    <3>5. n \in Widget /\ n.iface = j /\ n.timer = FALSE /\ n.paused = FALSE
      BY <3>1, <3>2, NewWidgetType
    <3> HIDE DEF n
    <3>6. cl[w] = n
      BY <3>3 DEF n
    <3>7. cl[w] \in Widget /\ cl[w].iface = j /\ cl[w].timer = FALSE /\ cl[w].paused = FALSE
      BY <3>5, <3>6, Zenon
    <3> QED
      BY <3>1, <3>4, <3>7 DEF TimerOK
  <2>2. CASE ~(\E i \in Ifaces : on[i] = w) /\ ws[w].timer
    <3>1. cl[w] = ws[w]
      BY <2>2 DEF Closures
    <3> QED
      BY <2>2, <3>1
  <2>3. CASE ~(\E i \in Ifaces : on[i] = w) /\ ~ws[w].timer
    <3>1. cl[w] = NoWidget
      BY <2>3 DEF Closures
    <3>2. ws[w].paused = FALSE
      BY <2>3 DEF TimerOK, Widget
    <3> HIDE DEF cl
    <3> QED
      BY <2>3, <3>1, <3>2, NoWidgetType DEF TimerOK
  <2> QED
    BY <2>1, <2>2, <2>3
<1>2. cl \in [Widgets -> Widget]
  BY <1>1 DEF Closures
<1>3. PausedOf(cl) = PausedOf(ws)
  BY <1>1 DEF PausedOf
<1> QED
  BY <1>1, <1>2, <1>3

LEMMA RefreshOK ==
  ASSUME IInv, NEW s \in Slots, Refresh(s),
         calls[s].op = "status", calls[s].step = "done",
         notices' \subseteq Ifaces,
         UNCHANGED <<router, up, blurs, events>>
  PROVE  StepOK
<1> DEFINE seen == calls[s].seen
           on == Replaced(seen)
           r == OnBlur(Page(focus))
           lost == focus # None /\ blurs
           ws == IF lost THEN [widget EXCEPT ![focus] = r.w] ELSE widget
           free == [calls EXCEPT ![s] = NoCall]
<1>1. /\ seen # None => Cardinality(Unused) >= Cardinality(Ifaces)
      /\ shown' = on /\ widget' = Closures(ws, on, seen) /\ focus' = None
      /\ lost => /\ edits' = r.edits /\ polling' = r.polling
                 /\ calls' = Sent(free, s, focus, r) /\ asked' = Asked(focus, r)
      /\ ~lost => UNCHANGED <<edits, polling, asked>> /\ calls' = free
  BY DEF Refresh
<1>2. /\ seen \in Snapshot \cup {None} /\ free \in [Slots -> Call]
      /\ NoCall \in Call /\ NoCall.op = "status"
  BY DEF IInv, TypeOK, Call, NoCall, StatusCall
<1> HIDE DEF seen, free
<1>3. /\ on \in [Ifaces -> Unused \cup {None}] /\ Unused \subseteq Widgets
      /\ seen = None => \A i \in Ifaces : on[i] = None
      /\ focus \notin Unused
  BY <1>1, <1>2, ReplacedType DEF Unused
<1>4. ASSUME lost
      PROVE  /\ focus \in Widgets /\ widget[focus].iface \in Ifaces
             /\ Does(Page(focus), r, -1) /\ TimerOK(r.w)
             /\ r.w \in Widget /\ r.w.iface \in Ifaces
  <2>1. focus \in Widgets
    BY <1>4 DEF IInv, TypeOK
  <2>2. /\ Ready(Page(focus), 1) /\ Page(focus).w = widget[focus]
        /\ TimerOK(widget[focus]) /\ widget[focus].iface \in Ifaces
    BY <2>1, PageReady, WidgetFacts
  <2>3. Does(Page(focus), r, -1) /\ TimerOK(r.w)
    BY <2>2, OnBlurDoes
  <2> QED
    BY <2>1, <2>2, <2>3 DEF Does, PageType
<1> HIDE DEF on, r
<1>5. /\ ws \in [Widgets -> Widget]
      /\ \A w \in Widgets : TimerOK(ws[w])
      /\ \A w \in Widgets : (\E i \in Ifaces : on[i] = w) => ws[w] = NoWidget
      /\ \A w \in Widgets : ws[w].timer => ws[w].iface \in Ifaces
  <2>1. CASE lost
    <3>1. /\ ws = [widget EXCEPT ![focus] = r.w] /\ widget \in [Widgets -> Widget]
          /\ None \notin Widgets
      BY <2>1, WidgetFacts, ConstantsType DEF IInv, TypeOK
    <3>2. \A w \in Widgets : ws[w] = IF w = focus THEN r.w ELSE widget[w]
      BY <3>1
    <3>3. ws \in [Widgets -> Widget]
      BY <1>4, <2>1, <3>1
    <3> HIDE DEF ws
    <3>4. \A w \in Widgets : (\E i \in Ifaces : on[i] = w) => w \in Unused
      BY <1>3, <3>1
    <3> QED
      BY <1>3, <1>4, <2>1, <3>2, <3>3, <3>4, WidgetFacts DEF Unused
  <2>2. CASE ~lost
    <3>1. ws = widget /\ widget \in [Widgets -> Widget] /\ None \notin Widgets
      BY <2>2, ConstantsType DEF IInv, TypeOK
    <3> HIDE DEF ws
    <3> QED
      BY <1>3, <3>1, WidgetFacts DEF Unused
  <2> QED
    BY <2>1, <2>2
<1> HIDE DEF ws
<1>6. on \in [Ifaces -> Widgets \cup {None}]
  BY <1>3
<1>7. /\ widget' \in [Widgets -> Widget] /\ PausedOf(widget') = PausedOf(ws)
      /\ \A w \in Widgets :
           /\ TimerOK(widget'[w])
           /\ (\E i \in Ifaces : on[i] = w) \/ widget'[w].timer
                => widget'[w].iface \in Ifaces
  BY <1>1, <1>2, <1>3, <1>5, <1>6, ClosuresType
<1>8. /\ edits' \in Nat /\ polling' \in BOOLEAN /\ calls' \in [Slots -> Call]
      /\ asked' \in [Ifaces -> Costs \cup {None}]
  <2>1. CASE lost
    <3>1. r.out \in Costs \cup {None} /\ r.edits \in Nat /\ r.polling \in BOOLEAN
      BY <1>4, <2>1 DEF Does, PageType
    <3> QED
      <4>1. calls' \in [Slots -> Call]
        BY <1>1, <1>2, <1>4, <2>1, <3>1, SentType
      <4>2. asked' \in [Ifaces -> Costs \cup {None}]
        BY <1>1, <1>4, <2>1, <3>1, AskedType DEF IInv, TypeOK
      <4> QED
        BY <1>1, <2>1, <3>1, <4>1, <4>2
  <2>2. CASE ~lost
    BY <1>1, <1>2, <2>2 DEF IInv, TypeOK
  <2> QED
    BY <2>1, <2>2
<1>9. TypeOK'
  BY <1>1, <1>6, <1>7, <1>8 DEF IInv, TypeOK
<1>10. CountInv'
  <2>1. CASE lost
    <3>1. N(focus' # None) = N(focus # None) + (-1)
      BY <1>1, <2>1 DEF N
    <3>2. Paused' = PausedOf([widget EXCEPT ![focus] = r.w])
      BY <1>7, <2>1 DEF ws, Paused, PausedOf
    <3> QED
      BY <1>1, <1>4, <2>1, <3>1, <3>2, CountKept
  <2>2. CASE ~lost
    <3>1. Paused' = Paused /\ UNCHANGED <<edits, polling, blurs>> /\ focus' = None
      BY <1>1, <1>7, <2>2 DEF ws, Paused, PausedOf
    <3>2. Cardinality(Paused) \in Nat /\ edits \in Nat
      BY CostFieldsAssumption, FS_Subset, FS_CardinalityType DEF Paused, IInv, TypeOK
    <3> QED
      BY <2>2, <3>1, <3>2 DEF IInv, CountInv, N
  <2> QED
    BY <2>1, <2>2
<1>11. TimerInv' /\ FocusInv' /\ IfaceInv'
  BY <1>1, <1>7 DEF TimerInv, TimerOK, FocusInv, IfaceInv, OnPage
<1>12. CallsInv'
  <2>1. /\ \A t \in Slots : free[t] = IF t = s THEN NoCall ELSE calls[t]
        /\ calls \in [Slots -> Call]
    BY DEF free, IInv, TypeOK
  <2>2. CASE lost
    <3>1. r.out \in Costs \cup {None}
      BY <1>4, <2>2 DEF Does, PageType
    <3> QED
      BY <1>1, <1>2, <1>4, <2>1, <2>2, <3>1, SentKept DEF IInv
  <2>3. CASE ~lost
    <3>1. calls' = free /\ asked' = asked
      BY <1>1, <2>3
    <3>2. AloneInv'
      BY <1>2, <2>1, <3>1 DEF IInv, CallsInv, AloneInv
    <3>3. CostKept'
      BY <2>1, <3>1 DEF IInv, CallsInv, CostKept, UnderWay
    <3> QED
      BY <3>2, <3>3 DEF CallsInv
  <2> QED
    BY <2>2, <2>3
<1>13. TypingStep
  BY <1>1 DEF TypingStep
<1> QED
  BY <1>9, <1>10, <1>11, <1>12, <1>13 DEF StepOK, IInv

-----------------------------------------------------------------------------
(* Calls.                                                                  *)

LEMMA ArriveOK ==
  ASSUME IInv, NEW s \in Slots, Arrive(s)
  PROVE  StepOK
<1>1. calls[s] \in Call /\ calls \in [Slots -> Call]
  BY DEF IInv, TypeOK
<1>2. notices' \subseteq Ifaces
  BY <1>1 DEF Arrive, Notices, Call, IInv, TypeOK
<1>3. CASE calls[s].op = "status" /\ calls[s].step = "done" /\ Refresh(s)
  BY <1>2, <1>3, RefreshOK DEF Arrive
<1>4. CASE /\ UNCHANGED <<widget, shown, focus, edits, polling>>
           /\ asked' = Told(Notices(calls[s]))
           /\ calls[s].op = "set" \/ calls[s].step = "failed"
           /\ \E c \in Call : c.op = "status" /\ calls' = [calls EXCEPT ![s] = c]
  <2>1. calls' \in [Slots -> Call]
    BY <1>1, <1>4
  <2>2. /\ asked' \in [Ifaces -> Costs \cup {None}]
        /\ \A i \in Ifaces :
             asked'[i] # None => asked'[i] = asked[i] /\ i \notin Notices(calls[s])
    BY <1>4 DEF Told, IInv, TypeOK
  <2>3. TypeOK'
    BY <1>2, <1>4, <2>1, <2>2 DEF IInv, TypeOK, Arrive
  <2>4. \A t \in Slots : t = s \/ calls'[t] = calls[t]
    BY <1>1, <1>4
  <2>5. calls'[s].op = "status"
    BY <1>1, <1>4
  <2>6. AloneInv'
    BY <2>2, <2>4, <2>5 DEF IInv, CallsInv, AloneInv
  <2>7. CostKept'
    <3> SUFFICES ASSUME NEW i \in Ifaces, asked'[i] # None
                 PROVE  asked'[i] = router'[i] \/ UnderWay(i, asked[i])'
      BY DEF CostKept
    <3>1. /\ asked'[i] = asked[i] /\ i \notin Notices(calls[s]) /\ router' = router
          /\ asked[i] = router[i] \/ UnderWay(i, asked[i])
      BY <2>2 DEF Arrive, IInv, CallsInv, CostKept
    <3>2. CASE asked[i] = router[i]
      BY <3>1, <3>2
    <3>3. CASE UnderWay(i, asked[i])
      <4>1. PICK t \in Slots : /\ calls[t].op = "set" /\ calls[t].step # "done"
                               /\ calls[t].iface = i /\ calls[t].cost = asked[i]
        BY <3>3 DEF UnderWay
      <4>2. t # s
        BY <3>1, <4>1 DEF Notices
      <4> QED
        BY <2>4, <3>1, <4>1, <4>2 DEF UnderWay
    <3> QED
      BY <3>1, <3>2, <3>3
  <2>8. CountInv' /\ TimerInv' /\ FocusInv' /\ IfaceInv'
    BY <1>4 DEF Arrive, IInv, CountInv, TimerInv, FocusInv, IfaceInv, OnPage, Paused
  <2> QED
    BY <1>4, <2>3, <2>6, <2>7, <2>8 DEF StepOK, TypingStep, IInv, CallsInv
<1>5. /\ NoCall \in Call /\ NoCall.op = "status"
      /\ \A i \in Ifaces : /\ StatusCall(i, "sent", None) \in Call
                          /\ StatusCall(i, "sent", None).op = "status"
  BY DEF NoCall, StatusCall, Call
<1>6. calls[s].op = "set" => calls[s].iface \in Ifaces
  BY <1>1 DEF Call
<1> QED
  BY <1>1, <1>3, <1>4, <1>5, <1>6 DEF Arrive

(* rpcd sets the cost that was asked for last, or answers another call.    *)
LEMMA ServeKept ==
  ASSUME IInv, NEW s \in Slots, Serve(s)
  PROVE  CallsInv'
<1>1. /\ calls \in [Slots -> Call] /\ calls[s] \in Call /\ asked' = asked
      /\ calls[s].step = "sent" /\ router \in Snapshot
  BY DEF Serve, IInv, TypeOK
<1>2. CASE calls[s].op = "status"
  <2> DEFINE c == [calls[s] EXCEPT !.step = "done", !.seen = IF up THEN router ELSE None]
  <2>1. c.op = "status"
    BY <1>1, <1>2 DEF Call
  <2>2. calls' = [calls EXCEPT ![s] = c] /\ router' = router
    BY <1>1, <1>2 DEF Serve
  <2> HIDE DEF c
  <2>3. \A t \in Slots : calls'[t] = IF t = s THEN c ELSE calls[t]
    BY <1>1, <2>2
  <2>4. AloneInv'
    BY <1>1, <2>1, <2>3 DEF IInv, CallsInv, AloneInv
  <2>5. CostKept'
    BY <1>1, <1>2, <2>1, <2>2, <2>3 DEF IInv, CallsInv, CostKept, UnderWay
  <2> QED
    BY <2>4, <2>5 DEF CallsInv
<1>3. CASE calls[s].op = "set"
  <2> DEFINE t1 == IF up THEN "done" ELSE "refused"
             c == [calls[s] EXCEPT !.step = t1]
             i == calls[s].iface
  <2>1. /\ c.op = "set" /\ c.iface = i /\ c.cost = calls[s].cost /\ c.step = t1
        /\ i \in Ifaces
    BY <1>1, <1>3 DEF Call
  <2>2. /\ calls' = [calls EXCEPT ![s] = c]
        /\ router' = IF up THEN [router EXCEPT ![i] = calls[s].cost] ELSE router
    BY <1>1, <1>3 DEF Serve
  <2> HIDE DEF c
  <2>3. \A t \in Slots : calls'[t] = IF t = s THEN c ELSE calls[t]
    BY <1>1, <2>2
  <2>4. AloneInv'
    BY <1>1, <2>1, <2>3 DEF IInv, CallsInv, AloneInv
  <2>5. CostKept'
    <3> SUFFICES ASSUME NEW j \in Ifaces, asked[j] # None
                 PROVE  asked[j] = router'[j] \/ UnderWay(j, asked[j])'
      BY <1>1 DEF CostKept, UnderWay
    <3>1. asked[j] = router[j] \/ UnderWay(j, asked[j])
      BY DEF IInv, CallsInv, CostKept
    <3>2. CASE up /\ j = i
      BY <1>1, <1>3, <2>1, <2>2, <3>2 DEF IInv, CallsInv, AloneInv, Snapshot
    <3>3. CASE ~(up /\ j = i)
      <4>1. router'[j] = router[j]
        BY <1>1, <2>1, <2>2, <3>3 DEF Snapshot
      <4>2. CASE UnderWay(j, asked[j])
        <5>1. PICK t \in Slots : /\ calls[t].op = "set" /\ calls[t].step # "done"
                                 /\ calls[t].iface = j /\ calls[t].cost = asked[j]
          BY <4>2 DEF UnderWay
        <5>2. t = s => ~up /\ c.step # "done" /\ c.cost = asked[j] /\ c.iface = j
          BY <2>1, <3>3, <5>1
        <5>3. /\ calls'[t].op = "set" /\ calls'[t].step # "done"
              /\ calls'[t].iface = j /\ calls'[t].cost = asked[j]
          BY <2>1, <2>3, <5>1, <5>2
        <5> QED
          BY <1>1, <5>3 DEF UnderWay
      <4> QED
        BY <3>1, <4>1, <4>2
    <3> QED
      BY <3>2, <3>3
  <2> QED
    BY <2>4, <2>5 DEF CallsInv
<1> QED
  BY <1>1, <1>2, <1>3 DEF Call

(* A call that fails is still to be reported.                              *)
LEMMA FaultKept ==
  ASSUME IInv, NEW s \in Slots, Fault(s)
  PROVE  CallsInv'
<1>1. /\ calls \in [Slots -> Call] /\ calls[s] \in Call
      /\ asked' = asked /\ router' = router
  BY DEF Fault, IInv, TypeOK
<1>2. PICK x \in {"failed", "refused", "done"} :
        /\ x = "done" => calls[s].op = "status"
        /\ calls' = [calls EXCEPT ![s] = [calls[s] EXCEPT !.step = x]]
  BY DEF Fault
<1> DEFINE c == [calls[s] EXCEPT !.step = x]
<1>3. /\ c.op = calls[s].op
      /\ c.op = "set" => /\ c.iface = calls[s].iface /\ c.cost = calls[s].cost
                         /\ c.step \in {"failed", "refused"}
  BY <1>1, <1>2 DEF Call
<1> HIDE DEF c
<1>4. \A t \in Slots : calls'[t] = IF t = s THEN c ELSE calls[t]
  BY <1>1, <1>2 DEF c
<1>5. AloneInv'
  BY <1>1, <1>3, <1>4 DEF IInv, CallsInv, AloneInv
<1>6. CostKept'
  BY <1>1, <1>3, <1>4 DEF IInv, CallsInv, CostKept, UnderWay
<1> QED
  BY <1>5, <1>6 DEF CallsInv

(* The router is changed by others, a status call sent, or nothing done.   *)
LEMMA RestKept ==
  ASSUME IInv, Tick \/ Change \/ UNCHANGED vars
  PROVE  CallsInv'
<1>1. /\ calls \in [Slots -> Call] /\ router \in Snapshot
      /\ asked \in [Ifaces -> Costs \cup {None}]
  BY DEF IInv, TypeOK
<1>2. CASE Tick
  <2> DEFINE c == StatusCall(None, "sent", None)
  <2>1. c.op = "status"
    BY DEF StatusCall
  <2> HIDE DEF c
  <2>2. /\ calls' = [calls EXCEPT ![FreeSlot] = c] /\ calls[FreeSlot].op = "status"
        /\ FreeSlot \in Slots /\ UNCHANGED <<router, asked>>
    BY <1>2, FreeSlotType DEF Tick, NoCall, StatusCall, c
  <2>3. \A t \in Slots : calls'[t] = IF t = FreeSlot THEN c ELSE calls[t]
    BY <1>1, <2>2
  <2>4. AloneInv'
    BY <2>1, <2>2, <2>3 DEF IInv, CallsInv, AloneInv
  <2>5. CostKept'
    BY <2>1, <2>2, <2>3 DEF IInv, CallsInv, CostKept, UnderWay
  <2> QED
    BY <2>4, <2>5 DEF CallsInv
<1>3. CASE Change \/ UNCHANGED vars
  <2>1. calls' = calls
    BY <1>3 DEF Change, vars
  <2>2. \A i \in Ifaces :
          asked'[i] # None => asked'[i] = asked[i] /\ router'[i] = router[i]
    BY <1>1, <1>3 DEF Change, vars, Snapshot
  <2>3. AloneInv'
    BY <2>1, <2>2 DEF IInv, CallsInv, AloneInv
  <2>4. CostKept'
    BY <2>1, <2>2 DEF IInv, CallsInv, CostKept, UnderWay
  <2> QED
    BY <2>3, <2>4 DEF CallsInv
<1> QED
  BY <1>2, <1>3

(* Nothing but the calls in flight, the router and the bounds changes.     *)
LEMMA OthersOK ==
  ASSUME IInv, Tick \/ (\E s \in Slots : Serve(s) \/ Fault(s)) \/ Change
               \/ UNCHANGED vars
  PROVE  StepOK
<1>1. UNCHANGED <<widget, shown, focus, edits, polling, notices, blurs>>
  BY DEF Tick, Serve, Fault, Change, vars
<1>2. calls \in [Slots -> Call] /\ router \in Snapshot /\ events \in 0..MaxEvents
      /\ up \in BOOLEAN /\ asked \in [Ifaces -> Costs \cup {None}]
  BY DEF IInv, TypeOK
<1>3. /\ calls' \in [Slots -> Call] /\ router' \in Snapshot /\ up' \in BOOLEAN
      /\ events' \in 0..MaxEvents
      /\ asked' \in [Ifaces -> Costs \cup {None}]
  <2>1. CASE Tick
    <3>1. /\ StatusCall(None, "sent", None) \in Call
          /\ StatusCall(None, "sent", None).op = "status"
      BY DEF StatusCall, Call
    <3> QED
      BY <1>2, <2>1, <3>1 DEF Tick
  <2>2. CASE \E s \in Slots : Serve(s)
    <3>1. PICK s \in Slots : Serve(s)
      BY <2>2
    <3>2. UNCHANGED <<up, events, asked>>
      BY <3>1 DEF Serve
    <3>3. calls[s] \in Call
      BY <1>2
    <3>4. CASE calls[s].op = "status"
      <4> DEFINE seen == IF up THEN router ELSE None
                 a == [calls[s] EXCEPT !.step = "done"]
                 c == [a EXCEPT !.seen = seen]
      <4>1. a \in Call /\ a.op = "status"
        BY <3>3, <3>4 DEF Call
      <4>2. seen \in Snapshot \cup {None}
        BY <1>2
      <4> HIDE DEF seen, a
      <4>3. c \in Call /\ c.op = "status"
        BY <4>1, <4>2 DEF Call
      <4> HIDE DEF c
      <4>4. calls' = [calls EXCEPT ![s] = c] /\ router' = router
        BY <1>2, <3>1, <3>4 DEF Serve, a, c, seen
      <4> QED
        BY <1>2, <3>2, <4>3, <4>4
    <3>5. CASE calls[s].op # "status"
      <4>1. /\ calls[s].iface \in Ifaces /\ calls[s].cost \in Costs
            /\ \A t \in {"done", "refused"} : [calls[s] EXCEPT !.step = t] \in Call
        BY <3>3, <3>5 DEF Call
      <4>2. /\ \E t \in {"done", "refused"} :
                 calls' = [calls EXCEPT ![s] = [calls[s] EXCEPT !.step = t]]
            /\ router' \in Snapshot
        BY <1>2, <3>1, <3>5, <4>1 DEF Serve, Snapshot
      <4> QED
        BY <1>2, <3>2, <4>1, <4>2
    <3> QED
      BY <3>4, <3>5
  <2>3. CASE \E s \in Slots : Fault(s)
    <3>1. PICK s \in Slots : Fault(s)
      BY <2>3
    <3>2. UNCHANGED <<up, router, asked>>
      BY <3>1 DEF Fault
    <3>3. calls[s] \in Call
      BY <1>2
    <3>4. \E t \in {"failed", "refused", "done"} :
            /\ t = "refused" => calls[s].op = "set"
            /\ calls' = [calls EXCEPT ![s] = [calls[s] EXCEPT !.step = t]]
      BY <3>1 DEF Fault
    <3>5. \A t \in {"failed", "refused", "done"} :
            (t = "refused" => calls[s].op = "set") => [calls[s] EXCEPT !.step = t] \in Call
      BY <3>3 DEF Call
    <3>6. events' \in 0..MaxEvents
      BY <3>1, EventsType DEF Fault
    <3> QED
      BY <1>2, <3>2, <3>4, <3>5, <3>6
  <2>4. CASE Change
    <3>1. events' \in 0..MaxEvents
      BY <2>4, EventsType DEF Change
    <3>2. router' \in Snapshot
      BY <1>2, <2>4 DEF Change, Snapshot
    <3>3. up' \in BOOLEAN /\ asked' \in [Ifaces -> Costs \cup {None}]
      BY <1>2, <2>4 DEF Change
    <3> QED
      BY <1>2, <2>4, <3>1, <3>2, <3>3 DEF Change
  <2>5. CASE UNCHANGED vars
    BY <1>2, <2>5 DEF vars
  <2> QED
    BY <2>1, <2>2, <2>3, <2>4, <2>5
<1>4. TypeOK'
  BY <1>1, <1>3 DEF IInv, TypeOK
<1>5. CallsInv'
  BY ServeKept, FaultKept, RestKept
<1>6. CountInv' /\ TimerInv' /\ FocusInv' /\ IfaceInv'
  BY <1>1 DEF IInv, CountInv, TimerInv, FocusInv, IfaceInv, OnPage, Paused
<1> QED
  BY <1>1, <1>4, <1>5, <1>6 DEF StepOK, TypingStep, IInv

-----------------------------------------------------------------------------
LEMMA InitIInv == Init => IInv
<1> SUFFICES ASSUME Init PROVE IInv
  OBVIOUS
<1>1. NoWidget \in Widget /\ NoWidget.timer = FALSE /\ NoWidget.paused = FALSE
  BY NoWidgetType
<1>2. StatusCall(None, "sent", None) \in Call /\ NoCall \in Call
  BY DEF StatusCall, NoCall, Call
<1>3. router \in Snapshot /\ blurs \in RemovalBlurs /\ 0 \in 0..MaxEvents
  BY CostFieldsAssumption DEF Init
<1>4. calls \in [Slots -> Call]
  BY <1>2 DEF Init
<1>5. TypeOK
  BY <1>1, <1>3, <1>4 DEF Init, TypeOK
<1>6. Paused = {}
  BY <1>1 DEF Init, Paused
<1>7. CountInv
  BY <1>6, FS_EmptySet DEF Init, CountInv, N
<1>8. \A w \in Widgets : ~OnPage(w) /\ widget[w] = NoWidget
  BY ConstantsType DEF Init, OnPage
<1>9. TimerInv /\ FocusInv /\ IfaceInv
  BY <1>1, <1>8 DEF Init, TimerInv, FocusInv, IfaceInv
<1>10. CallsInv
  BY DEF Init, CallsInv, AloneInv, CostKept
<1> QED
  BY <1>5, <1>7, <1>9, <1>10 DEF IInv

LEMMA NextOK ==
  ASSUME IInv, [Next]_vars
  PROVE  StepOK
<1>1. CASE \E w \in Widgets : User(w)
  BY <1>1, UserOK
<1>2. CASE \E w \in Widgets : Timer(w)
  BY <1>2, TimerOKStep
<1>3. CASE \E s \in Slots : Arrive(s)
  BY <1>3, ArriveOK
<1> QED
  BY <1>1, <1>2, <1>3, OthersOK DEF Next

LEMMA Invariant == Spec => []IInv
<1>1. IInv /\ [Next]_vars => IInv'
  BY NextOK DEF StepOK
<1> QED
  BY <1>1, InitIInv, PTL DEF Spec

(* The variables keep to their types: what is typed or set with the        *)
(* spinner never makes a call with anything but a cost.                    *)
THEOREM TypeCorrect == Spec => []TypeOK
<1>1. IInv => TypeOK
  BY DEF IInv
<1> QED
  BY <1>1, Invariant, PTL

(* While the cursor is in a field, or the spinner was used and its timer   *)
(* is pending, the poll is stopped (status.js, pauseCostPoll and           *)
(* resumeCostPoll), in either kind of browser.                             *)
THEOREM PollOffAlways == Spec => []PollOff
<1>1. IInv => PollOff
  <2> SUFFICES ASSUME IInv, focus # None \/ Paused # {} PROVE ~polling
    BY DEF PollOff
  <2>1. IsFiniteSet(Paused) /\ Cardinality(Paused) \in Nat
    BY CostFieldsAssumption, FS_Subset, FS_CardinalityType DEF Paused
  <2>2. Paused # {} => Cardinality(Paused) # 0
    BY <2>1, FS_EmptySet
  <2> QED
    BY <2>1, <2>2 DEF IInv, TypeOK, CountInv, N
<1> QED
  BY <1>1, Invariant, PTL

(* In a browser that blurs what it removes the poll runs again once no     *)
(* field is edited (status.js, resumeCostPoll).                            *)
THEOREM PollBackAlways == Spec => []PollBack
<1>1. IInv => PollBack
  <2> SUFFICES ASSUME IInv, blurs PROVE polling <=> focus = None /\ Paused = {}
    BY DEF PollBack
  <2>1. IsFiniteSet(Paused) /\ Cardinality(Paused) \in Nat
    BY CostFieldsAssumption, FS_Subset, FS_CardinalityType DEF Paused
  <2>2. Paused = {} <=> Cardinality(Paused) = 0
    BY <2>1, FS_EmptySet
  <2> QED
    BY <2>1, <2>2 DEF IInv, CountInv, N
<1> QED
  BY <1>1, Invariant, PTL

(* Nothing is applied in a field while the cursor stays in it (status.js,  *)
(* costWidget).                                                            *)
THEOREM NeverWhileTyping == Spec => NotWhileTyping
<1>1. IInv /\ [Next]_vars
        => [focus # None /\ focus' = focus
              => widget'[focus].last = widget[focus].last]_vars
  BY NextOK DEF StepOK, TypingStep
<1> QED
  BY <1>1, Invariant, PTL DEF Spec, NotWhileTyping

(* What was asked for last is BIRD's cost, under way, or was reported to   *)
(* have failed, whatever happens to calls, replies and inputs (status.js,  *)
(* applyCost); the calls on their way to rpcd ask for nothing else.        *)
THEOREM CostKeptAlways == Spec => []CostKept
<1>1. IInv => CostKept
  BY DEF IInv, CallsInv
<1> QED
  BY <1>1, Invariant, PTL

=============================================================================
