------------------------ MODULE BirdReconfig_proofs ------------------------
(***************************************************************************)
(* Theorems about BirdReconfig, for every set of rpcd processes,           *)
(* interfaces and texts and every set of environment events.  First the    *)
(* lock and what is promoted, which depend on no syntax: what BIRD takes   *)
(* for valid stays unexpanded.  Then the editor, by induction over the     *)
(* lines of a text.  Then what calls make of the costs.                    *)
(***************************************************************************)
EXTENDS BirdReconfig, TLAPS, SequenceTheorems, FiniteSetTheorems,
        NaturalsInduction, WellFoundedInduction

Where ==
  /\ pc \in [Procs -> {"idle", "lock", "read", "write", "check", "promote",
                       "configure"}]
  /\ lock \in Procs \cup {None}

(***************************************************************************)
(* RuntimeChecked is not inductive: it needs that the text a process is    *)
(* about to promote is the one that was checked, which nobody has written  *)
(* since, because only the holder of the lock writes it.                   *)
(***************************************************************************)
NextChecked ==
  ~was_cut => \A p \in Procs : pc[p] = "promote" /\ next # None => Valid(next)

IInv == Where /\ LockHeld /\ NextChecked /\ RuntimeChecked

(* The holder of the lock is the only process in the middle of a call.     *)
LEMMA OneHolder ==
  ASSUME Where, LockHeld, NEW p \in Procs, NEW q \in Procs,
         pc[p] \notin {"idle", "lock"}, pc[q] \notin {"idle", "lock"}
  PROVE  p = q
BY DEF Where, LockHeld

LEMMA InitIInv == Init => IInv
<1> SUFFICES ASSUME Init PROVE IInv
  OBVIOUS
<1>1. Where /\ LockHeld
  BY ProcsAssumption DEF Init, Where, LockHeld
<1>2. NextChecked /\ RuntimeChecked
  BY DEF Init, NextChecked, RuntimeChecked, RuntimeValid
<1> QED
  BY <1>1, <1>2 DEF IInv

(* Where every process stands, and who holds the lock.                     *)
LEMMA LockStep ==
  ASSUME Where, LockHeld, NEW p \in Procs,
         \/ \E i \in Ifaces, c \in CostArgs : Call(p, i, c)
         \/ Step(p) \/ Kill(p)
  PROVE  Where' /\ LockHeld'
<1> USE ProcsAssumption DEF Where, LockHeld, Goto, Return
<1>1. CASE \E i \in Ifaces, c \in CostArgs : Call(p, i, c)
  BY <1>1 DEF Call
<1>2. CASE Lock(p)
  BY <1>2 DEF Lock
<1>3. CASE Read(p)
  BY <1>3 DEF Read
<1>4. CASE Write(p)
  BY <1>4 DEF Write, local
<1>5. CASE Check(p)
  BY <1>5 DEF Check, local
<1>6. CASE Promote(p)
  BY <1>6 DEF Promote, local
<1>7. CASE Configure(p)
  BY <1>7 DEF Configure
<1>8. CASE Kill(p)
  BY <1>8 DEF Kill
<1> QED
  BY <1>1, <1>2, <1>3, <1>4, <1>5, <1>6, <1>7, <1>8 DEF Step

(* What is about to be promoted, and what is promoted, has been checked.   *)
LEMMA CheckedStep ==
  ASSUME IInv, NEW p \in Procs,
         \/ \E i \in Ifaces, c \in CostArgs : Call(p, i, c)
         \/ Step(p) \/ Kill(p)
  PROVE  NextChecked' /\ RuntimeChecked'
<1> USE DEF IInv, Where, NextChecked, RuntimeChecked, RuntimeValid, Goto,
            Return, files, bird, local, count
<1>1. CASE \E i \in Ifaces, c \in CostArgs : Call(p, i, c)
  BY <1>1 DEF Call
<1>2. CASE Lock(p)
  BY <1>2 DEF Lock
<1>3. CASE Read(p)
  BY <1>3 DEF Read
<1>4. CASE Write(p)
  <2>1. \A q \in Procs : pc'[q] # "promote"
    BY <1>4, OneHolder DEF Write
  <2>2. runtime' = runtime /\ was_cut' = was_cut
    BY <1>4 DEF Write
  <2> QED
    BY <2>1, <2>2
<1>5. CASE Check(p)
  <2>1. CASE Cut
    BY <2>1, <1>5 DEF Check, Cut
  <2>2. CASE ~Cut
    BY <2>2, <1>5 DEF Check, Checked, Unreachable, Answers
  <2> QED
    BY <2>1, <2>2
<1>6. CASE Promote(p)
  <2>1. \A q \in Procs : pc'[q] # "promote"
    BY <1>6, OneHolder DEF Promote
  <2>2. was_cut' = was_cut /\ (runtime' = runtime \/ runtime' = next)
    BY <1>6 DEF Promote
  <2>3. runtime' = next /\ next # None /\ ~was_cut => Valid(next)
    BY <1>6 DEF Promote
  <2> QED
    BY <2>1, <2>2, <2>3
<1>7. CASE Configure(p)
  BY <1>7 DEF Configure, Unreachable, Answers, Cut
<1>8. CASE Kill(p)
  BY <1>8 DEF Kill
<1> QED
  BY <1>1, <1>2, <1>3, <1>4, <1>5, <1>6, <1>7, <1>8 DEF Step

(* The administrator, procd and BIRD leave calls, the lock and the text    *)
(* under way alone; the runtime configuration can only go away.            *)
LEMMA EnvironmentIInv ==
  ASSUME IInv, Edit \/ Sighup \/ Forget \/ Down \/ Start
  PROVE  IInv'
<1>1. /\ UNCHANGED <<pc, lock, next, was_cut>>
      /\ runtime' \in {runtime, None}
  BY DEF Edit, Sighup, Forget, Down, Start, files, bird, count
<1> QED
  BY <1>1 DEF IInv, Where, LockHeld, NextChecked, RuntimeChecked, RuntimeValid

LEMMA NextIInv == IInv /\ [Next]_vars => IInv'
<1> SUFFICES ASSUME IInv, [Next]_vars PROVE IInv'
  OBVIOUS
<1>1. ASSUME NEW p \in Procs,
             \/ \E i \in Ifaces, c \in CostArgs : Call(p, i, c)
             \/ Step(p) \/ Kill(p)
      PROVE  IInv'
  BY <1>1, LockStep, CheckedStep DEF IInv
<1>2. CASE Edit \/ Sighup \/ Forget \/ Down \/ Start
  BY <1>2, EnvironmentIInv
<1>3. CASE UNCHANGED vars
  BY <1>3 DEF IInv, Where, LockHeld, NextChecked, RuntimeChecked,
              RuntimeValid, vars, files, count
<1> QED
  BY <1>1, <1>2, <1>3 DEF Next

LEMMA SpecIInv == Spec => []IInv
BY InitIInv, NextIInv, PTL DEF Spec

(* One call at a time reads, writes or loads a configuration, and every    *)
(* call gives the lock back.                                               *)
THEOREM LockSafe == Spec => []LockHeld
<1>1. IInv => LockHeld
  BY DEF IInv
<1> QED
  BY <1>1, SpecIInv, PTL

(* Only texts that BIRD has checked become the runtime configuration,      *)
(* until BIRD exits in the middle of an exchange.                          *)
THEOREM RuntimeSafe == Spec => []RuntimeChecked
<1>1. IInv => RuntimeChecked
  BY DEF IInv
<1> QED
  BY <1>1, SpecIInv, PTL

----------------------------------------------------------------------------
(* The editor.                                                             *)

(* States of BIRD's reading of a text.                                     *)
Fields == {"header", "block", "at", "depth", "ok", "cost"}

IsState(s) ==
  /\ DOMAIN s = Fields
  /\ s.header \in Ifaces \cup {None} /\ s.block \in Ifaces \cup {None}
  /\ s.at \in Int /\ s.depth \in Int /\ s.ok \in BOOLEAN
  /\ DOMAIN s.cost = Ifaces

(* The tokens, by kind.                                                    *)
LEMMA TokenKinds ==
  ASSUME NEW x \in Token
  PROVE  /\ x.kind \in {"interface", "cost", "open", "close", "statement", "error"}
         /\ x.kind = "interface" => x.arg \in Ifaces
         /\ x.kind = "open" <=> x = Open
         /\ x.kind = "close" <=> x = Close
<1>0. /\ Open.kind = "open" /\ Close.kind = "close"
      /\ Other.kind = "statement" /\ Bad.kind = "error"
  BY DEF Open, Close, Other, Bad
<1>1. CASE x \in [kind : {"interface"}, arg : Ifaces]
  <2>1. x.kind = "interface" /\ x.arg \in Ifaces
    BY <1>1
  <2> QED
    BY <1>0, <2>1
<1>2. CASE x \in [kind : {"cost"}, arg : Nat]
  <2>1. x.kind = "cost" /\ x.arg \in Nat
    BY <1>2
  <2> QED
    BY <1>0, <2>1
<1>3. CASE x \in {Open, Close, Other, Bad}
  BY <1>0, <1>3
<1> QED
  BY <1>1, <1>2, <1>3 DEF Token

(* What a token makes of a state, field by field.                          *)
LEMMA ScanFields ==
  ASSUME NEW s, IsState(s), NEW x \in Token
  PROVE  /\ IsState(Scan(s, x))
         /\ x.kind = "interface" =>
              /\ Scan(s, x).header = x.arg /\ Scan(s, x).block = s.block
              /\ Scan(s, x).at = s.at /\ Scan(s, x).depth = s.depth
              /\ Scan(s, x).cost = s.cost
         /\ x.kind = "open" =>
              /\ Scan(s, x).header = None
              /\ Scan(s, x).block = (IF s.header = None THEN s.block ELSE s.header)
              /\ Scan(s, x).at = (IF s.header = None THEN s.at ELSE s.depth)
              /\ Scan(s, x).depth = s.depth + 1 /\ Scan(s, x).cost = s.cost
         /\ x.kind = "close" =>
              /\ Scan(s, x).header = s.header
              /\ Scan(s, x).block = (IF s.at = s.depth - 1 THEN None ELSE s.block)
              /\ Scan(s, x).at = s.at
              /\ Scan(s, x).depth = s.depth - 1 /\ Scan(s, x).cost = s.cost
         /\ x.kind = "cost" =>
              /\ Scan(s, x).header = s.header /\ Scan(s, x).block = s.block
              /\ Scan(s, x).at = s.at /\ Scan(s, x).depth = s.depth
              /\ Scan(s, x).cost = IF s.block = None THEN s.cost
                                   ELSE [s.cost EXCEPT ![s.block] = x.arg]
         /\ x.kind \in {"statement", "error"} =>
              /\ Scan(s, x).header \in {s.header, None}
              /\ Scan(s, x).block = s.block
              /\ Scan(s, x).at = s.at /\ Scan(s, x).depth = s.depth
              /\ Scan(s, x).cost = s.cost
         /\ x.kind = "statement" => Scan(s, x).header = None
<1> USE DEF IsState, Fields
<1>1. CASE x.kind = "interface"
  <2>1. Scan(s, x) = [s EXCEPT !.header = x.arg]
    BY <1>1 DEF Scan
  <2> QED
    BY <1>1, <2>1, TokenKinds
<1>2. CASE x.kind = "open"
  <2>1. Scan(s, x) = [s EXCEPT !.depth = @ + 1, !.header = None,
                   !.block = IF s.header = None THEN @ ELSE s.header,
                   !.at = IF s.header = None THEN @ ELSE s.depth]
    BY <1>2 DEF Scan
  <2> DEFINE s1 == [s EXCEPT !.depth = @ + 1]
             s2 == [s1 EXCEPT !.header = None]
             s3 == [s2 EXCEPT !.block = IF s.header = None THEN @ ELSE s.header]
             s4 == [s3 EXCEPT !.at = IF s.header = None THEN @ ELSE s.depth]
  <2>2. Scan(s, x) = s4
    BY <2>1
  <2>3. IsState(s1) /\ s1 = [s EXCEPT !.depth = @ + 1]
    OBVIOUS
  <2> HIDE DEF s1
  <2>4. IsState(s2) /\ s2 = [s1 EXCEPT !.header = None]
    BY <2>3
  <2> HIDE DEF s2
  <2>5. /\ IsState(s3)
        /\ s3 = [s2 EXCEPT !.block = IF s.header = None THEN @ ELSE s.header]
    BY <2>4
  <2> HIDE DEF s3
  <2>6. /\ IsState(s4)
        /\ s4 = [s3 EXCEPT !.at = IF s.header = None THEN @ ELSE s.depth]
    BY <2>5
  <2> HIDE DEF s4
  <2>7. /\ s4.depth = s.depth + 1 /\ s4.header = None /\ s4.cost = s.cost
        /\ s4.block = (IF s.header = None THEN s.block ELSE s.header)
        /\ s4.at = (IF s.header = None THEN s.at ELSE s.depth)
    BY <2>3, <2>4, <2>5, <2>6
  <2> QED
    BY <1>2, <2>2, <2>6, <2>7
<1>3. CASE x.kind = "close"
  <2>1. Scan(s, x) = [s EXCEPT !.depth = @ - 1,
                   !.block = IF s.at = s.depth - 1 THEN None ELSE @]
    BY <1>3 DEF Scan
  <2> DEFINE s1 == [s EXCEPT !.depth = @ - 1]
             s2 == [s1 EXCEPT !.block = IF s.at = s.depth - 1 THEN None ELSE @]
  <2>2. Scan(s, x) = s2
    BY <2>1
  <2>3. IsState(s1) /\ s1 = [s EXCEPT !.depth = @ - 1]
    OBVIOUS
  <2> HIDE DEF s1
  <2>4. /\ IsState(s2)
        /\ s2 = [s1 EXCEPT !.block = IF s.at = s.depth - 1 THEN None ELSE @]
    BY <2>3
  <2> HIDE DEF s2
  <2>5. /\ s2.depth = s.depth - 1 /\ s2.header = s.header /\ s2.cost = s.cost
        /\ s2.block = (IF s.at = s.depth - 1 THEN None ELSE s.block)
        /\ s2.at = s.at
    BY <2>3, <2>4
  <2> QED
    BY <1>3, <2>2, <2>4, <2>5
<1>4. CASE x.kind = "cost"
  <2>1. CASE s.block = None
    <3>1. Scan(s, x) = [s EXCEPT !.ok = FALSE]
      BY <1>4, <2>1 DEF Scan
    <3> QED
      BY <1>4, <2>1, <3>1
  <2>2. CASE s.block # None
    <3>1. Scan(s, x) = [s EXCEPT !.cost[s.block] = x.arg]
      BY <1>4, <2>2 DEF Scan
    <3> QED
      BY <1>4, <2>2, <3>1
  <2> QED
    BY <2>1, <2>2
<1>5. CASE x.kind = "error"
  <2>1. Scan(s, x) = [s EXCEPT !.ok = FALSE]
    BY <1>5 DEF Scan
  <2> QED
    BY <1>5, <2>1
<1>6. CASE x.kind = "statement"
  <2>1. Scan(s, x) = [s EXCEPT !.header = None]
    BY <1>6 DEF Scan
  <2> QED
    BY <1>6, <2>1
<1> QED
  BY <1>1, <1>2, <1>3, <1>4, <1>5, <1>6, TokenKinds


(* A line has two tokens at most.                                          *)
IsLineScan(u, s, l) ==
  u = [k \in 0..Len(l) |-> IF k = 0 THEN s ELSE Scan(u[k - 1], l[k])]

LEMMA LineScan ==
  ASSUME NEW s, NEW l, IsLine(l)
  PROVE  /\ l = <<>> => ScanLine(s, l) = s
         /\ Len(l) = 1 => ScanLine(s, l) = Scan(s, l[1])
         /\ Len(l) = 2 => ScanLine(s, l) = Scan(Scan(s, l[1]), l[2])
<1> DEFINE v == [k \in 0..Len(l) |-> IF k = 0 THEN s
                                     ELSE IF k = 1 THEN Scan(s, l[1])
                                     ELSE Scan(Scan(s, l[1]), l[2])]
           u == CHOOSE u : IsLineScan(u, s, l)
<1>1. l = <<>> \/ Len(l) \in {1, 2}
  BY DEF IsLine
<1>2. ASSUME NEW k \in 0..Len(l)
      PROVE  v[k] = IF k = 0 THEN s ELSE Scan(v[k - 1], l[k])
  <2>1. k = 0 \/ k = 1 \/ k = 2
    <3> DEFINE n == Len(l)
    <3>0. l = <<>> => n = 0
      OBVIOUS
    <3>1. n \in {0, 1, 2} /\ k \in 0..n
      BY <1>1, <3>0
    <3> HIDE DEF n
    <3> QED
      BY <3>1
  <2>2. CASE k = 0
    BY <2>2
  <2>3. CASE k = 1
    <3>1. 0 \in 0..Len(l) /\ k - 1 = 0
      BY <1>1, <2>3
    <3> QED
      BY <2>3, <3>1
  <2>4. CASE k = 2
    <3>1. 1 \in 0..Len(l) /\ k - 1 = 1
      BY <1>1, <2>4
    <3> QED
      BY <2>4, <3>1
  <2> QED
    BY <2>1, <2>2, <2>3, <2>4
<1>3. v = [k \in 0..Len(l) |-> IF k = 0 THEN s ELSE Scan(v[k - 1], l[k])]
  BY <1>2
<1>4. IsLineScan(v, s, l)
  BY <1>3 DEF IsLineScan
<1> HIDE DEF v
<1>5. IsLineScan(u, s, l)
  BY <1>4
<1>6. ScanLine(s, l) = u[Len(l)]
  BY DEF ScanLine, IsLineScan
<1> HIDE DEF u
<1>7. /\ u[0] = s
      /\ l = <<>> => u[Len(l)] = u[0]
  BY <1>1, <1>5 DEF IsLineScan
<1>8. Len(l) \in {1, 2} => u[1] = Scan(s, l[1])
  <2>1. Len(l) \in {1, 2} => 1 \in 0..Len(l) /\ 1 - 1 = 0 /\ 1 # 0
    BY <1>1
  <2> QED
    BY <1>5, <1>7, <2>1 DEF IsLineScan
<1>9. Len(l) = 2 => u[2] = Scan(Scan(s, l[1]), l[2])
  <2>1. Len(l) = 2 => 2 \in 0..Len(l) /\ 2 - 1 = 1 /\ 2 # 0
    BY <1>1
  <2> QED
    BY <1>5, <1>8, <2>1 DEF IsLineScan
<1> QED
  BY <1>1, <1>6, <1>7, <1>8, <1>9

(* What a line holds, by what it is.                                       *)
LEMMA LineTokens ==
  ASSUME NEW l, IsLine(l)
  PROVE  /\ l = <<>> \/ Len(l) \in {1, 2}
         /\ Len(l) \in {1, 2} => l[1] \in Token
         /\ Len(l) = 2 => l[2] = Open /\ l[1].kind \in {"interface", "statement"}
         /\ Open \in Token /\ Open.kind = "open" /\ Close.kind = "close"
         /\ Sets(l) => Len(l) = 1 /\ ~Heads(l) /\ ~Opens(l) /\ ~Closes(l)
         /\ Closes(l) => ~Heads(l) /\ ~Opens(l)
<1>1. Open \in Token /\ Open.kind = "open" /\ Close.kind = "close"
  BY DEF Token, Open, Close
<1>2. /\ l \in Seq(Token) /\ (l = <<>> \/ Len(l) \in {1, 2})
      /\ Len(l) = 2 => l[2] = Open /\ l[1].kind \in {"interface", "statement"}
  BY DEF IsLine
<1>3. Len(l) \in {1, 2} => l[1] \in Token
  BY <1>2
<1> QED
  BY <1>1, <1>2, <1>3 DEF Sets, Heads, Opens, Closes

(* What a line makes of a state.                                           *)
LineResult(s, l, r) ==
  /\ IsState(r)
  /\ r.depth = s.depth + (IF Opens(l) THEN 1
                          ELSE IF Closes(l) THEN -1 ELSE 0)
  /\ r.cost = IF Sets(l) /\ s.block # None
              THEN [s.cost EXCEPT ![s.block] = l[1].arg] ELSE s.cost
  /\ ~Heads(l) => r.header \in {s.header, None}
  /\ Heads(l) => l[1].arg \in Ifaces
  /\ Heads(l) /\ ~Opens(l) =>
       r.header = l[1].arg /\ r.block = s.block /\ r.at = s.at
  /\ Heads(l) /\ Opens(l) =>
       r.header = None /\ r.block = l[1].arg /\ r.at = s.depth
  /\ l = <<Open>> =>
       /\ r.header = None
       /\ r.block = (IF s.header = None THEN s.block ELSE s.header)
       /\ r.at = (IF s.header = None THEN s.at ELSE s.depth)
  /\ ~Heads(l) /\ Opens(l) /\ (s.header = None \/ l # <<Open>>) =>
       r.header = None /\ r.block = s.block /\ r.at = s.at
  /\ Closes(l) =>
       /\ r.block = (IF s.at = s.depth - 1 THEN None ELSE s.block)
       /\ r.at = s.at
  /\ ~Heads(l) /\ ~Opens(l) /\ ~Closes(l) =>
       r.block = s.block /\ r.at = s.at

LEMMA LineStep ==
  ASSUME NEW s, IsState(s), NEW l, IsLine(l)
  PROVE  LineResult(s, l, ScanLine(s, l))
<1> DEFINE r == ScanLine(s, l)
<1> SUFFICES LineResult(s, l, r)
  OBVIOUS
<1>0. /\ l = <<>> \/ Len(l) \in {1, 2}
      /\ Len(l) \in {1, 2} => l[1] \in Token
      /\ Len(l) = 2 => l[2] = Open /\ l[1].kind \in {"interface", "statement"}
      /\ Open \in Token /\ Open.kind = "open" /\ Close.kind = "close"
  BY LineTokens
<1>1. CASE l = <<>>
  <2>1. r = s
    BY <1>1, LineScan
  <2>2. ~Heads(l) /\ ~Opens(l) /\ ~Closes(l) /\ ~Sets(l) /\ l # <<Open>>
    BY <1>1 DEF Heads, Opens, Closes, Sets
  <2>3. s.depth + 0 = s.depth
    BY DEF IsState
  <2> QED
    BY <2>1, <2>2, <2>3 DEF LineResult
<1>2. CASE Len(l) = 1
  <2>1. r = Scan(s, l[1])
    BY <1>2, LineScan
  <2>2. l[1] \in Token
    BY <1>0, <1>2
  <2>3. l = <<Open>> <=> l[1].kind = "open"
    <3>1. l = <<l[1]>>
      BY <1>2 DEF IsLine
    <3>2. l = <<Open>> <=> l[1] = Open
      BY <3>1
    <3> QED
      BY <2>2, <3>2, TokenKinds
  <2>4. /\ Heads(l) <=> l[1].kind = "interface"
        /\ Opens(l) <=> l[1].kind = "open"
        /\ Closes(l) <=> l[1].kind = "close"
        /\ Sets(l) <=> l[1].kind = "cost"
    BY <1>2, <2>2, TokenKinds DEF Heads, Opens, Closes, Sets
  <2>5. s.depth \in Int
    BY DEF IsState
  <2> DEFINE x == l[1]
  <2> HIDE DEF x
  <2>6. x \in Token /\ x = l[1] /\ r = Scan(s, x)
    BY <2>1, <2>2 DEF x
  <2> HIDE DEF r
  <2>a. x.kind \in {"interface", "cost", "open", "close", "statement", "error"}
    BY <2>6, TokenKinds
  <2>7. IsState(r)
    BY <2>6, ScanFields
  <2>8. CASE x.kind = "interface"
    <3>1. /\ r.header = x.arg /\ r.block = s.block /\ r.at = s.at
          /\ r.depth = s.depth /\ r.cost = s.cost
      BY <2>6, <2>8, ScanFields
    <3>3. x.arg \in Ifaces
      BY <2>6, <2>8, TokenKinds
    <3>2. s.depth + 0 = s.depth
      BY <2>5
    <3> QED
      BY <2>3, <2>4, <2>6, <2>7, <2>8, <3>1, <3>2, <3>3 DEF LineResult
  <2>9. CASE x.kind = "open"
    BY <2>3, <2>4, <2>5, <2>6, <2>7, <2>9, ScanFields
       DEF LineResult
  <2>10. CASE x.kind = "close"
    BY <2>3, <2>4, <2>5, <2>6, <2>7, <2>10, ScanFields
       DEF LineResult
  <2>11. CASE x.kind = "cost"
    <3>1. /\ r.header = s.header /\ r.block = s.block /\ r.at = s.at
          /\ r.depth = s.depth
          /\ r.cost = IF s.block = None THEN s.cost
                      ELSE [s.cost EXCEPT ![s.block] = x.arg]
      BY <2>6, <2>11, ScanFields
    <3>2. s.depth + 0 = s.depth
      BY <2>5
    <3> QED
      BY <2>3, <2>4, <2>6, <2>7, <2>11, <3>1, <3>2 DEF LineResult
  <2>12. CASE x.kind \in {"statement", "error"}
    <3>1. /\ r.header \in {s.header, None} /\ r.block = s.block
          /\ r.at = s.at /\ r.depth = s.depth /\ r.cost = s.cost
      BY <2>6, <2>12, ScanFields
    <3>2. s.depth + 0 = s.depth
      BY <2>5
    <3> QED
      BY <2>3, <2>4, <2>6, <2>7, <2>12, <3>1, <3>2 DEF LineResult
  <2> QED
    BY <2>a, <2>8, <2>9, <2>10, <2>11, <2>12
<1>3. CASE Len(l) = 2
  <2> DEFINE x == l[1]
             q == Scan(s, x)
  <2>0. r = Scan(q, l[2])
    BY <1>3, LineScan
  <2>1. r = Scan(q, Open)
    BY <1>0, <1>3, <2>0
  <2>2. x \in Token /\ x.kind \in {"interface", "statement"}
    BY <1>0, <1>3
  <2>3. /\ Heads(l) <=> x.kind = "interface"
        /\ Opens(l) /\ ~Closes(l) /\ ~Sets(l) /\ l # <<Open>>
    BY <1>0, <1>3, <2>2 DEF Heads, Opens, Closes, Sets
  <2>4. s.depth \in Int
    BY DEF IsState
  <2>5. IsState(q)
    BY <2>2, ScanFields
  <2>6. /\ q.depth = s.depth /\ q.cost = s.cost /\ q.block = s.block
        /\ q.at = s.at
        /\ q.header = IF x.kind = "interface" THEN x.arg ELSE None
    BY <2>2, ScanFields
  <2>7. x.kind = "interface" => x.arg \in Ifaces /\ x.arg # None
    BY <2>2, TokenKinds, NoneAssumption
  <2>8. x = l[1]
    OBVIOUS
  <2> HIDE DEF x, q, r
  <2>9. /\ IsState(r) /\ r.header = None /\ r.cost = q.cost
        /\ r.depth = q.depth + 1
        /\ r.block = (IF q.header = None THEN q.block ELSE q.header)
        /\ r.at = (IF q.header = None THEN q.at ELSE q.depth)
    BY <1>0, <2>1, <2>5, ScanFields
  <2> QED
    BY <2>2, <2>3, <2>4, <2>6, <2>7, <2>8, <2>9 DEF LineResult
<1> QED
  BY <1>0, <1>1, <1>2, <1>3


(* Two states that differ in the cost of one interface only.               *)
Same(r, s, i, c) ==
  /\ IsState(r) /\ IsState(s)
  /\ r.header = s.header /\ r.block = s.block /\ r.at = s.at
  /\ r.depth = s.depth /\ r.ok = s.ok
  /\ r.cost = [s.cost EXCEPT ![i] = c]

(* What a token makes of the verdict.                                      *)
LEMMA ScanOk ==
  ASSUME NEW s, IsState(s), NEW x \in Token
  PROVE  Scan(s, x).ok = IF x.kind = "error" \/ (x.kind = "cost" /\ s.block = None)
                         THEN FALSE ELSE s.ok
<1> USE DEF IsState, Fields
<1>0. x.kind \in {"interface", "cost", "open", "close", "statement", "error"}
  BY TokenKinds
<1>1. CASE x.kind = "interface"
  BY <1>1 DEF Scan
<1>2. CASE x.kind = "open"
  BY <1>2 DEF Scan
<1>3. CASE x.kind = "close"
  BY <1>3 DEF Scan
<1>4. CASE x.kind = "cost"
  <2>1. CASE s.block = None
    <3>1. Scan(s, x) = [s EXCEPT !.ok = FALSE]
      BY <1>4, <2>1 DEF Scan
    <3> QED
      BY <1>4, <2>1, <3>1
  <2>2. CASE s.block # None
    <3>1. Scan(s, x) = [s EXCEPT !.cost[s.block] = x.arg]
      BY <1>4, <2>2 DEF Scan
    <3> QED
      BY <1>4, <2>2, <3>1
  <2> QED
    BY <2>1, <2>2
<1>5. CASE x.kind = "error"
  <2>1. Scan(s, x) = [s EXCEPT !.ok = FALSE]
    BY <1>5 DEF Scan
  <2>2. Scan(s, x).ok = FALSE
    BY <2>1
  <2> QED
    BY <1>5, <2>2
<1>6. CASE x.kind = "statement"
  BY <1>6 DEF Scan
<1> QED
  BY <1>0, <1>1, <1>2, <1>3, <1>4, <1>5, <1>6

(* ... still do after a token that does not set it,                        *)
LEMMA SameScan ==
  ASSUME NEW r, NEW s, NEW i \in Ifaces, NEW c, Same(r, s, i, c),
         NEW x \in Token, ~(x.kind = "cost" /\ s.block = i)
  PROVE  Same(Scan(r, x), Scan(s, x), i, c)
<1> DEFINE r1 == Scan(r, x)
           s1 == Scan(s, x)
<1>0. /\ IsState(r) /\ IsState(s)
      /\ r.header = s.header /\ r.block = s.block /\ r.at = s.at
      /\ r.depth = s.depth /\ r.ok = s.ok
      /\ r.cost = [s.cost EXCEPT ![i] = c]
      /\ DOMAIN s.cost = Ifaces /\ s.block \in Ifaces \cup {None}
  BY DEF Same, IsState
<1>1. x.kind \in {"interface", "cost", "open", "close", "statement", "error"}
  BY TokenKinds
<1>2. IsState(r1) /\ IsState(s1)
  BY <1>0, ScanFields
<1>3. r1.ok = s1.ok
  BY <1>0, ScanOk
<1>4. /\ r1.header = s1.header /\ r1.block = s1.block /\ r1.at = s1.at
      /\ r1.depth = s1.depth
  <2>1. CASE x.kind = "interface"
    <3>1. /\ r1.header = x.arg /\ r1.block = r.block
          /\ r1.at = r.at /\ r1.depth = r.depth
      BY <1>0, <2>1, ScanFields
    <3>2. /\ s1.header = x.arg /\ s1.block = s.block
          /\ s1.at = s.at /\ s1.depth = s.depth
      BY <1>0, <2>1, ScanFields
    <3> QED
      BY <1>0, <3>1, <3>2
  <2>2. CASE x.kind = "open"
    <3>1. /\ r1.header = None /\ r1.depth = r.depth + 1
          /\ r1.block = (IF r.header = None THEN r.block ELSE r.header)
          /\ r1.at = (IF r.header = None THEN r.at ELSE r.depth)
      BY <1>0, <2>2, ScanFields
    <3>2. /\ s1.header = None /\ s1.depth = s.depth + 1
          /\ s1.block = (IF s.header = None THEN s.block ELSE s.header)
          /\ s1.at = (IF s.header = None THEN s.at ELSE s.depth)
      BY <1>0, <2>2, ScanFields
    <3> QED
      BY <1>0, <3>1, <3>2
  <2>3. CASE x.kind = "close"
    <3>1. /\ r1.header = r.header /\ r1.depth = r.depth - 1
          /\ r1.block = (IF r.at = r.depth - 1 THEN None ELSE r.block)
          /\ r1.at = r.at
      BY <1>0, <2>3, ScanFields
    <3>2. /\ s1.header = s.header /\ s1.depth = s.depth - 1
          /\ s1.block = (IF s.at = s.depth - 1 THEN None ELSE s.block)
          /\ s1.at = s.at
      BY <1>0, <2>3, ScanFields
    <3> QED
      BY <1>0, <3>1, <3>2
  <2>4. CASE x.kind = "cost"
    BY <1>0, <2>4, ScanFields
  <2>5. CASE x.kind = "statement"
    <3>1. /\ r1.header = None /\ r1.block = r.block
          /\ r1.at = r.at /\ r1.depth = r.depth
      BY <1>0, <2>5, ScanFields
    <3>2. /\ s1.header = None /\ s1.block = s.block
          /\ s1.at = s.at /\ s1.depth = s.depth
      BY <1>0, <2>5, ScanFields
    <3> QED
      BY <1>0, <3>1, <3>2
  <2>6. CASE x.kind = "error"
    <3>1. /\ Scan(r, x) = [r EXCEPT !.ok = FALSE]
          /\ Scan(s, x) = [s EXCEPT !.ok = FALSE]
      BY <2>6 DEF Scan
    <3> QED
      BY <1>0, <3>1 DEF IsState, Fields
  <2> QED
    BY <1>1, <2>1, <2>2, <2>3, <2>4, <2>5, <2>6
<1>5. r1.cost = [s1.cost EXCEPT ![i] = c]
  <2>1. CASE x.kind # "cost"
    <3>1. r1.cost = r.cost
      BY <1>0, <1>1, <2>1, ScanFields
    <3>2. s1.cost = s.cost
      BY <1>0, <1>1, <2>1, ScanFields
    <3> QED
      BY <1>0, <3>1, <3>2
  <2>2. CASE x.kind = "cost" /\ s.block = None
    <3>1. r1.cost = r.cost
      BY <1>0, <2>2, ScanFields
    <3>2. s1.cost = s.cost
      BY <1>0, <2>2, ScanFields
    <3> QED
      BY <1>0, <3>1, <3>2
  <2>3. CASE x.kind = "cost" /\ s.block # None
    <3>0. r.block # None
      BY <1>0, <2>3
    <3>1. r1.cost = [r.cost EXCEPT ![r.block] = x.arg]
      BY <1>0, <2>3, <3>0, ScanFields
    <3>2. s1.cost = [s.cost EXCEPT ![s.block] = x.arg]
      BY <1>0, <2>3, ScanFields
    <3>3. s.block # i /\ s.block \in Ifaces
      BY <1>0, <2>3
    <3>4. [[s.cost EXCEPT ![i] = c] EXCEPT ![s.block] = x.arg]
            = [[s.cost EXCEPT ![s.block] = x.arg] EXCEPT ![i] = c]
      BY <1>0, <3>3
    <3>5. r1.cost = [[s.cost EXCEPT ![i] = c] EXCEPT ![s.block] = x.arg]
      BY <1>0, <3>1
    <3> QED
      BY <3>2, <3>4, <3>5
  <2> QED
    BY <2>1, <2>2, <2>3
<1> HIDE DEF r1, s1
<1>6. Same(r1, s1, i, c)
  BY <1>2, <1>3, <1>4, <1>5 DEF Same
<1> QED
  BY <1>6 DEF r1, s1

(* ... and after a line that does not.                                     *)
LEMMA SameLine ==
  ASSUME NEW r, NEW s, NEW i \in Ifaces, NEW c, Same(r, s, i, c),
         NEW l, IsLine(l), ~(Sets(l) /\ s.block = i)
  PROVE  Same(ScanLine(r, l), ScanLine(s, l), i, c)
<1>0. /\ l = <<>> \/ Len(l) \in {1, 2}
      /\ Len(l) \in {1, 2} => l[1] \in Token
      /\ Len(l) = 2 => l[2] = Open /\ l[1].kind \in {"interface", "statement"}
      /\ Open \in Token /\ Open.kind = "open"
  BY LineTokens
<1>1. CASE l = <<>>
  <2>1. ScanLine(r, l) = r /\ ScanLine(s, l) = s
    BY <1>1, LineScan
  <2> QED
    BY <2>1
<1>2. CASE Len(l) = 1
  <2>1. ScanLine(r, l) = Scan(r, l[1]) /\ ScanLine(s, l) = Scan(s, l[1])
    BY <1>2, LineScan
  <2>2. l[1] \in Token /\ ~(l[1].kind = "cost" /\ s.block = i)
    BY <1>0, <1>2 DEF Sets
  <2> QED
    BY <2>1, <2>2, SameScan
<1>3. CASE Len(l) = 2
  <2>1. /\ ScanLine(r, l) = Scan(Scan(r, l[1]), l[2])
        /\ ScanLine(s, l) = Scan(Scan(s, l[1]), l[2])
    BY <1>3, LineScan
  <2>2. /\ l[2] = Open /\ l[1] \in Token /\ l[1].kind # "cost"
    BY <1>0, <1>3
  <2>3. Same(Scan(r, l[1]), Scan(s, l[1]), i, c)
    BY <2>2, SameScan
  <2>4. Same(Scan(Scan(r, l[1]), Open), Scan(Scan(s, l[1]), Open), i, c)
    BY <1>0, <2>3, SameScan
  <2> QED
    BY <2>1, <2>2, <2>4
<1> QED
  BY <1>0, <1>1, <1>2, <1>3

(* The braces of a line.                                                   *)
LEMMA LineBraces ==
  ASSUME NEW l, IsLine(l)
  PROVE  /\ braceDelta(l) = IF Opens(l) THEN 1 ELSE IF Closes(l) THEN -1 ELSE 0
         /\ CountOf(l, "open") > 0 <=> Opens(l)
<1> DEFINE O == {k \in DOMAIN l : l[k].kind = "open"}
           C == {k \in DOMAIN l : l[k].kind = "close"}
<1>0. /\ l = <<>> \/ Len(l) \in {1, 2}
      /\ Len(l) \in {1, 2} => l[1] \in Token
      /\ Len(l) = 2 => l[2] = Open /\ l[1].kind \in {"interface", "statement"}
      /\ Open \in Token /\ Open.kind = "open" /\ Close.kind = "close"
  BY LineTokens
<1>6. l \in Seq(Token)
  BY DEF IsLine
<1>1. Cardinality({}) = 0 /\ Cardinality({1}) = 1 /\ Cardinality({2}) = 1
  BY FS_EmptySet, FS_Singleton
<1>2. CountOf(l, "open") = Cardinality(O) /\ CountOf(l, "close") = Cardinality(C)
  BY DEF CountOf
<1>3. CASE l = <<>>
  <2>1. DOMAIN l = {}
    BY <1>3
  <2>2. O = {} /\ C = {}
    BY <2>1
  <2>3. ~Opens(l) /\ ~Closes(l)
    BY <1>3 DEF Opens, Closes
  <2> HIDE DEF O, C
  <2>4. CountOf(l, "open") = 0 /\ CountOf(l, "close") = 0
    BY <1>1, <1>2, <2>2
  <2> QED
    <3>1. braceDelta(l) = 0 /\ ~(CountOf(l, "open") > 0)
      BY <2>4 DEF braceDelta
    <3> QED
      BY <2>3, <3>1
<1>4. CASE Len(l) = 1
  <2>0. DOMAIN l = 1..Len(l)
    BY <1>6
  <2>1. DOMAIN l = {1}
    BY <1>4, <2>0
  <2>2. l[1].kind = "open" <=> Opens(l)
    <3>1. l[1] \in Token
      BY <1>0, <1>4
    <3>2. l[1].kind = "open" <=> l[1] = Open
      BY <3>1, TokenKinds
    <3> QED
      BY <1>4, <3>2 DEF Opens
  <2>3. l[1].kind = "close" <=> Closes(l)
    <3>1. l[1] \in Token
      BY <1>0, <1>4
    <3>2. l[1].kind = "close" <=> l[1] = Close
      BY <3>1, TokenKinds
    <3> QED
      BY <1>4, <3>2 DEF Closes
  <2>4. O = (IF Opens(l) THEN {1} ELSE {}) /\ C = (IF Closes(l) THEN {1} ELSE {})
    BY <2>1, <2>2, <2>3
  <2>5. ~(Opens(l) /\ Closes(l))
    BY <2>2, <2>3
  <2> HIDE DEF O, C
  <2>6. /\ CountOf(l, "open") = (IF Opens(l) THEN 1 ELSE 0)
        /\ CountOf(l, "close") = (IF Closes(l) THEN 1 ELSE 0)
    BY <1>1, <1>2, <2>4
  <2> QED
    <3>1. CASE Opens(l)
      <4>1. CountOf(l, "open") = 1 /\ CountOf(l, "close") = 0
        BY <2>5, <2>6, <3>1
      <4>2. braceDelta(l) = 1 /\ CountOf(l, "open") > 0
        BY <4>1 DEF braceDelta
      <4> QED
        BY <3>1, <4>2
    <3>2. CASE Closes(l)
      <4>1. CountOf(l, "open") = 0 /\ CountOf(l, "close") = 1
        BY <2>5, <2>6, <3>2
      <4>2. braceDelta(l) = -1 /\ ~(CountOf(l, "open") > 0)
        BY <4>1 DEF braceDelta
      <4> QED
        BY <2>5, <3>2, <4>2
    <3>3. CASE ~Opens(l) /\ ~Closes(l)
      <4>1. CountOf(l, "open") = 0 /\ CountOf(l, "close") = 0
        BY <2>6, <3>3
      <4>2. braceDelta(l) = 0 /\ ~(CountOf(l, "open") > 0)
        BY <4>1 DEF braceDelta
      <4> QED
        BY <3>3, <4>2
    <3> QED
      BY <3>1, <3>2, <3>3
<1>5. CASE Len(l) = 2
  <2>0. DOMAIN l = 1..Len(l)
    BY <1>6
  <2>1. DOMAIN l = {1, 2}
    BY <1>5, <2>0
  <2>2. O = {2} /\ C = {}
    BY <1>0, <1>5, <2>1
  <2>3. Opens(l) /\ ~Closes(l)
    BY <1>0, <1>5 DEF Opens, Closes
  <2> HIDE DEF O, C
  <2>4. CountOf(l, "open") = 1 /\ CountOf(l, "close") = 0
    BY <1>1, <1>2, <2>2
  <2> QED
    <3>1. braceDelta(l) = 1 /\ CountOf(l, "open") > 0
      BY <2>4 DEF braceDelta
    <3> QED
      BY <2>3, <3>1
<1> QED
  BY <1>0, <1>3, <1>4, <1>5

(* Induction over numbers: a set of numbers has a least one.               *)
LEMMA Least ==
  ASSUME NEW T, T \subseteq Nat, T # {}
  PROVE  \E x \in T : \A y \in T : x <= y
<1> DEFINE R == OpToRel(<, Nat)
<1>1. IsWellFoundedOn(R, Nat)
  BY NatLessThanWellFounded
<1>2. \A x, y \in Nat : <<x, y>> \in R <=> x < y
  BY DEF OpToRel
<1> HIDE DEF R
<1>3. PICK x \in T : \A y \in T : ~(<<y, x>> \in R)
  BY <1>1, WFMin
<1>4. \A y \in T : x \in Nat /\ y \in Nat /\ ~(y < x)
  BY <1>2, <1>3
<1>5. \A y \in T : x <= y
  BY <1>4
<1> QED
  BY <1>5

(* A set that has 0, and with each number up to n the next, has them all.  *)
LEMMA UpTo ==
  ASSUME NEW T, NEW n \in Nat, 0 \in T,
         \A k \in 0..n : k \in T /\ k < n => k + 1 \in T
  PROVE  0..n \subseteq T
<1> DEFINE D == (0..n) \ T
<1> SUFFICES ASSUME D # {} PROVE FALSE
  OBVIOUS
<1>0. D \subseteq Nat
  OBVIOUS
<1> HIDE DEF D
<1>1. PICK x \in D : \A y \in D : x <= y
  BY <1>0, Least
<1> USE DEF D
<1>2. x # 0 /\ x - 1 \in 0..n /\ x - 1 < n /\ (x - 1) + 1 = x /\ ~(x <= x - 1)
  BY <1>1
<1>3. x - 1 \in T
  BY <1>1, <1>2
<1> QED
  BY <1>1, <1>2, <1>3

(* Min of a set of numbers.                                                *)
LEMMA MinIs ==
  ASSUME NEW T, T \subseteq Nat, T # {}
  PROVE  Min(T) \in T /\ \A y \in T : Min(T) <= y
<1>1. \E x \in T : \A y \in T : x <= y
  BY Least
<1> QED
  BY <1>1 DEF Min

----------------------------------------------------------------------------
(* The reading of a text, line by line, as the recursive function it is.   *)

IsSteps(u, t, n) ==
  u = [k \in 0..n |-> IF k = 0 THEN Unparsed ELSE ScanLine(u[k - 1], t[k])]

LEMMA StepsExist ==
  ASSUME NEW t, NEW n \in Nat
  PROVE  \E u : IsSteps(u, t, n)
<1> DEFINE T == {k \in 0..n : \E u : IsSteps(u, t, k)}
<1>1. 0 \in T
  <2> DEFINE u == [k \in 0..0 |-> Unparsed]
  <2>1. \A k \in 0..0 : k = 0
    OBVIOUS
  <2>2. u = [k \in 0..0 |-> IF k = 0 THEN Unparsed ELSE ScanLine(u[k - 1], t[k])]
    BY <2>1
  <2>3. IsSteps(u, t, 0) /\ 0 \in 0..n
    BY <2>2 DEF IsSteps
  <2> QED
    BY <2>3
<1>2. ASSUME NEW k \in 0..n, k \in T, k < n PROVE k + 1 \in T
  <2>1. PICK u : IsSteps(u, t, k)
    BY <1>2
  <2> DEFINE v == [i \in 0..k + 1 |->
                     IF i = k + 1 THEN ScanLine(u[k], t[i]) ELSE u[i]]
  <2>2. ASSUME NEW i \in 0..k + 1
        PROVE  v[i] = IF i = 0 THEN Unparsed ELSE ScanLine(v[i - 1], t[i])
    <3>1. CASE i = 0
      <4>1. i # k + 1 /\ i \in 0..k
        BY <3>1
      <4> QED
        BY <2>1, <3>1, <4>1 DEF IsSteps
    <3>2. CASE i # 0 /\ i # k + 1
      <4>1. i \in 0..k /\ i - 1 \in 0..k /\ i - 1 \in 0..k + 1 /\ i - 1 # k + 1
        BY <3>2
      <4>2. u[i] = ScanLine(u[i - 1], t[i])
        BY <2>1, <3>2, <4>1 DEF IsSteps
      <4> QED
        BY <3>2, <4>1, <4>2
    <3>3. CASE i = k + 1
      <4>1. i # 0 /\ i - 1 = k /\ k \in 0..k + 1 /\ k # k + 1
        BY <3>3
      <4> QED
        BY <3>3, <4>1
    <3> QED
      BY <3>1, <3>2, <3>3
  <2>3. v = [i \in 0..k + 1 |-> IF i = 0 THEN Unparsed ELSE ScanLine(v[i - 1], t[i])]
    BY <2>2
  <2>4. IsSteps(v, t, k + 1)
    BY <2>3 DEF IsSteps
  <2>5. k + 1 \in 0..n
    BY <1>2
  <2> QED
    BY <2>4, <2>5
<1>3. 0..n \subseteq T
  <2> HIDE DEF T
  <2> QED
    BY <1>1, <1>2, UpTo
<1> QED
  BY <1>3

(* The states of the reading of a text,                                    *)
LEMMA StepsAre ==
  ASSUME NEW t, Lines(t)
  PROVE  /\ Steps(t)[0] = Unparsed
         /\ \A k \in 1..Len(t) :
              Steps(t)[k] = ScanLine(Steps(t)[k - 1], t[k]) /\ k - 1 \in 0..Len(t)
         /\ Parse(t) = Steps(t)[Len(t)]
<1> DEFINE u == CHOOSE u : IsSteps(u, t, Len(t))
<1>0. Len(t) \in Nat
  BY DEF Lines
<1>1. IsSteps(u, t, Len(t))
  BY <1>0, StepsExist
<1>2. Steps(t) = u
  BY DEF Steps, IsSteps
<1>3. Parse(t) = u[Len(t)]
  BY <1>2 DEF Parse
<1> HIDE DEF u
<1>4. u[0] = Unparsed
  <2>1. 0 \in 0..Len(t)
    BY <1>0
  <2> QED
    BY <1>1, <2>1 DEF IsSteps
<1>5. ASSUME NEW k \in 1..Len(t)
      PROVE  u[k] = ScanLine(u[k - 1], t[k]) /\ k - 1 \in 0..Len(t)
  <2>1. k \in 0..Len(t) /\ k # 0 /\ k - 1 \in 0..Len(t)
    BY <1>0
  <2> QED
    BY <1>1, <2>1 DEF IsSteps
<1> QED
  BY <1>2, <1>3, <1>4, <1>5

(* ... which are states.                                                   *)
LEMMA StepsStates ==
  ASSUME NEW t, Lines(t)
  PROVE  \A k \in 0..Len(t) : IsState(Steps(t)[k])
<1> DEFINE T == {k \in 0..Len(t) : IsState(Steps(t)[k])}
<1>0. Len(t) \in Nat
  BY DEF Lines
<1>1. 0 \in T
  <2>1. IsState(Unparsed)
    BY DEF IsState, Unparsed, Fields
  <2>2. 0 \in 0..Len(t)
    BY <1>0
  <2> QED
    BY <2>1, <2>2, StepsAre
<1>2. ASSUME NEW k \in 0..Len(t), k \in T, k < Len(t) PROVE k + 1 \in T
  <2>1. k + 1 \in 1..Len(t) /\ k + 1 \in 0..Len(t) /\ (k + 1) - 1 = k
    BY <1>0, <1>2
  <2>2. IsState(Steps(t)[k]) /\ IsLine(t[k + 1])
    BY <1>2, <2>1 DEF Lines
  <2>3. Steps(t)[k + 1] = ScanLine(Steps(t)[k], t[k + 1])
    BY <2>1, StepsAre
  <2>4. IsState(ScanLine(Steps(t)[k], t[k + 1]))
    BY <2>2, LineStep DEF LineResult
  <2> QED
    BY <2>1, <2>3, <2>4
<1>3. 0..Len(t) \subseteq T
  <2> HIDE DEF T
  <2> QED
    BY <1>0, <1>1, <1>2, UpTo
<1> QED
  BY <1>3

(* One line of a text.                                                     *)
LEMMA TextStep ==
  ASSUME NEW t, Lines(t), NEW k \in 1..Len(t)
  PROVE  /\ k - 1 \in 0..Len(t) /\ k \in 0..Len(t)
         /\ IsLine(t[k]) /\ IsState(Steps(t)[k - 1]) /\ IsState(Steps(t)[k])
         /\ LineResult(Steps(t)[k - 1], t[k], Steps(t)[k])
<1>0. Len(t) \in Nat
  BY DEF Lines
<1>1. k - 1 \in 0..Len(t) /\ k \in 0..Len(t)
  BY <1>0
<1>2. IsLine(t[k]) /\ IsState(Steps(t)[k - 1]) /\ IsState(Steps(t)[k])
  BY <1>1, StepsStates DEF Lines
<1>3. Steps(t)[k] = ScanLine(Steps(t)[k - 1], t[k])
  BY StepsAre
<1> QED
  BY <1>1, <1>2, <1>3, LineStep

(* A header is pending only between its line and the brace of the next.    *)
LEMMA HeaderPending ==
  ASSUME NEW t, WellLaid(t)
  PROVE  \A k \in 0..Len(t) : Steps(t)[k].header # None =>
           /\ k \in 1..Len(t) /\ Heads(t[k]) /\ ~Opens(t[k])
           /\ Steps(t)[k].header = t[k][1].arg
<1> DEFINE P(k) == Steps(t)[k].header # None =>
             /\ k \in 1..Len(t) /\ Heads(t[k]) /\ ~Opens(t[k])
             /\ Steps(t)[k].header = t[k][1].arg
           T == {k \in 0..Len(t) : P(k)}
<1>0. Len(t) \in Nat /\ Lines(t)
  BY DEF Lines, WellLaid
<1>1. 0 \in T
  <2>1. Steps(t)[0].header = None
    BY <1>0, StepsAre DEF Unparsed
  <2> QED
    BY <1>0, <2>1
<1>2. ASSUME NEW k \in 0..Len(t), k \in T, k < Len(t) PROVE k + 1 \in T
  <2>1. k + 1 \in 1..Len(t) /\ k + 1 \in 0..Len(t) /\ (k + 1) - 1 = k
    BY <1>0, <1>2
  <2> DEFINE m == k + 1
             s == Steps(t)[k]
             r == Steps(t)[m]
             l == t[m]
  <2>2. LineResult(s, l, r) /\ IsLine(l)
    BY <1>0, <2>1, TextStep
  <2>3. P(k)
    BY <1>2
  <2>4. CASE Heads(l) /\ Opens(l)
    <3>1. r.header = None
      BY <2>2, <2>4 DEF LineResult
    <3> QED
      BY <2>1, <3>1
  <2>5. CASE Heads(l) /\ ~Opens(l)
    <3>1. r.header = l[1].arg
      BY <2>2, <2>5 DEF LineResult
    <3> QED
      BY <2>1, <2>5, <3>1
  <2>6. CASE ~Heads(l) /\ s.header = None
    <3>1. r.header = None
      BY <2>2, <2>6 DEF LineResult
    <3> QED
      BY <2>1, <3>1
  <2>7. CASE ~Heads(l) /\ s.header # None
    <3>1. l = <<Open>>
      BY <2>3, <2>7 DEF WellLaid
    <3>2. r.header = None
      BY <2>2, <3>1 DEF LineResult
    <3> QED
      BY <2>1, <3>2
  <2> QED
    BY <2>4, <2>5, <2>6, <2>7
<1>3. 0..Len(t) \subseteq T
  <2> HIDE DEF T
  <2> QED
    BY <1>0, <1>1, <1>2, UpTo
<1> QED
  BY <1>3

(* How a block comes to be the one that is open.                           *)
LEMMA BlockStep ==
  ASSUME NEW t, WellLaid(t), NEW k \in 1..Len(t), NEW i \in Ifaces,
         Steps(t)[k].block = i, Steps(t)[k - 1].block # i
  PROVE  \E h \in 1..k : Heads(t[h]) /\ t[h][1].arg = i /\ k <= h + 1
<1> DEFINE s == Steps(t)[k - 1]
           r == Steps(t)[k]
           l == t[k]
<1>0. Len(t) \in Nat /\ Lines(t)
  BY DEF Lines, WellLaid
<1>1. LineResult(s, l, r) /\ IsLine(l) /\ k - 1 \in 0..Len(t)
  BY <1>0, TextStep
<1>2. i # None
  BY NoneAssumption
<1>3. k \in 1..k /\ k <= k + 1
  BY <1>0
<1>4. Opens(l) => ~Closes(l)
  BY <1>1, LineTokens
<1>5. r.block = i /\ s.block # i
  OBVIOUS
<1> HIDE DEF r
<1>6. CASE Heads(l) /\ Opens(l)
  <2>1. r.block = l[1].arg
    BY <1>1, <1>6 DEF LineResult
  <2> QED
    BY <1>3, <1>5, <1>6, <2>1
<1>7. CASE Heads(l) /\ ~Opens(l)
  BY <1>1, <1>5, <1>7 DEF LineResult
<1>8. CASE ~Heads(l) /\ ~Opens(l)
  BY <1>1, <1>2, <1>5, <1>8 DEF LineResult
<1>9. CASE ~Heads(l) /\ Opens(l)
  <2>1. s.header = i
    BY <1>1, <1>5, <1>9 DEF LineResult
  <2>2. /\ k - 1 \in 1..Len(t) /\ Heads(t[k - 1]) /\ t[k - 1][1].arg = i
    BY <1>1, <1>2, <2>1, HeaderPending
  <2>3. k - 1 \in 1..k /\ k <= (k - 1) + 1
    BY <1>0, <2>2
  <2> QED
    BY <2>2, <2>3
<1> QED
  BY <1>6, <1>7, <1>8, <1>9

(* Before its header the block of an interface is not open.                *)
LEMMA BlockFrom ==
  ASSUME NEW t, WellLaid(t), NEW i \in Ifaces
  PROVE  \A k \in 0..Len(t) : Steps(t)[k].block = i =>
           \E h \in 1..k : Heads(t[h]) /\ t[h][1].arg = i
<1> DEFINE P(k) == Steps(t)[k].block = i =>
             \E h \in 1..k : Heads(t[h]) /\ t[h][1].arg = i
           T == {k \in 0..Len(t) : P(k)}
<1>0. Len(t) \in Nat /\ Lines(t)
  BY DEF Lines, WellLaid
<1>1. 0 \in T
  <2>1. Steps(t)[0].block = None
    BY <1>0, StepsAre DEF Unparsed
  <2>2. Steps(t)[0].block # i
    BY <2>1, NoneAssumption
  <2> QED
    BY <1>0, <2>2
<1>2. ASSUME NEW k \in 0..Len(t), k \in T, k < Len(t) PROVE k + 1 \in T
  <2>1. k + 1 \in 1..Len(t) /\ k + 1 \in 0..Len(t) /\ (k + 1) - 1 = k
    BY <1>0, <1>2
  <2>2. CASE Steps(t)[k].block = i
    <3>1. PICK h \in 1..k : Heads(t[h]) /\ t[h][1].arg = i
      BY <1>2, <2>2
    <3>2. h \in 1..k + 1
      BY <1>0
    <3> QED
      BY <2>1, <3>1, <3>2
  <2>3. CASE Steps(t)[k].block # i
    <3>1. ASSUME Steps(t)[k + 1].block = i PROVE P(k + 1)
      BY <2>1, <2>3, <3>1, BlockStep
    <3> QED
      BY <2>1, <3>1
  <2> QED
    BY <2>2, <2>3
<1>3. 0..Len(t) \subseteq T
  <2> HIDE DEF T
  <2> QED
    BY <1>0, <1>1, <1>2, UpTo
<1> QED
  BY <1>3

(* The sum of the braces of the lines from o on.                           *)
IsSum(f, t, o, b) ==
  f = [k \in o..b |-> IF k = o THEN 0 ELSE f[k - 1] + braceDelta(t[k])]

(* The braces that the editor counts are the depth that BIRD is at.        *)
LEMMA BalanceIsDepth ==
  ASSUME NEW t, Lines(t), NEW o \in 0..Len(t), NEW b \in o..Len(t)
  PROVE  Balance(t, o + 1, b) = Steps(t)[b].depth - Steps(t)[o].depth
<1> DEFINE D(k) == Steps(t)[k].depth
           f == CHOOSE f : IsSum(f, t, o, b)
           v == [k \in o..b |-> D(k) - D(o)]
<1>0. Len(t) \in Nat /\ (o + 1) - 1 = o
  BY DEF Lines
<1>1. \A k \in 0..Len(t) : D(k) \in Int
  BY StepsStates DEF IsState
<1>2. ASSUME NEW k \in o..b, k # o
      PROVE  k - 1 \in o..b /\ D(k) = D(k - 1) + braceDelta(t[k])
  <2>1. k \in 1..Len(t) /\ k - 1 \in o..b
    BY <1>0, <1>2
  <2>2. LineResult(Steps(t)[k - 1], t[k], Steps(t)[k]) /\ IsLine(t[k])
    BY <2>1, TextStep
  <2>3. braceDelta(t[k]) = IF Opens(t[k]) THEN 1 ELSE IF Closes(t[k]) THEN -1 ELSE 0
    BY <2>2, LineBraces
  <2>4. D(k) = D(k - 1) + (IF Opens(t[k]) THEN 1 ELSE IF Closes(t[k]) THEN -1 ELSE 0)
    BY <2>2 DEF LineResult
  <2> QED
    BY <2>1, <2>3, <2>4
<1>3. ASSUME NEW k \in o..b PROVE (D(k) \in Int /\ braceDelta(t[k]) \in Int) \/ k = o
  <2>1. CASE k # o
    <3>1. k \in 1..Len(t) /\ k \in 0..Len(t)
      BY <1>0, <2>1
    <3>2. IsLine(t[k])
      BY <3>1, TextStep
    <3>3. braceDelta(t[k]) \in Int
      BY <3>2, LineBraces
    <3> QED
      BY <1>1, <3>1, <3>3
  <2> QED
    BY <2>1
<1>4. D(o) \in Int
  BY <1>1
<1> HIDE DEF D
<1>5. v = [k \in o..b |-> IF k = o THEN 0 ELSE v[k - 1] + braceDelta(t[k])]
  <2>1. ASSUME NEW k \in o..b
        PROVE  v[k] = IF k = o THEN 0 ELSE v[k - 1] + braceDelta(t[k])
    <3>1. CASE k = o
      BY <1>4, <3>1
    <3>2. CASE k # o
      <4>1. D(k) = D(k - 1) + braceDelta(t[k]) /\ k - 1 \in o..b
        BY <1>2, <3>2
      <4>2. k - 1 \in 0..Len(t)
        BY <1>0, <4>1
      <4>3. D(k - 1) \in Int /\ braceDelta(t[k]) \in Int
        BY <1>1, <1>3, <3>2, <4>2
      <4>4. v[k] = D(k) - D(o) /\ v[k - 1] = D(k - 1) - D(o)
        BY <4>1
      <4> HIDE DEF v
      <4> QED
        BY <1>4, <3>2, <4>1, <4>3, <4>4
    <3> QED
      BY <3>1, <3>2
  <2> QED
    BY <2>1
<1>6. IsSum(v, t, o, b)
  BY <1>5 DEF IsSum
<1> HIDE DEF v
<1>7. IsSum(f, t, o, b)
  BY <1>6
<1>8. Balance(t, o + 1, b) = f[b]
  BY <1>0 DEF Balance, IsSum
<1> HIDE DEF f
<1> DEFINE T == {j \in 0..b - o : f[o + j] = D(o + j) - D(o)}
<1>9. b - o \in Nat /\ o \in Nat
  BY <1>0
<1>10. 0 \in T
  <2>1. 0 \in 0..b - o /\ o \in o..b /\ o + 0 = o
    BY <1>9
  <2>2. f[o] = 0
    BY <1>7, <2>1 DEF IsSum
  <2>3. D(o) - D(o) = 0
    BY <1>4
  <2> QED
    BY <2>1, <2>2, <2>3
<1>11. ASSUME NEW j \in 0..b - o, j \in T, j < b - o PROVE j + 1 \in T
  <2> DEFINE k == o + (j + 1)
  <2>1. /\ j + 1 \in 0..b - o /\ k \in o..b /\ k # o /\ k - 1 = o + j
        /\ k - 1 \in 0..Len(t)
    BY <1>0, <1>9, <1>11
  <2>2. f[k] = f[k - 1] + braceDelta(t[k])
    BY <1>7, <2>1 DEF IsSum
  <2>3. f[k - 1] = D(k - 1) - D(o)
    BY <1>11, <2>1
  <2>4. D(k) = D(k - 1) + braceDelta(t[k]) /\ D(k - 1) \in Int
        /\ braceDelta(t[k]) \in Int
    BY <1>1, <1>2, <1>3, <2>1
  <2>5. f[k] = D(k) - D(o)
    <3> HIDE DEF k
    <3> QED
      BY <1>4, <2>2, <2>3, <2>4
  <2> QED
    BY <2>1, <2>5
<1>12. 0..b - o \subseteq T
  <2> HIDE DEF T
  <2> QED
    BY <1>9, <1>10, <1>11, UpTo
<1>13. b - o \in 0..b - o /\ o + (b - o) = b
  BY <1>9
<1>14. f[b] = D(b) - D(o)
  BY <1>12, <1>13
<1> QED
  BY <1>8, <1>14 DEF D

(* The editor's idea of where the block of an interface begins and ends.   *)
HeadOf(t, i)  == Min(HeadLines(t, i))
OpenOf(t, i)  == Min(OpenLines(t, HeadOf(t, i)))
CloseOf(t, i) == Min(CloseLines(t, OpenOf(t, i)))

Found(t, i) ==
  /\ HeadLines(t, i) # {} /\ OpenLines(t, HeadOf(t, i)) # {}
  /\ CloseLines(t, OpenOf(t, i)) # {}

(* The one line that heads the block of the interface.                     *)
LEMMA HeadLine ==
  ASSUME NEW t, WellLaid(t), NEW i \in Ifaces, HeadLines(t, i) # {}
  PROVE  /\ HeadOf(t, i) \in 1..Len(t)
         /\ Heads(t[HeadOf(t, i)]) /\ t[HeadOf(t, i)][1].arg = i
         /\ \A k \in 1..Len(t) :
              Heads(t[k]) /\ t[k][1].arg = i => k = HeadOf(t, i)
<1> DEFINE h == HeadOf(t, i)
<1>0. Len(t) \in Nat /\ Lines(t) /\ DOMAIN t = 1..Len(t)
  BY DEF Lines, WellLaid
<1>1. HeadLines(t, i) \subseteq Nat /\ HeadLines(t, i) \subseteq 1..Len(t)
  BY <1>0 DEF HeadLines
<1>2. h \in HeadLines(t, i)
  BY <1>1, MinIs DEF HeadOf
<1> HIDE DEF h
<1>3. h \in 1..Len(t) /\ t[h] # <<>> /\ t[h][1] = Header(i)
  BY <1>1, <1>2 DEF HeadLines
<1>4. IsLine(t[h])
  BY <1>0, <1>3, TextStep
<1>5. Heads(t[h]) /\ t[h][1].arg = i
  BY <1>3, <1>4, LineTokens DEF Heads, Header
<1>6. \A k \in 1..Len(t) : Heads(t[k]) /\ t[k][1].arg = i => k = h
  BY <1>3, <1>5 DEF WellLaid
<1> QED
  BY <1>3, <1>5, <1>6 DEF h

(* On the line of its first brace the block of the interface is opened.    *)
LEMMA OpenLine ==
  ASSUME NEW t, WellLaid(t), NEW i \in Ifaces, HeadLines(t, i) # {},
         OpenLines(t, HeadOf(t, i)) # {}
  PROVE  LET h == HeadOf(t, i)
             o == OpenOf(t, i)
         IN  /\ o \in 1..Len(t) /\ h <= o /\ o <= h + 1 /\ Opens(t[o])
             /\ Steps(t)[h - 1].block = None
             /\ Steps(t)[o - 1].block = None
             /\ Steps(t)[o].block = i /\ Steps(t)[o].header = None
             /\ Steps(t)[o].depth = Steps(t)[o].at + 1
<1> DEFINE h == HeadOf(t, i)
           o == OpenOf(t, i)
           s == Steps(t)[h - 1]
           r == Steps(t)[h]
<1>0. Len(t) \in Nat /\ Lines(t)
  BY DEF Lines, WellLaid
<1>1. /\ h \in 1..Len(t) /\ Heads(t[h]) /\ t[h][1].arg = i
  BY HeadLine
<1>2. ASSUME NEW k \in h..Len(t)
      PROVE  k \in OpenLines(t, h) <=> Opens(t[k])
  <2>1. k \in 1..Len(t)
    BY <1>0, <1>1
  <2>2. IsLine(t[k])
    BY <1>0, <2>1, TextStep
  <2>3. CountOf(t[k], "open") > 0 <=> Opens(t[k])
    BY <2>2, LineBraces
  <2> QED
    BY <2>3 DEF OpenLines
<1>3. OpenLines(t, h) \subseteq h..Len(t)
  BY DEF OpenLines
<1>4. o \in OpenLines(t, h) /\ \A k \in OpenLines(t, h) : o <= k
  <2>1. OpenLines(t, h) \subseteq Nat
    BY <1>0, <1>1, <1>3
  <2> QED
    BY <2>1, MinIs DEF OpenOf
<1>5. /\ LineResult(s, t[h], r) /\ h - 1 \in 0..Len(t) /\ h \in 0..Len(t)
      /\ IsState(s) /\ IsState(r)
  BY <1>0, <1>1, TextStep
<1>6. s.block = None
  BY <1>1 DEF WellLaid
<1>7. i # None /\ s.depth \in Int
  BY <1>5, NoneAssumption DEF IsState
<1> HIDE DEF h, o
<1>8. o \in h..Len(t) /\ Opens(t[o]) /\ o \in 1..Len(t) /\ h <= o
  BY <1>0, <1>1, <1>2, <1>3, <1>4
<1>9. CASE Opens(t[h])
  <2>1. o = h
    <3>1. h \in h..Len(t)
      BY <1>0, <1>1
    <3>2. o <= h
      BY <1>2, <1>4, <1>9, <3>1
    <3> QED
      BY <1>0, <1>1, <1>8, <3>2
  <2>2. /\ r.header = None /\ r.block = i /\ r.at = s.depth
        /\ r.depth = s.depth + 1
    BY <1>1, <1>5, <1>9 DEF LineResult
  <2>3. o <= h + 1
    BY <1>0, <1>1, <2>1
  <2> QED
    BY <1>6, <1>8, <2>1, <2>2, <2>3 DEF h, o
<1>10. CASE ~Opens(t[h])
  <2> DEFINE m == h + 1
             q == Steps(t)[m]
  <2>1. m \in 1..Len(t) /\ t[m] = <<Open>> /\ m - 1 = h
    <3>1. h + 1 \in 1..Len(t) /\ t[h + 1] = <<Open>>
      BY <1>1, <1>10 DEF WellLaid
    <3>2. m \in 1..Len(t) /\ t[m] = <<Open>>
      BY <3>1, Zenon
    <3>3. m - 1 = h
      BY <1>0, <1>1
    <3> QED
      BY <3>2, <3>3, Zenon
  <2>2. IsLine(t[m]) /\ LineResult(r, t[m], q)
    BY <1>0, <2>1, TextStep
  <2>3. Opens(t[m]) /\ ~Closes(t[m])
    BY <2>1, <2>2, LineTokens DEF Opens
  <2>4. o = m
    <3>1. m \in h..Len(t)
      BY <1>0, <1>1, <2>1
    <3>2. o <= m
      BY <1>2, <1>4, <2>3, <3>1
    <3>3. o # h
      BY <1>8, <1>10
    <3> QED
      BY <1>0, <1>1, <1>8, <3>2, <3>3
  <2>5. Closes(t[h]) => FALSE
    BY <1>0, <1>1, TextStep, LineTokens
  <2>6. /\ r.header = i /\ r.block = None /\ r.depth = s.depth
    <3>1. r.header = t[h][1].arg /\ r.block = s.block
      BY <1>1, <1>5, <1>10 DEF LineResult
    <3>2. r.depth = s.depth + 0
      BY <1>5, <1>10, <2>5 DEF LineResult
    <3> QED
      BY <1>1, <1>6, <1>7, <3>1, <3>2
  <2>7. /\ q.header = None /\ q.block = i /\ q.at = r.depth
    BY <1>7, <2>1, <2>2, <2>6 DEF LineResult
  <2>8. q.depth = r.depth + 1
    BY <2>2, <2>3 DEF LineResult
  <2>9. o <= h + 1 /\ o - 1 = h
    BY <1>0, <1>1, <2>4
  <2> HIDE DEF m
  <2> QED
    BY <1>6, <1>8, <2>4, <2>6, <2>7, <2>8, <2>9 DEF h, o
<1> QED
  BY <1>9, <1>10

(* Down to the closing line the block is deeper than its header.           *)
LEMMA CloseLine ==
  ASSUME NEW t, WellLaid(t), NEW i \in Ifaces, Found(t, i)
  PROVE  LET o == OpenOf(t, i)
             c == CloseOf(t, i)
         IN  /\ c \in o + 1..Len(t)
             /\ Steps(t)[c].depth <= Steps(t)[o].at
             /\ \A k \in o + 1..c - 1 : Steps(t)[k].depth > Steps(t)[o].at
<1> DEFINE o == OpenOf(t, i)
           c == CloseOf(t, i)
           A == Steps(t)[o].at
<1>0. Len(t) \in Nat /\ Lines(t)
  BY DEF Lines, WellLaid
<1>1. o \in 1..Len(t) /\ o \in 0..Len(t) /\ Steps(t)[o].depth = A + 1
  BY <1>0, OpenLine DEF Found
<1>2. A \in Int
  BY <1>0, <1>1, StepsStates DEF IsState
<1> HIDE DEF o, A
<1>3. ASSUME NEW k \in o + 1..Len(t)
      PROVE  k \in CloseLines(t, o) <=> Steps(t)[k].depth <= A
  <2>1. k \in o..Len(t) /\ k \in 0..Len(t)
    BY <1>0, <1>1
  <2>2. Balance(t, o + 1, k) = Steps(t)[k].depth - Steps(t)[o].depth
    BY <1>0, <1>1, <2>1, BalanceIsDepth
  <2>3. Steps(t)[k].depth \in Int
    BY <1>0, <2>1, StepsStates DEF IsState
  <2>4. 1 + Balance(t, o + 1, k) <= 0 <=> Steps(t)[k].depth <= A
    BY <1>1, <1>2, <2>2, <2>3
  <2> QED
    BY <2>4 DEF CloseLines
<1>4. CloseLines(t, o) \subseteq o + 1..Len(t)
  BY DEF CloseLines
<1>5. c \in CloseLines(t, o) /\ \A k \in CloseLines(t, o) : c <= k
  <2>1. CloseLines(t, o) \subseteq Nat
    BY <1>0, <1>1, <1>4
  <2> QED
    BY <2>1, MinIs DEF CloseOf, Found, o
<1> HIDE DEF c
<1>6. c \in o + 1..Len(t)
  BY <1>4, <1>5
<1>7. ASSUME NEW k \in o + 1..c - 1 PROVE Steps(t)[k].depth > A
  <2>1. k \in o + 1..Len(t) /\ k \in 0..Len(t) /\ ~(c <= k)
    BY <1>0, <1>1, <1>6
  <2>2. ~(Steps(t)[k].depth <= A)
    BY <1>3, <1>5, <2>1
  <2>3. Steps(t)[k].depth \in Int
    BY <1>0, <2>1, StepsStates DEF IsState
  <2> QED
    BY <1>2, <2>2, <2>3
<1>8. Steps(t)[c].depth <= A
  BY <1>3, <1>5, <1>6
<1> QED
  BY <1>6, <1>7, <1>8 DEF o, c, A

(* From the opening brace up to the line before the closing one the block  *)
(* is that of the interface.                                               *)
LEMMA Inside ==
  ASSUME NEW t, WellLaid(t), NEW i \in Ifaces, Found(t, i)
  PROVE  LET o == OpenOf(t, i)
             c == CloseOf(t, i)
         IN  \A k \in o..c - 1 :
               /\ Steps(t)[k].block = i /\ Steps(t)[k].header = None
               /\ Steps(t)[k].at = Steps(t)[o].at
               /\ Steps(t)[k].depth >= Steps(t)[o].at + 1
<1> DEFINE o == OpenOf(t, i)
           c == CloseOf(t, i)
           A == Steps(t)[o].at
           P(k) == /\ Steps(t)[k].block = i /\ Steps(t)[k].header = None
                   /\ Steps(t)[k].at = A
                   /\ Steps(t)[k].depth >= A + 1
           n == c - 1 - o
           T == {j \in 0..n : P(o + j)}
<1>0. Len(t) \in Nat /\ Lines(t)
  BY DEF Lines, WellLaid
<1>1. /\ o \in 1..Len(t) /\ Steps(t)[o].block = i /\ Steps(t)[o].header = None
      /\ Steps(t)[o].depth = A + 1
  BY OpenLine DEF Found
<1>2. /\ c \in o + 1..Len(t)
      /\ \A k \in o + 1..c - 1 : Steps(t)[k].depth > A
  BY CloseLine
<1>3. A \in Int /\ i # None
  <2>1. o \in 0..Len(t)
    BY <1>0, <1>1
  <2> QED
    BY <1>0, <2>1, StepsStates, NoneAssumption DEF IsState
<1> DEFINE S == Steps(t)
<1> HIDE DEF o, c, A
<1>4. n \in Nat /\ o \in Nat
  BY <1>0, <1>1, <1>2
<1>5. 0 \in T
  <2>1. 0 \in 0..n /\ o + 0 = o
    BY <1>4
  <2>2. P(o)
    BY <1>1, <1>3 DEF A
  <2> QED
    BY <2>1, <2>2
<1>6. ASSUME NEW j \in 0..n, j \in T, j < n PROVE j + 1 \in T
  <2> DEFINE k == o + j
             m == k + 1
             s == S[k]
             r == S[m]
             l == t[m]
  <2>1. /\ m \in 1..Len(t) /\ m - 1 = k /\ m \in o + 1..c - 1
        /\ o + (j + 1) = m /\ j + 1 \in 0..n /\ m \in 0..Len(t)
    BY <1>0, <1>1, <1>2, <1>4, <1>6
  <2>2. LineResult(s, l, r) /\ IsLine(l) /\ IsState(s) /\ IsState(r)
    BY <1>0, <2>1, TextStep
  <2>3. /\ s.block = i /\ s.header = None /\ s.at = A /\ s.depth >= A + 1
    BY <1>6
  <2>4. r.depth > A
    BY <1>2, <2>1
  <2>5. ~Heads(l)
    BY <1>3, <2>1, <2>3 DEF WellLaid
  <2>6. s.depth \in Int /\ r.depth \in Int
    BY <2>2 DEF IsState
  <2> HIDE DEF k, m, s, r, l
  <2>7. r.header = None
    BY <2>2, <2>3, <2>5 DEF LineResult
  <2>8. r.depth >= A + 1
    BY <1>3, <2>4, <2>6
  <2>9. r.block = i /\ r.at = A
    <3>1. CASE Opens(l)
      BY <2>2, <2>3, <2>5, <3>1 DEF LineResult
    <3>2. CASE Closes(l)
      <4>1. ~Opens(l)
        BY <2>2, <3>2, LineTokens
      <4>2. r.depth = s.depth + (-1)
        BY <2>2, <3>2, <4>1 DEF LineResult
      <4>3. s.at # s.depth - 1
        BY <1>3, <2>3, <2>4, <2>6, <4>2
      <4> QED
        BY <2>2, <2>3, <3>2, <4>3 DEF LineResult
    <3>3. CASE ~Opens(l) /\ ~Closes(l)
      BY <2>2, <2>3, <2>5, <3>3 DEF LineResult
    <3> QED
      BY <3>1, <3>2, <3>3
  <2>10. P(m)
    BY <2>7, <2>8, <2>9 DEF r
  <2> QED
    BY <2>1, <2>10
<1>7. 0..n \subseteq T
  <2> HIDE DEF T, n
  <2> QED
    BY <1>4, <1>5, <1>6, UpTo
<1>8. ASSUME NEW k \in o..c - 1 PROVE P(k)
  <2>1. k - o \in 0..n /\ o + (k - o) = k
    BY <1>0, <1>1, <1>2
  <2> QED
    BY <1>7, <2>1
<1> QED
  BY <1>8 DEF o, c, A

(* From the closing line on the block is not that of the interface.        *)
LEMMA After ==
  ASSUME NEW t, WellLaid(t), NEW i \in Ifaces, Found(t, i)
  PROVE  /\ ~Sets(t[CloseOf(t, i)])
         /\ \A k \in CloseOf(t, i)..Len(t) : Steps(t)[k].block # i
<1> DEFINE o == OpenOf(t, i)
           c == CloseOf(t, i)
           h == HeadOf(t, i)
           A == Steps(t)[o].at
           S == Steps(t)
           n == Len(t) - c
           T == {j \in 0..n : S[c + j].block # i}
<1>0. Len(t) \in Nat /\ Lines(t)
  BY DEF Lines, WellLaid
<1>1. o \in 1..Len(t) /\ h <= o /\ h \in 1..Len(t)
  BY OpenLine, HeadLine DEF Found
<1>2. c \in o + 1..Len(t) /\ S[c].depth <= A
  BY CloseLine
<1>3. /\ S[c - 1].block = i /\ S[c - 1].header = None /\ S[c - 1].at = A
      /\ S[c - 1].depth >= A + 1
  <2>1. c - 1 \in o..c - 1
    BY <1>0, <1>1, <1>2
  <2> QED
    BY <2>1, Inside
<1>4. \A k \in 1..Len(t) : Heads(t[k]) /\ t[k][1].arg = i => k = h
  BY HeadLine DEF Found
<1>5. A \in Int /\ i # None
  <2>1. o \in 0..Len(t)
    BY <1>0, <1>1
  <2> QED
    BY <1>0, <2>1, StepsStates, NoneAssumption DEF IsState
<1> HIDE DEF o, c, h, A
<1>6. c \in 1..Len(t) /\ n \in Nat /\ c \in Nat
  BY <1>0, <1>1, <1>2
<1>7. /\ LineResult(S[c - 1], t[c], S[c]) /\ IsLine(t[c])
      /\ IsState(S[c - 1]) /\ IsState(S[c])
  BY <1>0, <1>6, TextStep
<1>8. S[c - 1].depth \in Int /\ S[c].depth \in Int
  BY <1>7 DEF IsState
<1>9. Closes(t[c]) /\ S[c].depth = S[c - 1].depth - 1
  <2>1. S[c].depth = S[c - 1].depth + (IF Opens(t[c]) THEN 1
                                       ELSE IF Closes(t[c]) THEN -1 ELSE 0)
    BY <1>7 DEF LineResult
  <2> QED
    BY <1>2, <1>3, <1>5, <1>8, <2>1
<1>10. ~Sets(t[c])
  BY <1>7, <1>9, LineTokens
<1>11. 0 \in T
  <2>1. S[c - 1].at = S[c - 1].depth - 1
    BY <1>2, <1>3, <1>5, <1>8, <1>9
  <2>2. S[c].block = None
    BY <1>7, <1>9, <2>1 DEF LineResult
  <2>3. 0 \in 0..n /\ c + 0 = c
    BY <1>6
  <2> QED
    BY <1>5, <2>2, <2>3
<1>12. ASSUME NEW j \in 0..n, j \in T, j < n PROVE j + 1 \in T
  <2> DEFINE k == c + (j + 1)
  <2>1. /\ j + 1 \in 0..n /\ k \in 1..Len(t) /\ k - 1 = c + j /\ k > h + 1
    BY <1>0, <1>1, <1>2, <1>6, <1>12
  <2>2. S[k - 1].block # i
    BY <1>12, <2>1
  <2>3. ASSUME S[k].block = i PROVE FALSE
    <3> HIDE DEF k
    <3>1. PICK g \in 1..k : Heads(t[g]) /\ t[g][1].arg = i /\ k <= g + 1
      BY <2>1, <2>2, <2>3, BlockStep
    <3>2. g \in 1..Len(t)
      BY <1>0, <2>1
    <3>3. g = h
      BY <1>4, <3>1, <3>2
    <3> QED
      BY <1>0, <1>1, <2>1, <3>1, <3>3
  <2> QED
    BY <2>1, <2>3
<1>13. 0..n \subseteq T
  <2> HIDE DEF T, n
  <2> QED
    BY <1>6, <1>11, <1>12, UpTo
<1>14. ASSUME NEW k \in c..Len(t) PROVE S[k].block # i
  <2>1. k - c \in 0..n /\ c + (k - c) = k
    BY <1>0, <1>6
  <2> QED
    BY <1>13, <2>1
<1> QED
  BY <1>10, <1>14 DEF c

(* The cost lines that the editor finds are those that BIRD reads for the  *)
(* interface.                                                              *)
LEMMA CostLinesOf ==
  ASSUME NEW t, WellLaid(t), NEW i \in Ifaces, Found(t, i), NEW k \in 1..Len(t)
  PROVE  k \in CostLines(t, OpenOf(t, i), CloseOf(t, i)) <=>
           Sets(t[k]) /\ Steps(t)[k - 1].block = i
<1> DEFINE o == OpenOf(t, i)
           c == CloseOf(t, i)
           h == HeadOf(t, i)
           S == Steps(t)
<1>0. Len(t) \in Nat /\ Lines(t)
  BY DEF Lines, WellLaid
<1>1. o \in 1..Len(t) /\ h <= o /\ o <= h + 1 /\ h \in 1..Len(t) /\ Opens(t[o])
      /\ Heads(t[h]) /\ S[h - 1].block = None /\ S[o - 1].block = None
  BY OpenLine, HeadLine DEF Found
<1>2. c \in o + 1..Len(t)
  BY CloseLine
<1>3. \A m \in o..c - 1 : S[m].block = i
  BY Inside
<1>4. ~Sets(t[c]) /\ \A m \in c..Len(t) : S[m].block # i
  BY After
<1>5. \A m \in 1..Len(t) : Heads(t[m]) /\ t[m][1].arg = i => m = h
  BY HeadLine DEF Found
<1>6. IsLine(t[k]) /\ k - 1 \in 0..Len(t)
  BY <1>0, TextStep
<1>7. Sets(t[k]) <=> t[k] # <<>> /\ t[k][1].kind = "cost"
  BY <1>6, LineTokens DEF Sets
<1>8. i # None
  BY NoneAssumption
<1> HIDE DEF o, c, h
<1>9. k \in CostLines(t, o, c) <=> k \in o + 1..c - 1 /\ Sets(t[k])
  BY <1>7 DEF CostLines
<1>10. ASSUME Sets(t[k]), S[k - 1].block = i PROVE k \in o + 1..c - 1
  <2>1. k # c /\ ~(k - 1 \in c..Len(t))
    BY <1>4, <1>6, <1>10
  <2>2. k < c
    BY <1>0, <1>1, <1>2, <2>1
  <2>3. k # h /\ k # o
    <3>1. ~Heads(t[k]) /\ ~Opens(t[k])
      BY <1>6, <1>10, LineTokens
    <3> QED
      BY <1>1, <3>1
  <2>4. ~(k - 1 < h)
    <3>1. ASSUME k - 1 < h PROVE FALSE
      <4>1. PICK g \in 1..k - 1 : Heads(t[g]) /\ t[g][1].arg = i
        BY <1>6, <1>10, BlockFrom
      <4>2. g \in 1..Len(t) /\ g # h
        BY <1>0, <1>1, <3>1
      <4> QED
        BY <1>5, <4>1, <4>2
    <3> QED
      BY <3>1
  <2> QED
    BY <1>0, <1>1, <1>2, <2>2, <2>3, <2>4
<1>11. ASSUME k \in o + 1..c - 1 PROVE S[k - 1].block = i
  <2>1. k - 1 \in o..c - 1
    BY <1>0, <1>1, <1>2, <1>11
  <2> QED
    BY <1>3, <2>1
<1> QED
  BY <1>9, <1>10, <1>11 DEF o, c

----------------------------------------------------------------------------
(* Two texts of the same lines up to m are read the same up to m.          *)
LEMMA SameUpTo ==
  ASSUME NEW t, Lines(t), NEW e, Lines(e), NEW m \in 0..Len(t), m \in 0..Len(e),
         \A k \in 1..m : e[k] = t[k]
  PROVE  \A k \in 0..m : Steps(e)[k] = Steps(t)[k]
<1> DEFINE T == {k \in 0..m : Steps(e)[k] = Steps(t)[k]}
<1>0. Len(t) \in Nat /\ Len(e) \in Nat /\ m \in Nat
  BY DEF Lines
<1>1. 0 \in T
  <2>1. 0 \in 0..m
    BY <1>0
  <2> QED
    BY <2>1, StepsAre
<1>2. ASSUME NEW k \in 0..m, k \in T, k < m PROVE k + 1 \in T
  <2>1. /\ k + 1 \in 1..Len(t) /\ k + 1 \in 1..Len(e) /\ k + 1 \in 1..m
        /\ k + 1 \in 0..m /\ (k + 1) - 1 = k
    BY <1>0, <1>2
  <2>2. Steps(t)[k + 1] = ScanLine(Steps(t)[k], t[k + 1])
    BY <2>1, StepsAre
  <2>3. Steps(e)[k + 1] = ScanLine(Steps(e)[k], e[k + 1])
    BY <2>1, StepsAre
  <2> QED
    BY <1>2, <2>1, <2>2, <2>3
<1>3. 0..m \subseteq T
  <2> HIDE DEF T
  <2> QED
    BY <1>0, <1>1, <1>2, UpTo
<1> QED
  BY <1>3

(* From where two texts differ in the cost of one interface, and none of   *)
(* the lines that follow sets it, they differ in it to the end.            *)
LEMMA SameFrom ==
  ASSUME NEW t, Lines(t), NEW e, Lines(e), NEW d \in {0, 1}, Len(e) = Len(t) + d,
         NEW i \in Ifaces, NEW c, NEW m \in 0..Len(t),
         Same(Steps(e)[m + d], Steps(t)[m], i, c),
         \A k \in m + 1..Len(t) : e[k + d] = t[k],
         \A k \in m + 1..Len(t) : ~(Sets(t[k]) /\ Steps(t)[k - 1].block = i)
  PROVE  \A k \in m..Len(t) : Same(Steps(e)[k + d], Steps(t)[k], i, c)
<1> DEFINE n == Len(t) - m
           P(k) == Same(Steps(e)[k + d], Steps(t)[k], i, c)
           T == {j \in 0..n : P(m + j)}
<1>0. Len(t) \in Nat /\ m \in Nat /\ n \in Nat /\ d \in Nat
  BY DEF Lines
<1>1. 0 \in T
  <2>1. 0 \in 0..n /\ m + 0 = m
    BY <1>0
  <2> QED
    BY <2>1
<1>2. ASSUME NEW j \in 0..n, j \in T, j < n PROVE j + 1 \in T
  <2> DEFINE k == m + (j + 1)
             q == m + j
  <2>1. /\ j + 1 \in 0..n /\ k \in m + 1..Len(t) /\ k \in 1..Len(t) /\ k - 1 = q
        /\ k + d \in 1..Len(e) /\ (k + d) - 1 = q + d
    BY <1>0, <1>2
  <2>2. P(q)
    BY <1>2
  <2> HIDE DEF k, q
  <2>3. Steps(t)[k] = ScanLine(Steps(t)[q], t[k])
    BY <2>1, StepsAre
  <2>4. Steps(e)[k + d] = ScanLine(Steps(e)[q + d], e[k + d])
    BY <2>1, StepsAre
  <2>5. e[k + d] = t[k] /\ ~(Sets(t[k]) /\ Steps(t)[q].block = i)
    BY <2>1
  <2>6. IsLine(t[k])
    BY <2>1, TextStep
  <2>7. Same(ScanLine(Steps(e)[q + d], t[k]), ScanLine(Steps(t)[q], t[k]), i, c)
    BY <2>2, <2>5, <2>6, SameLine
  <2>8. P(k)
    BY <2>3, <2>4, <2>5, <2>7
  <2> QED
    BY <2>1, <2>8 DEF k
<1>3. 0..n \subseteq T
  <2> HIDE DEF T, n
  <2> QED
    BY <1>0, <1>1, <1>2, UpTo
<1>4. ASSUME NEW k \in m..Len(t) PROVE P(k)
  <2>1. k - m \in 0..n /\ m + (k - m) = k
    BY <1>0
  <2> QED
    BY <1>3, <2>1
<1> QED
  BY <1>4

(* A line that sets the cost, in the block of the interface.               *)
LEMMA SetCost ==
  ASSUME NEW s, IsState(s), NEW i \in Ifaces, s.block = i, NEW c \in Nat
  PROVE  /\ IsLine(<<Cost(c)>>) /\ Sets(<<Cost(c)>>)
         /\ Same(ScanLine(s, <<Cost(c)>>), s, i, c)
         /\ \A l : IsLine(l) /\ Sets(l) =>
              Same(ScanLine(s, <<Cost(c)>>), ScanLine(s, l), i, c)
<1> DEFINE x == Cost(c)
           r == Scan(s, x)
<1>1. x \in Token /\ x.kind = "cost" /\ x.arg = c
  BY DEF Cost, Token
<1> HIDE DEF x
<1>2. /\ IsLine(<<x>>) /\ Sets(<<x>>) /\ Len(<<x>>) = 1 /\ <<x>>[1] = x
  BY <1>1 DEF IsLine, Sets
<1>3. i # None /\ DOMAIN s.cost = Ifaces
  BY NoneAssumption DEF IsState
<1>4. ScanLine(s, <<x>>) = r
  BY <1>2, LineScan
<1>5. /\ IsState(r) /\ r.header = s.header /\ r.block = s.block /\ r.at = s.at
      /\ r.depth = s.depth /\ r.cost = [s.cost EXCEPT ![i] = c]
  BY <1>1, <1>3, ScanFields
<1>6. r.ok = s.ok
  BY <1>1, <1>3, ScanOk
<1>7. Same(r, s, i, c)
  BY <1>5, <1>6 DEF Same
<1>8. ASSUME NEW l, IsLine(l), Sets(l) PROVE Same(r, ScanLine(s, l), i, c)
  <2> DEFINE y == l[1]
             q == Scan(s, y)
  <2>1. Len(l) = 1 /\ y.kind = "cost" /\ y \in Token
    BY <1>8, LineTokens DEF Sets
  <2>2. ScanLine(s, l) = q
    BY <1>8, <2>1, LineScan
  <2> HIDE DEF y
  <2>3. /\ IsState(q) /\ q.header = s.header /\ q.block = s.block
        /\ q.at = s.at /\ q.depth = s.depth
        /\ q.cost = [s.cost EXCEPT ![i] = y.arg]
    BY <1>3, <2>1, ScanFields
  <2>4. q.ok = s.ok
    BY <1>3, <2>1, ScanOk
  <2>5. r.cost = [q.cost EXCEPT ![i] = c]
    BY <1>3, <1>5, <2>3
  <2> HIDE DEF r, q
  <2>6. Same(r, q, i, c)
    BY <1>5, <1>6, <2>3, <2>4, <2>5 DEF Same
  <2> QED
    BY <2>2, <2>6
<1> HIDE DEF r
<1> QED
  BY <1>2, <1>4, <1>7, <1>8 DEF x

(* e is t with one line <<Cost(c)>> on line q, in place of the only line   *)
(* that sets the cost of i (d = 0), or below its brace when there is none  *)
(* (d = 1).                                                                *)
EditOf(e, t, i, c, q, d) ==
  /\ Lines(e) /\ d \in {0, 1} /\ Len(e) = Len(t) + d /\ q \in 1..Len(e)
  /\ e[q] = <<Cost(c)>>
  /\ \A k \in 1..q - 1 : e[k] = t[k]
  /\ \A k \in q + 1..Len(e) : e[k] = t[k - d]
  /\ Steps(t)[q - 1].block = i
  /\ d = 0 => Sets(t[q])
  /\ d = 1 => Opens(t[q - 1]) /\ q - 1 \in 1..Len(t)
  /\ \A k \in 1..Len(t) :
       Sets(t[k]) /\ Steps(t)[k - 1].block = i => d = 0 /\ k = q

(* BIRD reads the lines before it as before, and the lines after it as     *)
(* before but for the cost of the interface.                               *)
LEMMA EditReads ==
  ASSUME NEW t, WellLaid(t), NEW i \in Ifaces, NEW c \in Nat,
         NEW e, NEW q, NEW d, EditOf(e, t, i, c, q, d)
  PROVE  /\ \A k \in 0..q - 1 : Steps(e)[k] = Steps(t)[k]
         /\ \A k \in q..Len(e) :
              k - d \in 0..Len(t) /\ Same(Steps(e)[k], Steps(t)[k - d], i, c)
<1>0. /\ Len(t) \in Nat /\ Lines(t) /\ Lines(e) /\ Len(e) = Len(t) + d
      /\ d \in {0, 1} /\ q \in 1..Len(e) /\ Len(e) \in Nat
  BY DEF Lines, WellLaid, EditOf
<1>1. q - 1 \in 0..Len(t) /\ q - 1 \in 0..Len(e)
  BY <1>0
<1>2. \A k \in 0..q - 1 : Steps(e)[k] = Steps(t)[k]
  <2>1. \A k \in 1..q - 1 : e[k] = t[k]
    BY DEF EditOf
  <2> QED
    BY <1>0, <1>1, <2>1, SameUpTo
<1> DEFINE s == Steps(t)[q - 1]
           m == q - d
<1>3. s.block = i /\ IsState(s)
  BY <1>0, <1>1, StepsStates DEF EditOf
<1>4. Steps(e)[q] = ScanLine(s, <<Cost(c)>>)
  <2>1. Steps(e)[q] = ScanLine(Steps(e)[q - 1], e[q])
    BY <1>0, StepsAre
  <2>2. q - 1 \in 0..q - 1
    BY <1>0
  <2> QED
    BY <1>2, <2>1, <2>2 DEF EditOf
<1>5. m \in 0..Len(t) /\ m + d = q
  BY <1>0
<1>6. Same(Steps(e)[m + d], Steps(t)[m], i, c)
  <2>1. CASE d = 0
    <3>1. q \in 1..Len(t) /\ Sets(t[q]) /\ m = q
      BY <1>0, <2>1 DEF EditOf
    <3>2. IsLine(t[q]) /\ Steps(t)[q] = ScanLine(s, t[q])
      BY <1>0, <3>1, StepsAre, TextStep
    <3>3. Same(ScanLine(s, <<Cost(c)>>), ScanLine(s, t[q]), i, c)
      BY <1>3, <3>1, <3>2, SetCost
    <3> QED
      BY <1>4, <1>5, <3>1, <3>2, <3>3
  <2>2. CASE d = 1
    <3>1. m = q - 1
      BY <1>0, <2>2
    <3>2. Same(ScanLine(s, <<Cost(c)>>), s, i, c)
      BY <1>3, SetCost
    <3> QED
      BY <1>4, <1>5, <3>1, <3>2
  <2> QED
    BY <1>0, <2>1, <2>2
<1>7. ASSUME NEW k \in m + 1..Len(t)
      PROVE  e[k + d] = t[k] /\ ~(Sets(t[k]) /\ Steps(t)[k - 1].block = i)
  <2>1. k + d \in q + 1..Len(e) /\ (k + d) - d = k /\ k \in 1..Len(t)
        /\ (d = 0 => k # q)
    BY <1>0
  <2> QED
    BY <2>1 DEF EditOf
<1> HIDE DEF m, s
<1>8. \A k \in m..Len(t) : Same(Steps(e)[k + d], Steps(t)[k], i, c)
  BY <1>0, <1>5, <1>6, <1>7, SameFrom
<1>9. ASSUME NEW k \in q..Len(e)
      PROVE  k - d \in 0..Len(t) /\ Same(Steps(e)[k], Steps(t)[k - d], i, c)
  <2>1. k - d \in m..Len(t) /\ (k - d) + d = k /\ k - d \in 0..Len(t)
    BY <1>0, <1>5 DEF m
  <2> QED
    BY <1>8, <2>1
<1> QED
  BY <1>2, <1>9

(* So the edited text has the one cost changed and is as valid as before,  *)
LEMMA EditParses ==
  ASSUME NEW t, WellLaid(t), NEW i \in Ifaces, NEW c \in Nat,
         NEW e, NEW q, NEW d, EditOf(e, t, i, c, q, d)
  PROVE  /\ Costs(e) = [Costs(t) EXCEPT ![i] = c]
         /\ Valid(e) <=> Valid(t)
<1>0. /\ Len(t) \in Nat /\ Lines(t) /\ Lines(e) /\ Len(e) = Len(t) + d
      /\ d \in {0, 1} /\ q \in 1..Len(e)
  BY DEF Lines, WellLaid, EditOf
<1>1. Len(e) \in q..Len(e) /\ Len(e) - d = Len(t)
  BY <1>0
<1>2. Same(Steps(e)[Len(e)], Steps(t)[Len(t)], i, c)
  BY <1>1, EditReads
<1>3. Same(Parse(e), Parse(t), i, c)
  BY <1>0, <1>2, StepsAre
<1> QED
  BY <1>3 DEF Same, Costs, Valid

(* ... and has the layout again, for the next call.                        *)
LEMMA EditWellLaid ==
  ASSUME NEW t, WellLaid(t), NEW i \in Ifaces, NEW c \in Nat,
         NEW e, NEW q, NEW d, EditOf(e, t, i, c, q, d)
  PROVE  WellLaid(e)
<1> DEFINE w(k) == IF k < q THEN k ELSE k - d
<1>0. /\ Len(t) \in Nat /\ Lines(t) /\ Lines(e) /\ Len(e) = Len(t) + d
      /\ d \in {0, 1} /\ q \in 1..Len(e)
  BY DEF Lines, WellLaid, EditOf
<1>1. IsLine(e[q]) /\ Sets(e[q]) /\ ~Heads(e[q])
  <2>1. e[q] = <<Cost(c)>> /\ IsLine(e[q])
    BY <1>0, TextStep DEF EditOf
  <2>2. q - 1 \in 0..Len(t)
    BY <1>0
  <2>3. IsState(Steps(t)[q - 1]) /\ Steps(t)[q - 1].block = i
    BY <1>0, <2>2, StepsStates DEF EditOf
  <2>4. Sets(e[q])
    BY <2>1, <2>3, SetCost
  <2> QED
    BY <2>1, <2>4, LineTokens
<1>2. Steps(e)[q - 1].block = i /\ i # None
  <2>1. q - 1 \in 0..q - 1
    BY <1>0
  <2>2. Steps(e)[q - 1] = Steps(t)[q - 1]
    BY <2>1, EditReads
  <2>3. Steps(t)[q - 1].block = i
    BY DEF EditOf
  <2> QED
    BY <2>2, <2>3, NoneAssumption
<1>3. ASSUME NEW k \in 1..Len(e), k # q
      PROVE  /\ w(k) \in 1..Len(t) /\ e[k] = t[w(k)]
             /\ Steps(e)[k - 1].block = Steps(t)[w(k) - 1].block
             /\ d = 0 => w(k) # q
  <2>1. CASE k < q
    <3>1. k \in 1..q - 1 /\ k - 1 \in 0..q - 1 /\ w(k) = k /\ k \in 1..Len(t)
      BY <1>0, <2>1
    <3>2. Steps(e)[k - 1] = Steps(t)[k - 1]
      BY <3>1, EditReads
    <3>3. e[k] = t[k]
      BY <3>1 DEF EditOf
    <3> QED
      BY <1>3, <3>1, <3>2, <3>3
  <2>2. CASE k > q
    <3>1. /\ k \in q + 1..Len(e) /\ k - 1 \in q..Len(e) /\ w(k) = k - d
          /\ k - d \in 1..Len(t) /\ (k - 1) - d = w(k) - 1
          /\ (d = 0 => w(k) # q)
      BY <1>0, <2>2
    <3>2. Same(Steps(e)[k - 1], Steps(t)[(k - 1) - d], i, c)
      BY <3>1, EditReads
    <3>3. e[k] = t[k - d]
      BY <3>1 DEF EditOf
    <3>4. Steps(e)[k - 1].block = Steps(t)[w(k) - 1].block
      BY <3>1, <3>2 DEF Same
    <3> QED
      BY <3>1, <3>3, <3>4
  <2> QED
    BY <1>0, <1>3, <2>1, <2>2
<1>4. ASSUME NEW j \in 1..Len(e), NEW k \in 1..Len(e), j # q, k # q, w(j) = w(k)
      PROVE  j = k
  BY <1>0, <1>4
<1>5. ASSUME NEW k \in 1..Len(e), k # q, k + 1 # q
      PROVE  w(k + 1) = w(k) + 1
  BY <1>0, <1>5
<1>6. ASSUME NEW k \in 1..Len(e), k + 1 = q
      PROVE  w(k) = q - 1 /\ k # q
  BY <1>0, <1>6
<1> HIDE DEF w
<1>7. ASSUME NEW j \in 1..Len(e), NEW k \in 1..Len(e),
             Heads(e[j]), Heads(e[k]), e[j][1].arg = e[k][1].arg
      PROVE  j = k
  <2>1. j # q /\ k # q
    BY <1>1, <1>7
  <2>2. w(j) \in 1..Len(t) /\ w(k) \in 1..Len(t) /\ e[j] = t[w(j)] /\ e[k] = t[w(k)]
    BY <1>3, <2>1
  <2>3. w(j) = w(k)
    BY <1>7, <2>2 DEF WellLaid
  <2> QED
    BY <1>4, <2>1, <2>3
<1>8. ASSUME NEW k \in 1..Len(e), Heads(e[k]), ~Opens(e[k])
      PROVE  k + 1 \in 1..Len(e) /\ e[k + 1] = <<Open>>
  <2>1. k # q
    BY <1>1, <1>8
  <2>2. w(k) \in 1..Len(t) /\ e[k] = t[w(k)]
    BY <1>3, <2>1
  <2>3. w(k) + 1 \in 1..Len(t) /\ t[w(k) + 1] = <<Open>>
    BY <1>8, <2>2 DEF WellLaid
  <2>4. CASE k + 1 = q
    <3>1. w(k) = q - 1
      BY <1>6, <2>4
    <3>2. CASE d = 1
      BY <1>8, <2>2, <3>1, <3>2 DEF EditOf
    <3>3. CASE d = 0
      <4>1. w(k) + 1 = q
        BY <1>0, <3>1
      <4>2. Sets(t[q]) /\ t[q] = <<Open>> /\ q \in 1..Len(t)
        BY <2>3, <3>3, <4>1 DEF EditOf
      <4>3. IsLine(t[q])
        BY <1>0, <4>2, TextStep
      <4>4. Opens(t[q])
        BY <4>2 DEF Opens
      <4> QED
        BY <4>2, <4>3, <4>4, LineTokens
    <3> QED
      BY <1>0, <3>2, <3>3
  <2>5. CASE k + 1 # q
    <3>1. w(k + 1) = w(k) + 1
      BY <1>5, <2>1, <2>5
    <3>2. k + 1 \in 1..Len(e)
      <4>1. w(k) + 1 <= Len(t)
        BY <1>0, <2>3
      <4>2. w(k) = k \/ w(k) = k - d
        BY DEF w
      <4>3. CASE w(k) = k - d
        BY <1>0, <4>1, <4>3
      <4>4. CASE w(k) = k
        BY <1>0, <4>1, <4>4
      <4> QED
        BY <4>2, <4>3, <4>4
    <3> QED
      BY <1>3, <2>3, <2>5, <3>1, <3>2
  <2> QED
    BY <2>4, <2>5
<1>9. ASSUME NEW k \in 1..Len(e), Heads(e[k]) PROVE Steps(e)[k - 1].block = None
  <2>1. k # q
    BY <1>1, <1>9
  <2>2. /\ w(k) \in 1..Len(t) /\ e[k] = t[w(k)]
        /\ Steps(e)[k - 1].block = Steps(t)[w(k) - 1].block
    BY <1>3, <2>1
  <2> QED
    BY <1>9, <2>2 DEF WellLaid
<1>10. ASSUME NEW k \in 1..Len(e), Sets(e[k]), Steps(e)[k - 1].block = i
       PROVE  k = q
  <2>1. ASSUME k # q PROVE FALSE
    <3>1. /\ w(k) \in 1..Len(t) /\ e[k] = t[w(k)]
          /\ Steps(e)[k - 1].block = Steps(t)[w(k) - 1].block
          /\ d = 0 => w(k) # q
      BY <1>3, <2>1
    <3> QED
      BY <1>10, <3>1 DEF EditOf
  <2> QED
    BY <2>1
<1>11. ASSUME NEW j \in 1..Len(e), NEW k \in 1..Len(e),
              Sets(e[j]), Sets(e[k]), Steps(e)[j - 1].block # None,
              Steps(e)[j - 1].block = Steps(e)[k - 1].block
       PROVE  j = k
  <2>1. CASE j = q \/ k = q
    BY <1>2, <1>10, <1>11, <2>1
  <2>2. CASE j # q /\ k # q
    <3>1. /\ w(j) \in 1..Len(t) /\ e[j] = t[w(j)]
          /\ Steps(e)[j - 1].block = Steps(t)[w(j) - 1].block
      BY <1>3, <2>2
    <3>2. /\ w(k) \in 1..Len(t) /\ e[k] = t[w(k)]
          /\ Steps(e)[k - 1].block = Steps(t)[w(k) - 1].block
      BY <1>3, <2>2
    <3>3. w(j) = w(k)
      BY <1>11, <3>1, <3>2 DEF WellLaid
    <3> QED
      BY <1>4, <2>2, <3>3
  <2> QED
    BY <2>1, <2>2
<1> QED
  BY <1>0, <1>7, <1>8, <1>9, <1>11 DEF WellLaid

(* What the editor makes of a text is an edit in this sense.               *)
LEMMA RewriteEdits ==
  ASSUME NEW t, WellLaid(t), NEW i \in Ifaces, Found(t, i), NEW c \in Nat
  PROVE  \E q, d : EditOf(Rewrite(t, OpenOf(t, i), CloseOf(t, i), c), t, i, c, q, d)
<1> DEFINE o == OpenOf(t, i)
           K == CostLines(t, o, CloseOf(t, i))
           e == Rewrite(t, o, CloseOf(t, i), c)
           x == Cost(c)
<1>0. /\ Len(t) \in Nat /\ Lines(t) /\ t \in Seq(Seq(Token))
      /\ DOMAIN t = 1..Len(t)
  BY DEF Lines, WellLaid
<1>1. o \in 1..Len(t) /\ Opens(t[o]) /\ Steps(t)[o].block = i
  BY OpenLine DEF Found
<1>2. \A k \in 1..Len(t) : k \in K <=> Sets(t[k]) /\ Steps(t)[k - 1].block = i
  BY CostLinesOf
<1>3. K \subseteq 1..Len(t)
  <2>1. CloseOf(t, i) \in o + 1..Len(t)
    BY CloseLine
  <2> HIDE DEF o
  <2>2. \A k \in o + 1..CloseOf(t, i) - 1 : k \in 1..Len(t)
    BY <1>0, <1>1, <2>1
  <2> QED
    BY <2>2 DEF CostLines
<1>4. IsLine(<<x>>) /\ <<x>> \in Seq(Token) /\ x \in Token
  BY DEF IsLine, Token, Cost
<1>5. e = IF K # {} THEN [t EXCEPT ![Min(K)][1] = x] ELSE InsertAt(t, o + 1, <<x>>)
  BY DEF Rewrite
<1> HIDE DEF K, o, e, x
<1>6. CASE K # {}
  <2> DEFINE q == Min(K)
  <2>1. q \in K /\ q \in 1..Len(t)
    <3>1. K \subseteq Nat
      BY <1>0, <1>3
    <3>2. q \in K
      BY <1>6, <3>1, MinIs
    <3> QED
      BY <1>3, <3>2
  <2> HIDE DEF q
  <2>2. Sets(t[q]) /\ Steps(t)[q - 1].block = i /\ IsLine(t[q])
    BY <1>0, <1>2, <2>1, TextStep
  <2>3. Len(t[q]) = 1 /\ t[q] \in Seq(Token)
    BY <2>2, LineTokens DEF IsLine
  <2>4. [t[q] EXCEPT ![1] = x] = <<x>>
    BY <2>3
  <2>5. e = [t EXCEPT ![q] = <<x>>]
    BY <1>5, <1>6, <2>4 DEF q
  <2>6. e \in Seq(Seq(Token)) /\ Len(e) = Len(t)
    BY <1>0, <1>4, <2>1, <2>5
  <2>7. /\ e[q] = <<x>> /\ \A k \in 1..Len(t) : k # q => e[k] = t[k]
    BY <1>0, <2>1, <2>5
  <2>8. Lines(e)
    <3>1. ASSUME NEW k \in 1..Len(e) PROVE IsLine(e[k])
      BY <1>0, <1>4, <2>6, <2>7, TextStep
    <3> QED
      BY <2>6, <3>1 DEF Lines
  <2>9. \A k \in 1..Len(t) :
          Sets(t[k]) /\ Steps(t)[k - 1].block = i => k = q
    BY <1>2, <2>1, <2>2, NoneAssumption DEF WellLaid
  <2>10. /\ \A k \in 1..q - 1 : k \in 1..Len(t) /\ k # q
         /\ \A k \in q + 1..Len(e) : k \in 1..Len(t) /\ k # q /\ k - 0 = k
         /\ Len(e) = Len(t) + 0
    BY <1>0, <2>1, <2>6
  <2>11. EditOf(e, t, i, c, q, 0)
    BY <2>1, <2>2, <2>6, <2>7, <2>8, <2>9, <2>10 DEF EditOf, x
  <2> QED
    BY <2>11 DEF e, o
<1>7. CASE K = {}
  <2> DEFINE q == o + 1
             l == <<x>>
             a == SubSeq(t, 1, o)
             b == SubSeq(t, q, Len(t))
  <2>1. q - 1 = o /\ q \in 1..Len(t) + 1 /\ o \in Nat /\ o <= Len(t)
    BY <1>0, <1>1
  <2>2. e = a \o <<l>> \o b
    BY <1>5, <1>7, <2>1 DEF InsertAt
  <2>3. /\ a \in Seq(Seq(Token)) /\ Len(a) = o
        /\ \A k \in 1..o : a[k] = t[k]
    BY <1>0, <2>1
  <2>4. /\ b \in Seq(Seq(Token)) /\ Len(b) = Len(t) - o
        /\ \A k \in 1..Len(t) - o : b[k] = t[o + k]
    <3>1. /\ q \in 1..Len(t) + 1 /\ Len(t) \in q - 1..Len(t)
          /\ Len(t) - q + 1 = Len(t) - o
          /\ \A k \in 1..Len(t) - o : q + k - 1 = o + k
      BY <1>0, <2>1
    <3> HIDE DEF q
    <3>2. /\ b \in Seq(Seq(Token)) /\ Len(b) = Len(t) - q + 1
          /\ \A k \in 1..Len(t) - q + 1 : b[k] = t[q + k - 1]
      BY <1>0, <3>1, SubSeqProperties
    <3> QED
      BY <3>1, <3>2
  <2>5. <<l>> \in Seq(Seq(Token)) /\ Len(<<l>>) = 1 /\ <<l>>[1] = l
    BY <1>4
  <2> HIDE DEF a, b, l
  <2>6. a \o <<l>> \in Seq(Seq(Token)) /\ Len(a \o <<l>>) = q
        /\ (a \o <<l>>)[q] = l /\ \A k \in 1..o : (a \o <<l>>)[k] = t[k]
    BY <2>1, <2>3, <2>5
  <2>7. /\ e \in Seq(Seq(Token)) /\ Len(e) = Len(t) + 1
        /\ \A k \in 1..q : e[k] = (a \o <<l>>)[k]
        /\ \A k \in q + 1..Len(e) : e[k] = b[k - q]
    <3> DEFINE z == a \o <<l>>
    <3> HIDE DEF z
    <3>1. z \in Seq(Seq(Token)) /\ b \in Seq(Seq(Token)) /\ e = z \o b
          /\ Len(z) = q /\ Len(b) = Len(t) - o
      BY <2>2, <2>4, <2>6 DEF z
    <3>2. /\ e \in Seq(Seq(Token)) /\ Len(e) = Len(z) + Len(b)
          /\ \A k \in 1..Len(z) + Len(b) :
               e[k] = IF k <= Len(z) THEN z[k] ELSE b[k - Len(z)]
      BY <3>1, ConcatProperties
    <3>3. q + (Len(t) - o) = Len(t) + 1
      BY <1>0, <2>1
    <3>4. \A k \in 1..q : k \in 1..Len(t) + 1 /\ k <= q
      BY <1>0, <2>1
    <3>5. \A k \in q + 1..Len(t) + 1 : k \in 1..Len(t) + 1 /\ ~(k <= q)
      BY <1>0, <2>1
    <3> HIDE DEF q
    <3> QED
      BY <3>1, <3>2, <3>3, <3>4, <3>5 DEF z
  <2>8. e[q] = l /\ \A k \in 1..q - 1 : e[k] = t[k]
    <3>1. q \in 1..q /\ \A k \in 1..q - 1 : k \in 1..q /\ k \in 1..o
      BY <2>1
    <3> QED
      BY <2>6, <2>7, <3>1
  <2>9. ASSUME NEW k \in q + 1..Len(e) PROVE e[k] = t[k - 1] /\ k - 1 \in 1..Len(t)
    <3>1. k - q \in 1..Len(t) - o /\ o + (k - q) = k - 1 /\ k - 1 \in 1..Len(t)
      BY <1>0, <2>1, <2>7
    <3> QED
      BY <2>4, <2>7, <3>1
  <2>10. Lines(e)
    <3>1. ASSUME NEW k \in 1..Len(e) PROVE IsLine(e[k])
      <4>1. CASE k = q
        BY <1>4, <2>8, <4>1 DEF l
      <4>2. CASE k < q
        <5>1. k \in 1..q - 1 /\ k \in 1..Len(t)
          BY <1>0, <2>1, <4>2
        <5> QED
          BY <1>0, <2>8, <5>1, TextStep
      <4>3. CASE k > q
        <5>1. k \in q + 1..Len(e)
          BY <1>0, <2>1, <2>7, <4>3
        <5> QED
          BY <1>0, <2>9, <5>1, TextStep
      <4> QED
        BY <2>1, <4>1, <4>2, <4>3
    <3> QED
      BY <2>7, <3>1 DEF Lines
  <2>11. \A k \in 1..Len(t) : ~(Sets(t[k]) /\ Steps(t)[k - 1].block = i)
    BY <1>2, <1>7
  <2>12. q \in 1..Len(e)
    BY <2>1, <2>7
  <2>13. EditOf(e, t, i, c, q, 1)
    <3> HIDE DEF q
    <3> QED
      BY <1>1, <2>1, <2>7, <2>8, <2>9, <2>10, <2>11, <2>12 DEF EditOf, l, x
  <2> QED
    BY <2>13 DEF e, o
<1> QED
  BY <1>6, <1>7

(* In every text of the layout the editor sets the cost of the interface   *)
(* and of no other, changes nothing else BIRD makes of the text, and       *)
(* leaves the layout as it is (birdconfig.uc:520).                         *)
THEOREM EditorRight ==
  ASSUME NEW t, WellLaid(t), NEW i \in Ifaces, NEW c \in Nat,
         editOspfCost(t, i, c).ok
  PROVE  LET e == editOspfCost(t, i, c).text
         IN  /\ Costs(e) = [Costs(t) EXCEPT ![i] = c]
             /\ Valid(e) <=> Valid(t)
             /\ WellLaid(e)
<1>1. Found(t, i)
  BY DEF editOspfCost, Failed, Found, HeadOf, OpenOf
<1>2. editOspfCost(t, i, c).text = Rewrite(t, OpenOf(t, i), CloseOf(t, i), c)
  BY <1>1 DEF editOspfCost, Failed, Found, HeadOf, OpenOf, CloseOf
<1> DEFINE e == editOspfCost(t, i, c).text
<1>3. PICK q, d : EditOf(e, t, i, c, q, d)
  BY <1>1, <1>2, RewriteEdits
<1> HIDE DEF e
<1>4. /\ Costs(e) = [Costs(t) EXCEPT ![i] = c] /\ (Valid(e) <=> Valid(t))
      /\ WellLaid(e)
  BY <1>3, EditParses, EditWellLaid
<1> QED
  BY <1>4 DEF e

----------------------------------------------------------------------------
(* What a call makes of the costs, when the editor edits what the calls    *)
(* meet as it is meant to: Good has the texts that /etc/bird.conf can hold *)
(* and, of each of them, every text the editor makes of it that BIRD takes *)
(* for valid, with the one cost changed.                                   *)

EditsRight(Good) ==
  /\ Texts \subseteq Good /\ None \notin Good
  /\ \A t \in Good, i \in Ifaces, c \in CostArgs :
       LET r == editOspfCost(t, i, c)
       IN ValidCost(c) /\ r.ok /\ Valid(r.text) =>
            r.text \in Good /\ Costs(r.text) = [Costs(t) EXCEPT ![i] = c]
  /\ \A t \in Good : DOMAIN Costs(t) = Ifaces

Laid == {t \in Seq(Seq(Token)) : WellLaid(t)}

(* /etc/bird.conf has the layout, and no file is no text.                  *)
TextsLaid == Texts \subseteq Laid /\ None \notin Laid

LEMMA LaidRight ==
  ASSUME TextsLaid
  PROVE  EditsRight(Laid)
<1>1. ASSUME NEW t \in Laid PROVE WellLaid(t) /\ Lines(t) /\ DOMAIN Costs(t) = Ifaces
  <2>1. WellLaid(t) /\ Lines(t)
    BY DEF Laid, WellLaid
  <2>2. Len(t) \in 0..Len(t)
    BY <2>1 DEF Lines
  <2>3. IsState(Steps(t)[Len(t)])
    BY <2>1, <2>2, StepsStates
  <2>4. IsState(Parse(t))
    BY <2>1, <2>3, StepsAre
  <2> QED
    BY <2>1, <2>4 DEF Costs, IsState
<1>2. ASSUME NEW t \in Laid, NEW i \in Ifaces, NEW c \in CostArgs,
             editOspfCost(t, i, c).ok
      PROVE  LET e == editOspfCost(t, i, c).text
             IN  e \in Laid /\ Costs(e) = [Costs(t) EXCEPT ![i] = c]
  <2> DEFINE e == editOspfCost(t, i, c).text
  <2>1. c \in Nat
    BY CostArgsAssumption
  <2>2. WellLaid(t)
    BY <1>1
  <2>3. WellLaid(e) /\ Costs(e) = [Costs(t) EXCEPT ![i] = c]
    BY <1>2, <2>1, <2>2, EditorRight
  <2> HIDE DEF e
  <2>4. e \in Laid
    BY <2>3 DEF Laid, WellLaid, Lines
  <2> QED
    BY <2>3, <2>4 DEF e
<1> QED
  BY <1>1, <1>2 DEF EditsRight, TextsLaid

Edited(p) == editOspfCost(src[p], args[p].interface, args[p].cost)
Derived   == {"write", "check", "promote", "configure"}

(* The arguments of a call under way are those of an admitted call.        *)
Admitted ==
  /\ DOMAIN args = Procs /\ DOMAIN src = Procs /\ DOMAIN text = Procs
  /\ DOMAIN code = Procs /\ DOMAIN kept = Ifaces
  /\ \A p \in Procs : pc[p] # "idle" =>
       /\ args[p].interface \in Ifaces /\ args[p].cost \in CostArgs
       /\ ValidCost(args[p].cost)

(* What a call has derived, has written and has promoted is the edit of    *)
(* what it read: nobody else writes while it holds the lock.               *)
UnderWay ==
  \A p \in Procs :
    /\ pc[p] \in Derived => Edited(p).ok /\ text[p] = Edited(p).text
    /\ pc[p] \in {"check", "promote"} => next = text[p]
    /\ pc[p] = "configure" => runtime \in {text[p], None}

(* ... and of a text that the editor edits right.                          *)
AllGood(Good) ==
  /\ default \in Texts
  /\ ~was_cut => runtime \in Good \cup {None}
  /\ ~was_cut => \A p \in Procs : pc[p] \in Derived => src[p] \in Good

(* The runtime configuration has the costs that successful calls set, but  *)
(* for the interface whose call has promoted and not yet finished.         *)
RuntimeKeeps ==
  ~was_cut => \A i \in Ifaces :
    /\ kept[i] # 0
    /\ \A p \in Procs : pc[p] = "configure" => args[p].interface # i
    => runtime # None /\ Costs(runtime)[i] = kept[i]

(* ... and so has the text from which a call is derived that is yet to be  *)
(* promoted.                                                               *)
SourceKeeps ==
  ~was_cut => \A p \in Procs : pc[p] \in {"write", "check", "promote"} =>
    \A i \in Ifaces : kept[i] # 0 => Costs(src[p])[i] = kept[i]

CInv(Good) ==
  IInv /\ Admitted /\ UnderWay /\ AllGood(Good) /\ RuntimeKeeps /\ SourceKeeps

LEMMA InitCInv ==
  ASSUME NEW Good, EditsRight(Good), Init
  PROVE  CInv(Good)
<1>1. Admitted
  BY DEF Init, Admitted, NoCosts
<1>2. UnderWay
  BY DEF Init, UnderWay, Derived
<1>3. AllGood(Good)
  BY DEF Init, AllGood, Derived, EditsRight
<1>4. RuntimeKeeps /\ SourceKeeps
  BY DEF Init, RuntimeKeeps, SourceKeeps, NoCosts
<1> QED
  BY <1>1, <1>2, <1>3, <1>4, InitIInv DEF CInv

(* The processes other than the one that makes a step stay where they are. *)
LEMMA OthersStay ==
  ASSUME IInv, Admitted, NEW p \in Procs,
         \/ \E i \in Ifaces, c \in CostArgs : Call(p, i, c)
         \/ Step(p) \/ Kill(p),
         NEW q \in Procs, q # p
  PROVE  /\ pc'[q] = pc[q] /\ args'[q] = args[q] /\ src'[q] = src[q]
         /\ text'[q] = text[q] /\ code'[q] = code[q]
<1> USE DEF IInv, Where, Admitted, Goto, Return, local
<1>1. CASE \E i \in Ifaces, c \in CostArgs : Call(p, i, c)
  BY <1>1 DEF Call
<1>2. CASE Lock(p)
  BY <1>2 DEF Lock
<1>3. CASE Read(p)
  BY <1>3 DEF Read
<1>4. CASE Write(p)
  BY <1>4 DEF Write
<1>5. CASE Check(p)
  BY <1>5 DEF Check
<1>6. CASE Promote(p)
  BY <1>6 DEF Promote
<1>7. CASE Configure(p)
  BY <1>7 DEF Configure
<1>8. CASE Kill(p)
  BY <1>8 DEF Kill
<1> QED
  BY <1>1, <1>2, <1>3, <1>4, <1>5, <1>6, <1>7, <1>8 DEF Step

LEMMA AdmittedStep ==
  ASSUME IInv, Admitted, NEW p \in Procs,
         \/ \E i \in Ifaces, c \in CostArgs : Call(p, i, c)
         \/ Step(p) \/ Kill(p)
  PROVE  Admitted'
<1> USE DEF IInv, Where, Admitted, Goto, Return, local, Remember
<1>1. CASE \E i \in Ifaces, c \in CostArgs : Call(p, i, c)
  BY <1>1 DEF Call
<1>2. CASE Lock(p)
  BY <1>2 DEF Lock
<1>3. CASE Read(p)
  BY <1>3 DEF Read
<1>4. CASE Write(p)
  BY <1>4 DEF Write
<1>5. CASE Check(p)
  BY <1>5 DEF Check
<1>6. CASE Promote(p)
  BY <1>6 DEF Promote
<1>7. CASE Configure(p)
  BY <1>7 DEF Configure
<1>8. CASE Kill(p)
  BY <1>8 DEF Kill
<1> QED
  BY <1>1, <1>2, <1>3, <1>4, <1>5, <1>6, <1>7, <1>8 DEF Step

(* While a call is past the lock, no other process touches a file.         *)
LEMMA Undisturbed ==
  ASSUME IInv, NEW p \in Procs,
         \/ \E i \in Ifaces, c \in CostArgs : Call(p, i, c)
         \/ Step(p) \/ Kill(p),
         NEW q \in Procs, q # p, pc[q] \notin {"idle", "lock"}
  PROVE  UNCHANGED <<default, runtime, next, kept, was_cut, active>>
<1>1. pc[p] \in {"idle", "lock"}
  BY OneHolder DEF IInv
<1>2. CASE \E i \in Ifaces, c \in CostArgs : Call(p, i, c)
  BY <1>2 DEF Call, files, bird
<1>3. CASE Lock(p)
  BY <1>3 DEF Lock, files, bird, count
<1>4. CASE Kill(p)
  BY <1>1, <1>4 DEF Kill, files, bird
<1>5. CASE Read(p) \/ Write(p) \/ Check(p) \/ Promote(p) \/ Configure(p)
  BY <1>1, <1>5 DEF Read, Write, Check, Promote, Configure
<1> QED
  BY <1>2, <1>3, <1>4, <1>5 DEF Step

LEMMA UnderWayStep ==
  ASSUME IInv, Admitted, UnderWay, NEW p \in Procs,
         \/ \E i \in Ifaces, c \in CostArgs : Call(p, i, c)
         \/ Step(p) \/ Kill(p)
  PROVE  UnderWay'
<1> DEFINE Of(q) ==
      /\ pc[q] \in Derived => Edited(q).ok /\ text[q] = Edited(q).text
      /\ pc[q] \in {"check", "promote"} => next = text[q]
      /\ pc[q] = "configure" => runtime \in {text[q], None}
<1>1. ASSUME NEW q \in Procs, q # p PROVE Of(q)'
  <2>1. /\ pc'[q] = pc[q] /\ args'[q] = args[q] /\ src'[q] = src[q]
        /\ text'[q] = text[q]
    BY <1>1, OthersStay
  <2>2. Edited(q)' = Edited(q)
    BY <2>1 DEF Edited
  <2>3. CASE pc[q] \in {"idle", "lock"}
    BY <2>1, <2>3 DEF Derived
  <2>4. CASE pc[q] \notin {"idle", "lock"}
    <3>1. runtime' = runtime /\ next' = next
      BY <1>1, <2>4, Undisturbed
    <3> QED
      BY <2>1, <2>2, <3>1 DEF UnderWay
  <2> QED
    BY <2>3, <2>4
<1>2. Of(p)'
  <2> USE DEF IInv, Where, Admitted, Goto, Return
  <2>1. CASE \E i \in Ifaces, c \in CostArgs : Call(p, i, c)
    <3>1. pc'[p] \in {"idle", "lock"}
      BY <2>1 DEF Call
    <3> QED
      BY <3>1 DEF Derived
  <2>2. CASE Lock(p)
    BY <2>2 DEF Lock, Derived
  <2>3. CASE Read(p)
    <3>1. CASE pc'[p] = "write"
      <4>1. /\ args' = args /\ src' = [src EXCEPT ![p] = Source]
            /\ text' = [text EXCEPT ![p] =
                 editOspfCost(Source, args[p].interface, args[p].cost).text]
            /\ editOspfCost(Source, args[p].interface, args[p].cost).ok
        BY <2>3, <3>1 DEF Read
      <4>2. Edited(p)' = editOspfCost(Source, args[p].interface, args[p].cost)
        BY <4>1 DEF Edited
      <4> QED
        BY <3>1, <4>1, <4>2
    <3>2. CASE pc'[p] = "idle"
      BY <3>2 DEF Derived
    <3> QED
      BY <2>3, <3>1, <3>2 DEF Read
  <2>4. CASE Write(p)
    <3>1. CASE pc'[p] = "check"
      BY <2>4, <3>1 DEF Write, UnderWay, Derived, Edited, local
    <3>2. CASE pc'[p] = "idle"
      BY <3>2 DEF Derived
    <3> QED
      BY <2>4, <3>1, <3>2 DEF Write
  <2>5. CASE Check(p)
    <3>1. CASE pc'[p] = "promote"
      BY <2>5, <3>1 DEF Check, UnderWay, Derived, Edited, local, files
    <3>2. CASE pc'[p] = "idle"
      BY <3>2 DEF Derived
    <3> QED
      BY <2>5, <3>1, <3>2 DEF Check
  <2>6. CASE Promote(p)
    <3>1. CASE pc'[p] = "configure"
      BY <2>6, <3>1 DEF Promote, UnderWay, Derived, Edited, local
    <3>2. CASE pc'[p] = "idle"
      BY <3>2 DEF Derived
    <3> QED
      BY <2>6, <3>1, <3>2 DEF Promote
  <2>7. CASE Configure(p)
    BY <2>7 DEF Configure, Derived
  <2>8. CASE Kill(p)
    BY <2>8 DEF Kill, Derived
  <2> QED
    BY <2>1, <2>2, <2>3, <2>4, <2>5, <2>6, <2>7, <2>8 DEF Step
<1>3. \A q \in Procs : Of(q)'
  BY <1>1, <1>2
<1> QED
  BY <1>3 DEF UnderWay

LEMMA AllGoodStep ==
  ASSUME NEW Good, EditsRight(Good), CInv(Good), NEW p \in Procs,
         \/ \E i \in Ifaces, c \in CostArgs : Call(p, i, c)
         \/ Step(p) \/ Kill(p)
  PROVE  AllGood(Good)'
<1>1. default' = default
  BY DEF Step, Call, Lock, Read, Write, Check, Promote, Configure, Kill, files
<1>2. ~was_cut' => ~was_cut
  BY DEF Step, Call, Lock, Read, Write, Check, Promote, Configure, Kill, count,
         Unreachable, Answers, Cut
<1>3. ASSUME ~was_cut' PROVE runtime' \in Good \cup {None}
  <2>1. CASE runtime' = runtime
    BY <1>2, <1>3, <2>1 DEF CInv, AllGood
  <2>2. CASE runtime' # runtime
    <3>1. pc[p] = "promote" /\ next # None /\ runtime' = next
      BY <2>2 DEF Step, Call, Lock, Read, Write, Check, Promote, Configure,
                  Kill, files
    <3>2. next = Edited(p).text /\ Edited(p).ok /\ src[p] \in Good
      BY <1>2, <1>3, <3>1 DEF CInv, UnderWay, AllGood, Derived
    <3>3. Valid(next)
      BY <1>2, <1>3, <3>1 DEF CInv, IInv, NextChecked
    <3>4. /\ args[p].interface \in Ifaces /\ args[p].cost \in CostArgs
          /\ ValidCost(args[p].cost)
      BY <3>1 DEF CInv, Admitted
    <3> QED
      BY <3>1, <3>2, <3>3, <3>4 DEF EditsRight, Edited
  <2> QED
    BY <2>1, <2>2
<1>4. ASSUME ~was_cut', NEW q \in Procs, pc'[q] \in Derived
      PROVE  src'[q] \in Good
  <2>1. CASE src'[q] = src[q] /\ pc[q] \in Derived
    BY <1>2, <1>4, <2>1 DEF CInv, AllGood
  <2>2. CASE ~(src'[q] = src[q] /\ pc[q] \in Derived)
    <3>1. q = p
      BY <1>4, <2>2, OthersStay DEF CInv
    <3>2. src'[p] = Source
      BY <1>4, <2>2, <3>1 DEF CInv, IInv, Where, Admitted, Step, Call, Lock,
         Read, Write, Check, Promote, Configure, Kill, Goto, Return, local,
         Derived
    <3>3. Source \in Good
      BY <1>2, <1>4 DEF Source, CInv, AllGood, EditsRight
    <3> QED
      BY <3>1, <3>2, <3>3
  <2> QED
    BY <2>1, <2>2
<1> QED
  BY <1>1, <1>3, <1>4 DEF AllGood, CInv

(* The costs of the text that a call has promoted or is about to.          *)
LEMMA EditCosts ==
  ASSUME NEW Good, EditsRight(Good), CInv(Good), ~was_cut, NEW p \in Procs,
         pc[p] \in {"promote", "configure"}, text[p] # None, Valid(text[p])
  PROVE  /\ Costs(text[p]) =
              [Costs(src[p]) EXCEPT ![args[p].interface] = args[p].cost]
         /\ DOMAIN Costs(src[p]) = Ifaces
<1>1. text[p] = Edited(p).text /\ Edited(p).ok /\ src[p] \in Good
  BY DEF CInv, UnderWay, AllGood, Derived
<1>2. /\ args[p].interface \in Ifaces /\ args[p].cost \in CostArgs
      /\ ValidCost(args[p].cost)
  BY DEF CInv, Admitted
<1> QED
  BY <1>1, <1>2 DEF EditsRight, Edited

LEMMA KeepsStep ==
  ASSUME NEW Good, EditsRight(Good), CInv(Good), NEW p \in Procs,
         \/ \E i \in Ifaces, c \in CostArgs : Call(p, i, c)
         \/ Step(p) \/ Kill(p)
  PROVE  RuntimeKeeps' /\ SourceKeeps'
<1> DEFINE RK == \A i \in Ifaces :
             /\ kept[i] # 0
             /\ \A q \in Procs : pc[q] = "configure" => args[q].interface # i
             => runtime # None /\ Costs(runtime)[i] = kept[i]
           SK == \A q \in Procs : pc[q] \in {"write", "check", "promote"} =>
             \A i \in Ifaces : kept[i] # 0 => Costs(src[q])[i] = kept[i]
<1>1. ~was_cut' => ~was_cut
  BY DEF Step, Call, Lock, Read, Write, Check, Promote, Configure, Kill, count,
         Unreachable, Answers, Cut
<1> SUFFICES ASSUME ~was_cut' PROVE RK' /\ SK'
  BY DEF RuntimeKeeps, SourceKeeps
<1>2. ~was_cut /\ RK /\ SK
  BY <1>1 DEF CInv, RuntimeKeeps, SourceKeeps
<1>3. /\ Where /\ LockHeld /\ Admitted /\ IInv
      /\ DOMAIN pc = Procs /\ DOMAIN args = Procs /\ DOMAIN src = Procs
      /\ DOMAIN kept = Ifaces
  BY DEF CInv, IInv, Where, Admitted
<1>4. ASSUME NEW q \in Procs, q # p
      PROVE  pc'[q] = pc[q] /\ args'[q] = args[q] /\ src'[q] = src[q]
  BY <1>3, <1>4, OthersStay
<1>5. CASE \/ \E i \in Ifaces, c \in CostArgs : Call(p, i, c)
           \/ Lock(p) \/ Write(p) \/ Check(p)
  <2>1. UNCHANGED <<runtime, kept>>
    BY <1>5 DEF Call, Lock, Write, Check, files
  <2>2. pc[p] # "configure" /\ pc'[p] # "configure"
    BY <1>3, <1>5 DEF Call, Lock, Write, Check, Goto, Return
  <2>3. pc'[p] \in {"write", "check", "promote"} =>
          src'[p] = src[p] /\ pc[p] \in {"write", "check", "promote"}
    BY <1>3, <1>5 DEF Call, Lock, Write, Check, Goto, Return, local
  <2> QED
    BY <1>2, <1>4, <2>1, <2>2, <2>3
<1>6. CASE Read(p)
  <2>1. UNCHANGED <<runtime, kept>> /\ pc[p] = "read"
    BY <1>6 DEF Read, files
  <2>2. pc'[p] # "configure"
    BY <1>3, <1>6 DEF Read, Goto, Return
  <2>3. pc'[p] \in {"write", "check", "promote"} => src'[p] = Source
    BY <1>3, <1>6 DEF Read, Goto, Return
  <2>4. \A q \in Procs : pc[q] # "configure"
    BY <1>3, <2>1, OneHolder
  <2>5. \A i \in Ifaces : kept[i] # 0 => Costs(Source)[i] = kept[i]
    BY <1>2, <2>4 DEF Source
  <2> QED
    BY <1>2, <1>4, <2>1, <2>2, <2>3, <2>5
<1>7. CASE Promote(p)
  <2>1. UNCHANGED <<kept, args, src>> /\ pc[p] = "promote"
    BY <1>7 DEF Promote, Return, local
  <2>2. CASE runtime' = runtime /\ pc'[p] = "idle"
    <3> QED
      BY <1>2, <1>4, <2>1, <2>2
  <2>3. CASE runtime' = next /\ next # None /\ pc'[p] = "configure"
    <3>1. next = text[p] /\ Valid(next)
      BY <1>2, <2>1, <2>3 DEF CInv, IInv, UnderWay, NextChecked
    <3>2. /\ Costs(next) =
               [Costs(src[p]) EXCEPT ![args[p].interface] = args[p].cost]
          /\ DOMAIN Costs(src[p]) = Ifaces
      BY <1>2, <2>1, <2>3, <3>1, EditCosts
    <3>3. ASSUME NEW i \in Ifaces, kept[i] # 0, args[p].interface # i
          PROVE  Costs(next)[i] = kept[i]
      BY <1>2, <2>1, <3>2, <3>3
    <3>4. RK'
      BY <2>1, <2>3, <3>3
    <3>5. SK'
      BY <1>2, <1>4, <2>1, <2>3
    <3> QED
      BY <3>4, <3>5
  <2> QED
    BY <1>3, <1>7, <2>2, <2>3 DEF Promote, Goto, Return
<1>8. CASE Configure(p)
  <2>1. runtime' = runtime /\ pc[p] = "configure" /\ pc'[p] = "idle"
    BY <1>3, <1>8 DEF Configure, Return, Goto, files
  <2>2. \A q \in Procs : q # p => pc[q] \in {"idle", "lock"}
    BY <1>3, <2>1, OneHolder
  <2>3. SK'
    BY <1>4, <2>1, <2>2
  <2>4. /\ args[p].interface \in Ifaces /\ args[p].cost \in CostArgs
        /\ ValidCost(args[p].cost)
    BY <1>3, <2>1 DEF Admitted
  <2>5. CASE Remember(p, 0)
    <3>1. kept' = [kept EXCEPT ![args[p].interface] = 0]
      BY <2>5 DEF Remember
    <3>2. ASSUME NEW i \in Ifaces, kept'[i] # 0
          PROVE  runtime' # None /\ Costs(runtime')[i] = kept'[i]
      <4>1. i # args[p].interface /\ kept'[i] = kept[i]
        BY <1>3, <2>4, <3>1, <3>2
      <4>2. \A q \in Procs : pc[q] = "configure" => q = p
        BY <2>2
      <4> QED
        BY <1>2, <2>1, <3>2, <4>1, <4>2
    <3> QED
      BY <2>3, <3>2
  <2>6. CASE /\ runtime # None /\ Valid(runtime)
             /\ Remember(p, args[p].cost)
    <3>1. runtime = text[p]
      BY <2>1, <2>6 DEF CInv, UnderWay
    <3>2. /\ Costs(runtime) =
               [Costs(src[p]) EXCEPT ![args[p].interface] = args[p].cost]
          /\ DOMAIN Costs(src[p]) = Ifaces
      BY <1>2, <2>1, <2>6, <3>1, EditCosts
    <3>3. Costs(runtime)[args[p].interface] = args[p].cost
      BY <2>4, <3>2
    <3>4. RK'
      BY <1>2, <1>3, <2>1, <2>2, <2>4, <2>6, <3>3 DEF Remember
    <3> QED
      BY <2>3, <3>4
  <2>7. \/ Remember(p, 0)
        \/ /\ runtime # None /\ Valid(runtime)
           /\ Remember(p, args[p].cost)
    BY <1>8 DEF Configure
  <2> QED
    BY <2>3, <2>5, <2>6, <2>7
<1>9. CASE Kill(p)
  <2>1. runtime' = runtime /\ args' = args /\ src' = src /\ pc'[p] = "idle"
    BY <1>3, <1>9 DEF Kill, files, local, Goto
  <2>2. CASE pc[p] = "configure"
    <3>1. Remember(p, 0) /\ args[p].interface \in Ifaces
      BY <1>3, <1>9, <2>2 DEF Kill, Admitted
    <3>2. \A q \in Procs : q # p => pc[q] \in {"idle", "lock"}
      BY <1>3, <2>2, OneHolder
    <3> QED
      BY <1>2, <1>3, <1>4, <2>1, <2>2, <3>1, <3>2 DEF Remember
  <2>3. CASE pc[p] # "configure"
    <3>1. kept' = kept
      BY <1>9, <2>3 DEF Kill
    <3> QED
      BY <1>2, <1>4, <2>1, <2>3, <3>1
  <2> QED
    BY <2>2, <2>3
<1> QED
  BY <1>5, <1>6, <1>7, <1>8, <1>9 DEF Step

LEMMA EnvironmentCInv ==
  ASSUME NEW Good, CInv(Good), Edit \/ Sighup \/ Forget \/ Down \/ Start
  PROVE  CInv(Good)'
<1>1. UNCHANGED <<pc, lock, next, was_cut, args, src, text, code>>
  BY DEF Edit, Sighup, Forget, Down, Start, files, bird, count, local
<1>2. \/ runtime' = runtime /\ kept' = kept
      \/ runtime' = None /\ kept' = NoCosts
  BY DEF Edit, Sighup, Forget, Down, Start, files
<1>3. default' \in Texts
  BY DEF CInv, AllGood, Edit, Sighup, Forget, Down, Start, files
<1>4. IInv'
  BY EnvironmentIInv DEF CInv
<1>5. Admitted' /\ UnderWay'
  BY <1>1, <1>2 DEF CInv, Admitted, UnderWay, Derived, Edited, NoCosts
<1>6. AllGood(Good)'
  BY <1>1, <1>2, <1>3 DEF CInv, AllGood
<1>7. RuntimeKeeps' /\ SourceKeeps'
  BY <1>1, <1>2 DEF CInv, RuntimeKeeps, SourceKeeps, NoCosts
<1> QED
  BY <1>4, <1>5, <1>6, <1>7 DEF CInv

LEMMA NextCInv ==
  ASSUME NEW Good, EditsRight(Good), CInv(Good), [Next]_vars
  PROVE  CInv(Good)'
<1>1. IInv'
  BY NextIInv DEF CInv
<1>2. ASSUME NEW p \in Procs,
             \/ \E i \in Ifaces, c \in CostArgs : Call(p, i, c)
             \/ Step(p) \/ Kill(p)
      PROVE  CInv(Good)'
  <2>1. Admitted'
    BY <1>2, AdmittedStep DEF CInv
  <2>2. UnderWay'
    BY <1>2, UnderWayStep DEF CInv
  <2>3. AllGood(Good)'
    BY <1>2, AllGoodStep
  <2>4. RuntimeKeeps' /\ SourceKeeps'
    BY <1>2, KeepsStep
  <2> QED
    BY <1>1, <2>1, <2>2, <2>3, <2>4 DEF CInv
<1>3. CASE Edit \/ Sighup \/ Forget \/ Down \/ Start
  BY <1>3, EnvironmentCInv
<1>4. CASE UNCHANGED vars
  <2>1. UNCHANGED <<pc, args, src, text, code, kept, next, runtime, default,
                    was_cut>>
    BY <1>4 DEF vars, files, local, count
  <2>2. Admitted' /\ UnderWay' /\ AllGood(Good)'
    BY <2>1 DEF CInv, Admitted, UnderWay, AllGood, Derived, Edited
  <2>3. RuntimeKeeps' /\ SourceKeeps'
    BY <2>1 DEF CInv, RuntimeKeeps, SourceKeeps
  <2> QED
    BY <1>1, <2>2, <2>3 DEF CInv
<1> QED
  BY <1>2, <1>3, <1>4 DEF Next

(* A call that returns 0 has had BIRD load the text it derived.            *)
LEMMA SuccessLoads ==
  ASSUME NEW Good, EditsRight(Good), CInv(Good), [Next]_vars,
         NEW p \in Procs, Succeeds(p), ~was_cut'
  PROVE  /\ ~was_cut /\ pc[p] = "configure"
         /\ up' /\ active' = runtime /\ runtime = text[p]
         /\ runtime # None /\ Valid(runtime)
<1>1. ~was_cut
  BY DEF Next, Step, Call, Lock, Read, Write, Check, Promote, Configure, Kill,
         count, Unreachable, Answers, Cut, Edit, Sighup, Forget, Down, Start,
         vars
<1>2. /\ DOMAIN code = Procs /\ IInv /\ Admitted
  BY DEF CInv, Admitted
<1>3. code'[p] # code[p]
  BY DEF Succeeds
<1>4. ASSUME NEW q \in Procs,
             \/ \E i \in Ifaces, c \in CostArgs : Call(q, i, c)
             \/ Step(q) \/ Kill(q)
      PROVE  q = p
  BY <1>2, <1>3, <1>4, OthersStay
<1>5. \/ \E i \in Ifaces, c \in CostArgs : Call(p, i, c)
      \/ Step(p) \/ Kill(p)
  <2>1. code' # code
    BY <1>3
  <2>2. ~(Edit \/ Sighup \/ Forget \/ Down \/ Start \/ UNCHANGED vars)
    BY <2>1 DEF Edit, Sighup, Forget, Down, Start, local, vars
  <2> QED
    BY <1>4, <2>2 DEF Next
<1>6. Configure(p)
  BY <1>2, <1>3, <1>5 DEF Succeeds, Step, Call, Lock, Read, Write, Check,
     Promote, Kill, Return, local
<1>7. /\ pc[p] = "configure" /\ up' /\ active' = runtime
      /\ runtime # None /\ Valid(runtime)
  BY <1>2, <1>6 DEF Configure, Succeeds, Return, Unreachable, Answers, Cut
<1>8. runtime = text[p]
  BY <1>7 DEF CInv, UnderWay
<1> QED
  BY <1>1, <1>7, <1>8

LEMMA SpecCInv ==
  ASSUME TextsLaid
  PROVE  Spec => []CInv(Laid)
<1>1. EditsRight(Laid)
  BY LaidRight
<1>2. Init => CInv(Laid)
  BY <1>1, InitCInv
<1>3. CInv(Laid) /\ [Next]_vars => CInv(Laid)'
  BY <1>1, NextCInv
<1> QED
  BY <1>2, <1>3, PTL DEF Spec

(* A call that returns 0 has brought BIRD to the costs of the text it read *)
(* with the one of its interface changed, whoever edits, reloads or        *)
(* restarts in between, as long as BIRD exits in no exchange.              *)
THEOREM AppliesAlways ==
  ASSUME TextsLaid
  PROVE  Spec => Applies
<1> DEFINE A == \A p \in Procs : Succeeds(p) /\ ~was_cut' =>
              up' /\ Costs(active') =
                 [Costs(src[p]) EXCEPT ![args[p].interface] = args[p].cost]
<1>1. CInv(Laid) /\ [Next]_vars => [A]_vars
  <2> SUFFICES ASSUME CInv(Laid), [Next]_vars, NEW p \in Procs, Succeeds(p),
                      ~was_cut'
               PROVE  up' /\ Costs(active') =
                 [Costs(src[p]) EXCEPT ![args[p].interface] = args[p].cost]
    OBVIOUS
  <2>1. EditsRight(Laid)
    BY LaidRight
  <2>2. /\ ~was_cut /\ pc[p] = "configure"
        /\ up' /\ active' = runtime /\ runtime = text[p]
        /\ runtime # None /\ Valid(runtime)
    BY <2>1, SuccessLoads
  <2>3. Costs(text[p]) = [Costs(src[p]) EXCEPT ![args[p].interface] = args[p].cost]
    BY <2>1, <2>2, EditCosts
  <2> QED
    BY <2>2, <2>3
<1>2. Spec => []CInv(Laid)
  BY SpecCInv
<1> QED
  BY <1>1, <1>2, PTL DEF Spec, Applies

(* A call that returns 0 keeps the costs that earlier calls set on the     *)
(* other interfaces.                                                       *)
THEOREM CarriedOverAlways ==
  ASSUME TextsLaid
  PROVE  Spec => CarriedOver
<1> DEFINE A == \A p \in Procs : Succeeds(p) /\ ~was_cut' =>
              \A i \in Ifaces \ {args[p].interface} :
                kept[i] # 0 => Costs(active')[i] = kept[i]
<1>1. CInv(Laid) /\ [Next]_vars => [A]_vars
  <2> SUFFICES ASSUME CInv(Laid), [Next]_vars, NEW p \in Procs, Succeeds(p),
                      ~was_cut',
                      NEW i \in Ifaces \ {args[p].interface}, kept[i] # 0
               PROVE  Costs(active')[i] = kept[i]
    OBVIOUS
  <2>1. /\ ~was_cut /\ pc[p] = "configure" /\ active' = runtime
    BY LaidRight, SuccessLoads
  <2>2. \A q \in Procs : pc[q] = "configure" => q = p
    BY <2>1, OneHolder DEF CInv, IInv
  <2>3. Costs(runtime)[i] = kept[i]
    BY <2>1, <2>2 DEF CInv, RuntimeKeeps
  <2> QED
    BY <2>1, <2>3
<1>2. Spec => []CInv(Laid)
  BY SpecCInv
<1> QED
  BY <1>1, <1>2, PTL DEF Spec, CarriedOver

=============================================================================
