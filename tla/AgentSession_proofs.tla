------------------------ MODULE AgentSession_proofs -------------------------
(***************************************************************************)
(* Theorems about AgentSession, for every number of sessions and of tries, *)
(* every set of faults, and whatever is in the channels.                   *)
(***************************************************************************)
EXTENDS AgentSession, TLAPS, SequenceTheorems

Commands == {"guest-sync-delimited", "guest-fsfreeze-status",
             "guest-fsfreeze-freeze", "guest-fsfreeze-thaw"}
Values   == {"sync", "parse", "thawed", "frozen", "count", "refused"}

Request == [id : Nat, cmd : Commands]
Answer  == [id : Nat, ok : BOOLEAN, return : Values]

(* The request each waiting step has sent.                                 *)
Expected ==
  [status |-> "guest-fsfreeze-status", stale  |-> "guest-fsfreeze-thaw",
   freeze |-> "guest-fsfreeze-freeze", thaw   |-> "guest-fsfreeze-thaw"]

(***************************************************************************)
(* The inductive invariant.                                                *)
(*                                                                         *)
(* The channels hold requests and answers, and the counts are bounded.     *)
(***************************************************************************)
ChannelType == requests \in Seq(Request) /\ replies \in Seq(Answer)

TriesBound ==
  /\ pc = "sync" => tries < SyncTries
  /\ pc \in {"status", "stale", "freeze", "snapshot"} => tries = 0
  /\ pc = "thaw" => tries < ThawTries

(* Messages are in the order of the requests they belong to, those in the  *)
(* answering channel before those in the other, and of the answers to one  *)
(* request that of a sync is the last.                                     *)
InOrder(q, a, n) ==
  /\ \A i \in 1..Len(q) : q[i].id \in 1..n
  /\ \A i \in 1..Len(a) : a[i].id \in 1..n
  /\ \A i, j \in 1..Len(q) : i < j => q[i].id < q[j].id
  /\ \A i \in 1..Len(a), j \in 1..Len(q) : a[i].id < q[j].id
  /\ \A i, j \in 1..Len(a) :
       i < j => /\ a[i].id <= a[j].id
                /\ a[i].return = "sync" => a[i].id < a[j].id

Ordered == InOrder(requests, replies, sent)

(* While a step of a session in step waits, the channels hold its request, *)
(* or one answer to it, or nothing.                                        *)
Alone ==
  pc \in Waiting /\ ~late =>
    /\ Len(requests) + Len(replies) <= 1
    /\ \A i \in 1..Len(requests) :
         requests[i].id = sent /\ requests[i].cmd = Expected[pc]
    /\ \A i \in 1..Len(replies) : replies[i].id = sent

(* Between two steps, and after a session that froze the guest, nothing is *)
(* left.                                                                   *)
Quiet ==
  (pc = "snapshot" \/ (pc = "closed" /\ frozen)) /\ ~late =>
    requests = <<>> /\ replies = <<>>

(* An answer that is not an error tells what the guest now does.           *)
Truthful ==
  ~late =>
    /\ pc = "freeze" => \A i \in 1..Len(replies) : replies[i].ok => guest = "frozen"
    /\ pc = "thaw" => \A i \in 1..Len(replies) : replies[i].ok => guest = "thawed"

FrozenLate == frozen => pc \in {"snapshot", "thaw", "closed", "killed"}

IInv ==
  /\ TypeOK /\ ChannelType /\ TriesBound /\ Ordered /\ Alone /\ Quiet /\ Truthful
  /\ FrozenLate /\ FrozenSnapshotInTime /\ ThawedAtEnd

-----------------------------------------------------------------------------
(* The channels.                                                           *)

(* A request that is sent comes last.                                      *)
LEMMA RequestSent ==
  ASSUME NEW q \in Seq(Request), NEW a \in Seq(Answer), NEW n \in Nat,
         InOrder(q, a, n), NEW c \in Commands
  PROVE  LET m == [id |-> n + 1, cmd |-> c]
             r == Append(q, m)
         IN  /\ r \in Seq(Request) /\ Len(r) = Len(q) + 1
             /\ \A i \in 1..Len(q) : r[i] = q[i]
             /\ r[Len(q) + 1] = m
             /\ InOrder(r, a, n + 1)
<1> DEFINE m == [id |-> n + 1, cmd |-> c]
           r == Append(q, m)
<1>1. m \in Request /\ m.id = n + 1
  BY DEF Request
<1> HIDE DEF m
<1>2. /\ r \in Seq(Request) /\ Len(r) = Len(q) + 1
      /\ \A i \in 1..Len(q) : r[i] = q[i]
      /\ r[Len(q) + 1] = m
  BY <1>1, AppendProperties
<1> HIDE DEF r
<1>3. Len(q) \in Nat /\ Len(a) \in Nat
  BY LenProperties
<1>4. \A i \in 1..Len(r) : i \in 1..Len(q) \/ i = Len(q) + 1
  BY <1>2, <1>3
<1>5. \A i \in 1..Len(r) : r[i].id \in 1..n + 1
  BY <1>1, <1>2, <1>4 DEF InOrder
<1>6. \A i \in 1..Len(a) : a[i].id \in 1..n + 1
  BY DEF InOrder
<1>7. ASSUME NEW i \in 1..Len(r), NEW j \in 1..Len(r), i < j
      PROVE  r[i].id < r[j].id
  BY <1>1, <1>2, <1>3, <1>4, <1>7 DEF InOrder
<1>8. ASSUME NEW i \in 1..Len(a), NEW j \in 1..Len(r)
      PROVE  a[i].id < r[j].id
  BY <1>1, <1>2, <1>4 DEF InOrder
<1>9. InOrder(r, a, n + 1)
  BY <1>5, <1>6, <1>7, <1>8 DEF InOrder
<1> QED
  BY <1>2, <1>9 DEF m, r

(* Taking the first message of a channel.                                  *)
LEMMA FirstTaken ==
  ASSUME NEW S, NEW s \in Seq(S), s # <<>>
  PROVE  /\ Len(s) \in Nat \ {0} /\ Head(s) = s[1] /\ Head(s) \in S
         /\ Tail(s) \in Seq(S) /\ Len(Tail(s)) = Len(s) - 1
         /\ \A i \in 1..Len(Tail(s)) : i + 1 \in 1..Len(s) /\ Tail(s)[i] = s[i + 1]
<1>1. Len(s) \in Nat \ {0}
  BY EmptySeq, LenProperties
<1>2. Head(s) = s[1]
  OBVIOUS
<1> QED
  BY <1>1, <1>2, HeadTailProperties

LEMMA AnswerTaken ==
  ASSUME NEW q \in Seq(Request), NEW a \in Seq(Answer), NEW n \in Nat,
         InOrder(q, a, n), a # <<>>
  PROVE  InOrder(q, Tail(a), n)
<1>1. /\ Len(a) \in Nat \ {0} /\ Len(Tail(a)) = Len(a) - 1
      /\ \A i \in 1..Len(Tail(a)) : i + 1 \in 1..Len(a) /\ Tail(a)[i] = a[i + 1]
  BY FirstTaken
<1> DEFINE t == Tail(a)
<1> HIDE DEF t
<1>2. \A i \in 1..Len(t) : i + 1 \in 1..Len(a) /\ t[i] = a[i + 1]
  BY <1>1 DEF t
<1>3. \A i \in 1..Len(t) : t[i].id \in 1..n
  BY <1>2 DEF InOrder
<1>4. \A i \in 1..Len(t), j \in 1..Len(q) : t[i].id < q[j].id
  BY <1>2 DEF InOrder
<1>5. ASSUME NEW i \in 1..Len(t), NEW j \in 1..Len(t), i < j
      PROVE  /\ t[i].id <= t[j].id
             /\ t[i].return = "sync" => t[i].id < t[j].id
  <2>1. i + 1 < j + 1
    BY <1>1, <1>5 DEF t
  <2> QED
    BY <1>2, <2>1 DEF InOrder
<1>6. InOrder(q, t, n)
  BY <1>3, <1>4, <1>5 DEF InOrder
<1> QED
  BY <1>6 DEF t

LEMMA RequestTaken ==
  ASSUME NEW q \in Seq(Request), NEW a \in Seq(Answer), NEW n \in Nat,
         InOrder(q, a, n), q # <<>>
  PROVE  InOrder(Tail(q), a, n)
<1>1. /\ Len(q) \in Nat \ {0} /\ Len(Tail(q)) = Len(q) - 1
      /\ \A i \in 1..Len(Tail(q)) : i + 1 \in 1..Len(q) /\ Tail(q)[i] = q[i + 1]
  BY FirstTaken
<1> DEFINE t == Tail(q)
<1> HIDE DEF t
<1>2. \A i \in 1..Len(t) : i + 1 \in 1..Len(q) /\ t[i] = q[i + 1]
  BY <1>1 DEF t
<1>3. \A i \in 1..Len(t) : t[i].id \in 1..n
  BY <1>2 DEF InOrder
<1>4. \A i \in 1..Len(a), j \in 1..Len(t) : a[i].id < t[j].id
  BY <1>2 DEF InOrder
<1>5. ASSUME NEW i \in 1..Len(t), NEW j \in 1..Len(t), i < j
      PROVE  t[i].id < t[j].id
  <2>1. i + 1 < j + 1
    BY <1>1, <1>5 DEF t
  <2> QED
    BY <1>2, <2>1 DEF InOrder
<1>6. InOrder(t, a, n)
  BY <1>3, <1>4, <1>5 DEF InOrder
<1> QED
  BY <1>6 DEF t

(* The agent's answers to the first request take its place at the end of   *)
(* the other channel.                                                      *)
LEMMA RequestAnswered ==
  ASSUME NEW q \in Seq(Request), NEW a \in Seq(Answer), NEW n \in Nat,
         InOrder(q, a, n), q # <<>>, NEW b \in Seq(Answer),
         \A i \in 1..Len(b) : b[i].id = Head(q).id,
         \A i, j \in 1..Len(b) : i < j => b[i].return # "sync"
  PROVE  a \o b \in Seq(Answer) /\ InOrder(Tail(q), a \o b, n)
<1> DEFINE t == Tail(q)
           c == a \o b
<1>1. /\ Len(q) \in Nat \ {0} /\ Len(t) = Len(q) - 1 /\ Head(q) = q[1]
      /\ \A i \in 1..Len(t) : i + 1 \in 1..Len(q) /\ t[i] = q[i + 1]
  BY FirstTaken
<1>2. /\ c \in Seq(Answer) /\ Len(c) = Len(a) + Len(b)
      /\ \A i \in 1..Len(c) :
           c[i] = IF i <= Len(a) THEN a[i] ELSE b[i - Len(a)]
  BY ConcatProperties
<1>3. Len(a) \in Nat /\ Len(b) \in Nat
  BY LenProperties
<1>4. InOrder(t, a, n)
  BY RequestTaken
<1> HIDE DEF t, c
<1>5. 1 \in 1..Len(q) /\ q[1].id \in 1..n
  BY <1>1 DEF InOrder
<1>6. ASSUME NEW i \in 1..Len(c)
      PROVE  \/ i \in 1..Len(a) /\ c[i] = a[i] /\ c[i].id \in 1..n /\ c[i].id < q[1].id
             \/ /\ i \notin 1..Len(a) /\ i - Len(a) \in 1..Len(b)
                /\ c[i] = b[i - Len(a)] /\ c[i].id = q[1].id
  <2>1. CASE i <= Len(a)
    <3>1. i \in 1..Len(a) /\ c[i] = a[i]
      BY <1>2, <1>3, <2>1
    <3> QED
      BY <1>5, <3>1 DEF InOrder
  <2>2. CASE ~(i <= Len(a))
    <3>1. i \notin 1..Len(a) /\ i - Len(a) \in 1..Len(b)
      BY <1>2, <1>3, <2>2
    <3>2. c[i] = b[i - Len(a)]
      BY <1>2, <2>2
    <3> QED
      BY <1>1, <3>1, <3>2
  <2> QED
    BY <2>1, <2>2
<1>7. \A i \in 1..Len(c) : c[i].id \in 1..n
  BY <1>5, <1>6
<1>8. ASSUME NEW i \in 1..Len(c), NEW j \in 1..Len(t)
      PROVE  c[i].id < t[j].id
  <2>1. j + 1 \in 1..Len(q) /\ t[j] = q[j + 1] /\ 1 < j + 1
    BY <1>1
  <2>2. q[1].id < q[j + 1].id
    BY <1>5, <2>1 DEF InOrder
  <2>3. c[i].id <= q[1].id
    BY <1>5, <1>6
  <2>4. q[j + 1].id \in 1..n
    BY <2>1 DEF InOrder
  <2> QED
    BY <1>5, <1>7, <2>1, <2>2, <2>3, <2>4
<1>9. ASSUME NEW i \in 1..Len(c), NEW j \in 1..Len(c), i < j
      PROVE  /\ c[i].id <= c[j].id
             /\ c[i].return = "sync" => c[i].id < c[j].id
  <2>1. CASE i \in 1..Len(a) /\ j \in 1..Len(a)
    <3>1. c[i] = a[i] /\ c[j] = a[j]
      BY <1>2, <1>3, <2>1
    <3> QED
      BY <1>9, <2>1, <3>1 DEF InOrder
  <2>2. CASE i \in 1..Len(a) /\ j \notin 1..Len(a)
    BY <1>5, <1>6, <2>2
  <2>3. CASE i \notin 1..Len(a)
    <3>1. j \notin 1..Len(a) /\ i - Len(a) < j - Len(a)
      BY <1>2, <1>3, <1>9, <2>3
    <3>2. /\ i - Len(a) \in 1..Len(b) /\ j - Len(a) \in 1..Len(b)
          /\ c[i] = b[i - Len(a)] /\ c[i].id = q[1].id /\ c[j].id = q[1].id
      BY <1>6, <2>3, <3>1
    <3> QED
      BY <1>5, <3>1, <3>2
  <2> QED
    BY <2>1, <2>2, <2>3
<1>10. InOrder(t, c, n)
  BY <1>4, <1>7, <1>8, <1>9 DEF InOrder
<1> QED
  BY <1>2, <1>10 DEF t, c

(* The answer to the last request, a sync, is the last message there is.   *)
LEMMA SyncedLast ==
  ASSUME NEW q \in Seq(Request), NEW a \in Seq(Answer), NEW n \in Nat,
         InOrder(q, a, n), a # <<>>, a[1].return = "sync", a[1].id = n
  PROVE  q = <<>> /\ Tail(a) = <<>>
<1>1. /\ Len(a) \in Nat \ {0} /\ Len(q) \in Nat /\ Tail(a) \in Seq(Answer)
      /\ Len(Tail(a)) = Len(a) - 1 /\ 1 \in 1..Len(a)
  BY FirstTaken, LenProperties
<1>2. ASSUME q # <<>> PROVE FALSE
  <2>1. 1 \in 1..Len(q)
    BY <1>2, FirstTaken
  <2>2. a[1].id < q[1].id /\ q[1].id \in 1..n
    BY <1>1, <2>1 DEF InOrder
  <2> QED
    BY <2>2
<1>3. ASSUME Tail(a) # <<>> PROVE FALSE
  <2>1. Len(Tail(a)) \in Nat \ {0}
    BY <1>1, <1>3, FirstTaken
  <2>2. 2 \in 1..Len(a) /\ 1 < 2
    BY <1>1, <2>1
  <2>3. a[1].id < a[2].id /\ a[2].id \in 1..n
    BY <1>1, <2>2 DEF InOrder
  <2> QED
    BY <2>3
<1> QED
  BY <1>2, <1>3

(* What the agent answers, and the guest g that it leaves.                 *)
Answered(cmd, r, g) ==
  \/ cmd = "guest-fsfreeze-status" /\ r.ok /\ r.return = guest /\ g = guest
  \/ cmd = "guest-fsfreeze-freeze" /\ r.ok /\ guest = "thawed" /\ g = "frozen"
  \/ cmd = "guest-fsfreeze-thaw" /\ r.ok /\ g = "thawed"
  \/ cmd \in {"guest-fsfreeze-freeze", "guest-fsfreeze-thaw"} /\ ~r.ok /\ g = guest

LEMMA AgentAnswers ==
  ASSUME chatty \in BOOLEAN, guest \in {"thawed", "frozen"},
         NEW q \in Request, NEW o \in Outcome(q) \cup Refusal(q)
  PROVE  /\ o.guest \in {"thawed", "frozen"} /\ o.replies \in Seq(Answer)
         /\ \A i \in 1..Len(o.replies) : o.replies[i].id = q.id
         /\ \A i, j \in 1..Len(o.replies) : i < j => o.replies[i].return # "sync"
         /\ q.cmd # "guest-sync-delimited" => Len(o.replies) = 1
         /\ q.cmd # "guest-sync-delimited" =>
              \A i \in 1..Len(o.replies) : Answered(q.cmd, o.replies[i], o.guest)
<1>1. q.id \in Nat /\ q.cmd \in Commands
  BY DEF Request
<1>2. \A ok \in BOOLEAN, v \in Values :
        /\ Reply(q.id, ok, v) \in Answer /\ Reply(q.id, ok, v).id = q.id
        /\ Reply(q.id, ok, v).ok = ok /\ Reply(q.id, ok, v).return = v
  BY <1>1 DEF Reply, Answer
<1> HIDE DEF Reply
<1>3. CASE q.cmd = "guest-sync-delimited"
  <2> DEFINE y == Reply(q.id, TRUE, "sync")
             e == Reply(q.id, FALSE, "parse")
  <2>1. /\ y \in Answer /\ y.id = q.id
        /\ e \in Answer /\ e.id = q.id /\ e.return = "parse"
    BY <1>2 DEF Values
  <2> HIDE DEF y, e
  <2>2. Refusal(q) = {}
    BY <1>3 DEF Refusal
  <2> DEFINE b == (IF chatty THEN <<e>> ELSE <<>>) \o <<y>>
  <2>3. Outcome(q) = {[guest |-> guest, replies |-> b]}
    BY <1>3 DEF Outcome, y, e
  <2> HIDE DEF b
  <2>4. o.guest = guest /\ o.replies = b
    BY <2>2, <2>3
  <2>5. CASE chatty
    <3>1. /\ <<e>> \in Seq(Answer) /\ <<y>> \in Seq(Answer)
          /\ Len(<<e>>) = 1 /\ Len(<<y>>) = 1 /\ <<e>>[1] = e /\ <<y>>[1] = y
      BY <2>1
    <3>2. b = <<e>> \o <<y>>
      BY <2>5 DEF b
    <3> DEFINE s == <<e>>
               u == <<y>>
    <3> HIDE DEF s, u
    <3>3. s \in Seq(Answer) /\ u \in Seq(Answer) /\ Len(s) = 1 /\ Len(u) = 1
          /\ s[1] = e /\ u[1] = y /\ b = s \o u
      BY <3>1, <3>2 DEF s, u
    <3>4. b \in Seq(Answer) /\ Len(b) = 2 /\ b[1] = e /\ b[2] = y
      BY <3>3, ConcatProperties
    <3> QED
      BY <1>3, <2>1, <2>4, <3>4
  <2>6. CASE ~chatty
    <3>1. o.replies = <<y>>
      BY <2>1, <2>4, <2>6, ConcatEmptySeq DEF b
    <3> QED
      BY <1>3, <2>1, <2>4, <3>1
  <2> QED
    BY <2>5, <2>6
<1>4. CASE q.cmd # "guest-sync-delimited"
  <2>1. \E ok \in BOOLEAN, v \in Values :
           /\ o.replies = <<Reply(q.id, ok, v)>>
           /\ o.guest \in {"thawed", "frozen"}
           /\ Answered(q.cmd, Reply(q.id, ok, v), o.guest)
    <3>1. CASE o \in Refusal(q)
      <4>1. /\ o = [guest |-> guest, replies |-> <<Reply(q.id, FALSE, "refused")>>]
            /\ q.cmd \in {"guest-fsfreeze-freeze", "guest-fsfreeze-thaw"}
        BY <3>1 DEF Refusal
      <4>2. FALSE \in BOOLEAN /\ "refused" \in Values
        BY DEF Values
      <4>3. Answered(q.cmd, Reply(q.id, FALSE, "refused"), o.guest)
        BY <1>2, <4>1, <4>2 DEF Answered
      <4> QED
        BY <4>1, <4>2, <4>3
    <3>2. CASE o \in Outcome(q) /\ q.cmd = "guest-fsfreeze-status"
      <4>1. o = [guest |-> guest, replies |-> <<Reply(q.id, TRUE, guest)>>]
        BY <3>2 DEF Outcome
      <4>2. TRUE \in BOOLEAN /\ guest \in Values
        BY DEF Values
      <4>3. Answered(q.cmd, Reply(q.id, TRUE, guest), o.guest)
        BY <1>2, <3>2, <4>1, <4>2 DEF Answered
      <4> QED
        BY <4>1, <4>2, <4>3
    <3>3. CASE o \in Outcome(q) /\ q.cmd = "guest-fsfreeze-freeze"
      <4>1. /\ o = [guest |-> "frozen", replies |-> <<Reply(q.id, TRUE, "count")>>]
            /\ guest = "thawed"
        BY <3>3 DEF Outcome
      <4>2. TRUE \in BOOLEAN /\ "count" \in Values
        BY DEF Values
      <4>3. Answered(q.cmd, Reply(q.id, TRUE, "count"), o.guest)
        BY <1>2, <3>3, <4>1, <4>2 DEF Answered
      <4> QED
        BY <4>1, <4>2, <4>3
    <3>4. CASE o \in Outcome(q) /\ q.cmd = "guest-fsfreeze-thaw"
      <4>1. o = [guest |-> "thawed", replies |-> <<Reply(q.id, TRUE, "count")>>]
        BY <3>4 DEF Outcome
      <4>2. TRUE \in BOOLEAN /\ "count" \in Values
        BY DEF Values
      <4>3. Answered(q.cmd, Reply(q.id, TRUE, "count"), o.guest)
        BY <1>2, <3>4, <4>1, <4>2 DEF Answered
      <4> QED
        BY <4>1, <4>2, <4>3
    <3> QED
      BY <1>1, <1>4, <3>1, <3>2, <3>3, <3>4 DEF Commands
  <2>2. PICK ok \in BOOLEAN, v \in Values :
           /\ o.replies = <<Reply(q.id, ok, v)>>
           /\ o.guest \in {"thawed", "frozen"}
           /\ Answered(q.cmd, Reply(q.id, ok, v), o.guest)
    BY <2>1
  <2> DEFINE r == Reply(q.id, ok, v)
  <2>3. r \in Answer /\ r.id = q.id /\ Answered(q.cmd, r, o.guest)
    BY <1>2, <2>2
  <2>4. o.replies = <<r>>
    BY <2>2
  <2> HIDE DEF r
  <2> QED
    BY <1>4, <2>2, <2>3, <2>4
<1> QED
  BY <1>3, <1>4

-----------------------------------------------------------------------------
(* Steps.                                                                  *)

(* What the order says of the ids, in the words of TypeOK.                 *)
LEMMA Ids ==
  ASSUME NEW q \in Seq(Request), NEW a \in Seq(Answer), NEW n \in Nat,
         InOrder(q, a, n)
  PROVE  /\ \A m \in Range(q) : m.id \in 1..n
         /\ \A m \in Range(a) : m.id \in 1..n /\ m.ok \in BOOLEAN
<1>1. /\ DOMAIN q = 1..Len(q) /\ DOMAIN a = 1..Len(a)
      /\ \A i \in 1..Len(a) : a[i] \in Answer
  BY LenProperties, ElementOfSeq
<1>2. \A m \in Answer : m.ok \in BOOLEAN
  BY DEF Answer
<1> QED
  BY <1>1, <1>2 DEF Range, InOrder

(* execute() takes an answer or times out.  While the session is in step,  *)
(* what it takes was the only message there was.                           *)
LEMMA Taken ==
  ASSUME IInv, NEW r \in Results, Result(r)
  PROVE  /\ r.ok \in BOOLEAN /\ late' \in BOOLEAN
         /\ replies' \in Seq(Answer) /\ InOrder(requests, replies', sent)
         /\ pc \in Waiting /\ ~late' =>
              /\ ~late /\ 1 \in 1..Len(replies) /\ r = replies[1]
              /\ requests = <<>> /\ replies' = <<>>
<1>1. requests \in Seq(Request) /\ replies \in Seq(Answer) /\ sent \in Nat
      /\ InOrder(requests, replies, sent) /\ late \in BOOLEAN
  BY DEF IInv, TypeOK, ChannelType, Ordered
<1>2. CASE replies = <<>>
  <2>1. r = NoReply /\ late' = TRUE /\ replies' = replies
    BY <1>2 DEF Result
  <2>2. r.ok = FALSE
    BY <2>1 DEF NoReply
  <2> QED
    BY <1>1, <2>1, <2>2
<1>3. CASE replies # <<>>
  <2>1. r = Head(replies) /\ replies' = Tail(replies) /\ late' = late
    BY <1>3 DEF Result
  <2>2. /\ Len(replies) \in Nat \ {0} /\ r = replies[1] /\ r \in Answer
        /\ replies' \in Seq(Answer) /\ Len(replies') = Len(replies) - 1
    BY <1>1, <1>3, <2>1, FirstTaken
  <2>3. InOrder(requests, replies', sent)
    BY <1>1, <1>3, <2>1, AnswerTaken
  <2>4. r.ok \in BOOLEAN
    BY <2>2 DEF Answer
  <2>5. ASSUME pc \in Waiting, ~late PROVE requests = <<>> /\ replies' = <<>>
    <3>1. Len(requests) + Len(replies) <= 1 /\ Len(requests) \in Nat
      BY <1>1, <2>5, LenProperties DEF IInv, Alone
    <3>2. Len(requests) = 0 /\ Len(replies') = 0
      BY <2>2, <3>1
    <3> QED
      BY <1>1, <2>2, <3>2, EmptySeq
  <2> QED
    BY <1>1, <2>1, <2>2, <2>3, <2>4, <2>5
<1> QED
  BY <1>2, <1>3

(* A step that sends a request into channels in order leaves them in order *)
(* and, when they were empty or the session is late, itself in step.       *)
LEMMA Waits ==
  ASSUME IInv, replies' \in Seq(Answer), InOrder(requests, replies', sent),
         late' \in BOOLEAN, ~late' => requests = <<>> /\ replies' = <<>>,
         pc' \in Waiting, Send(Expected[pc'])
  PROVE  sent' \in Nat /\ ChannelType' /\ Ordered' /\ Alone' /\ Quiet' /\ Truthful'
<1> DEFINE c == Expected[pc']
           m == [id |-> sent + 1, cmd |-> c]
<1>1. c \in Commands
  BY DEF Waiting, Expected, Commands
<1>2. requests \in Seq(Request) /\ sent \in Nat
  BY DEF IInv, TypeOK, ChannelType
<1>3. sent' = sent + 1 /\ requests' = Append(requests, m) /\ m.id = sent + 1 /\ m.cmd = c
  BY DEF Send
<1> HIDE DEF c
<1>4. /\ requests' \in Seq(Request) /\ Len(requests') = Len(requests) + 1
      /\ requests'[Len(requests) + 1] = m
      /\ InOrder(requests', replies', sent + 1)
  BY <1>1, <1>2, <1>3, RequestSent
<1> HIDE DEF m
<1>5. sent' \in Nat /\ ChannelType' /\ Ordered'
  BY <1>2, <1>3, <1>4 DEF ChannelType, Ordered
<1>6. ASSUME ~late'
      PROVE  Len(requests') = 1 /\ requests'[1] = m /\ Len(replies') = 0
  <2>1. Len(requests) = 0 /\ Len(replies') = 0
    BY <1>6
  <2> QED
    BY <1>4, <2>1
<1>7. Alone'
  BY <1>3, <1>6 DEF Alone, c
<1>8. Quiet'
  BY DEF Quiet, Waiting
<1>9. Truthful'
  BY <1>6 DEF Truthful
<1> QED
  BY <1>5, <1>7, <1>8, <1>9

LEMMA InitInv == Init => IInv
<1> SUFFICES ASSUME Init PROVE IInv
  OBVIOUS
<1>1. requests = <<>> /\ replies = <<>> /\ sent = 0
  BY DEF Init
<1>2. ChannelType
  BY <1>1 DEF ChannelType
<1>3. Ordered
  BY <1>1 DEF Ordered, InOrder
<1>4. 0 \in 0..SyncTries /\ 0 \in 0..MaxSessions /\ 0 \in Nat
  BY TriesAssumption, MaxSessionsAssumption
<1>5. TypeOK
  BY <1>1, <1>2, <1>3, <1>4, Ids DEF Init, TypeOK, ChannelType, Ordered
<1> QED
  BY <1>2, <1>3, <1>5 DEF Init, IInv, TriesBound, Alone, Quiet, Truthful, FrozenLate,
     FrozenSnapshotInTime, ThawedAtEnd, FrozenSnapshot, Waiting

(* Types that the channels do not matter for.                              *)
PlainType ==
  /\ pc \in {"closed", "killed", "sync", "snapshot"} \cup Waiting
  /\ tries \in 0..SyncTries \cup 0..ThawTries
  /\ frozen \in BOOLEAN /\ thaw_failed \in BOOLEAN /\ late \in BOOLEAN
  /\ sent \in Nat /\ sessions \in 0..MaxSessions
  /\ chatty \in BOOLEAN /\ guest \in {"thawed", "frozen"}

LEMMA TypeNext == PlainType' /\ ChannelType' /\ Ordered' => TypeOK'
BY Ids DEF PlainType, ChannelType, Ordered, TypeOK

(* What remains of the invariant when a step leads to one that waits.      *)
LEMMA WaitsInv ==
  ASSUME pc' \in Waiting, TypeOK', ChannelType', TriesBound', Ordered', Alone',
         Quiet', Truthful', frozen' => pc' = "thaw"
  PROVE  IInv'
BY DEF IInv, FrozenLate, FrozenSnapshotInTime, FrozenSnapshot, ThawedAtEnd, Waiting

LEMMA OpenInv == ASSUME IInv, Open PROVE IInv'
<1>1. requests \in Seq(Request) /\ replies \in Seq(Answer) /\ sent \in Nat
      /\ InOrder(requests, replies, sent)
  BY DEF IInv, TypeOK, ChannelType, Ordered
<1>2. "guest-sync-delimited" \in Commands
  BY DEF Commands
<1>3. /\ requests' = Append(requests, [id |-> sent + 1, cmd |-> "guest-sync-delimited"])
      /\ sent' = sent + 1 /\ replies' = replies
  BY DEF Open, Send
<1>4. ChannelType' /\ Ordered'
  BY <1>1, <1>2, <1>3, RequestSent DEF ChannelType, Ordered
<1>5. 0 \in 0..SyncTries /\ 0 < SyncTries
  BY TriesAssumption
<1>6. sessions' \in 0..MaxSessions
  BY MaxSessionsAssumption DEF IInv, TypeOK, Open
<1>7. PlainType'
  <2>1. sent' \in Nat /\ tries' \in 0..SyncTries
    BY <1>1, <1>3, <1>5 DEF Open
  <2>2. chatty' \in BOOLEAN /\ guest' \in {"thawed", "frozen"}
    BY DEF IInv, TypeOK, Open
  <2> QED
    BY <1>6, <2>1, <2>2 DEF PlainType, Open
<1>8. TypeOK'
  BY <1>4, <1>7, TypeNext
<1> QED
  BY <1>4, <1>5, <1>8 DEF Open, IInv, TriesBound, Alone, Quiet, Truthful, FrozenLate,
     FrozenSnapshotInTime, ThawedAtEnd, FrozenSnapshot, Waiting

(* After the answer to the sync nothing is left of earlier sessions.       *)
LEMMA SyncInv == ASSUME IInv, Sync PROVE IInv'
<1>1. requests \in Seq(Request) /\ replies \in Seq(Answer) /\ sent \in Nat
      /\ InOrder(requests, replies, sent) /\ replies # <<>>
  BY DEF IInv, TypeOK, ChannelType, Ordered, Sync
<1>2. /\ Head(replies) = replies[1] /\ replies' = Tail(replies)
      /\ replies' \in Seq(Answer) /\ InOrder(requests, replies', sent)
  BY <1>1, FirstTaken, AnswerTaken DEF Sync
<1>3. frozen = FALSE /\ frozen' = FALSE /\ late' = late /\ late \in BOOLEAN
  BY DEF Sync, IInv, TypeOK, FrozenLate
<1>4. UNCHANGED <<thaw_failed, sessions, chatty, guest>>
  BY DEF Sync
<1>5. tries \in Nat /\ tries < SyncTries /\ SyncTries \in Nat /\ ThawTries \in Nat
  BY TriesAssumption DEF IInv, TypeOK, TriesBound, Sync
<1>6. CASE Synced(Head(replies))
  <2>1. requests = <<>> /\ replies' = <<>>
    BY <1>1, <1>2, <1>6, SyncedLast DEF Synced
  <2>2. pc' = "status" /\ tries' = 0 /\ Send("guest-fsfreeze-status")
    BY <1>6 DEF Sync
  <2>3. pc' \in Waiting /\ Expected[pc'] = "guest-fsfreeze-status"
    BY <2>2 DEF Waiting, Expected
  <2>4. sent' \in Nat /\ ChannelType' /\ Ordered' /\ Alone' /\ Quiet' /\ Truthful'
    BY <1>2, <1>3, <2>1, <2>2, <2>3, Waits
  <2>5. tries' \in 0..SyncTries
    BY <1>5, <2>2
  <2>6. PlainType'
    BY <1>3, <1>4, <2>3, <2>4, <2>5 DEF IInv, TypeOK, PlainType
  <2>7. TriesBound'
    BY <2>2 DEF TriesBound
  <2> QED
    BY <1>3, <2>3, <2>4, <2>6, <2>7, TypeNext, WaitsInv
<1>7. CASE ~Synced(Head(replies))
  <2>1. /\ tries' = tries + 1 /\ UNCHANGED <<requests, sent>>
        /\ pc' = IF tries' = SyncTries THEN "closed" ELSE "sync"
    BY <1>7 DEF Sync, GiveUp
  <2>2. tries' \in 0..SyncTries /\ (pc' = "sync" => tries' < SyncTries)
    BY <1>5, <2>1
  <2>3. ChannelType' /\ Ordered'
    BY <1>1, <1>2, <2>1 DEF ChannelType, Ordered
  <2>4. pc' \in {"closed", "sync"}
    BY <2>1
  <2>5. PlainType'
    BY <1>1, <1>3, <1>4, <2>1, <2>2, <2>4 DEF IInv, TypeOK, PlainType
  <2>6. TypeOK'
    BY <2>3, <2>5, TypeNext
  <2>7. TriesBound'
    BY <2>2, <2>4 DEF TriesBound
  <2> QED
    BY <1>3, <2>3, <2>4, <2>6, <2>7 DEF IInv, Alone, Quiet, Truthful, FrozenLate,
       FrozenSnapshotInTime, ThawedAtEnd, FrozenSnapshot, Waiting
<1> QED
  BY <1>6, <1>7

(* A session that ends without having waited in step leaves the channels   *)
(* to the next one.                                                        *)
LEMMA EndInv == ASSUME IInv, SyncTimeout \/ Kill PROVE IInv'
<1>1. /\ UNCHANGED <<tries, frozen, thaw_failed, late, sent, sessions, channel, chatty, guest>>
      /\ \/ pc' = "closed" /\ pc = "sync"
         \/ pc' = "killed"
  BY DEF SyncTimeout, Kill
<1>2. frozen => pc # "sync"
  BY DEF IInv, FrozenLate
<1>3. ChannelType' /\ Ordered'
  BY <1>1 DEF IInv, ChannelType, Ordered, channel
<1>4. PlainType'
  BY <1>1 DEF IInv, TypeOK, PlainType
<1>5. TypeOK'
  BY <1>3, <1>4, TypeNext
<1> QED
  BY <1>1, <1>2, <1>3, <1>5 DEF IInv, TriesBound, Alone, Quiet, Truthful, FrozenLate,
     FrozenSnapshotInTime, ThawedAtEnd, FrozenSnapshot, Waiting

LEMMA AskInv == ASSUME IInv, Status \/ StaleThaw PROVE IInv'
<1>1. PICK r \in Results : Result(r)
  BY DEF Status, StaleThaw
<1>2. /\ late' \in BOOLEAN /\ replies' \in Seq(Answer)
      /\ InOrder(requests, replies', sent)
      /\ pc \in Waiting /\ ~late' => requests = <<>> /\ replies' = <<>>
  BY <1>1, Taken
<1>3. /\ pc \in Waiting /\ pc' \in {"stale", "freeze"}
      /\ Send(Expected[pc'])
      /\ UNCHANGED <<tries, frozen, thaw_failed, sessions, chatty, guest>>
  BY DEF Status, StaleThaw, Waiting, Expected
<1>4. pc' \in Waiting
  BY <1>3 DEF Waiting
<1>5. sent' \in Nat /\ ChannelType' /\ Ordered' /\ Alone' /\ Quiet' /\ Truthful'
  BY <1>2, <1>3, <1>4, Waits
<1>6. frozen = FALSE /\ tries = 0
  BY DEF Status, StaleThaw, IInv, TypeOK, FrozenLate, TriesBound
<1>7. PlainType'
  BY <1>2, <1>3, <1>4, <1>5 DEF IInv, TypeOK, PlainType
<1>8. TriesBound'
  BY <1>3, <1>6 DEF TriesBound
<1> QED
  BY <1>3, <1>4, <1>5, <1>6, <1>7, <1>8, TypeNext, WaitsInv

(* The answer that freeze() believes is the one to its request.            *)
LEMMA FreezeInv == ASSUME IInv, Freeze PROVE IInv'
<1>1. PICK r \in Results : Result(r) /\ frozen' = r.ok
  BY DEF Freeze
<1>2. /\ r.ok \in BOOLEAN /\ late' \in BOOLEAN /\ replies' \in Seq(Answer)
      /\ InOrder(requests, replies', sent)
      /\ pc \in Waiting /\ ~late' =>
           /\ ~late /\ 1 \in 1..Len(replies) /\ r = replies[1]
           /\ requests = <<>> /\ replies' = <<>>
  BY <1>1, Taken
<1>3. /\ pc = "freeze" /\ pc \in Waiting /\ pc' = "snapshot"
      /\ UNCHANGED <<tries, thaw_failed, sent, sessions, requests, chatty, guest>>
  BY DEF Freeze, Waiting
<1>4. ChannelType' /\ Ordered'
  BY <1>2, <1>3 DEF IInv, ChannelType, Ordered
<1>5. PlainType'
  BY <1>1, <1>2, <1>3 DEF IInv, TypeOK, PlainType
<1>6. TypeOK'
  BY <1>4, <1>5, TypeNext
<1>7. FrozenSnapshotInTime'
  <2> SUFFICES ASSUME ~late', frozen' PROVE guest = "frozen"
    BY <1>3 DEF FrozenSnapshotInTime, FrozenSnapshot
  <2> QED
    BY <1>1, <1>2, <1>3 DEF IInv, Truthful
<1>8. TriesBound' /\ Alone' /\ Quiet' /\ Truthful' /\ FrozenLate' /\ ThawedAtEnd'
  BY <1>2, <1>3 DEF IInv, TriesBound, Alone, Quiet, Truthful, FrozenLate, ThawedAtEnd,
     Waiting
<1> QED
  BY <1>4, <1>6, <1>7, <1>8 DEF IInv

LEMMA SnapshotInv == ASSUME IInv, Snapshot PROVE IInv'
<1>1. /\ pc = "snapshot"
      /\ UNCHANGED <<tries, frozen, thaw_failed, late, sessions, replies, chatty, guest>>
  BY DEF Snapshot
<1>2. /\ requests \in Seq(Request) /\ replies \in Seq(Answer)
      /\ InOrder(requests, replies, sent) /\ late \in BOOLEAN /\ tries = 0
      /\ ~late => requests = <<>> /\ replies = <<>>
  BY <1>1 DEF IInv, TypeOK, ChannelType, Ordered, Quiet, TriesBound
<1>3. CASE frozen
  <2>1. pc' = "thaw" /\ Send("guest-fsfreeze-thaw")
    BY <1>3 DEF Snapshot
  <2>2. pc' \in Waiting /\ Expected[pc'] = "guest-fsfreeze-thaw"
    BY <2>1 DEF Waiting, Expected
  <2>3. sent' \in Nat /\ ChannelType' /\ Ordered' /\ Alone' /\ Quiet' /\ Truthful'
    BY <1>1, <1>2, <2>1, <2>2, Waits
  <2>4. PlainType'
    BY <1>1, <2>2, <2>3 DEF IInv, TypeOK, PlainType
  <2>5. TriesBound'
    BY <1>1, <1>2, <2>1, TriesAssumption DEF TriesBound
  <2> QED
    BY <2>1, <2>2, <2>3, <2>4, <2>5, TypeNext, WaitsInv
<1>4. CASE ~frozen
  <2>1. pc' = "closed" /\ UNCHANGED <<requests, sent>>
    BY <1>4 DEF Snapshot
  <2>2. ChannelType' /\ Ordered'
    BY <1>1, <2>1 DEF IInv, ChannelType, Ordered
  <2>3. PlainType'
    BY <1>1, <2>1 DEF IInv, TypeOK, PlainType
  <2>4. TypeOK'
    BY <2>2, <2>3, TypeNext
  <2> QED
    BY <1>1, <1>4, <2>1, <2>2, <2>4 DEF IInv, TriesBound, Alone, Quiet, Truthful,
       FrozenLate, FrozenSnapshotInTime, ThawedAtEnd, FrozenSnapshot, Waiting
<1> QED
  BY <1>3, <1>4

(* The last thaw's answer tells whether the guest is thawed.               *)
LEMMA ThawInv == ASSUME IInv, Thaw PROVE IInv'
<1>1. PICK r \in Results :
        /\ Result(r)
        /\ tries' = tries + 1
        /\ IF ~r.ok /\ tries' < ThawTries
           THEN Send("guest-fsfreeze-thaw") /\ UNCHANGED <<pc, thaw_failed>>
           ELSE /\ pc' = "closed" /\ thaw_failed' = ~r.ok
                /\ UNCHANGED <<requests, sent>>
  BY DEF Thaw
<1>2. /\ r.ok \in BOOLEAN /\ late' \in BOOLEAN /\ replies' \in Seq(Answer)
      /\ InOrder(requests, replies', sent)
      /\ pc \in Waiting /\ ~late' =>
           /\ ~late /\ 1 \in 1..Len(replies) /\ r = replies[1]
           /\ requests = <<>> /\ replies' = <<>>
  BY <1>1, Taken
<1>3. pc = "thaw" /\ pc \in Waiting /\ UNCHANGED <<frozen, sessions, chatty, guest>>
  BY DEF Thaw, Waiting
<1>4. tries \in Nat /\ tries < ThawTries /\ ThawTries \in Nat /\ SyncTries \in Nat
  BY <1>3, TriesAssumption DEF IInv, TypeOK, TriesBound
<1>5. tries' \in 0..ThawTries
  BY <1>1, <1>4
<1>6. CASE ~r.ok /\ tries' < ThawTries
  <2>1. Send("guest-fsfreeze-thaw") /\ pc' = "thaw" /\ thaw_failed' = thaw_failed
    BY <1>1, <1>3, <1>6
  <2>2. pc' \in Waiting /\ Expected[pc'] = "guest-fsfreeze-thaw"
    BY <2>1 DEF Waiting, Expected
  <2>3. sent' \in Nat /\ ChannelType' /\ Ordered' /\ Alone' /\ Quiet' /\ Truthful'
    BY <1>2, <1>3, <2>1, <2>2, Waits
  <2>4. PlainType'
    BY <1>2, <1>3, <1>5, <2>1, <2>2, <2>3 DEF IInv, TypeOK, PlainType
  <2>5. TriesBound'
    BY <1>6, <2>1 DEF TriesBound
  <2> QED
    BY <2>1, <2>2, <2>3, <2>4, <2>5, TypeNext, WaitsInv
<1>7. CASE ~(~r.ok /\ tries' < ThawTries)
  <2>1. pc' = "closed" /\ thaw_failed' = ~r.ok /\ UNCHANGED <<requests, sent>>
    BY <1>1, <1>7
  <2>2. ChannelType' /\ Ordered'
    BY <1>2, <2>1 DEF IInv, ChannelType, Ordered
  <2>3. PlainType'
    BY <1>2, <1>3, <1>5, <2>1 DEF IInv, TypeOK, PlainType
  <2>4. TypeOK'
    BY <2>2, <2>3, TypeNext
  <2>5. ThawedAtEnd'
    <3> SUFFICES ASSUME ~late', r.ok PROVE guest = "thawed"
      BY <1>2, <1>3, <2>1 DEF ThawedAtEnd
    <3> QED
      BY <1>2, <1>3 DEF IInv, Truthful
  <2>6. Quiet'
    BY <1>2, <1>3, <2>1 DEF Quiet
  <2>7. TriesBound' /\ Alone' /\ Truthful' /\ FrozenLate' /\ FrozenSnapshotInTime'
    BY <2>1 DEF TriesBound, Alone, Truthful, FrozenLate, FrozenSnapshotInTime,
       FrozenSnapshot, Waiting
  <2> QED
    BY <2>2, <2>4, <2>5, <2>6, <2>7 DEF IInv
<1> QED
  BY <1>6, <1>7

(* While a session in step waits, the request the agent handles is its     *)
(* own and the only message there is.                                      *)
LEMMA CallAnswered ==
  ASSUME IInv, Agent, pc \in Waiting, ~late
  PROVE  /\ replies = <<>> /\ requests' = <<>>
         /\ \E r \in Answer : /\ replies' = <<r>> /\ r.id = sent
                              /\ Answered(Expected[pc], r, guest')
<1> DEFINE q == Head(requests)
<1>1. requests \in Seq(Request) /\ replies \in Seq(Answer) /\ requests # <<>>
  BY DEF IInv, ChannelType, Agent
<1>2. PICK o \in Outcome(q) \cup Refusal(q) :
        guest' = o.guest /\ replies' = replies \o o.replies
  BY DEF Agent
<1>3. /\ Len(requests) \in Nat \ {0} /\ q = requests[1] /\ q \in Request
      /\ requests' \in Seq(Request) /\ Len(requests') = Len(requests) - 1
  BY <1>1, FirstTaken DEF Agent
<1>4. chatty \in BOOLEAN /\ guest \in {"thawed", "frozen"}
  BY DEF IInv, TypeOK
<1> HIDE DEF q
<1>5. Len(requests) + Len(replies) <= 1 /\ Len(replies) \in Nat
  BY <1>1, LenProperties DEF IInv, Alone
<1>6. Len(requests) = 1 /\ Len(replies) = 0 /\ Len(requests') = 0
  BY <1>3, <1>5
<1>7. replies = <<>> /\ requests' = <<>>
  BY <1>1, <1>3, <1>6, EmptySeq
<1>8. q.id = sent /\ q.cmd = Expected[pc]
  BY <1>3, <1>6 DEF IInv, Alone
<1>9. q.cmd # "guest-sync-delimited"
  BY <1>8 DEF Waiting, Expected
<1>10. /\ o.replies \in Seq(Answer) /\ Len(o.replies) = 1
       /\ o.replies[1].id = q.id /\ Answered(q.cmd, o.replies[1], o.guest)
  BY <1>2, <1>3, <1>4, <1>9, AgentAnswers
<1>11. replies' = o.replies
  BY <1>2, <1>7, <1>10, ConcatEmptySeq
<1>12. o.replies[1] \in Answer /\ o.replies = <<o.replies[1]>>
  BY <1>10
<1> QED
  BY <1>2, <1>7, <1>8, <1>10, <1>11, <1>12

LEMMA AgentInv == ASSUME IInv, Agent PROVE IInv'
<1> DEFINE q == Head(requests)
<1>1. /\ requests \in Seq(Request) /\ replies \in Seq(Answer) /\ sent \in Nat
      /\ InOrder(requests, replies, sent) /\ requests # <<>>
  BY DEF IInv, TypeOK, ChannelType, Ordered, Agent
<1>2. PICK o \in Outcome(q) \cup Refusal(q) :
        guest' = o.guest /\ replies' = replies \o o.replies
  BY DEF Agent
<1>3. requests' = Tail(requests) /\ UNCHANGED <<client, chatty>>
  BY DEF Agent
<1>4. /\ Len(requests) \in Nat \ {0} /\ q = requests[1] /\ q \in Request
      /\ Tail(requests) \in Seq(Request) /\ Len(Tail(requests)) = Len(requests) - 1
  BY <1>1, FirstTaken
<1>5. /\ o.guest \in {"thawed", "frozen"} /\ o.replies \in Seq(Answer)
      /\ \A i \in 1..Len(o.replies) : o.replies[i].id = q.id
      /\ \A i, j \in 1..Len(o.replies) : i < j => o.replies[i].return # "sync"
  <2>1. chatty \in BOOLEAN /\ guest \in {"thawed", "frozen"}
    BY DEF IInv, TypeOK
  <2> HIDE DEF q
  <2> QED
    BY <1>2, <1>4, <2>1, AgentAnswers
<1>6. replies' \in Seq(Answer) /\ InOrder(requests', replies', sent)
  BY <1>1, <1>2, <1>3, <1>5, RequestAnswered
<1> HIDE DEF q
<1>7. UNCHANGED <<pc, tries, frozen, thaw_failed, late, sent, sessions, chatty>>
  BY <1>3 DEF client
<1>8. ChannelType' /\ Ordered'
  BY <1>3, <1>4, <1>6, <1>7 DEF ChannelType, Ordered
<1>9. PlainType'
  BY <1>2, <1>5, <1>7 DEF IInv, TypeOK, PlainType
<1>10. TypeOK'
  BY <1>8, <1>9, TypeNext
<1>11. ~((pc = "snapshot" \/ (pc = "closed" /\ frozen)) /\ ~late)
  BY <1>1 DEF IInv, Quiet
<1>12. ASSUME pc \in Waiting, ~late
       PROVE  /\ Len(requests') = 0 /\ Len(replies') = 1
              /\ \A i \in 1..Len(replies') :
                   replies'[i].id = sent /\ Answered(Expected[pc], replies'[i], guest')
  <2>1. PICK r \in Answer : /\ replies' = <<r>> /\ r.id = sent
                            /\ Answered(Expected[pc], r, guest')
    BY <1>12, CallAnswered
  <2>2. requests' = <<>>
    BY <1>12, CallAnswered
  <2>3. Len(requests') = 0 /\ Len(replies') = 1 /\ replies'[1] = r
    BY <2>1, <2>2
  <2>4. \A i \in 1..Len(replies') : i = 1
    BY <2>3
  <2> QED
    BY <2>1, <2>3, <2>4
<1>13. Alone'
  <2>1. ASSUME pc \in Waiting, ~late
        PROVE  /\ Len(requests') + Len(replies') <= 1
               /\ \A i \in 1..Len(requests') :
                    requests'[i].id = sent /\ requests'[i].cmd = Expected[pc]
               /\ \A i \in 1..Len(replies') : replies'[i].id = sent
    <3>1. Len(requests') = 0 /\ Len(replies') = 1
      BY <1>12, <2>1
    <3>2. \A i \in 1..Len(requests') : FALSE
      BY <3>1
    <3>3. Len(requests') + Len(replies') <= 1
      BY <3>1
    <3> QED
      BY <1>12, <2>1, <3>2, <3>3
  <2> QED
    BY <1>7, <2>1 DEF Alone
<1>14. Truthful'
  <2>1. ASSUME ~late, pc = "freeze"
        PROVE  \A i \in 1..Len(replies') : replies'[i].ok => guest' = "frozen"
    BY <1>12, <2>1 DEF Waiting, Expected, Answered
  <2>2. ASSUME ~late, pc = "thaw"
        PROVE  \A i \in 1..Len(replies') : replies'[i].ok => guest' = "thawed"
    BY <1>12, <2>2 DEF Waiting, Expected, Answered
  <2> QED
    BY <1>7, <2>1, <2>2 DEF Truthful
<1>15. TriesBound' /\ Quiet' /\ FrozenLate' /\ FrozenSnapshotInTime' /\ ThawedAtEnd'
  BY <1>7, <1>11 DEF IInv, TriesBound, Quiet, FrozenLate, FrozenSnapshotInTime,
     FrozenSnapshot, ThawedAtEnd
<1> QED
  BY <1>8, <1>10, <1>13, <1>14, <1>15 DEF IInv

LEMMA AgentLostInv == ASSUME IInv, AgentLost PROVE IInv'
<1>1. /\ requests \in Seq(Request) /\ replies \in Seq(Answer) /\ sent \in Nat
      /\ InOrder(requests, replies, sent) /\ requests # <<>>
  BY DEF IInv, TypeOK, ChannelType, Ordered, AgentLost
<1>2. /\ requests' = Tail(requests)
      /\ UNCHANGED <<pc, tries, frozen, thaw_failed, late, sent, sessions, replies,
                     chatty, guest>>
  BY DEF AgentLost, client
<1>3. /\ Len(requests) \in Nat \ {0} /\ requests' \in Seq(Request)
      /\ Len(requests') = Len(requests) - 1
  BY <1>1, <1>2, FirstTaken
<1>4. ChannelType' /\ Ordered'
  BY <1>1, <1>2, <1>3, RequestTaken DEF ChannelType, Ordered
<1>5. PlainType'
  BY <1>2 DEF IInv, TypeOK, PlainType
<1>6. TypeOK'
  BY <1>4, <1>5, TypeNext
<1>7. Alone'
  <2> SUFFICES ASSUME pc \in Waiting, ~late PROVE Alone'
    BY <1>2 DEF Alone
  <2>1. /\ Len(requests) + Len(replies) <= 1 /\ Len(replies) \in Nat
        /\ \A i \in 1..Len(replies) : replies[i].id = sent
    BY <1>1, LenProperties DEF IInv, Alone
  <2>2. Len(requests') = 0 /\ Len(replies) = 0
    BY <1>3, <2>1
  <2> QED
    BY <1>2, <2>1, <2>2 DEF Alone
<1>8. TriesBound' /\ Quiet' /\ Truthful' /\ FrozenLate' /\ FrozenSnapshotInTime'
      /\ ThawedAtEnd'
  BY <1>1, <1>2 DEF IInv, TriesBound, Quiet, Truthful, FrozenLate, FrozenSnapshotInTime,
     FrozenSnapshot, ThawedAtEnd
<1> QED
  BY <1>4, <1>6, <1>7, <1>8 DEF IInv

LEMMA NextInv == IInv /\ [Next]_vars => IInv'
<1> SUFFICES ASSUME IInv, [Next]_vars PROVE IInv'
  OBVIOUS
<1>1. CASE Open
  BY <1>1, OpenInv
<1>2. CASE Session
  BY <1>2, SyncInv, EndInv, AskInv, FreezeInv, SnapshotInv, ThawInv DEF Session
<1>3. CASE Kill
  BY <1>3, EndInv
<1>4. CASE Agent
  BY <1>4, AgentInv
<1>5. CASE AgentLost
  BY <1>5, AgentLostInv
<1>6. CASE UNCHANGED vars
  <2>1. UNCHANGED <<pc, tries, frozen, thaw_failed, late, requests, replies, sent,
                    sessions, chatty, guest>>
    BY <1>6 DEF vars, client, channel
  <2>2. ChannelType' /\ Ordered' /\ PlainType'
    BY <2>1 DEF IInv, TypeOK, PlainType, ChannelType, Ordered
  <2>3. TypeOK'
    BY <2>2, TypeNext
  <2> QED
    BY <2>1, <2>2, <2>3 DEF IInv, TriesBound, Alone, Quiet, Truthful, FrozenLate,
       FrozenSnapshotInTime, FrozenSnapshot, ThawedAtEnd
<1> QED
  BY <1>1, <1>2, <1>3, <1>4, <1>5, <1>6 DEF Next

-----------------------------------------------------------------------------
(* The theorems.                                                           *)

LEMMA Always == Spec => []IInv
BY InitInv, NextInv, PTL DEF Spec

(* The variables have their types; agent_session looks at no more than     *)
(* SyncTries replies and thaw() tries no more than ThawTries times.        *)
THEOREM TypeCorrect == Spec => []TypeOK
<1>1. IInv => TypeOK
  BY DEF IInv
<1> QED
  BY <1>1, Always, PTL

(* The stream is in step once agent_open() returned (qmp.uc:172): whatever *)
(* was killed, timed out or lost before, execute() takes the answer to its *)
(* own request, until a reply of the session itself is late.               *)
THEOREM InStepAlways == Spec => []InStep
<1>1. IInv => InStep
  <2> SUFFICES ASSUME IInv, pc \in Waiting, ~late,
                      NEW m \in Range(requests) \cup Range(replies)
               PROVE  m.id = sent
    BY DEF InStep
  <2>1. DOMAIN requests = 1..Len(requests) /\ DOMAIN replies = 1..Len(replies)
    BY LenProperties DEF IInv, ChannelType
  <2> QED
    BY <2>1 DEF IInv, Alone, Range
<1> QED
  BY <1>1, Always, PTL

(* A snapshot after a freeze that was reported to have succeeded is one of *)
(* a frozen guest (backup.uc:10-13).                                       *)
THEOREM FrozenSnapshotAlways == Spec => []FrozenSnapshotInTime
<1>1. IInv => FrozenSnapshotInTime
  BY DEF IInv
<1> QED
  BY <1>1, Always, PTL

(* A session that froze the guest and ran to its end leaves it thawed or   *)
(* reports that it could not (backup.uc:18).                               *)
THEOREM ThawedAtEndAlways == Spec => []ThawedAtEnd
<1>1. IInv => ThawedAtEnd
  BY DEF IInv
<1> QED
  BY <1>1, Always, PTL

-----------------------------------------------------------------------------
(***************************************************************************)
(* AgentSession implements AgentCalls.  Out of a call every step is Idle,  *)
(* a step that leaves one without its answer is Lose; what remains are the *)
(* steps within a session in step, where Alone and Quiet say that its own  *)
(* request or answer is all there is in the stream.                        *)
(***************************************************************************)
LEMMA OutOfCall == ASSUME IInv', ~InCall, ~InCall' PROVE Calls!Idle
BY DEF Calls!Idle, Calls!Guests, IInv, TypeOK

LEMMA CallLost == ASSUME IInv', ~InCall', UNCHANGED guest PROVE Calls!Lose
BY DEF Calls!Lose, IInv, TypeOK

(* The sync is over: the first call begins, with nothing in the stream.    *)
LEMMA CallBegins == ASSUME IInv, Sync, InCall' PROVE Calls!Begin
<1>1. Synced(Head(replies)) /\ pc' = "status" /\ pc = "sync"
  BY DEF Sync, InCall, Waiting
<1>2. requests \in Seq(Request) /\ replies \in Seq(Answer) /\ sent \in Nat
      /\ InOrder(requests, replies, sent) /\ replies # <<>>
  BY DEF IInv, TypeOK, ChannelType, Ordered, Sync
<1>3. Head(replies) = replies[1]
  BY <1>2, FirstTaken
<1>4. replies' = <<>>
  BY <1>1, <1>2, <1>3, SyncedLast DEF Synced, Sync
<1>5. UNCHANGED <<frozen, guest>>
  BY DEF Sync
<1> QED
  BY <1>1, <1>4, <1>5 DEF Calls!Begin, InCall, Waiting

(* What AnswerOf makes of an answer.                                       *)
LEMMA AnswerValues ==
  ASSUME NEW r \in Answer
  PROVE  /\ AnswerOf(r) # "pending"
         /\ AnswerOf(r) = "error" <=> ~r.ok
         /\ pc # "status" => (AnswerOf(r) = "ok" <=> r.ok)
<1>1. r.ok \in BOOLEAN /\ r.return \in Values
  BY DEF Answer
<1>2. CASE r.ok
  BY <1>1, <1>2 DEF AnswerOf, Values
<1>3. CASE ~r.ok
  BY <1>3 DEF AnswerOf
<1> QED
  BY <1>2, <1>3

(* A reply that is taken in time is the answer to the call.                *)
LEMMA CallReturns ==
  ASSUME IInv, Status \/ StaleThaw \/ Freeze \/ Thaw, InCall'
  PROVE  Calls!Return
<1>1. PICK r \in Results :
        /\ Result(r)
        /\ Status => pc' = (IF r.ok /\ r.return = "frozen" THEN "stale" ELSE "freeze")
        /\ Freeze => frozen' = r.ok
        /\ Thaw => pc' \in {"closed"} \cup (IF r.ok THEN {} ELSE {"thaw"})
  <2>1. CASE Status
    BY <2>1 DEF Status, Freeze, Thaw
  <2>2. CASE StaleThaw
    BY <2>2 DEF StaleThaw, Status, Freeze, Thaw
  <2>3. CASE Freeze
    BY <2>3 DEF Status, Freeze, Thaw
  <2>4. CASE Thaw
    BY <2>4 DEF Status, Freeze, Thaw
  <2> QED
    BY <2>1, <2>2, <2>3, <2>4
<1>2. pc \in Waiting /\ UNCHANGED guest
  BY DEF Status, StaleThaw, Freeze, Thaw, Waiting
<1>3. ~late /\ 1 \in 1..Len(replies) /\ r = replies[1] /\ replies' = <<>>
  BY <1>1, <1>2, Taken DEF InCall
<1>4. replies # <<>> /\ Head(replies) = r /\ r \in Answer
  <2>1. replies \in Seq(Answer)
    BY DEF IInv, ChannelType
  <2>2. replies # <<>>
    BY <1>3
  <2> QED
    BY <1>3, <2>1, <2>2, FirstTaken
<1>5. InCall
  BY <1>2, <1>3 DEF InCall
<1>6. /\ AnswerOf(r) # "pending"
      /\ AnswerOf(r) = "error" <=> ~r.ok
      /\ pc # "status" => (AnswerOf(r) = "ok" <=> r.ok)
  BY <1>4, AnswerValues
<1>7. r.ok \in BOOLEAN
  BY <1>4 DEF Answer
<1>8. CASE Status
  <2>1. pc = "status" /\ pc' \in {"stale", "freeze"} /\ UNCHANGED frozen
    BY <1>1, <1>8 DEF Status
  <2>2. AnswerOf(r) = "frozen" <=> r.ok /\ r.return = "frozen"
    BY <2>1 DEF AnswerOf
  <2> QED
    BY <1>1, <1>2, <1>3, <1>4, <1>5, <1>6, <1>8, <2>1, <2>2 DEF Calls!Return
<1>9. CASE StaleThaw
  <2>1. pc = "stale" /\ pc' = "freeze" /\ UNCHANGED frozen
    BY <1>9 DEF StaleThaw
  <2> QED
    BY <1>2, <1>3, <1>4, <1>5, <1>6, <2>1 DEF Calls!Return
<1>10. CASE Freeze
  <2>1. pc = "freeze" /\ pc' = "snapshot" /\ frozen' = r.ok
    BY <1>1, <1>10 DEF Freeze
  <2> QED
    BY <1>2, <1>3, <1>4, <1>5, <1>6, <1>7, <2>1 DEF Calls!Return
<1>11. CASE Thaw
  <2>1. pc = "thaw" /\ pc' = "thaw" /\ ~r.ok /\ UNCHANGED frozen
    BY <1>1, <1>11 DEF Thaw, InCall, Waiting
  <2> QED
    BY <1>2, <1>3, <1>4, <1>5, <1>6, <2>1 DEF Calls!Return
<1> QED
  BY <1>8, <1>9, <1>10, <1>11

LEMMA CallSnapshot == ASSUME IInv, Snapshot PROVE InCall => Calls!Snapshot
<1> SUFFICES ASSUME InCall PROVE Calls!Snapshot
  OBVIOUS
<1>1. pc = "snapshot" /\ replies = <<>>
  BY DEF Snapshot, InCall, IInv, Quiet
<1>2. pc' = (IF frozen THEN "thaw" ELSE "closed")
  BY DEF Snapshot
<1>3. UNCHANGED <<frozen, late, replies, guest>>
  BY DEF Snapshot
<1> QED
  BY <1>1, <1>2, <1>3 DEF Calls!Snapshot, InCall, Waiting

(* During a call the agent handles nothing but its request.                *)
LEMMA CallDone == ASSUME IInv, Agent, InCall PROVE Calls!Answer
<1>1. UNCHANGED <<pc, late, frozen>>
  BY DEF Agent, client
<1>2. pc # "snapshot"
  BY DEF IInv, Quiet, InCall, Agent
<1>3. pc \in Waiting /\ ~late
  BY <1>2 DEF InCall
<1>4. PICK r \in Answer : replies' = <<r>> /\ Answered(Expected[pc], r, guest')
  BY <1>3, CallAnswered
<1>5. replies = <<>> /\ replies' # <<>> /\ Head(replies') = r
  BY <1>3, <1>4, CallAnswered
<1>6. InCall'
  BY <1>1 DEF InCall
<1>7. AnswerOf(Head(replies))' = AnswerOf(r)
  BY <1>1, <1>5 DEF AnswerOf
<1>8. CASE pc = "status"
  BY <1>1, <1>4, <1>5, <1>6, <1>7, <1>8 DEF Calls!Answer, Answered, Expected, AnswerOf
<1>9. CASE pc \in {"stale", "thaw"}
  BY <1>1, <1>4, <1>5, <1>6, <1>7, <1>9 DEF Calls!Answer, Answered, Expected, AnswerOf
<1>10. CASE pc = "freeze"
  BY <1>1, <1>4, <1>5, <1>6, <1>7, <1>10 DEF Calls!Answer, Answered, Expected, AnswerOf
<1> QED
  BY <1>3, <1>8, <1>9, <1>10 DEF Waiting

LEMMA StepImplementsCalls == ASSUME IInv, IInv', [Next]_vars
                             PROVE  [Calls!Next]_(Calls!vars)
<1>1. CASE ~InCall /\ ~InCall'
  BY <1>1, OutOfCall DEF Calls!Next
<1>2. CASE ~InCall /\ InCall'
  <2>1. Sync
    BY <1>2 DEF Next, Session, Open, Sync, SyncTimeout, Status, StaleThaw, Freeze,
       Snapshot, Thaw, Kill, Agent, AgentLost, Result, InCall, Waiting, vars, client
  <2> QED
    BY <1>2, <2>1, CallBegins DEF Calls!Next
<1>3. CASE InCall
  <2>1. CASE Status \/ StaleThaw \/ Freeze \/ Thaw
    <3>1. UNCHANGED guest
      BY <2>1 DEF Status, StaleThaw, Freeze, Thaw
    <3> QED
      BY <2>1, <3>1, CallReturns, CallLost DEF Calls!Next
  <2>2. CASE Snapshot
    BY <1>3, <2>2, CallSnapshot DEF Calls!Next
  <2>3. CASE Agent
    BY <1>3, <2>3, CallDone DEF Calls!Next
  <2>4. CASE Kill
    BY <2>4, CallLost DEF Kill, InCall, Waiting, Calls!Next
  <2>5. CASE AgentLost \/ UNCHANGED vars
    <3>1. UNCHANGED <<pc, late, frozen, guest, replies>>
      BY <2>5 DEF AgentLost, vars, client, channel
    <3> QED
      BY <3>1 DEF Calls!vars, InCall, AnswerOf
  <2>6. ~Open /\ ~Sync /\ ~SyncTimeout
    BY <1>3 DEF Open, Sync, SyncTimeout, InCall, Waiting
  <2> QED
    BY <2>1, <2>2, <2>3, <2>4, <2>5, <2>6 DEF Next, Session
<1> QED
  BY <1>1, <1>2, <1>3

(* Whatever earlier sessions left in the stream, a call of a session in    *)
(* step is synchronous (AgentCalls): the guest changes by it alone, before *)
(* it returns, and it returns its own answer (qmp.uc:70-95, 172).          *)
THEOREM CallsImplemented == Spec => ImplementsCalls
<1>1. Init => Calls!Init
  BY DEF Init, Calls!Init, Calls!Guests, InCall, Waiting
<1>2. IInv /\ IInv' /\ [Next]_vars => [Calls!Next]_(Calls!vars)
  BY StepImplementsCalls
<1> QED
  BY <1>1, <1>2, Always, PTL DEF Spec, ImplementsCalls, Calls!Spec

=============================================================================
