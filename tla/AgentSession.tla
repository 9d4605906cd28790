---------------------------- MODULE AgentSession ----------------------------
(***************************************************************************)
(* The guest agent stream of qemu-instance-init (qmp.uc) and the freeze,   *)
(* snapshot, thaw sequence a backup sends over it (backup.uc).             *)
(*                                                                         *)
(* The stream has no message ids: execute() takes the next reply for its   *)
(* own.  Requests wait in the channel while the agent is slow, replies     *)
(* wait in it while nobody is connected, and both outlive the session that *)
(* caused them.  agent_open() puts the stream in step by one               *)
(* guest-sync-delimited.  The agent and the guest are external.            *)
(***************************************************************************)
EXTENDS Integers, Sequences, SequencesExt

CONSTANTS
  SyncTries,    \* replies agent_session looks at (8 in qmp.uc)
  ThawTries,    \* attempts of thaw (5 in backup.uc)
  Faults,       \* what the environment may do, see AllFaults
  MaxSessions   \* bound: sessions started

(* timeout   a reply does not arrive in time after the sync                *)
(* sync_timeout   ... during agent_session                                 *)
(* lost      the agent is restarted and a request gets no reply            *)
(* refuse    the agent answers freeze or thaw with an error                *)
(* kill      qemu-backup is killed                                         *)
AllFaults == {"timeout", "sync_timeout", "lost", "refuse", "kill"}

ASSUME TriesAssumption == SyncTries \in Nat \ {0} /\ ThawTries \in Nat \ {0}
ASSUME FaultsAssumption == Faults \subseteq AllFaults
ASSUME MaxSessionsAssumption == MaxSessions \in Nat

VARIABLES
  pc,         \* step of the current session; "closed", "killed": none is open
  tries,      \* replies skipped by agent_session, or thaws tried
  frozen,     \* the result of freeze()
  thaw_failed,
  late,       \* history: a reply of this session came too late
  requests,   \* channel to the agent: [id, cmd]
  replies,    \* channel from the agent: [id, ok, return]
  sent,       \* requests sent so far; the last one has this id
  sessions,   \* sessions started so far
  chatty,     \* the agent answers the stray 0xFF with a parse error
  guest       \* the guest's filesystems: "thawed", "frozen"

client  == <<pc, tries, frozen, thaw_failed, late, sent, sessions>>
channel == <<requests, replies>>
vars    == <<client, channel, chatty, guest>>

Init ==
  /\ pc = "closed" /\ tries = 0 /\ frozen = FALSE /\ thaw_failed = FALSE /\ late = FALSE
  /\ requests = <<>> /\ replies = <<>> /\ sent = 0 /\ sessions = 0
  /\ chatty \in BOOLEAN /\ guest \in {"thawed", "frozen"}

----------------------------------------------------------------------------
(* The client.                                                             *)

Send(cmd) ==
  /\ sent' = sent + 1
  /\ requests' = Append(requests, [id |-> sent + 1, cmd |-> cmd])

(* agent_open: 0xFF and guest-sync-delimited with a fresh id.              *)
Open ==
  /\ pc \in {"closed", "killed"} /\ sessions < MaxSessions
  /\ sessions' = sessions + 1 /\ pc' = "sync" /\ tries' = 0
  /\ frozen' = FALSE /\ thaw_failed' = FALSE /\ late' = FALSE
  /\ Send("guest-sync-delimited")
  /\ UNCHANGED <<replies, chatty, guest>>

(* Mutant: any reply with a return value is taken for that of the sync.    *)
MSynced(r) == r.ok

Synced(r) == r.return = "sync" /\ r.id = sent

GiveUp(n) == n = SyncTries

(* Replies to abandoned requests are skipped, at most SyncTries of them.   *)
Sync ==
  /\ pc = "sync" /\ replies # <<>>
  /\ replies' = Tail(replies)
  /\ IF Synced(Head(replies))
     THEN pc' = "status" /\ tries' = 0 /\ Send("guest-fsfreeze-status")
     ELSE /\ tries' = tries + 1
          /\ pc' = IF GiveUp(tries') THEN "closed" ELSE "sync"
          /\ UNCHANGED <<requests, sent>>
  /\ UNCHANGED <<frozen, thaw_failed, late, sessions, chatty, guest>>

(* Mutant: no timeout while agent_session waits.                           *)
MSyncTimeout == FALSE /\ UNCHANGED vars

SyncTimeout ==
  /\ pc = "sync" /\ "sync_timeout" \in Faults /\ replies = <<>>
  /\ pc' = "closed"
  /\ UNCHANGED <<tries, frozen, thaw_failed, late, sent, sessions, channel,
                 chatty, guest>>

NoReply == [ok |-> FALSE, return |-> "timed out"]

(* What execute() returns: the next reply, or an error when it times out.  *)
Result(r) ==
  \/ replies # <<>> /\ r = Head(replies) /\ replies' = Tail(replies)
     /\ UNCHANGED late
  \/ replies = <<>> /\ "timeout" \in Faults /\ r = NoReply /\ late' = TRUE
     /\ UNCHANGED replies

Results == {NoReply} \cup Range(replies)

(* freeze(): a stale freeze is thawed first, whatever that returns.        *)
Status ==
  /\ pc = "status"
  /\ \E r \in Results :
       /\ Result(r)
       /\ IF r.ok /\ r.return = "frozen"
          THEN pc' = "stale" /\ Send("guest-fsfreeze-thaw")
          ELSE pc' = "freeze" /\ Send("guest-fsfreeze-freeze")
  /\ UNCHANGED <<tries, frozen, thaw_failed, sessions, chatty, guest>>

(* Mutant: the reply to the thaw of a stale freeze is not waited for.      *)
MStaleThaw ==
  /\ pc = "stale"
  /\ pc' = "freeze" /\ Send("guest-fsfreeze-freeze")
  /\ UNCHANGED <<tries, frozen, thaw_failed, late, sessions, replies, chatty,
                 guest>>

StaleThaw ==
  /\ pc = "stale"
  /\ \E r \in Results : Result(r)
  /\ pc' = "freeze" /\ Send("guest-fsfreeze-freeze")
  /\ UNCHANGED <<tries, frozen, thaw_failed, sessions, chatty, guest>>

(* Mutant: the reply to freeze is not waited for.                          *)
MFreeze ==
  /\ pc = "freeze"
  /\ frozen' = TRUE /\ pc' = "snapshot"
  /\ UNCHANGED <<tries, thaw_failed, late, sent, sessions, channel, chatty, guest>>

Freeze ==
  /\ pc = "freeze"
  /\ \E r \in Results : Result(r) /\ frozen' = r.ok
  /\ pc' = "snapshot"
  /\ UNCHANGED <<tries, thaw_failed, sent, sessions, requests, chatty, guest>>

(* Mutant: the guest is thawed only when the snapshot succeeded.           *)
MSnapshot ==
  /\ pc = "snapshot"
  /\ \/ frozen /\ pc' = "thaw" /\ Send("guest-fsfreeze-thaw")
     \/ pc' = "closed" /\ UNCHANGED <<requests, sent>>
  /\ UNCHANGED <<tries, frozen, thaw_failed, late, sessions, replies, chatty,
                 guest>>

(* The snapshot is taken (over QMP or LVM), then thaw() sends its first    *)
(* request, or the session is closed when nothing was frozen.              *)
Snapshot ==
  /\ pc = "snapshot"
  /\ IF frozen
     THEN pc' = "thaw" /\ Send("guest-fsfreeze-thaw")
     ELSE pc' = "closed" /\ UNCHANGED <<requests, sent>>
  /\ UNCHANGED <<tries, frozen, thaw_failed, late, sessions, replies, chatty,
                 guest>>

(* thaw(): until one succeeds, ThawTries times.                            *)
Thaw ==
  /\ pc = "thaw"
  /\ \E r \in Results :
       /\ Result(r)
       /\ tries' = tries + 1
       /\ IF ~r.ok /\ tries' < ThawTries
          THEN Send("guest-fsfreeze-thaw") /\ UNCHANGED <<pc, thaw_failed>>
          ELSE /\ pc' = "closed" /\ thaw_failed' = ~r.ok
               /\ UNCHANGED <<requests, sent>>
  /\ UNCHANGED <<frozen, sessions, chatty, guest>>

Kill ==
  /\ pc \notin {"closed", "killed"} /\ "kill" \in Faults
  /\ pc' = "killed"
  /\ UNCHANGED <<tries, frozen, thaw_failed, late, sent, sessions, channel,
                 chatty, guest>>

----------------------------------------------------------------------------
(* The agent answers requests in order.                                    *)

Reply(id, ok, val) == [id |-> id, ok |-> ok, return |-> val]

(* What the agent may answer to a request, and the guest's state after it. *)
Outcome(q) ==
  CASE q.cmd = "guest-sync-delimited" ->
         {[guest |-> guest,
           replies |-> (IF chatty THEN <<Reply(q.id, FALSE, "parse")>>
                        ELSE <<>>) \o <<Reply(q.id, TRUE, "sync")>>]}
    [] q.cmd = "guest-fsfreeze-status" ->
         {[guest |-> guest, replies |-> <<Reply(q.id, TRUE, guest)>>]}
    [] q.cmd = "guest-fsfreeze-freeze" /\ guest = "thawed" ->
         {[guest |-> "frozen", replies |-> <<Reply(q.id, TRUE, "count")>>]}
    [] q.cmd = "guest-fsfreeze-thaw" ->
         {[guest |-> "thawed", replies |-> <<Reply(q.id, TRUE, "count")>>]}
    [] OTHER -> {}

Refusal(q) ==
  IF \/ q.cmd = "guest-fsfreeze-freeze" /\ guest = "frozen"
     \/ q.cmd \in {"guest-fsfreeze-freeze", "guest-fsfreeze-thaw"}
        /\ "refuse" \in Faults
  THEN {[guest |-> guest, replies |-> <<Reply(q.id, FALSE, "refused")>>]}
  ELSE {}

Agent ==
  /\ requests # <<>>
  /\ \E o \in Outcome(Head(requests)) \cup Refusal(Head(requests)) :
       guest' = o.guest /\ replies' = replies \o o.replies
  /\ requests' = Tail(requests)
  /\ UNCHANGED <<client, chatty>>

AgentLost ==
  /\ requests # <<>> /\ "lost" \in Faults
  /\ requests' = Tail(requests)
  /\ UNCHANGED <<client, replies, chatty, guest>>

----------------------------------------------------------------------------
Session == Sync \/ SyncTimeout \/ Status \/ StaleThaw \/ Freeze \/ Snapshot
             \/ Thaw

Next == Open \/ Session \/ Kill \/ Agent \/ AgentLost

Spec == Init /\ [][Next]_vars

(* The process runs on (its reads end by a reply or by their timeout), and *)
(* the agent works off its requests.                                       *)
FairSpec == Spec /\ WF_vars(Session) /\ WF_vars(Agent)

----------------------------------------------------------------------------
Waiting == {"status", "stale", "freeze", "thaw"}

(* Types; the client never looks at more replies than its bounds allow.    *)
TypeOK ==
  /\ pc \in {"closed", "killed", "sync", "snapshot"} \cup Waiting
  /\ tries \in 0..SyncTries \cup 0..ThawTries
  /\ frozen \in BOOLEAN /\ thaw_failed \in BOOLEAN /\ late \in BOOLEAN
  /\ sent \in Nat /\ sessions \in 0..MaxSessions
  /\ \A q \in Range(requests) : q.id \in 1..sent
  /\ \A r \in Range(replies) : r.id \in 1..sent /\ r.ok \in BOOLEAN
  /\ chatty \in BOOLEAN /\ guest \in {"thawed", "frozen"}

(* Once agent_open() has put the stream in step, and until a reply of this *)
(* session is late, execute() takes the answer to its own request: nothing *)
(* a killed or timed out session left behind is in the channel             *)
(* (qmp.uc:172).                                                           *)
InStep ==
  pc \in Waiting /\ ~late
    => \A m \in Range(requests) \cup Range(replies) : m.id = sent

(* A snapshot taken after a freeze that was reported to have succeeded is  *)
(* a snapshot of a frozen guest (backup.uc:10-13, steps 1 and 2).          *)
FrozenSnapshot == pc = "snapshot" /\ frozen => guest = "frozen"

(* ... which holds as long as no reply of the session is late.             *)
FrozenSnapshotInTime == ~late => FrozenSnapshot

(* A session that froze the guest and ran to its end has thawed it or says *)
(* that the thaw failed (backup.uc:18), as long as no reply is late.       *)
ThawedAtEnd ==
  pc = "closed" /\ frozen /\ ~late => guest = "thawed" \/ thaw_failed

(* As a refinement: to freeze() and thaw() the stream is a synchronous     *)
(* call (AgentCalls), although requests and replies of killed sessions     *)
(* wait in it: once the sync is over (qmp.uc:172) the guest changes only   *)
(* by the call under way, before it returns, and each call returns the     *)
(* answer to itself.                                                       *)
InCall == pc \in Waiting \cup {"snapshot"} /\ ~late

AnswerOf(r) ==
  IF ~r.ok THEN "error" ELSE IF pc = "status" THEN r.return ELSE "ok"

Calls == INSTANCE AgentCalls WITH
           call   <- IF InCall THEN pc ELSE "none",
           answer <- IF InCall /\ replies # <<>> THEN AnswerOf(Head(replies))
                     ELSE "pending"

ImplementsCalls == Calls!Spec

(* A session comes to its end whatever the agent does.                     *)
SessionEnds == pc \notin {"closed", "killed"} ~> pc \in {"closed", "killed"}

=============================================================================
