----------------------------- MODULE AgentCalls -----------------------------
(***************************************************************************)
(* What freeze() and thaw() of backup.uc rely on: every call to the guest  *)
(* agent is synchronous.  The guest's filesystems change only by the call  *)
(* under way, at most once and before it returns, and the answer a call    *)
(* returns is the one to itself.  Nothing another session left in the      *)
(* stream is done or answered during a call.  A session whose reply is     *)
(* late, or that is killed, is promised nothing until the next one opens.  *)
(* AgentSession, which has the stream, implements this specification.      *)
(***************************************************************************)

VARIABLES
  call,     \* the call under way; "snapshot": the step in between
  answer,   \* the answer to it: "pending" until the agent gave it
  frozen,   \* the result of freeze()
  guest     \* the guest's filesystems

vars == <<call, answer, frozen, guest>>

Guests == {"thawed", "frozen"}

Init == call = "none" /\ answer = "pending" /\ frozen = FALSE /\ guest \in Guests

(* Between sessions, while the stream is put in step, and after a late     *)
(* reply the agent may work off whatever is in its stream.                 *)
Idle ==
  /\ call = "none" /\ UNCHANGED <<call, answer>>
  /\ frozen' \in BOOLEAN /\ guest' \in Guests

Begin ==
  /\ call = "none" /\ call' = "status"
  /\ UNCHANGED <<answer, frozen, guest>>

(* The agent does what the call asks for and answers, or refuses it.       *)
Answer ==
  /\ answer = "pending"
  /\ \/ call = "status" /\ answer' = guest /\ UNCHANGED guest
     \/ call = "freeze" /\ guest = "thawed" /\ guest' = "frozen" /\ answer' = "ok"
     \/ call \in {"stale", "thaw"} /\ guest' = "thawed" /\ answer' = "ok"
     \/ call \in {"stale", "freeze", "thaw"} /\ answer' = "error" /\ UNCHANGED guest
  /\ UNCHANGED <<call, frozen>>

(* A call returns its answer, and the session goes on by it.               *)
Return ==
  /\ answer # "pending" /\ answer' = "pending"
  /\ \/ call = "status" /\ call' = (IF answer = "frozen" THEN "stale" ELSE "freeze")
        /\ UNCHANGED frozen
     \/ call = "stale" /\ call' = "freeze" /\ UNCHANGED frozen
     \/ call = "freeze" /\ call' = "snapshot" /\ frozen' = (answer = "ok")
     \/ call = "thaw" /\ call' \in {"none"} \cup (IF answer = "error" THEN {"thaw"} ELSE {})
        /\ UNCHANGED frozen
  /\ UNCHANGED guest

Snapshot ==
  /\ call = "snapshot" /\ call' = (IF frozen THEN "thaw" ELSE "none")
  /\ UNCHANGED <<answer, frozen, guest>>

(* The session is killed, or a reply does not come in time.                *)
Lose ==
  /\ call' = "none" /\ answer' = "pending" /\ frozen' \in BOOLEAN
  /\ UNCHANGED guest

Next == Idle \/ Begin \/ Answer \/ Return \/ Snapshot \/ Lose

Spec == Init /\ [][Next]_vars
=============================================================================
