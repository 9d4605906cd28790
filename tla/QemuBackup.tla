----------------------------- MODULE QemuBackup -----------------------------
(***************************************************************************)
(* The consistent backup of a running VM with a qcow2 root disk:           *)
(* qemu-instance-init (backup.uc, qemu-backup.uc, qemu.init).              *)
(*                                                                         *)
(* A process of Procs is one run of /usr/libexec/qemu-backup: a "backup"   *)
(* (consistent_backup) or the "start" of qemu.init, which runs recover     *)
(* before procd boots the VM.  Every call that leaves the process (QMP,    *)
(* guest agent, file system, the backup client) is an action of its own,   *)
(* so other processes, the guest, QEMU and procd interleave between any    *)
(* two of them.  QEMU, the guest, the guest agent and procd are external:  *)
(* they are modelled as the code in src uses them.                         *)
(*                                                                         *)
(* A disk is a function from blocks to the number of the guest write that  *)
(* the block holds (0: the contents the disk came with).                   *)
(***************************************************************************)
EXTENDS Integers, FiniteSets

CONSTANTS
  Blocks,      \* the blocks of the root disk
  Procs,       \* qemu-backup processes (reused, MaxRuns bounds their runs)
  NoProc,      \* "nobody": not a process
  Overlap,     \* which processes may run together: "none", "start", "any"
  Faults,      \* the environment events that may happen, see AllFaults
  MaxWrites,   \* bound: guest writes
  MaxRuns      \* bound: processes started

(***************************************************************************)
(* exit         QEMU exits by itself (guest shutdown, crash)               *)
(* stop         /etc/init.d/qemu stop                                      *)
(* respawn      procd restarts a QEMU that exited                          *)
(* kill         a qemu-backup process is killed                            *)
(* job_fail     the commit block job ends on an I/O error                  *)
(* timeout      the reply to a QMP command does not arrive in time         *)
(* agent_timeout, thaw_fail    the guest agent does not answer             *)
(* offline_fail qemu-img commit fails half way                             *)
(* unlink_fail  the overlay cannot be removed                              *)
(* late         the events above may also happen while an overlay that is  *)
(*              merged (or about to be) still lies on the disk             *)
(***************************************************************************)
AllFaults == {"exit", "stop", "respawn", "kill", "job_fail", "timeout",
              "agent_timeout", "thaw_fail", "offline_fail", "unlink_fail",
              "late"}

Hole == -1     \* a block the overlay does not hold, or not read yet

ASSUME BlocksAssumption == Blocks # {}
ASSUME ProcsAssumption == NoProc \notin Procs
ASSUME OverlapAssumption == Overlap \in {"none", "start", "any"}
ASSUME FaultsAssumption == Faults \subseteq AllFaults
ASSUME BoundsAssumption == MaxWrites \in Nat /\ MaxRuns \in Nat

VARIABLES
  vm,          \* QEMU process: "off", "on"
  procd,       \* procd's view of the instance: "down", "up"
  home,        \* image the VM runs on, or ran on last: "base", "ovl"
  exists,      \* the overlay file is on the disk
  base, ovl,   \* contents of the base image and of the overlay
  guest,       \* history: what the guest wrote, as it must read it back
  nwr,         \* number of guest writes so far
  job,         \* block job pbs-commit: "none", "running", "ready", "concluding"
  synced,      \* blocks of the overlay the job has in the base
  qmp,         \* the process QEMU serves on its QMP socket
  agent,       \* the process on the guest agent socket
  frozenBy,    \* the process that froze the guest filesystems
  pc, mode, running, frozen, snapped, thaw_failed, rc,
  image,       \* what the backup client has read, per block
  snapAt,      \* history: the disk at the snapshot the process took
  runs         \* processes started so far

disk  == <<home, exists, base, ovl>>
hist  == <<guest, nwr, runs>>
qemu  == <<vm, procd, job, synced>>
conns == <<qmp, agent, frozenBy>>
local == <<mode, running, frozen, snapped, thaw_failed, image, snapAt>>
vars  == <<disk, hist, qemu, conns, pc, rc, local>>

Empty   == [b \in Blocks |-> Hole]
Zero    == [b \in Blocks |-> 0]
Merged  == [b \in Blocks |-> IF ovl[b] = Hole THEN base[b] ELSE ovl[b]]

(* What the VM reads, or will read when it is booted the documented way.   *)
Content == IF home = "ovl" THEN Merged ELSE base

Active(p) == pc[p] \notin {"idle", "done"}

(* An overlay with data whose commit is concluding or has been pivoted.    *)
Window == job = "concluding" \/ (home = "base" /\ exists /\ ovl # Empty)
Can(f) == f \in Faults /\ (Window => "late" \in Faults)

Init ==
  /\ vm \in {"off", "on"} /\ procd = IF vm = "on" THEN "up" ELSE "down"
  /\ home = "base" /\ exists = FALSE /\ base = Zero /\ ovl = Empty
  /\ guest = Zero /\ nwr = 0 /\ runs = 0
  /\ job = "none" /\ synced = {}
  /\ qmp = NoProc /\ agent = NoProc /\ frozenBy = NoProc
  /\ pc = [p \in Procs |-> "idle"] /\ mode = [p \in Procs |-> "backup"]
  /\ running = [p \in Procs |-> FALSE] /\ frozen = [p \in Procs |-> FALSE]
  /\ snapped = [p \in Procs |-> FALSE] /\ thaw_failed = [p \in Procs |-> FALSE]
  /\ rc = [p \in Procs |-> 0]
  /\ image = [p \in Procs |-> Empty] /\ snapAt = [p \in Procs |-> Empty]

----------------------------------------------------------------------------
(* Control flow shared by the steps of a process.                          *)

Goto(p, l) == pc' = [pc EXCEPT ![p] = l]
Free(holder, p) == IF holder = p THEN NoProc ELSE holder

(* The commit runs inside recover() until the process has its snapshot.    *)
InRecover(p) == ~snapped[p]

(* Mutants: a failed thaw is added to the client's exit code; a failed     *)
(* commit leaves the exit code alone.                                      *)
MFinalRc(p, r) == IF thaw_failed[p] THEN r + 4 ELSE r
MCommitRc(p) == rc[p]

(* consistent_backup's return code: 3 after a failed commit, 4 after a     *)
(* failed thaw, the backup client's own otherwise.                         *)
FinalRc(p, r) == IF thaw_failed[p] /\ r = 0 THEN 4 ELSE r
CommitRc(p) == FinalRc(p, IF rc[p] = 0 THEN 3 ELSE rc[p])

(* Mutant: qemu.init ignores the status of qemu-backup --recover.          *)
MRecoverFails(p) ==
  Goto(p, IF mode[p] = "start" THEN "boot" ELSE "agent") /\ UNCHANGED rc

(* recover() returned an error: qemu.init refuses to start, a backup goes  *)
(* on without a snapshot.                                                  *)
RecoverFails(p) ==
  IF mode[p] = "start"
  THEN Goto(p, "done") /\ rc' = [rc EXCEPT ![p] = 1]
  ELSE Goto(p, "agent") /\ UNCHANGED rc

RecoverReturns(p) ==
  Goto(p, IF mode[p] = "start" THEN "boot" ELSE "open") /\ UNCHANGED rc

(* Mutant: the error of commit() is ignored.                               *)
MCommitFails(p) == qmp' = qmp /\ Goto(p, "unlink") /\ UNCHANGED rc

(* commit() returned an error; the QMP connection is closed.               *)
CommitFails(p) ==
  /\ qmp' = Free(qmp, p)
  /\ IF InRecover(p) THEN RecoverFails(p)
     ELSE Goto(p, "done") /\ rc' = [rc EXCEPT ![p] = CommitRc(p)]

----------------------------------------------------------------------------
(* The steps of qemu-backup.                                               *)

MayBegin(p, m) ==
  \A q \in Procs : Active(q) =>
     CASE Overlap = "none"  -> FALSE
       [] Overlap = "start" -> m = "start" \/ mode[q] = "start"
       [] OTHER             -> TRUE

(* The plan is made: whether the VM runs is looked at only here.           *)
Begin(p, m) ==
  /\ ~Active(p) /\ runs < MaxRuns /\ MayBegin(p, m)
  /\ runs' = runs + 1
  /\ Goto(p, IF m = "start" THEN "recover"
             ELSE IF vm = "on" THEN "check" ELSE "read")
  /\ mode' = [mode EXCEPT ![p] = m]
  /\ running' = [running EXCEPT ![p] = (vm = "on")]
  /\ frozen' = [frozen EXCEPT ![p] = FALSE]
  /\ snapped' = [snapped EXCEPT ![p] = FALSE]
  /\ thaw_failed' = [thaw_failed EXCEPT ![p] = FALSE]
  /\ rc' = [rc EXCEPT ![p] = 0]
  /\ image' = [image EXCEPT ![p] = Empty]
  /\ snapAt' = [snapAt EXCEPT ![p] = Empty]
  /\ UNCHANGED <<disk, guest, nwr, qemu, conns>>

Check(p) ==
  /\ pc[p] = "check"
  /\ Goto(p, IF exists THEN "recover" ELSE "open")
  /\ UNCHANGED <<disk, hist, qemu, conns, rc, local>>

Recover(p) ==
  /\ pc[p] = "recover"
  /\ IF exists
     THEN Goto(p, IF running[p] THEN "ropen" ELSE "offline") /\ UNCHANGED rc
     ELSE RecoverReturns(p)
  /\ UNCHANGED <<disk, hist, qemu, conns, local>>

(* qemu-img commit: writes the overlay into the base and empties it; the   *)
(* image lock of a running QEMU makes it fail.                             *)
OfflineCommit(p) ==
  /\ pc[p] = "offline"
  /\ \/ /\ vm = "off" /\ exists
        /\ base' = Merged /\ ovl' = Empty /\ home' = "base"
        /\ Goto(p, "unlink") /\ UNCHANGED rc
     \/ /\ vm = "off" /\ exists /\ Can("offline_fail")
        /\ \E B \in SUBSET Blocks :
             base' = [b \in Blocks |-> IF b \in B THEN Merged[b] ELSE base[b]]
        /\ RecoverFails(p) /\ UNCHANGED <<ovl, home>>
     \/ /\ vm = "on" \/ ~exists
        /\ RecoverFails(p) /\ UNCHANGED <<base, ovl, home>>
  /\ UNCHANGED <<exists, hist, qemu, conns, local>>

(* qmp_open and query-block: only the overlay itself is committed.         *)
OpenForRecover(p) ==
  /\ pc[p] = "ropen"
  /\ \/ /\ vm = "on" /\ qmp = NoProc /\ home = "ovl"
        /\ qmp' = p /\ Goto(p, "block-commit") /\ UNCHANGED rc
     \/ /\ vm = "off" \/ qmp # NoProc \/ home = "base" \/ Can("timeout")
        /\ RecoverFails(p) /\ UNCHANGED qmp
  /\ UNCHANGED <<disk, hist, qemu, agent, frozenBy, local>>

OpenForSnapshot(p) ==
  /\ pc[p] = "open"
  /\ \/ vm = "on" /\ qmp = NoProc /\ qmp' = p
     \/ (vm = "off" \/ qmp # NoProc \/ Can("timeout")) /\ UNCHANGED qmp
  /\ Goto(p, "agent")
  /\ UNCHANGED <<disk, hist, qemu, agent, frozenBy, rc, local>>

(* agent_open, guest-fsfreeze-status and the thaw of a stale freeze, which *)
(* may fail unnoticed; no agent (not configured, not running, busy): on to *)
(* the snapshot.                                                           *)
OpenAgent(p) ==
  /\ pc[p] = "agent"
  /\ \/ /\ vm = "on" /\ agent = NoProc
        /\ agent' = p /\ Goto(p, "freeze")
        /\ frozenBy' \in {NoProc} \cup (IF Can("thaw_fail") THEN {frozenBy} ELSE {})
     \/ Goto(p, "snapshot") /\ UNCHANGED <<agent, frozenBy>>
  /\ UNCHANGED <<disk, hist, qemu, qmp, rc, local>>

(* The agent refuses to freeze a guest that is still frozen.               *)
Freeze(p) ==
  /\ pc[p] = "freeze"
  /\ \/ /\ agent = p /\ frozenBy = NoProc
        /\ frozenBy' = p /\ frozen' = [frozen EXCEPT ![p] = TRUE]
     \/ UNCHANGED <<frozenBy, frozen>>
     \/ /\ agent = p /\ frozenBy = NoProc /\ Can("agent_timeout")
        /\ frozenBy' = p /\ UNCHANGED frozen
  /\ Goto(p, "snapshot")
  /\ UNCHANGED <<disk, hist, qemu, qmp, agent, rc, mode, running, snapped,
                 thaw_failed, image, snapAt>>

(* Mutant: a refused snapshot is taken for one that succeeded.             *)
MSnapshot(p) ==
  /\ pc[p] = "snapshot"
  /\ \/ /\ qmp = p /\ home = "base" /\ job = "none"
        /\ home' = "ovl" /\ exists' = TRUE /\ ovl' = Empty
        /\ snapAt' = [snapAt EXCEPT ![p] = base]
     \/ UNCHANGED <<home, exists, ovl, snapAt>>
  /\ snapped' = [snapped EXCEPT ![p] = TRUE] /\ Goto(p, "thaw")
  /\ UNCHANGED <<base, hist, qemu, conns, rc, mode, running, frozen,
                 thaw_failed, image>>

(* blockdev-snapshot-sync: QEMU creates an empty overlay over the base and *)
(* moves the VM onto it.  The reply may be lost.                           *)
Snapshot(p) ==
  /\ pc[p] = "snapshot"
  /\ \/ /\ qmp = p /\ home = "base" /\ job = "none"
        /\ home' = "ovl" /\ exists' = TRUE /\ ovl' = Empty
        /\ snapAt' = [snapAt EXCEPT ![p] = base]
        /\ \/ snapped' = [snapped EXCEPT ![p] = TRUE]
           \/ Can("timeout") /\ UNCHANGED snapped
     \/ UNCHANGED <<home, exists, ovl, snapped, snapAt>>
  /\ Goto(p, "thaw")
  /\ UNCHANGED <<base, hist, qemu, conns, rc, mode, running, frozen,
                 thaw_failed, image>>

(* Mutant: no thaw when the snapshot failed.                               *)
MThaw(p) ==
  /\ pc[p] = "thaw"
  /\ frozenBy' = IF frozen[p] /\ snapped[p] THEN NoProc ELSE frozenBy
  /\ agent' = Free(agent, p) /\ qmp' = Free(qmp, p)
  /\ Goto(p, "read")
  /\ UNCHANGED <<disk, hist, qemu, rc, local>>

(* thaw() with its retries, then both connections are closed.              *)
Thaw(p) ==
  /\ pc[p] = "thaw"
  /\ \/ ~frozen[p] /\ UNCHANGED <<frozenBy, thaw_failed>>
     \/ frozen[p] /\ agent = p /\ frozenBy' = NoProc /\ UNCHANGED thaw_failed
     \/ /\ frozen[p] /\ (agent # p \/ Can("thaw_fail"))
        /\ thaw_failed' = [thaw_failed EXCEPT ![p] = TRUE]
        /\ UNCHANGED frozenBy
  /\ agent' = Free(agent, p) /\ qmp' = Free(qmp, p)
  /\ Goto(p, "read")
  /\ UNCHANGED <<disk, hist, qemu, rc, mode, running, frozen, snapped, image,
                 snapAt>>

(* The backup client reads the base image block by block.                  *)
Read(p, b) ==
  /\ pc[p] = "read" /\ image[p][b] = Hole
  /\ image' = [image EXCEPT ![p][b] = base[b]]
  /\ UNCHANGED <<disk, hist, qemu, conns, pc, rc, mode, running, frozen,
                 snapped, thaw_failed, snapAt>>

(* backup() returned: 0 when it read everything, an error at any time.     *)
ReadDone(p) ==
  /\ pc[p] = "read"
  /\ \E r \in {0, 1} :
       /\ r = 0 => \A b \in Blocks : image[p][b] # Hole
       /\ rc' = [rc EXCEPT ![p] = IF snapped[p] THEN r ELSE FinalRc(p, r)]
  /\ Goto(p, IF snapped[p] THEN "reopen" ELSE "done")
  /\ UNCHANGED <<disk, hist, qemu, conns, local>>

(* Up to ten attempts to reconnect to QMP.                                 *)
Reopen(p) ==
  /\ pc[p] = "reopen"
  /\ \/ /\ vm = "on" /\ qmp = NoProc
        /\ qmp' = p /\ Goto(p, "block-commit") /\ UNCHANGED rc
     \/ /\ vm = "off" \/ qmp # NoProc \/ Can("timeout")
        /\ CommitFails(p)
  /\ UNCHANGED <<disk, hist, qemu, agent, frozenBy, local>>

(* block-commit fails without an overlay under the device, and while a job *)
(* with the same job-id exists.                                            *)
BlockCommit(p) ==
  /\ pc[p] = "block-commit"
  /\ \/ /\ qmp = p /\ home = "ovl" /\ job = "none"
        /\ job' = "running" /\ synced' = {b \in Blocks : ovl[b] = Hole}
        /\ \/ Goto(p, "ready") /\ UNCHANGED <<qmp, rc>>
           \/ Can("timeout") /\ CommitFails(p)
     \/ /\ qmp # p \/ home = "base" \/ job # "none"
        /\ CommitFails(p) /\ UNCHANGED <<job, synced>>
  /\ UNCHANGED <<disk, hist, vm, procd, agent, frozenBy, local>>

(* Mutant: a job that vanished is waited for.                              *)
MWaitReady(p) ==
  /\ pc[p] = "ready" /\ qmp = p /\ job = "ready"
  /\ Goto(p, "complete")
  /\ UNCHANGED <<disk, hist, qemu, conns, rc, local>>

(* query-block-jobs until the job is ready; commit_timeout_s is a timeout. *)
WaitReady(p) ==
  /\ pc[p] = "ready"
  /\ \/ /\ qmp = p /\ job \in {"ready", "concluding"}
        /\ Goto(p, "complete") /\ UNCHANGED <<qmp, rc>>
     \/ /\ qmp # p \/ job = "none" \/ Can("timeout")
        /\ CommitFails(p)
  /\ UNCHANGED <<disk, hist, qemu, agent, frozenBy, local>>

Complete(p) ==
  /\ pc[p] = "complete"
  /\ \/ /\ qmp = p /\ job = "ready" /\ job' = "concluding"
        /\ \/ Goto(p, "gone") /\ UNCHANGED <<qmp, rc>>
           \/ "timeout" \in Faults /\ "late" \in Faults /\ CommitFails(p)
     \/ /\ qmp # p \/ job # "ready"
        /\ CommitFails(p) /\ UNCHANGED job
  /\ UNCHANGED <<disk, hist, vm, procd, synced, agent, frozenBy, local>>

(* query-block-jobs until the job is gone: commit() returns success.       *)
(* recover() closes the connection before it unlinks the overlay.          *)
WaitGone(p) ==
  /\ pc[p] = "gone"
  /\ \/ /\ qmp = p /\ job = "none"
        /\ qmp' = IF InRecover(p) THEN NoProc ELSE qmp
        /\ Goto(p, "unlink") /\ UNCHANGED rc
     \/ /\ qmp # p \/ Can("timeout")
        /\ CommitFails(p)
  /\ UNCHANGED <<disk, hist, qemu, agent, frozenBy, local>>

Unlink(p) ==
  /\ pc[p] = "unlink"
  /\ LET ok == exists /\ ~exists' IN
     /\ \/ exists' = FALSE
        \/ exists /\ Can("unlink_fail") /\ UNCHANGED exists
     /\ qmp' = Free(qmp, p)
     /\ IF InRecover(p)
        THEN IF ok THEN RecoverReturns(p) ELSE RecoverFails(p)
        ELSE /\ Goto(p, "done")
             /\ rc' = [rc EXCEPT ![p] = FinalRc(p, rc[p])]
  /\ UNCHANGED <<home, base, ovl, hist, qemu, agent, frozenBy, local>>

(* Mutant: a start of a running instance restarts its QEMU.                *)
MBoot(p) ==
  /\ pc[p] = "boot"
  /\ procd' = "up" /\ vm' = "on" /\ home' = "base"
  /\ Goto(p, "done")
  /\ UNCHANGED <<exists, base, ovl, hist, job, synced, conns, rc, local>>

(* start_instance: procd starts QEMU on root_disk; a running instance with *)
(* an unchanged configuration is left alone.                               *)
Boot(p) ==
  /\ pc[p] = "boot"
  /\ procd' = "up" /\ vm' = "on"
  /\ home' = IF vm = "off" THEN "base" ELSE home
  /\ Goto(p, "done")
  /\ UNCHANGED <<exists, base, ovl, hist, job, synced, conns, rc, local>>

(* A killed process leaves the VM, the job and the overlay as they are.    *)
Kill(p) ==
  /\ Active(p) /\ Can("kill")
  /\ Goto(p, "idle")
  /\ qmp' = Free(qmp, p) /\ agent' = Free(agent, p)
  /\ UNCHANGED <<disk, hist, qemu, frozenBy, rc, local>>

----------------------------------------------------------------------------
(* The guest, QEMU's block job and procd.                                  *)

Write(b) ==
  /\ vm = "on" /\ frozenBy = NoProc /\ nwr < MaxWrites
  /\ nwr' = nwr + 1
  /\ guest' = [guest EXCEPT ![b] = nwr + 1]
  /\ IF home = "ovl"
     THEN /\ ovl' = [ovl EXCEPT ![b] = nwr + 1]
          /\ synced' = synced \ {b} /\ UNCHANGED base
     ELSE base' = [base EXCEPT ![b] = nwr + 1] /\ UNCHANGED <<ovl, synced>>
  /\ UNCHANGED <<home, exists, runs, vm, procd, job, conns, pc, rc, local>>

JobCopy(b) ==
  /\ job # "none" /\ b \notin synced
  /\ base' = [base EXCEPT ![b] = ovl[b]]
  /\ synced' = synced \cup {b}
  /\ UNCHANGED <<home, exists, ovl, hist, vm, procd, job, conns, pc, rc, local>>

JobReady ==
  /\ job = "running" /\ synced = Blocks
  /\ job' = "ready"
  /\ UNCHANGED <<disk, hist, vm, procd, synced, conns, pc, rc, local>>

JobPivot ==
  /\ job = "concluding" /\ synced = Blocks
  /\ job' = "none" /\ home' = "base"
  /\ UNCHANGED <<exists, base, ovl, hist, vm, procd, synced, conns, pc, rc,
                 local>>

JobFail ==
  /\ job # "none" /\ Can("job_fail")
  /\ job' = "none"
  /\ UNCHANGED <<disk, hist, vm, procd, synced, conns, pc, rc, local>>

(* The end of QEMU: block job, connections and frozen state go with it; an *)
(* overlay that was unlinked while in use is gone.                         *)
QemuEnds ==
  /\ vm = "on" /\ vm' = "off" /\ job' = "none"
  /\ home' = IF exists THEN home ELSE "base"
  /\ qmp' = NoProc /\ agent' = NoProc /\ frozenBy' = NoProc
  /\ UNCHANGED <<exists, base, ovl, hist, synced, pc, rc, local>>

QemuExit == Can("exit") /\ QemuEnds /\ UNCHANGED procd
Stop     == Can("stop") /\ QemuEnds /\ procd' = "down"

(* procd_set_param respawn: procd runs the same command line, on root_disk *)
Respawn ==
  /\ "respawn" \in Faults /\ procd = "up" /\ vm = "off"
  /\ vm' = "on" /\ home' = "base"
  /\ UNCHANGED <<exists, base, ovl, hist, procd, job, synced, conns, pc, rc,
                 local>>

----------------------------------------------------------------------------
Step(p) ==
  \/ Check(p) \/ Recover(p) \/ OfflineCommit(p) \/ OpenForRecover(p)
  \/ OpenForSnapshot(p) \/ OpenAgent(p) \/ Freeze(p) \/ Snapshot(p) \/ Thaw(p)
  \/ \E b \in Blocks : Read(p, b)
  \/ ReadDone(p) \/ Reopen(p) \/ BlockCommit(p) \/ WaitReady(p)
  \/ Complete(p) \/ WaitGone(p) \/ Unlink(p) \/ Boot(p)

Job == (\E b \in Blocks : JobCopy(b)) \/ JobReady \/ JobPivot

Environment ==
  \/ \E b \in Blocks : Write(b)
  \/ JobFail \/ QemuExit \/ Stop \/ Respawn

Next ==
  \/ \E p \in Procs : (\E m \in {"backup", "start"} : Begin(p, m))
                      \/ Step(p) \/ Kill(p)
  \/ Job
  \/ Environment

Spec == Init /\ [][Next]_vars

(* A process that was started keeps running, and QEMU works on its job.    *)
FairSpec == Spec /\ (\A p \in Procs : WF_vars(Step(p))) /\ WF_vars(Job)

----------------------------------------------------------------------------
(* Types: every variable keeps to its values in every step.                *)
Pcs == {"idle", "check", "recover", "offline", "ropen", "open", "agent",
        "freeze", "snapshot", "thaw", "read", "reopen", "block-commit",
        "ready", "complete", "gone", "unlink", "boot", "done"}
Image == [Blocks -> Nat \cup {Hole}]

TypeOK ==
  /\ vm \in {"off", "on"} /\ procd \in {"down", "up"}
  /\ home \in {"base", "ovl"} /\ exists \in BOOLEAN
  /\ base \in [Blocks -> Nat] /\ ovl \in Image
  /\ guest \in [Blocks -> Nat] /\ nwr \in Nat /\ runs \in Nat
  /\ job \in {"none", "running", "ready", "concluding"}
  /\ synced \in SUBSET Blocks
  /\ qmp \in Procs \cup {NoProc} /\ agent \in Procs \cup {NoProc}
  /\ frozenBy \in Procs \cup {NoProc}
  /\ pc \in [Procs -> Pcs] /\ mode \in [Procs -> {"backup", "start"}]
  /\ running \in [Procs -> BOOLEAN] /\ frozen \in [Procs -> BOOLEAN]
  /\ snapped \in [Procs -> BOOLEAN] /\ thaw_failed \in [Procs -> BOOLEAN]
  /\ rc \in [Procs -> {0, 1, 3, 4}]
  /\ image \in [Procs -> Image] /\ snapAt \in [Procs -> Image]

----------------------------------------------------------------------------
(***************************************************************************)
(* What the package can be counted on for: one process at a time, no       *)
(* restart by procd alone, no event in the merge window, no failing unlink *)
(***************************************************************************)
Tolerated ==
  Overlap = "none" /\ Faults \cap {"respawn", "late", "unlink_fail"} = {}

(* The disk the VM runs on, or will be booted from, always holds exactly   *)
(* what the guest wrote, whatever snapshot, commit, crash or recovery is   *)
(* under way (backup.uc: an overlay is merged before it is deleted and     *)
(* before the VM boots).                                                   *)
NoLostWrite == Tolerated => Content = guest

(* While nothing fails, this holds of overlapping processes, too.          *)
NoLostWriteOverlap == Faults = {} => Content = guest

(* A backup that reports success from a snapshot read the disk as it was   *)
(* at one instant, that of the snapshot (backup.uc:14, "the (now static)   *)
(* base file").                                                            *)
StaticImage ==
  \A p \in Procs :
    pc[p] = "done" /\ mode[p] = "backup" /\ snapped[p] /\ rc[p] = 0
      => image[p] = snapAt[p]

(* ... whatever fails, as long as no two processes run together.           *)
PointInTime == Overlap = "none" => StaticImage

(* ... and even if the VM is stopped, started or reloaded meanwhile, as    *)
(* long as backups do not overlap and the commit job meets no I/O error.   *)
PointInTimeDuringStart ==
  Overlap \in {"none", "start"} /\ "job_fail" \notin Faults => StaticImage

(* The overlay is deleted only when the VM is back on the base and the     *)
(* base holds every write (backup.uc:20).                                  *)
UnlinkMerged == [][exists /\ ~exists' => home = "base" /\ base = guest]_vars

(* A VM left on the overlay is reported: a backup that took a snapshot and *)
(* ends while the VM is still on the overlay has an exit code other than 0.*)
OverlayReported ==
  [][Tolerated => \A p \in Procs :
       pc[p] # "done" /\ pc'[p] = "done" /\ snapped[p] /\ home' = "ovl"
         => rc'[p] # 0]_vars

(* The offline merge of a leftover overlay loses no write (README.md:81).  *)
MergeKeepsWrites ==
  [][\A p \in Procs : pc[p] = "offline" /\ pc'[p] = "unlink"
        => base' = guest]_vars

(* Every run of qemu-backup comes to an end.                               *)
Terminates == \A p \in Procs : Active(p) ~> ~Active(p)

(* A process that froze the guest thaws it or reports that it could not,   *)
(* unless it is killed.                                                    *)
Thawed ==
  \A p \in Procs :
    frozen[p] /\ frozenBy = p
      ~> frozenBy # p \/ thaw_failed[p] \/ pc[p] = "idle"

=============================================================================
