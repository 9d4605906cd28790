-------------------------- MODULE QemuBackup_proofs --------------------------
(***************************************************************************)
(* Theorems about QemuBackup, for every set of blocks and processes and    *)
(* every set of environment events.                                        *)
(***************************************************************************)
EXTENDS QemuBackup, TLAPS

(***************************************************************************)
(* TypeOK is not inductive: JobCopy writes ovl[b] into the base, which is  *)
(* a write number only because the job never leaves a hole unsynced, and   *)
(* the job lives no longer than the QEMU process it runs in.               *)
(***************************************************************************)
JobTypeOK ==
  /\ job # "none" => vm = "on" /\ home = "ovl"
  /\ job # "none" => \A b \in Blocks \ synced : ovl[b] # Hole
  /\ qmp # NoProc => vm = "on"

TInv == TypeOK /\ JobTypeOK

LEMMA InitTInv == Init => TInv
<1> SUFFICES ASSUME Init PROVE TInv
  OBVIOUS
<1>1. Empty \in Image
  BY DEF Empty, Image
<1>2. Zero \in [Blocks -> Nat]
  BY DEF Zero
<1>3. /\ pc \in [Procs -> Pcs] /\ mode \in [Procs -> {"backup", "start"}]
      /\ rc \in [Procs -> {0, 1, 3, 4}]
      /\ image \in [Procs -> Image] /\ snapAt \in [Procs -> Image]
  BY <1>1 DEF Init, Pcs
<1>4. /\ vm \in {"off", "on"} /\ procd \in {"down", "up"}
  BY DEF Init
<1> QED
  BY <1>1, <1>2, <1>3, <1>4 DEF Init, TInv, TypeOK, JobTypeOK

(* The steps of a process that leave the disk and the block job alone.     *)
LEMMA ControlTInv ==
  ASSUME TInv, NEW p \in Procs,
         \/ \E m \in {"backup", "start"} : Begin(p, m)
         \/ Check(p) \/ Recover(p) \/ OpenForRecover(p) \/ OpenForSnapshot(p)
         \/ OpenAgent(p) \/ Freeze(p) \/ Thaw(p) \/ Kill(p)
         \/ ReadDone(p) \/ Reopen(p) \/ WaitReady(p) \/ WaitGone(p)
  PROVE  TInv'
<1> USE DEF TInv, TypeOK, JobTypeOK, Pcs, disk, hist, qemu, conns, local,
            Goto, Free, InRecover, FinalRc, CommitRc, RecoverFails,
            RecoverReturns, CommitFails
<1>1. CASE \E m \in {"backup", "start"} : Begin(p, m)
  BY <1>1 DEF Begin, Empty, Image, Hole
<1>2. CASE Check(p)
  BY <1>2 DEF Check
<1>3. CASE Recover(p)
  BY <1>3 DEF Recover
<1>4. CASE OpenForRecover(p)
  BY <1>4 DEF OpenForRecover
<1>5. CASE OpenForSnapshot(p)
  BY <1>5 DEF OpenForSnapshot
<1>6. CASE OpenAgent(p)
  BY <1>6 DEF OpenAgent
<1>7. CASE Freeze(p)
  BY <1>7 DEF Freeze
<1>8. CASE Thaw(p)
  BY <1>8 DEF Thaw
<1>9. CASE Kill(p)
  BY <1>9 DEF Kill
<1>10. CASE ReadDone(p)
  BY <1>10 DEF ReadDone
<1>11. CASE Reopen(p)
  BY <1>11 DEF Reopen
<1>12. CASE WaitReady(p)
  BY <1>12 DEF WaitReady
<1>13. CASE WaitGone(p)
  BY <1>13 DEF WaitGone
<1> QED
  BY <1>1, <1>2, <1>3, <1>4, <1>5, <1>6, <1>7, <1>8, <1>9, <1>10, <1>11,
     <1>12, <1>13

(* The steps of a process that change the disk, the job or the VM.         *)
LEMMA DiskTInv ==
  ASSUME TInv, NEW p \in Procs,
         \/ OfflineCommit(p) \/ Snapshot(p) \/ (\E b \in Blocks : Read(p, b))
         \/ BlockCommit(p) \/ Complete(p) \/ Unlink(p) \/ Boot(p)
  PROVE  TInv'
<1> USE DEF TInv, TypeOK, JobTypeOK, Pcs, disk, hist, qemu, conns, local,
            Goto, Free, InRecover, FinalRc, CommitRc, RecoverFails,
            RecoverReturns, CommitFails
<1>1. CASE OfflineCommit(p)
  <2>1. Merged \in [Blocks -> Nat] /\ Empty \in Image
    BY DEF Merged, Empty, Image
  <2>2. base' \in [Blocks -> Nat]
    BY <1>1, <2>1 DEF OfflineCommit
  <2>3. /\ ovl' \in Image /\ home' \in {"base", "ovl"}
        /\ job # "none" => ovl' = ovl /\ home' = home
    BY <1>1, <2>1 DEF OfflineCommit
  <2>4. pc' \in [Procs -> Pcs] /\ rc' \in [Procs -> {0, 1, 3, 4}]
    BY <1>1 DEF OfflineCommit
  <2> QED
    BY <1>1, <2>2, <2>3, <2>4 DEF OfflineCommit
<1>2. CASE Snapshot(p)
  <2>1. Empty \in Image /\ base \in Image
    BY DEF Empty, Image
  <2>2. snapAt' \in [Procs -> Image]
    BY <1>2, <2>1 DEF Snapshot
  <2>3. snapped' \in [Procs -> BOOLEAN] /\ pc' \in [Procs -> Pcs]
    BY <1>2 DEF Snapshot
  <2>4. /\ home' \in {"base", "ovl"} /\ exists' \in BOOLEAN
        /\ ovl' \in Image
        /\ job' # "none" => home' = "ovl" /\ ovl' = ovl
    BY <1>2, <2>1 DEF Snapshot
  <2> QED
    BY <1>2, <2>2, <2>3, <2>4 DEF Snapshot
<1>3. CASE \E b \in Blocks : Read(p, b)
  <2>1. PICK b \in Blocks : Read(p, b)
    BY <1>3
  <2>2. [image[p] EXCEPT ![b] = base[b]] \in Image
    BY DEF Image
  <2>3. image' \in [Procs -> Image]
    BY <2>1, <2>2 DEF Read
  <2> QED
    BY <2>1, <2>3 DEF Read
<1>4. CASE BlockCommit(p)
  BY <1>4, ProcsAssumption DEF BlockCommit
<1>5. CASE Complete(p)
  BY <1>5 DEF Complete
<1>6. CASE Unlink(p)
  BY <1>6 DEF Unlink
<1>7. CASE Boot(p)
  BY <1>7 DEF Boot
<1> QED
  BY <1>1, <1>2, <1>3, <1>4, <1>5, <1>6, <1>7

LEMMA EnvironmentTInv ==
  ASSUME TInv, Job \/ Environment
  PROVE  TInv'
<1> USE DEF TInv, TypeOK, JobTypeOK, disk, hist, qemu, conns, local
<1>1. CASE \E b \in Blocks : Write(b)
  <2>1. PICK b \in Blocks : Write(b)
    BY <1>1
  <2>2. /\ guest' \in [Blocks -> Nat] /\ base' \in [Blocks -> Nat]
        /\ nwr' \in Nat /\ synced' \in SUBSET Blocks
    BY <2>1 DEF Write
  <2>. DEFINE w == nwr + 1
  <2>3. w \in Nat /\ w # Hole
    BY DEF Hole
  <2>4. ovl' = IF home = "ovl" THEN [ovl EXCEPT ![b] = w] ELSE ovl
    BY <2>1 DEF Write
  <2>5. synced' = IF home = "ovl" THEN synced \ {b} ELSE synced
    BY <2>1 DEF Write
  <2>. HIDE DEF w
  <2>6. ovl' \in Image
    BY <2>3, <2>4 DEF Image
  <2>7. job # "none" => \A c \in Blocks \ synced' : ovl'[c] # Hole
    BY <2>3, <2>4, <2>5 DEF Image
  <2> QED
    BY <2>1, <2>2, <2>6, <2>7 DEF Write
<1>2. CASE \E b \in Blocks : JobCopy(b)
  BY <1>2 DEF JobCopy, Image, Hole
<1>3. CASE JobReady \/ JobPivot \/ JobFail
  BY <1>3 DEF JobReady, JobPivot, JobFail
<1>4. CASE QemuExit \/ Stop
  BY <1>4 DEF QemuExit, Stop, QemuEnds
<1>5. CASE Respawn
  BY <1>5 DEF Respawn
<1> QED
  BY <1>1, <1>2, <1>3, <1>4, <1>5 DEF Job, Environment

LEMMA NextTInv == TInv /\ [Next]_vars => TInv'
<1> SUFFICES ASSUME TInv, [Next]_vars PROVE TInv'
  OBVIOUS
<1>1. CASE UNCHANGED vars
  BY <1>1 DEF TInv, TypeOK, JobTypeOK, vars, disk, hist, qemu, conns, local
<1>2. CASE Next
  BY <1>2, ControlTInv, DiskTInv, EnvironmentTInv DEF Next, Step
<1> QED
  BY <1>1, <1>2

(* Every variable keeps its type, whatever the environment does.           *)
THEOREM TypeCorrect == Spec => []TypeOK
<1>1. TInv => TypeOK
  BY DEF TInv
<1> QED
  BY <1>1, InitTInv, NextTInv, PTL DEF Spec

----------------------------------------------------------------------------
(***************************************************************************)
(* No guest write is lost.  The inductive invariant says where the         *)
(* overlay may lie around: under the VM (InUse), or merged and about to be *)
(* unlinked by the one process that runs (Stale, Gone, Merging).           *)
(***************************************************************************)
Serial  == \A p, q \in Procs : Active(p) /\ Active(q) => p = q
InUse   == home = "ovl" => exists
Synced  == job # "none" => \A b \in synced : ovl[b] = Hole \/ base[b] = ovl[b]
Concluding ==
  job = "concluding" => \E p \in Procs : pc[p] = "gone" /\ qmp = p
Stale ==
  home = "base" /\ exists /\ ovl # Empty
    => \E p \in Procs : pc[p] = "unlink" \/ (pc[p] = "gone" /\ qmp = p)
Gone   == \A p \in Procs : pc[p] = "gone" => job = "concluding" \/ home = "base"
Merging == \A p \in Procs : pc[p] \in {"unlink", "boot"} => home = "base"
NInv ==
  /\ TInv /\ Serial /\ InUse /\ Synced /\ Concluding /\ Stale /\ Gone /\ Merging
  /\ Content = guest

(* The part of NInv that is about types and the guest's data, and the part *)
(* that is about who is where.                                             *)
Where == Serial /\ InUse /\ Concluding /\ Stale /\ Gone /\ Merging

LEMMA InitNInv == Init => NInv
<1> SUFFICES ASSUME Init PROVE NInv
  OBVIOUS
<1>1. TInv
  BY InitTInv
<1>2. Serial
  BY DEF Init, Serial, Active
<1>3. InUse /\ Synced /\ Concluding /\ Gone /\ Merging /\ Stale
  BY DEF Init, InUse, Synced, Concluding, Gone, Merging, Stale
<1>4. Content = guest
  BY DEF Init, Content
<1> QED
  BY <1>1, <1>2, <1>3, <1>4 DEF NInv

(* A process at work is the only one.                                      *)
LEMMA Alone ==
  ASSUME Serial, NEW p \in Procs, NEW q \in Procs, Active(p), q # p
  PROVE  pc[q] \in {"idle", "done"}
BY DEF Serial, Active

(* Only the process at work holds the window open.                         *)
LEMMA NoWindow ==
  ASSUME NInv, NEW p \in Procs, Active(p), pc[p] \notin {"gone", "unlink"}
  PROVE  ~Window
<1> SUFFICES ASSUME Window PROVE FALSE
  OBVIOUS
<1>1. PICK q \in Procs : pc[q] \in {"gone", "unlink"}
  BY DEF Window, NInv, Concluding, Stale
<1>2. q # p
  BY <1>1
<1> QED
  BY <1>1, <1>2, Alone DEF NInv

LEMMA SerialStep ==
  ASSUME TInv, Serial, NEW p \in Procs, NEW l \in Pcs,
         pc' = [pc EXCEPT ![p] = l],
         Active(p) \/ (\A q \in Procs : ~Active(q))
  PROVE  Serial'
<1>1. pc \in [Procs -> Pcs]
  BY DEF TInv, TypeOK
<1> SUFFICES ASSUME NEW q \in Procs, NEW r \in Procs, Active(q)', Active(r)'
             PROVE  q = r
  BY DEF Serial
<1>2. \A x \in Procs : x # p => (Active(x)' <=> Active(x))
  BY <1>1 DEF Active
<1> QED
  BY <1>2 DEF Serial

LEMMA StepSerial ==
  ASSUME NInv, NEW p \in Procs, NEW l \in Pcs, pc' = [pc EXCEPT ![p] = l],
         Active(p) \/ (\A q \in Procs : ~Active(q))
  PROVE  Serial'
BY SerialStep DEF NInv

(* What follows from the whereabouts when process p takes a step that      *)
(* leaves the disk and the job alone and does not start a merge.           *)
LEMMA ControlWhere ==
  ASSUME NInv, NEW p \in Procs, ~Window,
         UNCHANGED <<home, exists, base, ovl, job>>,
         NEW l \in Pcs \ {"gone"}, pc' = [pc EXCEPT ![p] = l],
         l \in {"unlink", "boot"} => home = "base",
         Active(p) \/ (\A q \in Procs : ~Active(q))
  PROVE  Where'
<1>1. pc \in [Procs -> Pcs]
  BY DEF NInv, TInv, TypeOK
<1>2. Serial'
  BY StepSerial
<1>3. InUse'
  BY DEF NInv, InUse
<1>4. Concluding' /\ Stale'
  BY DEF NInv, Concluding, Stale, Window, Empty
<1>5. Gone' /\ Merging'
  BY <1>1 DEF NInv, Gone, Merging
<1> QED
  BY <1>2, <1>3, <1>4, <1>5 DEF Where

LEMMA SameContent ==
  ASSUME UNCHANGED <<home, base, ovl, guest>>, Content = guest PROVE (Content = guest)'
BY DEF Content, Merged

LEMMA SameSynced ==
  ASSUME UNCHANGED <<base, ovl, job, synced>>, Synced PROVE Synced'
BY DEF Synced

LEMMA ControlNInv ==
  ASSUME NInv, Tolerated, NEW p \in Procs,
         \/ \E m \in {"backup", "start"} : Begin(p, m)
         \/ Check(p) \/ Recover(p) \/ OpenForRecover(p) \/ OpenForSnapshot(p)
         \/ OpenAgent(p) \/ Freeze(p) \/ Thaw(p)
         \/ ReadDone(p) \/ Reopen(p) \/ WaitReady(p)
  PROVE  Where' /\ Synced' /\ (Content = guest)'
<1> USE DEF disk, hist, qemu, Goto
<1>1. UNCHANGED <<home, exists, base, ovl, guest, job, synced>>
  BY DEF Begin, Check, Recover, OpenForRecover, OpenForSnapshot, OpenAgent,
         Freeze, Thaw, ReadDone, Reopen, WaitReady
<1>2. Synced' /\ (Content = guest)'
  BY <1>1, SameContent, SameSynced DEF NInv
<1>3. PICK l \in Pcs : /\ pc' = [pc EXCEPT ![p] = l]
                       /\ l \notin {"unlink", "gone"}
                       /\ l = "boot" => home = "base"
  <2> USE DEF Pcs, RecoverReturns, RecoverFails, CommitFails
  <2>1. CASE \E m \in {"backup", "start"} : Begin(p, m)
    BY <2>1 DEF Begin
  <2>2. CASE Recover(p)
    BY <2>2 DEF Recover, NInv, InUse, TInv, TypeOK
  <2>3. CASE Check(p) \/ OpenForRecover(p) \/ OpenForSnapshot(p) \/ OpenAgent(p)
    BY <2>3 DEF Check, OpenForRecover, OpenForSnapshot, OpenAgent
  <2>4. CASE Freeze(p) \/ Thaw(p) \/ ReadDone(p) \/ Reopen(p) \/ WaitReady(p)
    BY <2>4 DEF Freeze, Thaw, ReadDone, Reopen, WaitReady
  <2> QED
    BY <2>1, <2>2, <2>3, <2>4
<1>a. /\ UNCHANGED <<home, exists, base, ovl, job>> /\ l \in Pcs \ {"gone"}
      /\ l \in {"unlink", "boot"} => home = "base"
  BY <1>1, <1>3
<1>4. CASE \E m \in {"backup", "start"} : Begin(p, m)
  <2>1. \A q \in Procs : ~Active(q)
    BY <1>4 DEF Begin, MayBegin, Tolerated
  <2>2. ~Window
    BY <2>1 DEF NInv, Window, Concluding, Stale, Active
  <2> QED
    BY <1>2, <1>3, <1>a, <2>1, <2>2, ControlWhere
<1>5. CASE ~\E m \in {"backup", "start"} : Begin(p, m)
  <2>1. Active(p) /\ pc[p] \notin {"gone", "unlink"}
    BY <1>5 DEF Active, Check, Recover, OpenForRecover, OpenForSnapshot,
                OpenAgent, Freeze, Thaw, ReadDone, Reopen, WaitReady
  <2>2. ~Window
    BY <2>1, NoWindow
  <2> QED
    BY <1>2, <1>3, <1>a, <2>1, <2>2, ControlWhere
<1> QED
  BY <1>4, <1>5

LEMMA KillNInv ==
  ASSUME NInv, Tolerated, NEW p \in Procs, Kill(p)
  PROVE  Where' /\ Synced' /\ (Content = guest)'
<1>1. UNCHANGED <<home, exists, base, ovl, guest, job, synced>>
  BY DEF Kill, disk, hist, qemu
<1>2. Synced' /\ (Content = guest)'
  BY <1>1, SameContent, SameSynced DEF NInv
<1>3. Active(p) /\ ~Window /\ pc' = [pc EXCEPT ![p] = "idle"]
  BY DEF Kill, Can, Tolerated, Goto
<1>4. "idle" \in Pcs
  BY DEF Pcs
<1> QED
  BY <1>1, <1>2, <1>3, <1>4, ControlWhere

LEMMA OfflineCommitNInv ==
  ASSUME NInv, Tolerated, NEW p \in Procs, OfflineCommit(p)
  PROVE  Where' /\ Synced' /\ (Content = guest)'
<1>1. Active(p) /\ ~Window
  BY NoWindow DEF OfflineCommit, Active
<1>2. /\ pc \in [Procs -> Pcs] /\ base \in [Blocks -> Nat] /\ ovl \in Image
      /\ home \in {"base", "ovl"}
  BY DEF NInv, TInv, TypeOK
<1>3. UNCHANGED <<exists, guest, job, synced, vm>>
  BY DEF OfflineCommit, hist, qemu
<1>4. home = "base" /\ exists => Merged = base
  BY <1>1, <1>2 DEF Window, Merged, Empty
<1>5. vm = "off" => job = "none"
  BY DEF NInv, TInv, TypeOK, JobTypeOK
<1>6. CASE vm = "off" /\ exists /\ base' = Merged /\ ovl' = Empty
           /\ home' = "base" /\ Goto(p, "unlink")
  <2>1. (Content = guest)'
    BY <1>2, <1>3, <1>4, <1>6 DEF Content, NInv
  <2>2. Serial'
    BY <1>1, <1>6, StepSerial DEF Goto, Pcs
  <2>3. Where'
    BY <1>3, <1>5, <1>6, <2>2
       DEF Where, InUse, Concluding, Stale, Gone, Merging, Empty
  <2> QED
    BY <1>3, <1>5, <1>6, <2>1, <2>3 DEF Synced
<1>7. CASE vm = "off" /\ exists /\ RecoverFails(p) /\ UNCHANGED <<ovl, home>>
           /\ \E B \in SUBSET Blocks :
                base' = [b \in Blocks |-> IF b \in B THEN Merged[b] ELSE base[b]]
  <2>1. PICK l \in {"done", "agent"} : pc' = [pc EXCEPT ![p] = l]
    BY <1>7 DEF RecoverFails, Goto
  <2>2. home = "base" => base' = base
    BY <1>2, <1>4, <1>7
  <2>3. Merged' = Merged
    BY <1>2, <1>7 DEF Merged
  <2>4. (Content = guest)'
    BY <1>2, <1>3, <1>7, <2>2, <2>3 DEF Content, NInv
  <2>5. Serial'
    BY <1>1, <2>1, StepSerial DEF Pcs
  <2>6. InUse' /\ Concluding' /\ Stale'
    BY <1>1, <1>3, <1>7 DEF InUse, Concluding, Stale, NInv, Window, Empty
  <2>7. Gone' /\ Merging'
    BY <1>2, <1>3, <1>7, <2>1 DEF Gone, Merging, NInv
  <2>8. Where'
    BY <2>5, <2>6, <2>7 DEF Where
  <2> QED
    BY <1>3, <1>5, <1>7, <2>4, <2>8 DEF Synced
<1>8. CASE RecoverFails(p) /\ UNCHANGED <<base, ovl, home>>
  <2>1. PICK l \in {"done", "agent"} : pc' = [pc EXCEPT ![p] = l]
    BY <1>8 DEF RecoverFails, Goto
  <2>2. Where'
    BY <1>1, <1>3, <1>8, <2>1, ControlWhere DEF Pcs
  <2> QED
    BY <1>3, <1>8, <2>2, SameContent, SameSynced DEF NInv
<1> QED
  BY <1>6, <1>7, <1>8 DEF OfflineCommit

LEMMA SnapshotNInv ==
  ASSUME NInv, Tolerated, NEW p \in Procs, Snapshot(p)
  PROVE  Where' /\ Synced' /\ (Content = guest)'
<1>1. Active(p) /\ ~Window /\ pc' = [pc EXCEPT ![p] = "thaw"]
  BY NoWindow DEF Snapshot, Active, Goto
<1>2. pc \in [Procs -> Pcs] /\ base \in [Blocks -> Nat] /\ "thaw" \in Pcs
  BY DEF NInv, TInv, TypeOK, Pcs
<1>3. UNCHANGED <<base, guest, job, synced>>
  BY DEF Snapshot, hist, qemu
<1>4. CASE home = "base" /\ job = "none" /\ home' = "ovl" /\ exists' = TRUE
           /\ ovl' = Empty
  <2>1. Merged' = base
    BY <1>2, <1>3, <1>4 DEF Merged, Empty
  <2>2. (Content = guest)'
    BY <1>3, <1>4, <2>1 DEF Content, NInv
  <2>3. Serial'
    BY <1>1, <1>2, StepSerial
  <2>4. \A q \in Procs : pc'[q] \notin {"gone", "unlink", "boot"}
    BY <1>1, <1>2, Alone DEF NInv
  <2>5. Where'
    BY <1>3, <1>4, <2>3, <2>4
       DEF Where, InUse, Concluding, Stale, Gone, Merging
  <2> QED
    BY <1>3, <1>4, <2>2, <2>5 DEF Synced
<1>5. CASE UNCHANGED <<home, exists, ovl>>
  BY <1>1, <1>2, <1>3, <1>5, ControlWhere, SameContent, SameSynced DEF NInv
<1> QED
  BY <1>4, <1>5 DEF Snapshot

LEMMA ReadNInv ==
  ASSUME NInv, Tolerated, NEW p \in Procs, NEW b \in Blocks, Read(p, b)
  PROVE  Where' /\ Synced' /\ (Content = guest)'
<1>1. UNCHANGED <<home, exists, base, ovl, guest, job, synced, pc, qmp>>
  BY DEF Read, disk, hist, qemu, conns
<1> QED
  BY <1>1, SameContent, SameSynced
     DEF NInv, Where, Serial, Active, InUse, Concluding, Stale, Gone, Merging,
         Empty

LEMMA BlockCommitNInv ==
  ASSUME NInv, Tolerated, NEW p \in Procs, BlockCommit(p)
  PROVE  Where' /\ Synced' /\ (Content = guest)'
<1>1. Active(p) /\ ~Window
  BY NoWindow DEF BlockCommit, Active
<1>2. UNCHANGED <<home, exists, base, ovl, guest>>
  BY DEF BlockCommit, disk, hist
<1>3. PICK l \in {"ready", "done", "agent"} : pc' = [pc EXCEPT ![p] = l]
  BY DEF BlockCommit, Goto, CommitFails, RecoverFails
<1>4. \/ UNCHANGED <<job, synced>>
      \/ job' = "running" /\ synced' = {b \in Blocks : ovl[b] = Hole}
  BY DEF BlockCommit
<1>5. Serial'
  BY <1>1, <1>3, StepSerial DEF Pcs
<1>6. \A q \in Procs : pc'[q] \notin {"gone", "unlink", "boot"}
  BY <1>1, <1>3, Alone DEF NInv, TInv, TypeOK, BlockCommit
<1>7. Where'
  BY <1>1, <1>2, <1>4, <1>5, <1>6
     DEF NInv, Where, InUse, Concluding, Stale, Gone, Merging, Window, Empty
<1>8. Synced'
  BY <1>2, <1>4 DEF NInv, Synced
<1> QED
  BY <1>2, <1>7, <1>8, SameContent DEF NInv

LEMMA CompleteNInv ==
  ASSUME NInv, Tolerated, NEW p \in Procs, Complete(p)
  PROVE  Where' /\ Synced' /\ (Content = guest)'
<1>1. Active(p) /\ ~Window
  BY NoWindow DEF Complete, Active
<1>2. UNCHANGED <<home, exists, base, ovl, guest, synced>>
  BY DEF Complete, disk, hist
<1>3. CASE qmp = p /\ job = "ready" /\ job' = "concluding" /\ qmp' = qmp
           /\ Goto(p, "gone")
  <2>1. /\ pc' = [pc EXCEPT ![p] = "gone"] /\ pc \in [Procs -> Pcs]
        /\ home = "ovl" /\ exists
    BY <1>3 DEF Goto, NInv, TInv, TypeOK, JobTypeOK, InUse
  <2>2. Serial'
    BY <1>1, <2>1, StepSerial DEF Pcs
  <2>3. pc'[p] = "gone" /\ \A q \in Procs : pc'[q] \notin {"unlink", "boot"}
    BY <1>1, <2>1, Alone DEF NInv
  <2>4. Where'
    BY <1>2, <1>3, <2>1, <2>2, <2>3
       DEF Where, InUse, Concluding, Stale, Gone, Merging
  <2> QED
    BY <1>2, <1>3, <2>4, SameContent DEF NInv, Synced
<1>4. CASE job # "ready" \/ qmp # p
  <2>1. job' = job
    BY <1>4 DEF Complete
  <2>2. PICK l \in {"done", "agent"} : pc' = [pc EXCEPT ![p] = l]
    BY <1>4 DEF Complete, Goto, CommitFails, RecoverFails
  <2>3. Where'
    BY <1>1, <1>2, <2>1, <2>2, ControlWhere DEF Pcs
  <2> QED
    BY <1>2, <2>1, <2>3, SameContent, SameSynced DEF NInv
<1> QED
  BY <1>3, <1>4 DEF Complete, Tolerated

LEMMA WaitGoneNInv ==
  ASSUME NInv, Tolerated, NEW p \in Procs, WaitGone(p)
  PROVE  Where' /\ Synced' /\ (Content = guest)'
<1>1. Active(p) /\ pc[p] = "gone"
  BY DEF WaitGone, Active
<1>2. UNCHANGED <<home, exists, base, ovl, guest, job, synced>>
  BY DEF WaitGone, disk, hist, qemu
<1>3. pc \in [Procs -> Pcs]
  BY DEF NInv, TInv, TypeOK
<1>4. CASE qmp = p /\ job = "none" /\ Goto(p, "unlink")
  <2>1. pc' = [pc EXCEPT ![p] = "unlink"] /\ home = "base"
    BY <1>1, <1>4 DEF Goto, NInv, Gone
  <2>2. Serial'
    BY <1>1, <2>1, StepSerial DEF Pcs
  <2>3. pc'[p] = "unlink"
    BY <1>3, <2>1
  <2>4. Where'
    BY <1>2, <1>4, <2>1, <2>2, <2>3
       DEF NInv, Where, InUse, Concluding, Stale, Gone, Merging
  <2> QED
    BY <1>2, <2>4, SameContent, SameSynced DEF NInv
<1>5. CASE (qmp # p \/ Can("timeout")) /\ CommitFails(p)
  <2>1. ~Window
    <3>1. CASE Can("timeout")
      BY <3>1 DEF Can, Tolerated
    <3>2. CASE qmp # p
      BY <1>1, <3>2, Alone DEF NInv, Window, Concluding, Stale
    <3> QED
      BY <1>5, <3>1, <3>2
  <2>2. PICK l \in {"done", "agent"} : pc' = [pc EXCEPT ![p] = l]
    BY <1>5 DEF Goto, CommitFails, RecoverFails
  <2>3. Where'
    BY <1>1, <1>2, <2>1, <2>2, ControlWhere DEF Pcs
  <2> QED
    BY <1>2, <2>3, SameContent, SameSynced DEF NInv
<1> QED
  BY <1>4, <1>5 DEF WaitGone

LEMMA UnlinkNInv ==
  ASSUME NInv, Tolerated, NEW p \in Procs, Unlink(p)
  PROVE  Where' /\ Synced' /\ (Content = guest)'
<1>1. Active(p) /\ home = "base"
  BY DEF Unlink, Active, NInv, Merging
<1>2. UNCHANGED <<home, base, ovl, guest, job, synced>> /\ exists' = FALSE
  BY DEF Unlink, hist, qemu, Can, Tolerated
<1>3. PICK l \in {"done", "agent", "boot", "open"} : pc' = [pc EXCEPT ![p] = l]
  BY DEF Unlink, Goto, RecoverFails, RecoverReturns
<1>4. pc \in [Procs -> Pcs] /\ job = "none"
  BY <1>1 DEF NInv, TInv, TypeOK, JobTypeOK
<1>5. Serial'
  BY <1>1, <1>3, StepSerial DEF Pcs
<1>6. Where'
  BY <1>1, <1>2, <1>4, <1>5 DEF Where, InUse, Concluding, Stale, Gone, Merging
<1> QED
  BY <1>2, <1>6, SameContent, SameSynced DEF NInv

LEMMA BootNInv ==
  ASSUME NInv, Tolerated, NEW p \in Procs, Boot(p)
  PROVE  Where' /\ Synced' /\ (Content = guest)'
<1>1. Active(p) /\ home = "base" /\ ~Window
  BY NoWindow DEF Boot, Active, NInv, Merging
<1>2. UNCHANGED <<home, exists, base, ovl, guest, job, synced>>
  BY <1>1 DEF Boot, hist
<1>3. pc' = [pc EXCEPT ![p] = "done"] /\ "done" \in Pcs
  BY DEF Boot, Goto, Pcs
<1> QED
  BY <1>1, <1>2, <1>3, ControlWhere, SameContent, SameSynced DEF NInv

(* What the guest writes it reads back, and the job knows of it.           *)
LEMMA WriteData ==
  ASSUME TInv, Synced, Content = guest, NEW b \in Blocks, Write(b)
  PROVE  (Content = guest)' /\ Synced'
<1>1. UNCHANGED <<home, job>>
  BY DEF Write
<1>2. /\ base \in [Blocks -> Nat] /\ ovl \in [Blocks -> Nat \cup {Hole}]
      /\ guest \in [Blocks -> Nat] /\ nwr + 1 \in Nat /\ home \in {"base", "ovl"}
  BY DEF TInv, TypeOK, Image
<1>. DEFINE w == nwr + 1
<1>3. /\ guest' = [guest EXCEPT ![b] = w]
      /\ home = "ovl" => /\ ovl' = [ovl EXCEPT ![b] = w]
                         /\ synced' = synced \ {b} /\ base' = base
      /\ home = "base" => /\ base' = [base EXCEPT ![b] = w]
                          /\ ovl' = ovl /\ synced' = synced
  BY DEF Write
<1>4. w # Hole /\ w \in Nat
  BY <1>2 DEF Hole
<1>. HIDE DEF w
<1>5. (Content = guest)'
  <2>1. CASE home = "base"
    BY <1>1, <1>3, <2>1 DEF Content
  <2>2. CASE home = "ovl"
    <3>1. Merged = guest
      BY <2>2 DEF Content
    <3>2. Merged' = [Merged EXCEPT ![b] = w]
      BY <1>2, <1>3, <1>4, <2>2 DEF Merged
    <3> QED
      BY <1>1, <1>3, <2>2, <3>1, <3>2 DEF Content
  <2> QED
    BY <1>2, <2>1, <2>2
<1>6. Synced'
  <2>1. CASE job # "none"
    <3>1. home = "ovl"
      BY <2>1 DEF TInv, JobTypeOK
    <3> QED
      BY <1>1, <1>2, <1>3, <3>1 DEF Synced, TInv, TypeOK
  <2> QED
    BY <1>1, <2>1 DEF Synced
<1> QED
  BY <1>5, <1>6

(* What the block job writes changes nothing for the guest.                *)
LEMMA JobCopyData ==
  ASSUME TInv, Synced, Content = guest, NEW b \in Blocks, JobCopy(b)
  PROVE  (Content = guest)' /\ Synced'
<1>1. UNCHANGED <<home, ovl, guest, job>>
  BY DEF JobCopy, hist
<1>2. /\ base \in [Blocks -> Nat] /\ ovl \in Image /\ synced \subseteq Blocks
      /\ home = "ovl" /\ ovl[b] # Hole
  BY DEF TInv, TypeOK, JobTypeOK, JobCopy
<1>3. Merged' = Merged
  BY <1>1, <1>2 DEF Merged, JobCopy
<1>4. Synced'
  BY <1>1, <1>2 DEF Synced, JobCopy
<1> QED
  BY <1>1, <1>2, <1>3, <1>4 DEF Content

(* Nobody moves: the whereabouts depend on the disk and the job only.      *)
LEMMA WriteNInv ==
  ASSUME NInv, Tolerated, NEW b \in Blocks, Write(b)
  PROVE  Where' /\ Synced' /\ (Content = guest)'
<1>1. UNCHANGED <<home, exists, job, pc, qmp>>
  BY DEF Write, conns
<1>2. (Content = guest)' /\ Synced'
  BY WriteData DEF NInv
<1>3. Stale'
  BY <1>1 DEF Write, NInv, Stale, Empty
<1> QED
  BY <1>1, <1>2, <1>3
     DEF NInv, Where, Serial, Active, InUse, Concluding, Gone, Merging

LEMMA JobCopyNInv ==
  ASSUME NInv, Tolerated, NEW b \in Blocks, JobCopy(b)
  PROVE  Where' /\ Synced' /\ (Content = guest)'
<1>1. UNCHANGED <<home, exists, ovl, guest, job, pc, qmp>>
  BY DEF JobCopy, conns, hist
<1>2. (Content = guest)' /\ Synced'
  BY JobCopyData DEF NInv
<1> QED
  BY <1>1, <1>2
     DEF NInv, Where, Serial, Active, InUse, Concluding, Stale, Gone, Merging, Empty

LEMMA JobPivotNInv ==
  ASSUME NInv, Tolerated, JobPivot
  PROVE  Where' /\ Synced' /\ (Content = guest)'
<1>1. /\ UNCHANGED <<exists, base, ovl, guest, pc, qmp>>
      /\ home' = "base" /\ job' = "none" /\ synced = Blocks
      /\ job = "concluding" /\ home = "ovl"
  BY DEF JobPivot, conns, hist, NInv, TInv, JobTypeOK
<1>2. PICK p \in Procs : pc[p] = "gone" /\ qmp = p
  BY <1>1 DEF NInv, Concluding
<1>3. Merged = base
  BY <1>1 DEF NInv, TInv, TypeOK, Image, Synced, Merged
<1>4. (Content = guest)'
  BY <1>1, <1>3 DEF NInv, Content
<1>5. \A q \in Procs : pc[q] \notin {"unlink", "boot"}
  BY <1>2, Alone DEF NInv, Active
<1> QED
  BY <1>1, <1>2, <1>4, <1>5
     DEF NInv, Where, Serial, Active, InUse, Concluding, Stale, Gone, Merging,
         Synced

LEMMA JobStateNInv ==
  ASSUME NInv, Tolerated, JobReady \/ JobFail
  PROVE  Where' /\ Synced' /\ (Content = guest)'
<1>1. UNCHANGED <<home, exists, base, ovl, guest, synced, pc, qmp>>
  BY DEF JobReady, JobFail, disk, hist, conns
<1>2. job # "concluding" /\ job' \in {"ready", "none"} /\ job # "none"
  BY DEF JobReady, JobFail, Can, Tolerated, Window
<1> QED
  BY <1>1, <1>2, SameContent
     DEF NInv, Where, Serial, Active, InUse, Concluding, Stale, Gone, Merging,
         Synced, Empty

LEMMA QemuEndsNInv ==
  ASSUME NInv, Tolerated, QemuExit \/ Stop
  PROVE  Where' /\ Synced' /\ (Content = guest)'
<1>1. UNCHANGED <<exists, base, ovl, guest, pc>> /\ job' = "none" /\ home' = home
  BY DEF QemuExit, Stop, QemuEnds, hist, NInv, InUse, TInv, TypeOK
<1>2. ~Window
  BY DEF QemuExit, Stop, Can, Tolerated
<1> QED
  BY <1>1, <1>2, SameContent
     DEF NInv, Where, Serial, Active, InUse, Concluding, Stale, Gone, Merging,
         Synced, Window, Empty

LEMMA NextNInv == NInv /\ Tolerated /\ [Next]_vars => NInv'
<1> SUFFICES ASSUME NInv, Tolerated, [Next]_vars PROVE NInv'
  OBVIOUS
<1>1. TInv'
  BY NextTInv DEF NInv
<1>2. Where' /\ Synced' /\ (Content = guest)'
  <2>1. CASE UNCHANGED vars
    <3>1. UNCHANGED <<home, exists, base, ovl, guest, job, synced, pc, qmp>>
      BY <2>1 DEF vars, disk, hist, qemu, conns
    <3> QED
      BY <3>1, SameContent, SameSynced
         DEF NInv, Where, Serial, Active, InUse, Concluding, Stale, Gone,
             Merging, Empty
  <2>2. ASSUME NEW p \in Procs,
               (\E m \in {"backup", "start"} : Begin(p, m)) \/ Step(p) \/ Kill(p)
        PROVE  Where' /\ Synced' /\ (Content = guest)'
    BY <2>2, ControlNInv, KillNInv, OfflineCommitNInv, SnapshotNInv, ReadNInv,
       BlockCommitNInv, CompleteNInv, WaitGoneNInv, UnlinkNInv, BootNInv
       DEF Step
  <2>3. CASE Job
    BY <2>3, JobCopyNInv, JobPivotNInv, JobStateNInv DEF Job
  <2>4. CASE Environment
    BY <2>4, WriteNInv, JobStateNInv, QemuEndsNInv
       DEF Environment, Respawn, Tolerated
  <2> QED
    BY <2>1, <2>2, <2>3, <2>4 DEF Next
<1> QED
  BY <1>1, <1>2 DEF NInv, Where

(* The main result: with one process at a time and no event in the merge   *)
(* window, no crash, kill, timeout or I/O error before it loses a write.   *)
THEOREM NoWriteLost == Spec => []NoLostWrite
<1>1. CASE Tolerated
  <2>1. NInv => NoLostWrite
    BY DEF NInv, NoLostWrite
  <2>2. NInv /\ [Next]_vars => NInv'
    BY <1>1, NextNInv
  <2> QED
    BY <2>1, <2>2, InitNInv, PTL DEF Spec
<1>2. CASE ~Tolerated
  <2>1. NoLostWrite
    BY <1>2 DEF NoLostWrite
  <2> QED
    BY <2>1, PTL
<1> QED
  BY <1>1, <1>2

----------------------------------------------------------------------------
(***************************************************************************)
(* A successful backup is a snapshot.  The invariant follows the image of  *)
(* the one process at work: nothing is read before the snapshot; the base  *)
(* is the snapshot as long as the VM is still on the overlay; and it still *)
(* is when block-commit is accepted, which only then can succeed.          *)
(***************************************************************************)
Before == {"check", "recover", "offline", "ropen", "open", "agent", "freeze",
           "snapshot", "boot"}
Reading  == {"thaw", "read", "reopen", "block-commit"}
Commits  == {"ready", "complete", "gone", "unlink", "done"}

Unread(p) ==
  /\ pc[p] \in Before => ~snapped[p]
  /\ pc[p] = "reopen" => snapped[p]
  /\ pc[p] \in Before \cup {"thaw"} => image[p] = Empty
  /\ pc[p] \in {"block-commit", "ready", "complete", "gone", "unlink"}
       /\ ~snapped[p] => image[p] = Empty
BaseStatic(p) ==
  snapped[p] /\ pc[p] \in Reading /\ home = "ovl"
    => /\ job = "none" /\ base = snapAt[p]
       /\ \A b \in Blocks : image[p][b] \in {Hole, snapAt[p][b]}
ReadAll(p) ==
  pc[p] \in {"reopen", "block-commit"} /\ snapped[p] /\ rc[p] = 0
    => \A b \in Blocks : image[p][b] # Hole
ImageDone(p) ==
  pc[p] \in Commits /\ snapped[p] /\ rc[p] = 0 => image[p] = snapAt[p]

PInvOf(p) == Unread(p) /\ BaseStatic(p) /\ ReadAll(p) /\ ImageDone(p)
PInv == TInv /\ Serial /\ \A p \in Procs : PInvOf(p)

(* One step of process p: what it may change of the processes' state.      *)
ProcStep(p) ==
  (\E m \in {"backup", "start"} : Begin(p, m)) \/ Step(p) \/ Kill(p)

LEMMA OnlyOwn ==
  ASSUME TInv, NEW p \in Procs, ProcStep(p), NEW q \in Procs, q # p
  PROVE  /\ pc'[q] = pc[q] /\ snapped'[q] = snapped[q] /\ rc'[q] = rc[q]
         /\ image'[q] = image[q] /\ snapAt'[q] = snapAt[q]
<1> USE DEF TInv, TypeOK, local, Goto, RecoverReturns, RecoverFails,
            CommitFails
<1>1. CASE (\E m \in {"backup", "start"} : Begin(p, m)) \/ Kill(p)
  BY <1>1 DEF Begin, Kill
<1>2. CASE Check(p) \/ Recover(p) \/ OfflineCommit(p) \/ OpenForRecover(p)
           \/ OpenForSnapshot(p) \/ OpenAgent(p) \/ Freeze(p)
  BY <1>2 DEF Check, Recover, OfflineCommit, OpenForRecover, OpenForSnapshot,
              OpenAgent, Freeze
<1>3. CASE Snapshot(p) \/ Thaw(p) \/ (\E b \in Blocks : Read(p, b))
  BY <1>3 DEF Snapshot, Thaw, Read
<1>4. CASE ReadDone(p) \/ Reopen(p) \/ BlockCommit(p) \/ WaitReady(p)
  BY <1>4 DEF ReadDone, Reopen, BlockCommit, WaitReady
<1>5. CASE Complete(p) \/ WaitGone(p) \/ Unlink(p) \/ Boot(p)
  BY <1>5 DEF Complete, WaitGone, Unlink, Boot
<1> QED
  BY <1>1, <1>2, <1>3, <1>4, <1>5 DEF ProcStep, Step

LEMMA Idlers ==
  ASSUME PInv, NEW p \in Procs, ProcStep(p), NEW q \in Procs, q # p,
         ~Active(q)
  PROVE  PInvOf(q)'
BY OnlyOwn DEF PInv, PInvOf, Unread, BaseStatic, ReadAll, ImageDone, Active,
   Before, Reading, Commits, Empty

LEMMA CommitRcNotZero ==
  ASSUME NEW p \in Procs PROVE CommitRc(p) # 0
BY DEF CommitRc, FinalRc

LEMMA FinalRcZero ==
  ASSUME NEW p \in Procs, FinalRc(p, rc[p]) = 0 PROVE rc[p] = 0
BY DEF FinalRc

(* The step of a process keeps its own part of the invariant.              *)
LEMMA OwnSnapshot ==
  ASSUME PInv, NEW p \in Procs, ProcStep(p)
  PROVE  PInvOf(p)'
<1> USE DEF PInv, TInv, TypeOK, PInvOf, Unread, BaseStatic, ReadAll,
            ImageDone, Before, Reading, Commits, disk, hist, qemu, local, Goto
<1>1. CASE (\E m \in {"backup", "start"} : Begin(p, m)) \/ Kill(p)
  BY <1>1 DEF Begin, Kill, Empty
<1>2. CASE Check(p) \/ Recover(p) \/ OpenForRecover(p) \/ OpenForSnapshot(p)
           \/ OpenAgent(p)
  BY <1>2 DEF Check, Recover, OpenForRecover, OpenForSnapshot, OpenAgent,
     RecoverReturns, RecoverFails, Empty
<1>3. CASE OfflineCommit(p) \/ Freeze(p) \/ Boot(p)
  BY <1>3 DEF OfflineCommit, Freeze, Boot, RecoverFails, Empty
<1>4. CASE Snapshot(p)
  BY <1>4 DEF Snapshot, Empty
<1>5. CASE Thaw(p)
  BY <1>5 DEF Thaw, Empty
<1>6. CASE \E b \in Blocks : Read(p, b)
  <2>1. PICK b \in Blocks : Read(p, b)
    BY <1>6
  <2>2. \A c \in Blocks : image'[p][c] = IF c = b THEN base[c] ELSE image[p][c]
    BY <2>1 DEF Read, Image
  <2> QED
    BY <2>1, <2>2 DEF Read
<1>7. CASE ReadDone(p)
  BY <1>7 DEF ReadDone
<1>8. CASE Reopen(p)
  BY <1>8, CommitRcNotZero DEF Reopen, CommitFails, RecoverFails, InRecover
<1>9. CASE BlockCommit(p)
  <2>1. CASE snapped[p] /\ home = "ovl" /\ job = "none" /\ rc[p] = 0
    <3>1. \A b \in Blocks : image[p][b] = snapAt[p][b]
      BY <1>9, <2>1 DEF BlockCommit
    <3>2. image[p] = snapAt[p]
      BY <3>1 DEF Image
    <3> QED
      BY <1>9, <2>1, <3>2, CommitRcNotZero
         DEF BlockCommit, CommitFails, InRecover
  <2>2. CASE ~(snapped[p] /\ home = "ovl" /\ job = "none" /\ rc[p] = 0)
    BY <1>9, <2>2, CommitRcNotZero
       DEF BlockCommit, CommitFails, RecoverFails, InRecover, Empty
  <2> QED
    BY <2>1, <2>2
<1>10. CASE WaitReady(p) \/ Complete(p) \/ WaitGone(p)
  BY <1>10, CommitRcNotZero
     DEF WaitReady, Complete, WaitGone, CommitFails, RecoverFails, InRecover,
         Empty
<1>11. CASE Unlink(p)
  BY <1>11, FinalRcZero
     DEF Unlink, RecoverReturns, RecoverFails, InRecover, Empty
<1> QED
  BY <1>1, <1>2, <1>3, <1>4, <1>5, <1>6, <1>7, <1>8, <1>9, <1>10, <1>11
     DEF ProcStep, Step

(* The environment changes the base only when the VM is off the overlay or *)
(* a job runs, that is, before the snapshot or after block-commit.         *)
LEMMA EnvironmentSnapshot ==
  ASSUME PInv, Job \/ Environment, NEW p \in Procs
  PROVE  PInvOf(p)'
<1> USE DEF PInv, TInv, TypeOK, JobTypeOK, PInvOf, Unread, BaseStatic,
            ReadAll, ImageDone, disk, hist, qemu, local
<1>1. UNCHANGED <<pc, rc, snapped, image, snapAt>>
  BY DEF Job, Environment, Write, JobCopy, JobReady, JobPivot, JobFail,
         QemuExit, Stop, QemuEnds, Respawn
<1>2. home' = "ovl" /\ job = "none" => home = "ovl" /\ job' = "none" /\ base' = base
  BY DEF Job, Environment, Write, JobCopy, JobReady, JobPivot, JobFail,
         QemuExit, Stop, QemuEnds, Respawn
<1>3. home' = "ovl" /\ job # "none" => home = "ovl"
  OBVIOUS
<1> QED
  BY <1>1, <1>2, <1>3 DEF Empty

LEMMA SerialProcStep ==
  ASSUME TInv, Serial, Overlap = "none", NEW p \in Procs, ProcStep(p)
  PROVE  Serial' /\ \A q \in Procs : q # p => ~Active(q)
<1>1. Active(p) \/ \A q \in Procs : ~Active(q)
  <2>1. CASE \E m \in {"backup", "start"} : Begin(p, m)
    BY <2>1 DEF Begin, MayBegin
  <2>2. CASE Step(p)
    BY <2>2 DEF Active, Step, Check, Recover, OfflineCommit, OpenForRecover,
       OpenForSnapshot, OpenAgent, Freeze, Snapshot, Thaw, Read, ReadDone,
       Reopen, BlockCommit, WaitReady, Complete, WaitGone, Unlink, Boot
  <2>3. CASE Kill(p)
    BY <2>3 DEF Kill
  <2> QED
    BY <2>1, <2>2, <2>3 DEF ProcStep
<1>2. \A q \in Procs : q # p => pc'[q] = pc[q] /\ ~Active(q)
  BY <1>1, OnlyOwn, Alone DEF Active
<1>3. Serial'
  BY <1>2 DEF Serial, Active
<1> QED
  BY <1>2, <1>3

LEMMA NextPInv == PInv /\ Overlap = "none" /\ [Next]_vars => PInv'
<1> SUFFICES ASSUME PInv, Overlap = "none", [Next]_vars PROVE PInv'
  OBVIOUS
<1>1. TInv'
  BY NextTInv DEF PInv
<1>2. CASE \E p \in Procs : ProcStep(p)
  <2>1. PICK p \in Procs : ProcStep(p)
    BY <1>2
  <2>2. Serial' /\ \A q \in Procs : q # p => ~Active(q)
    BY <2>1, SerialProcStep DEF PInv
  <2>3. \A q \in Procs : PInvOf(q)'
    BY <2>1, <2>2, OwnSnapshot, Idlers
  <2> QED
    BY <1>1, <2>2, <2>3 DEF PInv
<1>3. CASE Job \/ Environment
  <2>1. pc' = pc
    BY <1>3 DEF Job, Environment, Write, JobCopy, JobReady, JobPivot, JobFail,
       QemuExit, Stop, QemuEnds, Respawn
  <2>2. \A q \in Procs : PInvOf(q)'
    BY <1>3, EnvironmentSnapshot
  <2> QED
    BY <1>1, <2>1, <2>2 DEF PInv, Serial, Active
<1>4. CASE UNCHANGED vars
  BY <1>1, <1>4 DEF PInv, Serial, Active, PInvOf, Unread, BaseStatic, ReadAll,
     ImageDone, vars, disk, qemu, local, Empty
<1> QED
  BY <1>2, <1>3, <1>4 DEF Next, ProcStep

LEMMA InitPInv == Init => PInv
<1> SUFFICES ASSUME Init PROVE PInv
  OBVIOUS
<1>1. TInv
  BY InitTInv
<1>2. Serial /\ \A p \in Procs : PInvOf(p)
  BY DEF Init, Serial, Active, PInvOf, Unread, BaseStatic, ReadAll, ImageDone,
     Before, Reading, Commits
<1> QED
  BY <1>1, <1>2 DEF PInv

(* A backup that ends with exit code 0 from a snapshot has read the disk   *)
(* of one instant, whatever the environment does, when processes do not    *)
(* overlap.                                                                *)
THEOREM BackupIsSnapshot == Spec => []PointInTime
<1>1. CASE Overlap = "none"
  <2>1. PInv => PointInTime
    BY DEF PInv, PInvOf, ImageDone, Commits, PointInTime, StaticImage
  <2>2. PInv /\ [Next]_vars => PInv'
    BY <1>1, NextPInv
  <2> QED
    BY <2>1, <2>2, InitPInv, PTL DEF Spec
<1>2. CASE Overlap # "none"
  <2>1. PointInTime
    BY <1>2 DEF PointInTime
  <2> QED
    BY <2>1, PTL
<1> QED
  BY <1>1, <1>2

----------------------------------------------------------------------------
(***************************************************************************)
(* How an overlay goes away, and what the exit code says of one that does  *)
(* not.                                                                    *)
(***************************************************************************)

(* Nothing but the unlink step removes the overlay.                        *)
LEMMA OnlyUnlink ==
  ASSUME [Next]_vars, exists, ~exists'
  PROVE  \E p \in Procs : Unlink(p)
<1>1. ASSUME NEW p \in Procs, Step(p) PROVE Unlink(p)
  BY <1>1 DEF Step, Check, Recover, OfflineCommit, OpenForRecover, OpenForSnapshot,
     OpenAgent, Freeze, Snapshot, Thaw, Read, ReadDone, Reopen, BlockCommit, WaitReady,
     Complete, WaitGone, Boot, disk
<1>2. ~\E p \in Procs, m \in {"backup", "start"} : Begin(p, m)
  BY DEF Begin, disk
<1>3. ~\E p \in Procs : Kill(p)
  BY DEF Kill, disk
<1>4. ~Job /\ ~Environment
  BY DEF Job, Environment, Write, JobCopy, JobReady, JobPivot, JobFail, QemuExit, Stop,
     QemuEnds, Respawn, disk
<1>5. ~UNCHANGED vars
  BY DEF vars, disk
<1> QED
  BY <1>1, <1>2, <1>3, <1>4, <1>5 DEF Next

(* The overlay is deleted only when the VM is back on the base and the     *)
(* base holds every write, in every tolerated run (backup.uc, commit and   *)
(* recover).                                                               *)
THEOREM UnlinkedWhenMerged ==
  ASSUME Tolerated PROVE Spec => UnlinkMerged
<1>1. NInv /\ [Next]_vars => [exists /\ ~exists' => home = "base" /\ base = guest]_vars
  <2> SUFFICES ASSUME NInv, [Next]_vars, exists, ~exists'
               PROVE  home = "base" /\ base = guest
    OBVIOUS
  <2>1. PICK p \in Procs : Unlink(p)
    BY OnlyUnlink
  <2>2. home = "base"
    BY <2>1 DEF Unlink, NInv, Merging
  <2> QED
    BY <2>2 DEF NInv, Content
<1>2. NInv /\ [Next]_vars => NInv'
  BY NextNInv
<1> QED
  BY <1>1, <1>2, InitNInv, PTL DEF Spec, UnlinkMerged

(* A process with a snapshot ends with exit code 3 or more, or after the   *)
(* merge; the other ways to the end are those of a process without one, or *)
(* lead there from the base.                                               *)
LEMMA EndReports ==
  ASSUME NInv, NEW p \in Procs, Step(p), pc[p] # "done", pc'[p] = "done", snapped[p]
  PROVE  home' = "base" \/ rc'[p] # 0
<1>0. pc \in [Procs -> Pcs] /\ rc \in [Procs -> {0, 1, 3, 4}]
  BY DEF NInv, TInv, TypeOK
<1>1. CASE Check(p) \/ OpenForSnapshot(p) \/ OpenAgent(p) \/ Freeze(p) \/ Snapshot(p)
           \/ Thaw(p) \/ (\E b \in Blocks : Read(p, b)) \/ ReadDone(p)
  BY <1>0, <1>1 DEF Check, OpenForSnapshot, OpenAgent, Freeze, Snapshot, Thaw, Read,
     ReadDone, Goto
<1>2. CASE Recover(p) \/ OfflineCommit(p) \/ OpenForRecover(p)
  BY <1>0, <1>2 DEF Recover, OfflineCommit, OpenForRecover, RecoverFails, RecoverReturns,
     Goto
<1>3. CASE Reopen(p) \/ BlockCommit(p) \/ WaitReady(p) \/ Complete(p) \/ WaitGone(p)
  <2>1. CommitFails(p)
    BY <1>0, <1>3 DEF Reopen, BlockCommit, WaitReady, Complete, WaitGone, Goto
  <2>2. rc'[p] = CommitRc(p)
    BY <1>0, <2>1 DEF CommitFails, InRecover
  <2> QED
    BY <2>2, CommitRcNotZero
<1>4. CASE Unlink(p) \/ Boot(p)
  <2>1. home = "base"
    BY <1>4 DEF Unlink, Boot, NInv, Merging
  <2> QED
    BY <1>4, <2>1 DEF Unlink, Boot
<1> QED
  BY <1>1, <1>2, <1>3, <1>4 DEF Step

(* A VM left on the overlay is reported by the exit code of the backup     *)
(* that took the snapshot (backup.uc, consistent_backup).                  *)
THEOREM OverlayIsReported == Spec => OverlayReported
<1> DEFINE Reported ==
      Tolerated => \A p \in Procs :
        pc[p] # "done" /\ pc'[p] = "done" /\ snapped[p] /\ home' = "ovl" => rc'[p] # 0
<1>1. CASE Tolerated
  <2>1. NInv /\ [Next]_vars => [Reported]_vars
    <3> SUFFICES ASSUME NInv, [Next]_vars, NEW p \in Procs, pc[p] # "done",
                        pc'[p] = "done", snapped[p], home' = "ovl"
                 PROVE  rc'[p] # 0
      OBVIOUS
    <3>0. pc \in [Procs -> Pcs]
      BY DEF NInv, TInv, TypeOK
    <3>1. PICK q \in Procs : ProcStep(q)
      <4>1. pc' # pc
        OBVIOUS
      <4>2. ~UNCHANGED vars
        BY <4>1 DEF vars
      <4>3. ~Job /\ ~Environment
        BY <4>1 DEF Job, Environment, Write, JobCopy, JobReady, JobPivot, JobFail,
           QemuExit, Stop, QemuEnds, Respawn
      <4> QED
        BY <4>2, <4>3 DEF Next, ProcStep
    <3>2. q = p
      BY <3>1, OnlyOwn DEF NInv
    <3>3. Step(p)
      <4>1. ~(\E m \in {"backup", "start"} : Begin(p, m)) /\ ~Kill(p)
        BY <3>0 DEF Begin, Kill, Goto
      <4> QED
        BY <3>1, <3>2, <4>1 DEF ProcStep
    <3> QED
      BY <3>3, EndReports
  <2>2. NInv /\ [Next]_vars => NInv'
    BY <1>1, NextNInv
  <2> QED
    BY <2>1, <2>2, InitNInv, PTL DEF Spec, OverlayReported
<1>2. CASE ~Tolerated
  <2>1. [Next]_vars => [Reported]_vars
    BY <1>2
  <2> QED
    BY <2>1, PTL DEF Spec, OverlayReported
<1> QED
  BY <1>1, <1>2

----------------------------------------------------------------------------
(***************************************************************************)
(* Overlapping processes.  While nothing fails a VM that runs goes on      *)
(* running, so an overlay is merged by the block job alone: that is what   *)
(* keeps the writes, not who unlinks what and when.                        *)
(***************************************************************************)
OnlyRunning == vm = "off" => home = "base" /\ ~exists
OInv == TInv /\ OnlyRunning /\ Synced /\ Content = guest

LEMMA InitOInv == Init => OInv
<1> SUFFICES ASSUME Init PROVE OInv
  OBVIOUS
<1>1. TInv
  BY InitTInv
<1> QED
  BY <1>1 DEF Init, OInv, OnlyRunning, Synced, Content

LEMMA NextOInv == OInv /\ Faults = {} /\ [Next]_vars => OInv'
<1> SUFFICES ASSUME OInv, Faults = {}, [Next]_vars PROVE OInv'
  OBVIOUS
<1>0. TInv'
  BY NextTInv DEF OInv
<1>1. ASSUME UNCHANGED <<vm, home, base, ovl, guest, job, synced>>, exists' => exists
      PROVE  OInv'
  BY <1>0, <1>1, SameContent, SameSynced DEF OInv, OnlyRunning
<1>2. ASSUME NEW p \in Procs,
             ~(OfflineCommit(p) \/ Snapshot(p) \/ BlockCommit(p) \/ Complete(p) \/ Boot(p)),
             (\E m \in {"backup", "start"} : Begin(p, m)) \/ Step(p) \/ Kill(p)
      PROVE  OInv'
  <2>1. CASE (\E m \in {"backup", "start"} : Begin(p, m)) \/ Kill(p)
    BY <1>1, <2>1 DEF Begin, Kill, disk, hist, qemu
  <2>2. CASE Step(p)
    BY <1>1, <1>2, <2>2 DEF Step, Check, Recover, OpenForRecover, OpenForSnapshot,
       OpenAgent, Freeze, Thaw, Read, ReadDone, Reopen, WaitReady, WaitGone, Unlink,
       disk, hist, qemu
  <2> QED
    BY <1>2, <2>1, <2>2
<1>3. ASSUME NEW p \in Procs, OfflineCommit(p) PROVE OInv'
  BY <1>1, <1>3 DEF OfflineCommit, OInv, OnlyRunning, hist, qemu
<1>4. ASSUME NEW p \in Procs, Snapshot(p) PROVE OInv'
  <2>1. CASE UNCHANGED <<home, exists, ovl>>
    BY <1>1, <1>4, <2>1 DEF Snapshot, hist, qemu
  <2>2. CASE qmp = p /\ home = "base" /\ job = "none" /\ home' = "ovl" /\ ovl' = Empty
    <3>1. UNCHANGED <<vm, base, guest, job>> /\ vm = "on"
      BY <1>4, <2>2, ProcsAssumption DEF Snapshot, hist, qemu, OInv, TInv, JobTypeOK
    <3>2. Merged' = base
      BY <2>2, <3>1 DEF Merged, Empty, OInv, TInv, TypeOK
    <3> QED
      BY <1>0, <2>2, <3>1, <3>2 DEF OInv, OnlyRunning, Synced, Content
  <2> QED
    BY <1>4, <2>1, <2>2 DEF Snapshot
<1>5. ASSUME NEW p \in Procs, BlockCommit(p) \/ Complete(p) PROVE OInv'
  <2>1. UNCHANGED <<vm, home, exists, base, ovl, guest>>
    BY <1>5 DEF BlockCommit, Complete, disk, hist
  <2>2. Synced'
    BY <1>5, <2>1 DEF BlockCommit, Complete, OInv, Synced
  <2> QED
    BY <1>0, <2>1, <2>2, SameContent DEF OInv, OnlyRunning
<1>6. ASSUME NEW p \in Procs, Boot(p) PROVE OInv'
  <2>1. UNCHANGED <<home, exists, base, ovl, guest, job, synced>> /\ vm' = "on"
    BY <1>6 DEF Boot, hist, OInv, OnlyRunning
  <2> QED
    BY <1>0, <2>1, SameContent, SameSynced DEF OInv, OnlyRunning
<1>7. ASSUME NEW b \in Blocks, Write(b) PROVE OInv'
  <2>1. /\ UNCHANGED <<vm, home, exists, job>>
        /\ (Content = guest)' /\ Synced'
    BY <1>7, WriteData DEF OInv, Write
  <2> QED
    BY <1>0, <2>1 DEF OInv, OnlyRunning
<1>8. ASSUME NEW b \in Blocks, JobCopy(b) PROVE OInv'
  <2>1. /\ UNCHANGED <<vm, home, exists, guest, job>>
        /\ (Content = guest)' /\ Synced'
    BY <1>8, JobCopyData DEF OInv, JobCopy, hist
  <2> QED
    BY <1>0, <2>1 DEF OInv, OnlyRunning
<1>9. ASSUME JobPivot PROVE OInv'
  <2>1. UNCHANGED <<vm, exists, base, ovl, guest>> /\ home' = "base" /\ job' = "none"
    BY <1>9 DEF JobPivot, hist
  <2>2. home = "ovl" /\ vm = "on" /\ Merged = base
    BY <1>9 DEF JobPivot, OInv, TInv, TypeOK, JobTypeOK, Image, Synced, Merged
  <2> QED
    BY <1>0, <2>1, <2>2 DEF OInv, OnlyRunning, Synced, Content
<1>10. ASSUME JobReady PROVE OInv'
  BY <1>0, <1>10, SameContent DEF JobReady, OInv, OnlyRunning, Synced, disk, hist
<1>11. ~JobFail /\ ~QemuExit /\ ~Stop /\ ~Respawn
  BY DEF JobFail, QemuExit, Stop, Respawn, Can
<1>12. ASSUME UNCHANGED vars PROVE OInv'
  BY <1>1, <1>12 DEF vars, disk, hist, qemu
<1> QED
  BY <1>2, <1>3, <1>4, <1>5, <1>6, <1>7, <1>8, <1>9, <1>10, <1>11, <1>12
     DEF Next, Job, Environment

(* Processes that overlap in any way lose no write as long as nothing      *)
(* fails (backup.uc, commit and recover).                                  *)
THEOREM NoWriteLostOverlap == Spec => []NoLostWriteOverlap
<1>1. CASE Faults = {}
  <2>1. OInv => NoLostWriteOverlap
    BY DEF OInv, NoLostWriteOverlap
  <2>2. OInv /\ [Next]_vars => OInv'
    BY <1>1, NextOInv
  <2> QED
    BY <2>1, <2>2, InitOInv, PTL DEF Spec
<1>2. CASE Faults # {}
  <2>1. NoLostWriteOverlap
    BY <1>2 DEF NoLostWriteOverlap
  <2> QED
    BY <2>1, PTL
<1> QED
  BY <1>1, <1>2

----------------------------------------------------------------------------
(***************************************************************************)
(* A snapshot while the VM is started, stopped or reloaded.  Starts run    *)
(* beside the one backup and may commit its overlay, with QEMU or without. *)
(* The base is the snapshot only while the VM runs on the overlay and no   *)
(* job does; whatever ends that makes block-commit fail: the VM is off, or *)
(* back on the base, or a job is there.  A job that fails would end it     *)
(* without a trace, which is why job_fail is excluded.                     *)
(***************************************************************************)
StartSteps == {"idle", "done", "recover", "offline", "ropen", "block-commit", "ready",
               "complete", "gone", "unlink", "boot"}

StartOnly(p) == mode[p] = "start" => pc[p] \in StartSteps /\ ~snapped[p]
OneBackup ==
  \A p, q \in Procs :
    Active(p) /\ Active(q) /\ mode[p] = "backup" /\ mode[q] = "backup" => p = q
BaseStaticOn(p) ==
  snapped[p] /\ pc[p] \in Reading /\ home = "ovl" /\ vm = "on" /\ job = "none"
    => /\ base = snapAt[p]
       /\ \A b \in Blocks : image[p][b] \in {Hole, snapAt[p][b]}

SInvOf(p) == StartOnly(p) /\ Unread(p) /\ BaseStaticOn(p) /\ ReadAll(p) /\ ImageDone(p)
SInv == TInv /\ OneBackup /\ \A p \in Procs : SInvOf(p)

(* The mode of a process is that of its start.                             *)
LEMMA ModeKept ==
  ASSUME TInv, NEW p \in Procs, Step(p) \/ Kill(p)
  PROVE  mode' = mode
BY DEF Kill, Step, Check, Recover, OfflineCommit, OpenForRecover, OpenForSnapshot,
   OpenAgent, Freeze, Snapshot, Thaw, Read, ReadDone, Reopen, BlockCommit, WaitReady,
   Complete, WaitGone, Unlink, Boot, local

LEMMA OneBackupStep ==
  ASSUME TInv, OneBackup, Overlap \in {"none", "start"}, NEW p \in Procs, ProcStep(p)
  PROVE  OneBackup'
<1>0. pc \in [Procs -> Pcs] /\ mode \in [Procs -> {"backup", "start"}]
  BY DEF TInv, TypeOK
<1>1. \A q \in Procs : q # p => pc'[q] = pc[q] /\ mode'[q] = mode[q]
  <2>1. CASE \E m \in {"backup", "start"} : Begin(p, m)
    BY <1>0, <2>1 DEF Begin, Goto
  <2>2. CASE Step(p) \/ Kill(p)
    BY <2>2, ModeKept, OnlyOwn DEF ProcStep
  <2> QED
    BY <2>1, <2>2 DEF ProcStep
<1>2. ASSUME NEW q \in Procs, q # p, Active(q), mode[q] = "backup"
      PROVE  Active(p)' /\ mode'[p] = "backup" => Active(p) /\ mode[p] = "backup"
  <2>1. CASE \E m \in {"backup", "start"} : Begin(p, m)
    <3>1. PICK m \in {"backup", "start"} : Begin(p, m)
      BY <2>1
    <3>2. m = "start"
      BY <1>2, <3>1 DEF Begin, MayBegin
    <3>3. mode'[p] = "start"
      BY <1>0, <3>1, <3>2 DEF Begin
    <3> QED
      BY <3>3
  <2>2. CASE Step(p)
    <3>1. Active(p)
      BY <2>2 DEF Active, Step, Check, Recover, OfflineCommit, OpenForRecover,
         OpenForSnapshot, OpenAgent, Freeze, Snapshot, Thaw, Read, ReadDone, Reopen,
         BlockCommit, WaitReady, Complete, WaitGone, Unlink, Boot
    <3> QED
      BY <2>2, <3>1, ModeKept
  <2>3. CASE Kill(p)
    BY <2>3, ModeKept DEF Kill
  <2> QED
    BY <2>1, <2>2, <2>3 DEF ProcStep
<1> SUFFICES ASSUME NEW q \in Procs, NEW r \in Procs, Active(q)', Active(r)',
                    mode'[q] = "backup", mode'[r] = "backup", q # r
             PROVE  FALSE
  BY DEF OneBackup
<1>3. q = p => Active(r) /\ mode[r] = "backup"
  BY <1>1 DEF Active
<1>4. r = p => Active(q) /\ mode[q] = "backup"
  BY <1>1 DEF Active
<1>5. q # p /\ r # p => Active(q) /\ mode[q] = "backup" /\ Active(r) /\ mode[r] = "backup"
  BY <1>1 DEF Active
<1>6. Active(q) /\ mode[q] = "backup" /\ Active(r) /\ mode[r] = "backup"
  BY <1>2, <1>3, <1>4, <1>5
<1> QED
  BY <1>6 DEF OneBackup

(* The step of a process keeps its own part of the invariant.              *)
LEMMA OwnSnapshotOn ==
  ASSUME TInv, NEW p \in Procs, SInvOf(p), ProcStep(p)
  PROVE  SInvOf(p)'
<1> USE DEF TInv, TypeOK, JobTypeOK, SInvOf, StartOnly, StartSteps, Unread, BaseStaticOn,
            ReadAll, ImageDone, Before, Reading, Commits, disk, hist, qemu, local, Goto
<1>1. CASE (\E m \in {"backup", "start"} : Begin(p, m)) \/ Kill(p)
  BY <1>1 DEF Begin, Kill, Empty
<1>2. CASE Check(p) \/ Recover(p) \/ OpenForRecover(p) \/ OpenForSnapshot(p)
           \/ OpenAgent(p)
  BY <1>2 DEF Check, Recover, OpenForRecover, OpenForSnapshot, OpenAgent,
     RecoverReturns, RecoverFails, Empty
<1>3. CASE OfflineCommit(p) \/ Freeze(p) \/ Boot(p)
  BY <1>3 DEF OfflineCommit, Freeze, Boot, RecoverFails, Empty
<1>4. CASE Snapshot(p)
  BY <1>4 DEF Snapshot, Empty
<1>5. CASE Thaw(p)
  BY <1>5 DEF Thaw, Empty
<1>6. CASE \E b \in Blocks : Read(p, b)
  <2>1. PICK b \in Blocks : Read(p, b)
    BY <1>6
  <2>2. \A c \in Blocks : image'[p][c] = IF c = b THEN base[c] ELSE image[p][c]
    BY <2>1 DEF Read, Image
  <2> QED
    BY <2>1, <2>2 DEF Read
<1>7. CASE ReadDone(p)
  BY <1>7 DEF ReadDone
<1>8. CASE Reopen(p)
  BY <1>8, CommitRcNotZero DEF Reopen, CommitFails, RecoverFails, InRecover
<1>9. CASE BlockCommit(p)
  <2>1. CASE snapped[p] /\ qmp = p /\ home = "ovl" /\ job = "none" /\ rc[p] = 0
    <3>1. vm = "on"
      BY <2>1, ProcsAssumption
    <3>2. \A b \in Blocks : image[p][b] = snapAt[p][b]
      BY <1>9, <2>1, <3>1 DEF BlockCommit
    <3>3. image[p] = snapAt[p]
      BY <3>2 DEF Image
    <3> QED
      BY <1>9, <2>1, <3>3, CommitRcNotZero
         DEF BlockCommit, CommitFails, InRecover
  <2>2. CASE ~(snapped[p] /\ qmp = p /\ home = "ovl" /\ job = "none" /\ rc[p] = 0)
    BY <1>9, <2>2, CommitRcNotZero
       DEF BlockCommit, CommitFails, RecoverFails, InRecover, Empty
  <2> QED
    BY <2>1, <2>2
<1>10. CASE WaitReady(p) \/ Complete(p) \/ WaitGone(p)
  BY <1>10, CommitRcNotZero
     DEF WaitReady, Complete, WaitGone, CommitFails, RecoverFails, InRecover,
         Empty
<1>11. CASE Unlink(p)
  BY <1>11, FinalRcZero
     DEF Unlink, RecoverReturns, RecoverFails, InRecover, Empty
<1> QED
  BY <1>1, <1>2, <1>3, <1>4, <1>5, <1>6, <1>7, <1>8, <1>9, <1>10, <1>11
     DEF ProcStep, Step

(* A step of another process leaves the VM on an overlay without a job     *)
(* only as it found it.                                                    *)
LEMMA OthersStatic ==
  ASSUME SInv, NEW p \in Procs, ProcStep(p), NEW q \in Procs, q # p,
         snapped[q], pc[q] \in Reading,
         home' = "ovl", vm' = "on", job' = "none"
  PROVE  home = "ovl" /\ vm = "on" /\ job = "none" /\ base' = base
<1>1. mode[q] = "backup" /\ Active(q)
  BY DEF SInv, SInvOf, StartOnly, TInv, TypeOK, Active, Reading
<1>2. ~Snapshot(p)
  <2>1. Snapshot(p) => Active(p) /\ mode[p] = "backup"
    BY DEF Snapshot, Active, SInv, SInvOf, StartOnly, StartSteps, TInv, TypeOK
  <2> QED
    BY <1>1, <2>1 DEF SInv, OneBackup
<1>3. CASE (\E m \in {"backup", "start"} : Begin(p, m)) \/ Kill(p)
  BY <1>3 DEF Begin, Kill, disk, qemu
<1>4. CASE Boot(p)
  BY <1>4 DEF Boot, SInv, TInv, TypeOK
<1>5. CASE OfflineCommit(p)
  BY <1>5 DEF OfflineCommit, qemu
<1>6. CASE Step(p) /\ ~Boot(p) /\ ~OfflineCommit(p)
  BY <1>2, <1>6 DEF Step, Check, Recover, OpenForRecover, OpenForSnapshot, OpenAgent,
     Freeze, Thaw, Read, ReadDone, Reopen, BlockCommit, WaitReady, Complete, WaitGone,
     Unlink, disk, qemu
<1> QED
  BY <1>3, <1>4, <1>5, <1>6 DEF ProcStep

LEMMA OthersSInv ==
  ASSUME SInv, NEW p \in Procs, ProcStep(p), NEW q \in Procs, q # p
  PROVE  SInvOf(q)'
<1>1. /\ pc'[q] = pc[q] /\ snapped'[q] = snapped[q] /\ rc'[q] = rc[q]
      /\ image'[q] = image[q] /\ snapAt'[q] = snapAt[q]
  BY OnlyOwn DEF SInv
<1>2. mode'[q] = mode[q]
  <2>1. CASE \E m \in {"backup", "start"} : Begin(p, m)
    BY <2>1 DEF Begin, SInv, TInv, TypeOK
  <2> QED
    BY <2>1, ModeKept DEF ProcStep, SInv
<1>3. BaseStaticOn(q)'
  BY <1>1, OthersStatic DEF SInv, SInvOf, BaseStaticOn
<1>4. /\ StartOnly(q)' /\ Unread(q)' /\ ReadAll(q)' /\ ImageDone(q)'
  BY <1>1, <1>2 DEF SInv, SInvOf, StartOnly, Unread, ReadAll, ImageDone, Empty
<1> QED
  BY <1>3, <1>4 DEF SInvOf

(* QEMU, its job, the guest and procd: the same.                           *)
LEMMA EnvironmentSInv ==
  ASSUME SInv, "job_fail" \notin Faults, Job \/ Environment
  PROVE  OneBackup' /\ \A p \in Procs : SInvOf(p)'
<1>1. UNCHANGED <<pc, rc, mode, snapped, image, snapAt>>
  BY DEF Job, Environment, Write, JobCopy, JobReady, JobPivot, JobFail,
         QemuExit, Stop, QemuEnds, Respawn, local
<1>2. home' = "ovl" /\ vm' = "on" /\ job' = "none"
        => home = "ovl" /\ vm = "on" /\ job = "none" /\ base' = base
  BY DEF Job, Environment, Write, JobCopy, JobReady, JobPivot, JobFail, Can,
         QemuExit, Stop, QemuEnds, Respawn
<1> QED
  BY <1>1, <1>2 DEF SInv, OneBackup, Active, SInvOf, StartOnly, Unread, BaseStaticOn,
     ReadAll, ImageDone, Empty

LEMMA NextSInv ==
  SInv /\ Overlap \in {"none", "start"} /\ "job_fail" \notin Faults /\ [Next]_vars
    => SInv'
<1> SUFFICES ASSUME SInv, Overlap \in {"none", "start"}, "job_fail" \notin Faults,
                    [Next]_vars
             PROVE  SInv'
  OBVIOUS
<1>1. TInv'
  BY NextTInv DEF SInv
<1>2. ASSUME NEW p \in Procs, ProcStep(p) PROVE SInv'
  <2>1. OneBackup'
    BY <1>2, OneBackupStep DEF SInv
  <2>2. \A q \in Procs : SInvOf(q)'
    BY <1>2, OwnSnapshotOn, OthersSInv DEF SInv
  <2> QED
    BY <1>1, <2>1, <2>2 DEF SInv
<1>3. CASE Job \/ Environment
  BY <1>1, <1>3, EnvironmentSInv DEF SInv
<1>4. CASE UNCHANGED vars
  BY <1>1, <1>4 DEF SInv, OneBackup, Active, SInvOf, StartOnly, Unread, BaseStaticOn,
     ReadAll, ImageDone, vars, disk, qemu, local, Empty
<1> QED
  BY <1>2, <1>3, <1>4 DEF Next, ProcStep

LEMMA InitSInv == Init => SInv
<1> SUFFICES ASSUME Init PROVE SInv
  OBVIOUS
<1>1. TInv
  BY InitTInv
<1>2. OneBackup
  BY DEF Init, OneBackup, Active
<1>3. \A p \in Procs : SInvOf(p)
  BY DEF Init, SInvOf, StartOnly, Unread, BaseStaticOn, ReadAll, ImageDone,
     Before, Reading, Commits
<1> QED
  BY <1>1, <1>2, <1>3 DEF SInv

(* A backup that ends with exit code 0 from a snapshot has read the disk   *)
(* of one instant even if qemu.init starts the VM, and merges a leftover   *)
(* overlay, while the backup runs (backup.uc and qemu.init).               *)
THEOREM BackupIsSnapshotDuringStart == Spec => []PointInTimeDuringStart
<1>1. CASE Overlap \in {"none", "start"} /\ "job_fail" \notin Faults
  <2>1. SInv => PointInTimeDuringStart
    BY DEF SInv, SInvOf, ImageDone, Commits, PointInTimeDuringStart, StaticImage
  <2>2. SInv /\ [Next]_vars => SInv'
    BY <1>1, NextSInv
  <2> QED
    BY <2>1, <2>2, InitSInv, PTL DEF Spec
<1>2. CASE ~(Overlap \in {"none", "start"} /\ "job_fail" \notin Faults)
  <2>1. PointInTimeDuringStart
    BY <1>2 DEF PointInTimeDuringStart
  <2> QED
    BY <2>1, PTL
<1> QED
  BY <1>1, <1>2

=============================================================================
