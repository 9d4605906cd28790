---------------------------- MODULE InotifyRsync ----------------------------
(***************************************************************************)
(* inotify-rsync: a daemon that mirrors directories with rsync when        *)
(* something in them changes (inotify-rsync.uc), and the one-shot run of   *)
(* `inotify-rsync rsync` (the same program with "sync"), which may run at  *)
(* any time beside it.                                                     *)
(*                                                                         *)
(* The daemon lists the directories, then adds a watch to each, then waits *)
(* for events; what changes in between, or while rsync blocks it, is the   *)
(* hard part.  Daemon and one-shot run share a file of counters, each from *)
(* what it read at its start, and the temporary file it is renamed from.   *)
(*                                                                         *)
(* A directory is represented by the number of its last change; creating   *)
(* and removing it are changes too.  A change is one step, complete when   *)
(* its event is sent.                                                      *)
(*                                                                         *)
(* The names that UtplCache defines too are other ones here (IRInit,       *)
(* IRNext, IRSpec, irVars), so that one module can extend both.            *)
(***************************************************************************)
EXTENDS Naturals, FiniteSets

CONSTANTS
  Dirs, Root,     \* the directories there may be; the one in the configuration
  NoFile,         \* no file, nothing open
  Empty,          \* the content of a file that was truncated
  QueueSize,      \* fs.inotify.max_queued_events, with the overflow event
  MaxVersion,     \* bound: changes of directories
  MaxEvents       \* bound: kills, failures and one-shot runs

ASSUME InotifyRsyncAssumption ==
  /\ Root \in Dirs /\ IsFiniteSet(Dirs)
  /\ QueueSize \in Nat \ {0} /\ MaxVersion \in Nat /\ MaxEvents \in Nat
  /\ NoFile # Empty

VARIABLES
  exists,    \* the directories there are
  version,   \* the number of the last change of each
  copy,      \* the one that the destination holds
  watches,   \* the directories with a watch of the daemon
  backlog,   \* events the kernel holds for it
  noticed,   \* for each directory the last change this daemon has an event of
  missed,    \* and the last of those that a failed rsync did not copy
  at,        \* where the daemon and the one-shot run are
  todo,      \* the directories each still has to watch or to copy
  timer,     \* the daemon's debounce timer is set
  mem,       \* m_events, m_runs, m_errors of each
  metrics,   \* the content of metrics_file
  tmp,       \* that of its .tmp
  next,      \* where each goes when it has written its counters
  fd,        \* the file each has open for writing: "tmp", "metrics" or "gone"
  mixed,     \* a daemon and a one-shot run have run at the same time
  newest,    \* the number of the last change of all
  events     \* kills, failures and one-shot runs so far

irVars == <<exists, version, copy, watches, backlog, noticed, missed, at, todo, timer,
            mem, metrics, tmp, next, fd, mixed, newest, events>>
dirs == <<exists, version, newest>>
inotify == <<watches, backlog, noticed, missed>>
files == <<metrics, tmp, next, fd>>

Procs == {"daemon", "sync"}
Counters == [events : Nat, runs : Nat, errors : Nat]
Zero == [events |-> 0, runs |-> 0, errors |-> 0]

ASSUME NoCountersAssumption == NoFile \notin Counters /\ Empty \notin Counters

\* What the variables may hold.
IRTypeOK ==
  /\ Root \in exists /\ exists \subseteq Dirs
  /\ version \in [Dirs -> 0..MaxVersion] /\ copy \in [Dirs -> 0..MaxVersion]
  /\ noticed \in [Dirs -> 0..MaxVersion] /\ missed \in [Dirs -> 0..MaxVersion]
  /\ watches \subseteq exists /\ backlog \in 0..QueueSize
  /\ at \in [Procs -> {"off", "read", "list", "add", "loop", "rsync",
                       "open", "fill", "rename", "arm", "rest"}]
  /\ todo \in [Procs -> SUBSET Dirs]
  /\ timer \in BOOLEAN
  /\ mem \in [Procs -> Counters]
  /\ {metrics, tmp} \subseteq Counters \cup {NoFile, Empty}
  /\ fd \in [Procs -> {NoFile, "tmp", "metrics", "gone"}]
  /\ next \in [Procs -> {"arm", "rest"}]
  /\ mixed \in BOOLEAN
  /\ newest \in 0..MaxVersion /\ events \in 0..MaxEvents

Spend == events < MaxEvents /\ events' = events + 1
JumpTo(p, where) == at' = [at EXCEPT ![p] = where]

\* write_metrics(), to go on at "then".
WriteMetrics(p, then) ==
  /\ JumpTo(p, "open") /\ next' = [next EXCEPT ![p] = then]
  /\ UNCHANGED <<metrics, tmp, fd>>

-----------------------------------------------------------------------------
(* The directories, and the kernel.                                        *)

\* Directory d changes; "by" are the directories one of which must be watched
\* for an event.
Changed(d, by) ==
  /\ newest < MaxVersion /\ newest' = newest + 1
  /\ version' = [version EXCEPT ![d] = newest']
  /\ IF by \cap watches = {} THEN UNCHANGED <<backlog, noticed>>
     ELSE /\ backlog' = IF backlog < QueueSize THEN backlog + 1 ELSE backlog
          /\ noticed' = [noticed EXCEPT ![d] = newest']
  /\ UNCHANGED <<copy, missed, at, todo, timer, mem, files, mixed, events>>

\* A file is created, written or deleted; or it is renamed, of which the
\* default event_mask says nothing.
ChangeFile ==
  /\ \E d \in exists : \E by \in {{d}, {}} : Changed(d, by)
  /\ UNCHANGED <<exists, watches>>

Mkdir ==
  /\ \E d \in Dirs \ exists :
       exists' = exists \cup {d} /\ Changed(d, {Root})
  /\ UNCHANGED watches

\* The watch of a directory goes with it.
Rmdir ==
  \E d \in exists \ {Root} :
    /\ exists' = exists \ {d} /\ watches' = watches \ {d}
    /\ Changed(d, {Root, d})

-----------------------------------------------------------------------------
(* The start of a process.                                                 *)

\* procd respawns the daemon; somebody runs `inotify-rsync rsync`.
Start(p) ==
  /\ at[p] = "off"
  /\ IF p = "sync" THEN Spend ELSE UNCHANGED events
  /\ JumpTo(p, "read")
  /\ mixed' = (mixed \/ \E q \in Procs \ {p} : at[q] # "off")
  /\ UNCHANGED <<dirs, copy, inotify, todo, timer, mem, files>>

\* init_metrics(); the one-shot run calls run_rsync() next.
ReadMetrics(p) ==
  /\ at[p] = "read"
  /\ LET m == IF metrics \in {NoFile, Empty} THEN Zero ELSE metrics
     IN  IF p = "daemon"
         THEN mem' = [mem EXCEPT ![p] = m] /\ JumpTo(p, "list") /\ UNCHANGED todo
         ELSE /\ mem' = [mem EXCEPT ![p] = [m EXCEPT !.runs = @ + 1]]
              /\ todo' = [todo EXCEPT ![p] = Dirs] /\ JumpTo(p, "rsync")
  /\ UNCHANGED <<dirs, copy, inotify, timer, files, mixed, events>>

\* dirs()
ListDirs ==
  /\ at["daemon"] = "list"
  /\ todo' = [todo EXCEPT !["daemon"] = exists]
  /\ JumpTo("daemon", "add")
  /\ UNCHANGED <<dirs, copy, inotify, timer, mem, files, mixed, events>>

\* A process ends: of the daemon the kernel drops the watches and the events.
End(p) ==
  /\ JumpTo(p, "off")
  /\ todo' = [todo EXCEPT ![p] = {}] /\ mem' = [mem EXCEPT ![p] = Zero]
  /\ IF p = "daemon"
     THEN /\ watches' = {} /\ backlog' = 0 /\ timer' = FALSE
          /\ noticed' = [d \in Dirs |-> 0] /\ missed' = [d \in Dirs |-> 0]
     ELSE UNCHANGED <<inotify, timer>>

\* Mutant: a watch that cannot be added is tried again.
MAddRetries ==
  /\ at["daemon"] = "add" /\ todo["daemon"] # {}
  /\ \E d \in todo["daemon"] \cap exists :
       /\ watches' = watches \cup {d}
       /\ todo' = [todo EXCEPT !["daemon"] = @ \ {d}]
  /\ UNCHANGED <<backlog, noticed, missed, at, timer, mem>>
  /\ UNCHANGED <<dirs, copy, files, mixed, events>>

\* inotify.add(); a directory that is gone meanwhile ends the daemon.
AddWatch ==
  /\ at["daemon"] = "add" /\ todo["daemon"] # {}
  /\ \E d \in todo["daemon"] :
       IF d \notin exists THEN End("daemon")
       ELSE /\ watches' = watches \cup {d}
            /\ todo' = [todo EXCEPT !["daemon"] = @ \ {d}]
            /\ UNCHANGED <<backlog, noticed, missed, at, timer, mem>>
  /\ UNCHANGED <<dirs, copy, files, mixed, events>>

Added ==
  /\ at["daemon"] = "add" /\ todo["daemon"] = {}
  /\ JumpTo("daemon", "loop")
  /\ UNCHANGED <<dirs, copy, inotify, todo, timer, mem, files, mixed, events>>

-----------------------------------------------------------------------------
(* The event loop.                                                         *)

\* on_event(): all events that are there are read and counted, the counters
\* written and the timer set.
OnEvent ==
  /\ at["daemon"] = "loop" /\ backlog > 0
  /\ backlog' = 0
  /\ mem' = [mem EXCEPT !["daemon"].events = @ + backlog]
  /\ WriteMetrics("daemon", "arm")
  /\ UNCHANGED <<dirs, copy, watches, noticed, missed, todo, timer, mixed, events>>

\* debounce_rsync()
Arm ==
  /\ at["daemon"] = "arm"
  /\ timer' = TRUE
  /\ JumpTo("daemon", "loop")
  /\ UNCHANGED <<dirs, copy, inotify, todo, mem, files, mixed, events>>

\* The timer's callback calls run_rsync().
Fire ==
  /\ at["daemon"] = "loop" /\ timer
  /\ timer' = FALSE
  /\ mem' = [mem EXCEPT !["daemon"].runs = @ + 1]
  /\ todo' = [todo EXCEPT !["daemon"] = Dirs]
  /\ JumpTo("daemon", "rsync")
  /\ UNCHANGED <<dirs, copy, inotify, files, mixed, events>>

-----------------------------------------------------------------------------
(* run_rsync() and write_metrics().                                        *)

Copy(p) ==
  /\ at[p] = "rsync"
  /\ \E d \in todo[p] :
       /\ copy' = [copy EXCEPT ![d] = version[d]]
       /\ todo' = [todo EXCEPT ![p] = @ \ {d}]
  /\ UNCHANGED <<dirs, inotify, at, timer, mem, files, mixed, events>>

\* rsync ends well when it has been everywhere.  It may fail before: what the
\* daemon then has not copied is not tried again until there is another event.
RsyncEnds(p) ==
  /\ at[p] = "rsync"
  /\ \/ /\ todo[p] = {} /\ UNCHANGED <<mem, missed, todo, events>>
     \/ /\ Spend
        /\ mem' = [mem EXCEPT ![p].errors = @ + 1]
        /\ todo' = [todo EXCEPT ![p] = {}]
        /\ missed' = IF p = "sync" THEN missed
                     ELSE [d \in Dirs |-> IF d \in todo[p] THEN noticed[d] ELSE missed[d]]
  /\ WriteMetrics(p, "rest")
  /\ UNCHANGED <<dirs, copy, watches, backlog, noticed, timer, mixed>>

\* Mutant: the file itself is written.
MOpen(p) ==
  /\ at[p] = "open"
  /\ metrics' = Empty /\ fd' = [fd EXCEPT ![p] = "metrics"]
  /\ JumpTo(p, "fill")
  /\ UNCHANGED <<dirs, copy, inotify, todo, timer, mem, tmp, next, mixed, events>>

\* fs.writefile(tmp) truncates the file, and then writes it.
Open(p) ==
  /\ at[p] = "open"
  /\ tmp' = Empty /\ fd' = [fd EXCEPT ![p] = "tmp"]
  /\ JumpTo(p, "fill")
  /\ UNCHANGED <<dirs, copy, inotify, todo, timer, mem, metrics, next, mixed, events>>

\* What is open may meanwhile be the metrics file: the other process renamed it.
Fill(p) ==
  /\ at[p] = "fill"
  /\ tmp' = IF fd[p] = "tmp" THEN mem[p] ELSE tmp
  /\ metrics' = IF fd[p] = "metrics" THEN mem[p] ELSE metrics
  /\ fd' = [fd EXCEPT ![p] = NoFile]
  /\ JumpTo(p, "rename")
  /\ UNCHANGED <<dirs, copy, inotify, todo, timer, mem, next, mixed, events>>

\* fs.writefile() fails: the temporary file, if it could be opened, stays as it
\* is, and nothing is renamed.
WriteFails(p) ==
  /\ at[p] \in {"open", "fill"} /\ Spend
  /\ fd' = [fd EXCEPT ![p] = NoFile]
  /\ JumpTo(p, next[p]) /\ next' = [next EXCEPT ![p] = "rest"]
  /\ UNCHANGED <<dirs, copy, inotify, todo, timer, mem, metrics, tmp, mixed>>

\* fs.rename(); then back to on_event(), or run_rsync() is done.
Rename(p) ==
  /\ at[p] = "rename"
  /\ next' = [next EXCEPT ![p] = "rest"]
  /\ IF tmp = NoFile THEN UNCHANGED <<metrics, tmp, fd>>
     ELSE /\ metrics' = tmp /\ tmp' = NoFile
          /\ fd' = [q \in Procs |-> CASE fd[q] = "tmp" -> "metrics"
                                      [] fd[q] = "metrics" -> "gone"
                                      [] OTHER -> fd[q]]
  /\ JumpTo(p, next[p])
  /\ UNCHANGED <<dirs, copy, inotify, todo, timer, mem, mixed, events>>

\* Mutant: the daemon drops the events that came while rsync ran.
MRest(p) ==
  /\ at[p] = "rest"
  /\ IF p = "sync" THEN End(p)
     ELSE /\ JumpTo(p, "loop") /\ backlog' = 0
          /\ UNCHANGED <<watches, noticed, missed, todo, timer, mem>>
  /\ UNCHANGED <<dirs, copy, files, mixed, events>>

\* The daemon goes back to its loop, the one-shot run exits.
Rest(p) ==
  /\ at[p] = "rest"
  /\ IF p = "sync" THEN End(p)
     ELSE JumpTo(p, "loop") /\ UNCHANGED <<inotify, todo, timer, mem>>
  /\ UNCHANGED <<dirs, copy, files, mixed, events>>

Kill(p) ==
  /\ at[p] # "off" /\ Spend
  /\ End(p)
  /\ fd' = [fd EXCEPT ![p] = NoFile] /\ next' = [next EXCEPT ![p] = "rest"]
  /\ UNCHANGED <<dirs, copy, metrics, tmp, mixed>>

-----------------------------------------------------------------------------
IRInit ==
  /\ exists \in {e \in SUBSET Dirs : Root \in e}
  /\ version = [d \in Dirs |-> 0] /\ copy = [d \in Dirs |-> 0]
  /\ watches = {} /\ backlog = 0
  /\ noticed = [d \in Dirs |-> 0] /\ missed = [d \in Dirs |-> 0]
  /\ at = [p \in Procs |-> "off"] /\ todo = [p \in Procs |-> {}]
  /\ timer = FALSE /\ mem = [p \in Procs |-> Zero]
  /\ metrics = NoFile /\ tmp = NoFile
  /\ next = [p \in Procs |-> "rest"] /\ fd = [p \in Procs |-> NoFile]
  /\ mixed = FALSE /\ newest = 0 /\ events = 0

\* The steps a process takes by itself.
Step(p) ==
  \/ ReadMetrics(p) \/ Copy(p) \/ RsyncEnds(p)
  \/ Open(p) \/ Fill(p) \/ WriteFails(p) \/ Rename(p) \/ Rest(p)
  \/ p = "daemon" /\ (ListDirs \/ AddWatch \/ Added \/ OnEvent \/ Arm \/ Fire)

IRNext ==
  \/ ChangeFile \/ Mkdir \/ Rmdir
  \/ \E p \in Procs : Start(p) \/ Step(p) \/ Kill(p)

\* The daemon is a program that runs on, its timer expires, and procd respawns
\* it; rsync ends.  Nothing is assumed of the one-shot run.
Fairness == WF_irVars(Step("daemon")) /\ WF_irVars(Start("daemon"))

IRSpec == IRInit /\ [][IRNext]_irVars /\ Fairness

-----------------------------------------------------------------------------
(* Properties.                                                             *)

\* The daemon has read events and will set its timer.
WillArm ==
  \/ at["daemon"] = "arm"
  \/ at["daemon"] \in {"open", "fill", "rename"} /\ next["daemon"] = "arm"

\* What the daemon got an event of is in the copy, or the daemon will still run
\* rsync for it: there are events to read, the timer is set or about to be, or
\* rsync has not come to that directory yet (inotify-rsync.uc:158-167, 216-255).
\* Changes while rsync blocks the daemon, while it writes its counters and while
\* the queue overflows are among them.  Of a change that a failed rsync left out
\* nothing is said; later ones of the same directory count again.
NothingForgotten ==
  \A d \in Dirs :
    noticed[d] > copy[d] /\ noticed[d] > missed[d]
      => \/ backlog > 0 \/ timer \/ WillArm
         \/ at["daemon"] = "rsync" /\ d \in todo["daemon"]

\* The daemon comes back to its loop, however directories come and go while it
\* starts and whatever it finds of its files (inotify-rsync.uc:113-131,
\* 201-238, inotify-rsync.init:23).
BackInLoop == []<>(at["daemon"] = "loop")

\* A file with counters stays one, and none of them is less.
AtLeast(a, b) ==
  b \in Counters => a \in Counters /\ \A c \in DOMAIN b : a[c] >= b[c]

\* The counters in the file never go back, and a reader never finds it half
\* written, over restarts, kills at any point of writing it and failures, as long
\* as no one-shot run has been beside the daemon (inotify-rsync.uc:113-156).
CountersGrow == [][~mixed' => AtLeast(metrics', metrics)]_irVars

=============================================================================
