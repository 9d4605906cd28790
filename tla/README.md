# TLA+ models of my-openwrt-feed

This directory holds TLA+ specifications of the programs in this feed, TLC
configurations that model-check them, and proofs that TLAPS checks. The feed is a
collection of OpenWrt packages. Most of them package a third-party program; this
project is about the ones whose logic lives in the repository: the VM backup, the
BIRD configuration changes and the page that makes them, the template server, the
rsync daemon, the VPN routing, and the tunnel interfaces with their forms.

Paths below are relative to the repository, `src/` left out.

## Inventory

### qemu-instance-init: consistent backups of running VMs

`files/qemu.init` starts VMs under procd; `files/qemu-backup.uc` is run once per
backup, and once before each start of a VM (`--recover`); both use
`files/backup.uc`, and that uses `files/qmp.uc` to talk to QEMU (QMP) and to the
guest agent.

- **State**: the base image and the qcow2 overlay `<name>.pbs-overlay.qcow2`; which of
  them QEMU runs on; QEMU's block job `pbs-commit`; the guest's frozen filesystems;
  the return code. Nothing is persisted besides the overlay file itself, which is
  the only trace an interrupted backup leaves.
- **Operations**: merge a leftover overlay (offline by `qemu-img commit`, online by
  `block-commit`); freeze, snapshot, thaw; read the base with
  proxmox-backup-client; commit the overlay and pivot; unlink it.
- **Interactions**: sockets to QEMU and to the agent that serve one client each;
  procd respawns QEMU with the command line it was given; the guest writes
  throughout.
- **Hard**: crashes between any two steps, replies that never arrive although the
  command took effect, QEMU exiting or being restarted meanwhile, a second backup or
  a start of the VM during a backup, a reply that arrives late on a stream without
  message ids.
- **Correct when**: no guest write is lost; the VM boots only on a disk that has
  them all; the overlay is deleted only when merged; a backup that reports success
  holds one instant of the disk; the guest is thawed; every run ends.

### rpcd-mod-bird and bird3: changing OSPF costs

`rpcd-mod-bird/src/bird.uc` serves rpcd methods; `set_ospf_cost` edits the
configuration text with `birdconfig.uc`, has BIRD check it, promotes it to the
runtime configuration and has BIRD load it. `bird3/files/bird.init` runs BIRD.

- **State**: `/etc/bird.conf`, the runtime and the next configuration in `/tmp`, a
  lock file, the configuration BIRD runs.
- **Operations**: edit, check, promote, configure; status.
- **Interactions**: rpcd runs each call in a process of its own; `luci-app-bird`
  calls it over HTTP; procd and SIGHUP restart and reload BIRD.
- **Hard**: BIRD may exit between a command and its reply; BIRD may have been
  restarted or reloaded on another text since the last call; two rpcd processes
  share the files; the editor works on lines and BIRD on tokens.
- **Correct when**: only checked texts are promoted; a successful call changes the
  cost of its interface and no other; earlier changes are carried over; the lock is
  given back.

### luci-app-bird: the status page

`view/bird/status.js` polls `bird.status` every five seconds and puts each answer on
the page; the cost of each OSPF interface is an input that calls `set_ospf_cost`.

- **State**: the count of fields under edit (`costEdits`) and the poll; for each
  input the variables of its closure, which outlive it; the tables, sections and the
  topology network, each both a variable and something on the page; whether the
  drawing script is absent, loading or loaded.
- **Operations**: the handlers of focus, blur, Enter, change, input and of the
  spinner's timer; `refresh()` with its parts; loading the script.
- **Interactions**: calls in flight are not cancelled when the poll stops and are
  answered in any order; a refresh creates every input anew.
- **Hard**: any order of user events, timers, answers and refreshes, over inputs
  that may have left the page; browsers that differ in whether removing a focused
  element blurs it.
- **Correct when**: the poll is off exactly while a field is edited; nothing is sent
  from under the cursor or without a change; failures are told; what the variables
  hold and what the page shows agree, and are of one answer; the page ends up showing
  what BIRD does.

### uwsd and ucode-mod-inotify: templates

`uwsd/files/utpl-wrapper.uc` answers requests from compiled templates. With
`ucode-mod-inotify` (`src/inotify.c`) a watch set over the document root drops the
cache; without it mtime and size are compared on each request.

- **State**: the cache, the watch set, the kernel's event queue.
- **Hard**: files and directories change between any two system calls of the
  worker; the queue overflows; imported modules are not part of a cache entry's key.
- **Correct when**: no request that arrives after a change is answered from before.

### inotify-rsync: mirroring directories

`inotify-rsync.uc` is run by procd as a daemon (`start`) that watches directories and
runs rsync when no event has come for 100 ms, and by a user as a one-shot run
(`rsync`).

- **State**: the watch set and the kernel's event queue; the debounce timer; three
  counters in memory and in a metrics file, written through a temporary one.
- **Operations**: list, watch, read events, set the timer, run rsync, write the
  metrics.
- **Interactions**: daemon and one-shot run share the metrics file, its temporary
  file and the destination; procd starts the daemon again when it ends.
- **Hard**: directories that come, go and change while the daemon lists, watches or
  is blocked by rsync; a queue that overflows; a kill while the counters are written.
- **Correct when**: every change the daemon has an event of is copied by an rsync that
  starts after it; the daemon comes back to its loop; the counters never go back.

### vpn-sticky: replies leave by the tunnel they came by

`vpn-sticky.init` installs for each tunnel an ip rule and a routing table, and from
`vpn-sticky.nft.uc` an nftables table that marks connections.

- **State**: rules, routes and the nftables table in the kernel; a state file that
  lists what the last reload installed; a lock file; procd's triggers.
- **Operations**: `start`, `reload` (install what is missing, then remove what the
  old state file names and was not installed), `stop`.
- **Interactions**: netifd reports interfaces, procd runs `reload` on a trigger, a
  user runs any command; processes of the script wait for each other at the lock.
- **Hard**: configuration and interfaces change between any two commands; a reload
  may be killed half way; entries are removed by key, whoever installed them.
- **Correct when**: once no reload is left to run the kernel holds what the
  configuration asks for and nothing else; what is right is never taken away in
  between; stop leaves nothing.

### netifd-proto-fou, netifd-proto-dummy and their luci-proto forms: interfaces

netifd runs `fou.sh` (for the protocols fou_ip6gre and fou_ip6tnl) and `dummy.sh` as
handlers that set an interface up or tear it down; `fou_ip6gre.js`, `fou_ip6tnl.js`
and `dummy.js` are the forms that write their sections.

- **State**: the section, as the form or an editor left it; in the kernel the link
  and the FOU listener, which belongs to a port and an address and to no interface.
- **Operations**: setup (check the options, register the listener with up to five
  attempts, add the link, report to netifd), teardown, saving a form.
- **Interactions**: handlers of several interfaces interleave; a tunnel's listener
  binds to an address that another interface brings; two tunnels may share a port.
- **Hard**: handlers killed between two commands; a listener or link left by an
  earlier configuration; conditions between options that form and handler state
  each in its own language.
- **Correct when**: an interface that is up has the link and listener of its
  configuration; one that is down has left neither; what a form saves the handler
  accepts; handlers end.

### Not modelled

| Part | State | What is hard | Properties it should have |
|---|---|---|---|
| pbs-helper | report buffer, two notification sinks, exit code | one sink fails, lines longer than the buffer | both sinks are tried and the exit code tells; the buffer keeps head and tail and counts what it omits |
| ucode-mod-sqlite | handles and statements of libsqlite3 | lifetimes under garbage collection | no statement outlives its handle |

`PROJECT.json` lists every component, the ones that only package a third-party
program too, and every hazard found, at its line.

## Modules

| Module | Models | Composed with |
|---|---|---|
| `QemuBackup` | qemu-backup processes, QEMU, guest, procd | |
| `AgentCalls` | what freeze() and thaw() rely on: synchronous calls to the guest agent | |
| `AgentSession` | one guest agent channel over several backups | implements `AgentCalls` |
| `BirdConfig` | the line editor, and BIRD's reading of a text | extended by `BirdReconfig` |
| `BirdReconfig` | rpcd processes, BIRD, procd, the administrator | |
| `UtplCache` | the worker of utpl-wrapper, file system, inotify | |
| `CostFields` | cost fields and poll of the status page, rpcd's answers | |
| `AsGraph` | `buildAsGraph()`, and what the graph should be | extended by `StatusPage` |
| `StatusPage` | tables, sections and topology of the status page | |
| `InotifyRsync` | daemon and one-shot run, kernel queue, files | |
| `VpnSticky` | processes of the init script, procd, netifd, kernel | |
| `NetifdProtos` | protocol handlers, forms, netifd, kernel | |
| `MC...` | instances for TLC | |
| `..._proofs` | theorems about QemuBackup, AgentSession, BirdReconfig with BirdConfig, CostFields, StatusPage with AsGraph, VpnSticky, NetifdProtos | extends the module |
| `Inotify_proofs` | theorems about the two that use ucode-mod-inotify | extends `UtplCache` and `InotifyRsync` |

Operators whose names begin with `M` and that a comment calls a mutant are not
part of the specifications: each is a plausible mistake in the definition that
follows it, used to see that a property would notice.

### QemuBackup

A disk is a function from blocks to the number of the guest write a block holds,
so that losing or resurrecting a write is visible. `base`, `ovl` and `home` are the
two images and the one QEMU runs on; `Content` is what the VM reads. `guest` is the
history of what it wrote. A process has a `pc`; each call that leaves the process
is an action:

| `pc` | Action | Code |
|---|---|---|
| idle | `Begin` | qemu-backup.uc:62-106; whether the VM runs is looked at only here |
| check | `Check` | backup.uc:336-365 |
| recover, offline, ropen | `Recover`, `OfflineCommit`, `OpenForRecover` | backup.uc:253-303 |
| open, agent, freeze, snapshot, thaw | `OpenForSnapshot` ... `Thaw` | backup.uc:365-420 |
| read | `Read`, `ReadDone` | the client, and qemu-backup.uc:209-228 |
| reopen, block-commit, ready, complete, gone | `Reopen` ... `WaitGone` | backup.uc:96-152, 432-456 |
| unlink | `Unlink` | backup.uc:457-464 |
| boot | `Boot` | qemu.init:75-147 |

`commit()` is called from `recover()` and at the end of a backup: `InRecover` tells
the two apart and `CommitFails`, `RecoverReturns` and `RecoverFails` go where the
code returns to. A lost reply ("timeout") is a disjunct in which the command takes
effect and the process goes the way of the error. A thaw of a stale freeze may fail
when the agent is opened (`OpenAgent`; backup.uc:49 ignores that): the guest is then still
frozen and the freeze that follows is refused.

The `Faults` constant names what the environment may do, and `Overlap` which
processes may run at the same time; `Tolerated` is the setting in which the package
keeps every write. What lies outside it is not hidden: see *Disagreements*.

### AgentSession

`execute()` writes a request and takes the next reply on the stream as its answer.
Requests and replies wait in two channels that outlive the session. `Sync` is the
loop of `agent_session`, which skips at most `SyncTries` replies; `Status`,
`StaleThaw`, `Freeze`, `Snapshot`, `Thaw` are the steps of a backup. A late reply
is a `Result` that times out while the request or its reply is still in the
channel. `chatty` is an agent that answers the stray 0xFF with an error of its own.

QemuBackup abstracts all this to "the agent answered, or it did not". `AgentCalls` is
that abstraction as a specification: a call is answered once, by its own answer, and the
guest's filesystems change only by the call under way and before it returns.
`ImplementsCalls` says that a session which has synced implements it (`Calls` is the
refinement mapping: a call is the step the session is at, its answer the head of the
replies), until a reply of its own is late. What earlier sessions left in the stream
reaches the guest only between calls.

### BirdConfig and BirdReconfig

A text is a sequence of lines of tokens. The editor is translated line by line
(`HeadLines`, `OpenLines`, `CloseLines`, `CostLines`); BIRD's `Parse` looks at
tokens only, which is what makes the difference between the two visible; `Steps` is
what BIRD has made of each prefix of the lines. `WellLaid` is the layout the editor is
made for (a statement or a brace to a line, a block's brace on the line of its header
or on the next, one block to an interface and one cost statement to a block). In
BirdReconfig each file access and each exchange with BIRD is an action. `Cut` is
BIRD exiting between a command and its reply.

### UtplCache

A document root with one subdirectory that comes and goes, templates in both and a
module they import. `onRequest` is split at its system calls: `AddRoot`, `List`,
`AddSub` (watch_dirs), `Poll` (poll_watcher), `Get`, `Load`, `Import`
(get_template). A change is visible from the first write (`Modify`) and announced
when the file is closed (`CloseWrite`). `start` records what was completed when the
request arrived.

### CostFields

Each handler of `costWidget()` is a function from a page (the input's closure, the
count, the poll, the call it makes) to the page it leaves, as JavaScript runs it to
completion: `OnFocus`, `OnBlur`, `OnEnter`, `OnChange`, `OnTimer`, `OnInput` over
`Apply`, `EndSpin`, `PauseCostPoll`, `ResumeCostPoll`. The actions `Focus`, `Leave`,
`Enter`, `Type`, `Spin`, `Timer` run one of them; `Tick` is the poll. A call in flight
is a slot: `Serve` is rpcd, `Arrive` is the continuation in `applyCost()` or
`refresh()`, `Fault` a call that is lost or refused, or a status answer that says BIRD
is not up although it is. `asked` is the cost last sent for an interface that nobody has
changed since and of which the user was not told that it failed; it is not kept while
two calls of the interface are on their way. `Refresh` replaces every input
(`NewInputs`); `Closures` keeps a replaced one only while its timer is pending. Whether
a change event precedes a blur, and whether the field still counts as active then,
differs between browsers and is a choice (`Blurred`). `blurs` says whether this browser
blurs a focused element that is removed.

### AsGraph and StatusPage

`BuildAsGraph` is the code's loop over paths and hops (recursive functions for the
two loops); `IsAsGraph` says from the paths alone which nodes and edges there are. In
`StatusPage` every table is a variable (`tbl`) and a box on the page (`box`), and the
content of a table is the answer it was updated from, so that `OneReply` can compare
them. `Refresh` is `refresh()` with `UpdateTables`, `UpdateOspf`, `UpdateTopo`, or
`RenderUnreachable`; `ScriptLoaded` and `ScriptFails` are the ends of
`loadTopoScript()`. `topoNet` is the network the page has drawn, `topoBox` what is in the
box meant for it; `DrawingLost` is a network that is in no box.

### InotifyRsync

A directory is the number of its last change, `copy` that of the destination,
`noticed` what the daemon has had an event of, and `missed` the part of that which a
failed rsync left out and nothing repeats. Daemon and one-shot run are two processes over
one set of actions: `ReadMetrics`, `Copy`, `RsyncEnds`, `Open`, `Fill`, `Rename`,
`WriteFails`, `Rest`; the daemon's own are `ListDirs`, `AddWatch`, `Added`, `OnEvent`,
`Arm`, `Fire`. `fd` follows an open file through a rename. `WriteFails` is `fs.writefile()`
that fails, after which nothing is renamed. `Changed` sends an event only to a watched
directory and only while the queue has room. The specification is `IRSpec`: names that
`UtplCache` has too are others here, so that `Inotify_proofs` can extend both.

### VpnSticky

A process of the init script has the configuration it loaded (`cfg`), the interfaces it
has still to come to (`todo`), the commands left for the one it is at (`work`, a set of
which `NextCommands` are next: family 4 first, of a family the rule first; the prefixes
of a family in any order), the lines of the state it has installed (`new`) and the lines
it has to remove (`stale`). `Lock`, `Load` or `LoadFails`, `Nft`, `LookUp`,
`EnsureRule`, `ReplaceRoute`, `Stale`, `RemoveEntry`, `Unload`, `Finish` are its steps,
in each of which it runs one command that others can see. `LoadFails` is
`load_config_data` returning 1: a reload gives up and releases the lock; a stop without
a state file (`Unload`) then removes no rules. `ip rule add` and `ip route replace` may
fail; their line is in the state all the same. Rules are keyed by family and preference,
routes by family, table and the prefix as the kernel knows it (`Key`): two spellings of
one prefix are two state entries and one route. `abandoned`, `unseen`, `respelled`,
`refused`, `missing` and `nftFailed` record what nobody has made good: what a killed
reload installed, a configuration or interface that no reload took up, a prefix spelled
anew, routes and rules that could not be set, a table that nft refused. The properties
name them as conditions. That two sections name the same interface, preference or table
is excluded (`Distinct`): the last of them would win.

### NetifdProtos

`conf` is the section, `run` what netifd handed to the handler. `GreForm`, `TnlForm`
and `DummyForm` say which section a form makes of an entry, if it saves it;
`Sections` adds the same entry written by hand. `Setup`, `AddListener` (one attempt),
`AddLink`, `Update` are the setup handler, `DelLink` and `DelListener` the teardown,
each `ip` command an action; `Kill` ends a handler anywhere.

## Runs

| Run | Question | Bounds |
|---|---|---|
| qemu_serial | one process at a time: is the disk safe and does every run end, also when a stale freeze cannot be thawed? | 2 blocks, 2 writes, 3 processes one after the other |
| qemu_starts | a start, stop or respawn during a backup: is the image of one instant or reported? | 2 blocks, 1 write, 2 processes at once |
| qemu_overlap | two processes at once and no fault: is the disk safe? | 2 blocks, 2 writes |
| qemu_killed_in_merge | a disagreement, below | |
| agent_faults | is a session in step whatever earlier ones left behind, and its calls synchronous? | 3 sessions, 4 replies skipped, 2 thaws |
| bird_calls | two rpcd processes, an administrator and an unreliable BIRD | 2 calls, 2 events, 7 layouts of 2 interfaces |
| utpl_requests | is any request answered from before a completed change? | 3 changes, a queue of 2 events, 2 templates and a module in 2 directories |
| cost_fields | is the poll off exactly while a field is edited, is no cost lost in silence, and does the page converge? | 2 fields, 6 inputs, 2 calls in flight, 3 events |
| page_refresh | do variables and page agree, whatever answers arrive? does the page come to show what BIRD reports? is the graph right? | 4 reports, 2 calls in flight, 3 events; 1040 pairs of paths |
| rsync_changes | is every noticed change copied, unless rsync failed on it? do the counters grow? | 2 directories, a queue of 1, 2 changes, 2 events |
| vpn_reloads | what does the kernel hold after the last reload, and meanwhile? | 2 processes, 2 interfaces, 4 configurations, 3 events |
| netifd_ifaces | do up and down interfaces have what they should in the kernel? | 1 dummy, 2 tunnels, 2 attempts, 2 events |

Why these are enough. Two blocks are the least with which an image can be torn and a
commit be half done; two writes the least that order a write before and one after a
snapshot on one block; three processes allow backup, crash, recovery, backup. An
agent session leaves at most four messages behind, and the third session meets what
two have left. `SyncTries` is 4, not 8, so that giving up is reached. Two calls
with two events between them reach every order of edit, restart and promote.
Three changes overflow a queue of two.

In cost_fields an event is anything a user does, a call that fails or a change by
others; timers, polls and answers are free. Three are enough for a spinner click, a
focus and a blur with the timer, or for focus, typing and Enter with a refresh between
any two. Six inputs are those on the page and those of two refreshes before, whose
timers are pending. The largest cost is 2, so that clamping at either end is reached. In
page_refresh two calls in flight overtake each other; three events allow BIRD to go down
and come back while the script fails. A path longer than three hops adds no case to the
look at one hop and the one before. In rsync_changes a queue of one is full after the
first event. In vpn_reloads three events allow two changes of the configuration, or of
an interface, around a kill, a failed load or a failed rule; the four configurations
move a table and a mark to the other interface and give it a prefix of one family, drop
an interface, add IPv6 (the one the router boots with is without it, which keeps the
instance small), disable the service and respell a prefix. In netifd_ifaces the address
comes and goes with the dummy, two attempts are the least with a next one, and two
events reconfigure a tunnel twice, or once with a kill.

`CHECK_DEADLOCK FALSE` is set everywhere because the bounds on writes, processes,
calls, sessions and changes let a behaviour end.

Mutants: each property of a passing run is violated when one mapped definition is
replaced by a plausible mistake (`PROJECT.json`, "mutants").

### What the properties say

- `NoLostWrite`: the disk the VM runs on or will be booted from is what the guest
  wrote, after any legal order of snapshots, half commits, crashes, lost replies and
  recoveries.
- `UnlinkMerged`, `OverlayReported`: the overlay is deleted only when
  merged; a VM left on the overlay is reported. The second is a property of the step
  that ends a backup, not of states: with two processes one backup may end, with 0
  and the VM on the base, before the other takes its snapshot.
- `PointInTime`, `PointInTimeDuringStart`: exit code 0 means one instant.
- `Thawed`, `Terminates`: liveness, under weak fairness of the process' steps (it is
  a program that runs on) and of QEMU's block job (QEMU works on it). Polls and
  reads have timeouts in the code. No fairness is assumed of the guest, procd,
  faults or new runs.
- `InStep`, `FrozenSnapshotInTime`, `ThawedAtEnd`: what a session may rely on.
  `ImplementsCalls`: the stream as synchronous calls, a refinement of `AgentCalls`.
  `SessionEnds`: fairness of the session's steps and of the agent working off its
  requests.
- `RuntimeChecked`, `Applies`, `CarriedOver`, `LockHeld`; `Fresh`, `FreshByStamp`,
  `Announced`: as commented in the modules, safety only.
- `PollOff`, `PollBack`: the count of edited fields never reaches zero too early, and
  never stays behind. `NotWhileTyping`: nothing is sent from under the cursor.
  `CostKept`: a cost that was sent is what BIRD uses, or is on its way, or the user was
  told that it failed, whatever calls are refused or lost and whatever inputs are
  replaced meanwhile. `Converges`: the fields come to show what BIRD uses and to take
  exactly that for unchanged.
- `PageMatches` (tables and sections), `OneReply`: variables, page and last answer agree.
  `GraphRight`: the drawn graph, against `IsAsGraph`. `Settles`: once BIRD reports the
  same from some time on, all tables, sections and the drawing show that report
  (`TablesShow`, `TopoShows`, `UnreachableShows`), after answers out of order, outages and
  a script that failed; save for a drawing that is lost (`DrawingLost`), see below.
- `NothingForgotten`: a change the daemon has an event of is copied or rsync will still be
  run for it; changes that a failed rsync left out are excepted (`missed`), and a daemon
  that was killed has forgotten its own. `BackInLoop`, `CountersGrow`.
- `Settled`: whenever nothing is left to do, rules (`RulesSettled`), routes
  (`RoutesSettled`) and the nftables table (`NftSettled`) are a function of
  configuration and interfaces, and empty after a stop (`StopClears`), save for rules and
  routes whose command failed (`missing`, `refused`). `NoWindow`, `ReloadsEnd`.
- `FormFits`, `LinkFits`, `ListenerFits` (`ListenerFitsAlone` and `KeepsListener`),
  `NothingLeft`: over interfaces that share the kernel. The conditions in them
  (a port of one's own, no killed handler) are where the code makes no promise.

Every module states its types (`TypeOK`). That of QemuBackup is part of a run; those
of QemuBackup, AgentSession, UtplCache, CostFields, StatusPage, InotifyRsync and
NetifdProtos are proved (`TypeCorrect`).

Fairness in the modules around the core: a browser runs timers that are due and delivers
answers, and rpcd answers (`CostFields`, `StatusPage`); nothing is assumed of users, of
BIRD and of calls that fail. `Settles` holds since only `MaxEvents` attempts fail, as
the poll tries again every five seconds. The daemon of inotify-rsync and its timer run
on, rsync ends, and procd starts it again (inotify-rsync.init:23, which asks for a
respawn; procd gives up after five ends in quick succession, more than the bounds
allow). Processes of vpn-sticky are programs that run on; `ReloadsEnd` needs nothing of
procd.

## Proofs

Each `..._proofs` module proves, for every value of its component's constants, what the
table names. TLC looked for counterexamples to the inductive invariants on the
instances of the runs before they were proved.

| Module | Theorem | States |
|---|---|---|
| `QemuBackup_proofs` | `TypeCorrect` | `TypeOK` |
| | `NoWriteLost`, `UnlinkedWhenMerged`, `OverlayIsReported` | `NoLostWrite`, `UnlinkMerged`, `OverlayReported` |
| | `BackupIsSnapshot`, `BackupIsSnapshotDuringStart` | `PointInTime`, `PointInTimeDuringStart` |
| | `NoWriteLostOverlap` | `NoLostWriteOverlap` |
| `AgentSession_proofs` | `InStepAlways`, `FrozenSnapshotAlways`, `ThawedAtEndAlways` | `InStep`, `FrozenSnapshotInTime`, `ThawedAtEnd` |
| | `CallsImplemented` | `ImplementsCalls`, the refinement of `AgentCalls` |
| `BirdReconfig_proofs` | `LockSafe`, `RuntimeSafe` | `LockHeld`, `RuntimeChecked` |
| | `EditorRight` | what `editOspfCost` does to a text, as BIRD reads it |
| | `AppliesAlways`, `CarriedOverAlways` | `Applies`, `CarriedOver` |
| `Inotify_proofs` | `AnnouncedAlways`, `FreshAlways`, `FreshByStampAlways` | `Announced`, `Fresh`, `FreshByStamp` of `UtplCache` |
| | `NothingForgottenAlways`, `CountersGrowAlways` | `NothingForgotten`, `CountersGrow` of `InotifyRsync` |
| `CostFields_proofs` | `PollOffAlways`, `PollBackAlways` | `PollOff`, `PollBack` |
| | `NeverWhileTyping`, `CostKeptAlways` | `NotWhileTyping`, `CostKept` |
| `StatusPage_proofs` | `AsGraphRight` | `BuildAsGraph` against `IsAsGraph`, for every list of paths |
| | `PageMatchesAlways`, `OneReplyAlways`, `GraphRightAlways` | `PageMatches`, `OneReply`, `GraphRight` |
| `VpnSticky_proofs` | `TypeCorrect` | `TypeOK` |
| | `SettledAlways`, `NoWindowAlways` | `Settled`, `NoWindow` |
| `NetifdProtos_proofs` | `FormFitsAlways`, `LinkFitsAlways`, `ListenerFitsAlways`, `NothingLeftAlways` | `FormFits`, `LinkFits`, `ListenerFits`, `NothingLeft` |

### The arguments

**QemuBackup.** `TypeOK` is not inductive by itself: `JobCopy` writes `ovl[b]` into
the base, a write number only because the job never leaves a hole unsynced and ends
with QEMU (`JobTypeOK`). `NoWriteLost` and `UnlinkedWhenMerged` assume the setting
`Tolerated` as the properties do. Their invariant `NInv` says who may be where: one
process (`Serial`); an overlay in use exists (`InUse`); what the job calls synced is
in the base (`Synced`); a concluding job has a process that waits for it
(`Concluding`); a stale overlay on the disk has a process about to unlink it
(`Stale`). Without the last two the pivot or a kill could leave an overlay that a
recovery commits again.
`BackupIsSnapshot` holds under `Overlap = "none"` with any faults, respawn and late
events too: `PInv` follows the image of the process. While it reads and QEMU is on the
overlay the base is static; when QEMU left the overlay meanwhile, the commit cannot
succeed and the exit code is not 0. `SInv` is the same beside a start of the VM,
which merges a leftover only before QEMU runs. With processes that overlap in any way
and no fault `OInv` suffices: a VM that is off has no overlay, so only the block job
merges.

**AgentSession.** What a stale reply can do depends on the order of two channels.
`Ordered`: messages are in the order of their requests, answers before requests, and
the answer to a sync is the last to its request. `Alone` follows: once a sync was
answered with its own number, the channels hold nothing but the request the session
waits for, or one answer to it, until a step times out (`late`). With `Truthful`, an
answer taken for a freeze or thaw is that of the guest. `CallsImplemented` is a step
simulation from the same invariant: in a call a step of the agent is `Answer`, as what it
works off is the session's own request; a reply that is taken is `Return`; all before the
sync is over and after a late reply is `Idle` or `Lose`.

**BirdReconfig.** `RuntimeSafe` needs `NextChecked`: a text that a process is about to
promote was checked and, because only the holder of the lock writes the next file, not
changed since. Both lock theorems hold for any texts; the syntax stays unexpanded.

`EditorRight` is about the syntax: of a `WellLaid` text, an edit that does not fail
makes a text that is `WellLaid` again, valid exactly if the first was, and with the
costs of the first but for that of the interface. It goes by induction over the lines.
`LineStep` says what BIRD makes of one line; `BalanceIsDepth` that the editor's brace
count is the difference of BIRD's depths; `HeadLine`, `OpenLine`, `CloseLine` that the
lines the editor finds are where BIRD enters and leaves the block; `CostLinesOf` that
the cost line between them is the block's. `EditReads` then follows BIRD through both
texts: same states up to the edited line, and after it the same but for the one cost.

`CInv` adds what a call under way holds: the text it derived is the edit of the one it
read (`UnderWay`), which has a layout the editor is right about (`AllGood`); the
runtime file has the costs earlier calls set, save for that of the interface whose call
has promoted and not finished (`RuntimeKeeps`), and so has the text a call started from
(`SourceKeeps`). `AppliesAlways` and `CarriedOverAlways` assume that what
the administrator puts into `/etc/bird.conf` is `WellLaid` (`TextsLaid`). This is needed:
see *Disagreements*. `MCBirdReconfig` has TLC evaluate that its texts, one that BIRD
refuses among them, are (`LaidAssumption`).

**UtplCache.** `WatchInv`: a directory without a watch is about to get one, in the walk
under way or in the one that an event in the queue will start. `NoticeInv`: if an entry
lacks a completed change then an event that drops it is in the queue, also when the
queue overflowed (`EnqueueKeeps`). `PolledInv` carries this over the poll to the reply:
then the entry has what was complete when the request arrived. `StampInv` is the
counterpart without a watch.

**CostFields.** `CountInv`: `edits` is at least the number of closures that the spinner
paused plus one for the cursor, and equal to it in a browser that blurs what it
removes; the poll runs while it is zero. `TimerInv`: who is counted for the spinner has
a timer that ends that, so no closure that counts is recycled or forgotten. `FocusInv`:
a field with the cursor will be applied when it is left. `CostKept` needs `CallsInv`: the
calls of an interface that are on their way to rpcd ask for what was asked for last, so
what rpcd then sets is that (`AloneInv`). The handlers are treated one
by one as functions on a page (`Does`), and the actions from those lemmas.

**StatusPage.** `PageMatches` and `OneReply` need `SectionsKept`, what `UpdateOspf` goes by
when it adds and removes sections, and `Drawn`. `AsGraphRight` is an induction over paths
and hops with the set of nodes and of unordered pairs seen so far.

**InotifyRsync.** `NothingForgotten` is nearly inductive (`ToldInv` besides: an event
tells of a change that was made). `CountersGrow` needs `AloneInv`: until a one-shot run
is beside the daemon, the one process has counters at least those of the file, and what
it renames is what it filled.

**VpnSticky.** `IInv` follows a reload through its commands. `Structured`: one process at
a time is past the lock; the interfaces it has still to come to, the commands left and
the lines installed are those its configuration asks for (`Asks`), and the lines to
remove are of the state file and not among the new ones. `Working`: a reload has the
configuration there is or another reload is due (`Current`, `Outdated`), and every rule
and route its configuration asks for is yet to come, among the commands left, or holds
(`RuleProgress`, `RouteProgress`). A route holds if it is there, or is excused because
its interface is down, was not seen, or a reload is due (`RouteHolds`). `Resting`: once
the state file is renamed it has the same for the kernel, until something changes.
`Covered` is the other half, that nothing is left over: what is in the kernel is named by
the state file, by the lines of the reload under way, or was installed by a configuration
that is remembered, because its reload was killed or an installation without state file
had set it up; once the lines to remove are known, by these or the new ones. `NftRested`
says when the table is that of the configuration. `Settled` follows: when all is quiet
nothing is remembered or due, so what is wanted holds and what holds is wanted; of a key
only one interface can want something (`Alike`, from `Distinct`). `NoWindow` follows step
by step: `EnsureRule` and `ReplaceRoute` put what is there already, and an entry that is
removed is not among the new ones, all of which hold when the removal starts
(`AllInstalled`), unless it is another spelling of one (`Spelled`). A failed command ends
in `refused` or `missing`, which a later one for the same key clears; a failed load leaves
the configuration unseen, so nothing is quiet until a reload has loaded it.

**NetifdProtos.** `LinkInv` and `OwnInv` say between which steps of a handler that was not
killed its link and a listener of a port of its own exist; `UsersInv` who may have added
a listener; `KeepInv` that from the link on the listener is there or the attempts are
used up. `FormFits` is a part of the invariant: what a form saves, the handler
takes.

### Assumptions and limits

The theorems assume what the modules assume of their constants, which TLC evaluates on
every run. Some are there for the proofs: the router has finitely many interfaces
(`CostFields`); the values that stand for no file, no section and no AS number are none
(`InotifyRsync`, `NetifdProtos`, `AsGraph`, `VpnSticky`); an entry has the options of its
form (`EntriesAssumption`); no configuration gives two interfaces one name, preference
or table (`Distinct`).

The library's induction theorems take an operator, which the provers cannot instantiate.
Where an argument is over the lines of a text or the hops of a path, the modules use that
`<` is well-founded (`WFMin`) on the set of indices for which the claim fails (`Least`,
`UpTo`), and show that a recursive function exists before they unfold it (`StepsExist`).

Only model-checked is liveness, under fairness, which the prover does not do: `Terminates`,
`Thawed`, `SessionEnds`, `Converges`, `Settles`, `BackInLoop`, `ReloadsEnd`; nor does it do
ENABLED.

## Disagreements between the code and what it says

One is a run that TLC finds violated, `qemu_killed_in_merge`: killed between pivot and
unlink, a backup leaves a merged overlay that the next start commits again over newer
blocks of the base. `PROJECT.json` "findings" quotes the lines.

The others were met while modelling. Where an item ends in a name, that is the condition
by which a property excludes the behaviour, the constant that does, or the stronger
property that fails: the behaviour is in the model and can be had by dropping the
condition. Items marked *not in the model* come from reading the code alone; the rest is
in the model and no property speaks against it.

qemu-instance-init:

- procd respawns a QEMU that exited during a backup on the base alone, which
  qemu.init:75-76 says must not happen (`respawn` in `Faults`; `NoLostWrite`);
- a second backup merges the first one's overlay under its reader, which ends with 0
  (backup.uc:362; `Overlap`, `PointInTime`);
- a commit job that fails after `block-job-complete` counts as gone and the overlay is
  unlinked (backup.uc:145; `late`);
- a freeze whose reply is lost is never thawed (backup.uc:53, 416);
- a stale freeze that cannot be thawed goes unnoticed, and the freeze that follows fails
  (backup.uc:49; `thaw_fail`);
- the job of a killed backup refuses the `block-commit` of every recovery
  (backup.uc:117);
- after one late reply of the agent every answer is taken for that to the next request
  (qmp.uc:80; `FrozenSnapshot` against `FrozenSnapshotInTime`).

rpcd-mod-bird:

- an empty reply has code 0, so an unchecked text may be promoted (bird.uc:190;
  `RuntimeValid` against `RuntimeChecked`);
- of a block that ends on its first line the editor finds no end and changes the cost
  of the next interface (birdconfig.uc:615-630; `WellLaid`);
- birdconfig.uc:526-530 says that the editor finds the right block whatever the scope, as
  names are unique, and replaces the cost statements of the block: of several blocks of
  one interface (two areas, or two protocols) it edits the first (568-571), of several cost
  statements it replaces the first (627-629, 640) while BIRD goes by the last (`WellLaid`);
- BIRD may answer `configure` that it is still at work, has queued the change or is
  shutting down (0004 to 0006), which counts as applied (bird.uc:834; *not in the model*:
  there `configure` takes effect at once);
- a failed call's cost takes effect with the next call (bird.uc:822).

utpl-wrapper: a watch that cannot be added is skipped while hits skip `stat()`
(utpl-wrapper.uc:148, 349); the watch set stays rooted at what the document root
resolved to first (utpl-wrapper.uc:187).

luci-app-bird:

- an answer that was asked for before a field got the focus replaces that field, and
  what is typed in it, although status.js:59-60 says that the poll is stopped so that it
  does not; in a browser that does not blur a removed element the poll then never
  comes back (`blurs` in `PollBack` and `Converges`);
- a failed status call after a successful change is reported as a failed change
  (status.js:43-48), and the value of a failed change counts as applied, so that it
  is not sent again until a refresh (status.js:120-122);
- the comment says that a field left blank reverts to the current cost, it reverts to that
  of the status the field was made from (status.js:98 against 167-168): if the field was
  used since, or others changed the cost, the older cost is sent to BIRD. `Converges`
  speaks of what is so once nothing changes any more, and `CostKept` of what was sent;
- once a drawn topology was cleared with `innerHTML`, `topoNet` still stands for it and
  later graphs are drawn nowhere: after one outage the topology stays empty until the page
  is loaded again (status.js:373, 537, 546-549). `Settles` names it as `DrawingLost`,
  and `PageMatches` is about tables and sections and leaves the drawing out.

inotify-rsync:

- a failed rsync is not repeated until there is another event (inotify-rsync.uc:158;
  `missed`);
- a one-shot run beside the daemon makes counters go back, which line 143 declares
  counters, and may leave an empty metrics file (inotify-rsync.uc:113-156; `mixed`);
- renames into or out of a directory are not in the default mask; directories made
  later are not watched; nothing is copied at start: `NothingForgotten` is about changes
  the daemon has an event of (`noticed`).

vpn-sticky:

- a prefix that is only spelled anew is deleted after it was replaced
  (vpn-sticky.init:165; `respelled`);
- only `start` registers triggers: an interface added by a reload, or that comes up
  before `start` is done, is not routed (vpn-sticky.init:90-91, 303-325; `unseen`);
- the state file is said to list what was installed (vpn-sticky.init:11), but a line is
  there also when its command failed (148-150): if a table moves to an interface that goes
  down just before `ip route replace`, the route of the old interface is not removed and
  stays until the new one is up (`refused`);
- what a killed reload installed stays when the configuration changes before the next
  (`abandoned`), and the lock of a killed process may outlive it (`lock = "gone"`);
- a rule that `ip rule add` refused is in the state file all the same and missing until
  the next reload (vpn-sticky.init:130-131; `missing`);
- a configuration that cannot be loaded is not applied until the next reload, nor said to
  be missing by `stop`, which then leaves the rules of an installation without a state file
  where they are (vpn-sticky.init:75, 83, 288, 297; `unseen`, `abandoned`);
- *not in the model*: the text that `ip rule show` prints for a right rule may differ from
  the one it is compared with, which makes every reload delete and add the rule
  (vpn-sticky.init:125-126): a mark_mask of 0xffffffff is printed without the mask, a
  table by its name where it has one. An interface without `name` is skipped by the script
  (vpn-sticky.init:54) and rendered under its section's name by the template
  (vpn-sticky.nft.uc:57).

netifd-proto-fou:

- README.md:83-84 calls a listener that cannot be deleted harmless: it goes on
  decapsulating with the old inner protocol, and the new one is refused (`delWorks`);
- README.md:85-87 says that a refused setup is retried, fou.sh calls
  `proto_block_restart`, which is what stops that;
- teardown deletes by port, also the listener of another tunnel, and also after a
  setup that was refused before it added any (fou.sh:131; `Alone`);
- `ipproto` is declared an integer (fou.sh:15) where form and README offer a name
  (`IsNumber`).

## Left out

Of the modelled components: the LVM snapshot method (backup.uc:175-320), option
parsing, logging; QMP's greeting and events; the read-only rpcd methods of bird.uc
and the route lookup of birdconfig.uc; URL, cookie and form decoding in
utpl-wrapper; moving a directory within the document root; a document root behind a
symbolic link that changes; the layout of the status page's tables and the options of
the network; inotify-rsync's configuration and rsync's command line; the text of the
nftables rules; addresses, metrics and MTU that handlers hand to netifd; message texts
everywhere.

Error paths of the modelled handlers that have no step of their own:

- qmp.uc: a reply arrives whole or not at all. Half a reply line of a killed session, which
  makes `next()` return "bad QMP message" (46-48), so that `agent_session()` or
  `execute()` fails at once, is not a step of AgentSession (`Sync`, `Result`); in
  QemuBackup it is an agent that cannot be opened or does not answer.
- bird.uc: a lock file that cannot be opened gives code 5 like one that is held
  (566-579), and two unreadable configurations give code 4 (789-792): in the model
  `/etc/bird.conf` is always there.
- vpn-sticky.init: a missing configuration file (275, 297), missing `nft` or `utpl`, where
  `apply_nft_rules` returns 0 and changes nothing (235, 242; the package's Makefile depends
  on both), and `config_load` in `service_triggers` failing after the reload has loaded
  the same file (323), which leaves the interfaces without triggers.

`scripts/uc-lint.mjs` runs a parser over files on a developer's machine and keeps no
state. Packages that only build, configure or start third-party programs have no logic
of their own to model.

## Plan

Done: the core (QemuBackup, AgentSession, BirdConfig, BirdReconfig, UtplCache) and the
programs around it (CostFields, StatusPage, InotifyRsync, VpnSticky, NetifdProtos).
What is left:

1. A layout wider than `WellLaid` for `EditorRight`: statements after a brace on one line.
2. `PbsJob`: reports and exit code, report buffer against a reference definition.
3. `RouteLookup`: best covering route against its definition over small prefixes.
4. The LVM method in QemuBackup.
