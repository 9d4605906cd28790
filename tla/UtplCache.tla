----------------------------- MODULE UtplCache -----------------------------
(***************************************************************************)
(* The compiled template cache of uwsd's utpl-wrapper (utpl-wrapper.uc)    *)
(* and the inotify watch set that invalidates it (ucode-mod-inotify).      *)
(*                                                                         *)
(* DOCUMENT_ROOT is a directory with one subdirectory that comes and goes; *)
(* each holds templates (.ut) and a module (.uc) that all templates        *)
(* import.  The worker runs onRequest to its end before it takes the next  *)
(* request, and onBody renders what onRequest chose; files and directories *)
(* change between any two of the worker's system calls.  The file system   *)
(* and the kernel's event queue are external.                              *)
(*                                                                         *)
(* The content of a file is the number of the change that wrote it.  A     *)
(* change is visible from the first write and announced (close-write) only *)
(* when the file is closed.                                                *)
(***************************************************************************)
EXTENDS Integers, Sequences, SequencesExt

CONSTANTS
  RootFiles, SubFiles,   \* files by directory
  Templates,             \* the files that are requested
  Module,                \* the file every template imports
  None,                  \* no template
  QueueMax,              \* events the kernel keeps for the watcher
  Faults,                \* what may happen besides edits, see AllFaults
  MaxChanges             \* bound: file and directory changes

(* limit        a watch cannot be added (fs.inotify.max_user_watches)      *)
(* same_stamp   an edit leaves mtime (in seconds) and size as they were    *)
(* no_plugin    ucode-mod-inotify is not installed                         *)
AllFaults == {"limit", "same_stamp", "no_plugin"}

Files == RootFiles \cup SubFiles

ASSUME FilesAssumption ==
  /\ Templates \subseteq Files /\ Module \in Files \ Templates
  /\ RootFiles \cap SubFiles = {} /\ None \notin Files
ASSUME QueueAssumption == QueueMax \in Nat \ {0}
ASSUME FaultsAssumption == Faults \subseteq AllFaults
ASSUME MaxChangesAssumption == MaxChanges \in Nat

VARIABLES
  plugin,      \* ucode-mod-inotify is installed
  sub,         \* the subdirectory exists
  present,     \* files that exist
  ver,         \* content of a file
  stamp,       \* its mtime and size
  writing,     \* files that are open for writing
  done,        \* history: content of a file when it was last closed
  changes,     \* changes so far
  queue,       \* events in the kernel
  watched,     \* directories with a watch: a subset of {"root", "sub"}
  watcher,     \* "untried", "on", "off"
  cache,       \* per template [tpl, imp, stamp] or None
  pc, path,    \* step of the request and the template it asks for
  after,       \* step that follows the walk over the directories
  st, fn,      \* what stat() and loadfile() have returned so far
  served,      \* the compiled template the request renders
  start,       \* history: done when the request arrived
  limited, blurred   \* history: a limit, a same_stamp happened

tree    == <<plugin, sub, present, ver, stamp, writing, done, changes, blurred>>
kernel  == <<queue, watched, limited>>
request == <<pc, path, after, st, fn, served, start>>
vars    == <<tree, kernel, watcher, cache, request>>

Init ==
  /\ plugin \in {TRUE, "no_plugin" \notin Faults}
  /\ sub \in BOOLEAN /\ present = IF sub THEN Files ELSE RootFiles
  /\ ver = [f \in Files |-> 0] /\ stamp = [f \in Files |-> 0]
  /\ writing = {} /\ done = [f \in Files |-> 0] /\ changes = 0
  /\ queue = <<>> /\ watched = {} /\ watcher = "untried"
  /\ cache = [t \in Templates |-> None]
  /\ pc = "idle" /\ path \in Templates /\ after = "get" /\ st = 0 /\ fn = 0
  /\ served = None /\ start = done
  /\ limited = FALSE /\ blurred = FALSE

----------------------------------------------------------------------------
(* Files, directories and the events of their changes.                     *)

(* What a full queue loses is replaced by one overflow event.              *)
Enqueue(q, ev) ==
  IF Len(q) < QueueMax THEN Append(q, ev)
  ELSE IF Last(q) = "overflow" THEN q
  ELSE Append(q, "overflow")

DirOf(f) == IF f \in RootFiles THEN "root" ELSE "sub"
Event(d, ev) == queue' = IF d \in watched THEN Enqueue(queue, ev) ELSE queue

Change == changes < MaxChanges /\ changes' = changes + 1

(* The first write to a file (its creation is an event of its own).        *)
Modify(f) ==
  /\ Change /\ f \notin writing /\ (f \in RootFiles \/ sub)
  /\ ver' = [ver EXCEPT ![f] = @ + 1]
  /\ \/ stamp' = [stamp EXCEPT ![f] = @ + 1] /\ UNCHANGED blurred
     \/ /\ "same_stamp" \in Faults /\ f \in present
        /\ blurred' = TRUE /\ UNCHANGED stamp
  /\ writing' = writing \cup {f} /\ present' = present \cup {f}
  /\ IF f \in present THEN UNCHANGED queue ELSE Event(DirOf(f), "file")
  /\ UNCHANGED <<plugin, sub, done, watched, limited, watcher, cache, request>>

CloseWrite(f) ==
  /\ f \in writing
  /\ writing' = writing \ {f} /\ done' = [done EXCEPT ![f] = ver[f]]
  /\ Event(DirOf(f), "file")
  /\ UNCHANGED <<plugin, sub, present, ver, stamp, changes, blurred, watched,
                 limited, watcher, cache, request>>

(* A file that is no template changes.                                     *)
Unrelated(d) ==
  /\ Change /\ Event(d, "other")
  /\ UNCHANGED <<plugin, sub, present, ver, stamp, writing, done, blurred,
                 watched, limited, watcher, cache, request>>

RemoveSub ==
  /\ Change /\ sub /\ sub' = FALSE
  /\ present' = present \ SubFiles /\ writing' = writing \ SubFiles
  /\ watched' = watched \ {"sub"}
  /\ LET q == IF "sub" \in watched THEN Enqueue(queue, "self") ELSE queue
     IN queue' = IF "root" \in watched THEN Enqueue(q, "isdir") ELSE q
  /\ UNCHANGED <<plugin, ver, stamp, done, blurred, limited, watcher, cache,
                 request>>

CreateSub ==
  /\ Change /\ ~sub /\ sub' = TRUE
  /\ Event("root", "isdir")
  /\ UNCHANGED <<plugin, present, ver, stamp, writing, done, blurred, watched,
                 limited, watcher, cache, request>>

----------------------------------------------------------------------------
(* The worker.                                                             *)

Goto(l) == pc' = l

(* resolve_template: a request for a file that does not exist ends here.   *)
(* ensure_watcher: once, on the first request.                             *)
onRequest(t) ==
  /\ pc = "idle" /\ t \in present
  /\ path' = t /\ start' = done /\ served' = None
  /\ watcher' = IF watcher # "untried" THEN watcher
                ELSE IF plugin THEN "on" ELSE "off"
  /\ IF watcher = "untried" /\ plugin
     THEN Goto("add_root") /\ after' = "poll"
     ELSE Goto(IF watcher = "on" THEN "poll" ELSE "get") /\ UNCHANGED after
  /\ UNCHANGED <<tree, kernel, cache, st, fn>>

(* inotify_add_watch.                                                      *)
Add(d, l) ==
  \/ watched' = watched \cup {d} /\ Goto(l) /\ UNCHANGED limited
  \/ /\ "limit" \in Faults /\ d \notin watched
     /\ limited' = TRUE /\ Goto(after) /\ UNCHANGED watched

(* watch_dirs: add the root, list it, add the subdirectory.                *)
AddRoot ==
  /\ pc = "add_root" /\ Add("root", "list")
  /\ UNCHANGED <<tree, queue, watcher, cache, path, after, st, fn, served, start>>

List ==
  /\ pc = "list" /\ Goto(IF sub THEN "add_sub" ELSE after)
  /\ UNCHANGED <<tree, kernel, watcher, cache, path, after, st, fn, served, start>>

AddSub ==
  /\ pc = "add_sub"
  /\ IF sub THEN Add("sub", after) ELSE Goto(after) /\ UNCHANGED <<watched, limited>>
  /\ UNCHANGED <<tree, queue, watcher, cache, path, after, st, fn, served, start>>

(* Mutants: events of a lost queue, or of a subdirectory, are ignored.     *)
Moverflow(ev) == ev \in {"file", "self", "isdir"}
Misdir(ev) == ev \in {"file", "self", "overflow"}

stale_event(ev) == ev \in {"file", "self", "isdir", "overflow"}

(* poll_watcher: all queued events are read; one that matters drops the    *)
(* whole cache and refreshes the watch set.                                *)
Poll ==
  /\ pc = "poll" /\ queue' = <<>>
  /\ IF \E k \in DOMAIN queue : stale_event(queue[k])
     THEN /\ cache' = [t \in Templates |-> None]
          /\ Goto("add_root") /\ after' = "get"
     ELSE Goto("get") /\ UNCHANGED <<cache, after>>
  /\ UNCHANGED <<tree, watched, limited, watcher, path, st, fn, served, start>>

(* get_template: with a watcher a hit is taken as it is, without one when  *)
(* mtime and size are those of the file.                                   *)
Hit ==
  /\ cache[path] # None
  /\ \/ watcher = "on"
     \/ path \in present /\ cache[path].stamp = stamp[path]

Get ==
  /\ pc = "get"
  /\ IF Hit
     THEN served' = cache[path] /\ Goto("render") /\ UNCHANGED st
     ELSE /\ st' = stamp[path] /\ Goto(IF path \in present THEN "load" ELSE "render")
          /\ UNCHANGED served
  /\ UNCHANGED <<tree, kernel, watcher, cache, path, after, fn, start>>

(* loadfile: the template is read, then the module it imports.  Half a     *)
(* file may compile or not; without a template onBody answers 500.         *)
Load ==
  /\ pc = "load" /\ fn' = ver[path]
  /\ \/ path \in present /\ Goto("import")
     \/ path \in writing \cup (Files \ present) /\ Goto("render")
  /\ UNCHANGED <<tree, kernel, watcher, cache, path, after, st, served, start>>

(* The entry keeps the mtime and size from before the file was read.       *)
Compiled(s) ==
  /\ cache' = [cache EXCEPT ![path] = [tpl |-> fn, imp |-> ver[Module], stamp |-> s]]
  /\ served' = cache'[path]

(* Mutant: mtime and size are taken after the file was read.               *)
MImport ==
  /\ pc = "import" /\ Goto("render")
  /\ \/ Module \in present /\ Compiled(stamp[path])
     \/ /\ Module \in writing \cup (Files \ present)
        /\ UNCHANGED <<cache, served>>
  /\ UNCHANGED <<tree, kernel, watcher, path, after, st, fn, start>>

Import ==
  /\ pc = "import" /\ Goto("render")
  /\ \/ Module \in present /\ Compiled(st)
     \/ /\ Module \in writing \cup (Files \ present)
        /\ UNCHANGED <<cache, served>>
  /\ UNCHANGED <<tree, kernel, watcher, path, after, st, fn, start>>

(* onBody at the end of the body.                                          *)
onBody ==
  /\ pc = "render" /\ Goto("idle")
  /\ UNCHANGED <<tree, kernel, watcher, cache, path, after, st, fn, served, start>>

----------------------------------------------------------------------------
Worker == \/ \E t \in Templates : onRequest(t)
          \/ AddRoot \/ List \/ AddSub \/ Poll \/ Get \/ Load \/ Import \/ onBody

FileSystem == \/ \E f \in Files : Modify(f) \/ CloseWrite(f)
              \/ \E d \in {"root", "sub"} : Unrelated(d)
              \/ RemoveSub \/ CreateSub

Next == Worker \/ FileSystem

Spec == Init /\ [][Next]_vars

----------------------------------------------------------------------------
Entry == [tpl : Nat, imp : Nat, stamp : Nat]

(* Types; a worker without a watcher holds no watch.                       *)
TypeOK ==
  /\ plugin \in BOOLEAN /\ sub \in BOOLEAN /\ present \subseteq Files
  /\ ver \in [Files -> Nat] /\ stamp \in [Files -> Nat]
  /\ writing \subseteq present /\ done \in [Files -> Nat] /\ changes \in Nat
  /\ queue \in Seq({"file", "other", "self", "isdir", "overflow"})
  /\ watched \subseteq {"root", "sub"} /\ watcher \in {"untried", "on", "off"}
  /\ watcher # "on" => watched = {} /\ queue = <<>>
  /\ cache \in [Templates -> Entry \cup {None}]
  /\ pc \in {"idle", "add_root", "list", "add_sub", "poll", "get", "load",
             "import", "render"}
  /\ path \in Templates /\ after \in {"poll", "get"}
  /\ st \in Nat /\ fn \in Nat /\ served \in Entry \cup {None}
  /\ start \in [Files -> Nat] /\ limited \in BOOLEAN /\ blurred \in BOOLEAN

Newer(c, f, v) == c # None => (IF f = Module THEN c.imp ELSE c.tpl) >= v

(* With the plugin a request is answered from templates, and modules, that *)
(* include every change completed before it arrived (utpl-wrapper.uc:57),  *)
(* as long as all watches could be added.                                  *)
Fresh ==
  watcher = "on" /\ ~limited /\ pc = "render"
    => /\ Newer(served, path, start[path])
       /\ Newer(served, Module, start[Module])

(* Without it the template, though not its imports, is as fresh as mtime   *)
(* and size can tell (utpl-wrapper.uc:54).                                 *)
FreshByStamp ==
  watcher = "off" /\ ~blurred /\ pc = "render" => Newer(served, path, start[path])

(* Between requests a cache entry that lacks a completed change, and a     *)
(* directory without a watch, are announced by an event still in the queue *)
(* that will drop the one and watch the other.                             *)
Announced ==
  watcher = "on" /\ ~limited /\ pc = "idle" =>
    \/ \E k \in DOMAIN queue : stale_event(queue[k])
    \/ /\ "root" \in watched /\ (sub => "sub" \in watched)
       /\ \A t \in Templates \cap present, f \in Files :
            f \in {t, Module} /\ f \in present => Newer(cache[t], f, done[f])

=============================================================================
