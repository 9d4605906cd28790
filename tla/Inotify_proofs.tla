---------------------------- MODULE Inotify_proofs ----------------------------
(***************************************************************************)
(* Theorems about the two programs that follow directories with            *)
(* ucode-mod-inotify: UtplCache, for every set of files, every set of      *)
(* events besides edits, every length of the event queue and every number  *)
(* of changes, and InotifyRsync, for every set of directories, every       *)
(* length of the event queue and every number of changes, kills, failures  *)
(* and one-shot runs.                                                      *)
(***************************************************************************)
EXTENDS UtplCache, InotifyRsync, TLAPS, SequenceTheorems

-----------------------------------------------------------------------------
(* The template cache.                                                     *)

Events == {"file", "other", "self", "isdir", "overflow"}

(* An event that drops the cache is in the queue.                          *)
Pending == \E k \in DOMAIN queue : stale_event(queue[k])

Walking == pc \in {"add_root", "list", "add_sub"}

(***************************************************************************)
(* The inductive invariant.                                                *)
(*                                                                         *)
(* Only a worker with a watcher walks over the directories or polls, and   *)
(* it walks with an empty cache.                                           *)
(***************************************************************************)
WalkInv ==
  /\ Walking \/ pc = "poll" => watcher = "on"
  /\ watcher = "untried" => pc = "idle"
  /\ Walking \/ watcher = "untried" => \A t \in Templates : cache[t] = None
  /\ pc \in {"poll", "get", "load", "import"} \/ Walking => served = None

(* A file in the subdirectory exists only while the subdirectory does, and *)
(* what was complete when the request arrived, what is complete now and    *)
(* what is in the file follow one another.                                 *)
TreeInv ==
  /\ \A f \in present : f \in RootFiles \/ sub
  /\ \A f \in Files : start[f] <= done[f] /\ done[f] <= ver[f]

(* A directory without a watch is about to get one, in the walk that the   *)
(* worker is in or in the one that an event in the queue will start.       *)
WatchInv ==
  watcher = "on" /\ ~limited
    => /\ pc # "add_root" => "root" \in watched
       /\ sub => "sub" \in watched \/ Pending \/ Walking

(* So no completed change goes unnoticed: if an entry of the cache, or the *)
(* template just read, lacks one, an event is in the queue.                *)
NoticeInv ==
  watcher = "on" /\ ~limited =>
    \/ Pending
    \/ /\ \A t \in Templates : \A f \in {t, Module} : Newer(cache[t], f, done[f])
       /\ pc = "import" => fn >= done[path]

(* Once the queue was read, the entry of the template asked for may be     *)
(* used: it has what was complete when the request arrived.                *)
PolledInv ==
  /\ watcher = "on" /\ ~limited /\ pc \notin {"idle", "poll"}
     => /\ Newer(cache[path], path, start[path])
        /\ Newer(cache[path], Module, start[Module])
  /\ pc = "import" => fn >= start[path]

(* Stamps tell contents apart as long as no edit left one as it was, and   *)
(* an entry is at least as new as its stamp.                               *)
StampInv ==
  ~blurred =>
    /\ stamp = ver
    /\ \A t \in Templates : cache[t] # None => cache[t].stamp <= cache[t].tpl
    /\ pc = "load" => st <= ver[path]
    /\ pc = "import" => st <= fn

TypeInv == TypeOK /\ WalkInv /\ TreeInv

IInv == TypeInv /\ WatchInv /\ NoticeInv /\ PolledInv /\ StampInv
          /\ Fresh /\ FreshByStamp

-----------------------------------------------------------------------------
(* The event queue.                                                        *)

(* A full queue loses an event but not that there was one: what is in it   *)
(* stays, and an event that matters is in it afterwards, as itself or as   *)
(* an overflow.                                                            *)
LEMMA EnqueueKeeps ==
  ASSUME NEW q \in Seq(Events), NEW ev \in Events
  PROVE  LET r == Enqueue(q, ev)
         IN  /\ r \in Seq(Events)
             /\ (\E k \in DOMAIN q : stale_event(q[k]))
                  => \E k \in DOMAIN r : stale_event(r[k])
             /\ stale_event(ev) => \E k \in DOMAIN r : stale_event(r[k])
<1> DEFINE r == Enqueue(q, ev)
<1>1. Len(q) \in Nat /\ DOMAIN q = 1..Len(q) /\ "overflow" \in Events
  BY DEF Events
<1>2. ASSUME NEW e \in Events
      PROVE  LET a == Append(q, e)
             IN  /\ a \in Seq(Events) /\ DOMAIN a = 1..(Len(q) + 1)
                 /\ a[Len(q) + 1] = e /\ \A k \in 1..Len(q) : a[k] = q[k]
  BY <1>1, AppendProperties
<1>3. CASE r = Append(q, ev)
  BY <1>1, <1>2, <1>3
<1>4. CASE r = Append(q, "overflow")
  <2>1. stale_event("overflow")
    BY DEF stale_event
  <2> QED
    BY <1>1, <1>2, <1>4, <2>1
<1>5. CASE r = q /\ Len(q) >= QueueMax /\ Last(q) = "overflow"
  <2>1. Len(q) \in DOMAIN q /\ q[Len(q)] = "overflow"
    BY <1>1, <1>5, QueueAssumption DEF Last
  <2>2. stale_event(q[Len(q)])
    BY <2>1 DEF stale_event
  <2> QED
    BY <1>5, <2>1, <2>2
<1>6. \/ r = Append(q, ev) \/ r = Append(q, "overflow")
      \/ r = q /\ ~(Len(q) < QueueMax) /\ Last(q) = "overflow"
  BY DEF Enqueue
<1>7. ~(Len(q) < QueueMax) => Len(q) >= QueueMax
  BY <1>1, QueueAssumption
<1> QED
  BY <1>3, <1>4, <1>5, <1>6, <1>7

(* The same of the event a change in directory d sends.                    *)
LEMMA EventKeeps ==
  ASSUME queue \in Seq(Events), NEW d, NEW ev \in Events, Event(d, ev)
  PROVE  /\ queue' \in Seq(Events)
         /\ Pending => Pending'
         /\ d \in watched /\ stale_event(ev) => Pending'
         /\ d \notin watched => queue' = queue
BY EnqueueKeeps DEF Event, Pending

-----------------------------------------------------------------------------
(* Types, and the order of the contents of a file.                         *)

LEMMA InitTypeInv == Init => TypeInv
<1> SUFFICES ASSUME Init PROVE TypeInv
  OBVIOUS
<1>1. queue \in Seq({"file", "other", "self", "isdir", "overflow"})
  BY DEF Init
<1>2. present \subseteq Files /\ \A f \in present : f \in RootFiles \/ sub
  BY DEF Init, Files
<1>3. TypeOK
  BY <1>1, <1>2 DEF Init, TypeOK
<1>4. WalkInv
  BY DEF Init, WalkInv, Walking
<1>5. TreeInv
  BY <1>2 DEF Init, TreeInv
<1> QED
  BY <1>3, <1>4, <1>5 DEF TypeInv

LEMMA FileSystemTypeInv ==
  ASSUME TypeInv, FileSystem
  PROVE  TypeInv'
<1> USE DEF TypeInv, TypeOK, WalkInv, TreeInv, Walking, tree, kernel, request
<1>0. queue \in Seq(Events)
  BY DEF Events
<1>1. CASE \E f \in Files : Modify(f)
  <2>1. PICK f \in Files : Modify(f)
    BY <1>1
  <2>2. queue' \in Seq(Events) /\ (watched = {} => queue' = queue)
    BY <1>0, <2>1, EventKeeps DEF Modify, Events
  <2>3. /\ ver' \in [Files -> Nat] /\ stamp' \in [Files -> Nat]
        /\ \A g \in Files : ver[g] <= ver'[g]
    BY <2>1 DEF Modify
  <2>4. \A g \in Files : start'[g] <= done'[g] /\ done'[g] <= ver'[g]
    BY <2>1, <2>3 DEF Modify
  <2>5. changes' \in Nat
    BY <2>1 DEF Modify, Change
  <2>6. blurred' \in BOOLEAN
    BY <2>1 DEF Modify
  <2> QED
    BY <2>1, <2>2, <2>3, <2>4, <2>5, <2>6 DEF Modify, Events
<1>2. CASE \E f \in Files : CloseWrite(f)
  <2>1. PICK f \in Files : CloseWrite(f)
    BY <1>2
  <2>2. queue' \in Seq(Events) /\ (watched = {} => queue' = queue)
    BY <1>0, <2>1, EventKeeps DEF CloseWrite, Events
  <2>3. /\ done' \in [Files -> Nat]
        /\ \A g \in Files : done[g] <= done'[g] /\ done'[g] <= ver'[g]
    BY <2>1 DEF CloseWrite
  <2>4. \A g \in Files : start'[g] <= done'[g]
    BY <2>1, <2>3 DEF CloseWrite
  <2> QED
    BY <2>1, <2>2, <2>3, <2>4 DEF CloseWrite, Events
<1>3. CASE \E d \in {"root", "sub"} : Unrelated(d)
  <2>1. PICK d \in {"root", "sub"} : Unrelated(d)
    BY <1>3
  <2>2. queue' \in Seq(Events) /\ (watched = {} => queue' = queue)
    BY <1>0, <2>1, EventKeeps DEF Unrelated, Events
  <2> QED
    BY <2>1, <2>2 DEF Unrelated, Events, Change
<1>4. CASE RemoveSub
  <2>1. queue' \in Seq(Events) /\ (watched = {} => queue' = queue)
    BY <1>0, <1>4, EnqueueKeeps DEF RemoveSub, Events
  <2>2. /\ present' \subseteq RootFiles /\ present' \subseteq Files
        /\ writing' \subseteq present'
    BY <1>4 DEF RemoveSub, Files
  <2>3. Change /\ sub' = FALSE
    BY <1>4 DEF RemoveSub
  <2>4. watched' \subseteq {"root", "sub"} /\ (watched = {} => watched' = {})
    BY <1>4 DEF RemoveSub
  <2>5. UNCHANGED <<plugin, ver, stamp, done, blurred, limited, watcher, cache,
                    request>>
    BY <1>4 DEF RemoveSub
  <2>6. TypeOK'
    <3>1. changes' \in Nat
      BY <2>3 DEF Change
    <3>2. sub' \in BOOLEAN
      BY <2>3
    <3> QED
      BY <2>1, <2>2, <2>4, <2>5, <3>1, <3>2 DEF Events
  <2>7. WalkInv'
    BY <2>5
  <2>8. TreeInv'
    BY <2>2, <2>5
  <2> QED
    BY <2>6, <2>7, <2>8
<1>5. CASE CreateSub
  <2>1. queue' \in Seq(Events) /\ (watched = {} => queue' = queue)
    BY <1>0, <1>5, EventKeeps DEF CreateSub, Events
  <2> QED
    BY <1>5, <2>1 DEF CreateSub, Events, Change
<1> QED
  BY <1>1, <1>2, <1>3, <1>4, <1>5 DEF FileSystem

LEMMA WorkerTypeInv ==
  ASSUME TypeInv, Worker
  PROVE  TypeInv'
<1> USE DEF TypeInv, TypeOK, WalkInv, TreeInv, Walking, tree, kernel, request,
            Goto
<1>1. CASE \E t \in Templates : onRequest(t)
  BY <1>1 DEF onRequest
<1>2. CASE AddRoot
  BY <1>2 DEF AddRoot, Add
<1>3. CASE List
  BY <1>3 DEF List
<1>4. CASE AddSub
  BY <1>4 DEF AddSub, Add
<1>5. CASE Poll
  BY <1>5 DEF Poll
<1>6. CASE Get
  <2>1. path \in Files
    BY FilesAssumption
  <2> QED
    BY <1>6, <2>1 DEF Get
<1>7. CASE Load
  <2>1. path \in Files
    BY FilesAssumption
  <2> QED
    BY <1>7, <2>1 DEF Load
<1>8. CASE Import
  <2>1. path \in Files /\ Module \in Files
    BY FilesAssumption
  <2> DEFINE e == [tpl |-> fn, imp |-> ver[Module], stamp |-> st]
  <2>2. e \in Entry
    BY <2>1 DEF Entry
  <2>3. CASE cache' = [cache EXCEPT ![path] = e] /\ served' = cache'[path]
    <3> HIDE DEF e
    <3> QED
      BY <1>8, <2>2, <2>3 DEF Import
  <2>4. CASE UNCHANGED <<cache, served>>
    BY <1>8, <2>4 DEF Import
  <2> QED
    BY <1>8, <2>3, <2>4 DEF Import, Compiled
<1>9. CASE onBody
  BY <1>9 DEF onBody
<1> QED
  BY <1>1, <1>2, <1>3, <1>4, <1>5, <1>6, <1>7, <1>8, <1>9 DEF Worker

-----------------------------------------------------------------------------
(* Changes of files and directories.                                       *)

(* A change leaves the worker where it is, takes no event out of the       *)
(* queue, and takes no watch away but that of the subdirectory, with it.   *)
LEMMA FileSystemFrame ==
  ASSUME TypeInv, FileSystem
  PROVE  /\ UNCHANGED <<watcher, limited, cache, request>>
         /\ Pending => Pending'
         /\ \/ watched' = watched /\ (sub' => sub \/ Pending' \/ "root" \notin watched)
            \/ watched' = watched \ {"sub"} /\ sub' = FALSE
         /\ blurred => blurred'
<1>0. queue \in Seq(Events)
  BY DEF TypeInv, TypeOK, Events
<1>1. CASE \E f \in Files : Modify(f)
  <2>1. PICK f \in Files : Modify(f)
    BY <1>1
  <2>2. Pending => Pending'
    BY <1>0, <2>1, EventKeeps DEF Modify, Events, Pending
  <2> QED
    BY <2>1, <2>2 DEF Modify
<1>2. CASE \E f \in Files : CloseWrite(f)
  BY <1>0, <1>2, EventKeeps DEF CloseWrite, Events
<1>3. CASE \E d \in {"root", "sub"} : Unrelated(d)
  BY <1>0, <1>3, EventKeeps DEF Unrelated, Events
<1>4. CASE RemoveSub
  <2>1. Pending => Pending'
    BY <1>0, <1>4, EnqueueKeeps DEF RemoveSub, Events, Pending
  <2> QED
    BY <1>4, <2>1 DEF RemoveSub
<1>5. CASE CreateSub
  <2>1. /\ Pending => Pending'
        /\ "root" \in watched => Pending'
    BY <1>0, <1>5, EventKeeps DEF CreateSub, Events, stale_event
  <2> QED
    BY <1>5, <2>1 DEF CreateSub
<1> QED
  BY <1>1, <1>2, <1>3, <1>4, <1>5 DEF FileSystem

(* A content becomes complete in a watched directory, and is announced; or *)
(* in one that is about to be watched, and nothing is in the cache yet.    *)
LEMMA FileSystemDone ==
  ASSUME TypeInv, WatchInv, FileSystem, watcher = "on", ~limited
  PROVE  done' = done \/ Pending' \/ Walking
<1> SUFFICES ASSUME done' # done PROVE Pending' \/ Walking
  OBVIOUS
<1>1. PICK f \in Files : CloseWrite(f)
  BY DEF FileSystem, Modify, Unrelated, RemoveSub, CreateSub
<1>2. f \in present /\ Event(DirOf(f), "file")
  BY <1>1 DEF CloseWrite, TypeInv, TypeOK
<1>3. Pending => Pending'
  BY FileSystemFrame
<1>4. CASE DirOf(f) \in watched
  BY <1>2, <1>4, EventKeeps DEF TypeInv, TypeOK, Events, stale_event
<1>5. CASE DirOf(f) \notin watched
  BY <1>2, <1>3, <1>5 DEF DirOf, TypeInv, TreeInv, WatchInv, Walking
<1> QED
  BY <1>4, <1>5

LEMMA FileSystemIInv ==
  ASSUME IInv, FileSystem
  PROVE  IInv'
<1> USE DEF IInv
<1>1. /\ UNCHANGED <<watcher, limited, cache, request>>
      /\ Pending => Pending'
      /\ \/ watched' = watched /\ (sub' => sub \/ Pending' \/ "root" \notin watched)
         \/ watched' = watched \ {"sub"} /\ sub' = FALSE
      /\ blurred => blurred'
  BY FileSystemFrame
<1>2. TypeInv'
  BY FileSystemTypeInv
<1>3. WatchInv'
  BY <1>1 DEF WatchInv, Walking, request
<1>4. NoticeInv'
  <2>1. SUFFICES ASSUME watcher = "on", ~limited PROVE NoticeInv'
    BY <1>1 DEF NoticeInv
  <2>2. CASE Pending'
    BY <2>2 DEF NoticeInv
  <2>3. CASE done' = done
    BY <1>1, <2>1, <2>3 DEF NoticeInv, Newer, request
  <2>4. CASE Walking
    BY <1>1, <2>4 DEF TypeInv, WalkInv, Walking, NoticeInv, Newer, request
  <2> QED
    BY <2>1, <2>2, <2>3, <2>4, FileSystemDone
<1>5. PolledInv'
  BY <1>1 DEF PolledInv, Newer, request
<1>6. StampInv'
  <2> SUFFICES ASSUME ~blurred' PROVE StampInv'
    BY DEF StampInv
  <2>1. stamp' = ver' /\ ver[path] <= ver'[path]
    <3>1. path \in Files /\ ver \in [Files -> Nat]
      BY FilesAssumption DEF TypeInv, TypeOK
    <3>2. stamp = ver
      BY <1>1 DEF StampInv
    <3>3. CASE \E f \in Files : Modify(f)
      BY <3>1, <3>2, <3>3 DEF Modify, TypeInv, TypeOK
    <3>4. CASE UNCHANGED <<ver, stamp>>
      BY <3>1, <3>2, <3>4
    <3> QED
      BY <3>3, <3>4 DEF FileSystem, CloseWrite, Unrelated, RemoveSub, CreateSub
  <2>2. path \in Files /\ ver[path] \in Nat /\ ver'[path] \in Nat /\ st \in Nat
    BY <1>2, FilesAssumption DEF TypeInv, TypeOK
  <2> QED
    BY <1>1, <2>1, <2>2 DEF StampInv, request
<1>7. Fresh' /\ FreshByStamp'
  BY <1>1 DEF Fresh, FreshByStamp, Newer, request
<1> QED
  BY <1>2, <1>3, <1>4, <1>5, <1>6, <1>7

-----------------------------------------------------------------------------
(* The steps of the worker.                                                *)

LEMMA OnRequestIInv ==
  ASSUME IInv, NEW t \in Templates, onRequest(t)
  PROVE  IInv'
<1> USE DEF IInv, onRequest, Goto, tree, kernel
<1>1. TypeInv'
  BY WorkerTypeInv DEF Worker
<1>2. pc = "idle" /\ pc' # "render" /\ pc' # "import" /\ pc' # "load"
  OBVIOUS
<1>3. WatchInv'
  BY DEF WatchInv, Walking, Pending, TypeInv, TypeOK
<1>4. NoticeInv'
  <2>1. CASE watcher = "untried"
    BY <1>2, <2>1 DEF NoticeInv, TypeInv, WalkInv, Newer
  <2>2. CASE watcher # "untried"
    BY <1>2, <2>2 DEF NoticeInv, Pending, Newer
  <2> QED
    BY <2>1, <2>2
<1>5. PolledInv'
  <2>1. CASE watcher = "untried"
    BY <1>2, <2>1 DEF PolledInv, TypeInv, WalkInv, TypeOK, Newer
  <2>2. CASE watcher # "untried"
    BY <1>2, <2>2 DEF PolledInv
  <2> QED
    BY <2>1, <2>2
<1>6. StampInv'
  BY <1>2 DEF StampInv
<1>7. Fresh' /\ FreshByStamp'
  BY <1>2 DEF Fresh, FreshByStamp
<1> QED
  BY <1>1, <1>3, <1>4, <1>5, <1>6, <1>7

(* The walk over the directories: the cache is empty.                      *)
LEMMA WalkIInv ==
  ASSUME IInv, AddRoot \/ List \/ AddSub
  PROVE  IInv'
<1> USE DEF IInv, tree
<1>1. TypeInv'
  BY WorkerTypeInv DEF Worker
<1>2. /\ pc' \in {"list", "add_sub", "poll", "get"}
      /\ \A t \in Templates : cache'[t] = None
      /\ UNCHANGED <<tree, queue, watcher, cache, path, after, st, fn, served, start>>
      /\ limited => limited'
  BY DEF AddRoot, List, AddSub, Add, Goto, kernel, TypeInv, TypeOK, WalkInv, Walking
<1>3. WatchInv'
  <2>1. CASE AddRoot
    BY <2>1 DEF AddRoot, Add, Goto, WatchInv, Walking, TypeInv, TypeOK
  <2>2. CASE List
    BY <2>2 DEF List, Goto, kernel, WatchInv, Walking, Pending, TypeInv, TypeOK
  <2>3. CASE AddSub
    BY <2>3 DEF AddSub, Add, Goto, WatchInv, Walking, TypeInv, TypeOK
  <2> QED
    BY <2>1, <2>2, <2>3
<1>4. NoticeInv'
  BY <1>2 DEF NoticeInv, Newer
<1>5. PolledInv'
  BY <1>2 DEF PolledInv, Newer, TypeInv, TypeOK
<1>6. StampInv'
  BY <1>2 DEF StampInv
<1>7. Fresh' /\ FreshByStamp'
  BY <1>2 DEF Fresh, FreshByStamp
<1> QED
  BY <1>1, <1>3, <1>4, <1>5, <1>6, <1>7

(* The poll: events are exchanged for an empty cache and another walk.     *)
LEMMA PollIInv ==
  ASSUME IInv, Poll
  PROVE  IInv'
<1> USE DEF IInv, Poll, Goto, tree
<1>1. TypeInv'
  BY WorkerTypeInv DEF Worker
<1>2. UNCHANGED <<tree, watched, limited, watcher, path, st, fn, served, start>>
  OBVIOUS
<1>3. CASE Pending
  <2>1. pc' = "add_root" /\ \A t \in Templates : cache'[t] = None
    BY <1>3 DEF Pending
  <2>2. WatchInv'
    BY <2>1 DEF WatchInv, Walking
  <2>3. NoticeInv' /\ PolledInv' /\ StampInv'
    BY <1>2, <2>1 DEF NoticeInv, PolledInv, StampInv, Newer, TypeInv, TypeOK
  <2>4. Fresh' /\ FreshByStamp'
    BY <2>1 DEF Fresh, FreshByStamp
  <2> QED
    BY <1>1, <2>2, <2>3, <2>4
<1>4. CASE ~Pending
  <2>1. pc = "poll" /\ pc' = "get" /\ cache' = cache
    BY <1>4 DEF Pending
  <2>2. WatchInv'
    BY <1>2, <1>4, <2>1 DEF WatchInv, Walking
  <2>3. NoticeInv'
    BY <1>2, <1>4, <2>1 DEF NoticeInv, Newer
  <2>4. PolledInv'
    <3> SUFFICES ASSUME watcher = "on", ~limited
                 PROVE  /\ Newer(cache[path], path, start[path])
                        /\ Newer(cache[path], Module, start[Module])
      BY <1>2, <2>1 DEF PolledInv, Newer
    <3>1. /\ Newer(cache[path], path, done[path])
          /\ Newer(cache[path], Module, done[Module])
      BY <1>4 DEF NoticeInv, TypeInv, TypeOK
    <3>2. /\ path \in Files /\ Module \in Files /\ path # Module
          /\ cache[path] # None => cache[path].imp \in Nat /\ cache[path].tpl \in Nat
      BY FilesAssumption DEF TypeInv, TypeOK, Entry
    <3> QED
      BY <3>1, <3>2 DEF Newer, TypeInv, TypeOK, TreeInv
  <2>5. StampInv'
    BY <1>2, <2>1 DEF StampInv
  <2>6. Fresh' /\ FreshByStamp'
    BY <2>1 DEF Fresh, FreshByStamp
  <2> QED
    BY <1>1, <2>2, <2>3, <2>4, <2>5, <2>6
<1> QED
  BY <1>3, <1>4

(* A hit is served as it is: with a watcher because the queue was read,    *)
(* without one because the stamp is that of the file.                      *)
LEMMA GetIInv ==
  ASSUME IInv, Get
  PROVE  IInv'
<1> USE DEF IInv, Get, Goto, tree, kernel
<1>1. TypeInv'
  BY WorkerTypeInv DEF Worker
<1>2. /\ pc = "get" /\ pc' \in {"render", "load"}
      /\ UNCHANGED <<tree, kernel, watcher, cache, path, after, fn, start>>
  OBVIOUS
<1>3. WatchInv' /\ NoticeInv' /\ PolledInv'
  BY <1>2 DEF WatchInv, NoticeInv, PolledInv, Walking, Pending, Newer
<1>4. path \in Files /\ path # Module
  BY FilesAssumption DEF TypeInv, TypeOK
<1>5. StampInv'
  BY <1>2, <1>4 DEF StampInv, TypeInv, TypeOK
<1>6. Fresh'
  BY <1>2 DEF Fresh, PolledInv, Newer, TypeInv, WalkInv
<1>7. FreshByStamp'
  <2> SUFFICES ASSUME watcher = "off", ~blurred, cache[path] # None, Hit
               PROVE  cache[path].tpl >= start[path]
    BY <1>2, <1>4 DEF FreshByStamp, Newer, TypeInv, WalkInv
  <2>1. cache[path].stamp = ver[path] /\ cache[path].stamp <= cache[path].tpl
    BY DEF Hit, StampInv, TypeInv, TypeOK
  <2>2. start[path] <= done[path] /\ done[path] <= ver[path]
    BY <1>4 DEF TypeInv, TreeInv
  <2>3. /\ start[path] \in Nat /\ done[path] \in Nat /\ ver[path] \in Nat
        /\ cache[path].tpl \in Nat
    BY <1>4 DEF TypeInv, TypeOK, Entry
  <2> QED
    BY <2>1, <2>2, <2>3
<1> QED
  BY <1>1, <1>3, <1>5, <1>6, <1>7

(* Reading the template.                                                   *)
LEMMA LoadIInv ==
  ASSUME IInv, Load
  PROVE  IInv'
<1> USE DEF IInv, Load, Goto, tree, kernel
<1>1. TypeInv'
  BY WorkerTypeInv DEF Worker
<1>2. /\ pc = "load" /\ pc' \in {"render", "import"} /\ fn' = ver[path]
      /\ UNCHANGED <<tree, kernel, watcher, cache, path, after, st, served, start>>
  OBVIOUS
<1>3. /\ path \in Files /\ served = None
      /\ start[path] \in Nat /\ done[path] \in Nat /\ ver[path] \in Nat
      /\ start[path] <= done[path] /\ done[path] <= ver[path]
  BY FilesAssumption DEF TypeInv, TypeOK, TreeInv, WalkInv
<1>4. fn' >= done[path] /\ fn' >= start[path]
  BY <1>2, <1>3
<1>5. WatchInv' /\ NoticeInv' /\ PolledInv'
  BY <1>2, <1>4 DEF WatchInv, NoticeInv, PolledInv, Walking, Pending, Newer
<1>6. StampInv'
  BY <1>2 DEF StampInv
<1>7. Fresh' /\ FreshByStamp'
  BY <1>2, <1>3 DEF Fresh, FreshByStamp, Newer
<1> QED
  BY <1>1, <1>5, <1>6, <1>7

(* Reading the module: the entry, if one is made, has both contents.       *)
LEMMA ImportIInv ==
  ASSUME IInv, Import
  PROVE  IInv'
<1> USE DEF IInv, Import, Goto, tree, kernel
<1>1. TypeInv'
  BY WorkerTypeInv DEF Worker
<1>2. /\ pc = "import" /\ pc' = "render" /\ served = None
      /\ UNCHANGED <<tree, kernel, watcher, path, after, st, fn, start>>
  BY DEF TypeInv, WalkInv
<1>3. WatchInv'
  BY <1>2 DEF WatchInv, Walking, Pending
<1>4. CASE UNCHANGED <<cache, served>>
  BY <1>1, <1>2, <1>3, <1>4
     DEF NoticeInv, PolledInv, StampInv, Fresh, FreshByStamp, Pending, Newer
<1>5. CASE Compiled(st)
  <2> DEFINE e == [tpl |-> fn, imp |-> ver[Module], stamp |-> st]
  <2>1. path \in Templates /\ path # Module /\ Module \in Files /\ path \in Files
    BY FilesAssumption DEF TypeInv, TypeOK
  <2>2. /\ cache'[path] = e /\ served' = e
        /\ \A t \in Templates : t # path => cache'[t] = cache[t]
    BY <1>5, <2>1 DEF Compiled, TypeInv, TypeOK
  <2>3. /\ start[Module] \in Nat /\ done[Module] \in Nat /\ ver[Module] \in Nat
        /\ start[Module] <= done[Module] /\ done[Module] <= ver[Module]
    BY <2>1 DEF TypeInv, TypeOK, TreeInv
  <2>4. ver[Module] >= done[Module] /\ ver[Module] >= start[Module]
    BY <2>3
  <2>5. NoticeInv'
    <3> SUFFICES ASSUME watcher = "on", ~limited, ~Pending
                 PROVE  \A t \in Templates : \A f \in {t, Module} :
                          Newer(cache'[t], f, done[f])
      BY <1>2 DEF NoticeInv, Pending, Newer
    <3>1. fn >= done[path] /\ \A t \in Templates : \A f \in {t, Module} :
                                Newer(cache[t], f, done[f])
      BY <1>2 DEF NoticeInv
    <3> QED
      BY <2>1, <2>2, <2>4, <3>1 DEF Newer
  <2>6. fn >= start[path]
    BY <1>2 DEF PolledInv
  <2>7. /\ Newer(e, path, start[path]) /\ Newer(e, Module, start[Module])
    BY <2>1, <2>4, <2>6 DEF Newer
  <2>8. PolledInv' /\ Fresh' /\ FreshByStamp'
    BY <1>2, <2>2, <2>7 DEF PolledInv, Fresh, FreshByStamp, Newer
  <2>9. StampInv'
    BY <1>2, <2>2 DEF StampInv
  <2> QED
    BY <1>1, <1>3, <2>5, <2>8, <2>9
<1> QED
  BY <1>4, <1>5

-----------------------------------------------------------------------------
LEMMA InitIInv == Init => IInv
<1> SUFFICES ASSUME Init PROVE IInv
  OBVIOUS
<1>1. TypeInv
  BY InitTypeInv
<1>2. stamp = ver
  BY DEF Init
<1> QED
  BY <1>1, <1>2 DEF Init, IInv, WatchInv, NoticeInv, PolledInv, StampInv, Fresh,
     FreshByStamp

LEMMA NextIInv == IInv /\ [Next]_vars => IInv'
<1> SUFFICES ASSUME IInv, [Next]_vars PROVE IInv'
  OBVIOUS
<1>1. CASE FileSystem
  BY <1>1, FileSystemIInv
<1>2. CASE \E t \in Templates : onRequest(t)
  BY <1>2, OnRequestIInv
<1>3. CASE AddRoot \/ List \/ AddSub
  BY <1>3, WalkIInv
<1>4. CASE Poll
  BY <1>4, PollIInv
<1>5. CASE Get
  BY <1>5, GetIInv
<1>6. CASE Load
  BY <1>6, LoadIInv
<1>7. CASE Import
  BY <1>7, ImportIInv
<1>8. CASE onBody
  <2>1. TypeInv'
    BY <1>8, WorkerTypeInv DEF IInv, Worker
  <2> QED
    BY <1>8, <2>1 DEF IInv, onBody, Goto, tree, kernel, WatchInv, NoticeInv, PolledInv,
       StampInv, Fresh, FreshByStamp, Pending, Walking, Newer
<1>9. CASE UNCHANGED vars
  <2>1. TypeInv'
    BY <1>9 DEF IInv, TypeInv, TypeOK, WalkInv, TreeInv, Walking, vars, tree, kernel,
       request
  <2> QED
    BY <1>9, <2>1 DEF IInv, vars, tree, kernel, request, WatchInv, NoticeInv,
       PolledInv, StampInv, Fresh, FreshByStamp, Pending, Walking, Newer
<1> QED
  BY <1>1, <1>2, <1>3, <1>4, <1>5, <1>6, <1>7, <1>8, <1>9 DEF Next, Worker

(* The variables keep to their types; without a watcher there is no watch. *)
THEOREM CacheTypeCorrect == Spec => []TypeOK
<1>1. IInv => TypeOK
  BY DEF IInv, TypeInv
<1> QED
  BY <1>1, InitIInv, NextIInv, PTL DEF Spec

(* No completed change is lost between requests: what the cache lacks an   *)
(* event in the queue makes the next request throw away (utpl-wrapper.uc,  *)
(* poll_watcher and watch_dirs).                                           *)
THEOREM AnnouncedAlways == Spec => []Announced
<1>1. IInv => Announced
  <2> SUFFICES ASSUME IInv, watcher = "on", ~limited, pc = "idle", ~Pending
               PROVE  /\ "root" \in watched /\ (sub => "sub" \in watched)
                      /\ \A t \in Templates : \A f \in {t, Module} :
                           Newer(cache[t], f, done[f])
    BY FilesAssumption DEF IInv, TypeInv, Announced, Pending
  <2> QED
    BY DEF IInv, WatchInv, NoticeInv, Walking
<1> QED
  BY <1>1, InitIInv, NextIInv, PTL DEF Spec

(* With the plugin a request is answered from a template, and a module,    *)
(* that have every change completed before it arrived (utpl-wrapper.uc,    *)
(* onRequest, poll_watcher and get_template).                              *)
THEOREM FreshAlways == Spec => []Fresh
<1>1. IInv => Fresh
  BY DEF IInv
<1> QED
  BY <1>1, InitIInv, NextIInv, PTL DEF Spec

(* Without it the template has them, as far as mtime and size can tell     *)
(* (utpl-wrapper.uc, get_template).                                        *)
THEOREM FreshByStampAlways == Spec => []FreshByStamp
<1>1. IInv => FreshByStamp
  BY DEF IInv
<1> QED
  BY <1>1, InitIInv, NextIInv, PTL DEF Spec

-----------------------------------------------------------------------------
(* inotify-rsync.                                                          *)

Running(p) == at[p] # "off"

(***************************************************************************)
(* The inductive invariant of the daemon.                                  *)
(*                                                                         *)
(* An event tells of a change that was made.                               *)
(***************************************************************************)
ToldInv == \A d \in Dirs : noticed[d] <= version[d] /\ version[d] <= newest

(* As long as no one-shot run has been beside the daemon, the one process  *)
(* that runs has counters at least as high as the file, has the temporary  *)
(* file open when it fills it, and has filled it when it renames it.       *)
AloneInv ==
  ~mixed =>
    /\ \A p, q \in Procs : Running(p) /\ Running(q) => p = q
    /\ metrics # Empty
    /\ \A p \in Procs :
         /\ Running(p) /\ at[p] # "read" => AtLeast(mem[p], metrics)
         /\ at[p] = "fill" => fd[p] = "tmp"
         /\ at[p] = "rename" => tmp = mem[p]

IRInv == IRTypeOK /\ ToldInv /\ NothingForgotten /\ AloneInv

-----------------------------------------------------------------------------
(* Counters.                                                               *)

(* A counter that is raised leaves counters, none of them less.            *)
LEMMA CountersBump ==
  ASSUME NEW m \in Counters, NEW n \in Nat
  PROVE  /\ [m EXCEPT !.events = @ + n] \in Counters
         /\ AtLeast([m EXCEPT !.events = @ + n], m)
         /\ [m EXCEPT !.runs = @ + n] \in Counters
         /\ AtLeast([m EXCEPT !.runs = @ + n], m)
         /\ [m EXCEPT !.errors = @ + n] \in Counters
         /\ AtLeast([m EXCEPT !.errors = @ + n], m)
BY DEF Counters, AtLeast

LEMMA ZeroType == Zero \in Counters
BY DEF Zero, Counters

LEMMA AtLeastOrder ==
  ASSUME NEW a \in Counters, NEW b \in Counters, NEW c, AtLeast(b, c)
  PROVE  AtLeast(a, a) /\ (AtLeast(a, b) => AtLeast(a, c))
<1>1. DOMAIN a = DOMAIN b /\ \A x \in DOMAIN a : a[x] \in Nat /\ b[x] \in Nat
  BY DEF Counters
<1>2. AtLeast(a, a)
  BY <1>1 DEF AtLeast
<1>3. ASSUME AtLeast(a, b), c \in Counters
      PROVE  \A x \in DOMAIN c : a[x] >= c[x]
  <2>1. DOMAIN c = DOMAIN b /\ \A x \in DOMAIN c : c[x] \in Nat
    BY <1>3 DEF Counters
  <2>2. ASSUME NEW x \in DOMAIN c PROVE a[x] >= b[x] /\ b[x] >= c[x]
    BY <1>3, <2>1 DEF AtLeast
  <2> QED
    BY <1>1, <2>1, <2>2
<1> QED
  BY <1>2, <1>3 DEF AtLeast

-----------------------------------------------------------------------------
(* Types.                                                                  *)

LEMMA ChangedType ==
  ASSUME IRTypeOK, NEW d \in Dirs, NEW by, Changed(d, by)
  PROVE  /\ version' \in [Dirs -> 0..MaxVersion] /\ copy' \in [Dirs -> 0..MaxVersion]
         /\ noticed' \in [Dirs -> 0..MaxVersion] /\ backlog' \in 0..QueueSize
         /\ newest' \in 0..MaxVersion
         /\ UNCHANGED <<copy, missed, at, todo, timer, mem, files, mixed, events>>
BY InotifyRsyncAssumption DEF IRTypeOK, Changed

LEMMA TreeType == IRTypeOK /\ (ChangeFile \/ Mkdir \/ Rmdir) => IRTypeOK'
<1> SUFFICES ASSUME IRTypeOK, ChangeFile \/ Mkdir \/ Rmdir PROVE IRTypeOK'
  OBVIOUS
<1>1. /\ Root \in exists' /\ exists' \subseteq Dirs /\ watches' \subseteq exists'
      /\ \E d \in Dirs : \E by : Changed(d, by)
  BY DEF ChangeFile, Mkdir, Rmdir, IRTypeOK
<1> QED
  BY <1>1, ChangedType DEF IRTypeOK, files

LEMMA SpendType == IRTypeOK /\ Spend => events' \in 0..MaxEvents
BY InotifyRsyncAssumption DEF IRTypeOK, Spend

LEMMA EndType ==
  ASSUME IRTypeOK, NEW p \in Procs, End(p)
  PROVE  /\ at' = [at EXCEPT ![p] = "off"]
         /\ todo' \in [Procs -> SUBSET Dirs] /\ mem' \in [Procs -> Counters]
         /\ watches' \subseteq exists /\ backlog' \in 0..QueueSize
         /\ noticed' \in [Dirs -> 0..MaxVersion] /\ missed' \in [Dirs -> 0..MaxVersion]
         /\ timer' \in BOOLEAN
<1>1. at' = [at EXCEPT ![p] = "off"] /\ todo' \in [Procs -> SUBSET Dirs]
  BY DEF IRTypeOK, End, JumpTo
<1>2. mem' \in [Procs -> Counters]
  BY ZeroType DEF IRTypeOK, End
<1>3. CASE p = "daemon"
  <2>1. /\ watches' = {} /\ backlog' = 0 /\ timer' = FALSE
        /\ noticed' = [d \in Dirs |-> 0] /\ missed' = [d \in Dirs |-> 0]
    BY <1>3 DEF End
  <2>2. 0 \in 0..QueueSize /\ 0 \in 0..MaxVersion
    BY InotifyRsyncAssumption
  <2> QED
    BY <1>1, <1>2, <2>1, <2>2
<1>4. CASE p # "daemon"
  BY <1>1, <1>2, <1>4 DEF IRTypeOK, End, inotify
<1> QED
  BY <1>3, <1>4

LEMMA ProcType ==
  ASSUME IRTypeOK, NEW p \in Procs, Start(p) \/ Step(p) \/ Kill(p)
  PROVE  IRTypeOK'
<1>1. CASE Start(p)
  BY <1>1, SpendType DEF Start, JumpTo, IRTypeOK, dirs, inotify, files
<1>2. CASE ReadMetrics(p)
  <2> DEFINE m == IF metrics \in {NoFile, Empty} THEN Zero ELSE metrics
  <2>1. m \in Counters
    BY ZeroType DEF IRTypeOK
  <2>2. m \in Counters /\ [m EXCEPT !.runs = @ + 1] \in Counters
    BY <2>1, CountersBump
  <2> HIDE DEF m
  <2>3. \/ mem' = [mem EXCEPT ![p] = m]
        \/ mem' = [mem EXCEPT ![p] = [m EXCEPT !.runs = @ + 1]]
    BY <1>2 DEF ReadMetrics, m
  <2>4. mem' \in [Procs -> Counters]
    BY <2>2, <2>3 DEF IRTypeOK
  <2> QED
    BY <1>2, <2>4 DEF ReadMetrics, JumpTo, IRTypeOK, dirs, inotify, files
<1>3. CASE Copy(p)
  BY <1>3 DEF Copy, IRTypeOK, dirs, inotify, files
<1>4. CASE RsyncEnds(p)
  <2> DEFINE m == [mem[p] EXCEPT !.errors = @ + 1]
  <2>1. m \in Counters
    BY CountersBump DEF IRTypeOK
  <2> HIDE DEF m
  <2>2. mem' \in [Procs -> Counters]
    <3>1. mem' = mem \/ mem' = [mem EXCEPT ![p] = m]
      BY <1>4 DEF RsyncEnds, m
    <3> QED
      BY <2>1, <3>1 DEF IRTypeOK
  <2>3. /\ todo' \in [Procs -> SUBSET Dirs] /\ events' \in 0..MaxEvents
        /\ missed' \in [Dirs -> 0..MaxVersion]
    BY <1>4, SpendType, InotifyRsyncAssumption DEF RsyncEnds, IRTypeOK
  <2> QED
    BY <1>4, <2>2, <2>3 DEF RsyncEnds, WriteMetrics, JumpTo, IRTypeOK, dirs
<1>5. CASE Open(p)
  BY <1>5 DEF Open, JumpTo, IRTypeOK, dirs, inotify
<1>6. CASE Fill(p)
  BY <1>6 DEF Fill, JumpTo, IRTypeOK, dirs, inotify
<1>7. CASE Rename(p)
  BY <1>7 DEF Rename, JumpTo, IRTypeOK, dirs, inotify
<1>8. CASE Rest(p)
  BY <1>8, EndType DEF Rest, JumpTo, IRTypeOK, dirs, inotify, files
<1>16. CASE WriteFails(p)
  BY <1>16, SpendType DEF WriteFails, JumpTo, IRTypeOK, dirs, inotify
<1>9. CASE ListDirs
  BY <1>9 DEF ListDirs, JumpTo, IRTypeOK, dirs, inotify, files, Procs
<1>10. CASE AddWatch
  <2>1. "daemon" \in Procs
    BY DEF Procs
  <2>2. CASE End("daemon")
    BY <1>10, <2>1, <2>2, EndType DEF AddWatch, IRTypeOK, dirs, files
  <2> QED
    BY <1>10, <2>1, <2>2 DEF AddWatch, IRTypeOK, dirs, files
<1>11. CASE Added
  BY <1>11 DEF Added, JumpTo, IRTypeOK, dirs, inotify, files, Procs
<1>12. CASE OnEvent
  <2>1. mem["daemon"] \in Counters /\ backlog \in Nat
    BY InotifyRsyncAssumption DEF IRTypeOK, Procs
  <2>2. mem' \in [Procs -> Counters]
    BY <1>12, <2>1, CountersBump DEF OnEvent, IRTypeOK
  <2> QED
    BY <1>12, <2>2, InotifyRsyncAssumption
    DEF OnEvent, WriteMetrics, JumpTo, IRTypeOK, dirs, Procs
<1>13. CASE Arm
  BY <1>13 DEF Arm, JumpTo, IRTypeOK, dirs, inotify, files, Procs
<1>14. CASE Fire
  <2>1. mem["daemon"] \in Counters
    BY DEF IRTypeOK, Procs
  <2>2. mem' \in [Procs -> Counters]
    BY <1>14, <2>1, CountersBump DEF Fire, IRTypeOK
  <2> QED
    BY <1>14, <2>2 DEF Fire, JumpTo, IRTypeOK, dirs, inotify, files, Procs
<1>15. CASE Kill(p)
  BY <1>15, EndType, SpendType DEF Kill, IRTypeOK, dirs
<1> QED
  BY <1>1, <1>2, <1>3, <1>4, <1>5, <1>6, <1>7, <1>8, <1>9, <1>10, <1>11, <1>12, <1>13,
     <1>14, <1>15, <1>16 DEF Step

LEMMA NextType == IRTypeOK /\ [IRNext]_irVars => IRTypeOK'
<1>1. IRTypeOK /\ UNCHANGED irVars => IRTypeOK'
  BY DEF IRTypeOK, irVars
<1> QED
  BY <1>1, TreeType, ProcType DEF IRNext

-----------------------------------------------------------------------------
(* Nothing is forgotten.                                                   *)

(* A change that is noticed leaves an event; one that is not leaves what   *)
(* the daemon has to do as it was.                                         *)
LEMMA TreeForgetsNothing ==
  ASSUME IRTypeOK, ToldInv, NothingForgotten, ChangeFile \/ Mkdir \/ Rmdir
  PROVE  ToldInv' /\ NothingForgotten'
<1>0. PICK d \in Dirs : \E by : Changed(d, by)
  BY DEF ChangeFile, Mkdir, Rmdir, IRTypeOK
<1>1. PICK by : Changed(d, by)
  BY <1>0
<1>2. ToldInv'
  BY <1>1, InotifyRsyncAssumption DEF IRTypeOK, Changed, ToldInv
<1>3. ASSUME noticed' = noticed, backlog' = backlog PROVE NothingForgotten'
  BY <1>1, <1>3 DEF Changed, NothingForgotten, WillArm, files
<1>4. ASSUME backlog' > 0 PROVE NothingForgotten'
  BY <1>4 DEF NothingForgotten
<1>5. \/ noticed' = noticed /\ backlog' = backlog
      \/ backlog' > 0
  BY <1>1, InotifyRsyncAssumption DEF IRTypeOK, Changed
<1> QED
  BY <1>2, <1>3, <1>4, <1>5

(* A daemon that ends has no event of anything.                            *)
LEMMA EndForgetsNothing ==
  ASSUME IRTypeOK, ToldInv, NothingForgotten, NEW p \in Procs, End(p),
         UNCHANGED <<version, newest, copy>>, p = "sync" => UNCHANGED next
  PROVE  ToldInv' /\ NothingForgotten'
<1>1. CASE p = "daemon"
  <2>1. ASSUME NEW d \in Dirs
        PROVE  noticed'[d] = 0 /\ copy'[d] \in Nat /\ version'[d] \in Nat
    BY <1>1, InotifyRsyncAssumption DEF End, IRTypeOK
  <2>2. \A d \in Dirs : ~(noticed'[d] > copy'[d]) /\ noticed'[d] <= version'[d]
    BY <2>1
  <2> QED
    BY <2>2 DEF ToldInv, NothingForgotten
<1>2. CASE p = "sync"
  BY <1>2 DEF End, JumpTo, IRTypeOK, ToldInv, NothingForgotten, WillArm, inotify, Procs
<1> QED
  BY <1>1, <1>2 DEF Procs

(* The daemon's and the one-shot run's own steps leave it events to read,  *)
(* its timer, or directories for rsync to come to, until they are copied.  *)
LEMMA ProcForgetsNothing ==
  ASSUME IRTypeOK, ToldInv, NothingForgotten,
         NEW p \in Procs, Start(p) \/ Step(p) \/ Kill(p)
  PROVE  ToldInv' /\ NothingForgotten'
<1> USE DEF ToldInv, NothingForgotten, WillArm, JumpTo, dirs, inotify, files, Procs
<1>1. CASE Start(p)
  BY <1>1 DEF Start, IRTypeOK
<1>2. CASE ReadMetrics(p)
  BY <1>2 DEF ReadMetrics, IRTypeOK
<1>3. CASE Copy(p)
  <2>1. PICK d \in todo[p] : /\ copy' = [copy EXCEPT ![d] = version[d]]
                             /\ todo' = [todo EXCEPT ![p] = @ \ {d}]
    BY <1>3 DEF Copy
  <2>2. d \in Dirs
    BY DEF IRTypeOK
  <2>3. ASSUME NEW e \in Dirs, noticed'[e] > copy'[e], noticed'[e] > missed'[e]
        PROVE  e # d /\ noticed[e] > copy[e] /\ noticed[e] > missed[e]
    BY <1>3, <2>1, <2>2, <2>3, InotifyRsyncAssumption DEF Copy, IRTypeOK
  <2>4. ASSUME NEW e \in Dirs, e # d, e \in todo["daemon"] PROVE e \in todo'["daemon"]
    BY <2>1, <2>4 DEF IRTypeOK
  <2> QED
    BY <1>3, <2>3, <2>4 DEF Copy
<1>4. CASE RsyncEnds(p)
  <2>1. CASE todo[p] = {} /\ UNCHANGED <<mem, missed, todo, events>>
    BY <1>4, <2>1 DEF RsyncEnds, WriteMetrics, IRTypeOK
  <2>2. CASE p = "sync" /\ missed' = missed /\ todo' = [todo EXCEPT ![p] = {}]
    BY <1>4, <2>2 DEF RsyncEnds, WriteMetrics, IRTypeOK
  <2>3. CASE /\ p = "daemon"
             /\ missed' = [d \in Dirs |->
                            IF d \in todo[p] THEN noticed[d] ELSE missed[d]]
    <3>1. UNCHANGED <<copy, noticed, version, newest, backlog, timer>>
          /\ noticed \in [Dirs -> Nat]
      BY <1>4, InotifyRsyncAssumption DEF RsyncEnds, IRTypeOK
    <3>2. ASSUME NEW d \in Dirs, noticed'[d] > copy'[d], noticed'[d] > missed'[d]
          PROVE  d \notin todo[p] /\ noticed[d] > copy[d] /\ noticed[d] > missed[d]
      BY <2>3, <3>1, <3>2
    <3>3. ASSUME NEW d \in Dirs, noticed'[d] > copy'[d], noticed'[d] > missed'[d]
          PROVE  backlog' > 0 \/ timer'
      BY <1>4, <2>3, <3>1, <3>2, <3>3 DEF RsyncEnds
    <3>4. ToldInv'
      BY <3>1
    <3> QED
      BY <3>3, <3>4
  <2> QED
    BY <1>4, <2>1, <2>2, <2>3 DEF RsyncEnds
<1>5. CASE Open(p)
  BY <1>5 DEF Open, IRTypeOK
<1>6. CASE Fill(p)
  BY <1>6 DEF Fill, IRTypeOK
<1>7. CASE Rename(p)
  BY <1>7 DEF Rename, IRTypeOK
<1>16. CASE WriteFails(p)
  BY <1>16 DEF WriteFails, IRTypeOK
<1>8. CASE Rest(p)
  <2>1. CASE p = "sync"
    BY <1>8, <2>1, EndForgetsNothing DEF Rest
  <2>2. CASE p = "daemon"
    BY <1>8, <2>2 DEF Rest, IRTypeOK
  <2> QED
    BY <2>1, <2>2
<1>9. CASE ListDirs
  BY <1>9 DEF ListDirs, IRTypeOK
<1>10. CASE AddWatch
  <2>1. CASE End("daemon")
    BY <1>10, <2>1, EndForgetsNothing DEF AddWatch
  <2>2. CASE UNCHANGED <<backlog, noticed, missed, at, timer, mem>>
    BY <1>10, <2>2 DEF AddWatch, IRTypeOK
  <2> QED
    BY <1>10, <2>1, <2>2 DEF AddWatch
<1>11. CASE Added
  BY <1>11 DEF Added, IRTypeOK
<1>12. CASE OnEvent
  BY <1>12 DEF OnEvent, WriteMetrics, IRTypeOK
<1>13. CASE Arm
  BY <1>13 DEF Arm, IRTypeOK
<1>14. CASE Fire
  BY <1>14 DEF Fire, IRTypeOK
<1>15. CASE Kill(p)
  <2>1. p = "daemon" \/ next'["daemon"] = next["daemon"]
    BY <1>15 DEF Kill, IRTypeOK
  <2>2. CASE p = "daemon"
    BY <1>15, <2>2, EndForgetsNothing DEF Kill
  <2>3. CASE p = "sync"
    BY <1>15, <2>3, <2>1 DEF Kill, End, IRTypeOK
  <2> QED
    BY <2>2, <2>3
<1> QED
  BY <1>1, <1>2, <1>3, <1>4, <1>5, <1>6, <1>7, <1>8, <1>9, <1>10, <1>11, <1>12, <1>13,
     <1>14, <1>15, <1>16 DEF Step

LEMMA NextForgetsNothing ==
  IRTypeOK /\ ToldInv /\ NothingForgotten /\ [IRNext]_irVars
    => ToldInv' /\ NothingForgotten'
<1>1. ToldInv /\ NothingForgotten /\ UNCHANGED irVars => ToldInv' /\ NothingForgotten'
  BY DEF ToldInv, NothingForgotten, WillArm, irVars
<1> QED
  BY <1>1, TreeForgetsNothing, ProcForgetsNothing DEF IRNext

-----------------------------------------------------------------------------
(* The file of counters.                                                   *)

GrowStep == ~mixed' => AtLeast(metrics', metrics)

LEMMA AtLeastSelf == ASSUME NEW m PROVE AtLeast(m, m)
BY DEF AtLeast, Counters

(* What has no process of its own, or none that is past its start, leaves  *)
(* the files and counters alone.                                           *)
LEMMA AloneKept ==
  ASSUME AloneInv, mixed' = mixed, UNCHANGED <<metrics, tmp, fd>>,
         \A p \in Procs : \/ at'[p] = at[p] /\ mem'[p] = mem[p]
                          \/ at'[p] = "off"
                          \/ /\ Running(p) /\ at[p] # "read"
                             /\ at'[p] \notin {"fill", "rename", "off"}
                             /\ AtLeast(mem[p], metrics) => AtLeast(mem'[p], metrics)
  PROVE  AloneInv' /\ GrowStep
<1>1. GrowStep
  BY AtLeastSelf DEF GrowStep
<1> SUFFICES ASSUME ~mixed PROVE AloneInv'
  BY <1>1 DEF AloneInv
<1>2. \A p \in Procs : Running(p)' => Running(p)
  BY DEF Running
<1>3. ASSUME NEW p \in Procs
      PROVE  /\ Running(p)' /\ at'[p] # "read" => AtLeast(mem'[p], metrics)
             /\ at'[p] = "fill" => fd[p] = "tmp"
             /\ at'[p] = "rename" => tmp = mem'[p]
  BY DEF AloneInv, Running
<1> QED
  BY <1>2, <1>3 DEF AloneInv

LEMMA TreeAlone ==
  AloneInv /\ (ChangeFile \/ Mkdir \/ Rmdir) => AloneInv' /\ GrowStep
<1> SUFFICES ASSUME AloneInv, ChangeFile \/ Mkdir \/ Rmdir PROVE AloneInv' /\ GrowStep
  OBVIOUS
<1>1. UNCHANGED <<mixed, metrics, tmp, fd, at, mem>>
  BY DEF ChangeFile, Mkdir, Rmdir, Changed, files
<1> QED
  BY <1>1, AloneKept

LEMMA ProcAlone ==
  ASSUME IRTypeOK, IRTypeOK', AloneInv, NEW p \in Procs, Start(p) \/ Step(p) \/ Kill(p)
  PROVE  AloneInv' /\ GrowStep
<1>0. /\ mem \in [Procs -> Counters] /\ mem' \in [Procs -> Counters]
      /\ DOMAIN at = Procs /\ DOMAIN mem = Procs /\ DOMAIN fd = Procs
  BY DEF IRTypeOK
<1>1. CASE Start(p)
  <2>1. /\ UNCHANGED <<metrics, tmp, fd, mem>> /\ at' = [at EXCEPT ![p] = "read"]
        /\ ~mixed' => ~mixed /\ \A q \in Procs : Running(q) => q = p
    BY <1>1 DEF Start, JumpTo, files, Running
  <2>2. GrowStep
    BY <2>1, AtLeastSelf DEF GrowStep
  <2>3. ~mixed' => \A q \in Procs : q # p => at'[q] = "off"
    BY <2>1, <1>0 DEF Running
  <2>4. at'[p] = "read"
    BY <2>1, <1>0
  <2> QED
    BY <2>1, <2>2, <2>3, <2>4 DEF AloneInv, Running
<1>2. CASE ReadMetrics(p)
  <2>1. /\ UNCHANGED <<metrics, tmp, fd, mixed>>
        /\ at' = [at EXCEPT ![p] = "list"] \/ at' = [at EXCEPT ![p] = "rsync"]
        /\ at[p] = "read"
    BY <1>2 DEF ReadMetrics, JumpTo, files
  <2>2. AtLeast(mem'[p], metrics)
    <3>1. CASE metrics \in Counters
      <4>1. metrics \notin {NoFile, Empty}
        BY <3>1, NoCountersAssumption
      <4>2. \/ mem' = [mem EXCEPT ![p] = metrics]
            \/ mem' = [mem EXCEPT ![p] = [metrics EXCEPT !.runs = @ + 1]]
        BY <1>2, <4>1 DEF ReadMetrics
      <4>3. mem'[p] = metrics \/ mem'[p] = [metrics EXCEPT !.runs = @ + 1]
        BY <4>2, <1>0
      <4> QED
        BY <3>1, <4>3, CountersBump, AtLeastSelf
    <3>2. CASE metrics \notin Counters
      BY <3>2 DEF AtLeast
    <3> QED
      BY <3>1, <3>2
  <2>3. \A q \in Procs : Running(q)' <=> Running(q)
    BY <2>1, <1>0 DEF Running
  <2>4. \A q \in Procs : q # p /\ Running(q) => mixed
    BY <2>1 DEF AloneInv, Running
  <2>5. at'[p] \in {"list", "rsync"}
    BY <2>1, <1>0
  <2>6. GrowStep
    BY <2>1, AtLeastSelf DEF GrowStep
  <2>7. \A q \in Procs : q # p => at'[q] = at[q]
    BY <2>1, <1>0
  <2> QED
    BY <2>1, <2>2, <2>3, <2>4, <2>5, <2>6, <2>7 DEF AloneInv, Running
<1>3. CASE Copy(p)
  BY <1>3, AloneKept DEF Copy, files
<1>4. CASE RsyncEnds(p)
  <2> DEFINE m == [mem[p] EXCEPT !.errors = @ + 1]
  <2>1. m \in Counters /\ AtLeast(m, mem[p])
    BY <1>0, CountersBump
  <2>2. AtLeast(mem[p], metrics) => AtLeast(m, metrics)
    BY <1>0, <2>1, AtLeastOrder
  <2> HIDE DEF m
  <2>3. /\ UNCHANGED <<metrics, tmp, fd, mixed>> /\ at[p] = "rsync"
        /\ at' = [at EXCEPT ![p] = "open"]
        /\ mem' = mem \/ mem' = [mem EXCEPT ![p] = m]
    BY <1>4 DEF RsyncEnds, WriteMetrics, JumpTo, m
  <2> QED
    BY <2>2, <2>3, <1>0, AloneKept DEF Running
<1>5. CASE Open(p)
  <2>1. /\ UNCHANGED <<mem, metrics, mixed>> /\ at[p] = "open"
        /\ at' = [at EXCEPT ![p] = "fill"] /\ fd' = [fd EXCEPT ![p] = "tmp"]
    BY <1>5 DEF Open, JumpTo
  <2>2. GrowStep
    BY <2>1, AtLeastSelf DEF GrowStep
  <2>3. /\ at'[p] = "fill" /\ fd'[p] = "tmp"
        /\ \A q \in Procs : q # p => at'[q] = at[q] /\ (Running(q) => mixed)
    BY <2>1, <1>0 DEF AloneInv, Running
  <2> QED
    BY <2>1, <2>2, <2>3 DEF AloneInv, Running
<1>6. CASE Fill(p)
  <2>1. /\ UNCHANGED <<mem, mixed>> /\ at[p] = "fill"
        /\ at' = [at EXCEPT ![p] = "rename"] /\ fd' = [fd EXCEPT ![p] = NoFile]
        /\ tmp' = IF fd[p] = "tmp" THEN mem[p] ELSE tmp
        /\ metrics' = IF fd[p] = "metrics" THEN mem[p] ELSE metrics
    BY <1>6 DEF Fill, JumpTo
  <2>2. ~mixed => tmp' = mem'[p] /\ metrics' = metrics
    BY <2>1 DEF AloneInv
  <2>3. GrowStep
    BY <2>1, <2>2, AtLeastSelf DEF GrowStep
  <2>4. /\ at'[p] = "rename"
        /\ \A q \in Procs : q # p => at'[q] = at[q] /\ (Running(q) => mixed)
    BY <2>1, <1>0 DEF AloneInv, Running
  <2> QED
    BY <2>1, <2>2, <2>3, <2>4 DEF AloneInv, Running
<1>7. CASE Rename(p)
  <2>1. /\ UNCHANGED <<mem, mixed>> /\ at[p] = "rename"
        /\ at' = [at EXCEPT ![p] = next[p]] /\ next[p] \in {"arm", "rest"}
        /\ tmp # NoFile => metrics' = tmp
    BY <1>7 DEF Rename, JumpTo, IRTypeOK
  <2>2. ~mixed => metrics' = mem[p] /\ AtLeast(mem[p], metrics) /\ metrics' # Empty
    BY <2>1, <1>0, NoCountersAssumption DEF AloneInv, Running
  <2>3. GrowStep
    BY <2>1, <2>2 DEF GrowStep
  <2>4. /\ at'[p] \in {"arm", "rest"}
        /\ \A q \in Procs : q # p => at'[q] = at[q] /\ (Running(q) => mixed)
    BY <2>1, <1>0 DEF AloneInv, Running
  <2>5. AtLeast(mem'[p], mem[p])
    BY <2>1, AtLeastSelf
  <2> QED
    BY <2>1, <2>2, <2>3, <2>4, <2>5 DEF AloneInv, Running
<1>16. CASE WriteFails(p)
  <2>1. /\ UNCHANGED <<mem, metrics, tmp, mixed>> /\ at[p] \in {"open", "fill"}
        /\ at' = [at EXCEPT ![p] = next[p]] /\ next[p] \in {"arm", "rest"}
        /\ fd' = [fd EXCEPT ![p] = NoFile]
    BY <1>16 DEF WriteFails, JumpTo, IRTypeOK
  <2>2. GrowStep
    BY <2>1, AtLeastSelf DEF GrowStep
  <2>3. /\ at'[p] \in {"arm", "rest"}
        /\ \A q \in Procs : q # p => at'[q] = at[q] /\ (Running(q) => mixed)
    BY <2>1, <1>0 DEF AloneInv, Running
  <2> QED
    BY <2>1, <2>2, <2>3 DEF AloneInv, Running
<1>8. CASE Rest(p)
  <2>1. /\ UNCHANGED <<metrics, tmp, fd, mixed>> /\ at[p] = "rest"
        /\ \/ at' = [at EXCEPT ![p] = "off"] /\ mem' = [mem EXCEPT ![p] = Zero]
           \/ at' = [at EXCEPT ![p] = "loop"] /\ mem' = mem
    BY <1>8 DEF Rest, End, JumpTo, files
  <2> QED
    BY <2>1, <1>0, AloneKept DEF Running
<1>9. CASE ListDirs
  BY <1>9, <1>0, AloneKept DEF ListDirs, JumpTo, files, Running
<1>10. CASE AddWatch
  <2>1. /\ UNCHANGED <<metrics, tmp, fd, mixed>>
        /\ \/ /\ at' = [at EXCEPT !["daemon"] = "off"]
              /\ mem' = [mem EXCEPT !["daemon"] = Zero]
           \/ at' = at /\ mem' = mem
    BY <1>10 DEF AddWatch, End, JumpTo, files
  <2> QED
    BY <2>1, <1>0, AloneKept
<1>11. CASE Added
  BY <1>11, <1>0, AloneKept DEF Added, JumpTo, files, Running
<1>12. CASE OnEvent
  <2> DEFINE m == [mem["daemon"] EXCEPT !.events = @ + backlog]
  <2>1. mem["daemon"] \in Counters /\ backlog \in Nat
    BY <1>0, InotifyRsyncAssumption DEF IRTypeOK, Procs
  <2>2. m \in Counters /\ AtLeast(m, mem["daemon"])
    BY <2>1, CountersBump
  <2>3. AtLeast(mem["daemon"], metrics) => AtLeast(m, metrics)
    BY <2>1, <2>2, AtLeastOrder
  <2>4. mem' = [mem EXCEPT !["daemon"] = m]
    BY <1>12 DEF OnEvent
  <2> HIDE DEF m
  <2>5. /\ UNCHANGED <<metrics, tmp, fd, mixed>> /\ at["daemon"] = "loop"
        /\ at' = [at EXCEPT !["daemon"] = "open"]
    BY <1>12 DEF OnEvent, WriteMetrics, JumpTo
  <2> QED
    BY <2>3, <2>4, <2>5, <1>0, AloneKept DEF Running
<1>13. CASE Arm
  BY <1>13, <1>0, AloneKept DEF Arm, JumpTo, files, Running
<1>14. CASE Fire
  <2> DEFINE m == [mem["daemon"] EXCEPT !.runs = @ + 1]
  <2>1. mem["daemon"] \in Counters
    BY <1>0 DEF Procs
  <2>2. m \in Counters /\ AtLeast(m, mem["daemon"])
    BY <2>1, CountersBump
  <2>3. AtLeast(mem["daemon"], metrics) => AtLeast(m, metrics)
    BY <2>1, <2>2, AtLeastOrder
  <2>4. mem' = [mem EXCEPT !["daemon"] = m]
    BY <1>14 DEF Fire
  <2> HIDE DEF m
  <2>5. /\ UNCHANGED <<metrics, tmp, fd, mixed>> /\ at["daemon"] = "loop"
        /\ at' = [at EXCEPT !["daemon"] = "rsync"]
    BY <1>14 DEF Fire, JumpTo, files
  <2> QED
    BY <2>3, <2>4, <2>5, <1>0, AloneKept DEF Running
<1>15. CASE Kill(p)
  <2>1. /\ UNCHANGED <<metrics, tmp, mixed>>
        /\ at' = [at EXCEPT ![p] = "off"] /\ mem' = [mem EXCEPT ![p] = Zero]
        /\ fd' = [fd EXCEPT ![p] = NoFile]
    BY <1>15 DEF Kill, End, JumpTo
  <2>2. GrowStep
    BY <2>1, AtLeastSelf DEF GrowStep
  <2>3. /\ at'[p] = "off"
        /\ \A q \in Procs : q # p => at'[q] = at[q] /\ mem'[q] = mem[q] /\ fd'[q] = fd[q]
    BY <2>1, <1>0
  <2> QED
    BY <2>1, <2>2, <2>3 DEF AloneInv, Running
<1> QED
  BY <1>1, <1>2, <1>3, <1>4, <1>5, <1>6, <1>7, <1>8, <1>9, <1>10, <1>11, <1>12, <1>13,
     <1>14, <1>15, <1>16 DEF Step

-----------------------------------------------------------------------------
(* The theorems.                                                           *)

LEMMA InitIRInv == IRInit => IRInv
<1> SUFFICES ASSUME IRInit PROVE IRInv
  OBVIOUS
<1>1. 0 \in 0..QueueSize /\ 0 \in 0..MaxVersion /\ 0 \in 0..MaxEvents
  BY InotifyRsyncAssumption
<1>2. IRTypeOK
  BY <1>1, ZeroType DEF IRInit, IRTypeOK
<1>3. ToldInv /\ NothingForgotten
  BY DEF IRInit, ToldInv, NothingForgotten
<1>4. AloneInv
  BY InotifyRsyncAssumption DEF IRInit, AloneInv, Running
<1> QED
  BY <1>2, <1>3, <1>4 DEF IRInv

LEMMA NextIRInv == IRInv /\ [IRNext]_irVars => IRInv' /\ (GrowStep \/ UNCHANGED irVars)
<1> SUFFICES ASSUME IRInv, [IRNext]_irVars PROVE IRInv' /\ (GrowStep \/ UNCHANGED irVars)
  OBVIOUS
<1>1. IRTypeOK' /\ ToldInv' /\ NothingForgotten'
  BY NextType, NextForgetsNothing DEF IRInv
<1>2. CASE UNCHANGED irVars
  BY <1>1, <1>2 DEF IRInv, AloneInv, Running, AtLeast, irVars
<1>3. CASE IRNext
  BY <1>1, <1>3, TreeAlone, ProcAlone DEF IRInv, IRNext
<1> QED
  BY <1>1, <1>2, <1>3 DEF IRInv

(* The variables keep to their types; only directories that exist are      *)
(* watched.                                                                *)
THEOREM CopyTypeCorrect == IRSpec => []IRTypeOK
<1>1. IRInv => IRTypeOK
  BY DEF IRInv
<1> QED
  BY <1>1, InitIRInv, NextIRInv, PTL DEF IRSpec

(* What the daemon got an event of is in the copy, or rsync will still be  *)
(* run for it (inotify-rsync.uc, on_event, debounce_rsync and run_rsync).  *)
THEOREM NothingForgottenAlways == IRSpec => []NothingForgotten
<1>1. IRInv => NothingForgotten
  BY DEF IRInv
<1> QED
  BY <1>1, InitIRInv, NextIRInv, PTL DEF IRSpec

(* Without a one-shot run beside the daemon the counters in the file never *)
(* go back and the file is never half written (inotify-rsync.uc,           *)
(* init_metrics and write_metrics).                                        *)
THEOREM CountersGrowAlways == IRSpec => CountersGrow
<1>1. IRInv /\ [IRNext]_irVars => [~mixed' => AtLeast(metrics', metrics)]_irVars
  BY NextIRInv DEF GrowStep
<1> QED
  BY <1>1, InitIRInv, NextIRInv, PTL DEF IRSpec, CountersGrow

=============================================================================
