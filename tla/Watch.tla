------------------------------- MODULE Watch -------------------------------
(***************************************************************************)
(* The watcher: one loop that runs every rescan, the scheduled ticks, and  *)
(* the live layer that turns filesystem events into rescans of single      *)
(* folders by way of a read loop, a worker and a debouncer.                *)
(*                                                                         *)
(* A folder is stale from a change on disk until a rescan that started     *)
(* after it.  Roots do not overlap, and no folder is more than two levels  *)
(* below its root.                                                         *)
(***************************************************************************)
EXTENDS Integers, FiniteSets, Sequences, Functions

CONSTANTS
  Dir, Root,    \* folders, and the library roots among them
  Parent,       \* folder -> the folder above it; a root is its own
  EventBuffer,  \* room of the worker's queue (4096 in the code)
  ReqBuffer,    \* room of the loop's requests (128)
  MaxWatchDirs, \* 0: no cap on watched folders
  MaxTimers,    \* bound: timers and callbacks at once
  Starts        \* bound: folders at the start, and how often files, and folders or roots, change

ASSUME WatchAssumption ==
  /\ IsFiniteSet(Dir) /\ Dir # {} /\ Root \subseteq Dir
  /\ Parent \in [Dir -> Dir]
  /\ \A d \in Dir : Parent[Parent[d]] \in Root /\ (d \in Root => Parent[d] = d)
  /\ {EventBuffer, ReqBuffer, MaxWatchDirs, MaxTimers} \subseteq Nat
  /\ Starts \subseteq [disk : SUBSET Dir, files : Nat, tree : Nat]
  /\ \A s \in Starts : \A d \in s.disk \ Root : Parent[d] \in s.disk

VARIABLES
  disk,      \* the folders that exist
  stale,     \* folders that changed since a rescan of them began
  kernel,    \* events the source has not handed over: its queue may overflow
  lib,       \* the roots the catalog registers
  roots,     \* the watcher's root set
  handed,    \* the sets channel: a root set for the live layer, or NoSet
  live,      \* the live layer: "none" before its start, "off" (no source yet), "on", "ended"
  armed,     \* folders the live layer holds for watched
  watches,   \* folders the source watches: a watch goes with its folder
  heldRoots, \* liveWatch.roots
  queue,     \* events for the worker
  gen,       \* the debouncer's generation of a folder, 0 when it has none
  timers,    \* its timers and callbacks: timer -> folder, generation, stage
  entry,     \* the timer the debouncer knows for a folder, or 0
  reqs,      \* requests for the loop
  loop,      \* what the loop is doing
  degraded,
  noted,     \* history: stale folders whose event the read loop took
  missed,    \* history: an event that would arm or forget a folder never met the worker, or
             \* one met it so late that it forgot a folder which stands anew
  skipped,   \* history: folders that a walk passed by with a warning, or without a word, of
             \* a watcher that does not say degraded
  files, tree  \* changes of files, of folders and roots still to come

watchVars == <<disk, stale, kernel, lib, roots, handed, live, armed, watches, heldRoots, queue, gen,
               timers, entry, reqs, loop, degraded, noted, missed, skipped, files, tree>>
world == <<disk, lib, files, tree>>
debouncer == <<gen, timers, entry>>
watchSet == <<armed, watches, heldRoots, skipped>>

NoSet == [set |-> FALSE, roots |-> {}]
Timer == 1..MaxTimers
NoTimer == [dir |-> CHOOSE d \in Dir : TRUE, gen |-> 0, at |-> "free"]
Idle == [at |-> "idle", dirs |-> {}, again |-> {}]

RootOf(d) == Parent[Parent[d]]
Below(d) == {x \in Dir : d \in {x, Parent[x], RootOf(x)}}
Reach(ds) == UNION {Below(d) : d \in ds}

Event == {"file", "created", "removed", "renamed"} \X Dir
Overflow == <<"overflow", CHOOSE d \in Dir : TRUE>>

\* filepath.Dir of the event's name, for a file of a folder the folder itself.
DirOf(ev) == IF ev[1] = "file" THEN ev[2] ELSE Parent[ev[2]]

WatchInit ==
  /\ \E s \in Starts : disk = s.disk /\ files = s.files /\ tree = s.tree
  /\ stale = {} /\ kernel = <<>> /\ noted = {} /\ missed = FALSE /\ skipped = {}
  /\ lib = Root /\ roots = Root /\ handed = NoSet
  /\ live = "none" /\ armed = {} /\ watches = {} /\ heldRoots = {} /\ queue = <<>>
  /\ gen = [d \in Dir |-> 0] /\ entry = [d \in Dir |-> 0]
  /\ timers = [t \in Timer |-> NoTimer]
  /\ reqs = <<>>
  /\ loop = [Idle EXCEPT !.at = "begin", !.dirs = Dir]
  /\ degraded = FALSE

-----------------------------------------------------------------------------
(***************************************************************************)
(* The disk and the catalog.  A change in a watched folder is an event of  *)
(* the source, or is lost when the source's queue is full.                 *)
(***************************************************************************)
\* A watch on the folder or on the one above it reports what happens to the folder.
Told(d) == d \in watches \/ Parent[d] \in watches
Report(what, d) == IF Told(d) THEN <<<<what, d>>>> ELSE <<>>

\* The orders in which the folders of a set can go from the bottom up.
Upward(ds) ==
  {s \in [1..Cardinality(ds) -> ds] :
     Range(s) = ds /\ \A m, n \in DOMAIN s : m < n => s[n] \notin Below(s[m])}
EventOfEach(what, s) == [n \in DOMAIN s |-> <<what, s[n]>>]

\* The events of a change reach the source, in their order, or one that stands for all
\* of them.
Tell(evs, lost) ==
  /\ kernel' = IF live # "on" \/ evs = <<>> THEN kernel
               ELSE IF lost THEN Append(kernel, Overflow) ELSE kernel \o evs
  /\ missed' = (missed \/ (lost /\ \E ev \in Range(evs) : ev[1] # "file"))

Changed(ds) ==
  /\ stale' = stale \cup ds
  /\ noted' = noted \ ds
  /\ loop' = [loop EXCEPT !.again = @ \cup (ds \cap loop.dirs)]
  /\ UNCHANGED <<lib, roots, handed, live, armed, heldRoots, queue, debouncer, reqs, degraded>>

ChangeFile(d, lost) ==
  /\ d \in disk /\ files > 0
  /\ files' = files - 1
  /\ Changed({d}) /\ Tell(Report("file", d), lost)
  /\ UNCHANGED <<disk, tree, watches, skipped>>

Restructured ==
  /\ tree > 0
  /\ tree' = tree - 1
  /\ UNCHANGED files

\* A new folder, or one moved in with those below it.
CreateDir(d, ds, lost) ==
  /\ d \notin disk /\ (d \in Root \/ Parent[d] \in disk)
  /\ Restructured /\ Changed(ds) /\ Tell(Report("created", d), lost)
  /\ disk' = disk \cup ds
  /\ UNCHANGED <<watches, skipped>>

\* A folder goes with those below it: removed from the bottom up, or renamed away.
LoseDir(d, how, lost) ==
  LET gone == Below(d) \cap disk IN
  /\ d \in disk
  /\ Restructured /\ Changed(gone)
  /\ \/ /\ how = "removed"
        /\ \E s \in Upward({x \in gone : Told(x)}) : Tell(EventOfEach(how, s), lost)
     \/ how = "renamed" /\ Tell(Report(how, d), lost)
  /\ disk' = disk \ gone
  /\ watches' = watches \ gone
  /\ skipped' = skipped \ gone

\* A library is removed from or added to the catalog.
RegisterRoots(rs) ==
  /\ rs # lib /\ Restructured
  /\ lib' = rs
  /\ UNCHANGED <<disk, stale, kernel, roots, handed, live, watchSet, queue, debouncer, reqs, loop,
                 degraded, noted, missed>>

-----------------------------------------------------------------------------
(***************************************************************************)
(* The watched folders.                                                    *)
(***************************************************************************)
\* addTree over a set of folders: each one that is there, until the cap or the kernel's
\* own limit stops the walk part way.  A folder that the source refuses for another
\* reason is passed by and the walk goes on below it; a folder that cannot be read hides
\* those below it.
AddTree(ds, have, lost) ==
  \E new \in SUBSET (ds \cap disk) :
    /\ MaxWatchDirs > 0 => Cardinality(have \cup new) <= MaxWatchDirs \/ new \subseteq have
    /\ armed' = have \cup new
    /\ watches' = (watches \ lost) \cup new
    /\ \/ (degraded \/ new # ds \cap disk) /\ degraded' = TRUE /\ skipped' = {}
       \/ ~degraded /\ skipped' = (skipped \ ds) \cup ((ds \cap disk) \ watches') /\ UNCHANGED degraded

\* drop: a folder and the watched ones below it, by way of the watched ones between.
Dropped(d) == {x \in armed \cap Below(d) : x = d \/ Parent[x] \in armed \cup {d}}

\* runLive and serveLive up to its loops.  With every root out of reach no watch
\* failed: a later tick arms what is back.
StartLive ==
  /\ live = "off" /\ loop.at # "stopped"
  /\ \/ /\ live' = "ended" /\ degraded' = TRUE
        /\ UNCHANGED watchSet
     \/ /\ live' = "on"
        /\ heldRoots' = roots
        /\ AddTree(Reach(roots), {}, {})
        /\ armed' = {} => roots \cap disk = {}
  /\ UNCHANGED <<world, stale, kernel, roots, handed, queue, debouncer, reqs, loop, noted, missed>>

\* follow: roots that left the set are released, and those not held are armed.  One
\* out of reach is armed on a later tick.
Follow ==
  LET set == handed.roots
      gone == UNION {Dropped(r) : r \in heldRoots \ set}
      new == {r \in set : r \notin armed \ gone} IN
  /\ live = "on" /\ handed.set
  /\ AddTree(Reach(new \cap disk), armed \ gone, gone)
  /\ heldRoots' = set
  /\ handed' = NoSet
  /\ UNCHANGED <<world, stale, kernel, roots, live, queue, debouncer, reqs, loop, noted, missed>>

-----------------------------------------------------------------------------
(***************************************************************************)
(* The debouncer.  A stopped timer whose callback has begun still runs it. *)
(***************************************************************************)
Free == {t \in Timer : timers[t].at = "free"}

\* schedule of every folder of a set.
Schedule(ds) ==
  IF ds = {} THEN UNCHANGED debouncer
  ELSE \E new \in [ds -> Free] :
    /\ \A d, e \in ds : new[d] = new[e] => d = e
    /\ gen' = [d \in Dir |-> IF d \in ds THEN gen[d] + 1 ELSE gen[d]]
    /\ entry' = [d \in Dir |-> IF d \in ds THEN new[d] ELSE entry[d]]
    /\ timers' = [t \in Timer |->
         IF \E d \in ds : t = new[d] THEN LET d == CHOOSE x \in ds : t = new[x] IN
                                          [dir |-> d, gen |-> gen[d] + 1, at |-> "set"]
         ELSE IF timers[t].at = "set" /\ timers[t].dir \in ds /\ entry[timers[t].dir] = t THEN NoTimer
         ELSE timers[t]]

\* The settle window of a timer passes.
Fire(t) ==
  /\ timers[t].at = "set"
  /\ timers' = [timers EXCEPT ![t].at = "fired"]
  /\ UNCHANGED <<world, stale, kernel, roots, handed, live, watchSet, queue, gen, entry, reqs, loop,
                 degraded, noted, missed>>

\* The callback is of the folder's generation.
Latest(t) == gen[timers[t].dir] = timers[t].gen

\* Mutant: a callback that is not the newest clears the generation as well.
CallbackClears(t) ==
  LET d == timers[t].dir IN
  /\ timers[t].at = "fired"
  /\ gen' = [gen EXCEPT ![d] = 0]
  /\ entry' = [entry EXCEPT ![d] = 0]
  /\ timers' = [timers EXCEPT ![t] =
       IF live = "on" /\ Latest(t) /\ RootOf(d) \in roots THEN [@ EXCEPT !.at = "send"] ELSE NoTimer]
  /\ UNCHANGED <<world, stale, kernel, roots, handed, live, watchSet, queue, reqs, loop, degraded, noted,
                 missed>>

\* The callback takes the lock.  An event outside every watched root is dropped.
Callback(t) ==
  LET d == timers[t].dir
      latest == live = "on" /\ Latest(t) IN
  /\ timers[t].at = "fired"
  /\ gen' = IF latest THEN [gen EXCEPT ![d] = 0] ELSE gen
  /\ entry' = IF latest THEN [entry EXCEPT ![d] = 0] ELSE entry
  /\ timers' = [timers EXCEPT ![t] =
       IF latest /\ RootOf(d) \in roots THEN [@ EXCEPT !.at = "send"] ELSE NoTimer]
  /\ UNCHANGED <<world, stale, kernel, roots, handed, live, watchSet, queue, reqs, loop, degraded, noted,
                 missed>>

\* The send on reqs: room, or the watch is over.
Send(t) ==
  /\ timers[t].at = "send"
  /\ \/ loop.at # "stopped" /\ Len(reqs) < ReqBuffer /\ reqs' = Append(reqs, timers[t].dir)
     \/ loop.at = "stopped" /\ UNCHANGED reqs
  /\ timers' = [timers EXCEPT ![t] = NoTimer]
  /\ UNCHANGED <<world, stale, kernel, roots, handed, live, watchSet, queue, gen, entry, loop, degraded,
                 noted, missed>>

-----------------------------------------------------------------------------
(***************************************************************************)
(* The read loop and the worker.                                           *)
(***************************************************************************)
\* settle: a removed folder is rescanned itself, a renamed one only forgotten.
Gone(ev) == ev[1] \in {"removed", "renamed"} /\ ev[2] \in armed
Rescans(ev) == IF ev[1] = "removed" /\ Gone(ev) THEN {ev[2]} ELSE {DirOf(ev)}

Settle(ev) ==
  /\ armed' = IF Gone(ev) THEN armed \ Dropped(ev[2]) ELSE armed
  /\ watches' = IF Gone(ev) THEN watches \ Dropped(ev[2]) ELSE watches
  /\ Schedule(Rescans(ev))

\* The worker is backed up: the rules that need no look at the disk, or the folder.
Overloaded(ev) ==
  /\ Settle(ev)
  /\ missed' = (missed \/ ev[1] # "file")

ReadEvent ==
  LET ev == Head(kernel) IN
  /\ live = "on" /\ kernel # <<>> /\ ev # Overflow
  /\ kernel' = Tail(kernel)
  /\ IF RootOf(ev[2]) \notin roots
     THEN missed' = (missed \/ ev[1] # "file") /\ UNCHANGED <<queue, armed, watches, debouncer, noted>>
     ELSE /\ noted' = noted \cup {d \in stale \cap Below(ev[2]) : \A n \in 2..Len(kernel) :
                        kernel[n] # Overflow /\ d \notin Below(kernel[n][2])}
          /\ IF Len(queue) < EventBuffer
             THEN queue' = Append(queue, ev) /\ UNCHANGED <<armed, watches, debouncer, missed>>
             ELSE Overloaded(ev) /\ UNCHANGED queue
  /\ UNCHANGED <<world, stale, roots, handed, live, heldRoots, skipped, reqs, loop, degraded>>

\* Lost events nothing can name: every root is rescanned.
ReadOverflow ==
  /\ live = "on" /\ kernel # <<>> /\ Head(kernel) = Overflow
  /\ kernel' = Tail(kernel)
  /\ Schedule(roots)
  /\ noted' = noted \cup {d \in stale \cap Reach(roots) : \A n \in 2..Len(kernel) :
                 kernel[n] # Overflow /\ d \notin Below(kernel[n][2])}
  /\ UNCHANGED <<world, stale, roots, handed, live, watchSet, queue, reqs, loop, degraded, missed>>

\* The event takes a watched folder for gone that stands anew, and none that waits
\* behind it will have the folder watched again.
Overtaken(ev) ==
  /\ Gone(ev)
  /\ \E d \in Dropped(ev[2]) \cap disk :
       /\ RootOf(d) \in armed \ Dropped(ev[2])
       /\ \A later \in Range(Tail(queue)) \cup Range(kernel) : later[1] = "created" => d \notin Below(later[2])

\* handleEvent, on the worker.
HandleEvent ==
  LET ev == Head(queue) IN
  /\ live = "on" /\ queue # <<>>
  /\ queue' = Tail(queue)
  /\ IF ev[1] = "created" /\ ev[2] \in disk
     THEN AddTree(Below(ev[2]), armed, {}) /\ Schedule({ev[2]}) /\ UNCHANGED missed
     ELSE Settle(ev) /\ missed' = (missed \/ Overtaken(ev)) /\ UNCHANGED <<degraded, skipped>>
  /\ UNCHANGED <<world, stale, kernel, roots, handed, live, heldRoots, reqs, loop, noted>>

\* serveLive returns: the source is closed and the debouncer stopped.
LiveEnds ==
  /\ live' = "ended"
  /\ gen' = [d \in Dir |-> 0] /\ entry' = [d \in Dir |-> 0]
  /\ timers' = [t \in Timer |-> IF timers[t].at = "set" THEN NoTimer ELSE timers[t]]
  /\ kernel' = <<>> /\ armed' = {} /\ watches' = {} /\ queue' = <<>> /\ noted' = {} /\ skipped' = {}
  /\ UNCHANGED <<world, stale, roots, handed, heldRoots, reqs, missed>>

\* The source ends on its own.
SourceEnds ==
  /\ live = "on" /\ LiveEnds
  /\ degraded' = TRUE
  /\ UNCHANGED loop

-----------------------------------------------------------------------------
(***************************************************************************)
(* The loop: one rescan at a time.                                         *)
(***************************************************************************)
\* rescanOne takes a request.
TakeReq ==
  /\ loop.at = "idle" /\ reqs # <<>>
  /\ reqs' = Tail(reqs)
  /\ loop' = [Idle EXCEPT !.at = "begin", !.dirs = Below(Head(reqs))]
  /\ UNCHANGED <<world, stale, kernel, roots, handed, live, watchSet, queue, debouncer, degraded, noted,
                 missed>>

\* A tick: refreshRoots, which keeps the set it has when the catalog cannot be read,
\* and rescanAll.
Tick(set) ==
  /\ loop.at = "idle"
  /\ roots' = set
  /\ noted' = noted \cap Reach(set)
  /\ loop' = [Idle EXCEPT !.at = "begin", !.dirs = Reach(set)]
  /\ UNCHANGED <<world, stale, kernel, live, watchSet, queue, debouncer, reqs, degraded, missed>>

TickFollows ==
  /\ Tick(lib)
  /\ handed' = IF live = "none" THEN NoSet ELSE [set |-> TRUE, roots |-> lib]

TickKeeps ==
  /\ Tick(roots)
  /\ UNCHANGED handed

\* The scan of what the loop took: from here on a change may go unseen.
Rescan ==
  /\ loop.at = "begin"
  /\ loop' = [loop EXCEPT !.at = "scan", !.again = {}]
  /\ UNCHANGED <<world, stale, kernel, roots, handed, live, watchSet, queue, debouncer, reqs, degraded,
                 noted, missed>>

\* Back in Run's select; the first time the live layer is started.
Return ==
  /\ loop.at = "scan"
  /\ loop' = Idle
  /\ live' = IF live = "none" THEN "off" ELSE live
  /\ noted' = noted \ loop.dirs
  /\ UNCHANGED <<world, kernel, roots, handed, watchSet, queue, debouncer, reqs, degraded, missed>>

\* A root that is out of reach is not scanned.
RescanDone ==
  /\ Return
  /\ stale' = stale \ {d \in loop.dirs \ loop.again : RootOf(d) \in disk}

\* The lease is held, or the scan fails: the next tick covers what this did not.
RescanSkipped ==
  /\ Return
  /\ UNCHANGED stale

\* The context ends, or a tick finds the one library it was to watch removed.
Cancel ==
  /\ loop.at = "idle"
  /\ loop' = [Idle EXCEPT !.at = "stopped"]
  /\ LiveEnds
  /\ UNCHANGED degraded

-----------------------------------------------------------------------------
WatchWorld ==
  \/ \E d \in Dir, lost \in BOOLEAN :
       \/ ChangeFile(d, lost)
       \/ \E ds \in {{d}, Below(d)} : CreateDir(d, ds, lost)
       \/ \E how \in {"removed", "renamed"} : LoseDir(d, how, lost)
  \/ \E rs \in SUBSET Root : RegisterRoots(rs)

WatchStep ==
  \/ StartLive \/ Follow \/ ReadEvent \/ ReadOverflow \/ HandleEvent
  \/ \E t \in Timer : Fire(t) \/ Callback(t) \/ Send(t)
  \/ TakeReq \/ Rescan

WatchNext ==
  \/ WatchWorld \/ WatchStep \/ SourceEnds
  \/ TickFollows \/ TickKeeps \/ RescanDone \/ RescanSkipped \/ Cancel

WatchSpec == WatchInit /\ [][WatchNext]_watchVars

-----------------------------------------------------------------------------
(***************************************************************************)
(* Properties                                                              *)
(***************************************************************************)
\* The queues keep to their room and the debouncer knows a timer for a folder or none.
WatchTypeOK ==
  /\ stale \subseteq Dir /\ noted \subseteq Dir /\ disk \subseteq Dir
  /\ armed \subseteq Dir /\ watches \subseteq Dir /\ skipped \subseteq Dir
  /\ kernel \in Seq(Event \cup {Overflow}) /\ queue \in Seq(Event) /\ reqs \in Seq(Dir)
  /\ Len(queue) <= EventBuffer /\ Len(reqs) <= ReqBuffer
  /\ gen \in [Dir -> Nat] /\ entry \in [Dir -> 0..MaxTimers]
  /\ timers \in [Timer -> [dir : Dir, gen : Nat, at : {"free", "set", "fired", "send"}]]

\* A timer, or the callback of one, will have a folder rescanned.
Carried(d) == \E t \in Timer :
  /\ d \in Below(timers[t].dir)
  /\ timers[t].at = "send" \/ (timers[t].at \in {"set", "fired"} /\ Latest(t))

\* Between the read of an event and a rescan that covers its folder something is
\* always on the way there: no burst, no full queue and no late callback of a stopped
\* timer, whose generation a restart of the count may have given out again, loses it.
EventsKept == \A d \in noted :
  \/ \E ev \in Range(queue) : d \in Below(ev[2])
  \/ Carried(d)
  \/ \E r \in Range(reqs) : d \in Below(r)
  \/ d \in loop.dirs

\* A walk passed the folder by, or one above it.
PassedBy(d) == \E s \in skipped : d \in Below(s)

\* "Mark degraded so this is not a SILENT partial coverage": with nothing in flight, a
\* watcher that does not say degraded watches every folder of the roots it holds, but
\* for what an overflow, an overloaded worker, a root gone for a tick or an event handled
\* too late kept from it, and for what a walk passed by: that is logged, if at all.
NotSilent ==
  /\ live = "on" /\ ~degraded /\ ~missed /\ kernel = <<>> /\ queue = <<>>
  => \A d \in disk : RootOf(d) \in armed => d \in watches \/ PassedBy(d)

\* The three together.
WatchSafe == WatchTypeOK /\ EventsKept /\ NotSilent

\* A change under a registered root that is there reaches the catalog whatever the live
\* layer lost: the scheduled rescans are the mechanism.
Swept == \A d \in Dir :
  (d \in stale /\ RootOf(d) \in lib \cap disk) ~> (d \notin stale \/ RootOf(d) \notin lib \cap disk \/ loop.at = "stopped")

\* A stopped watcher leaves no callback waiting on a loop that no longer reads.
CallbacksEnd == (loop.at = "stopped") ~> [](\A t \in Timer : timers[t].at = "free")
=============================================================================
