------------------------------ MODULE PidPath ------------------------------
(***************************************************************************)
(* pidpath.Cache: item locations cached and dropped by a poll of the       *)
(* change feed, with lookups from any number of goroutines racing the      *)
(* poll, the writers and a restore of the catalog.                         *)
(*                                                                         *)
(* The cache is built by New over a library that writes and reopens        *)
(* ("shared") or over a read-only one ("lent"), or by Open with a          *)
(* read-only handle of its own ("own").                                    *)
(***************************************************************************)
EXTENDS ChangeFeed

CONSTANTS
  Thread,      \* goroutines that look items up
  MaxEntries,
  Kinds        \* kinds of cache: "shared", "lent", "own"

ASSUME PidPathAssumption ==
  /\ MaxEntries \in Nat \ {0}
  /\ Kinds \subseteq {"shared", "lent", "own"}

VARIABLES
  kind,      \* the kind of this cache
  lib,       \* the catalog file its handle has open, as an index of cats
  entries,   \* cached locations: a function of the cached items
  byFile,    \* file -> cached items that resolve through it
  cursor,    \* sinceSeq and dataVer; gen is history, the catalog the seq is of
  replaced,  \* lookups are refused: the file was replaced under the handle
  poll,      \* the poll cycle under pollMu
  look,      \* thread -> its lookup
  missed     \* history: a poll read on in a new catalog without a sign of it

cacheVars == <<lib, entries, byFile, cursor, replaced>>
vars == <<feedVars, cacheVars, kind, poll, look, missed>>

PollAt(at) == [at |-> at, lib |-> 0, seq |-> 0, ver |-> <<0, 0>>, page |-> <<>>, gen |-> 0]
NoPoll == PollAt("idle")
LookAt(at, batch, items) ==
  [at |-> at, batch |-> batch, items |-> items, lib |-> 0, got |-> <<>>, same |-> FALSE]
NoLook == LookAt("idle", FALSE, {})

\* A library that writes reads whatever catalog it reopened last; a read-only one
\* keeps reading the file it opened.
Reads(g) == IF kind = "shared" THEN Current ELSE g

\* A read-only handle's DataVersion compares the file at the path with its own.
FileReplaced(g) == kind # "shared" /\ g # Current

Init ==
  /\ FeedInit
  /\ kind \in Kinds
  /\ lib = 1
  /\ entries = <<>> /\ byFile = [f \in File |-> {}]
  /\ cursor = [seq |-> 0, ver |-> <<0, 0>>, gen |-> 0]
  /\ replaced = FALSE
  /\ poll = PollAt("init")
  /\ look = [t \in Thread |-> NoLook]
  /\ missed = FALSE

-----------------------------------------------------------------------------
(***************************************************************************)
(* The cache maps.                                                         *)
(***************************************************************************)
\* insertLocked of every item of a set; the outgoing entry's index goes first.
Insert(is, got) ==
  /\ entries' = [i \in DOMAIN entries \cup is |-> IF i \in is THEN got[i] ELSE entries[i]]
  /\ byFile' = [f \in File |->
       (byFile[f] \ {i \in is \cap DOMAIN entries : entries[i].file = f})
         \cup {i \in is : got[i].file = f}]

\* dropLocked of every item of a set.
Without(is) == [i \in DOMAIN entries \ is |-> entries[i]]

\* Mutant: a dropped entry stays in the index.
UnindexedNot(is) == byFile

\* unindexLocked.
Unindexed(is) == [f \in File |-> byFile[f] \ {i \in is \cap DOMAIN entries : entries[i].file = f}]

Drop(is) ==
  /\ entries' = Without(is)
  /\ byFile' = Unindexed(is)

\* invalGen++: no lookup under way may cache what it got.  The counter is only ever
\* compared with a lookup's snapshot, so the lookup keeps whether it moved.
Bumped == [t \in Thread |-> [look[t] EXCEPT !.same = FALSE]]

-----------------------------------------------------------------------------
(***************************************************************************)
(* Locate, LocateMany and Relocate.  A hit changes nothing the properties  *)
(* tell apart: which entry is oldest is left open below.                   *)
(***************************************************************************)
Looks(t, at) == look[t].at = at

\* New and Open have returned.
Started == poll.at \notin {"init", "tail"}

\* Locate and LocateMany find misses; replacedErr lets them on.
Lookup(t, batch, is) ==
  /\ Started /\ Looks(t, "idle") /\ ~replaced
  /\ look' = [look EXCEPT ![t] = LookAt("asked", batch, is)]
  /\ UNCHANGED <<feedVars, cacheVars, kind, poll, missed>>

Locate(t, i) == i \notin DOMAIN entries /\ Lookup(t, FALSE, {i})

LocateMany(t, is) == is \cap DOMAIN entries = {} /\ Lookup(t, TRUE, is)

\* Relocate drops, lets mu go, and looks up.
Relocate(t, i) ==
  /\ Started /\ Looks(t, "idle")
  /\ Drop({i})
  /\ look' = [look EXCEPT ![t] = LookAt("dropped", FALSE, {i})]
  /\ UNCHANGED <<feedVars, lib, cursor, replaced, kind, poll, missed>>

RelocateLooksUp(t) ==
  /\ Looks(t, "dropped")
  /\ look' = [look EXCEPT ![t] = IF replaced THEN NoLook ELSE LookAt("asked", FALSE, look[t].items)]
  /\ UNCHANGED <<feedVars, cacheVars, kind, poll, missed>>

\* generation: the snapshot of invalGen.
Generation(t) ==
  /\ Looks(t, "asked")
  /\ look' = [look EXCEPT ![t] = [at |-> "asking", batch |-> look[t].batch, items |-> look[t].items,
       lib |-> lib, got |-> <<>>, same |-> TRUE]]
  /\ UNCHANGED <<feedVars, cacheVars, kind, poll, missed>>

\* Get and GetMany, one query over the handle catalog() gave some time since.
Get(t) ==
  /\ Looks(t, "asking")
  /\ \E g \in {look[t].lib, lib} :
       look' = [look EXCEPT ![t] = [at |-> "got", batch |-> look[t].batch, items |-> look[t].items,
         lib |-> 0, got |-> [i \in look[t].items |-> Loc(cats[Reads(g)], i)], same |-> look[t].same]]
  /\ UNCHANGED <<feedVars, cacheVars, kind, poll, missed>>

\* A query that is cancelled, times out or meets a closed handle.
GetFails(t) ==
  /\ Looks(t, "asking")
  /\ look' = [look EXCEPT ![t] = NoLook]
  /\ UNCHANGED <<feedVars, cacheVars, kind, poll, missed>>

\* Mutant: a result is cached whatever was invalidated since.
RacedNever(t) == FALSE

\* invalGen moved since the snapshot.
Raced(t) == ~look[t].same

\* store: at capacity a new item pushes another one out.
Store(t) ==
  /\ Looks(t, "got") /\ ~look[t].batch
  /\ LET is == look[t].items
         full == is \cap DOMAIN entries = {} /\ Cardinality(DOMAIN entries) >= MaxEntries IN
     IF Raced(t) THEN UNCHANGED <<entries, byFile>>
     ELSE IF ~full THEN Insert(is, look[t].got)
     ELSE \E old \in DOMAIN entries :
       /\ entries' = [i \in (DOMAIN entries \ {old}) \cup is |-> IF i \in is THEN look[t].got[i] ELSE entries[i]]
       /\ byFile' = [f \in File |-> Unindexed({old})[f] \cup {i \in is : look[t].got[i].file = f}]
  /\ look' = [look EXCEPT ![t] = NoLook]
  /\ UNCHANGED <<feedVars, lib, cursor, replaced, kind, poll, missed>>

\* storeBatch: what is cached is replaced, and new items come in while there is room.
StoreBatch(t) ==
  /\ Looks(t, "got") /\ look[t].batch
  /\ LET room == MaxEntries - Cardinality(DOMAIN entries)
         new == look[t].items \ DOMAIN entries IN
     IF Raced(t) THEN UNCHANGED <<entries, byFile>>
     ELSE \E in \in SUBSET new :
       /\ Cardinality(in) = IF room < Cardinality(new) THEN room ELSE Cardinality(new)
       /\ Insert(in \cup (look[t].items \cap DOMAIN entries), look[t].got)
  /\ look' = [look EXCEPT ![t] = NoLook]
  /\ UNCHANGED <<feedVars, lib, cursor, replaced, kind, poll, missed>>

-----------------------------------------------------------------------------
(***************************************************************************)
(* Poll, one cycle at a time under pollMu, and the constructors' prime.    *)
(***************************************************************************)
Polls(at) == poll.at = at

\* prime reads the version and then the tail.
InitCursor ==
  /\ Polls("init")
  /\ poll' = [at |-> "tail", lib |-> lib, seq |-> 0, ver |-> Version(Reads(lib)), page |-> <<>>, gen |-> 0]
  /\ UNCHANGED <<feedVars, cacheVars, kind, look, missed>>

InitTail ==
  /\ Polls("tail")
  /\ cursor' = [seq |-> LatestChangeSeq(cats[Reads(lib)]), ver |-> poll.ver, gen |-> Reads(lib)]
  /\ poll' = NoPoll
  /\ UNCHANGED <<feedVars, lib, entries, byFile, replaced, kind, look, missed>>

\* DataVersion: moved, or the file was replaced under a read-only handle.
PollStarts ==
  /\ Polls("idle") /\ ~FileReplaced(lib)
  /\ Version(Reads(lib)) # cursor.ver
  /\ poll' = [at |-> "pull", lib |-> lib, seq |-> cursor.seq, ver |-> Version(Reads(lib)),
                page |-> <<>>, gen |-> cursor.gen]
  /\ UNCHANGED <<feedVars, cacheVars, kind, look, missed>>

PollFindsReplaced ==
  /\ Polls("idle") /\ FileReplaced(lib)
  /\ poll' = PollAt("replaced")
  /\ UNCHANGED <<feedVars, cacheVars, kind, look, missed>>

\* A poll that goes on in another catalog than its position is of, with no
\* "catalog" row ahead of it.
Unsigned(g) ==
  /\ g # poll.gen /\ ~owed
  /\ \A n \in 1..LatestChangeSeq(cats[g]) : n > poll.seq => cats[g].rows[n] # <<"catalog">>

\* Changes(seq): a page, no rows, or CodeNotFound.
Pull ==
  LET g == Reads(poll.lib) IN
  /\ Polls("pull")
  /\ \/ /\ Behind(cats[g], poll.seq)
        /\ poll' = [poll EXCEPT !.at = "behind"]
        /\ UNCHANGED missed
     \/ /\ ~Behind(cats[g], poll.seq)
        /\ missed' = (missed \/ Unsigned(g))
        /\ poll' = [at |-> IF poll.seq = LatestChangeSeq(cats[g]) THEN "save" ELSE "apply",
             lib |-> poll.lib, seq |-> PageEnd(cats[g], poll.seq), ver |-> poll.ver,
             page |-> SubSeq(cats[g].rows, PageStart(cats[g], poll.seq), PageEnd(cats[g], poll.seq)), gen |-> g]
  /\ UNCHANGED <<feedVars, cacheVars, kind, look>>

\* The cached items a page's rows name.
Named(page) == {i \in DOMAIN entries : \E r \in Range(page) :
  \/ r = <<"item", i>> \/ r \in {<<"library">>, <<"catalog">>}
  \/ \E f \in File : r = <<"file", f>> /\ i \in byFile[f]}

\* invalidate, under one hold of mu.
Invalidate ==
  /\ Polls("apply")
  /\ Drop(Named(poll.page))
  /\ look' = IF Range(poll.page) \subseteq {<<"other">>} THEN look ELSE Bumped
  /\ poll' = [at |-> "pull", lib |-> poll.lib, seq |-> poll.seq, ver |-> poll.ver, page |-> <<>>, gen |-> poll.gen]
  /\ UNCHANGED <<feedVars, lib, cursor, replaced, kind, missed>>

\* CodeNotFound: the new tail, then everything goes.
PollTail ==
  LET g == Reads(poll.lib) IN
  /\ Polls("behind")
  /\ poll' = [at |-> "reload", lib |-> poll.lib, seq |-> LatestChangeSeq(cats[g]), ver |-> poll.ver, page |-> <<>>, gen |-> g]
  /\ UNCHANGED <<feedVars, cacheVars, kind, look, missed>>

DropAll ==
  /\ Drop(DOMAIN entries)
  /\ look' = Bumped

Reload ==
  /\ Polls("reload")
  /\ DropAll
  /\ poll' = [poll EXCEPT !.at = "save"]
  /\ UNCHANGED <<feedVars, lib, cursor, replaced, kind, missed>>

PollSaves ==
  /\ Polls("save")
  /\ cursor' = [seq |-> poll.seq, ver |-> poll.ver, gen |-> poll.gen]
  /\ poll' = NoPoll
  /\ UNCHANGED <<feedVars, lib, entries, byFile, replaced, kind, look, missed>>

\* A query or the reopen fails: the cursor stays where the last whole poll left it.
PollFails ==
  /\ poll.at \in {"pull", "behind", "reopen", "prime"}
  /\ poll' = NoPoll
  /\ UNCHANGED <<feedVars, cacheVars, kind, look, missed>>

\* fileReplaced: everything goes and lookups are refused; a cache with a handle of
\* its own opens the file that is there now, primes, swaps handles and starts over.
RefuseLookups ==
  /\ Polls("replaced")
  /\ DropAll
  /\ replaced' = TRUE
  /\ poll' = IF kind = "own" THEN PollAt("reopen") ELSE NoPoll
  /\ UNCHANGED <<feedVars, lib, cursor, kind, missed>>

Reopen ==
  /\ Polls("reopen")
  /\ poll' = [at |-> "prime", lib |-> Current, seq |-> 0, ver |-> Version(Current), page |-> <<>>, gen |-> 0]
  /\ UNCHANGED <<feedVars, cacheVars, kind, look, missed>>

Prime ==
  /\ Polls("prime")
  /\ poll' = [at |-> "swap", lib |-> poll.lib, seq |-> LatestChangeSeq(cats[poll.lib]), ver |-> poll.ver,
                page |-> <<>>, gen |-> poll.lib]
  /\ UNCHANGED <<feedVars, cacheVars, kind, look, missed>>

Swap ==
  /\ Polls("swap")
  /\ lib' = poll.lib
  /\ poll' = [poll EXCEPT !.at = "resume"]
  /\ UNCHANGED <<feedVars, entries, byFile, cursor, replaced, kind, look, missed>>

Resume ==
  /\ Polls("resume")
  /\ DropAll
  /\ cursor' = [seq |-> poll.seq, ver |-> poll.ver, gen |-> poll.gen]
  /\ replaced' = FALSE
  /\ poll' = NoPoll
  /\ UNCHANGED <<feedVars, lib, kind, missed>>

-----------------------------------------------------------------------------
LookStep(t) ==
  \/ RelocateLooksUp(t) \/ Generation(t) \/ Get(t) \/ GetFails(t) \/ Store(t) \/ StoreBatch(t)

PollStep ==
  \/ InitCursor \/ InitTail \/ PollStarts \/ PollFindsReplaced \/ Pull \/ Invalidate \/ PollTail
  \/ Reload \/ PollSaves \/ RefuseLookups \/ Reopen \/ Prime \/ Swap \/ Resume

Next ==
  \/ /\ Write \/ Restore(kind # "shared") \/ NoteReopened
     /\ UNCHANGED <<cacheVars, kind, poll, look, missed>>
  \/ \E t \in Thread, i \in Item : Locate(t, i) \/ Relocate(t, i)
  \/ \E t \in Thread, is \in SUBSET Item \ {{}} : LocateMany(t, is)
  \/ \E t \in Thread : LookStep(t)
  \/ PollStep \/ PollFails

Spec == Init /\ [][Next]_vars

-----------------------------------------------------------------------------
(***************************************************************************)
(* Properties                                                              *)
(***************************************************************************)
\* byFile is the inverse of entries ("a single-value index would let that file's
\* change row invalidate only the sibling stored last"), within the bound.
IndexExact ==
  /\ \A f \in File : byFile[f] = {i \in DOMAIN entries : entries[i].file = f}
  /\ Cardinality(DOMAIN entries) <= MaxEntries

\* A poll that finds the version it knows has nothing left to drop: every cached
\* location is the one the catalog has now.
Fresh ==
  /\ Polls("idle") /\ ~owed /\ ~FileReplaced(lib) /\ cursor.ver = Version(Reads(lib))
  => \A i \in DOMAIN entries : entries[i] = Loc(Cat, i)

\* The same, but for a restored log that reached the cursor before a poll looked.
FreshUnlessMissed == ~missed => Fresh

\* The index from files to items is exactly what the entries say, and an answer is
\* the newest one unless a change was missed (pidpath.go).
PathsHold == IndexExact /\ FreshUnlessMissed
=============================================================================
