---------------------------- MODULE ChangeFeed -----------------------------
(***************************************************************************)
(* The catalog as a consumer of its change feed sees it: where each item's *)
(* audio lives, and the change_log every write transaction appends to.  A  *)
(* restore puts another catalog file in its place: a backup of an earlier  *)
(* state, its log with it.                                                 *)
(***************************************************************************)
EXTENDS Integers, Sequences, SequencesExt, FiniteSets

CONSTANTS
  Item,
  File,
  NoFile,      \* the file of an item that has none
  PageRows,    \* rows ChangesSince returns at most (1000 in the code)
  Keeps,       \* numbers of rows a prune keeps
  MaxTick,     \* bound: writes of items and files in all
  MaxRestores  \* bound: restores

ASSUME FeedAssumption ==
  /\ IsFiniteSet(Item) /\ NoFile \notin File
  /\ PageRows \in Nat \ {0}
  /\ Keeps \subseteq Nat \ {0}
  /\ MaxTick \in Nat /\ MaxRestores \in Nat

VARIABLES
  cats,    \* the catalog files in the order they came to the path; the last is there now
  backup,  \* the catalog a backup holds
  owed,    \* a reopen found the catalog replaced and has not run NoteReopened yet
  tick     \* writes of items and files so far

feedVars == <<cats, backup, owed, tick>>

Rows == {<<"item", i>> : i \in Item} \cup {<<"file", f>> : f \in File}
          \cup {<<"library">>, <<"catalog">>, <<"other">>}

\* A file's path is the transaction that wrote it: no two writes give the same.
Location == [file : File \cup {NoFile}, path : Nat]

NoCatalog == [rows |-> <<>>, oldest |-> 0, file |-> [i \in Item |-> NoFile],
              path |-> [f \in File |-> 0], ver |-> 0]
Current == Len(cats)
Cat == cats[Current]
Loc(c, i) == [file |-> c.file[i], path |-> IF c.file[i] = NoFile THEN 0 ELSE c.path[c.file[i]]]

\* Seqs run from 1 and a prune keeps the head.
LatestChangeSeq(c) == Len(c.rows)

\* DataVersion's counter moves when a transaction is committed and when the
\* store is reopened; it is compared for equality alone.
Version(g) == <<g, cats[g].ver>>

\* ChangesSince: the page after seq, or CodeNotFound for a cursor past the head or
\* behind the oldest row a prune left.
Behind(c, seq) ==
  \/ seq > LatestChangeSeq(c)
  \/ seq > 0 /\ seq < LatestChangeSeq(c) /\ seq + 1 < c.oldest

PageStart(c, seq) == IF seq + 1 < c.oldest THEN c.oldest ELSE seq + 1
PageEnd(c, seq) ==
  LET end == PageStart(c, seq) + PageRows - 1 IN IF end < LatestChangeSeq(c) THEN end ELSE LatestChangeSeq(c)

-----------------------------------------------------------------------------
(***************************************************************************)
(* Writes.  The first row of a log is the default user's, and at first the *)
(* items are the tracks of one file.                                       *)
(***************************************************************************)
FeedInit ==
  /\ \E f \in File :
       cats = <<[rows |-> <<<<"other">>>>, oldest |-> 1, file |-> [i \in Item |-> f],
                 path |-> [g \in File |-> 0], ver |-> 0]>>
  /\ backup = cats[1]
  /\ owed = FALSE
  /\ tick = 0

Commit(rows, file, path) ==
  /\ tick < MaxTick
  /\ tick' = tick + 1
  /\ cats' = [cats EXCEPT ![Current] =
       [rows |-> Cat.rows \o rows, oldest |-> Cat.oldest, file |-> file, path |-> path, ver |-> Cat.ver + 1]]
  /\ UNCHANGED <<backup, owed>>

CommitMove(f) == Commit(<<<<"file", f>>>>, Cat.file, [Cat.path EXCEPT ![f] = tick + 1])

\* A scan finds an item's audio in another file.
PutItem(i, f) == Commit(<<<<"file", f>>, <<"item", i>>>>, [Cat.file EXCEPT ![i] = f], Cat.path)

\* Items a file was the only one of lose it.
DetachFile(f) ==
  LET is == {i \in Item : Cat.file[i] = f} IN
  Commit(SetToSeq({<<"item", i>> : i \in is}) \o <<<<"file", f>>>>,
         [i \in Item |-> IF i \in is THEN NoFile ELSE Cat.file[i]], Cat.path)

\* A relocate rewrites every path under the root and logs one row for all.
RelocateLibrary == Commit(<<<<"library">>>>, Cat.file, [f \in File |-> tick + 1])

WriteOther == Commit(<<<<"other">>>>, Cat.file, Cat.path)

\* The newest keep rows stay.  One that deletes nothing changes nothing.
PruneChangeLog(keep) ==
  LET oldest == LatestChangeSeq(Cat) - keep + 1 IN
  /\ oldest > Cat.oldest
  /\ cats' = [cats EXCEPT ![Current] =
       [rows |-> Cat.rows, oldest |-> oldest, file |-> Cat.file, path |-> Cat.path, ver |-> Cat.ver + 1]]
  /\ UNCHANGED <<backup, owed, tick>>

\* Nothing reads a backup made after the last restore.
Backup ==
  /\ Current <= MaxRestores
  /\ backup' = Cat
  /\ UNCHANGED <<cats, owed, tick>>

\* The backup's file comes to the path, and the server that handed the old one
\* over reopens what is there.  The old file is gone unless a reader has it open.
Restore(held) ==
  /\ Current <= MaxRestores /\ ~owed
  /\ cats' = Append(IF held THEN cats ELSE [cats EXCEPT ![Current] = NoCatalog], backup)
  /\ owed' = TRUE
  /\ UNCHANGED <<backup, tick>>

\* The last step of that reopen.
NoteReopened ==
  /\ owed
  /\ owed' = FALSE
  /\ cats' = [cats EXCEPT ![Current] =
       [rows |-> Append(Cat.rows, <<"catalog">>), oldest |-> Cat.oldest, file |-> Cat.file,
        path |-> Cat.path, ver |-> Cat.ver + 1]]
  /\ UNCHANGED <<backup, tick>>

Write ==
  \/ \E f \in File : CommitMove(f) \/ DetachFile(f)
  \/ \E i \in Item, f \in File : PutItem(i, f)
  \/ RelocateLibrary \/ WriteOther
  \/ \E keep \in Keeps : PruneChangeLog(keep)
  \/ Backup
=============================================================================
