--------------------------- MODULE PidPathProofs ---------------------------
(***************************************************************************)
(* Proofs about the pid-path cache, for any number of items, files and     *)
(* goroutines, any page size and any number of writes and restores: the    *)
(* index from files to items is exact, and a cached location that the      *)
(* catalog no longer has is always one a row still to be read names.       *)
(***************************************************************************)
EXTENDS PidPath, FiniteSetTheorems, TLAPS

(***************************************************************************)
(* The inductive invariant.                                                *)
(***************************************************************************)
Catalog == [rows : Seq(Rows), oldest : Nat, file : [Item -> File \cup {NoFile}],
            path : [File -> Nat], ver : Nat]

PollStates == {"init", "tail", "idle", "pull", "apply", "save", "behind", "reload",
               "replaced", "reopen", "prime", "swap", "resume"}
LookStates == {"idle", "dropped", "asked", "asking", "got"}

\* States of a poll that reads the feed of the handle it started with.
Reading == {"pull", "apply", "save", "behind", "reload"}

PathTypes ==
  /\ cats \in Seq(Catalog) /\ Current >= 1 /\ backup \in Catalog
  /\ owed \in BOOLEAN /\ tick \in Nat /\ missed \in BOOLEAN /\ replaced \in BOOLEAN
  /\ kind \in {"shared", "lent", "own"} /\ lib \in 1..Current
  /\ cursor \in [seq : Nat, ver : Nat \X Nat, gen : 0..Current]
  /\ poll \in [at : PollStates, lib : 0..Current, seq : Nat, ver : Nat \X Nat,
               page : Seq(Rows), gen : 0..Current]

LookShape(r) ==
  /\ r = [at |-> r.at, batch |-> r.batch, items |-> r.items, lib |-> r.lib, got |-> r.got, same |-> r.same]
  /\ r.at \in LookStates /\ r.batch \in BOOLEAN /\ r.same \in BOOLEAN
  /\ r.items \in SUBSET Item /\ r.lib \in 0..Current
  /\ r.at = "dropped" => ~r.batch
  /\ ~r.batch /\ r.at # "idle" => \E i \in Item : r.items = {i}

Shapes ==
  /\ DOMAIN entries \subseteq Item /\ DOMAIN byFile = File
  /\ look = [t \in Thread |-> look[t]] /\ \A t \in Thread : LookShape(look[t])

\* The log of a catalog someone can read has a head, and a prune left it.
GoodLog(c) == 1 <= c.oldest /\ c.oldest <= Len(c.rows)
LogsGood ==
  /\ GoodLog(backup)
  /\ \A g \in 1..Current : kind # "shared" \/ g = Current => GoodLog(cats[g])

\* Positions in the catalog that is there now lie in its log.
CursorPlaced ==
  /\ poll.at \notin {"init", "tail"} => cursor.seq >= 1
  /\ cursor.gen = Current => 1 <= cursor.seq /\ cursor.seq <= Len(Cat.rows)
  /\ kind # "shared" /\ poll.at \notin {"init", "tail", "resume"} => cursor.gen = lib
  /\ poll.at \in {"replaced", "reopen", "prime", "swap", "resume"} => kind # "shared" /\ cursor.gen < Current

PollPlaced ==
  /\ poll.at \in Reading \cup {"swap", "resume"} => poll.seq >= 1
  /\ poll.at \in Reading \cup {"swap", "resume"} /\ poll.gen = Current => poll.seq <= Len(Cat.rows)
  /\ poll.at \in Reading \cup {"tail"} => poll.lib = lib /\ (kind # "shared" => poll.ver[1] = lib)
  /\ poll.at \in Reading /\ kind # "shared" => poll.gen = lib
  /\ poll.at \in {"prime", "swap", "resume"} => poll.lib >= 1 /\ poll.ver[1] = poll.lib
  /\ poll.at \in {"swap", "resume"} => poll.gen = poll.lib
  /\ poll.at = "resume" => poll.lib = lib

\* A version that is still the catalog's was read with the log as long as it is.
NotAhead(ver) == ver[1] <= Current /\ (ver[1] = Current => ver[2] <= Cat.ver)
Whole(ver, seq, gen) == ver = Version(Current) => gen = Current /\ seq = Len(Cat.rows)
VersionsTell ==
  /\ NotAhead(cursor.ver) /\ NotAhead(poll.ver)
  /\ Whole(cursor.ver, cursor.seq, cursor.gen)
  /\ poll.at \in {"save", "reload", "swap", "resume"} => Whole(poll.ver, poll.seq, poll.gen)

\* What a lookup may use: before New returns there is none, and one that no
\* invalidation met asks the handle the cache has.
LooksPlaced ==
  /\ ~Started => DOMAIN entries = {} /\ \A t \in Thread : look[t].at = "idle"
  /\ \A t \in Thread : look[t].at = "asking" =>
       look[t].lib >= 1 /\ (look[t].same => look[t].lib = lib \/ poll.at = "resume")

\* A row that drops an item cached at v.
Names(r, v, i) ==
  \/ r = <<"item", i>> \/ r \in {<<"library">>, <<"catalog">>}
  \/ \E f \in File : r = <<"file", f>> /\ v.file = f

\* v is where the catalog has the item, or a row after seq says that it is not, or
\* a prune took that row and the position with it.
Told(c, v, i, seq) ==
  \/ v = Loc(c, i)
  \/ Behind(c, seq)
  \/ \E n \in (seq + 1)..Len(c.rows) : n >= c.oldest /\ Names(c.rows[n], v, i)

Live == ~FileReplaced(lib) /\ ~owed /\ ~missed
CursorTold(v, i) == Live /\ cursor.gen = Current => Told(Cat, v, i, cursor.seq)
PollTold(v, i) ==
  Live /\ poll.gen = Current /\ poll.at \in {"pull", "apply", "save"} =>
    \/ Told(Cat, v, i, poll.seq)
    \/ poll.at = "apply" /\ \E r \in Range(poll.page) : Names(r, v, i)

AllTold ==
  /\ \A i \in DOMAIN entries : CursorTold(entries[i], i) /\ PollTold(entries[i], i)
  /\ \A t \in Thread : look[t].at = "got" /\ look[t].same =>
       \A i \in look[t].items : CursorTold(look[t].got[i], i) /\ PollTold(look[t].got[i], i)

PathInv ==
  /\ PathTypes /\ Shapes /\ LogsGood /\ CursorPlaced /\ PollPlaced /\ VersionsTell
  /\ LooksPlaced /\ AllTold /\ IndexExact

-----------------------------------------------------------------------------
(***************************************************************************)
(* Sequences and catalogs.                                                 *)
(***************************************************************************)
\* A sequence that lists a finite set lists every element of it.
LEMMA SetToSeqLists ==
  ASSUME NEW S, IsFiniteSet(S)
  PROVE  /\ SetToSeq(S) \in Seq(S)
         /\ \A x \in S : \E m \in 1..Len(SetToSeq(S)) : SetToSeq(S)[m] = x
<1> DEFINE n == Cardinality(S)
<1>1. n \in Nat /\ ExistsBijection(1..n, S)
  BY FS_CardinalityType
<1>2. PICK b \in Bijection(1..n, S) : TRUE
  BY <1>1 DEF ExistsBijection
<1>3. b \in [1..n -> S] /\ IsInjective(b)
  BY <1>2 DEF Bijection, Injection, IsInjective
<1> DEFINE f == SetToSeq(S)
<1>4. f \in [1..n -> S] /\ IsInjective(f)
  BY <1>3 DEF SetToSeq
<1>5. f \in Injection(1..n, S)
  BY <1>4 DEF Injection, IsInjective
<1>6. IsFiniteSet(1..n) /\ Cardinality(1..n) = n
  BY <1>1, FS_Interval
<1>7. f \in Surjection(1..n, S)
  BY <1>5, <1>6, FS_Injection
<1>8. f \in Seq(S) /\ Len(f) = n
  BY <1>1, <1>4
<1>9. \A x \in S : \E m \in 1..n : f[m] = x
  BY <1>7 DEF Surjection
<1> QED
  BY <1>8, <1>9

\* What a log is after rows were appended to it.
LEMMA AppendedLog ==
  ASSUME NEW rows \in Seq(Rows), NEW s \in Seq(Rows)
  PROVE  /\ rows \o s \in Seq(Rows) /\ Len(rows \o s) = Len(rows) + Len(s)
         /\ \A n \in 1..Len(rows) : (rows \o s)[n] = rows[n]
         /\ \A m \in 1..Len(s) : (rows \o s)[Len(rows) + m] = s[m]
OBVIOUS

\* The catalog after a write: its log goes on, and where the audio of an item
\* moved, a new row says so to whoever cached the old place.
Grown(c, d) ==
  /\ Len(c.rows) <= Len(d.rows) /\ c.oldest <= d.oldest /\ d.oldest <= Len(d.rows)
  /\ \A n \in 1..Len(c.rows) : d.rows[n] = c.rows[n]
  /\ \A i \in Item : Loc(d, i) = Loc(c, i)
       \/ \E n \in (Len(c.rows) + 1)..Len(d.rows) : n >= d.oldest /\ Names(d.rows[n], Loc(c, i), i)

\* Told outlives a write.
LEMMA ToldGrown ==
  ASSUME NEW c \in Catalog, NEW d \in Catalog, NEW seq \in Nat, NEW v, NEW i \in Item,
         GoodLog(c), Grown(c, d), 1 <= seq, seq <= Len(c.rows), Told(c, v, i, seq)
  PROVE  Told(d, v, i, seq)
<1> USE DEF Catalog, GoodLog, Grown
<1>1. CASE v = Loc(c, i)
  <2>1. CASE Loc(d, i) = Loc(c, i)
    BY <1>1, <2>1 DEF Told
  <2>2. CASE \E n \in (Len(c.rows) + 1)..Len(d.rows) : n >= d.oldest /\ Names(d.rows[n], Loc(c, i), i)
    <3>1. PICK n \in (Len(c.rows) + 1)..Len(d.rows) : n >= d.oldest /\ Names(d.rows[n], Loc(c, i), i)
      BY <2>2
    <3>2. n \in (seq + 1)..Len(d.rows)
      BY <3>1
    <3> QED
      BY <1>1, <3>1, <3>2 DEF Told
  <2> QED
    BY <2>1, <2>2
<1>2. CASE Behind(c, seq)
  <2>1. Behind(d, seq)
    BY <1>2 DEF Behind, LatestChangeSeq
  <2> QED
    BY <2>1 DEF Told
<1>3. CASE \E n \in (seq + 1)..Len(c.rows) : n >= c.oldest /\ Names(c.rows[n], v, i)
  <2>1. PICK n \in (seq + 1)..Len(c.rows) : n >= c.oldest /\ Names(c.rows[n], v, i)
    BY <1>3
  <2>2. n \in (seq + 1)..Len(d.rows) /\ d.rows[n] = c.rows[n]
    BY <2>1
  <2>3. CASE n >= d.oldest
    BY <2>1, <2>2, <2>3 DEF Told
  <2>4. CASE n < d.oldest
    <3>1. Behind(d, seq)
      BY <2>1, <2>4 DEF Behind, LatestChangeSeq
    <3> QED
      BY <3>1 DEF Told
  <2> QED
    BY <2>1, <2>3, <2>4
<1> QED
  BY <1>1, <1>2, <1>3 DEF Told

\* A write that leaves catalog d at the path, with a version of its own.
Wrote(d) ==
  /\ d \in Catalog /\ Grown(Cat, d) /\ d.ver > Cat.ver
  /\ cats' = [cats EXCEPT ![Current] = d]

Writes == \E d \in Catalog : Wrote(d)

LEMMA CatIsGood ==
  ASSUME PathTypes, LogsGood
  PROVE  Current \in Nat \ {0} /\ Cat \in Catalog /\ GoodLog(Cat)
BY DEF PathTypes, LogsGood, Current, Cat

\* A transaction whose rows name every item it moves.
LEMMA CommitWrites ==
  ASSUME PathTypes, LogsGood, NEW s \in Seq(Rows), NEW file \in [Item -> File \cup {NoFile}],
         NEW path \in [File -> Nat], Commit(s, file, path),
         \A i \in Item :
           \/ [file |-> file[i], path |-> IF file[i] = NoFile THEN 0 ELSE path[file[i]]] = Loc(Cat, i)
           \/ \E m \in 1..Len(s) : Names(s[m], Loc(Cat, i), i)
  PROVE  Writes /\ UNCHANGED <<backup, owed>> /\ tick' \in Nat
<1> DEFINE d == [rows |-> Cat.rows \o s, oldest |-> Cat.oldest, file |-> file, path |-> path, ver |-> Cat.ver + 1]
<1>1. Cat \in Catalog /\ GoodLog(Cat)
  BY CatIsGood
<1>2. /\ Cat.rows \in Seq(Rows) /\ Cat.rows \o s \in Seq(Rows)
      /\ Len(Cat.rows \o s) = Len(Cat.rows) + Len(s)
      /\ \A n \in 1..Len(Cat.rows) : (Cat.rows \o s)[n] = Cat.rows[n]
      /\ \A m \in 1..Len(s) : (Cat.rows \o s)[Len(Cat.rows) + m] = s[m]
  BY <1>1, AppendedLog DEF Catalog
<1>3. d \in Catalog /\ d.rows = Cat.rows \o s /\ d.oldest = Cat.oldest /\ d.file = file
        /\ d.path = path /\ d.ver = Cat.ver + 1
  BY <1>1, <1>2 DEF Catalog
<1>4. ASSUME NEW i \in Item
      PROVE  Loc(d, i) = Loc(Cat, i)
               \/ \E n \in (Len(Cat.rows) + 1)..Len(d.rows) : n >= d.oldest /\ Names(d.rows[n], Loc(Cat, i), i)
  <2>1. CASE [file |-> file[i], path |-> IF file[i] = NoFile THEN 0 ELSE path[file[i]]] = Loc(Cat, i)
    <3>1. Loc(d, i) = [file |-> d.file[i], path |-> IF d.file[i] = NoFile THEN 0 ELSE d.path[d.file[i]]]
      BY DEF Loc
    <3> QED
      BY <2>1, <3>1, <1>3
  <2>2. CASE \E m \in 1..Len(s) : Names(s[m], Loc(Cat, i), i)
    <3>1. PICK m \in 1..Len(s) : Names(s[m], Loc(Cat, i), i)
      BY <2>2
    <3> DEFINE n == Len(Cat.rows) + m
    <3>2. n \in (Len(Cat.rows) + 1)..Len(d.rows) /\ n >= d.oldest /\ d.rows[n] = s[m]
      BY <1>1, <1>2, <1>3 DEF GoodLog, Catalog
    <3> QED
      BY <3>1, <3>2
  <2> QED
    BY <2>1, <2>2
<1>5. Grown(Cat, d)
  <2>1. Len(Cat.rows) <= Len(d.rows) /\ Cat.oldest <= d.oldest /\ d.oldest <= Len(d.rows)
    BY <1>1, <1>2, <1>3 DEF GoodLog, Catalog
  <2>2. \A n \in 1..Len(Cat.rows) : d.rows[n] = Cat.rows[n]
    BY <1>2, <1>3
  <2> QED
    BY <2>1, <2>2, <1>4 DEF Grown
<1>6. cats' = [cats EXCEPT ![Current] = d] /\ tick' = tick + 1 /\ UNCHANGED <<backup, owed>>
  BY DEF Commit, Cat
<1>7. d.ver > Cat.ver
  BY <1>1, <1>3 DEF Catalog
<1>8. Wrote(d)
  BY <1>3, <1>5, <1>6, <1>7 DEF Wrote
<1> QED
  BY <1>3, <1>6, <1>8, SMTT(20) DEF Writes, PathTypes

\* Every write but a backup is one, and leaves the backup.
LEMMA WriteWrites ==
  ASSUME PathTypes, LogsGood, Write
  PROVE  /\ owed' = owed /\ tick' \in Nat
         /\ \/ Writes /\ UNCHANGED backup
            \/ backup' = Cat /\ UNCHANGED cats
<1>1. Cat \in Catalog /\ GoodLog(Cat) /\ Current \in Nat \ {0}
  BY CatIsGood
<1>2. tick \in Nat
  BY DEF PathTypes
<1>3. ASSUME NEW f \in File, CommitMove(f)
      PROVE  Writes /\ UNCHANGED <<backup, owed>> /\ tick' \in Nat
  <2> DEFINE s == <<<<"file", f>>>>
             path == [Cat.path EXCEPT ![f] = tick + 1]
  <2>1. s \in Seq(Rows) /\ Len(s) = 1 /\ s[1] = <<"file", f>>
    BY DEF Rows
  <2>2. Cat.file \in [Item -> File \cup {NoFile}] /\ path \in [File -> Nat]
    BY <1>1, <1>2 DEF Catalog
  <2>3. ASSUME NEW i \in Item
        PROVE  \/ [file |-> Cat.file[i], path |-> IF Cat.file[i] = NoFile THEN 0 ELSE path[Cat.file[i]]] = Loc(Cat, i)
               \/ \E m \in 1..Len(s) : Names(s[m], Loc(Cat, i), i)
    <3>1. CASE Cat.file[i] = f
      <4>1. Names(s[1], Loc(Cat, i), i)
        BY <3>1, <2>1 DEF Names, Loc
      <4> QED
        BY <4>1, <2>1
    <3>2. CASE Cat.file[i] # f
      BY <3>2, <1>1 DEF Loc, Catalog
    <3> QED
      BY <3>1, <3>2
  <2>4. Commit(s, Cat.file, path)
    BY <1>3 DEF CommitMove
  <2> QED
    BY <2>1, <2>2, <2>3, <2>4, CommitWrites
<1>4. ASSUME NEW i \in Item, NEW f \in File, PutItem(i, f)
      PROVE  Writes /\ UNCHANGED <<backup, owed>> /\ tick' \in Nat
  <2> DEFINE s == <<<<"file", f>>, <<"item", i>>>>
             file == [Cat.file EXCEPT ![i] = f]
  <2>1. s \in Seq(Rows) /\ Len(s) = 2 /\ s[2] = <<"item", i>>
    BY DEF Rows
  <2>2. file \in [Item -> File \cup {NoFile}] /\ Cat.path \in [File -> Nat]
    BY <1>1 DEF Catalog
  <2>3. ASSUME NEW j \in Item
        PROVE  \/ [file |-> file[j], path |-> IF file[j] = NoFile THEN 0 ELSE Cat.path[file[j]]] = Loc(Cat, j)
               \/ \E m \in 1..Len(s) : Names(s[m], Loc(Cat, j), j)
    <3>1. CASE i = j
      <4>1. Names(s[2], Loc(Cat, j), j)
        BY <3>1, <2>1 DEF Names
      <4> QED
        BY <4>1, <2>1
    <3>2. CASE i # j
      BY <3>2, <1>1 DEF Loc, Catalog
    <3> QED
      BY <3>1, <3>2
  <2>4. Commit(s, file, Cat.path)
    BY <1>4 DEF PutItem
  <2> QED
    BY <2>1, <2>2, <2>3, <2>4, CommitWrites
<1>5. ASSUME NEW f \in File, DetachFile(f)
      PROVE  Writes /\ UNCHANGED <<backup, owed>> /\ tick' \in Nat
  <2> DEFINE is == {i \in Item : Cat.file[i] = f}
             named == {<<"item", i>> : i \in is}
             r == SetToSeq(named)
             s == r \o <<<<"file", f>>>>
             file == [i \in Item |-> IF i \in is THEN NoFile ELSE Cat.file[i]]
  <2>1. IsFiniteSet(is)
    BY FeedAssumption, FS_Subset
  <2>2. IsFiniteSet(named)
    <3> DEFINE g == [i \in is |-> <<"item", i>>]
    <3>1. g \in Surjection(is, named)
      BY DEF Surjection
    <3> QED
      BY <2>1, <3>1, FS_Surjection
  <2>3. r \in Seq(named) /\ \A x \in named : \E m \in 1..Len(r) : r[m] = x
    <3> HIDE DEF named
    <3> QED
      BY <2>2, SetToSeqLists
  <2>4. named \subseteq Rows
    BY DEF Rows
  <2>5. r \in Seq(Rows) /\ <<<<"file", f>>>> \in Seq(Rows)
    <3>1. r \in Seq(Rows)
      BY <2>3, <2>4
    <3> QED
      BY <3>1 DEF Rows
  <2>6. s \in Seq(Rows) /\ Len(s) = Len(r) + 1 /\ \A m \in 1..Len(r) : s[m] = r[m]
    <3> HIDE DEF r
    <3> QED
      BY <2>5, AppendedLog
  <2>7. file \in [Item -> File \cup {NoFile}] /\ Cat.path \in [File -> Nat]
    BY <1>1 DEF Catalog
  <2>8. ASSUME NEW j \in Item
        PROVE  \/ [file |-> file[j], path |-> IF file[j] = NoFile THEN 0 ELSE Cat.path[file[j]]] = Loc(Cat, j)
               \/ \E m \in 1..Len(s) : Names(s[m], Loc(Cat, j), j)
    <3>1. CASE j \in is
      <4>1. PICK m \in 1..Len(r) : r[m] = <<"item", j>>
        BY <2>3, <3>1
      <4>2. m \in 1..Len(s) /\ s[m] = <<"item", j>>
        BY <4>1, <2>5, <2>6
      <4>3. Names(s[m], Loc(Cat, j), j)
        BY <4>2 DEF Names
      <4> QED
        BY <4>2, <4>3
    <3>2. CASE j \notin is
      BY <3>2 DEF Loc
    <3> QED
      BY <3>1, <3>2
  <2>9. Commit(s, file, Cat.path)
    BY <1>5 DEF DetachFile
  <2> HIDE DEF s, file
  <2> QED
    BY <2>6, <2>7, <2>8, <2>9, CommitWrites
<1>6. ASSUME RelocateLibrary
      PROVE  Writes /\ UNCHANGED <<backup, owed>> /\ tick' \in Nat
  <2> DEFINE s == <<<<"library">>>>
             path == [f \in File |-> tick + 1]
  <2>1. s \in Seq(Rows) /\ Len(s) = 1 /\ s[1] = <<"library">>
    BY DEF Rows
  <2>2. Cat.file \in [Item -> File \cup {NoFile}] /\ path \in [File -> Nat]
    BY <1>1, <1>2 DEF Catalog
  <2>3. \A i \in Item : \E m \in 1..Len(s) : Names(s[m], Loc(Cat, i), i)
    BY <2>1 DEF Names
  <2>4. Commit(s, Cat.file, path)
    BY <1>6 DEF RelocateLibrary
  <2> QED
    BY <2>1, <2>2, <2>3, <2>4, CommitWrites
<1>7. ASSUME WriteOther
      PROVE  Writes /\ UNCHANGED <<backup, owed>> /\ tick' \in Nat
  <2> DEFINE s == <<<<"other">>>>
  <2>1. s \in Seq(Rows)
    BY DEF Rows
  <2>2. Cat.file \in [Item -> File \cup {NoFile}] /\ Cat.path \in [File -> Nat]
    BY <1>1 DEF Catalog
  <2>3. \A i \in Item : [file |-> Cat.file[i], path |-> IF Cat.file[i] = NoFile THEN 0 ELSE Cat.path[Cat.file[i]]] = Loc(Cat, i)
    BY DEF Loc
  <2>4. Commit(s, Cat.file, Cat.path)
    BY <1>7 DEF WriteOther
  <2> QED
    BY <2>1, <2>2, <2>3, <2>4, CommitWrites
<1>8. ASSUME NEW keep \in Keeps, PruneChangeLog(keep)
      PROVE  Writes /\ UNCHANGED <<backup, owed, tick>>
  <2> DEFINE oldest == LatestChangeSeq(Cat) - keep + 1
             d == [rows |-> Cat.rows, oldest |-> oldest, file |-> Cat.file, path |-> Cat.path, ver |-> Cat.ver + 1]
  <2>1. oldest > Cat.oldest /\ cats' = [cats EXCEPT ![Current] = d] /\ UNCHANGED <<backup, owed, tick>>
    BY <1>8 DEF PruneChangeLog, Cat
  <2>2. oldest \in Nat /\ oldest <= Len(Cat.rows)
    BY <1>1, <2>1, FeedAssumption DEF LatestChangeSeq, Catalog, GoodLog
  <2>3. d \in Catalog /\ d.rows = Cat.rows /\ d.oldest = oldest /\ d.file = Cat.file /\ d.path = Cat.path /\ d.ver = Cat.ver + 1
    BY <1>1, <2>2 DEF Catalog
  <2>4. Grown(Cat, d)
    <3>1. \A i \in Item : Loc(d, i) = Loc(Cat, i)
      BY <2>3 DEF Loc
    <3>2. Len(Cat.rows) <= Len(d.rows) /\ Cat.oldest <= d.oldest /\ d.oldest <= Len(d.rows)
      BY <1>1, <2>1, <2>2, <2>3 DEF GoodLog, Catalog
    <3> QED
      BY <2>3, <3>1, <3>2 DEF Grown
  <2>5. d.ver > Cat.ver
    BY <1>1, <2>3 DEF Catalog
  <2> HIDE DEF d
  <2> QED
    BY <2>1, <2>3, <2>4, <2>5 DEF Writes, Wrote
<1>9. ASSUME Backup
      PROVE  backup' = Cat /\ UNCHANGED <<cats, owed, tick>>
  BY <1>9 DEF Backup
<1> QED
  BY <1>2, <1>3, <1>4, <1>5, <1>6, <1>7, <1>8, <1>9 DEF Write

-----------------------------------------------------------------------------
(***************************************************************************)
(* The steps of the catalog: nothing of the cache moves.                   *)
(***************************************************************************)
cacheSide == <<cacheVars, kind, poll, look, missed>>

\* What a step of the catalog that leaves the cache keeps of it.
LEMMA CacheSideKept ==
  ASSUME Shapes, IndexExact, Current' >= Current, Current \in Nat, Current' \in Nat, UNCHANGED cacheSide
  PROVE  Shapes' /\ IndexExact' /\ Current' = Len(cats')
<1> USE DEF cacheSide, cacheVars
<1>1. IndexExact'
  BY DEF IndexExact
<1>2. Shapes'
  BY DEF Shapes, LookShape
<1> QED
  BY <1>1, <1>2 DEF Current

LEMMA WriteKeepsInv ==
  ASSUME PathInv, Write, UNCHANGED cacheSide
  PROVE  PathInv'
<1> USE DEF PathInv
<1>1. Cat \in Catalog /\ GoodLog(Cat) /\ Current \in Nat \ {0}
  BY CatIsGood
<1>2. /\ owed' = owed /\ tick' \in Nat
      /\ \/ Writes /\ UNCHANGED backup
         \/ backup' = Cat /\ UNCHANGED cats
  BY WriteWrites
<1>3. /\ lib' = lib /\ entries' = entries /\ byFile' = byFile /\ cursor' = cursor /\ replaced' = replaced
      /\ kind' = kind /\ poll' = poll /\ look' = look /\ missed' = missed
  BY DEF cacheSide, cacheVars
<1>4. CASE backup' = Cat /\ UNCHANGED cats
  <2>1. Current' = Current /\ Cat' = Cat /\ \A g : Version(g)' = Version(g)
    BY <1>4 DEF Current, Cat, Version
  <2>2. PathTypes'
    BY <1>1, <1>2, <1>3, <1>4, <2>1 DEF PathTypes
  <2>3. Shapes' /\ IndexExact'
    BY <1>1, <2>1, CacheSideKept
  <2>4. LogsGood'
    BY <1>1, <1>3, <1>4, <2>1 DEF LogsGood
  <2>5. CursorPlaced' /\ PollPlaced' /\ LooksPlaced'
    BY <1>3, <2>1 DEF CursorPlaced, PollPlaced, LooksPlaced, Started, Polls
  <2>6. VersionsTell'
    BY <1>3, <2>1 DEF VersionsTell, NotAhead, Whole
  <2>7. \A v, i : (CursorTold(v, i)' <=> CursorTold(v, i)) /\ (PollTold(v, i)' <=> PollTold(v, i))
    BY <1>2, <1>3, <2>1 DEF CursorTold, PollTold, Live, FileReplaced
  <2>8. AllTold'
    BY <1>3, <2>7 DEF AllTold
  <2> QED
    BY <2>2, <2>3, <2>4, <2>5, <2>6, <2>8
<1>5. CASE Writes /\ UNCHANGED backup
  <2>1. PICK d \in Catalog : Wrote(d)
    BY <1>5 DEF Writes
  <2>2. /\ cats' \in Seq(Catalog) /\ Current' = Current /\ Cat' = d
        /\ \A g \in 1..Current : g # Current => cats'[g] = cats[g]
    BY <1>1, <2>1 DEF Wrote, PathTypes, Current, Cat
  <2>3. Grown(Cat, d) /\ d.ver > Cat.ver /\ d.ver \in Nat /\ Cat.ver \in Nat
    BY <1>1, <2>1 DEF Wrote, Catalog
  <2>4. GoodLog(d) /\ Len(Cat.rows) <= Len(d.rows) /\ Len(Cat.rows) \in Nat /\ Len(d.rows) \in Nat
    BY <1>1, <2>1, <2>3 DEF Grown, GoodLog, Catalog
  <2>5. PathTypes'
    BY <1>2, <1>3, <1>5, <2>2 DEF PathTypes
  <2>6. Shapes' /\ IndexExact'
    BY <1>1, <2>2, CacheSideKept
  <2>7. LogsGood'
    <3>1. GoodLog(backup')
      BY <1>5 DEF LogsGood
    <3>2. ASSUME NEW g \in 1..Current', kind # "shared" \/ g = Current'
          PROVE  GoodLog(cats'[g])
      <4>1. CASE g = Current
        BY <2>2, <2>4, <4>1 DEF Cat
      <4>2. CASE g # Current
        BY <2>2, <3>2, <4>2 DEF LogsGood
      <4> QED
        BY <4>1, <4>2
    <3> QED
      BY <1>3, <3>1, <3>2 DEF LogsGood
  <2>8. CursorPlaced'
    BY <1>3, <2>2, <2>4, SMTT(20) DEF CursorPlaced, PathTypes
  <2>9. PollPlaced'
    BY <1>3, <2>2, <2>4, SMTT(20) DEF PollPlaced, PathTypes
  <2>10. LooksPlaced'
    BY <1>3 DEF LooksPlaced, Started, Polls
  <2>11. VersionsTell'
    <3>1. Version(Current)' = <<Current, d.ver>> /\ Version(Current) = <<Current, Cat.ver>>
      BY <2>2 DEF Version, Cat
    <3>2. ASSUME NEW ver \in Nat \X Nat, NotAhead(ver)
          PROVE  /\ ver[1] <= Current' /\ (ver[1] = Current' => ver[2] <= Cat'.ver)
                 /\ ver # Version(Current)'
      BY <2>2, <2>3, <3>1, <3>2 DEF NotAhead
    <3>3. cursor.ver \in Nat \X Nat /\ poll.ver \in Nat \X Nat
      BY DEF PathTypes
    <3> QED
      BY <1>3, <3>2, <3>3 DEF VersionsTell, NotAhead, Whole
  <2>12. Live' = Live
    BY <1>2, <1>3, <2>2 DEF Live, FileReplaced
  <2>13. ASSUME NEW v, NEW i \in Item, CursorTold(v, i)
         PROVE  CursorTold(v, i)'
    <3> SUFFICES ASSUME Live, cursor.gen = Current
                 PROVE  Told(d, v, i, cursor.seq)
      BY <1>3, <2>2, <2>12 DEF CursorTold
    <3>1. Told(Cat, v, i, cursor.seq)
      BY <2>13 DEF CursorTold
    <3>2. 1 <= cursor.seq /\ cursor.seq <= Len(Cat.rows) /\ cursor.seq \in Nat
      BY DEF CursorPlaced, PathTypes
    <3> QED
      BY <1>1, <2>3, <3>1, <3>2, ToldGrown
  <2>14. ASSUME NEW v, NEW i \in Item, PollTold(v, i)
         PROVE  PollTold(v, i)'
    <3> SUFFICES ASSUME Live, poll.gen = Current, poll.at \in {"pull", "apply", "save"}
                 PROVE  \/ Told(d, v, i, poll.seq)
                        \/ poll.at = "apply" /\ \E r \in Range(poll.page) : Names(r, v, i)
      BY <1>3, <2>2, <2>12 DEF PollTold
    <3>1. 1 <= poll.seq /\ poll.seq <= Len(Cat.rows) /\ poll.seq \in Nat
      BY DEF PollPlaced, PathTypes, Reading
    <3>2. \/ Told(Cat, v, i, poll.seq)
          \/ poll.at = "apply" /\ \E r \in Range(poll.page) : Names(r, v, i)
      BY <2>14 DEF PollTold
    <3> QED
      BY <1>1, <2>3, <3>1, <3>2, ToldGrown
  <2>15. AllTold'
    BY <1>3, <2>13, <2>14 DEF AllTold, Shapes, LookShape
  <2> QED
    BY <2>5, <2>6, <2>7, <2>8, <2>9, <2>10, <2>11, <2>15
<1> QED
  BY <1>2, <1>4, <1>5

\* After a restore no position is in the catalog that is there.
LEMMA RestoreKeepsInv ==
  ASSUME PathInv, Restore(kind # "shared"), UNCHANGED cacheSide
  PROVE  PathInv'
<1> USE DEF PathInv
<1>1. Cat \in Catalog /\ GoodLog(Cat) /\ Current \in Nat \ {0}
  BY CatIsGood
<1>2. /\ lib' = lib /\ entries' = entries /\ byFile' = byFile /\ cursor' = cursor /\ replaced' = replaced
      /\ kind' = kind /\ poll' = poll /\ look' = look /\ missed' = missed
  BY DEF cacheSide, cacheVars
<1>3. /\ cats' = Append(IF kind # "shared" THEN cats ELSE [cats EXCEPT ![Current] = NoCatalog], backup)
      /\ owed' = TRUE /\ backup' = backup /\ tick' = tick
  BY DEF Restore
<1>4. NoCatalog \in Catalog /\ backup \in Catalog /\ cats \in Seq(Catalog)
  BY SMTT(20) DEF NoCatalog, Catalog, PathTypes
<1>5. /\ cats' \in Seq(Catalog) /\ Current' = Current + 1 /\ cats'[Current'] = backup
      /\ kind # "shared" => \A g \in 1..Current : cats'[g] = cats[g]
  <2>1. CASE kind # "shared"
    BY <1>1, <1>3, <1>4, <2>1 DEF Current
  <2>2. CASE kind = "shared"
    <3> DEFINE c == [cats EXCEPT ![Current] = NoCatalog]
    <3>1. c \in Seq(Catalog) /\ Len(c) = Current
      BY <1>1, <1>4 DEF Current
    <3>2. cats' = Append(c, backup)
      BY <1>3, <2>2
    <3> HIDE DEF c
    <3> QED
      BY <1>1, <1>4, <2>2, <3>1, <3>2 DEF Current
  <2> QED
    BY <2>1, <2>2
<1>6. /\ cursor.gen \in 0..Current /\ poll.gen \in 0..Current /\ lib \in 1..Current
      /\ cursor.ver \in Nat \X Nat /\ poll.ver \in Nat \X Nat
  BY DEF PathTypes
<1>7. PathTypes'
  BY <1>1, <1>2, <1>3, <1>4, <1>5, <1>6, SMTT(20) DEF PathTypes
<1>8. Shapes' /\ IndexExact'
  BY <1>1, <1>5, CacheSideKept
<1>9. LogsGood'
  <2>1. GoodLog(backup)
    BY DEF LogsGood
  <2>2. ASSUME NEW g \in 1..Current', kind # "shared" \/ g = Current'
        PROVE  GoodLog(cats'[g])
    <3>1. CASE g = Current'
      BY <1>5, <2>1, <3>1
    <3>2. CASE g # Current'
      <4>1. kind # "shared" /\ g \in 1..Current
        BY <1>1, <1>5, <2>2, <3>2
      <4> QED
        BY <1>5, <4>1 DEF LogsGood
    <3> QED
      BY <3>1, <3>2
  <2> QED
    BY <1>2, <1>3, <2>1, <2>2 DEF LogsGood
<1>10. CursorPlaced'
  BY <1>1, <1>2, <1>5, <1>6 DEF CursorPlaced
<1>11. PollPlaced'
  BY <1>1, <1>2, <1>5, <1>6 DEF PollPlaced
<1>12. LooksPlaced'
  BY <1>2 DEF LooksPlaced, Started, Polls
<1>13. VersionsTell'
  <2>1. ASSUME NEW ver \in Nat \X Nat, NotAhead(ver)
        PROVE  ver[1] < Current' /\ ver # Version(Current)'
    BY <1>1, <1>5, <2>1 DEF NotAhead, Version
  <2> QED
    BY <1>1, <1>2, <1>5, <1>6, <2>1 DEF VersionsTell, NotAhead, Whole
<1>14. cursor.gen # Current' /\ poll.gen # Current'
  BY <1>1, <1>5, <1>6
<1>15. \A v, i : CursorTold(v, i)' /\ PollTold(v, i)'
  BY <1>2, <1>14 DEF CursorTold, PollTold
<1>16. AllTold'
  BY <1>15 DEF AllTold
<1> QED
  BY <1>7, <1>8, <1>9, <1>10, <1>11, <1>12, <1>13, <1>16

\* The row a reopen appends drops everything that was cached before it.
LEMMA NoteKeepsInv ==
  ASSUME PathInv, NoteReopened, UNCHANGED cacheSide
  PROVE  PathInv'
<1> USE DEF PathInv
<1>1. Cat \in Catalog /\ GoodLog(Cat) /\ Current \in Nat \ {0}
  BY CatIsGood
<1>2. /\ lib' = lib /\ entries' = entries /\ byFile' = byFile /\ cursor' = cursor /\ replaced' = replaced
      /\ kind' = kind /\ poll' = poll /\ look' = look /\ missed' = missed
  BY DEF cacheSide, cacheVars
<1> DEFINE d == [rows |-> Append(Cat.rows, <<"catalog">>), oldest |-> Cat.oldest, file |-> Cat.file,
                 path |-> Cat.path, ver |-> Cat.ver + 1]
<1>3. cats' = [cats EXCEPT ![Current] = d] /\ owed' = FALSE /\ backup' = backup /\ tick' = tick
  BY DEF NoteReopened
<1>4. <<"catalog">> \in Rows
  BY DEF Rows
<1>5. /\ d \in Catalog /\ Len(d.rows) = Len(Cat.rows) + 1 /\ d.rows[Len(Cat.rows) + 1] = <<"catalog">>
      /\ d.oldest = Cat.oldest /\ d.ver = Cat.ver + 1
  BY <1>1, <1>4 DEF Catalog
<1>6. Len(Cat.rows) \in Nat /\ Cat.ver \in Nat /\ Cat.oldest \in Nat /\ d.oldest <= Len(Cat.rows) /\ 1 <= d.oldest
  BY <1>1, <1>5 DEF Catalog, GoodLog
<1> HIDE DEF d
<1>7. /\ cats' \in Seq(Catalog) /\ Current' = Current /\ Cat' = d
      /\ \A g \in 1..Current : g # Current => cats'[g] = cats[g]
  BY <1>1, <1>3, <1>5 DEF PathTypes, Current, Cat
<1>8. PathTypes'
  BY <1>2, <1>3, <1>7 DEF PathTypes
<1>9. Shapes' /\ IndexExact'
  BY <1>1, <1>7, CacheSideKept
<1>10. LogsGood'
  <2>1. GoodLog(d)
    BY <1>5, <1>6 DEF GoodLog
  <2>2. ASSUME NEW g \in 1..Current', kind # "shared" \/ g = Current'
        PROVE  GoodLog(cats'[g])
    <3>1. CASE g = Current
      BY <1>7, <2>1, <3>1 DEF Cat
    <3>2. CASE g # Current
      BY <1>7, <2>2, <3>2 DEF LogsGood
    <3> QED
      BY <3>1, <3>2
  <2> QED
    BY <1>2, <1>3, <2>2 DEF LogsGood
<1>11. Current' = Current /\ Len(Cat'.rows) = Len(Cat.rows) + 1
  BY <1>5, <1>7
<1>12. CursorPlaced' /\ PollPlaced'
  <2>1. CursorPlaced'
    BY <1>2, <1>6, <1>11, SMTT(20) DEF CursorPlaced, PathTypes
  <2>2. PollPlaced'
    BY <1>2, <1>6, <1>11, SMTT(20) DEF PollPlaced, PathTypes
  <2> QED
    BY <2>1, <2>2
<1>13. LooksPlaced'
  BY <1>2 DEF LooksPlaced, Started, Polls
<1>14. VersionsTell'
  <2>1. Version(Current)' = <<Current, d.ver>>
    BY <1>7 DEF Version, Cat
  <2>2. ASSUME NEW ver \in Nat \X Nat, NotAhead(ver)
        PROVE  /\ ver[1] <= Current' /\ (ver[1] = Current' => ver[2] <= Cat'.ver)
               /\ ver # Version(Current)'
    BY <1>5, <1>6, <1>7, <2>1, <2>2 DEF NotAhead
  <2>3. cursor.ver \in Nat \X Nat /\ poll.ver \in Nat \X Nat
    BY DEF PathTypes
  <2> QED
    BY <1>2, <2>2, <2>3 DEF VersionsTell, NotAhead, Whole
<1>15. ASSUME NEW v, NEW i, NEW seq \in Nat, seq <= Len(Cat.rows)
       PROVE  Told(d, v, i, seq)
  <2> DEFINE n == Len(Cat.rows) + 1
  <2>1. n \in (seq + 1)..Len(d.rows) /\ n >= d.oldest
    BY <1>5, <1>6, <1>15
  <2>2. Names(d.rows[n], v, i)
    BY <1>5 DEF Names
  <2> QED
    BY <2>1, <2>2 DEF Told
<1>16. ASSUME NEW v, NEW i
       PROVE  CursorTold(v, i)' /\ PollTold(v, i)'
  <2>1. cursor.gen = Current => cursor.seq \in Nat /\ cursor.seq <= Len(Cat.rows)
    BY DEF CursorPlaced, PathTypes
  <2>2. poll.gen = Current /\ poll.at \in {"pull", "apply", "save"} =>
          poll.seq \in Nat /\ poll.seq <= Len(Cat.rows)
    BY DEF PollPlaced, PathTypes, Reading
  <2> QED
    BY <1>2, <1>7, <1>15, <2>1, <2>2 DEF CursorTold, PollTold
<1>17. AllTold'
  BY <1>16 DEF AllTold
<1> QED
  BY <1>8, <1>9, <1>10, <1>12, <1>13, <1>14, <1>17

-----------------------------------------------------------------------------
(***************************************************************************)
(* The cache maps.                                                         *)
(***************************************************************************)
\* byFile is what entries say.
Indexed == \A f \in File : byFile[f] = {i \in DOMAIN entries : entries[i].file = f}

LEMMA InsertIndexed ==
  ASSUME Indexed, NEW is, NEW got, Insert(is, got)
  PROVE  /\ DOMAIN entries' = DOMAIN entries \cup is /\ DOMAIN byFile' = File /\ Indexed'
         /\ \A i \in DOMAIN entries' : entries'[i] = IF i \in is THEN got[i] ELSE entries[i]
<1>1. /\ entries' = [i \in DOMAIN entries \cup is |-> IF i \in is THEN got[i] ELSE entries[i]]
      /\ byFile' = [f \in File |-> (byFile[f] \ {i \in is \cap DOMAIN entries : entries[i].file = f})
                                    \cup {i \in is : got[i].file = f}]
  BY DEF Insert
<1>2. /\ DOMAIN entries' = DOMAIN entries \cup is
      /\ \A i \in DOMAIN entries' : entries'[i] = IF i \in is THEN got[i] ELSE entries[i]
  BY <1>1
<1>3. ASSUME NEW f \in File
      PROVE  byFile'[f] = {i \in DOMAIN entries' : entries'[i].file = f}
  <2>1. byFile[f] = {i \in DOMAIN entries : entries[i].file = f}
    BY DEF Indexed
  <2>2. byFile'[f] = (byFile[f] \ {i \in is \cap DOMAIN entries : entries[i].file = f}) \cup {i \in is : got[i].file = f}
    BY <1>1
  <2> QED
    BY <1>2, <2>1, <2>2
<1> QED
  BY <1>1, <1>2, <1>3 DEF Indexed

LEMMA DropIndexed ==
  ASSUME Indexed, NEW is, Drop(is)
  PROVE  /\ DOMAIN entries' = DOMAIN entries \ is /\ DOMAIN byFile' = File /\ Indexed'
         /\ \A i \in DOMAIN entries' : entries'[i] = entries[i]
<1>1. /\ entries' = [i \in DOMAIN entries \ is |-> entries[i]]
      /\ byFile' = [f \in File |-> byFile[f] \ {i \in is \cap DOMAIN entries : entries[i].file = f}]
  BY DEF Drop, Without, Unindexed
<1>2. ASSUME NEW f \in File
      PROVE  byFile'[f] = {i \in DOMAIN entries' : entries'[i].file = f}
  <2>1. byFile[f] = {i \in DOMAIN entries : entries[i].file = f}
    BY DEF Indexed
  <2> QED
    BY <1>1, <2>1
<1> QED
  BY <1>1, <1>2 DEF Indexed

\* A cache that lost entries is within its bound.
LEMMA FewerFit ==
  ASSUME Shapes, IndexExact, DOMAIN entries' \subseteq DOMAIN entries
  PROVE  Cardinality(DOMAIN entries') <= MaxEntries
<1>1. IsFiniteSet(DOMAIN entries)
  BY FeedAssumption, FS_Subset DEF Shapes
<1>2. Cardinality(DOMAIN entries') <= Cardinality(DOMAIN entries) /\ Cardinality(DOMAIN entries) \in Nat
      /\ Cardinality(DOMAIN entries') \in Nat
  BY <1>1, FS_Subset, FS_CardinalityType
<1> QED
  BY <1>2, PidPathAssumption DEF IndexExact

-----------------------------------------------------------------------------
(***************************************************************************)
(* The steps of lookups.                                                   *)
(***************************************************************************)
\* What a lookup never touches.
pollSide == <<feedVars, lib, cursor, replaced, kind, poll, missed>>

LEMMA PollSideKept ==
  ASSUME PathInv, UNCHANGED pollSide
  PROVE  /\ PathTypes' /\ LogsGood' /\ CursorPlaced' /\ PollPlaced' /\ VersionsTell'
         /\ Current' = Current /\ Started' = Started /\ lib' = lib /\ poll' = poll
         /\ \A v, i : (CursorTold(v, i)' <=> CursorTold(v, i)) /\ (PollTold(v, i)' <=> PollTold(v, i))
<1> USE DEF pollSide, feedVars, PathInv
<1>1. Current' = Current /\ Cat' = Cat /\ Started' = Started /\ \A g : Version(g)' = Version(g)
  BY DEF Current, Cat, Started, Version, Polls
<1>2. PathTypes' /\ LogsGood'
  BY <1>1 DEF PathTypes, LogsGood
<1>3. CursorPlaced' /\ PollPlaced'
  BY <1>1 DEF CursorPlaced, PollPlaced
<1>4. VersionsTell'
  BY <1>1 DEF VersionsTell, NotAhead, Whole
<1>5. \A v, i : (CursorTold(v, i)' <=> CursorTold(v, i)) /\ (PollTold(v, i)' <=> PollTold(v, i))
  BY <1>1 DEF CursorTold, PollTold, Live, FileReplaced
<1> QED
  BY <1>1, <1>2, <1>3, <1>4, <1>5

BothTold(v, i) == CursorTold(v, i) /\ PollTold(v, i)

\* A step of thread t that leaves it as r, and the cache with what may be cached.
LEMMA LookMoves ==
  ASSUME PathInv, UNCHANGED pollSide, NEW t \in Thread, NEW r, LookShape(r),
         look' = [look EXCEPT ![t] = r],
         Started,
         r.at = "asking" => r.lib >= 1 /\ (r.same => r.lib = lib \/ poll.at = "resume"),
         r.at = "got" /\ r.same => \A i \in r.items : BothTold(r.got[i], i),
         DOMAIN entries' \subseteq Item, DOMAIN byFile' = File, IndexExact',
         \A i \in DOMAIN entries' : BothTold(entries'[i], i)
  PROVE  PathInv'
<1>1. /\ PathTypes' /\ LogsGood' /\ CursorPlaced' /\ PollPlaced' /\ VersionsTell'
      /\ Current' = Current /\ Started' = Started /\ lib' = lib /\ poll' = poll
      /\ \A v, i : (CursorTold(v, i)' <=> CursorTold(v, i)) /\ (PollTold(v, i)' <=> PollTold(v, i))
  BY PollSideKept
<1>2. look' = [u \in Thread |-> look'[u]] /\ look'[t] = r /\ \A u \in Thread : u # t => look'[u] = look[u]
  BY DEF PathInv, Shapes
<1>3. Shapes'
  BY <1>1, <1>2 DEF PathInv, Shapes, LookShape
<1>4. LooksPlaced'
  BY <1>1, <1>2 DEF PathInv, LooksPlaced
<1>5. AllTold'
  <2>1. \A i \in DOMAIN entries' : CursorTold(entries'[i], i) /\ PollTold(entries'[i], i)
    BY DEF BothTold
  <2>2. ASSUME NEW u \in Thread, look'[u].at = "got", look'[u].same, NEW i \in look'[u].items
        PROVE  CursorTold(look'[u].got[i], i) /\ PollTold(look'[u].got[i], i)
    BY <1>2, <2>2 DEF PathInv, AllTold, BothTold
  <2> QED
    BY <1>1, <2>1, <2>2 DEF AllTold
<1> QED
  BY <1>1, <1>3, <1>4, <1>5 DEF PathInv

\* The same of a step that leaves the cache alone.
LEMMA OnlyLookMoves ==
  ASSUME PathInv, UNCHANGED pollSide, UNCHANGED <<entries, byFile>>, NEW t \in Thread, NEW r, LookShape(r),
         look' = [look EXCEPT ![t] = r],
         Started,
         r.at = "asking" => r.lib >= 1 /\ (r.same => r.lib = lib \/ poll.at = "resume"),
         r.at = "got" /\ r.same => \A i \in r.items : BothTold(r.got[i], i)
  PROVE  PathInv'
<1>1. DOMAIN entries' \subseteq Item /\ DOMAIN byFile' = File
  BY DEF PathInv, Shapes
<1>2. IndexExact'
  BY DEF PathInv, IndexExact
<1>3. \A i \in DOMAIN entries' : BothTold(entries'[i], i)
  BY DEF PathInv, AllTold, BothTold
<1> QED
  BY <1>1, <1>2, <1>3, LookMoves

LEMMA LookupKeepsInv ==
  ASSUME PathInv, NEW t \in Thread, NEW batch \in BOOLEAN, NEW is \in SUBSET Item,
         ~batch => \E i \in Item : is = {i}, Lookup(t, batch, is)
  PROVE  PathInv'
<1> DEFINE r == LookAt("asked", batch, is)
<1>1. r.at = "asked" /\ LookShape(r)
  <2>1. Current \in Nat
    BY DEF PathInv, PathTypes, Current
  <2> QED
    BY <2>1 DEF LookAt, LookShape, LookStates
<1>2. /\ UNCHANGED pollSide /\ UNCHANGED <<entries, byFile>> /\ Started
      /\ look' = [look EXCEPT ![t] = r]
  BY DEF Lookup, pollSide, cacheVars
<1> HIDE DEF r
<1> QED
  BY <1>1, <1>2, OnlyLookMoves

LEMMA RelocateKeepsInv ==
  ASSUME PathInv, NEW t \in Thread, NEW i \in Item, Relocate(t, i)
  PROVE  PathInv'
<1> DEFINE r == LookAt("dropped", FALSE, {i})
<1>1. r.at = "dropped" /\ LookShape(r)
  <2>1. Current \in Nat
    BY DEF PathInv, PathTypes, Current
  <2> QED
    BY <2>1 DEF LookAt, LookShape, LookStates
<1>2. UNCHANGED pollSide /\ Started /\ look' = [look EXCEPT ![t] = r] /\ Drop({i})
  BY DEF Relocate, pollSide
<1>3. Indexed
  BY DEF PathInv, IndexExact, Indexed
<1>4. /\ DOMAIN entries' = DOMAIN entries \ {i} /\ DOMAIN byFile' = File /\ Indexed'
      /\ \A j \in DOMAIN entries' : entries'[j] = entries[j]
  BY <1>2, <1>3, DropIndexed
<1>5. IndexExact'
  BY <1>4, FewerFit DEF PathInv, IndexExact, Indexed
<1>6. \A j \in DOMAIN entries' : BothTold(entries'[j], j)
  BY <1>4 DEF PathInv, AllTold, BothTold
<1>7. DOMAIN entries' \subseteq Item
  BY <1>4 DEF PathInv, Shapes
<1> HIDE DEF r
<1> QED
  BY <1>1, <1>2, <1>4, <1>5, <1>6, <1>7, LookMoves

\* A lookup under way is one that started after New returned.
LEMMA LookUnderWay ==
  ASSUME PathInv, NEW t \in Thread, look[t].at # "idle"
  PROVE  /\ Started /\ LookShape(look[t]) /\ Current \in Nat \ {0} /\ lib \in 1..Current
         /\ look[t].at = "asking" => look[t].lib >= 1 /\ (look[t].same => look[t].lib = lib \/ poll.at = "resume")
         /\ look[t].at = "got" /\ look[t].same => \A i \in look[t].items : BothTold(look[t].got[i], i)
BY CatIsGood DEF PathInv, PathTypes, Shapes, LooksPlaced, AllTold, BothTold

LEMMA RelocateLooksUpKeepsInv ==
  ASSUME PathInv, NEW t \in Thread, RelocateLooksUp(t)
  PROVE  PathInv'
<1> DEFINE r == IF replaced THEN NoLook ELSE LookAt("asked", FALSE, look[t].items)
<1>1. look[t].at = "dropped"
  BY DEF RelocateLooksUp, Looks
<1>2. LookShape(look[t]) /\ Started /\ Current \in Nat
  BY <1>1, LookUnderWay
<1>3. look' = [look EXCEPT ![t] = r] /\ UNCHANGED pollSide /\ UNCHANGED <<entries, byFile>>
  BY DEF RelocateLooksUp, pollSide, cacheVars
<1>4. r.at \in {"idle", "asked"}
  BY DEF NoLook, LookAt
<1>5. CASE replaced
  <2>1. LookShape(r)
    BY <1>2, <1>5 DEF NoLook, LookAt, LookShape, LookStates
  <2> HIDE DEF r
  <2> QED
    BY <1>2, <1>3, <1>4, <2>1, OnlyLookMoves
<1>6. CASE ~replaced
  <2>1. LookShape(r)
    BY <1>1, <1>2, <1>6 DEF LookAt, LookShape, LookStates
  <2> HIDE DEF r
  <2> QED
    BY <1>2, <1>3, <1>4, <2>1, OnlyLookMoves
<1> QED
  BY <1>5, <1>6

LEMMA GenerationKeepsInv ==
  ASSUME PathInv, NEW t \in Thread, Generation(t)
  PROVE  PathInv'
<1> DEFINE r == [at |-> "asking", batch |-> look[t].batch, items |-> look[t].items,
                 lib |-> lib, got |-> <<>>, same |-> TRUE]
<1>1. look[t].at = "asked"
  BY DEF Generation, Looks
<1>2. LookShape(look[t]) /\ Started /\ Current \in Nat \ {0} /\ lib \in 1..Current
  BY <1>1, LookUnderWay
<1>3. look' = [look EXCEPT ![t] = r] /\ UNCHANGED pollSide /\ UNCHANGED <<entries, byFile>>
  BY DEF Generation, pollSide, cacheVars
<1>4. r.at = "asking" /\ r.lib = lib /\ LookShape(r)
  BY <1>1, <1>2 DEF LookShape, LookStates
<1>5. lib >= 1
  BY <1>2
<1> HIDE DEF r
<1> QED
  BY <1>2, <1>3, <1>4, <1>5, OnlyLookMoves

\* A location read from the handle the cache has is the catalog's, unless the file
\* at the path is another.
LEMMA ReadIsTold ==
  ASSUME PathInv, NEW g, NEW i, g = lib \/ poll.at = "resume"
  PROVE  BothTold(Loc(cats[Reads(g)], i), i)
<1>1. CASE poll.at = "resume"
  <2>1. cursor.gen < Current /\ cursor.gen \in Nat /\ Current \in Nat
    BY <1>1, CatIsGood DEF PathInv, CursorPlaced, PathTypes
  <2> QED
    BY <1>1, <2>1 DEF BothTold, CursorTold, PollTold
<1>2. CASE g = lib
  <2>1. Live => Reads(lib) = Current
    BY DEF Live, FileReplaced, Reads
  <2>2. Live => Loc(cats[Reads(g)], i) = Loc(Cat, i)
    BY <1>2, <2>1 DEF Cat
  <2> QED
    BY <2>2 DEF BothTold, CursorTold, PollTold, Told
<1> QED
  BY <1>1, <1>2

LEMMA GetKeepsInv ==
  ASSUME PathInv, NEW t \in Thread, Get(t)
  PROVE  PathInv'
<1>1. look[t].at = "asking"
  BY DEF Get, Looks
<1>2. /\ LookShape(look[t]) /\ Started /\ Current \in Nat \ {0}
      /\ look[t].same => look[t].lib = lib \/ poll.at = "resume"
  BY <1>1, LookUnderWay
<1>3. UNCHANGED pollSide /\ UNCHANGED <<entries, byFile>>
  BY DEF Get, pollSide, cacheVars
<1>4. PICK g \in {look[t].lib, lib} :
        look' = [look EXCEPT ![t] = [at |-> "got", batch |-> look[t].batch, items |-> look[t].items,
          lib |-> 0, got |-> [i \in look[t].items |-> Loc(cats[Reads(g)], i)], same |-> look[t].same]]
  BY DEF Get
<1> DEFINE got == [i \in look[t].items |-> Loc(cats[Reads(g)], i)]
           r == [at |-> "got", batch |-> look[t].batch, items |-> look[t].items,
                 lib |-> 0, got |-> got, same |-> look[t].same]
<1>5. ASSUME look[t].same, NEW i \in look[t].items
      PROVE  BothTold(got[i], i)
  <2>1. g = lib \/ poll.at = "resume"
    BY <1>2, <1>5
  <2> QED
    BY <2>1, ReadIsTold
<1>6. LookShape(r)
  <2> HIDE DEF got
  <2> QED
    BY <1>1, <1>2 DEF LookShape, LookStates
<1>7. r.at = "got" /\ r.got = got /\ r.items = look[t].items /\ r.same = look[t].same
  OBVIOUS
<1>8. look' = [look EXCEPT ![t] = r]
  BY <1>4
<1> HIDE DEF r, got
<1> QED
  BY <1>2, <1>3, <1>5, <1>6, <1>7, <1>8, OnlyLookMoves

\* A thread that is done.
LEMMA NoLookShape ==
  ASSUME Current \in Nat
  PROVE  LookShape(NoLook) /\ NoLook.at = "idle"
BY DEF NoLook, LookAt, LookShape, LookStates

LEMMA GetFailsKeepsInv ==
  ASSUME PathInv, NEW t \in Thread, GetFails(t)
  PROVE  PathInv'
<1>1. look[t].at = "asking" /\ look' = [look EXCEPT ![t] = NoLook]
  BY DEF GetFails, Looks
<1>2. UNCHANGED pollSide /\ UNCHANGED <<entries, byFile>>
  BY DEF GetFails, pollSide, cacheVars
<1> QED
  BY <1>1, <1>2, LookUnderWay, NoLookShape, OnlyLookMoves

\* What a thread caches is told, and the cache stays within its bound.
LEMMA StoreKeepsInv ==
  ASSUME PathInv, NEW t \in Thread, Store(t)
  PROVE  PathInv'
<1> DEFINE is == look[t].items
           full == is \cap DOMAIN entries = {} /\ Cardinality(DOMAIN entries) >= MaxEntries
<1>1. look[t].at = "got" /\ ~look[t].batch /\ look' = [look EXCEPT ![t] = NoLook] /\ UNCHANGED pollSide
  BY DEF Store, Looks, pollSide
<1>2. /\ Started /\ Current \in Nat /\ LookShape(look[t])
      /\ look[t].same => \A i \in is : BothTold(look[t].got[i], i)
  BY <1>1, LookUnderWay
<1>3. PICK j \in Item : is = {j}
  BY <1>1, <1>2 DEF LookShape
<1>4. Indexed /\ DOMAIN entries \subseteq Item /\ IsFiniteSet(DOMAIN entries)
      /\ Cardinality(DOMAIN entries) \in Nat /\ Cardinality(DOMAIN entries) <= MaxEntries
  BY FeedAssumption, FS_Subset, FS_CardinalityType DEF PathInv, IndexExact, Indexed, Shapes
<1>5. \A i \in DOMAIN entries : BothTold(entries[i], i)
  BY DEF PathInv, AllTold, BothTold
<1>6. MaxEntries \in Nat \ {0}
  BY PidPathAssumption
<1>7. CASE Raced(t)
  <2>1. UNCHANGED <<entries, byFile>>
    BY <1>7 DEF Store
  <2> QED
    BY <1>1, <1>2, <2>1, NoLookShape, OnlyLookMoves
<1>8. CASE ~Raced(t) /\ ~full
  <2>1. Insert(is, look[t].got) /\ look[t].same
    BY <1>8 DEF Store, Raced
  <2>2. /\ DOMAIN entries' = DOMAIN entries \cup is /\ DOMAIN byFile' = File /\ Indexed'
        /\ \A i \in DOMAIN entries' : entries'[i] = IF i \in is THEN look[t].got[i] ELSE entries[i]
    <3> HIDE DEF is
    <3> QED
      BY <1>4, <2>1, InsertIndexed, SMTT(20)
  <2>3. Cardinality(DOMAIN entries') <= MaxEntries
    <3>1. Cardinality(DOMAIN entries \cup {j}) =
            IF j \in DOMAIN entries THEN Cardinality(DOMAIN entries) ELSE Cardinality(DOMAIN entries) + 1
      BY <1>4, FS_AddElement
    <3>2. DOMAIN entries' = DOMAIN entries \cup {j}
      BY <1>3, <2>2
    <3>3. j \notin DOMAIN entries => Cardinality(DOMAIN entries) < MaxEntries
      BY <1>3, <1>4, <1>6, <1>8
    <3> QED
      BY <1>4, <1>6, <3>1, <3>2, <3>3
  <2>4. IndexExact' /\ DOMAIN entries' \subseteq Item
    BY <1>3, <1>4, <2>2, <2>3 DEF IndexExact, Indexed
  <2>5. \A i \in DOMAIN entries' : BothTold(entries'[i], i)
    BY <1>2, <1>5, <2>1, <2>2
  <2> QED
    BY <1>1, <1>2, <2>2, <2>4, <2>5, NoLookShape, LookMoves
<1>9. CASE ~Raced(t) /\ full
  <2>1. look[t].same
    BY <1>9 DEF Raced
  <2>2. PICK old \in DOMAIN entries :
          /\ entries' = [i \in (DOMAIN entries \ {old}) \cup is |-> IF i \in is THEN look[t].got[i] ELSE entries[i]]
          /\ byFile' = [f \in File |-> Unindexed({old})[f] \cup {i \in is : look[t].got[i].file = f}]
    BY <1>9 DEF Store
  <2>3. /\ DOMAIN entries' = (DOMAIN entries \ {old}) \cup is /\ DOMAIN byFile' = File
        /\ \A i \in DOMAIN entries' : entries'[i] = IF i \in is THEN look[t].got[i] ELSE entries[i]
    BY <2>2
  <2>4. ASSUME NEW f \in File
        PROVE  byFile'[f] = {i \in DOMAIN entries' : entries'[i].file = f}
    <3>1. byFile'[f] = (byFile[f] \ {i \in {old} \cap DOMAIN entries : entries[i].file = f})
                         \cup {i \in is : look[t].got[i].file = f}
      BY <2>2 DEF Unindexed
    <3>2. byFile[f] = {i \in DOMAIN entries : entries[i].file = f}
      BY <1>4 DEF Indexed
    <3>3. is \cap DOMAIN entries = {}
      BY <1>9
    <3> QED
      BY <2>3, <3>1, <3>2, <3>3
  <2>5. Cardinality(DOMAIN entries') <= MaxEntries
    <3> DEFINE d == DOMAIN entries \ {old}
    <3>1. IsFiniteSet(d) /\ Cardinality(d) = Cardinality(DOMAIN entries) - 1
      BY <1>4, FS_RemoveElement
    <3>2. j \notin d
      BY <1>3, <1>9
    <3>3. Cardinality(d \cup {j}) = Cardinality(d) + 1
      BY <3>1, <3>2, FS_AddElement
    <3>4. DOMAIN entries' = d \cup {j}
      BY <1>3, <2>3
    <3> HIDE DEF d
    <3> QED
      BY <1>4, <1>6, <3>1, <3>3, <3>4
  <2>6. IndexExact' /\ DOMAIN entries' \subseteq Item
    BY <1>3, <1>4, <2>3, <2>4, <2>5 DEF IndexExact
  <2>7. \A i \in DOMAIN entries' : BothTold(entries'[i], i)
    BY <1>2, <1>5, <2>1, <2>3
  <2> QED
    BY <1>1, <1>2, <2>3, <2>6, <2>7, NoLookShape, LookMoves
<1> QED
  BY <1>7, <1>8, <1>9

LEMMA StoreBatchKeepsInv ==
  ASSUME PathInv, NEW t \in Thread, StoreBatch(t)
  PROVE  PathInv'
<1> DEFINE is == look[t].items
           room == MaxEntries - Cardinality(DOMAIN entries)
           new == is \ DOMAIN entries
<1>1. look[t].at = "got" /\ look' = [look EXCEPT ![t] = NoLook] /\ UNCHANGED pollSide
  BY DEF StoreBatch, Looks, pollSide
<1>2. /\ Started /\ Current \in Nat /\ LookShape(look[t]) /\ is \in SUBSET Item
      /\ look[t].same => \A i \in is : BothTold(look[t].got[i], i)
  BY <1>1, LookUnderWay DEF LookShape
<1>3. Indexed /\ DOMAIN entries \subseteq Item /\ IsFiniteSet(DOMAIN entries)
      /\ Cardinality(DOMAIN entries) \in Nat /\ Cardinality(DOMAIN entries) <= MaxEntries
  BY FeedAssumption, FS_Subset, FS_CardinalityType DEF PathInv, IndexExact, Indexed, Shapes
<1>4. \A i \in DOMAIN entries : BothTold(entries[i], i)
  BY DEF PathInv, AllTold, BothTold
<1>5. MaxEntries \in Nat \ {0}
  BY PidPathAssumption
<1>6. CASE Raced(t)
  <2>1. UNCHANGED <<entries, byFile>>
    BY <1>6 DEF StoreBatch
  <2> QED
    BY <1>1, <1>2, <2>1, NoLookShape, OnlyLookMoves
<1>7. CASE ~Raced(t)
  <2>1. look[t].same
    BY <1>7 DEF Raced
  <2>2. PICK in \in SUBSET new :
          /\ Cardinality(in) = IF room < Cardinality(new) THEN room ELSE Cardinality(new)
          /\ Insert(in \cup (is \cap DOMAIN entries), look[t].got)
    BY <1>7 DEF StoreBatch
  <2> DEFINE all == in \cup (is \cap DOMAIN entries)
  <2>3. all \subseteq is /\ DOMAIN entries \cup all = DOMAIN entries \cup in /\ in \in SUBSET Item
          /\ in \cap DOMAIN entries = {}
    BY <1>2, <1>3
  <2>4. /\ DOMAIN entries' = DOMAIN entries \cup all /\ DOMAIN byFile' = File /\ Indexed'
        /\ \A i \in DOMAIN entries' : entries'[i] = IF i \in all THEN look[t].got[i] ELSE entries[i]
    <3>1. Insert(all, look[t].got)
      BY <2>2
    <3>2. Indexed
      BY <1>3
    <3> DEFINE got == look[t].got
    <3>3. Insert(all, got)
      BY <3>1
    <3> HIDE DEF all, got
    <3>4. /\ DOMAIN entries' = DOMAIN entries \cup all /\ DOMAIN byFile' = File /\ Indexed'
          /\ \A i \in DOMAIN entries' : entries'[i] = IF i \in all THEN got[i] ELSE entries[i]
      BY <3>2, <3>3, InsertIndexed
    <3> QED
      BY <3>4 DEF got
  <2>5. Cardinality(DOMAIN entries') <= MaxEntries
    <3>1. IsFiniteSet(new) /\ IsFiniteSet(in) /\ Cardinality(new) \in Nat /\ Cardinality(in) \in Nat
      BY <1>2, <2>3, FeedAssumption, FS_Subset, FS_CardinalityType
    <3>2. Cardinality(in) <= room
      BY <1>3, <1>5, <2>2, <3>1
    <3>3. Cardinality(DOMAIN entries \cup in) = Cardinality(DOMAIN entries) + Cardinality(in) - Cardinality(DOMAIN entries \cap in)
      BY <1>3, <3>1, FS_Union
    <3>4. Cardinality(DOMAIN entries \cap in) = 0
      <4>1. DOMAIN entries \cap in = {}
        BY <2>3
      <4> QED
        BY <4>1, FS_EmptySet
    <3>5. DOMAIN entries' = DOMAIN entries \cup in
      BY <2>3, <2>4
    <3>6. Cardinality(DOMAIN entries \cup in) = Cardinality(DOMAIN entries) + Cardinality(in)
      <4> DEFINE a == Cardinality(DOMAIN entries \cup in)
                 b == Cardinality(DOMAIN entries)
                 c == Cardinality(in)
                 e == Cardinality(DOMAIN entries \cap in)
      <4>1. a = b + c - e /\ e = 0 /\ b \in Nat /\ c \in Nat
        BY <1>3, <3>1, <3>3, <3>4
      <4> HIDE DEF a, b, c, e
      <4>2. a = b + c
        BY <4>1
      <4> QED
        BY <4>2 DEF a, b, c
    <3>7. Cardinality(DOMAIN entries \cup in) <= MaxEntries
      BY <1>3, <1>5, <3>1, <3>2, <3>6
    <3> QED
      BY <3>5, <3>7
  <2>6. IndexExact' /\ DOMAIN entries' \subseteq Item
    BY <1>3, <2>3, <2>4, <2>5 DEF IndexExact, Indexed
  <2>7. \A i \in DOMAIN entries' : BothTold(entries'[i], i)
    <3> HIDE DEF all
    <3> QED
      BY <1>2, <1>4, <2>1, <2>3, <2>4
  <2> QED
    BY <1>1, <1>2, <2>4, <2>6, <2>7, NoLookShape, LookMoves
<1> QED
  BY <1>6, <1>7

-----------------------------------------------------------------------------
(***************************************************************************)
(* The steps of a poll.                                                    *)
(***************************************************************************)
\* What holds of the poll, its position and the handle.
Placed == PathTypes /\ CursorPlaced /\ PollPlaced /\ VersionsTell

\* A step that leaves entries and lookups, and whose new position tells as much.
LEMMA PollMoves ==
  ASSUME PathInv, UNCHANGED <<feedVars, kind, entries, byFile, look>>, Placed', LooksPlaced',
         \/ \A v, i : BothTold(v, i) => BothTold(v, i)'
         \/ DOMAIN entries = {} /\ \A t \in Thread : look[t].at = "idle"
  PROVE  PathInv'
<1> USE DEF feedVars
<1>1. Shapes' /\ IndexExact' /\ LogsGood'
  BY DEF PathInv, Shapes, LookShape, IndexExact, LogsGood, Current
<1>2. AllTold'
  <2>1. \A i \in DOMAIN entries : BothTold(entries[i], i)
    BY DEF PathInv, AllTold, BothTold
  <2>2. \A t \in Thread : look[t].at = "got" /\ look[t].same =>
          \A i \in look[t].items : BothTold(look[t].got[i], i)
    BY DEF PathInv, AllTold, BothTold
  <2>3. CASE \A v, i : BothTold(v, i) => BothTold(v, i)'
    <3>1. \A i \in DOMAIN entries' : BothTold(entries[i], i)'
      BY <2>1, <2>3
    <3>2. \A t \in Thread : look'[t].at = "got" /\ look'[t].same =>
            \A i \in look'[t].items : BothTold(look[t].got[i], i)'
      BY <2>2, <2>3
    <3> QED
      BY <3>1, <3>2 DEF AllTold, BothTold
  <2>4. CASE DOMAIN entries = {} /\ \A t \in Thread : look[t].at = "idle"
    BY <2>4 DEF AllTold
  <2> QED
    BY <2>3, <2>4
<1> QED
  BY <1>1, <1>2 DEF PathInv, Placed

\* The locks of the goroutines whose results an invalidation met.
LEMMA BumpedShapes ==
  ASSUME PathInv, look' = Bumped, Current' = Current
  PROVE  /\ look' = [t \in Thread |-> look'[t]]
         /\ \A t \in Thread : LookShape(look[t])' /\ ~look'[t].same /\ look'[t].at = look[t].at
                               /\ look'[t].lib = look[t].lib
<1>1. look' = [t \in Thread |-> [look[t] EXCEPT !.same = FALSE]]
  BY DEF Bumped
<1>2. ASSUME NEW t \in Thread
      PROVE  LookShape(look[t])' /\ ~look'[t].same /\ look'[t].at = look[t].at /\ look'[t].lib = look[t].lib
  <2>1. LookShape(look[t])
    BY DEF PathInv, Shapes
  <2>2. look'[t] = [look[t] EXCEPT !.same = FALSE]
    BY <1>1
  <2>3. look'[t] = [at |-> look[t].at, batch |-> look[t].batch, items |-> look[t].items,
                    lib |-> look[t].lib, got |-> look[t].got, same |-> FALSE]
    BY <2>1, <2>2 DEF LookShape
  <2> QED
    BY <2>1, <2>3 DEF LookShape
<1> QED
  BY <1>1, <1>2

\* A step that drops entries: those that stay are told, and so is what lookups
\* under way may still cache.
LEMMA DropMoves ==
  ASSUME PathInv, UNCHANGED <<feedVars, kind>>, NEW is, Drop(is), Placed',
         poll.at # "resume" => lib' = lib, Started => Started',
         look' = Bumped \/ (look' = look /\ lib' = lib /\ poll.at # "resume" /\ \A v, i : BothTold(v, i) => BothTold(v, i)'),
         \A i \in DOMAIN entries \ is : BothTold(entries[i], i)'
  PROVE  PathInv'
<1> USE DEF feedVars
<1>1. Indexed
  BY DEF PathInv, IndexExact, Indexed
<1>2. /\ DOMAIN entries' = DOMAIN entries \ is /\ DOMAIN byFile' = File /\ Indexed'
      /\ \A j \in DOMAIN entries' : entries'[j] = entries[j]
  BY <1>1, DropIndexed
<1>3. IndexExact'
  BY <1>2, FewerFit DEF PathInv, IndexExact, Indexed
<1>4. Current' = Current /\ LogsGood'
  BY DEF PathInv, LogsGood, Current
<1>5. DOMAIN entries' \subseteq Item
  BY <1>2 DEF PathInv, Shapes
<1>6. CASE look' = Bumped
  <2>1. /\ look' = [t \in Thread |-> look'[t]]
        /\ \A t \in Thread : LookShape(look[t])' /\ ~look'[t].same /\ look'[t].at = look[t].at
                              /\ look'[t].lib = look[t].lib
    BY <1>4, <1>6, BumpedShapes
  <2>2. Shapes'
    BY <1>2, <1>5, <2>1 DEF Shapes
  <2>3. LooksPlaced'
    BY <1>2, <2>1 DEF PathInv, LooksPlaced
  <2>4. AllTold'
    BY <1>2, <2>1 DEF AllTold, BothTold
  <2> QED
    BY <1>3, <1>4, <2>2, <2>3, <2>4 DEF PathInv, Placed
<1>7. CASE look' = look /\ lib' = lib /\ poll.at # "resume" /\ \A v, i : BothTold(v, i) => BothTold(v, i)'
  <2>1. Shapes'
    BY <1>2, <1>4, <1>5, <1>7 DEF PathInv, Shapes, LookShape
  <2>2. LooksPlaced'
    BY <1>2, <1>7 DEF PathInv, LooksPlaced
  <2>3. \A t \in Thread : look[t].at = "got" /\ look[t].same =>
          \A i \in look[t].items : BothTold(look[t].got[i], i)
    BY DEF PathInv, AllTold, BothTold
  <2>4. \A t \in Thread : look'[t].at = "got" /\ look'[t].same =>
          \A i \in look'[t].items : BothTold(look[t].got[i], i)'
    BY <1>7, <2>3
  <2>5. AllTold'
    BY <1>2, <2>4, <1>7 DEF AllTold, BothTold
  <2> QED
    BY <1>3, <1>4, <2>1, <2>2, <2>5 DEF PathInv, Placed
<1> QED
  BY <1>6, <1>7

\* What a poll can count on.
LEMMA PollFacts ==
  ASSUME PathInv
  PROVE  /\ Current \in Nat \ {0} /\ cats \in Seq(Catalog) /\ Current = Len(cats)
         /\ \A g \in 1..Current : cats[g] \in Catalog
         /\ lib \in 1..Current /\ kind \in {"shared", "lent", "own"}
         /\ cursor \in [seq : Nat, ver : Nat \X Nat, gen : 0..Current]
         /\ poll \in [at : PollStates, lib : 0..Current, seq : Nat, ver : Nat \X Nat,
                       page : Seq(Rows), gen : 0..Current]
         /\ Reads(lib) \in 1..Current /\ (kind # "shared" => Reads(lib) = lib) /\ (kind = "shared" => Reads(lib) = Current)
         /\ GoodLog(cats[Reads(lib)]) /\ Cat = cats[Current]
         /\ Live => Reads(lib) = Current
BY CatIsGood, SMTT(20) DEF PathInv, PathTypes, LogsGood, Reads, Current, Cat, Live, FileReplaced

\* A version read now is the catalog's, or of a file that is there no more.
LEMMA VersionNow ==
  ASSUME PathInv, NEW g \in 1..Current
  PROVE  Version(g) \in Nat \X Nat /\ NotAhead(Version(g)) /\ Version(g)[1] = g
<1>1. Current \in Nat \ {0} /\ \A h \in 1..Current : cats[h] \in Catalog
  BY PollFacts
<1>2. cats[g].ver \in Nat /\ Version(g) = <<g, cats[g].ver>>
  BY <1>1 DEF Catalog, Version
<1>3. g = Current => cats[g].ver = Cat.ver
  BY DEF Cat
<1> QED
  BY <1>1, <1>2, <1>3 DEF NotAhead

\* A poll that ended, or failed, holds no position.
LEMMA NoPollTypes ==
  ASSUME PathInv, NEW at \in PollStates
  PROVE  /\ PollAt(at) \in [at : PollStates, lib : 0..Current, seq : Nat, ver : Nat \X Nat,
                            page : Seq(Rows), gen : 0..Current]
         /\ PollAt(at).at = at /\ NotAhead(PollAt(at).ver)
<1>1. Current \in Nat \ {0}
  BY PollFacts
<1>2. <<>> \in Seq(Rows) /\ <<0, 0>> \in Nat \X Nat
  OBVIOUS
<1> QED
  BY <1>1, <1>2 DEF PollAt, NotAhead

\* What the steps of a poll leave, and what their types come to.
PollType == [at : PollStates, lib : 0..Current, seq : Nat, ver : Nat \X Nat, page : Seq(Rows), gen : 0..Current]

LEMMA FeedKept ==
  ASSUME UNCHANGED <<feedVars, kind>>
  PROVE  /\ Current' = Current /\ Cat' = Cat /\ cats' = cats /\ owed' = owed /\ kind' = kind
         /\ \A g : Version(g)' = Version(g) /\ FileReplaced(g)' = FileReplaced(g)
BY DEF feedVars, Current, Cat, Version, FileReplaced

LEMMA TypesKept ==
  ASSUME PathInv, UNCHANGED <<feedVars, kind>>, missed' \in BOOLEAN, replaced' \in BOOLEAN, lib' \in 1..Current,
         cursor' \in [seq : Nat, ver : Nat \X Nat, gen : 0..Current], poll' \in PollType
  PROVE  PathTypes'
BY DEF PathInv, PathTypes, feedVars, Current, PollType

LEMMA InitCursorKeepsInv ==
  ASSUME PathInv, InitCursor
  PROVE  PathInv'
<1>1. poll.at = "init" /\ UNCHANGED <<feedVars, cacheVars, kind, look, missed>>
  BY DEF InitCursor, Polls
<1> DEFINE p == [at |-> "tail", lib |-> lib, seq |-> 0, ver |-> Version(Reads(lib)), page |-> <<>>, gen |-> 0]
<1>2. poll' = p
  BY DEF InitCursor
<1>3. /\ Version(Reads(lib)) \in Nat \X Nat /\ NotAhead(Version(Reads(lib)))
      /\ Version(Reads(lib))[1] = Reads(lib)
  BY PollFacts, VersionNow
<1>4. /\ Current' = Current /\ Cat' = Cat /\ lib' = lib /\ kind' = kind /\ cursor' = cursor /\ missed' = missed
      /\ owed' = owed /\ cats' = cats /\ replaced' = replaced /\ \A g : Version(g)' = Version(g)
  BY <1>1, FeedKept DEF cacheVars
<1>5. PathTypes'
  <2>1. p \in PollType
    <3>1. <<>> \in Seq(Rows) /\ lib \in 0..Current /\ 0 \in 0..Current
      BY PollFacts, SMTT(20)
    <3> QED
      BY <1>3, <3>1 DEF PollStates, PollType
  <2>2. missed \in BOOLEAN /\ replaced \in BOOLEAN
    BY DEF PathInv, PathTypes
  <2> HIDE DEF p
  <2> QED
    BY <1>1, <1>2, <1>4, <2>1, <2>2, TypesKept, PollFacts
<1>6. CursorPlaced' /\ PollPlaced'
  <2>1. CursorPlaced'
    BY <1>1, <1>2, <1>4 DEF PathInv, CursorPlaced
  <2>2. PollPlaced'
    BY <1>1, <1>2, <1>3, <1>4, PollFacts DEF PathInv, PollPlaced, Reading
  <2> QED
    BY <2>1, <2>2
<1>7. VersionsTell'
  BY <1>1, <1>2, <1>3, <1>4 DEF PathInv, VersionsTell, NotAhead, Whole
<1>8. LooksPlaced'
  BY <1>1, <1>2, <1>4 DEF PathInv, LooksPlaced, Started, Polls, cacheVars
<1>9. ASSUME NEW v, NEW i, BothTold(v, i)
      PROVE  BothTold(v, i)'
  BY <1>2, <1>4, <1>9 DEF BothTold, CursorTold, PollTold, Live, FileReplaced
<1>10. UNCHANGED <<feedVars, kind, entries, byFile, look>>
  BY <1>1 DEF cacheVars
<1> QED
  BY <1>5, <1>6, <1>7, <1>8, <1>9, <1>10, PollMoves DEF Placed

LEMMA InitTailKeepsInv ==
  ASSUME PathInv, InitTail
  PROVE  PathInv'
<1> DEFINE c == [seq |-> LatestChangeSeq(cats[Reads(lib)]), ver |-> poll.ver, gen |-> Reads(lib)]
<1>1. /\ poll.at = "tail" /\ poll' = NoPoll /\ cursor' = c
      /\ UNCHANGED <<feedVars, lib, entries, byFile, replaced, kind, look, missed>>
  BY DEF InitTail, Polls
<1>2. /\ Current' = Current /\ Cat' = Cat /\ kind' = kind /\ lib' = lib /\ missed' = missed /\ replaced' = replaced
      /\ \A g : Version(g)' = Version(g)
  BY <1>1, FeedKept
<1>3. /\ LatestChangeSeq(cats[Reads(lib)]) \in Nat \ {0} /\ Reads(lib) \in 1..Current
      /\ (Reads(lib) = Current => LatestChangeSeq(cats[Reads(lib)]) = Len(Cat.rows))
  <2> DEFINE d == cats[Reads(lib)]
  <2>1. d \in Catalog /\ GoodLog(d) /\ Reads(lib) \in 1..Current /\ Cat = cats[Current]
    BY PollFacts
  <2>2. Len(d.rows) \in Nat \ {0}
    <3> HIDE DEF d
    <3> QED
      BY <2>1 DEF GoodLog, Catalog
  <2> QED
    BY <2>1, <2>2 DEF LatestChangeSeq
<1>4. NoPoll.at = "idle" /\ NoPoll \in PollType /\ NotAhead(NoPoll.ver)
  BY NoPollTypes DEF NoPoll, PollType, PollStates
<1>5. PathTypes'
  <2>1. c \in [seq : Nat, ver : Nat \X Nat, gen : 0..Current]
    BY <1>3, PollFacts, SMTT(20)
  <2>2. missed \in BOOLEAN /\ replaced \in BOOLEAN
    BY DEF PathInv, PathTypes
  <2> HIDE DEF c
  <2> QED
    BY <1>1, <1>2, <1>4, <2>1, <2>2, TypesKept, PollFacts
<1>6. CursorPlaced'
  BY <1>1, <1>2, <1>3, <1>4, PollFacts, SMTT(20) DEF CursorPlaced
<1>7. PollPlaced'
  BY <1>1, <1>4 DEF PollPlaced, Reading
<1>8. VersionsTell'
  <2>1. poll.ver[1] = Current => Reads(lib) = Current
    BY <1>1, PollFacts DEF PathInv, PollPlaced, Reading
  <2>2. NotAhead(poll.ver)
    BY DEF PathInv, VersionsTell
  <2>3. Whole(poll.ver, LatestChangeSeq(cats[Reads(lib)]), Reads(lib))
    BY <1>3, <2>1, PollFacts DEF Whole, Version
  <2> QED
    BY <1>1, <1>2, <1>4, <2>2, <2>3 DEF VersionsTell, NotAhead, Whole
<1>9. DOMAIN entries = {} /\ \A t \in Thread : look[t].at = "idle"
  BY <1>1 DEF PathInv, LooksPlaced, Started, Polls
<1>10. LooksPlaced'
  BY <1>1, <1>9 DEF LooksPlaced
<1> QED
  BY <1>1, <1>5, <1>6, <1>7, <1>8, <1>9, <1>10, PollMoves DEF Placed

LEMMA PollStartsKeepsInv ==
  ASSUME PathInv, PollStarts
  PROVE  PathInv'
<1> DEFINE p == [at |-> "pull", lib |-> lib, seq |-> cursor.seq, ver |-> Version(Reads(lib)),
                 page |-> <<>>, gen |-> cursor.gen]
<1>1. /\ poll.at = "idle" /\ poll' = p /\ UNCHANGED <<feedVars, cacheVars, kind, look, missed>>
  BY DEF PollStarts, Polls
<1>2. /\ Current' = Current /\ Cat' = Cat /\ kind' = kind /\ lib' = lib /\ missed' = missed /\ replaced' = replaced
      /\ cursor' = cursor /\ owed' = owed /\ \A g : Version(g)' = Version(g) /\ FileReplaced(g)' = FileReplaced(g)
  BY <1>1, FeedKept DEF cacheVars
<1>3. /\ Version(Reads(lib)) \in Nat \X Nat /\ NotAhead(Version(Reads(lib)))
      /\ Version(Reads(lib))[1] = Reads(lib)
  BY PollFacts, VersionNow
<1>4. PathTypes'
  <2>1. p \in PollType
    <3>1. <<>> \in Seq(Rows) /\ lib \in 0..Current
      BY PollFacts
    <3> QED
      BY <1>3, <3>1, PollFacts DEF PollStates, PollType
  <2>2. missed \in BOOLEAN /\ replaced \in BOOLEAN
    BY DEF PathInv, PathTypes
  <2> HIDE DEF p
  <2> QED
    BY <1>1, <1>2, <2>1, <2>2, TypesKept, PollFacts
<1>5. CursorPlaced'
  BY <1>1, <1>2 DEF PathInv, CursorPlaced
<1>6. PollPlaced'
  BY <1>1, <1>2, <1>3, PollFacts DEF PathInv, CursorPlaced, PollPlaced, Reading
<1>7. VersionsTell'
  BY <1>1, <1>2, <1>3 DEF PathInv, VersionsTell, NotAhead, Whole
<1>8. LooksPlaced'
  BY <1>1, <1>2 DEF PathInv, LooksPlaced, Started, Polls, cacheVars
<1>9. ASSUME NEW v, NEW i, BothTold(v, i)
      PROVE  BothTold(v, i)'
  BY <1>1, <1>2, <1>9 DEF BothTold, CursorTold, PollTold, Live
<1>10. UNCHANGED <<feedVars, kind, entries, byFile, look>>
  BY <1>1 DEF cacheVars
<1> QED
  BY <1>4, <1>5, <1>6, <1>7, <1>8, <1>9, <1>10, PollMoves DEF Placed

\* A poll that ends without a position: NoPoll, or one that found the file replaced.
LEMMA PollBareKeepsInv ==
  ASSUME PathInv, NEW at \in {"idle", "replaced"}, poll' = PollAt(at),
         UNCHANGED <<feedVars, cacheVars, kind, look, missed>>,
         poll.at \notin {"init", "tail", "resume"},
         at = "replaced" => kind # "shared" /\ cursor.gen < Current
  PROVE  PathInv'
<1>1. /\ Current' = Current /\ Cat' = Cat /\ kind' = kind /\ lib' = lib /\ missed' = missed /\ replaced' = replaced
      /\ cursor' = cursor /\ owed' = owed /\ \A g : Version(g)' = Version(g) /\ FileReplaced(g)' = FileReplaced(g)
  BY FeedKept DEF cacheVars
<1>2. PollAt(at).at = at /\ PollAt(at) \in PollType /\ NotAhead(PollAt(at).ver)
  BY NoPollTypes DEF PollType, PollStates
<1>3. PathTypes'
  <2>1. missed \in BOOLEAN /\ replaced \in BOOLEAN
    BY DEF PathInv, PathTypes
  <2> QED
    BY <1>1, <1>2, <2>1, TypesKept, PollFacts
<1>4. CursorPlaced'
  BY <1>1, <1>2 DEF PathInv, CursorPlaced
<1>5. PollPlaced'
  BY <1>2 DEF PollPlaced, Reading
<1>6. VersionsTell'
  BY <1>1, <1>2 DEF PathInv, VersionsTell, NotAhead, Whole
<1>7. LooksPlaced'
  BY <1>1, <1>2 DEF PathInv, LooksPlaced, Started, Polls, cacheVars
<1>8. ASSUME NEW v, NEW i, BothTold(v, i)
      PROVE  BothTold(v, i)'
  BY <1>1, <1>2, <1>8 DEF BothTold, CursorTold, PollTold, Live
<1>9. UNCHANGED <<feedVars, kind, entries, byFile, look>>
  BY DEF cacheVars
<1> QED
  BY <1>3, <1>4, <1>5, <1>6, <1>7, <1>8, <1>9, PollMoves DEF Placed

LEMMA PollFindsReplacedKeepsInv ==
  ASSUME PathInv, PollFindsReplaced
  PROVE  PathInv'
<1>1. /\ poll.at = "idle" /\ kind # "shared" /\ lib # Current /\ poll' = PollAt("replaced")
      /\ UNCHANGED <<feedVars, cacheVars, kind, look, missed>>
  BY DEF PollFindsReplaced, Polls, FileReplaced
<1>2. cursor.gen < Current
  BY <1>1, PollFacts DEF PathInv, CursorPlaced
<1> QED
  BY <1>1, <1>2, PollBareKeepsInv

LEMMA PollFailsKeepsInv ==
  ASSUME PathInv, PollFails
  PROVE  PathInv'
<1>1. /\ poll.at \in {"pull", "behind", "reopen", "prime"} /\ poll' = PollAt("idle")
      /\ UNCHANGED <<feedVars, cacheVars, kind, look, missed>>
  BY DEF PollFails, NoPoll
<1> QED
  BY <1>1, PollBareKeepsInv

\* A position of a poll in the log it reads.
LEMMA PullsFrom ==
  ASSUME PathInv, poll.at \in {"pull", "behind"}
  PROVE  /\ poll.lib = lib /\ Reads(poll.lib) \in 1..Current /\ cats[Reads(poll.lib)] \in Catalog
         /\ GoodLog(cats[Reads(poll.lib)]) /\ poll.seq \in Nat \ {0}
         /\ LatestChangeSeq(cats[Reads(poll.lib)]) \in Nat \ {0}
         /\ (Reads(poll.lib) = Current => cats[Reads(poll.lib)] = Cat)
         /\ (kind # "shared" => Reads(poll.lib) = lib) /\ (Live => Reads(poll.lib) = Current)
         /\ (poll.ver[1] = Current => Reads(poll.lib) = Current)
<1>1. poll.lib = lib /\ (kind # "shared" => poll.ver[1] = lib) /\ poll.seq >= 1
  BY DEF PathInv, PollPlaced, Reading
<1> DEFINE d == cats[Reads(lib)]
<1>2. d \in Catalog /\ GoodLog(d) /\ Reads(lib) \in 1..Current /\ Cat = cats[Current] /\ poll.seq \in Nat
      /\ (kind # "shared" => Reads(lib) = lib) /\ (kind = "shared" => Reads(lib) = Current)
      /\ (Live => Reads(lib) = Current)
  BY PollFacts
<1>3. Len(d.rows) \in Nat \ {0}
  <2> HIDE DEF d
  <2> QED
    BY <1>2 DEF GoodLog, Catalog
<1> QED
  BY <1>1, <1>2, <1>3 DEF LatestChangeSeq

\* A page ends in the log, and at its head when there is nothing to read.
LEMMA PageEnds ==
  ASSUME NEW c \in Catalog, GoodLog(c), NEW seq \in Nat \ {0}, ~Behind(c, seq)
  PROVE  /\ PageEnd(c, seq) \in Nat \ {0} /\ PageEnd(c, seq) <= Len(c.rows)
         /\ seq = Len(c.rows) => PageEnd(c, seq) = Len(c.rows)
<1>1. Len(c.rows) \in Nat /\ c.oldest \in Nat /\ 1 <= c.oldest /\ c.oldest <= Len(c.rows) /\ seq <= Len(c.rows)
      /\ PageRows \in Nat \ {0}
  BY FeedAssumption DEF Catalog, GoodLog, Behind, LatestChangeSeq
<1> QED
  BY <1>1 DEF PageStart, PageEnd, LatestChangeSeq

\* A page brings every row after the position that a prune left: what was told
\* before it is told by the page or after it.
LEMMA PageTells ==
  ASSUME NEW c \in Catalog, GoodLog(c), NEW seq \in Nat \ {0}, ~Behind(c, seq), NEW v, NEW i,
         Told(c, v, i, seq) \/ \E n \in 1..Len(c.rows) : n > seq /\ Names(c.rows[n], v, i)
  PROVE  \/ Told(c, v, i, PageEnd(c, seq))
         \/ /\ seq # LatestChangeSeq(c)
            /\ \E r \in Range(SubSeq(c.rows, PageStart(c, seq), PageEnd(c, seq))) : Names(r, v, i)
<1>1. Len(c.rows) \in Nat /\ c.oldest \in Nat /\ 1 <= c.oldest /\ c.oldest <= Len(c.rows) /\ seq <= Len(c.rows)
      /\ c.rows \in Seq(Rows) /\ PageRows \in Nat \ {0}
  BY FeedAssumption DEF Catalog, GoodLog, Behind, LatestChangeSeq
<1>2. CASE v = Loc(c, i)
  BY <1>2 DEF Told
<1>3. CASE v # Loc(c, i)
  <2>1. PICK n \in 1..Len(c.rows) : n > seq /\ Names(c.rows[n], v, i)
    BY <1>1, <1>3 DEF Told
  <2>2. n >= c.oldest /\ seq < Len(c.rows)
    BY <1>1, <2>1 DEF Behind, LatestChangeSeq
  <2> DEFINE a == PageStart(c, seq)
             b == PageEnd(c, seq)
  <2>3. a \in Nat /\ b \in Nat /\ 1 <= a /\ a <= n /\ b <= Len(c.rows)
    BY <1>1, <2>1, <2>2 DEF PageStart, PageEnd, LatestChangeSeq
  <2>4. CASE n > b
    <3>1. n \in (b + 1)..Len(c.rows)
      BY <2>1, <2>3, <2>4
    <3> HIDE DEF b
    <3> QED
      BY <2>1, <2>2, <3>1 DEF Told, b
  <2>5. CASE n <= b
    <3> DEFINE s == SubSeq(c.rows, a, b)
               m == n - a + 1
    <3> HIDE DEF a, b
    <3>1. Len(s) = b - a + 1 /\ \A k \in 1..(b - a + 1) : s[k] = c.rows[a + k - 1]
      BY <1>1, <2>3, <2>5
    <3>2. m \in 1..(b - a + 1) /\ a + m - 1 = n
      BY <2>3, <2>5
    <3>3. s[m] = c.rows[n] /\ m \in DOMAIN s
      BY <1>1, <2>3, <2>5, <3>1, <3>2
    <3>4. c.rows[n] \in Range(s)
      BY <3>3 DEF Range
    <3> QED
      BY <2>1, <2>2, <3>4 DEF LatestChangeSeq, a, b
  <2> QED
    BY <2>3, <2>4, <2>5
<1> QED
  BY <1>2, <1>3

LEMMA PullKeepsInv ==
  ASSUME PathInv, Pull
  PROVE  PathInv'
<1> DEFINE g == Reads(poll.lib)
           c == cats[g]
<1>1. poll.at = "pull" /\ UNCHANGED <<feedVars, cacheVars, kind, look>>
  BY DEF Pull, Polls
<1>2. /\ Current' = Current /\ Cat' = Cat /\ kind' = kind /\ lib' = lib /\ replaced' = replaced
      /\ cursor' = cursor /\ owed' = owed /\ \A h : Version(h)' = Version(h) /\ FileReplaced(h)' = FileReplaced(h)
  BY <1>1, FeedKept DEF cacheVars
<1>3. /\ poll.lib = lib /\ g \in 1..Current /\ c \in Catalog /\ GoodLog(c) /\ poll.seq \in Nat \ {0}
      /\ LatestChangeSeq(c) \in Nat \ {0} /\ (g = Current => c = Cat)
      /\ (kind # "shared" => g = lib) /\ (Live => g = Current) /\ (poll.ver[1] = Current => g = Current)
  BY <1>1, PullsFrom
<1>4. UNCHANGED <<feedVars, kind, entries, byFile, look>>
  BY <1>1 DEF cacheVars
<1>5. missed \in BOOLEAN /\ replaced \in BOOLEAN /\ poll \in PollType
  BY PollFacts DEF PathInv, PathTypes, PollType
<1>6. CASE Behind(c, poll.seq) /\ poll' = [poll EXCEPT !.at = "behind"] /\ UNCHANGED missed
  <2>1. poll' \in PollType
    BY <1>5, <1>6 DEF PollType, PollStates
  <2>2. poll'.at = "behind" /\ poll'.lib = poll.lib /\ poll'.seq = poll.seq /\ poll'.ver = poll.ver /\ poll'.gen = poll.gen
    BY <1>5, <1>6 DEF PollType
  <2>3. PathTypes'
    BY <1>1, <1>2, <1>5, <1>6, <2>1, TypesKept, PollFacts
  <2>4. CursorPlaced'
    BY <1>1, <1>2, <2>2 DEF PathInv, CursorPlaced
  <2>5. PollPlaced'
    BY <1>1, <1>2, <2>2 DEF PathInv, PollPlaced, Reading
  <2>6. VersionsTell'
    BY <1>1, <1>2, <2>2 DEF PathInv, VersionsTell, NotAhead, Whole
  <2>7. LooksPlaced'
    BY <1>1, <1>2, <2>2 DEF PathInv, LooksPlaced, Started, Polls, cacheVars
  <2>8. ASSUME NEW v, NEW i, BothTold(v, i)
        PROVE  BothTold(v, i)'
    BY <1>2, <1>6, <2>2, <2>8 DEF BothTold, CursorTold, PollTold, Live
  <2> QED
    BY <1>4, <2>3, <2>4, <2>5, <2>6, <2>7, <2>8, PollMoves DEF Placed
<1> DEFINE end == PageEnd(c, poll.seq)
           page == SubSeq(c.rows, PageStart(c, poll.seq), end)
           p == [at |-> IF poll.seq = LatestChangeSeq(c) THEN "save" ELSE "apply",
                 lib |-> poll.lib, seq |-> end, ver |-> poll.ver, page |-> page, gen |-> g]
<1>7. CASE ~Behind(c, poll.seq) /\ poll' = p /\ missed' = (missed \/ Unsigned(g))
  <2>1. /\ end \in Nat \ {0} /\ end <= LatestChangeSeq(c) /\ page \in Seq(Rows)
        /\ (poll.seq = LatestChangeSeq(c) => end = LatestChangeSeq(c))
    <3>1. c.rows \in Seq(Rows) /\ Len(c.rows) \in Nat \ {0} /\ c.oldest \in Nat \ {0} /\ c.oldest <= Len(c.rows)
          /\ poll.seq <= Len(c.rows)
      BY <1>3, <1>7 DEF Catalog, GoodLog, Behind, LatestChangeSeq
    <3>2. PageRows \in Nat \ {0}
      BY FeedAssumption
    <3>3. PageStart(c, poll.seq) \in Nat \ {0}
      BY <1>3, <3>1 DEF PageStart
    <3>4. end \in Nat \ {0} /\ end <= Len(c.rows) /\ (poll.seq = Len(c.rows) => end = Len(c.rows))
      <4> HIDE DEF c
      <4> QED
        BY <1>3, <1>7, PageEnds
    <3>5. SubSeq(c.rows, PageStart(c, poll.seq), end) \in Seq(Rows)
      <4> DEFINE a == PageStart(c, poll.seq)
      <4> HIDE DEF a, end
      <4>1. SubSeq(c.rows, a, end) \in Seq(Rows)
        BY <3>1, <3>3, <3>4 DEF a
      <4> QED
        BY <4>1 DEF a
    <3> QED
      BY <3>4, <3>5 DEF LatestChangeSeq
  <2> HIDE DEF end, page
  <2>2. p.at \in {"save", "apply"} /\ p.lib = lib /\ p.seq = end /\ p.ver = poll.ver /\ p.page = page /\ p.gen = g
        /\ (p.at = "save" <=> poll.seq = LatestChangeSeq(c))
    BY <1>3
  <2>3. p \in PollType
    BY <1>3, <1>5, <2>1 DEF PollType, PollStates
  <2> HIDE DEF p
  <2>4. PathTypes'
    <3>1. missed' \in BOOLEAN
      BY <1>5, <1>7
    <3> QED
      BY <1>1, <1>2, <1>5, <1>7, <2>3, <3>1, TypesKept, PollFacts
  <2>5. CursorPlaced'
    BY <1>1, <1>2, <1>7, <2>2 DEF PathInv, CursorPlaced
  <2>6. PollPlaced'
    <3>1. g = Current => end <= Len(Cat.rows)
      BY <1>3, <2>1 DEF LatestChangeSeq
    <3>2. poll.at \in Reading => (kind # "shared" => poll.ver[1] = lib)
      BY DEF PathInv, PollPlaced
    <3> QED
      BY <1>1, <1>2, <1>3, <1>7, <2>1, <2>2, <3>1, <3>2 DEF PollPlaced, Reading
  <2>7. VersionsTell'
    <3>1. p.at = "save" => Whole(poll.ver, end, g)
      <4> SUFFICES ASSUME p.at = "save", poll.ver = Version(Current)
                   PROVE  g = Current /\ end = Len(Cat.rows)
        BY DEF Whole
      <4>1. poll.ver[1] = Current
        BY DEF Version
      <4> QED
        BY <1>3, <2>1, <2>2, <4>1 DEF LatestChangeSeq
    <3> QED
      BY <1>2, <1>7, <2>2, <3>1 DEF PathInv, VersionsTell, NotAhead, Whole
  <2>8. LooksPlaced'
    BY <1>1, <1>2, <1>7, <2>2 DEF PathInv, LooksPlaced, Started, Polls, cacheVars
  <2>9. ASSUME NEW v, NEW i, BothTold(v, i)
        PROVE  BothTold(v, i)'
    <3>1. CursorTold(v, i)'
      BY <1>2, <1>7, <2>9 DEF BothTold, CursorTold, Live
    <3>2. PollTold(v, i)'
      <4> SUFFICES ASSUME Live', p.gen = Current
                   PROVE  \/ Told(Cat, v, i, p.seq)
                          \/ p.at = "apply" /\ \E r \in Range(p.page) : Names(r, v, i)
        BY <1>2, <1>7 DEF PollTold
      <4>1. Live /\ g = Current /\ c = Cat /\ ~Unsigned(g) /\ ~owed
        BY <1>2, <1>3, <1>7, <2>2 DEF Live
      <4>2. Told(c, v, i, poll.seq) \/ \E n \in 1..Len(c.rows) : n > poll.seq /\ Names(c.rows[n], v, i)
        <5>1. CASE poll.gen = g
          BY <1>1, <2>9, <4>1, <5>1 DEF BothTold, PollTold
        <5>2. CASE poll.gen # g
          <6>1. PICK n \in 1..LatestChangeSeq(c) : n > poll.seq /\ c.rows[n] = <<"catalog">>
            BY <4>1, <5>2 DEF Unsigned
          <6>2. Names(c.rows[n], v, i)
            BY <6>1 DEF Names
          <6> QED
            BY <6>1, <6>2 DEF LatestChangeSeq
        <5> QED
          BY <5>1, <5>2
      <4>3. \/ Told(c, v, i, end)
            \/ poll.seq # LatestChangeSeq(c) /\ \E r \in Range(page) : Names(r, v, i)
        <5> HIDE DEF c
        <5> QED
          BY <1>3, <1>7, <4>2, PageTells DEF end, page
      <4> QED
        BY <2>2, <4>1, <4>3
    <3> QED
      BY <3>1, <3>2 DEF BothTold
  <2> QED
    BY <1>4, <2>4, <2>5, <2>6, <2>7, <2>8, <2>9, PollMoves DEF Placed
<1> QED
  BY <1>6, <1>7 DEF Pull

\* The rows of the page named every cached item they could; what stays is told by
\* what is still to be read.
LEMMA InvalidateKeepsInv ==
  ASSUME PathInv, Invalidate
  PROVE  PathInv'
<1> DEFINE is == Named(poll.page)
           p == [at |-> "pull", lib |-> poll.lib, seq |-> poll.seq, ver |-> poll.ver, page |-> <<>>, gen |-> poll.gen]
<1>1. /\ poll.at = "apply" /\ Drop(is) /\ poll' = p
      /\ UNCHANGED <<feedVars, lib, cursor, replaced, kind, missed>>
      /\ look' = IF Range(poll.page) \subseteq {<<"other">>} THEN look ELSE Bumped
  BY DEF Invalidate, Polls
<1>2. /\ Current' = Current /\ Cat' = Cat /\ kind' = kind /\ lib' = lib /\ replaced' = replaced /\ missed' = missed
      /\ cursor' = cursor /\ owed' = owed /\ \A h : Version(h)' = Version(h) /\ FileReplaced(h)' = FileReplaced(h)
  BY <1>1, FeedKept
<1>3. missed \in BOOLEAN /\ replaced \in BOOLEAN /\ poll \in PollType
  BY PollFacts DEF PathInv, PathTypes, PollType
<1>4. p.at = "pull" /\ p.lib = poll.lib /\ p.seq = poll.seq /\ p.ver = poll.ver /\ p.gen = poll.gen /\ p \in PollType
  BY <1>3 DEF PollType, PollStates
<1> HIDE DEF p, is
<1>5. PathTypes'
  BY <1>1, <1>2, <1>3, <1>4, TypesKept, PollFacts
<1>6. CursorPlaced' /\ PollPlaced'
  BY <1>1, <1>2, <1>4 DEF PathInv, CursorPlaced, PollPlaced, Reading
<1>7. VersionsTell'
  BY <1>1, <1>2, <1>4 DEF PathInv, VersionsTell, NotAhead, Whole
<1>8. Started => Started'
  BY <1>1, <1>4 DEF Started, Polls
<1>9. ASSUME NEW v, NEW i, BothTold(v, i), ~\E r \in Range(poll.page) : Names(r, v, i)
      PROVE  BothTold(v, i)'
  BY <1>1, <1>2, <1>4, <1>9 DEF BothTold, CursorTold, PollTold, Live
<1>10. ASSUME NEW i \in DOMAIN entries \ is
       PROVE  BothTold(entries[i], i)'
  <2>1. BothTold(entries[i], i)
    BY <1>10 DEF PathInv, AllTold, BothTold
  <2>2. ~\E r \in Range(poll.page) : Names(r, entries[i], i)
    <3> SUFFICES ASSUME NEW r \in Range(poll.page), Names(r, entries[i], i)
                 PROVE  i \in is
      BY <1>10
    <3>1. \A f \in File : entries[i].file = f => i \in byFile[f]
      BY <1>10 DEF PathInv, IndexExact
    <3> QED
      BY <1>10, <3>1 DEF Names, Named, is
  <2>3. entries'[i] = entries[i]
    BY <1>1, <1>10, DropIndexed DEF PathInv, IndexExact, Indexed
  <2>4. \A v : v = entries[i] => BothTold(v, i)'
    BY <1>9, <2>1, <2>2
  <2> QED
    BY <2>3, <2>4
<1>11. ASSUME Range(poll.page) \subseteq {<<"other">>}
       PROVE  \A v, i : BothTold(v, i) => BothTold(v, i)'
  <2>1. \A v, i : ~\E r \in Range(poll.page) : Names(r, v, i)
    BY <1>11 DEF Names
  <2> QED
    BY <1>9, <2>1
<1>12. UNCHANGED <<feedVars, kind>> /\ poll.at # "resume"
  BY <1>1
<1>13. look' = Bumped \/ (look' = look /\ lib' = lib /\ poll.at # "resume" /\ \A v, i : BothTold(v, i) => BothTold(v, i)')
  BY <1>1, <1>2, <1>11
<1>14. Placed'
  BY <1>5, <1>6, <1>7 DEF Placed
<1> QED
  BY <1>1, <1>2, <1>8, <1>10, <1>12, <1>13, <1>14, DropMoves

LEMMA PollTailKeepsInv ==
  ASSUME PathInv, PollTail
  PROVE  PathInv'
<1> DEFINE g == Reads(poll.lib)
           c == cats[g]
           p == [at |-> "reload", lib |-> poll.lib, seq |-> LatestChangeSeq(c), ver |-> poll.ver, page |-> <<>>, gen |-> g]
<1>1. poll.at = "behind" /\ poll' = p /\ UNCHANGED <<feedVars, cacheVars, kind, look, missed>>
  BY DEF PollTail, Polls
<1>2. /\ Current' = Current /\ Cat' = Cat /\ kind' = kind /\ lib' = lib /\ replaced' = replaced /\ missed' = missed
      /\ cursor' = cursor /\ owed' = owed /\ \A h : Version(h)' = Version(h) /\ FileReplaced(h)' = FileReplaced(h)
  BY <1>1, FeedKept DEF cacheVars
<1>3. /\ poll.lib = lib /\ g \in 1..Current /\ LatestChangeSeq(c) \in Nat \ {0} /\ (g = Current => c = Cat)
      /\ (kind # "shared" => g = lib) /\ (poll.ver[1] = Current => g = Current)
  BY <1>1, PullsFrom
<1>4. missed \in BOOLEAN /\ replaced \in BOOLEAN /\ poll \in PollType /\ Current \in Nat
  BY PollFacts DEF PathInv, PathTypes, PollType
<1>5. /\ p.at = "reload" /\ p.lib = lib /\ p.seq = LatestChangeSeq(c) /\ p.ver = poll.ver /\ p.gen = g
      /\ p \in PollType
  BY <1>3, <1>4 DEF PollType, PollStates
<1> HIDE DEF p
<1>6. PathTypes'
  BY <1>1, <1>2, <1>4, <1>5, TypesKept, PollFacts
<1>7. CursorPlaced'
  BY <1>1, <1>2, <1>5 DEF PathInv, CursorPlaced
<1>8. PollPlaced'
  <2>1. g = Current => LatestChangeSeq(c) <= Len(Cat.rows)
    BY <1>3 DEF LatestChangeSeq
  <2>2. kind # "shared" => poll.ver[1] = lib
    BY <1>1 DEF PathInv, PollPlaced, Reading
  <2> QED
    BY <1>1, <1>2, <1>3, <1>5, <2>1, <2>2 DEF PollPlaced, Reading
<1>9. VersionsTell'
  <2>1. Whole(poll.ver, LatestChangeSeq(c), g)
    BY <1>3 DEF Whole, Version, LatestChangeSeq
  <2> QED
    BY <1>1, <1>2, <1>5, <2>1 DEF PathInv, VersionsTell, NotAhead, Whole
<1>10. LooksPlaced'
  BY <1>1, <1>2, <1>5 DEF PathInv, LooksPlaced, Started, Polls, cacheVars
<1>11. ASSUME NEW v, NEW i, BothTold(v, i)
       PROVE  BothTold(v, i)'
  BY <1>1, <1>2, <1>5, <1>11 DEF BothTold, CursorTold, PollTold, Live
<1>12. UNCHANGED <<feedVars, kind, entries, byFile, look>>
  BY <1>1 DEF cacheVars
<1> QED
  BY <1>6, <1>7, <1>8, <1>9, <1>10, <1>11, <1>12, PollMoves DEF Placed

\* Everything goes.
LEMMA DropAllMoves ==
  ASSUME PathInv, UNCHANGED <<feedVars, kind>>, DropAll, Placed', lib' = lib, Started => Started'
  PROVE  PathInv'
<1>1. Drop(DOMAIN entries) /\ look' = Bumped
  BY DEF DropAll
<1>2. \A i \in DOMAIN entries \ DOMAIN entries : BothTold(entries[i], i)'
  OBVIOUS
<1> QED
  BY <1>1, <1>2, DropMoves

LEMMA ReloadKeepsInv ==
  ASSUME PathInv, Reload
  PROVE  PathInv'
<1>1. /\ poll.at = "reload" /\ DropAll /\ poll' = [poll EXCEPT !.at = "save"]
      /\ UNCHANGED <<feedVars, lib, cursor, replaced, kind, missed>>
  BY DEF Reload, Polls
<1>2. /\ Current' = Current /\ Cat' = Cat /\ kind' = kind /\ lib' = lib /\ replaced' = replaced /\ missed' = missed
      /\ cursor' = cursor /\ owed' = owed /\ \A h : Version(h)' = Version(h)
  BY <1>1, FeedKept
<1>3. missed \in BOOLEAN /\ replaced \in BOOLEAN /\ poll \in PollType
  BY PollFacts DEF PathInv, PathTypes, PollType
<1>4. /\ poll'.at = "save" /\ poll'.lib = poll.lib /\ poll'.seq = poll.seq /\ poll'.ver = poll.ver /\ poll'.gen = poll.gen
      /\ poll' \in PollType
  BY <1>1, <1>3 DEF PollType, PollStates
<1>5. PathTypes'
  BY <1>1, <1>2, <1>3, <1>4, TypesKept, PollFacts
<1>6. CursorPlaced' /\ PollPlaced'
  BY <1>1, <1>2, <1>4 DEF PathInv, CursorPlaced, PollPlaced, Reading
<1>7. VersionsTell'
  BY <1>1, <1>2, <1>4 DEF PathInv, VersionsTell, NotAhead, Whole
<1>8. Started => Started'
  BY <1>1, <1>4 DEF Started, Polls
<1> QED
  BY <1>1, <1>2, <1>5, <1>6, <1>7, <1>8, DropAllMoves DEF Placed

LEMMA PollSavesKeepsInv ==
  ASSUME PathInv, PollSaves
  PROVE  PathInv'
<1> DEFINE c == [seq |-> poll.seq, ver |-> poll.ver, gen |-> poll.gen]
<1>1. /\ poll.at = "save" /\ cursor' = c /\ poll' = NoPoll
      /\ UNCHANGED <<feedVars, lib, entries, byFile, replaced, kind, look, missed>>
  BY DEF PollSaves, Polls
<1>2. /\ Current' = Current /\ Cat' = Cat /\ kind' = kind /\ lib' = lib /\ replaced' = replaced /\ missed' = missed
      /\ owed' = owed /\ \A h : Version(h)' = Version(h) /\ FileReplaced(h)' = FileReplaced(h)
  BY <1>1, FeedKept
<1>3. missed \in BOOLEAN /\ replaced \in BOOLEAN /\ poll \in PollType
  BY PollFacts DEF PathInv, PathTypes, PollType
<1>4. NoPoll.at = "idle" /\ NoPoll \in PollType /\ NotAhead(NoPoll.ver)
  BY NoPollTypes DEF NoPoll, PollType, PollStates
<1>5. /\ c.seq = poll.seq /\ c.ver = poll.ver /\ c.gen = poll.gen
      /\ c \in [seq : Nat, ver : Nat \X Nat, gen : 0..Current]
  BY <1>3 DEF PollType
<1> HIDE DEF c
<1>6. PathTypes'
  BY <1>1, <1>2, <1>3, <1>4, <1>5, TypesKept, PollFacts
<1>7. CursorPlaced' /\ PollPlaced'
  <2>1. CursorPlaced'
    BY <1>1, <1>2, <1>4, <1>5 DEF PathInv, CursorPlaced, PollPlaced, Reading
  <2>2. PollPlaced'
    BY <1>1, <1>4 DEF PollPlaced, Reading
  <2> QED
    BY <2>1, <2>2
<1>8. VersionsTell'
  BY <1>1, <1>2, <1>4, <1>5 DEF PathInv, VersionsTell, NotAhead, Whole
<1>9. LooksPlaced'
  BY <1>1, <1>2, <1>4 DEF PathInv, LooksPlaced, Started, Polls
<1>10. ASSUME NEW v, NEW i, BothTold(v, i)
       PROVE  BothTold(v, i)'
  BY <1>1, <1>2, <1>4, <1>5, <1>10 DEF BothTold, CursorTold, PollTold, Live
<1>11. UNCHANGED <<feedVars, kind, entries, byFile, look>>
  BY <1>1
<1> QED
  BY <1>6, <1>7, <1>8, <1>9, <1>10, <1>11, PollMoves DEF Placed

LEMMA RefuseLookupsKeepsInv ==
  ASSUME PathInv, RefuseLookups
  PROVE  PathInv'
<1>1. PICK at \in {"idle", "reopen"} :
        /\ poll.at = "replaced" /\ DropAll /\ poll' = PollAt(at) /\ replaced' = TRUE
        /\ UNCHANGED <<feedVars, lib, cursor, kind, missed>>
  BY DEF RefuseLookups, Polls, NoPoll
<1>2. /\ Current' = Current /\ Cat' = Cat /\ kind' = kind /\ lib' = lib /\ missed' = missed
      /\ cursor' = cursor /\ owed' = owed /\ \A h : Version(h)' = Version(h)
  BY <1>1, FeedKept
<1>3. PollAt(at).at = at /\ PollAt(at) \in PollType /\ NotAhead(PollAt(at).ver)
  BY NoPollTypes DEF PollType, PollStates
<1>4. PathTypes'
  <2>1. missed \in BOOLEAN
    BY DEF PathInv, PathTypes
  <2> QED
    BY <1>1, <1>2, <1>3, <2>1, TypesKept, PollFacts
<1>5. CursorPlaced' /\ PollPlaced'
  <2>1. CursorPlaced'
    BY <1>1, <1>2, <1>3 DEF PathInv, CursorPlaced
  <2>2. PollPlaced'
    BY <1>1, <1>3 DEF PollPlaced, Reading
  <2> QED
    BY <2>1, <2>2
<1>6. VersionsTell'
  BY <1>1, <1>2, <1>3 DEF PathInv, VersionsTell, NotAhead, Whole
<1>7. Started => Started'
  BY <1>1, <1>3 DEF Started, Polls
<1> QED
  BY <1>1, <1>2, <1>4, <1>5, <1>6, <1>7, DropAllMoves DEF Placed

LEMMA ReopenKeepsInv ==
  ASSUME PathInv, Reopen
  PROVE  PathInv'
<1> DEFINE p == [at |-> "prime", lib |-> Current, seq |-> 0, ver |-> Version(Current), page |-> <<>>, gen |-> 0]
<1>1. poll.at = "reopen" /\ poll' = p /\ UNCHANGED <<feedVars, cacheVars, kind, look, missed>>
  BY DEF Reopen, Polls
<1>2. /\ Current' = Current /\ Cat' = Cat /\ kind' = kind /\ lib' = lib /\ replaced' = replaced /\ missed' = missed
      /\ cursor' = cursor /\ owed' = owed /\ \A h : Version(h)' = Version(h) /\ FileReplaced(h)' = FileReplaced(h)
  BY <1>1, FeedKept DEF cacheVars
<1>3. Current \in Nat \ {0} /\ Version(Current) \in Nat \X Nat /\ NotAhead(Version(Current)) /\ Version(Current)[1] = Current
  BY PollFacts, VersionNow, SMTT(20)
<1>4. p.at = "prime" /\ p.lib = Current /\ p.ver = Version(Current) /\ p \in PollType
  <2>1. <<>> \in Seq(Rows)
    OBVIOUS
  <2> QED
    BY <1>3, <2>1 DEF PollType, PollStates
<1> HIDE DEF p
<1>5. PathTypes'
  <2>1. missed \in BOOLEAN /\ replaced \in BOOLEAN
    BY DEF PathInv, PathTypes
  <2> QED
    BY <1>1, <1>2, <1>4, <2>1, TypesKept, PollFacts
<1>6. CursorPlaced' /\ PollPlaced'
  <2>1. CursorPlaced'
    BY <1>1, <1>2, <1>4 DEF PathInv, CursorPlaced
  <2>2. PollPlaced'
    BY <1>1, <1>2, <1>3, <1>4 DEF PollPlaced, Reading
  <2> QED
    BY <2>1, <2>2
<1>7. VersionsTell'
  BY <1>1, <1>2, <1>3, <1>4 DEF PathInv, VersionsTell, NotAhead, Whole
<1>8. LooksPlaced'
  BY <1>1, <1>2, <1>4 DEF PathInv, LooksPlaced, Started, Polls, cacheVars
<1>9. ASSUME NEW v, NEW i, BothTold(v, i)
      PROVE  BothTold(v, i)'
  BY <1>1, <1>2, <1>4, <1>9 DEF BothTold, CursorTold, PollTold, Live
<1>10. UNCHANGED <<feedVars, kind, entries, byFile, look>>
  BY <1>1 DEF cacheVars
<1> QED
  BY <1>5, <1>6, <1>7, <1>8, <1>9, <1>10, PollMoves DEF Placed

LEMMA PrimeKeepsInv ==
  ASSUME PathInv, Prime
  PROVE  PathInv'
<1> DEFINE c == cats[poll.lib]
           p == [at |-> "swap", lib |-> poll.lib, seq |-> LatestChangeSeq(c), ver |-> poll.ver,
                 page |-> <<>>, gen |-> poll.lib]
<1>1. poll.at = "prime" /\ poll' = p /\ UNCHANGED <<feedVars, cacheVars, kind, look, missed>>
  BY DEF Prime, Polls
<1>2. /\ Current' = Current /\ Cat' = Cat /\ kind' = kind /\ lib' = lib /\ replaced' = replaced /\ missed' = missed
      /\ cursor' = cursor /\ owed' = owed /\ \A h : Version(h)' = Version(h) /\ FileReplaced(h)' = FileReplaced(h)
  BY <1>1, FeedKept DEF cacheVars
<1>3. missed \in BOOLEAN /\ replaced \in BOOLEAN /\ poll \in PollType /\ Current \in Nat
  BY PollFacts DEF PathInv, PathTypes, PollType
<1>4. poll.lib \in 1..Current /\ poll.ver[1] = poll.lib /\ kind # "shared"
  BY <1>1, <1>3 DEF PathInv, PollPlaced, CursorPlaced, PollType
<1>5. LatestChangeSeq(c) \in Nat \ {0} /\ (poll.lib = Current => c = Cat)
  <2>1. c \in Catalog /\ GoodLog(c) /\ Cat = cats[Current]
    BY <1>4, PollFacts DEF PathInv, LogsGood
  <2> HIDE DEF c
  <2>2. LatestChangeSeq(c) \in Nat \ {0}
    BY <2>1 DEF LatestChangeSeq, GoodLog, Catalog
  <2> QED
    BY <2>1, <2>2 DEF c
<1>6. /\ p.at = "swap" /\ p.lib = poll.lib /\ p.seq = LatestChangeSeq(c) /\ p.ver = poll.ver /\ p.gen = poll.lib
      /\ p \in PollType
  BY <1>3, <1>5 DEF PollType, PollStates
<1> HIDE DEF p
<1>7. PathTypes'
  BY <1>1, <1>2, <1>3, <1>6, TypesKept, PollFacts
<1>8. CursorPlaced' /\ PollPlaced'
  <2>1. CursorPlaced'
    BY <1>1, <1>2, <1>6 DEF PathInv, CursorPlaced
  <2>2. poll.lib = Current => LatestChangeSeq(c) <= Len(Cat.rows)
    BY <1>5 DEF LatestChangeSeq
  <2>3. PollPlaced'
    BY <1>1, <1>2, <1>4, <1>5, <1>6, <2>2 DEF PollPlaced, Reading
  <2> QED
    BY <2>1, <2>3
<1>9. VersionsTell'
  <2>1. Whole(poll.ver, LatestChangeSeq(c), poll.lib)
    BY <1>4, <1>5 DEF Whole, Version, LatestChangeSeq
  <2> QED
    BY <1>1, <1>2, <1>6, <2>1 DEF PathInv, VersionsTell, NotAhead, Whole
<1>10. LooksPlaced'
  BY <1>1, <1>2, <1>6 DEF PathInv, LooksPlaced, Started, Polls, cacheVars
<1>11. ASSUME NEW v, NEW i, BothTold(v, i)
       PROVE  BothTold(v, i)'
  BY <1>1, <1>2, <1>6, <1>11 DEF BothTold, CursorTold, PollTold, Live
<1>12. UNCHANGED <<feedVars, kind, entries, byFile, look>>
  BY <1>1 DEF cacheVars
<1> QED
  BY <1>7, <1>8, <1>9, <1>10, <1>11, <1>12, PollMoves DEF Placed

LEMMA SwapKeepsInv ==
  ASSUME PathInv, Swap
  PROVE  PathInv'
<1>1. /\ poll.at = "swap" /\ lib' = poll.lib /\ poll' = [poll EXCEPT !.at = "resume"]
      /\ UNCHANGED <<feedVars, entries, byFile, cursor, replaced, kind, look, missed>>
  BY DEF Swap, Polls
<1>2. /\ Current' = Current /\ Cat' = Cat /\ kind' = kind /\ replaced' = replaced /\ missed' = missed
      /\ cursor' = cursor /\ owed' = owed /\ \A h : Version(h)' = Version(h)
  BY <1>1, FeedKept
<1>3. missed \in BOOLEAN /\ replaced \in BOOLEAN /\ poll \in PollType /\ Current \in Nat
  BY PollFacts DEF PathInv, PathTypes, PollType
<1>4. /\ poll'.at = "resume" /\ poll'.lib = poll.lib /\ poll'.seq = poll.seq /\ poll'.ver = poll.ver /\ poll'.gen = poll.gen
      /\ poll' \in PollType
  BY <1>1, <1>3 DEF PollType, PollStates
<1>5. lib' \in 1..Current
  BY <1>1, <1>3 DEF PathInv, PollPlaced, PollType
<1>6. PathTypes'
  BY <1>1, <1>2, <1>3, <1>4, <1>5, TypesKept, PollFacts
<1>7. CursorPlaced' /\ PollPlaced'
  BY <1>1, <1>2, <1>4 DEF PathInv, CursorPlaced, PollPlaced, Reading
<1>8. VersionsTell'
  BY <1>1, <1>2, <1>4 DEF PathInv, VersionsTell, NotAhead, Whole
<1>9. LooksPlaced'
  BY <1>1, <1>2, <1>4 DEF PathInv, LooksPlaced, Started, Polls
<1>10. ASSUME NEW v, NEW i
       PROVE  BothTold(v, i)'
  <2>1. cursor.gen < Current /\ cursor.gen \in Nat
    BY <1>1, PollFacts DEF PathInv, CursorPlaced
  <2>2. cursor'.gen # Current'
    BY <1>2, <1>3, <2>1
  <2> QED
    BY <1>4, <2>2 DEF BothTold, CursorTold, PollTold
<1>11. UNCHANGED <<feedVars, kind, entries, byFile, look>>
  BY <1>1
<1> QED
  BY <1>6, <1>7, <1>8, <1>9, <1>10, <1>11, PollMoves DEF Placed

LEMMA ResumeKeepsInv ==
  ASSUME PathInv, Resume
  PROVE  PathInv'
<1> DEFINE c == [seq |-> poll.seq, ver |-> poll.ver, gen |-> poll.gen]
<1>1. /\ poll.at = "resume" /\ DropAll /\ cursor' = c /\ replaced' = FALSE /\ poll' = NoPoll
      /\ UNCHANGED <<feedVars, lib, kind, missed>>
  BY DEF Resume, Polls
<1>2. /\ Current' = Current /\ Cat' = Cat /\ kind' = kind /\ lib' = lib /\ missed' = missed
      /\ owed' = owed /\ \A h : Version(h)' = Version(h)
  BY <1>1, FeedKept
<1>3. missed \in BOOLEAN /\ poll \in PollType
  BY PollFacts DEF PathInv, PathTypes, PollType
<1>4. NoPoll.at = "idle" /\ NoPoll \in PollType /\ NotAhead(NoPoll.ver)
  BY NoPollTypes DEF NoPoll, PollType, PollStates
<1>5. /\ c.seq = poll.seq /\ c.ver = poll.ver /\ c.gen = poll.gen
      /\ c \in [seq : Nat, ver : Nat \X Nat, gen : 0..Current]
  BY <1>3 DEF PollType
<1> HIDE DEF c
<1>6. PathTypes'
  BY <1>1, <1>2, <1>3, <1>4, <1>5, TypesKept, PollFacts
<1>7. CursorPlaced' /\ PollPlaced'
  <2>1. CursorPlaced'
    BY <1>1, <1>2, <1>4, <1>5 DEF PathInv, CursorPlaced, PollPlaced, Reading
  <2>2. PollPlaced'
    BY <1>1, <1>4 DEF PollPlaced, Reading
  <2> QED
    BY <2>1, <2>2
<1>8. VersionsTell'
  BY <1>1, <1>2, <1>4, <1>5 DEF PathInv, VersionsTell, NotAhead, Whole
<1>9. Started => Started'
  BY <1>1, <1>4 DEF Started, Polls
<1> QED
  BY <1>1, <1>2, <1>6, <1>7, <1>8, <1>9, DropAllMoves DEF Placed

-----------------------------------------------------------------------------
(***************************************************************************)
(* The theorems.                                                           *)
(***************************************************************************)
LEMMA InitPathInv ==
  ASSUME Init
  PROVE  PathInv
<1> DEFINE c(f) == [rows |-> <<<<"other">>>>, oldest |-> 1, file |-> [i \in Item |-> f],
                    path |-> [g \in File |-> 0], ver |-> 0]
<1>1. PICK f \in File : cats = <<c(f)>>
  BY DEF Init, FeedInit
<1>2. c(f) \in Catalog /\ GoodLog(c(f))
  <2>1. <<<<"other">>>> \in Seq(Rows) /\ Len(<<<<"other">>>>) = 1
    BY DEF Rows
  <2> QED
    BY <2>1 DEF Catalog, GoodLog
<1> HIDE DEF c
<1>3. cats \in Seq(Catalog) /\ Current = 1 /\ cats[1] = c(f) /\ backup = c(f) /\ owed = FALSE /\ tick = 0
  BY <1>1, <1>2 DEF Init, FeedInit, Current
<1>4. /\ kind \in {"shared", "lent", "own"} /\ lib = 1 /\ entries = <<>> /\ byFile = [g \in File |-> {}]
      /\ cursor = [seq |-> 0, ver |-> <<0, 0>>, gen |-> 0] /\ replaced = FALSE /\ poll = PollAt("init")
      /\ look = [t \in Thread |-> NoLook] /\ missed = FALSE
  BY PidPathAssumption DEF Init
<1>5. DOMAIN entries = {}
  BY <1>4
<1>6. /\ poll.at = "init" /\ poll \in PollType /\ poll.ver = <<0, 0>> /\ poll.gen = 0
  <2>1. <<>> \in Seq(Rows) /\ <<0, 0>> \in Nat \X Nat
    OBVIOUS
  <2> QED
    BY <1>3, <1>4, <2>1 DEF PollAt, PollType, PollStates
<1>7. PathTypes
  <2>1. cursor \in [seq : Nat, ver : Nat \X Nat, gen : 0..Current]
    BY <1>3, <1>4
  <2>2. lib \in 1..Current
    BY <1>3, <1>4
  <2>3. cats \in Seq(Catalog) /\ Current >= 1
    BY <1>3
  <2>4. backup \in Catalog
    BY <1>2, <1>3
  <2>5. owed \in BOOLEAN /\ tick \in Nat /\ missed \in BOOLEAN /\ replaced \in BOOLEAN
    BY <1>3, <1>4
  <2>6. poll \in [at : PollStates, lib : 0..Current, seq : Nat, ver : Nat \X Nat,
                  page : Seq(Rows), gen : 0..Current]
    BY <1>6 DEF PollType
  <2> QED
    BY <1>4, <2>1, <2>2, <2>3, <2>4, <2>5, <2>6 DEF PathTypes
<1>8. Shapes
  <2>1. LookShape(NoLook)
    BY <1>3, NoLookShape
  <2>2. DOMAIN entries \subseteq Item /\ DOMAIN byFile = File
    BY <1>4, <1>5
  <2> QED
    BY <1>4, <2>1, <2>2 DEF Shapes
<1>9. LogsGood
  BY <1>2, <1>3 DEF LogsGood
<1>10. CursorPlaced
  BY <1>3, <1>4, <1>6 DEF CursorPlaced
<1>11. PollPlaced
  BY <1>6 DEF PollPlaced, Reading
<1>12. VersionsTell
  BY <1>3, <1>4, <1>6 DEF VersionsTell, NotAhead, Whole, Version
<1>13. LooksPlaced
  BY <1>4, <1>5, <1>6 DEF LooksPlaced, Started, Polls, NoLook, LookAt
<1>14. AllTold
  BY <1>4, <1>5 DEF AllTold, NoLook, LookAt
<1>15. IndexExact
  <2>1. Cardinality(DOMAIN entries) <= MaxEntries
    BY <1>5, FS_EmptySet, PidPathAssumption
  <2> QED
    BY <1>4, <1>5, <2>1 DEF IndexExact
<1> QED
  BY <1>7, <1>8, <1>9, <1>10, <1>11, <1>12, <1>13, <1>14, <1>15 DEF PathInv

LEMMA StutterKeepsPathInv ==
  ASSUME PathInv, UNCHANGED vars
  PROVE  PathInv'
<1>1. UNCHANGED pollSide /\ UNCHANGED <<entries, byFile, look>>
  BY DEF vars, pollSide, cacheVars
<1>2. /\ PathTypes' /\ LogsGood' /\ CursorPlaced' /\ PollPlaced' /\ VersionsTell' /\ lib' = lib /\ poll' = poll
      /\ Current' = Current /\ Started' = Started
      /\ \A v, i : (CursorTold(v, i)' <=> CursorTold(v, i)) /\ (PollTold(v, i)' <=> PollTold(v, i))
  BY <1>1, PollSideKept
<1>3. LooksPlaced'
  BY <1>1, <1>2 DEF PathInv, LooksPlaced
<1>4. UNCHANGED <<feedVars, kind>>
  BY <1>1 DEF pollSide
<1>5. \A v, i : BothTold(v, i) => BothTold(v, i)'
  BY <1>2 DEF BothTold
<1> QED
  BY <1>1, <1>2, <1>3, <1>4, <1>5, PollMoves DEF Placed

\* The cache's invariant: its maps are each other's inverse and every location in it,
\* or on the way into it, is right or named by a row still to be read
\* (pidpath.go: the reverse index, invalGen and the poll).
THEOREM PathInvariance == Spec => []PathInv
<1>1. ASSUME PathInv, [Next]_vars
      PROVE  PathInv'
  <2>1. CASE UNCHANGED vars
    BY <1>1, <2>1, StutterKeepsPathInv
  <2>2. CASE (Write \/ Restore(kind # "shared") \/ NoteReopened) /\ UNCHANGED <<cacheVars, kind, poll, look, missed>>
    BY <1>1, <2>2, WriteKeepsInv, RestoreKeepsInv, NoteKeepsInv DEF cacheSide
  <2>3. ASSUME NEW t \in Thread, NEW i \in Item, Locate(t, i) \/ Relocate(t, i)
        PROVE  PathInv'
    <3>1. CASE Locate(t, i)
      <4>1. Lookup(t, FALSE, {i})
        BY <3>1 DEF Locate
      <4> QED
        BY <1>1, <4>1, LookupKeepsInv
    <3>2. CASE Relocate(t, i)
      BY <1>1, <3>2, RelocateKeepsInv
    <3> QED
      BY <2>3, <3>1, <3>2
  <2>4. ASSUME NEW t \in Thread, NEW is \in SUBSET Item, LocateMany(t, is)
        PROVE  PathInv'
    BY <1>1, <2>4, LookupKeepsInv DEF LocateMany
  <2>5. ASSUME NEW t \in Thread, LookStep(t)
        PROVE  PathInv'
    BY <1>1, <2>5, RelocateLooksUpKeepsInv, GenerationKeepsInv, GetKeepsInv, GetFailsKeepsInv, StoreKeepsInv,
       StoreBatchKeepsInv DEF LookStep
  <2>6. CASE PollStep \/ PollFails
    BY <1>1, <2>6, InitCursorKeepsInv, InitTailKeepsInv, PollStartsKeepsInv, PollFindsReplacedKeepsInv, PullKeepsInv,
       InvalidateKeepsInv, PollTailKeepsInv, ReloadKeepsInv, PollSavesKeepsInv, PollFailsKeepsInv,
       RefuseLookupsKeepsInv, ReopenKeepsInv, PrimeKeepsInv, SwapKeepsInv, ResumeKeepsInv DEF PollStep
  <2> QED
    BY <1>1, <2>1, <2>2, <2>3, <2>4, <2>5, <2>6 DEF Next
<1> QED
  BY <1>1, InitPathInv, PTL DEF Spec

\* A poll that finds the version it knows leaves nothing stale behind it.
LEMMA ToldIsFresh ==
  ASSUME PathInv
  PROVE  FreshUnlessMissed
<1> SUFFICES ASSUME ~missed, Polls("idle"), ~owed, ~FileReplaced(lib), cursor.ver = Version(Reads(lib)),
                    NEW i \in DOMAIN entries
             PROVE  entries[i] = Loc(Cat, i)
  BY DEF FreshUnlessMissed, Fresh
<1>1. Live /\ Reads(lib) = Current /\ Current \in Nat
  BY PollFacts DEF Live
<1>2. cursor.gen = Current /\ cursor.seq = Len(Cat.rows)
  BY <1>1 DEF PathInv, VersionsTell, Whole
<1>3. Told(Cat, entries[i], i, Len(Cat.rows))
  BY <1>1, <1>2 DEF PathInv, AllTold, CursorTold
<1>4. Len(Cat.rows) \in Nat
  BY CatIsGood DEF PathInv, Catalog
<1>5. ~Behind(Cat, Len(Cat.rows)) /\ (Len(Cat.rows) + 1)..Len(Cat.rows) = {}
  BY <1>4 DEF Behind, LatestChangeSeq
<1> QED
  BY <1>3, <1>5 DEF Told

\* byFile is the inverse of entries and the cache is within its bound, and after a
\* poll that had nothing to read every cached location is the catalog's, unless a
\* restored log reached the cursor unseen (pidpath.go: Poll, store, storeBatch).
THEOREM PathsHoldAlways == Spec => []PathsHold
<1>1. PathInv => PathsHold
  BY ToldIsFresh DEF PathInv, PathsHold
<1> QED
  BY <1>1, PathInvariance, PTL
=============================================================================
