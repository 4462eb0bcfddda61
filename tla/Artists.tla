------------------------------- MODULE Artists ------------------------------
(***************************************************************************)
(* Artists and who is credited with what (store/sqlite/entities.go,        *)
(* merge.go, entityfold.go, editrename.go, entityrename.go, orphan.go and  *)
(* rollups.go).  Tags name artists; the catalog resolves each name to a    *)
(* row, and the operator's merges and renames must survive every later     *)
(* scan of files that still spell the old name: a fold keeps the spelling  *)
(* as another name of the survivor.                                        *)
(*                                                                         *)
(* A name stands for its match key.  An item's album artist is its         *)
(* performer, so a credit's first name is the only anchor.  Every          *)
(* operation is a transaction; T is the tables as it has them: rows (a     *)
(* live artist's key), credits (an item's artists, the first is the        *)
(* track's own), folds, opinions (the artists a user starred or rated) and *)
(* aff, the artists whose rollup it touched.                               *)
(***************************************************************************)
EXTENDS Naturals, Sequences, FiniteSets, SequencesExt, FiniteSetsExt

CONSTANTS
  Item, Name,
  Grace,       \* how long an orphan is kept
  MaxArtists,  \* bound: artists ever made
  MaxNow,      \* bound: the clock
  MaxChanges   \* bound: what the operator does

Pid == 1..MaxArtists
NoPid == 0
NoName == "no name"
Credits == {<<n>> : n \in Name} \cup {<<n, m>> : n, m \in Name}
SomeCredit == {c \in Credits : Cardinality(ToSet(c)) = Len(c)}

VARIABLES
  fileTags,   \* item -> the artist credit its file carries
  heldBy,     \* items whose artist field is locked
  tables,     \* [rows, credits, folds, opinions]
  made,       \* artists made so far; pids are given in order and never again
  rollup,     \* artist -> the track count its rollup row shows
  dirty,      \* rollup_dirty
  candidate,  \* orphan_candidate: artist -> first_seen, 0 for none
  now,
  merges,     \* history: artist -> the one it was merged into, NoPid for none
  ruled,      \* history: name -> the artist an operator's merge or locked rename gave it
  left        \* what the operator may still do, of MaxChanges

artistVars == <<fileTags, heldBy, tables, made, rollup, dirty, candidate, now, merges, ruled, left>>
Edits == left > 0 /\ left' = left - 1

Live(T) == {p \in Pid : T.rows[p] # NoName}
CreditedOn(T, p) == {i \in Item : p \in ToSet(T.credits[i])}
TracksOf(T, p) == {i \in Item : T.credits[i] # <<>> /\ Head(T.credits[i]) = p}
Touch(T, ps) == [T EXCEPT !.aff = @ \cup ps]

ArtistsInit ==
  /\ fileTags \in [Item -> {<<n>> : n \in Name}]
  /\ heldBy = {}
  /\ tables = [rows |-> [p \in Pid |-> NoName], credits |-> [i \in Item |-> <<>>],
               folds |-> [n \in Name |-> NoPid], opinions |-> {}]
  /\ made = 0
  /\ rollup = [p \in Pid |-> 0] /\ dirty = {}
  /\ candidate = [p \in Pid |-> 0] /\ now = 1
  /\ merges = [p \in Pid |-> NoPid] /\ ruled = [n \in Name |-> NoPid]
  /\ left = MaxChanges

-----------------------------------------------------------------------------
(* Resolving                                                               *)

HolderOf(T, n, ps) == {p \in ps : T.rows[p] = n}

\* foldedEntityTx: the artist a spelling was folded into, if it still stands.
FoldedArtist(T, n) == {T.folds[n]} \cap Live(T)

\* A row for a name nobody answers to.  Beyond the bound the transaction is not committed.
NewArtist(T, n) ==
  LET p == T.made + 1 IN
  [T |-> IF p \in Pid THEN [Touch(T, {p}) EXCEPT !.made = p, !.rows[p] = n] ELSE [T EXCEPT !.made = p], p |-> p]

\* A resolution that knows no folds.
ResolveByKey(T, n) ==
  LET hit == HolderOf(T, n, Live(T)) IN
  IF hit # {} THEN [T |-> T, p |-> Min(hit)]
  ELSE NewArtist(T, n)

\* resolveArtist: by key, then by fold, else a new row.
ResolveArtist(T, n) ==
  LET hit == HolderOf(T, n, Live(T)) \cup (IF HolderOf(T, n, Live(T)) = {} THEN FoldedArtist(T, n) ELSE {}) IN
  IF hit # {} THEN [T |-> T, p |-> Min(hit)]
  ELSE NewArtist(T, n)

\* resolveTrackArtists: the prior credits go, and each artist is credited once.
LinkArtists(T, i, names) ==
  LET start == [T |-> [Touch(T, ToSet(T.credits[i])) EXCEPT !.credits[i] = <<>>], ps |-> <<>>]
      step(acc, n) ==
        LET r == ResolveArtist(acc.T, n) IN
        [T |-> Touch(r.T, {r.p}), ps |-> IF r.p \in ToSet(acc.ps) THEN acc.ps ELSE Append(acc.ps, r.p)]
      done[k \in 0..Len(names)] == IF k = 0 THEN start ELSE step(done[k - 1], names[k])
      end == done[Len(names)]
  IN  [end.T EXCEPT !.credits[i] = end.ps]

-----------------------------------------------------------------------------
(* Merging and folding                                                     *)

\* A repointing that does not queue the survivor's rollup.
RepointArtistQuiet(T, s, l) ==
  [T EXCEPT !.credits =
     [i \in Item |-> LET c == [k \in DOMAIN T.credits[i] |-> IF T.credits[i][k] = l THEN s ELSE T.credits[i][k]] IN
                     IF Len(c) = 2 /\ c[1] = c[2] THEN <<c[1]>> ELSE c]]

\* repointArtist: every reference, each item crediting the survivor once.
RepointArtist(T, s, l) ==
  [Touch(T, {s}) EXCEPT !.credits =
     [i \in Item |-> LET c == [k \in DOMAIN T.credits[i] |-> IF T.credits[i][k] = l THEN s ELSE T.credits[i][k]] IN
                     IF Len(c) = 2 /\ c[1] = c[2] THEN <<c[1]>> ELSE c]]

\* What a merge that leaves the loser's opinion to its deletion would do.
RepointOpinionNever(T, s, l) == [T EXCEPT !.opinions = @ \ {l}]

\* repointEntityPlayState: the survivor's own opinion wins, else it takes the loser's.
RepointOpinion(T, s, l) ==
  [T EXCEPT !.opinions = IF l \in @ THEN (@ \ {l}) \cup {s} ELSE @]

\* writeFoldTx and dropFoldTx
WriteFold(T, n, p) == [T EXCEPT !.folds[n] = p]
DropFold(T, n) == [T EXCEPT !.folds[n] = NoPid]

\* A merge that leaves the folds of the loser with it.
RefoldNever(T, s, l) == T

\* mergeEntityTx: the spellings folded into the loser follow it.
Refold(T, s, l) == [T EXCEPT !.folds = [n \in Name |-> IF T.folds[n] = l THEN s ELSE T.folds[n]]]

\* mergeEntityTx: references, opinions and folds move, and the loser goes.
MergeArtist(T, s, l, fold) ==
  LET moved == Refold(RepointOpinion(RepointArtist(T, s, l), s, l), s, l)
      folded == IF fold THEN WriteFold(moved, T.rows[l], s) ELSE moved
  IN  [folded EXCEPT !.rows[l] = NoName, !.merged = @ \cup {<<l, s>>},
                     !.ruling = IF fold THEN @ \cup {<<T.rows[l], s>>} ELSE @]

\* keyHolderTx: who else answers to a name, by key or by fold.
KeyHolder(T, n, self) ==
  LET by == HolderOf(T, n, Live(T) \ {self}) IN IF by # {} THEN by ELSE FoldedArtist(T, n) \ {self}

\* renameFoldsTx: the name taken is no fold any more, the name left becomes one.
RenameFolds(T, old, new, p, fold) == IF fold THEN WriteFold(DropFold(T, new), old, p) ELSE DropFold(T, new)

\* renameArtistTx: onto another's name it merges, else the row takes the name.
RenameArtist(T, p, n, fold) ==
  LET old == T.rows[p]
      inc == KeyHolder(T, n, p)
      taken == [Touch(T, {p}) EXCEPT !.rows[p] = n, !.ruling = IF fold THEN @ \cup {<<old, p>>} ELSE @]
  IN  IF n = old THEN T
      ELSE IF inc # {} THEN MergeArtist(T, Min(inc), p, fold)
      ELSE RenameFolds(taken, old, n, p, fold)

\* artistRenameCoveredTx: every reference to the artist moves with the batch, and no name in
\* it still spells the artist.  ns gives each item of the batch its new credit.
RenameCovered(T, p, n, ns) ==
  /\ n # T.rows[p] => \A i \in DOMAIN ns : T.rows[p] \notin ToSet(ns[i])
  /\ \A i \in TracksOf(T, p) : i \in DOMAIN ns /\ Head(ns[i]) = n
  /\ \A i \in CreditedOn(T, p) : i \in DOMAIN ns /\ n \in ToSet(ns[i])

\* renameArtistsForEditsTx: each artist at the head of an edited credit is renamed in place
\* when the batch says one new name for it and covers it.
RenameForEdits(T, ns, fold) ==
  LET targets(p) == {Head(ns[i]) : i \in (DOMAIN ns) \cap TracksOf(T, p)}
      step(acc, p) ==
        LET n == CHOOSE m \in targets(p) : TRUE IN
        IF p \in Live(acc) /\ RenameCovered(acc, p, n, ns) THEN RenameArtist(acc, p, n, fold) ELSE acc
      done[p \in 0..MaxArtists] ==
        IF p = 0 THEN T ELSE IF p \in Live(T) /\ Cardinality(targets(p)) = 1 THEN step(done[p - 1], p) ELSE done[p - 1]
  IN  done[MaxArtists]

\* The batch's own edits, item by item in the order given.
LinkAll(T, ns) ==
  LET done[i \in 0..Cardinality(Item)] ==
        IF i = 0 THEN T ELSE IF i \in DOMAIN ns THEN LinkArtists(done[i - 1], i, ns[i]) ELSE done[i - 1]
  IN  done[Cardinality(Item)]

-----------------------------------------------------------------------------
(* The end of a transaction: rollups, and the history of who was merged.   *)

TrueCount(T, p) == Cardinality(TracksOf(T, p))
Begin == tables @@ [aff |-> {}, made |-> made, merged |-> {}, ruling |-> {}]
Stored(T) == [rows |-> T.rows, credits |-> T.credits, folds |-> T.folds, opinions |-> T.opinions]

\* maintainRollupsTx and markRollupsDirtyTx: a scan's rollups wait, all others are computed now.
MaintainRollups(T, deferred) ==
  /\ rollup' = [p \in Pid |-> IF T.rows[p] = NoName THEN 0
                              ELSE IF p \in T.aff /\ ~deferred THEN TrueCount(T, p) ELSE rollup[p]]
  /\ dirty' = IF deferred THEN dirty \cup T.aff ELSE dirty

Commit(T, deferred) ==
  /\ T.made <= MaxArtists
  /\ tables' = Stored(T) /\ made' = T.made
  /\ MaintainRollups(T, deferred)
  /\ candidate' = [p \in Pid |-> IF T.rows[p] = NoName THEN 0 ELSE candidate[p]]
  /\ merges' = [p \in Pid |-> LET to == {m[2] : m \in {x \in T.merged : x[1] \in {p, merges[p]}}} IN
                              IF to = {} THEN merges[p] ELSE Min(to)]
  /\ ruled' = [n \in Name |-> LET by == {r[2] : r \in {x \in T.ruling : x[1] = n}} IN
                              CASE by # {} -> Min(by)
                                [] by = {} /\ HolderOf(T, n, Live(T)) # {} -> NoPid
                                [] OTHER -> ruled[n]]

-----------------------------------------------------------------------------
\* The artists' own names, as the item stores its credit.
StoredCredit(i) == [k \in DOMAIN tables.credits[i] |-> tables.rows[tables.credits[i][k]]]

\* copyTrackField: a locked credit is the stored one, whatever the file says.
ScannedCredit(i) == IF i \in heldBy THEN StoredCredit(i) ELSE fileTags[i]

\* A scan puts a file and resolves the names of its credit, stored ones again.
ScanCredit(i) ==
  /\ Commit(LinkArtists(Begin, i, ScannedCredit(i)), TRUE)
  /\ UNCHANGED <<fileTags, heldBy, now, left>>

\* EditItemFields of the artist field over one or more items; over a lock it must be forced,
\* and a refused one changes nothing.
EditCredit(S, c, lock) ==
  /\ Edits
  /\ \A i \in S : tables.credits[i] # <<>>
  /\ LET ns == [i \in S |-> c] IN Commit(LinkAll(RenameForEdits(Begin, ns, lock), ns), FALSE)
  /\ heldBy' = IF lock THEN heldBy \cup S ELSE heldBy
  /\ UNCHANGED <<fileTags, now>>

\* RenameEntity on an artist: every credit that names it is edited, in one batch, and the
\* rename is refused unless the row moved.
RenameEntity(p, n, lock) ==
  LET S == CreditedOn(tables, p)
      ns == [i \in S |-> [k \in DOMAIN tables.credits[i] |->
              IF tables.credits[i][k] = p THEN n ELSE tables.rows[tables.credits[i][k]]]]
  IN
  /\ Edits
  /\ p \in Live(tables) /\ S # {} /\ n # tables.rows[p]
  /\ \E T \in {LinkAll(RenameForEdits(Begin, ns, lock), ns)} :
       T.rows[p] \in {NoName, n} /\ Commit(T, FALSE)
  /\ heldBy' = IF lock THEN heldBy \cup S ELSE heldBy
  /\ UNCHANGED <<fileTags, now>>

\* MergeEntities
MergeEntities(s, l) ==
  /\ Edits
  /\ {s, l} \subseteq Live(tables) /\ s # l
  /\ Commit(MergeArtist(Begin, s, l, TRUE), FALSE)
  /\ UNCHANGED <<fileTags, heldBy, now>>

\* UnfoldEntity
UnfoldEntity(n) ==
  /\ Edits
  /\ tables.folds[n] # NoPid
  /\ tables' = DropFold(tables, n)
  /\ ruled' = [ruled EXCEPT ![n] = NoPid]
  /\ UNCHANGED <<fileTags, heldBy, made, rollup, dirty, candidate, now, merges>>

\* SetEntityStar, entityPlayStateWrite
Star(p) ==
  /\ Edits
  /\ p \in Live(tables) \ tables.opinions
  /\ tables' = [tables EXCEPT !.opinions = @ \cup {p}]
  /\ UNCHANGED <<fileTags, heldBy, made, rollup, dirty, candidate, now, merges, ruled>>

\* deleteOrphanEntity without its folds
DeleteOrphansKeepFolds(T, ps) ==
  [T EXCEPT !.rows = [p \in Pid |-> IF p \in ps THEN NoName ELSE T.rows[p]],
            !.opinions = @ \ ps]

\* deleteOrphanEntity: the row with its opinions and the folds that name it.
DeleteOrphans(T, ps) ==
  [T EXCEPT !.rows = [p \in Pid |-> IF p \in ps THEN NoName ELSE T.rows[p]],
            !.opinions = @ \ ps,
            !.folds = [n \in Name |-> IF T.folds[n] \in ps THEN NoPid ELSE T.folds[n]]]

\* gcOrphanKind: candidates no longer orphaned go, the ones seen long enough ago are swept,
\* the rest are noted.
Swept(at) ==
  LET orphans == {p \in Live(tables) : CreditedOn(tables, p) = {}} IN
  {p \in orphans : (IF candidate[p] = 0 THEN at ELSE candidate[p]) + Grace <= at}

GCOrphans ==
  /\ now < MaxNow /\ now' = now + 1
  /\ LET gone == Swept(now + 1)
         orphans == {p \in Live(tables) : CreditedOn(tables, p) = {}} \ gone IN
     /\ tables' = DeleteOrphans(tables, gone)
     /\ candidate' = [p \in Pid |-> CASE p \notin orphans -> 0
                                      [] p \in orphans /\ candidate[p] = 0 -> now + 1
                                      [] OTHER -> candidate[p]]
     /\ rollup' = [p \in Pid |-> IF p \in gone THEN 0 ELSE rollup[p]]
     /\ UNCHANGED <<fileTags, heldBy, made, dirty, merges, ruled, left>>

\* SettleRollups and settleBatch: each dirty artist is recomputed and leaves the queue.
SettleRollups ==
  /\ dirty # {}
  /\ rollup' = [p \in Pid |-> IF p \in dirty \cap Live(tables) THEN TrueCount(tables, p) ELSE rollup[p]]
  /\ dirty' = {}
  /\ UNCHANGED <<fileTags, heldBy, tables, made, candidate, now, merges, ruled, left>>

ArtistsNext ==
  \/ \E i \in Item : ScanCredit(i)
  \/ \E S \in SUBSET Item \ {{}}, c \in SomeCredit, lock \in BOOLEAN : EditCredit(S, c, lock)
  \/ \E p \in Pid, n \in Name, lock \in BOOLEAN : RenameEntity(p, n, lock)
  \/ \E s, l \in Pid : MergeEntities(s, l)
  \/ \E n \in Name : UnfoldEntity(n)
  \/ \E p \in Pid : Star(p)
  \/ SettleRollups \/ GCOrphans

-----------------------------------------------------------------------------
\* The artist an old row ended up in.
EndsAt(p) == IF merges[p] = NoPid THEN p ELSE merges[p]

\* Credits name live artists, each once, and every live name is one row's alone: a fold never
\* hides behind a row that answers to its spelling, and never names an artist that is gone
\* (keyHolderTx, renameFoldsTx, deleteOrphanEntity).
NamesAnswered ==
  /\ \A i \in Item : /\ ToSet(tables.credits[i]) \subseteq Live(tables)
                     /\ Cardinality(ToSet(tables.credits[i])) = Len(tables.credits[i])
  /\ \A n \in Name : /\ Cardinality(HolderOf(tables, n, Live(tables))) <= 1
                     /\ tables.folds[n] # NoPid => /\ tables.folds[n] \in Live(tables)
                                                  /\ HolderOf(tables, n, Live(tables)) = {}

\* A name an operator gave to an artist, by a merge or by a rename that locks, leads to
\* that artist, through every later merge of it, as long as it is there: no scan of a file
\* that still spells it makes a row of its own (resolveArtist, mergeEntityTx).
RulingsHold ==
  \A n \in Name :
    (ruled[n] # NoPid /\ EndsAt(ruled[n]) \in Live(tables)) =>
      ResolveArtist(Begin, n).p = EndsAt(ruled[n])

\* A rollup that shows another count than the tracks' is queued to be settled, through
\* merges, renames and credits that move in any order (affectedRollups, rollup_dirty).
RollupsQueued == \A p \in Live(tables) : rollup[p] # TrueCount(tables, p) => p \in dirty

\* A user's opinion of an artist leaves it only for the artist that takes its music over, and
\* ends only where that one has an opinion of its own, or where the artist was swept with
\* nothing left under it (repointEntityPlayState, deleteOrphanEntity).
OpinionsKept ==
      \A p \in tables.opinions \ tables'.opinions :
        \/ merges'[p] # NoPid /\ merges'[p] \in tables'.opinions
        \/ p \in Swept(now') /\ now' # now
=============================================================================
