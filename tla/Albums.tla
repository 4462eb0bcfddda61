------------------------------- MODULE Albums -------------------------------
(***************************************************************************)
(* Albums and release groups (store/sqlite/entities.go, scanreconcile.go,  *)
(* editrename.go, entityedit.go, merge.go).  An album is the tracks that   *)
(* share a key: the release's MBID, or the release group's key with the    *)
(* folder the files are in.  A retag or a move therefore changes the key   *)
(* of an album under its own feet, one file at a time, and the row with    *)
(* its stars, art and locks must be carried to the new key and not left    *)
(* behind with nothing in it.                                              *)
(*                                                                         *)
(* One artist is credited throughout (Artists has the credits).  T is the  *)
(* tables as a transaction has them: row, the album and the group rows;    *)
(* fold, the keys folded into another row; star, the rows a user has       *)
(* starred, which also stands for art and locks; of, a track's album.      *)
(***************************************************************************)
EXTENDS Naturals, Sequences, FiniteSets, FiniteSetsExt

CONSTANTS
  Track, Title, Folder, MBID,
  TagMBID,   \* the MBIDs that files carry
  MaxRows,   \* bound: rows of each kind ever made
  MaxOps     \* bound: what operators and other programs do

Kind == {"album", "group"}
Row == 1..MaxRows
None == "none"
Gone == [key |-> <<>>, mbid |-> None, up |-> 0]
FileTags == [title : Title, release : TagMBID \cup {None}, group : TagMBID \cup {None}]

VARIABLES
  file,     \* track -> [tags, folder]: the file as it stands
  stored,   \* track -> [tags, folder]: as last put, or edited since
  locked,   \* tracks whose album field is locked
  journal,  \* track -> the folders of its last organize move, or <<>>
  chain,    \* [row, fold, star, of]
  rowsMade, \* kind -> rows made so far
  became,   \* history: [kind, row] -> the row it was merged into, 0 for none
  decided,  \* history: the keys an operator's merge or locked edit gave a row: {<<kind, key, row>>}
  opsLeft

albumVars == <<file, stored, locked, journal, chain, rowsMade, became, decided, opsLeft>>
Spend == opsLeft > 0 /\ opsLeft' = opsLeft - 1

LiveRows(T, k) == {r \in Row : T.row[k][r] # Gone}
Members(T, a) == {i \in Track : T.of[i] = a}
AlbumsOf(T, g) == {a \in LiveRows(T, "album") : T.row["album"][a].up = g}

AlbumsInit ==
  /\ file \in [Track -> [tags : {t \in FileTags : t.release = None \/ t.group = None}, folder : {CHOOSE f \in Folder : TRUE}]]
  /\ stored = file /\ locked = {}
  /\ journal = [i \in Track |-> <<>>]
  /\ chain = [row |-> [k \in Kind |-> [r \in Row |-> Gone]], fold |-> [k \in Kind |-> {}],
              star |-> [k \in Kind |-> {}], of |-> [i \in Track |-> 0]]
  /\ rowsMade = [k \in Kind |-> 0]
  /\ became = [k \in Kind |-> [r \in Row |-> 0]] /\ decided = {}
  /\ opsLeft = MaxOps

-----------------------------------------------------------------------------
(* Keys and who holds them                                                 *)

\* albumChainKeys
GroupKey(t) == IF t.group # None THEN <<"mbid", t.group>> ELSE <<"rg", t.title>>
AlbumKey(t, f) == IF t.release # None THEN <<"mbid", t.release>> ELSE <<"al", GroupKey(t), f>>
ByFolder(key) == key[1] = "al"

HolderOfKey(T, k, key, self) == {r \in LiveRows(T, k) \ {self} : T.row[k][r].key = key}
FoldedKey(T, k, key) == {f[2] : f \in {x \in T.fold[k] : x[1] = key}} \cap LiveRows(T, k)

\* keyHolderTx
KeyHeldBy(T, k, key, self) ==
  IF HolderOfKey(T, k, key, self) # {} THEN HolderOfKey(T, k, key, self) ELSE FoldedKey(T, k, key) \ {self}

\* adoptEntityByMBIDTx: a key that is an MBID finds the first row that has taken that MBID.
AdoptByMBID(T, k, key) ==
  IF key[1] = "mbid" THEN {r \in LiveRows(T, k) : T.row[k][r].mbid = key[2]} ELSE {}

\* Beyond the bound on rows the transaction is not committed.
WithinBound(T) == \A k \in Kind : T.made[k] <= MaxRows
MakeRow(T, k, row) ==
  LET r == T.made[k] + 1 IN
  [T |-> IF r \in Row THEN [T EXCEPT !.made[k] = r, !.row[k][r] = row] ELSE [T EXCEPT !.made[k] = r], r |-> r]

\* resolveReleaseGroup
ResolveGroup(T, key, mbid) ==
  LET held == HolderOfKey(T, "group", key, 0)
      by == CASE held # {} -> held
              [] held = {} /\ FoldedKey(T, "group", key) # {} -> FoldedKey(T, "group", key)
              [] OTHER -> AdoptByMBID(T, "group", key)
  IN  IF by # {} THEN [T |-> T, r |-> Min(by)] ELSE MakeRow(T, "group", [key |-> key, mbid |-> mbid, up |-> 0])

\* newAlbumTx: the row that has the release's MBID, or a new one.
NewAlbum(T, key, g, t) ==
  LET by == AdoptByMBID(T, "album", key) IN
  IF by # {} THEN [T |-> T, r |-> Min(by)]
  ELSE MakeRow(T, "album", [key |-> key, mbid |-> t.release, up |-> g])

\* resolveAlbumChain: by key, by fold, or under its group.
ResolveAlbumChain(T, t, f) ==
  LET key == AlbumKey(t, f)
      held == HolderOfKey(T, "album", key, 0)
      folded == FoldedKey(T, "album", key)
      g == ResolveGroup(T, GroupKey(t), t.group)
  IN  CASE held = {} /\ folded # {} -> [T |-> T, r |-> Min(folded)]
        [] held # {} -> [T |-> g.T, r |-> Min(held)]
        [] OTHER -> NewAlbum(g.T, key, g.r, t)

-----------------------------------------------------------------------------
(* Merging                                                                 *)

\* repointAlbum and repointReleaseGroup
Repoint(T, k, s, l) ==
  IF k = "album" THEN [T EXCEPT !.of = [i \in Track |-> IF T.of[i] = l THEN s ELSE T.of[i]]]
  ELSE [T EXCEPT !.row["album"] = [a \in Row |-> IF T.row["album"][a].up = l
                                                 THEN [T.row["album"][a] EXCEPT !.up = s] ELSE T.row["album"][a]]]

\* unionMBID
UnionMBID(T, k, s, l) == [T EXCEPT !.row[k][s].mbid = IF @ = None THEN T.row[k][l].mbid ELSE @]

MoveAttachmentsNever(T, k, s, l) == [T EXCEPT !.star[k] = @ \ {l}]
\* repointArtMap, repointEntityCuration, repointEntityPlayState
MoveAttachments(T, k, s, l) == [T EXCEPT !.star[k] = IF l \in @ THEN (@ \ {l}) \cup {s} ELSE @]

\* writeFoldTx and dropFoldTx
SetFoldNever(T, k, key, r) == T  \* the mistake of merging without a fold
SetFold(T, k, key, r) == [T EXCEPT !.fold[k] = {f \in @ : f[1] # key} \cup {<<key, r>>}]
UnsetFold(T, k, key) == [T EXCEPT !.fold[k] = {f \in @ : f[1] # key}]
\* The folds of the loser follow it.
FoldsFollow(T, k, s, l) == [T EXCEPT !.fold[k] = {<<f[1], IF f[2] = l THEN s ELSE f[2]>> : f \in @}]

\* mergeEntityTx
MergeRows(T, k, s, l, fold) ==
  LET moved == FoldsFollow(UnionMBID(MoveAttachments(Repoint(T, k, s, l), k, s, l), k, s, l), k, s, l)
      key == T.row[k][l].key
      folded == IF fold THEN SetFold(moved, k, key, s) ELSE moved
  IN  [folded EXCEPT !.row[k][l] = Gone, !.gone = @ \cup {<<k, l, s>>},
                     !.ruling = IF fold THEN @ \cup {<<k, key, s>>} ELSE @]

\* A rewrite that asks nobody.
RewriteOnly(T, k, r, key) == [T EXCEPT !.row[k][r].key = key]

\* rewriteOrMergeEntityKeyTx
RewriteOrMerge(T, k, r, key) ==
  LET by == KeyHeldBy(T, k, key, r) IN
  IF by # {} THEN MergeRows(T, k, Min(by), r, FALSE) ELSE UnsetFold([T EXCEPT !.row[k][r].key = key], k, key)

\* renameFoldsTx
TakeKey(T, k, r, key, fold) ==
  LET old == T.row[k][r].key
      taken == UnsetFold([T EXCEPT !.row[k][r].key = key], k, key)
  IN  IF fold THEN [SetFold(taken, k, old, r) EXCEPT !.ruling = @ \cup {<<k, old, r>>}] ELSE taken

-----------------------------------------------------------------------------
(* What a put does with the album the track leaves                         *)

Conflict(m, n) == m # None /\ n # None /\ m # n

\* rekeyCorroboratedTx and organizeMovedFolderTx: the new key is the old album's because the
\* group is, the folder is, or the file is known to have been in the old key's folder.
Corroborated(T, p, d, from, moves) ==
  LET old == T.row["album"][p]
      new == T.row["album"][d] IN
  \/ old.up = new.up
  \/ old.key[3] = new.key[3]
  \/ from = old.key[3]
  \/ moves = <<old.key[3], new.key[3]>>

\* freshReleaseGroupTx
FreshGroup(T, g) == g \notin T.star["group"] /\ Cardinality(AlbumsOf(T, g)) = 1

\* foldDrainedReleaseGroupTx: pg was the drained album's group, dg is the new one's.
FoldDrainedGroup(T, pg, dg) ==
  IF pg = dg \/ AlbumsOf(T, pg) # {} \/ Conflict(T.row["group"][pg].mbid, T.row["group"][dg].mbid) THEN T
  ELSE IF FreshGroup(T, dg)
       THEN LET key == T.row["group"][dg].key IN
            UnsetFold([MergeRows(T, "group", pg, dg, FALSE) EXCEPT !.row["group"][pg].key = key], "group", key)
       ELSE MergeRows(T, "group", dg, pg, FALSE)

\* Without carrying the row to the key that took its tracks.
ReconcileNever(T, p, d, from, moves) == T

\* reconcileAlbumRekeyTx: an album the put has just emptied into another one of the same
\* release takes that one's key, or is merged into it when it has attachments of its own.
Reconcile(T, p, d, from, moves) ==
  LET old == T.row["album"][p]
      new == T.row["album"][d] IN
  IF p = 0 \/ p = d \/ Members(T, p) # {} THEN T
  ELSE IF ~ByFolder(old.key) \/ ~ByFolder(new.key) THEN T
  ELSE IF ~Corroborated(T, p, d, from, moves) \/ Conflict(old.mbid, new.mbid)
          \/ Conflict(T.row["group"][old.up].mbid, T.row["group"][new.up].mbid) THEN T
  ELSE IF d \in T.star["album"] THEN FoldDrainedGroup(MergeRows(T, "album", d, p, FALSE), old.up, new.up)
  ELSE FoldDrainedGroup(
         UnsetFold([MergeRows(T, "album", p, d, FALSE) EXCEPT !.row["album"][p].key = new.key,
                                                              !.row["album"][p].up = new.up], "album", new.key),
         old.up, new.up)

\* resolveAndLinkEntities
LinkTrack(T, i, t, f, from, moves) ==
  LET a == ResolveAlbumChain(T, t, f) IN
  IF ~WithinBound(a.T) THEN a.T
  ELSE Reconcile([a.T EXCEPT !.of[i] = a.r], T.of[i], a.r, from, moves)

-----------------------------------------------------------------------------
(* An operator retitles tracks                                             *)

NewTags(i, title) == [stored[i].tags EXCEPT !.title = title]
\* The albums every track of which the edit covers, with one new key between them.
Covered(T, S, title) ==
  {a \in LiveRows(T, "album") : Members(T, a) # {} /\ Members(T, a) \subseteq S}
OneOf(S, F(_)) == Cardinality({F(i) : i \in S}) = 1
Pick(S, F(_)) == CHOOSE v \in {F(i) : i \in S} : TRUE

\* renameReleaseGroupsForEditsTx: a group all of whose albums the edit moves to one key is
\* renamed, or merged where another answers to that key.
RenameGroups(T, S, title, fold) ==
  LET key(i) == GroupKey(NewTags(i, title))
      all(g) == UNION {Members(T, a) : a \in AlbumsOf(T, g)}
      moves(U, g) == /\ g \in LiveRows(U, "group") /\ all(g) # {} /\ AlbumsOf(U, g) = AlbumsOf(T, g)
                     /\ AlbumsOf(T, g) \subseteq Covered(T, S, title) /\ OneOf(all(g), key)
                     /\ Pick(all(g), key) # U.row["group"][g].key
      step(U, g) ==
        LET new == Pick(all(g), key)
            by == KeyHeldBy(U, "group", new, g) IN
        IF by # {} THEN MergeRows(U, "group", Min(by), g, fold) ELSE TakeKey(U, "group", g, new, fold)
      done[g \in 0..MaxRows] == IF g = 0 THEN T ELSE IF moves(done[g - 1], g) THEN step(done[g - 1], g) ELSE done[g - 1]
  IN  done[MaxRows]

\* renameAlbumChainTx: an album the edit covers keeps its row under the new key.
RenameAlbum(T, a, S, title, fold) ==
  LET m == Members(T, a)
      key(i) == AlbumKey(NewTags(i, title), stored[i].folder)
      gkey(i) == GroupKey(NewTags(i, title))
      g == ResolveGroup(T, Pick(m, gkey), stored[Min(m)].tags.group)
      moved == IF WithinBound(T) /\ OneOf(m, gkey) /\ Pick(m, gkey) # T.row["group"][T.row["album"][a].up].key
               THEN [g.T EXCEPT !.row["album"][a].up = g.r] ELSE T
      by == KeyHeldBy(moved, "album", Pick(m, key), a)
  IN  IF ~OneOf(m, key) THEN T
      ELSE IF Pick(m, key) = T.row["album"][a].key THEN moved
      ELSE IF by # {} THEN MergeRows(moved, "album", Min(by), a, fold)
      ELSE TakeKey(moved, "album", a, Pick(m, key), fold)

\* renameEntitiesForEditsTx over the albums, in the order of their ids
RenameAlbums(T, S, title, fold) ==
  LET done[a \in 0..MaxRows] ==
        IF a = 0 THEN T
        ELSE IF a \in LiveRows(T, "album") /\ Members(T, a) \cap S # {} /\ Members(done[a - 1], a) # {}
                /\ Members(done[a - 1], a) \subseteq S /\ a \in LiveRows(done[a - 1], "album")
             THEN RenameAlbum(done[a - 1], a, S, title, fold) ELSE done[a - 1]
  IN  done[MaxRows]

-----------------------------------------------------------------------------
(* The end of a transaction                                                *)

Tables == [row |-> chain.row, fold |-> chain.fold, star |-> chain.star, of |-> chain.of,
           made |-> rowsMade, gone |-> {}, ruling |-> {}]

CommitChain(T) ==
  /\ WithinBound(T)
  /\ chain' = [row |-> T.row, fold |-> T.fold, star |-> T.star, of |-> T.of]
  /\ rowsMade' = T.made
  /\ became' = [k \in Kind |-> [r \in Row |->
       LET to == {x[3] : x \in {y \in T.gone : y[1] = k /\ y[2] \in {r, became[k][r]}}} IN
       IF to = {} THEN became[k][r] ELSE Min(to)]]
  /\ decided' = {d \in decided : /\ ~\E r \in T.ruling : r[1] = d[1] /\ r[2] = d[2]
                                 /\ HolderOfKey(T, d[1], d[2], 0) = {}} \cup T.ruling

\* PutScannedTrack: the tags and the path are the file's, but a locked album field keeps its value.
ScanTrack(i) ==
  LET t == IF i \in locked THEN [file[i].tags EXCEPT !.title = stored[i].tags.title] ELSE file[i].tags
      from == IF stored[i].folder # file[i].folder THEN stored[i].folder ELSE None IN
  /\ CommitChain(LinkTrack(Tables, i, t, file[i].folder, from, journal[i]))
  /\ stored' = [stored EXCEPT ![i] = [tags |-> t, folder |-> file[i].folder]]
  /\ UNCHANGED <<file, locked, journal, opsLeft>>

\* EditItemFields of the album field over S: the rows are renamed where the edit covers them,
\* then each track is linked by its new value.
RetitleTracks(S, title, lock) ==
  /\ Spend
  /\ \A i \in S : chain.of[i] # 0 /\ stored[i].tags.title # title
  /\ LET renamed == RenameAlbums(RenameGroups(Tables, S, title, lock), S, title, lock)
         linked[i \in 0..Cardinality(Track)] ==
           IF i = 0 THEN renamed
           ELSE IF i \in S THEN LinkTrack(linked[i - 1], i, NewTags(i, title), stored[i].folder, None, <<>>)
           ELSE linked[i - 1]
     IN  CommitChain(linked[Cardinality(Track)])
  /\ stored' = [i \in Track |-> IF i \in S THEN [stored[i] EXCEPT !.tags = NewTags(i, title)] ELSE stored[i]]
  /\ locked' = IF lock THEN locked \cup S ELSE locked
  /\ UNCHANGED <<file, journal>>

\* MergeEntities
MergeChosen(k, s, l) ==
  /\ Spend
  /\ {s, l} \subseteq LiveRows(chain, k) /\ s # l
  /\ CommitChain(MergeRows(Tables, k, s, l, TRUE))
  /\ UNCHANGED <<file, stored, locked, journal>>

\* entityPlayStateWrite
StarRow(k, r) ==
  /\ Spend
  /\ r \in LiveRows(chain, k) \ chain.star[k]
  /\ chain' = [chain EXCEPT !.star[k] = @ \cup {r}]
  /\ UNCHANGED <<file, stored, locked, journal, rowsMade, became, decided>>

\* EditEntityFields of an MBID: refused where another row has it.
SetMBID(k, r, v) ==
  /\ Spend
  /\ r \in LiveRows(chain, k) /\ chain.row[k][r].mbid # v
  /\ \A o \in LiveRows(chain, k) \ {r} : chain.row[k][o].mbid # v
  /\ chain' = [chain EXCEPT !.row[k][r].mbid = v]
  /\ UNCHANGED <<file, stored, locked, journal, rowsMade, became, decided>>

\* rekeyAlbumHeuristicTx: a cleared MBID takes the row off the MBID's key.
RekeyAlbum(T, a) ==
  LET i == Min(Members(T, a))
      key == AlbumKey([stored[i].tags EXCEPT !.release = None], stored[i].folder) IN
  IF T.row["album"][a].key[1] # "mbid" \/ Members(T, a) = {} THEN T ELSE RewriteOrMerge(T, "album", a, key)

\* dependentAlbumsTx: the group's albums whose key is made from the group's.
Dependents(T, g, key) ==
  {a \in AlbumsOf(T, g) : ByFolder(T.row["album"][a].key) /\ T.row["album"][a].key[2] = key /\ Members(T, a) # {}}

\* settleDependentAlbumTx: its own tracks say which group and which key are the album's now.
SettleDependent(T, a, newKey) ==
  LET i == Min(Members(T, a))
      t == [stored[i].tags EXCEPT !.release = None, !.group = None]
      g == ResolveGroup(T, GroupKey(t), None)
      moved == IF GroupKey(t) = newKey THEN T ELSE [g.T EXCEPT !.row["album"][a].up = g.r]
  IN  RewriteOrMerge(moved, "album", a, AlbumKey(t, stored[i].folder))

\* rekeyReleaseGroupHeuristicTx
RekeyGroup(T, g) ==
  LET all == UNION {Members(T, a) : a \in AlbumsOf(T, g)}
      old == T.row["group"][g].key
      key == GroupKey([stored[Min(all)].tags EXCEPT !.group = None])
      deps == Dependents(T, g, old)
      settled[a \in 0..MaxRows] ==
        IF a = 0 THEN RewriteOrMerge(T, "group", g, key)
        ELSE IF a \in deps THEN SettleDependent(settled[a - 1], a, key) ELSE settled[a - 1]
  IN  IF old[1] # "mbid" \/ all = {} THEN T ELSE settled[MaxRows]

\* EditEntityFields clears an MBID
ClearMBID(k, r) ==
  /\ Spend
  /\ r \in LiveRows(chain, k) /\ chain.row[k][r].mbid # None
  /\ LET T == [Tables EXCEPT !.row[k][r].mbid = None] IN
     CommitChain(IF k = "album" THEN RekeyAlbum(T, r) ELSE RekeyGroup(T, r))
  /\ UNCHANGED <<file, stored, locked, journal>>

\* GCOrphans over albums and then groups, those long enough without tracks or albums.
SweepEmpty(k, r) ==
  /\ r \in LiveRows(chain, k)
  /\ IF k = "album" THEN Members(chain, r) = {} ELSE AlbumsOf(chain, r) = {}
  /\ chain' = [chain EXCEPT !.row[k][r] = Gone, !.star[k] = @ \ {r}, !.fold[k] = {f \in @ : f[2] # r}]
  /\ UNCHANGED <<file, stored, locked, journal, rowsMade, became, decided, opsLeft>>

\* organize moves a file, and the catalog has its path and the move
OrganizeTrack(i, f) ==
  /\ Spend
  /\ f # file[i].folder /\ stored[i].folder = file[i].folder /\ chain.of[i] # 0
  /\ file' = [file EXCEPT ![i].folder = f]
  /\ stored' = [stored EXCEPT ![i].folder = f]
  /\ journal' = [journal EXCEPT ![i] = <<file[i].folder, f>>]
  /\ UNCHANGED <<locked, chain, rowsMade, became, decided>>

\* Another program retags a file, or moves it (external).
ChangeFile(i, new) ==
  /\ Spend
  /\ file' = [file EXCEPT ![i] = new] /\ file' # file
  /\ UNCHANGED <<stored, locked, journal, chain, rowsMade, became, decided>>

AlbumsNext ==
  \/ \E i \in Track : \/ ScanTrack(i)
                      \/ \E f \in Folder : OrganizeTrack(i, f) \/ ChangeFile(i, [file[i] EXCEPT !.folder = f])
                      \/ \E t \in Title : ChangeFile(i, [file[i] EXCEPT !.tags.title = t])
  \/ \E S \in SUBSET Track \ {{}}, t \in Title, lock \in BOOLEAN : RetitleTracks(S, t, lock)
  \/ \E k \in Kind, r \in Row : \/ StarRow(k, r) \/ ClearMBID(k, r) \/ SweepEmpty(k, r)
                                \/ \E s \in Row : MergeChosen(k, s, r)
                                \/ \E v \in MBID : SetMBID(k, r, v)

-----------------------------------------------------------------------------
EndsIn(k, r) == IF became[k][r] = 0 THEN r ELSE became[k][r]

\* The chain is whole: a track's album and an album's group are there, a key leads to one row,
\* and a fold neither names a row that is gone nor hides behind one that answers to its key
\* (resolveAlbumChain, rewriteOrMergeEntityKeyTx, reconcileAlbumRekeyTx).
ChainWhole ==
  /\ \A i \in Track : chain.of[i] # 0 => chain.of[i] \in LiveRows(chain, "album")
  /\ \A a \in LiveRows(chain, "album") : chain.row["album"][a].up \in LiveRows(chain, "group")
  /\ \A k \in Kind : /\ \A r, o \in LiveRows(chain, k) : r # o => chain.row[k][r].key # chain.row[k][o].key
                     /\ \A f \in chain.fold[k] : f[2] \in LiveRows(chain, k) /\ HolderOfKey(chain, k, f[1], 0) = {}

\* A key an operator gave to a row, by a merge or a locked edit, leads to that row as long as
\* it is there: no scan of a file that still has the old tags makes the old row again.
KeysDecided ==
  \A d \in decided : LET r == EndsIn(d[1], d[3]) IN
    r \in LiveRows(chain, d[1]) => KeyHeldBy(chain, d[1], d[2], 0) = {r}

\* A star leaves a row only for the row that took its tracks over, or with a row that has
\* stood empty: no retag, move or edit of files, in whatever order, drops one.
StarsFollow ==
      \A k \in Kind : \A r \in chain.star[k] \ chain'.star[k] :
        \/ became'[k][r] \in chain'.star[k]
        \/ SweepEmpty(k, r)

\* A starred album is not left behind with nothing in it: when its last track goes to another
\* folder's or another title's album, the row goes along, unless an MBID says the two are
\* different releases or the catalog cannot tell that the file was in the album's folder
\* (reconcileAlbumRekeyTx, renameAlbumChainTx).
NotLeftBehind ==
      \A a \in chain.star["album"] :
        (Members(chain, a) # {} /\ Members(chain', a) = {} /\ a \in LiveRows(chain', "album")) =>
          \E i \in Members(chain, a) :
            LET old == chain'.row["album"][a]
                new == chain'.row["album"][chain'.of[i]] IN
            \/ ~ByFolder(old.key) \/ ~ByFolder(new.key)
            \/ Conflict(old.mbid, new.mbid)
            \/ Conflict(chain'.row["group"][old.up].mbid, chain'.row["group"][new.up].mbid)
            \/ stored[i].folder # old.key[3]
=============================================================================
