------------------------------- MODULE Search -------------------------------
(***************************************************************************)
(* Finding things by name: the search rows and sort keys that every writer *)
(* maintains in its own transaction, the repair that db verify --fix runs  *)
(* beside those writers, and a search, which is several statements with    *)
(* writes landing between them.                                            *)
(*                                                                         *)
(* A text is a number, 0 the empty one.  What the folds and the tokenizer  *)
(* make of it is given: its words, its match key with the spaces dropped,  *)
(* the sort key of this version and that of an older one.  bm25 may rank   *)
(* the rows it is given in any order.  Left out: scores, subtitles and the *)
(* tag and genre column, aliases, and the change rows of a repaired key.   *)
(***************************************************************************)
EXTENDS Integers, FiniteSets, Sequences, FiniteSetsExt, SequencesExt

CONSTANTS
    ItemId, ArtistId, AlbumId,   \* row ids, in the order they were given
    WordsOf, MatchKeyOf, FoldOf, OldFoldOf,  \* what is made of a text
    TierOne,                     \* the <<name, query>> pairs where the query begins a word of the name
    ShelfStart,                  \* the catalogs the checker starts from
    NewItems, NewTitles, NewNames, NewPlaces, \* what the writers write
    Questions,                   \* the searches: query, limit, cap and scope
    FetchPerLimit, FetchMin, FetchMax,       \* the scan cap (searchFetch*)
    SortKeyBatch, IndexBatch,    \* rows in one transaction of the repair
    MaxEdits, MaxFixes, MaxFixFaults, MaxSearches \* bounds

VARIABLES
    shelf,    \* the tables: items, artists, albums, generated keys, search_fts
    fix,      \* the repair
    find,     \* the search
    edits, fixes, fixFaults, searches,
    drifted,  \* history: what was out of step when the behaviour began
    crossed,  \* history: the keys rewritten from a text read before a write that stored the stale key anew
    stood, ever \* history: what the search should find at every moment of it, and what at any

searchVars == <<shelf, fix, find, edits, fixes, fixFaults, searches, drifted, crossed, stood, ever>>

NoEntry == [kind |-> "none", title |-> 0, spell |-> 0, artist |-> 0, album |-> 0, credit |-> 0,
            talk |-> 0, state |-> "none", libs |-> {}, prim |-> 0, show |-> 0]
NoFtsRow == [kind |-> "none", title |-> 0, artist |-> 0, album |-> 0, credits |-> {}]
NoFix == [phase |-> "idle", kinds |-> << >>, snap |-> << >>, pending |-> << >>, after |-> 0, stale |-> {}]
NoSearch == [phase |-> "idle", ask |-> CHOOSE q \in Questions : TRUE, tracks |-> << >>, books |-> << >>, episodes |-> << >>, seen |-> {},
             artists |-> << >>, albums |-> << >>, truncated |-> FALSE, crowded |-> {}, orphaned |-> FALSE]

Or(a, b) == IF a # 0 THEN a ELSE b
Standing(db) == {i \in ItemId : db.item[i].kind # "none"}

-----------------------------------------------------------------------------
(* Sort keys.                                                              *)

KeyRow == ({"item", "track"} \X ItemId) \cup ({"artist"} \X ArtistId) \cup ({"album"} \X AlbumId)

NameOf(db, a) == IF a = 0 THEN 0 ELSE db.artist[a].name

\* sortKeyEntities: the texts a row's keys fold, the sort key's first.
KeyTexts(db, r) ==
    LET it == db.item[r[2]]
    IN  CASE r[1] = "item" -> <<Or(it.spell, it.title), it.title>>
          [] r[1] = "track" -> <<NameOf(db, it.artist), 0>>
          [] r[1] = "artist" -> <<Or(db.artist[r[2]].sort, db.artist[r[2]].name), db.artist[r[2]].name>>
          [] r[1] = "album" -> <<Or(db.album[r[2]].sort, db.album[r[2]].name), db.album[r[2]].name>>

KeysOf(db, r) == [j \in 1..2 |-> FoldOf[KeyTexts(db, r)[j]]]

HasKeyRow(db, r) ==
    CASE r[1] = "item" -> db.item[r[2]].kind # "none"
      [] r[1] = "track" -> db.item[r[2]].kind = "track"
      [] OTHER -> TRUE

\* The writers' rule: a key is stored beside every text it folds.
RefreshSortSpellingKeys(db, R) == [db EXCEPT !.keys = [r \in KeyRow |-> IF r \in R /\ HasKeyRow(db, r) THEN KeysOf(db, r) ELSE @[r]]]

\* walkSortKeys: the entities of one kind that hold a stale key, in id order, as one
\* snapshot reads them.  text is what the keys were folded from.
StaleRow(db, r) ==
    [row |-> r, cols |-> {j \in 1..2 : db.keys[r][j] # KeysOf(db, r)[j]}, was |-> db.keys[r], want |-> KeysOf(db, r), text |-> KeyTexts(db, r)]
StaleRowsOf(db, t, id) ==
    {s \in {StaleRow(db, r) : r \in {q \in KeyRow : q[2] = id /\ q[1] \in t /\ HasKeyRow(db, q)}} : s.cols # {}}
TablesOf(e) == IF e = "item" THEN {"item", "track"} ELSE {e}
WalkSortKeys(db, e) ==
    LET Ids == {r[2] : r \in {q \in KeyRow : q[1] = e}}
    IN  SelectSeq([n \in 1..Cardinality(Ids) |-> StaleRowsOf(db, TablesOf(e), SetToSortSeq(Ids, <)[n])], LAMBDA R : R # {})

Guarded(db, s) == \A j \in s.cols : db.keys[s.row][j] = s.was[j]

Patched(db, S) ==
    [db EXCEPT !.keys = [r \in KeyRow |->
        IF \E s \in S : s.row = r
        THEN LET s == CHOOSE t \in S : t.row = r IN [j \in 1..2 |-> IF j \in s.cols THEN s.want[j] ELSE @[r][j]]
        ELSE @[r]]]

\* flush: each row's stale keys are rewritten if they are still the ones that were read.
FlushUnguarded(db, S) == Patched(db, S)
Flush(db, S) == Patched(db, {s \in S : Guarded(db, s)})

-----------------------------------------------------------------------------
(* Search rows.                                                            *)

\* creditText: the credited names the headline does not name already.
CreditText(headline, names) == {n \in names : n # 0 /\ MatchKeyOf[n] # 0 /\ MatchKeyOf[n] # MatchKeyOf[headline]}

TrackSearchRow(db, it) ==
    [kind |-> "track", title |-> it.title, artist |-> NameOf(db, it.artist),
     album |-> IF it.album = 0 THEN 0 ELSE db.album[it.album].name,
     credits |-> CreditText(NameOf(db, it.artist), {NameOf(db, it.credit)})]
BookSearchRow(db, it) ==
    [kind |-> "book", title |-> it.title, artist |-> NameOf(db, it.artist), album |-> 0,
     credits |-> CreditText(NameOf(db, it.artist), {NameOf(db, it.credit)})]
EpisodeSearchRow(it) == [kind |-> "episode", title |-> it.title, artist |-> 0, album |-> 0, credits |-> {}]

\* storedSearchRowTx, for an item thought to be of kind k: none when it has no row of it.
StoredSearchRow(db, i, k) ==
    LET it == db.item[i]
    IN  CASE k # it.kind -> NoFtsRow
          [] k = "track" -> TrackSearchRow(db, it)
          [] k = "book" -> BookSearchRow(db, it)
          [] k = "episode" -> EpisodeSearchRow(it)
          [] OTHER -> NoFtsRow

SearchRowDrift(db, i, k) == StoredSearchRow(db, i, k) # NoFtsRow /\ db.fts[i] # StoredSearchRow(db, i, k)

WriteSearchRow(db, i, row) == [db EXCEPT !.fts[i] = row]
RebuildItemSearchFTS(db, I) ==
    [db EXCEPT !.fts = [i \in ItemId |-> IF i \in I THEN StoredSearchRow(db, i, db.item[i].kind) ELSE @[i]]]

\* refreshSearchRowTx compares again inside the write, under the kind that was read.
RefreshRowsRead(db, S) ==
    [db EXCEPT !.fts = [i \in ItemId |-> IF \E s \in S : s.id = i THEN (CHOOSE s \in S : s.id = i).row ELSE @[i]]]
RefreshSearchRows(db, S) ==
    [db EXCEPT !.fts = [i \in ItemId |->
        IF \E s \in S : s.id = i /\ SearchRowDrift(db, i, s.kind) THEN StoredSearchRow(db, i, db.item[i].kind) ELSE @[i]]]

SearchItems(db, after) == {i \in Standing(db) : i > after}
FirstOf(S, n) == {i \in S : Cardinality({j \in S : j < i}) < n}
StaleSearchRows(db, batch) ==
    {[id |-> i, kind |-> db.item[i].kind, row |-> StoredSearchRow(db, i, db.item[i].kind)] : i \in {j \in batch : SearchRowDrift(db, j, db.item[j].kind)}}

OrphanRows(db) == {i \in ItemId : db.fts[i] # NoFtsRow /\ db.item[i].kind = "none"}

SortKeyDrift(db) == Cardinality({<<r, j>> \in KeyRow \X (1..2) : HasKeyRow(db, r) /\ db.keys[r][j] # KeysOf(db, r)[j]})

\* VerifyDerived counts rows and keys; it does not read the rows.
VerifyDerived(db) ==
    [missing |-> Cardinality({i \in Standing(db) : db.item[i].state = "present" /\ db.fts[i] = NoFtsRow}),
     orphan |-> Cardinality(OrphanRows(db)),
     keys |-> SortKeyDrift(db)]
Consistent(v) == v.missing = 0 /\ v.orphan = 0 /\ v.keys = 0

-----------------------------------------------------------------------------
(* What a search finds.                                                    *)

\* searchNarrow.
InScope(it, q) ==
    /\ it.kind # "none"
    /\ q.states # {} => it.state \in q.states
    /\ q.libs # {} => it.libs \cap q.libs # {}
    /\ q.prims # {} => it.prim \in q.prims
    /\ \A shows \in q.shows : it.kind = "episode" => it.show \in shows
Narrows(q) == q.states # {} \/ q.libs # {} \/ q.prims # {} \/ q.shows # {}

\* ftsMatchQuery: every word of the query is in the row; a query without one matches nothing.
RowWords(row) == UNION {WordsOf[t] : t \in {row.title, row.artist, row.album} \cup row.credits}
RowMatches(row, text) == row # NoFtsRow /\ WordsOf[text] # {} /\ WordsOf[text] \subseteq RowWords(row)

SearchFetchCap(limit) ==
    LET scaled == IF limit * FetchPerLimit < FetchMin THEN FetchMin ELSE limit * FetchPerLimit
    IN  IF scaled > FetchMax THEN FetchMax ELSE scaled
SearchScanCap(q) == IF q.cap > 0 /\ q.cap < SearchFetchCap(q.limit) THEN q.cap ELSE SearchFetchCap(q.limit)

NewestOf(S, n) == {i \in S : Cardinality({j \in S : j > i}) < n}

PoolThenNarrow(db, q) ==
    LET Hits == {i \in ItemId : RowMatches(db.fts[i], q.text)}
    IN  {i \in IF q.cap = 0 THEN Hits ELSE NewestOf(Hits, q.cap + 1) : InScope(db.item[i], q)}

\* searchStmt: the matches, or under a cap the newest of them and one more; the narrowing
\* is inside the pool, and with none the pool is not joined to the items.
SearchPool(db, q) ==
    LET Hits == {i \in ItemId : RowMatches(db.fts[i], q.text) /\ (q.cap = 0 \/ Narrows(q) => InScope(db.item[i], q))}
        Pool == IF q.cap = 0 THEN Hits ELSE NewestOf(Hits, q.cap + 1)
    IN  {i \in Pool : InScope(db.item[i], q)}

\* itemsBySortKeyQ: a query of symbols alone, by title key and by the artist's.
ItemsBySortKey(db, q) ==
    {i \in Standing(db) : /\ InScope(db.item[i], q)
                          /\ \/ db.keys[<<"item", i>>][2] = FoldOf[q.text]
                             \/ db.item[i].kind = "track" /\ (db.keys[<<"track", i>>][1] = FoldOf[q.text] \/ NameOf(db, db.item[i].artist) = q.text)}

\* searchTier.
SearchTier(name, text) ==
    CASE MatchKeyOf[text] = 0 -> IF FoldOf[name] = FoldOf[text] THEN 0 ELSE 3
      [] MatchKeyOf[name] = MatchKeyOf[text] -> 0
      [] <<name, text>> \in TierOne -> 1
      [] WordsOf[text] \subseteq WordsOf[name] -> 2
      [] OTHER -> 3

\* rankByTier: a stable sort by tier, cut to the limit.  A hit holds the name it was
\* read with.
UpTo(s, n) == SubSeq(s, 1, IF Len(s) < n THEN Len(s) ELSE n)
RankByTier(hits, text, limit) ==
    LET tier(n) == SelectSeq(hits, LAMBDA h : SearchTier(h.name, text) = n)
    IN  UpTo(tier(0) \o tier(1) \o tier(2) \o tier(3), limit)

\* artistByNameQ, albumByNameQ: whose own name is the query, with a track in the scope.
ArtistsByName(db, q) ==
    IF MatchKeyOf[q.text] = 0 THEN {}
    ELSE {a \in ArtistId : /\ \/ MatchKeyOf[db.artist[a].name] = MatchKeyOf[q.text]
                              \/ db.keys[<<"artist", a>>][2] = FoldOf[q.text]
                           /\ \E i \in ItemId : db.item[i].kind = "track" /\ a \in {db.item[i].artist, db.item[i].credit} /\ InScope(db.item[i], q)}
AlbumsByName(db, q) ==
    IF FoldOf[q.text] = 0 THEN {}
    ELSE {b \in AlbumId : /\ db.keys[<<"album", b>>][2] = FoldOf[q.text]
                          /\ \E i \in ItemId : db.item[i].kind = "track" /\ db.item[i].album = b /\ InScope(db.item[i], q)}

\* transcriptsStmt: the episodes whose transcript matches, the newest of them under a cap.
TranscriptHits(db, q) ==
    LET Hits == {i \in ItemId : db.item[i].kind = "episode" /\ WordsOf[q.text] # {} /\ WordsOf[q.text] \subseteq WordsOf[db.item[i].talk] /\ InScope(db.item[i], q)}
    IN  IF q.cap = 0 THEN Hits ELSE NewestOf(Hits, q.cap)

Capped(s, x, limit) == IF Len(s) < limit THEN Append(s, x) ELSE s
IdsOf(hits) == {h.id : h \in ToSet(hits)}
AddOnce(hits, h) == IF h.id = 0 \/ h.id \in IdsOf(hits) THEN hits ELSE Append(hits, h)
ArtistHit(db, a) == [id |-> a, name |-> NameOf(db, a)]
AlbumHit(db, b) == [id |-> b, name |-> IF b = 0 THEN 0 ELSE db.album[b].name]

\* scanItem: one matched row, filed by its kind.
ScanItem(db, f, i) ==
    LET it == db.item[i] L == f.ask.limit
    IN  CASE it.kind = "book" -> [f EXCEPT !.books = Capped(@, i, L)]
          [] it.kind = "episode" -> [f EXCEPT !.episodes = Capped(@, i, L), !.seen = @ \cup {i}]
          [] OTHER -> [f EXCEPT !.tracks = Capped(@, i, L), !.albums = AddOnce(@, AlbumHit(db, it.album)), !.artists = AddOnce(@, ArtistHit(db, it.artist))]

\* searchMatches and searchItemsBySortKey: the rows in their order, one past the cap
\* says that some were left out.
ScanRows(db, f, rows) ==
    LET n == SearchScanCap(f.ask)
    IN  [FoldLeft(LAMBDA g, i : ScanItem(db, g, i), f, UpTo(rows, n)) EXCEPT !.truncated = Len(rows) > n]

-----------------------------------------------------------------------------
(* Writers: each keeps the rows and keys of what it changes in step.       *)

\* What the search should find: the items its words match, and the entities named so.
Sought(db, q) ==
    [items |-> {<<i, db.item[i].kind>> : i \in {j \in Standing(db) : InScope(db.item[j], q) /\ RowMatches(db.fts[j], q.text)
                                                                            /\ db.fts[j] = StoredSearchRow(db, j, db.item[j].kind)}},
     artists |-> {a \in ArtistsByName(db, q) : MatchKeyOf[db.artist[a].name] = MatchKeyOf[q.text]},
     albums |-> {b \in AlbumsByName(db, q) : db.album[b].name = q.text},
     scope |-> {i \in Standing(db) : InScope(db.item[i], q)}]
NoneSought == [items |-> {}, artists |-> {}, albums |-> {}, scope |-> {}]

WriteShelf(db) ==
    /\ shelf' = db
    /\ LET s == Sought(db, find.ask) going == find.phase \notin {"idle", "answered"}
       IN  /\ stood' = IF going THEN [items |-> stood.items \cap s.items, artists |-> stood.artists \cap s.artists,
                                      albums |-> stood.albums \cap s.albums, scope |-> {}] ELSE stood
           /\ ever' = IF going THEN [ever EXCEPT !.scope = @ \cup s.scope] ELSE ever

Edit(db) == /\ edits < MaxEdits /\ edits' = edits + 1
            /\ WriteShelf(db) /\ UNCHANGED <<fix, find, fixes, fixFaults, searches, drifted, crossed>>

ItemRows(i) == {<<"item", i>>, <<"track", i>>}
PutEntry(db, i, it) == RebuildItemSearchFTS(RefreshSortSpellingKeys([db EXCEPT !.item[i] = it], ItemRows(i)), {i})

\* A put of a new item, and edits of one: its title, its credit, its kind, its place.
ShelveItem == edits < MaxEdits /\ \E i \in ItemId \ Standing(shelf), it \in NewItems : Edit(PutEntry(shelf, i, it))
EditTitle == edits < MaxEdits /\ \E i \in Standing(shelf), t \in NewTitles : shelf.item[i].title # t /\ Edit(PutEntry(shelf, i, [shelf.item[i] EXCEPT !.title = t]))
EditCredit == edits < MaxEdits /\ \E i \in Standing(shelf), a \in ArtistId \cup {0} :
    shelf.item[i].kind # "episode" /\ shelf.item[i].credit # a /\ Edit(RebuildItemSearchFTS([shelf EXCEPT !.item[i].credit = a], {i}))
ChangeKind == edits < MaxEdits /\ \E i \in Standing(shelf) :
    /\ shelf.item[i].kind = "track"
    /\ Edit(PutEntry(shelf, i, [shelf.item[i] EXCEPT !.kind = "book", !.album = 0]))
MoveItem == edits < MaxEdits /\ \E i \in Standing(shelf), p \in NewPlaces :
    Edit([shelf EXCEPT !.item[i].libs = p.libs, !.item[i].prim = p.prim, !.item[i].state = p.state])
UnshelveItem == edits < MaxEdits /\ \E i \in Standing(shelf) : Edit([shelf EXCEPT !.item[i] = NoEntry, !.fts[i] = NoFtsRow])

\* A rename of an artist: its keys, and the rows and keys of everything that names it.
RenameArtist == edits < MaxEdits /\ \E a \in ArtistId, n \in NewNames :
    LET named == [shelf EXCEPT !.artist[a].name = n]
        I == {i \in Standing(shelf) : a \in {shelf.item[i].artist, shelf.item[i].credit}}
    IN  /\ shelf.artist[a].name # n
        /\ Edit(RebuildItemSearchFTS(RefreshSortSpellingKeys(named, {<<"artist", a>>} \cup {<<"track", i>> : i \in I}), I))

-----------------------------------------------------------------------------
(* db verify --fix: the keys, then the search rows.                        *)

QuietFix == UNCHANGED <<find, edits, searches, drifted>>
StartFix ==
    /\ fixes < MaxFixes /\ fix.phase = "idle"
    /\ fixes' = fixes + 1
    /\ fix' = [NoFix EXCEPT !.phase = "keys", !.kinds = <<"item", "artist", "album">>]
    /\ QuietFix /\ UNCHANGED <<shelf, fixFaults, crossed, stood, ever>>

\* RefreshSortKeys: the walk of the next kind of entity.
WalkKind ==
    /\ fix.phase = "keys" /\ fix.snap = << >> /\ fix.kinds # << >>
    /\ fix' = [fix EXCEPT !.kinds = Tail(@), !.snap = WalkSortKeys(shelf, Head(fix.kinds))]
    /\ QuietFix /\ UNCHANGED <<shelf, fixes, fixFaults, crossed, stood, ever>>

PendingRows(p) == FoldLeft(LAMBDA n, R : n + Cardinality(R), 0, p)
MustFlush == PendingRows(fix.pending) >= SortKeyBatch \/ (fix.snap = << >> /\ fix.kinds = << >>)

\* add: an entity joins the batch.
AddFix ==
    /\ fix.phase = "keys" /\ fix.snap # << >> /\ PendingRows(fix.pending) < SortKeyBatch
    /\ fix' = [fix EXCEPT !.snap = Tail(@), !.pending = Append(@, Head(fix.snap))]
    /\ QuietFix /\ UNCHANGED <<shelf, fixes, fixFaults, crossed, stood, ever>>

FlushKeys ==
    LET S == UNION ToSet(fix.pending)
    IN  /\ fix.phase = "keys" /\ MustFlush
        /\ WriteShelf(Flush(shelf, S))
        /\ crossed' = crossed \cup {s.row : s \in {t \in S : KeyTexts(shelf, t.row) # t.text /\ Guarded(shelf, t)}}
        /\ fix' = [fix EXCEPT !.pending = << >>, !.phase = IF fix.snap = << >> /\ fix.kinds = << >> THEN "batch" ELSE "keys"]
        /\ QuietFix /\ UNCHANGED <<fixes, fixFaults>>

\* RebuildSearchIndex: a batch is compared in a read transaction, what differs is written
\* in another, and at the end the rows without an item are dropped.
ReadBatch ==
    LET batch == FirstOf(SearchItems(shelf, fix.after), IndexBatch)
    IN  /\ fix.phase = "batch"
        /\ fix' = IF batch = {} THEN [fix EXCEPT !.phase = "orphans"]
                  ELSE LET stale == StaleSearchRows(shelf, batch)
                       IN  [fix EXCEPT !.after = Max(batch), !.stale = stale, !.phase = IF stale = {} THEN "batch" ELSE "write"]
        /\ QuietFix /\ UNCHANGED <<shelf, fixes, fixFaults, crossed, stood, ever>>
WriteBatch ==
    /\ fix.phase = "write"
    /\ WriteShelf(RefreshSearchRows(shelf, fix.stale))
    /\ fix' = [fix EXCEPT !.phase = "batch", !.stale = {}]
    /\ QuietFix /\ UNCHANGED <<fixes, fixFaults, crossed>>
DropOrphans ==
    /\ fix.phase = "orphans"
    /\ WriteShelf([shelf EXCEPT !.fts = [i \in ItemId |-> IF i \in OrphanRows(shelf) THEN NoFtsRow ELSE @[i]]])
    /\ fix' = [NoFix EXCEPT !.phase = "done"]
    /\ QuietFix /\ UNCHANGED <<fixes, fixFaults, crossed>>

\* A transaction fails: what is left waits for another --fix.
FixFails ==
    /\ fixFaults < MaxFixFaults /\ fix.phase \in {"keys", "write", "orphans"}
    /\ fixFaults' = fixFaults + 1 /\ fix' = NoFix
    /\ QuietFix /\ UNCHANGED <<shelf, fixes, crossed, stood, ever>>

-----------------------------------------------------------------------------
(* A search: one statement after another, each of one state of the tables. *)

QuietFind == UNCHANGED <<shelf, fix, edits, fixes, fixFaults, drifted, crossed, stood, ever>>

AskSearch ==
    /\ searches < MaxSearches /\ find.phase \in {"idle", "answered"}
    /\ \E q \in Questions :
        /\ find' = [NoSearch EXCEPT !.phase = "rows", !.ask = q]
        /\ stood' = Sought(shelf, q) /\ ever' = Sought(shelf, q)
    /\ searches' = searches + 1
    /\ UNCHANGED <<shelf, fix, edits, fixes, fixFaults, drifted, crossed>>

ReadMatches ==
    /\ find.phase = "rows" /\ WordsOf[find.ask.text] # {}
    /\ \E rows \in SetToSeqs(SearchPool(shelf, find.ask)) :
        find' = [ScanRows(shelf, find, rows) EXCEPT !.phase = "artists", !.orphaned = OrphanRows(shelf) # {}]
    /\ QuietFind /\ UNCHANGED searches
ReadBySortKey ==
    /\ find.phase = "rows" /\ WordsOf[find.ask.text] = {}
    /\ find' = IF FoldOf[find.ask.text] = 0 THEN [find EXCEPT !.phase = "answered"]
               ELSE [ScanRows(shelf, find, SetToSortSeq(ItemsBySortKey(shelf, find.ask), >)) EXCEPT !.phase = "artists"]
    /\ QuietFind /\ UNCHANGED searches

AddHits(hits, S, hit(_), limit) == FoldLeft(LAMBDA s, x : AddOnce(s, hit(x)), hits, SetToSortSeq(FirstOf(S, limit), <))
ReadArtists ==
    LET found == ArtistsByName(shelf, find.ask)
    IN  /\ find.phase = "artists"
        /\ find' = [find EXCEPT !.phase = "albums", !.artists = AddHits(@, found, LAMBDA a : ArtistHit(shelf, a), find.ask.limit),
                                !.crowded = IF Cardinality(found) > find.ask.limit THEN @ \cup {"artist"} ELSE @]
        /\ QuietFind /\ UNCHANGED searches
ReadAlbums ==
    LET found == AlbumsByName(shelf, find.ask)
        albums == AddHits(find.albums, found, LAMBDA b : AlbumHit(shelf, b), find.ask.limit)
        ranked == [find EXCEPT !.artists = RankByTier(@, find.ask.text, find.ask.limit),
                               !.albums = RankByTier(albums, find.ask.text, find.ask.limit),
                               !.crowded = IF Cardinality(found) > find.ask.limit THEN @ \cup {"album"} ELSE @]
    IN  /\ find.phase = "albums"
        /\ find' = [ranked EXCEPT !.phase = IF WordsOf[find.ask.text] # {} /\ Len(find.episodes) < find.ask.limit THEN "transcripts" ELSE "answered"]
        /\ QuietFind /\ UNCHANGED searches

\* searchTranscripts: limit rows of the ranked ones, less the episodes already listed.
ReadTranscripts ==
    /\ find.phase = "transcripts"
    /\ \E rows \in SetToSeqs(TranscriptHits(shelf, find.ask)) :
        LET unseen == SelectSeq(UpTo(rows, find.ask.limit), LAMBDA i : i \notin find.seen)
        IN  find' = [find EXCEPT !.phase = "answered", !.episodes = FoldLeft(LAMBDA s, i : Capped(s, i, find.ask.limit), @, unseen)]
    /\ QuietFind /\ UNCHANGED searches

-----------------------------------------------------------------------------
RowRight(i) == shelf.item[i].kind # "none" => shelf.fts[i] = StoredSearchRow(shelf, i, shelf.item[i].kind)
KeyRight(r) == HasKeyRow(shelf, r) => shelf.keys[r] = KeysOf(shelf, r)

SearchInit ==
    /\ shelf \in ShelfStart /\ fix = NoFix /\ find = NoSearch
    /\ edits = 0 /\ fixes = 0 /\ fixFaults = 0 /\ searches = 0
    /\ drifted = [rows |-> {i \in ItemId : ~RowRight(i)} \cup OrphanRows(shelf), keys |-> {r \in KeyRow : ~KeyRight(r)}]
    /\ crossed = {} /\ stood = NoneSought /\ ever = NoneSought

WriterNext == ShelveItem \/ EditTitle \/ EditCredit \/ ChangeKind \/ MoveItem \/ UnshelveItem \/ RenameArtist
FixNext == StartFix \/ WalkKind \/ AddFix \/ FlushKeys \/ ReadBatch \/ WriteBatch \/ DropOrphans \/ FixFails
FindNext == AskSearch \/ ReadMatches \/ ReadBySortKey \/ ReadArtists \/ ReadAlbums \/ ReadTranscripts

SearchNext == WriterNext \/ FixNext \/ FindNext

SearchSpec == SearchInit /\ [][SearchNext]_searchVars

-----------------------------------------------------------------------------
\* What was in step stays so under writers and repair alike, and once a repair has
\* finished everything is, whatever was written while it ran (searchindex.go,
\* sortkeys.go).  Exempt: a key whose text was written between the repair's read and
\* its write by a writer that stored the very key the repair had read as stale.
IndexInStep ==
    LET done == fix.phase = "done"
    IN  /\ \A i \in ItemId : RowRight(i) \/ (i \in drifted.rows /\ ~done)
        /\ OrphanRows(shelf) \subseteq (IF done THEN {} ELSE drifted.rows)
        /\ \A r \in KeyRow : KeyRight(r) \/ r \in crossed \/ (r \in drifted.keys /\ ~done)
        /\ done /\ crossed = {} => Consistent(VerifyDerived(shelf))

Listed(i) == i \in ToSet(find.tracks) \cup ToSet(find.books) \cup ToSet(find.episodes)
Full(s) == Len(s) = find.ask.limit
FullOfExact(hits) == Full(hits) /\ \A h \in ToSet(hits) : SearchTier(h.name, find.ask.text) = 0
GroupOf(k) == IF k = "book" THEN find.books ELSE IF k = "episode" THEN find.episodes ELSE find.tracks

\* A search that does not say Truncated lists every item that matched and was in the
\* scope at each moment of it, as far as its group has room; it lists the artist or
\* album whose own name is the query even when other matches fill the ranked rows,
\* unless more than a group of them share the key; nothing is listed twice, and nothing
\* that was never in the scope (search.go).  Exempt: a capped pool in which a row
\* without an item took a place (a catalog not in step).
AnswerHolds ==
    find.phase = "answered" =>
    /\ \A p \in stood.items : find.truncated \/ find.orphaned \/ Listed(p[1]) \/ Full(GroupOf(p[2]))
    /\ \A a \in stood.artists : "artist" \in find.crowded \/ a \in IdsOf(find.artists) \/ FullOfExact(find.artists)
    /\ \A b \in stood.albums : "album" \in find.crowded \/ b \in IdsOf(find.albums) \/ FullOfExact(find.albums)
    /\ Cardinality(IdsOf(find.artists)) = Len(find.artists) /\ Cardinality(IdsOf(find.albums)) = Len(find.albums)
    /\ \A s \in {find.tracks, find.books, find.episodes} : IsInjective(s)
    /\ \A i \in ItemId : Listed(i) => i \in ever.scope
=============================================================================
