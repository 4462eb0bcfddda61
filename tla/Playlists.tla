----------------------------- MODULE Playlists -----------------------------
(***************************************************************************)
(* Playlists: static lists of entries, smart lists evaluated on read, and  *)
(* the M3U8 documents they leave and come back through.                    *)
(*                                                                         *)
(* An entry is a row (playlist, position, item).  A caller names an entry  *)
(* by its index in the listing it read, so every write keeps the positions *)
(* equal to the indexes; a catalog of an older build may hold gaps until   *)
(* the list is next changed.  Items leave under the playlists' feet: a     *)
(* scan deletes them, or folds one into another, and the foreign keys take *)
(* the entries along.                                                      *)
(*                                                                         *)
(* Each store call is one transaction.  SetPlaylistRule reads the stored   *)
(* rule before its transaction; as it writes nothing it read and a         *)
(* playlist never changes kind, it is one step here.  An unseeded random   *)
(* rule draws anew on each read and is left out.                           *)
(***************************************************************************)
EXTENDS Integers, FiniteSets, Sequences, SequencesExt, FiniteSetsExt, TLC

CONSTANTS
    ListPid,      \* the pids playlists are made with
    Song,         \* items
    Member,       \* users
    PathOf,       \* the display path of each song's primary file, NoPath for none
    Behind,       \* the songs behind each path, through any of their files
    Anchored,     \* the paths that are absolute or rooted
    LabelOf,      \* "artist - title" of each song, as MatchKey folds it
    TitleOf,      \* the title of each song, as MatchKey folds it
    SecsOf,       \* the length of each song in seconds, 0 for unknown
    BytesOf,      \* the summed size of each song's files
    SortOrder, ShuffleOrder,  \* the catalog in sort_key order, and as the seed shuffles it
    SmartRule,    \* the rules smart playlists are given
    Choice,       \* the lists of songs callers give
    Scopes,       \* the scopes imports are given
    Narrows,      \* the sets of songs counts are narrowed to, Song for none
    OldList,      \* the entries a list of an older catalog has, by position
    Document,     \* M3U8 documents from elsewhere
    FetchCap, CandidateCap,   \* maxPathFetch, maxPathCandidates
    ScanCeiling,  \* budgetScanCeiling
    MaxEntries,   \* bound: entries of a list
    MaxListOps    \* bound: operations

VARIABLES
    catalog,  \* the songs the catalog holds
    lists,    \* the playlist and playlist_item rows, by pid
    covers,   \* the playlists with art rows
    queue,    \* play_queue, per user
    starred,  \* the songs each user starred
    seen,     \* the listing each user last read
    pending,  \* an import between its lookups and its write
    told,     \* the change-log rows of the last transaction
    cut,      \* the removal by index the last step made
    listOps

listVars == <<catalog, lists, covers, queue, starred, seen, pending, told, cut, listOps>>

NoPath == "no path"
NoLabel == ""
NoSong == "no song"
NoRule == [where |-> "none", mode |-> "count", limit |-> 0, offset |-> 0, seeded |-> FALSE, sorted |-> FALSE]
NoList == [kind |-> "none", owner |-> "", vis |-> "", at |-> << >>, rule |-> NoRule]
NoImport == [owner |-> "", items |-> << >>, open |-> FALSE]
NoCut == [pl |-> "", idx |-> {}, expect |-> << >>]
NotSeen == [pl |-> "", items |-> << >>]

Existing == {p \in ListPid : lists[p].kind # "none"}
Static == {p \in ListPid : lists[p].kind = "static"}

-----------------------------------------------------------------------------
(* Entries: a function from stored positions to songs.                     *)

Ascending(ints) == [k \in 1..Cardinality(ints) |-> CHOOSE i \in ints : Cardinality({j \in ints : j < i}) = k - 1]
Positions(at) == Ascending(DOMAIN at)
EntriesInOrder(at) == LET order == Positions(at) IN [k \in DOMAIN order |-> at[order[k]]]
EntriesFrom(items) == [k \in 0..Len(items) - 1 |-> items[k + 1]]
DropEntries(at, gone) == [k \in DOMAIN at \ gone |-> at[k]]
Drifted(at) == DOMAIN at # 0..Cardinality(DOMAIN at) - 1

\* compactPlaylistTx
CompactPlaylist(at) == EntriesFrom(EntriesInOrder(at))

\* entryHolders: who holds an entry of these songs before they go
HoldersOf(songs) == {p \in Existing : \E k \in DOMAIN lists[p].at : lists[p].at[k] \in songs}
QueuesOf(songs) == {u \in Member : \E k \in DOMAIN queue[u] : queue[u][k] \in songs}
HolderDeltas(songs) == ({"playlist"} \X HoldersOf(songs)) \cup ({"play_queue"} \X QueuesOf(songs))

\* settleTx over the holders: renumbered and announced
Settled(L, holders) == [p \in ListPid |-> IF p \in holders THEN [L[p] EXCEPT !.at = CompactPlaylist(@)] ELSE L[p]]

-----------------------------------------------------------------------------
(* Smart rules.                                                            *)

Budget(rule) == rule.mode \in {"minutes", "megabytes"}

\* validateLimitMode
ValidLimit(rule) ==
    /\ rule.mode = "count" => ~rule.seeded
    /\ rule.mode # "count" => rule.limit > 0
    /\ rule.sorted => rule.mode # "random" /\ ~rule.seeded

Matches(where, u) ==
    {s \in catalog : CASE where = "all" -> TRUE
                       [] where = "starred" -> s \in starred[u]
                       [] where = "filed" -> PathOf[s] # NoPath}

\* scanBudgetItems: the first row that does not fit ends the fill
FillStep(cost(_), acc, s) ==
    IF acc.over \/ acc.read = ScanCeiling THEN [acc EXCEPT !.over = TRUE]
    ELSE IF cost(s) = 0 THEN [acc EXCEPT !.read = @ + 1]
    ELSE IF cost(s) > acc.left THEN [acc EXCEPT !.over = TRUE]
    ELSE [acc EXCEPT !.read = @ + 1, !.left = @ - cost(s), !.out = Append(@, s)]
BudgetItems(rows, rule) ==
    LET cost(s) == IF rule.mode = "minutes" THEN SecsOf[s] ELSE BytesOf[s]
    IN  FoldLeft(LAMBDA acc, s : FillStep(cost, acc, s),
                 [left |-> rule.limit, out |-> << >>, over |-> FALSE, read |-> 0], rows).out

\* queryItemsStmt, queryItems
QueryItems(rule, u) ==
    LET shuffled == rule.mode = "random" \/ (Budget(rule) /\ rule.seeded)
        ordered == SelectSeq(IF shuffled THEN ShuffleOrder ELSE SortOrder, LAMBDA s : s \in Matches(rule.where, u))
        rows == SubSeq(ordered, rule.offset + 1, Len(ordered))
    IN  IF Budget(rule) THEN BudgetItems(rows, rule)
        ELSE IF rule.limit > 0 THEN SubSeq(rows, 1, IF Len(rows) < rule.limit THEN Len(rows) ELSE rule.limit)
        ELSE rows

\* CountItems: limit, offset and mode ignored; narrow = Song stands for none
CountItems(where, u, narrow) == Cardinality(Matches(where, u) \cap narrow)

\* PlaylistItems
PlaylistItems(p, u) ==
    IF lists[p].kind = "smart" THEN QueryItems(lists[p].rule, u) ELSE EntriesInOrder(lists[p].at)

CountIn(items, narrow) == Cardinality({k \in DOMAIN items : items[k] \in narrow})

CountStaticItems(p, narrow) == CountIn(EntriesInOrder(lists[p].at), narrow)
CountEvaluated(rule, u, narrow) == CountIn(QueryItems(rule, u), narrow)

\* CountPlaylistItems with every limited rule counted and clamped
CountClamped(p, u, narrow) ==
    IF lists[p].kind # "smart" THEN CountStaticItems(p, narrow)
    ELSE LET rule == lists[p].rule
             n == CountItems(rule.where, u, narrow)
         IN  IF rule.limit > 0 /\ rule.limit < n THEN rule.limit ELSE n
CountPlaylistItems(p, u, narrow) ==
    IF lists[p].kind # "smart" THEN CountStaticItems(p, narrow)
    ELSE LET rule == lists[p].rule
             n == CountItems(rule.where, u, narrow)
         IN  IF rule.limit = 0 /\ rule.offset = 0 THEN n
             ELSE IF rule.offset = 0 /\ narrow = Song /\ ~Budget(rule)
             THEN IF n < rule.limit THEN n ELSE rule.limit
             ELSE CountEvaluated(rule, u, narrow)

-----------------------------------------------------------------------------
(* M3U8 documents: a line is a path with the label and the length the      *)
(* #EXTINF line before it states (secs = -1 for none).                     *)

\* writeM3U8: the songs without a file, or gone, are left out
WriteM3U8(items) ==
    LET written == SelectSeq(items, LAMBDA s : s \in catalog /\ PathOf[s] # NoPath)
    IN  [k \in DOMAIN written |-> [path |-> PathOf[written[k]], label |-> LabelOf[written[k]], secs |-> SecsOf[written[k]]]]

\* ItemsByPlaylistPaths
ItemsByPath(path, limit) ==
    LET songs == Behind[path] \cap catalog
    IN  [songs |-> IF Cardinality(songs) > limit THEN {} ELSE songs, overflow |-> Cardinality(songs) > limit]

\* namedByPath; a scope is the songs the caller may hold, set or not
NamedByPath(path, scope) ==
    LET relative == path \notin Anchored
        got == ItemsByPath(path, IF relative /\ ~scope.set THEN CandidateCap ELSE FetchCap)
        admitted == got.songs \cap scope.songs
    IN  IF got.overflow \/ (relative /\ Cardinality(admitted) > CandidateCap)
        THEN [songs |-> {}, several |-> FALSE]
        ELSE [songs |-> admitted, several |-> Cardinality(got.songs) > 1]

PickByName(line, songs, several) ==
    LET byName == {s \in songs : line.label \in {LabelOf[s], TitleOf[s]}}
    IN  IF Cardinality(songs) = 1 /\ (~several \/ line.label = NoLabel) THEN CHOOSE s \in songs : TRUE
        ELSE IF line.label # NoLabel /\ Cardinality(byName) = 1 THEN CHOOSE s \in byName : TRUE
        ELSE NoSong
\* m3uEntry.pick
Pick(line, songs, several) ==
    LET byName == {s \in songs : line.label \in {LabelOf[s], TitleOf[s]}}
        timed == {s \in byName : SecsOf[s] - line.secs \in -1..1}
        left == IF Cardinality(byName) > 1 /\ line.secs >= 0 THEN timed ELSE byName
    IN  IF Cardinality(songs) = 1 /\ (~several \/ line.label = NoLabel) THEN CHOOSE s \in songs : TRUE
        ELSE IF line.label # NoLabel /\ Cardinality(left) = 1 THEN CHOOSE s \in left : TRUE
        ELSE NoSong

\* resolveM3U8: the song of each line; a line that names the song of the line before through another file is merged
ResolveM3U8(doc, scope) ==
    LET picked == [k \in DOMAIN doc |->
                     LET n == NamedByPath(doc[k].path, scope) IN Pick(doc[k], n.songs, n.several)]
    IN  [k \in DOMAIN doc |-> [song |-> picked[k],
            merged |-> k > 1 /\ picked[k] # NoSong /\ picked[k - 1] = picked[k] /\ doc[k - 1].path # doc[k].path]]

\* ImportM3U8With: the songs that become entries
Imported(doc, scope) ==
    LET lines == ResolveM3U8(doc, scope)
        kept == SelectSeq(lines, LAMBDA m : m.song # NoSong /\ ~m.merged)
    IN  [k \in DOMAIN kept |-> kept[k].song]

-----------------------------------------------------------------------------
(* Operations.                                                             *)

StepOn == listOps < MaxListOps /\ listOps' = listOps + 1

ListRow(kind, owner, vis, items, rule) ==
    [kind |-> kind, owner |-> owner, vis |-> vis, at |-> EntriesFrom(items), rule |-> rule]

CreatePlaylist(p, u, vis, rule) ==
    /\ StepOn /\ p \notin Existing
    /\ rule # NoRule => ValidLimit(rule)
    /\ lists' = [lists EXCEPT ![p] = ListRow(IF rule = NoRule THEN "static" ELSE "smart", u, vis, << >>, rule)]
    /\ told' = {<<"playlist", p>>} /\ cut' = NoCut
    /\ UNCHANGED <<catalog, covers, queue, starred, seen, pending>>

DeleteKeepsCover(p) ==
    /\ StepOn /\ p \in Existing
    /\ lists' = [lists EXCEPT ![p] = NoList]
    /\ told' = {<<"playlist", p>>} /\ cut' = NoCut
    /\ UNCHANGED <<catalog, covers, queue, starred, seen, pending>>
DeletePlaylist(p) ==
    /\ StepOn /\ p \in Existing
    /\ covers' = covers \ {p}
    /\ lists' = [lists EXCEPT ![p] = NoList]
    /\ told' = {<<"playlist", p>>} /\ cut' = NoCut
    /\ UNCHANGED <<catalog, queue, starred, seen, pending>>

\* a cover set on a playlist (Art has the art rows themselves)
SetCover(p) ==
    /\ StepOn /\ p \in Existing \ covers
    /\ covers' = covers \cup {p}
    /\ told' = {<<"playlist", p>>} /\ cut' = NoCut
    /\ UNCHANGED <<catalog, lists, queue, starred, seen, pending>>

\* playlistUpdate: a column of the row
UpdatePlaylist(p, row) ==
    /\ lists' = [lists EXCEPT ![p] = row]
    /\ told' = {<<"playlist", p>>} /\ cut' = NoCut
    /\ UNCHANGED <<catalog, covers, queue, starred, seen, pending>>

SetPlaylistVisibility(p, vis) == StepOn /\ p \in Existing /\ UpdatePlaylist(p, [lists[p] EXCEPT !.vis = vis])

SetPlaylistOwner(p, u) ==
    StepOn /\ p \in Existing /\ lists[p].owner # u /\ UpdatePlaylist(p, [lists[p] EXCEPT !.owner = u])

TransferPlaylists(from, to) ==
    LET owned == {p \in Existing : lists[p].owner = from}
    IN  /\ StepOn /\ from # to /\ owned # {}
        /\ lists' = [p \in ListPid |-> IF p \in owned THEN [lists[p] EXCEPT !.owner = to] ELSE lists[p]]
        /\ told' = {"playlist"} \X owned /\ cut' = NoCut
        /\ UNCHANGED <<catalog, covers, queue, starred, seen, pending>>

SetPlaylistRule(p, rule) ==
    /\ StepOn /\ lists[p].kind = "smart" /\ ValidLimit(rule) /\ lists[p].rule # rule
    /\ UpdatePlaylist(p, [lists[p] EXCEPT !.rule = rule])

AddPlaylistItems(p, items) ==
    LET at == IF Drifted(lists[p].at) THEN CompactPlaylist(lists[p].at) ELSE lists[p].at
        n == Cardinality(DOMAIN at)
    IN  /\ StepOn /\ p \in Static /\ ToSet(items) \subseteq catalog
        /\ n + Len(items) <= MaxEntries
        /\ UpdatePlaylist(p, [lists[p] EXCEPT !.at = [k \in 0..n + Len(items) - 1 |->
                                 IF k < n THEN at[k] ELSE items[k - n + 1]]])

SetPlaylistItems(p, items) ==
    /\ StepOn /\ p \in Static /\ ToSet(items) \subseteq catalog
    /\ UpdatePlaylist(p, [lists[p] EXCEPT !.at = EntriesFrom(items)])

RemovePlaylistItem(p, s) ==
    LET gone == {k \in DOMAIN lists[p].at : lists[p].at[k] = s}
    IN  /\ StepOn /\ p \in Static /\ s \in catalog /\ gone # {}
        /\ UpdatePlaylist(p, [lists[p] EXCEPT !.at = CompactPlaylist(DropEntries(@, gone))])

\* a user reads a listing; what it names by index later is of this listing
ReadListing(u, p) ==
    /\ p \in Existing /\ seen[u] # [pl |-> p, items |-> PlaylistItems(p, u)]
    /\ seen' = [seen EXCEPT ![u] = [pl |-> p, items |-> PlaylistItems(p, u)]]
    /\ told' = {} /\ cut' = NoCut
    /\ UNCHANGED <<catalog, lists, covers, queue, starred, pending, listOps>>

InRange(at, idx, expect) == \A k \in idx : k <= Cardinality(DOMAIN at)
\* the guard of each index: the entry is there and holds what the caller saw
StillListed(at, idx, expect) ==
    /\ \A k \in idx : k <= Cardinality(DOMAIN at)
    /\ \A k \in idx : EntriesInOrder(at)[k] = expect[k]

\* removePlaylistEntries, guarded with the listing the user read (index k is the entry k - 1 of the code)
RemovePlaylistEntries(u, p, idx) ==
    LET at == lists[p].at
        gone == {Positions(at)[k] : k \in idx}
    IN  /\ StepOn /\ p \in Static /\ seen[u].pl = p
        /\ idx # {} /\ idx \subseteq DOMAIN seen[u].items
        /\ StillListed(at, idx, seen[u].items)
        /\ lists' = [lists EXCEPT ![p].at = CompactPlaylist(DropEntries(@, gone))]
        /\ cut' = [pl |-> p, idx |-> idx, expect |-> seen[u].items]
        /\ told' = {<<"playlist", p>>}
        /\ UNCHANGED <<catalog, covers, queue, starred, seen, pending>>

\* ImportM3U8With up to its write: every line looked up
ImportLooksUp(u, doc, scope) ==
    /\ StepOn /\ ~pending.open /\ Len(doc) <= MaxEntries
    /\ pending' = [owner |-> u, items |-> Imported(doc, scope), open |-> TRUE]
    /\ told' = {} /\ cut' = NoCut
    /\ UNCHANGED <<catalog, lists, covers, queue, starred, seen>>

CreateUnlooked(p) ==
    /\ pending.open /\ p \notin Existing
    /\ pending' = NoImport /\ cut' = NoCut
    /\ lists' = [lists EXCEPT ![p] = ListRow("static", pending.owner, "private", pending.items, NoRule)]
    /\ told' = {<<"playlist", p>>}
    /\ UNCHANGED <<catalog, covers, queue, starred, seen, listOps>>
\* CreatePlaylistWithItems: the playlist and its entries, or neither
CreateWithItems(p) ==
    /\ pending.open /\ p \notin Existing
    /\ pending' = NoImport /\ cut' = NoCut
    /\ IF ToSet(pending.items) \subseteq catalog
       THEN /\ lists' = [lists EXCEPT ![p] = ListRow("static", pending.owner, "private", pending.items, NoRule)]
            /\ told' = {<<"playlist", p>>}
       ELSE UNCHANGED lists /\ told' = {}
    /\ UNCHANGED <<catalog, covers, queue, starred, seen, listOps>>

\* compactAllPlaylistsTx: the listings stand, so nothing is announced
CompactAllPlaylists ==
    LET drifted == {p \in Existing : Drifted(lists[p].at)}
    IN  /\ StepOn /\ drifted # {}
        /\ lists' = Settled(lists, drifted)
        /\ told' = {} /\ cut' = NoCut
        /\ UNCHANGED <<catalog, covers, queue, starred, seen, pending>>

SetQueue(u, items) ==
    /\ StepOn /\ ToSet(items) \subseteq catalog /\ queue[u] # items
    /\ queue' = [queue EXCEPT ![u] = items]
    /\ told' = {<<"play_queue", u>>} /\ cut' = NoCut
    /\ UNCHANGED <<catalog, lists, covers, starred, seen, pending>>

StarSong(u, s) ==
    /\ StepOn /\ s \in catalog \ starred[u]
    /\ starred' = [starred EXCEPT ![u] = @ \cup {s}]
    /\ told' = {} /\ cut' = NoCut
    /\ UNCHANGED <<catalog, lists, covers, queue, seen, pending>>

WithoutSongs(L, songs) ==
    [p \in ListPid |-> [L[p] EXCEPT !.at = DropEntries(@, {k \in DOMAIN @ : @[k] \in songs})]]

\* the items gone, nothing settled
CascadeAlone(songs) ==
    /\ lists' = WithoutSongs(lists, songs)
    /\ told' = HolderDeltas(songs)
\* deleteItemCascade over a batch: the foreign keys take the entries, the holders are settled
DeleteItemCascade(songs) ==
    /\ lists' = Settled(WithoutSongs(lists, songs), HoldersOf(songs))
    /\ told' = HolderDeltas(songs)

\* a scan or a purge deletes items
ItemsGo(songs) ==
    /\ StepOn /\ songs # {} /\ songs \subseteq catalog
    /\ DeleteItemCascade(songs)
    /\ catalog' = catalog \ songs
    /\ queue' = [u \in Member |-> SelectSeq(queue[u], LAMBDA s : s \notin songs)]
    /\ starred' = [u \in Member |-> starred[u] \ songs]
    /\ cut' = NoCut
    /\ UNCHANGED <<covers, seen, pending>>

Repointed(at, loser, survivor) ==
    LET mine == {k \in DOMAIN at : at[k] = loser}
    IN  IF \E k \in DOMAIN at : at[k] = survivor THEN DropEntries(at, mine)
        ELSE [k \in DOMAIN at |-> IF k \in mine THEN survivor ELSE at[k]]
RepointedQueue(items, loser, survivor) ==
    IF survivor \in ToSet(items) THEN SelectSeq(items, LAMBDA s : s # loser)
    ELSE [k \in DOMAIN items |-> IF items[k] = loser THEN survivor ELSE items[k]]

FoldTellsQueues(loser) == {"play_queue"} \X QueuesOf({loser})
FoldTells(loser) == HolderDeltas({loser})

\* foldItemIntoTx: the loser's entries go to the survivor, or away where it is listed already
FoldItemInto(loser, survivor) ==
    /\ StepOn /\ loser # survivor /\ {loser, survivor} \subseteq catalog
    /\ lists' = Settled([p \in ListPid |-> [lists[p] EXCEPT !.at = Repointed(@, loser, survivor)]],
                        HoldersOf({loser}))
    /\ queue' = [u \in Member |-> RepointedQueue(queue[u], loser, survivor)]
    /\ starred' = [u \in Member |-> (starred[u] \ {loser}) \cup (IF loser \in starred[u] THEN {survivor} ELSE {})]
    /\ catalog' = catalog \ {loser}
    /\ told' = FoldTells(loser) /\ cut' = NoCut
    /\ UNCHANGED <<covers, seen, pending>>

\* a scan catalogs an item
ItemComes(s) ==
    /\ StepOn /\ s \notin catalog
    /\ catalog' = catalog \cup {s}
    /\ told' = {} /\ cut' = NoCut
    /\ UNCHANGED <<lists, covers, queue, starred, seen, pending>>

-----------------------------------------------------------------------------
Visibility == {"private", "shared"}

\* a new catalog, or one whose older build left a list with gaps
ListsInit ==
    /\ catalog = Song
    /\ \/ lists = [p \in ListPid |-> NoList]
       \/ lists = [p \in ListPid |-> IF p = CHOOSE q \in ListPid : TRUE
                      THEN [NoList EXCEPT !.kind = "static", !.owner = CHOOSE u \in Member : TRUE,
                                          !.vis = "private", !.at = OldList]
                      ELSE NoList]
    /\ covers = {} /\ queue = [u \in Member |-> << >>] /\ starred = [u \in Member |-> {}]
    /\ seen = [u \in Member |-> NotSeen] /\ pending = NoImport
    /\ told = {} /\ cut = NoCut /\ listOps = 0

ListsNext ==
    \/ \E p \in ListPid :
         \/ \E u \in Member, vis \in Visibility, rule \in SmartRule \cup {NoRule} : CreatePlaylist(p, u, vis, rule)
         \/ DeletePlaylist(p) \/ SetCover(p) \/ CreateWithItems(p)
         \/ \E vis \in Visibility : SetPlaylistVisibility(p, vis)
         \/ \E rule \in SmartRule : SetPlaylistRule(p, rule)
         \/ \E items \in Choice : AddPlaylistItems(p, items) \/ SetPlaylistItems(p, items)
         \/ \E s \in Song : RemovePlaylistItem(p, s)
         \/ \E u \in Member : SetPlaylistOwner(p, u) \/ ReadListing(u, p)
         \/ \E u \in Member : \E idx \in SUBSET (1..MaxEntries) : RemovePlaylistEntries(u, p, idx)
    \/ \E from, to \in Member : TransferPlaylists(from, to)
    \/ \E u \in Member, scope \in Scopes :
         \/ \E doc \in Document : ImportLooksUp(u, doc, scope)
         \/ \E p \in Existing : ImportLooksUp(u, WriteM3U8(PlaylistItems(p, u)), scope)
    \/ CompactAllPlaylists
    \/ \E u \in Member, s \in Song : StarSong(u, s)
    \/ \E u \in Member, items \in Choice : SetQueue(u, items)
    \/ \E songs \in SUBSET Song : ItemsGo(songs)
    \/ \E loser, survivor \in Song : FoldItemInto(loser, survivor)
    \/ \E s \in Song : ItemComes(s)

ListsSpec == ListsInit /\ [][ListsNext]_listVars

-----------------------------------------------------------------------------
(* Properties.                                                             *)

(* A listed item is in the catalog, in playlists and queues alike: an      *)
(* import that was overtaken by a delete leaves nothing (playlist.go       *)
(* CreatePlaylistWithItems), and a delete takes its entries along.         *)
EntriesStand ==
    /\ \A p \in ListPid : \A k \in DOMAIN lists[p].at : lists[p].at[k] \in catalog
    /\ \A u \in Member : ToSet(queue[u]) \subseteq catalog
    /\ \A p \in ListPid : lists[p].kind # "static" => DOMAIN lists[p].at = {}

(* A stored position is the entry's listing index once a list has been     *)
(* changed or repaired: the only list with gaps is the one an older        *)
(* catalog left, as it left it (compactPlaylistTx, settlePlaylistTx).      *)
PositionsAreIndexes ==
    \A p \in Existing : Drifted(lists[p].at) => DOMAIN lists[p].at = DOMAIN OldList

(* A listing or a queue never changes without a change-log row that says   *)
(* so in the same transaction, also when it changed because an item was    *)
(* deleted or folded (entryHolders).                                       *)
ListingTold ==
       /\ \A p \in ListPid :
             (lists'[p].kind # lists[p].kind
                \/ EntriesInOrder(lists'[p].at) # EntriesInOrder(lists[p].at)) => <<"playlist", p>> \in told'
       /\ \A u \in Member : queue'[u] # queue[u] => <<"play_queue", u>> \in told'

(* A removal by index takes exactly the entries the caller saw, and keeps  *)
(* the order of the rest, whatever was written since the listing was read  *)
(* (removePlaylistEntries' expect).                                        *)
RemovesWhatWasSeen ==
       cut' # NoCut =>
         LET old == EntriesInOrder(lists[cut'.pl].at)
         IN  /\ \A k \in cut'.idx : k \in DOMAIN old /\ old[k] = cut'.expect[k]
             /\ EntriesInOrder(lists'[cut'.pl].at) = [k \in 1..Len(old) - Cardinality(cut'.idx) |->
                  old[Ascending(DOMAIN old \ cut'.idx)[k]]]

(* CountPlaylistItems is the number of rows PlaylistItems returns that     *)
(* match the narrow, for every kind, limit, offset and mode.               *)
CountExact ==
    \A p \in Existing, u \in Member, narrow \in Narrows :
       CountPlaylistItems(p, u, narrow) = CountIn(PlaylistItems(p, u), narrow)

\* songs no label tells apart: the same path, a shared name and a length within a second
Twins(s) == {r \in catalog \ {s} : /\ r \in Behind[PathOf[s]]
                                   /\ LabelOf[s] \in {LabelOf[r], TitleOf[r]}
                                   /\ SecsOf[r] - SecsOf[s] \in -1..1}

(* A playlist exported to M3U8 and imported again is the same listing but  *)
(* for the items without a file and those a label cannot tell apart.       *)
RoundTrip ==
    \A p \in Static :
       LET items == EntriesInOrder(lists[p].at)
           told_apart == SelectSeq(items, LAMBDA s : PathOf[s] # NoPath /\ Twins(s) = {})
       IN  Imported(WriteM3U8(items), [set |-> FALSE, songs |-> Song]) = told_apart

(* Art rows belong to a playlist that exists: a row left behind would      *)
(* cover the next playlist to take the row id (deleteEntityArtTx).         *)
CoverHasPlaylist == covers \subseteq Existing
=============================================================================
