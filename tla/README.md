# WaxBin, modelled and checked in TLA+

WaxBin is a Go library and command-line tool that owns a SQLite catalog of a
music, audiobook and podcast collection. This directory holds TLA+ modules
translated from its source, TLC configurations that check them on small
instances, and TLAPS proofs of what matters most. `PROJECT.json` is the index:
components, runs, mutants, the map from definitions to source lines, hazards and
theorems.

Run a configuration with `tlc -config MCServices.cfg MCServices`, a proof with
`tlapm HandoffProofs.tla`.

## 1. The system

### 1.1 Components, their state and operations

| Part | State it keeps | Operations |
| --- | --- | --- |
| Write ownership (`store/sqlite/flock.go`) | an flock on `<db>.waxlock`, an owner record beside it | acquire, probe, release |
| Store (`store/sqlite/store.go`) | connection pools, `closed`, the suspend mark | Open, Suspend, Reopen, Close, `writeTx` |
| Jobs (`jobs/`, `store/sqlite/jobs.go`) | job rows, one lease row per scope | Run, RunLeased, RunLeasedWait, ReclaimOrphans, cancel |
| Server (`serve.go`, `serverjobs.go`, `proxy/server.go`) | the connection that holds maintenance, `reopenOwed`, the rows of its jobs | begin, end, drop, proxied methods, jobs started for a command |
| Client and CLI (`proxy/client.go`, `cmd/waxbin`) | one framed connection, the frames owed on it | call, open through maintenance, restore |
| File moves (`internal/fsx`) | nothing; the tree itself | Move, copy then remove, prune |
| Organize (`organize/`) | plans, `organize_journal` | plan, re-check, execute, undo, recover |
| Trash (`trash/`) | `trash_pending` and `trash` rows, trash folders | delete, restore, purge, sweep, recover |
| Playback (`playback/`) | buffered ticks | Progress, Checkpoint, Flush, State |
| Play state (`store/sqlite/playback.go`) | one row per user and item, five stamps | SetProgress, MarkPlayed, SetPlayed, SetStar, SetRating |
| Change feed (`store/sqlite/changes.go`) | `change_log`, the data version, subscribers | append, page, prune, subscribe, catch up after a reopen |
| Pid-path cache (`pidpath/`) | entries, reverse index, cursor | Locate, LocateMany, Relocate, Poll |
| Watch (`watch/`) | debounce timers, watched folders, a request queue | arm, forget, schedule, rescan, set roots, degrade |
| Library roots (`waxbin.go`, `store/sqlite/catalog.go`) | library rows, the configured roots | open, reopen, add, remove, relocate |
| Scan (`scan/`, `store/sqlite/scanreconcile.go`, `copies.go`) | file rows, items, the index of a walk | scan, scan one file, settle, promote a copy |
| Books and rips (`store/sqlite/book.go`, `virtualtrack.go`, `fold.go`) | `item_file` edges, places of a listener | put a track, a book, a rip; fold; detach |
| Kinds (`kind.go`, `store/sqlite/rekind.go`, `lineage.go`) | the job's report, `item_lineage` | set kind, complete a report at open, retry |
| Curation and locks (`store/sqlite/curation.go`, `provenance.go`, `tagowed.go`) | `field_provenance`, owed tags | edit, clear, lock, fill, write back |
| Entities (`store/sqlite/entities.go`, `merge.go`, `entityfold.go`, `orphan.go`) | artists, albums, groups, folds, rollups | resolve, merge, fold, unfold, rename, sweep |
| Enrichment (`enrich/`, `store/sqlite/enrich.go`) | markers per row and lookup | pass, ask, apply, expire |
| Inbox (`inbox/`, `waxbin.go`) | plans | plan, apply |
| Acquisition records (`store/sqlite/acquisition.go`) | one record per item, its lock | set, clear, derive, inherit |
| Playlists and rules (`playlist/`, `store/sqlite/playlist.go`, `query/`) | lists, positions, rules | edit, export, import, evaluate |
| Podcasts (`podcast/`) | shows, episodes, episode files | add, sync, move, download, import, unfetch, retain, unsubscribe |
| Art and thumbnails (`store/sqlite/art.go`, `thumbs.go`, `thumbdb.go`) | art rows and pictures; caches and the thumbnail file | set, clear, lock, collect; ask for a size |
| Search (`store/sqlite/search.go`, `searchindex.go`, `sortkeys.go`) | `search_fts` rows, sort keys | maintain, repair, search |
| Backup and restore (`port/`) | a part file beside the destination | write a backup, restore, export |
| Audit, metadata reading, analysis, users, migrations, domain types | nothing that interleaves | see section 7 |

### 1.2 How the parts interact

* **One writer.** A process that opens the catalog for writing takes the flock,
  writes its owner record and opens its pools. A command that finds the lock
  held reads the record, dials the owner's socket, and either proxies its
  mutation or asks for *maintenance*: the server suspends its store, the command
  opens the catalog itself, and the server reopens when the command says it is
  done or its connection drops.
* **Leases.** Work that changes files holds a lease row of its scope. Leases and
  running rows of a dead owner are dropped by the next open.
* **Files and catalog.** Organize, trash, podcasts and the inbox change the tree
  and the catalog in separate steps; the first two with a journal row in between,
  which the next open settles. A scan brings the rows in line with the tree, and
  the watcher says when to scan.
* **Tags and catalog.** A scan reads what a file's tags say, a hand or enrichment
  says otherwise, and a write-back brings the file in line. Provenance and locks
  decide between them; what a file has not been told stays owed.
* **Rows and entities.** Every put resolves names to artists, albums and groups;
  merges, folds and renames must survive the next put of an old spelling.
* **Change feed.** Every write transaction appends rows to `change_log`.
  Consumers in other processes poll a data version and page through the log;
  consumers in the process are sent the rows.
* **Playback.** Players tick into a buffer in memory that checkpoints and
  flushes write to the play-state rows.

### 1.3 What is hard here

Three kinds of actor run against each other: goroutines of a process, processes
that pass the catalog between them, and the user's own hands on the files. A
process may die between any two steps, a rename, copy or catalog write may fail
in the middle of several, a restore replaces the catalog file under everybody,
and a plan, a cursor, a page of rows or a probe may be old when it is used.
`PROJECT.json` lists each such hazard at its line with the properties that would
catch it.

### 1.4 What makes each part correct

| Part | Properties |
| --- | --- |
| Ownership, store, jobs | one writer at a time through every suspend, crash and restore; the owner record names the holder; one leased piece of work per scope; a running row is a live job; no lease without somebody behind it |
| Hand-off | hooks alternate, a pause means a closed library, the granted command keeps its hand-off, every hand-off and every command ends |
| Organize, trash | no file is lost, each file in the trash can be found from the catalog, rows say where files are, recovery leaves good rows alone, a delete takes what it names |
| Playback, play state | the newest position survives, a checkpoint that returned has landed, flags and count agree, replays do not undo later changes |
| Feed, pid-path | a consumer with nothing left to read shows what the catalog has; a listener is handed every row or told of a gap |
| Client | a call ends with its own answer or an error, whatever was given up before it; a command asks and hears the same through a server as without one |
| Watch | a change whose event was read is rescanned; an idle watcher that does not say degraded watches every folder it holds |
| Scan, copies | an item has one primary; a scan that nothing held back leaves the catalog as the disk is; an unplugged drive loses nothing |
| Books, kinds | a listener's places stay on their audio; a known pid is kept; a cut-off change still reports what it folded |
| Roots | roots stay apart, rows stay under their root, a root that was left stays out |
| Curation | provenance tells the value, locks hold whichever spelling took them, debts to files are paid before they are forgotten |
| Entities | a name or key leads to one live row, rulings outlive scans, opinions and stars follow the music |
| Enrichment, inbox, records | nothing is asked twice or owed for ever, hands win, a freed rowid starts fresh; an import lands a book whole and replaces nothing; a record speaks of one acquisition |
| Playlists, rules | positions are indexes, a removal takes what its caller saw, a rule keeps its meaning through a document |
| Podcasts | an episode that is present has its whole file, no file is left that no row names, feeds are neither doubled nor re-addressed |
| Art, thumbnails | no picture in use is collected, a new row inherits no dead row's art, every caller gets the picture it asked for |
| Search | rows and sort keys follow every write beside a repair; an answer misses nothing that stood throughout |

## 2. Modules

```
Store ------- Handoff ------------------ HandoffProofs    Handoff        (handoff, handoff_two)
FileMoves -- Organize -- Trash ---------- TrashProofs      Trash         (files)
                           \-- Books, Art, Thumbs -------- MCCatalog     (catalog)
PlayState ------- Playback -------------- PlaybackProofs   Playback      (playback)
ChangeFeed -- PidPath,  Search ---------- PidPathProofs    MCPidPath     (pidpath)
CallPromise <= Wire,  Bus,  Proxied,  Watch
                         \--------------- ServicesProofs   MCServices    (services)
Podcast, Feeds -------------------------- PodcastProofs \
PlayState, Playlists ------------------------------------- MCPodcasts    (podcasts)
Scan, SmartRules, Kinds ---------------------------------- MCScan        (scan)
Fields, Roots ------------------------\                    MCCuration    (curation)
Enrich, Inbox, Origins ------------------ MetadataProofs   MCEnrichment  (enrichment)
Artists, Albums ------------------------------------------ MCEntities    (entities)
```

Components that share state extend one another: the hand-off has the store's
variables, organize and trash the tree's, playback the play state's rows, the
cache the feed's log. Components that meet only through a catalog row are
modules of their own, whose other side is an action of the environment (a scan in
`Trash`, an operator's hand in `Enrich`, a sync in `Podcast`). An MC module then
holds several of them side by side: `runs` picks the component a behaviour is of
when it starts, the variables of the others keep one value, and each property is
one component's over the behaviours of its own part. That is a sum of the parts
and not a product: it asks each component's questions of all its behaviours, and
nothing of two components at once.

`Handoff` is built of the steps of `Store`, which are those a catalog's ownership
and jobs may take whoever causes them: it has what the store promises by
construction, and its own properties are about what the hand-off adds.
`CallPromise` is the abstract specification of the client: calls run one at a time
and each ends with its own answer or an error. `Wire`, where answers are unnumbered
frames, implements it (`KeepsPromise`): checked and proved.

**Store** (`flock.go`, `store.go`, `jobs.go`). Per process a phase (`locking`,
`opening`, `open`, `draining`, `unlocking`, `down`), the file its connections
have open, the flock and its record; per worker how far its leased work is; per
catalog file the running rows and the lease. An action per step whose order
matters: the lock, the record and the pools, the reclaim of orphans, the drain,
the removal of the record, the unlock.

**Handoff** (`serve.go`, `proxy/server.go`, `lockwait.go`, `cmd/waxbin`). The
server's mutex is held over the whole of a begin, an end or a drop, so one
program counter stands for the handler that has it. Commands have a program
counter each and a connection with at most one request and one answer in it.

**FileMoves, Organize, Trash** (`fsx.go`, `organize.go`, `trash.go`,
`trashrecover.go`). `disk` maps places to bytes and `row` files to paths. A move
goes through its check, its rename or its copy, the removal of the source and
each way these fail. `job` is the one job that holds the lease; `jr` and `rec`
are the journal and the trash rows; `phase` is the store's way through recovery.

**PlayState, Playback** (`store/sqlite/playback.go`, `playback/playback.go`).
The row with its stamps, one action per call of the store; the buffer, the
batch of a flush and `flushMu`, with one program counter per goroutine.

**ChangeFeed, PidPath** (`changes.go`, `catalog.go`, `pidpath.go`). The catalog
as a consumer sees it: where items are, the log with its oldest row, a backup,
and the files a restore brought one after another. The cache has the three kinds
of handle the code has: over a library that writes and reopens (`shared`), over
a read-only one (`lent`), or one of its own (`own`).

**Watch** (`watch/live.go`, `watch/watch.go`). Folders form a tree. A change on
disk is an event in the kernel's queue; the read loop takes it, gives it to the
worker's bounded queue or counts it as overflow; the worker arms and forgets
folders and asks the debouncer, whose timers carry the generation they were set
in; a timer that fires puts a request to the one loop that also runs the
scheduled sweeps, follows the registered roots and hands them to the live layer.
`armed` is what the live layer holds for watched, `watches` what the source
really watches, `skipped` what a walk passed by with a warning or without a word.

**CallPromise, Wire** (`proxy/client.go`, `proto.go`). A call goes through
lock, owed frames, request, answer; a frame is two chunks, so that a call may be
given up between them. **Bus** (`changes.go`, `store.go`): a transaction's rows
are offered to a listener's bounded channel after the commit; the mark a suspend
leaves lets the next open hand out what others wrote. Either read may fail, and then
hands out nothing (`unread`).

**Proxied** (`mutator.go`, `client.go`, `proto.go`, `serve.go`, `serverjobs.go`,
`joblong.go`). One mutating command on its two ways to the library: `command` is
its method and options, `frame` the options as the wire spells them, `reply` the
server's response, `job` the row of a job it started; `asked`, `verdict` and
`told` are histories of what the library was asked, what it said and what the
command was told. The fifty-seven mutating methods (all but the ping, the three reads and the two of the
hand-off) are eight families, each with an action for
the client's half, the server's half and the command's reading of the answer;
between them the server pauses, resumes or dies, a row is reclaimed, and the
command gives up.

**Podcast** (`podcast/download.go`, `unfetch.go`, `podcast.go`). Workers with a
program counter each download or import an episode (read the row, fetch to a part
file, take the lease, rename, attach), unfetch, enforce retention or unsubscribe.
**Feeds** (`podcast/podcast.go`, `store/sqlite/podcast.go`): callers read a show,
ask the source without any lock, and write by pid; the source moves feeds and
starts naming a guid.

**Scan** (`scan/scan.go`, `store/sqlite/scanindex.go`, `copies.go`,
`catalog.go`). `scan` holds the preload, the walk's place and what it met. One
action per entry, with the transaction of its put whole: relink, new copy,
better copy, retag. The settling marks rows missing one batch at a time behind
the survival gate.

**Books** (`book.go`, `virtualtrack.go`, `fold.go`, `catalog.go`): a file is
read as a track, a part at a position or a rip whose cue cuts it in windows, and
`spot`, `marked` and `heard` remember the audio a listener's places mark.
**Kinds** (`kind.go`, `rekind.go`, `lineage.go`): a change reads its targets'
files in transactions of their own, leaves lineage, and reports at its end or at
the next open.

**Roots** (`waxbin.go`, `catalog.go`, `rootcheck.go`): a path is a sequence of
names; links and mounts decide what each spelling reaches. A library row is known by
its id, which the next row may take again.

**Fields** (`curation.go`, `provenance.go`, `scanlocks.go`, `tagowed.go`,
`tagwrite.go`): the column, the provenance row of each spelling, the credit, each
file's tag, what is owed to it, what it is known not to take, and the write-backs
under way, step by step: write, pay, note, stamp.
**Origins** (`acquisition.go`): the same for the acquisition record, whose merge
rules are functions of the record and the evidence.

**Artists, Albums** (`entities.go`, `merge.go`, `entityfold.go`,
`entityrename.go`, `editrename.go`, `scanreconcile.go`, `orphan.go`,
`rollups.go`). Every operation is one transaction, so an operator maps the tables
to the tables: resolution, merges, folds, sweeps. The history variables remember
the operator's rulings.

**Enrich** (`enrich/enrich.go`, `store/sqlite/enrich.go`): the phases of a pass,
the due rows of a page, each provider's reply, and the transaction that stores
it, with the catalog changing between them. **Inbox** (`inbox/`, `waxbin.go`):
plans and their application, file by file.

**Playlists** (`playlist/playlist.go`, `store/sqlite/playlist.go`): lists, covers,
the play queue and what each user last saw. **SmartRules** (`query/compile.go`,
`rule.go`, `playlist/nsp.go`, `nspgap.go`): rules as trees, SQL's three truth
values, and the two conversions, evaluated over a set of rules and rows.

**Art, Thumbs** (`store/sqlite/art.go`, `thumbs.go`, `thumbdb.go`): rows keyed by
type and row id with lives that tell an id's owners apart; callers, the shared
generation, the caches with their sizes and the attached file.

**Search** (`search.go`, `searchindex.go`, `sortkeys.go`, `verify.go`): the
catalog's texts and keys, the repair in its batches, and a search of several
statements.

## 3. Runs

| Run | What it checks | Properties |
| --- | --- | --- |
| `handoff` | a server with a job, one command and one restore, with crashes anywhere and reopens that fail | `StoreSafe`, `HandoffSafe`, `HandoffEnds` |
| `handoff_two` | two commands that compete | `HolderKeepsHandoff`, `CommandEnds` |
| `files` | organize, delete, restore, purge, scan and a user, with every fault and a crash anywhere | `NoBytesLost`, `TrashRecorded` |
| `catalog` | organize and trash, deletes of both modes from plans that wait, with crashes and hand-overs alone; reads of books and rips; art; thumbnails | `CatalogMatchesDisk`, `FilesNamed`; `BooksHold`, `PidsKept`; `ArtStands`; `ThumbsHold` |
| `playback` | two goroutines with ticks, checkpoints, flushes, reads, a failed write, a deletion | `PositionsKept`, `CallsReturn` |
| `pidpath` | lookups against polls, writers, prunes, backups and a restore; the search index under edits, a repair, a search | `PathsHold`; `SearchHolds` |
| `services` | the watcher; the client's framing; the change bus; a command's two ways to the library | `WatchSafe`; `Pairing`, `KeepsPromise`; `NoGapUnlessBlind`; `ServicesProgress`; `ProxyHolds` |
| `podcasts` | episode files; subscriptions; play state; playlists | `EpisodesHold`; `FeedsHold`; `PlayHolds`; `ListsHold` |
| `scan` | scans of a drive that changes and blinks; rules; changes of kind | `ScanHolds`; `RulesHold`; `KindsHold` |
| `curation` | one field of an item; the library roots | `FieldsTold`, `CurationKept`; `RootsHold` |
| `entities` | artists; albums and groups | `ArtistsHold`; `AlbumsHold` |
| `enrichment` | passes; imports; acquisition records | `RowsAskedRight`, `PassesKeep`; `ImportsHold`; `RecordsHold` |

All of them pass. A property that is a conjunction names its parts in the
module's last section, where each part has its own comment. Each property has a
mutant in `PROJECT.json`: a plausible bug in the mapped code (a lock let go before
the pools are drained, a buffer copied and not taken, an orphan's markers left
behind, ...) that makes TLC report that property.

### 3.1 Bounds and why they are enough

* `handoff`: one server job, one command, one replacement of the file. Every
  pair of actors that share a guard is there: server and command, job and
  hand-off, restore and reopen. `handoff_two` adds the pair of two commands and
  leaves job and restore out, which do not touch the connection state. What both
  check is also proved for any number of commands, jobs and files.
* `files`: two files, two paths, one trash folder, one trash row, two journal
  rows: a swap of two names needs the parked name, a second file gives every
  destination somebody to stand in the way. `TrashInv` is inductive, so the
  proofs lift the bound. `catalog` has three paths, for a swap that parks.
* Books: a recording with a copy, a better encoding and a second part that may
  grow, two reads and two acts of a listener, three acts in all: a fold needs two
  reads, a place one act before it. Art: a track, its album and group, two roles,
  three operations. Thumbs: two callers, two sizes, four operations, caches of two
  entries: enough for a shared generation, an eviction and a damaged file.
* `playback`: four calls, two goroutines, one failed write: a tick, a flush, a
  checkpoint and a call that overtakes them. Calls are bounded, so behaviours end
  and deadlock is not checked.
* `pidpath`: two items, two files, one write besides prunes, backups and a
  restore, pages of one row so that a poll has several, and a cache of one entry
  so that evictions happen; one lookup thread, since two lookups meet only in the
  maps, which each touches in one step. The handle kinds are `shared` and `own`: a
  `lent` handle does what an `own` one does whose polls fail at the reopen, so its
  behaviours are among those. Search: batches of two over three items, two edits,
  a repair with one failure or one search of limit one.
* `services`: a root and one folder under it, queues of length one, two timers: an
  overflow needs a queue that is full, a stale callback a second timer. The disk makes
  up to three changes of files, or two of folders, or one of each, from the root alone
  and one from both folders: a folder passed by needs one that comes, an event met too
  late one that goes and comes again. Four calls
  for the client, a channel of two rows and five rows for the bus. Every method with
  each of its options, those no command line sets today included (the pid of
  `playlist_remove_at`, the adopted pids of `run_scan`), and a write-back with a role or
  a lock, since the library reads
  no other two together; an error with a reason and one without.
* `podcasts`: two workers over two episodes of one show that keeps its newest, two
  operations, one fault, one sync; two callers over two addresses and two shows,
  three calls; a play-state clock to 4, which orders any two recorded times
  before, between and after two live ones; two lists of up to four entries, two
  operations.
* `scan`: two folders, three paths of which at most two hold a file at the start,
  one recording in two qualities and one under other tags; two changes of the
  disk, two scans, one unreadable entry. Rules: every operator and kind of column
  over three rows, documents of one and two rules. Kinds: two jobs, one scan, one
  crash or failure over two tracks, a book and a copy.
* `curation`: two files, one editor beside enrichment and scans; `MaxStamp` bounds
  the writes, of which the last begins no write-back and crosses none
  (`LastStampAlone`), and one retag. Roots: a nested folder, a link and a mount, three
  libraries, removals of one row a batch, five operations: a removal and an addition
  take the id a scan still holds, with three left over.
* `entities`: three names over two items and three artists, two changes of the
  operator; two tracks in two folders with two titles and two MBIDs, three
  operations. Names and titles are symmetric: nothing but equality tells them
  apart.
* `enrichment`: two rows, two providers of which one serves only covers, one
  change from outside a pass (albums and groups are not forced, and only books
  have both rows); plans over a book with a copied part, a track twin and a file of
  no album, two applies; two items, one of them with a file of its own, three
  acquisitions and two events that say a url without a provider, three operations.

`CHECK_DEADLOCK FALSE` stands where these bounds end every behaviour. In
`handoff`, `handoff_two`, `files` and `catalog` deadlock is checked.

### 3.2 Fairness

`Handoff.Fairness`, `Playback.PlayFair` and the fairness of `Wire` and `Watch` in
`MCServices`, used for `HandoffEnds`, `CommandEnds`, `CallsReturn` and
`ServicesProgress`:

* weak fairness of the steps of a goroutine that has started: the Go scheduler
  runs what can run;
* strong fairness where a goroutine waits for a mutex others take and let go
  (`SrvServe`, `LockSteps`): Go's mutex hands itself to a waiter after a
  millisecond of starvation;
* strong fairness of `CliClose`: a command does finitely many pieces of work and
  then closes its store;
* for the watcher, weak fairness of its read loop, worker, request loop and
  timers (Go's runtime fires timers and gives each callback its turn), and strong
  fairness of a tick that reads the roots and of a rescan that gets the lease: a
  catalog that can be read, or a lease that is free, again and again is used some
  time;
* for the client, weak fairness of the goroutine that makes the call;
* none for starts, stops, interrupts, crashes, faults, the kernel or the user.

## 4. Abstractions

**Store and hand-off.** One lease scope, since scopes are separate rows. The
server's retry of sixty waits for the lock is one step that succeeds when the
lock is free and may give up only while somebody holds it. The host sets both
hooks and does not call `Reopen` on its own. A mutation that is proxied is a
piece of work of the server here; what it carries is `Proxied`'s.

**Files.** A file row and its bytes have one name. Rows of second or cut-off
copies are kept as the paths they hold and are not relinked. One library root;
retagging, sidecars, companions and the pruning of empty folders are left out. A
scan brings one path in line at a time. Recovery's transaction is a snapshot
that a failure puts back. A delete plan has one action; emptying the trash is a
sequence of purges and an undo is another plan. `PlansWait` names the plans a host
keeps as long as it likes; a plan it does not name is applied only while what it says
is true. `strayed` records a file whose plan was applied to a path it had left, and
one whose delete for good was cut off between the file and its row: what is said of
rows and deletes is said up to there. A trash folder that was freed stands for a
fresh one. A
crash loses plans kept in memory, a hand-over does not. The user does not touch
the places of a running move, except that the source may go while it is copied;
`UserRaces` adds a file put at the destination between its check and the rename.

**Playback.** A key is a user and an item. A position is numbered when it
reaches the buffer, so positions tell calls apart. Sections under `s.mu` are one
step; the checkpoint's reading of the clock, before it, is another. No process
crash is modelled: the buffer is lost with the process by design. Stamps of 0
are the column's NULL.

**Change feed and cache.** A path is the number of the transaction that wrote
it. `invalGen` is only compared with a lookup's snapshot, so each lookup keeps
whether it moved. An eviction takes any entry. `ChangesSince` is one step. A
query may reach the handle taken before a swap or the one after. A backup is an
earlier state of the catalog with its log, which the backup keeps whole (only
secrets are stripped). The data version is the file and its commits.

**Watch.** Roots do not overlap and no folder is more than two levels below its
root. An event names a folder and not the file in it. The system's event queue is
external: it loses events only by overflowing, which it reports. Symbolic links
are left out. A walk may pass by any folder it meets: with a warning, when the source
refuses the watch, or without a word, when the folder cannot be read; it goes on below
the former. `skipped` says which, `PassedBy` also those below them (finding 16).
`missed` exempts a folder of which the worker never met an event,
or met it so late that it forgot a folder that stands anew (section 6).

**Client and bus.** A frame is two chunks. The server answers requests in the
order it reads them. Bus rows are numbers; a catalog replaced during a hand-off is
`ChangeFeed`'s. A publish whose read fails may have sent some rows: the code reads them
all before it sends one, so the model's failure after a part of them is one step more
than it has. `unread` says that such a read failed, at a commit or at a reopen
(finding 17). A command's pids and values travel beside its options unread by
either half and are left out; a report is the set of facts it states: those the
command shows, and those only the process that did the work uses (what an entity
edit kept for its own write-back). Which errors the library gives is a constant;
of its refusals only those that options alone decide are spelled out. One command
and one request: commands meet in the library, not on the way to it.

**Podcasts.** A file's name begins with the pid of its episode, so episodes never
share one; the show's folder is one. `excuse` names what the code does not
promise against: a crash, a failure, two calls at once on one episode. A crash, an
error of `fileRow` or a refused attach whose clean-up fails leave a file that no row
names once the rename is done; a later download under the same name replaces it. A feed is
the first n episodes of a list, a validator the answer it came with.

**Scan.** A file is its content: the identity key of the item it belongs to, its
audio and its quality. The readers of a folder run in one order. **Books.** Kind
locks, missing files and titles are not modelled; a listener has one resume place
and one bookmark. Two exceptions are in the properties because the code makes
them: a fold into a twin takes the twin's finished mark, and a rip that joins a
book as finished counts whole (`book.go:190`, against the fold of
`fold.go:101`, which asks about each window). **Kinds.** A crash between the
drop of the lineage and the final write of the job leaves a report that names
nothing of what was folded (`kind.go:441`); `clouded` marks such changes and
`freed` what was unlocked meanwhile.

**Roots.** Case folds of Windows paths are left out. A reopen may fail at any of its
steps, with the roots before it registered, and the next hand-off finishes it, also
while a removal runs (finding 18). A reopen compares no roots
and an open skips stored podcast rows, though `serve.go` says it mirrors a
read-write open; mounts that do not answer are compared as spelled; a scan resolves
its libraries before it has the lease, and the id of the one it holds may be another's
by then; the inbox is not compared with stored
roots. `unchecked`, `unanswered` and `staleScan` mark the states these lead to.

**Fields.** One field at a time: a column with a credit beside it, one that falls
back to the file's name, a custom tag. `strayed` marks files that were given a
value other than the catalog's, or failed to be noted as unable to take it, and have not
been read since. Which values a file's format can hold is not said: any write may lose
its value. **Origins.** An older write-back that ends after a newer set pays the newer
debt, and an id without a provider is taken for anybody's; `byHand` says when the record
is as a hand left it. `OwnFile` names the items with a file that is theirs alone: an
episode, and a file that several items share, is owed nothing. A url and an id are held
to one acquisition, and an id to its provider; a url to a provider is not (finding 20).

**Entities.** One role of credit; genres, series and the choice among spellings
are left out; in `Albums` one artist is credited throughout. A group's year and the
sums of the rollups are not modelled, only whether a row that lags is queued.

**Enrichment.** Providers answer, have nothing or fail; documents, scores and the
response cache are left out. Ages count passes and idle time up to the larger of
the two windows. **Inbox.** One extension, one author, one spelling per name;
aligned years and spellings, links, companions and pruned folders are left out.

**Playlists.** The rule read before `SetPlaylistRule`'s transaction is part of its
step, since nothing read is written. Unseeded random rules are left out.
**SmartRules.** Fields stand for their classes, one per kind of conversion; alias
spellings are left out. It uses RECURSIVE operators over trees, as does `Kinds`.

**Art.** The rungs of artists, genres and episodes are left out, and enrichment's
markers for covers are `Enrich`'s. Pictures are names; a size is a number.
**Thumbs.** A reattach that read its flags before a damage was noted may attach
the damaged file again, a write after it may land in the marked file, and damage
found in a file moved aside marks the new one: all are steps of the model. So are
the three of `noteThumbsDamage`, a flag, the other flag and the mark, with a reopen
between them (`lateMark`, finding 14).

**Search.** Scores, subtitles, the tag column and aliases are left out, and bm25
may rank the rows it is given in any order. `crossed` marks a key that a repair
rewrote from a text read before a write that stored the stale key anew;
`orphaned` the answers whose pool an orphan row filled. An artist's tier is limited
by pid among the artists that share a fold, and the counts of `VerifyDerived` see
missing rows only.

## 5. Proofs

TLAPS proves these for every value of the constants that satisfies the named
assumptions; TLC evaluates the assumptions on each run.

* **HandoffProofs**, first part: the store. `StoreInv` adds to single ownership
  that connections never have a newer file than the path does, that until work is
  cut off the one live worker belongs to the process that can write and has the
  lease row of its file, and, without write faults, that rows and leases of an
  open store have a worker behind them: exclusion alone is not inductive, since a
  reclaim or a new lease must be known to meet no other holder. `StoreInvariance`
  carries it through the store's own steps.
* **HandoffProofs**, second part. A step of the hand-off is a store step or leaves
  the store alone (`StepRefines`, by construction), so `StoreInv` and with it
  `StoreSafe` (one writer, the owner's record, leases that exclude until they
  are cut off, live running rows) carry over. `HandoffInv` ties the handler's
  program point to the store's phase, the hooks, the owed steps and the bound
  connection; `HooksAlternate`, `PausedMeansClosed` and so `HandoffSafe` follow.
  `HolderInv` adds what a live connection's request, its handler and the command's
  program point say of each other, so that no second command can be granted before
  the first one's end or drop was handled; `HolderKeepsHandoffHolds` follows for
  any number of commands.
  `RunningRowIsLive` assumes no write faults (`IOFaults = FALSE`).
* **TrashProofs.** `TrashInv` says what a move in progress has done so far, which
  job runs it, and what rows and plans have to do with each other. It is
  needed because `NoBytesLost` is about the last copy of a file, and whether a
  removal takes the last one depends on which step of which move left the other.
  `TrashRecordedHolds` assumes nothing more; `NoBytesLostHolds` assumes that
  nobody puts a file at a move's destination between check and rename
  (`UserRaces = FALSE`): with that race the rename replaces the file.
* **TrashProofs**, second part: catalog and disk. `AgreeInv` says what every step
  leaves to recovery. The file of a row stands at the row's path, or a move of it is
  not settled; one move at most is not settled, in the journal or on its way to the
  trash, and its file is at the source or at the destination alone (`RowsOK`).
  A delete for good has a moment of its own (`DetachOK`): its row names nothing.
  Beside it: who works on that move (`UnsettledOK`), that rows saved by a recovery
  that may roll back fit the disk as the current ones do, what the move of the job
  has done so far (`TakingOK`, `JobOK`), and that the folder of a delete plan is empty until its
  job fills it (`PlansOK`). `CatalogMatchesDisk` alone is not inductive: it is silent
  while a job runs or a move waits for recovery. `CatalogMatchesDiskHolds` and
  `FilesNamedHolds` follow for any files, paths, trash folders and pids, with crashes
  and hand-overs at every step, either mode of delete, and plans of organize and of
  delete that wait. They assume `Faultless`, what the run `catalog` checks: no
  failing writes or disks and nobody at the tree by hand; and they speak of the steps
  up to one that makes a file stray. A catalog write that fails leaves the journal row
  of a move that was made to the next open, and a file moved by hand is the next scan's
  to find, so nothing is claimed of the rows then; finding 2 is what a stale plan does
  to them.
* **PlaybackProofs.** `StateInv` for the rows: the flag stamp covers every call
  that decided the flags, which is what makes `ReplayKeepsFlags` inductive.
  `PlayInv` for the service: who holds `flushMu` has the batch, positions are
  ordered buffer over batch over row, and the position of every checkpoint under
  way is accounted for. `CheckpointLands`, `WaitingIsNewer` and
  `NewestSurvivesUnlessOvertaken`, together `PositionsKept`, follow.
  `PlayHoldsAlways` states the three action properties of the rows as the run
  `podcasts` does.
* **PidPathProofs.** `PathInv` says where the news about a stale location is. A
  location the cache holds, or a lookup that no invalidation met is about to cache,
  is the catalog's; or a row that names it lies above the cursor; or a prune took
  that row and with it the cursor's place, so that the next poll reloads. The same
  holds of the poll's own position, with the rows of its page that are not applied
  yet. Two more things are needed for that. A data version that is still the
  catalog's was read when the log was as long as it is now, so a poll that skips the
  pull for it leaves nothing unread; and, since every one of these sentences is about
  the file that is there now, which handle, position and version are of which file.
  Nothing is claimed once a poll read on in a restored catalog without a sign of it
  (`missed`, finding 5) or while a suspend owes the reload. The index from files to
  items is kept exact beside it (`IndexExact`). `PathsHoldAlways` follows for any
  number of items, files, lookups, writes and restores.
* **ServicesProofs.** `WireInv` says that nothing is owed, or the framing is lost
  for good, or one answer is under way and where it is: asked for, taken by the
  server, half out or written; and that a call that reads has its own answer
  there. Counting frames alone is not inductive, since a half frame and a
  request that was cut in half must be told apart. `PairingHolds` follows, and
  `FramingKeepsPromise` maps every step to a step of `CallPromise` or a stutter.
  `BusInv` relates the store's phase, the transaction's stage, the suspend mark and
  the log's head; a row the listener lacks is in the channel, with the transaction
  that publishes it, or above the mark of a suspended store, unless a read of rows failed
  (`unread`); so `NoRowMissed`.
  `ProxyInv` follows one command: until it has sent its request nothing was asked;
  what is on the wire is the command in the wire's spelling (`OnWire`), and reading
  it undoes the spelling (`ArtCarried`, `PlayCarried`, `PlaylistCarried`), which
  needs that no option has a value the wire uses for another: no time of `"0"`, no
  guard of `"null"`. After that the library's verdict is in the reply, in the job's
  row, or told. `ToldTheVerdict` alone is not inductive, since a job's verdict
  changes after its reply. `ProxyHoldsAlways` follows for any errors of the library
  and any options together.
* **ServicesProofs**, last part: the watcher. `WatchInv` has three parts. `Shape`: what the variables hold, a
  watch goes with its folder and a folder with the one above it. `Flow`: a stale
  folder whose event was read is in the worker's queue, with the debouncer, with a
  callback, among the requests or in the loop's hands (`EventsKept`), and lies under
  a root of the set the callbacks look at. `Covered`: a folder below an armed root
  is watched, or an event on its way will have it watched or its root let go, unless a
  walk passed it or a folder above it by, or the watcher says degraded or missed
  something. A root itself is never armed and passed by at once, which is what lets the
  walk that arms it answer for the rest. What counts as missed has to look
  at the order of the events that wait (`Overtaken`), because a folder may be
  removed and made again while both events do. `WatchSafeHolds` for any tree, queue
  lengths and number of timers.
* **MetadataProofs**, first part: fields. `FieldsInv` has two halves. Rows: a row of the user or of
  enrichment records a value and another row none (`RowsShape`), what is recorded is
  the column's (`RowsTell`), and contributor rows name what the credit's row tells
  (`CreditTold`); without the last an edit through the column could not be known to
  drop the credit it contradicts. Files: `FillsLand` is about fields nobody curated, but
  a lock taken and let go through the other spelling leaves the fill's stamp as it
  was, so what is carried is `FillStands`, which looks at the fill's own row alone. It
  needs `FillWritten` (the write-back about to stamp the primary file has written the
  value that row tells, or noted it lost, unless the file has strayed), `WriteStands`
  (what a write-back has written stands in its file until it is paid, unless it was
  overtaken; `OwedPaid` is about that) and `NoneSkipped` (a stamp is
  never ahead of what the pass under way has read), since a stamp that lands also
  takes the file off the lost ones. `FieldsToldHolds` and `CurationKeptHolds` follow
  for any number of files, editors, values and retags; the values are finitely many
  and none is the model's name for nothing, for the file's name or for NULL.
* **MetadataProofs**, second part: enrichment. `EnrichInv` relates the pages and
  answers of a pass to rows that change meanwhile. `RowsAskedRight` needs
  `NamedRight`: an art target or answer without an MBID is of a row that had none
  then and has none since, because a pass looks for MBIDs and for art in different
  phases. That an owed lookup is not put off needs `OwedAreTame`: what is asked
  again and may be owed again was not owed, or is owed since this pass. That no pass
  asks twice is an argument about its sweeps. In the first one a phase only moves
  up its rows (`FirstSweepOnce`), and a page holds nothing that was asked
  (`PageUnasked`); for the later ones an answered lookup is `Quiet`: its marker is
  this pass's own, or settled, or too young, or its slot is filled, or it is
  owed with its old age and the sweep for owed lookups has walked past its row
  (`Behind`). The last case exists because a group whose provider was left out keeps
  its debt and its age. `AskedQuiet` says so of what was asked, except where an
  operator forces the phase and while the answer is on its way; `UnaskedQuiet` says
  it of a target's half that was not due, which the other half's due would bring back
  onto a page. `RowsAskedRightHolds` and `PassesKeepHolds` follow for any number of
  rows, any providers and what they serve, any ways to force a pass, and any changes
  from outside; rows are numbered from 1, and finitely many.
* **MetadataProofs**, third part: origins. `OriginsInv` adds to `HandsOwed` (what a
  hand changed stands in the item's own file, is owed to it or was more than the file
  can hold) that records keep their columns and that a stamp or a write-back under way
  is some item's. `LocksStandHolds` follows
  for any items, tags and events. That a fill keeps to one acquisition is a case
  analysis of `fillAcquisitionTx` (`FillSpeaksOfOne`), and `RecordsHoldAlways` has one
  hypothesis for it, `EventsOfOne`: an event is of one acquisition, whether it names the
  provider or not. Two acquisitions have two urls and two ids. The provider of a url is
  not part of what is proved (finding 20).
* **PodcastProofs**, first part: subscriptions. `FeedsInv` adds to the two invariants
  what a call under way knows: the row it read of its show, the address it asked and
  was answered from, and, for an add that keeps to its show, that this address is the
  show's and no login is about to change. Without that a write that comes late could
  not be told from one that moves the feed. `FeedsHoldAlways` follows for any
  callers, addresses and logins, any number of shows and of changes at the source;
  it assumes finitely many addresses and logins, none of which is the model's name
  for no address.
* **PodcastProofs**, second part: episode files. `PodInv` says that rows and files in
  place change under the lease only (`LeaseOK`, `RowsOK`), that a part file is written
  by the fetches of its episode only (`WritersOK`), that the file of a row about to be
  dropped is gone (`GoneFirst`), and, of each episode that no fault, crash or overlap
  hit, that one call at a time puts a file in place for it (`Alone`), what that call
  has of it (`PutOK`), that the file its row names is whole or its drop is under way
  (`Intact`), and that a file no row names waits for the attach, the supersede or the
  removal of a call (`Accounted`). `PresentIsWhole` is not inductive without the
  chunks a part has at each step of its fetch, and `NoOrphan`, which is about the
  moments when nothing runs, not without knowing whose every other file is.
  `EpisodesHoldAlways` follows for any callers, episodes and file names; an episode's
  place in the feed is a number from 1, and there is a file name.

The layout is the same in each: one lemma per action, a theorem that combines
them over `Next`, and a temporal step with PTL.

**Only model-checked.**

* Liveness is out of the prover's reach: `HandoffEnds`, `CommandEnds`,
  `CallsReturn`, `ServicesProgress`.
* `RulesHold`, `KindsHold`: their modules recurse over trees and logs, where the
  prover has no SMT backend.
* `SearchHolds`, `ListsHold`, `RootsHold`, `ScanHolds`, `ImportsHold`,
  `BooksHold`, `PidsKept`, `ThumbsHold`, `ArtStands`, and the properties of the run
  `entities`, have no theorem. Their modules choose maxima, sort or take
  whole pages; what the operators return is an induction over data.

## 6. Findings

No run of this project expects a violation. These disagreements between the code
and what it says of itself were met while modelling; where a property would fail,
it says what it exempts.

1. **A hand-off takes the lease from running work.** A call admitted before the
   running-job check takes its lease after it; `RunLeased` work has no row to see
   at all. The suspend leaves it running, the next open reclaims its lease, and a
   second holder runs beside it, against "A lease guarantees at most one mutating
   job per scope" (`jobs/jobs.go:2`). `StoreSafe` exempts work that was cut off.
2. **A stale plan acts on another file.** Nothing compares a delete plan's path
   with the row when it is applied, so after an organize run in between the file
   that moved into the path is removed; and `Hold` asks only whether something
   stands at an organize plan's source (`organize/organize.go:635`), though
   `waxbin.go:3203` says the plan is checked again. Also, a process that dies between
   the removal of a delete for good and its row (`trash/trash.go:664`) leaves a row
   that names nothing. `FilesNamed` and `CatalogMatchesDisk` hold, with plans that
   wait and both modes of delete, up to the step that does one of these (`strayed`).
3. **An older checkpoint overwrites a live tick.** `s.mu` is let go before
   `flushMu` is taken; the tick's own flush may pass, and the older position is
   written over it (`overtaken`).
4. **A reader sees neither buffer nor row.** Between the swap of the buffer and
   the write (`playback/playback.go:157`) the tick is in neither place `State`
   looks.
5. **A restore the cursor does not notice.** When the restored log's catalog row
   takes exactly the cursor's seq, `Changes` is empty and the cursor is not past
   the head: the cache keeps every location of the old catalog.
   `FreshUnlessMissed` shows that, within the bounds, nothing else leaves it stale.
6. **A late event forgets a folder that stands.** The live layer's `forget`
   (`watch/live.go:395`) never looks at the disk: when a folder is removed, made
   again and armed by its Created event before the Removed one is met, its watch is
   dropped until a sweep (`missed`).
7. **Transactions open at a subscribe are silent.** A transaction asks whether
   anybody listens when it begins (`store/sqlite/store.go:673`): a listener that
   subscribes and pulls while it is open is told neither way (`blind`).
8. **A restore probes the lock and lets it go** before it copies and renames
   (`cmd/waxbin/port.go:114`); an owner that opens in between has its file
   replaced (`CliProbe`, another command's `CliTake`, `CliRename`).
9. **A running row without a job.** The final write of a job may fail
   (`jobs/jobs.go:239`), against "a running row here means a live in-process job"
   (`store/sqlite/jobs.go:174`): `RunningRowIsLive` with `IOFaults` TRUE.
10. **`fsx.Move` checks and then renames** (`internal/fsx/fsx.go:68`): `NoBytesLost`
    with `UserRaces` TRUE.
11. **An orphan regains a credit.** `GCOrphans` may sweep a candidate that was
    credited and orphaned again within the grace window, though it is said to have
    "stayed orphaned past the grace window" (`waxbin.go:1884`).
12. **A debt is settled that was not paid.** `SettleTagWriteOwed` deletes the rows of
    the fields a write-back wrote, also the row a later edit of the field left
    meanwhile (`store/sqlite/tagowed.go:64`), though "a write-back that lands the
    value clears it" (`model/diagnostic.go:76`). `OwedPaid` allows it of the one file
    that a write-back has written which a later edit of the value, or another write of
    that file, overtook, and of nothing else.
13. **An empty group beside an unsupported rule** is kept by a partial export and
    matches everything, though `nsp.go` says such a rule is refused; an `inTheRange`
    of wrong arity exports but does not import.
14. **A damaged thumbnail file is marked too late.** `noteThumbsDamage` swaps two
    flags and marks the file in a later transaction (`store/sqlite/thumbdb.go:291`). A
    suspend and a reopen in between put the flags back and may attach the file, not
    marked yet; the mark then lands in a file that the store reads and writes and
    calls good, though "a file damaged under the last generation was marked so, and
    is replaced now" (`store/sqlite/store.go:212`). `ThumbsHold` exempts a mark that
    landed so.
15. **A fill counts as written in a file that cannot take it.** The note that a value
    was lost is a write of its own; when it fails that is logged and the file is stamped
    all the same (`tagwrite.go:606`), so the fill is not offered again and nothing says
    that it is missing until a scan reads the file. `FillsLand` exempts those files
    (`strayed`).
16. **A folder may go unwatched in silence.** `addTree` only logs a watch that the source
    refuses for another reason than its limit (`watch/live.go:489`) and says nothing of a
    folder it could not read (`watch/live.go:465`), though the watcher marks itself
    degraded so that partial coverage is not silent. `WatchSafe` claims every folder but
    those and what is below them.
17. **A reopen may hand out nothing.** `publishSince` returns when it cannot read the
    rows (`store/sqlite/changes.go:69`), as under a canceled reopen, and the suspend mark
    moves on (`store/sqlite/store.go:617`), though "the rows another process wrote in
    between have been published to subscribers" (`store/sqlite/store.go:629`).
    `NoGapUnlessBlind` exempts what was not read.
18. **A root comes back by an owed reopen.** `BeginMaintenance` finishes a half-failed
    reopen before it asks whether a job runs (`serve.go:59`): between the last batch of a
    removal and the removal of the root from the configuration it registers that root
    again (`waxbin.go:708`).
19. **A library id is used again.** `library.id` is a rowid without AUTOINCREMENT
    (`store/sqlite/migrations/0001_init/01_library.sql:15`), so a scan that resolved its
    libraries before its lease (`serverjobs.go:186`, `waxbin.go:4913`) may put the files
    of a root that was removed under the library that was added next. `RowsUnderRoot`
    exempts what follows such a scan (`staleScan`).
20. **A url beside another's provider.** `import --source-url` needs no `--provider`, and
    a record that holds a provider alone takes such a url, whoever's it is. What
    `fillAcquisitionTx` says is kept: "a record must never hold one part's url beside
    another's id" (`store/sqlite/acquisition.go:107`).

Smaller ones: a copy whose source stays and cannot be removed leaves two files
and one row, and what the pending row says of the disk is old when a later open in
the same process reads it (`store/sqlite/trashrecover.go:126`); a restore from the
trash cut off in a copy leaves a part of the file at its old path with nothing that
records it (`trash/trash.go:781`); `SetPlayed` stamps the first row it inserts with
the recorded time and an update with the later of two times
(`store/sqlite/playback.go:303`); a lookup over a lent handle that passed
`replacedErr` before a poll refused lookups caches a location of the old file until
the next poll; a changed cue deletes tracks it no longer declares without a trace
of what was heard in them.

## 7. Not modelled

Browse pages, facets, statistics and audit: what they return is SQLite's
evaluation. Tag parsing, decoding, loudness and fingerprints: signal processing
and adapters. HTTP limits, path comparison, disk probes: pure I/O. Configuration,
envelopes, error types, domain types: no state. Users and secrets: single-row
writes. Migrations: one baseline, modelled only as an open that fails. The part
file of a backup, redaction and cross-catalog references. `PROJECT.json` gives
the reason for each part.

## 8. Plan

1. Proofs: `OnePrimary` of `Scan`; `ListsHold` of `Playlists`.
2. Freshness of `PidPath` as a refinement of an abstract cache that is emptied at
   will.
3. Models: the part file of a backup and its publication; lyrics and custom tags;
   the queue and bookmarks of playback.
